# A verification development for scam-reports.org

scam-reports.org is a community site on Cloudflare Workers: members submit
reports with image evidence, moderators publish them, other members review and
discuss them, and background jobs send notifications and mirror ranks to
Discord. All state is in one D1 (SQLite) database and in three R2 buckets.

The hard part of this code is the same everywhere. D1 offers no interactive
transactions: a request is a sequence of `await`s, each a single statement, an
atomic batch or a call to another service. Between two of them other requests
and overlapping cron invocations run, and a request may die. What keeps the data
right is put into conditional `UPDATE`s, unique indexes, foreign keys, triggers
and leases. These modules check that it suffices, and record where it does not.

Paths below are relative to the repository root; `lib/` holds the program logic,
`drizzle/` the migrations with the triggers.

## 1. Inventory

| Component | State | Operations | What is hard about it | What makes it correct |
|---|---|---|---|---|
| Evidence (`lib/evidence.ts`, 0008, 0011) | `evidence_assets`, `report_evidence`, objects in R2 (original, backup, derivative) | upload, moderate (PATCH), delete (DELETE), link with a report save | stale reads, deletion leases that time out, R2 failing halfway, a dying upload | withheld personal information never becomes public; holds stop deletion; a lease is exclusive; limits per report hold; tombstones leave no original |
| Notification outbox (`lib/notifications.ts`, `lib/admin-operations.ts`) | `notification_outbox` | enqueue, cron delivery, retry by an administrator | overlapping crons, accepted but unrecorded sends, lost leases | nothing is lost, reported as sent when it was not, or tried for ever |
| Discord rank sync (`lib/discord-rank-sync.ts`, `lib/discord-api.ts`, 0016, 0018) | `discord_rank_sync`, its circuit, roles at Discord | triggers raise a job, cron invocations reconcile it, orphans are purged | rank changes during a job, calls that time out but take effect, outlived leases | a row marked synced is current; roles follow ranks in the end |
| Accounts (`lib/auth-*.ts`, `lib/admin-accounts.ts`, 0005, 0010, 0013) | `accounts`, `account_identities`, `auth_sessions`, `auth_magic_links`, `auth_settings` | sign in, link, unlink, bootstrap, change role or status, delete | two requests on one account, administrators acting on each other, stale roles | an administrator remains; old sessions stay invalid; links work once |
| Report family (`lib/reports.ts`, `lib/report-merge.ts`, `lib/report-query.ts`, 0007, 0012, 0015) | `reports`, `report_evidence`, counters | create, edit, withdraw, merge, unmerge; directory, page, neighbours, delivery of images | a merge decides from a preflight, only triggers look again; every public read has a query of its own | families are flat; all reads of a family agree |
| Intake (`lib/community-intake.ts`, `lib/intake-security.ts`, routes) | submissions, appeals, their images; comments | file a case with images, decide, remove; reply | images are stored before the row exists and rolled back; two removals at once; `parent_id` without foreign key | a committed case keeps its images, a removed one leaves none; no page quotes what it does not show |
| Reviews (`lib/reviews.ts`, 0007, 0012) | `reviews`, `review_revisions`, rating counters | write, edit, moderate, remove | decisions on a row read before; four computations of one rating | nothing undecided or rejected is public; the ratings agree |
| Moderator applications (`lib/moderator-applications.ts`, 0013) | applications, roles | apply, withdraw, rule, expire, redact | a ruling races withdrawal, suspension and other rulings | the role goes to who has earned it; every application's answers are erased |
| Rate limits (`lib/abuse-protection.ts`) | `rate_events` | consume, delete expired | concurrent requests at the limit, late statements | never more than the limit in a window |
| Security monitor (`lib/discord-security-monitor.ts`, `lib/security-events.ts`) | a leased row, one Discord message; observations and incidents | poll, roll up, purge; edit or post | overlapping crons, lost answers, events fetched twice | one message; alerts that are true |
| Discord status (`lib/discord-status.ts`) | a row without lease, one message | edit, post, forget, disable | publishers overlap, compare-and-set | a missing message stays forgotten |
| Backups (`worker/backup-workflow.ts`) | `backup_runs`, objects, manifests | export, store, record, retain | replayed steps; runs that trim each other's kind | a complete run has its snapshot |
| Scores (`lib/reputation.ts`, `lib/community-ranks.ts`, `lib/public-analytics.ts`) | none: functions | score, rank, progress | computed by SQL and JavaScript, which round differently | both agree |
| The staff's screens (`components/admin-dashboard.tsx`, `components/admin/*`, `components/admin-*-panel.tsx`) | editor, lists, dialog, spinner | draft, save and link, decide, ask, page | answers arrive when the screen shows something else | a submission links to its own draft; nobody waits in vain; the rows shown were asked for |
| The rest: routing, request helpers, parsing, image processing, the public pages, scripts | none of their own | | | stateless |

How they interact: routes under `app/api` call `lib/`; the cron entry of
`worker/index.ts` starts the minute jobs (outbox, rank sync, security monitor,
status) and the five-minute maintenance, and nothing prevents an invocation from
overlapping the previous one. Accounts feed rank sync through triggers: every
change of an identity, a status or approved activity raises a job. Stored events
feed the outbox in the batch that stores them. An accepted application changes
a role by trigger. Evidence is linked to reports by report saves and moderation,
comes in with cases and goes with them and with reports. Reviews, cases and
replies hang on a report and go with it by foreign key; a merge looks at the
reviews of both sides. The staff's screens hold copies of all of these.

`PROJECT.json` lists every component with its status and every hazard with the
line where it bites.

## 2. Modules

| Module | Models | Checked by | Proved in |
|---|---|---|---|
| `Evidence`, judged by `Inventory` | evidence; what the operator's inventory makes of it | `MCEvidence`, four configurations | `EvidenceProofs` |
| `Outbox`, implementing `Delivery` | the outbox; what it promises | `MCOutbox` | `OutboxProofs` |
| `RankSync` | rank synchronisation and the page about it | `MCRankSync`, two configurations | `RankSyncProofs` |
| `Accounts` | accounts, identities, sessions, links | `MCAccounts`, two configurations | `AccountsProofs` |
| `Community` = `Reviews` + `Intake` + `Comments`, each over `Reports` | reports and all that members attach to them, over one database | `MCCommunity`, two configurations | `FamilyProofs`, `IntakeProofs`, `ReviewProofs` |
| `Operations` = `Applications`, `Monitor`, `Incidents`, `StatusBoard`, `Backup`, `RateLimit`, `Scores`, `Panel`, `Dialogs`, `Queues` | the parts that share no state, side by side | `MCOperations` | `OperationsProofs` |

All modules share one form. The tables are functions from keys to records. A
request or an invocation is a record with a `pc` naming the statement it will
execute next and the values it has read so far; one action is one statement, one
batch or one outside call, triggers and cascades included. Where the code
computes something pure between two awaits, it belongs to the action of the
earlier await or the later one, as no one else can see it. Operators named
`Mutant...` stand before the operator they distort: each is a plausible bug with
which one of the properties is violated.

### Evidence

`row` is `evidence_assets`, `stored` the objects of each asset, `link`
`report_evidence` with its caption (blank or not). `up`, `mod`, `del` and `sync`
are the requests: `storeEvidenceFile` (UploadX), `moderateEvidenceAsset`
(ModerateX), `deleteEvidenceAsset` (DeleteX) and
`buildReportEvidenceLinkStatements` with its batch (SyncX).

- A moderation request reads the row once (`cur`) and writes everything from
  that snapshot with an `UPDATE ... WHERE id = ?`; only triggers
  (`MayUpdate`) stand between a stale snapshot and the table.
- A deletion takes a lease by a conditional `UPDATE` (`Claims`), erases objects,
  and finishes or gives the lease back with another (`HoldsLease`). `aged` are
  the leases older than ten minutes, which a later deletion may take over.
- `Faults` says what may fail: R2 calls (with or without effect), D1 batches
  (applied or not), whole requests. `StalledDeleters` lets a running deletion
  outlive its lease.

### Outbox and Delivery

`Outbox` has `notification_outbox` (`row`), the invocations of
`processNotificationOutbox` (`job`, `batch`) and `accepted`, the messages of
which a provider holds a copy. Instead of times, `due` says whether
`next_attempt_at` has come, and `holder` whose lease it is. `Delivery` is the
abstract promise with four states per message; `Phase` maps a row to it.

### RankSync

`want` is the level an account earns, `linked` the identities with an account,
`row` the job, `roles` and `guild` the state at Discord. A generation, like a row
id, is only compared for equality with one read earlier, so raising it is modelled
by its effects: the lease is dropped (`Bumped`) and no earlier selection finds
the row (`Hidden`). The code's `desired_rank_level` is written and never read for
a decision, the number of attempts only sets the length of the backoff;
both are left out. `seedMissingRows` adds a row for an identity that has none;
`LinkedHasRow`, which is proved, shows that it finds nothing to add. `Shown` is what
`getDiscordRankSyncStatus` tells the member. Roles
that are not managed are neither read nor changed by the code.

### Accounts

`account` (status, role, `role_version`), `owner` (the account of each identity),
`session`, `link` (the email links) and `marker` (the bootstrap claim). Requests
run `completeDiscordAuthorization`, `issueMagicLink`, `consumeMagicLink`,
`resolveIdentity`, `maybeClaimBootstrapAdmin`, `unlinkIdentity`,
`rotateSessionsForAccount`, `createSession`, `updateAdminAccount` and
`deleteAdminAccount` statement by statement.

- Times are left out: a session or link may end at any moment, and a provider
  confirmed in a session stays confirmed. This allows more behaviour than the
  code, never less, except that a run cannot see a refusal for an old confirmation.
- The two reads of the session in `requireConfirmedAdminMutation` are one; so are
  the two `SELECT`s of `updateAdminAccount`, whose `UPDATE` repeats their checks.
- Handles and their collisions, CSRF tokens and the OAuth transaction are left out.
- The number of sessions is finite: a request waits for a free session id.

### Community: Reports, Reviews, Intake, Comments

`Reports` has the rows of `reports` as far as a family is concerned (publication,
the canonical report, attached images, the counter) and one process per admin
request (`edit`). The merge's reads run in one `Promise.all` and are one step; its
checks and its `UPDATE` follow, and `MergeAllowed` and `DeleteAllowed` are the
triggers of 0015. The public reads are operators: `Listed`, `PageImages`, `Newer`,
`Older`, `Delivered`, `ResolvesTo`, each translated from its own SQL.

`Reviews` adds rows, revisions and the counters that the triggers of 0007 maintain;
the number of a revision stands for its text and its rating. `Intake` follows a
request that stores images, inserts its case and, if the insert does not answer,
rolls back what was not committed; and two moderators who decide and remove.
One image is one step there, as `Evidence` has its steps. `Comments` are the replies.
`Community` composes them: a merge counts the members who reviewed both sides,
and the removal of a report takes reviews, appeals and replies with it.

### Operations and its parts

Ten modules that touch disjoint state. `Operations` lets one part be at work in a
behaviour (`part`), since what the others do changes nothing for it; this keeps
ten state spaces side by side instead of multiplied.

- `Applications`: rows with the triggers of 0013, requests at two moderation desks,
  and both retention jobs. "old" stands for the ninety days both wait for.
- `Monitor`: the lease on `security_monitor_state`; a message carries the name of the
  run that posted it; `causes` counts what has gone wrong.
- `Incidents`: polls in discrete time, one at a time under the monitor's lease. A poll gets
  the newest events of its look-back, no more than an answer holds (`Fetchable`, 250), stores
  them in batches (`Batch`, 40) of which the later ones may fail, and lists the largest active
  incidents, no more than fit (`Listable`, 8). The id of an observation is made of what it
  holds, so hits of one time that are alike count as one event, as in
  `security-events.ts:430`. A pattern stands for address, country, network, action, rule and path;
  the deletion of incidents after their retention, longer than all other times, is left out.
- `StatusBoard`: no lease; a publisher writes where webhook and message are those
  it read. The compare-and-set ignores `delivery_state`, so a slow publisher
  that remembers its message can make a row active that another has disabled,
  and two publishers who find no row both post, one message being remembered.
- `Backup`: durable steps, retried; each run lists and deletes stale objects of both
  kinds; a deletion that fails may have taken any of its keys, as nothing says that
  `bucket.delete` takes all or none. A run whose retention fails is recorded as failed although its backup is
  complete (`backup-workflow.ts:251`), and if that step fails too it stays
  "running"; the model has both.
- `RateLimit`: a request takes the time, and its single statement runs up to `Delay`
  later. `Scores`: exact fractions, halves rounded as each language does.
- `Panel`: drafts, saves and links in two moderators' dashboards; `Dialogs`: handlers
  that go through none, one or two dialogs, with or without a `try`; `Queues`: the
  other panels' lists, of which each behaviour has one.

## 3. Runs

| Run | Question | Result |
|---|---|---|
| `evidence_races` | two moderators with stale reads and two deletions that may die or outlive their lease, on one image | reviews, personal-information decisions, holds and leases survive, and no decision made meanwhile is undone; afterwards the inventory finds rows and objects in agreement |
| `evidence_uploads` | an upload that meets R2 errors races with moderation and deletion of its own row | no tombstone keeps an original; every lease resolves; nothing under hold is erased |
| `evidence_links` | moderation, report saves and the upload of a redacted replacement compete for the last slot and byte of a report | limits hold |
| `evidence_deletedIsFinal` | does anything follow a tombstone? | **violated** |
| `outbox` | does the outbox implement `Delivery`, with one sender, and settle every event? | holds, liveness included |
| `ranksync` | does the page tell the truth, and do roles follow ranks? | holds, liveness included |
| `ranksync_removed` | is a removed role gone for good? | **violated** |
| `accounts` | identities, links, administrators and sessions under two requests at a time | holds |
| `accounts_staff` | do staff keep both sign-in methods? | **violated** |
| `community` | families, public reads, ratings, moderation queues, cases and replies in nine scenarios; does anything refer to what is gone? | holds |
| `reviews_unmoderated` | was every public review text approved? | **violated** |
| `operations` | each part by itself: grants, erasure, one message, true alerts, the status row, backups, rate windows, scores, panels, dialogs, lists | holds, liveness included |

### Bounds, and why they suffice

- *Evidence.* The rules concern one row and the requests on it, so one image with
  two moderators and two deletions covers a stale read against a finished change
  and a lease taken over from a slow holder. Links need three images and one
  report: a source, its replacement and a competitor; `MaxFiles = 1` and
  `MaxTotalSize = 2` with sizes 1, 1 and 3 make both limits bite. The PATCH bodies
  (`Inputs`) are chosen per run to reach the states its properties mention.
- *Outbox.* Two messages and two invocations give overlapping selections;
  two faults allow a lost send to be followed by an outlived lease; two attempts
  reach both a retry and exhaustion; one administrator retry meets them all.
- *RankSync.* One identity, as rows interact only through the order of a batch and
  the circuit; two levels, so that a role must be replaced; three changes, so that
  an identity can be linked, unlinked and linked again during one job; two faults.
- *Accounts.* Two accounts (administrators against each other), two identities per
  provider, two sessions, one link, two clients, and `MaxRequests = 3` requests,
  expiries or failures from any state at rest: `Init` is every consistent
  assignment of identities, roles and sessions, so no request is spent on
  building one.

- *Community.* Two reports make a family; a third makes the chain a merge must not
  build and the neighbour a page links to. Nine scenarios (`MCCommunity`) let one
  part be busy while reports change: merges that overtake each other, images
  that move between reports, two removals of one image, two authors, a merge
  under an author, the removal of a reviewed report, a filed case, an appeal, replies
  across a merge. Each request appears once (`edits`), two run at a time, so each
  can meet each between any two of its statements. Three revisions reach an edit
  of an edit that was decided; one fault reaches a lost answer, a storage error or
  a death at every step. Editors, clients, desks and members are symmetric.
- *Operations.* `Applications`: two at one desk for the jobs' batches (`BatchLimit = 1`), one at two
  desks while an account changes once. `Monitor`, `StatusBoard`: three
  invocations, as two overlap and a third finds what they left; two faults,
  or two interventions by hand. `Incidents`: four events of three
  patterns, one of an action that is not counted, and a threshold of two, times scaled
  to ticks so that look-back (2) < activity (3) < retention (4), with a day
  boundary at 5 of 7 ticks; two events to an answer, one to a batch and one incident to the list, so that each
  limit is reached; `Gap` bounds the pause between polls. `Backup`: three runs of two
  kinds and one kept, so that the second weekly one makes the first stale.
  `RateLimit`: four requests, a limit of two, a window of three ticks. `Scores`:
  all totals of up to 20 reviews with each verdict, all points up to the top of the
  ladder. `Panel`: two submissions, two panels, two calls. `Dialogs`: three
  handlers, one more than it takes to replace a dialog. `Queues`: three views, three requests.

`CHECK_DEADLOCK FALSE` everywhere: the systems stop when nobody sends a request
or the bounds on environment events are used up.

### Fairness

A request that has begun goes on (weak fairness of its steps): a worker that is
neither crashed nor stuck executes its next statement. Crashes are separate
actions under no fairness. The cron trigger keeps firing, and backoffs and
abandoned leases elapse. Nobody is obliged to send a request, so there is no
fairness for the actions that start one, nor for administrators, members or faults. Deletions that
outlive their lease and faults are bounded where liveness is claimed: a service
that fails for ever settles nothing.

In `Operations` only the two retention jobs and the passing of the ninety days are
fair: the cron runs them every five minutes, and `AnswersAreErased` needs nothing else.

Weak fairness of `Work(w)` as one disjunction is enough for the jobs: at most
one kind of step is enabled in an invocation at a time, except for the order in
which it takes up a batch, which is finite.

### What the violated runs show

1. **`DeletedIsFinal`** (`lib/evidence.ts:1213`). A moderation request reads a row;
   a deletion takes its lease, erases the objects and writes the tombstone;
   the moderation `UPDATE` then writes its old state over it. The lease guard
   protects the row only while the lease is out. The row comes back without
   objects, with `deleted_at` set, so that it cannot be deleted again. The same
   unconditional `UPDATE` has milder effects: an edit of a caption writes back an
   old `legal_hold`, state or review that another moderator has changed since.
2. **`RemovedRolesStayRemoved`** (`lib/discord-rank-sync.ts`). The lease is checked one
   await before a role is added. If the identity is unlinked at that point and a
   second invocation completes the cleanup, the row is deleted and the role added
   afterwards is remembered nowhere.
3. **`StaffKeepBoth`** (`lib/auth-accounts.ts:373`). Unlinking decides from the role the
   session was read with and deletes unconditionally; a promotion in between
   leaves a staff account with one provider.
4. **`PublicTextWasApproved`** (`lib/reviews.ts:455`). An author's edit reads the row while
   nothing is approved and so writes the new text into the row itself; the
   earlier revision is approved in between. Rejecting the edit then finds an
   approved revision, sets the status back to Approved and leaves the
   rejected text in place.

Further consequences the models reach without a property about them:

- `lib/evidence.ts:1453`: deletion erases the derivative when `derivative_key` is set, but
  an upload that died before its completing `UPDATE` has left one no column names.
- `lib/evidence.ts:532`: after completing the row, the upload reads it back and
  expects `private_ready`; a moderator who has withheld it in between makes the
  upload discard all objects of a valid row.
- `components/admin-dashboard.tsx:308-397`: a handler without a `try` whose request is
  lost leaves the spinner on until the next load (`stuck` in `Dialogs`).
- `components/admin-accounts-panel.tsx:148`: a save reloads the page it was begun on, even
  if another has been asked for since (the exception in `ListedWasAsked`).

Two more, of statements in `Accounts`: two concurrent unlinks, one per provider, leave an account
without a sign-in method; and a request that dies between the bootstrap `UPDATE` and
the `INSERT` of its marker leaves the bootstrap account able to claim the role again.

## 4. Proofs

The proofs hold for every value of the constants: any number of images,
messages, identities, accounts, requests and faults. They assume the named
`ASSUME` of each module, which TLC evaluates in the runs. Each proof module
follows one argument: an inductive invariant `IInv`, `Init => IInv`,
`IInv /\ [Next]_vars => IInv'`, and the theorems from it.

- **Evidence.** Why an inductive strengthening is needed: the final `UPDATE` writes
  from a stale snapshot. `IInv` adds what is still known of a snapshot
  (`SnapshotInv`): a snapshot with a privacy decision has a state that permits it; a
  derivative seen once is there until deletion. The proof first shows that every
  step moves a row in one of a few ways (`RowStep`), then that each way keeps
  each conjunct. Theorems: `TypeCorrect`, `PiiStaysPrivateForever`
  (a withheld image is not public), `PiiDecisionKept` (and no later edit takes the decision back or
  leads to any state but private or deleted), `HoldsProtect`, `LeasesArePrivate`, `PublicRowsAreReviewed`,
  `SourcesStayWithheld`, `LinksStayValid`. Three further arguments stand on `IInv`:
  - *Limits.* `LimitInv` adds that a save names no more files than fit.
    `LimitsOfLinks` follows from the triggers and from lemmas on `TotalSize`, a sum over
    a set: that any two orders of adding sizes agree is shown by a smallest
    counterexample, as induction is not available.
  - *Leases.* `LeaseInv`: the token of a deletion that has not claimed yet is in no row
    and in nobody's memory, no two deletions have the same token, and a lease that
    a deletion found timed out and still finds there is an old one. The steps of all other requests leave
    leases alone (`OthersKeepLeases`, from the trigger `LeaseGuard`), and a deletion's
    step is one of five moves (`DeletionMoves`). Hence `LeasesAreExclusive`: the holder ends its lease, or
    a deletion that saw it age replaces the time of the lease and nothing else. With
    `HolderInv`, which needs `~StalledDeleters`, whoever erases holds the lease, so
    the image is not under hold (`HeldImagesAreNotErased`). `TombInv` says what a holder
    has done when nothing failed; hence `TombstonesAreEmpty`.
  - *Inventory.* `CleanInv` says for each phase of a deletion which objects are there.
    `InventoryStaysClean` assumes what its run assumes: all uploads are over
    (`Ready = Asset`) and R2 calls succeed (`"r2" \notin Faults`). Without either, objects
    do stay behind, and the inventory is right to report them.
- **Outbox.** `IInv` relates an invocation to the row it works on: the holder of a
  row's lease is at work on it, and attempts beyond the limit are paid for by faults
  (`AttemptsBounded`). `LateInv` counts the senders that hold no lease any more, each
  paid for by a fault; with the holder they are all (`NobodySendsTwice`).
  `OutboxKeepsPromise` is the refinement: every step of `Outbox` is
  a step of `Delivery` or leaves it unchanged. Its core is that an invocation
  completes a row only after an accepted send.
- **RankSync.** `JobOK(w)`: an invocation that still holds its lease has seen no change
  of rank or identity since its claim, because every change drops the lease. Hence what it
  writes is current (`SyncedStaysCurrent`), and the row it deletes belongs to
  nobody (`LinkedKeepsRow`); from both follows what the page shows
  (`PagesTellTheTruth`).
- **Accounts.** Role versions only grow, and a session or request never carries a newer
  version than its account (`VersionsAreOld`, `RequestOK`). What a request
  carries is either still true or checked again by the statement that writes. From this follow
  `NothingGetsOrphaned`, `ProvidersAreUnique`, `LinksWorkOnce`, `AnAdminRemains` and
  `RevocationIsFinal`, the last by a lemma on how one step may move an account.

- **Community.** Every safety property of the `community` run, in three modules, as the
  parts write to different tables. `FamilyInv` is the triggers of 0015 seen from the
  requests: a request past its preflight has a record of what it found, and nothing but the
  trigger makes it still true when it writes; flatness, the counters, and the image
  links come from it, and from them the agreement of the six public reads
  (`FamiliesStayFlat`, `PublicReadsAgree`). `IntakeInv` says of each file which request
  may still take it away: a rolled-back post never holds a file of a committed case,
  and the lease of a removal is held by one desk (`LeasesApart`); hence
  `CommittedCasesKeepEvidence` and `RemovedCasesLeaveNothing`. `CommentInv` gives
  `QuotedRepliesAreShown`. `ReviewInv` has the rows, the pending requests, the order of
  updates and the triggers' counters, which equal a sum over a set of reviews in
  every state; `QueueHoldsUndecided`, `RatingsAlwaysAgree` and `CommunityTypes` follow.
  `NamesInv` adds that authors, the reports of cases and the rows of images outlive what names them:
  a rollback deletes rows of its own request alone, and a request that may still file its case has
  the rows of all it stored; hence `NothingDangles`, for all four tables.
- **Operations.** A step of `Operations` is a step of one part and leaves the others alone
  (`StepsApart`), so each of the ten parts has an inductive invariant of its own. The ones that
  took thought: `StatusInv` (every message a publisher saw or that is remembered as
  missing was posted before, so a new one is different); `PanelInv` (a link on its way
  names a draft of the submission it is sent for); `ApplicationInv` (an application has
  its applicant for good, so the guarded `UPDATE` rules on the one that was read);
  `BackupInv` (whatever list a run trims from, and however far a deletion gets, it leaves as many later
  snapshots as are kept, `Doomed` and `Staying`; that the last few of a finite sequence are
  enough needs its last element); `MonitorInv` (a message that the row does not remember, or an
  invocation about to leave one, is paid for by a fault); `IncidentInv` (a count is that of
  different events close together, `CountIsTrue`, and what the last poll did not list is not active or no larger
  than the full list it lost to, `ListIsTrue`); `RateInv` (an accepted request that a later one must count
  still has its event). `QueueInv` and `DialogInv` say who will end a wait. `ScoresAlwaysAgree`
  needs no history: the two roundings differ only below zero, where the scale ends,
  division keeps the order, and a rank is found by cases over the six steps of the ladder.
  `OperationsTypes` puts the ten invariants together (`PartsInv`).

What the constants must satisfy beyond being of the right kind is little: `Asset` is finite (sizes
are summed), the scenarios of `Community` and `Operations` have the fields and bounds that
`Init` reads (`ScenariosConstants`), there is at least one request in `Queues`, the kinds of the backup runs
are a sequence, and a poll neither looks back further, nor counts an incident as active longer, than events are kept
(two, fifteen and twenty minutes in the code).

Model-checked only: the four liveness properties (`LeaseResolves`, `EventsAreSettled`,
`RolesFollowRanks`, `AnswersAreErased`), which are beyond the prover: they need fairness and `ENABLED`.
Every invariant and every action property of a passing run is a theorem. The four violated
runs are counterexamples and nothing is proved about them.

## 5. Plan

What is left, in order of importance:

1. `Applications` as a refinement of the step `AcceptApplication` of `Accounts`, and a rank
   job's triggers driven by the activity of `Reviews` instead of a free choice.
2. An abstract specification of a deletion (live, claimed, erased) that `Evidence` implements,
   by the moves of `RowStep`.
3. `InventoryIsClean` with uploads under way: an upload that ends well leaves the three objects
   of its row, which needs an invariant on `kept` and `stored`.

### Not modelled

- Request parsing, cryptography, image decoding, wording: stateless. What they decide appears as
  a guard or a choice (a request is well-formed, a session is confirmed, an image is accepted).
- The members' pages and all rendering: they show the answer to one request and hold nothing
  that a later request relies on. The staff's screens do, and are modelled for it.
- The purge of backups ninety days after a deletion (`lib/maintenance.ts`): the ninety days do not
  pass in `Evidence`, nor for `Inventory`.
- The staging gate, headers and caches of `worker/index.ts`; the health checks behind the status
  message; the operator scripts besides the inventory, which run by hand against copies.
- The audit log, except that it is written: no statement reads it to decide anything.
- Connections lost in the middle of a D1 batch other than as "applied or not": D1 batches are atomic.
