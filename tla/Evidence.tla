------------------------------ MODULE Evidence ------------------------------
(***************************************************************************)
(* The life of an evidence image: one row of evidence_assets in D1, up to  *)
(* three objects in R2 and the links to reports, changed by concurrent     *)
(* requests of lib/evidence.ts and guarded by the triggers of migrations   *)
(* 0008 and 0011.  A request is a sequence of awaits; every action below   *)
(* is what one request does between two of them.                           *)
(***************************************************************************)
EXTENDS Naturals, FiniteSets, FiniteSetsExt

CONSTANTS
    Asset,            \* evidence IDs; one storeEvidenceFile call allocates one
    Report,           \* report IDs a link may name
    Moderator,        \* concurrent PATCH requests
    Deleter,          \* concurrent DELETE requests
    Editor,           \* concurrent report saves that sync their attachments
    Token,            \* deletion leases ("deletion-pending:<ms>:<uuid>")
    Ready,            \* assets whose upload completed before the behaviour starts
    Inputs,           \* PATCH bodies the moderators send
    Size,             \* original_size of every asset
    MaxFiles,         \* EVIDENCE_LIMITS.maxFiles
    MaxTotalSize,     \* EVIDENCE_LIMITS.maxTotalSize
    Faults,           \* which of "crash", "r2", "d1" may happen
    StalledDeleters   \* may a running deletion outlive its ten-minute lease?

ObjectKind == {"original", "backup", "derivative"}
State == {"uploading", "private_ready", "public", "withheld", "failed", "deleted"}
Caption == {"blank", "text"}
Input == [state   : {"keep", "private_ready", "public", "withheld"},
          report  : Report \union {"keep", "unlink"},
          caption : Caption \union {"keep"},
          review  : {"keep", "yes", "no"},
          pii     : BOOLEAN,
          hold    : {"keep", "yes", "no"}]

ASSUME EvidenceConstants ==
    /\ Token \cap {"null", "final"} = {}
    /\ Report \cap {"keep", "unlink"} = {}
    /\ "none" \notin Asset
    /\ IsFiniteSet(Asset)
    /\ Ready \subseteq Asset
    /\ Inputs \subseteq Input
    /\ Size \in [Asset -> Nat]
    /\ MaxFiles \in Nat /\ MaxTotalSize \in Nat
    /\ Faults \subseteq {"crash", "r2", "d1"}
    /\ StalledDeleters \in BOOLEAN

VARIABLES
    row,      \* evidence_assets
    stored,   \* per asset, the R2 objects that exist
    link,     \* report_evidence: caption per report and asset, "none" if no row
    up,       \* the upload request of every asset
    mod,      \* the moderation requests
    del,      \* the deletion requests
    sync,     \* the report saves
    aged      \* assets whose current deletion lease is ten minutes old

vars == <<row, stored, link, up, mod, del, sync, aged>>

Row == [state     : State \union {"absent"},
        deletedAt : Token \union {"null", "final"},
        reviewed  : BOOLEAN,     \* visible_pii_reviewed
        privacy   : BOOLEAN,     \* privacy_withheld
        hold      : BOOLEAN,     \* legal_hold
        deriv     : BOOLEAN,     \* derivative_key IS NOT NULL
        replaces  : Asset \union {"none"}]

NoRow == [state |-> "absent", deletedAt |-> "null", reviewed |-> FALSE,
          privacy |-> FALSE, hold |-> FALSE, deriv |-> FALSE, replaces |-> "none"]

Idle == [pc |-> "idle"]

Present(a) == row[a].state # "absent"
Leased(a) == row[a].deletedAt \in Token
Linked(r) == {a \in Asset : link[r][a] # "none"}
LinkedTo(a) == {r \in Report : link[r][a] # "none"}
TotalSize(S) == MapThenSumSet(LAMBDA a : Size[a], S)

(***************************************************************************)
(* Triggers.  A statement whose new row a trigger rejects aborts the whole *)
(* batch, so it changes nothing.  The definitions named Mutant... are the   *)
(* faulty variants with which the properties are shown to be violable.     *)
(***************************************************************************)
MutantPrivacyTriggers(old, new) == ~(new.state = "public" /\ new.privacy)

PrivacyTriggers(old, new) ==
    /\ old.privacy => new.privacy
    /\ ~(new.state = "public" /\ new.privacy)

HoldTrigger(new) ==
    ~(new.hold /\ (new.state = "deleted" \/ new.deletedAt \in Token))

LeaseGuard(old, new) ==
    old.deletedAt \in Token =>
        /\ ~new.hold
        /\ \/ new.state = "withheld" /\ new.deletedAt = "null"
           \/ /\ new.state = "withheld" /\ new.deletedAt \in Token
              /\ new.deletedAt # old.deletedAt
           \/ new.state = "deleted" /\ new.deletedAt = "final"

MayUpdate(old, new) ==
    PrivacyTriggers(old, new) /\ HoldTrigger(new) /\ LeaseGuard(old, new)

ReplacementTrigger(a, s) ==
    s # "none" => s # a /\ row[s].privacy /\ row[s].state = "withheld"

\* report_evidence_file_limit_insert and report_evidence_size_limit_insert,
\* evaluated against the links left by the earlier statements of the batch.
MutantFileTrigger(others, a) ==
    /\ Cardinality(others) <= MaxFiles
    /\ TotalSize(others) + Size[a] <= MaxTotalSize

MutantSizeTrigger(others, a) ==
    /\ Cardinality(others) < MaxFiles
    /\ TotalSize(others) <= MaxTotalSize

LinkTriggers(others, a) ==
    /\ Cardinality(others) < MaxFiles
    /\ TotalSize(others) + Size[a] <= MaxTotalSize

(***************************************************************************)
(* Upload: storeEvidenceFile.                                              *)
(***************************************************************************)
\* The objects are put one after the other, then the row is completed.
PutPc == [original |-> "put_original", backup |-> "put_backup",
          derivative |-> "put_derivative"]
AfterPut == [original |-> "put_backup", backup |-> "put_derivative",
             derivative |-> "commit"]

UploadGoto(a, pc) == up' = [up EXCEPT ![a].pc = pc]

\* The row is inserted first, as the recovery marker.
UploadInsert(a) ==
    /\ up[a].pc = "new"
    /\ \E s \in Asset \union {"none"} :
        /\ ReplacementTrigger(a, s)
        /\ row' = [row EXCEPT ![a] = [NoRow EXCEPT !.state = "uploading", !.replaces = s]]
    /\ UploadGoto(a, "sanitize")
    /\ UNCHANGED <<stored, link, mod, del, sync, aged>>

UploadSanitize(a) ==
    /\ up[a].pc = "sanitize"
    /\ \E pc \in {"put_original", "cleanup"} : UploadGoto(a, pc)
    /\ UNCHANGED <<row, stored, link, mod, del, sync, aged>>

UploadPut(a, k) ==
    /\ up[a].pc = PutPc[k]
    /\ up' = [up EXCEPT ![a].pc = AfterPut[k], ![a].kept = @ \union {k}]
    /\ stored' = [stored EXCEPT ![a] = @ \union {k}]
    /\ UNCHANGED <<row, link, mod, del, sync, aged>>

\* A put that throws is not remembered, whether or not R2 kept the object.
UploadPutFails(a, k) ==
    /\ "r2" \in Faults
    /\ up[a].pc = PutPc[k]
    /\ UploadGoto(a, "cleanup")
    /\ \E there \in SUBSET {k} : stored' = [stored EXCEPT ![a] = @ \union there]
    /\ UNCHANGED <<row, link, mod, del, sync, aged>>

\* UPDATE ... WHERE id = ? AND state = 'uploading'
ReadyRow(old) == [old EXCEPT !.state = "private_ready", !.deriv = TRUE]

UploadCommit(a) ==
    /\ up[a].pc = "commit"
    /\ row' = IF row[a].state = "uploading" THEN [row EXCEPT ![a] = ReadyRow(@)] ELSE row
    /\ UploadGoto(a, "verify")
    /\ UNCHANGED <<stored, link, mod, del, sync, aged>>

\* The batch fails, or its answer is lost after it was applied.
UploadCommitFails(a) ==
    /\ "d1" \in Faults
    /\ up[a].pc = "commit"
    /\ row' \in {row, IF row[a].state = "uploading"
                       THEN [row EXCEPT ![a] = ReadyRow(@)] ELSE row}
    /\ UploadGoto(a, "cleanup")
    /\ UNCHANGED <<stored, link, mod, del, sync, aged>>

UploadVerify(a) ==
    /\ up[a].pc = "verify"
    /\ UploadGoto(a, IF row[a].state = "private_ready" THEN "done" ELSE "cleanup")
    /\ UNCHANGED <<row, stored, link, mod, del, sync, aged>>

\* Promise.allSettled over the objects this request knows it stored.
UploadCleanup(a, k) ==
    /\ up[a].pc = "cleanup" /\ k \in up[a].kept
    /\ \/ /\ stored' = [stored EXCEPT ![a] = @ \ {k}]
          /\ up' = [up EXCEPT ![a].kept = @ \ {k}]
       \/ /\ "r2" \in Faults
          /\ \E gone \in SUBSET {k} : stored' = [stored EXCEPT ![a] = @ \ gone]
          /\ up' = [up EXCEPT ![a].kept = @ \ {k}, ![a].clean = FALSE]
    /\ UNCHANGED <<row, link, mod, del, sync, aged>>

\* DELETE FROM evidence_assets ... AND state = 'uploading': the delete guard and
\* the foreign keys of report_evidence and replaces_evidence_id may refuse it.
MayDeleteRow(a) ==
    /\ row[a].state = "uploading" /\ row[a].deletedAt = "null"
    /\ row[a].replaces = "none" /\ ~row[a].hold
    /\ LinkedTo(a) = {}
    /\ \A b \in Asset : row[b].replaces # a

\* An intake upload that cleaned up drops its marker; any other marks it failed.
\* Who uploads matters only here, so it is chosen here.
UploadRecord(a) ==
    /\ up[a].pc = "cleanup" /\ up[a].kept = {}
    /\ UploadGoto(a, "over")
    /\ LET failed == IF row[a].state = "uploading"
                       THEN [row EXCEPT ![a].state = "failed"] ELSE row
           dropped == [row EXCEPT ![a] = NoRow]
       IN row' \in {failed} \union (IF up[a].clean /\ MayDeleteRow(a) THEN {dropped} ELSE {})
                            \union (IF "d1" \in Faults THEN {row} ELSE {})
    /\ UNCHANGED <<stored, link, mod, del, sync, aged>>

UploadCrash(a) ==
    /\ "crash" \in Faults
    /\ up[a].pc \notin {"new", "done", "over"}
    /\ UploadGoto(a, "over")
    /\ UNCHANGED <<row, stored, link, mod, del, sync, aged>>

(***************************************************************************)
(* Moderation: moderateEvidenceAsset.  The row is read once; everything    *)
(* the final UPDATE writes comes from that snapshot, cur.                  *)
(***************************************************************************)
Transitions == [uploading |-> {"private_ready", "failed", "deleted"},
                private_ready |-> {"public", "withheld", "deleted"},
                public |-> {"withheld", "deleted"},
                withheld |-> {"private_ready", "public", "deleted"},
                failed |-> {"deleted"},
                deleted |-> {}]

NextState(cur, in) ==
    IF in.pii THEN "withheld" ELSE IF in.state = "keep" THEN cur.state ELSE in.state
NextPrivacy(cur, in) == cur.privacy \/ in.pii
NextReviewed(cur, in) ==
    NextPrivacy(cur, in) \/ IF in.review = "keep" THEN cur.reviewed ELSE in.review = "yes"
NextHold(cur, in) == IF in.hold = "keep" THEN cur.hold ELSE in.hold = "yes"

Allowed(cur, in) ==
    /\ cur.state \notin {"absent", "deleted"} /\ cur.deletedAt \notin Token
    /\ NextState(cur, in) \in Transitions[cur.state] \union {cur.state}
    /\ ~(NextPrivacy(cur, in) /\ NextState(cur, in) = "public")

Links(a) == [r \in Report |-> link[r][a]]
NoLinks == [r \in Report |-> "none"]
Named(links) == {r \in Report : links[r] # "none"}

\* A caption without a report edits the link only when there is exactly one.
EditsCaption(q) ==
    q.in.report = "keep" /\ q.in.caption # "keep" /\ Cardinality(Named(q.links)) = 1

NewCaption(q) ==
    CASE q.in.caption # "keep" -> q.in.caption
      [] q.in.caption = "keep" /\ q.from # "none" -> q.from
      [] OTHER -> "blank"

FutureLinks(q) ==
    CASE q.in.report \in Report -> [q.links EXCEPT ![q.in.report] = NewCaption(q)]
      [] q.in.report = "unlink" -> NoLinks
      [] EditsCaption(q) ->
           [r \in Report |-> IF q.links[r] # "none" THEN q.in.caption ELSE "none"]
      [] OTHER -> q.links

NeedsSource(q) ==
    q.in.report \in Report /\ q.cur.replaces # "none" /\ q.links[q.in.report] = "none"

\* Edits that neither publish nor name a report have nothing more to await.
Publishes(q) == NextState(q.cur, q.in) = "public"
AfterVerify(q) ==
    IF Publishes(q) \/ q.in.report \in Report THEN "capacity" ELSE "commit"
AfterLinks(q) == IF Publishes(q) THEN "verify" ELSE AfterVerify(q)

ModerateGoto(m, pc) == mod' = [mod EXCEPT ![m].pc = pc]
ModerateAbort(m) == mod' = [mod EXCEPT ![m] = Idle]

ModerateRead(m) ==
    /\ mod[m] = Idle
    /\ \E a \in Asset, in \in Inputs :
        /\ Allowed(row[a], in)
        /\ mod' = [mod EXCEPT ![m] = [pc |-> "links", a |-> a, in |-> in, cur |-> row[a],
                                      links |-> NoLinks, from |-> "none"]]
    /\ UNCHANGED <<row, stored, link, up, del, sync, aged>>

ModerateLinks(m) ==
    LET q == [mod[m] EXCEPT !.links = Links(mod[m].a)]
    IN /\ mod[m].pc = "links"
       /\ mod' = [mod EXCEPT ![m] = [q EXCEPT !.pc =
                     IF NeedsSource(q) THEN "source" ELSE AfterLinks(q)]]
       /\ UNCHANGED <<row, stored, link, up, del, sync, aged>>

\* A redacted file can only take over its source's link on the same report.
ModerateSource(m) ==
    LET from == link[mod[m].in.report][mod[m].cur.replaces]
    IN /\ mod[m].pc = "source"
       /\ \/ /\ from # "none"
             /\ mod' = [mod EXCEPT ![m].pc = AfterLinks(mod[m]), ![m].from = from]
          \/ from = "none" /\ ModerateAbort(m)
       /\ UNCHANGED <<row, stored, link, up, del, sync, aged>>

MutantMayPublish(q) ==
    /\ Named(FutureLinks(q)) # {}
    /\ \A r \in Report : FutureLinks(q)[r] # "blank"
    /\ q.cur.deriv /\ "derivative" \in stored[q.a]

MayPublish(q) ==
    /\ NextReviewed(q.cur, q.in)
    /\ Named(FutureLinks(q)) # {}
    /\ \A r \in Report : FutureLinks(q)[r] # "blank"
    /\ q.cur.deriv /\ "derivative" \in stored[q.a]

ModerateVerify(m) ==
    /\ mod[m].pc = "verify"
    /\ IF MayPublish(mod[m]) THEN ModerateGoto(m, AfterVerify(mod[m])) ELSE ModerateAbort(m)
    /\ UNCHANGED <<row, stored, link, up, del, sync, aged>>

\* The source whose link this request takes over on its report.
Transferred(q) == IF q.from = "none" THEN {} ELSE {q.cur.replaces}
Others(q, r) ==
    Linked(r) \ ({q.a} \union IF q.in.report = r THEN Transferred(q) ELSE {})

\* assertReportEvidenceInvariant, for the named report and for every report of
\* a publication.
ModerateCapacity(m) ==
    LET q == mod[m]
        checked == (IF q.in.report \in Report THEN {q.in.report} ELSE {})
                     \union IF Publishes(q) THEN Named(FutureLinks(q)) ELSE {}
    IN /\ q.pc = "capacity"
       /\ IF \A r \in checked : LinkTriggers(Others(q, r), q.a)
            THEN ModerateGoto(m, "commit") ELSE ModerateAbort(m)
       /\ UNCHANGED <<row, stored, link, up, del, sync, aged>>

\* UPDATE evidence_assets SET ... WHERE id = ?, whatever the row has become.
ModeratedRow(old, cur, in) ==
    [old EXCEPT !.state = NextState(cur, in), !.reviewed = NextReviewed(cur, in),
                !.privacy = NextPrivacy(cur, in), !.hold = NextHold(cur, in)]

ModeratedLinks(q) ==
    CASE q.in.report \in Report ->
           [link EXCEPT ![q.in.report] =
              [b \in Asset |-> IF b = q.a THEN NewCaption(q)
                               ELSE IF b \in Transferred(q) THEN "none" ELSE @[b]]]
      [] q.in.report = "unlink" -> [r \in Report |-> [link[r] EXCEPT ![q.a] = "none"]]
      [] EditsCaption(q) ->
           [r \in Report |-> [link[r] EXCEPT ![q.a] =
              IF q.links[r] # "none" /\ @ # "none" THEN q.in.caption ELSE @]]
      [] OTHER -> link

BatchAccepted(q) ==
    /\ IF Present(q.a)
         THEN MayUpdate(row[q.a], ModeratedRow(row[q.a], q.cur, q.in))
         ELSE q.in.report \notin Report          \* foreign key of the new link
    /\ q.in.report \in Report => LinkTriggers(Others(q, q.in.report), q.a)

ModerateCommit(m) ==
    LET q == mod[m]
    IN /\ q.pc = "commit"
       /\ IF BatchAccepted(q)
            THEN /\ row' = IF Present(q.a)
                             THEN [row EXCEPT ![q.a] = ModeratedRow(@, q.cur, q.in)] ELSE row
                 /\ link' = ModeratedLinks(q)
            ELSE UNCHANGED <<row, link>>
       /\ ModerateAbort(m)
       /\ UNCHANGED <<stored, up, del, sync, aged>>

(***************************************************************************)
(* Deletion: deleteEvidenceAsset.  deleted_at is the lease until the live  *)
(* objects are gone.                                                       *)
(***************************************************************************)
Fresh(t) ==
    /\ \A a \in Asset : row[a].deletedAt # t
    /\ \A d \in Deleter : del[d] # Idle => t \notin {del[d].token, del[d].seen}

DeleteRead(d) ==
    /\ del[d] = Idle
    /\ \E a \in Asset, t \in Token :
        /\ Fresh(t)
        /\ row[a].state \notin {"absent", "deleted"} /\ ~row[a].hold
        /\ Leased(a) => a \in aged
        /\ del' = [del EXCEPT ![d] = [pc |-> "claim", a |-> a, token |-> t,
                     seen |-> IF Leased(a) THEN row[a].deletedAt ELSE "null",
                     todo |-> {}, failed |-> FALSE]]
    /\ UNCHANGED <<row, stored, link, up, mod, sync, aged>>

\* The conditional UPDATE that takes the lease, or replaces a timed-out one.
MutantClaimsHeld(q) ==
    /\ Present(q.a) /\ row[q.a].deletedAt = q.seen
    /\ IF q.seen = "null" THEN row[q.a].state # "deleted" ELSE row[q.a].state = "withheld"

MutantClaimsAny(q) == Present(q.a) /\ ~row[q.a].hold /\ row[q.a].state # "deleted"

Claims(q) ==
    /\ Present(q.a) /\ ~row[q.a].hold /\ row[q.a].deletedAt = q.seen
    /\ IF q.seen = "null" THEN row[q.a].state # "deleted" ELSE row[q.a].state = "withheld"

DeleteClaim(d) ==
    LET q == del[d]
    IN /\ q.pc = "claim"
       /\ IF Claims(q)
            THEN /\ row' = [row EXCEPT ![q.a].state = "withheld", ![q.a].deletedAt = q.token]
                 /\ aged' = aged \ {q.a}
                 /\ del' = [del EXCEPT ![d].pc = "erase", ![d].todo =
                      {"original"} \union IF row[q.a].deriv THEN {"derivative"} ELSE {}]
            ELSE /\ del' = [del EXCEPT ![d] = Idle]
                 /\ UNCHANGED <<row, aged>>
       /\ UNCHANGED <<stored, link, up, mod, sync>>

DeleteObject(d, k) ==
    LET q == del[d]
    IN /\ q.pc = "erase" /\ k \in q.todo
       /\ \/ /\ stored' = [stored EXCEPT ![q.a] = @ \ {k}]
             /\ del' = [del EXCEPT ![d].todo = @ \ {k}]
          \/ /\ "r2" \in Faults
             /\ \E gone \in SUBSET {k} : stored' = [stored EXCEPT ![q.a] = @ \ gone]
             /\ del' = [del EXCEPT ![d].todo = @ \ {k}, ![d].failed = TRUE]
       /\ UNCHANGED <<row, link, up, mod, sync, aged>>

\* WHERE ... legal_hold = 0 AND state = 'withheld' AND deleted_at = lease
MutantHoldsLease(q) ==
    /\ row[q.a].deletedAt = q.seen
    /\ row[q.a].state = "withheld" /\ ~row[q.a].hold

HoldsLease(q) ==
    /\ row[q.a].deletedAt = q.token
    /\ row[q.a].state = "withheld" /\ ~row[q.a].hold

MutantErased(q) == q.todo = {}

Erased(q) == q.todo = {} /\ ~q.failed

DeleteRelease(d) ==
    LET q == del[d]
    IN /\ q.pc = "erase" /\ q.todo = {} /\ ~Erased(q)
       /\ IF HoldsLease(q)
            THEN /\ row' = [row EXCEPT ![q.a].deletedAt = "null"]
                 /\ aged' = aged \ {q.a}
            ELSE UNCHANGED <<row, aged>>
       /\ del' = [del EXCEPT ![d] = Idle]
       /\ UNCHANGED <<stored, link, up, mod, sync>>

DeleteFinalize(d) ==
    LET q == del[d]
    IN /\ q.pc = "erase" /\ Erased(q)
       /\ IF HoldsLease(q)
            THEN /\ row' = [row EXCEPT ![q.a].state = "deleted", ![q.a].deriv = FALSE,
                                       ![q.a].deletedAt = "final"]
                 /\ link' = [r \in Report |-> [link[r] EXCEPT ![q.a] = "none"]]
                 /\ aged' = aged \ {q.a}
            ELSE UNCHANGED <<row, link, aged>>
       /\ del' = [del EXCEPT ![d] = Idle]
       /\ UNCHANGED <<stored, up, mod, sync>>

\* The request dies, or its closing statement fails, and the lease stays.
DeleteAbandon(d) ==
    /\ {"crash", "d1"} \cap Faults # {}
    /\ del[d] # Idle
    /\ del' = [del EXCEPT ![d] = Idle]
    /\ UNCHANGED <<row, stored, link, up, mod, sync, aged>>

\* Ten minutes pass since a lease was taken.
LeaseAges(a) ==
    /\ Leased(a) /\ a \notin aged
    /\ StalledDeleters \/ \A d \in Deleter : del[d] # Idle => del[d].token # row[a].deletedAt
    /\ aged' = aged \union {a}
    /\ UNCHANGED <<row, stored, link, up, mod, del, sync>>

(***************************************************************************)
(* Attachment sync: buildReportEvidenceLinkStatements, then its batch.     *)
(***************************************************************************)
SyncStart(e) ==
    /\ sync[e] = Idle
    /\ \E r \in Report, want \in SUBSET Asset, c \in Caption :
        /\ Cardinality(want) <= MaxFiles
        /\ sync' = [sync EXCEPT ![e] = [pc |-> "check", report |-> r, want |-> want,
                                        left |-> want, caption |-> c]]
    /\ UNCHANGED <<row, stored, link, up, mod, del, aged>>

SyncCheck(e, a) ==
    /\ sync[e].pc = "check" /\ a \in sync[e].left
    /\ sync' = IF row[a].state \notin {"absent", "deleted"}
                 THEN [sync EXCEPT ![e].left = @ \ {a}]
                 ELSE [sync EXCEPT ![e] = Idle]
    /\ UNCHANGED <<row, stored, link, up, mod, del, aged>>

\* DELETE every link of the report, INSERT the wanted ones.
SyncCommit(e) ==
    LET q == sync[e]
        accepted == TotalSize(q.want) <= MaxTotalSize /\ \A a \in q.want : Present(a)
    IN /\ q.pc = "check" /\ q.left = {}
       /\ link' = IF accepted
                    THEN [link EXCEPT ![q.report] =
                            [a \in Asset |-> IF a \in q.want THEN q.caption ELSE "none"]]
                    ELSE link
       /\ sync' = [sync EXCEPT ![e] = Idle]
       /\ UNCHANGED <<row, stored, up, mod, del, aged>>

-----------------------------------------------------------------------------
Init ==
    /\ row = [a \in Asset |-> IF a \in Ready THEN ReadyRow(NoRow) ELSE NoRow]
    /\ stored = [a \in Asset |-> IF a \in Ready THEN ObjectKind ELSE {}]
    /\ link = [r \in Report |-> [a \in Asset |-> "none"]]
    /\ up = [a \in Asset |-> [pc |-> IF a \in Ready THEN "done" ELSE "new",
                              kept |-> IF a \in Ready THEN ObjectKind ELSE {}, clean |-> TRUE]]
    /\ mod = [m \in Moderator |-> Idle]
    /\ del = [d \in Deleter |-> Idle]
    /\ sync = [e \in Editor |-> Idle]
    /\ aged = {}

\* What an upload does on its own, whatever fails.
UploadStep(a) ==
    \/ UploadSanitize(a) \/ UploadCommit(a) \/ UploadVerify(a) \/ UploadRecord(a)
    \/ \E k \in ObjectKind : UploadPut(a, k) \/ UploadCleanup(a, k)

UploadFault(a) ==
    \/ UploadCommitFails(a) \/ UploadCrash(a)
    \/ \E k \in ObjectKind : UploadPutFails(a, k)

ModerateStep(m) ==
    \/ ModerateLinks(m) \/ ModerateSource(m) \/ ModerateVerify(m)
    \/ ModerateCapacity(m) \/ ModerateCommit(m)

DeleteStep(d) ==
    \/ DeleteClaim(d) \/ DeleteRelease(d) \/ DeleteFinalize(d)
    \/ \E k \in ObjectKind : DeleteObject(d, k)

SyncStep(e) == SyncCommit(e) \/ \E a \in Asset : SyncCheck(e, a)

Next ==
    \/ \E a \in Asset : UploadInsert(a) \/ UploadStep(a) \/ UploadFault(a) \/ LeaseAges(a)
    \/ \E m \in Moderator : ModerateRead(m) \/ ModerateStep(m)
    \/ \E d \in Deleter : DeleteRead(d) \/ DeleteStep(d) \/ DeleteAbandon(d)
    \/ \E e \in Editor : SyncStart(e) \/ SyncStep(e)

Spec == Init /\ [][Next]_vars

\* A request that has begun goes on; nobody is obliged to send one.
FairSpec ==
    /\ Spec
    /\ \A a \in Asset : WF_vars(UploadStep(a))
    /\ \A m \in Moderator : WF_vars(ModerateStep(m))
    /\ \A d \in Deleter : WF_vars(DeleteStep(d))
    /\ \A e \in Editor : WF_vars(SyncStep(e))

-----------------------------------------------------------------------------
(* Properties.                                                             *)

ModPc == {"links", "source", "verify", "capacity", "commit"}
ModRequest == [pc : ModPc, a : Asset, in : Inputs, cur : Row,
               links : [Report -> Caption \union {"none"}], from : Caption \union {"none"}]
DelRequest == [pc : {"claim", "erase"}, a : Asset, token : Token, seen : Token \union {"null"},
               todo : SUBSET ObjectKind, failed : BOOLEAN]
SyncRequest == [pc : {"check"}, report : Report, want : SUBSET Asset, left : SUBSET Asset,
                caption : Caption]
UploadPc == {"new", "sanitize", "put_original", "put_backup", "put_derivative", "commit",
             "verify", "cleanup", "done", "over"}
UploadRequest == [pc : UploadPc, kept : SUBSET ObjectKind, clean : BOOLEAN]

\* Every row, link and request record keeps the shape its table or handler gives it.
TypeOK ==
    /\ row \in [Asset -> Row]
    /\ stored \in [Asset -> SUBSET ObjectKind]
    /\ link \in [Report -> [Asset -> Caption \union {"none"}]]
    /\ up \in [Asset -> UploadRequest]
    /\ mod \in [Moderator -> ModRequest \union {Idle}]
    /\ del \in [Deleter -> DelRequest \union {Idle}]
    /\ sync \in [Editor -> SyncRequest \union {Idle}]
    /\ aged \in SUBSET Asset

\* An image withheld for visible personal information is on no way to the
\* public, however many stale edits or upload steps race with the decision.
PiiStaysPrivate ==
    \A a \in Asset : row[a].privacy => row[a].state \in {"private_ready", "withheld", "deleted"}

\* That decision is never undone: no publication or edit decided from an earlier
\* read, no upload step and no deletion clears it or makes the image public.
PiiDecisionIsPermanent ==
    [][\A a \in Asset : row[a].privacy =>
         /\ row'[a].privacy
         /\ row'[a].state \in {"private_ready", "withheld", "deleted"}]_vars

\* Evidence under legal hold is neither being deleted nor deleted: a hold set
\* while a deletion starts, or a deletion started while a hold is set, loses.
HoldBlocksDeletion ==
    \A a \in Asset : row[a].hold => ~Leased(a) /\ row[a].state # "deleted"

\* The deletion lease takes the image out of public delivery at once, and
\* keeps it out until it is given back or used.
LeaseIsPrivate ==
    \A a \in Asset : Leased(a) => row[a].state = "withheld" /\ ~row[a].hold

\* While a lease is out, only its holder changes the row, when it ends, or a
\* later deletion that saw this very lease and takes its place once it has timed
\* out, changing nothing else: moderation and hold changes wait.
LeaseIsExclusive ==
    [][\A a \in Asset : Leased(a) /\ row'[a] # row[a] =>
         \E d \in Deleter :
             \/ del[d] # Idle /\ del'[d] = Idle /\ del[d].token = row[a].deletedAt
             \/ /\ a \in aged
                /\ del[d] # Idle /\ del[d].pc = "claim" /\ del[d].seen = row[a].deletedAt
                /\ row'[a] = [row[a] EXCEPT !.deletedAt = del[d].token]]_vars

\* What a public row promises: a person reviewed it, it is not withheld and it
\* names a sanitized derivative, although the request that published it decided
\* all three from an earlier read.
PublicIsReviewed ==
    \A a \in Asset : row[a].state = "public" /\ row[a].deletedAt = "null" =>
        row[a].reviewed /\ ~row[a].privacy /\ row[a].deriv

\* Five files and 20 MiB of originals per report hold when links and saves race
\* for the last slot and the last bytes.
LinkLimits ==
    \A r \in Report : Cardinality(Linked(r)) <= MaxFiles /\ TotalSize(Linked(r)) <= MaxTotalSize

\* The source of a redacted replacement stays recorded, and withheld from the public.
ReplacementSourceStaysWithheld ==
    \A a \in Asset : row[a].replaces # "none" => row[row[a].replaces].privacy

\* A report never links a row that is gone.
LinksNameRows == \A r \in Report : \A a \in Linked(r) : Present(a)

\* While no deletion outlives its lease, none erases an object of completed
\* evidence under hold ("A legal hold can delay it").
HoldStopsErasure ==
    [][\A a \in Asset : row[a].hold /\ up[a].pc = "done" => stored[a] \subseteq stored'[a]]_vars

\* A tombstone of completed evidence has no live original.
TombstoneHasNoOriginal ==
    \A a \in Asset : row[a].state = "deleted" /\ up[a].pc = "done" => "original" \notin stored[a]

\* A deletion that goes on gives its lease back or finishes, also when R2 fails.
LeaseResolves == \A a \in Asset : Leased(a) ~> ~Leased(a)

-----------------------------------------------------------------------------
(* A claim of the code that the code does not keep.                        *)

\* TRANSITIONS: nothing follows "deleted" ("Deleted evidence cannot be changed.").
DeletedIsFinal ==
    [][\A a \in Asset : row[a].state = "deleted" => row'[a].state = "deleted"]_vars
=============================================================================
