------------------------------ MODULE RankSync ------------------------------
(***************************************************************************)
(* lib/discord-rank-sync.ts: the website rank of an account mirrored as    *)
(* one Discord role.  A job row per Discord identity is claimed with a     *)
(* lease by overlapping cron invocations, which compare the member's roles *)
(* with the rank and change them one API call at a time.  Every change of  *)
(* rank or identity raises the generation of the row, by database trigger, *)
(* and so voids the lease.                                                 *)
(*                                                                         *)
(* A generation, like the id of a row, is only ever compared for equality  *)
(* with one that was read before.  Raising it is modelled by what it does: *)
(* the lease is dropped and no earlier selection finds the row.            *)
(***************************************************************************)
EXTENDS Naturals, FiniteSets

CONSTANTS
    Subject,     \* Discord identities
    Worker,      \* invocations of processDiscordRankSync at a time
    TopLevel,    \* the highest rank
    MaxChanges,  \* bound: changes of rank, identity and guild membership
    MaxFaults    \* bound: failing calls, crashes and outlived leases

ASSUME RankSyncConstants ==
    /\ "none" \notin Subject \union Worker
    /\ TopLevel \in Nat \ {0}
    /\ MaxChanges \in Nat /\ MaxFaults \in Nat

VARIABLES
    linked,    \* identities that belong to an account
    want,      \* the level the account earns; 0: none, suspended or no account
    row,       \* discord_rank_sync
    circuit,   \* discord_rank_sync_control: circuit_open_until is in the future
    guild,     \* identities that are members of the guild
    roles,     \* managed roles of every member, as levels
    job,       \* the invocations
    batch,     \* the rows every invocation still has to claim
    changes, faults

vars == <<linked, want, row, circuit, guild, roles, job, batch, changes, faults>>

Level == 1 .. TopLevel

\* "purged": deleted after its 30 days, "absent": never there or cleaned up.
Row == [status  : {"absent", "purged", "pending", "leased", "synced", "not_in_guild",
                   "failed", "terminal"},
        owned   : BOOLEAN,                   \* account_id is not null
        due     : BOOLEAN,                   \* the time its status waits for has come
        holder  : Worker \union {"none"},    \* lease_token
        applied : 0 .. TopLevel]             \* null is 0

Deleted(status) ==
    [status |-> status, owned |-> FALSE, due |-> FALSE, holder |-> "none", applied |-> 0]
NoRow == Deleted("absent")

Exists(s) == row[s].status \notin {"absent", "purged"}

\* A job before it has read anything.
Fresh(pc, s, owned) ==
    [pc |-> pc, subject |-> s, owned |-> owned, want |-> 0, unwanted |-> {}, add |-> FALSE]
Resting == Fresh("idle", "none", FALSE)

Goto(w, pc) == job' = [job EXCEPT ![w].pc = pc]
Rest(w) == job' = [job EXCEPT ![w] = Resting]
\* The next row of the batch.
Advance(w) == job' = [job EXCEPT ![w] = Fresh("next", "none", FALSE)]

\* The claim of an earlier selection misses the row, which is then skipped.
Hidden(s) == [w \in Worker |-> batch[w] \ {s}]

Me(w) == job[w].subject
\* WHERE generation = ? AND status = 'leased' AND lease_token = ?
HoldsLease(w) == row[Me(w)].status = "leased" /\ row[Me(w)].holder = w

-----------------------------------------------------------------------------
(* The website.                                                            *)

Change == changes < MaxChanges /\ changes' = changes + 1

\* What every trigger, and a member who asks, does to the row.
Bumped(s, owned) ==
    [row EXCEPT ![s].status = "pending", ![s].owned = owned, ![s].due = TRUE,
                ![s].holder = "none"]

Bump(s, owned) ==
    /\ row' = Bumped(s, owned)
    /\ batch' = Hidden(s)
    /\ UNCHANGED <<circuit, job, faults>>

\* An identity is linked to an account, at once or again.
Link(s) ==
    /\ Change
    /\ s \notin linked
    /\ linked' = linked \union {s}
    /\ \E l \in Level : want' = [want EXCEPT ![s] = l]
    /\ Bump(s, TRUE)
    /\ UNCHANGED <<guild, roles>>

\* The identity or its account is deleted.
Unlink(s) ==
    /\ Change
    /\ s \in linked
    /\ linked' = linked \ {s}
    /\ want' = [want EXCEPT ![s] = 0]
    /\ Bump(s, FALSE)
    /\ UNCHANGED <<guild, roles>>

\* Approved activity changes, the account is suspended or restored, the identity
\* moves to another account, or the member asks for a synchronisation.
Rerank(s) ==
    /\ Change
    /\ s \in linked
    /\ \E l \in 0 .. TopLevel : want' = [want EXCEPT ![s] = l]
    /\ Bump(s, TRUE)
    /\ UNCHANGED <<linked, guild, roles>>

\* purgeExpiredDiscordRankOrphans, 30 days after the account went.
Purge(s) ==
    /\ Exists(s) /\ ~row[s].owned
    /\ row' = [row EXCEPT ![s] = Deleted("purged")]
    /\ batch' = Hidden(s)
    /\ UNCHANGED <<linked, want, circuit, guild, roles, job, changes, faults>>

\* A member joins the guild, or leaves it and loses every role.
JoinOrLeave(s) ==
    /\ Change
    /\ guild' = IF s \in guild THEN guild \ {s} ELSE guild \union {s}
    /\ roles' = [roles EXCEPT ![s] = {}]
    /\ UNCHANGED <<linked, want, row, circuit, job, batch, faults>>

\* A backoff, a reconciliation interval or an abandoned lease runs out.
Elapse(s) ==
    /\ row[s].status \in {"failed", "synced", "not_in_guild", "leased"} /\ ~row[s].due
    /\ \A w \in Worker : Me(w) = s => ~HoldsLease(w)
    /\ row' = [row EXCEPT ![s].due = TRUE]
    /\ UNCHANGED <<linked, want, circuit, guild, roles, job, batch, changes, faults>>

CircuitElapses ==
    /\ circuit
    /\ circuit' = FALSE
    /\ UNCHANGED <<linked, want, row, guild, roles, job, batch, changes, faults>>

-----------------------------------------------------------------------------
(* processDiscordRankSync.                                                 *)

MutantClaimable(s) == row[s].due /\ row[s].status \in {"pending", "failed", "leased"}

Claimable(s) ==
    /\ row[s].due
    /\ row[s].status \in {"pending", "failed", "leased", "synced", "not_in_guild"}

DueRows == {s \in Subject : Claimable(s)}

Start(w) ==
    /\ job[w].pc = "idle" /\ ~circuit /\ DueRows # {}
    /\ Goto(w, "preflight")
    /\ batch' = [batch EXCEPT ![w] = DueRows]
    /\ UNCHANGED <<linked, want, row, circuit, guild, roles, changes, faults>>

\* preflightManagedRoles, then closeCircuit.
Preflight(w) ==
    /\ job[w].pc = "preflight"
    /\ circuit' = FALSE
    /\ Goto(w, "next")
    /\ UNCHANGED <<linked, want, row, guild, roles, batch, changes, faults>>

Leased(w, s) ==
    [row EXCEPT ![s].status = "leased", ![s].holder = w, ![s].due = FALSE]

Claimed(w, s) == job' = [job EXCEPT ![w] = Fresh("activity", s, row[s].owned)]

Claim(w, s) ==
    /\ job[w].pc = "next" /\ s \in batch[w] /\ Claimable(s)
    /\ row' = Leased(w, s)
    /\ Claimed(w, s)
    /\ batch' = Hidden(s)
    /\ UNCHANGED <<linked, want, circuit, guild, roles, changes, faults>>

Finish(w) ==
    /\ job[w].pc = "next" /\ batch[w] = {}
    /\ Rest(w)
    /\ UNCHANGED <<linked, want, row, circuit, guild, roles, batch, changes, faults>>

\* activityForSyncRow: the account the claimed row named, if the identity is
\* still its own.  "owned" now says that there is one.
ReadActivity(w) ==
    /\ job[w].pc = "activity"
    /\ LET found == job[w].owned /\ Me(w) \in linked
       IN  job' = [job EXCEPT ![w].pc = "member", ![w].owned = found,
                              ![w].want = IF found THEN want[Me(w)] ELSE 0]
    /\ UNCHANGED <<linked, want, row, circuit, guild, roles, batch, changes, faults>>

ReadMember(w) ==
    /\ job[w].pc = "member"
    /\ IF Me(w) \in guild
         THEN job' = [job EXCEPT ![w].pc = "verify",
                        ![w].unwanted = roles[Me(w)] \ {job[w].want},
                        ![w].add = job[w].want # 0 /\ job[w].want \notin roles[Me(w)]]
         ELSE Goto(w, "gone")
    /\ UNCHANGED <<linked, want, row, circuit, guild, roles, batch, changes, faults>>

\* leaseIsCurrent, which guards every call that changes a role.
Verify(w) ==
    /\ job[w].pc = "verify"
    /\ IF ~HoldsLease(w) THEN Advance(w)
       ELSE Goto(w, IF job[w].unwanted # {} THEN "remove"
                    ELSE IF job[w].add THEN "add" ELSE "finish")
    /\ UNCHANGED <<linked, want, row, circuit, guild, roles, batch, changes, faults>>

RemoveRole(w) ==
    /\ job[w].pc = "remove"
    /\ \E l \in job[w].unwanted :
         IF Me(w) \in guild
           THEN /\ roles' = [roles EXCEPT ![Me(w)] = @ \ {l}]
                /\ job' = [job EXCEPT ![w].pc = "verify",
                                    ![w].unwanted = job[w].unwanted \ {l}]
           ELSE Goto(w, "gone") /\ UNCHANGED roles
    /\ UNCHANGED <<linked, want, row, circuit, guild, batch, changes, faults>>

AddRole(w) ==
    /\ job[w].pc = "add"
    /\ IF Me(w) \in guild
         THEN roles' = [roles EXCEPT ![Me(w)] = @ \union {job[w].want}] /\ Goto(w, "finish")
         ELSE Goto(w, "gone") /\ UNCHANGED roles
    /\ UNCHANGED <<linked, want, row, circuit, guild, batch, changes, faults>>

-----------------------------------------------------------------------------
(* finishSuccess and finishFailure.                                        *)

Close(w, status) ==
    [row EXCEPT ![Me(w)].status = status, ![Me(w)].due = FALSE, ![Me(w)].holder = "none"]

Succeeded(w) ==
    IF ~job[w].owned THEN [row EXCEPT ![Me(w)] = NoRow]
    ELSE [Close(w, "synced") EXCEPT ![Me(w)].applied = job[w].want]

\* The outcomes an invocation records; auth has opened the circuit before.
Failure == {"retry", "limited", "terminal", "auth"}

Outcome(w) ==
    CASE job[w].pc = "finish" -> Succeeded(w)
      [] job[w].pc = "gone" /\ ~job[w].owned -> Succeeded(w)
      [] job[w].pc = "gone" /\ job[w].owned -> Close(w, "not_in_guild")
      [] job[w].pc \in {"retry", "limited"} -> Close(w, "failed")
      [] job[w].pc \in {"terminal", "auth"} -> Close(w, "terminal")

MutantSettled(w) == IF HoldsLease(w) \/ ~job[w].owned THEN Outcome(w) ELSE row

Settled(w) == IF HoldsLease(w) THEN Outcome(w) ELSE row

\* The row is settled, hidden from older selections by its new times.
Settle(w) ==
    /\ job[w].pc \in {"finish", "gone"} \union Failure
    /\ row' = Settled(w)
    /\ IF HoldsLease(w) THEN batch' = Hidden(Me(w)) ELSE UNCHANGED batch
    /\ IF job[w].pc \in {"limited", "auth"} THEN Rest(w) ELSE Advance(w)
    /\ UNCHANGED <<linked, want, circuit, guild, roles, changes, faults>>

-----------------------------------------------------------------------------
(* Faults.                                                                 *)

Fault == faults < MaxFaults /\ faults' = faults + 1

\* What a call that failed may have done all the same.
MayTakeEffect(w) ==
    \/ UNCHANGED roles
    \/ /\ job[w].pc = "add" /\ Me(w) \in guild
       /\ roles' = [roles EXCEPT ![Me(w)] = @ \union {job[w].want}]
    \/ /\ job[w].pc = "remove" /\ Me(w) \in guild
       /\ \E l \in job[w].unwanted : roles' = [roles EXCEPT ![Me(w)] = @ \ {l}]

PreflightFails(w) ==
    /\ Fault
    /\ job[w].pc = "preflight"
    /\ circuit' = TRUE
    /\ Rest(w)
    /\ UNCHANGED <<linked, want, row, guild, roles, batch, changes>>

CallFails(w) ==
    /\ Fault
    /\ job[w].pc \in {"member", "remove", "add"}
    /\ MayTakeEffect(w)
    /\ \E f \in Failure : Goto(w, f) /\ circuit' = (circuit \/ f = "auth")
    /\ UNCHANGED <<linked, want, row, guild, batch, changes>>

\* finishSuccess throws, applied or not: the failure is then recorded.
FinishThrows(w) ==
    /\ Fault
    /\ job[w].pc = "finish"
    /\ \/ UNCHANGED <<row, batch>>
       \/ HoldsLease(w) /\ row' = Settled(w) /\ batch' = Hidden(Me(w))
    /\ Goto(w, "retry")
    /\ UNCHANGED <<linked, want, circuit, guild, roles, changes>>

\* The invocation dies, or a statement outside its try block throws.
Crash(w) ==
    /\ Fault
    /\ job[w].pc # "idle"
    /\ MayTakeEffect(w)
    /\ Rest(w)
    /\ UNCHANGED <<linked, want, row, circuit, guild, batch, changes>>

\* The two minutes of a lease count from the start of its invocation, not from
\* the claim: a slow one outlives it, or claims a row with a lease that is over.
Outlives(s) ==
    /\ Fault
    /\ row[s].status = "leased" /\ ~row[s].due
    /\ \E w \in Worker : Me(w) = s /\ HoldsLease(w)
    /\ row' = [row EXCEPT ![s].due = TRUE]
    /\ UNCHANGED <<linked, want, circuit, guild, roles, job, batch, changes>>

ClaimsLate(w, s) ==
    /\ Fault
    /\ job[w].pc = "next" /\ s \in batch[w] /\ Claimable(s)
    /\ row' = [Leased(w, s) EXCEPT ![s].due = TRUE]
    /\ Claimed(w, s)
    /\ batch' = [batch EXCEPT ![w] = @ \ {s}]
    /\ UNCHANGED <<linked, want, circuit, guild, roles, changes>>

-----------------------------------------------------------------------------
Init ==
    /\ linked = {} /\ guild = Subject
    /\ want = [s \in Subject |-> 0]
    /\ row = [s \in Subject |-> NoRow]
    /\ circuit = FALSE
    /\ roles = [s \in Subject |-> {}]
    /\ job = [w \in Worker |-> Resting]
    /\ batch = [w \in Worker |-> {}]
    /\ changes = 0 /\ faults = 0

Website(s) == Link(s) \/ Unlink(s) \/ Rerank(s) \/ Purge(s) \/ JoinOrLeave(s)

Work(w) ==
    \/ Start(w) \/ Preflight(w) \/ Finish(w) \/ ReadActivity(w) \/ ReadMember(w)
    \/ Verify(w) \/ RemoveRole(w) \/ AddRole(w) \/ Settle(w)
    \/ \E s \in Subject : Claim(w, s)

Faulty(w) ==
    \/ PreflightFails(w) \/ CallFails(w) \/ FinishThrows(w) \/ Crash(w)
    \/ \E s \in Subject : ClaimsLate(w, s)

Next ==
    \/ \E w \in Worker : Work(w) \/ Faulty(w)
    \/ \E s \in Subject : Website(s) \/ Elapse(s) \/ Outlives(s)
    \/ CircuitElapses

Spec == Init /\ [][Next]_vars

\* The cron trigger keeps firing, an invocation goes on, and time passes.
FairSpec ==
    /\ Spec
    /\ \A w \in Worker : WF_vars(Work(w))
    /\ \A s \in Subject : WF_vars(Elapse(s))
    /\ WF_vars(CircuitElapses)

-----------------------------------------------------------------------------
(* Properties.                                                             *)

Job == [pc : {"idle", "preflight", "next", "activity", "member", "verify", "remove",
              "add", "finish", "gone"} \union Failure,
        subject : Subject \union {"none"}, owned : BOOLEAN, want : 0 .. TopLevel,
        unwanted : SUBSET Level, add : BOOLEAN]

\* Rows, members and invocations keep their shape.
TypeOK ==
    /\ linked \subseteq Subject /\ guild \subseteq Subject
    /\ want \in [Subject -> 0 .. TopLevel]
    /\ row \in [Subject -> Row]
    /\ circuit \in BOOLEAN
    /\ roles \in [Subject -> SUBSET Level]
    /\ job \in [Worker -> Job]
    /\ batch \in [Worker -> SUBSET Subject]
    /\ changes \in 0 .. MaxChanges /\ faults \in 0 .. MaxFaults

\* A row marked synced carries the rank of now, although the invocation that
\* marked it read the rank several calls before.
SyncedIsCurrent ==
    \A s \in Subject : row[s].status = "synced" => s \in linked /\ row[s].applied = want[s]

\* getDiscordRankSyncStatus: what the page of an account says of its row, and of
\* no row.
ShownStatus ==
    [leased |-> "syncing", synced |-> "synced", not_in_guild |-> "not_in_guild",
     pending |-> "pending", failed |-> "failed", terminal |-> "failed", absent |-> "failed",
     purged |-> "failed"]
Shown(s) == [status |-> ShownStatus[row[s].status], desired |-> want[s], applied |-> row[s].applied]

\* What members read is true: a synchronisation that is shown as done has applied
\* the rank shown as desired, although it read the rank several calls before; and
\* one that is shown as failed did fail, rather than have its row cleaned up by a
\* slow invocation that still took the identity for unlinked.
PageTellsTheTruth ==
    \A s \in linked :
        /\ Shown(s).status = "synced" => Shown(s).applied = Shown(s).desired
        /\ Shown(s).status = "failed" => row[s].status \in {"failed", "terminal"}

\* A stale cleanup cannot remove the row of an account that linked again, and
\* only the row of an identity without account is ever cleaned up or purged.
LinkedHasRow == \A s \in Subject : s \in linked <=> Exists(s) /\ row[s].owned

\* Once ranks stop changing and calls stop failing, a member of the guild has
\* exactly the role of the rank, also after slow invocations added old ones;
\* only a terminal failure waits for a person.
Mirrored(s) ==
    s \in linked /\ s \in guild /\ row[s].status # "terminal" => roles[s] = {want[s]} \ {0}

\* The row of an identity without account goes.
Cleaned(s) == s \notin linked => row[s].status \in {"absent", "purged", "terminal"}

RolesFollowRanks == <>[](\A s \in Subject : Mirrored(s) /\ Cleaned(s))

\* Unlinking, deletion and suspension remove the role: no member keeps one that
\* no row remembers, unless the 30 days of the cleanup have run out.
RemovedRolesStayRemoved == \A s \in Subject : row[s].status = "absent" => roles[s] = {}
=============================================================================
