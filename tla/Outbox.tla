------------------------------- MODULE Outbox -------------------------------
(***************************************************************************)
(* The notification outbox of lib/notifications.ts: one D1 row per event   *)
(* and channel, claimed with a ten-minute lease by overlapping cron        *)
(* invocations, sent to a provider, and completed, retried or given up.    *)
(* Times are not numbers here: next_attempt_at is either due or not, and   *)
(* the lease it carries while a row is being sent names its invocation.    *)
(***************************************************************************)
EXTENDS Naturals, FiniteSets

CONSTANTS
    Message,      \* event keys: one event on one channel
    Worker,       \* invocations of processNotificationOutbox at a time
    MaxAttempts,  \* MAX_NOTIFICATION_ATTEMPTS
    MaxFaults,    \* bound: crashes, failing D1 statements and outlived leases
    MaxRetries    \* bound: administrator retries

ASSUME OutboxConstants ==
    /\ "none" \notin Message \union Worker
    /\ MaxAttempts \in Nat \ {0}
    /\ MaxFaults \in Nat /\ MaxRetries \in Nat

VARIABLES
    row,       \* notification_outbox
    accepted,  \* messages of which a provider accepted a copy
    job,       \* the invocations
    batch,     \* the rows every invocation still has to claim
    faults,    \* faults so far
    retries    \* administrator retries so far

vars == <<row, accepted, job, batch, faults, retries>>

Row == [status   : {"absent", "pending", "sending", "failed", "dead", "delivered"},
        attempts : Nat,
        due      : BOOLEAN,                   \* next_attempt_at <= now
        holder   : Worker \union {"none"}]    \* whose lease next_attempt_at is

Resting == [pc |-> "idle", msg |-> "none", attempts |-> 0]
Rest(w) == job' = [job EXCEPT ![w] = Resting] /\ batch' = [batch EXCEPT ![w] = {}]

Claimable(m) == row[m].status \in {"pending", "failed", "sending"} /\ row[m].due

\* The lease check of both closing UPDATEs.
Holds(w) == row[job[w].msg].status = "sending" /\ row[job[w].msg].holder = w

\* Writing next_attempt_at hides the row from every batch selected earlier:
\* their claims compare it with the time of the selection.
Hidden(m) == [w \in Worker |-> batch[w] \ {m}]
Unselect(m) == batch' = Hidden(m)

\* INSERT OR IGNORE, in the batch that stores the event itself.
Enqueue(m) ==
    /\ row[m].status = "absent"
    /\ row' = [row EXCEPT ![m] = [status |-> "pending", attempts |-> 0,
                                  due |-> TRUE, holder |-> "none"]]
    /\ UNCHANGED <<accepted, job, batch, faults, retries>>

MutantSelected == {m \in Message : Claimable(m) /\ row[m].status # "sending"}

Selected == {m \in Message : Claimable(m)}

Select(w) ==
    /\ job[w].pc = "idle" /\ Selected # {}
    /\ job' = [job EXCEPT ![w].pc = "next"]
    /\ batch' = [batch EXCEPT ![w] = Selected]
    /\ UNCHANGED <<row, accepted, faults, retries>>

MutantLeased(w, m) ==
    [row EXCEPT ![m].status = "sending", ![m].holder = w, ![m].attempts = @ + 1]

Leased(w, m) ==
    [row EXCEPT ![m].status = "sending", ![m].holder = w, ![m].attempts = @ + 1,
                ![m].due = FALSE]

Claim(w, m) ==
    /\ job[w].pc = "next" /\ m \in batch[w] /\ Claimable(m)
    /\ row' = Leased(w, m)
    /\ job' = [job EXCEPT ![w] = [pc |-> "send", msg |-> m, attempts |-> row[m].attempts + 1]]
    /\ Unselect(m)
    /\ UNCHANGED <<accepted, faults, retries>>

\* Another invocation delivered the row meanwhile.
Skip(w, m) ==
    /\ job[w].pc = "next" /\ m \in batch[w] /\ ~Claimable(m)
    /\ batch' = [batch EXCEPT ![w] = @ \ {m}]
    /\ UNCHANGED <<row, accepted, job, faults, retries>>

Finish(w) ==
    /\ job[w].pc = "next" /\ batch[w] = {}
    /\ Rest(w)
    /\ UNCHANGED <<row, accepted, faults, retries>>

Goto(w, pc) == job' = [job EXCEPT ![w].pc = pc]

SendAccepted(w) ==
    /\ job[w].pc = "send"
    /\ accepted' = accepted \union {job[w].msg}
    /\ Goto(w, "complete")
    /\ UNCHANGED <<row, batch, faults, retries>>

\* A timeout, 429 or 5xx may be retried, any other refusal not.  The provider
\* may have kept the message in both cases: a late answer, an answer that does
\* not parse.
SendFails(w) ==
    /\ job[w].pc = "send"
    /\ accepted' \in {accepted, accepted \union {job[w].msg}}
    /\ \E pc \in {"fail", "reject"} : Goto(w, pc)
    /\ UNCHANGED <<row, batch, faults, retries>>

\* The next row of the batch.
Advance(w) == job' = [job EXCEPT ![w] = [Resting EXCEPT !.pc = "next"]]

Completed(w) ==
    IF Holds(w) THEN [row EXCEPT ![job[w].msg].status = "delivered"] ELSE row

Complete(w) ==
    /\ job[w].pc = "complete"
    /\ row' = Completed(w)
    /\ Advance(w)
    /\ UNCHANGED <<accepted, batch, faults, retries>>

\* notificationFailureDisposition
Exhausted(w) == job[w].pc = "reject" \/ job[w].attempts >= MaxAttempts

Disposed(w) ==
    IF Holds(w)
      THEN [row EXCEPT ![job[w].msg] =
              [status |-> IF Exhausted(w) THEN "dead" ELSE "failed",
               attempts |-> row[job[w].msg].attempts, due |-> FALSE, holder |-> "none"]]
      ELSE row

Dispose(w) ==
    /\ job[w].pc \in {"fail", "reject"}
    /\ row' = Disposed(w)
    /\ Advance(w)
    /\ IF Holds(w) THEN Unselect(job[w].msg) ELSE UNCHANGED batch
    /\ UNCHANGED <<accepted, faults, retries>>

-----------------------------------------------------------------------------
(* Faults.                                                                 *)

Fault == faults < MaxFaults /\ faults' = faults + 1

\* A failing statement may have been applied.  A claim or a disposition that
\* throws ends the invocation; a completion that throws is caught and treated
\* as a delivery that failed.
ClaimThrows(w, m) ==
    /\ Fault
    /\ job[w].pc = "next" /\ m \in batch[w] /\ Claimable(m)
    /\ job' = [job EXCEPT ![w] = Resting]
    /\ \/ row' = row /\ batch' = [batch EXCEPT ![w] = {}]
       \/ row' = Leased(w, m) /\ batch' = [Hidden(m) EXCEPT ![w] = {}]
    /\ UNCHANGED <<accepted, retries>>

CompleteThrows(w) ==
    /\ Fault
    /\ job[w].pc = "complete"
    /\ row' \in {row, Completed(w)}
    /\ Goto(w, "fail")
    /\ UNCHANGED <<accepted, batch, retries>>

DisposeThrows(w) ==
    /\ Fault
    /\ job[w].pc \in {"fail", "reject"}
    /\ job' = [job EXCEPT ![w] = Resting]
    /\ \/ row' = row /\ batch' = [batch EXCEPT ![w] = {}]
       \/ Holds(w) /\ row' = Disposed(w) /\ batch' = [Hidden(job[w].msg) EXCEPT ![w] = {}]
    /\ UNCHANGED <<accepted, retries>>

Crash(w) ==
    /\ Fault
    /\ job[w].pc # "idle"
    /\ Rest(w)
    /\ UNCHANGED <<row, accepted, retries>>

\* An invocation that is still at work ten minutes after its claim.
Outlives(m) ==
    /\ Fault
    /\ row[m].status = "sending" /\ ~row[m].due
    /\ \E w \in Worker : job[w].msg = m /\ Holds(w)
    /\ row' = [row EXCEPT ![m].due = TRUE]
    /\ UNCHANGED <<accepted, job, batch, retries>>

-----------------------------------------------------------------------------
\* The backoff of a failed row passes, or the lease of an invocation that is gone.
Elapse(m) ==
    /\ row[m].status \in {"failed", "sending"} /\ ~row[m].due
    /\ \A w \in Worker : job[w].msg = m => ~Holds(w)
    /\ row' = [row EXCEPT ![m].due = TRUE]
    /\ UNCHANGED <<accepted, job, batch, faults, retries>>

\* retryOperationalNotification
MutantRetryable(m) == row[m].status \in {"failed", "dead", "delivered"}

Retryable(m) == row[m].status \in {"failed", "dead"}

Retry(m) ==
    /\ Retryable(m) /\ retries < MaxRetries
    /\ row' = [row EXCEPT ![m] = [status |-> "pending", attempts |-> 0,
                                  due |-> TRUE, holder |-> "none"]]
    /\ Unselect(m)
    /\ retries' = retries + 1
    /\ UNCHANGED <<accepted, job, faults>>

Init ==
    /\ row = [m \in Message |-> [status |-> "absent", attempts |-> 0,
                                 due |-> FALSE, holder |-> "none"]]
    /\ accepted = {}
    /\ job = [w \in Worker |-> Resting]
    /\ batch = [w \in Worker |-> {}]
    /\ faults = 0 /\ retries = 0

Work(w) ==
    \/ Select(w) \/ Finish(w) \/ SendAccepted(w) \/ SendFails(w) \/ Complete(w) \/ Dispose(w)
    \/ \E m \in Message : Claim(w, m) \/ Skip(w, m)

Failure(w) ==
    \/ CompleteThrows(w) \/ DisposeThrows(w) \/ Crash(w)
    \/ \E m \in Message : ClaimThrows(w, m)

Next ==
    \/ \E w \in Worker : Work(w) \/ Failure(w)
    \/ \E m \in Message : Enqueue(m) \/ Elapse(m) \/ Outlives(m) \/ Retry(m)

Spec == Init /\ [][Next]_vars

\* The cron trigger keeps firing, an invocation goes on, and time passes.
FairSpec ==
    /\ Spec
    /\ \A w \in Worker : WF_vars(Work(w))
    /\ \A m \in Message : WF_vars(Elapse(m))

-----------------------------------------------------------------------------
(* Properties.                                                             *)

Job == [pc : {"idle", "next", "send", "complete", "fail", "reject"},
        msg : Message \union {"none"}, attempts : Nat]

\* Rows and invocations keep their shape.
TypeOK ==
    /\ row \in [Message -> Row]
    /\ accepted \in SUBSET Message
    /\ job \in [Worker -> Job]
    /\ batch \in [Worker -> SUBSET Message]
    /\ faults \in 0 .. MaxFaults /\ retries \in 0 .. MaxRetries

Senders(m) == {w \in Worker : job[w].pc = "send" /\ job[w].msg = m}

\* Overlapping invocations do not send a message twice: a second sender takes
\* a fault, an invocation that outlived its lease.
OneSender == \A m \in Message : Cardinality(Senders(m)) <= 1 + faults

\* Retries are bounded: every attempt past the limit follows a fault that kept
\* an earlier one from recording how it ended.
AttemptsAreBounded == \A m \in Message : row[m].attempts <= MaxAttempts + faults

Phase(status) ==
    CASE status = "absent" -> "absent"
      [] status \in {"pending", "sending", "failed"} -> "queued"
      [] status = "delivered" -> "delivered"
      [] status = "dead" -> "stopped"

Promise == INSTANCE Delivery WITH
    state <- [m \in Message |-> Phase(row[m].status)]

\* The outbox keeps the promise of Delivery: nothing enqueued is lost, a row is
\* delivered only if a provider accepted the message, delivered is final, and
\* what was given up returns only when a person asks.
KeepsPromise == Promise!Spec

\* Once faults and retries have run out, every queued event is settled, also
\* one whose invocation died while it held the lease.
EventsAreSettled == Promise!FairSpec
=============================================================================
