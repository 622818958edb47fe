---------------------------- MODULE OutboxProofs ----------------------------
(***************************************************************************)
(* Proofs about Outbox.  Attempts are bounded because a row that may be    *)
(* claimed again is one attempt below the bound: a failed row by the check *)
(* of its disposition, a row still being sent because a fault cost its     *)
(* invocation the lease.  Whoever sends without a running lease was robbed *)
(* of it by a fault.  The refinement needs no more than that a job         *)
(* names an enqueued row and that a completion follows an acceptance.      *)
(***************************************************************************)
EXTENDS Outbox, FiniteSetTheorems, TLAPS

USE OutboxConstants

AtWork == {"send", "complete", "fail", "reject"}

\* What an invocation knows of the row it works on.
JobOK(w) ==
    /\ job[w].pc \in AtWork => job[w].msg \in Message
    /\ job[w].pc \notin AtWork => job[w].msg = "none"
    /\ job[w].pc = "complete" => job[w].msg \in accepted
    /\ job[w].msg \in Message =>
         /\ row[job[w].msg].status # "absent"
         /\ Holds(w) => job[w].attempts = row[job[w].msg].attempts

\* The invocation that holds the lease is still at it.
Worked(m) ==
    /\ row[m].status = "sending" /\ row[m].holder \in Worker
    /\ job[row[m].holder].msg = m

\* Rows that may be claimed once more.
Again(m) ==
    \/ row[m].status \in {"absent", "pending", "failed"}
    \/ row[m].status = "sending" /\ (row[m].due \/ ~Worked(m))

RowOK(m) ==
    /\ row[m].attempts <= MaxAttempts + faults
    /\ Again(m) => row[m].attempts < MaxAttempts + faults

IInv ==
    /\ TypeOK
    /\ \A w \in Worker : JobOK(w)
    /\ \A m \in Message : RowOK(m)

LEMMA InitIInv == Init => IInv
BY DEF Init, IInv, TypeOK, Row, Job, Resting, JobOK, RowOK, AtWork, Holds

LEMMA FaultCount ==
    ASSUME IInv, Fault
    PROVE  faults' = faults + 1 /\ faults' \in 0 .. MaxFaults
BY DEF IInv, TypeOK, Fault

LEMMA AdvancedJob ==
    [Resting EXCEPT !.pc = "next"] = [pc |-> "next", msg |-> "none", attempts |-> 0]
BY DEF Resting

\* Batches play no part in the invariant but for their type.
LEMMA BatchTypes ==
    ASSUME TypeOK, [Next]_vars
    PROVE  batch' \in [Worker -> SUBSET Message]
<1>. USE DEF TypeOK
<1>1. ASSUME NEW w \in Worker, Work(w) PROVE batch' \in [Worker -> SUBSET Message]
  BY <1>1 DEF Work, Select, Selected, Finish, Rest, SendAccepted, SendFails, Complete, Dispose,
     Claim, Unselect, Hidden, Skip
<1>2. ASSUME NEW w \in Worker, Failure(w) PROVE batch' \in [Worker -> SUBSET Message]
  <2>1. \A m : Hidden(m) \in [Worker -> SUBSET Message]
    BY DEF Hidden
  <2>2. \/ batch' = batch \/ batch' = [batch EXCEPT ![w] = {}]
        \/ \E m : batch' = [Hidden(m) EXCEPT ![w] = {}]
    BY <1>2 DEF Failure, CompleteThrows, DisposeThrows, Crash, ClaimThrows, Rest
  <2>. QED
    BY <2>1, <2>2
<1>3. ASSUME NEW m \in Message, Enqueue(m) \/ Elapse(m) \/ Outlives(m) \/ Retry(m)
      PROVE  batch' \in [Worker -> SUBSET Message]
  BY <1>3 DEF Enqueue, Elapse, Outlives, Retry, Unselect, Hidden
<1>4. ASSUME UNCHANGED vars PROVE batch' \in [Worker -> SUBSET Message]
  BY <1>4 DEF vars
<1>. QED
  BY <1>1, <1>2, <1>3, <1>4 DEF Next

\* A step of one invocation that writes no row.
LEMMA JobStep ==
    ASSUME IInv, NEW w \in Worker, NEW j \in Job, job' = [job EXCEPT ![w] = j],
           batch' \in [Worker -> SUBSET Message], row' = row, retries' = retries,
           accepted' \in {accepted, accepted \union ({job[w].msg} \cap Message)},
           faults' \in 0 .. MaxFaults, faults' \in {faults, faults + 1},
           \/ /\ j.msg = job[w].msg /\ (j.pc \in AtWork => j.attempts = job[w].attempts)
              /\ j.pc \in AtWork <=> job[w].pc \in AtWork
              /\ j.pc = "complete" => j.msg \in accepted'
           \/ j = Resting /\ faults' = faults + 1
    PROVE  IInv'
<1>1. TypeOK'
  BY DEF IInv, TypeOK
<1>2. /\ job'[w] = j /\ \A v \in Worker : v # w => job'[v] = job[v]
      /\ accepted \subseteq accepted'
  BY DEF IInv, TypeOK
<1>3. ASSUME NEW v \in Worker PROVE JobOK(v)'
  <2>1. CASE v = w
    BY <1>2, <2>1 DEF IInv, JobOK, AtWork, Holds, Resting
  <2>2. CASE v # w
    BY <1>2, <2>2 DEF IInv, JobOK, AtWork, Holds
  <2>. QED
    BY <2>1, <2>2
<1>4. ASSUME NEW m \in Message PROVE RowOK(m)'
  <2>1. faults \in Nat /\ faults' \in Nat /\ row[m].attempts \in Nat
    BY DEF IInv, TypeOK, Row
  <2>2. CASE faults' = faults + 1
    BY <2>1, <2>2 DEF IInv, RowOK
  <2>3. CASE faults' = faults /\ j.msg = job[w].msg
    <3>1. Worked(m)' <=> Worked(m)
      BY <1>2, <2>3 DEF Worked
    <3>. QED
      BY <2>1, <2>3, <3>1 DEF IInv, RowOK, Again
  <2>. QED
    BY <2>1, <2>2, <2>3
<1>. QED
  BY <1>1, <1>3, <1>4 DEF IInv

\* A claim, whose invocation goes on to send or dies.
LEMMA ClaimStep ==
    ASSUME IInv, NEW w \in Worker, NEW m \in Message, Claimable(m), job[w].pc = "next",
           NEW j \in Job, job' = [job EXCEPT ![w] = j],
           batch' \in [Worker -> SUBSET Message], row' = Leased(w, m),
           accepted' = accepted, retries' = retries,
           \/ /\ j = [pc |-> "send", msg |-> m, attempts |-> row[m].attempts + 1]
              /\ faults' = faults
           \/ j = Resting /\ faults' = faults + 1 /\ faults' \in 0 .. MaxFaults
    PROVE  IInv'
<1>1. /\ row' \in [Message -> Row]
      /\ \A n \in Message \ {m} : row'[n] = row[n]
      /\ row'[m].status = "sending" /\ row'[m].holder = w /\ ~row'[m].due
      /\ row'[m].attempts = row[m].attempts + 1
  BY DEF IInv, TypeOK, Row, Leased
<1>2. /\ job'[w] = j /\ \A v \in Worker : v # w => job'[v] = job[v]
      /\ job[w].msg = "none" /\ faults \in Nat
  BY DEF IInv, TypeOK, JobOK, AtWork
<1>3. row[m].attempts \in Nat /\ row[m].attempts < MaxAttempts + faults
  BY DEF IInv, TypeOK, Row, RowOK, Again, Claimable
<1>4. TypeOK'
  BY <1>1 DEF IInv, TypeOK
<1>5. ASSUME NEW v \in Worker PROVE JobOK(v)'
  <2>1. CASE v = w
    BY <1>1, <1>2, <2>1 DEF IInv, JobOK, AtWork, Holds, Resting
  <2>2. CASE v # w /\ job[v].msg = m
    <3>1. job'[v] = job[v] /\ ~Holds(v)'
      BY <1>1, <1>2, <2>2 DEF Holds
    <3>. QED
      BY <1>1, <2>2, <3>1 DEF IInv, JobOK, AtWork
  <2>3. CASE v # w /\ job[v].msg # m
    BY <1>1, <1>2, <2>3 DEF IInv, JobOK, AtWork, Holds
  <2>. QED
    BY <2>1, <2>2, <2>3
<1>6. ASSUME NEW n \in Message PROVE RowOK(n)'
  <2>1. CASE n = m
    BY <1>1, <1>2, <1>3, <2>1 DEF RowOK, Again, Worked
  <2>2. CASE n # m
    <3>1. row'[n] = row[n] /\ faults' \in Nat /\ faults' >= faults /\ row[n].attempts \in Nat
      BY <1>1, <1>2, <2>2 DEF IInv, TypeOK, Row
    <3>2. Worked(n) => Worked(n)'
      BY <1>2, <2>2, <3>1 DEF Worked
    <3>. QED
      BY <1>2, <3>1, <3>2 DEF IInv, RowOK, Again
  <2>. QED
    BY <2>1, <2>2
<1>. QED
  BY <1>4, <1>5, <1>6 DEF IInv

\* A closing UPDATE: the row is settled if the lease is still held, and the
\* invocation moves on, or fails to hear of it.
LEMMA CloseStep ==
    ASSUME IInv, NEW w \in Worker, job[w].pc \in AtWork,
           NEW j \in Job, job' = [job EXCEPT ![w] = j],
           batch' \in [Worker -> SUBSET Message],
           row' \in {Completed(w), Disposed(w)}, accepted' = accepted, retries' = retries,
           faults' \in 0 .. MaxFaults, faults' \in {faults, faults + 1},
           \/ j = [Resting EXCEPT !.pc = "next"]
           \/ j = Resting
           \/ j = [pc |-> "fail", msg |-> job[w].msg, attempts |-> job[w].attempts]
    PROVE  IInv'
<1>. DEFINE m == job[w].msg
<1>1. m \in Message /\ job[w].attempts \in Nat /\ faults \in Nat
  BY DEF IInv, JobOK, TypeOK, Job
<1>2. /\ row' \in [Message -> Row]
      /\ \A n \in Message : n # m => row'[n] = row[n]
      /\ row'[m].attempts = row[m].attempts
  <2>1. CASE row' = Completed(w)
    BY <1>1, <2>1 DEF IInv, TypeOK, Row, Completed
  <2>2. CASE row' = Disposed(w)
    BY <1>1, <2>2 DEF IInv, TypeOK, Row, Disposed
  <2>. QED
    BY <2>1, <2>2
<1>3. /\ Holds(w) => \/ row'[m].status \in {"delivered", "dead"}
                     \/ row'[m].status = "failed" /\ job[w].attempts < MaxAttempts
      /\ ~Holds(w) => row' = row
  BY <1>1 DEF IInv, TypeOK, Row, Completed, Disposed, Exhausted
<1>4. /\ job'[w] = j /\ \A v \in Worker : v # w => job'[v] = job[v]
      /\ \/ j.pc = "fail" /\ j.msg = m /\ j.attempts = job[w].attempts
         \/ j.pc \notin AtWork /\ j.msg = "none"
  <2>1. job'[w] = j /\ \A v \in Worker : v # w => job'[v] = job[v]
    BY DEF IInv, TypeOK
  <2>2. \/ j.pc = "fail" /\ j.msg = m /\ j.attempts = job[w].attempts
        \/ j.pc \notin AtWork /\ j.msg = "none"
    <3>1. CASE j = [Resting EXCEPT !.pc = "next"]
      BY <3>1, AdvancedJob DEF AtWork
    <3>2. CASE j = Resting
      BY <3>2 DEF AtWork, Resting
    <3>3. CASE j = [pc |-> "fail", msg |-> job[w].msg, attempts |-> job[w].attempts]
      BY <3>3
    <3>. QED
      BY <3>1, <3>2, <3>3
  <2>. QED
    BY <2>1, <2>2
<1>5. TypeOK'
  BY <1>2 DEF IInv, TypeOK
<1>6. row[m].status # "absent" /\ row'[m].status # "absent"
  BY <1>1, <1>3 DEF IInv, JobOK
<1>7. ASSUME NEW v \in Worker PROVE JobOK(v)'
  <2>1. CASE job'[v].msg \notin Message
    BY <1>1, <1>4, <2>1 DEF IInv, JobOK, AtWork
  <2>2. CASE job'[v].msg \in Message
    <3>1. job'[v].msg = job[v].msg /\ job'[v].attempts = job[v].attempts
      BY <1>4, <2>2
    <3>2. Holds(v)' => Holds(v)
      BY <1>2, <1>3, <2>2, <3>1 DEF Holds
    <3>3. row'[job[v].msg].attempts = row[job[v].msg].attempts
      BY <1>2, <2>2, <3>1
    <3>4. row'[job[v].msg].status # "absent"
      BY <1>2, <1>6, <2>2, <3>1 DEF IInv, JobOK
    <3>5. job'[v].pc \in AtWork /\ (job'[v].pc = "complete" => job[v].pc = "complete")
      BY <1>4, <2>2, <3>1 DEF IInv, JobOK, AtWork
    <3>. QED
      BY <2>2, <3>1, <3>2, <3>3, <3>4, <3>5 DEF IInv, JobOK
  <2>. QED
    BY <2>1, <2>2
<1>8. ASSUME NEW n \in Message PROVE RowOK(n)'
  <2>1. row[n].attempts \in Nat /\ faults' \in Nat /\ faults' >= faults
    BY <1>1 DEF IInv, TypeOK, Row
  <2>2. CASE n = m /\ Holds(w)
    BY <1>1, <1>2, <1>3, <2>1, <2>2 DEF IInv, JobOK, RowOK, Again
  <2>3. CASE ~(n = m /\ Holds(w))
    <3>1. row'[n] = row[n]
      BY <1>2, <1>3, <2>3
    <3>2. Worked(n) => Worked(n)'
      <4>1. SUFFICES ASSUME Worked(n) PROVE row[n].holder # w
        BY <1>4, <3>1 DEF Worked
      <4>. QED
        BY <2>3, <4>1 DEF Worked, Holds
    <3>. QED
      BY <1>1, <2>1, <3>1, <3>2 DEF IInv, RowOK, Again
  <2>. QED
    BY <2>2, <2>3
<1>. QED
  BY <1>5, <1>7, <1>8 DEF IInv

\* A step that writes one row on behalf of nobody.
LEMMA RowStep ==
    ASSUME IInv, NEW m \in Message, NEW x \in Row, row' = [row EXCEPT ![m] = x],
           job' = job, accepted' = accepted, batch' \in [Worker -> SUBSET Message],
           retries' \in 0 .. MaxRetries, faults' \in 0 .. MaxFaults,
           \/ x.status = "pending" /\ x.attempts = 0 /\ faults' = faults
           \/ /\ x.status = row[m].status /\ x.holder = row[m].holder
              /\ x.attempts = row[m].attempts /\ x.attempts < MaxAttempts + faults'
              /\ x.status # "absent" /\ faults' \in {faults, faults + 1}
    PROVE  IInv'
<1>1. TypeOK'
  BY DEF IInv, TypeOK
<1>2. row'[m] = x /\ \A n \in Message : n # m => row'[n] = row[n]
  BY DEF IInv, TypeOK
<1>3. ASSUME NEW w \in Worker PROVE JobOK(w)'
  BY <1>2 DEF IInv, JobOK, AtWork, Holds
<1>4. ASSUME NEW n \in Message PROVE RowOK(n)'
  <2>1. row[n].attempts \in Nat /\ faults \in Nat /\ faults' \in Nat /\ faults' >= faults
    BY DEF IInv, TypeOK, Row
  <2>2. CASE n = m
    BY <1>2, <2>1, <2>2 DEF RowOK, Again
  <2>3. CASE n # m
    BY <1>2, <2>1, <2>3 DEF IInv, RowOK, Again, Worked
  <2>. QED
    BY <2>2, <2>3
<1>. QED
  BY <1>1, <1>3, <1>4 DEF IInv

\* What the records of an invocation may become.
LEMMA Jobs ==
    ASSUME IInv, NEW w \in Worker
    PROVE  /\ job[w] \in Job /\ Resting \in Job /\ [Resting EXCEPT !.pc = "next"] \in Job
           /\ job[w].pc \in AtWork => job[w].msg \in Message
           /\ job[w].pc \notin AtWork => job[w].msg = "none"
           /\ \A pc \in AtWork \union {"next"} :
                LET j == [pc |-> pc, msg |-> job[w].msg, attempts |-> job[w].attempts]
                IN  j \in Job /\ [job EXCEPT ![w].pc = pc] = [job EXCEPT ![w] = j]
<1>1. job[w] \in Job /\ JobOK(w)
  BY DEF IInv, TypeOK
<1>2. Resting \in Job /\ [Resting EXCEPT !.pc = "next"] \in Job
  BY DEF Job, Resting
<1>3. ASSUME NEW pc \in AtWork \union {"next"}
      PROVE  /\ [pc |-> pc, msg |-> job[w].msg, attempts |-> job[w].attempts] \in Job
             /\ [job[w] EXCEPT !.pc = pc] = [pc |-> pc, msg |-> job[w].msg, attempts |-> job[w].attempts]
  BY <1>1 DEF Job, AtWork
<1>. QED
  BY <1>1, <1>2, <1>3 DEF IInv, TypeOK, JobOK

LEMMA WorkStep ==
    ASSUME IInv, NEW w \in Worker, Work(w), batch' \in [Worker -> SUBSET Message]
    PROVE  IInv'
<1>. DEFINE To(pc) == [pc |-> pc, msg |-> job[w].msg, attempts |-> job[w].attempts]
<1>1. faults \in 0 .. MaxFaults /\ row \in [Message -> Row]
  BY DEF IInv, TypeOK
<1>2. CASE Select(w)
  <2>1. job' = [job EXCEPT ![w] = To("next")] /\ To("next") \in Job /\ job[w].pc \notin AtWork
    BY <1>2, Jobs DEF Select, AtWork
  <2>2. row' = row /\ accepted' = accepted /\ faults' = faults /\ retries' = retries
    BY <1>2 DEF Select
  <2>. QED
    BY <1>1, <2>1, <2>2, JobStep DEF AtWork
<1>3. CASE Finish(w)
  <2>1. /\ job' = [job EXCEPT ![w] = Resting] /\ Resting \in Job
        /\ job[w].pc \notin AtWork /\ job[w].msg = "none"
    BY <1>3, Jobs DEF Finish, Rest, AtWork
  <2>2. row' = row /\ accepted' = accepted /\ faults' = faults /\ retries' = retries
    BY <1>3 DEF Finish
  <2>. QED
    BY <1>1, <2>1, <2>2, JobStep DEF AtWork, Resting
<1>4. CASE SendAccepted(w) \/ SendFails(w)
  <2>1. PICK pc \in {"complete", "fail", "reject"} :
          /\ job' = [job EXCEPT ![w] = To(pc)] /\ To(pc) \in Job
          /\ job[w].pc \in AtWork /\ job[w].msg \in Message
          /\ pc = "complete" => accepted' = accepted \union {job[w].msg}
    BY <1>4, Jobs DEF SendAccepted, SendFails, Goto, AtWork
  <2>2. /\ row' = row /\ faults' = faults /\ retries' = retries
        /\ accepted' \in {accepted, accepted \union {job[w].msg}}
    BY <1>4 DEF SendAccepted, SendFails
  <2>3. accepted' \in {accepted, accepted \union ({job[w].msg} \cap Message)}
    BY <2>1, <2>2
  <2>. QED
    BY <1>1, <2>1, <2>2, <2>3, JobStep DEF AtWork
<1>5. CASE Complete(w) \/ Dispose(w)
  BY <1>1, <1>5, Jobs, CloseStep DEF Complete, Dispose, Advance, AtWork
<1>6. ASSUME NEW m \in Message, Claim(w, m) PROVE IInv'
  <2>1. [pc |-> "send", msg |-> m, attempts |-> row[m].attempts + 1] \in Job
    BY <1>1 DEF Job, Row
  <2>. QED
    BY <1>6, <2>1, ClaimStep DEF Claim
<1>7. ASSUME NEW m \in Message, Skip(w, m) PROVE IInv'
  <2>1. job' = [job EXCEPT ![w] = job[w]] /\ job[w] \in Job /\ job[w].pc = "next"
    BY <1>7, Jobs DEF Skip, IInv, TypeOK
  <2>2. row' = row /\ accepted' = accepted /\ faults' = faults /\ retries' = retries
    BY <1>7 DEF Skip
  <2>. QED
    BY <1>1, <2>1, <2>2, JobStep DEF AtWork
<1>. QED
  BY <1>2, <1>3, <1>4, <1>5, <1>6, <1>7 DEF Work

LEMMA FailureStep ==
    ASSUME IInv, NEW w \in Worker, Failure(w), batch' \in [Worker -> SUBSET Message]
    PROVE  IInv'
<1>1. faults \in 0 .. MaxFaults /\ row \in [Message -> Row]
  BY DEF IInv, TypeOK
<1>2. CASE Crash(w)
  <2>1. job' = [job EXCEPT ![w] = Resting] /\ Resting \in Job
    BY <1>2, Jobs DEF Crash, Rest
  <2>2. row' = row /\ accepted' = accepted /\ retries' = retries
    BY <1>2 DEF Crash
  <2>. QED
    BY <1>2, <2>1, <2>2, FaultCount, JobStep DEF Crash
<1>3. CASE CompleteThrows(w)
  <2>. DEFINE j == [pc |-> "fail", msg |-> job[w].msg, attempts |-> job[w].attempts]
  <2>1. /\ job' = [job EXCEPT ![w] = j] /\ j \in Job /\ job[w].pc \in AtWork
        /\ faults' = faults + 1 /\ faults' \in 0 .. MaxFaults
    BY <1>3, Jobs, FaultCount DEF CompleteThrows, Goto, AtWork
  <2>2. accepted' = accepted /\ retries' = retries
    BY <1>3 DEF CompleteThrows
  <2>3. CASE row' = row
    BY <1>1, <2>1, <2>2, <2>3, JobStep DEF AtWork
  <2>4. CASE row' = Completed(w)
    BY <2>1, <2>2, <2>4, CloseStep
  <2>. QED
    BY <1>3, <2>3, <2>4 DEF CompleteThrows
<1>4. CASE DisposeThrows(w)
  <2>1. /\ job' = [job EXCEPT ![w] = Resting] /\ Resting \in Job /\ job[w].pc \in AtWork
        /\ faults' = faults + 1 /\ faults' \in 0 .. MaxFaults
    BY <1>4, Jobs, FaultCount DEF DisposeThrows, Rest, AtWork
  <2>2. accepted' = accepted /\ retries' = retries
    BY <1>4 DEF DisposeThrows
  <2>3. CASE row' = row
    BY <1>1, <2>1, <2>2, <2>3, JobStep
  <2>4. CASE row' = Disposed(w)
    BY <2>1, <2>2, <2>4, CloseStep
  <2>. QED
    BY <1>4, <2>3, <2>4 DEF DisposeThrows
<1>5. ASSUME NEW m \in Message, ClaimThrows(w, m) PROVE IInv'
  <2>1. /\ job' = [job EXCEPT ![w] = Resting] /\ Resting \in Job
        /\ faults' = faults + 1 /\ faults' \in 0 .. MaxFaults
        /\ accepted' = accepted /\ retries' = retries /\ Claimable(m) /\ job[w].pc = "next"
    BY <1>1, <1>5, Jobs DEF ClaimThrows, Fault
  <2>2. CASE row' = row
    BY <2>1, <2>2, JobStep
  <2>3. CASE row' = Leased(w, m)
    BY <2>1, <2>3, ClaimStep
  <2>. QED
    BY <1>5, <2>2, <2>3 DEF ClaimThrows
<1>. QED
  BY <1>2, <1>3, <1>4, <1>5 DEF Failure

LEMMA OtherStep ==
    ASSUME IInv, NEW m \in Message, Enqueue(m) \/ Elapse(m) \/ Outlives(m) \/ Retry(m),
           batch' \in [Worker -> SUBSET Message]
    PROVE  IInv'
<1>1. /\ faults \in 0 .. MaxFaults /\ retries \in 0 .. MaxRetries /\ row \in [Message -> Row]
      /\ row[m] \in Row
  BY DEF IInv, TypeOK
<1>2. CASE Enqueue(m) \/ Retry(m)
  <2>1. [status |-> "pending", attempts |-> 0, due |-> TRUE, holder |-> "none"] \in Row
    BY DEF Row
  <2>2. faults' = faults /\ retries' \in 0 .. MaxRetries /\ job' = job /\ accepted' = accepted
    BY <1>1, <1>2 DEF Enqueue, Retry
  <2>. QED
    BY <1>1, <1>2, <2>1, <2>2, RowStep DEF Enqueue, Retry
<1>3. CASE Elapse(m) \/ Outlives(m)
  <2>. DEFINE x == [status |-> row[m].status, attempts |-> row[m].attempts,
                    due |-> TRUE, holder |-> row[m].holder]
  <2>1. x \in Row /\ row' = [row EXCEPT ![m] = x]
    BY <1>1, <1>3 DEF Row, Elapse, Outlives
  <2>2. row[m].attempts \in Nat /\ row[m].attempts <= MaxAttempts + faults
    BY <1>1 DEF IInv, RowOK, Row
  <2>3. CASE Outlives(m)
    <3>1. /\ faults' = faults + 1 /\ faults' \in 0 .. MaxFaults /\ x.status # "absent"
          /\ job' = job /\ accepted' = accepted /\ retries' = retries
      BY <2>3, FaultCount DEF Outlives
    <3>2. x.attempts < MaxAttempts + faults'
      BY <1>1, <2>2, <3>1
    <3>. QED
      BY <1>1, <2>1, <3>1, <3>2, RowStep
  <2>4. CASE Elapse(m)
    <3>1. Again(m)
      BY <1>1, <2>4 DEF Elapse, Again, Worked, Holds, Row
    <3>2. row[m].attempts < MaxAttempts + faults
      BY <3>1 DEF IInv, RowOK
    <3>. QED
      BY <1>1, <2>1, <2>4, <3>2, RowStep DEF Elapse
  <2>. QED
    BY <1>3, <2>3, <2>4
<1>. QED
  BY <1>2, <1>3

LEMMA NextIInv == IInv /\ [Next]_vars => IInv'
<1>. SUFFICES ASSUME IInv, [Next]_vars PROVE IInv'
  OBVIOUS
<1>1. batch' \in [Worker -> SUBSET Message]
  BY BatchTypes DEF IInv
<1>2. CASE UNCHANGED vars
  BY <1>2 DEF vars, IInv, TypeOK, JobOK, RowOK, Again, Worked, Holds
<1>3. CASE Next
  BY <1>1, <1>3, WorkStep, FailureStep, OtherStep DEF Next
<1>. QED
  BY <1>2, <1>3

LEMMA Invariance == Spec => []IInv
BY InitIInv, NextIInv, PTL DEF Spec

\* Every row and every invocation keeps its shape.
THEOREM TypeCorrect == Spec => []TypeOK
<1>1. IInv => TypeOK
  BY DEF IInv
<1>. QED
  BY <1>1, Invariance, PTL

\* However many invocations, crashes and administrators there are, an attempt
\* past the limit is paid for by a fault.
THEOREM AttemptsBounded == Spec => []AttemptsAreBounded
<1>1. IInv => AttemptsAreBounded
  BY DEF IInv, RowOK, AttemptsAreBounded
<1>. QED
  BY <1>1, Invariance, PTL

-----------------------------------------------------------------------------
(* Senders. *)

Sends(w, m) == job[w].pc = "send" /\ job[w].msg = m
LeaseRuns(w, m) == row[m].status = "sending" /\ row[m].holder = w /\ ~row[m].due

\* Who still sends though its lease has run out, or been closed.
Late(m) == {w \in Worker : Sends(w, m) /\ ~LeaseRuns(w, m)}

\* Nobody sends without a lease but for a fault.
LateInv ==
    \A m \in Message : IsFiniteSet(Late(m)) /\ Cardinality(Late(m)) <= faults

NobodyNew(m) == \A w \in Worker : Sends(w, m)' /\ ~LeaseRuns(w, m)' => w \in Late(m)

LEMMA OneIsAdded ==
    ASSUME NEW A, NEW x, IsFiniteSet(A)
    PROVE  /\ IsFiniteSet(A \union {x}) /\ Cardinality(A \union {x}) \in Nat
           /\ Cardinality(A \union {x}) <= Cardinality(A) + 1
<1>1. Cardinality(A) \in Nat
  BY FS_CardinalityType
<1>2. /\ IsFiniteSet(A \union {x})
      /\ Cardinality(A \union {x}) = IF x \in A THEN Cardinality(A) ELSE Cardinality(A) + 1
  BY FS_AddElement
<1>. QED
  BY <1>1, <1>2

LEMMA NobodyLate ==
    ASSUME IInv, LateInv, faults' \in Nat, faults' >= faults, \A m \in Message : NobodyNew(m)
    PROVE  LateInv'
<1>. SUFFICES ASSUME NEW m \in Message
              PROVE  IsFiniteSet(Late(m)') /\ Cardinality(Late(m)') <= faults'
  BY DEF LateInv
<1>1. Late(m)' \subseteq Late(m)
  BY DEF Late, NobodyNew
<1>2. IsFiniteSet(Late(m)) /\ Cardinality(Late(m)) <= faults /\ faults \in Nat
  BY DEF LateInv, IInv, TypeOK
<1>3. IsFiniteSet(Late(m)') /\ Cardinality(Late(m)') <= Cardinality(Late(m))
  BY <1>1, <1>2, FS_Subset
<1>. QED
  BY <1>2, <1>3, FS_CardinalityType

\* The row of a running lease is written by its holder, or by a fault.
LEMMA LeasesRunOn ==
    ASSUME IInv, NEW m \in Message, NEW w \in Worker, Claim(w, m) \/ ClaimThrows(w, m), ~UNCHANGED row
    PROVE  /\ LeaseRuns(w, m)' /\ \A v \in Worker : ~LeaseRuns(v, m)
           /\ \A n \in Message : n # m => row'[n] = row[n]
<1>1. row' = Leased(w, m) /\ row[m].due
  BY DEF Claim, ClaimThrows, Claimable
<1>. QED
  BY <1>1 DEF IInv, TypeOK, Row, Leased, LeaseRuns

LEMMA WorkIsTimely ==
    ASSUME IInv, NEW w \in Worker, Work(w) \/ Failure(w), NEW m \in Message
    PROVE  NobodyNew(m)
<1>. SUFFICES ASSUME NEW v \in Worker, Sends(v, m)', ~LeaseRuns(v, m)' PROVE v \in Late(m)
  BY DEF NobodyNew
<1>1. \A u \in Worker : u # w => job'[u] = job[u]
  BY DEF IInv, TypeOK, Work, Failure, Select, Finish, Rest, SendAccepted, SendFails, Complete, Dispose,
         Advance, Claim, Skip, Goto, CompleteThrows, DisposeThrows, Crash, ClaimThrows
<1>2. CASE \E n \in Message : Claim(w, n) \/ ClaimThrows(w, n)
  <2>1. PICK n \in Message : Claim(w, n) \/ ClaimThrows(w, n)
    BY <1>2
  <2>2. /\ job'[w].pc \in {"send", "idle"} /\ (job'[w].pc = "send" => job'[w].msg = n /\ row' = Leased(w, n))
        /\ job[w].pc = "next" /\ row' \in {row, Leased(w, n)}
    BY <2>1 DEF Claim, ClaimThrows, Resting, IInv, TypeOK
  <2>3. CASE row' = row
    BY <1>1, <2>2, <2>3 DEF Sends, LeaseRuns, Late, Leased, IInv, TypeOK, Row
  <2>4. CASE row' # row
    <3>1. /\ LeaseRuns(w, n)' /\ \A u \in Worker : ~LeaseRuns(u, n)
          /\ \A k \in Message : k # n => row'[k] = row[k]
      BY <2>1, <2>4, LeasesRunOn
    <3>2. v # w
      BY <2>2, <3>1 DEF Sends
    <3>. QED
      BY <1>1, <3>1, <3>2 DEF Sends, LeaseRuns, Late
  <2>. QED
    BY <2>3, <2>4
<1>3. CASE ~\E n \in Message : Claim(w, n) \/ ClaimThrows(w, n)
  <2>1. job'[w].pc # "send" \/ job'[w] = job[w]
    <3>1. job[w] \in Job /\ job \in [Worker -> Job]
      BY DEF IInv, TypeOK
    <3>2. \A pc \in {"next", "complete", "fail", "reject"} :
              Goto(w, pc) => job'[w].pc = pc
      BY <3>1 DEF Goto, Job
    <3>3. Advance(w) => job'[w].pc = "next"
      BY <3>1, AdvancedJob DEF Advance
    <3>4. job' = [job EXCEPT ![w] = Resting] => job'[w].pc = "idle"
      BY <3>1 DEF Resting
    <3>5. CASE Work(w)
      BY <1>3, <3>2, <3>3, <3>4, <3>5 DEF Work, Select, Finish, Rest, SendAccepted, SendFails,
         Complete, Dispose, Skip, Goto
    <3>6. CASE Failure(w)
      BY <1>3, <3>2, <3>4, <3>6 DEF Failure, CompleteThrows, DisposeThrows, Crash, Rest
    <3>. QED
      BY <3>5, <3>6
  <2>2. Sends(v, m)
    BY <1>1, <2>1 DEF Sends
  <2>3. CASE LeaseRuns(v, m)
    <3>1. row' \in {row, Completed(w), Disposed(w)} /\ (row' # row => job[w].pc # "send")
      BY <1>3 DEF Work, Failure, Select, Finish, SendAccepted, SendFails, Complete,
         Dispose, Skip, CompleteThrows, DisposeThrows, Crash
    <3>2. row' # row => Holds(w)
      BY <3>1 DEF Completed, Disposed
    <3>3. row' # row => \A n \in Message : n # job[w].msg => row'[n] = row[n]
      BY <3>1 DEF Completed, Disposed, IInv, TypeOK
    <3>4. row' # row => v # w
      BY <2>2, <3>1 DEF Sends
    <3>5. row'[m] = row[m]
      BY <2>3, <3>2, <3>3, <3>4 DEF LeaseRuns, Holds
    <3>. QED
      BY <2>3, <3>5 DEF LeaseRuns
  <2>. QED
    BY <2>2, <2>3 DEF Late
<1>. QED
  BY <1>2, <1>3

LEMMA OthersAreTimely ==
    ASSUME IInv, NEW n \in Message, Enqueue(n) \/ Elapse(n) \/ Retry(n), NEW m \in Message
    PROVE  NobodyNew(m)
<1>. SUFFICES ASSUME NEW v \in Worker, Sends(v, m)', ~LeaseRuns(v, m)' PROVE v \in Late(m)
  BY DEF NobodyNew
<1>1. job' = job /\ \A k \in Message : k # n => row'[k] = row[k]
  BY DEF Enqueue, Elapse, Retry, IInv, TypeOK
<1>2. Sends(v, m)
  BY <1>1 DEF Sends
<1>3. CASE m = n
  BY <1>2, <1>3 DEF Sends, LeaseRuns, Late, Enqueue, Elapse, Retry, Retryable, Holds
<1>. QED
  BY <1>1, <1>2, <1>3 DEF Late, LeaseRuns

\* Only the holder becomes late, and it takes a fault.
LEMMA OutlivesCosts == ASSUME IInv, LateInv, NEW n \in Message, Outlives(n) PROVE LateInv'
<1>1. /\ job' = job /\ \A k \in Message : k # n => row'[k] = row[k]
      /\ faults \in Nat /\ faults' = faults + 1
  BY DEF Outlives, Fault, IInv, TypeOK
<1>. SUFFICES ASSUME NEW m \in Message
              PROVE  IsFiniteSet(Late(m)') /\ Cardinality(Late(m)') <= faults'
  BY DEF LateInv
<1>2. Late(m)' \subseteq Late(m) \union {row[n].holder}
  BY <1>1 DEF Late, Sends, LeaseRuns
<1>3. IsFiniteSet(Late(m)) /\ Cardinality(Late(m)) <= faults
  BY DEF LateInv
<1>4. /\ IsFiniteSet(Late(m) \union {row[n].holder})
      /\ Cardinality(Late(m) \union {row[n].holder}) <= Cardinality(Late(m)) + 1
  BY <1>3, OneIsAdded
<1>5. IsFiniteSet(Late(m)') /\ Cardinality(Late(m)') <= Cardinality(Late(m) \union {row[n].holder})
  BY <1>2, <1>4, FS_Subset
<1>. QED
  BY <1>1, <1>3, <1>4, <1>5, FS_CardinalityType

LEMMA NextLateInv == IInv /\ LateInv /\ [Next]_vars => LateInv'
<1>. SUFFICES ASSUME IInv, LateInv, [Next]_vars PROVE LateInv'
  OBVIOUS
<1>1. CASE UNCHANGED vars
  BY <1>1 DEF vars, LateInv, Late, Sends, LeaseRuns
<1>2. ASSUME NEW w \in Worker, Work(w) \/ Failure(w) PROVE LateInv'
  <2>1. faults \in Nat /\ faults' \in {faults, faults + 1}
    BY <1>2 DEF IInv, TypeOK, Work, Failure, Select, Finish, SendAccepted, SendFails, Complete,
       Dispose, Claim, Skip, CompleteThrows, DisposeThrows, Crash, ClaimThrows, Fault
  <2>. QED
    BY <1>2, <2>1, WorkIsTimely, NobodyLate
<1>3. ASSUME NEW m \in Message, Enqueue(m) \/ Elapse(m) \/ Retry(m) PROVE LateInv'
  <2>1. faults \in Nat /\ faults' = faults
    BY <1>3 DEF IInv, TypeOK, Enqueue, Elapse, Retry
  <2>. QED
    BY <1>3, <2>1, OthersAreTimely, NobodyLate
<1>. QED
  BY <1>1, <1>2, <1>3, OutlivesCosts DEF Next

\* One lease runs at a time.
LEMMA LateAndOne == IInv /\ LateInv => OneSender
<1>. SUFFICES ASSUME IInv, LateInv, NEW m \in Message
              PROVE  Cardinality(Senders(m)) <= 1 + faults
  BY DEF OneSender
<1>1. Senders(m) \subseteq Late(m) \union {row[m].holder}
  BY DEF Senders, Late, Sends, LeaseRuns
<1>2. IsFiniteSet(Late(m)) /\ Cardinality(Late(m)) <= faults /\ faults \in Nat
  BY DEF LateInv, IInv, TypeOK
<1>3. /\ IsFiniteSet(Late(m) \union {row[m].holder})
      /\ Cardinality(Late(m) \union {row[m].holder}) <= Cardinality(Late(m)) + 1
  BY <1>2, OneIsAdded
<1>4. IsFiniteSet(Senders(m)) /\ Cardinality(Senders(m)) <= Cardinality(Late(m) \union {row[m].holder})
  BY <1>1, <1>3, FS_Subset
<1>. QED
  BY <1>2, <1>3, <1>4, FS_CardinalityType

\* Overlapping invocations send a message twice only after a fault: each sender
\* but one outlived its lease.
THEOREM NobodySendsTwice == Spec => []OneSender
<1>1. Init => LateInv
  <2>1. SUFFICES ASSUME Init, NEW m \in Message
                 PROVE  IsFiniteSet(Late(m)) /\ Cardinality(Late(m)) <= faults
    BY DEF LateInv
  <2>2. Late(m) = {} /\ faults = 0
    BY <2>1 DEF Init, Resting, Late, Sends
  <2>. QED
    BY <2>2, FS_EmptySet
<1>. QED
  BY <1>1, NextLateInv, LateAndOne, Invariance, PTL DEF Spec

-----------------------------------------------------------------------------
(* The refinement.                                                         *)

\* A step that leaves every phase and what was accepted alone is a stutter.
LEMMA Stutter ==
    ASSUME IInv, \A m \in Message : Phase(row'[m].status) = Phase(row[m].status),
           accepted' = accepted
    PROVE  UNCHANGED Promise!vars
BY DEF Promise!vars

\* An acceptance of a message that was enqueued.
LEMMA AcceptStep ==
    ASSUME IInv, NEW m \in Message, row[m].status # "absent", row' = row,
           accepted' = accepted \union {m}
    PROVE  Promise!Accept(m)
<1>1. Phase(row[m].status) # "absent"
  BY DEF IInv, TypeOK, Row, Phase
<1>. QED
  BY <1>1 DEF Promise!Accept

\* A step that writes the status of one row.
LEMMA PhaseStep ==
    ASSUME IInv, NEW m \in Message, NEW x \in Row, row' = [row EXCEPT ![m] = x],
           accepted' = accepted
    PROVE  [n \in Message |-> Phase(row'[n].status)] =
             [[n \in Message |-> Phase(row[n].status)] EXCEPT ![m] = Phase(x.status)]
BY DEF IInv, TypeOK

LEMMA CompletedRefines ==
    ASSUME IInv, NEW w \in Worker, job[w].pc = "complete",
           row' = Completed(w), accepted' = accepted
    PROVE  [Promise!Next]_(Promise!vars)
<1>. DEFINE m == job[w].msg
            x == [status |-> "delivered", attempts |-> row[m].attempts,
                  due |-> row[m].due, holder |-> row[m].holder]
<1>1. m \in Message /\ m \in accepted /\ row \in [Message -> Row] /\ row[m] \in Row
  BY DEF IInv, TypeOK, JobOK, AtWork
<1>2. CASE Holds(w)
  <2>1. x \in Row /\ [row[m] EXCEPT !.status = "delivered"] = x
    BY <1>1 DEF Row
  <2>2. row' = [row EXCEPT ![m] = x]
    BY <1>2, <2>1 DEF Completed
  <2>3. row[m].status = "sending"
    BY <1>2 DEF Holds
  <2>4. Promise!Deliver(m)
    <3>1. Phase(x.status) = "delivered" /\ Phase(row[m].status) = "queued"
      BY <2>3 DEF Phase
    <3>. QED
      BY <1>1, <2>1, <2>2, <3>1, PhaseStep DEF Promise!Deliver
  <2>. QED
    BY <1>1, <2>4 DEF Promise!Next
<1>3. CASE ~Holds(w)
  BY <1>3, Stutter DEF Completed
<1>. QED
  BY <1>2, <1>3

LEMMA DisposedRefines ==
    ASSUME IInv, NEW w \in Worker, job[w].pc \in {"fail", "reject"},
           row' = Disposed(w), accepted' = accepted
    PROVE  [Promise!Next]_(Promise!vars)
<1>. DEFINE m == job[w].msg
            x == [status |-> IF Exhausted(w) THEN "dead" ELSE "failed",
                  attempts |-> row[m].attempts, due |-> FALSE, holder |-> "none"]
<1>1. m \in Message /\ row \in [Message -> Row] /\ row[m] \in Row
  BY DEF IInv, TypeOK, JobOK, AtWork
<1>2. CASE Holds(w)
  <2>1. x \in Row /\ row' = [row EXCEPT ![m] = x]
    BY <1>1, <1>2 DEF Row, Disposed
  <2>2. row[m].status = "sending"
    BY <1>2 DEF Holds
  <2>3. CASE Exhausted(w)
    <3>1. Promise!GiveUp(m)
      BY <1>1, <2>1, <2>2, <2>3, PhaseStep DEF Promise!GiveUp, Phase
    <3>. QED
      BY <1>1, <3>1 DEF Promise!Next
  <2>4. CASE ~Exhausted(w)
    <3>1. x.status = "failed" /\ row'[m] = x /\ \A n \in Message : n # m => row'[n] = row[n]
      BY <1>1, <2>1, <2>4
    <3>2. Phase("failed") = Phase("sending")
      BY DEF Phase
    <3>. QED
      BY <2>2, <3>1, <3>2, Stutter
  <2>. QED
    BY <2>3, <2>4
<1>3. CASE ~Holds(w)
  BY <1>3, Stutter DEF Disposed
<1>. QED
  BY <1>2, <1>3

LEMMA ClaimRefines ==
    ASSUME IInv, NEW w \in Worker, NEW m \in Message, Claimable(m),
           row' = Leased(w, m), accepted' = accepted
    PROVE  UNCHANGED Promise!vars
<1>1. row'[m].status = "sending" /\ \A n \in Message : n # m => row'[n] = row[n]
  BY DEF IInv, TypeOK, Row, Leased
<1>. QED
  BY <1>1, Stutter DEF Claimable, Phase

LEMMA WorkRefines ==
    ASSUME IInv, NEW w \in Worker, Work(w)
    PROVE  [Promise!Next]_(Promise!vars)
<1>1. row \in [Message -> Row] /\ accepted \subseteq Message
  BY DEF IInv, TypeOK
<1>2. CASE Select(w) \/ Finish(w) \/ \E m \in Message : Skip(w, m)
  BY <1>2, Stutter DEF Select, Finish, Skip
<1>3. CASE SendAccepted(w) \/ SendFails(w)
  <2>1. job[w].msg \in Message /\ row[job[w].msg].status # "absent" /\ row' = row
    BY <1>3 DEF SendAccepted, SendFails, IInv, JobOK, AtWork
  <2>2. CASE accepted' = accepted
    BY <2>1, <2>2, Stutter
  <2>3. CASE accepted' = accepted \union {job[w].msg}
    BY <2>1, <2>3, AcceptStep DEF Promise!Next
  <2>. QED
    BY <1>3, <2>2, <2>3 DEF SendAccepted, SendFails
<1>4. CASE Complete(w)
  BY <1>4, CompletedRefines DEF Complete
<1>5. CASE Dispose(w)
  BY <1>5, DisposedRefines DEF Dispose
<1>6. ASSUME NEW m \in Message, Claim(w, m) PROVE [Promise!Next]_(Promise!vars)
  BY <1>6, ClaimRefines DEF Claim
<1>. QED
  BY <1>2, <1>3, <1>4, <1>5, <1>6 DEF Work

LEMMA FailureRefines ==
    ASSUME IInv, NEW w \in Worker, Failure(w)
    PROVE  [Promise!Next]_(Promise!vars)
<1>1. CASE accepted' = accepted /\ row' = row
  BY <1>1, Stutter
<1>2. CASE Crash(w)
  BY <1>1, <1>2 DEF Crash
<1>3. CASE CompleteThrows(w)
  BY <1>1, <1>3, CompletedRefines DEF CompleteThrows
<1>4. CASE DisposeThrows(w)
  BY <1>1, <1>4, DisposedRefines DEF DisposeThrows
<1>5. ASSUME NEW m \in Message, ClaimThrows(w, m) PROVE [Promise!Next]_(Promise!vars)
  BY <1>1, <1>5, ClaimRefines DEF ClaimThrows
<1>. QED
  BY <1>2, <1>3, <1>4, <1>5 DEF Failure

LEMMA OtherRefines ==
    ASSUME IInv, NEW m \in Message, Enqueue(m) \/ Elapse(m) \/ Outlives(m) \/ Retry(m)
    PROVE  [Promise!Next]_(Promise!vars)
<1>. DEFINE x == [status |-> "pending", attempts |-> 0, due |-> TRUE, holder |-> "none"]
<1>1. x \in Row /\ row \in [Message -> Row]
  BY DEF IInv, TypeOK, Row
<1>2. CASE Enqueue(m)
  <2>1. Promise!Enqueue(m)
    BY <1>1, <1>2, PhaseStep DEF Enqueue, Promise!Enqueue, Phase
  <2>. QED
    BY <2>1 DEF Promise!Next
<1>3. CASE Retry(m)
  <2>1. row' = [row EXCEPT ![m] = x] /\ accepted' = accepted /\ row[m].status \in {"failed", "dead"}
    BY <1>3 DEF Retry, Retryable
  <2>2. CASE row[m].status = "dead"
    <3>1. Promise!Requeue(m)
      BY <1>1, <2>1, <2>2, PhaseStep DEF Promise!Requeue, Phase
    <3>. QED
      BY <3>1 DEF Promise!Next
  <2>3. CASE row[m].status = "failed"
    BY <1>1, <2>1, <2>3, Stutter DEF Phase
  <2>. QED
    BY <2>1, <2>2, <2>3
<1>4. CASE Elapse(m) \/ Outlives(m)
  <2>1. accepted' = accepted /\ \A n \in Message : row'[n].status = row[n].status
    BY <1>1, <1>4 DEF Elapse, Outlives, Row
  <2>. QED
    BY <2>1, Stutter
<1>. QED
  BY <1>2, <1>3, <1>4

\* The outbox implements Delivery: no queued notification is lost, none is
\* recorded as delivered that no provider accepted, and none leaves delivered.
THEOREM OutboxKeepsPromise == Spec => KeepsPromise
<1>1. Init => Promise!Init
  BY DEF Init, Promise!Init, Phase
<1>2. IInv /\ [Next]_vars => [Promise!Next]_(Promise!vars)
  <2>1. SUFFICES ASSUME IInv, [Next]_vars PROVE [Promise!Next]_(Promise!vars)
    OBVIOUS
  <2>2. CASE UNCHANGED vars
    BY <2>1, <2>2 DEF vars, Promise!vars
  <2>3. CASE Next
    BY <2>1, <2>3, WorkRefines, FailureRefines, OtherRefines DEF Next
  <2>. QED
    BY <2>1, <2>2, <2>3
<1>. QED
  BY <1>1, <1>2, Invariance, PTL DEF Spec, KeepsPromise, Promise!Spec
=============================================================================
