------------------------------ MODULE RateLimit ------------------------------
(***************************************************************************)
(* lib/abuse-protection.ts: the limit on what one subject does in one      *)
(* scope.  A request takes the time, then one statement counts the events  *)
(* of the window before that time and inserts its own; the statement runs  *)
(* up to Delay later, in any order among requests.  A maintenance job      *)
(* deletes events that have expired by its own clock.                      *)
(***************************************************************************)
EXTENDS Naturals, FiniteSets

CONSTANTS
    Attempt,       \* requests of one subject in one scope
    Limit,         \* events allowed in a window
    Window,        \* length of the window in ticks
    Delay,         \* ticks a statement may run after its time was taken
    LastTick       \* bound

ASSUME RateConstants ==
    /\ {Limit, Window, LastTick} \subseteq Nat \ {0}
    /\ Delay \in Nat /\ Delay < Window

VARIABLES
    clock,
    attempt,       \* the requests: progress and the time they took
    events,        \* rate_events: the requests whose event is stored
    retry          \* the Retry-After a rejected request was answered

rateVars == <<clock, attempt, events, retry>>

RateInit ==
    /\ clock = 0
    /\ attempt = [a \in Attempt |-> [pc |-> "new", at |-> 0]]
    /\ events = {}
    /\ retry = [a \in Attempt |-> 0]

\* No statement waits longer than Delay.
PassTime ==
    /\ clock < LastTick
    /\ \A a \in Attempt : attempt[a].pc = "insert" => clock < attempt[a].at + Delay
    /\ clock' = clock + 1
    /\ UNCHANGED <<attempt, events, retry>>

TakeTime(a) ==
    /\ attempt[a].pc = "new"
    /\ attempt' = [attempt EXCEPT ![a] = [pc |-> "insert", at |-> clock]]
    /\ UNCHANGED <<clock, events, retry>>

\* occurred_at >= since, where since is the request's time less the window.
Counted(a) == {e \in events : attempt[e].at + Window >= attempt[a].at}

\* One event too many.
MutantAdmits(a) == Cardinality(Counted(a)) <= Limit

Admits(a) == Cardinality(Counted(a)) < Limit

\* The INSERT ... SELECT ... WHERE (SELECT COUNT(*)) < limit.
Consume(a) ==
    /\ attempt[a].pc = "insert"
    /\ events' = IF Admits(a) THEN events \union {a} ELSE events
    /\ attempt' = [attempt EXCEPT ![a].pc = IF Admits(a) THEN "accepted" ELSE "explain"]
    /\ UNCHANGED <<clock, retry>>

\* The oldest event that counts tells when to come back; it may have gone.
Explain(a) ==
    LET elapsed == {attempt[a].at - attempt[e].at : e \in {f \in Counted(a) :
                       \A g \in Counted(a) : attempt[f].at <= attempt[g].at}}
        wait == IF Counted(a) = {} THEN Window ELSE Window - CHOOSE t \in elapsed : TRUE
    IN  /\ attempt[a].pc = "explain"
        /\ retry' = [retry EXCEPT ![a] = IF wait < 1 THEN 1 ELSE wait]
        /\ attempt' = [attempt EXCEPT ![a].pc = "rejected"]
        /\ UNCHANGED <<clock, events>>

\* deleteExpiredRateEvents
DeleteExpired ==
    /\ events' = {e \in events : attempt[e].at + Window >= clock}
    /\ UNCHANGED <<clock, attempt, retry>>

RateStep ==
    \/ PassTime \/ DeleteExpired
    \/ \E a \in Attempt : TakeTime(a) \/ Consume(a) \/ Explain(a)

----------------------------------------------------------------------------
RateTypeOK ==
    /\ clock \in 0 .. LastTick
    /\ attempt \in [Attempt -> [pc : {"new", "insert", "accepted", "explain", "rejected"},
                                at : 0 .. LastTick]]
    /\ events \subseteq Attempt
    /\ retry \in [Attempt -> Nat]

\* Statements run out of order and expired events are deleted between them:
\* no more requests are accepted within a window, short of the time a statement
\* may wait, than the limit allows.
WindowIsRespected ==
    \A t \in 0 .. LastTick :
        Cardinality({a \in Attempt : /\ attempt[a].pc = "accepted"
                                     /\ attempt[a].at \in t .. t + (Window - Delay)}) <= Limit
=============================================================================
