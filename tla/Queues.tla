------------------------------- MODULE Queues --------------------------------
(***************************************************************************)
(* The paged lists of the staff's other panels: useOperationsPage of       *)
(* admin-operations-panel.tsx, admin-accounts-panel.tsx and                *)
(* admin/moderator-application-queue.tsx.  Each loads what is asked for    *)
(* and loads again after a write, and answers come in any order.  They     *)
(* share nothing, so a behaviour is about one of them.                     *)
(***************************************************************************)
EXTENDS Naturals

CONSTANTS
    View,          \* what can be asked for: a page, a search, a status
    Fetch,         \* requests under way
    NoView         \* nothing is shown yet

ASSUME QueueConstants == NoView \notin View /\ View # {} /\ Fetch # {}

VARIABLES
    panel,         \* which of the lists it is
    asked,         \* the page, search or status that is set
    listed,        \* that of the rows shown
    reloaded,      \* the rows came with the reload of a write
    failed,        \* an error is shown
    waiting,       \* loading, which the accounts do not show
    fetch          \* the requests

queueVars == <<panel, asked, listed, reloaded, failed, waiting, fetch>>

NoFetch == [pc |-> "idle", view |-> NoView, again |-> FALSE]

\* The effect of the first rendering.
QueuesInit ==
    /\ panel \in {"operations", "accounts", "applications"}
    /\ asked = CHOOSE v \in View : TRUE
    /\ listed = NoView
    /\ reloaded = FALSE /\ failed = FALSE /\ waiting = (panel # "accounts")
    /\ fetch = [f \in Fetch |-> IF f = CHOOSE q \in Fetch : TRUE
                                THEN [NoFetch EXCEPT !.pc = "loads", !.view = asked]
                                ELSE NoFetch]

\* What the clean-up of the effect cancels: of its loads, nothing.
MutantCancelled == fetch

\* The clean-up of the effect cancels its own loads, whose answers are then
\* ignored; the reload after a write is nobody's effect.  The applications
\* have no clean-up.
Cancelled ==
    [f \in Fetch |-> IF panel # "applications" /\ fetch[f].pc = "loads" /\ ~fetch[f].again
                     THEN NoFetch ELSE fetch[f]]

EffectLoads(f, v) == fetch' = [Cancelled EXCEPT ![f] = [NoFetch EXCEPT !.pc = "loads", !.view = v]]

\* Another page, search or status.  Only the controls of the applications wait
\* for a load; only the accounts keep an earlier error.
AskFor(v, f) ==
    /\ fetch[f] = NoFetch /\ asked # v
    /\ panel = "applications" => ~waiting
    /\ asked' = v
    /\ EffectLoads(f, v)
    /\ waiting' = (panel # "accounts")
    /\ failed' = (failed /\ panel = "accounts")
    /\ UNCHANGED <<panel, listed, reloaded>>

\* save, remove, retryNotification or moderate.
Change(f) ==
    /\ fetch[f] = NoFetch /\ listed # NoView
    /\ panel = "applications" => ~waiting
    /\ fetch' = [fetch EXCEPT ![f] = [NoFetch EXCEPT !.pc = "writes", !.view = asked]]
    /\ waiting' = (waiting \/ panel = "applications")
    /\ failed' = (failed /\ panel = "operations")
    /\ UNCHANGED <<panel, asked, listed, reloaded>>

\* A new key makes the operations' effect load what is asked for by now; the
\* other two load what was asked for when the write began.
Changed(f) ==
    /\ fetch[f].pc = "writes"
    /\ IF panel = "operations"
       THEN /\ EffectLoads(f, asked)
            /\ waiting' = TRUE /\ failed' = FALSE
       ELSE /\ fetch' = [fetch EXCEPT ![f].pc = "loads", ![f].again = TRUE]
            /\ UNCHANGED <<waiting, failed>>
    /\ UNCHANGED <<panel, asked, listed, reloaded>>

\* The operations show such an error elsewhere than that of a load.
ChangeFails(f) ==
    /\ fetch[f].pc = "writes"
    /\ fetch' = [fetch EXCEPT ![f] = NoFetch]
    /\ failed' = (failed \/ panel # "operations")
    /\ waiting' = (waiting /\ panel # "applications")
    /\ UNCHANGED <<panel, asked, listed, reloaded>>

\* An answer that was not cancelled is shown, or its error is.
FetchArrives(f) ==
    /\ fetch[f].pc = "loads"
    /\ listed' = fetch[f].view /\ reloaded' = fetch[f].again
    /\ fetch' = [fetch EXCEPT ![f] = NoFetch]
    /\ waiting' = FALSE
    /\ UNCHANGED <<panel, asked, failed>>
FetchFails(f) ==
    /\ fetch[f].pc = "loads"
    /\ failed' = TRUE
    /\ fetch' = [fetch EXCEPT ![f] = NoFetch]
    /\ waiting' = FALSE
    /\ UNCHANGED <<panel, asked, listed, reloaded>>

QueueStep ==
    \E f \in Fetch : \/ \E v \in View : AskFor(v, f)
                     \/ Change(f) \/ Changed(f) \/ ChangeFails(f) \/ FetchArrives(f) \/ FetchFails(f)

----------------------------------------------------------------------------
QueuesTypeOK ==
    /\ panel \in {"operations", "accounts", "applications"}
    /\ asked \in View /\ listed \in View \union {NoView}
    /\ {reloaded, failed, waiting} \subseteq BOOLEAN
    /\ fetch \in [Fetch -> [pc : {"idle", "loads", "writes"}, view : View \union {NoView},
                            again : BOOLEAN]]

\* In whatever order the answers come: once none is outstanding, the rows shown
\* are those last asked for or an error is shown, except in the accounts after
\* a save that was begun on another page; and nothing waits for no answer.
ListedWasAsked ==
    (\A f \in Fetch : fetch[f] = NoFetch) =>
        /\ ~waiting
        /\ listed = asked \/ failed \/ (panel = "accounts" /\ reloaded)
=============================================================================
