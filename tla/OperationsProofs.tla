-------------------------- MODULE OperationsProofs ---------------------------
(***************************************************************************)
(* Proofs about the parts of Operations, for any number of requests,       *)
(* handlers, publishers, moderators and reports.  A step of Operations is  *)
(* a step of one part and leaves the others alone (StepsApart), so each    *)
(* part has an inductive invariant of its own.                             *)
(***************************************************************************)
EXTENDS Operations, FiniteSetTheorems, TLAPS

\* Each part sees its own steps and nothing else.
LEMMA StepsApart ==
    [Next]_vars => /\ [QueueStep]_queueVars
                   /\ [DialogStep]_dialogVars
                   /\ [StatusStep]_statusVars
                   /\ [PanelStep]_panelVars
                   /\ [ApplicationStep]_applicationVars
                   /\ [BackupStep]_backupVars
                   /\ [MonitorStep]_monitorVars
                   /\ [IncidentStep]_incidentVars
                   /\ [RateStep]_rateVars
                   /\ [ScoreStep]_scoreVars
BY DEF Next, vars

-----------------------------------------------------------------------------
(* The staff's lists. *)

FetchRow == [pc : {"idle", "loads", "writes"}, view : View \union {NoView}, again : BOOLEAN]
InFlight(f) == fetch[f].pc # "idle"

\* A load that its effect still owns asks for what is asked for now.  The
\* applications have one request at a time, and wait for it; the operations wait
\* for a load; the accounts never wait.
QueueInv ==
    /\ QueuesTypeOK
    /\ \A f \in Fetch : fetch[f].pc = "loads" /\ ~fetch[f].again => fetch[f].view = asked
    /\ panel = "operations" =>
           /\ \A f \in Fetch : ~fetch[f].again
           /\ waiting => \E f \in Fetch : fetch[f].pc = "loads"
           /\ listed = asked \/ failed \/ \E f \in Fetch : fetch[f].pc = "loads"
    /\ panel = "accounts" =>
           /\ ~waiting
           /\ listed = asked \/ failed \/ reloaded \/ \E f \in Fetch : InFlight(f)
    /\ panel = "applications" =>
           /\ \A f, g \in Fetch : InFlight(f) /\ InFlight(g) => f = g
           /\ \A f \in Fetch : InFlight(f) => waiting /\ fetch[f].view = asked
           /\ waiting => \E f \in Fetch : InFlight(f)
           /\ listed = asked \/ failed \/ \E f \in Fetch : InFlight(f)

LEMMA QueueInvShows == QueueInv => ListedWasAsked
BY DEF QueueInv, QueuesTypeOK, ListedWasAsked, InFlight, NoFetch

Loads(v) == [NoFetch EXCEPT !.pc = "loads", !.view = v]

LEMMA LoadRow ==
    ASSUME NEW v \in View
    PROVE  Loads(v) \in FetchRow /\ Loads(v).pc = "loads" /\ Loads(v).view = v /\ Loads(v).again = FALSE
BY DEF Loads, NoFetch, FetchRow

LEMMA NoFetchRow == NoFetch \in FetchRow /\ NoFetch.pc = "idle" /\ NoFetch.again = FALSE
BY DEF NoFetch, FetchRow

LEMMA QueuesStart == QueuesInit => QueueInv
<1>. SUFFICES ASSUME QueuesInit PROVE QueueInv
  OBVIOUS
<1>. DEFINE first == CHOOSE q \in Fetch : TRUE
<1>1. first \in Fetch
  BY QueueConstants
<1>2. asked \in View
  BY QueueConstants DEF QueuesInit
<1>3. fetch = [f \in Fetch |-> IF f = first THEN Loads(asked) ELSE NoFetch]
  BY DEF QueuesInit, Loads
<1>4. /\ panel \in {"operations", "accounts", "applications"}
      /\ listed = NoView /\ reloaded = FALSE /\ failed = FALSE /\ waiting = (panel # "accounts")
  BY DEF QueuesInit
<1>. HIDE DEF first
<1>5. fetch \in [Fetch -> FetchRow]
  BY <1>2, <1>3, LoadRow, NoFetchRow
<1>6. fetch[first] = Loads(asked) /\ \A f \in Fetch : f # first => fetch[f] = NoFetch
  BY <1>1, <1>3
<1>7. QueuesTypeOK
  BY <1>2, <1>4, <1>5 DEF QueuesTypeOK, FetchRow
<1>. QED
  BY <1>1, <1>2, <1>4, <1>6, <1>7, LoadRow, NoFetchRow DEF QueueInv, InFlight

\* The effect's load is the only one an effect owns, and no reload but those
\* there were.
LEMMA EffectLoaded ==
    ASSUME QueueInv, NEW f \in Fetch, NEW v \in View, EffectLoads(f, v)
    PROVE  /\ fetch' \in [Fetch -> FetchRow]
           /\ fetch'[f].pc = "loads" /\ fetch'[f].view = v /\ ~fetch'[f].again
           /\ panel # "applications" =>
                  \A g \in Fetch : g # f =>
                      /\ fetch'[g].pc = "loads" => fetch'[g].again
                      /\ fetch'[g].again => fetch[g].again
           /\ panel = "applications" => \A g \in Fetch : g # f => fetch'[g] = fetch[g]
<1>. DEFINE row == Loads(v)
<1>1. fetch \in [Fetch -> FetchRow] /\ NoFetch \in FetchRow /\ row \in FetchRow
  BY LoadRow, NoFetchRow DEF QueueInv, QueuesTypeOK, FetchRow
<1>2. fetch' = [Cancelled EXCEPT ![f] = row]
  BY DEF EffectLoads, Loads
<1>5. row.pc = "loads" /\ row.view = v /\ ~row.again
  BY LoadRow
<1>. HIDE DEF row
<1>3. /\ fetch' \in [Fetch -> FetchRow] /\ fetch'[f] = row
      /\ \A g \in Fetch : g # f =>
             fetch'[g] = IF panel # "applications" /\ fetch[g].pc = "loads" /\ ~fetch[g].again
                         THEN NoFetch ELSE fetch[g]
  BY <1>1, <1>2 DEF Cancelled
<1>4. ASSUME NEW g \in Fetch, g # f, panel # "applications"
      PROVE  (fetch'[g].pc = "loads" => fetch'[g].again) /\ (fetch'[g].again => fetch[g].again)
  <2>1. CASE fetch[g].pc = "loads" /\ ~fetch[g].again
    <3>1. fetch'[g] = NoFetch
      BY <1>3, <1>4, <2>1
    <3>. QED
      BY <3>1, NoFetchRow
  <2>2. CASE ~(fetch[g].pc = "loads" /\ ~fetch[g].again)
    <3>1. fetch'[g] = fetch[g]
      BY <1>3, <1>4, <2>2
    <3>. QED
      BY <2>2, <3>1
  <2>. QED
    BY <2>1, <2>2
<1>. QED
  BY <1>3, <1>4, <1>5

\* An effect loads, in a list that is not the applications': what is shown does
\* not matter, since a load is under way.
LEMMA EffectKeepsInv ==
    ASSUME QueueInv, QueuesTypeOK', NEW f \in Fetch, NEW v \in View, EffectLoads(f, v), asked' = v,
           panel' = panel, panel # "applications", waiting' = (panel # "accounts")
    PROVE  QueueInv'
<1>1. /\ fetch'[f].pc = "loads" /\ fetch'[f].view = v /\ ~fetch'[f].again
      /\ \A g \in Fetch : g # f => (fetch'[g].pc = "loads" => fetch'[g].again) /\ (fetch'[g].again => fetch[g].again)
  BY EffectLoaded
<1>2. \A g \in Fetch : fetch'[g].pc = "loads" /\ ~fetch'[g].again => fetch'[g].view = asked'
  BY <1>1
<1>3. panel = "operations" => \A g \in Fetch : ~fetch'[g].again
  BY <1>1 DEF QueueInv
<1>. QED
  BY <1>1, <1>2, <1>3 DEF QueueInv, InFlight

LEMMA AskForStep ==
    ASSUME QueueInv, NEW f \in Fetch, NEW v \in View, AskFor(v, f)
    PROVE  QueueInv'
<1>1. /\ fetch' \in [Fetch -> FetchRow]
      /\ fetch'[f].pc = "loads" /\ fetch'[f].view = v
      /\ panel = "applications" => \A g \in Fetch : g # f => fetch'[g] = fetch[g]
  BY EffectLoaded DEF AskFor
<1>2. /\ fetch[f] = NoFetch /\ EffectLoads(f, v)
      /\ panel = "applications" => ~waiting
      /\ asked' = v
      /\ waiting' = (panel # "accounts")
      /\ failed' = (failed /\ panel = "accounts")
      /\ panel' = panel /\ listed' = listed /\ reloaded' = reloaded
  BY DEF AskFor
<1>3. QueuesTypeOK'
  BY <1>1, <1>2 DEF QueueInv, QueuesTypeOK, FetchRow
<1>4. CASE panel # "applications"
  BY <1>2, <1>3, <1>4, EffectKeepsInv
<1>5. CASE panel = "applications"
  <2>1. \A g \in Fetch : ~InFlight(g)
    BY <1>2, <1>5 DEF QueueInv
  <2>2. \A g \in Fetch : InFlight(g)' => g = f
    BY <1>1, <1>5, <2>1 DEF InFlight
  <2>. QED
    BY <1>1, <1>2, <1>3, <1>5, <2>2 DEF QueueInv, InFlight
<1>. QED
  BY <1>4, <1>5

\* One request is taken up, and the others are left alone.
LEMMA OneFetchMoves ==
    ASSUME QueueInv, NEW f \in Fetch, NEW row \in FetchRow, fetch' = [fetch EXCEPT ![f] = row]
    PROVE  fetch' \in [Fetch -> FetchRow] /\ fetch'[f] = row /\ \A g \in Fetch : g # f => fetch'[g] = fetch[g]
BY DEF QueueInv, QueuesTypeOK, FetchRow

LEMMA ChangeStep ==
    ASSUME QueueInv, NEW f \in Fetch, Change(f)
    PROVE  QueueInv'
<1>. DEFINE row == [NoFetch EXCEPT !.pc = "writes", !.view = asked]
<1>1. row \in FetchRow /\ row.pc = "writes" /\ row.view = asked /\ row.again = FALSE
  BY DEF NoFetch, FetchRow, QueueInv, QueuesTypeOK
<1>2. /\ fetch[f] = NoFetch
      /\ panel = "applications" => ~waiting
      /\ fetch' = [fetch EXCEPT ![f] = row]
      /\ waiting' = (waiting \/ panel = "applications")
      /\ failed' = (failed /\ panel = "operations")
      /\ panel' = panel /\ asked' = asked /\ listed' = listed /\ reloaded' = reloaded
  BY DEF Change
<1>. HIDE DEF row
<1>3. fetch' \in [Fetch -> FetchRow] /\ fetch'[f] = row /\ \A g \in Fetch : g # f => fetch'[g] = fetch[g]
  BY <1>1, <1>2, OneFetchMoves
<1>4. QueuesTypeOK'
  BY <1>2, <1>3 DEF QueueInv, QueuesTypeOK, FetchRow
<1>5. panel = "applications" => \A g \in Fetch : ~InFlight(g)
  BY <1>2 DEF QueueInv
<1>6. CASE panel = "operations"
  BY <1>1, <1>2, <1>3, <1>4, <1>6, NoFetchRow DEF QueueInv, InFlight
<1>7. CASE panel = "accounts"
  BY <1>1, <1>2, <1>3, <1>4, <1>7, NoFetchRow DEF QueueInv, InFlight
<1>8. CASE panel = "applications"
  BY <1>1, <1>2, <1>3, <1>4, <1>5, <1>8, NoFetchRow DEF QueueInv, InFlight
<1>. QED
  BY <1>6, <1>7, <1>8 DEF QueueInv, QueuesTypeOK

LEMMA ChangedStep ==
    ASSUME QueueInv, NEW f \in Fetch, Changed(f)
    PROVE  QueueInv'
<1>1. panel' = panel /\ asked' = asked /\ listed' = listed /\ reloaded' = reloaded /\ fetch[f].pc = "writes"
  BY DEF Changed
<1>2. CASE panel = "operations"
  <2>1. EffectLoads(f, asked) /\ waiting' = TRUE /\ failed' = FALSE /\ asked \in View
    BY <1>2 DEF Changed, QueueInv, QueuesTypeOK
  <2>2. fetch' \in [Fetch -> FetchRow]
    BY <2>1, EffectLoaded
  <2>3. QueuesTypeOK'
    BY <1>1, <2>1, <2>2 DEF QueueInv, QueuesTypeOK, FetchRow
  <2>. QED
    BY <1>1, <1>2, <2>1, <2>3, EffectKeepsInv
<1>3. CASE panel # "operations"
  <2>. DEFINE old == fetch[f]
              q1 == [old EXCEPT !.pc = "loads"]
              row == [q1 EXCEPT !.again = TRUE]
  <2>1. old \in FetchRow
    BY DEF QueueInv, QueuesTypeOK, FetchRow
  <2>. HIDE DEF old
  <2>2. q1 \in FetchRow /\ q1.pc = "loads" /\ q1.view = old.view
    BY <2>1 DEF FetchRow
  <2>. HIDE DEF q1
  <2>3. row \in FetchRow /\ row.pc = "loads" /\ row.again = TRUE /\ row.view = old.view
    BY <2>2 DEF FetchRow
  <2>4. fetch' = [fetch EXCEPT ![f] = row] /\ waiting' = waiting /\ failed' = failed
    BY <1>3 DEF Changed, row, q1, old, QueueInv, QueuesTypeOK
  <2>. HIDE DEF row
  <2>5. fetch' \in [Fetch -> FetchRow] /\ fetch'[f] = row /\ \A g \in Fetch : g # f => fetch'[g] = fetch[g]
    BY <2>3, <2>4, OneFetchMoves
  <2>6. QueuesTypeOK'
    BY <1>1, <2>4, <2>5 DEF QueueInv, QueuesTypeOK, FetchRow
  <2>7. CASE panel = "accounts"
    BY <1>1, <2>3, <2>4, <2>5, <2>6, <2>7 DEF QueueInv, InFlight
  <2>8. CASE panel = "applications"
    BY <1>1, <2>3, <2>4, <2>5, <2>6, <2>8 DEF QueueInv, InFlight, old
  <2>. QED
    BY <1>3, <2>7, <2>8 DEF QueueInv, QueuesTypeOK
<1>. QED
  BY <1>2, <1>3

\* A request ends: a write that failed, or a load with its rows or its error.
LEMMA FetchEndsStep ==
    ASSUME QueueInv, NEW f \in Fetch, ChangeFails(f) \/ FetchArrives(f) \/ FetchFails(f)
    PROVE  QueueInv'
<1>1. fetch' = [fetch EXCEPT ![f] = NoFetch] /\ panel' = panel /\ asked' = asked
  BY DEF ChangeFails, FetchArrives, FetchFails
<1>2. fetch' \in [Fetch -> FetchRow] /\ fetch'[f] = NoFetch /\ \A g \in Fetch : g # f => fetch'[g] = fetch[g]
  BY <1>1, NoFetchRow, OneFetchMoves
<1>3. fetch[f] \in FetchRow
  BY DEF QueueInv, QueuesTypeOK, FetchRow
<1>4. CASE ChangeFails(f)
  <2>1. /\ fetch[f].pc = "writes" /\ failed' = (failed \/ panel # "operations")
        /\ waiting' = (waiting /\ panel # "applications")
        /\ listed' = listed /\ reloaded' = reloaded
    BY <1>4 DEF ChangeFails
  <2>2. QueuesTypeOK'
    BY <1>1, <1>2, <2>1 DEF QueueInv, QueuesTypeOK, FetchRow
  <2>. QED
    BY <1>1, <1>2, <2>1, <2>2, NoFetchRow DEF QueueInv, QueuesTypeOK, InFlight
<1>5. CASE FetchArrives(f)
  <2>1. /\ fetch[f].pc = "loads" /\ failed' = failed /\ waiting' = FALSE
        /\ listed' = fetch[f].view /\ reloaded' = fetch[f].again
    BY <1>5 DEF FetchArrives
  <2>2. QueuesTypeOK'
    BY <1>1, <1>2, <1>3, <2>1 DEF QueueInv, QueuesTypeOK, FetchRow
  <2>. QED
    BY <1>1, <1>2, <1>3, <2>1, <2>2, NoFetchRow DEF QueueInv, QueuesTypeOK, InFlight
<1>6. CASE FetchFails(f)
  <2>1. /\ fetch[f].pc = "loads" /\ failed' = TRUE /\ waiting' = FALSE
        /\ listed' = listed /\ reloaded' = reloaded
    BY <1>6 DEF FetchFails
  <2>2. QueuesTypeOK'
    BY <1>1, <1>2, <2>1 DEF QueueInv, QueuesTypeOK, FetchRow
  <2>. QED
    BY <1>1, <1>2, <2>1, <2>2, NoFetchRow DEF QueueInv, QueuesTypeOK, InFlight
<1>. QED
  BY <1>4, <1>5, <1>6

LEMMA QueueInvStays == QueueInv /\ [QueueStep]_queueVars => QueueInv'
<1>. SUFFICES ASSUME QueueInv, [QueueStep]_queueVars PROVE QueueInv'
  OBVIOUS
<1>1. CASE UNCHANGED queueVars
  BY <1>1 DEF QueueInv, QueuesTypeOK, InFlight, queueVars
<1>. QED
  BY <1>1, AskForStep, ChangeStep, ChangedStep, FetchEndsStep DEF QueueStep

\* In whatever order answers come, and whatever fails: when no request is
\* outstanding the rows shown are those last asked for, or an error is shown,
\* and nothing waits (useOperationsPage, admin-accounts-panel.tsx and
\* moderator-application-queue.tsx).
THEOREM ListsShowWhatWasAsked == Spec => []ListedWasAsked
<1>1. Init => QueueInv
  BY QueuesStart DEF Init
<1>2. QueueInv /\ [Next]_vars => QueueInv'
  BY QueueInvStays, StepsApart
<1>. QED
  BY <1>1, <1>2, QueueInvShows, PTL DEF Spec

-----------------------------------------------------------------------------
(* Dialogs. *)

TaskRow == [pc : {"idle", "asks", "sends", "loads"}, handler : Handler, round : 0 .. 2]

\* A dialog that is shown belongs to a handler that asks; a handler has asked
\* before it sends, if it asks at all.
DialogInv ==
    /\ DialogsTypeOK
    /\ shown # NoDialog => task[shown].pc = "asks" /\ ~away
    /\ \A t \in Task : task[t].pc \in {"asks", "sends"} => task[t].round # 0 \/ task[t].handler.dialogs = 0
    /\ NobodyWaitsInVain

LEMMA PlainHandler == Plain \in Handler
BY DEF Plain, Handler

LEMMA HandlersAreHandlers == Handlers \subseteq Handler
<1>. DEFINE plain == Plain
            q == [plain EXCEPT !.dialogs = 2]
<1>1. plain \in Handler
  BY PlainHandler
<1>. HIDE DEF plain
<1>9. ASSUME NEW n \in 0 .. 2 PROVE [plain EXCEPT !.dialogs = n] \in Handler
  BY <1>1 DEF Handler
<1>10. [plain EXCEPT !.tried = FALSE] \in Handler
  BY <1>1 DEF Handler
<1>11. [plain EXCEPT !.heeds = FALSE] \in Handler
  BY <1>1 DEF Handler
<1>2. /\ [plain EXCEPT !.tried = FALSE] \in Handler
      /\ [plain EXCEPT !.dialogs = 0] \in Handler
      /\ [plain EXCEPT !.heeds = FALSE] \in Handler
      /\ q \in Handler
  BY <1>9, <1>10, <1>11
<1>3. [plain EXCEPT !.dialogs = 2, !.heeds = FALSE] = [q EXCEPT !.heeds = FALSE]
  OBVIOUS
<1>. HIDE DEF q
<1>4. [q EXCEPT !.heeds = FALSE] \in Handler
  BY <1>2 DEF Handler
<1>5. DeleteReport \subseteq Handler
  BY DEF DeleteReport, Handler
<1>6. ReviewHandlers \subseteq Handler /\ AppealHandlers \subseteq Handler /\ CommentHandlers \subseteq Handler
  BY <1>1, <1>2 DEF ReviewHandlers, AppealHandlers, CommentHandlers, plain
<1>7. EvidenceHandlers \subseteq Handler /\ UploadHandlers \subseteq Handler
  BY <1>1, <1>2 DEF EvidenceHandlers, UploadHandlers, plain
<1>8. MergeHandlers \subseteq Handler
  BY <1>2, <1>3, <1>4 DEF MergeHandlers, plain
<1>. QED
  BY <1>5, <1>6, <1>7, <1>8 DEF Handlers

LEMMA IdleTask == NoTask \in TaskRow /\ NoTask.pc = "idle"
BY PlainHandler DEF NoTask, TaskRow

LEMMA TaskMoves ==
    ASSUME NEW row \in TaskRow, NEW pc \in {"sends", "loads"}
    PROVE  LET q == [row EXCEPT !.pc = pc]
           IN  q \in TaskRow /\ q.pc = pc /\ q.round = row.round /\ q.handler = row.handler
BY DEF TaskRow

LEMMA DialogsStart == DialogsInit => DialogInv
<1>. SUFFICES ASSUME DialogsInit PROVE DialogInv
  OBVIOUS
<1>1. /\ task = [t \in Task |-> NoTask] /\ shown = NoDialog
      /\ spinner = FALSE /\ stuck = FALSE /\ editor = FALSE /\ away = FALSE
  BY DEF DialogsInit
<1>2. task \in [Task -> TaskRow] /\ \A t \in Task : task[t].pc = "idle"
  BY <1>1, IdleTask
<1>3. DialogsTypeOK
  BY <1>1, <1>2 DEF DialogsTypeOK, TaskRow
<1>4. NobodyWaitsInVain
  BY <1>1, <1>2 DEF NobodyWaitsInVain
<1>. QED
  BY <1>1, <1>2, <1>3, <1>4 DEF DialogInv

\* The dialog shown is answered null.
LEMMA DismissedTasks ==
    ASSUME DialogInv
    PROVE  /\ Dismissed \in [Task -> TaskRow]
           /\ shown # NoDialog => Dismissed[shown] = NoTask
           /\ \A t \in Task : t # shown => Dismissed[t] = task[t]
           /\ \A t \in Task : Dismissed[t].pc = "asks" => away
<1>1. task \in [Task -> TaskRow] /\ shown \in Task \union {NoDialog}
  BY DEF DialogInv, DialogsTypeOK, TaskRow
<1>. DEFINE none == NoTask
<1>2. none \in TaskRow /\ none.pc = "idle"
  BY IdleTask
<1>. HIDE DEF none
<1>3. Dismissed = IF shown = NoDialog THEN task ELSE [task EXCEPT ![shown] = none]
  BY DEF Dismissed, none
<1>4. /\ Dismissed \in [Task -> TaskRow]
      /\ shown # NoDialog => Dismissed[shown] = none
      /\ \A t \in Task : t # shown => Dismissed[t] = task[t]
  BY <1>1, <1>2, <1>3, DialogConstants
<1>5. \A t \in Task : Dismissed[t].pc = "asks" => away
  BY <1>1, <1>2, <1>4, DialogConstants DEF DialogInv, NobodyWaitsInVain
<1>. QED
  BY <1>4, <1>5 DEF none

\* A handler asks; what it replaces has gone.
LEMMA AskStep ==
    ASSUME DialogInv, NEW t \in Task, NEW h \in Handler, NEW n \in 1 .. 2, Ask(t, h, n), away' = away,
           editor' \in BOOLEAN, t # shown,
           task[t].pc \in {"sends", "loads"} => n = 2, task[t].pc # "asks"
    PROVE  DialogInv'
<1>. DEFINE row == [pc |-> "asks", handler |-> h, round |-> n]
<1>1. row \in TaskRow /\ row.pc = "asks" /\ row.round = n /\ row.handler = h /\ n # 0
  BY DEF TaskRow
<1>2. /\ task' = [Dismissed EXCEPT ![t] = row] /\ shown' = IF away THEN NoDialog ELSE t
      /\ spinner' = (spinner /\ ~Second) /\ stuck' = (stuck /\ spinner')
  BY DEF Ask, Spin
<1>. HIDE DEF row
<1>3. /\ task' \in [Task -> TaskRow] /\ task'[t] = row
      /\ \A u \in Task : u # t => task'[u] = Dismissed[u]
  BY <1>1, <1>2, DismissedTasks
<1>4. DialogsTypeOK'
  BY <1>2, <1>3 DEF DialogInv, DialogsTypeOK, TaskRow
<1>5. \A u \in Task : u # t /\ task'[u].pc = "asks" => away
  BY <1>3, DismissedTasks
<1>6. \A u \in Task : task'[u].pc \in {"asks", "sends"} => task'[u].round # 0 \/ task'[u].handler.dialogs = 0
  <2>1. ASSUME NEW u \in Task, u # t, u # shown, task'[u].pc \in {"asks", "sends"}
        PROVE  task'[u].round # 0 \/ task'[u].handler.dialogs = 0
    BY <1>3, <2>1, DismissedTasks DEF DialogInv
  <2>2. \A u \in Task : u = shown /\ u # t => task'[u].pc = "idle"
    BY <1>3, DismissedTasks, IdleTask, DialogConstants DEF DialogInv, DialogsTypeOK
  <2>. QED
    BY <1>1, <1>3, <2>1, <2>2
<1>7. ASSUME ~away, spinner'
      PROVE  stuck' \/ \E u \in Task : \/ task'[u].pc \in {"sends", "loads"}
                                       \/ task'[u].pc = "asks" /\ task'[u].round = 2
  <2>1. spinner /\ ~Second
    BY <1>2, <1>7
  <2>2. CASE stuck
    BY <1>2, <1>7, <2>2
  <2>3. ASSUME NEW u \in Task, task[u].pc \in {"sends", "loads"} \/ (task[u].pc = "asks" /\ task[u].round = 2)
        PROVE  \E v \in Task : task'[v].pc \in {"sends", "loads"} \/ (task'[v].pc = "asks" /\ task'[v].round = 2)
    <3>1. CASE u = t
      BY <1>1, <1>3, <2>3, <3>1
    <3>2. CASE u # t
      <4>1. ~(task[u].pc = "asks" /\ task[u].round = 2)
        BY <1>7, <2>1, DialogConstants DEF DialogInv, NobodyWaitsInVain, Second
      <4>2. u # shown
        BY <2>3, <4>1, DialogConstants DEF DialogInv
      <4>3. task'[u] = task[u]
        BY <1>3, <3>2, <4>2, DismissedTasks
      <4>. QED
        BY <2>3, <4>3
    <3>. QED
      BY <3>1, <3>2
  <2>. QED
    BY <1>7, <2>1, <2>2, <2>3 DEF DialogInv, NobodyWaitsInVain
<1>8. NobodyWaitsInVain'
  BY <1>2, <1>5, <1>7 DEF NobodyWaitsInVain
<1>9. shown' # NoDialog => task'[shown'].pc = "asks" /\ ~away'
  BY <1>1, <1>2, <1>3
<1>. QED
  BY <1>4, <1>6, <1>8, <1>9 DEF DialogInv

\* One handler goes on or ends; no dialog comes or goes, the handler does not
\* ask, and the spinner is turned off, or on by a handler that goes on.
LEMMA HandlerGoesOn ==
    ASSUME DialogInv, NEW t \in Task, NEW row \in TaskRow, task' = [task EXCEPT ![t] = row],
           task[t].pc # "asks", row.pc # "asks", shown' = shown, away' = away, editor' \in BOOLEAN,
           spinner' \in BOOLEAN, stuck' \in BOOLEAN,
           row.pc = "sends" => row.round # 0 \/ row.handler.dialogs = 0,
           spinner' => stuck' \/ row.pc \in {"sends", "loads"}
    PROVE  DialogInv'
<1>1. /\ task' \in [Task -> TaskRow] /\ task'[t] = row
      /\ \A u \in Task : u # t => task'[u] = task[u]
  BY DEF DialogInv, DialogsTypeOK, TaskRow
<1>2. DialogsTypeOK'
  BY <1>1 DEF DialogInv, DialogsTypeOK, TaskRow
<1>3. \A u \in Task : task'[u].pc \in {"asks", "sends"} => task'[u].round # 0 \/ task'[u].handler.dialogs = 0
  BY <1>1 DEF DialogInv
<1>4. shown' # NoDialog => task'[shown'].pc = "asks" /\ ~away'
  BY <1>1 DEF DialogInv, DialogsTypeOK
<1>5. NobodyWaitsInVain'
  BY <1>1 DEF DialogInv, NobodyWaitsInVain
<1>. QED
  BY <1>2, <1>3, <1>4, <1>5 DEF DialogInv

LEMMA BeginTaskStep ==
    ASSUME DialogInv, NEW t \in Task, NEW h \in Handlers, Begin(t, h)
    PROVE  DialogInv'
<1>1. h \in Handler /\ h.dialogs \in 0 .. 2
  BY HandlersAreHandlers DEF Handler
<1>2. task[t] = NoTask /\ shown = NoDialog /\ editor' = editor /\ away' = away /\ task[t].pc = "idle"
  BY IdleTask DEF Begin
<1>3. CASE h.dialogs = 0
  <2>. DEFINE row == [pc |-> "sends", handler |-> h, round |-> 0]
  <2>1. row \in TaskRow /\ row.pc = "sends" /\ row.handler = h
    BY <1>1 DEF TaskRow
  <2>2. task' = [task EXCEPT ![t] = row] /\ spinner' = TRUE /\ stuck' = (stuck /\ TRUE) /\ shown' = shown
    BY <1>3 DEF Begin, Spin
  <2>. HIDE DEF row
  <2>3. stuck' \in BOOLEAN /\ editor' \in BOOLEAN /\ spinner' \in BOOLEAN
    BY <1>2, <2>2 DEF DialogInv, DialogsTypeOK
  <2>. QED
    BY <1>2, <1>3, <2>1, <2>2, <2>3, HandlerGoesOn
<1>4. CASE h.dialogs # 0
  <2>1. Ask(t, h, 1) /\ editor' \in BOOLEAN /\ t # shown
    BY <1>2, <1>4, DialogConstants DEF Begin, DialogInv, DialogsTypeOK
  <2>. QED
    BY <1>1, <1>2, <2>1, AskStep
<1>. QED
  BY <1>3, <1>4

LEMMA ConfirmStep ==
    ASSUME DialogInv, Confirm
    PROVE  DialogInv'
<1>. DEFINE t == shown
            old == task[t]
            row == [old EXCEPT !.pc = "sends"]
<1>1. t \in Task /\ old \in TaskRow /\ old.pc = "asks" /\ ~away
  BY DEF Confirm, DialogInv, DialogsTypeOK, TaskRow
<1>2. row \in TaskRow /\ row.pc = "sends" /\ row.round = old.round /\ row.handler = old.handler
  <2>. HIDE DEF old
  <2>. QED
    BY <1>1, TaskMoves
<1>3. /\ task' = [task EXCEPT ![t] = row] /\ shown' = NoDialog
      /\ stuck' = stuck /\ editor' = editor /\ away' = away /\ spinner' \in BOOLEAN
  BY <1>1 DEF Confirm, DialogInv, DialogsTypeOK
<1>. HIDE DEF row
<1>4. /\ task' \in [Task -> TaskRow] /\ task'[t] = row
      /\ \A u \in Task : u # t => task'[u] = task[u]
  BY <1>1, <1>2, <1>3 DEF DialogInv, DialogsTypeOK, TaskRow
<1>5. DialogsTypeOK'
  BY <1>3, <1>4 DEF DialogInv, DialogsTypeOK, TaskRow
<1>6. \A u \in Task : task'[u].pc \in {"asks", "sends"} => task'[u].round # 0 \/ task'[u].handler.dialogs = 0
  BY <1>1, <1>2, <1>4 DEF DialogInv
<1>7. \A u \in Task : task'[u].pc # "asks"
  BY <1>1, <1>2, <1>4 DEF DialogInv, NobodyWaitsInVain
<1>8. NobodyWaitsInVain'
  BY <1>1, <1>2, <1>4, <1>7 DEF NobodyWaitsInVain
<1>. QED
  BY <1>3, <1>5, <1>6, <1>8 DEF DialogInv

\* The dialog shown is cancelled, or the dashboard goes.
LEMMA DismissStep ==
    ASSUME DialogInv, Cancel \/ Leave
    PROVE  DialogInv'
<1>1. task' = Dismissed /\ shown' = NoDialog /\ editor' = editor
  BY DEF Cancel, Leave
<1>2. spinner' \in BOOLEAN /\ stuck' \in BOOLEAN /\ away' \in BOOLEAN
  BY DEF Cancel, Leave, Spin, DialogInv, DialogsTypeOK
<1>3. DialogsTypeOK'
  BY <1>1, <1>2, DismissedTasks DEF DialogInv, DialogsTypeOK, TaskRow
<1>4. \A u \in Task : task'[u].pc \in {"asks", "sends"} => task'[u].round # 0 \/ task'[u].handler.dialogs = 0
  <2>1. ASSUME NEW u \in Task, u # shown PROVE task'[u] = task[u]
    BY <1>1, <2>1, DismissedTasks
  <2>2. \A u \in Task : u = shown => task'[u].pc = "idle"
    BY <1>1, DismissedTasks, IdleTask, DialogConstants
  <2>. QED
    BY <2>1, <2>2 DEF DialogInv
<1>5. NobodyWaitsInVain'
  <2>1. CASE Leave
    BY <2>1 DEF Leave, NobodyWaitsInVain
  <2>2. CASE Cancel
    <3>1. away' = away /\ spinner' = (spinner /\ ~Second) /\ stuck' = (stuck /\ spinner')
      BY <2>2 DEF Cancel, Spin
    <3>2. ~away => \A u \in Task : task'[u].pc # "asks"
      BY <1>1, DismissedTasks
    <3>3. ASSUME ~away, spinner' PROVE stuck' \/ \E u \in Task : task'[u].pc \in {"sends", "loads"}
      <4>1. spinner /\ ~Second
        BY <3>1, <3>3
      <4>2. CASE stuck
        BY <3>1, <3>3, <4>2
      <4>3. ASSUME NEW u \in Task, task[u].pc \in {"sends", "loads"} \/ (task[u].pc = "asks" /\ task[u].round = 2)
            PROVE  task'[u].pc \in {"sends", "loads"}
        <5>1. ~(task[u].pc = "asks" /\ task[u].round = 2)
          BY <3>3, <4>1, DialogConstants DEF DialogInv, NobodyWaitsInVain, Second
        <5>2. u # shown
          BY <4>3, <5>1, DialogConstants DEF DialogInv
        <5>. QED
          BY <1>1, <4>3, <5>1, <5>2, DismissedTasks
      <4>. QED
        BY <3>3, <4>1, <4>2, <4>3 DEF DialogInv, NobodyWaitsInVain
    <3>. QED
      BY <3>1, <3>2, <3>3 DEF NobodyWaitsInVain
  <2>. QED
    BY <2>1, <2>2
<1>. QED
  BY <1>1, <1>3, <1>4, <1>5 DEF DialogInv

LEMMA AnswerStep ==
    ASSUME DialogInv, NEW t \in Task, Answer(t)
    PROVE  DialogInv'
<1>. DEFINE old == task[t]
            h == old.handler
<1>1. old \in TaskRow /\ old.pc = "sends" /\ away' = away /\ h \in Handler
  BY DEF Answer, DialogInv, DialogsTypeOK, TaskRow
<1>2. t # shown
  BY <1>1, DialogConstants DEF DialogInv
<1>3. CASE old.round < h.dialogs
  <2>1. Ask(t, h, old.round + 1) /\ editor' = editor
    BY <1>3 DEF Answer
  <2>2. old.round = 1 /\ h.dialogs = 2
    BY <1>1, <1>3 DEF DialogInv, TaskRow, Handler
  <2>3. editor' \in BOOLEAN /\ old.round + 1 = 2 /\ 2 \in 1 .. 2
    BY <2>1, <2>2 DEF DialogInv, DialogsTypeOK
  <2>. DEFINE n == old.round + 1
  <2>4. n \in 1 .. 2 /\ n = 2 /\ Ask(t, h, n)
    BY <2>1, <2>3
  <2>. HIDE DEF n, h
  <2>. QED
    BY <1>1, <1>2, <2>3, <2>4, AskStep
<1>4. CASE ~(old.round < h.dialogs)
  <2>. DEFINE row == [old EXCEPT !.pc = "loads"]
  <2>1. row \in TaskRow /\ row.pc = "loads"
    <3>. HIDE DEF old
    <3>. QED
      BY <1>1, TaskMoves
  <2>2. /\ task' = [task EXCEPT ![t] = row] /\ spinner' = TRUE /\ shown' = shown /\ stuck' = stuck
        /\ editor' \in BOOLEAN
    BY <1>4 DEF Answer, DialogInv, DialogsTypeOK
  <2>3. stuck' \in BOOLEAN
    BY <2>2 DEF DialogInv, DialogsTypeOK
  <2>. HIDE DEF row
  <2>. QED
    BY <1>1, <2>1, <2>2, <2>3, HandlerGoesOn
<1>. QED
  BY <1>3, <1>4

\* A handler ends, with an answer or without one.
LEMMA HandlerEnds ==
    ASSUME DialogInv, NEW t \in Task, Refusal(t) \/ NetworkFails(t) \/ Loaded(t)
    PROVE  DialogInv'
<1>. DEFINE row == NoTask
<1>1. row \in TaskRow /\ row.pc = "idle" /\ task[t].pc # "asks"
  BY IdleTask DEF Refusal, NetworkFails, Loaded
<1>2. task' = [task EXCEPT ![t] = row] /\ shown' = shown /\ away' = away /\ editor' = editor
  BY DEF Refusal, NetworkFails, Loaded
<1>3. \/ spinner' = FALSE /\ stuck' = FALSE
      \/ spinner' = spinner /\ stuck' = spinner
  <2>1. CASE Spin(FALSE)
    BY <2>1 DEF Spin
  <2>2. CASE stuck' = spinner /\ UNCHANGED spinner
    BY <2>2
  <2>3. Spin(FALSE) \/ (stuck' = spinner /\ UNCHANGED spinner)
    BY DEF Refusal, NetworkFails, Loaded
  <2>. QED
    BY <2>1, <2>2, <2>3
<1>5. editor' \in BOOLEAN
  BY <1>2 DEF DialogInv, DialogsTypeOK
<1>6. spinner \in BOOLEAN
  BY DEF DialogInv, DialogsTypeOK
<1>9. spinner' \in BOOLEAN /\ stuck' \in BOOLEAN
  BY <1>3, <1>6
<1>10. spinner' => stuck'
  <2>1. CASE spinner' = FALSE
    BY <2>1
  <2>2. CASE spinner' = spinner /\ stuck' = spinner
    BY <1>6, <2>2
  <2>. QED
    BY <1>3, <2>1, <2>2
<1>4. editor' \in BOOLEAN /\ spinner' \in BOOLEAN /\ stuck' \in BOOLEAN /\ (spinner' => stuck')
  BY <1>5, <1>9, <1>10
<1>. HIDE DEF row
<1>. QED
  BY <1>1, <1>2, <1>4, HandlerGoesOn

LEMMA TurnPageStep ==
    ASSUME DialogInv, NEW t \in Task, TurnPage(t)
    PROVE  DialogInv'
<1>. DEFINE idle == NoTask
            row == [idle EXCEPT !.pc = "loads"]
<1>1. idle \in TaskRow /\ task[t].pc # "asks"
  BY IdleTask DEF TurnPage
<1>2. task' = [task EXCEPT ![t] = row] /\ shown' = shown /\ away' = away /\ editor' = editor
  BY DEF TurnPage
<1>. HIDE DEF idle
<1>3. row \in TaskRow /\ row.pc = "loads"
  BY <1>1, TaskMoves
<1>4. editor' \in BOOLEAN /\ spinner' \in BOOLEAN /\ stuck' \in BOOLEAN
  BY <1>2 DEF DialogInv, DialogsTypeOK, TurnPage, Spin
<1>. HIDE DEF row
<1>. QED
  BY <1>1, <1>2, <1>3, <1>4, HandlerGoesOn

LEMMA EditorStep ==
    ASSUME DialogInv, ToggleEditor \/ UNCHANGED dialogVars
    PROVE  DialogInv'
<1>1. UNCHANGED <<task, shown, spinner, stuck, away>> /\ editor' \in BOOLEAN
  BY DEF ToggleEditor, dialogVars, DialogInv, DialogsTypeOK
<1>2. DialogsTypeOK' /\ NobodyWaitsInVain'
  BY <1>1 DEF DialogInv, DialogsTypeOK, NobodyWaitsInVain
<1>. QED
  BY <1>1, <1>2 DEF DialogInv

LEMMA DialogInvStays == DialogInv /\ [DialogStep]_dialogVars => DialogInv'
BY BeginTaskStep, ConfirmStep, DismissStep, AnswerStep, HandlerEnds, TurnPageStep, EditorStep DEF DialogStep

\* Whatever handlers run beside one another, and however often a merge asks over
\* the dialog of another handler: while the dashboard is there a handler that
\* waits for an answer has its dialog on the screen, and the spinner is on only
\* for a handler that will turn it off, or since a request of an untried one was
\* lost (admin-action-dialog.tsx and admin-dashboard.tsx).
THEOREM NoPromiseIsLost == Spec => []NobodyWaitsInVain
<1>1. Init => DialogInv
  BY DialogsStart DEF Init
<1>2. DialogInv /\ [Next]_vars => DialogInv'
  BY DialogInvStays, StepsApart
<1>3. DialogInv => NobodyWaitsInVain
  BY DEF DialogInv
<1>. QED
  BY <1>1, <1>2, <1>3, PTL DEF Spec

-----------------------------------------------------------------------------
(* The status message. *)

PublisherRow == [pc : {"new", "edit", "execute", "remember", "disable", "clear", "done"},
                 hook : Hook, seen : StatusRow, message : Publisher \union {NoMessage}]

\* A message gets into the row when its publisher is done.
Known(m) == m = NoMessage \/ publisher[m].pc = "done"

\* What a publisher writes is its own message, none, or the one it has read and
\* compares with.
FromRow(q) == q.seen.exists /\ q.message = q.seen.message
PublisherOK(p, q) ==
    /\ q.pc = "remember" => q.message = p \/ FromRow(q)
    /\ q.pc = "disable" => q.message = NoMessage \/ FromRow(q)
    /\ q.pc \in {"edit", "clear"} => FromRow(q) /\ q.message # NoMessage

StatusInv ==
    /\ StatusTypeOK
    /\ \A p \in Publisher : PublisherOK(p, publisher[p]) /\ Known(publisher[p].seen.message)
    /\ Known(status.message)
    /\ \A m \in refused : Known(m)
    /\ MissingStaysForgotten

LEMMA StatusStarts == (\E n \in Nat : StatusInit(n)) => StatusInv
<1>. SUFFICES ASSUME NEW n \in Nat, StatusInit(n) PROVE StatusInv
  OBVIOUS
<1>. DEFINE w == CHOOSE w \in Hook : TRUE
            first == [exists |-> FALSE, message |-> NoMessage, hook |-> w, state |-> "active"]
            row == [pc |-> "new", hook |-> w, seen |-> first, message |-> NoMessage]
<1>1. w \in Hook
  BY StatusConstants
<1>2. /\ webhook = w /\ status = first /\ publisher = [p \in Publisher |-> row]
      /\ posted = {} /\ refused = {} /\ tampering = n
  BY DEF StatusInit
<1>. HIDE DEF w
<1>3. first \in StatusRow /\ first.message = NoMessage
  BY <1>1 DEF StatusRow
<1>. HIDE DEF first
<1>4. row \in PublisherRow /\ row.pc = "new" /\ row.seen = first
  BY <1>1, <1>3 DEF PublisherRow
<1>. HIDE DEF row
<1>5. StatusTypeOK
  BY <1>1, <1>2, <1>3, <1>4 DEF StatusTypeOK, PublisherRow
<1>. QED
  BY <1>2, <1>3, <1>4, <1>5 DEF StatusInv, PublisherOK, Known, MissingStaysForgotten

\* A publisher that is not done goes on: what was known stays so.
LEMMA PublisherMoves ==
    ASSUME StatusInv, NEW p \in Publisher, publisher[p].pc # "done", NEW row \in PublisherRow,
           publisher' = [publisher EXCEPT ![p] = row],
           PublisherOK(p, row), row.seen.message = publisher[p].seen.message \/ row.seen.message = status.message
                                \/ row.seen.message = NoMessage
    PROVE  /\ publisher' \in [Publisher -> PublisherRow]
           /\ publisher'[p] = row
           /\ \A m \in Publisher \union {NoMessage} : Known(m) => Known(m)'
           /\ \A q \in Publisher : PublisherOK(q, publisher[q])' /\ Known(publisher[q].seen.message)'
<1>1. /\ publisher' \in [Publisher -> PublisherRow] /\ publisher'[p] = row
      /\ \A q \in Publisher : q # p => publisher'[q] = publisher[q]
  BY DEF StatusInv, StatusTypeOK, PublisherRow
<1>2. \A m \in Publisher \union {NoMessage} : Known(m) => Known(m)'
  BY <1>1 DEF Known
<1>3. \A q \in Publisher : publisher[q].seen.message \in Publisher \union {NoMessage}
  BY DEF StatusInv, StatusTypeOK, StatusRow
<1>4. status.message \in Publisher \union {NoMessage}
  BY DEF StatusInv, StatusTypeOK, StatusRow
<1>5. Known(row.seen.message)
  BY DEF StatusInv, Known
<1>6. \A q \in Publisher : PublisherOK(q, publisher[q])'
  BY <1>1 DEF StatusInv, PublisherOK, FromRow
<1>7. \A q \in Publisher : Known(publisher'[q].seen.message)
  BY <1>1, <1>5 DEF StatusInv
<1>8. \A q \in Publisher : publisher'[q].seen.message \in Publisher \union {NoMessage}
  BY <1>1, <1>3, <1>4
<1>9. \A q \in Publisher : Known(publisher[q].seen.message)'
  BY <1>2, <1>7, <1>8 DEF Known
<1>. QED
  BY <1>1, <1>2, <1>6, <1>9

\* It writes nothing.
LEMMA PublisherGoesOn ==
    ASSUME StatusInv, NEW p \in Publisher, publisher[p].pc # "done", NEW row \in PublisherRow,
           publisher' = [publisher EXCEPT ![p] = row], posted' \subseteq Publisher,
           PublisherOK(p, row), row.seen.message = publisher[p].seen.message \/ row.seen.message = status.message,
           UNCHANGED <<status, webhook, refused, tampering>>
    PROVE  StatusInv'
<1>1. /\ publisher' \in [Publisher -> PublisherRow]
      /\ \A m \in Publisher \union {NoMessage} : Known(m) => Known(m)'
      /\ \A q \in Publisher : PublisherOK(q, publisher[q])' /\ Known(publisher[q].seen.message)'
  BY PublisherMoves
<1>2. StatusTypeOK'
  BY <1>1 DEF StatusInv, StatusTypeOK, PublisherRow
<1>3. Known(status.message)' /\ (\A m \in refused : Known(m))' /\ MissingStaysForgotten'
  BY <1>1 DEF StatusInv, StatusTypeOK, StatusRow, MissingStaysForgotten, Known
<1>. QED
  BY <1>1, <1>2, <1>3 DEF StatusInv

LEMMA ReadStatusStep ==
    ASSUME StatusInv, NEW p \in Publisher, ReadStatus(p)
    PROVE  StatusInv'
<1>. DEFINE same == status.exists /\ status.hook = webhook
            next == CASE same /\ status.state = "disabled" -> "done"
                      [] same /\ status.state = "active" /\ status.message # NoMessage -> "edit"
                      [] OTHER -> "execute"
            message == IF same THEN status.message ELSE NoMessage
            row == [pc |-> next, hook |-> webhook, seen |-> status, message |-> message]
<1>1. status \in StatusRow /\ webhook \in Hook /\ status.message \in Publisher \union {NoMessage}
      /\ status.state \in {"active", "disabled"}
  BY DEF StatusInv, StatusTypeOK, StatusRow
<1>2. /\ publisher[p].pc = "new" /\ publisher' = [publisher EXCEPT ![p] = row]
      /\ UNCHANGED <<status, webhook, posted, refused, tampering>>
  BY DEF ReadStatus
<1>3. message \in Publisher \union {NoMessage} /\ next \in {"done", "edit", "execute"}
  BY <1>1
<1>4. next = "edit" => same /\ message = status.message /\ message # NoMessage
  BY <1>1
<1>5. same => status.exists
  OBVIOUS
<1>. HIDE DEF next, message, same
<1>6. /\ row \in PublisherRow /\ row.pc = next /\ row.seen = status /\ row.message = message
  BY <1>1, <1>3 DEF PublisherRow
<1>. HIDE DEF row
<1>7. PublisherOK(p, row)
  BY <1>3, <1>4, <1>5, <1>6 DEF PublisherOK, FromRow
<1>8. posted' \subseteq Publisher /\ row.seen.message = status.message
  BY <1>2, <1>6 DEF StatusInv, StatusTypeOK
<1>. QED
  BY <1>2, <1>6, <1>7, <1>8, PublisherGoesOn

LEMMA PublisherTyped ==
    ASSUME StatusInv, NEW p \in Publisher
    PROVE  publisher[p] \in PublisherRow /\ PublisherOK(p, publisher[p])
BY DEF StatusInv, StatusTypeOK, PublisherRow

LEMMA EditStatusStep ==
    ASSUME StatusInv, NEW p \in Publisher, EditStatus(p)
    PROVE  StatusInv'
<1>. DEFINE q == publisher[p]
<1>1. PICK x \in {"remember", "clear", "done", "disable"} : publisher' = At(p, x)
  BY DEF EditStatus
<1>. DEFINE row == [q EXCEPT !.pc = x]
<1>2. /\ q.pc = "edit" /\ publisher' = [publisher EXCEPT ![p] = row]
      /\ UNCHANGED <<status, webhook, posted, refused, tampering>>
  BY <1>1 DEF EditStatus, At
<1>3. q \in PublisherRow /\ PublisherOK(p, q)
  BY PublisherTyped
<1>4. row \in PublisherRow /\ row.pc = x /\ row.seen = q.seen /\ row.message = q.message
  BY <1>3 DEF PublisherRow
<1>5. FromRow(q) /\ q.message # NoMessage
  BY <1>2, <1>3 DEF PublisherOK
<1>. HIDE DEF row
<1>6. PublisherOK(p, row)
  BY <1>4, <1>5 DEF PublisherOK, FromRow
<1>7. posted' \subseteq Publisher
  BY <1>2 DEF StatusInv, StatusTypeOK
<1>. QED
  BY <1>2, <1>4, <1>6, <1>7, PublisherGoesOn

LEMMA ExecuteStatusStep ==
    ASSUME StatusInv, NEW p \in Publisher, ExecuteStatus(p)
    PROVE  StatusInv'
<1>. DEFINE q == publisher[p]
<1>1. PICK x \in {"remember", "done", "disable"}, m \in Publisher \union {NoMessage} :
         /\ publisher' = [publisher EXCEPT ![p] = [[q EXCEPT !.pc = x] EXCEPT !.message = m]]
         /\ x = "remember" => m = p
         /\ x = "disable" => m = NoMessage
  <2>1. CASE publisher' = [publisher EXCEPT ![p].pc = "remember", ![p].message = p]
    <3>1. publisher' = [publisher EXCEPT ![p] = [[q EXCEPT !.pc = "remember"] EXCEPT !.message = p]]
      BY <2>1
    <3>. QED
      BY <3>1
  <2>2. CASE publisher' = At(p, "done")
    <3>1. q \in PublisherRow /\ q.message \in Publisher \union {NoMessage}
      BY PublisherTyped DEF PublisherRow
    <3>2. [[q EXCEPT !.pc = "done"] EXCEPT !.message = q.message] = [q EXCEPT !.pc = "done"]
      BY <3>1 DEF PublisherRow
    <3>3. publisher' = [publisher EXCEPT ![p] =
                            [[q EXCEPT !.pc = "done"] EXCEPT !.message = q.message]]
      BY <2>2, <3>2 DEF At
    <3>. QED
      BY <3>1, <3>3
  <2>3. CASE publisher' = [publisher EXCEPT ![p].pc = "disable", ![p].message = NoMessage]
    <3>1. publisher' = [publisher EXCEPT ![p] =
                            [[q EXCEPT !.pc = "disable"] EXCEPT !.message = NoMessage]]
      BY <2>3
    <3>. QED
      BY <3>1
  <2>. QED
    BY <2>1, <2>2, <2>3 DEF ExecuteStatus
<1>. DEFINE q1 == [q EXCEPT !.pc = x]
            row == [q1 EXCEPT !.message = m]
<1>2. q.pc = "execute" /\ UNCHANGED <<status, webhook, refused, tampering>>
  BY DEF ExecuteStatus
<1>3. posted' \subseteq Publisher
  BY DEF ExecuteStatus, StatusInv, StatusTypeOK
<1>4. q \in PublisherRow
  BY PublisherTyped
<1>5. q1 \in PublisherRow /\ q1.pc = x /\ q1.seen = q.seen
  BY <1>4 DEF PublisherRow
<1>. HIDE DEF q1
<1>6. row \in PublisherRow /\ row.pc = x /\ row.seen = q.seen /\ row.message = m
  BY <1>5 DEF PublisherRow
<1>7. publisher' = [publisher EXCEPT ![p] = row]
  BY <1>1 DEF q1
<1>. HIDE DEF row
<1>8. PublisherOK(p, row)
  BY <1>1, <1>6 DEF PublisherOK
<1>. QED
  BY <1>2, <1>3, <1>6, <1>7, <1>8, PublisherGoesOn

\* A publisher ends with its own message, none, or the one in the row.
LEMMA ConcludeStep ==
    ASSUME StatusInv, NEW p \in Publisher, NEW x \in {"remember", "disable"},
           NEW state \in {"active", "disabled"}, Conclude(p, x, state)
    PROVE  StatusInv'
<1>. DEFINE q == publisher[p]
            row == [q EXCEPT !.pc = "done"]
            written == Written(p, q.message, state)
<1>1. /\ q.pc = x /\ publisher' = [publisher EXCEPT ![p] = row]
      /\ status' = IF CanWrite(p) THEN written ELSE status
      /\ UNCHANGED <<webhook, posted, refused, tampering>>
  BY DEF Conclude, At
<1>2. q \in PublisherRow /\ PublisherOK(p, q)
  BY PublisherTyped
<1>3. row \in PublisherRow /\ row.pc = "done" /\ row.seen = q.seen
  BY <1>2 DEF PublisherRow
<1>4. written \in StatusRow /\ written.message = q.message
  BY <1>2 DEF Written, PublisherRow, StatusRow
<1>5. q.message \in {p, NoMessage} \/ FromRow(q)
  BY <1>1, <1>2 DEF PublisherOK
<1>6. CanWrite(p) /\ FromRow(q) => q.message = status.message
  BY DEF CanWrite, FromRow
<1>. HIDE DEF row, written
<1>7. PublisherOK(p, row)
  BY <1>3 DEF PublisherOK
<1>8. /\ publisher' \in [Publisher -> PublisherRow] /\ publisher'[p] = row
      /\ \A m \in Publisher \union {NoMessage} : Known(m) => Known(m)'
      /\ \A r \in Publisher : PublisherOK(r, publisher[r])' /\ Known(publisher[r].seen.message)'
  BY <1>1, <1>3, <1>7, PublisherMoves
<1>9. StatusTypeOK'
  BY <1>1, <1>4, <1>8 DEF StatusInv, StatusTypeOK, PublisherRow
<1>10. (\A m \in refused : Known(m))'
  BY <1>1, <1>8 DEF StatusInv, StatusTypeOK, Known
<1>11. status'.message \in {p, NoMessage, status.message}
  BY <1>1, <1>4, <1>5, <1>6
<1>12. p \notin refused /\ NoMessage \notin refused /\ status.message \notin refused
  BY <1>1, StatusConstants DEF StatusInv, StatusTypeOK, Known, MissingStaysForgotten
<1>13. MissingStaysForgotten'
  BY <1>1, <1>11, <1>12 DEF MissingStaysForgotten
<1>14. publisher'[p].pc = "done" /\ Known(status.message)
  BY <1>3, <1>8 DEF StatusInv
<1>15. status.message \in Publisher \union {NoMessage}
  BY DEF StatusInv, StatusTypeOK, StatusRow
<1>16. Known(status.message)'
  BY <1>8, <1>11, <1>14, <1>15 DEF Known
<1>. QED
  BY <1>8, <1>9, <1>10, <1>13, <1>16 DEF StatusInv

\* The message found missing is the one in the row; the row forgets it.
LEMMA ClearMissingStep ==
    ASSUME StatusInv, NEW p \in Publisher, ClearMissing(p)
    PROVE  StatusInv'
<1>. DEFINE q == publisher[p]
            missing == Written(p, NoMessage, "active")
<1>1. q \in PublisherRow /\ PublisherOK(p, q) /\ q.pc = "clear"
  BY PublisherTyped DEF ClearMissing
<1>2. FromRow(q) /\ q.message # NoMessage /\ q.message \in Publisher /\ Known(q.message)
  BY <1>1 DEF PublisherOK, PublisherRow, FromRow, StatusInv
<1>3. missing \in StatusRow /\ missing.message = NoMessage
  BY <1>1 DEF Written, PublisherRow, StatusRow
<1>. HIDE DEF missing
<1>4. CASE CanWrite(p)
  <2>. DEFINE q1 == [q EXCEPT !.pc = "execute"]
              row == [q1 EXCEPT !.seen = missing]
  <2>1. q1 \in PublisherRow /\ q1.pc = "execute" /\ q1.message = q.message
    BY <1>1 DEF PublisherRow
  <2>. HIDE DEF q1
  <2>2. row \in PublisherRow /\ row.pc = "execute" /\ row.seen = missing
    BY <2>1, <1>3 DEF PublisherRow
  <2>3. /\ status' = missing /\ refused' = refused \union {q.message}
        /\ publisher' = [publisher EXCEPT ![p] = row]
        /\ UNCHANGED <<webhook, posted, tampering>>
    BY <1>4 DEF ClearMissing, q1, missing
  <2>. HIDE DEF row
  <2>4. PublisherOK(p, row)
    BY <2>2 DEF PublisherOK
  <2>5. /\ publisher' \in [Publisher -> PublisherRow]
        /\ \A m \in Publisher \union {NoMessage} : Known(m) => Known(m)'
        /\ \A r \in Publisher : PublisherOK(r, publisher[r])' /\ Known(publisher[r].seen.message)'
    BY <1>1, <1>3, <2>2, <2>3, <2>4, PublisherMoves
  <2>6. StatusTypeOK'
    BY <1>2, <1>3, <2>3, <2>5 DEF StatusInv, StatusTypeOK, PublisherRow
  <2>7. (\A m \in refused : Known(m))'
    BY <1>2, <2>3, <2>5 DEF StatusInv, StatusTypeOK, Known
  <2>8. Known(status.message)' /\ MissingStaysForgotten'
    BY <1>2, <1>3, <2>3, StatusConstants DEF StatusInv, StatusTypeOK, Known, MissingStaysForgotten
  <2>. QED
    BY <2>5, <2>6, <2>7, <2>8 DEF StatusInv
<1>5. CASE ~CanWrite(p)
  <2>. DEFINE row == [q EXCEPT !.pc = "done"]
  <2>1. row \in PublisherRow /\ row.pc = "done" /\ row.seen = q.seen
    BY <1>1 DEF PublisherRow
  <2>2. /\ publisher' = [publisher EXCEPT ![p] = row]
        /\ UNCHANGED <<status, webhook, posted, refused, tampering>>
    BY <1>5 DEF ClearMissing, At
  <2>. HIDE DEF row
  <2>3. PublisherOK(p, row) /\ posted' \subseteq Publisher
    BY <2>1, <2>2 DEF PublisherOK, StatusInv, StatusTypeOK
  <2>. QED
    BY <1>1, <2>1, <2>2, <2>3, PublisherGoesOn
<1>. QED
  BY <1>4, <1>5

\* What people do by hand touches no row and no publisher.
LEMMA TamperingStep ==
    ASSUME StatusInv, UNCHANGED <<status, publisher, refused>>, webhook' \in Hook,
           posted' \subseteq Publisher, tampering' \in Nat
    PROVE  StatusInv'
<1>1. StatusTypeOK'
  BY DEF StatusInv, StatusTypeOK
<1>2. \A m \in Publisher \union {NoMessage} : Known(m) <=> Known(m)'
  BY DEF Known
<1>3. /\ status.message \in Publisher \union {NoMessage} /\ refused \subseteq Publisher
      /\ \A p \in Publisher : publisher[p].seen.message \in Publisher \union {NoMessage}
  BY DEF StatusInv, StatusTypeOK, StatusRow
<1>4. /\ Known(status.message)' /\ (\A m \in refused : Known(m))' /\ MissingStaysForgotten'
      /\ \A p \in Publisher : Known(publisher[p].seen.message)'
  BY <1>2, <1>3 DEF StatusInv, MissingStaysForgotten, Known
<1>5. \A p \in Publisher : PublisherOK(p, publisher[p])'
  BY DEF StatusInv, PublisherOK, FromRow
<1>. QED
  BY <1>1, <1>4, <1>5 DEF StatusInv

LEMMA StatusInvStays == StatusInv /\ [StatusStep]_statusVars => StatusInv'
<1>. SUFFICES ASSUME StatusInv, [StatusStep]_statusVars PROVE StatusInv'
  OBVIOUS
<1>1. ASSUME NEW p \in Publisher,
             \/ ReadStatus(p) \/ EditStatus(p) \/ ExecuteStatus(p)
             \/ RememberMessage(p) \/ DisableStatus(p) \/ ClearMissing(p)
      PROVE  StatusInv'
  BY <1>1, ReadStatusStep, EditStatusStep, ExecuteStatusStep, ConcludeStep, ClearMissingStep
     DEF RememberMessage, DisableStatus
<1>2. ASSUME NEW m \in posted, DropMessage(m) PROVE StatusInv'
  BY <1>2, TamperingStep DEF DropMessage, StatusInv, StatusTypeOK
<1>3. CASE ChangeWebhook
  BY <1>3, TamperingStep DEF ChangeWebhook, StatusInv, StatusTypeOK
<1>4. CASE UNCHANGED statusVars
  BY <1>4, TamperingStep DEF statusVars, StatusInv, StatusTypeOK
<1>. QED
  BY <1>1, <1>2, <1>3, <1>4 DEF StatusStep

\* Overlapping publishers never bring back a message that one of them has
\* recorded as missing (the compare-and-set of lib/discord-status.ts).
THEOREM MissingMessagesStayForgotten == Spec => []MissingStaysForgotten
<1>1. Init => StatusInv
  BY StatusStarts, ScenariosConstants DEF Init
<1>2. StatusInv /\ [Next]_vars => StatusInv'
  BY StatusInvStays, StepsApart
<1>3. StatusInv => MissingStaysForgotten
  BY DEF StatusInv
<1>. QED
  BY <1>1, <1>2, <1>3, PTL DEF Spec

-----------------------------------------------------------------------------
(* The moderators' panel. *)

CallRow == [pc : {"idle", "save", "link", "close", "load", "show", "decide", "remove"},
            on : Screen \union {Absent}, report : Draft \union {Absent},
            source : Submission \union {Absent}, row : SubmissionRow,
            list : [Submission -> SubmissionRow]]

LinkedTo(r, s) == r # Absent => r \in saved /\ drafted[r] = s
ListOK(list) == \A s \in Submission : LinkedTo(list[s].result, s)

\* What an editor holds was drafted from the submission it was opened for.
ScreenOK(q) ==
    /\ ListOK(q.list)
    /\ q.source # Absent => q.editing \in Draft /\ drafted[q.editing] = q.source

\* A call keeps what it was started with: neither the draft nor the row it
\* carries depends on what is on the screen meanwhile.
CallOK(k) ==
    /\ ListOK(k.list)
    /\ k.pc # "idle" => k.on \in Screen
    /\ k.pc = "save" => k.report \in Draft /\ (k.source # Absent => drafted[k.report] = k.source)
    /\ k.pc = "link" => k.report \in saved /\ k.source \in Submission /\ drafted[k.report] = k.source
    /\ k.pc \in {"decide", "remove"} => k.source \in Submission
    /\ k.pc = "decide" => LinkedTo(k.row.result, k.source)

PanelInv ==
    /\ PanelTypeOK
    /\ ListOK(inbox)
    /\ \A p \in Screen : ScreenOK(screen[p])
    /\ \A c \in Call : CallOK(call[c])

LEMMA NoCallIsOK == NoCall \in CallRow /\ CallOK(NoCall) /\ NoCall.pc = "idle"
<1>. DEFINE none == [s \in Submission |-> NoRow]
<1>1. NoRow \in SubmissionRow /\ NoRow.result = Absent
  BY DEF NoRow, SubmissionRow
<1>2. none \in [Submission -> SubmissionRow] /\ ListOK(none)
  BY <1>1 DEF ListOK, LinkedTo
<1>. HIDE DEF none
<1>3. NoCall = [pc |-> "idle", on |-> Absent, report |-> Absent, source |-> Absent, row |-> NoRow,
                list |-> none]
  BY DEF NoCall, none
<1>4. NoCall \in CallRow /\ NoCall.pc = "idle" /\ NoCall.list = none
  BY <1>1, <1>2, <1>3 DEF CallRow
<1>. QED
  BY <1>2, <1>4 DEF CallOK

LEMMA PanelStarts ==
    ASSUME NEW n \in [Screen -> Nat], NEW ids, PanelInit(ids, n)
    PROVE  PanelInv
<1>. DEFINE first == [editing |-> Absent, source |-> Absent, loading |-> FALSE, list |-> inbox]
<1>1. inbox \in [Submission -> SubmissionRow] /\ \A s \in Submission : inbox[s].result = Absent
  BY DEF PanelInit, SubmissionRow
<1>2. ListOK(inbox)
  BY <1>1 DEF ListOK, LinkedTo
<1>3. first \in ScreenState /\ first.list = inbox /\ first.source = Absent
  BY <1>1 DEF ScreenState
<1>4. /\ screen = [p \in Screen |-> first] /\ call = [c \in Call |-> NoCall]
      /\ drafted = [r \in Draft |-> Absent] /\ saved = {} /\ clicks = n
  BY DEF PanelInit
<1>. HIDE DEF first
<1>5. PanelTypeOK
  BY <1>1, <1>3, <1>4, NoCallIsOK DEF PanelTypeOK, CallRow
<1>. QED
  BY <1>2, <1>3, <1>4, <1>5, NoCallIsOK DEF PanelInv, ScreenOK

LEMMA PanelTypes ==
    ASSUME PanelInv
    PROVE  /\ screen \in [Screen -> ScreenState] /\ call \in [Call -> CallRow]
           /\ inbox \in [Submission -> SubmissionRow]
           /\ drafted \in [Draft -> Submission \union {Absent}] /\ saved \subseteq Draft
           /\ clicks \in [Screen -> Nat]
BY DEF PanelInv, PanelTypeOK, CallRow

\* Reports stay saved, and a draft keeps its submission.
LinksStay ==
    /\ saved \subseteq saved' /\ saved' \subseteq Draft
    /\ drafted' \in [Draft -> Submission \union {Absent}]
    /\ \A r \in Draft, s \in Submission : drafted[r] = s => drafted'[r] = s

\* The same conditions after a step.
LinkedNext(r, s) == r # Absent => r \in saved' /\ drafted'[r] = s
ListNext(list) == \A s \in Submission : LinkedNext(list[s].result, s)
ScreenNext(q) ==
    /\ ListNext(q.list)
    /\ q.source # Absent => q.editing \in Draft /\ drafted'[q.editing] = q.source
CallNext(k) ==
    /\ ListNext(k.list)
    /\ k.pc # "idle" => k.on \in Screen
    /\ k.pc = "save" => k.report \in Draft /\ (k.source # Absent => drafted'[k.report] = k.source)
    /\ k.pc = "link" => k.report \in saved' /\ k.source \in Submission /\ drafted'[k.report] = k.source
    /\ k.pc \in {"decide", "remove"} => k.source \in Submission
    /\ k.pc = "decide" => LinkedNext(k.row.result, k.source)

LEMMA LinkedStays ==
    ASSUME PanelInv, LinksStay
    PROVE  /\ \A r \in Draft \union {Absent}, s \in Submission : LinkedTo(r, s) => LinkedNext(r, s)
           /\ \A list \in [Submission -> SubmissionRow] : ListOK(list) => ListNext(list)
<1>1. \A r \in Draft \union {Absent}, s \in Submission : LinkedTo(r, s) => LinkedNext(r, s)
  BY DEF LinkedTo, LinkedNext, LinksStay
<1>. QED
  BY <1>1 DEF ListOK, ListNext, SubmissionRow

LEMMA ListsStay ==
    ASSUME PanelInv, LinksStay
    PROVE  /\ ListNext(inbox)
           /\ \A p \in Screen : ScreenNext(screen[p])
           /\ \A c \in Call : CallNext(call[c])
<1>1. ListNext(inbox)
  BY LinkedStays, PanelTypes DEF PanelInv
<1>2. ASSUME NEW p \in Screen PROVE ScreenNext(screen[p])
  <2>1. screen[p] \in ScreenState /\ ScreenOK(screen[p])
    BY PanelTypes DEF PanelInv
  <2>2. ListNext(screen[p].list)
    BY <2>1, LinkedStays DEF ScreenOK, ScreenState
  <2>. QED
    BY <2>1, <2>2 DEF ScreenOK, ScreenNext, ScreenState, LinksStay
<1>3. ASSUME NEW c \in Call PROVE CallNext(call[c])
  <2>. DEFINE k == call[c]
  <2>1. k \in CallRow /\ CallOK(k)
    BY PanelTypes DEF PanelInv
  <2>. HIDE DEF k
  <2>2. /\ k.list \in [Submission -> SubmissionRow] /\ k.source \in Submission \union {Absent}
        /\ k.report \in Draft \union {Absent} /\ k.row.result \in Draft \union {Absent}
    BY <2>1 DEF CallRow, SubmissionRow
  <2>3. ListNext(k.list)
    BY <2>1, <2>2, LinkedStays DEF CallOK
  <2>4. k.pc = "decide" => LinkedNext(k.row.result, k.source)
    BY <2>1, <2>2, LinkedStays DEF CallOK
  <2>5. k.pc = "save" => k.report \in Draft /\ (k.source # Absent => drafted'[k.report] = k.source)
    BY <2>1, <2>2 DEF CallOK, LinksStay
  <2>6. k.pc = "link" => k.report \in saved' /\ k.source \in Submission /\ drafted'[k.report] = k.source
    BY <2>1, PanelTypes DEF CallOK, LinksStay
  <2>7. CallNext(k)
    BY <2>1, <2>3, <2>4, <2>5, <2>6 DEF CallOK, CallNext
  <2>. QED
    BY <2>7 DEF k
<1>. QED
  BY <1>1, <1>2, <1>3

LEMMA PanelMoves ==
    ASSUME PanelInv, LinksStay,
           screen' \in [Screen -> ScreenState], call' \in [Call -> CallRow],
           inbox' \in [Submission -> SubmissionRow], clicks' \in [Screen -> Nat],
           \A p \in Screen : ScreenNext(screen'[p]),
           \A c \in Call : CallNext(call'[c]),
           ListNext(inbox')
    PROVE  PanelInv'
<1>1. PanelTypeOK'
  BY DEF PanelTypeOK, CallRow, LinksStay
<1>2. ListOK(inbox)'
  BY DEF ListOK, ListNext, LinkedTo, LinkedNext
<1>3. \A p \in Screen : ScreenOK(screen[p])'
  BY DEF ScreenOK, ScreenNext, ListOK, ListNext, LinkedTo, LinkedNext
<1>4. \A c \in Call : CallOK(call[c])'
  BY DEF CallOK, CallNext, ListOK, ListNext, LinkedTo, LinkedNext
<1>. QED
  BY <1>1, <1>2, <1>3, <1>4 DEF PanelInv

\* Edits of one screen, of one call.
LEMMA OneScreen ==
    ASSUME PanelInv, LinksStay, NEW p \in Screen, NEW q \in ScreenState, ScreenNext(q),
           screen' = [screen EXCEPT ![p] = q]
    PROVE  screen' \in [Screen -> ScreenState] /\ \A r \in Screen : ScreenNext(screen'[r])
<1>1. screen' \in [Screen -> ScreenState] /\ \A r \in Screen : screen'[r] = IF r = p THEN q ELSE screen[r]
  BY PanelTypes
<1>. QED
  BY <1>1, ListsStay

LEMMA OneCall ==
    ASSUME PanelInv, LinksStay, NEW c \in Call, NEW k \in CallRow, CallNext(k),
           call' = [call EXCEPT ![c] = k]
    PROVE  call' \in [Call -> CallRow] /\ \A d \in Call : CallNext(call'[d])
<1>1. call' \in [Call -> CallRow] /\ \A d \in Call : call'[d] = IF d = c THEN k ELSE call[d]
  BY PanelTypes
<1>. QED
  BY <1>1, ListsStay

LEMMA NewIds ==
    ASSUME PanelInv, Fresh # {}
    PROVE  NewReportId \in Draft /\ drafted[NewReportId] = Absent
BY DEF Fresh, NewReportId

LEMMA ClickStays ==
    ASSUME PanelInv, NEW p \in Screen, Click(p)
    PROVE  clicks' \in [Screen -> Nat]
<1>1. clicks[p] \in Nat /\ clicks[p] > 0 /\ clicks' = [clicks EXCEPT ![p] = clicks[p] - 1]
  BY PanelTypes DEF Click
<1>2. clicks[p] - 1 \in Nat
  BY <1>1
<1>. QED
  BY <1>1, <1>2, PanelTypes

LEMMA NothingNew == PanelInv /\ UNCHANGED <<saved, drafted>> => LinksStay
BY PanelTypes DEF LinksStay

LEMMA OpenDraftStep ==
    ASSUME PanelInv, NEW p \in Screen, NEW s \in Submission, OpenDraft(p, s)
    PROVE  PanelInv'
<1>. DEFINE q == screen[p]
            id == NewReportId
            q1 == [q EXCEPT !.editing = id]
            q2 == [q1 EXCEPT !.source = s]
<1>1. /\ id \in Draft /\ drafted[id] = Absent
  BY NewIds DEF OpenDraft
<1>2. /\ screen' = [screen EXCEPT ![p] = q2]
      /\ drafted' = [drafted EXCEPT ![id] = s]
      /\ UNCHANGED <<call, inbox, saved>>
  BY DEF OpenDraft
<1>3. clicks' \in [Screen -> Nat]
  BY ClickStays DEF OpenDraft
<1>. HIDE DEF id
<1>4. drafted' \in [Draft -> Submission \union {Absent}] /\ drafted'[id] = s
  BY <1>1, <1>2, PanelTypes
<1>5. LinksStay
  BY <1>1, <1>2, <1>4, PanelTypes, PanelConstants DEF LinksStay
<1>6. q \in ScreenState /\ ScreenNext(q)
  BY <1>5, ListsStay, PanelTypes
<1>. HIDE DEF q
<1>7. q1 \in ScreenState /\ q1.editing = id /\ q1.list = q.list
  BY <1>1, <1>6 DEF ScreenState
<1>. HIDE DEF q1
<1>8. q2 \in ScreenState /\ q2.editing = id /\ q2.list = q.list /\ q2.source = s
  BY <1>7 DEF ScreenState
<1>. HIDE DEF q2
<1>9. ScreenNext(q2)
  BY <1>1, <1>4, <1>6, <1>8 DEF ScreenNext
<1>. QED
  BY <1>2, <1>3, <1>5, <1>8, <1>9, OneScreen, PanelMoves, ListsStay, PanelTypes

\* A report of the queue, or none, comes without a submission.
LEMMA EditorWithoutSource ==
    ASSUME PanelInv, NEW p \in Screen, NEW r \in Draft \union {Absent}, NEW on \in BOOLEAN,
           LinksStay
    PROVE  /\ [[screen[p] EXCEPT !.editing = r] EXCEPT !.source = Absent] \in ScreenState
           /\ ScreenNext([[screen[p] EXCEPT !.editing = r] EXCEPT !.source = Absent])
           /\ [[[screen[p] EXCEPT !.editing = r] EXCEPT !.source = Absent] EXCEPT !.loading = on] \in ScreenState
           /\ ScreenNext([[[screen[p] EXCEPT !.editing = r] EXCEPT !.source = Absent] EXCEPT !.loading = on])
<1>. DEFINE q == screen[p]
            q1 == [q EXCEPT !.editing = r]
            q2 == [q1 EXCEPT !.source = Absent]
            q3 == [q2 EXCEPT !.loading = on]
<1>1. q \in ScreenState /\ ScreenNext(q)
  BY ListsStay, PanelTypes
<1>. HIDE DEF q
<1>2. q1 \in ScreenState /\ q1.list = q.list
  BY <1>1 DEF ScreenState
<1>. HIDE DEF q1
<1>3. q2 \in ScreenState /\ q2.list = q.list /\ q2.source = Absent
  BY <1>2 DEF ScreenState
<1>. HIDE DEF q2
<1>4. q3 \in ScreenState /\ q3.list = q.list /\ q3.source = Absent
  BY <1>3 DEF ScreenState
<1>. HIDE DEF q3
<1>5. q2 \in ScreenState /\ ScreenNext(q2) /\ q3 \in ScreenState /\ ScreenNext(q3)
  BY <1>1, <1>3, <1>4 DEF ScreenNext
<1>. QED
  BY <1>5 DEF q, q1, q2, q3

LEMMA OpenReportStep ==
    ASSUME PanelInv, NEW p \in Screen, NEW r \in Draft, OpenReport(p, r)
    PROVE  PanelInv'
<1>. DEFINE q == [[screen[p] EXCEPT !.editing = r] EXCEPT !.source = Absent]
<1>1. screen' = [screen EXCEPT ![p] = q] /\ UNCHANGED <<call, inbox, drafted, saved>>
  BY DEF OpenReport
<1>2. clicks' \in [Screen -> Nat]
  BY ClickStays DEF OpenReport
<1>3. LinksStay
  BY <1>1, NothingNew
<1>4. q \in ScreenState /\ ScreenNext(q)
  BY <1>3, EditorWithoutSource
<1>. HIDE DEF q
<1>. QED
  BY <1>1, <1>2, <1>3, <1>4, OneScreen, PanelMoves, ListsStay, PanelTypes

LEMMA CloseEditorStep ==
    ASSUME PanelInv, NEW p \in Screen, CloseEditor(p)
    PROVE  PanelInv'
<1>. DEFINE q == [[screen[p] EXCEPT !.editing = Absent] EXCEPT !.source = Absent]
<1>1. screen' = [screen EXCEPT ![p] = q] /\ UNCHANGED <<call, inbox, drafted, saved, clicks>>
  BY DEF CloseEditor
<1>2. LinksStay
  BY <1>1, NothingNew
<1>3. q \in ScreenState /\ ScreenNext(q)
  BY <1>2, EditorWithoutSource
<1>. HIDE DEF q
<1>. QED
  BY <1>1, <1>2, <1>3, OneScreen, PanelMoves, ListsStay, PanelTypes

\* A save carries the draft, its submission and its row, and no list.
Saving(p, r, s, row) ==
    [NoCall EXCEPT !.pc = "save", !.on = p, !.report = r, !.source = s, !.row = row]

LEMMA SavingCall ==
    ASSUME NEW p \in Screen, NEW r \in Draft \union {Absent}, NEW s \in Submission \union {Absent},
           NEW row \in SubmissionRow
    PROVE  /\ Saving(p, r, s, row) \in CallRow /\ Saving(p, r, s, row).pc = "save"
           /\ Saving(p, r, s, row).on = p /\ Saving(p, r, s, row).report = r
           /\ Saving(p, r, s, row).source = s /\ Saving(p, r, s, row).list = NoCall.list
<1>. DEFINE k1 == [NoCall EXCEPT !.pc = "save"]
            k2 == [k1 EXCEPT !.on = p]
            k3 == [k2 EXCEPT !.report = r]
            k4 == [k3 EXCEPT !.source = s]
            k5 == [k4 EXCEPT !.row = row]
<1>6. k5 = Saving(p, r, s, row)
  BY DEF Saving
<1>1. k1 \in CallRow /\ k1.pc = "save" /\ k1.list = NoCall.list
  BY NoCallIsOK DEF CallRow
<1>. HIDE DEF k1
<1>2. k2 \in CallRow /\ k2.pc = "save" /\ k2.on = p /\ k2.list = NoCall.list
  BY <1>1 DEF CallRow
<1>. HIDE DEF k2
<1>3. k3 \in CallRow /\ k3.pc = "save" /\ k3.on = p /\ k3.report = r /\ k3.list = NoCall.list
  BY <1>2 DEF CallRow
<1>. HIDE DEF k3
<1>4. /\ k4 \in CallRow /\ k4.pc = "save" /\ k4.on = p /\ k4.report = r /\ k4.source = s
      /\ k4.list = NoCall.list
  BY <1>3 DEF CallRow
<1>. HIDE DEF k4
<1>5. /\ k5 \in CallRow /\ k5.pc = "save" /\ k5.on = p /\ k5.report = r /\ k5.source = s /\ k5.row = row
      /\ k5.list = NoCall.list
  BY <1>4 DEF CallRow
<1>. HIDE DEF k5
<1>. QED
  BY <1>5, <1>6

LEMMA NoCallNext == PanelInv /\ LinksStay => ListNext(NoCall.list) /\ CallNext(NoCall)
<1>1. NoCall.list \in [Submission -> SubmissionRow]
  BY NoCallIsOK DEF CallRow
<1>. QED
  BY <1>1, NoCallIsOK, LinkedStays DEF CallOK, CallNext

LEMMA NoRowTyped == NoRow \in SubmissionRow
BY DEF NoRow, SubmissionRow

LEMMA SaveStep ==
    ASSUME PanelInv, NEW p \in Screen, NEW c \in Call, Save(p, c)
    PROVE  PanelInv'
<1>. DEFINE q == screen[p]
            row == IF q.source = Absent THEN NoRow ELSE q.list[q.source]
            edit == q.editing
            s == q.source
<1>1. /\ edit # Absent
      /\ call' = [call EXCEPT ![c] = Saving(p, edit, s, row)]
      /\ UNCHANGED <<screen, inbox, drafted, saved, clicks>>
  BY DEF Save, Saving
<1>2. LinksStay
  BY <1>1, NothingNew
<1>3. q \in ScreenState /\ ScreenNext(q)
  BY <1>2, ListsStay, PanelTypes
<1>4. edit \in Draft /\ s \in Submission \union {Absent} /\ row \in SubmissionRow
  BY <1>1, <1>3, NoRowTyped DEF ScreenState
<1>5. s # Absent => drafted'[edit] = s
  BY <1>3 DEF ScreenNext
<1>. HIDE DEF row, edit, s, q
<1>. DEFINE k == Saving(p, edit, s, row)
<1>6. /\ k \in CallRow /\ k.pc = "save" /\ k.on = p /\ k.report = edit /\ k.source = s
      /\ k.list = NoCall.list
  BY <1>4, SavingCall
<1>7. call' = [call EXCEPT ![c] = k]
  BY <1>1
<1>. HIDE DEF k
<1>8. CallNext(k)
  BY <1>2, <1>4, <1>5, <1>6, NoCallNext DEF CallNext
<1>. QED
  BY <1>1, <1>2, <1>6, <1>7, <1>8, OneCall, PanelMoves, ListsStay, PanelTypes

\* A call goes on with what it carries.
LEMMA CallAt ==
    ASSUME NEW k \in CallRow, NEW x \in {"link", "close", "load"}
    PROVE  /\ [k EXCEPT !.pc = x] \in CallRow /\ [k EXCEPT !.pc = x].pc = x
           /\ [k EXCEPT !.pc = x].on = k.on /\ [k EXCEPT !.pc = x].report = k.report
           /\ [k EXCEPT !.pc = x].source = k.source /\ [k EXCEPT !.pc = x].list = k.list
BY DEF CallRow

LEMMA CallEnds ==
    ASSUME PanelInv, LinksStay, NEW c \in Call, call' = [call EXCEPT ![c] = NoCall]
    PROVE  call' \in [Call -> CallRow] /\ \A d \in Call : CallNext(call'[d])
BY NoCallIsOK, NoCallNext, OneCall

LEMMA CallGoesTo ==
    ASSUME PanelInv, LinksStay, NEW c \in Call, NEW x \in {"close", "load"}, call[c].pc # "idle",
           Goto(c, x)
    PROVE  call' \in [Call -> CallRow] /\ \A d \in Call : CallNext(call'[d])
<1>. DEFINE k == call[c]
            k1 == [k EXCEPT !.pc = x]
<1>1. k \in CallRow /\ CallNext(k) /\ k.pc # "idle"
  BY ListsStay, PanelTypes
<1>2. call' = [call EXCEPT ![c] = k1]
  BY DEF Goto
<1>. HIDE DEF k
<1>3. k1 \in CallRow /\ k1.pc = x /\ k1.on = k.on /\ k1.list = k.list
  BY <1>1, CallAt
<1>. HIDE DEF k1
<1>4. CallNext(k1)
  BY <1>1, <1>3 DEF CallNext
<1>. QED
  BY <1>2, <1>3, <1>4, OneCall

LEMMA SaveReportStep ==
    ASSUME PanelInv, NEW c \in Call, SaveReport(c)
    PROVE  PanelInv'
<1>. DEFINE k == call[c]
<1>1. k \in CallRow /\ CallOK(k) /\ k.pc = "save"
  BY PanelTypes DEF PanelInv, SaveReport
<1>2. k.report \in Draft /\ k.source \in Submission \union {Absent}
  BY <1>1 DEF CallOK, CallRow
<1>3. UNCHANGED <<screen, inbox, drafted, clicks>>
  BY DEF SaveReport
<1>4. CASE saved' = saved \union {k.report}
           /\ Goto(c, IF k.source = Absent \/ k.row.status = "gone" THEN "close" ELSE "link")
  <2>1. LinksStay
    BY <1>2, <1>3, <1>4, PanelTypes DEF LinksStay
  <2>2. CASE k.source = Absent \/ k.row.status = "gone"
    <3>1. Goto(c, "close") /\ k.pc # "idle"
      BY <1>1, <1>4, <2>2
    <3>. QED
      BY <1>3, <2>1, <3>1, CallGoesTo, PanelMoves, ListsStay, PanelTypes
  <2>3. CASE ~(k.source = Absent \/ k.row.status = "gone")
    <3>. DEFINE k1 == [k EXCEPT !.pc = "link"]
    <3>1. call' = [call EXCEPT ![c] = k1] /\ k.source \in Submission
      BY <1>2, <1>4, <2>3 DEF Goto
    <3>2. CallNext(k) /\ k.report \in saved'
      BY <1>4, <2>1, ListsStay
    <3>. HIDE DEF k
    <3>3. /\ k1 \in CallRow /\ k1.pc = "link" /\ k1.on = k.on /\ k1.report = k.report
          /\ k1.source = k.source /\ k1.list = k.list
      BY <1>1, CallAt
    <3>. HIDE DEF k1
    <3>4. k.source # Absent
      BY <2>3
    <3>5. CallNext(k1)
      BY <1>1, <3>1, <3>2, <3>3, <3>4 DEF CallNext
    <3>. QED
      BY <1>3, <2>1, <3>1, <3>3, <3>5, OneCall, PanelMoves, ListsStay, PanelTypes
  <2>. QED
    BY <2>2, <2>3
<1>5. CASE call' = [call EXCEPT ![c] = NoCall] /\ UNCHANGED saved
  <2>1. LinksStay
    BY <1>3, <1>5, NothingNew
  <2>. QED
    BY <1>3, <1>5, <2>1, CallEnds, PanelMoves, ListsStay, PanelTypes
<1>. QED
  BY <1>4, <1>5 DEF SaveReport

\* The server keeps what it is told, when it is told a saved draft of the
\* submission, or none.
LEMMA PatchedIsLinked ==
    ASSUME PanelInv, LinksStay, NEW s \in Submission, NEW r \in Draft \union {Absent},
           LinkedNext(r, s)
    PROVE  Patched(s, r) \in [Submission -> SubmissionRow] /\ ListNext(Patched(s, r))
<1>. DEFINE row == [status |-> "decided", result |-> r]
<1>1. row \in SubmissionRow /\ row.result = r
  BY DEF SubmissionRow
<1>2. Patched(s, r) = inbox \/ Patched(s, r) = [inbox EXCEPT ![s] = row]
  BY DEF Patched
<1>. HIDE DEF row
<1>3. inbox \in [Submission -> SubmissionRow] /\ ListNext(inbox)
  BY PanelTypes, ListsStay
<1>. QED
  BY <1>1, <1>2, <1>3 DEF ListNext

LEMMA LinkStep ==
    ASSUME PanelInv, NEW c \in Call, Link(c)
    PROVE  PanelInv'
<1>. DEFINE k == call[c]
<1>1. k \in CallRow /\ CallOK(k) /\ k.pc = "link"
  BY PanelTypes DEF PanelInv, Link
<1>2. /\ inbox' \in {inbox, Patched(k.source, k.report)} /\ Goto(c, "close")
      /\ UNCHANGED <<screen, drafted, saved, clicks>>
  BY DEF Link, Linked
<1>3. LinksStay
  BY <1>2, NothingNew
<1>4. CallNext(k) /\ k.source \in Submission /\ k.report \in Draft
  BY <1>1, <1>3, ListsStay, PanelTypes DEF CallOK
<1>5. LinkedNext(k.report, k.source)
  BY <1>1, <1>4 DEF CallNext, LinkedNext
<1>6. inbox' \in [Submission -> SubmissionRow] /\ ListNext(inbox')
  BY <1>2, <1>3, <1>4, <1>5, PatchedIsLinked, PanelTypes, ListsStay
<1>7. call' \in [Call -> CallRow] /\ \A d \in Call : CallNext(call'[d])
  BY <1>1, <1>2, <1>3, CallGoesTo
<1>. QED
  BY <1>2, <1>3, <1>6, <1>7, PanelMoves, ListsStay, PanelTypes

\* Waiting, or not, for a list.
LEMMA LoadingScreens ==
    ASSUME PanelInv, LinksStay, NEW p \in Screen, NEW on \in BOOLEAN, Loading(p, on)
    PROVE  screen' \in [Screen -> ScreenState] /\ \A r \in Screen : ScreenNext(screen'[r])
<1>. DEFINE q == screen[p]
            q1 == [q EXCEPT !.loading = on]
<1>1. q \in ScreenState /\ ScreenNext(q) /\ screen' = [screen EXCEPT ![p] = q1]
  BY ListsStay, PanelTypes DEF Loading
<1>. HIDE DEF q
<1>2. q1 \in ScreenState /\ q1.list = q.list /\ q1.source = q.source /\ q1.editing = q.editing
  BY <1>1 DEF ScreenState
<1>. HIDE DEF q1
<1>3. ScreenNext(q1)
  BY <1>1, <1>2 DEF ScreenNext
<1>. QED
  BY <1>1, <1>2, <1>3, OneScreen

LEMMA CloseAfterSaveStep ==
    ASSUME PanelInv, NEW c \in Call, CloseAfterSave(c)
    PROVE  PanelInv'
<1>. DEFINE p == call[c].on
            q == [[[screen[p] EXCEPT !.editing = Absent] EXCEPT !.source = Absent]
                      EXCEPT !.loading = TRUE]
<1>1. p \in Screen /\ call[c].pc = "close"
  BY PanelTypes DEF PanelInv, CallOK, CloseAfterSave
<1>2. screen' = [screen EXCEPT ![p] = q] /\ UNCHANGED <<inbox, drafted, saved, clicks>>
  BY DEF CloseAfterSave
<1>3. LinksStay
  BY <1>2, NothingNew
<1>4. call' \in [Call -> CallRow] /\ \A d \in Call : CallNext(call'[d])
  BY <1>1, <1>3, CallGoesTo DEF CloseAfterSave
<1>. HIDE DEF p
<1>5. q \in ScreenState /\ ScreenNext(q)
  BY <1>1, <1>3, EditorWithoutSource
<1>. HIDE DEF q
<1>. QED
  BY <1>1, <1>2, <1>3, <1>4, <1>5, OneScreen, PanelMoves, ListsStay, PanelTypes

\* Calls that carry no report.
LEMMA ShortCall ==
    ASSUME NEW x \in {"load", "show"}, NEW p \in Screen
    PROVE  /\ [NoCall EXCEPT !.pc = x, !.on = p] \in CallRow
           /\ [NoCall EXCEPT !.pc = x, !.on = p].pc = x
           /\ [NoCall EXCEPT !.pc = x, !.on = p].on = p
           /\ [NoCall EXCEPT !.pc = x, !.on = p].list = NoCall.list
<1>. DEFINE k1 == [NoCall EXCEPT !.pc = x]
            k2 == [k1 EXCEPT !.on = p]
<1>1. k1 \in CallRow /\ k1.pc = x /\ k1.list = NoCall.list
  BY NoCallIsOK DEF CallRow
<1>2. k2 = [NoCall EXCEPT !.pc = x, !.on = p]
  OBVIOUS
<1>. HIDE DEF k1
<1>3. k2 \in CallRow /\ k2.pc = x /\ k2.on = p /\ k2.list = NoCall.list
  BY <1>1 DEF CallRow
<1>. HIDE DEF k2
<1>. QED
  BY <1>2, <1>3

LEMMA LoadStep ==
    ASSUME PanelInv, NEW p \in Screen, NEW c \in Call, Load(p, c)
    PROVE  PanelInv'
<1>. DEFINE k == [NoCall EXCEPT !.pc = "load", !.on = p]
<1>1. call' = [call EXCEPT ![c] = k] /\ Loading(p, TRUE) /\ UNCHANGED <<inbox, drafted, saved>>
  BY DEF Load
<1>2. clicks' \in [Screen -> Nat]
  BY ClickStays DEF Load
<1>3. LinksStay
  BY <1>1, NothingNew
<1>4. k \in CallRow /\ k.pc = "load" /\ k.on = p /\ k.list = NoCall.list
  BY ShortCall
<1>. HIDE DEF k
<1>5. CallNext(k)
  BY <1>3, <1>4, NoCallNext DEF CallNext
<1>6. call' \in [Call -> CallRow] /\ \A d \in Call : CallNext(call'[d])
  BY <1>1, <1>3, <1>4, <1>5, OneCall
<1>7. screen' \in [Screen -> ScreenState] /\ \A r \in Screen : ScreenNext(screen'[r])
  BY <1>1, <1>3, LoadingScreens
<1>. QED
  BY <1>1, <1>2, <1>3, <1>6, <1>7, PanelMoves, ListsStay, PanelTypes

LEMMA DecideStep ==
    ASSUME PanelInv, NEW p \in Screen, NEW s \in Submission, NEW c \in Call, Decide(p, s, c)
    PROVE  PanelInv'
<1>. DEFINE row == screen[p].list[s]
<1>1. PICK x \in {"decide", "remove"} :
          call' = [call EXCEPT ![c] = [NoCall EXCEPT !.pc = x, !.on = p, !.source = s, !.row = row]]
  BY DEF Decide
<1>. DEFINE k1 == [NoCall EXCEPT !.pc = x]
            k2 == [k1 EXCEPT !.on = p]
            k3 == [k2 EXCEPT !.source = s]
            k4 == [k3 EXCEPT !.row = row]
<1>2. call' = [call EXCEPT ![c] = k4]
  BY <1>1
<1>3. Loading(p, TRUE) /\ UNCHANGED <<inbox, drafted, saved>> /\ clicks' \in [Screen -> Nat]
  BY ClickStays DEF Decide
<1>4. LinksStay
  BY <1>3, NothingNew
<1>5. row \in SubmissionRow /\ LinkedNext(row.result, s)
  BY <1>4, ListsStay, PanelTypes DEF ScreenState, ScreenNext, ListNext
<1>. HIDE DEF row
<1>6. k1 \in CallRow /\ k1.pc = x /\ k1.list = NoCall.list
  BY NoCallIsOK DEF CallRow
<1>. HIDE DEF k1
<1>7. k2 \in CallRow /\ k2.pc = x /\ k2.on = p /\ k2.list = NoCall.list
  BY <1>6 DEF CallRow
<1>. HIDE DEF k2
<1>8. k3 \in CallRow /\ k3.pc = x /\ k3.on = p /\ k3.list = NoCall.list /\ k3.source = s
  BY <1>7 DEF CallRow
<1>. HIDE DEF k3
<1>9. /\ k4 \in CallRow /\ k4.pc = x /\ k4.on = p /\ k4.list = NoCall.list /\ k4.source = s
      /\ k4.row = row
  BY <1>5, <1>8 DEF CallRow
<1>. HIDE DEF k4
<1>10. CallNext(k4)
  BY <1>4, <1>5, <1>9, NoCallNext DEF CallNext
<1>11. call' \in [Call -> CallRow] /\ \A d \in Call : CallNext(call'[d])
  BY <1>2, <1>4, <1>9, <1>10, OneCall
<1>12. screen' \in [Screen -> ScreenState] /\ \A r \in Screen : ScreenNext(screen'[r])
  BY <1>3, <1>4, LoadingScreens
<1>. QED
  BY <1>3, <1>4, <1>11, <1>12, PanelMoves, ListsStay, PanelTypes

LEMMA LoadReadStep ==
    ASSUME PanelInv, NEW c \in Call, LoadRead(c)
    PROVE  PanelInv'
<1>. DEFINE p == call[c].on
            k2 == [NoCall EXCEPT !.pc = "show", !.on = p]
            k3 == [k2 EXCEPT !.list = inbox]
<1>1. p \in Screen
  BY PanelTypes DEF PanelInv, CallOK, LoadRead
<1>2. call' = [call EXCEPT ![c] = k3] /\ UNCHANGED <<screen, inbox, drafted, saved, clicks>>
  BY DEF LoadRead
<1>3. LinksStay
  BY <1>2, NothingNew
<1>. HIDE DEF p
<1>4. k2 \in CallRow /\ k2.pc = "show" /\ k2.on = p
  BY <1>1, ShortCall
<1>. HIDE DEF k2
<1>5. k3 \in CallRow /\ k3.pc = "show" /\ k3.on = p /\ k3.list = inbox
  BY <1>4, PanelTypes DEF CallRow
<1>. HIDE DEF k3
<1>6. CallNext(k3)
  BY <1>1, <1>3, <1>5, ListsStay DEF CallNext
<1>. QED
  BY <1>2, <1>3, <1>5, <1>6, OneCall, PanelMoves, ListsStay, PanelTypes

LEMMA LoadFailsStep ==
    ASSUME PanelInv, NEW c \in Call, LoadFails(c)
    PROVE  PanelInv'
<1>1. call[c].on \in Screen
  BY PanelTypes DEF PanelInv, CallOK, LoadFails
<1>2. /\ call' = [call EXCEPT ![c] = NoCall] /\ Loading(call[c].on, FALSE)
      /\ UNCHANGED <<inbox, drafted, saved, clicks>>
  BY DEF LoadFails
<1>3. LinksStay
  BY <1>2, NothingNew
<1>4. screen' \in [Screen -> ScreenState] /\ \A r \in Screen : ScreenNext(screen'[r])
  BY <1>1, <1>2, <1>3, LoadingScreens
<1>. QED
  BY <1>2, <1>3, <1>4, CallEnds, PanelMoves, ListsStay, PanelTypes

LEMMA ShowStep ==
    ASSUME PanelInv, NEW c \in Call, Show(c)
    PROVE  PanelInv'
<1>. DEFINE k == call[c]
            q == screen[k.on]
            q1 == [q EXCEPT !.list = k.list]
            q2 == [q1 EXCEPT !.loading = FALSE]
<1>1. k \in CallRow /\ k.on \in Screen
  BY PanelTypes DEF PanelInv, CallOK, Show
<1>2. /\ call' = [call EXCEPT ![c] = NoCall] /\ screen' = [screen EXCEPT ![k.on] = q2]
      /\ UNCHANGED <<inbox, drafted, saved, clicks>>
  BY DEF Show
<1>3. LinksStay
  BY <1>2, NothingNew
<1>4. q \in ScreenState /\ ScreenNext(q) /\ CallNext(k)
  BY <1>1, <1>3, ListsStay, PanelTypes
<1>5. k.list \in [Submission -> SubmissionRow] /\ ListNext(k.list)
  BY <1>1, <1>4 DEF CallRow, CallNext
<1>. HIDE DEF q, k
<1>6. q1 \in ScreenState /\ q1.list = k.list /\ q1.source = q.source /\ q1.editing = q.editing
  BY <1>4, <1>5 DEF ScreenState
<1>. HIDE DEF q1
<1>7. q2 \in ScreenState /\ q2.list = k.list /\ q2.source = q.source /\ q2.editing = q.editing
  BY <1>6 DEF ScreenState
<1>. HIDE DEF q2
<1>8. ScreenNext(q2)
  BY <1>4, <1>5, <1>7 DEF ScreenNext
<1>9. screen' \in [Screen -> ScreenState] /\ \A r \in Screen : ScreenNext(screen'[r])
  BY <1>1, <1>2, <1>3, <1>7, <1>8, OneScreen
<1>. QED
  BY <1>2, <1>3, <1>9, CallEnds, PanelMoves, ListsStay, PanelTypes

\* What a decision writes is what the list showed; a deletion leaves no result.
LEMMA DecideOnServerStep ==
    ASSUME PanelInv, NEW c \in Call, DecideOnServer(c)
    PROVE  PanelInv'
<1>. DEFINE k == call[c]
            s == k.source
            gone == [status |-> "gone", result |-> Absent]
            done == IF k.pc = "decide" THEN Patched(s, k.row.result)
                    ELSE [inbox EXCEPT ![s] = gone]
<1>1. /\ k \in CallRow /\ k.pc \in {"decide", "remove"} /\ k.on \in Screen /\ s \in Submission
      /\ UNCHANGED <<drafted, saved, clicks>>
  BY PanelTypes DEF PanelInv, CallOK, DecideOnServer
<1>2. LinksStay
  BY <1>1, NothingNew
<1>3. CallNext(k) /\ inbox \in [Submission -> SubmissionRow] /\ ListNext(inbox)
  BY <1>2, ListsStay, PanelTypes
<1>4. gone \in SubmissionRow /\ gone.result = Absent
  BY DEF SubmissionRow
<1>. HIDE DEF gone
<1>5. [inbox EXCEPT ![s] = gone] \in [Submission -> SubmissionRow]
      /\ ListNext([inbox EXCEPT ![s] = gone])
  BY <1>1, <1>3, <1>4 DEF ListNext, LinkedNext
<1>6. k.row.result \in Draft \union {Absent} /\ (k.pc = "decide" => LinkedNext(k.row.result, s))
  BY <1>1, <1>3 DEF CallRow, SubmissionRow, CallNext
<1>7. done \in [Submission -> SubmissionRow] /\ ListNext(done)
  BY <1>1, <1>2, <1>5, <1>6, PatchedIsLinked
<1>8. \/ inbox' = done /\ Goto(c, "load") /\ UNCHANGED screen
      \/ inbox' \in {inbox, done} /\ call' = [call EXCEPT ![c] = NoCall] /\ Loading(k.on, FALSE)
  BY DEF DecideOnServer, gone
<1>9. inbox' \in [Submission -> SubmissionRow] /\ ListNext(inbox')
  BY <1>3, <1>7, <1>8
<1>. HIDE DEF done
<1>10. call' \in [Call -> CallRow] /\ \A d \in Call : CallNext(call'[d])
  <2>1. CASE Goto(c, "load")
    BY <1>1, <1>2, <2>1, CallGoesTo
  <2>2. CASE call' = [call EXCEPT ![c] = NoCall]
    BY <1>2, <2>2, CallEnds
  <2>. QED
    BY <1>8, <2>1, <2>2
<1>11. screen' \in [Screen -> ScreenState] /\ \A r \in Screen : ScreenNext(screen'[r])
  <2>1. CASE UNCHANGED screen
    BY <1>2, <2>1, ListsStay, PanelTypes
  <2>2. CASE Loading(k.on, FALSE)
    BY <1>1, <1>2, <2>2, LoadingScreens
  <2>. QED
    BY <1>8, <2>1, <2>2
<1>. QED
  BY <1>1, <1>2, <1>9, <1>10, <1>11, PanelMoves, PanelTypes

LEMMA PanelInvStays == PanelInv /\ [PanelStep]_panelVars => PanelInv'
<1>. SUFFICES ASSUME PanelInv, [PanelStep]_panelVars PROVE PanelInv'
  OBVIOUS
<1>1. ASSUME NEW p \in Screen,
             \/ CloseEditor(p)
             \/ \E s \in Submission : OpenDraft(p, s)
             \/ \E r \in Draft : OpenReport(p, r)
      PROVE  PanelInv'
  BY <1>1, CloseEditorStep, OpenDraftStep, OpenReportStep
<1>2. ASSUME NEW p \in Screen, NEW c \in Call,
             Save(p, c) \/ Load(p, c) \/ \E s \in Submission : Decide(p, s, c)
      PROVE  PanelInv'
  BY <1>2, SaveStep, LoadStep, DecideStep
<1>3. ASSUME NEW c \in Call,
             \/ SaveReport(c) \/ Link(c) \/ CloseAfterSave(c) \/ DecideOnServer(c)
             \/ LoadRead(c) \/ LoadFails(c) \/ Show(c)
      PROVE  PanelInv'
  BY <1>3, SaveReportStep, LinkStep, CloseAfterSaveStep, DecideOnServerStep, LoadReadStep,
     LoadFailsStep, ShowStep
<1>4. CASE UNCHANGED panelVars
  <2>1. UNCHANGED <<screen, call, inbox, drafted, saved, clicks>>
    BY <1>4 DEF panelVars
  <2>. QED
    BY <2>1, NothingNew, PanelMoves, ListsStay, PanelTypes
<1>. QED
  BY <1>1, <1>2, <1>3, <1>4 DEF PanelStep

\* A submission's result is a saved report that was drafted from it, whatever
\* moderators open, close, save and decide meanwhile (onSaved of
\* admin-dashboard.tsx, which links the report of its own rendering).
THEOREM SubmissionsGetTheirOwnDrafts == Spec => []LinksAreToTheirDrafts
<1>1. Init => PanelInv
  BY PanelStarts, ScenariosConstants DEF Init
<1>2. PanelInv /\ [Next]_vars => PanelInv'
  BY PanelInvStays, StepsApart
<1>3. PanelInv => LinksAreToTheirDrafts
  BY DEF PanelInv, ListOK, LinkedTo, LinksAreToTheirDrafts
<1>. QED
  BY <1>1, <1>2, <1>3, PTL DEF Spec

-----------------------------------------------------------------------------
(* Applications. *)

Rulings == {"Under Review", "Accepted", "Rejected"}
RulingRow == [pc : {"absent", "idle", "read", "write"}, id : Application \union {Nobody},
              by : Account \union {Nobody},
              verdict : {"none", "Under Review", "Accepted", "Rejected"},
              seen : {"none", "dropped"} \union Open \union Closed]
FilingRow == [pc : {"new", "read", "insert", "done"}, of : Account \union {Nobody}]

\* An application under way is somebody's.
Owned(row) == row.status \in Open \union Closed => row.of \in Account

\* A decision under way is by somebody, on something, and was started from a
\* status that leads to it.
RulingOK(q) ==
    /\ q.pc \in {"read", "write"} => q.id \in Application /\ q.by \in Account /\ q.verdict \in Rulings
    /\ q.pc = "write" => q.verdict \in NextStatus(q.seen)

ApplicationInv ==
    /\ ApplicationsTypeOK
    /\ \A i \in Application : Owned(application[i])
    /\ \A i \in Application : filing[i].pc \in {"read", "insert"} => filing[i].of \in Account
    /\ \A d \in Reviewer : RulingOK(ruling[d])

LEMMA ApplicationTypes ==
    ASSUME ApplicationInv
    PROVE  /\ account \in [Account -> Person] /\ application \in [Application -> ApplicationRow]
           /\ filing \in [Application -> FilingRow] /\ ruling \in [Reviewer -> RulingRow]
           /\ changes \in Nat
           /\ \A i \in Application : application[i] \in ApplicationRow /\ Owned(application[i])
           /\ \A d \in Reviewer : ruling[d] \in RulingRow /\ RulingOK(ruling[d])
BY DEF ApplicationInv, ApplicationsTypeOK, FilingRow, RulingRow

LEMMA RedactedRow ==
    ASSUME NEW row \in ApplicationRow
    PROVE  /\ Redacted(row) \in ApplicationRow
           /\ Redacted(row).status = row.status /\ Redacted(row).of = row.of
<1>. DEFINE r1 == [row EXCEPT !.answers = FALSE]
            r2 == [r1 EXCEPT !.notes = FALSE]
            r3 == [r2 EXCEPT !.reviewer = Nobody]
            r4 == [r3 EXCEPT !.erased = TRUE]
<1>1. r4 = Redacted(row)
  BY DEF Redacted
<1>2. r1 \in ApplicationRow /\ r1.status = row.status /\ r1.of = row.of
  BY DEF ApplicationRow
<1>. HIDE DEF r1
<1>3. r2 \in ApplicationRow /\ r2.status = row.status /\ r2.of = row.of
  BY <1>2 DEF ApplicationRow
<1>. HIDE DEF r2
<1>4. r3 \in ApplicationRow /\ r3.status = row.status /\ r3.of = row.of
  BY <1>3 DEF ApplicationRow
<1>. HIDE DEF r3
<1>5. r4 \in ApplicationRow /\ r4.status = row.status /\ r4.of = row.of
  BY <1>4 DEF ApplicationRow
<1>. HIDE DEF r4
<1>. QED
  BY <1>1, <1>5

LEMMA MovedRow ==
    ASSUME NEW row \in ApplicationRow, NEW to \in Open \union Closed
    PROVE  /\ Moved(row, to) \in ApplicationRow
           /\ Moved(row, to).status = to /\ Moved(row, to).of = row.of
<1>. DEFINE r1 == [row EXCEPT !.status = to]
            r2 == [r1 EXCEPT !.old = FALSE]
<1>1. r1 \in ApplicationRow /\ r1.status = to /\ r1.of = row.of
  BY DEF ApplicationRow
<1>2. Moved(row, to) = IF to = "Expired" THEN Redacted(r2) ELSE r2
  BY DEF Moved
<1>. HIDE DEF r1
<1>3. r2 \in ApplicationRow /\ r2.status = to /\ r2.of = row.of
  BY <1>1 DEF ApplicationRow
<1>. HIDE DEF r2
<1>. QED
  BY <1>2, <1>3, RedactedRow

LEMMA NoApplicationRow ==
    NoApplication \in ApplicationRow /\ NoApplication.status = "none" /\ Owned(NoApplication)
BY DEF NoApplication, ApplicationRow, Owned, Open, Closed

LEMMA ApplicationsStart ==
    ASSUME NEW people \in [Account -> Person], NEW ids, NEW desks, NEW n \in Nat,
           ApplicationsInit(people, ids, desks, n)
    PROVE  ApplicationInv
<1>. DEFINE file(i) == [pc |-> IF i \in ids THEN "new" ELSE "done", of |-> Nobody]
            rule(d) == [pc |-> IF d \in desks THEN "idle" ELSE "absent", id |-> Nobody,
                        by |-> Nobody, verdict |-> "none", seen |-> "none"]
<1>1. /\ account = people /\ changes = n
      /\ application = [i \in Application |-> NoApplication]
      /\ filing = [i \in Application |-> file(i)]
      /\ ruling = [d \in Reviewer |-> rule(d)]
  BY DEF ApplicationsInit
<1>2. \A i \in Application : file(i) \in FilingRow /\ file(i).pc \in {"new", "done"}
  BY DEF FilingRow
<1>3. \A d \in Reviewer : rule(d) \in RulingRow /\ rule(d).pc \in {"absent", "idle"}
  BY DEF RulingRow
<1>. HIDE DEF file, rule
<1>4. ApplicationsTypeOK
  BY <1>1, <1>2, <1>3, NoApplicationRow DEF ApplicationsTypeOK, FilingRow, RulingRow
<1>. QED
  BY <1>1, <1>2, <1>3, <1>4, NoApplicationRow DEF ApplicationInv, RulingOK

\* An application is changed and nothing else, but perhaps accounts.
LEMMA ApplicationsMove ==
    ASSUME ApplicationInv, account' \in [Account -> Person], changes' \in Nat,
           application' \in [Application -> ApplicationRow],
           \A i \in Application : Owned(application'[i]),
           filing' \in [Application -> FilingRow], ruling' \in [Reviewer -> RulingRow],
           \A i \in Application : filing'[i].pc \in {"read", "insert"} => filing'[i].of \in Account,
           \A d \in Reviewer : RulingOK(ruling'[d])
    PROVE  ApplicationInv'
<1>1. ApplicationsTypeOK'
  BY DEF ApplicationsTypeOK, FilingRow, RulingRow
<1>2. (\A i \in Application : Owned(application[i]))'
  BY DEF Owned
<1>3. (\A d \in Reviewer : RulingOK(ruling[d]))'
  BY DEF RulingOK
<1>. QED
  BY <1>1, <1>2, <1>3 DEF ApplicationInv

\* One application becomes another row, which nobody accepts.
LEMMA OneApplication ==
    ASSUME ApplicationInv, NEW i \in Application, NEW row \in ApplicationRow, Owned(row),
           application' = [application EXCEPT ![i] = row], UNCHANGED <<account, ruling>>,
           changes' \in Nat, filing' \in [Application -> FilingRow],
           \A j \in Application : filing'[j].pc \in {"read", "insert"} => filing'[j].of \in Account
    PROVE  ApplicationInv'
<1>1. application' \in [Application -> ApplicationRow]
      /\ \A j \in Application : application'[j] = IF j = i THEN row ELSE application[j]
  BY ApplicationTypes
<1>2. \A j \in Application : Owned(application'[j])
  BY <1>1, ApplicationTypes
<1>. QED
  BY <1>1, <1>2, ApplicationTypes, ApplicationsMove

LEMMA FilingsStay ==
    ApplicationInv => \A i \in Application : filing[i].pc \in {"read", "insert"} => filing[i].of \in Account
BY DEF ApplicationInv

\* What GrantsAreEarned asks of a step.
Earned(i) ==
    application[i].status # "Accepted" /\ application'[i].status = "Accepted" =>
        /\ application[i].status = "Under Review"
        /\ Eligible(application[i].of) /\ account'[application[i].of].role = "moderator"
        /\ Administers(application'[i].reviewer)

LEMMA NobodyAccepted ==
    ASSUME ApplicationInv, NEW i \in Application, NEW row, row.status # "Accepted",
           application' = [application EXCEPT ![i] = row]
    PROVE  \A j \in Application : Earned(j)
<1>1. \A j \in Application : application'[j] = IF j = i THEN row ELSE application[j]
  BY ApplicationTypes
<1>. QED
  BY <1>1 DEF Earned

LEMMA ApplyStep ==
    ASSUME ApplicationInv, NEW i \in Application, Apply(i)
    PROVE  ApplicationInv' /\ \A j \in Application : Earned(j)
<1>1. PICK a \in Account : filing' = [filing EXCEPT ![i] = [pc |-> "read", of |-> a]]
  BY DEF Apply
<1>. DEFINE f == [pc |-> "read", of |-> a]
<1>2. f \in FilingRow /\ f.of = a
  BY DEF FilingRow
<1>. HIDE DEF f
<1>3. /\ filing' \in [Application -> FilingRow]
      /\ \A j \in Application : filing'[j].pc \in {"read", "insert"} => filing'[j].of \in Account
  BY <1>1, <1>2, ApplicationTypes, FilingsStay DEF f
<1>4. UNCHANGED <<account, application, ruling, changes>>
  BY DEF Apply
<1>5. ApplicationInv'
  BY <1>3, <1>4, ApplicationTypes, ApplicationsMove
<1>. QED
  BY <1>4, <1>5 DEF Earned

\* A submission goes on.
LEMMA FilingMoves ==
    ASSUME ApplicationInv, NEW i \in Application, NEW x \in {"insert", "done"},
           filing[i].pc \in {"read", "insert"},
           filing' = [filing EXCEPT ![i].pc = x]
    PROVE  /\ filing' \in [Application -> FilingRow]
           /\ \A j \in Application : filing'[j].pc \in {"read", "insert"} => filing'[j].of \in Account
<1>. DEFINE f == filing[i]
            f1 == [f EXCEPT !.pc = x]
<1>1. f \in FilingRow /\ f.of \in Account /\ filing' = [filing EXCEPT ![i] = f1]
  BY ApplicationTypes, FilingsStay
<1>. HIDE DEF f
<1>2. f1 \in FilingRow /\ f1.of = f.of
  BY <1>1 DEF FilingRow
<1>. HIDE DEF f1
<1>. QED
  BY <1>1, <1>2, ApplicationTypes, FilingsStay

LEMMA ApplyReadStep ==
    ASSUME ApplicationInv, NEW i \in Application, ApplyRead(i)
    PROVE  ApplicationInv' /\ \A j \in Application : Earned(j)
<1>1. PICK x \in {"insert", "done"} : filing' = [filing EXCEPT ![i].pc = x]
  BY DEF ApplyRead
<1>2. filing[i].pc = "read" /\ UNCHANGED <<account, application, ruling, changes>>
  BY DEF ApplyRead
<1>3. /\ filing' \in [Application -> FilingRow]
      /\ \A j \in Application : filing'[j].pc \in {"read", "insert"} => filing'[j].of \in Account
  BY <1>1, <1>2, FilingMoves
<1>4. ApplicationInv'
  BY <1>2, <1>3, ApplicationTypes, ApplicationsMove
<1>. QED
  BY <1>2, <1>4 DEF Earned

LEMMA NewApplicationRow ==
    ASSUME NEW a \in Account
    PROVE  \E row \in ApplicationRow :
               /\ row = [NoApplication EXCEPT !.status = "Pending", !.of = a, !.answers = TRUE]
               /\ row.status = "Pending" /\ row.of = a
<1>. DEFINE r1 == [NoApplication EXCEPT !.status = "Pending"]
            r2 == [r1 EXCEPT !.of = a]
            r3 == [r2 EXCEPT !.answers = TRUE]
<1>1. r1 \in ApplicationRow /\ r1.status = "Pending"
  BY NoApplicationRow DEF ApplicationRow, Open
<1>2. r3 = [NoApplication EXCEPT !.status = "Pending", !.of = a, !.answers = TRUE]
  OBVIOUS
<1>. HIDE DEF r1
<1>3. r2 \in ApplicationRow /\ r2.status = "Pending" /\ r2.of = a
  BY <1>1 DEF ApplicationRow
<1>. HIDE DEF r2
<1>4. r3 \in ApplicationRow /\ r3.status = "Pending" /\ r3.of = a
  BY <1>3 DEF ApplicationRow
<1>. HIDE DEF r3
<1>. QED
  BY <1>2, <1>4

LEMMA ApplyInsertStep ==
    ASSUME ApplicationInv, NEW i \in Application, ApplyInsert(i)
    PROVE  ApplicationInv' /\ \A j \in Application : Earned(j)
<1>. DEFINE a == filing[i].of
<1>1. a \in Account /\ filing[i].pc = "insert"
  BY FilingsStay DEF ApplyInsert
<1>2. PICK row \in ApplicationRow :
          /\ row = [NoApplication EXCEPT !.status = "Pending", !.of = a, !.answers = TRUE]
          /\ row.status = "Pending" /\ row.of = a
  BY <1>1, NewApplicationRow
<1>3. /\ application' = [application EXCEPT ![i] = row] \/ UNCHANGED application
      /\ filing' = [filing EXCEPT ![i].pc = "done"] /\ UNCHANGED <<account, ruling, changes>>
  BY <1>2 DEF ApplyInsert
<1>4. /\ filing' \in [Application -> FilingRow]
      /\ \A j \in Application : filing'[j].pc \in {"read", "insert"} => filing'[j].of \in Account
  BY <1>1, <1>3, FilingMoves
<1>5. CASE application' = [application EXCEPT ![i] = row]
  <2>1. Owned(row) /\ row.status # "Accepted"
    BY <1>1, <1>2 DEF Owned
  <2>2. ApplicationInv'
    BY <1>3, <1>4, <1>5, <2>1, OneApplication, ApplicationTypes
  <2>. QED
    BY <1>5, <2>1, <2>2, NobodyAccepted
<1>6. CASE UNCHANGED application
  <2>1. ApplicationInv'
    BY <1>3, <1>4, <1>6, ApplicationTypes, ApplicationsMove
  <2>. QED
    BY <1>6, <2>1 DEF Earned
<1>. QED
  BY <1>3, <1>5, <1>6

LEMMA WithdrawStep ==
    ASSUME ApplicationInv, NEW i \in Application, Withdraw(i)
    PROVE  ApplicationInv' /\ \A j \in Application : Earned(j)
<1>. DEFINE row == Moved(application[i], "Withdrawn")
<1>1. /\ application' = [application EXCEPT ![i] = row] /\ UNCHANGED <<account, filing, ruling, changes>>
      /\ application[i].status \in Open
  BY DEF Withdraw
<1>2. row \in ApplicationRow /\ row.status = "Withdrawn" /\ row.of = application[i].of
  BY ApplicationTypes, MovedRow DEF Closed
<1>3. Owned(row)
  BY <1>1, <1>2, ApplicationTypes DEF Owned
<1>. HIDE DEF row
<1>4. ApplicationInv'
  BY <1>1, <1>2, <1>3, OneApplication, ApplicationTypes, FilingsStay
<1>. QED
  BY <1>1, <1>2, <1>4, NobodyAccepted

LEMMA AgeStep ==
    ASSUME ApplicationInv, NEW i \in Application, Age(i)
    PROVE  ApplicationInv' /\ \A j \in Application : Earned(j)
<1>. DEFINE q == application[i]
            row == [q EXCEPT !.old = TRUE]
<1>1. /\ application' = [application EXCEPT ![i] = row] /\ UNCHANGED <<account, filing, ruling, changes>>
      /\ q \in ApplicationRow /\ Owned(q)
  BY ApplicationTypes DEF Age
<1>2. application[i].status = q.status
  OBVIOUS
<1>. HIDE DEF q
<1>3. row \in ApplicationRow /\ row.status = q.status /\ row.of = q.of
  BY <1>1 DEF ApplicationRow
<1>. HIDE DEF row
<1>4. Owned(row)
  BY <1>1, <1>3 DEF Owned
<1>5. ApplicationInv'
  BY <1>1, <1>3, <1>4, OneApplication, ApplicationTypes, FilingsStay
<1>6. \A j \in Application : application'[j] = IF j = i THEN row ELSE application[j]
  BY <1>1, ApplicationTypes
<1>. QED
  BY <1>2, <1>3, <1>5, <1>6 DEF Earned

\* A decision changes only itself.
LEMMA OneRuling ==
    ASSUME ApplicationInv, NEW d \in Reviewer, NEW q \in RulingRow, RulingOK(q),
           ruling' = [ruling EXCEPT ![d] = q]
    PROVE  ruling' \in [Reviewer -> RulingRow] /\ \A e \in Reviewer : RulingOK(ruling'[e])
<1>1. ruling' \in [Reviewer -> RulingRow]
      /\ \A e \in Reviewer : ruling'[e] = IF e = d THEN q ELSE ruling[e]
  BY ApplicationTypes
<1>. QED
  BY <1>1, ApplicationTypes

LEMMA RulingAlone ==
    ASSUME ApplicationInv, NEW d \in Reviewer, NEW q \in RulingRow, RulingOK(q),
           ruling' = [ruling EXCEPT ![d] = q], UNCHANGED <<account, application, filing, changes>>
    PROVE  ApplicationInv' /\ \A j \in Application : Earned(j)
<1>1. ApplicationInv'
  BY OneRuling, ApplicationTypes, ApplicationsMove, FilingsStay
<1>. QED
  BY <1>1 DEF Earned

LEMMA RuleBeginStep ==
    ASSUME ApplicationInv, NEW d \in Reviewer, RuleBegin(d)
    PROVE  ApplicationInv' /\ \A j \in Application : Earned(j)
<1>1. PICK s \in Account, i \in Application, verdict \in Rulings :
          ruling' = [ruling EXCEPT ![d] = [pc |-> "read", id |-> i, by |-> s,
                                           verdict |-> verdict, seen |-> "none"]]
  BY DEF RuleBegin, Rulings
<1>. DEFINE q == [pc |-> "read", id |-> i, by |-> s, verdict |-> verdict, seen |-> "none"]
<1>2. q \in RulingRow /\ q.pc = "read" /\ q.id = i /\ q.by = s /\ q.verdict = verdict
  BY DEF RulingRow, Rulings
<1>3. ruling' = [ruling EXCEPT ![d] = q] /\ UNCHANGED <<account, application, filing, changes>>
  BY <1>1 DEF RuleBegin
<1>. HIDE DEF q
<1>4. RulingOK(q)
  BY <1>2 DEF RulingOK
<1>. QED
  BY <1>2, <1>3, <1>4, RulingAlone

LEMMA RuleReadStep ==
    ASSUME ApplicationInv, NEW d \in Reviewer, RuleRead(d)
    PROVE  ApplicationInv' /\ \A j \in Application : Earned(j)
<1>. DEFINE q == ruling[d]
            from == application[q.id].status
            x == IF q.verdict \in NextStatus(from) THEN "write" ELSE "idle"
            q1 == [q EXCEPT !.pc = x]
            q2 == [q1 EXCEPT !.seen = from]
<1>1. q \in RulingRow /\ RulingOK(q) /\ q.pc = "read"
  BY ApplicationTypes DEF RuleRead
<1>2. ruling' = [ruling EXCEPT ![d] = q2] /\ UNCHANGED <<account, application, filing, changes>>
  BY <1>1 DEF RuleRead
<1>3. from \in {"none", "dropped"} \union Open \union Closed
  BY <1>1, ApplicationTypes DEF RulingOK, ApplicationRow
<1>4. x \in {"write", "idle"} /\ (x = "write" => q.verdict \in NextStatus(from))
  OBVIOUS
<1>. HIDE DEF q, from, x
<1>5. q1 \in RulingRow /\ q1.pc = x /\ q1.id = q.id /\ q1.by = q.by /\ q1.verdict = q.verdict
  BY <1>1, <1>4 DEF RulingRow
<1>. HIDE DEF q1
<1>6. /\ q2 \in RulingRow /\ q2.pc = x /\ q2.id = q.id /\ q2.by = q.by /\ q2.verdict = q.verdict
      /\ q2.seen = from
  BY <1>3, <1>5 DEF RulingRow
<1>. HIDE DEF q2
<1>7. RulingOK(q2)
  BY <1>1, <1>4, <1>6 DEF RulingOK
<1>. QED
  BY <1>2, <1>6, <1>7, RulingAlone

\* Only an application that was under review can be accepted.
LEMMA AcceptedFrom ==
    \A from : "Accepted" \in NextStatus(from) => from = "Under Review"
BY DEF NextStatus

LEMMA RuleWriteStep ==
    ASSUME ApplicationInv, NEW d \in Reviewer, RuleWrite(d)
    PROVE  ApplicationInv' /\ \A j \in Application : Earned(j)
<1>. DEFINE q == ruling[d]
            row == application[q.id]
            q1 == [q EXCEPT !.pc = "idle"]
<1>1. /\ q \in RulingRow /\ q.pc = "write" /\ q.id \in Application /\ q.by \in Account
      /\ q.verdict \in Rulings /\ q.verdict \in NextStatus(q.seen)
  BY ApplicationTypes DEF RuleWrite, RulingOK
<1>2. ruling' = [ruling EXCEPT ![d] = q1] /\ UNCHANGED <<filing, changes>>
  BY DEF RuleWrite
<1>3. q1 \in RulingRow /\ q1.pc = "idle"
  <2>. HIDE DEF q
  <2>. QED
    BY <1>1 DEF RulingRow
<1>4. RulingOK(q1)
  BY <1>3 DEF RulingOK
<1>5. ruling' \in [Reviewer -> RulingRow] /\ \A e \in Reviewer : RulingOK(ruling'[e])
  BY <1>2, <1>3, <1>4, OneRuling
<1>6. CASE row.status = q.seen /\ MayRule(q.id, q.by, q.verdict)
  <2>1. PICK notes \in BOOLEAN :
            /\ application' = [application EXCEPT ![q.id] =
                   [Moved(row, q.verdict) EXCEPT !.reviewer = q.by, !.notes = notes]]
            /\ account' = IF /\ q.verdict = "Accepted"
                             /\ account[row.of].role = "member" /\ account[row.of].active
                          THEN [account EXCEPT ![row.of].role = "moderator"] ELSE account
    BY <1>6 DEF RuleWrite
  <2>. DEFINE i == q.id
              who == row.of
              m == Moved(row, q.verdict)
              m1 == [m EXCEPT !.reviewer = q.by]
              m2 == [m1 EXCEPT !.notes = notes]
  <2>2. row \in ApplicationRow /\ Owned(row)
    BY <1>1, ApplicationTypes
  <2>3. q.verdict \in Open \union Closed /\ q.seen \in {"Pending", "Under Review"}
    BY <1>1 DEF Rulings, Open, Closed, NextStatus
  <2>4. who \in Account /\ account[who] \in Person
    BY <1>6, <2>2, <2>3, ApplicationTypes DEF Owned, Open
  <2>5. m \in ApplicationRow /\ m.status = q.verdict /\ m.of = who
    BY <2>2, <2>3, MovedRow
  <2>6. application' = [application EXCEPT ![i] = m2]
    BY <2>1
  <2>. HIDE DEF m
  <2>7. m1 \in ApplicationRow /\ m1.status = q.verdict /\ m1.of = who /\ m1.reviewer = q.by
    BY <1>1, <2>5 DEF ApplicationRow
  <2>. HIDE DEF m1
  <2>8. m2 \in ApplicationRow /\ m2.status = q.verdict /\ m2.of = who /\ m2.reviewer = q.by
    BY <2>7 DEF ApplicationRow
  <2>. HIDE DEF m2
  <2>9. Owned(m2)
    BY <2>4, <2>8 DEF Owned
  <2>10. /\ application' \in [Application -> ApplicationRow]
         /\ \A j \in Application : application'[j] = IF j = i THEN m2 ELSE application[j]
    BY <1>1, <2>6, <2>8, ApplicationTypes
  <2>11. \A j \in Application : Owned(application'[j])
    BY <2>9, <2>10, ApplicationTypes
  <2>12. account' \in [Account -> Person]
         /\ (q.verdict = "Accepted" /\ Eligible(who) => account'[who].role = "moderator")
    <3>. DEFINE p == account[who]
                p1 == [p EXCEPT !.role = "moderator"]
    <3>1. CASE q.verdict = "Accepted" /\ p.role = "member" /\ p.active
      <4>1. account' = [account EXCEPT ![who] = p1]
        BY <2>1, <3>1
      <4>2. p \in [role : {"member", "moderator", "admin"}, active : BOOLEAN, linked : BOOLEAN]
        BY <2>4, <3>1 DEF Person
      <4>. HIDE DEF p
      <4>3. p1 \in Person /\ p1.role = "moderator"
        BY <4>2 DEF Person
      <4>. HIDE DEF p1
      <4>. QED
        BY <2>4, <4>1, <4>3, ApplicationTypes
    <3>2. CASE ~(q.verdict = "Accepted" /\ p.role = "member" /\ p.active)
      BY <2>1, <3>2, ApplicationTypes DEF Eligible
    <3>. QED
      BY <3>1, <3>2
  <2>13. changes' \in Nat /\ filing' \in [Application -> FilingRow]
         /\ \A j \in Application : filing'[j].pc \in {"read", "insert"} => filing'[j].of \in Account
    BY <1>2, ApplicationTypes, FilingsStay
  <2>14. ApplicationInv'
    BY <1>5, <2>10, <2>11, <2>12, <2>13, ApplicationsMove
  <2>15. ASSUME NEW j \in Application, application[j].status # "Accepted",
                application'[j].status = "Accepted"
         PROVE  Earned(j)
    <3>1. j = i /\ q.verdict = "Accepted"
      BY <2>8, <2>10, <2>15
    <3>2. q.seen = "Under Review"
      BY <1>1, <3>1, AcceptedFrom
    <3>3. Administers(q.by) /\ Eligible(who)
      BY <1>6, <3>1 DEF MayRule
    <3>4. application'[j].reviewer = q.by /\ application[j].of = who
          /\ application[j].status = "Under Review"
      BY <1>6, <2>8, <2>10, <3>1, <3>2
    <3>. QED
      BY <2>12, <3>1, <3>3, <3>4 DEF Earned
  <2>. QED
    BY <2>14, <2>15 DEF Earned
<1>7. CASE ~(row.status = q.seen /\ MayRule(q.id, q.by, q.verdict))
  <2>1. UNCHANGED <<account, application>>
    BY <1>7 DEF RuleWrite
  <2>2. ApplicationInv'
    BY <1>2, <1>5, <2>1, ApplicationTypes, ApplicationsMove, FilingsStay
  <2>. QED
    BY <2>1, <2>2 DEF Earned
<1>. QED
  BY <1>6, <1>7

\* Retention and deletions accept nothing.
LEMMA NobodyIsAccepted ==
    ASSUME ApplicationInv, account' \in [Account -> Person], changes' \in Nat,
           application' \in [Application -> ApplicationRow],
           \A i \in Application : Owned(application'[i])
               /\ application'[i].status \in {application[i].status, "Expired", "dropped"},
           UNCHANGED <<filing, ruling>>
    PROVE  ApplicationInv' /\ \A j \in Application : Earned(j)
<1>1. ApplicationInv'
  BY ApplicationTypes, ApplicationsMove, FilingsStay
<1>. QED
  BY <1>1 DEF Earned

LEMMA ExpireStaleStep ==
    ASSUME ApplicationInv, ExpireStale
    PROVE  ApplicationInv' /\ \A j \in Application : Earned(j)
<1>1. PICK s \in Batches(Stale) :
          application' = [i \in Application |->
              IF i \in s THEN Moved(application[i], "Expired") ELSE application[i]]
  BY DEF ExpireStale
<1>2. s \subseteq Stale /\ UNCHANGED <<account, filing, ruling, changes>>
  BY DEF Batches, ExpireStale
<1>3. ASSUME NEW i \in Application
      PROVE  /\ application'[i] \in ApplicationRow /\ Owned(application'[i])
             /\ application'[i].status \in {application[i].status, "Expired", "dropped"}
  <2>1. CASE i \in s
    <3>1. application[i].status \in Open
      BY <1>2, <2>1 DEF Stale
    <3>2. application[i].of \in Account
      BY <3>1, ApplicationTypes DEF Owned
    <3>3. /\ Moved(application[i], "Expired") \in ApplicationRow
          /\ Moved(application[i], "Expired").status = "Expired"
          /\ Moved(application[i], "Expired").of = application[i].of
      BY ApplicationTypes, MovedRow DEF Closed
    <3>4. application'[i] = Moved(application[i], "Expired")
      BY <1>1, <2>1
    <3>. QED
      BY <3>2, <3>3, <3>4 DEF Owned
  <2>2. CASE i \notin s
    BY <1>1, <2>2, ApplicationTypes
  <2>. QED
    BY <2>1, <2>2
<1>4. application' \in [Application -> ApplicationRow]
  BY <1>1, <1>3
<1>. QED
  BY <1>2, <1>3, <1>4, NobodyIsAccepted, ApplicationTypes

LEMMA PurgeAnswersStep ==
    ASSUME ApplicationInv, PurgeAnswers
    PROVE  ApplicationInv' /\ \A j \in Application : Earned(j)
<1>1. PICK s \in Batches(Due) :
          application' = [i \in Application |->
              IF i \in s THEN Redacted(application[i]) ELSE application[i]]
  BY DEF PurgeAnswers
<1>2. UNCHANGED <<account, filing, ruling, changes>>
  BY DEF PurgeAnswers
<1>3. ASSUME NEW i \in Application
      PROVE  /\ application'[i] \in ApplicationRow /\ Owned(application'[i])
             /\ application'[i].status \in {application[i].status, "Expired", "dropped"}
  <2>1. CASE i \in s
    <3>1. /\ Redacted(application[i]) \in ApplicationRow
          /\ Redacted(application[i]).status = application[i].status
          /\ Redacted(application[i]).of = application[i].of
      BY ApplicationTypes, RedactedRow
    <3>2. application'[i] = Redacted(application[i])
      BY <1>1, <2>1
    <3>. QED
      BY <3>1, <3>2, ApplicationTypes DEF Owned
  <2>2. CASE i \notin s
    BY <1>1, <2>2, ApplicationTypes
  <2>. QED
    BY <2>1, <2>2
<1>4. application' \in [Application -> ApplicationRow]
  BY <1>1, <1>3
<1>. QED
  BY <1>2, <1>3, <1>4, NobodyIsAccepted, ApplicationTypes

LEMMA ChangeAccountStep ==
    ASSUME ApplicationInv, NEW a \in Account, ChangeAccount(a)
    PROVE  ApplicationInv' /\ \A j \in Application : Earned(j)
<1>1. PICK p \in Person :
          /\ account' = [account EXCEPT ![a] = p]
          /\ application' = [i \in Application |->
                 LET row == application[i]
                 IN  IF p # Gone THEN row
                     ELSE IF row.of = a THEN [NoApplication EXCEPT !.status = "dropped"]
                     ELSE [row EXCEPT !.reviewer = IF @ = a THEN Nobody ELSE @]]
  BY DEF ChangeAccount
<1>2. UNCHANGED <<filing, ruling>> /\ changes' \in Nat /\ account' \in [Account -> Person]
  BY <1>1, ApplicationTypes DEF ChangeAccount
<1>3. ASSUME NEW i \in Application
      PROVE  /\ application'[i] \in ApplicationRow /\ Owned(application'[i])
             /\ application'[i].status \in {application[i].status, "Expired", "dropped"}
  <2>. DEFINE row == application[i]
              dropped == [NoApplication EXCEPT !.status = "dropped"]
              who == IF row.reviewer = a THEN Nobody ELSE row.reviewer
              left == [row EXCEPT !.reviewer = who]
  <2>1. application'[i] \in {row, dropped, left}
    BY <1>1
  <2>2. dropped \in ApplicationRow /\ dropped.status = "dropped"
    BY NoApplicationRow DEF ApplicationRow
  <2>3. row \in ApplicationRow /\ Owned(row)
    BY ApplicationTypes
  <2>. HIDE DEF dropped
  <2>4. left \in ApplicationRow /\ left.status = row.status /\ left.of = row.of
    <3>1. who \in Account \union {Nobody}
      BY <2>3 DEF ApplicationRow
    <3>. HIDE DEF row, who
    <3>. QED
      BY <2>3, <3>1 DEF ApplicationRow
  <2>5. Owned(dropped)
    BY <2>2 DEF Owned, Open, Closed
  <2>6. Owned(left)
    BY <2>3, <2>4 DEF Owned
  <2>. HIDE DEF left
  <2>. QED
    BY <2>1, <2>2, <2>3, <2>4, <2>5, <2>6
<1>4. application' \in [Application -> ApplicationRow]
  BY <1>1, <1>3
<1>. QED
  BY <1>2, <1>3, <1>4, NobodyIsAccepted, ApplicationTypes

LEMMA ApplicationInvStays ==
    ApplicationInv /\ [ApplicationStep]_applicationVars
        => ApplicationInv' /\ \A i \in Application : Earned(i)
<1>. SUFFICES ASSUME ApplicationInv, [ApplicationStep]_applicationVars
              PROVE  ApplicationInv' /\ \A i \in Application : Earned(i)
  OBVIOUS
<1>1. ASSUME NEW i \in Application,
             Apply(i) \/ ApplyRead(i) \/ ApplyInsert(i) \/ Withdraw(i) \/ Age(i)
      PROVE  ApplicationInv' /\ \A j \in Application : Earned(j)
  BY <1>1, ApplyStep, ApplyReadStep, ApplyInsertStep, WithdrawStep, AgeStep
<1>2. ASSUME NEW d \in Reviewer, RuleBegin(d) \/ RuleRead(d) \/ RuleWrite(d)
      PROVE  ApplicationInv' /\ \A j \in Application : Earned(j)
  BY <1>2, RuleBeginStep, RuleReadStep, RuleWriteStep
<1>3. ASSUME NEW a \in Account, ChangeAccount(a)
      PROVE  ApplicationInv' /\ \A j \in Application : Earned(j)
  BY <1>3, ChangeAccountStep
<1>4. CASE UNCHANGED applicationVars
  <2>1. UNCHANGED <<account, application, filing, ruling, changes>>
    BY <1>4 DEF applicationVars
  <2>2. ApplicationInv'
    BY <2>1, ApplicationTypes, ApplicationsMove, FilingsStay
  <2>. QED
    BY <2>1, <2>2 DEF Earned
<1>. QED
  BY <1>1, <1>2, <1>3, <1>4, ExpireStaleStep, PurgeAnswersStep DEF ApplicationStep

\* An application is accepted only from under review, by an administrator, for
\* a member who is eligible in that very step, and who then is a moderator: what
\* was read before counts for nothing (the guarded UPDATE and the triggers of
\* migration 0013).
THEOREM EveryGrantIsEarned == Spec => GrantsAreEarned
<1>. DEFINE Step == [\A i \in Application : Earned(i)]_applicationVars
<1>1. Init => ApplicationInv
  BY ApplicationsStart, ScenariosConstants DEF Init
<1>2. ApplicationInv /\ [Next]_vars => ApplicationInv' /\ Step
  BY ApplicationInvStays, StepsApart
<1>3. Step => [\A i \in Application :
           application[i].status # "Accepted" /\ application'[i].status = "Accepted" =>
               /\ application[i].status = "Under Review"
               /\ Eligible(application[i].of) /\ account'[application[i].of].role = "moderator"
               /\ Administers(application'[i].reviewer)]_applicationVars
  BY DEF Earned
<1>. QED
  BY <1>1, <1>2, <1>3, PTL DEF Spec, GrantsAreEarned

-----------------------------------------------------------------------------
(* Backups. *)

WorkflowRow ==
    [pc : {"new", "export", "upload", "manifest", "record", "failed", "list weekly",
           "delete weekly", "list monthly", "delete monthly", "done"},
     tries : 0 .. Attempts, stale : SUBSET Backups]

\* Snapshots some list will delete, and the later ones of a kind none will.
Doomed == UNION {workflow[w].stale : w \in Backups}
Staying(b) == {c \in Newer(b) : c \notin Doomed}

TriesLeft(q) == q.pc \in {"new", "export", "upload", "manifest"} => q.tries > 0

\* Runs of one kind follow one another, so a run at work has no later snapshot
\* of its kind; and every list leaves as many later ones as are kept.
BackupInv ==
    /\ BackupTypeOK
    /\ \A b, c \in Backups :
           c < b /\ Kinds[c] = Kinds[b] /\ workflow[b].pc # "new" => workflow[c].pc = "done"
    /\ \A b \in object : workflow[b].pc # "new"
    /\ \A b \in Backups : /\ workflow[b].pc = "manifest" => b \in object
                          /\ workflow[b].pc = "record" => b \in object \intersect manifest
    /\ \A b \in Backups : TriesLeft(workflow[b])
    /\ \A b \in Doomed : Cardinality(Staying(b)) >= Keep
    /\ BackupsAreKept

LEMMA BackupIds == Backups = 1 .. Len(Kinds) /\ Backups \subseteq Nat /\ IsFiniteSet(Backups)
<1>1. Kinds \in Seq(Kind)
  BY BackupConstants
<1>2. Backups = 1 .. Len(Kinds) /\ Len(Kinds) \in Nat
  BY <1>1 DEF Backups
<1>. QED
  BY <1>2, FS_Interval

LEMMA KeepsSome == Keep \in Nat /\ Keep > 0
BY BackupConstants

LEMMA BackupCounts ==
    ASSUME NEW S \in SUBSET Backups
    PROVE  /\ Cardinality(S) \in Nat
           /\ \A T \in SUBSET S : Cardinality(T) \in Nat /\ Cardinality(T) <= Cardinality(S)
<1>1. IsFiniteSet(S)
  BY BackupIds, FS_Subset
<1>2. \A T \in SUBSET S : IsFiniteSet(T) /\ Cardinality(T) <= Cardinality(S)
  BY <1>1, FS_Subset
<1>. QED
  BY <1>1, <1>2, FS_CardinalityType

LEMMA MoreAreEnough ==
    ASSUME NEW S \in SUBSET Backups, NEW T \in SUBSET S, Cardinality(T) >= Keep
    PROVE  Cardinality(S) >= Keep
<1>1. Cardinality(S) \in Nat /\ Cardinality(T) \in Nat /\ Cardinality(T) <= Cardinality(S)
  BY BackupCounts
<1>2. \A i, j \in Nat : i >= Keep /\ i <= j => j >= Keep
  BY KeepsSome
<1>. QED
  BY <1>1, <1>2

LEMMA LastOfSome ==
    ASSUME NEW S \in SUBSET Backups, S # {}
    PROVE  \E m \in S : \A n \in S : n <= m
<1>. DEFINE top == Len(Kinds)
            R == {top - n : n \in S}
<1>1. top \in Nat /\ \A n \in S : n \in Nat /\ n <= top
  BY BackupIds, BackupConstants
<1>2. R \in SUBSET Nat /\ R # {}
  BY <1>1
<1>3. PICK x \in R : \A y \in R : ~(<<y, x>> \in OpToRel(<, Nat))
  BY <1>2, NatLessThanWellFounded, WFMin
<1>4. \A y \in R : ~(y < x)
  BY <1>2, <1>3 DEF OpToRel
<1>5. PICK m \in S : x = top - m
  BY <1>3
<1>6. \A n \in S : ~(top - n < top - m)
  BY <1>4, <1>5
<1>. QED
  BY <1>1, <1>6

LEMMA NewerOnes ==
    ASSUME object \subseteq Backups, NEW b \in Backups
    PROVE  Newer(b) \in SUBSET object
           /\ \A c : c \in Newer(b) <=> c \in object /\ Kinds[c] = Kinds[b] /\ c > b
BY DEF Newer, Stored

\* Of the snapshots after one, the last of them are enough, when all are.
LEMMA LastOnesAreEnough ==
    ASSUME object \subseteq Backups, NEW b \in Backups, Cardinality(Newer(b)) >= Keep
    PROVE  Cardinality({c \in Newer(b) : ~(Cardinality(Newer(c)) >= Keep)}) >= Keep
<1>. DEFINE T == {c \in Newer(b) : ~(Cardinality(Newer(c)) >= Keep)}
            B == {c \in Newer(b) : Cardinality(Newer(c)) >= Keep}
<1>1. Newer(b) \in SUBSET Backups /\ B \in SUBSET Backups /\ T \in SUBSET Backups
  BY NewerOnes
<1>2. Keep \in Nat
  BY BackupConstants
<1>3. CASE B = {}
  <2>1. \A c \in Newer(b) : c \in T
    BY <1>3
  <2>2. Newer(b) = T
    BY <2>1
  <2>. QED
    BY <2>2
<1>4. CASE B # {}
  <2>1. PICK m \in B : \A n \in B : n <= m
    BY <1>1, <1>4, LastOfSome
  <2>2. m \in Backups /\ m > b /\ Kinds[m] = Kinds[b] /\ Cardinality(Newer(m)) >= Keep
    BY <1>1, NewerOnes
  <2>3. ASSUME NEW c \in Newer(m) PROVE c \in T
    <3>1. c \in object /\ Kinds[c] = Kinds[b] /\ c > m /\ c \in Backups
      BY <2>2, NewerOnes
    <3>2. c \in Nat /\ m \in Nat /\ b \in Nat
      BY <2>2, <3>1, BackupIds
    <3>3. c > b /\ ~(c <= m)
      BY <2>2, <3>1, <3>2
    <3>4. c \in Newer(b) /\ c \notin B
      BY <2>1, <3>1, <3>3, NewerOnes
    <3>. QED
      BY <3>4
  <2>. HIDE DEF T
  <2>4. Newer(m) \in SUBSET T
    BY <2>3
  <2>5. Cardinality(Newer(m)) <= Cardinality(T) /\ Cardinality(Newer(m)) \in Nat
        /\ Cardinality(T) \in Nat
    BY <1>1, <2>4, BackupCounts
  <2>. QED
    BY <1>2, <2>2, <2>5 DEF T
<1>. QED
  BY <1>3, <1>4

LEMMA BackupsTyped ==
    ASSUME BackupInv
    PROVE  /\ object \subseteq Backups /\ manifest \subseteq Backups
           /\ record \in [Backups -> {"none", "running", "complete", "failed"}]
           /\ workflow \in [Backups -> WorkflowRow]
           /\ Doomed \subseteq Backups
<1>1. workflow \in [Backups -> WorkflowRow]
  BY DEF BackupInv, BackupTypeOK, WorkflowRow
<1>2. ASSUME NEW b \in Doomed PROVE b \in Backups
  <2>1. PICK w \in Backups : b \in workflow[w].stale
    BY DEF Doomed
  <2>2. workflow[w].stale \in SUBSET Backups
    BY <1>1 DEF WorkflowRow
  <2>. QED
    BY <2>1, <2>2
<1>. QED
  BY <1>1, <1>2 DEF BackupInv, BackupTypeOK, BackupsAreKept

\* A list spares the last ones.
LEMMA DoomedHaveNewer ==
    ASSUME BackupInv, NEW b \in Doomed
    PROVE  b \in Backups /\ Cardinality(Newer(b)) >= Keep
<1>1. b \in Backups /\ Newer(b) \in SUBSET Backups
  BY BackupsTyped, NewerOnes
<1>2. Staying(b) \in SUBSET Newer(b)
  BY DEF Staying
<1>3. /\ Cardinality(Staying(b)) <= Cardinality(Newer(b))
      /\ Cardinality(Staying(b)) \in Nat /\ Cardinality(Newer(b)) \in Nat
  BY <1>1, <1>2, BackupCounts
<1>. QED
  BY <1>1, <1>3, BackupConstants DEF BackupInv

LEMMA EnoughStay ==
    ASSUME BackupInv, NEW b \in Backups, Cardinality(Newer(b)) >= Keep
    PROVE  Cardinality(Staying(b)) >= Keep
<1>. DEFINE T == {c \in Newer(b) : ~(Cardinality(Newer(c)) >= Keep)}
<1>1. Cardinality(T) >= Keep
  BY BackupsTyped, LastOnesAreEnough
<1>2. T \in SUBSET Staying(b)
  BY DoomedHaveNewer DEF Staying
<1>. HIDE DEF T
<1>3. Staying(b) \in SUBSET Backups
  BY BackupsTyped, NewerOnes DEF Staying
<1>4. Cardinality(T) <= Cardinality(Staying(b)) /\ Cardinality(T) \in Nat
      /\ Cardinality(Staying(b)) \in Nat
  BY <1>2, <1>3, BackupCounts
<1>. QED
  BY <1>1, <1>4, BackupConstants

\* A run at work is in no list.
LEMMA AtWorkIsSpared ==
    ASSUME BackupInv, NEW b \in Backups, workflow[b].pc \in {"upload", "manifest", "record"}
    PROVE  b \notin Doomed
<1>. SUFFICES ASSUME b \in Doomed PROVE FALSE
  OBVIOUS
<1>1. Cardinality(Newer(b)) >= Keep
  BY DoomedHaveNewer
<1>2. Newer(b) # {}
  <2>1. Keep > 0 /\ Keep \in Nat
    BY BackupConstants
  <2>2. Newer(b) = {} => Cardinality(Newer(b)) = 0
    BY FS_EmptySet
  <2>. QED
    BY <1>1, <2>1, <2>2
<1>3. PICK c \in Newer(b) : TRUE
  BY <1>2
<1>4. c \in object /\ Kinds[c] = Kinds[b] /\ c > b /\ c \in Backups
  BY BackupsTyped, NewerOnes
<1>5. workflow[b].pc = "done"
  BY <1>4, BackupIds DEF BackupInv
<1>. QED
  BY <1>5

\* The snapshots after one, which no list will delete, in the next state.
LEMMA NewerStays ==
    ASSUME BackupInv, object' \subseteq Backups, Doomed' \subseteq Doomed,
           object \ Doomed \subseteq object', NEW b \in Backups
    PROVE  /\ Cardinality(Staying(b)) >= Keep => Cardinality(Staying(b)') >= Keep
           /\ Cardinality(Newer(b)) >= Keep => Cardinality(Newer(b)') >= Keep
<1>1. Staying(b) \in SUBSET (Staying(b)')
  BY BackupsTyped, NewerOnes DEF Staying, Newer, Stored
<1>2. Staying(b)' \in SUBSET (Newer(b)') /\ Newer(b)' \in SUBSET Backups
  BY DEF Staying, Newer, Stored
<1>3. Staying(b)' \in SUBSET Backups
  BY <1>2
<1>4. /\ Cardinality(Staying(b)) <= Cardinality(Staying(b)') /\ Cardinality(Staying(b)) \in Nat
      /\ Cardinality(Staying(b)') \in Nat
  BY <1>1, <1>3, BackupCounts
<1>5. Cardinality(Staying(b)') <= Cardinality(Newer(b)') /\ Cardinality(Newer(b)') \in Nat
  BY <1>2, BackupCounts
<1>. QED
  BY <1>4, <1>5, EnoughStay, BackupConstants

\* A run goes on; what it stores comes on top.
LEMMA BackupGoesOn ==
    ASSUME BackupInv, NEW b \in Backups, NEW row \in WorkflowRow,
           workflow' = [workflow EXCEPT ![b] = row],
           row.stale \in {workflow[b].stale, {}}, row.pc # "new", workflow[b].pc # "done",
           TriesLeft(row),
           workflow[b].pc = "new" =>
               \A c \in Backups : c < b /\ Kinds[c] = Kinds[b] => workflow[c].pc = "done",
           object \subseteq object', object' \subseteq object \union {b},
           manifest \subseteq manifest', manifest' \subseteq manifest \union object',
           row.pc = "manifest" => b \in object',
           row.pc = "record" => b \in object' \intersect manifest',
           record' \in [Backups -> {"none", "running", "complete", "failed"}],
           \A c \in Backups : record'[c] = "complete" =>
               record[c] = "complete" \/ c \in object' \intersect manifest'
    PROVE  BackupInv'
<1>1. /\ workflow' \in [Backups -> WorkflowRow]
      /\ \A c \in Backups : workflow'[c] = IF c = b THEN row ELSE workflow[c]
  BY BackupsTyped
<1>2. BackupTypeOK'
  BY <1>1, BackupsTyped DEF BackupTypeOK, WorkflowRow
<1>3. ASSUME NEW c \in Backups, NEW d \in Backups, c < d, Kinds[c] = Kinds[d],
             workflow'[d].pc # "new"
      PROVE  workflow'[c].pc = "done"
  <2>1. c # d /\ c \in Nat /\ d \in Nat
    BY <1>3, BackupIds
  <2>2. CASE d = b
    BY <1>1, <1>3, <2>1, <2>2 DEF BackupInv
  <2>3. CASE d # b
    BY <1>1, <1>3, <2>1, <2>3 DEF BackupInv
  <2>. QED
    BY <2>2, <2>3
<1>4. \A c \in object' : workflow'[c].pc # "new"
  BY <1>1, BackupsTyped DEF BackupInv
<1>5. \A c \in Backups : /\ workflow'[c].pc = "manifest" => c \in object'
                         /\ workflow'[c].pc = "record" => c \in object' \intersect manifest'
  BY <1>1 DEF BackupInv
<1>10. (\A c \in Backups : TriesLeft(workflow[c]))'
  BY <1>1 DEF BackupInv, TriesLeft
<1>6. Doomed' \subseteq Doomed
  <2>1. \A c \in Backups : workflow'[c].stale \subseteq workflow[c].stale
    BY <1>1
  <2>. QED
    BY <2>1 DEF Doomed
<1>7. object' \subseteq Backups /\ object \ Doomed \subseteq object'
  BY BackupsTyped
<1>8. \A c \in Doomed' : Cardinality(Staying(c)') >= Keep
  BY <1>6, <1>7, NewerStays, BackupsTyped DEF BackupInv
<1>9. BackupsAreKept'
  <2>1. SUFFICES ASSUME NEW c \in Backups, ~(Cardinality(Newer(c)') >= Keep)
                 PROVE  /\ record'[c] = "complete" => c \in object' \intersect manifest'
                        /\ c \in manifest' => c \in object'
    BY DEF BackupsAreKept
  <2>2. ~(Cardinality(Newer(c)) >= Keep)
    BY <1>6, <1>7, <2>1, NewerStays
  <2>3. /\ record[c] = "complete" => c \in object \intersect manifest
        /\ c \in manifest => c \in object
    BY <2>2 DEF BackupInv, BackupsAreKept
  <2>. QED
    BY <2>3
<1>. QED
  BY <1>2, <1>3, <1>4, <1>5, <1>8, <1>9, <1>10 DEF BackupInv

\* A run that stores nothing, or what it is about to.
Stages == {"export", "upload", "manifest", "record", "failed", "list weekly", "delete weekly",
           "list monthly", "delete monthly", "done"}

LEMMA Advances ==
    ASSUME BackupInv, NEW b \in Backups, NEW x \in Stages, Advance(b, x)
    PROVE  \E row \in WorkflowRow : /\ workflow' = [workflow EXCEPT ![b] = row]
                                    /\ row.pc = x /\ row.stale = workflow[b].stale
                                    /\ row.tries = workflow[b].tries
<1>. DEFINE q == workflow[b]
            row == [q EXCEPT !.pc = x]
<1>1. q \in WorkflowRow /\ workflow' = [workflow EXCEPT ![b] = row]
  BY BackupsTyped DEF Advance
<1>2. row \in WorkflowRow /\ row.pc = x /\ row.stale = q.stale /\ row.tries = q.tries
  <2>. HIDE DEF q
  <2>. QED
    BY <1>1 DEF WorkflowRow, Stages
<1>. HIDE DEF row
<1>. QED
  BY <1>1, <1>2

LEMMA StartBackupStep ==
    ASSUME BackupInv, NEW b \in Backups, StartBackup(b)
    PROVE  BackupInv'
<1>9. TriesLeft(workflow[b])
  BY DEF BackupInv
<1>1. PICK row \in WorkflowRow : /\ workflow' = [workflow EXCEPT ![b] = row]
                                 /\ row.pc = "export" /\ row.stale = workflow[b].stale
                                 /\ row.tries = workflow[b].tries
  BY Advances DEF StartBackup, Stages
<1>2. /\ workflow[b].pc = "new" /\ UNCHANGED <<object, manifest>>
      /\ \A c \in Backups : c < b /\ Kinds[c] = Kinds[b] => workflow[c].pc = "done"
      /\ record' = [record EXCEPT ![b] = IF @ = "none" THEN "running" ELSE @]
  BY DEF StartBackup
<1>3. /\ record' \in [Backups -> {"none", "running", "complete", "failed"}]
      /\ \A c \in Backups : record'[c] = "complete" => record[c] = "complete"
  BY <1>2, BackupsTyped
<1>. QED
  BY <1>1, <1>2, <1>3, <1>9, BackupGoesOn, BackupsTyped DEF TriesLeft

LEMMA ExportStep ==
    ASSUME BackupInv, NEW b \in Backups, Export(b)
    PROVE  BackupInv'
<1>9. TriesLeft(workflow[b])
  BY DEF BackupInv
<1>1. PICK x \in {"upload", "failed"} : Advance(b, x)
  BY DEF Export
<1>8. x \in Stages
  BY DEF Stages
<1>2. PICK row \in WorkflowRow : /\ workflow' = [workflow EXCEPT ![b] = row]
                                 /\ row.pc = x /\ row.stale = workflow[b].stale
                                 /\ row.tries = workflow[b].tries
  BY <1>1, <1>8, Advances
<1>3. workflow[b].pc = "export" /\ UNCHANGED <<record, object, manifest>>
  BY DEF Export
<1>. QED
  BY <1>2, <1>3, <1>9, BackupGoesOn, BackupsTyped DEF TriesLeft

LEMMA FailedAttempts ==
    ASSUME BackupInv, NEW b \in Backups, workflow[b].pc \in {"upload", "manifest"}, AttemptFails(b),
           UNCHANGED <<record, object, manifest>>, workflow[b].tries > 0
    PROVE  BackupInv'
<1>. DEFINE q == workflow[b]
            x == IF q.tries > 1 THEN "upload" ELSE "failed"
            n == q.tries - 1
            q1 == [q EXCEPT !.tries = n]
            q2 == [q1 EXCEPT !.pc = x]
<1>1. q \in WorkflowRow /\ q.tries \in 0 .. Attempts /\ n \in 0 .. Attempts
  <2>1. q \in WorkflowRow /\ q.tries \in 0 .. Attempts
    BY BackupsTyped DEF WorkflowRow
  <2>2. Attempts \in Nat /\ q.tries > 0
    BY BackupConstants
  <2>. HIDE DEF q
  <2>. QED
    BY <2>1, <2>2
<1>2. workflow' = [workflow EXCEPT ![b] = q2] /\ x \in {"upload", "failed"}
  BY DEF AttemptFails
<1>. HIDE DEF n, x
<1>3. q1 \in WorkflowRow /\ q1.stale = q.stale /\ q1.tries = n
  <2>. HIDE DEF q
  <2>. QED
    BY <1>1 DEF WorkflowRow
<1>. HIDE DEF q1
<1>4. q2 \in WorkflowRow /\ q2.pc = x /\ q2.stale = q.stale /\ q2.tries = n
  BY <1>2, <1>3 DEF WorkflowRow
<1>. HIDE DEF q2
<1>5. TriesLeft(q2)
  <2>1. q.tries \in Nat /\ (x = "upload" => q.tries > 1)
    BY <1>1 DEF x
  <2>2. x = "upload" => n > 0
    BY <2>1 DEF n
  <2>. QED
    BY <1>2, <1>4, <2>2 DEF TriesLeft
<1>. QED
  BY <1>2, <1>4, <1>5, BackupGoesOn, BackupsTyped

LEMMA UploadStep ==
    ASSUME BackupInv, NEW b \in Backups, Upload(b)
    PROVE  BackupInv'
<1>9. TriesLeft(workflow[b])
  BY DEF BackupInv
<1>1. workflow[b].pc = "upload" /\ UNCHANGED <<record, manifest>>
  BY DEF Upload
<1>2. CASE object' = object \union {b} /\ Advance(b, "manifest")
  <2>1. PICK row \in WorkflowRow : /\ workflow' = [workflow EXCEPT ![b] = row]
                                   /\ row.pc = "manifest" /\ row.stale = workflow[b].stale
                                   /\ row.tries = workflow[b].tries
    BY <1>2, Advances DEF Stages
  <2>. QED
    BY <1>1, <1>2, <2>1, <1>9, BackupGoesOn, BackupsTyped DEF TriesLeft
<1>3. CASE AttemptFails(b) /\ UNCHANGED object
  BY <1>1, <1>3, <1>9, FailedAttempts DEF TriesLeft
<1>. QED
  BY <1>2, <1>3 DEF Upload

LEMMA StoreManifestStep ==
    ASSUME BackupInv, NEW b \in Backups, StoreManifest(b)
    PROVE  BackupInv'
<1>9. TriesLeft(workflow[b])
  BY DEF BackupInv
<1>1. workflow[b].pc = "manifest" /\ b \in object /\ UNCHANGED <<record, object>>
  BY DEF StoreManifest, BackupInv
<1>2. CASE manifest' = manifest \union {b} /\ Advance(b, "record")
  <2>1. PICK row \in WorkflowRow : /\ workflow' = [workflow EXCEPT ![b] = row]
                                   /\ row.pc = "record" /\ row.stale = workflow[b].stale
                                   /\ row.tries = workflow[b].tries
    BY <1>2, Advances DEF Stages
  <2>. QED
    BY <1>1, <1>2, <2>1, <1>9, BackupGoesOn, BackupsTyped DEF TriesLeft
<1>3. CASE AttemptFails(b) /\ UNCHANGED manifest
  BY <1>1, <1>3, <1>9, FailedAttempts DEF TriesLeft
<1>. QED
  BY <1>2, <1>3 DEF StoreManifest

LEMMA RecordCompletionStep ==
    ASSUME BackupInv, NEW b \in Backups, RecordCompletion(b)
    PROVE  BackupInv'
<1>9. TriesLeft(workflow[b])
  BY DEF BackupInv
<1>1. /\ workflow[b].pc = "record" /\ b \in object \intersect manifest
      /\ UNCHANGED <<object, manifest>>
  BY DEF RecordCompletion, BackupInv
<1>2. PICK x \in {"list weekly", "failed"} : Advance(b, x)
  BY DEF RecordCompletion
<1>8. x \in Stages
  BY DEF Stages
<1>3. PICK row \in WorkflowRow : /\ workflow' = [workflow EXCEPT ![b] = row]
                                 /\ row.pc = x /\ row.stale = workflow[b].stale
                                 /\ row.tries = workflow[b].tries
  BY <1>2, <1>8, Advances
<1>4. record' \in {record, [record EXCEPT ![b] = "complete"]}
  BY DEF RecordCompletion
<1>5. /\ record' \in [Backups -> {"none", "running", "complete", "failed"}]
      /\ \A c \in Backups : record'[c] = "complete" => record[c] = "complete" \/ c = b
  BY <1>4, BackupsTyped
<1>. QED
  BY <1>1, <1>3, <1>5, <1>9, BackupGoesOn, BackupsTyped DEF TriesLeft

LEMMA RecordFailureStep ==
    ASSUME BackupInv, NEW b \in Backups, RecordFailure(b)
    PROVE  BackupInv'
<1>9. TriesLeft(workflow[b])
  BY DEF BackupInv
<1>1. /\ workflow[b].pc = "failed" /\ Advance(b, "done") /\ UNCHANGED <<object, manifest>>
      /\ record' \in {record, [record EXCEPT ![b] = "failed"]}
  BY DEF RecordFailure
<1>2. PICK row \in WorkflowRow : /\ workflow' = [workflow EXCEPT ![b] = row]
                                 /\ row.pc = "done" /\ row.stale = workflow[b].stale
                                 /\ row.tries = workflow[b].tries
  BY <1>1, Advances DEF Stages
<1>3. /\ record' \in [Backups -> {"none", "running", "complete", "failed"}]
      /\ \A c \in Backups : record'[c] = "complete" => record[c] = "complete"
  BY <1>1, BackupsTyped
<1>. QED
  BY <1>1, <1>2, <1>3, <1>9, BackupGoesOn, BackupsTyped DEF TriesLeft

\* A list is made, or dropped.
Relisted(b, S, x) == [workflow[b] EXCEPT !.stale = S, !.pc = x]

LEMMA RelistedRow ==
    ASSUME BackupInv, NEW b \in Backups, NEW S \in SUBSET Backups, NEW x \in Stages
    PROVE  /\ Relisted(b, S, x) \in WorkflowRow /\ Relisted(b, S, x).pc = x
           /\ Relisted(b, S, x).stale = S /\ Relisted(b, S, x).tries = workflow[b].tries
<1>. DEFINE q == workflow[b]
            q1 == [q EXCEPT !.stale = S]
            q2 == [q1 EXCEPT !.pc = x]
<1>1. q \in WorkflowRow /\ Relisted(b, S, x) = q2
  BY BackupsTyped DEF Relisted
<1>2. q1 \in WorkflowRow /\ q1.stale = S /\ q1.tries = q.tries
  <2>. HIDE DEF q
  <2>. QED
    BY <1>1 DEF WorkflowRow
<1>. HIDE DEF q1
<1>3. q2 \in WorkflowRow /\ q2.pc = x /\ q2.stale = S /\ q2.tries = q.tries
  BY <1>2 DEF WorkflowRow, Stages
<1>. HIDE DEF q2
<1>. QED
  BY <1>1, <1>3

TrimStages == {"list weekly", "delete weekly", "list monthly", "delete monthly", "failed", "done"}

\* What does not change when a list is made or carried out.
LEMMA TrimMoves ==
    ASSUME BackupInv, NEW b \in Backups, NEW S \in SUBSET Backups,
           NEW x \in TrimStages,
           workflow' = [workflow EXCEPT ![b] = Relisted(b, S, x)],
           workflow[b].pc \notin {"new", "done"},
           object' \subseteq object, manifest' \subseteq manifest, UNCHANGED record,
           \A c \in Backups \ {b} : workflow[c].pc \in {"manifest", "record"} =>
               (c \in object => c \in object') /\ (c \in manifest => c \in manifest'),
           \A c \in Doomed' : Cardinality(Staying(c)') >= Keep,
           BackupsAreKept'
    PROVE  BackupInv'
<1>. DEFINE row == Relisted(b, S, x)
<1>0. x \in Stages /\ x \notin {"new", "manifest", "record"}
  BY DEF Stages, TrimStages
<1>1. row \in WorkflowRow /\ row.pc = x /\ row.pc \notin {"new", "manifest", "record"}
  BY <1>0, RelistedRow
<1>. HIDE DEF row
<1>2. /\ workflow' \in [Backups -> WorkflowRow]
      /\ \A c \in Backups : workflow'[c] = IF c = b THEN row ELSE workflow[c]
  BY <1>1, BackupsTyped DEF row
<1>3. BackupTypeOK'
  BY <1>2, BackupsTyped DEF BackupTypeOK, WorkflowRow
<1>4. ASSUME NEW c \in Backups, NEW d \in Backups, c < d, Kinds[c] = Kinds[d],
             workflow'[d].pc # "new"
      PROVE  workflow'[c].pc = "done"
  <2>1. c \in Nat /\ d \in Nat
    BY BackupIds
  <2>2. CASE d = b
    BY <1>1, <1>2, <1>4, <2>1, <2>2 DEF BackupInv
  <2>3. CASE d # b
    BY <1>2, <1>4, <2>1, <2>3 DEF BackupInv
  <2>. QED
    BY <2>2, <2>3
<1>5. \A c \in object' : workflow'[c].pc # "new"
  BY <1>1, <1>2, BackupsTyped DEF BackupInv
<1>6. \A c \in Backups : /\ workflow'[c].pc = "manifest" => c \in object'
                         /\ workflow'[c].pc = "record" => c \in object' \intersect manifest'
  BY <1>1, <1>2 DEF BackupInv
<1>7. (\A c \in Backups : TriesLeft(workflow[c]))'
  <2>1. row.pc \notin {"new", "export", "upload", "manifest"}
    BY <1>1 DEF TrimStages
  <2>. QED
    BY <1>2, <2>1 DEF BackupInv, TriesLeft
<1>. QED
  BY <1>3, <1>4, <1>5, <1>6, <1>7 DEF BackupInv

\* Snapshots that a list of now, or an earlier one, will delete have enough
\* later ones that none will.
LEMMA ListStaleStep ==
    ASSUME BackupInv, NEW b \in Backups, NEW kind \in Kind,
           NEW pc \in {"list weekly", "list monthly"}, NEW next \in {"delete weekly", "delete monthly"},
           ListStale(b, pc, kind, next)
    PROVE  BackupInv'
<1>. DEFINE S == StaleOf(kind)
<1>1. /\ workflow[b].pc = pc /\ UNCHANGED <<record, object, manifest>>
      /\ workflow' = [workflow EXCEPT ![b] = Relisted(b, S, next)]
  BY DEF ListStale, Relisted
<1>2. S \in SUBSET Backups /\ next \in Stages /\ next \in TrimStages
  BY BackupsTyped DEF StaleOf, Stored, Stages, TrimStages
<1>3. \A c \in S : Cardinality(Newer(c)) >= Keep
  BY DEF StaleOf
<1>. HIDE DEF S
<1>4. Relisted(b, S, next).stale = S
  BY <1>2, RelistedRow
<1>5. ASSUME NEW c \in Doomed' PROVE c \in Backups /\ Cardinality(Newer(c)) >= Keep
  <2>1. PICK w \in Backups : c \in workflow'[w].stale
    BY DEF Doomed
  <2>2. workflow'[w] = IF w = b THEN Relisted(b, S, next) ELSE workflow[w]
    BY <1>1, BackupsTyped
  <2>3. c \in S \/ c \in workflow[w].stale
    BY <1>4, <2>1, <2>2
  <2>4. CASE c \in S
    BY <1>2, <1>3, <2>4
  <2>5. CASE c \in workflow[w].stale
    <3>1. c \in Doomed
      BY <2>5 DEF Doomed
    <3>. QED
      BY <3>1, DoomedHaveNewer
  <2>. QED
    BY <2>3, <2>4, <2>5
<1>6. \A c : Newer(c)' = Newer(c)
  BY <1>1 DEF Newer, Stored
<1>7. ASSUME NEW c \in Doomed' PROVE Cardinality(Staying(c)') >= Keep
  <2>. DEFINE T == {d \in Newer(c) : ~(Cardinality(Newer(d)) >= Keep)}
  <2>1. c \in Backups /\ Cardinality(T) >= Keep
    BY <1>5, LastOnesAreEnough, BackupsTyped
  <2>2. \A d \in T : d \in Newer(c)' /\ d \notin Doomed'
    BY <1>5, <1>6
  <2>. HIDE DEF T
  <2>3. T \in SUBSET (Staying(c)')
    BY <2>2 DEF Staying
  <2>4. Staying(c)' \in SUBSET Backups
    BY <1>1, BackupsTyped DEF Staying, Newer, Stored
  <2>. QED
    BY <2>1, <2>3, <2>4, MoreAreEnough
<1>8. BackupsAreKept'
  BY <1>1, <1>6 DEF BackupInv, BackupsAreKept
<1>. QED
  BY <1>1, <1>2, <1>7, <1>8, TrimMoves, BackupsTyped

\* Some of a list is deleted, or all of it.
LEMMA StaleOnesGo ==
    ASSUME BackupInv, NEW b \in Backups, workflow[b].pc \notin {"new", "done"},
           NEW next \in TrimStages,
           NEW gone \in SUBSET workflow[b].stale, NEW lost \in SUBSET workflow[b].stale,
           object' = object \ gone, manifest' = manifest \ lost, UNCHANGED record,
           NEW none, none = {}, workflow' = [workflow EXCEPT ![b] = Relisted(b, none, next)]
    PROVE  BackupInv'
<1>. DEFINE stale == workflow[b].stale
<1>2. next \in Stages /\ none \in SUBSET Backups
  BY DEF Stages, TrimStages
<1>3. Relisted(b, none, next).stale = none
  BY <1>2, RelistedRow
<1>4. stale \subseteq Doomed
  BY DEF Doomed
<1>5. Doomed' \subseteq Doomed
  <2>1. \A w \in Backups : workflow'[w].stale \subseteq workflow[w].stale
    BY <1>3, BackupsTyped
  <2>. QED
    BY <2>1 DEF Doomed
<1>6. object' \subseteq Backups /\ object \ Doomed \subseteq object' /\ object' \subseteq object
      /\ manifest' \subseteq manifest
  BY <1>4, BackupsTyped
<1>7. \A c \in Doomed' : Cardinality(Staying(c)') >= Keep
  BY <1>5, <1>6, NewerStays, BackupsTyped DEF BackupInv
<1>8. \A c \in Backups : workflow[c].pc \in {"manifest", "record"} => c \notin stale
  BY <1>4, AtWorkIsSpared
<1>9. BackupsAreKept'
  <2>1. SUFFICES ASSUME NEW c \in Backups, ~(Cardinality(Newer(c)') >= Keep)
                 PROVE  /\ record'[c] = "complete" => c \in object' \intersect manifest'
                        /\ c \in manifest' => c \in object'
    BY DEF BackupsAreKept
  <2>2. ~(Cardinality(Newer(c)) >= Keep)
    BY <1>5, <1>6, <2>1, NewerStays
  <2>3. c \notin stale
    BY <1>4, <2>2, DoomedHaveNewer
  <2>4. /\ record[c] = "complete" => c \in object \intersect manifest
        /\ c \in manifest => c \in object
    BY <2>2 DEF BackupInv, BackupsAreKept
  <2>. QED
    BY <2>3, <2>4
<1>. QED
  BY <1>2, <1>6, <1>7, <1>8, <1>9, TrimMoves

LEMMA DeleteStaleStep ==
    ASSUME BackupInv, NEW b \in Backups, NEW pc \in {"delete weekly", "delete monthly"},
           NEW next \in {"list monthly", "done"}, DeleteStale(b, pc, next)
    PROVE  BackupInv'
<1>. DEFINE stale == workflow[b].stale
            none == {}
<1>1. /\ workflow[b].pc = pc /\ object' = object \ stale /\ manifest' = manifest \ stale
      /\ UNCHANGED record /\ workflow' = [workflow EXCEPT ![b] = Relisted(b, none, next)]
  BY DEF DeleteStale, Relisted
<1>2. none = {} /\ next \in TrimStages
  BY DEF TrimStages
<1>. HIDE DEF none
<1>. QED
  BY <1>1, <1>2, StaleOnesGo

LEMMA TrimFailsStep ==
    ASSUME BackupInv, NEW b \in Backups, TrimFails(b)
    PROVE  BackupInv'
<1>. DEFINE none == {}
<1>1. PICK x \in {"list weekly", "failed"} :
          workflow' = [workflow EXCEPT ![b].stale = {}, ![b].pc = x]
  BY DEF TrimFails
<1>2. PICK gone \in SUBSET workflow[b].stale, lost \in SUBSET workflow[b].stale :
          object' = object \ gone /\ manifest' = manifest \ lost
  BY DEF TrimFails
<1>3. workflow' = [workflow EXCEPT ![b] = Relisted(b, none, x)]
  BY <1>1 DEF Relisted
<1>4. workflow[b].pc \notin {"new", "done"} /\ UNCHANGED record
  BY DEF TrimFails
<1>5. none = {} /\ x \in TrimStages
  BY DEF TrimStages
<1>. HIDE DEF none
<1>. QED
  BY <1>2, <1>3, <1>4, <1>5, StaleOnesGo

LEMMA BackupsStart == BackupInit => BackupInv
<1>. SUFFICES ASSUME BackupInit PROVE BackupInv
  OBVIOUS
<1>. DEFINE fresh == [pc |-> "new", tries |-> Attempts, stale |-> {}]
<1>1. /\ record = [b \in Backups |-> "none"] /\ object = {} /\ manifest = {}
      /\ workflow = [b \in Backups |-> fresh]
  BY DEF BackupInit
<1>2. fresh \in WorkflowRow /\ TriesLeft(fresh) /\ fresh.pc = "new" /\ fresh.stale = {}
  BY BackupConstants DEF WorkflowRow, TriesLeft
<1>. HIDE DEF fresh
<1>3. \A b \in Backups : workflow[b] = fresh /\ record[b] = "none"
  BY <1>1
<1>4. BackupTypeOK
  BY <1>1, <1>2 DEF BackupTypeOK, WorkflowRow
<1>5. Doomed = {}
  BY <1>2, <1>3 DEF Doomed
<1>6. BackupsAreKept
  BY <1>1, <1>3 DEF BackupsAreKept
<1>. QED
  BY <1>1, <1>2, <1>3, <1>4, <1>5, <1>6 DEF BackupInv

LEMMA TrimStep == ASSUME BackupInv, NEW b \in Backups, Trim(b) PROVE BackupInv'
<1>1. CASE ListStale(b, "list weekly", "weekly", "delete weekly")
  BY <1>1, ListStaleStep DEF Kind
<1>2. CASE DeleteStale(b, "delete weekly", "list monthly")
  BY <1>2, DeleteStaleStep
<1>3. CASE ListStale(b, "list monthly", "monthly", "delete monthly")
  BY <1>3, ListStaleStep DEF Kind
<1>4. CASE DeleteStale(b, "delete monthly", "done")
  BY <1>4, DeleteStaleStep
<1>. QED
  BY <1>1, <1>2, <1>3, <1>4 DEF Trim

LEMMA BackupsStay == BackupInv /\ UNCHANGED backupVars => BackupInv'
<1>. SUFFICES ASSUME BackupInv, UNCHANGED backupVars PROVE BackupInv'
  OBVIOUS
<1>1. UNCHANGED <<record, object, manifest, workflow>>
  BY DEF backupVars
<1>2. Doomed' = Doomed /\ \A b : Newer(b)' = Newer(b)
  BY <1>1 DEF Doomed, Newer, Stored
<1>3. \A b : Staying(b)' = Staying(b)
  BY <1>2 DEF Staying
<1>. QED
  BY <1>1, <1>2, <1>3 DEF BackupInv, BackupTypeOK, BackupsAreKept

LEMMA BackupInvStays == BackupInv /\ [BackupStep]_backupVars => BackupInv'
<1>. SUFFICES ASSUME BackupInv, [BackupStep]_backupVars PROVE BackupInv'
  OBVIOUS
<1>1. ASSUME NEW b \in Backups,
             \/ StartBackup(b) \/ Export(b) \/ Upload(b) \/ StoreManifest(b)
             \/ RecordCompletion(b) \/ RecordFailure(b) \/ Trim(b) \/ TrimFails(b)
      PROVE  BackupInv'
  BY <1>1, StartBackupStep, ExportStep, UploadStep, StoreManifestStep, RecordCompletionStep,
     RecordFailureStep, TrimStep, TrimFailsStep
<1>. QED
  BY <1>1, BackupsStay DEF BackupStep

\* A completed backup keeps its snapshot and manifest until as many later ones
\* of its kind are stored as are kept, whichever lists two workflows trim from;
\* and no manifest stands without its snapshot (worker/backup-workflow.ts).
THEOREM NewestBackupsStay == Spec => []BackupsAreKept
<1>1. Init => BackupInv
  BY BackupsStart DEF Init
<1>2. BackupInv /\ [Next]_vars => BackupInv'
  BY BackupInvStays, StepsApart
<1>3. BackupInv => BackupsAreKept
  BY DEF BackupInv
<1>. QED
  BY <1>1, <1>2, <1>3, PTL DEF Spec
-----------------------------------------------------------------------------
(* The security monitor. *)

Working(r) == run[r].pc \in {"edit", "post", "release"}
Held == monitor.lease # NoRun /\ Working(monitor.lease)
Current == IF Held THEN run[monitor.lease].message ELSE monitor.message
IsLive(r, c) == [run |-> r, config |-> c] \in live

\* The runs that have left a message behind, or may still do so without a lease.
Loose(c) ==
    {r \in Run : \/ IsLive(r, c) /\ ~(monitor.config = c /\ r = Current)
                 \/ run[r].config = c /\ run[r].pc \in {"edit", "post"} /\ monitor.lease # r}

\* Faults whose effect is still to come: a lease outlived, another configuration.
Pending == (IF monitor.over /\ Held THEN 1 ELSE 0) + (IF setting # monitor.config THEN 1 ELSE 0)

\* The name of a message that exists, or did.
Old(m) == m # NoRun => run[m].pc \in {"release", "done"}

\* Messages are known once they were more; who holds the lease works for the
\* configuration in the row, and posts because the message it found is gone.
MonitorFacts ==
    /\ MonitorTypeOK
    /\ \A m \in live : m.config = run[m.run].config /\ Old(m.run)
    /\ Old(monitor.message) /\ \A r \in Run : Old(run[r].message)
    /\ monitor.lease # NoRun => run[monitor.lease].pc # "new"
    /\ Held => /\ run[monitor.lease].config = monitor.config
               /\ run[monitor.lease].pc \in {"edit", "post"} =>
                      run[monitor.lease].message = monitor.message
               /\ run[monitor.lease].pc = "post" => ~IsLive(monitor.message, monitor.config)

LooseOnesAreFaults ==
    \A c \in Config : IsFiniteSet(Loose(c)) /\ Cardinality(Loose(c)) + Pending <= causes.spent

MonitorInv == MonitorFacts /\ LooseOnesAreFaults

LEMMA MonitorTyped ==
    ASSUME MonitorInv
    PROVE  /\ run \in [Run -> Invocation] /\ monitor \in MonitorRow
           /\ setting \in Config /\ live \subseteq [run : Run, config : Config]
           /\ causes \in [spent : Nat, left : Nat]
           /\ causes.spent \in Nat /\ causes.left \in Nat
           /\ monitor.lease \in Run \union {NoRun} /\ monitor.message \in Run \union {NoRun}
           /\ monitor.config \in Config /\ monitor.state \in {"active", "disabled"}
           /\ \A r \in Run : /\ run[r].pc \in {"new", "edit", "post", "release", "done"}
                             /\ run[r].config \in Config /\ run[r].message \in Run \union {NoRun}
                             /\ run[r].state \in {"active", "disabled"}
           /\ \A m, c : IsLive(m, c) => m \in Run
BY DEF MonitorInv, MonitorFacts, MonitorTypeOK, MonitorRow, Invocation, IsLive

LEMMA NoRunIsNone == NoRun \notin Run
BY MonitorConstants

LEMMA PendingFaults ==
    /\ Pending \in Nat /\ Pending <= 2
    /\ setting # monitor.config => Pending >= 1
    /\ monitor.over /\ Held => Pending >= 1
    /\ setting # monitor.config /\ monitor.over /\ Held => Pending = 2
BY DEF Pending

\* One run goes on, with a message in hand.
RunGoes(r, p, m) ==
    /\ run' \in [Run -> Invocation]
    /\ \A x \in Run : /\ run'[x].pc = IF x = r THEN p ELSE run[x].pc
                      /\ run'[x].config = run[x].config
                      /\ run'[x].message = IF x = r THEN m ELSE run[x].message

RunPc == {"edit", "post", "release", "done"}
RowState == {"active", "disabled"}

LEMMA RunAdvances ==
    ASSUME MonitorInv, NEW r \in Run, NEW p \in RunPc, run' = [run EXCEPT ![r].pc = p]
    PROVE  RunGoes(r, p, run[r].message)
<1>. DEFINE q == [run[r] EXCEPT !.pc = p]
<1>1. run' = [run EXCEPT ![r] = q] /\ run[r] \in Invocation
  BY MonitorTyped
<1>2. q \in Invocation /\ q.pc = p /\ q.config = run[r].config /\ q.message = run[r].message
  BY <1>1 DEF Invocation, RunPc
<1>. HIDE DEF q
<1>. QED
  BY <1>1, <1>2, MonitorTyped DEF RunGoes

LEMMA RunJudges ==
    ASSUME MonitorInv, NEW r \in Run, NEW p \in RunPc, NEW s \in RowState,
           run' = [run EXCEPT ![r].pc = p, ![r].state = s]
    PROVE  RunGoes(r, p, run[r].message)
<1>. DEFINE q0 == run[r]
            q1 == [q0 EXCEPT !.pc = p]
            q2 == [q1 EXCEPT !.state = s]
<1>1. run' = [run EXCEPT ![r] = q2] /\ q0 \in Invocation
  BY MonitorTyped
<1>2. q1 \in Invocation /\ q1.pc = p /\ q1.config = q0.config /\ q1.message = q0.message
  <2>. HIDE DEF q0
  <2>. QED
    BY <1>1 DEF Invocation, RunPc
<1>. HIDE DEF q1
<1>3. q2 \in Invocation /\ q2.pc = p /\ q2.config = q0.config /\ q2.message = q0.message
  BY <1>2 DEF Invocation, RowState
<1>. HIDE DEF q2
<1>. QED
  BY <1>1, <1>3, MonitorTyped DEF RunGoes

RunHasPosted(r) == run' = [run EXCEPT ![r].pc = "release", ![r].message = r]

LEMMA RunPosts ==
    ASSUME MonitorInv, NEW r \in Run, RunHasPosted(r)
    PROVE  RunGoes(r, "release", r)
<1>. DEFINE q0 == run[r]
            q1 == [q0 EXCEPT !.pc = "release"]
            q2 == [q1 EXCEPT !.message = r]
<1>1. run' = [run EXCEPT ![r] = q2] /\ q0 \in Invocation
  BY MonitorTyped DEF RunHasPosted
<1>2. q1 \in Invocation /\ q1.pc = "release" /\ q1.config = q0.config
  <2>. HIDE DEF q0
  <2>. QED
    BY <1>1 DEF Invocation
<1>. HIDE DEF q1
<1>3. q2 \in Invocation /\ q2.pc = "release" /\ q2.config = q0.config /\ q2.message = r
  BY <1>2 DEF Invocation
<1>. HIDE DEF q2
<1>4. run' \in [Run -> Invocation] /\ \A x \in Run : run'[x] = IF x = r THEN q2 ELSE run[x]
  BY <1>1, <1>3, MonitorTyped
<1>. QED
  BY <1>3, <1>4 DEF RunGoes

\* Counting the loose ones.
LEMMA NoMoreLoose ==
    ASSUME NEW A, NEW S, IsFiniteSet(A), S \subseteq A,
           NEW p \in Nat, NEW q \in Nat, NEW t \in Nat, NEW u \in Nat,
           Cardinality(A) + p <= t, t - p <= u - q
    PROVE  IsFiniteSet(S) /\ Cardinality(S) + q <= u
<1>1. Cardinality(A) \in Nat
  BY FS_CardinalityType
<1>2. IsFiniteSet(S) /\ Cardinality(S) <= Cardinality(A) /\ Cardinality(S) \in Nat
  BY FS_Subset, FS_CardinalityType
<1>. QED
  BY <1>1, <1>2

LEMMA OneIsAdded ==
    ASSUME NEW A, NEW x, IsFiniteSet(A)
    PROVE  /\ IsFiniteSet(A \union {x}) /\ Cardinality(A \union {x}) \in Nat
           /\ Cardinality(A \union {x}) <= Cardinality(A) + 1
<1>1. Cardinality(A) \in Nat
  BY FS_CardinalityType
<1>2. /\ IsFiniteSet(A \union {x})
      /\ Cardinality(A \union {x}) = IF x \in A THEN Cardinality(A) ELSE Cardinality(A) + 1
  BY FS_AddElement
<1>. QED
  BY <1>1, <1>2

LEMMA OneMoreLoose ==
    ASSUME NEW A, NEW S, NEW x, IsFiniteSet(A), S \subseteq A \union {x},
           NEW p \in Nat, NEW q \in Nat, NEW t \in Nat, NEW u \in Nat,
           Cardinality(A) + p <= t, (t - p) + 1 <= u - q
    PROVE  IsFiniteSet(S) /\ Cardinality(S) + q <= u
<1>. DEFINE B == A \union {x}
<1>1. Cardinality(A) \in Nat
  BY FS_CardinalityType
<1>2. IsFiniteSet(B) /\ Cardinality(B) \in Nat /\ Cardinality(B) <= Cardinality(A) + 1
  BY OneIsAdded
<1>. HIDE DEF B
<1>3. S \in SUBSET B
  BY DEF B
<1>4. IsFiniteSet(S) /\ Cardinality(S) <= Cardinality(B) /\ Cardinality(S) \in Nat
  BY <1>2, <1>3, FS_Subset, FS_CardinalityType
<1>. QED
  BY <1>1, <1>2, <1>4

LEMMA TwoMoreLoose ==
    ASSUME NEW A, NEW S, NEW x, NEW y, IsFiniteSet(A), S \subseteq A \union {x, y},
           NEW p \in Nat, NEW q \in Nat, NEW t \in Nat, NEW u \in Nat,
           Cardinality(A) + p <= t, (t - p) + 2 <= u - q
    PROVE  IsFiniteSet(S) /\ Cardinality(S) + q <= u
<1>. DEFINE B == A \union {x}
<1>1. Cardinality(A) \in Nat
  BY FS_CardinalityType
<1>2. IsFiniteSet(B) /\ Cardinality(B) \in Nat /\ Cardinality(B) <= Cardinality(A) + 1
  BY OneIsAdded
<1>3. S \subseteq B \union {y}
  OBVIOUS
<1>. HIDE DEF B
<1>4. \A a, b \in Nat : b <= a + 1 /\ a + p <= t => b + p <= t + 1
  OBVIOUS
<1>5. Cardinality(B) + p <= t + 1
  BY <1>1, <1>2, <1>4
<1>. DEFINE t1 == t + 1
<1>6. (t1 - p) + 1 <= u - q /\ t1 \in Nat /\ Cardinality(B) + p <= t1
  BY <1>5
<1>. HIDE DEF t1
<1>. QED
  BY <1>2, <1>3, <1>6, OneMoreLoose
\* A known message stays known.
OldNext(m) == m # NoRun => run'[m].pc \in {"release", "done"}

LEMMA RunFacts ==
    ASSUME MonitorInv, NEW r \in Run, NEW p \in RunPc, NEW m, RunGoes(r, p, m),
           UNCHANGED <<monitor, setting>>, causes' \in [spent : Nat, left : Nat],
           p \in {"release", "done"} \/ run[r].pc = "edit",
           m = run[r].message \/ (m = r /\ p \in {"release", "done"}),
           live' \subseteq live \union {[run |-> r, config |-> run[r].config]},
           live' = live \/ (run[r].pc = "post" /\ p = "release"),
           monitor.lease = r => Working(r),
           p = "post" => ~IsLive(run[r].message, run[r].config)
    PROVE  MonitorFacts'
<1>1. MonitorTypeOK'
  <2>1. [run |-> r, config |-> run[r].config] \in [run : Run, config : Config]
    BY MonitorTyped
  <2>. QED
    BY <2>1, MonitorTyped DEF MonitorTypeOK, RunGoes
<1>2. \A n \in Run \union {NoRun} : Old(n) => OldNext(n)
  BY DEF Old, OldNext, RunGoes
<1>3. OldNext(monitor.message)
  BY <1>2, MonitorTyped DEF MonitorInv, MonitorFacts
<1>4. OldNext(m)
  BY <1>2, MonitorTyped DEF MonitorInv, MonitorFacts, OldNext, RunGoes
<1>5. \A x \in Run : OldNext(run'[x].message)
  BY <1>2, <1>4, MonitorTyped DEF MonitorInv, MonitorFacts, RunGoes
<1>6. ASSUME NEW n \in live' PROVE n.config = run'[n.run].config /\ OldNext(n.run)
  <2>1. CASE n \in live
    BY <1>2, <2>1, MonitorTyped DEF MonitorInv, MonitorFacts, RunGoes
  <2>2. CASE n \notin live
    <3>1. n = [run |-> r, config |-> run[r].config] /\ p = "release"
      BY <1>6, <2>2
    <3>2. n.run = r /\ n.config = run[r].config
      BY <3>1
    <3>. QED
      BY <3>1, <3>2 DEF OldNext, RunGoes
  <2>. QED
    BY <2>1, <2>2
<1>7. monitor.lease # NoRun => run'[monitor.lease].pc # "new"
  BY MonitorTyped DEF MonitorInv, MonitorFacts, RunGoes, RunPc
<1>8. ASSUME monitor.lease # NoRun, run'[monitor.lease].pc \in {"edit", "post", "release"}
      PROVE  /\ run'[monitor.lease].config = monitor.config
             /\ run'[monitor.lease].pc \in {"edit", "post"} =>
                    run'[monitor.lease].message = monitor.message
             /\ run'[monitor.lease].pc = "post" =>
                    [run |-> monitor.message, config |-> monitor.config] \notin live'
  <2>1. monitor.lease \in Run
    BY <1>8, MonitorTyped
  <2>2. CASE monitor.lease = r
    <3>1. Held /\ run[r].config = monitor.config /\ run'[r].pc = p /\ run'[r].message = m
          /\ run'[r].config = run[r].config
      BY <2>1, <2>2, NoRunIsNone DEF Held, MonitorInv, MonitorFacts, RunGoes
    <3>2. p \in {"edit", "post"} => run[r].pc = "edit" /\ m = monitor.message /\ live' = live
      BY <2>2, <3>1 DEF MonitorInv, MonitorFacts
    <3>3. p = "post" => ~IsLive(monitor.message, monitor.config)
      BY <2>2, <3>1, <3>2 DEF MonitorInv, MonitorFacts
    <3>. QED
      BY <2>2, <3>1, <3>2, <3>3 DEF IsLive
  <2>3. CASE monitor.lease # r
    <3>1. /\ run'[monitor.lease].pc = run[monitor.lease].pc
          /\ run'[monitor.lease].config = run[monitor.lease].config
          /\ run'[monitor.lease].message = run[monitor.lease].message
      BY <2>1, <2>3 DEF RunGoes
    <3>2. Held
      BY <1>8, <3>1 DEF Held, Working
    <3>3. run'[monitor.lease].pc = "post" => ~IsLive(monitor.message, monitor.config)
      BY <3>1, <3>2 DEF MonitorInv, MonitorFacts
    <3>4. live' # live => monitor.message # r
      BY MonitorTyped, NoRunIsNone DEF MonitorInv, MonitorFacts, Old
    <3>5. monitor.message # r =>
              [run |-> monitor.message, config |-> monitor.config]
                  # [run |-> r, config |-> run[r].config]
      OBVIOUS
    <3>6. run'[monitor.lease].pc = "post" =>
              [run |-> monitor.message, config |-> monitor.config] \notin live'
      BY <3>3, <3>4, <3>5 DEF IsLive
    <3>. QED
      BY <3>1, <3>2, <3>6 DEF MonitorInv, MonitorFacts
  <2>. QED
    BY <2>2, <2>3
<1>9. (Held => /\ run[monitor.lease].config = monitor.config
               /\ run[monitor.lease].pc \in {"edit", "post"} =>
                      run[monitor.lease].message = monitor.message
               /\ run[monitor.lease].pc = "post" => ~IsLive(monitor.message, monitor.config))'
  BY <1>8 DEF Held, Working, IsLive
<1>10. (Old(monitor.message) /\ \A x \in Run : Old(run[x].message))'
  BY <1>3, <1>5 DEF Old, OldNext
<1>11. (\A n \in live : n.config = run[n.run].config /\ Old(n.run))'
  BY <1>6 DEF Old, OldNext
<1>. QED
  BY <1>1, <1>7, <1>9, <1>10, <1>11 DEF MonitorFacts
LEMMA LooseStay ==
    ASSUME MonitorInv, \A c \in Config : Loose(c)' \subseteq Loose(c),
           causes' \in [spent : Nat, left : Nat],
           causes.spent - Pending <= causes'.spent - Pending'
    PROVE  LooseOnesAreFaults'
<1>1. Pending \in Nat /\ Pending' \in Nat /\ causes.spent \in Nat /\ causes'.spent \in Nat
  BY MonitorTyped DEF Pending
<1>2. ASSUME NEW c \in Config
      PROVE  IsFiniteSet(Loose(c)') /\ Cardinality(Loose(c)') + Pending' <= causes'.spent
  <2>1. IsFiniteSet(Loose(c)) /\ Cardinality(Loose(c)) + Pending <= causes.spent
    BY DEF MonitorInv, LooseOnesAreFaults
  <2>. QED
    BY <1>1, <2>1, NoMoreLoose
<1>. QED
  BY <1>2 DEF LooseOnesAreFaults

LEMMA LooseGrow ==
    ASSUME MonitorInv, NEW x, \A c \in Config : Loose(c)' \subseteq Loose(c) \union {x},
           causes' \in [spent : Nat, left : Nat],
           (causes.spent - Pending) + 1 <= causes'.spent - Pending'
    PROVE  LooseOnesAreFaults'
<1>1. Pending \in Nat /\ Pending' \in Nat /\ causes.spent \in Nat /\ causes'.spent \in Nat
  BY MonitorTyped DEF Pending
<1>2. ASSUME NEW c \in Config
      PROVE  IsFiniteSet(Loose(c)') /\ Cardinality(Loose(c)') + Pending' <= causes'.spent
  <2>1. IsFiniteSet(Loose(c)) /\ Cardinality(Loose(c)) + Pending <= causes.spent
    BY DEF MonitorInv, LooseOnesAreFaults
  <2>. QED
    BY <1>1, <2>1, OneMoreLoose
<1>. QED
  BY <1>2 DEF LooseOnesAreFaults

LEMMA LooseGrowTwice ==
    ASSUME MonitorInv, NEW x, NEW y,
           \A c \in Config : Loose(c)' \subseteq Loose(c) \union {x, y},
           causes' \in [spent : Nat, left : Nat],
           (causes.spent - Pending) + 2 <= causes'.spent - Pending'
    PROVE  LooseOnesAreFaults'
<1>1. Pending \in Nat /\ Pending' \in Nat /\ causes.spent \in Nat /\ causes'.spent \in Nat
  BY MonitorTyped DEF Pending
<1>2. ASSUME NEW c \in Config
      PROVE  IsFiniteSet(Loose(c)') /\ Cardinality(Loose(c)') + Pending' <= causes'.spent
  <2>1. IsFiniteSet(Loose(c)) /\ Cardinality(Loose(c)) + Pending <= causes.spent
    BY DEF MonitorInv, LooseOnesAreFaults
  <2>. QED
    BY <1>1, <2>1, TwoMoreLoose
<1>. QED
  BY <1>2 DEF LooseOnesAreFaults

LEMMA FaultCosts ==
    ASSUME MonitorInv, Fault
    PROVE  causes' \in [spent : Nat, left : Nat] /\ causes'.spent = causes.spent + 1
<1>1. causes' = [spent |-> causes.spent + 1, left |-> causes.left - 1] /\ causes.left > 0
  BY DEF Fault
<1>2. causes.spent + 1 \in Nat /\ causes.left - 1 \in Nat
  BY <1>1, MonitorTyped
<1>. QED
  BY <1>1, <1>2

\* The holder is who it was, with the message it had.
LEMMA HolderStays ==
    ASSUME MonitorInv, NEW r \in Run, NEW p \in RunPc, NEW m, RunGoes(r, p, m),
           UNCHANGED <<monitor, setting>>,
           monitor.lease # r \/ (Working(r) /\ p # "done")
    PROVE  /\ Held' <=> Held
           /\ Pending' = Pending
           /\ monitor.lease # r \/ m = run[r].message => Current' = Current
<1>1. monitor.lease # NoRun => monitor.lease \in Run
  BY MonitorTyped
<1>2. Held' <=> Held
  BY <1>1 DEF Held, Working, RunGoes, RunPc
<1>3. Pending' = Pending
  BY <1>2 DEF Pending
<1>4. monitor.lease # r \/ m = run[r].message => Current' = Current
  BY <1>1, <1>2 DEF Current, Held, RunGoes
<1>. QED
  BY <1>2, <1>3, <1>4

\* An edit, or a post that fails.
LEMMA GoesOnStep ==
    ASSUME MonitorInv, NEW r \in Run, NEW p \in {"post", "release"}, RunGoes(r, p, run[r].message),
           run[r].pc \in {"edit", "post"}, UNCHANGED <<monitor, setting, live, causes>>,
           p = "post" => run[r].pc = "edit" /\ ~IsLive(run[r].message, run[r].config)
    PROVE  MonitorInv'
<1>1. p \in RunPc /\ Working(r) /\ p # "done"
  BY DEF RunPc, Working
<1>2. MonitorFacts'
  BY <1>1, RunFacts, MonitorTyped
<1>3. Pending' = Pending /\ Current' = Current
  BY <1>1, HolderStays
<1>4. ASSUME NEW c \in Config PROVE Loose(c)' \subseteq Loose(c)
  <2>1. \A x \in Run : run'[x].pc \in {"edit", "post"} => run[x].pc \in {"edit", "post"}
    BY DEF RunGoes
  <2>2. \A x \in Run : run'[x].config = run[x].config
    BY DEF RunGoes
  <2>. QED
    BY <1>3, <2>1, <2>2 DEF Loose, IsLive
<1>. QED
  BY <1>2, <1>3, <1>4, LooseStay, MonitorTyped DEF MonitorInv, Pending

LEMMA EditStep == ASSUME MonitorInv, NEW r \in Run, Edit(r) PROVE MonitorInv'
<1>. DEFINE there == \E m \in live : m.run = run[r].message /\ m.config = run[r].config
<1>1. run[r].pc = "edit" /\ UNCHANGED <<monitor, setting, live, causes>>
  BY DEF Edit
<1>2. CASE run' = [run EXCEPT ![r].pc = IF there THEN "release" ELSE "post"]
  <2>1. CASE there
    <3>1. run' = [run EXCEPT ![r].pc = "release"]
      BY <1>2, <2>1
    <3>2. RunGoes(r, "release", run[r].message)
      BY <3>1, RunAdvances DEF RunPc
    <3>. QED
      BY <1>1, <3>2, GoesOnStep
  <2>2. CASE ~there
    <3>1. run' = [run EXCEPT ![r].pc = "post"]
      BY <1>2, <2>2
    <3>2. RunGoes(r, "post", run[r].message)
      BY <3>1, RunAdvances DEF RunPc
    <3>3. ~IsLive(run[r].message, run[r].config)
      BY <2>2 DEF IsLive
    <3>. QED
      BY <1>1, <3>2, <3>3, GoesOnStep
  <2>. QED
    BY <2>1, <2>2
<1>3. CASE run' = [run EXCEPT ![r].pc = "release"]
  <2>1. RunGoes(r, "release", run[r].message)
    BY <1>3, RunAdvances DEF RunPc
  <2>. QED
    BY <1>1, <2>1, GoesOnStep
<1>4. CASE run' = [run EXCEPT ![r].pc = "release", ![r].state = "disabled"]
  <2>1. RunGoes(r, "release", run[r].message)
    BY <1>4, RunJudges DEF RunPc, RowState
  <2>. QED
    BY <1>1, <2>1, GoesOnStep
<1>. QED
  BY <1>2, <1>3, <1>4 DEF Edit

\* A message exists that did not.
LEMMA PostedStep ==
    ASSUME MonitorInv, NEW r \in Run, run[r].pc = "post", RunGoes(r, "release", r),
           live' = live \union {[run |-> r, config |-> run[r].config]},
           UNCHANGED <<monitor, setting, causes>>
    PROVE  MonitorInv'
<1>1. "release" \in RunPc /\ Working(r) /\ causes' \in [spent : Nat, left : Nat]
  BY MonitorTyped DEF RunPc, Working
<1>2. MonitorFacts'
  BY <1>1, RunFacts
<1>3. Pending' = Pending /\ (monitor.lease # r => Current' = Current) /\ (Held' <=> Held)
  BY <1>1, HolderStays
<1>4. \A x, c : IsLive(x, c)' <=> IsLive(x, c) \/ (x = r /\ c = run[r].config)
  BY DEF IsLive
<1>5. \A x \in Run : x # r => run'[x].pc = run[x].pc /\ run'[x].config = run[x].config
  BY DEF RunGoes
<1>6. ASSUME NEW c \in Config, NEW x \in Run, x \in Loose(c)' PROVE x \in Loose(c)
  <2>1. CASE monitor.lease # r
    BY <1>3, <1>4, <1>5, <1>6, <2>1 DEF Loose, RunGoes
  <2>2. CASE monitor.lease = r
    <3>1. Held /\ Current = run[r].message /\ Current' = r
      BY <1>1, <1>3, <2>2, NoRunIsNone DEF Held, Current, RunGoes
    <3>2. run[r].config = monitor.config /\ ~IsLive(Current, monitor.config)
      BY <2>2, <3>1 DEF MonitorInv, MonitorFacts
    <3>. QED
      BY <1>4, <1>5, <1>6, <2>2, <3>1, <3>2 DEF Loose, RunGoes
  <2>. QED
    BY <2>1, <2>2
<1>7. \A c \in Config : Loose(c)' \subseteq Loose(c)
  BY <1>6 DEF Loose
<1>. QED
  BY <1>1, <1>2, <1>3, <1>7, LooseStay, MonitorTyped DEF MonitorInv, Pending

\* The same, but nobody knows.
LEMMA LostPostStep ==
    ASSUME MonitorInv, NEW r \in Run, run[r].pc = "post", RunGoes(r, "release", run[r].message),
           live' = live \union {[run |-> r, config |-> run[r].config]},
           UNCHANGED <<monitor, setting>>, Fault
    PROVE  MonitorInv'
<1>1. "release" \in RunPc /\ Working(r)
  BY DEF RunPc, Working
<1>2. causes' \in [spent : Nat, left : Nat] /\ causes'.spent = causes.spent + 1
  BY FaultCosts
<1>3. MonitorFacts'
  BY <1>1, <1>2, RunFacts
<1>4. Pending' = Pending /\ Current' = Current
  BY <1>1, HolderStays
<1>5. ASSUME NEW c \in Config PROVE Loose(c)' \subseteq Loose(c) \union {r}
  <2>1. \A x : IsLive(x, c)' => IsLive(x, c) \/ x = r
    BY DEF IsLive
  <2>2. \A x \in Run : x # r => run'[x].pc = run[x].pc /\ run'[x].config = run[x].config
    BY DEF RunGoes
  <2>. QED
    BY <1>4, <2>1, <2>2 DEF Loose
<1>6. (causes.spent - Pending) + 1 <= causes'.spent - Pending'
  BY <1>2, <1>4, MonitorTyped, PendingFaults
<1>. QED
  BY <1>2, <1>3, <1>5, <1>6, LooseGrow DEF MonitorInv

LEMMA PostStep == ASSUME MonitorInv, NEW r \in Run, Post(r) PROVE MonitorInv'
<1>1. run[r].pc = "post" /\ UNCHANGED <<monitor, setting>>
  BY DEF Post
<1>. DEFINE more == live \union {[run |-> r, config |-> run[r].config]}
<1>2. CASE live' = more /\ RunHasPosted(r) /\ UNCHANGED causes
  <2>1. RunGoes(r, "release", r)
    BY <1>2, RunPosts
  <2>. QED
    BY <1>1, <1>2, <2>1, PostedStep
<1>3. CASE run' = [run EXCEPT ![r].pc = "release"] /\ UNCHANGED <<live, causes>>
  <2>1. RunGoes(r, "release", run[r].message)
    BY <1>3, RunAdvances DEF RunPc
  <2>. QED
    BY <1>1, <1>3, <2>1, GoesOnStep
<1>4. CASE /\ run' = [run EXCEPT ![r].pc = "release", ![r].state = "disabled"]
           /\ UNCHANGED <<live, causes>>
  <2>1. RunGoes(r, "release", run[r].message)
    BY <1>4, RunJudges DEF RunPc, RowState
  <2>. QED
    BY <1>1, <1>4, <2>1, GoesOnStep
<1>5. CASE Fault /\ live' = more /\ run' = [run EXCEPT ![r].pc = "release"]
  <2>1. RunGoes(r, "release", run[r].message)
    BY <1>5, RunAdvances DEF RunPc
  <2>. QED
    BY <1>1, <1>5, <2>1, LostPostStep
<1>. QED
  BY <1>2, <1>3, <1>4, <1>5 DEF Post, RunHasPosted

LEMMA DieStep == ASSUME MonitorInv, NEW r \in Run, Die(r) PROVE MonitorInv'
<1>1. Working(r) /\ Fault /\ run' = [run EXCEPT ![r].pc = "done"] /\ UNCHANGED <<monitor, setting, live>>
  BY DEF Die, Working
<1>2. RunGoes(r, "done", run[r].message) /\ "done" \in RunPc
  BY <1>1, RunAdvances DEF RunPc
<1>3. causes' \in [spent : Nat, left : Nat] /\ causes'.spent = causes.spent + 1
  BY <1>1, FaultCosts
<1>4. MonitorFacts'
  BY <1>1, <1>2, <1>3, RunFacts
<1>5. monitor.lease # NoRun => monitor.lease \in Run
  BY MonitorTyped
<1>6. (Held' => Held) /\ (Held' => Current' = Current) /\ (~Held => Current' = Current)
  BY <1>1, <1>2, <1>5 DEF Held, Working, Current, RunGoes
<1>7. ASSUME NEW c \in Config PROVE Loose(c)' \subseteq Loose(c) \union {Current}
  <2>1. \A x \in Run : run'[x].config = run[x].config
                       /\ (run'[x].pc \in {"edit", "post"} => run[x].pc = run'[x].pc)
    BY <1>2 DEF RunGoes
  <2>. QED
    BY <1>1, <2>1 DEF Loose, IsLive
<1>8. Pending' <= Pending /\ Pending' \in Nat
  BY <1>1, <1>6 DEF Pending
<1>9. (causes.spent - Pending) + 1 <= causes'.spent - Pending'
  BY <1>3, <1>8, MonitorTyped, PendingFaults
<1>. QED
  BY <1>3, <1>4, <1>7, <1>9, LooseGrow DEF MonitorInv
\* The release writes the row.
Released(r) ==
    [monitor EXCEPT !.message = run[r].message, !.state = run[r].state, !.lease = NoRun, !.over = FALSE]

LEMMA ReleasedRow ==
    ASSUME MonitorInv, NEW r \in Run
    PROVE  /\ Released(r) \in MonitorRow /\ Released(r).message = run[r].message
           /\ Released(r).lease = NoRun /\ Released(r).over = FALSE
           /\ Released(r).config = monitor.config
<1>. DEFINE m == run[r].message
            s == run[r].state
            q1 == [monitor EXCEPT !.message = m]
            q2 == [q1 EXCEPT !.state = s]
            q3 == [q2 EXCEPT !.lease = NoRun]
            q4 == [q3 EXCEPT !.over = FALSE]
<1>1. /\ m \in Run \union {NoRun} /\ s \in {"active", "disabled"} /\ monitor \in MonitorRow
      /\ Released(r) = q4
  BY MonitorTyped DEF Released
<1>. HIDE DEF m, s
<1>2. q1 \in MonitorRow /\ q1.message = m /\ q1.config = monitor.config
  BY <1>1 DEF MonitorRow
<1>. HIDE DEF q1
<1>3. q2 \in MonitorRow /\ q2.message = m /\ q2.config = monitor.config
  BY <1>1, <1>2 DEF MonitorRow
<1>. HIDE DEF q2
<1>4. q3 \in MonitorRow /\ q3.message = m /\ q3.config = monitor.config /\ q3.lease = NoRun
  BY <1>3 DEF MonitorRow
<1>. HIDE DEF q3
<1>5. /\ q4 \in MonitorRow /\ q4.message = m /\ q4.config = monitor.config /\ q4.lease = NoRun
      /\ q4.over = FALSE
  BY <1>4 DEF MonitorRow
<1>. HIDE DEF q4
<1>. QED
  BY <1>1, <1>5 DEF m

LEMMA HolderReleases ==
    ASSUME MonitorInv, NEW r \in Run, run[r].pc = "release", monitor.lease = r,
           monitor' = Released(r), run' = [run EXCEPT ![r].pc = "done"],
           UNCHANGED <<setting, live, causes>>
    PROVE  MonitorInv'
<1>1. RunGoes(r, "done", run[r].message)
  BY RunAdvances DEF RunPc
<1>2. /\ monitor' \in MonitorRow /\ monitor'.message = run[r].message /\ monitor'.lease = NoRun
      /\ monitor'.over = FALSE /\ monitor'.config = monitor.config
  BY ReleasedRow
<1>3. MonitorTypeOK'
  BY <1>1, <1>2, MonitorTyped DEF MonitorTypeOK, RunGoes
<1>4. \A n \in Run \union {NoRun} : Old(n) => OldNext(n)
  BY <1>1 DEF Old, OldNext, RunGoes
<1>5. \A x \in Run : OldNext(run[x].message)
  BY <1>4, MonitorTyped DEF MonitorInv, MonitorFacts
<1>6. \A n \in live : n.config = run'[n.run].config /\ OldNext(n.run)
  BY <1>1, <1>4, MonitorTyped DEF MonitorInv, MonitorFacts, RunGoes
<1>7. \A x \in Run : run'[x].message = run[x].message
  BY <1>1 DEF RunGoes
<1>8. Held /\ ~Held' /\ Current = run[r].message /\ Current' = run[r].message
  BY <1>2, NoRunIsNone DEF Held, Working, Current
<1>9. MonitorFacts'
  BY <1>2, <1>3, <1>5, <1>6, <1>7, <1>8 DEF MonitorFacts, Old, OldNext
<1>10. Pending' <= Pending /\ Pending' \in Nat
  BY <1>2, <1>8 DEF Pending
<1>11. ASSUME NEW c \in Config PROVE Loose(c)' \subseteq Loose(c)
  <2>1. \A x \in Run : /\ run'[x].config = run[x].config
                       /\ run'[x].pc \in {"edit", "post"} => run[x].pc = run'[x].pc /\ x # r
    BY <1>1 DEF RunGoes
  <2>. QED
    BY <1>2, <1>8, <2>1 DEF Loose, IsLive
<1>. QED
  BY <1>9, <1>10, <1>11, LooseStay, MonitorTyped, PendingFaults DEF MonitorInv

\* A run ends that holds nothing.
LEMMA OutsiderEnds ==
    ASSUME MonitorInv, NEW r \in Run, monitor.lease # r, run' = [run EXCEPT ![r].pc = "done"],
           UNCHANGED <<monitor, setting, live, causes>>
    PROVE  MonitorInv'
<1>1. RunGoes(r, "done", run[r].message) /\ "done" \in RunPc
  BY RunAdvances DEF RunPc
<1>2. MonitorFacts'
  BY <1>1, RunFacts, MonitorTyped
<1>3. Pending' = Pending /\ Current' = Current
  BY <1>1, HolderStays
<1>4. ASSUME NEW c \in Config PROVE Loose(c)' \subseteq Loose(c)
  <2>1. \A x \in Run : /\ run'[x].config = run[x].config
                       /\ run'[x].pc \in {"edit", "post"} => run[x].pc = run'[x].pc
    BY <1>1 DEF RunGoes
  <2>. QED
    BY <1>3, <2>1 DEF Loose, IsLive
<1>. QED
  BY <1>2, <1>3, <1>4, LooseStay, MonitorTyped DEF MonitorInv, Pending

LEMMA ReleaseStep == ASSUME MonitorInv, NEW r \in Run, Release(r) PROVE MonitorInv'
<1>1. /\ run[r].pc = "release" /\ run' = [run EXCEPT ![r].pc = "done"]
      /\ UNCHANGED <<setting, live, causes>>
      /\ monitor' = IF monitor.lease = r THEN Released(r) ELSE monitor
  BY DEF Release, Released
<1>2. CASE monitor.lease = r
  BY <1>1, <1>2, HolderReleases
<1>3. CASE monitor.lease # r
  BY <1>1, <1>3, OutsiderEnds
<1>. QED
  BY <1>2, <1>3

\* The runs stay where they are.
LEMMA RunsRest ==
    ASSUME MonitorInv, UNCHANGED run, monitor' \in MonitorRow, setting' \in Config,
           causes' \in [spent : Nat, left : Nat], live' \subseteq live,
           monitor'.lease = monitor.lease, monitor'.message = monitor.message,
           monitor'.config = monitor.config
    PROVE  /\ MonitorFacts' /\ (Held' <=> Held)
           /\ \A c \in Config : Loose(c)' \subseteq Loose(c)
<1>1. (Held' <=> Held) /\ Current' = Current
  BY DEF Held, Current, Working
<1>2. MonitorTypeOK'
  BY MonitorTyped DEF MonitorTypeOK
<1>3. \A m, c : IsLive(m, c)' => IsLive(m, c)
  BY DEF IsLive
<1>4. MonitorFacts'
  BY <1>1, <1>2, <1>3 DEF MonitorInv, MonitorFacts, Old
<1>5. ASSUME NEW c \in Config PROVE Loose(c)' \subseteq Loose(c)
  BY <1>1, <1>3 DEF Loose
<1>. QED
  BY <1>1, <1>4, <1>5

LEMMA LeaseEndsStep == ASSUME MonitorInv, LeaseEnds PROVE MonitorInv'
<1>. DEFINE q == [monitor EXCEPT !.over = TRUE]
<1>1. /\ monitor.lease # NoRun /\ ~monitor.over /\ monitor' = q
      /\ IF run[monitor.lease].pc = "done" THEN UNCHANGED causes ELSE Fault
      /\ UNCHANGED <<run, setting, live>>
  BY DEF LeaseEnds
<1>2. q \in MonitorRow /\ q.lease = monitor.lease /\ q.message = monitor.message
      /\ q.config = monitor.config /\ q.over = TRUE
  BY MonitorTyped DEF MonitorRow
<1>. HIDE DEF q
<1>3. causes' \in [spent : Nat, left : Nat]
  BY <1>1, FaultCosts, MonitorTyped
<1>4. MonitorFacts' /\ (Held' <=> Held) /\ \A c \in Config : Loose(c)' \subseteq Loose(c)
  BY <1>1, <1>2, <1>3, RunsRest, MonitorTyped
<1>5. CASE run[monitor.lease].pc = "done"
  <2>1. ~Held
    BY <1>5 DEF Held, Working
  <2>2. Pending' = Pending
    BY <1>1, <1>2, <1>4, <2>1 DEF Pending
  <2>. QED
    BY <1>1, <1>3, <1>4, <1>5, <2>2, LooseStay, MonitorTyped, PendingFaults DEF MonitorInv
<1>6. CASE run[monitor.lease].pc # "done"
  <2>1. Pending' \in Nat /\ Pending' <= Pending + 1
    BY <1>1, <1>2, <1>4 DEF Pending
  <2>2. causes'.spent = causes.spent + 1
    BY <1>1, <1>6, FaultCosts
  <2>. QED
    BY <1>3, <1>4, <2>1, <2>2, LooseStay, MonitorTyped, PendingFaults DEF MonitorInv
<1>. QED
  BY <1>5, <1>6

LEMMA ReconfigureStep == ASSUME MonitorInv, Reconfigure PROVE MonitorInv'
<1>1. Fault /\ setting' \in Config /\ UNCHANGED <<monitor, run, live>>
  BY DEF Reconfigure
<1>2. causes' \in [spent : Nat, left : Nat] /\ causes'.spent = causes.spent + 1
  BY <1>1, FaultCosts
<1>3. MonitorFacts' /\ (Held' <=> Held) /\ \A c \in Config : Loose(c)' \subseteq Loose(c)
  BY <1>1, <1>2, RunsRest, MonitorTyped
<1>4. Pending' \in Nat /\ Pending' <= Pending + 1
  BY <1>1, <1>3 DEF Pending
<1>. QED
  BY <1>2, <1>3, <1>4, LooseStay, MonitorTyped, PendingFaults DEF MonitorInv

LEMMA DeleteMessageStep == ASSUME MonitorInv, NEW m \in live, DeleteMessage(m) PROVE MonitorInv'
<1>1. live' \subseteq live /\ UNCHANGED <<monitor, run, setting, causes>>
  BY DEF DeleteMessage
<1>2. MonitorFacts' /\ (Held' <=> Held) /\ \A c \in Config : Loose(c)' \subseteq Loose(c)
  BY <1>1, RunsRest, MonitorTyped
<1>3. Pending' = Pending
  BY <1>1, <1>2 DEF Pending
<1>. QED
  BY <1>1, <1>2, <1>3, LooseStay, MonitorTyped, PendingFaults DEF MonitorInv

\* The lease is taken: from nobody, from a run that has ended, or from one that
\* still works; for the configuration of the row, or another.
LEMMA TakesLease ==
    ASSUME MonitorInv, NEW r \in Run, run[r].pc = "new", MayAcquire,
           NEW m \in {monitor.message, NoRun}, NEW s \in {"active", "disabled"},
           setting = monitor.config => m = monitor.message,
           NEW p \in {"edit", "post", "release"}, p = "post" => m = NoRun,
           monitor' = [exists |-> TRUE, message |-> m, config |-> setting, state |-> s,
                       lease |-> r, over |-> FALSE],
           run' = [run EXCEPT ![r] = [pc |-> p, config |-> setting, message |-> m, state |-> s]],
           UNCHANGED <<setting, live, causes>>
    PROVE  MonitorInv'
<1>. DEFINE q == [pc |-> p, config |-> setting, message |-> m, state |-> s]
<1>1. q \in Invocation /\ q.pc = p /\ q.config = setting /\ q.message = m
  BY MonitorTyped DEF Invocation
<1>2. m \in Run \union {NoRun} /\ setting \in Config
  BY MonitorTyped
<1>3. /\ monitor' \in MonitorRow /\ monitor'.message = m /\ monitor'.config = setting
      /\ monitor'.lease = r /\ monitor'.over = FALSE
  BY <1>2 DEF MonitorRow
<1>4. run' \in [Run -> Invocation] /\ \A x \in Run : run'[x] = IF x = r THEN q ELSE run[x]
  BY <1>1, MonitorTyped
<1>. HIDE DEF q
<1>5. MonitorTypeOK'
  BY <1>3, <1>4, MonitorTyped DEF MonitorTypeOK
<1>6. \A n \in Run \union {NoRun} : Old(n) => n # r /\ OldNext(n)
  BY <1>4, NoRunIsNone DEF Old, OldNext
<1>7. OldNext(m) /\ Old(m)
  BY <1>2, <1>6 DEF MonitorInv, MonitorFacts, Old
<1>8. \A x \in Run : OldNext(run'[x].message)
  BY <1>1, <1>4, <1>6, <1>7, MonitorTyped DEF MonitorInv, MonitorFacts
<1>9. \A n \in live : n.config = run'[n.run].config /\ OldNext(n.run)
  BY <1>4, <1>6, MonitorTyped DEF MonitorInv, MonitorFacts
<1>10. p = "post" => ~IsLive(m, setting)
  BY MonitorTyped, NoRunIsNone
<1>11. Held' /\ Current' = m /\ run'[r].config = setting /\ run'[r].message = m /\ run'[r].pc = p
  BY <1>1, <1>3, <1>4, NoRunIsNone DEF Held, Working, Current
<1>12. MonitorFacts'
  BY <1>3, <1>5, <1>7, <1>8, <1>9, <1>10, <1>11 DEF MonitorFacts, Old, OldNext, IsLive
<1>13. Pending' = 0
  BY <1>3 DEF Pending
<1>14. ASSUME NEW c \in Config, NEW x \in Run, x \in Loose(c)'
       PROVE  \/ x \in Loose(c)
              \/ x = monitor.lease /\ run[x].pc \in {"edit", "post"}
              \/ x = Current /\ monitor.config = c /\ (setting # c \/ x # m)
  <2>1. CASE IsLive(x, c) /\ ~(setting = c /\ x = m)
    BY <2>1 DEF Loose
  <2>2. CASE run'[x].config = c /\ run'[x].pc \in {"edit", "post"} /\ x # r
    BY <1>4, <2>2 DEF Loose
  <2>3. IsLive(x, c)' <=> IsLive(x, c)
    BY DEF IsLive
  <2>. QED
    BY <1>3, <1>11, <1>14, <2>1, <2>2, <2>3 DEF Loose
<1>15. monitor.lease # NoRun => monitor.over
  BY DEF MayAcquire
<1>16. Pending \in Nat /\ causes.spent \in Nat /\ causes' \in [spent : Nat, left : Nat]
  BY PendingFaults, MonitorTyped
<1>17. CASE ~Held
  <2>1. Current = monitor.message
    BY <1>17 DEF Current
  <2>2. \A x \in Run : ~(x = monitor.lease /\ run[x].pc \in {"edit", "post"})
    BY <1>17, NoRunIsNone DEF Held, Working
  <2>3. CASE setting = monitor.config
    <3>1. \A c \in Config : Loose(c)' \subseteq Loose(c)
      BY <1>14, <2>1, <2>2, <2>3 DEF Loose
    <3>. QED
      BY <1>12, <1>13, <1>16, <3>1, LooseStay DEF MonitorInv
  <2>4. CASE setting # monitor.config
    <3>1. \A c \in Config : Loose(c)' \subseteq Loose(c) \union {Current}
      BY <1>14, <2>2 DEF Loose
    <3>2. Pending >= 1
      BY <2>4, PendingFaults
    <3>. QED
      BY <1>12, <1>13, <1>16, <3>1, <3>2, LooseGrow DEF MonitorInv
  <2>. QED
    BY <2>3, <2>4
<1>18. CASE Held /\ setting = monitor.config
  <2>1. Pending >= 1
    BY <1>15, <1>18, PendingFaults DEF Held
  <2>2. m = monitor.message
    BY <1>18
  <2>3. Current = run[monitor.lease].message
    BY <1>18 DEF Current
  <2>4. CASE run[monitor.lease].pc \in {"edit", "post"}
    <3>1. Current = m
      BY <1>18, <2>2, <2>3, <2>4 DEF MonitorInv, MonitorFacts
    <3>2. \A c \in Config : Loose(c)' \subseteq Loose(c) \union {monitor.lease}
      BY <1>14, <1>18, <3>1 DEF Loose
    <3>. QED
      BY <1>12, <1>13, <1>16, <2>1, <3>2, LooseGrow DEF MonitorInv
  <2>5. CASE run[monitor.lease].pc \notin {"edit", "post"}
    <3>1. \A c \in Config : Loose(c)' \subseteq Loose(c) \union {Current}
      BY <1>14, <2>5 DEF Loose
    <3>. QED
      BY <1>12, <1>13, <1>16, <2>1, <3>1, LooseGrow DEF MonitorInv
  <2>. QED
    BY <2>4, <2>5
<1>19. CASE Held /\ setting # monitor.config
  <2>1. Pending = 2
    BY <1>15, <1>19, PendingFaults DEF Held
  <2>2. \A c \in Config : Loose(c)' \subseteq Loose(c) \union {Current, monitor.lease}
    BY <1>14 DEF Loose
  <2>3. (causes.spent - Pending) + 2 <= causes'.spent - Pending'
    BY <1>13, <1>16, <2>1
  <2>4. LooseOnesAreFaults'
    BY <1>16, <2>2, <2>3, LooseGrowTwice
  <2>. QED
    BY <1>12, <2>4 DEF MonitorInv
<1>. QED
  BY <1>17, <1>18, <1>19
LEMMA AcquireStep == ASSUME MonitorInv, NEW r \in Run, Acquire(r) PROVE MonitorInv'
<1>. DEFINE same == monitor.exists => monitor.config = setting
            m == IF same THEN monitor.message ELSE NoRun
            s == IF same THEN monitor.state ELSE "active"
            p == CASE s = "disabled" -> "release"
                   [] s = "active" /\ m # NoRun -> "edit"
                   [] OTHER -> "post"
<1>1. run[r].pc = "new" /\ UNCHANGED <<setting, live, causes>>
  BY DEF Acquire
<1>2. CASE MayAcquire
  <2>1. /\ monitor' = [exists |-> TRUE, message |-> m, config |-> setting, state |-> s,
                       lease |-> r, over |-> FALSE]
        /\ run' = [run EXCEPT ![r] = [pc |-> p, config |-> setting, message |-> m, state |-> s]]
    BY <1>2 DEF Acquire
  <2>2. m \in {monitor.message, NoRun} /\ (setting = monitor.config => m = monitor.message)
    OBVIOUS
  <2>3. s \in {"active", "disabled"}
    BY MonitorTyped
  <2>. HIDE DEF m, s
  <2>4. p \in {"edit", "post", "release"} /\ (p = "post" => m = NoRun)
    BY <2>3
  <2>. HIDE DEF p
  <2>. QED
    BY <1>1, <1>2, <2>1, <2>2, <2>3, <2>4, TakesLease
<1>3. CASE ~MayAcquire
  <2>1. run' = [run EXCEPT ![r].pc = "done"] /\ UNCHANGED monitor
    BY <1>3 DEF Acquire
  <2>2. monitor.lease # r
    BY <1>1, NoRunIsNone DEF MonitorInv, MonitorFacts
  <2>. QED
    BY <1>1, <2>1, <2>2, OutsiderEnds
<1>. QED
  BY <1>2, <1>3

LEMMA MonitorStarts == ASSUME NEW n \in Nat, MonitorInit(n) PROVE MonitorInv
<1>. DEFINE row0 == [exists |-> FALSE, message |-> NoRun, config |-> setting, state |-> "active",
                     lease |-> NoRun, over |-> FALSE]
            run0 == [pc |-> "new", config |-> setting, message |-> NoRun, state |-> "active"]
<1>1. /\ setting \in Config /\ monitor = row0 /\ run = [r \in Run |-> run0] /\ live = {}
      /\ causes = [spent |-> 0, left |-> n]
  BY MonitorConstants DEF MonitorInit
<1>2. row0 \in MonitorRow /\ row0.message = NoRun /\ row0.config = setting /\ row0.lease = NoRun
  BY <1>1 DEF MonitorRow
<1>3. run0 \in Invocation /\ run0.pc = "new" /\ run0.message = NoRun
  BY <1>1 DEF Invocation
<1>. HIDE DEF row0, run0
<1>4. MonitorTypeOK
  BY <1>1, <1>2, <1>3 DEF MonitorTypeOK
<1>5. ~Held /\ \A c \in Config : Loose(c) = {}
  BY <1>1, <1>2, <1>3 DEF Held, Loose, IsLive
<1>6. Pending = 0 /\ causes.spent = 0
  BY <1>1, <1>2, <1>5 DEF Pending
<1>7. LooseOnesAreFaults
  BY <1>5, <1>6, FS_EmptySet DEF LooseOnesAreFaults
<1>8. MonitorFacts
  BY <1>1, <1>2, <1>3, <1>4, <1>5 DEF MonitorFacts, Old
<1>. QED
  BY <1>7, <1>8 DEF MonitorInv

LEMMA MonitorInvStays == MonitorInv /\ [MonitorStep]_monitorVars => MonitorInv'
<1>. SUFFICES ASSUME MonitorInv, [MonitorStep]_monitorVars PROVE MonitorInv'
  OBVIOUS
<1>1. ASSUME NEW r \in Run, Acquire(r) \/ Edit(r) \/ Post(r) \/ Release(r) \/ Die(r)
      PROVE  MonitorInv'
  BY <1>1, AcquireStep, EditStep, PostStep, ReleaseStep, DieStep
<1>2. ASSUME NEW m \in live, DeleteMessage(m) PROVE MonitorInv'
  BY <1>2, DeleteMessageStep
<1>3. CASE UNCHANGED monitorVars
  <2>1. UNCHANGED <<monitor, run, setting, live, causes>>
    BY <1>3 DEF monitorVars
  <2>2. MonitorFacts' /\ (Held' <=> Held) /\ \A c \in Config : Loose(c)' \subseteq Loose(c)
    BY <2>1, RunsRest, MonitorTyped
  <2>3. Pending' = Pending
    BY <2>1, <2>2 DEF Pending
  <2>. QED
    BY <2>1, <2>2, <2>3, LooseStay, MonitorTyped, PendingFaults DEF MonitorInv
<1>. QED
  BY <1>1, <1>2, <1>3, LeaseEndsStep, ReconfigureStep DEF MonitorStep

\* The messages of a channel are the current one and those of loose runs.
LEMMA MessagesAreCounted == MonitorInv => OneMonitorMessage
<1>. SUFFICES ASSUME MonitorInv, NEW c \in Config
              PROVE  Cardinality({m \in live : m.config = c}) <= 1 + causes.spent
  BY DEF OneMonitorMessage
<1>. DEFINE M == {m \in live : m.config = c}
            B == Loose(c) \union {Current}
            f == [m \in M |-> m.run]
<1>1. IsFiniteSet(Loose(c)) /\ Cardinality(Loose(c)) \in Nat
      /\ Cardinality(Loose(c)) + Pending <= causes.spent
  BY FS_CardinalityType DEF MonitorInv, LooseOnesAreFaults
<1>2. IsFiniteSet(B) /\ Cardinality(B) \in Nat /\ Cardinality(B) <= Cardinality(Loose(c)) + 1
  BY <1>1, OneIsAdded
<1>3. ASSUME NEW m \in M PROVE m = [run |-> m.run, config |-> c] /\ m.run \in B
  <2>1. m \in [run : Run, config : Config] /\ m.config = c
    BY MonitorTyped
  <2>2. m = [run |-> m.run, config |-> c] /\ m.run \in Run
    BY <2>1
  <2>3. IsLive(m.run, c)
    BY <2>2 DEF IsLive
  <2>. QED
    BY <2>2, <2>3 DEF Loose
<1>. HIDE DEF B, M
<1>4. f \in Injection(M, B)
  <2>1. f \in [M -> B]
    BY <1>3
  <2>2. \A m, n \in M : m.run = n.run => m = n
    BY <1>3
  <2>. QED
    BY <2>1, <2>2 DEF Injection, IsInjective
<1>5. Cardinality(M) \in Nat /\ Cardinality(M) <= Cardinality(B)
  BY <1>2, <1>4, FS_Injection, FS_CardinalityType
<1>6. Cardinality(M) <= 1 + causes.spent
  BY <1>1, <1>2, <1>5, MonitorTyped, PendingFaults
<1>. QED
  BY <1>6 DEF M

\* Overlapping cron invocations keep to one message in a channel, but for one
\* more after each lost answer, dead invocation, outlived lease or change of
\* configuration (lib/discord-security-monitor.ts).
THEOREM FewMonitorMessages == Spec => []OneMonitorMessage
<1>1. Init => MonitorInv
  BY MonitorStarts, ScenariosConstants DEF Init
<1>2. MonitorInv /\ [Next]_vars => MonitorInv'
  BY MonitorInvStays, StepsApart
<1>. QED
  BY <1>1, <1>2, MessagesAreCounted, PTL DEF Spec

-----------------------------------------------------------------------------
(* The incidents. *)

IncidentRow == [count : Nat, last : Int]
PollRow == [at : 0 .. Horizon, alarms : SUBSET Incident]
KnownOf(i) == RowsOf(known, i)
RecentOf(i) == {o \in KnownOf(i) : o.at >= polled.at - Active}
Qualifies(i) == incident[i].count >= Threshold[i[1]] /\ incident[i].last >= polled.at - Active

\* So many different events, close to one another.
Close(s) == \A o, p \in s : o.at - p.at <= Retention + Gap

\* The count of an incident is that of some events close to one another, and its
\* time that of one of them; all the recent ones are among them.
CountIsTrue(i) ==
    /\ Cardinality(RecentOf(i)) <= incident[i].count
    /\ \A o \in RecentOf(i) : o.at <= incident[i].last
    /\ incident[i].count > 0 =>
           /\ \E s \in SUBSET KnownOf(i) : Cardinality(s) = incident[i].count /\ Close(s)
           /\ \E o \in KnownOf(i) : o.at = incident[i].last

\* What was listed qualified, and what was left out found the list full of others
\* as large.
ListIsTrue ==
    /\ \A i \in polled.alarms : Qualifies(i)
    /\ \A i \in Incident \ polled.alarms : Qualifies(i) =>
           /\ Cardinality(polled.alarms) = Listable
           /\ \A j \in polled.alarms : incident[j].count >= incident[i].count

IncidentInv ==
    /\ IncidentsTypeOK
    /\ IsFiniteSet(hits) /\ \A h \in hits : h.at <= now
    /\ polled.at <= now /\ now - polled.at <= Gap
    /\ IsFiniteSet(known) /\ stored \subseteq known
    /\ \A o \in known : o.at <= now /\ (o \in stored <=> o.at + Retention >= polled.at)
    /\ \A i \in Incident : CountIsTrue(i)
    /\ ListIsTrue

LEMMA IncidentNumbers ==
    /\ LookBack \in Nat /\ Active \in Nat /\ Retention \in Nat /\ Gap \in Nat /\ Horizon \in Nat
    /\ LookBack <= Retention /\ Active < Retention
    /\ \A i \in Incident : Threshold[i[1]] \in Nat /\ Threshold[i[1]] > 0
<1>1. \A i \in Incident : i[1] \in Pattern
  BY DEF Incident
<1>. QED
  BY <1>1, IncidentConstants

LEMMA IncidentsTyped ==
    ASSUME IncidentInv
    PROVE  /\ now \in Nat /\ now <= Horizon /\ now \in 0 .. Horizon /\ hits \subseteq Hit
           /\ stored \subseteq Observation /\ known \subseteq Observation
           /\ incident \in [Incident -> IncidentRow]
           /\ \A i \in Incident : incident[i].count \in Nat /\ incident[i].last \in Int
           /\ polled \in PollRow /\ polled.at \in Nat
           /\ polled.alarms \subseteq Incident
BY IncidentNumbers DEF IncidentInv, IncidentsTypeOK, IncidentRow, PollRow

LEMMA ObservationsTyped ==
    /\ \A o \in Observation : o.at \in Nat /\ o.at \in Int /\ o.at <= Horizon
    /\ \A h \in Hit : h.of \in Pattern /\ h.at \in 0 .. Horizon /\ h.at \in Nat /\ h.at \in Int
BY IncidentNumbers DEF Observation, Hit

LEMMA KnownOnes ==
    ASSUME IncidentInv, NEW i
    PROVE  /\ KnownOf(i) \in SUBSET known /\ RecentOf(i) \in SUBSET KnownOf(i)
           /\ \A o \in KnownOf(i) : o.at \in Int /\ o.at <= now
           /\ \A s \in SUBSET KnownOf(i) : IsFiniteSet(s) /\ Cardinality(s) \in Nat
<1>1. KnownOf(i) \in SUBSET known /\ RecentOf(i) \in SUBSET KnownOf(i) /\ IsFiniteSet(known)
  BY DEF KnownOf, RowsOf, RecentOf, IncidentInv
<1>2. \A s \in SUBSET KnownOf(i) : IsFiniteSet(s) /\ Cardinality(s) \in Nat
  BY <1>1, FS_Subset, FS_CardinalityType
<1>3. \A o \in known : o.at \in Int /\ o.at <= now
  BY IncidentsTyped, ObservationsTyped DEF IncidentInv
<1>. QED
  BY <1>1, <1>2, <1>3

\* Greatest elements.
LEMMA HasGreatest ==
    ASSUME NEW S \in SUBSET Int, S # {}, NEW n \in Int, \A x \in S : x <= n
    PROVE  Max(S) \in S /\ \A y \in S : y <= Max(S)
<1>. DEFINE R == {n - x : x \in S}
<1>1. R \in SUBSET Nat /\ R # {}
  <2>1. \A x \in S : x \in Int /\ n - x \in Nat
    OBVIOUS
  <2>. QED
    BY <2>1
<1>2. PICK x \in R : \A y \in R : ~(<<y, x>> \in OpToRel(<, Nat))
  BY <1>1, NatLessThanWellFounded, WFMin
<1>3. \A y \in R : ~(y < x)
  BY <1>1, <1>2 DEF OpToRel
<1>4. PICK m \in S : x = n - m
  BY <1>2
<1>5. \A y \in S : ~(n - y < n - m)
  BY <1>3, <1>4
<1>6. ASSUME NEW y \in S PROVE m >= y
  <2>1. y \in Int /\ m \in Int /\ ~(n - y < n - m)
    BY <1>5
  <2>. QED
    BY <2>1
<1>7. Max(S) \in S /\ \A y \in S : Max(S) >= y
  BY <1>6 DEF Max
<1>8. \A i, j \in Int : i >= j => j <= i
  OBVIOUS
<1>. QED
  BY <1>7, <1>8

\* What a true count and a true list show.
LEMMA TrueCountsAlert == IncidentInv => AlertsAreTrue
<1>. SUFFICES ASSUME IncidentInv, NEW i \in Incident
              PROVE  /\ i \in polled.alarms =>
                            /\ RecentOf(i) # {}
                            /\ \E s \in SUBSET KnownOf(i) :
                                   /\ Cardinality(s) = incident[i].count
                                   /\ Cardinality(s) >= Threshold[i[1]]
                                   /\ Close(s)
                     /\ Cardinality(RecentOf(i)) >= Threshold[i[1]] =>
                            \/ i \in polled.alarms
                            \/ /\ Cardinality(polled.alarms) = Listable
                               /\ \A j \in polled.alarms :
                                      incident[j].count >= Cardinality(RecentOf(i))
  BY DEF AlertsAreTrue, RecentOf, KnownOf, Close
<1>1. CountIsTrue(i) /\ ListIsTrue
  BY DEF IncidentInv
<1>2. /\ incident[i].count \in Nat /\ incident[i].last \in Int /\ polled.at \in Nat
      /\ Threshold[i[1]] \in Nat /\ Threshold[i[1]] > 0 /\ Active \in Nat
  BY IncidentsTyped, IncidentNumbers
<1>3. IsFiniteSet(RecentOf(i)) /\ Cardinality(RecentOf(i)) \in Nat
  BY KnownOnes
<1>4. ASSUME i \in polled.alarms
      PROVE  /\ RecentOf(i) # {}
             /\ \E s \in SUBSET KnownOf(i) : /\ Cardinality(s) = incident[i].count
                                             /\ Cardinality(s) >= Threshold[i[1]]
                                             /\ Close(s)
  <2>1. incident[i].count >= Threshold[i[1]] /\ incident[i].last >= polled.at - Active
    BY <1>1, <1>4 DEF ListIsTrue, Qualifies
  <2>2. incident[i].count > 0
    BY <1>2, <2>1
  <2>3. PICK s \in SUBSET KnownOf(i) : Cardinality(s) = incident[i].count /\ Close(s)
    BY <1>1, <2>2 DEF CountIsTrue
  <2>4. PICK o \in KnownOf(i) : o.at = incident[i].last
    BY <1>1, <2>2 DEF CountIsTrue
  <2>5. o \in RecentOf(i)
    BY <2>1, <2>4 DEF RecentOf
  <2>. QED
    BY <2>1, <2>3, <2>5
<1>5. ASSUME Cardinality(RecentOf(i)) >= Threshold[i[1]], i \notin polled.alarms
      PROVE  /\ Cardinality(polled.alarms) = Listable
             /\ \A j \in polled.alarms : incident[j].count >= Cardinality(RecentOf(i))
  <2>1. RecentOf(i) # {}
    BY <1>2, <1>3, <1>5, FS_EmptySet
  <2>2. PICK o \in RecentOf(i) : TRUE
    BY <2>1
  <2>3. o.at \in Int /\ o.at >= polled.at - Active /\ o.at <= incident[i].last
    BY <1>1, <2>2, KnownOnes DEF RecentOf, CountIsTrue
  <2>4. Cardinality(RecentOf(i)) <= incident[i].count
    BY <1>1 DEF CountIsTrue
  <2>5. Qualifies(i)
    BY <1>2, <1>3, <1>5, <2>3, <2>4 DEF Qualifies
  <2>6. /\ Cardinality(polled.alarms) = Listable
        /\ \A j \in polled.alarms : incident[j].count >= incident[i].count
    BY <1>1, <1>5, <2>5 DEF ListIsTrue
  <2>7. \A j \in polled.alarms : incident[j].count \in Nat
    BY IncidentsTyped
  <2>. QED
    BY <1>2, <1>3, <2>4, <2>6, <2>7
<1>. QED
  BY <1>4, <1>5

\* An incident nobody counts anew, while polls go on.
LEMMA CountStays ==
    ASSUME IncidentInv, NEW i \in Incident, incident'[i] = incident[i],
           polled'.at \in Nat, polled.at <= polled'.at, KnownOf(i)' = KnownOf(i)
    PROVE  CountIsTrue(i)'
<1>1. \A o \in KnownOf(i) : o.at \in Int
  BY KnownOnes
<1>2. RecentOf(i)' \in SUBSET RecentOf(i)
  BY <1>1, IncidentsTyped, IncidentNumbers DEF RecentOf
<1>3. IsFiniteSet(RecentOf(i)) /\ Cardinality(RecentOf(i)) \in Nat
  BY KnownOnes
<1>4. Cardinality(RecentOf(i)') \in Nat /\ Cardinality(RecentOf(i)') <= Cardinality(RecentOf(i))
  BY <1>2, <1>3, FS_Subset, FS_CardinalityType
<1>5. CountIsTrue(i)
  BY DEF IncidentInv
<1>6. Cardinality(RecentOf(i)') <= incident'[i].count
  BY <1>3, <1>4, <1>5, IncidentsTyped DEF CountIsTrue
<1>7. \A o \in RecentOf(i)' : o.at <= incident'[i].last
  BY <1>2, <1>5 DEF CountIsTrue
<1>8. incident'[i].count > 0 =>
          /\ \E s \in SUBSET (KnownOf(i)') : Cardinality(s) = incident'[i].count /\ Close(s)'
          /\ \E o \in KnownOf(i)' : o.at = incident'[i].last
  BY <1>5 DEF CountIsTrue, Close
<1>. QED
  BY <1>6, <1>7, <1>8 DEF CountIsTrue

\* What a poll reads of the firewall: events of its window.
NewAt(new) ==
    /\ new \subseteq Observation /\ IsFiniteSet(new)
    /\ \A o \in new : o.at <= now /\ o.at >= now - LookBack

LEMMA ObservedInWindow ==
    ASSUME IncidentInv, NEW answer \in Answers, NEW kept \in Inserted(answer)
    PROVE  NewAt(Observed(kept))
<1>1. answer \subseteq hits /\ \A h \in answer : h.at >= now - LookBack
  BY DEF Answers
<1>2. kept \subseteq answer
  BY DEF Inserted
<1>3. \A h \in kept : h \in Hit /\ h.at <= now /\ h.at >= now - LookBack
  BY <1>1, <1>2, IncidentsTyped DEF IncidentInv
<1>. DEFINE T == Observed(kept)
            f == [h \in kept |-> [of |-> h.of, at |-> h.at]]
<1>4. ASSUME NEW o \in T PROVE o \in Observation /\ o.at <= now /\ o.at >= now - LookBack
  <2>1. PICK h \in kept : o = [of |-> h.of, at |-> h.at]
    BY DEF Observed
  <2>. QED
    BY <1>3, <2>1, ObservationsTyped DEF Observation
<1>5. f \in Surjection(kept, T)
  BY DEF Observed, Surjection
<1>6. IsFiniteSet(kept)
  BY <1>1, <1>2, FS_Subset DEF IncidentInv
<1>7. IsFiniteSet(T)
  <2>. HIDE DEF T, f
  <2>. QED
    BY <1>5, <1>6, FS_Surjection
<1>. QED
  BY <1>4, <1>7 DEF NewAt

\* An incident that is: what is stored or new is recent enough to be close.
LEMMA CountedAnew ==
    ASSUME IncidentInv, NEW new, NewAt(new), NEW i \in Incident, RowsOf(new, i) # {},
           incident'[i] = Rollup(i, stored \union new, new),
           known' = known \union new, polled'.at = now
    PROVE  CountIsTrue(i)' /\ incident'[i] \in IncidentRow
<1>. DEFINE mine == RowsOf(stored \union new, i)
            times == {o.at : o \in mine}
<1>1. incident'[i] = [count |-> Cardinality(mine), last |-> Max(times)]
  BY DEF Rollup, Latest
<1>2. \A o \in mine : o \in Observation /\ o.at \in Int /\ o.at <= now
  BY IncidentsTyped, ObservationsTyped DEF RowsOf, NewAt, IncidentInv
<1>3. mine # {} /\ IsFiniteSet(mine) /\ Cardinality(mine) \in Nat
  <2>1. IsFiniteSet(stored)
    BY FS_Subset DEF IncidentInv
  <2>2. IsFiniteSet(stored \union new)
    BY <2>1, FS_Union DEF NewAt
  <2>3. mine \in SUBSET (stored \union new) /\ mine # {}
    BY DEF RowsOf
  <2>. QED
    BY <2>2, <2>3, FS_Subset, FS_CardinalityType
<1>4. mine \subseteq KnownOf(i)'
  BY DEF KnownOf, RowsOf, IncidentInv
<1>5. Max(times) \in times /\ \A y \in times : y <= Max(times)
  <2>1. times \in SUBSET Int /\ times # {} /\ \A x \in times : x <= now
    BY <1>2, <1>3
  <2>2. now \in Int
    BY IncidentsTyped
  <2>. HIDE DEF times
  <2>. QED
    BY <2>1, <2>2, HasGreatest
<1>6. Max(times) \in Int /\ \A o \in mine : o.at <= Max(times)
  BY <1>2, <1>5
<1>7. incident'[i].count = Cardinality(mine) /\ incident'[i].last = Max(times)
      /\ incident'[i] \in IncidentRow
  <2>. HIDE DEF mine, times
  <2>. QED
    BY <1>1, <1>3, <1>6 DEF IncidentRow
<1>8. RecentOf(i)' \in SUBSET mine
  <2>1. SUFFICES ASSUME NEW o \in RecentOf(i)' PROVE o \in mine
    OBVIOUS
  <2>2. o \in known \union new /\ IncidentOf(o) = i /\ o.at >= now - Active
    BY DEF RecentOf, KnownOf, RowsOf
  <2>3. CASE o \in known
    <3>1. o.at \in Int /\ polled.at <= now
      BY <2>3, IncidentsTyped, ObservationsTyped DEF IncidentInv
    <3>2. o.at + Retention >= polled.at
      BY <2>2, <3>1, IncidentsTyped, IncidentNumbers
    <3>. QED
      BY <2>2, <2>3, <3>2 DEF IncidentInv, RowsOf
  <2>. QED
    BY <2>2, <2>3 DEF RowsOf
<1>9. \A o \in mine : o.at >= polled.at - Retention
  <2>1. ASSUME NEW o \in mine, o \in stored PROVE o.at >= polled.at - Retention
    <3>1. o.at + Retention >= polled.at
      BY <2>1 DEF IncidentInv
    <3>. HIDE DEF mine
    <3>. QED
      BY <1>2, <2>1, <3>1, IncidentsTyped, IncidentNumbers
  <2>2. ASSUME NEW o \in mine, o \in new PROVE o.at >= polled.at - Retention
    <3>1. o.at >= now - LookBack /\ polled.at <= now
      BY <2>2 DEF NewAt, IncidentInv
    <3>. HIDE DEF mine
    <3>. QED
      BY <1>2, <2>2, <3>1, IncidentsTyped, IncidentNumbers
  <2>. QED
    BY <2>1, <2>2 DEF RowsOf
<1>10. \A o, p \in mine : o.at - p.at <= Retention + Gap
  <2>1. ASSUME NEW o \in mine, NEW p \in mine PROVE o.at - p.at <= Retention + Gap
    <3>1. o.at <= now /\ p.at >= polled.at - Retention /\ now - polled.at <= Gap
      BY <1>2, <1>9 DEF IncidentInv
    <3>2. o.at \in Int /\ p.at \in Int
      BY <1>2
    <3>. HIDE DEF mine
    <3>. QED
      BY <3>1, <3>2, IncidentsTyped, IncidentNumbers
  <2>. QED
    BY <2>1
<1>. HIDE DEF mine
<1>11. Cardinality(RecentOf(i)') <= Cardinality(mine)
  BY <1>3, <1>8, FS_Subset
<1>12. \A o \in RecentOf(i)' : o.at <= incident'[i].last
  BY <1>6, <1>7, <1>8
<1>13. \E s \in SUBSET (KnownOf(i)') :
           Cardinality(s) = incident'[i].count
           /\ \A o, p \in s : o.at - p.at <= Retention + Gap
  BY <1>4, <1>7, <1>10
<1>14. \E o \in KnownOf(i)' : o.at = incident'[i].last
  BY <1>4, <1>5, <1>7
<1>. QED
  BY <1>7, <1>11, <1>12, <1>13, <1>14 DEF CountIsTrue, Close

LEMMA ListedTruly ==
    ASSUME IncidentInv, incident' \in [Incident -> IncidentRow],
           NEW l \in Listings(incident'), polled' = [at |-> now, alarms |-> l]
    PROVE  ListIsTrue' /\ polled' \in PollRow /\ polled'.at = now
<1>. DEFINE active == {i \in Incident : /\ incident'[i].count >= Threshold[i[1]]
                                        /\ incident'[i].last >= now - Active}
<1>1. polled'.at = now /\ polled'.alarms = l /\ now \in 0 .. Horizon
  BY IncidentsTyped
<1>2. /\ l \in SUBSET active /\ (l # active => Cardinality(l) = Listable)
      /\ \A i \in l, j \in active \ l : Precedes(incident'[i], incident'[j])
  BY DEF Listings
<1>3. \A i \in Incident : Qualifies(i)' <=> i \in active
  BY <1>1 DEF Qualifies
<1>4. \A i \in Incident : incident'[i].count \in Nat
  BY DEF IncidentRow
<1>5. polled' \in PollRow
  BY <1>1, <1>2 DEF PollRow
<1>. HIDE DEF active
<1>6. l \subseteq Incident
  BY <1>2 DEF active
<1>7. \A i \in l : Qualifies(i)'
  BY <1>2, <1>3, <1>6
<1>8. ASSUME NEW i \in Incident, i \notin l, Qualifies(i)'
      PROVE  Cardinality(l) = Listable /\ \A j \in l : incident'[j].count >= incident'[i].count
  <2>1. i \in active \ l
    BY <1>3, <1>8
  <2>2. \A j \in l : Precedes(incident'[j], incident'[i])
    BY <1>2, <2>1
  <2>3. \A j \in l : incident'[j].count >= incident'[i].count
    BY <1>4, <1>6, <2>2 DEF Precedes
  <2>. QED
    BY <1>2, <2>1, <2>3
<1>. QED
  BY <1>1, <1>5, <1>7, <1>8 DEF ListIsTrue

LEMMA PollStep == ASSUME IncidentInv, Poll PROVE IncidentInv'
<1>1. PICK answer \in Answers : \E kept \in Inserted(answer) :
          LET new == Observed(kept)
              rows == stored \union new
          IN  /\ stored' = {o \in rows : o.at + Retention >= now}
              /\ incident' = [i \in Incident |-> Rollup(i, rows, new)]
              /\ known' = known \union new
  BY DEF Poll
<1>13. PICK kept \in Inserted(answer) :
          LET new == Observed(kept)
              rows == stored \union new
          IN  /\ stored' = {o \in rows : o.at + Retention >= now}
              /\ incident' = [i \in Incident |-> Rollup(i, rows, new)]
              /\ known' = known \union new
  BY <1>1
<1>. DEFINE new == Observed(kept)
            rows == stored \union new
<1>2. NewAt(new)
  BY ObservedInWindow
<1>3. /\ stored' = {o \in rows : o.at + Retention >= now}
      /\ incident' = [i \in Incident |-> Rollup(i, rows, new)]
      /\ known' = known \union new
  BY <1>13
<1>. HIDE DEF new
<1>4. PICK l \in Listings(incident') : polled' = [at |-> now, alarms |-> l]
  BY DEF Poll
<1>5. now > polled.at /\ UNCHANGED <<now, hits>> /\ polled'.at = now
  BY <1>4 DEF Poll
<1>6. ASSUME NEW i \in Incident PROVE CountIsTrue(i)' /\ incident'[i] \in IncidentRow
  <2>1. incident'[i] = Rollup(i, rows, new)
    BY <1>3
  <2>2. CASE RowsOf(new, i) # {}
    BY <1>2, <1>3, <1>5, <2>1, <2>2, CountedAnew
  <2>3. CASE RowsOf(new, i) = {}
    <3>1. incident'[i] = incident[i]
      BY <2>1, <2>3 DEF Rollup
    <3>2. KnownOf(i)' = KnownOf(i)
      BY <1>3, <2>3 DEF KnownOf, RowsOf
    <3>3. polled'.at \in Nat /\ polled.at <= polled'.at
      BY <1>5, IncidentsTyped
    <3>. QED
      BY <3>1, <3>2, <3>3, CountStays, IncidentsTyped
  <2>. QED
    BY <2>2, <2>3
<1>7. incident' \in [Incident -> IncidentRow]
  BY <1>3, <1>6
<1>8. ListIsTrue' /\ polled' \in PollRow
  BY <1>4, <1>7, ListedTruly
<1>9. known' \subseteq Observation /\ IsFiniteSet(known') /\ stored' \subseteq known'
  BY <1>2, <1>3, IncidentsTyped, FS_Union DEF NewAt, IncidentInv
<1>10. IncidentsTypeOK'
  BY <1>5, <1>7, <1>8, <1>9, IncidentsTyped DEF IncidentsTypeOK, IncidentRow, PollRow
<1>11. \A o \in known' : o.at <= now /\ (o \in stored' <=> o.at + Retention >= now)
  <2>1. ASSUME NEW o \in known, o.at + Retention >= now PROVE o \in stored
    <3>1. o.at \in Int
      BY IncidentsTyped, ObservationsTyped
    <3>2. o.at + Retention >= polled.at
      BY <1>5, <2>1, <3>1, IncidentsTyped, IncidentNumbers
    <3>. QED
      BY <2>1, <3>2 DEF IncidentInv
  <2>2. \A o \in known' : o.at <= now
    BY <1>2, <1>3 DEF NewAt, IncidentInv
  <2>. QED
    BY <1>3, <2>1, <2>2 DEF IncidentInv
<1>12. polled'.at <= now' /\ now' - polled'.at <= Gap
  BY <1>5, IncidentsTyped, IncidentNumbers
<1>. QED
  BY <1>5, <1>6, <1>8, <1>9, <1>10, <1>11, <1>12 DEF IncidentInv

\* Nothing is polled.
LEMMA NothingPolled ==
    ASSUME IncidentInv, UNCHANGED <<incident, polled, known, stored>>
    PROVE  (\A i \in Incident : CountIsTrue(i))' /\ ListIsTrue'
<1>1. \A i \in Incident : KnownOf(i)' = KnownOf(i)
  BY DEF KnownOf
<1>2. \A i \in Incident : CountIsTrue(i)'
  BY <1>1, CountStays, IncidentsTyped
<1>. QED
  BY <1>2 DEF IncidentInv, ListIsTrue, Qualifies

LEMMA TickStep == ASSUME IncidentInv, Tick PROVE IncidentInv'
<1>1. /\ now < Horizon /\ now - polled.at < Gap /\ now' = now + 1
      /\ UNCHANGED <<hits, stored, incident, polled, known>>
  BY DEF Tick
<1>2. IncidentsTypeOK'
  BY <1>1, IncidentsTyped, IncidentNumbers DEF IncidentsTypeOK, IncidentInv
<1>3. (\A h \in hits : h.at <= now)' /\ \A o \in known : o.at <= now'
  BY <1>1, IncidentsTyped, ObservationsTyped DEF IncidentInv
<1>4. polled'.at <= now' /\ now' - polled'.at <= Gap
  BY <1>1, IncidentsTyped, IncidentNumbers DEF IncidentInv
<1>. QED
  BY <1>1, <1>2, <1>3, <1>4, NothingPolled DEF IncidentInv

LEMMA StrikeStep == ASSUME IncidentInv, NEW p \in Pattern, Strike(p) PROVE IncidentInv'
<1>. DEFINE same == {h \in hits : h.of = p /\ h.at = now}
            hit == [of |-> p, at |-> now, nr |-> Cardinality(same)]
<1>1. hits' = hits \union {hit} /\ UNCHANGED <<now, stored, incident, polled, known>>
  BY DEF Strike
<1>2. Cardinality(same) \in Nat
  <2>1. IsFiniteSet(same)
    BY FS_Subset DEF IncidentInv
  <2>. QED
    BY <2>1, FS_CardinalityType
<1>. HIDE DEF same
<1>3. hit \in Hit /\ hit.at = now
  BY <1>2, IncidentsTyped DEF Hit
<1>. HIDE DEF hit
<1>4. IncidentsTypeOK'
  BY <1>1, <1>3 DEF IncidentsTypeOK, IncidentInv
<1>5. IsFiniteSet(hits') /\ (\A h \in hits : h.at <= now)'
  <2>1. IsFiniteSet(hits')
    BY <1>1, FS_AddElement DEF IncidentInv
  <2>. QED
    BY <1>1, <1>3, <2>1, IncidentsTyped DEF IncidentInv
<1>. QED
  BY <1>1, <1>4, <1>5, NothingPolled DEF IncidentInv

LEMMA IncidentsStart == IncidentsInit => IncidentInv
<1>. SUFFICES ASSUME IncidentsInit PROVE IncidentInv
  OBVIOUS
<1>. DEFINE row == [at |-> 0, alarms |-> {}]
<1>1. /\ now = 0 /\ hits = {} /\ stored = {} /\ known = {}
      /\ incident = [i \in Incident |-> NoIncident] /\ polled = row
  BY DEF IncidentsInit
<1>2. NoIncident \in IncidentRow /\ NoIncident.count = 0
  BY DEF NoIncident, IncidentRow, Never
<1>3. row \in PollRow /\ row.at = 0 /\ row.alarms = {}
  BY IncidentNumbers DEF PollRow
<1>. HIDE DEF row
<1>4. IncidentsTypeOK
  BY <1>1, <1>2, <1>3, IncidentNumbers DEF IncidentsTypeOK, IncidentRow, PollRow
<1>5. \A i \in Incident : CountIsTrue(i) /\ incident[i].count = 0
  <2>1. \A i \in Incident : RecentOf(i) = {}
    BY <1>1 DEF RecentOf, KnownOf, RowsOf
  <2>. QED
    BY <1>1, <1>2, <2>1, FS_EmptySet DEF CountIsTrue
<1>6. ListIsTrue
  BY <1>1, <1>3, <1>5, IncidentNumbers DEF ListIsTrue, Qualifies
<1>7. polled.at <= now /\ now - polled.at <= Gap
  BY <1>1, <1>3, IncidentNumbers
<1>. QED
  BY <1>1, <1>4, <1>5, <1>6, <1>7, FS_EmptySet DEF IncidentInv

LEMMA IncidentInvStays == IncidentInv /\ [IncidentStep]_incidentVars => IncidentInv'
<1>. SUFFICES ASSUME IncidentInv, [IncidentStep]_incidentVars PROVE IncidentInv'
  OBVIOUS
<1>1. CASE UNCHANGED incidentVars
  <2>1. UNCHANGED <<now, hits, stored, incident, polled, known>>
    BY <1>1 DEF incidentVars
  <2>. QED
    BY <2>1, NothingPolled DEF IncidentInv, IncidentsTypeOK
<1>2. ASSUME NEW p \in Pattern, Strike(p) PROVE IncidentInv'
  BY <1>2, StrikeStep
<1>. QED
  BY <1>1, <1>2, TickStep, PollStep DEF IncidentStep

\* An incident that is shown rests on so many different events close to one
\* another, the last of them recent; one with enough recent events that were
\* stored is shown, or the list is full of others with as many, whatever the
\* firewall's answers cut off and the polls failed to store
\* (lib/security-events.ts).
THEOREM IncidentsAreReal == Spec => []AlertsAreTrue
<1>1. Init => IncidentInv
  BY IncidentsStart DEF Init
<1>2. IncidentInv /\ [Next]_vars => IncidentInv'
  BY IncidentInvStays, StepsApart
<1>. QED
  BY <1>1, <1>2, TrueCountsAlert, PTL DEF Spec

-----------------------------------------------------------------------------
(* Rate limits. *)

AttemptRow == [pc : {"new", "insert", "accepted", "explain", "rejected"}, at : 0 .. LastTick]

Passed == {a \in Attempt : attempt[a].pc = "accepted"}
PassedFrom(t) ==
    {a \in Attempt : attempt[a].pc = "accepted" /\ attempt[a].at \in t .. t + (Window - Delay)}

\* A statement waits no longer than Delay, and an accepted request that a later
\* one must still count has its event stored.
RateInv ==
    /\ RateTypeOK
    /\ IsFiniteSet(Passed)
    /\ events \subseteq Passed
    /\ \A a \in Attempt : attempt[a].pc = "insert" =>
           attempt[a].at <= clock /\ clock <= attempt[a].at + Delay
    /\ \A a \in Passed : attempt[a].at + Window >= clock => a \in events
    /\ \A t \in 0 .. LastTick : Cardinality(PassedFrom(t)) <= Limit

LEMMA RateNumbers ==
    /\ Limit \in Nat /\ Window \in Nat /\ LastTick \in Nat /\ Delay \in Nat
    /\ Limit > 0 /\ Window > 0 /\ LastTick > 0 /\ Delay < Window
    /\ Window - Delay \in Nat
BY RateConstants

LEMMA RateStarts == RateInit => RateInv
<1>. SUFFICES ASSUME RateInit PROVE RateInv
  OBVIOUS
<1>1. /\ clock = 0 /\ events = {} /\ retry = [a \in Attempt |-> 0]
      /\ attempt = [a \in Attempt |-> [pc |-> "new", at |-> 0]]
  BY DEF RateInit
<1>2. \A a \in Attempt : attempt[a].pc = "new"
  BY <1>1
<1>3. Passed = {} /\ \A t : PassedFrom(t) = {}
  BY <1>2 DEF Passed, PassedFrom
<1>4. RateTypeOK
  BY <1>1, RateNumbers DEF RateTypeOK
<1>5. \A t \in 0 .. LastTick : Cardinality(PassedFrom(t)) <= Limit
  BY <1>3, FS_EmptySet, RateNumbers
<1>. QED
  BY <1>1, <1>2, <1>3, <1>4, <1>5, FS_EmptySet DEF RateInv

\* A step that accepts nobody.
LEMMA NobodyPasses ==
    ASSUME RateInv, RateTypeOK', Passed' = Passed,
           \A a \in Passed : attempt'[a].at = attempt[a].at,
           events' \subseteq events,
           \A a \in Passed : attempt[a].at + Window >= clock' => a \in events',
           \A a \in Attempt : attempt'[a].pc = "insert" =>
               attempt'[a].at <= clock' /\ clock' <= attempt'[a].at + Delay
    PROVE  RateInv'
<1>1. ASSUME NEW t PROVE PassedFrom(t)' = PassedFrom(t)
  <2>1. \A a \in Attempt : attempt'[a].pc = "accepted" <=> attempt[a].pc = "accepted"
    BY DEF Passed
  <2>2. \A a \in Attempt : attempt[a].pc = "accepted" => attempt'[a].at = attempt[a].at
    BY DEF Passed
  <2>. QED
    BY <2>1, <2>2 DEF PassedFrom
<1>. QED
  BY <1>1 DEF RateInv

LEMMA RatesTyped ==
    ASSUME RateInv
    PROVE  /\ attempt \in [Attempt -> AttemptRow]
           /\ clock \in Nat /\ clock <= LastTick /\ events \subseteq Attempt
           /\ \A a \in Attempt : attempt[a].at \in Nat /\ attempt[a].at <= LastTick
           /\ retry \in [Attempt -> Nat]
BY RateNumbers DEF RateInv, RateTypeOK, AttemptRow

LEMMA PassTimeStep == ASSUME RateInv, PassTime PROVE RateInv'
<1>1. /\ clock < LastTick /\ clock' = clock + 1 /\ UNCHANGED <<attempt, events, retry>>
      /\ \A a \in Attempt : attempt[a].pc = "insert" => clock < attempt[a].at + Delay
  BY DEF PassTime
<1>2. RateTypeOK'
  BY <1>1, RatesTyped, RateNumbers DEF RateTypeOK, AttemptRow
<1>3. \A a \in Attempt : attempt[a].pc = "insert" =>
          attempt[a].at <= clock' /\ clock' <= attempt[a].at + Delay
  BY <1>1, RatesTyped, RateNumbers DEF RateInv
<1>4. \A a \in Passed : attempt[a].at + Window >= clock' => a \in events
  <2>1. Passed \subseteq Attempt
    BY DEF Passed
  <2>. QED
    BY <1>1, <2>1, RatesTyped, RateNumbers DEF RateInv
<1>5. Passed' = Passed
  BY <1>1 DEF Passed
<1>. QED
  BY <1>1, <1>2, <1>3, <1>4, <1>5, NobodyPasses

LEMMA DeleteExpiredStep == ASSUME RateInv, DeleteExpired PROVE RateInv'
<1>1. /\ events' = {e \in events : attempt[e].at + Window >= clock}
      /\ UNCHANGED <<clock, attempt, retry>>
  BY DEF DeleteExpired
<1>2. RateTypeOK'
  BY <1>1 DEF RateInv, RateTypeOK
<1>3. \A a \in Passed : attempt[a].at + Window >= clock => a \in events'
  BY <1>1 DEF RateInv
<1>4. Passed' = Passed
  BY <1>1 DEF Passed
<1>5. \A a \in Attempt : attempt'[a].pc = "insert" =>
          attempt'[a].at <= clock' /\ clock' <= attempt'[a].at + Delay
  BY <1>1 DEF RateInv
<1>. QED
  BY <1>1, <1>2, <1>3, <1>4, <1>5, NobodyPasses

LEMMA TakeTimeStep == ASSUME RateInv, NEW a \in Attempt, TakeTime(a) PROVE RateInv'
<1>. DEFINE now1 == [pc |-> "insert", at |-> clock]
<1>1. /\ attempt[a].pc = "new" /\ attempt' = [attempt EXCEPT ![a] = now1]
      /\ UNCHANGED <<clock, events, retry>>
  BY DEF TakeTime
<1>2. now1 \in AttemptRow /\ now1.pc = "insert" /\ now1.at = clock
  BY RatesTyped, RateNumbers DEF AttemptRow
<1>. HIDE DEF now1
<1>3. RateTypeOK'
  BY <1>1, <1>2, RatesTyped DEF RateTypeOK, AttemptRow, RateInv
<1>4. \A b \in Attempt : attempt'[b] = IF b = a THEN now1 ELSE attempt[b]
  BY <1>1, RatesTyped
<1>5. Passed' = Passed
  BY <1>1, <1>2, <1>4 DEF Passed
<1>6. \A b \in Passed : attempt'[b].at = attempt[b].at
  BY <1>1, <1>4 DEF Passed
<1>7. \A b \in Attempt : attempt'[b].pc = "insert" =>
          attempt'[b].at <= clock /\ clock <= attempt'[b].at + Delay
  BY <1>2, <1>4, RatesTyped, RateNumbers DEF RateInv
<1>. QED
  BY <1>1, <1>3, <1>5, <1>6, <1>7, NobodyPasses DEF RateInv

\* One of the finitely many events that count is the oldest.
LEMMA OldestEvent ==
    ASSUME RateInv, NEW S \in SUBSET Attempt, S # {}
    PROVE  \E f \in S : \A g \in S : attempt[f].at <= attempt[g].at
<1>. DEFINE T == {attempt[e].at : e \in S}
<1>1. T \in SUBSET Nat /\ T # {}
  BY RatesTyped
<1>2. PICK x \in T : \A y \in T : ~(<<y, x>> \in OpToRel(<, Nat))
  BY <1>1, NatLessThanWellFounded, WFMin
<1>3. \A y \in T : ~(y < x)
  BY <1>1, <1>2 DEF OpToRel
<1>4. PICK f \in S : x = attempt[f].at
  BY <1>2
<1>5. \A g \in S : ~(attempt[g].at < attempt[f].at)
  BY <1>3, <1>4
<1>. QED
  BY <1>5, RatesTyped

LEMMA ExplainStep == ASSUME RateInv, NEW a \in Attempt, Explain(a) PROVE RateInv'
<1>. DEFINE oldest == {f \in Counted(a) : \A g \in Counted(a) : attempt[f].at <= attempt[g].at}
            elapsed == {attempt[a].at - attempt[e].at : e \in oldest}
            wait == IF Counted(a) = {} THEN Window ELSE Window - CHOOSE t \in elapsed : TRUE
            answer == IF wait < 1 THEN 1 ELSE wait
<1>1. /\ attempt[a].pc = "explain" /\ retry' = [retry EXCEPT ![a] = answer]
      /\ attempt' = [attempt EXCEPT ![a].pc = "rejected"]
      /\ UNCHANGED <<clock, events>>
  BY DEF Explain
<1>2. Counted(a) \in SUBSET Attempt
  BY RatesTyped DEF Counted
<1>3. wait \in Int
  <2>1. CASE Counted(a) = {}
    BY <2>1, RateNumbers
  <2>2. CASE Counted(a) # {}
    <3>1. oldest # {} /\ oldest \in SUBSET Attempt
      BY <1>2, <2>2, OldestEvent
    <3>. HIDE DEF oldest
    <3>2. elapsed # {} /\ elapsed \in SUBSET Int
      BY <3>1, RatesTyped
    <3>. HIDE DEF elapsed
    <3>3. (CHOOSE t \in elapsed : TRUE) \in Int
      BY <3>2
    <3>. QED
      BY <2>2, <3>3, RateNumbers
  <2>. QED
    BY <2>1, <2>2
<1>. HIDE DEF wait
<1>4. answer \in Nat
  BY <1>3
<1>. HIDE DEF answer
<1>5. \A b \in Attempt : attempt'[b].at = attempt[b].at
                         /\ attempt'[b].pc = IF b = a THEN "rejected" ELSE attempt[b].pc
  BY <1>1, RatesTyped DEF AttemptRow
<1>6. attempt' \in [Attempt -> AttemptRow]
  BY <1>1, RatesTyped DEF AttemptRow
<1>7. RateTypeOK'
  BY <1>1, <1>4, <1>6, RatesTyped DEF RateTypeOK, AttemptRow, RateInv
<1>8. Passed' = Passed
  BY <1>1, <1>5 DEF Passed
<1>9. \A b \in Passed : attempt'[b].at = attempt[b].at
  BY <1>5 DEF Passed
<1>10. \A b \in Attempt : attempt'[b].pc = "insert" =>
           attempt'[b].at <= clock /\ clock <= attempt'[b].at + Delay
  BY <1>5 DEF RateInv
<1>. QED
  BY <1>1, <1>7, <1>8, <1>9, <1>10, NobodyPasses DEF RateInv

\* Who passes counted every accepted request of a window with it: their events
\* are stored, for none is deleted while a statement may still need it.
LEMMA CountsTheWindow ==
    ASSUME RateInv, NEW a \in Attempt, attempt[a].pc = "insert",
           NEW t \in 0 .. LastTick, attempt[a].at \in t .. t + (Window - Delay)
    PROVE  PassedFrom(t) \subseteq Counted(a)
<1>. SUFFICES ASSUME NEW e \in PassedFrom(t) PROVE e \in Counted(a)
  OBVIOUS
<1>1. e \in Passed /\ e \in Attempt /\ attempt[e].at \in t .. t + (Window - Delay)
  BY DEF PassedFrom, Passed
<1>2. /\ t \in Nat /\ attempt[e].at \in Nat /\ attempt[a].at \in Nat
      /\ attempt[e].at >= t /\ attempt[a].at <= t + (Window - Delay)
  BY <1>1, RatesTyped, RateNumbers
<1>3. attempt[e].at + Window >= clock
  BY <1>2, RatesTyped, RateNumbers DEF RateInv
<1>4. attempt[e].at + Window >= attempt[a].at
  BY <1>2, RateNumbers
<1>. QED
  BY <1>1, <1>3, <1>4 DEF Counted, RateInv

LEMMA ConsumeStep == ASSUME RateInv, NEW a \in Attempt, Consume(a) PROVE RateInv'
<1>. DEFINE outcome == IF Admits(a) THEN "accepted" ELSE "explain"
<1>1. /\ attempt[a].pc = "insert"
      /\ events' = IF Admits(a) THEN events \union {a} ELSE events
      /\ attempt' = [attempt EXCEPT ![a].pc = outcome]
      /\ UNCHANGED <<clock, retry>>
  BY DEF Consume
<1>2. \A b \in Attempt : attempt'[b].at = attempt[b].at
                         /\ attempt'[b].pc = IF b = a THEN outcome ELSE attempt[b].pc
  BY <1>1, RatesTyped DEF AttemptRow
<1>3. attempt' \in [Attempt -> AttemptRow]
  BY <1>1, RatesTyped DEF AttemptRow
<1>4. RateTypeOK'
  BY <1>1, <1>3, RatesTyped DEF RateTypeOK, AttemptRow, RateInv
<1>5. \A b \in Attempt : attempt'[b].pc = "insert" =>
          attempt'[b].at <= clock /\ clock <= attempt'[b].at + Delay
  BY <1>2 DEF RateInv
<1>6. CASE ~Admits(a)
  <2>1. Passed' = Passed
    BY <1>1, <1>2, <1>6 DEF Passed
  <2>2. \A b \in Passed : attempt'[b].at = attempt[b].at
    BY <1>2 DEF Passed
  <2>. QED
    BY <1>1, <1>4, <1>5, <1>6, <2>1, <2>2, NobodyPasses DEF RateInv
<1>7. CASE Admits(a)
  <2>1. outcome = "accepted" /\ events' = events \union {a}
    BY <1>1, <1>7
  <2>. HIDE DEF outcome
  <2>2. Passed' = Passed \union {a}
    BY <1>2, <2>1 DEF Passed
  <2>3. IsFiniteSet(Passed')
    BY <2>2, FS_AddElement DEF RateInv
  <2>4. ASSUME NEW t \in 0 .. LastTick PROVE Cardinality(PassedFrom(t)') <= Limit
    <3>1. CASE attempt[a].at \notin t .. t + (Window - Delay)
      <4>1. PassedFrom(t)' = PassedFrom(t)
        BY <1>1, <1>2, <3>1 DEF PassedFrom
      <4>. QED
        BY <4>1 DEF RateInv
    <3>2. CASE attempt[a].at \in t .. t + (Window - Delay)
      <4>1. PassedFrom(t)' = PassedFrom(t) \union {a}
        BY <1>1, <1>2, <2>1, <3>2 DEF PassedFrom
      <4>2. IsFiniteSet(events)
        BY FS_Subset DEF RateInv
      <4>3. IsFiniteSet(Counted(a)) /\ Cardinality(Counted(a)) \in Nat
        BY <4>2, FS_Subset, FS_CardinalityType DEF Counted
      <4>4. /\ IsFiniteSet(PassedFrom(t)) /\ Cardinality(PassedFrom(t)) \in Nat
            /\ Cardinality(PassedFrom(t)) <= Cardinality(Counted(a))
        BY <1>1, <3>2, <4>3, CountsTheWindow, FS_Subset, FS_CardinalityType
      <4>5. Cardinality(Counted(a)) < Limit
        BY <1>7 DEF Admits
      <4>6. /\ Cardinality(PassedFrom(t) \union {a}) <= Cardinality(PassedFrom(t)) + 1
            /\ Cardinality(PassedFrom(t) \union {a}) \in Nat
        BY <4>4, OneIsAdded
      <4>. QED
        BY <4>1, <4>3, <4>4, <4>5, <4>6, RateNumbers
    <3>. QED
      BY <3>1, <3>2
  <2>5. \A b \in Passed' : attempt'[b].at + Window >= clock => b \in events'
    <3>1. Passed \subseteq Attempt
      BY DEF Passed
    <3>. QED
      BY <1>2, <2>1, <2>2, <3>1 DEF RateInv
  <2>6. events' \subseteq Passed'
    BY <2>1, <2>2 DEF RateInv
  <2>. QED
    BY <1>1, <1>4, <1>5, <2>3, <2>4, <2>5, <2>6 DEF RateInv
<1>. QED
  BY <1>6, <1>7

LEMMA RateInvStays == RateInv /\ [RateStep]_rateVars => RateInv'
<1>. SUFFICES ASSUME RateInv, [RateStep]_rateVars PROVE RateInv'
  OBVIOUS
<1>1. ASSUME NEW a \in Attempt, TakeTime(a) \/ Consume(a) \/ Explain(a) PROVE RateInv'
  BY <1>1, TakeTimeStep, ConsumeStep, ExplainStep
<1>2. CASE UNCHANGED rateVars
  <2>1. UNCHANGED <<clock, attempt, events, retry>>
    BY <1>2 DEF rateVars
  <2>. QED
    BY <2>1 DEF RateInv, RateTypeOK, Passed, PassedFrom
<1>. QED
  BY <1>1, <1>2, PassTimeStep, DeleteExpiredStep DEF RateStep

LEMMA RateInvLimits == RateInv => WindowIsRespected
BY DEF RateInv, WindowIsRespected, PassedFrom

\* However the statements of one subject's requests are ordered, and whatever
\* the maintenance job deletes between them, no window shorter by the longest
\* delay accepts more requests than the limit (lib/abuse-protection.ts).
THEOREM LimitsHold == Spec => []WindowIsRespected
<1>1. Init => RateInv
  BY RateStarts DEF Init
<1>2. RateInv /\ [Next]_vars => RateInv'
  BY RateInvStays, StepsApart
<1>. QED
  BY <1>1, <1>2, RateInvLimits, PTL DEF Spec

-----------------------------------------------------------------------------
(* Types. *)

\* Five stars at most for every review.
ScoreInv == ScoresTypeOK /\ (sample \in ReportSample => sample.total <= 5 * sample.count)

LEMMA ScoreNumbers == MaxReviews \in Nat /\ MaxPoints \in Nat
BY ScoreConstants

LEMMA TwoSamples == \A x \in ReportSample : x \notin MemberSample
BY DEF ReportSample, MemberSample

LEMMA MembersScore == ASSUME NEW n \in 0 .. MaxPoints PROVE [points |-> n] \in MemberSample
BY DEF MemberSample

LEMMA ScoresStart == ASSUME ScoresInit PROVE ScoreInv
<1>. DEFINE report == [verdict |-> "Reported", count |-> 0, total |-> 0]
            member == [points |-> 0]
<1>1. report \in ReportSample /\ report.total = 0 /\ report.count = 0
  BY ScoreNumbers DEF ReportSample, Verdict
<1>2. member \in MemberSample
  BY ScoreNumbers, MembersScore
<1>3. sample \in {report, member}
  BY DEF ScoresInit
<1>. HIDE DEF report, member
<1>. QED
  BY <1>1, <1>2, <1>3, TwoSamples DEF ScoreInv, ScoresTypeOK

LEMMA AddReviewStep == ASSUME ScoreInv, AddReview PROVE ScoreInv'
<1>1. sample \in ReportSample /\ sample.count < MaxReviews
  BY DEF AddReview
<1>2. PICK stars \in 1 .. 5 : sample' = [sample EXCEPT !.count = @ + 1, !.total = @ + stars]
  BY DEF AddReview
<1>. DEFINE n == sample.count + 1
            m == sample.total + stars
            q1 == [sample EXCEPT !.count = n]
            q2 == [q1 EXCEPT !.total = m]
<1>3. sample' = q2
  BY <1>2
<1>4. sample.count \in Nat /\ sample.total \in Nat /\ sample.total <= 5 * sample.count
  BY <1>1 DEF ScoreInv, ReportSample
<1>5. n \in 0 .. MaxReviews /\ m \in 0 .. 5 * MaxReviews /\ m <= 5 * n
  BY <1>1, <1>4, ScoreNumbers
<1>. HIDE DEF n, m
<1>6. q1 \in ReportSample /\ q1.count = n
  BY <1>1, <1>5 DEF ReportSample
<1>. HIDE DEF q1
<1>7. q2 \in ReportSample /\ q2.count = n /\ q2.total = m
  BY <1>5, <1>6 DEF ReportSample
<1>. HIDE DEF q2
<1>. QED
  BY <1>3, <1>5, <1>7 DEF ScoreInv, ScoresTypeOK

LEMMA JudgeStep == ASSUME ScoreInv, Judge PROVE ScoreInv'
<1>1. sample \in ReportSample
  BY DEF Judge
<1>2. PICK v \in Verdict : sample' = [sample EXCEPT !.verdict = v]
  BY DEF Judge
<1>3. sample' \in ReportSample /\ sample'.count = sample.count /\ sample'.total = sample.total
  BY <1>1, <1>2 DEF ReportSample
<1>. QED
  BY <1>1, <1>3 DEF ScoreInv, ScoresTypeOK

LEMMA ContributeStep == ASSUME ScoreInv, Contribute PROVE ScoreInv'
<1>1. sample \in MemberSample
  BY DEF Contribute
<1>2. PICK n \in {8, 4, 1} : /\ sample.points + n <= MaxPoints
                             /\ sample' = [sample EXCEPT !.points = @ + n]
  BY DEF Contribute
<1>3. sample' \in MemberSample
  BY <1>1, <1>2, ScoreNumbers DEF MemberSample
<1>. QED
  BY <1>3, TwoSamples DEF ScoreInv, ScoresTypeOK

LEMMA ScoreInvStays == ScoreInv /\ [ScoreStep]_scoreVars => ScoreInv'
<1>. SUFFICES ASSUME ScoreInv, [ScoreStep]_scoreVars PROVE ScoreInv'
  OBVIOUS
<1>1. CASE UNCHANGED scoreVars
  BY <1>1 DEF scoreVars, ScoreInv, ScoresTypeOK
<1>. QED
  BY <1>1, AddReviewStep, JudgeStep, ContributeStep DEF ScoreStep
-----------------------------------------------------------------------------
(* All the parts. *)

PartsInv ==
    /\ QueueInv /\ DialogInv /\ StatusInv /\ PanelInv /\ ApplicationInv
    /\ BackupInv /\ MonitorInv /\ IncidentInv /\ RateInv /\ ScoreInv

LEMMA PartsStart == Init => PartsInv
<1>. SUFFICES ASSUME Init PROVE PartsInv
  OBVIOUS
<1>1. PICK s \in Scenarios :
          /\ ApplicationsInit(s.people, s.ids, s.desks, s.budget)
          /\ MonitorInit(s.budget) /\ StatusInit(s.budget)
          /\ PanelInit(s.submissions, s.clicks)
  BY DEF Init
<1>2. QueueInv /\ DialogInv /\ BackupInv /\ IncidentInv /\ RateInv /\ ScoreInv
  BY QueuesStart, DialogsStart, BackupsStart, IncidentsStart, RateStarts, ScoresStart DEF Init
<1>3. s.people \in [Account -> Person] /\ s.budget \in Nat /\ s.clicks \in [Screen -> Nat]
  BY ScenariosConstants
<1>4. StatusInv /\ PanelInv
  BY <1>1, <1>3, StatusStarts, PanelStarts
<1>5. ApplicationInv /\ MonitorInv
  BY <1>1, <1>3, ApplicationsStart, MonitorStarts
<1>. QED
  BY <1>2, <1>4, <1>5 DEF PartsInv

LEMMA PartsStay == PartsInv /\ [Next]_vars => PartsInv'
<1>. SUFFICES ASSUME PartsInv, [Next]_vars PROVE PartsInv'
  OBVIOUS
<1>1. QueueInv' /\ DialogInv' /\ StatusInv' /\ PanelInv'
  BY StepsApart, QueueInvStays, DialogInvStays, StatusInvStays, PanelInvStays DEF PartsInv
<1>2. ApplicationInv' /\ BackupInv' /\ MonitorInv'
  BY StepsApart, ApplicationInvStays, BackupInvStays, MonitorInvStays DEF PartsInv
<1>3. IncidentInv' /\ RateInv' /\ ScoreInv'
  BY StepsApart, IncidentInvStays, RateInvStays, ScoreInvStays DEF PartsInv
<1>. QED
  BY <1>1, <1>2, <1>3 DEF PartsInv

LEMMA PartsAreTyped == PartsInv => TypeOK
BY DEF PartsInv, QueueInv, DialogInv, StatusInv, PanelInv, ApplicationInv, BackupInv, MonitorInv,
       MonitorFacts, IncidentInv, RateInv, ScoreInv, TypeOK

\* Every row, message, workflow, request and screen of every part has its type
\* (the schema's CHECK constraints and the unions of the TypeScript types).
THEOREM OperationsTypes == Spec => []TypeOK
<1>. QED
  BY PartsStart, PartsStay, PartsAreTyped, PTL DEF Spec
-----------------------------------------------------------------------------
(* The numbers people see.                                                 *)

LEMMA PairMax ==
    ASSUME NEW a \in Int, NEW b \in Int
    PROVE  Max({a, b}) = IF a >= b THEN a ELSE b
<1>1. \E x \in {a, b} : \A y \in {a, b} : x >= y
  OBVIOUS
<1>2. Max({a, b}) \in {a, b} /\ \A y \in {a, b} : Max({a, b}) >= y
  BY <1>1 DEF Max
<1>. QED
  BY <1>2

LEMMA PairMin ==
    ASSUME NEW a \in Int, NEW b \in Int
    PROVE  Min({a, b}) = IF a <= b THEN a ELSE b
<1>1. \E x \in {a, b} : \A y \in {a, b} : x <= y
  OBVIOUS
<1>2. Min({a, b}) \in {a, b} /\ \A y \in {a, b} : Min({a, b}) <= y
  BY <1>1 DEF Min
<1>. QED
  BY <1>2

LEMMA OnTheScale ==
    ASSUME NEW n \in Int
    PROVE  Clamp(n, 0, 100) = IF n >= 100 THEN 100 ELSE IF n <= 0 THEN 0 ELSE n
<1>1. Min({100, n}) = IF n >= 100 THEN 100 ELSE n
  BY PairMin
<1>2. Min({100, n}) \in Int
  BY <1>1
<1>3. Max({0, Min({100, n})}) = IF Min({100, n}) <= 0 THEN 0 ELSE Min({100, n})
  BY <1>2, PairMax
<1>. QED
  BY <1>1, <1>3 DEF Clamp

\* Whole-number division keeps the order.
LEMMA Ordered ==
    ASSUME NEW a \in Int, NEW c \in Int, NEW b \in Nat \ {0}, a <= c
    PROVE  a \div b \in Int /\ c \div b \in Int /\ a \div b <= c \div b
BY SMTT(30)

LEMMA HalfIsNothing ==
    ASSUME NEW u \in Nat \ {0}
    PROVE  u \div (2 * u) = 0
OBVIOUS

LEMMA PointsAreFractions ==
    ASSUME NEW v \in Verdict, NEW c \in Nat, NEW t \in Nat
    PROVE  /\ Points(v, c, t).over \in Int /\ Points(v, c, t).under \in Nat \ {0}
           /\ Points(v, c, t + 1).over = Points(v, c, t).over + 25
           /\ Points(v, c, t + 1).under = Points(v, c, t).under
<1>1. Adjustment[v] \in {-35, -15, -8, 15}
  BY DEF Adjustment, Verdict
<1>. DEFINE base == 2 * (c + 3) * (50 + Adjustment[v])
<1>2. base \in Int
  BY <1>1
<1>3. /\ Points(v, c, t).over = base + 25 * ((t + 9) - 3 * (c + 3))
      /\ Points(v, c, t + 1).over = base + 25 * (((t + 1) + 9) - 3 * (c + 3))
      /\ Points(v, c, t).under = 2 * (c + 3) /\ Points(v, c, t + 1).under = 2 * (c + 3)
  BY DEF Points
<1>. HIDE DEF base
<1>. QED
  BY <1>2, <1>3

\* The two ways of rounding differ only below zero, where the scale ends.
LEMMA RoundingsAgree ==
    ASSUME NEW v \in Verdict, NEW c \in Nat, NEW t \in Nat
    PROVE  /\ HalfUp(Points(v, c, t)) \in Int
           /\ PageScore(v, c, t) = DirectoryScore(v, c, t)
<1>. DEFINE f == Points(v, c, t)
            o == f.over
            u == f.under
            g == [f EXCEPT !.over = -o]
<1>0. o \in Int /\ u \in Nat \ {0} /\ f = [over |-> o, under |-> u]
  BY PointsAreFractions DEF Points
<1>1. g.over = -o /\ g.under = u
  BY <1>0
<1>2. HalfUp(f) = (2 * o + u) \div (2 * u) /\ HalfUp(g) = (2 * (-o) + u) \div (2 * u)
  BY <1>1 DEF HalfUp
<1>3. HalfAway(f) = IF o >= 0 THEN HalfUp(f) ELSE -HalfUp(g)
  BY DEF HalfAway
<1>. HIDE DEF f, g
<1>. HIDE DEF o, u
<1>4. HalfUp(f) \in Int
  BY <1>0, <1>2, Ordered
<1>5. CASE o >= 0
  BY <1>3, <1>4, <1>5 DEF PageScore, DirectoryScore, f
<1>6. CASE o < 0
  <2>1. HalfUp(f) <= 0
    <3>1. 2 * o + u <= u /\ 2 * o + u \in Int /\ u \in Int /\ 2 * u \in Nat \ {0}
      BY <1>0, <1>6
    <3>2. (2 * o + u) \div (2 * u) <= u \div (2 * u)
      BY <3>1, Ordered
    <3>. QED
      BY <1>0, <1>2, <3>2, HalfIsNothing
  <2>2. HalfUp(g) \in Int /\ HalfUp(g) >= 0
    <3>1. u <= 2 * (-o) + u /\ 2 * (-o) + u \in Int /\ u \in Int /\ 2 * u \in Nat \ {0}
      BY <1>0, <1>6
    <3>2. u \div (2 * u) <= (2 * (-o) + u) \div (2 * u) /\ (2 * (-o) + u) \div (2 * u) \in Int
      BY <3>1, Ordered
    <3>. QED
      BY <1>0, <1>2, <3>2, HalfIsNothing
  <2>3. HalfAway(f) \in Int /\ HalfAway(f) <= 0
    BY <1>0, <1>3, <1>6, <2>2
  <2>4. Clamp(HalfUp(f), 0, 100) = 0 /\ Clamp(HalfAway(f), 0, 100) = 0
    BY <1>4, <2>1, <2>3, OnTheScale
  <2>. QED
    BY <1>4, <2>4 DEF PageScore, DirectoryScore, f
<1>. QED
  BY <1>0, <1>4, <1>5, <1>6 DEF f

\* Better stars never lower a score.
LEMMA StarsCount ==
    ASSUME NEW v \in Verdict, NEW c \in Nat, NEW t \in Nat
    PROVE  PageScore(v, c, t) <= PageScore(v, c, t + 1) /\ PageScore(v, c, t) \in 0 .. 100
<1>. DEFINE o == Points(v, c, t).over
            u == Points(v, c, t).under
            p == Points(v, c, t + 1).over
            w == Points(v, c, t + 1).under
<1>1. o \in Int /\ u \in Nat \ {0} /\ p = o + 25 /\ w = u
  BY PointsAreFractions
<1>2. /\ HalfUp(Points(v, c, t)) = (2 * o + u) \div (2 * u)
      /\ HalfUp(Points(v, c, t + 1)) = (2 * p + w) \div (2 * w)
  BY DEF HalfUp
<1>. HIDE DEF o, u, p, w
<1>3. 2 * o + u \in Int /\ 2 * p + u \in Int /\ 2 * u \in Nat \ {0} /\ 2 * o + u <= 2 * p + u
  BY <1>1
<1>4. /\ (2 * o + u) \div (2 * u) \in Int /\ (2 * p + u) \div (2 * u) \in Int
      /\ (2 * o + u) \div (2 * u) <= (2 * p + u) \div (2 * u)
  BY <1>3, Ordered
<1>5. /\ HalfUp(Points(v, c, t)) \in Int /\ HalfUp(Points(v, c, t + 1)) \in Int
      /\ HalfUp(Points(v, c, t)) <= HalfUp(Points(v, c, t + 1))
  BY <1>1, <1>2, <1>4
<1>. QED
  BY <1>5, OnTheScale DEF PageScore

\* The ladder, step by step.
LEMMA LadderSteps ==
    /\ DOMAIN Ladder = 1 .. 6
    /\ Ladder[1] = 0 /\ Ladder[2] = 10 /\ Ladder[3] = 30
    /\ Ladder[4] = 75 /\ Ladder[5] = 150 /\ Ladder[6] = 300
BY DEF Ladder

LEMMA UpTo ==
    ASSUME NEW n \in Nat \ {0}
    PROVE  Max(1 .. n) = n
<1>1. \E x \in 1 .. n : \A y \in 1 .. n : x >= y
  OBVIOUS
<1>2. Max(1 .. n) \in 1 .. n /\ \A y \in 1 .. n : Max(1 .. n) >= y
  BY <1>1 DEF Max
<1>. QED
  BY <1>2

LEMMA LevelIs ==
    ASSUME NEW p \in Nat, NEW n \in 1 .. 6, p >= Ladder[n], n = 6 \/ p < Ladder[n + 1]
    PROVE  LevelOf(p) = n
<1>. DEFINE reached == {k \in DOMAIN Ladder : \A m \in 1 .. k : p >= Ladder[m]}
<1>1. reached = 1 .. n
  <2>1. \A m \in 1 .. n : p >= Ladder[m]
    BY LadderSteps
  <2>2. \A k \in 1 .. 6 : k > n => ~\A m \in 1 .. k : p >= Ladder[m]
    <3>. SUFFICES ASSUME NEW k \in 1 .. 6, k > n PROVE \E m \in 1 .. k : p < Ladder[m]
      BY LadderSteps
    <3>1. n + 1 \in 1 .. k
      OBVIOUS
    <3>. QED
      BY <3>1
  <2>. QED
    BY <2>1, <2>2, LadderSteps
<1>2. LevelOf(p) = Max(reached)
  BY DEF LevelOf
<1>. HIDE DEF reached
<1>. QED
  BY <1>1, <1>2, UpTo

LEMMA SomeLevel ==
    ASSUME NEW p \in Nat
    PROVE  \E n \in 1 .. 6 : p >= Ladder[n] /\ (n = 6 \/ p < Ladder[n + 1]) /\ LevelOf(p) = n
<1>1. CASE p < 10
  BY <1>1, LadderSteps, LevelIs
<1>2. CASE p >= 10 /\ p < 30
  BY <1>2, LadderSteps, LevelIs
<1>3. CASE p >= 30 /\ p < 75
  BY <1>3, LadderSteps, LevelIs
<1>4. CASE p >= 75 /\ p < 150
  BY <1>4, LadderSteps, LevelIs
<1>5. CASE p >= 150 /\ p < 300
  BY <1>5, LadderSteps, LevelIs
<1>6. CASE p >= 300
  BY <1>6, LadderSteps, LevelIs
<1>. QED
  BY <1>1, <1>2, <1>3, <1>4, <1>5, <1>6

LEMMA TopIsLast == Top = 6
<1>. DEFINE last == 6
<1>1. last \in Nat \ {0} /\ DOMAIN Ladder = 1 .. last
  BY LadderSteps
<1>. HIDE DEF last
<1>2. Max(1 .. last) = last
  BY <1>1, UpTo
<1>3. Top = last
  BY <1>1, <1>2 DEF Top
<1>. QED
  BY <1>3 DEF last

LEMMA ProgressEnds ==
    ASSUME NEW p \in Nat
    PROVE  Progress(p) = 100 <=> LevelOf(p) = Top
<1>. PICK n \in 1 .. 6 : p >= Ladder[n] /\ (n = 6 \/ p < Ladder[n + 1]) /\ LevelOf(p) = n
  BY SomeLevel
<1>1. CASE n = 6
  BY <1>1, TopIsLast DEF Progress
<1>2. CASE n # 6
  <2>. DEFINE x == (100 * (p - Ladder[n])) \div (Ladder[n + 1] - Ladder[n])
  <2>1. x \in Int /\ x < 100
    <3>. HIDE DEF x
    <3>1. CASE n = 1
      BY <3>1, <1>2, LadderSteps DEF x
    <3>2. CASE n = 2
      BY <3>2, <1>2, LadderSteps DEF x
    <3>3. CASE n = 3
      BY <3>3, <1>2, LadderSteps DEF x
    <3>4. CASE n = 4
      BY <3>4, <1>2, LadderSteps DEF x
    <3>5. CASE n = 5
      BY <3>5, <1>2, LadderSteps DEF x
    <3>. QED
      BY <1>2, <3>1, <3>2, <3>3, <3>4, <3>5
  <2>2. Progress(p) = Min({100, x})
    BY <1>2, TopIsLast DEF Progress
  <2>. HIDE DEF x
  <2>. QED
    BY <1>2, <2>1, <2>2, PairMin, TopIsLast
<1>. QED
  BY <1>1, <1>2

LEMMA RanksClimb ==
    ASSUME NEW p \in Nat
    PROVE  /\ LevelOf(p) <= LevelOf(p + 1)
           /\ PointsToNext(p) > 0 => LevelOf(p + PointsToNext(p)) = LevelOf(p) + 1
<1>. PICK n \in 1 .. 6 : p >= Ladder[n] /\ (n = 6 \/ p < Ladder[n + 1]) /\ LevelOf(p) = n
  BY SomeLevel
<1>1. LevelOf(p) <= LevelOf(p + 1)
  <2>1. CASE n = 6 \/ p + 1 < Ladder[n + 1]
    <3>1. p + 1 >= Ladder[n]
      BY LadderSteps
    <3>. QED
      BY <2>1, <3>1, LevelIs
  <2>2. CASE n # 6 /\ p + 1 >= Ladder[n + 1]
    <3>. PICK k \in 1 .. 6 : /\ p + 1 >= Ladder[k] /\ (k = 6 \/ p + 1 < Ladder[k + 1])
                             /\ LevelOf(p + 1) = k
      BY SomeLevel
    <3>1. k >= n
      BY <2>2, LadderSteps
    <3>. QED
      BY <3>1
  <2>. QED
    BY <2>1, <2>2, LadderSteps
<1>2. ASSUME PointsToNext(p) > 0
      PROVE  LevelOf(p + PointsToNext(p)) = LevelOf(p) + 1
  <2>1. n # 6
    BY <1>2, TopIsLast DEF PointsToNext
  <2>2. PointsToNext(p) = Max({0, Ladder[n + 1] - p}) /\ Ladder[n + 1] - p \in Int
    BY <2>1, TopIsLast, LadderSteps DEF PointsToNext
  <2>3. p + PointsToNext(p) = Ladder[n + 1]
    BY <1>2, <2>1, <2>2, PairMax, LadderSteps
  <2>4. Ladder[n + 1] \in Nat /\ n + 1 \in 1 .. 6
        /\ (n + 1 = 6 \/ Ladder[n + 1] < Ladder[(n + 1) + 1])
    BY <2>1, LadderSteps
  <2>5. LevelOf(Ladder[n + 1]) = n + 1
    BY <2>4, LevelIs
  <2>. QED
    BY <2>3, <2>5
<1>. QED
  BY <1>1, <1>2

LEMMA ScoresDoAgree == ASSUME ScoresTypeOK PROVE ScoresAgree
<1>1. CASE sample \in MemberSample
  <2>1. sample.points \in Nat
    BY <1>1, ScoreConstants DEF MemberSample
  <2>. QED
    BY <1>1, <2>1, ProgressEnds, RanksClimb DEF ScoresAgree
<1>2. CASE sample \notin MemberSample
  <2>1. sample.verdict \in Verdict /\ sample.count \in Nat /\ sample.total \in Nat
    BY <1>2, ScoreConstants DEF ScoresTypeOK, ReportSample
  <2>. QED
    BY <1>2, <2>1, RoundingsAgree, StarsCount DEF ScoresAgree
<1>. QED
  BY <1>1, <1>2

\* Whatever verdict and stars a report has, and whatever points a member has, the
\* score the directory sorts by is the one the page shows, it is on the scale and
\* better stars never lower it, and the ladder of ranks is climbed step by step
\* (REPUTATION_SCORE_SQL and calculateReputationFromAggregates,
\* communityRankForPoints).
THEOREM ScoresAlwaysAgree == Spec => []ScoresAgree
<1>1. PartsInv => ScoresAgree
  BY ScoresDoAgree DEF PartsInv, ScoreInv
<1>. QED
  BY <1>1, PartsStart, PartsStay, PTL DEF Spec
=============================================================================
