------------------------------- MODULE Dialogs -------------------------------
(***************************************************************************)
(* components/admin/admin-action-dialog.tsx and the handlers of            *)
(* admin-dashboard.tsx that ask through it.  There is one dialog, and one  *)
(* resolver for it; a handler that asks waits on a promise only that       *)
(* resolver can settle.  Handlers run side by side: the requests of one    *)
(* are under way while another asks.                                       *)
(***************************************************************************)
EXTENDS Naturals

CONSTANTS
    Task,          \* handlers under way in one dashboard
    NoDialog         \* no dialog is shown

ASSUME DialogConstants == NoDialog \notin Task

VARIABLES
    task,          \* the handlers under way
    shown,         \* whose dialog is shown
    spinner,       \* loading: the buttons that heed it are disabled
    stuck,         \* an untried handler died and left the spinner on
    editor,        \* the editor is open
    away           \* the dashboard is unmounted

dialogVars == <<task, shown, spinner, stuck, editor, away>>

\* What tells handlers apart: how many dialogs they go through, whether a try
\* surrounds their requests, whether their button heeds the spinner, and
\* whether they close the editor when they are done.
Handler == [dialogs : 0..2, tried : BOOLEAN, heeds : BOOLEAN, closes : BOOLEAN]
Plain == [dialogs |-> 1, tried |-> TRUE, heeds |-> TRUE, closes |-> FALSE]

\* deleteReport, of the report queue.
DeleteReport == {[dialogs |-> 1, tried |-> FALSE, heeds |-> FALSE, closes |-> TRUE]}
\* moderateCommunityReview and deleteCommunityReview.
ReviewHandlers == {[Plain EXCEPT !.tried = FALSE]}
\* moderateAppeal and deleteAppeal.
AppealHandlers == {Plain}
\* moderateComment and deleteComment.
CommentHandlers == {Plain}
\* updateEvidence from its button; reviewEvidence and publishEvidence ask first.
EvidenceHandlers == {[Plain EXCEPT !.dialogs = 0], Plain}
\* uploadRedactedReplacement, once a file is picked, and deleteEvidence.
UploadHandlers == {[Plain EXCEPT !.dialogs = 0], Plain}
\* mergeReport asks which report, and again after the preflight; unmergeReport once.
MergeHandlers == {[Plain EXCEPT !.dialogs = 2, !.heeds = FALSE], [Plain EXCEPT !.heeds = FALSE]}

Handlers == DeleteReport \union ReviewHandlers \union AppealHandlers \union CommentHandlers
                \union EvidenceHandlers \union UploadHandlers \union MergeHandlers

NoTask == [pc |-> "idle", handler |-> Plain, round |-> 0]

DialogsInit ==
    /\ task = [t \in Task |-> NoTask]
    /\ shown = NoDialog
    /\ spinner = FALSE /\ stuck = FALSE /\ editor = FALSE /\ away = FALSE

Spin(on) == spinner' = on /\ stuck' = (stuck /\ on)

\* finish(null) for the dialog shown: its handler returns.
Dismissed == IF shown = NoDialog THEN task ELSE [task EXCEPT ![shown] = NoTask]
\* A merge that is not confirmed turns the spinner off as it returns.
Second == shown # NoDialog /\ task[shown].round = 2

\* The resolver of the dialog that is replaced is dropped.
MutantAsk(t, h, n) ==
    /\ task' = [task EXCEPT ![t] = [pc |-> "asks", handler |-> h, round |-> n]]
    /\ shown' = IF away THEN NoDialog ELSE t
    /\ UNCHANGED <<spinner, stuck>>

\* open: a dialog still shown is answered null, then this one takes its place.
\* An unmounted dashboard shows nothing.
Ask(t, h, n) ==
    /\ task' = [Dismissed EXCEPT ![t] = [pc |-> "asks", handler |-> h, round |-> n]]
    /\ shown' = IF away THEN NoDialog ELSE t
    /\ Spin(spinner /\ ~Second)

\* A click.  The dialog and the editor cover the buttons.
Begin(t, h) ==
    /\ task[t] = NoTask /\ shown = NoDialog /\ ~editor /\ ~away
    /\ h.heeds => ~spinner
    /\ IF h.dialogs = 0
       THEN /\ task' = [task EXCEPT ![t] = [pc |-> "sends", handler |-> h, round |-> 0]]
            /\ Spin(TRUE)
            /\ UNCHANGED shown
       ELSE Ask(t, h, 1)
    /\ UNCHANGED <<editor, away>>

\* Confirmed: the handler turns the spinner on and sends its request.
Confirm ==
    /\ shown # NoDialog
    /\ task' = [task EXCEPT ![shown].pc = "sends"]
    /\ shown' = NoDialog
    /\ spinner' = (spinner \/ ~Second)
    /\ UNCHANGED <<stuck, editor, away>>

\* Cancelled, or confirmed with blanks where the handler wants a text.
Cancel ==
    /\ shown # NoDialog
    /\ task' = Dismissed
    /\ shown' = NoDialog
    /\ Spin(spinner /\ ~Second)
    /\ UNCHANGED <<editor, away>>

\* The answer is what was hoped for: the next dialog, or all queues are loaded.
Answer(t) ==
    LET h == task[t].handler
    IN  /\ task[t].pc = "sends"
        /\ IF task[t].round < h.dialogs
           THEN Ask(t, h, task[t].round + 1) /\ UNCHANGED editor
           ELSE /\ task' = [task EXCEPT ![t].pc = "loads"]
                /\ spinner' = TRUE /\ UNCHANGED <<shown, stuck>>
                /\ editor' = (editor /\ ~h.closes)
        /\ UNCHANGED away

\* The answer is an error, which is shown.
Refusal(t) ==
    /\ task[t].pc = "sends"
    /\ task' = [task EXCEPT ![t] = NoTask]
    /\ Spin(FALSE)
    /\ UNCHANGED <<shown, editor, away>>

\* No answer, or one that is not JSON: without a try the handler just dies.
NetworkFails(t) ==
    /\ task[t].pc = "sends"
    /\ task' = [task EXCEPT ![t] = NoTask]
    /\ IF task[t].handler.tried THEN Spin(FALSE)
       ELSE stuck' = spinner /\ UNCHANGED spinner
    /\ UNCHANGED <<shown, editor, away>>

\* loadData, of a handler or of a click on a page, ends by turning the spinner off.
Loaded(t) ==
    /\ task[t].pc = "loads"
    /\ task' = [task EXCEPT ![t] = NoTask]
    /\ Spin(FALSE)
    /\ UNCHANGED <<shown, editor, away>>
TurnPage(t) ==
    /\ task[t] = NoTask /\ shown = NoDialog /\ ~editor /\ ~away /\ ~spinner
    /\ task' = [task EXCEPT ![t] = [NoTask EXCEPT !.pc = "loads"]]
    /\ Spin(TRUE)
    /\ UNCHANGED <<shown, editor, away>>

\* The editor is opened by a button that does not heed the spinner, and closed.
ToggleEditor ==
    /\ shown = NoDialog /\ ~away
    /\ editor' = ~editor
    /\ UNCHANGED <<task, shown, spinner, stuck, away>>

\* The effect's clean-up answers null.
Leave ==
    /\ ~away /\ away' = TRUE
    /\ task' = Dismissed
    /\ shown' = NoDialog
    /\ UNCHANGED <<spinner, stuck, editor>>

DialogStep ==
    \/ Confirm \/ Cancel \/ ToggleEditor \/ Leave
    \/ \E t \in Task : \/ \E h \in Handlers : Begin(t, h)
                       \/ Answer(t) \/ Refusal(t) \/ NetworkFails(t) \/ Loaded(t) \/ TurnPage(t)

----------------------------------------------------------------------------
DialogsTypeOK ==
    /\ task \in [Task -> [pc : {"idle", "asks", "sends", "loads"}, handler : Handler, round : 0..2]]
    /\ shown \in Task \union {NoDialog}
    /\ {spinner, stuck, editor, away} \subseteq BOOLEAN

\* While the dashboard is there, a handler that waits for an answer has its
\* dialog on the screen, so that no promise is left that nobody can settle, even
\* when a merge asks again over another handler's dialog; and the buttons are
\* disabled only while some handler will enable them, unless a request of a
\* handler without a try was lost.
NobodyWaitsInVain ==
    ~away => /\ \A t \in Task : task[t].pc = "asks" => shown = t
             /\ spinner => stuck \/ \E t \in Task : \/ task[t].pc \in {"sends", "loads"}
                                                    \/ task[t].pc = "asks" /\ task[t].round = 2
=============================================================================
