-------------------------------- MODULE Panel --------------------------------
(***************************************************************************)
(* components/admin-dashboard.tsx and admin/report-editor.tsx: what a      *)
(* moderator's browser does with submissions.  Every click starts an       *)
(* asynchronous call that works on what was on the screen when it started, *)
(* while the screen goes on changing: the editor can be closed while it    *)
(* still saves, and other moderators have panels of their own, whose lists *)
(* are as old as their last load.                                          *)
(***************************************************************************)
EXTENDS Naturals, FiniteSets, FiniteSetsExt

CONSTANTS
    Screen,        \* the panels of moderators
    Submission,    \* the submissions in the queue
    Draft,         \* report ids a browser may make up
    Call,          \* calls under way, over all panels
    Absent         \* no report, no submission, no panel

ASSUME PanelConstants == Absent \notin Screen \union Submission \union Draft

VARIABLES
    screen,        \* the state of each panel
    call,          \* the calls
    inbox,         \* the server's submissions: status and result report
    drafted,       \* from which submission each report id was drafted
    saved,         \* the reports the server has
    clicks         \* bound: what each moderator still does

panelVars == <<screen, call, inbox, drafted, saved, clicks>>

SubmissionRow == [status : {"open", "decided", "gone"}, result : Draft \union {Absent}]
ScreenState == [editing : Draft \union {Absent}, source : Submission \union {Absent},
                loading : BOOLEAN, list : [Submission -> SubmissionRow]]
NoRow == [status |-> "open", result |-> Absent]
NoCall == [pc |-> "idle", on |-> Absent, report |-> Absent, source |-> Absent, row |-> NoRow,
           list |-> [s \in Submission |-> NoRow]]

PanelInit(received, budget) ==
    /\ inbox = [s \in Submission |-> [status |-> IF s \in received THEN "open" ELSE "gone",
                                      result |-> Absent]]
    /\ screen = [p \in Screen |-> [editing |-> Absent, source |-> Absent, loading |-> FALSE,
                                   list |-> inbox]]
    /\ call = [c \in Call |-> NoCall]
    /\ drafted = [r \in Draft |-> Absent]
    /\ saved = {}
    /\ clicks = budget

Click(p) == clicks[p] > 0 /\ clicks' = [clicks EXCEPT ![p] = @ - 1]
Goto(c, pc) == call' = [call EXCEPT ![c].pc = pc]
Loading(p, on) == screen' = [screen EXCEPT ![p].loading = on]

----------------------------------------------------------------------------
(* The queue and the editor. *)

\* Report ids no browser has used.
Fresh == {r \in Draft : /\ drafted[r] = Absent /\ r \notin saved
                        /\ \A p \in Screen : screen[p].editing # r
                        /\ \A c \in Call : call[c].report # r}
NewReportId == CHOOSE r \in Fresh : TRUE

\* createDraftFromSubmission: the button waits for a load, the editor covers it.
OpenDraft(p, s) ==
    /\ Click(p) /\ ~screen[p].loading /\ screen[p].editing = Absent
    /\ screen[p].list[s].status # "gone" /\ Fresh # {}
    /\ screen' = [screen EXCEPT ![p].editing = NewReportId, ![p].source = s]
    /\ drafted' = [drafted EXCEPT ![NewReportId] = s]
    /\ UNCHANGED <<call, inbox, saved>>

\* A report of the queue or a blank one is opened; these buttons do not wait.
OpenReport(p, r) ==
    /\ Click(p) /\ screen[p].editing = Absent
    /\ r \in saved \/ (Fresh # {} /\ r = NewReportId)
    /\ screen' = [screen EXCEPT ![p].editing = r, ![p].source = Absent]
    /\ UNCHANGED <<call, inbox, drafted, saved>>

\* Cancel is not disabled while the editor saves.
CloseEditor(p) ==
    /\ screen[p].editing # Absent
    /\ screen' = [screen EXCEPT ![p].editing = Absent, ![p].source = Absent]
    /\ UNCHANGED <<call, inbox, drafted, saved, clicks>>

\* save, with the onSaved of the same rendering.
Save(p, c) ==
    LET s == screen[p].source
    IN  /\ call[c] = NoCall /\ screen[p].editing # Absent
        /\ \A d \in Call : ~(call[d].pc = "save" /\ call[d].report = screen[p].editing)
        /\ call' = [call EXCEPT ![c] =
               [NoCall EXCEPT !.pc = "save", !.on = p, !.report = screen[p].editing, !.source = s,
                              !.row = IF s = Absent THEN NoRow ELSE screen[p].list[s]]]
        /\ UNCHANGED <<screen, inbox, drafted, saved, clicks>>

\* The report is saved, or the editor shows an error.
SaveReport(c) ==
    /\ call[c].pc = "save"
    /\ \/ /\ saved' = saved \union {call[c].report}
          /\ Goto(c, IF call[c].source = Absent \/ call[c].row.status = "gone" THEN "close" ELSE "link")
       \/ /\ call' = [call EXCEPT ![c] = NoCall]
          /\ UNCHANGED saved
    /\ UNCHANGED <<screen, inbox, drafted, clicks>>

\* What is open in the panel by now.
MutantLinked(c) ==
    LET open == screen[call[c].on].editing IN IF open \in saved THEN open ELSE call[c].report

\* editing.id of the rendering that started the call.
Linked(c) == call[c].report

\* moderateReportSubmission on the server: whatever the row was, the status and
\* the result are overwritten.
Patched(s, result) ==
    IF inbox[s].status = "gone" \/ result \notin saved \union {Absent} THEN inbox
    ELSE [inbox EXCEPT ![s] = [status |-> "decided", result |-> result]]

\* The PATCH that links the submission; it may fail, or its answer be lost.
Link(c) ==
    /\ call[c].pc = "link"
    /\ inbox' \in {inbox, Patched(call[c].source, Linked(c))}
    /\ Goto(c, "close")
    /\ UNCHANGED <<screen, drafted, saved, clicks>>

\* The editor is closed, whichever it is, and the queues are loaded.
CloseAfterSave(c) ==
    /\ call[c].pc = "close"
    /\ screen' = [screen EXCEPT ![call[c].on].editing = Absent, ![call[c].on].source = Absent,
                                ![call[c].on].loading = TRUE]
    /\ Goto(c, "load")
    /\ UNCHANGED <<inbox, drafted, saved, clicks>>

----------------------------------------------------------------------------
(* Loading and deciding. *)

\* loadData after a click on a page, which waits for another load.
Load(p, c) ==
    /\ Click(p) /\ call[c] = NoCall /\ ~screen[p].loading
    /\ call' = [call EXCEPT ![c] = [NoCall EXCEPT !.pc = "load", !.on = p]]
    /\ Loading(p, TRUE)
    /\ UNCHANGED <<inbox, drafted, saved>>

\* The server answers with its rows of now; they are shown later, in any order
\* among several loads, or an error is.
LoadRead(c) ==
    /\ call[c].pc = "load"
    /\ call' = [call EXCEPT ![c] = [NoCall EXCEPT !.pc = "show", !.on = call[c].on, !.list = inbox]]
    /\ UNCHANGED <<screen, inbox, drafted, saved, clicks>>
LoadFails(c) ==
    /\ call[c].pc = "load"
    /\ Loading(call[c].on, FALSE)
    /\ call' = [call EXCEPT ![c] = NoCall]
    /\ UNCHANGED <<inbox, drafted, saved, clicks>>
Show(c) ==
    /\ call[c].pc = "show"
    /\ screen' = [screen EXCEPT ![call[c].on].list = call[c].list,
                                ![call[c].on].loading = FALSE]
    /\ call' = [call EXCEPT ![c] = NoCall]
    /\ UNCHANGED <<inbox, drafted, saved, clicks>>

\* moderateReportSubmission and deleteReportSubmission: a dialog, then a write
\* that sends the result the list shows.
Decide(p, s, c) ==
    /\ Click(p) /\ call[c] = NoCall /\ ~screen[p].loading
    /\ screen[p].editing = Absent /\ screen[p].list[s].status # "gone"
    /\ \E pc \in {"decide", "remove"} :
           call' = [call EXCEPT ![c] = [NoCall EXCEPT !.pc = pc, !.on = p, !.source = s,
                                                      !.row = screen[p].list[s]]]
    /\ Loading(p, TRUE)
    /\ UNCHANGED <<inbox, drafted, saved>>

\* Done, and the queues are loaded; or an error, or an answer that is lost,
\* and the list stays as it is.
DecideOnServer(c) ==
    LET s == call[c].source
        done == IF call[c].pc = "decide" THEN Patched(s, call[c].row.result)
                ELSE [inbox EXCEPT ![s] = [status |-> "gone", result |-> Absent]]
    IN  /\ call[c].pc \in {"decide", "remove"}
        /\ \/ /\ inbox' = done
              /\ Goto(c, "load")
              /\ UNCHANGED screen
           \/ /\ inbox' \in {inbox, done}
              /\ call' = [call EXCEPT ![c] = NoCall]
              /\ Loading(call[c].on, FALSE)
        /\ UNCHANGED <<drafted, saved, clicks>>

PanelStep ==
    \/ \E p \in Screen :
           \/ CloseEditor(p)
           \/ \E s \in Submission : OpenDraft(p, s)
           \/ \E r \in Draft : OpenReport(p, r)
           \/ \E c \in Call : \/ Save(p, c) \/ Load(p, c)
                              \/ \E s \in Submission : Decide(p, s, c)
    \/ \E c \in Call : \/ SaveReport(c) \/ Link(c) \/ CloseAfterSave(c) \/ DecideOnServer(c)
                       \/ LoadRead(c) \/ LoadFails(c) \/ Show(c)

----------------------------------------------------------------------------
PanelTypeOK ==
    /\ screen \in [Screen -> ScreenState]
    /\ call \in [Call -> [pc : {"idle", "save", "link", "close", "load", "show", "decide", "remove"},
                          on : Screen \union {Absent}, report : Draft \union {Absent},
                          source : Submission \union {Absent}, row : SubmissionRow,
                          list : [Submission -> SubmissionRow]]]
    /\ inbox \in [Submission -> SubmissionRow]
    /\ drafted \in [Draft -> Submission \union {Absent}]
    /\ saved \subseteq Draft
    /\ clicks \in [Screen -> Nat]

\* However old the list of a panel, and whatever its moderator has opened since
\* a save began: the result of a submission is a report that was saved, and was
\* drafted from that very submission.
LinksAreToTheirDrafts ==
    \A s \in Submission :
        inbox[s].result # Absent => inbox[s].result \in saved /\ drafted[inbox[s].result] = s
=============================================================================
