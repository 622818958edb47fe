----------------------------- MODULE Community ------------------------------
(***************************************************************************)
(* Reports with what members attach to them: reviews, cases and replies,   *)
(* over one database.  A merge looks at the reviews of both reports, and   *)
(* the removal of a report takes along what refers to it.                  *)
(***************************************************************************)
EXTENDS Reviews, Intake, Comments

vars == <<reportVars, reviewVars, intakeVars, commentVars>>

\* preflightReportMerge counts the members who reviewed both sides.
CheckMerge(e) ==
    /\ MergeCheck(e, Overlap(edit[e].id, edit[e].to))
    /\ UNCHANGED <<reviewVars, intakeVars, commentVars>>

\* The DELETE of a report runs the foreign keys of every table.
RemoveReport(e) ==
    LET r == edit[e].id
    IN  /\ RemoveWrite(e)
        /\ IF DeleteAllowed(r)
           THEN DropReviewsOf(r) /\ DropCasesOf(r) /\ DropCommentsOf(r)
           ELSE UNCHANGED <<reviewVars, intakeVars, commentVars>>

Next ==
    \/ \E e \in Editor :
           \/ EditStep(e) /\ UNCHANGED <<reviewVars, intakeVars, commentVars>>
           \/ CheckMerge(e) \/ RemoveReport(e)
    \/ ReviewStep /\ UNCHANGED <<reportVars, intakeVars, commentVars>>
    \/ IntakeStep /\ UNCHANGED <<reportVars, reviewVars, commentVars>>
    \/ CommentStep /\ UNCHANGED <<reportVars, reviewVars, intakeVars>>

CONSTANT Scenarios   \* bounds: the reports there are, who writes how much

ASSUME ScenariosConstants ==
    \A s \in Scenarios :
        /\ s.reports \subseteq Report /\ s.images \subseteq s.reports \X Asset
        /\ s.edits \subseteq Asked
        /\ s.faults \in Nat

\* A scenario gives every part its share of what may happen.
Init ==
    \E s \in Scenarios :
        /\ ReportsInit(s.reports, s.images) /\ edits = s.edits
        /\ ReviewsInit(s.members, s.revisions)
        /\ IntakeInit(s.cases) /\ faults = s.faults
        /\ CommentsInit(s.comments)

Spec == Init /\ [][Next]_vars

----------------------------------------------------------------------------
\* Every row of every table has its type.
TypeOK == ReportsTypeOK /\ ReviewsTypeOK /\ IntakeTypeOK /\ CommentsTypeOK

\* A request writes what it looked up awaits ago, while an admin removes the
\* report, a member closes the account, or a request told that its case failed
\* takes its images back.  Whatever overtakes what, no review, reply, case or
\* attachment refers to a report that is gone, no review to an account that
\* is, and no case to an image whose row the rollback deleted.
NothingNamesTheRemoved ==
    /\ \A k \in Key : Written(k) =>
           Exists(k[2]) /\ (review[k].owned => k[1] \notin gone)
    /\ \A n \in Comment : Stands(n) => Exists(comment[n].on)
    /\ \A c \in Case : Filed(c) =>
           /\ kase[c].about # None => Exists(kase[c].about)
           /\ \A f \in kase[c].files : file[f] \notin {"none", "gone"}
    /\ \A l \in link : Exists(l[1])
=============================================================================
