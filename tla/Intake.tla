------------------------------- MODULE Intake -------------------------------
(***************************************************************************)
(* lib/community-intake.ts, lib/intake-security.ts and the rollback of     *)
(* lib/evidence.ts: report submissions and appeals with the images that    *)
(* come with them.  A request stores its images first and its case row     *)
(* last, and rolls the images back when the row does not arrive; an admin  *)
(* removes a case with its images first and its row last.  The answer of   *)
(* the database may be lost, a storage call may fail, a request may die.   *)
(*                                                                         *)
(* One image is one step here; Evidence has the steps of storing and       *)
(* deleting it.                                                            *)
(***************************************************************************)
EXTENDS Reports

CONSTANTS
    Case,     \* intake ids, one per request that files a case
    Appeal,   \* the cases that are appeals
    Slot,     \* the images of a request
    Frozen,   \* the images under legal hold
    Desk      \* requests of the admin API about cases at a time

File == Case \X Slot

ASSUME IntakeConstants == Appeal \subseteq Case /\ Frozen \subseteq File

VARIABLES
    kase,     \* report_submissions and appeals
    file,     \* evidence_assets of the intakes
    object,   \* the images whose original is in storage
    post,     \* the requests that file a case
    desk,     \* the requests that decide or remove one
    faults    \* bound: lost answers, failing calls, crashes still to come

intakeVars == <<kase, file, object, post, desk, faults>>

NoCase == 0
Status == {"Pending", "Needs Info", "Accepted", "Rejected"}

\* A row; about: the report of an appeal, the result of a submission; files:
\* evidence_json.  "cascaded": an appeal that went with its report.
CaseRow == [status : {"none", "removed", "cascaded"} \union Status,
            about : Report \union {None}, files : SUBSET File]
Filed(c) == kase[c].status \in Status

\* "gone": the rollback deleted the row.
FileState == {"none", "private", "public", "leased", "withheld", "deleted", "gone"}

PostPc == {"new", "store", "insert", "rollback", "check", "erase", "rows", "done"}
DeskPc == {"idle", "decide", "assets", "delete", "erasing"}
NoDesk == [pc |-> "idle", case |-> NoCase, about |-> None, files |-> {}, now |-> <<>>]

IntakeInit(cases) ==
    /\ kase = [c \in Case |-> [status |-> "none", about |-> None, files |-> {}]]
    /\ file = [f \in File |-> "none"]
    /\ object = {}
    /\ post = [c \in Case |-> [pc |-> IF c \in cases THEN "new" ELSE "done",
                            about |-> None, stored |-> {}]]
    /\ desk = [d \in Desk |-> NoDesk]

PostGoto(c, pc) == post' = [post EXCEPT ![c].pc = pc]
Fault == faults > 0 /\ faults' = faults - 1

----------------------------------------------------------------------------
(* Filing a case: POST /api/report-submissions and /api/appeals. *)

\* The checks before the first image; an appeal names a published report, a
\* submission may.
PostBegin(c) ==
    /\ post[c].pc = "new"
    /\ \E r \in Report \union {None} :
           /\ r = None => c \notin Appeal
           /\ r # None => ResolvesTo(r) # None
           /\ post' = [post EXCEPT ![c].pc = "store",
                                   ![c].about = IF r = None THEN None ELSE ResolvesTo(r)]
    /\ UNCHANGED <<kase, file, object, desk, faults>>

\* storeEvidenceFiles, one file after the other.
StoreFile(f) ==
    LET c == f[1]
    IN  /\ post[c].pc = "store" /\ file[f] = "none"
        /\ file' = [file EXCEPT ![f] = "private"]
        /\ object' = object \union {f}
        /\ post' = [post EXCEPT ![c].stored = @ \union {f}]
        /\ UNCHANGED <<kase, desk, faults>>

\* Its own catch rolls back what it has stored so far.
StoreFails(c) ==
    /\ post[c].pc = "store" /\ Fault
    /\ PostGoto(c, IF post[c].stored = {} THEN "done" ELSE "rollback")
    /\ UNCHANGED <<kase, file, object, desk>>

StoreEnds(c) ==
    /\ post[c].pc = "store"
    /\ PostGoto(c, "insert")
    /\ UNCHANGED <<kase, file, object, desk, faults>>

\* Without the foreign key: the report was looked up before.
MutantPresent(r) == TRUE

\* The foreign key to a report.
Present(r) == r # None => Exists(r)

AfterFailure(c) == IF post[c].stored = {} THEN "done" ELSE "rollback"
InsertRow(c) ==
    kase' = [kase EXCEPT ![c] =
        [status |-> "Pending", about |-> post[c].about, files |-> post[c].stored]]

\* createReportSubmission and createAppeal: a batch, which fails when the
\* report it refers to is gone.
Insert(c) ==
    /\ post[c].pc = "insert"
    /\ IF Present(post[c].about)
       THEN InsertRow(c) /\ PostGoto(c, "done")
       ELSE PostGoto(c, AfterFailure(c)) /\ UNCHANGED kase
    /\ UNCHANGED <<file, object, desk, faults>>

\* The batch throws, and did or did not take effect.
InsertThrows(c) ==
    /\ post[c].pc = "insert" /\ Fault
    /\ \/ UNCHANGED kase
       \/ Present(post[c].about) /\ InsertRow(c)
    /\ PostGoto(c, AfterFailure(c))
    /\ UNCHANGED <<file, object, desk>>

MutantNotCommitted(c) == TRUE

\* rollbackUncommittedEvidenceAssets: a case that was committed keeps its
\* images.
NotCommitted(c) == ~Filed(c)
RollbackCommitted(c) ==
    /\ post[c].pc = "rollback"
    /\ PostGoto(c, IF NotCommitted(c) THEN "check" ELSE "done")
    /\ UNCHANGED <<kase, file, object, desk, faults>>

\* Every image must still be as it was stored.
RollbackCheck(c) ==
    /\ post[c].pc = "check"
    /\ PostGoto(c, IF \A f \in post[c].stored : file[f] = "private" /\ f \notin Frozen
                   THEN "erase" ELSE "done")
    /\ UNCHANGED <<kase, file, object, desk, faults>>

\* The objects of all images at once; some of the calls may fail.
RollbackErase(c) ==
    /\ post[c].pc = "erase"
    /\ object' = object \ post[c].stored
    /\ PostGoto(c, "rows")
    /\ UNCHANGED <<kase, file, desk, faults>>
RollbackEraseFails(c) ==
    /\ post[c].pc = "erase" /\ Fault
    /\ \E left \in SUBSET post[c].stored :
           left # {} /\ object' = object \ (post[c].stored \ left)
    /\ PostGoto(c, "done")
    /\ UNCHANGED <<kase, file, desk>>

\* The rows, each guarded once more.
RollbackRows(c) ==
    /\ post[c].pc = "rows"
    /\ file' = [f \in File |->
                   IF f \in post[c].stored /\ file[f] = "private" /\ f \notin Frozen /\ ~Filed(c)
                   THEN "gone" ELSE file[f]]
    /\ PostGoto(c, "done")
    /\ UNCHANGED <<kase, object, desk, faults>>

PostDies(c) ==
    /\ post[c].pc \notin {"new", "done"} /\ Fault
    /\ PostGoto(c, "done")
    /\ UNCHANGED <<kase, file, object, desk>>

----------------------------------------------------------------------------
(* Moderation. *)

\* A moderator takes an image up for a report from the evidence queue, which
\* lists the images of requests that have not filed their case yet.
TakeUp(f) ==
    /\ file[f] = "private"
    /\ file' = [file EXCEPT ![f] = "public"]
    /\ UNCHANGED <<kase, object, post, desk, faults>>

\* PATCH: the result report is looked up, then the case.
DecideRead(d) ==
    /\ desk[d] = NoDesk
    /\ \E c \in Case, r \in Report \union {None} :
           /\ Filed(c)
           /\ Present(r) /\ (r # None => c \notin Appeal)
           /\ desk' = [desk EXCEPT ![d] = [NoDesk EXCEPT !.pc = "decide", !.case = c, !.about = r]]
    /\ UNCHANGED <<kase, file, object, post, faults>>

\* moderateReportSubmission and moderateAppeal: an UPDATE of the row by its id.
DecideWrite(d) ==
    LET q == desk[d]
        about == IF q.case \in Appeal THEN kase[q.case].about ELSE q.about
    IN  /\ q.pc = "decide"
        /\ IF Filed(q.case) /\ Present(about)
           THEN \E status \in Status :
                    kase' = [kase EXCEPT ![q.case].status = status, ![q.case].about = about]
           ELSE UNCHANGED kase
        /\ desk' = [desk EXCEPT ![d] = NoDesk]
        /\ UNCHANGED <<file, object, post, faults>>

----------------------------------------------------------------------------
(* DELETE, by an admin: permanentlyRemoveReportSubmission and -Appeal. *)

RemovalRead(d) ==
    /\ desk[d] = NoDesk
    /\ \E c \in Case :
           /\ Filed(c)
           /\ desk' = [desk EXCEPT ![d] =
                  [NoDesk EXCEPT !.pc = "assets", !.case = c, !.files = kase[c].files]]
    /\ UNCHANGED <<kase, file, object, post, faults>>

\* deleteQuarantineFiles: every image must exist and none be under hold.
RemovalCheck(d) ==
    /\ desk[d].pc = "assets"
    /\ desk' = [desk EXCEPT ![d] =
           IF \A f \in desk[d].files : file[f] \notin {"none", "gone"} /\ f \notin Frozen
           THEN [@ EXCEPT !.pc = "delete"] ELSE NoDesk]
    /\ UNCHANGED <<kase, file, object, post, faults>>

MutantAlreadyGone(f) == file[f] \in {"deleted", "leased"}

\* deleteEvidenceAsset: done before, under way elsewhere, or claimed now.
AlreadyGone(f) == file[f] = "deleted"
RemovalClaim(d, f) ==
    /\ desk[d].pc = "delete" /\ f \in desk[d].files
    /\ IF AlreadyGone(f)
       THEN desk' = [desk EXCEPT ![d].files = @ \ {f}] /\ UNCHANGED file
       ELSE IF file[f] = "leased"
       THEN desk' = [desk EXCEPT ![d] = NoDesk] /\ UNCHANGED file
       ELSE /\ file' = [file EXCEPT ![f] = "leased"]
            /\ desk' = [desk EXCEPT ![d].pc = "erasing", ![d].files = @ \ {f}, ![d].now = f]
    /\ UNCHANGED <<kase, object, post, faults>>

RemovalErases(d) ==
    /\ desk[d].pc = "erasing"
    /\ file' = [file EXCEPT ![desk[d].now] = "deleted"]
    /\ object' = object \ {desk[d].now}
    /\ desk' = [desk EXCEPT ![d].pc = "delete", ![d].now = <<>>]
    /\ UNCHANGED <<kase, post, faults>>

\* A storage failure releases the image and ends the removal; the case stays.
RemovalFails(d) ==
    /\ desk[d].pc = "erasing" /\ Fault
    /\ file' = [file EXCEPT ![desk[d].now] = "withheld"]
    /\ \/ UNCHANGED object
       \/ object' = object \ {desk[d].now}
    /\ desk' = [desk EXCEPT ![d] = NoDesk]
    /\ UNCHANGED <<kase, post>>

RemovalWrite(d) ==
    LET c == desk[d].case
    IN  /\ desk[d].pc = "delete" /\ desk[d].files = {}
        /\ kase' = IF Filed(c) THEN [kase EXCEPT ![c].status = "removed", ![c].about = None]
                   ELSE kase
        /\ desk' = [desk EXCEPT ![d] = NoDesk]
        /\ UNCHANGED <<file, object, post, faults>>

\* A removed report takes its appeals along, and no submission names it.
DropCasesOf(r) ==
    /\ kase' = [c \in Case |->
           IF ~Filed(c) \/ kase[c].about # r THEN kase[c]
           ELSE [kase[c] EXCEPT !.about = None,
                                !.status = IF c \in Appeal THEN "cascaded" ELSE @]]
    /\ UNCHANGED <<file, object, post, desk, faults>>

IntakeStep ==
    \/ \E c \in Case :
           \/ PostBegin(c) \/ StoreFails(c) \/ StoreEnds(c) \/ Insert(c) \/ InsertThrows(c)
           \/ RollbackCommitted(c) \/ RollbackCheck(c) \/ RollbackErase(c)
           \/ RollbackEraseFails(c) \/ RollbackRows(c) \/ PostDies(c)
    \/ \E f \in File : StoreFile(f) \/ TakeUp(f) \/ \E d \in Desk : RemovalClaim(d, f)
    \/ \E d \in Desk :
           \/ DecideRead(d) \/ DecideWrite(d)
           \/ RemovalRead(d) \/ RemovalCheck(d) \/ RemovalErases(d) \/ RemovalFails(d)
           \/ RemovalWrite(d)

----------------------------------------------------------------------------
IntakeTypeOK ==
    /\ kase \in [Case -> CaseRow]
    /\ file \in [File -> FileState]
    /\ object \subseteq File
    /\ post \in [Case -> [pc : PostPc, about : Report \union {None}, stored : SUBSET File]]
    /\ desk \in [Desk -> [pc : DeskPc, case : Case \union {NoCase}, about : Report \union {None},
                          files : SUBSET File, now : File \union {<<>>}]]
    /\ faults \in Nat

\* A case that was filed keeps the images it was filed with until an admin
\* deletes them: not even the request that filed it, told that it failed,
\* takes them away.
CommittedCaseKeepsItsEvidence ==
    \A c \in Case : Filed(c) =>
        \A f \in kase[c].files :
            file[f] \in {"private", "public"} => f \in object

\* When an admin has removed a case, none of its images is left, although two
\* removals may run at once and each may have failed half way before.
RemovedCaseHasNoEvidence ==
    \A c \in Case : kase[c].status = "removed" =>
        \A f \in kase[c].files : file[f] = "deleted" /\ f \notin object
=============================================================================
