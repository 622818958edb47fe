---------------------------- MODULE IntakeProofs ----------------------------
(***************************************************************************)
(* Proofs about the cases and the replies of Community.  A request that    *)
(* was told that its case failed rolls its images back, two moderators may *)
(* remove one case at a time, and either may stop half way: what ties them *)
(* together is who may still change an image.                              *)
(***************************************************************************)
EXTENDS FamilyProofs

USE ReportsConstants, IntakeConstants

-----------------------------------------------------------------------------
(* The inductive invariant. *)

Filing == {"new", "store", "insert"}
Undoing == {"check", "erase", "rows"}
Removing == {"assets", "delete", "erasing"}

\* A request files its case once and undoes only what was not committed.
PostOK(c) ==
    /\ \A f \in post[c].stored : f[1] = c
    /\ \A f \in kase[c].files : f[1] = c
    /\ post[c].pc \in Filing => kase[c].status = "none"
    /\ post[c].pc \in Undoing => ~Filed(c)

\* An image loses its object in storage only when it is deleted, or when its
\* case was not committed and never will be.
FileOK(f) ==
    /\ file[f] \in {"private", "public"} /\ f \notin object =>
           ~Filed(f[1]) /\ post[f[1]].pc \notin Filing
    /\ file[f] = "deleted" => f \notin object

\* A removal has deleted every image of its case that it does not still hold,
\* and leases the one it is about to erase.
DeskOK(d) ==
    /\ desk[d].pc # "idle" => desk[d].case \in Case
    /\ desk[d].pc \in Removing =>
           /\ kase[desk[d].case].status # "none"
           /\ \A f \in kase[desk[d].case].files :
                  \/ f \in desk[d].files
                  \/ desk[d].pc = "erasing" /\ f = desk[d].now
                  \/ file[f] = "deleted"
    /\ desk[d].pc = "erasing" => desk[d].now \in File /\ file[desk[d].now] = "leased"

LeasesApart ==
    \A d, e \in Desk :
        desk[d].pc = "erasing" /\ desk[e].pc = "erasing" /\ desk[d].now = desk[e].now => d = e

RemovedIsDeleted ==
    \A c \in Case : kase[c].status = "removed" => \A f \in kase[c].files : file[f] = "deleted"

IntakeInv ==
    /\ IntakeTypeOK
    /\ \A c \in Case : PostOK(c)
    /\ \A f \in File : FileOK(f)
    /\ \A d \in Desk : DeskOK(d)
    /\ LeasesApart
    /\ RemovedIsDeleted

LEMMA IntakeInvShows ==
    IntakeInv => CommittedCaseKeepsItsEvidence /\ RemovedCaseHasNoEvidence
<1>. SUFFICES ASSUME IntakeInv PROVE CommittedCaseKeepsItsEvidence /\ RemovedCaseHasNoEvidence
  OBVIOUS
<1>1. \A c \in Case : \A f \in kase[c].files : f \in File /\ f[1] = c
  BY DEF IntakeInv, IntakeTypeOK, CaseRow, PostOK
<1>2. \A f \in File : FileOK(f)
  BY DEF IntakeInv
<1>3. CommittedCaseKeepsItsEvidence
  BY <1>1, <1>2 DEF CommittedCaseKeepsItsEvidence, FileOK
<1>4. RemovedCaseHasNoEvidence
  BY <1>1, <1>2 DEF RemovedCaseHasNoEvidence, FileOK, IntakeInv, RemovedIsDeleted
<1>. QED
  BY <1>3, <1>4

PostRow == [pc : PostPc, about : Report \union {None}, stored : SUBSET File]
DeskRow == [pc : DeskPc, case : Case \union {NoCase}, about : Report \union {None},
            files : SUBSET File, now : File \union {<<>>}]

\* What the removals rely on is left alone by all others.
LEMMA DesksStay ==
    ASSUME IntakeInv, UNCHANGED <<kase, desk>>,
           \A f \in File : file[f] \in {"deleted", "leased"} => file'[f] = file[f]
    PROVE  (LeasesApart /\ RemovedIsDeleted)' /\ \A d \in Desk : DeskOK(d)'
<1>. USE DEF IntakeInv
<1>1. \A c \in Case : kase[c].files \subseteq File
  BY DEF IntakeTypeOK, CaseRow
<1>2. LeasesApart' /\ RemovedIsDeleted'
  BY <1>1 DEF LeasesApart, RemovedIsDeleted
<1>3. ASSUME NEW d \in Desk PROVE DeskOK(d)'
  <2>1. DeskOK(d)
    OBVIOUS
  <2>2. ASSUME desk[d].pc \in Removing, NEW f \in kase[desk[d].case].files, file[f] = "deleted"
        PROVE  file'[f] = "deleted"
    <3>1. f \in File
      BY <1>1, <2>1, <2>2 DEF DeskOK, Removing
    <3>. QED
      BY <2>2, <3>1
  <2>3. desk[d].pc = "erasing" => file'[desk[d].now] = "leased"
    BY <2>1 DEF DeskOK
  <2>. QED
    BY <2>1, <2>2, <2>3 DEF DeskOK
<1>. QED
  BY <1>2, <1>3

-----------------------------------------------------------------------------
(* The requests that file a case. *)

\* A request moves on; tables and moderators stay as they are.
LEMMA PostMoves ==
    ASSUME IntakeInv, NEW c \in Case, NEW pc \in PostPc, PostGoto(c, pc),
           UNCHANGED <<kase, file, object, desk>>, faults' \in Nat,
           pc \in Filing => post[c].pc \in Filing,
           pc \in Undoing => ~Filed(c)
    PROVE  IntakeInv'
<1>. USE DEF IntakeInv
<1>1. /\ post' \in [Case -> PostRow] /\ post'[c].pc = pc /\ post'[c].stored = post[c].stored
      /\ \A b \in Case : b # c => post'[b] = post[b]
  BY DEF PostGoto, IntakeTypeOK, PostRow
<1>2. IntakeTypeOK'
  BY <1>1 DEF IntakeTypeOK, PostRow
<1>3. ASSUME NEW b \in Case PROVE PostOK(b)'
  BY <1>1 DEF PostOK, Filed
<1>4. ASSUME NEW f \in File PROVE FileOK(f)'
  <2>1. f[1] \in Case
    BY DEF File
  <2>. QED
    BY <1>1, <2>1 DEF FileOK, Filed
<1>5. (LeasesApart /\ RemovedIsDeleted)' /\ \A d \in Desk : DeskOK(d)'
  BY DEF LeasesApart, RemovedIsDeleted, DeskOK
<1>. QED
  BY <1>2, <1>3, <1>4, <1>5

LEMMA PostBeginStep ==
    ASSUME FamilyInv, IntakeInv, NEW c \in Case, PostBegin(c)
    PROVE  IntakeInv'
<1>. USE DEF IntakeInv
<1>1. PICK r \in Report \union {None} :
          post' = [post EXCEPT ![c].pc = "store", ![c].about = IF r = None THEN None ELSE ResolvesTo(r)]
  BY DEF PostBegin
<1>. DEFINE about == IF r = None THEN None ELSE ResolvesTo(r)
            q1 == [post[c] EXCEPT !.pc = "store"]
            q2 == [q1 EXCEPT !.about = about]
<1>2. post[c] \in PostRow /\ post[c].pc = "new" /\ UNCHANGED <<kase, file, object, desk, faults>>
  BY DEF PostBegin, IntakeTypeOK, PostRow
<1>3. q1 \in PostRow /\ q1.pc = "store" /\ q1.stored = post[c].stored
  BY <1>2 DEF PostRow, PostPc
<1>. HIDE DEF q1
<1>4. about \in Report \union {None}
  BY ResolvesToListed DEF Listed
<1>. HIDE DEF about
<1>5. q2 \in PostRow /\ q2.pc = "store" /\ q2.stored = post[c].stored
  BY <1>3, <1>4 DEF PostRow
<1>6. post' = [post EXCEPT ![c] = q2]
  BY <1>1 DEF q1, q2, about
<1>. HIDE DEF q2
<1>7. /\ post' \in [Case -> PostRow] /\ post'[c].pc = "store" /\ post'[c].stored = post[c].stored
      /\ \A b \in Case : b # c => post'[b] = post[b]
  BY <1>5, <1>6 DEF IntakeTypeOK, PostRow
<1>8. IntakeTypeOK'
  BY <1>2, <1>7 DEF IntakeTypeOK, PostRow
<1>9. ASSUME NEW b \in Case PROVE PostOK(b)'
  BY <1>2, <1>7 DEF PostOK, Filed, Filing, Undoing
<1>10. ASSUME NEW f \in File PROVE FileOK(f)'
  BY <1>2, <1>7 DEF FileOK, Filed, Filing, File
<1>11. (LeasesApart /\ RemovedIsDeleted)' /\ \A d \in Desk : DeskOK(d)'
  BY <1>2 DEF LeasesApart, RemovedIsDeleted, DeskOK
<1>. QED
  BY <1>8, <1>9, <1>10, <1>11

LEMMA StoreFileStep ==
    ASSUME IntakeInv, NEW f \in File, StoreFile(f)
    PROVE  IntakeInv'
<1>. USE DEF IntakeInv
<1>1. f[1] \in Case /\ post[f[1]].pc = "store" /\ file[f] = "none" /\ UNCHANGED <<kase, desk, faults>>
  BY DEF StoreFile, File
<1>2. /\ post' \in [Case -> PostRow] /\ post'[f[1]].stored = post[f[1]].stored \union {f}
      /\ \A b \in Case : b # f[1] => post'[b] = post[b]
      /\ \A b \in Case : post'[b].pc = post[b].pc
  BY <1>1 DEF StoreFile, IntakeTypeOK, PostRow
<1>3. /\ file' \in [File -> FileState] /\ file'[f] = "private" /\ object' = object \union {f}
      /\ \A g \in File : g # f => file'[g] = file[g]
  BY DEF StoreFile, IntakeTypeOK, FileState
<1>4. IntakeTypeOK'
  BY <1>1, <1>2, <1>3 DEF IntakeTypeOK, PostRow
<1>5. ASSUME NEW b \in Case PROVE PostOK(b)'
  <2>1. \A g \in post'[b].stored : g[1] = b
    BY <1>2 DEF PostOK
  <2>. QED
    BY <1>1, <1>2, <2>1 DEF PostOK, Filed
<1>6. ASSUME NEW g \in File PROVE FileOK(g)'
  BY <1>1, <1>2, <1>3 DEF FileOK, Filed, File
<1>7. \A g \in File : file[g] \in {"deleted", "leased"} => file'[g] = file[g]
  BY <1>1, <1>3
<1>. QED
  BY <1>1, <1>4, <1>5, <1>6, <1>7, DesksStay

\* The row arrives; its request is answered, or told that it failed.
LEMMA InsertRowStep ==
    ASSUME IntakeInv, NEW c \in Case, NEW pc \in {"done", "rollback"}, post[c].pc = "insert",
           InsertRow(c), PostGoto(c, pc), UNCHANGED <<file, object, desk>>, faults' \in Nat
    PROVE  IntakeInv'
<1>. USE DEF IntakeInv
<1>. DEFINE row == [status |-> "Pending", about |-> post[c].about, files |-> post[c].stored]
<1>1. /\ post' \in [Case -> PostRow] /\ post'[c].pc = pc /\ post'[c].stored = post[c].stored
      /\ \A b \in Case : b # c => post'[b] = post[b]
  BY DEF PostGoto, IntakeTypeOK, PostRow, PostPc
<1>2. post[c] \in PostRow
  BY DEF IntakeTypeOK, PostRow
<1>3. row \in CaseRow /\ row.status = "Pending" /\ row.files = post[c].stored
  BY <1>2 DEF PostRow, CaseRow, Status
<1>4. kase' = [kase EXCEPT ![c] = row] /\ kase[c].status = "none"
  BY DEF InsertRow, PostOK, Filing
<1>. HIDE DEF row
<1>5. /\ kase' \in [Case -> CaseRow] /\ kase'[c] = row
      /\ \A b \in Case : b # c => kase'[b] = kase[b]
  BY <1>3, <1>4 DEF IntakeTypeOK
<1>6. IntakeTypeOK'
  BY <1>1, <1>5 DEF IntakeTypeOK, PostRow
<1>7. ASSUME NEW b \in Case PROVE PostOK(b)'
  BY <1>1, <1>3, <1>5 DEF PostOK, Filed, Filing, Undoing
<1>8. ASSUME NEW f \in File PROVE FileOK(f)'
  <2>1. f[1] \in Case
    BY DEF File
  <2>2. CASE f[1] = c
    BY <2>2 DEF FileOK, Filing
  <2>3. CASE f[1] # c
    BY <1>1, <1>5, <2>1, <2>3 DEF FileOK, Filed
  <2>. QED
    BY <2>2, <2>3
<1>9. ASSUME NEW d \in Desk PROVE DeskOK(d)'
  BY <1>4, <1>5 DEF DeskOK, Removing
<1>10. LeasesApart' /\ RemovedIsDeleted'
  BY <1>3, <1>5 DEF LeasesApart, RemovedIsDeleted
<1>. QED
  BY <1>6, <1>7, <1>8, <1>9, <1>10

\* The rollback erases objects of images that nobody has committed.
LEMMA EraseObjectsStep ==
    ASSUME IntakeInv, NEW c \in Case, NEW pc \in {"rows", "done"}, post[c].pc = "erase", PostGoto(c, pc),
           NEW lost \in SUBSET post[c].stored, object' = object \ lost,
           UNCHANGED <<kase, file, desk>>, faults' \in Nat
    PROVE  IntakeInv'
<1>. USE DEF IntakeInv
<1>1. /\ post' \in [Case -> PostRow] /\ post'[c].pc = pc /\ post'[c].stored = post[c].stored
      /\ \A b \in Case : b # c => post'[b] = post[b]
  BY DEF PostGoto, IntakeTypeOK, PostRow, PostPc
<1>2. IntakeTypeOK'
  BY <1>1 DEF IntakeTypeOK, PostRow
<1>3. ~Filed(c) /\ \A f \in lost : f[1] = c
  BY DEF PostOK, Undoing
<1>4. ASSUME NEW b \in Case PROVE PostOK(b)'
  BY <1>1, <1>3 DEF PostOK, Filed, Filing, Undoing
<1>5. ASSUME NEW f \in File PROVE FileOK(f)'
  <2>1. f[1] \in Case
    BY DEF File
  <2>2. CASE f \in lost
    BY <1>1, <1>3, <2>2 DEF FileOK, Filing, Filed
  <2>3. CASE f \notin lost
    BY <1>1, <2>1, <2>3 DEF FileOK, Filed, Filing
  <2>. QED
    BY <2>2, <2>3
<1>6. (LeasesApart /\ RemovedIsDeleted)' /\ \A d \in Desk : DeskOK(d)'
  BY DEF LeasesApart, RemovedIsDeleted, DeskOK
<1>. QED
  BY <1>2, <1>4, <1>5, <1>6

\* Images in "private" change to "gone" or "public" and nothing else happens to
\* them: neither a deleted image nor a leased one is touched.
LEMMA FilesMove ==
    ASSUME IntakeInv, file' \in [File -> FileState],
           \A f \in File : file'[f] = file[f] \/ (file[f] = "private" /\ file'[f] \in {"gone", "public"}),
           UNCHANGED <<kase, object, desk>>, faults' \in Nat,
           post' \in [Case -> PostRow],
           \A c \in Case : /\ post'[c].stored = post[c].stored
                           /\ post'[c].pc = post[c].pc \/ post'[c].pc = "done"
    PROVE  IntakeInv'
<1>. USE DEF IntakeInv
<1>1. IntakeTypeOK'
  BY DEF IntakeTypeOK, PostRow
<1>2. ASSUME NEW c \in Case PROVE PostOK(c)'
  BY DEF PostOK, Filed, Filing, Undoing
<1>3. ASSUME NEW f \in File PROVE FileOK(f)'
  <2>1. f[1] \in Case
    BY DEF File
  <2>. QED
    BY <2>1 DEF FileOK, Filed, Filing
<1>4. \A f \in File : file[f] \in {"deleted", "leased"} => file'[f] = file[f]
  OBVIOUS
<1>. QED
  BY <1>1, <1>2, <1>3, <1>4, DesksStay

LEMMA RollbackRowsStep ==
    ASSUME IntakeInv, NEW c \in Case, RollbackRows(c)
    PROVE  IntakeInv'
<1>1. /\ post' \in [Case -> PostRow]
      /\ \A b \in Case : /\ post'[b].stored = post[b].stored
                         /\ post'[b].pc = post[b].pc \/ post'[b].pc = "done"
  BY DEF RollbackRows, PostGoto, IntakeInv, IntakeTypeOK, PostRow, PostPc
<1>2. /\ file' \in [File -> FileState]
      /\ \A f \in File : file'[f] = file[f] \/ (file[f] = "private" /\ file'[f] \in {"gone", "public"})
  BY DEF RollbackRows, IntakeInv, IntakeTypeOK, FileState
<1>. QED
  BY <1>1, <1>2, FilesMove DEF RollbackRows, IntakeInv, IntakeTypeOK

LEMMA TakeUpStep ==
    ASSUME IntakeInv, NEW f \in File, TakeUp(f)
    PROVE  IntakeInv'
<1>1. post' \in [Case -> PostRow] /\ post' = post
  BY DEF TakeUp, IntakeInv, IntakeTypeOK, PostRow
<1>2. /\ file' \in [File -> FileState]
      /\ \A g \in File : file'[g] = file[g] \/ (file[g] = "private" /\ file'[g] \in {"gone", "public"})
  BY DEF TakeUp, IntakeInv, IntakeTypeOK, FileState
<1>. QED
  BY <1>1, <1>2, FilesMove DEF TakeUp, IntakeInv, IntakeTypeOK

LEMMA PostStep ==
    ASSUME FamilyInv, IntakeInv, NEW c \in Case,
           \/ PostBegin(c) \/ StoreFails(c) \/ StoreEnds(c) \/ Insert(c) \/ InsertThrows(c)
           \/ RollbackCommitted(c) \/ RollbackCheck(c) \/ RollbackErase(c)
           \/ RollbackEraseFails(c) \/ RollbackRows(c) \/ PostDies(c)
    PROVE  IntakeInv'
<1>. DEFINE Untouched == UNCHANGED <<kase, file, object, desk>>
<1>1. faults' \in Nat
  BY DEF PostBegin, StoreFails, StoreEnds, Insert, InsertThrows, RollbackCommitted, RollbackCheck,
     RollbackErase, RollbackEraseFails, RollbackRows, PostDies, Fault, IntakeInv, IntakeTypeOK
<1>2. CASE StoreFails(c) \/ StoreEnds(c) \/ RollbackCommitted(c) \/ RollbackCheck(c) \/ PostDies(c)
  <2>1. Untouched
    BY <1>2 DEF StoreFails, StoreEnds, RollbackCommitted, RollbackCheck, PostDies
  <2>2. PICK pc \in PostPc : /\ PostGoto(c, pc)
                             /\ pc \in Filing => post[c].pc \in Filing
                             /\ pc \in Undoing => ~Filed(c)
    BY <1>2 DEF StoreFails, StoreEnds, RollbackCommitted, RollbackCheck, PostDies, PostPc, Filing, Undoing,
       NotCommitted, IntakeInv, PostOK
  <2>. QED
    BY <1>1, <2>1, <2>2, PostMoves
<1>3. CASE Insert(c) \/ InsertThrows(c)
  <2>1. post[c].pc = "insert" /\ UNCHANGED <<file, object, desk>>
    BY <1>3 DEF Insert, InsertThrows
  <2>2. AfterFailure(c) \in {"done", "rollback"}
    BY DEF AfterFailure
  <2>3. PICK pc \in {"done", "rollback"} : PostGoto(c, pc)
    BY <1>3, <2>2 DEF Insert, InsertThrows
  <2>4. InsertRow(c) \/ UNCHANGED kase
    BY <1>3 DEF Insert, InsertThrows
  <2>. QED
    BY <1>1, <2>1, <2>3, <2>4, InsertRowStep, PostMoves DEF PostPc, Filing, Undoing
<1>4. CASE RollbackErase(c)
  <2>1. object' = object \ post[c].stored /\ PostGoto(c, "rows") /\ post[c].pc = "erase"
    BY <1>4 DEF RollbackErase
  <2>. QED
    BY <1>1, <1>4, <2>1, EraseObjectsStep DEF RollbackErase
<1>5. CASE RollbackEraseFails(c)
  <2>1. PICK left \in SUBSET post[c].stored : object' = object \ (post[c].stored \ left)
    BY <1>5 DEF RollbackEraseFails
  <2>2. post[c].stored \ left \in SUBSET post[c].stored
    OBVIOUS
  <2>. QED
    BY <1>1, <1>5, <2>1, <2>2, EraseObjectsStep DEF RollbackEraseFails
<1>. QED
  BY <1>2, <1>3, <1>4, <1>5, PostBeginStep, RollbackRowsStep

-----------------------------------------------------------------------------
(* Decisions and removals. *)

\* A desk takes up, or lays down, a request; the tables stay.
LEMMA DeskMoves ==
    ASSUME IntakeInv, NEW d \in Desk, NEW q \in DeskRow, desk' = [desk EXCEPT ![d] = q],
           q.pc # "idle" => q.case \in Case,
           q.pc # "erasing",
           q.pc \in Removing =>
               /\ kase[q.case].status # "none"
               /\ \A f \in kase[q.case].files : f \in q.files \/ file[f] = "deleted",
           UNCHANGED <<kase, file, object, post, faults>>
    PROVE  IntakeInv'
<1>. USE DEF IntakeInv
<1>1. /\ desk' \in [Desk -> DeskRow] /\ desk'[d] = q
      /\ \A e \in Desk : e # d => desk'[e] = desk[e]
  BY DEF IntakeTypeOK, DeskRow
<1>2. IntakeTypeOK'
  BY <1>1 DEF IntakeTypeOK, DeskRow
<1>3. (RemovedIsDeleted /\ \A c \in Case : PostOK(c))' /\ \A f \in File : FileOK(f)'
  BY DEF RemovedIsDeleted, PostOK, FileOK, Filed
<1>4. LeasesApart'
  BY <1>1 DEF LeasesApart
<1>5. ASSUME NEW e \in Desk PROVE DeskOK(e)'
  BY <1>1 DEF DeskOK
<1>. QED
  BY <1>2, <1>3, <1>4, <1>5

LEMMA NoDeskRow == NoDesk \in DeskRow /\ NoDesk.pc = "idle" /\ NoDesk.files = {}
BY DEF NoDesk, DeskRow, DeskPc

LEMMA DeskIdles ==
    ASSUME IntakeInv, NEW d \in Desk, desk' = [desk EXCEPT ![d] = NoDesk],
           UNCHANGED <<kase, file, object, post, faults>>
    PROVE  IntakeInv'
BY NoDeskRow, DeskMoves DEF Removing

DeskKeeps(q, r) == r.case = q.case

LEMMA DeskFields ==
    ASSUME NEW q \in DeskRow
    PROVE  /\ \A x \in DeskPc : /\ [q EXCEPT !.pc = x] \in DeskRow /\ DeskKeeps(q, [q EXCEPT !.pc = x])
                                /\ [q EXCEPT !.pc = x].pc = x /\ [q EXCEPT !.pc = x].files = q.files
           /\ \A x \in Case : /\ [q EXCEPT !.case = x] \in DeskRow /\ [q EXCEPT !.case = x].case = x
                              /\ [q EXCEPT !.case = x].pc = q.pc
           /\ \A x \in SUBSET File : /\ [q EXCEPT !.files = x] \in DeskRow /\ DeskKeeps(q, [q EXCEPT !.files = x])
                                     /\ [q EXCEPT !.files = x].pc = q.pc /\ [q EXCEPT !.files = x].files = x
           /\ \A x \in Report \union {None} : /\ [q EXCEPT !.about = x] \in DeskRow
                                              /\ DeskKeeps(q, [q EXCEPT !.about = x])
                                              /\ [q EXCEPT !.about = x].pc = q.pc
           /\ \A x \in File \union {<<>>} :
                 /\ [q EXCEPT !.now = x] \in DeskRow /\ DeskKeeps(q, [q EXCEPT !.now = x])
                 /\ [q EXCEPT !.now = x].pc = q.pc /\ [q EXCEPT !.now = x].now = x
                 /\ [q EXCEPT !.now = x].files = q.files
<1>1. ASSUME NEW x \in DeskPc
      PROVE  /\ [q EXCEPT !.pc = x] \in DeskRow /\ DeskKeeps(q, [q EXCEPT !.pc = x])
             /\ [q EXCEPT !.pc = x].pc = x /\ [q EXCEPT !.pc = x].files = q.files
  BY DEF DeskRow, DeskKeeps
<1>2. ASSUME NEW x \in Case
      PROVE  /\ [q EXCEPT !.case = x] \in DeskRow /\ [q EXCEPT !.case = x].case = x
             /\ [q EXCEPT !.case = x].pc = q.pc
  BY DEF DeskRow
<1>3. ASSUME NEW x \in SUBSET File
      PROVE  /\ [q EXCEPT !.files = x] \in DeskRow /\ DeskKeeps(q, [q EXCEPT !.files = x])
             /\ [q EXCEPT !.files = x].pc = q.pc /\ [q EXCEPT !.files = x].files = x
  BY DEF DeskRow, DeskKeeps
<1>4. ASSUME NEW x \in Report \union {None}
      PROVE  /\ [q EXCEPT !.about = x] \in DeskRow /\ DeskKeeps(q, [q EXCEPT !.about = x])
             /\ [q EXCEPT !.about = x].pc = q.pc
  BY DEF DeskRow, DeskKeeps
<1>5. ASSUME NEW x \in File \union {<<>>}
      PROVE  /\ [q EXCEPT !.now = x] \in DeskRow /\ DeskKeeps(q, [q EXCEPT !.now = x])
             /\ [q EXCEPT !.now = x].pc = q.pc /\ [q EXCEPT !.now = x].now = x
             /\ [q EXCEPT !.now = x].files = q.files
  BY DEF DeskRow, DeskKeeps
<1>. QED
  BY <1>1, <1>2, <1>3, <1>4, <1>5

LEMMA DecideReadStep ==
    ASSUME IntakeInv, NEW d \in Desk, DecideRead(d)
    PROVE  IntakeInv'
<1>1. PICK c \in Case, r \in Report \union {None} :
          desk' = [desk EXCEPT ![d] = [NoDesk EXCEPT !.pc = "decide", !.case = c, !.about = r]]
  BY DEF DecideRead
<1>. DEFINE n == NoDesk
            q1 == [n EXCEPT !.pc = "decide"]
            q2 == [q1 EXCEPT !.case = c]
            q3 == [q2 EXCEPT !.about = r]
<1>2. n \in DeskRow
  BY NoDeskRow
<1>. HIDE DEF n
<1>3. q1 \in DeskRow /\ q1.pc = "decide"
  BY <1>2, DeskFields DEF DeskPc
<1>. HIDE DEF q1
<1>4. q2 \in DeskRow /\ q2.pc = "decide" /\ q2.case = c
  BY <1>3, DeskFields
<1>. HIDE DEF q2
<1>5. q3 \in DeskRow /\ q3.pc = "decide" /\ q3.case = c
  BY <1>4, DeskFields DEF DeskKeeps
<1>6. desk' = [desk EXCEPT ![d] = q3]
  BY <1>1 DEF q3, q2, q1, n
<1>. HIDE DEF q3
<1>. QED
  BY <1>5, <1>6, DeskMoves DEF DecideRead, Removing

LEMMA RemovalReadStep ==
    ASSUME IntakeInv, NEW d \in Desk, RemovalRead(d)
    PROVE  IntakeInv'
<1>1. PICK c \in Case :
          /\ Filed(c)
          /\ desk' = [desk EXCEPT ![d] = [NoDesk EXCEPT !.pc = "assets", !.case = c, !.files = kase[c].files]]
  BY DEF RemovalRead
<1>. DEFINE n == NoDesk
            q1 == [n EXCEPT !.pc = "assets"]
            q2 == [q1 EXCEPT !.case = c]
            images == kase[c].files
            q3 == [q2 EXCEPT !.files = images]
<1>2. n \in DeskRow
  BY NoDeskRow
<1>. HIDE DEF n
<1>3. q1 \in DeskRow /\ q1.pc = "assets"
  BY <1>2, DeskFields DEF DeskPc
<1>. HIDE DEF q1
<1>4. q2 \in DeskRow /\ q2.pc = "assets" /\ q2.case = c
  BY <1>3, DeskFields
<1>. HIDE DEF q2
<1>5. images \in SUBSET File
  BY DEF IntakeInv, IntakeTypeOK, CaseRow
<1>. HIDE DEF images
<1>6. q3 \in DeskRow /\ q3.pc = "assets" /\ q3.case = c /\ q3.files = images
  BY <1>4, <1>5, DeskFields DEF DeskKeeps
<1>7. desk' = [desk EXCEPT ![d] = q3]
  BY <1>1 DEF q3, q2, q1, n, images
<1>. HIDE DEF q3
<1>8. kase[c].status # "none"
  BY <1>1 DEF Filed, Status
<1>. QED
  BY <1>6, <1>7, <1>8, DeskMoves DEF RemovalRead, images

LEMMA RemovalCheckStep ==
    ASSUME IntakeInv, NEW d \in Desk, RemovalCheck(d)
    PROVE  IntakeInv'
<1>. DEFINE q == [desk[d] EXCEPT !.pc = "delete"]
<1>1. desk[d] \in DeskRow /\ desk[d].pc = "assets" /\ DeskOK(d)
  BY DEF RemovalCheck, IntakeInv, IntakeTypeOK, DeskRow
<1>2. q \in DeskRow /\ q.pc = "delete" /\ q.case = desk[d].case /\ q.files = desk[d].files
  BY <1>1, DeskFields DEF DeskPc, DeskKeeps
<1>3. desk' = [desk EXCEPT ![d] = q] \/ desk' = [desk EXCEPT ![d] = NoDesk]
  BY DEF RemovalCheck
<1>. HIDE DEF q
<1>. QED
  BY <1>1, <1>2, <1>3, DeskMoves, DeskIdles DEF RemovalCheck, DeskOK, Removing

\* The desk of a removal leases its next image, which no other desk has leased.
LEMMA ClaimStep ==
    ASSUME IntakeInv, NEW d \in Desk, NEW f \in File, RemovalClaim(d, f)
    PROVE  IntakeInv'
<1>. USE DEF IntakeInv
<1>1. /\ desk[d] \in DeskRow /\ desk[d].pc = "delete" /\ DeskOK(d)
      /\ UNCHANGED <<kase, object, post, faults>>
  BY DEF RemovalClaim, IntakeTypeOK, DeskRow
<1>. DEFINE rest == desk[d].files \ {f}
            q1 == [desk[d] EXCEPT !.files = rest]
            q2 == [q1 EXCEPT !.pc = "erasing"]
            q3 == [q2 EXCEPT !.now = f]
<1>2. rest \in SUBSET File
  BY <1>1 DEF DeskRow
<1>3. q1 \in DeskRow /\ q1.pc = "delete" /\ q1.files = rest /\ q1.case = desk[d].case
  BY <1>1, <1>2, DeskFields DEF DeskKeeps
<1>. HIDE DEF q1
<1>4. q2 \in DeskRow /\ q2.pc = "erasing" /\ q2.files = rest /\ q2.case = q1.case
  BY <1>3, DeskFields DEF DeskKeeps, DeskPc
<1>. HIDE DEF q2
<1>5. q3 \in DeskRow /\ q3.pc = "erasing" /\ q3.files = rest /\ q3.case = q1.case /\ q3.now = f
  BY <1>4, DeskFields DEF DeskKeeps
<1>. HIDE DEF q3
<1>6. CASE file[f] = "deleted"
  <2>1. desk' = [desk EXCEPT ![d] = q1] /\ file' = file
    BY <1>6 DEF RemovalClaim, AlreadyGone, q1
  <2>2. \A g \in kase[q1.case].files : g \in q1.files \/ file[g] = "deleted"
    BY <1>1, <1>3, <1>6 DEF DeskOK, Removing
  <2>. QED
    BY <1>1, <1>3, <2>1, <2>2, DeskMoves DEF DeskOK, Removing
<1>7. CASE file[f] = "leased"
  BY <1>1, <1>7, DeskIdles DEF RemovalClaim, AlreadyGone
<1>8. CASE file[f] \notin {"deleted", "leased"}
  <2>1. desk' = [desk EXCEPT ![d] = q3] /\ file' = [file EXCEPT ![f] = "leased"]
    BY <1>8 DEF RemovalClaim, AlreadyGone, q1, q2, q3
  <2>2. /\ desk' \in [Desk -> DeskRow] /\ desk'[d] = q3
        /\ \A e \in Desk : e # d => desk'[e] = desk[e]
    BY <1>5, <2>1 DEF IntakeTypeOK, DeskRow
  <2>3. /\ file' \in [File -> FileState] /\ file'[f] = "leased"
        /\ \A g \in File : g # f => file'[g] = file[g]
    BY <2>1 DEF IntakeTypeOK, FileState
  <2>4. IntakeTypeOK'
    BY <1>1, <2>2, <2>3 DEF IntakeTypeOK, DeskRow
  <2>5. ASSUME NEW c \in Case PROVE PostOK(c)'
    BY <1>1 DEF PostOK, Filed
  <2>6. ASSUME NEW g \in File PROVE FileOK(g)'
    BY <1>1, <1>8, <2>3 DEF FileOK, Filed
  <2>7. \A g \in File : file[g] \in {"deleted", "leased"} => file'[g] = file[g]
    BY <1>8, <2>3
  <2>8. ASSUME NEW e \in Desk, e # d
        PROVE  DeskOK(e)' /\ (desk[e].pc = "erasing" => desk[e].now # f)
    <3>1. DeskOK(e) /\ desk'[e] = desk[e]
      BY <2>2, <2>8
    <3>2. \A g \in kase[desk[e].case].files : desk[e].pc \in Removing => g \in File
      BY <3>1 DEF DeskOK, IntakeTypeOK, CaseRow, Removing
    <3>. QED
      BY <1>1, <1>8, <2>7, <3>1, <3>2 DEF DeskOK
  <2>9. DeskOK(d)'
    <3>1. \A g \in kase[desk[d].case].files : g \in File
      BY <1>1 DEF DeskOK, IntakeTypeOK, CaseRow
    <3>2. \A g \in kase[desk[d].case].files : g \in rest \/ g = f \/ file[g] = "deleted"
      BY <1>1 DEF DeskOK, Removing
    <3>. QED
      BY <1>1, <1>3, <1>5, <2>2, <2>3, <2>7, <3>1, <3>2 DEF DeskOK, Removing
  <2>10. LeasesApart'
    BY <1>5, <2>2, <2>8 DEF LeasesApart
  <2>11. RemovedIsDeleted'
    BY <1>1, <2>7 DEF RemovedIsDeleted, IntakeTypeOK, CaseRow
  <2>. QED
    BY <2>4, <2>5, <2>6, <2>8, <2>9, <2>10, <2>11
<1>. QED
  BY <1>6, <1>7, <1>8

\* The image a desk has leased is erased, or released when storage fails.
LEMMA LeaseEnds ==
    ASSUME IntakeInv, NEW d \in Desk, desk[d].pc = "erasing", NEW q \in DeskRow,
           desk' = [desk EXCEPT ![d] = q], q.pc \in {"idle", "delete"},
           NEW state \in {"deleted", "withheld"}, file' = [file EXCEPT ![desk[d].now] = state],
           object' \in {object, object \ {desk[d].now}},
           state = "deleted" => desk[d].now \notin object',
           q.pc = "delete" => state = "deleted" /\ q.case = desk[d].case /\ q.files = desk[d].files,
           UNCHANGED <<kase, post>>, faults' \in Nat
    PROVE  IntakeInv'
<1>. USE DEF IntakeInv
<1>. DEFINE f == desk[d].now
<1>1. f \in File /\ file[f] = "leased" /\ DeskOK(d)
  BY DEF DeskOK
<1>2. /\ desk' \in [Desk -> DeskRow] /\ desk'[d] = q
      /\ \A e \in Desk : e # d => desk'[e] = desk[e]
  BY DEF IntakeTypeOK, DeskRow
<1>3. /\ file' \in [File -> FileState] /\ file'[f] = state
      /\ \A g \in File : g # f => file'[g] = file[g]
  BY <1>1 DEF IntakeTypeOK, FileState
<1>4. \A e \in Desk : e # d /\ desk[e].pc = "erasing" => desk[e].now # f
  BY DEF LeasesApart
<1>5. object' \subseteq File /\ \A g \in File : g # f => (g \in object' <=> g \in object)
  BY DEF IntakeTypeOK
<1>6. f \in object' => state = "withheld"
  OBVIOUS
<1>. HIDE DEF f
<1>7. IntakeTypeOK'
  BY <1>2, <1>3, <1>5 DEF IntakeTypeOK, DeskRow
<1>8. ASSUME NEW c \in Case PROVE PostOK(c)'
  BY DEF PostOK, Filed
<1>9. ASSUME NEW g \in File PROVE FileOK(g)'
  BY <1>3, <1>5, <1>6 DEF FileOK, Filed
<1>10. \A g \in File : file[g] = "deleted" => file'[g] = "deleted"
  BY <1>1, <1>3
<1>11. ASSUME NEW e \in Desk, e # d PROVE DeskOK(e)'
  <2>1. DeskOK(e) /\ desk'[e] = desk[e]
    BY <1>2, <1>11
  <2>2. \A g \in kase[desk[e].case].files : desk[e].pc \in Removing => g \in File
    BY <2>1 DEF DeskOK, IntakeTypeOK, CaseRow, Removing
  <2>3. desk[e].pc = "erasing" => desk[e].now \in File /\ file'[desk[e].now] = "leased"
    BY <1>3, <1>4, <1>11, <2>1 DEF DeskOK
  <2>. QED
    BY <1>10, <2>1, <2>2, <2>3 DEF DeskOK
<1>12. DeskOK(d)'
  <2>1. CASE q.pc = "idle"
    BY <1>2, <2>1 DEF DeskOK, Removing
  <2>2. CASE q.pc = "delete"
    <3>1. \A g \in kase[desk[d].case].files : g \in File
      BY <1>1 DEF DeskOK, IntakeTypeOK, CaseRow
    <3>2. \A g \in kase[desk[d].case].files : g \in desk[d].files \/ g = f \/ file[g] = "deleted"
      BY <1>1 DEF DeskOK, Removing, f
    <3>. QED
      BY <1>1, <1>2, <1>3, <1>10, <2>2, <3>1, <3>2 DEF DeskOK, Removing
  <2>. QED
    BY <2>1, <2>2
<1>13. LeasesApart'
  BY <1>2 DEF LeasesApart
<1>14. RemovedIsDeleted'
  BY <1>10 DEF RemovedIsDeleted, IntakeTypeOK, CaseRow
<1>. QED
  BY <1>7, <1>8, <1>9, <1>11, <1>12, <1>13, <1>14

LEMMA RemovalErasesStep ==
    ASSUME IntakeInv, NEW d \in Desk, RemovalErases(d)
    PROVE  IntakeInv'
<1>. DEFINE q1 == [desk[d] EXCEPT !.pc = "delete"]
            q2 == [q1 EXCEPT !.now = <<>>]
<1>1. desk[d] \in DeskRow /\ desk[d].pc = "erasing"
  BY DEF RemovalErases, IntakeInv, IntakeTypeOK, DeskRow
<1>2. q1 \in DeskRow /\ q1.pc = "delete" /\ q1.case = desk[d].case /\ q1.files = desk[d].files
  BY <1>1, DeskFields DEF DeskKeeps, DeskPc
<1>. HIDE DEF q1
<1>3. q2 \in DeskRow /\ q2.pc = "delete" /\ q2.case = desk[d].case /\ q2.files = desk[d].files
  BY <1>2, DeskFields DEF DeskKeeps
<1>4. /\ desk' = [desk EXCEPT ![d] = q2] /\ file' = [file EXCEPT ![desk[d].now] = "deleted"]
      /\ object' = object \ {desk[d].now} /\ UNCHANGED <<kase, post, faults>>
  BY DEF RemovalErases, q1, q2
<1>. HIDE DEF q2
<1>. QED
  BY <1>1, <1>3, <1>4, LeaseEnds DEF IntakeInv, IntakeTypeOK

LEMMA RemovalFailsStep ==
    ASSUME IntakeInv, NEW d \in Desk, RemovalFails(d)
    PROVE  IntakeInv'
<1>1. /\ desk[d].pc = "erasing" /\ desk' = [desk EXCEPT ![d] = NoDesk]
      /\ file' = [file EXCEPT ![desk[d].now] = "withheld"]
      /\ object' \in {object, object \ {desk[d].now}} /\ UNCHANGED <<kase, post>> /\ faults' \in Nat
  BY DEF RemovalFails, Fault, IntakeInv, IntakeTypeOK
<1>. QED
  BY <1>1, NoDeskRow, LeaseEnds

\* The tables change only in rows of kase whose files stay.
LEMMA CasesMove ==
    ASSUME IntakeInv, kase' \in [Case -> CaseRow], NEW d,
           UNCHANGED <<file, object, post, faults>>,
           desk' = desk \/ (d \in Desk /\ desk' = [desk EXCEPT ![d] = NoDesk]),
           \A c \in Case :
               /\ kase'[c].files = kase[c].files
               /\ Filed(c)' => Filed(c)
               /\ (kase[c].status = "none") <=> (kase'[c].status = "none")
               /\ kase'[c].status = "removed" =>
                      kase[c].status = "removed" \/ \A f \in kase[c].files : file[f] = "deleted"
    PROVE  IntakeInv'
<1>. USE DEF IntakeInv
<1>1. /\ desk' \in [Desk -> DeskRow]
      /\ \A e \in Desk : desk'[e] = desk[e] \/ desk'[e].pc = "idle"
  BY NoDeskRow DEF IntakeTypeOK, DeskRow
<1>2. IntakeTypeOK'
  BY <1>1 DEF IntakeTypeOK, DeskRow
<1>3. ASSUME NEW c \in Case PROVE PostOK(c)'
  BY DEF PostOK
<1>4. ASSUME NEW f \in File PROVE FileOK(f)'
  BY DEF FileOK, File
<1>5. ASSUME NEW e \in Desk PROVE DeskOK(e)'
  <2>1. CASE desk'[e].pc = "idle"
    BY <2>1 DEF DeskOK, Removing
  <2>2. CASE desk'[e] = desk[e]
    BY <2>2 DEF DeskOK, Removing
  <2>. QED
    BY <1>1, <2>1, <2>2
<1>6. LeasesApart'
  BY <1>1 DEF LeasesApart
<1>7. RemovedIsDeleted'
  BY DEF RemovedIsDeleted
<1>. QED
  BY <1>2, <1>3, <1>4, <1>5, <1>6, <1>7

\* An UPDATE of a case by its id.
LEMMA DecideWriteStep ==
    ASSUME IntakeInv, NEW d \in Desk, DecideWrite(d)
    PROVE  IntakeInv'
<1>. DEFINE c == desk[d].case
            about == IF c \in Appeal THEN kase[c].about ELSE desk[d].about
<1>1. c \in Case /\ desk[d] \in DeskRow
  BY DEF DecideWrite, IntakeInv, IntakeTypeOK, DeskRow, DeskOK
<1>2. about \in Report \union {None}
  BY <1>1 DEF IntakeInv, IntakeTypeOK, CaseRow, DeskRow
<1>3. desk' = [desk EXCEPT ![d] = NoDesk] /\ UNCHANGED <<file, object, post, faults>>
  BY DEF DecideWrite
<1>4. CASE ~(Filed(c) /\ Present(about))
  BY <1>3, <1>4, DeskIdles DEF DecideWrite
<1>5. CASE Filed(c) /\ Present(about)
  <2>1. PICK status \in Status : kase' = [kase EXCEPT ![c].status = status, ![c].about = about]
    BY <1>5 DEF DecideWrite
  <2>. DEFINE row1 == [kase[c] EXCEPT !.status = status]
              row2 == [row1 EXCEPT !.about = about]
  <2>2. row1 \in CaseRow /\ row1.status = status /\ row1.files = kase[c].files
    BY <1>1 DEF CaseRow, IntakeInv, IntakeTypeOK
  <2>. HIDE DEF row1, about
  <2>3. row2 \in CaseRow /\ row2.status = status /\ row2.files = kase[c].files
    BY <1>2, <2>2 DEF CaseRow
  <2>4. kase' = [kase EXCEPT ![c] = row2]
    BY <2>1 DEF row2, row1
  <2>. HIDE DEF row2, c
  <2>5. /\ kase' \in [Case -> CaseRow] /\ kase'[c] = row2
        /\ \A b \in Case : b # c => kase'[b] = kase[b]
    BY <1>1, <2>3, <2>4 DEF IntakeInv, IntakeTypeOK
  <2>6. status # "none" /\ status # "removed" /\ kase[c].status # "none"
    BY <1>5 DEF Filed, Status
  <2>. QED
    BY <1>3, <1>5, <2>3, <2>5, <2>6, CasesMove DEF Filed
<1>. QED
  BY <1>4, <1>5

\* The row goes when the desk holds none of its images any more.
LEMMA RemovalWriteStep ==
    ASSUME IntakeInv, NEW d \in Desk, RemovalWrite(d)
    PROVE  IntakeInv'
<1>. DEFINE c == desk[d].case
<1>1. /\ c \in Case /\ desk[d].pc = "delete" /\ desk[d].files = {}
      /\ \A f \in kase[c].files : file[f] = "deleted"
  BY DEF RemovalWrite, IntakeInv, DeskOK, Removing
<1>2. desk' = [desk EXCEPT ![d] = NoDesk] /\ UNCHANGED <<file, object, post, faults>>
  BY DEF RemovalWrite
<1>3. CASE ~Filed(c)
  BY <1>2, <1>3, DeskIdles DEF RemovalWrite
<1>4. CASE Filed(c)
  <2>. DEFINE row1 == [kase[c] EXCEPT !.status = "removed"]
              row2 == [row1 EXCEPT !.about = None]
  <2>1. kase' = [kase EXCEPT ![c] = row2]
    BY <1>4 DEF RemovalWrite
  <2>2. row1 \in CaseRow /\ row1.status = "removed" /\ row1.files = kase[c].files
    BY <1>1 DEF CaseRow, IntakeInv, IntakeTypeOK
  <2>. HIDE DEF row1
  <2>3. row2 \in CaseRow /\ row2.status = "removed" /\ row2.files = kase[c].files
    BY <2>2 DEF CaseRow
  <2>. HIDE DEF row2, c
  <2>4. /\ kase' \in [Case -> CaseRow] /\ kase'[c] = row2
        /\ \A b \in Case : b # c => kase'[b] = kase[b]
    BY <1>1, <2>1, <2>3 DEF IntakeInv, IntakeTypeOK
  <2>5. kase[c].status # "none"
    BY <1>4 DEF Filed, Status
  <2>. QED
    BY <1>1, <1>2, <1>4, <2>3, <2>4, <2>5, CasesMove DEF Filed, Status
<1>. QED
  BY <1>3, <1>4

LEMMA DropCasesStep ==
    ASSUME IntakeInv, NEW r \in Report, DropCasesOf(r)
    PROVE  IntakeInv'
<1>1. ASSUME NEW c \in Case
      PROVE  /\ kase'[c] \in CaseRow
             /\ kase'[c].files = kase[c].files
             /\ Filed(c)' => Filed(c)
             /\ (kase[c].status = "none") <=> (kase'[c].status = "none")
             /\ kase'[c].status = "removed" => kase[c].status = "removed"
  <2>1. kase[c] \in CaseRow
    BY DEF IntakeInv, IntakeTypeOK
  <2>2. CASE ~Filed(c) \/ kase[c].about # r
    BY <2>1, <2>2 DEF DropCasesOf, Filed
  <2>3. CASE Filed(c) /\ kase[c].about = r
    <3>. DEFINE status == IF c \in Appeal THEN "cascaded" ELSE kase[c].status
                row1 == [kase[c] EXCEPT !.about = None]
                row2 == [row1 EXCEPT !.status = status]
    <3>1. row1 \in CaseRow /\ row1.files = kase[c].files /\ row1.status = kase[c].status
      BY <2>1 DEF CaseRow
    <3>2. kase'[c] = row2
      BY <2>3, <3>1 DEF DropCasesOf
    <3>3. status \in {"cascaded"} \union Status
      BY <2>3 DEF Filed
    <3>. HIDE DEF row1, status
    <3>4. row2 \in CaseRow /\ row2.files = kase[c].files /\ row2.status = status
      BY <3>1, <3>3 DEF CaseRow
    <3>. HIDE DEF row2
    <3>. QED
      BY <2>3, <3>2, <3>3, <3>4 DEF Filed, Status
  <2>. QED
    BY <2>2, <2>3
<1>2. kase' \in [Case -> CaseRow]
  <2>1. kase' = [c \in Case |-> kase'[c]]
    BY DEF DropCasesOf
  <2>. QED
    BY <1>1, <2>1
<1>. QED
  BY <1>1, <1>2, CasesMove DEF DropCasesOf

-----------------------------------------------------------------------------
(* The theorems about cases. *)

LEMMA IntakeStarts == Init => IntakeInv
<1>. SUFFICES ASSUME Init PROVE IntakeInv
  OBVIOUS
<1>1. PICK s \in Scenarios : IntakeInit(s.cases) /\ faults = s.faults
  BY DEF Init
<1>. DEFINE blank == [status |-> "none", about |-> None, files |-> {}]
            fresh(c) == [pc |-> IF c \in s.cases THEN "new" ELSE "done", about |-> None, stored |-> {}]
<1>2. blank \in CaseRow /\ blank.status = "none" /\ blank.files = {}
  BY DEF CaseRow
<1>3. \A c \in Case : fresh(c) \in PostRow /\ fresh(c).pc \in {"new", "done"} /\ fresh(c).stored = {}
  BY DEF PostRow, PostPc
<1>4. /\ kase = [c \in Case |-> blank] /\ file = [f \in File |-> "none"] /\ object = {}
      /\ post = [c \in Case |-> fresh(c)] /\ desk = [d \in Desk |-> NoDesk]
  BY <1>1 DEF IntakeInit
<1>. HIDE DEF blank, fresh
<1>5. IntakeTypeOK
  BY <1>1, <1>2, <1>3, <1>4, NoDeskRow, ScenariosConstants DEF IntakeTypeOK, PostRow, DeskRow, FileState
<1>6. \A c \in Case : PostOK(c)
  BY <1>2, <1>3, <1>4 DEF PostOK, Undoing
<1>7. \A f \in File : FileOK(f)
  BY <1>4 DEF FileOK
<1>8. \A d \in Desk : DeskOK(d)
  BY <1>4, NoDeskRow DEF DeskOK, Removing
<1>9. LeasesApart /\ RemovedIsDeleted
  BY <1>2, <1>4, NoDeskRow DEF LeasesApart, RemovedIsDeleted
<1>. QED
  BY <1>5, <1>6, <1>7, <1>8, <1>9 DEF IntakeInv

LEMMA IntakeStays == IntakeInv /\ UNCHANGED intakeVars => IntakeInv'
BY DEF intakeVars, IntakeInv, IntakeTypeOK, PostOK, FileOK, DeskOK, LeasesApart, RemovedIsDeleted, Filed

LEMMA IntakeNext == FamilyInv /\ IntakeInv /\ [Next]_vars => IntakeInv'
<1>. SUFFICES ASSUME FamilyInv, IntakeInv, [Next]_vars PROVE IntakeInv'
  OBVIOUS
<1>1. CASE UNCHANGED intakeVars
  BY <1>1, IntakeStays
<1>2. CASE IntakeStep
  <2>1. ASSUME NEW f \in File, StoreFile(f) \/ TakeUp(f) \/ \E d \in Desk : RemovalClaim(d, f)
        PROVE  IntakeInv'
    BY <2>1, StoreFileStep, TakeUpStep, ClaimStep
  <2>2. ASSUME NEW d \in Desk,
               \/ DecideRead(d) \/ DecideWrite(d) \/ RemovalRead(d) \/ RemovalCheck(d)
               \/ RemovalErases(d) \/ RemovalFails(d) \/ RemovalWrite(d)
        PROVE  IntakeInv'
    BY <2>2, DecideReadStep, DecideWriteStep, RemovalReadStep, RemovalCheckStep, RemovalErasesStep,
       RemovalFailsStep, RemovalWriteStep
  <2>. QED
    BY <1>2, <2>1, <2>2, PostStep DEF IntakeStep
<1>3. ASSUME NEW e \in Editor, RemoveReport(e) PROVE IntakeInv'
  <2>1. edit[e].id \in Report
    BY <1>3 DEF RemoveReport, RemoveWrite, FamilyInv, RequestsOK, RequestOK
  <2>. QED
    BY <1>1, <1>3, <2>1, DropCasesStep DEF RemoveReport
<1>. QED
  BY <1>1, <1>2, <1>3 DEF Next, CheckMerge, vars

THEOREM IntakeInvHolds == Spec => []IntakeInv
BY IntakeStarts, IntakeNext, FamilyInvHolds, PTL DEF Spec

\* A case that was filed keeps its images until an admin deletes them, although
\* the request that filed it may have been told that it failed, and rolls back.
THEOREM CommittedCasesKeepEvidence == Spec => []CommittedCaseKeepsItsEvidence
BY IntakeInvHolds, IntakeInvShows, PTL

\* When a case is removed nothing is left of its images, however many removals
\* run at once, fail half way and start again.
THEOREM RemovedCasesLeaveNothing == Spec => []RemovedCaseHasNoEvidence
BY IntakeInvHolds, IntakeInvShows, PTL

-----------------------------------------------------------------------------
(* Replies. *)

\* A reply stands on a report that exists: its insert needs the foreign key, and
\* it goes with its report.
CommentInv ==
    /\ CommentsTypeOK
    /\ \A n \in Comment :
           /\ Stands(n) => comment[n].on \in Report /\ Exists(comment[n].on)
           /\ reply[n].pc \in {"parent", "insert"} => reply[n].on \in Report
           /\ reply[n].pc = "parent" => reply[n].parent \in Comment

LEMMA CommentInvShows == CommentInv => QuotedReplyIsShown
<1>. SUFFICES ASSUME CommentInv, NEW r \in Listed, NEW n \in CommentsOn(r), ShownParent(n) # NoParent
              PROVE  ShownParent(n) \in CommentsOn(r)
  BY DEF QuotedReplyIsShown
<1>1. n \in Comment /\ comment[n].status = "Approved" /\ comment[n].on \in Family(r)
  BY DEF CommentsOn
<1>2. PICK p \in Comment : p = comment[n].parent /\ comment[p].status = "Approved" /\ SameFamily(n, p)
  BY DEF ShownParent
<1>3. ShownParent(n) = p
  BY <1>2 DEF ShownParent
<1>4. comment[n].on \in Report /\ comment[p].on \in Report /\ Exists(comment[p].on)
  BY <1>1, <1>2 DEF CommentInv, Stands
<1>5. RootOf(comment[n].on) = r /\ RootOf(comment[p].on) = r
  BY <1>1, <1>2, <1>4, FamilyOfRoot DEF SameFamily
<1>6. comment[p].on \in Family(r)
  BY <1>4, <1>5, FamilyOfRoot
<1>7. IsPublished(r)
  BY DEF Listed
<1>. QED
  BY <1>2, <1>3, <1>5, <1>6, <1>7 DEF CommentsOn

ReplyRow == [pc : {"new", "parent", "insert", "done"},
             on : Report \union {None}, parent : Comment \union {NoParent}]

\* A request for a reply moves on.
LEMMA ReplyMoves ==
    ASSUME CommentInv, NEW n \in Comment, NEW q \in ReplyRow, reply' = [reply EXCEPT ![n] = q],
           q.pc \in {"parent", "insert"} => q.on \in Report,
           q.pc = "parent" => q.parent \in Comment,
           UNCHANGED <<comment, report>>
    PROVE  CommentInv'
<1>1. /\ reply' \in [Comment -> ReplyRow] /\ reply'[n] = q
      /\ \A m \in Comment : m # n => reply'[m] = reply[m]
  BY DEF CommentInv, CommentsTypeOK, ReplyRow
<1>. QED
  BY <1>1 DEF CommentInv, CommentsTypeOK, ReplyRow, Stands, Exists

\* Rows keep their report, may change their status, or are gone.
LEMMA CommentsMove ==
    ASSUME CommentInv, comment' \in [Comment -> CommentRow], UNCHANGED reply,
           \A n \in Comment : Stands(n)' => Stands(n) /\ comment'[n].on = comment[n].on
                                            /\ (Exists(comment[n].on) => Exists(comment[n].on)')
    PROVE  CommentInv'
BY DEF CommentInv, CommentsTypeOK

LEMMA DropRows ==
    ASSUME CommentsTypeOK, NEW dropped
    PROVE  /\ Drop(comment, dropped) \in [Comment -> CommentRow]
           /\ \A n \in Comment : IF n \in dropped THEN Drop(comment, dropped)[n].status = "removed"
                                 ELSE Drop(comment, dropped)[n] = comment[n]
<1>1. ASSUME NEW n \in Comment
      PROVE  /\ [comment[n] EXCEPT !.status = "removed"] \in CommentRow
             /\ [comment[n] EXCEPT !.status = "removed"].status = "removed"
  BY DEF CommentsTypeOK, CommentRow
<1>. QED
  BY <1>1 DEF Drop, CommentsTypeOK

LEMMA CommentStepKeeps ==
    ASSUME FamilyInv, CommentInv, CommentStep, UNCHANGED report
    PROVE  CommentInv'
<1>. USE DEF CommentInv
<1>1. ASSUME NEW n \in Comment, ReplyBegin(n) PROVE CommentInv'
  <2>1. PICK r \in Report, p \in Comment \union {NoParent} :
            /\ ResolvesTo(r) # None
            /\ reply' = [reply EXCEPT ![n] = [pc |-> IF p = NoParent THEN "insert" ELSE "parent",
                                              on |-> ResolvesTo(r), parent |-> p]]
    BY <1>1 DEF ReplyBegin
  <2>. DEFINE q == [pc |-> IF p = NoParent THEN "insert" ELSE "parent", on |-> ResolvesTo(r), parent |-> p]
  <2>2. ResolvesTo(r) \in Report
    BY <2>1, ResolvesToListed DEF Listed
  <2>3. q \in ReplyRow /\ q.on \in Report /\ (q.pc = "parent" => q.parent \in Comment)
    BY <2>2 DEF ReplyRow
  <2>4. reply' = [reply EXCEPT ![n] = q]
    BY <2>1
  <2>. HIDE DEF q
  <2>. QED
    BY <1>1, <2>3, <2>4, ReplyMoves DEF ReplyBegin
<1>2. ASSUME NEW n \in Comment, ReplyParent(n) PROVE CommentInv'
  <2>. DEFINE pc == IF /\ comment[reply[n].parent].status = "Approved"
                       /\ comment[reply[n].parent].on \in Family(reply[n].on)
                    THEN "insert" ELSE "done"
              q == [reply[n] EXCEPT !.pc = pc]
  <2>1. reply[n] \in ReplyRow /\ reply[n].pc = "parent" /\ reply[n].on \in Report
    BY <1>2 DEF ReplyParent, CommentsTypeOK, ReplyRow
  <2>2. pc \in {"insert", "done"}
    OBVIOUS
  <2>3. reply' = [reply EXCEPT ![n].pc = pc]
    BY <1>2 DEF ReplyParent
  <2>. HIDE DEF pc
  <2>4. q \in ReplyRow /\ q.pc = pc /\ q.on = reply[n].on
    BY <2>1, <2>2 DEF ReplyRow
  <2>5. reply' = [reply EXCEPT ![n] = q]
    BY <2>3
  <2>. HIDE DEF q
  <2>. QED
    BY <1>2, <2>1, <2>2, <2>4, <2>5, ReplyMoves DEF ReplyParent
<1>3. ASSUME NEW n \in Comment, ReplyInsert(n) PROVE CommentInv'
  <2>. DEFINE row == [status |-> "Pending", on |-> reply[n].on, parent |-> reply[n].parent]
  <2>1. /\ reply' \in [Comment -> ReplyRow] /\ reply'[n].pc = "done"
        /\ \A m \in Comment : m # n => reply'[m] = reply[m]
    BY <1>3 DEF ReplyInsert, CommentsTypeOK, ReplyRow
  <2>2. reply[n] \in ReplyRow /\ reply[n].on \in Report
    BY <1>3 DEF ReplyInsert, CommentsTypeOK, ReplyRow
  <2>3. row \in CommentRow /\ row.on = reply[n].on
    BY <2>2 DEF CommentRow, ReplyRow
  <2>4. CASE Exists(reply[n].on)
    <3>1. comment' = [comment EXCEPT ![n] = row]
      BY <1>3, <2>4 DEF ReplyInsert
    <3>. HIDE DEF row
    <3>2. /\ comment' \in [Comment -> CommentRow] /\ comment'[n] = row
          /\ \A m \in Comment : m # n => comment'[m] = comment[m]
      BY <2>3, <3>1 DEF CommentsTypeOK
    <3>. QED
      BY <2>1, <2>2, <2>3, <2>4, <3>2 DEF CommentsTypeOK, ReplyRow, Stands, Exists
  <2>5. CASE ~Exists(reply[n].on)
    BY <1>3, <2>1, <2>5 DEF ReplyInsert, CommentsTypeOK, ReplyRow, Stands, Exists
  <2>. QED
    BY <2>4, <2>5
<1>4. ASSUME NEW n \in Comment, ModerateComment(n) PROVE CommentInv'
  <2>1. PICK status \in {"Approved", "Rejected"} : comment' = [comment EXCEPT ![n].status = status]
    BY <1>4 DEF ModerateComment
  <2>2. /\ comment' \in [Comment -> CommentRow]
        /\ \A m \in Comment : comment'[m].on = comment[m].on
        /\ \A m \in Comment : m # n => comment'[m] = comment[m]
    BY <2>1 DEF CommentsTypeOK, CommentRow
  <2>. QED
    BY <1>4, <2>2, CommentsMove DEF ModerateComment, Stands, Exists
<1>5. ASSUME NEW n \in Comment, RemoveComment(n) PROVE CommentInv'
  <2>. DEFINE lost == {n} \union {m \in Comment : Stands(m) /\ comment[m].parent = n}
  <2>1. comment' = Drop(comment, lost) /\ reply' = reply
    BY <1>5 DEF RemoveComment
  <2>. HIDE DEF lost
  <2>2. /\ comment' \in [Comment -> CommentRow]
        /\ \A m \in Comment : comment'[m].status = "removed" \/ comment'[m] = comment[m]
    BY <2>1, DropRows
  <2>. QED
    BY <2>1, <2>2, CommentsMove DEF Stands, Exists
<1>. QED
  BY <1>1, <1>2, <1>3, <1>4, <1>5 DEF CommentStep

LEMMA CommentsStart == Init => CommentInv
<1>. SUFFICES ASSUME Init PROVE CommentInv
  OBVIOUS
<1>1. PICK s \in Scenarios : CommentsInit(s.comments)
  BY DEF Init
<1>. DEFINE blank == [status |-> "none", on |-> None, parent |-> NoParent]
            fresh(n) == [pc |-> IF n \in s.comments THEN "new" ELSE "done", on |-> None, parent |-> NoParent]
<1>2. blank \in CommentRow /\ blank.status = "none"
  BY DEF CommentRow
<1>3. \A n \in Comment : fresh(n) \in ReplyRow /\ fresh(n).pc \in {"new", "done"}
  BY DEF ReplyRow
<1>4. comment = [n \in Comment |-> blank] /\ reply = [n \in Comment |-> fresh(n)]
  BY <1>1 DEF CommentsInit
<1>. HIDE DEF blank, fresh
<1>. QED
  BY <1>2, <1>3, <1>4 DEF CommentInv, CommentsTypeOK, ReplyRow, Stands

LEMMA CommentsNext == FamilyInv /\ CommentInv /\ [Next]_vars => CommentInv'
<1>. SUFFICES ASSUME FamilyInv, CommentInv, [Next]_vars PROVE CommentInv'
  OBVIOUS
<1>1. CASE CommentStep /\ UNCHANGED reportVars
  BY <1>1, CommentStepKeeps DEF reportVars
<1>2. CASE UNCHANGED <<reportVars, commentVars>>
  BY <1>2 DEF reportVars, commentVars, CommentInv, CommentsTypeOK, Stands, Exists
<1>3. ASSUME NEW e \in Editor, EditStep(e) \/ CheckMerge(e), UNCHANGED commentVars PROVE CommentInv'
  BY <1>3, ReportsStay DEF commentVars, CommentInv, CommentsTypeOK, Stands
<1>4. ASSUME NEW e \in Editor, RemoveReport(e) PROVE CommentInv'
  <2>. DEFINE r == edit[e].id
              lost == {n \in Comment : Stands(n) /\ comment[n].on = r}
  <2>1. CASE ~DeleteAllowed(r)
    BY <1>4, <2>1, RemovalTakesOne DEF commentVars, CommentInv, CommentsTypeOK, Stands, Exists
  <2>2. CASE DeleteAllowed(r)
    <3>1. /\ comment' = Drop(comment, lost) /\ reply' = reply
          /\ \A s \in Report : s # r => report'[s] = report[s]
      BY <1>4, <2>2, RemovalTakesOne DEF DropCommentsOf
    <3>2. \A n \in Comment : n \notin lost /\ Stands(n) => comment[n].on \in Report /\ comment[n].on # r
      BY DEF CommentInv
    <3>. HIDE DEF lost, r
    <3>3. /\ comment' \in [Comment -> CommentRow]
          /\ \A n \in Comment : IF n \in lost THEN comment'[n].status = "removed" ELSE comment'[n] = comment[n]
      BY <3>1, DropRows DEF CommentInv
    <3>. QED
      BY <3>1, <3>2, <3>3, CommentsMove DEF Stands, Exists
  <2>. QED
    BY <2>1, <2>2
<1>. QED
  BY <1>1, <1>2, <1>3, <1>4 DEF Next, CheckMerge, vars

\* A reply that is said to answer another names one that is approved and shown
\* on the same page, also after reports were merged, answered across and parted.
THEOREM QuotedRepliesAreShown == Spec => []QuotedReplyIsShown
<1>1. Spec => []CommentInv
  BY CommentsStart, CommentsNext, FamilyInvHolds, PTL DEF Spec
<1>. QED
  BY <1>1, CommentInvShows, PTL
=============================================================================
