---------------------------- MODULE FamilyProofs ----------------------------
(***************************************************************************)
(* Proofs about the reports of Community: the triggers alone keep families *)
(* flat, whatever the preflights of racing requests have seen, and flat    *)
(* families with counted links make all public reads agree.                *)
(***************************************************************************)
EXTENDS Community, FiniteSetTheorems, WellFoundedInduction, TLAPS

USE ReportsConstants

-----------------------------------------------------------------------------
(* What the triggers count. *)

PublicLinks(r, links, states) == {a \in Asset : <<r, a>> \in links /\ states[a] = "public"}

LEMMA PublicLinksAreFinite ==
    ASSUME NEW r, NEW links, NEW states
    PROVE  IsFiniteSet(PublicLinks(r, links, states)) /\ Cardinality(PublicLinks(r, links, states)) \in Nat
BY FS_Subset, FS_CardinalityType DEF PublicLinks

\* Only the counter differs after a count.
LEMMA CountKeepsRows ==
    ASSUME NEW rows \in [Report -> Row], NEW links, NEW states,
           NEW counted, counted = CountImages(rows, links, states)
    PROVE  /\ counted \in [Report -> Row]
           /\ \A r \in Report :
                 /\ counted[r].exists = rows[r].exists
                 /\ counted[r].published = rows[r].published
                 /\ counted[r].into = rows[r].into
                 /\ counted[r].images = IF rows[r].exists
                                        THEN Cardinality(PublicLinks(r, links, states)) ELSE 0
<1>. DEFINE n(r) == IF rows[r].exists THEN Cardinality(PublicLinks(r, links, states)) ELSE 0
<1>1. counted = [r \in Report |-> [rows[r] EXCEPT !.images = n(r)]]
  BY DEF CountImages, PublicLinks
<1>2. \A r \in Report : n(r) \in Nat
  BY PublicLinksAreFinite
<1>. HIDE DEF n
<1>3. ASSUME NEW r \in Report
      PROVE  /\ counted[r] \in Row
             /\ counted[r].exists = rows[r].exists
             /\ counted[r].published = rows[r].published
             /\ counted[r].into = rows[r].into
             /\ counted[r].images = n(r)
  BY <1>1, <1>2 DEF Row
<1>. QED
  BY <1>1, <1>3 DEF n

-----------------------------------------------------------------------------
(* The inductive invariant. *)

\* What the statements of a request rely on.
RequestOK(q) ==
    /\ q.pc # "idle" => q.id \in Report
    /\ q.pc \in {"merge", "mergeCheck", "mergeWrite"} => q.to \in Report
    /\ q.pc = "erasing" => q.now \in Asset

\* report_evidence has a foreign key to reports, and its triggers count.
LinksHaveReports == \A r \in Report, a \in Asset : <<r, a>> \in link => Exists(r)
CountsAreRight ==
    \A r \in Report :
        report[r].images = IF Exists(r) THEN Cardinality(PublicLinks(r, link, asset)) ELSE 0

TablesOK ==
    /\ report \in [Report -> Row]
    /\ asset \in [Asset -> AssetState]
    /\ link \subseteq Report \X Asset
    /\ FamilyIsFlat
    /\ LinksHaveReports
    /\ CountsAreRight

RequestsOK ==
    /\ edit \in [Editor -> Request]
    /\ edits \subseteq Asked
    /\ \A e \in Editor : RequestOK(edit[e])

FamilyInv == TablesOK /\ RequestsOK

Keeps(q, r) == r.id = q.id /\ r.to = q.to

LEMMA RequestFields ==
    ASSUME NEW q \in Request
    PROVE  /\ \A x \in Pc : /\ [q EXCEPT !.pc = x] \in Request /\ Keeps(q, [q EXCEPT !.pc = x])
                            /\ [q EXCEPT !.pc = x].pc = x /\ [q EXCEPT !.pc = x].now = q.now
           /\ \A x \in SUBSET Asset : /\ [q EXCEPT !.files = x] \in Request /\ Keeps(q, [q EXCEPT !.files = x])
                                      /\ [q EXCEPT !.files = x].pc = q.pc
           /\ \A x \in Asset \union {None} :
                 /\ [q EXCEPT !.now = x] \in Request /\ Keeps(q, [q EXCEPT !.now = x])
                 /\ [q EXCEPT !.now = x].pc = q.pc /\ [q EXCEPT !.now = x].now = x
<1>1. ASSUME NEW x \in Pc
      PROVE  /\ [q EXCEPT !.pc = x] \in Request /\ Keeps(q, [q EXCEPT !.pc = x])
             /\ [q EXCEPT !.pc = x].pc = x /\ [q EXCEPT !.pc = x].now = q.now
  BY DEF Request, Keeps
<1>2. ASSUME NEW x \in SUBSET Asset
      PROVE  /\ [q EXCEPT !.files = x] \in Request /\ Keeps(q, [q EXCEPT !.files = x])
             /\ [q EXCEPT !.files = x].pc = q.pc
  BY DEF Request, Keeps
<1>3. ASSUME NEW x \in Asset \union {None}
      PROVE  /\ [q EXCEPT !.now = x] \in Request /\ Keeps(q, [q EXCEPT !.now = x])
             /\ [q EXCEPT !.now = x].pc = q.pc /\ [q EXCEPT !.now = x].now = x
  BY DEF Request, Keeps
<1>. QED
  BY <1>1, <1>2, <1>3

LEMMA IdleRequest == Idle \in Request /\ Idle.pc = "idle"
BY DEF Idle, Request, Pc

\* A step that moves one request on.
LEMMA RequestMoves ==
    ASSUME RequestsOK, NEW e \in Editor, NEW q \in Request, RequestOK(q),
           edit' = [edit EXCEPT ![e] = q], edits' \subseteq edits
    PROVE  RequestsOK'
BY DEF RequestsOK

\* A step that leaves the tables alone.
LEMMA TablesStay ==
    ASSUME TablesOK, UNCHANGED <<report, asset, link>>
    PROVE  TablesOK'
BY DEF TablesOK, FamilyIsFlat, LinksHaveReports, CountsAreRight, Exists

LEMMA GotoMoves ==
    ASSUME RequestsOK, NEW e \in Editor, NEW pc \in Pc, Goto(e, pc),
           edit[e].pc # "idle", pc # "erasing", pc # "merge",
           pc \in {"mergeCheck", "mergeWrite"} => edit[e].pc \in {"merge", "mergeCheck"},
           edits' \subseteq edits
    PROVE  RequestsOK'
<1>. DEFINE q == [edit[e] EXCEPT !.pc = pc]
<1>1. edit[e] \in Request /\ RequestOK(edit[e])
  BY DEF RequestsOK
<1>2. q \in Request
  BY <1>1, RequestFields
<1>3. q.pc = pc /\ q.id = edit[e].id /\ q.to = edit[e].to
  BY <1>1 DEF Request
<1>4. edit' = [edit EXCEPT ![e] = q]
  BY DEF Goto
<1>. HIDE DEF q
<1>5. RequestOK(q)
  BY <1>1, <1>3 DEF RequestOK
<1>. QED
  BY <1>2, <1>4, <1>5, RequestMoves

LEMMA DoneMoves ==
    ASSUME RequestsOK, NEW e \in Editor, Done(e), edits' \subseteq edits
    PROVE  RequestsOK'
<1>1. edit' = [edit EXCEPT ![e] = Idle]
  BY DEF Done
<1>2. RequestOK(Idle)
  BY IdleRequest DEF RequestOK
<1>. QED
  BY <1>1, <1>2, IdleRequest, RequestMoves

\* The rows of a family are flat, and the links belong to them.
FlatRows(rows) ==
    \A r \in Report :
        rows[r].into # None =>
            rows[r].exists /\ rows[rows[r].into].exists /\ rows[rows[r].into].into = None

\* A write of rows, links and states after which the triggers count.
LEMMA CountStep ==
    ASSUME NEW rows \in [Report -> Row], FlatRows(rows),
           link' \subseteq Report \X Asset, asset' \in [Asset -> AssetState],
           \A r \in Report, a \in Asset : <<r, a>> \in link' => rows[r].exists,
           report' = CountImages(rows, link', asset')
    PROVE  TablesOK'
<1>1. /\ report' \in [Report -> Row]
      /\ \A r \in Report :
            /\ report'[r].exists = rows[r].exists
            /\ report'[r].into = rows[r].into
            /\ report'[r].images = IF rows[r].exists
                                   THEN Cardinality(PublicLinks(r, link', asset')) ELSE 0
  BY CountKeepsRows
<1>2. \A r \in Report : rows[r].into \in Report \union {None}
  BY DEF Row
<1>3. FamilyIsFlat'
  <2>. SUFFICES ASSUME NEW r \in Report, report'[r].into # None
                PROVE  Exists(r)' /\ Exists(report[r].into)' /\ report'[report'[r].into].into = None
    BY DEF FamilyIsFlat
  <2>1. rows[r].into \in Report /\ report'[r].into = rows[r].into
    BY <1>1, <1>2
  <2>2. rows[r].exists /\ rows[rows[r].into].exists /\ rows[rows[r].into].into = None
    BY <1>1 DEF FlatRows
  <2>. QED
    BY <1>1, <2>1, <2>2 DEF Exists
<1>4. LinksHaveReports'
  BY <1>1 DEF LinksHaveReports, Exists
<1>5. CountsAreRight'
  BY <1>1 DEF CountsAreRight, Exists
<1>. QED
  BY <1>1, <1>3, <1>4, <1>5 DEF TablesOK

\* Rows of which neither the links nor the counter change.
LEMMA PlainStep ==
    ASSUME TablesOK, report' \in [Report -> Row], UNCHANGED <<asset, link>>, FamilyIsFlat',
           \A r \in Report : report'[r].exists = report[r].exists /\ report'[r].images = report[r].images
    PROVE  TablesOK'
BY DEF TablesOK, LinksHaveReports, CountsAreRight, Exists

-----------------------------------------------------------------------------
(* The requests, statement by statement. *)

\* The requests that only read.
LEMMA ReadStep ==
    ASSUME FamilyInv, NEW e \in Editor,
           \/ CreateRead(e) \/ UpdateRead(e) \/ RemoveRead(e) \/ MergeRead(e) \/ UnmergeRead(e) \/ EraseEnds(e)
           \/ \E overlap : MergeCheck(e, overlap)
    PROVE  FamilyInv'
<1>1. UNCHANGED <<report, asset, link, edits>> /\ edit[e].pc # "idle"
  BY DEF CreateRead, UpdateRead, RemoveRead, MergeRead, UnmergeRead, EraseEnds, MergeCheck, Reads
<1>2. \/ Done(e)
      \/ \E pc \in Pc : /\ Goto(e, pc) /\ pc # "erasing" /\ pc # "merge"
                        /\ pc \in {"mergeCheck", "mergeWrite"} => edit[e].pc \in {"merge", "mergeCheck"}
  BY DEF CreateRead, UpdateRead, RemoveRead, MergeRead, UnmergeRead, EraseEnds, MergeCheck, Pc
<1>. QED
  BY <1>1, <1>2, GotoMoves, DoneMoves, TablesStay DEF FamilyInv

LEMMA BeginStep ==
    ASSUME FamilyInv, NEW e \in Editor, Begin(e)
    PROVE  FamilyInv'
<1>1. PICK q \in edits : edit' = [edit EXCEPT ![e] = q] /\ edits' = edits \ {q}
  BY DEF Begin
<1>2. q \in Request /\ RequestOK(q)
  BY DEF FamilyInv, RequestsOK, Asked, RequestOK
<1>. QED
  BY <1>1, <1>2, RequestMoves, TablesStay DEF Begin, FamilyInv

LEMMA RemoveAssetsStep ==
    ASSUME FamilyInv, NEW e \in Editor, RemoveAssets(e)
    PROVE  FamilyInv'
<1>. USE DEF FamilyInv
<1>. DEFINE doomed == Exclusive(edit[e].id)
            q1 == [edit[e] EXCEPT !.pc = "erase"]
            q2 == [q1 EXCEPT !.files = doomed]
<1>1. edit[e] \in Request /\ edit[e].pc = "removeAssets" /\ edits' = edits /\ edit[e].id \in Report
  BY DEF RemoveAssets, Reads, RequestsOK, RequestOK
<1>2. q1 \in Request /\ q1.pc = "erase" /\ q1.id = edit[e].id
  BY <1>1, RequestFields DEF Pc, Keeps
<1>. HIDE DEF q1
<1>3. doomed \in SUBSET Asset
  BY DEF Exclusive
<1>. HIDE DEF doomed
<1>4. q2 \in Request /\ q2.pc = "erase" /\ q2.id = edit[e].id
  BY <1>2, <1>3, RequestFields DEF Keeps
<1>5. RequestOK(q2)
  BY <1>1, <1>4 DEF RequestOK
<1>. HIDE DEF q2
<1>6. Done(e) \/ edit' = [edit EXCEPT ![e] = q2]
  BY DEF RemoveAssets, q1, q2, doomed
<1>. QED
  BY <1>1, <1>4, <1>5, <1>6, RequestMoves, DoneMoves, TablesStay DEF RemoveAssets, Reads

\* The rows that a write of one row leaves flat, given what it may change.
LEMMA FlatAfterSave ==
    ASSUME TablesOK, NEW r \in Report, NEW rows \in [Report -> Row],
           \A s \in Report : s # r => rows[s] = report[s],
           rows[r].exists, rows[r].into = IF Exists(r) THEN report[r].into ELSE None
    PROVE  FlatRows(rows)
<1>1. \A s \in Report : Exists(s) => rows[s].exists
  BY DEF Exists
<1>2. \A s \in Report : rows[s].into = report[s].into \/ (s = r /\ rows[s].into = None)
  OBVIOUS
<1>3. \A s \in Report : report[s].into \in Report \union {None}
  BY DEF TablesOK, Row
<1>. SUFFICES ASSUME NEW s \in Report, rows[s].into # None
              PROVE  rows[s].exists /\ rows[rows[s].into].exists /\ rows[rows[s].into].into = None
  BY DEF FlatRows
<1>4. report[s].into # None /\ rows[s].into = report[s].into
  BY <1>2
<1>5. Exists(s) /\ Exists(report[s].into) /\ report[report[s].into].into = None
  BY <1>4 DEF TablesOK, FamilyIsFlat
<1>. QED
  BY <1>1, <1>2, <1>3, <1>4, <1>5

LEMMA RelinkedLinks ==
    ASSUME TablesOK, NEW r \in Report, NEW files \in SUBSET Asset
    PROVE  /\ Relinked(r, files) \subseteq Report \X Asset
           /\ \A s \in Report, a \in Asset : <<s, a>> \in Relinked(r, files) => s = r \/ <<s, a>> \in link
BY DEF TablesOK, Relinked

LEMMA CreateWriteStep ==
    ASSUME FamilyInv, NEW e \in Editor, CreateWrite(e)
    PROVE  FamilyInv'
<1>. USE DEF FamilyInv
<1>. DEFINE r == edit[e].id
            row == [exists |-> TRUE, published |-> edit[e].published, into |-> None, images |-> 0]
            rows == [report EXCEPT ![r] = row]
<1>1. r \in Report /\ edit[e].published \in BOOLEAN /\ edit[e].files \in SUBSET Asset
  BY DEF CreateWrite, RequestsOK, RequestOK, Request
<1>2. RequestsOK'
  BY DoneMoves DEF CreateWrite
<1>3. CASE Exists(r)
  BY <1>2, <1>3, TablesStay DEF CreateWrite
<1>4. CASE ~Exists(r)
  <2>1. link' = Relinked(r, edit[e].files) /\ report' = CountImages(rows, link', asset) /\ asset' = asset
    BY <1>4 DEF CreateWrite
  <2>2. row \in Row /\ row.exists /\ row.into = None
    BY <1>1 DEF Row
  <2>. HIDE DEF row
  <2>3. rows \in [Report -> Row] /\ rows[r] = row /\ \A s \in Report : s # r => rows[s] = report[s]
    BY <1>1, <2>2 DEF TablesOK
  <2>. HIDE DEF rows
  <2>4. FlatRows(rows)
    BY <1>1, <1>4, <2>2, <2>3, FlatAfterSave
  <2>5. \A s \in Report, a \in Asset : <<s, a>> \in link' => rows[s].exists
    BY <1>1, <2>1, <2>2, <2>3, RelinkedLinks DEF TablesOK, LinksHaveReports, Exists
  <2>6. link' \subseteq Report \X Asset /\ asset' \in [Asset -> AssetState]
    BY <1>1, <2>1, RelinkedLinks DEF TablesOK
  <2>. QED
    BY <1>2, <2>1, <2>3, <2>4, <2>5, <2>6, CountStep
<1>. QED
  BY <1>3, <1>4

LEMMA UpdateWriteStep ==
    ASSUME FamilyInv, NEW e \in Editor, UpdateWrite(e)
    PROVE  FamilyInv'
<1>. USE DEF FamilyInv
<1>. DEFINE r == edit[e].id
            row == [report[r] EXCEPT !.published = edit[e].published]
            rows == [report EXCEPT ![r] = row]
<1>1. r \in Report /\ edit[e].published \in BOOLEAN /\ edit[e].files \in SUBSET Asset
  BY DEF UpdateWrite, RequestsOK, RequestOK, Request
<1>2. RequestsOK'
  BY DoneMoves DEF UpdateWrite
<1>3. CASE ~Exists(r)
  BY <1>2, <1>3, TablesStay DEF UpdateWrite
<1>4. CASE Exists(r)
  <2>1. link' = Relinked(r, edit[e].files) /\ report' = CountImages(rows, link', asset) /\ asset' = asset
    BY <1>4 DEF UpdateWrite
  <2>2. row \in Row /\ row.exists /\ row.into = report[r].into
    BY <1>1, <1>4 DEF Row, TablesOK, Exists
  <2>. HIDE DEF row
  <2>3. rows \in [Report -> Row] /\ rows[r] = row /\ \A s \in Report : s # r => rows[s] = report[s]
    BY <1>1, <2>2 DEF TablesOK
  <2>. HIDE DEF rows
  <2>4. FlatRows(rows)
    BY <1>1, <1>4, <2>2, <2>3, FlatAfterSave
  <2>5. \A s \in Report, a \in Asset : <<s, a>> \in link' => rows[s].exists
    BY <1>1, <2>1, <2>2, <2>3, RelinkedLinks DEF TablesOK, LinksHaveReports, Exists
  <2>6. link' \subseteq Report \X Asset /\ asset' \in [Asset -> AssetState]
    BY <1>1, <2>1, RelinkedLinks DEF TablesOK
  <2>. QED
    BY <1>2, <2>1, <2>3, <2>4, <2>5, <2>6, CountStep
<1>. QED
  BY <1>3, <1>4

\* An asset changes its state, and may lose its links.
LEMMA AssetStep ==
    ASSUME TablesOK, NEW a \in Asset, NEW state \in AssetState, NEW links \in SUBSET link,
           SetAsset(a, state, links)
    PROVE  TablesOK'
<1>1. link' = links /\ asset' \in [Asset -> AssetState] /\ report' = CountImages(report, link', asset')
  BY DEF SetAsset, TablesOK
<1>2. FlatRows(report)
  BY DEF TablesOK, FamilyIsFlat, FlatRows, Exists
<1>3. \A r \in Report, b \in Asset : <<r, b>> \in link' => report[r].exists
  BY <1>1 DEF TablesOK, LinksHaveReports, Exists
<1>. QED
  BY <1>1, <1>2, <1>3, CountStep DEF TablesOK

LEMMA EraseStep ==
    ASSUME FamilyInv, NEW e \in Editor, NEW a \in Asset, Erase(e, a)
    PROVE  FamilyInv'
<1>. USE DEF FamilyInv
<1>. DEFINE q1 == [edit[e] EXCEPT !.files = @ \ {a}]
            q2 == [q1 EXCEPT !.pc = "erasing"]
            q3 == [q2 EXCEPT !.now = a]
<1>1. edit[e] \in Request /\ edit[e].pc = "erase" /\ edits' = edits /\ edit[e].id \in Report
  BY DEF Erase, RequestsOK, RequestOK
<1>2. q1 \in Request /\ q1.pc = "erase" /\ q1.id = edit[e].id
  <2>1. edit[e].files \ {a} \in SUBSET Asset
    BY <1>1 DEF Request
  <2>. QED
    BY <1>1, <2>1, RequestFields DEF Keeps
<1>. HIDE DEF q1
<1>3. q2 \in Request /\ q2.pc = "erasing" /\ q2.id = q1.id
  BY <1>2, RequestFields DEF Keeps, Pc
<1>. HIDE DEF q2
<1>4. q3 \in Request /\ q3.pc = "erasing" /\ q3.id = q2.id /\ q3.now = a
  BY <1>3, RequestFields DEF Keeps
<1>5. RequestOK(q1) /\ RequestOK(q3)
  BY <1>1, <1>2, <1>3, <1>4 DEF RequestOK
<1>. HIDE DEF q3
<1>6. CASE asset[a] = "deleted"
  <2>1. edit' = [edit EXCEPT ![e] = q1] /\ UNCHANGED <<report, asset, link>>
    BY <1>6 DEF Erase, q1
  <2>. QED
    BY <1>1, <1>2, <1>5, <2>1, RequestMoves, TablesStay
<1>7. CASE asset[a] = "leased"
  <2>1. Done(e) /\ UNCHANGED <<report, asset, link>>
    BY <1>7 DEF Erase
  <2>. QED
    BY <1>1, <2>1, DoneMoves, TablesStay
<1>8. CASE asset[a] \notin {"deleted", "leased"}
  <2>1. edit' = [edit EXCEPT ![e] = q3] /\ SetAsset(a, "leased", link)
    BY <1>8 DEF Erase, q1, q2, q3
  <2>. QED
    BY <1>1, <1>4, <1>5, <2>1, RequestMoves, AssetStep DEF AssetState
<1>. QED
  BY <1>6, <1>7, <1>8

LEMMA ErasedStep ==
    ASSUME FamilyInv, NEW e \in Editor, Erased(e) \/ EraseFails(e)
    PROVE  FamilyInv'
<1>. USE DEF FamilyInv
<1>1. edit[e].now \in Asset /\ edits' = edits /\ edit[e].pc = "erasing"
  BY DEF Erased, EraseFails, RequestsOK, RequestOK
<1>2. TablesOK'
  BY <1>1, AssetStep DEF Erased, EraseFails, AssetState
<1>3. RequestsOK'
  BY <1>1, GotoMoves, DoneMoves DEF Erased, EraseFails, Pc
<1>. QED
  BY <1>2, <1>3

\* The trigger lets a report go only without duplicates.
LEMMA RemoveWriteStep ==
    ASSUME FamilyInv, NEW e \in Editor, RemoveWrite(e)
    PROVE  FamilyInv'
<1>. USE DEF FamilyInv
<1>. DEFINE r == edit[e].id
<1>1. r \in Report
  BY DEF RemoveWrite, RequestsOK, RequestOK
<1>2. RequestsOK'
  BY DoneMoves DEF RemoveWrite
<1>3. CASE ~DeleteAllowed(r)
  BY <1>2, <1>3, TablesStay DEF RemoveWrite
<1>4. CASE DeleteAllowed(r)
  <2>. DEFINE row == NoRow
  <2>1. row \in Row /\ ~row.exists /\ row.into = None /\ row.images = 0
    BY DEF NoRow, Row
  <2>. HIDE DEF row
  <2>2. report' = [report EXCEPT ![r] = row] /\ link' = {l \in link : l[1] # r} /\ asset' = asset
    BY <1>4 DEF RemoveWrite, row
  <2>3. /\ report' \in [Report -> Row] /\ report'[r] = row
        /\ \A s \in Report : s # r => report'[s] = report[s]
    BY <1>1, <2>1, <2>2 DEF TablesOK
  <2>4. \A s \in Report : report[s].into # r
    BY <1>1, <1>4 DEF DeleteAllowed, Children, TablesOK, FamilyIsFlat
  <2>5. FamilyIsFlat'
    <3>. SUFFICES ASSUME NEW s \in Report, report'[s].into # None
                  PROVE  Exists(s)' /\ Exists(report[s].into)' /\ report'[report'[s].into].into = None
      BY DEF FamilyIsFlat
    <3>1. s # r /\ report'[s] = report[s] /\ report[s].into \in Report
      BY <2>1, <2>3 DEF TablesOK, Row
    <3>2. report'[report[s].into] = report[report[s].into]
      BY <2>3, <2>4, <3>1
    <3>. QED
      BY <3>1, <3>2 DEF TablesOK, FamilyIsFlat, Exists
  <2>6. LinksHaveReports'
    BY <2>2, <2>3 DEF TablesOK, LinksHaveReports, Exists
  <2>7. CountsAreRight'
    <3>. SUFFICES ASSUME NEW s \in Report
                  PROVE  report'[s].images = IF Exists(s)' THEN Cardinality(PublicLinks(s, link', asset')) ELSE 0
      BY DEF CountsAreRight
    <3>1. CASE s = r
      BY <2>1, <2>3, <3>1 DEF Exists
    <3>2. CASE s # r
      <4>1. PublicLinks(s, link', asset') = PublicLinks(s, link, asset)
        BY <2>2, <3>2 DEF PublicLinks
      <4>. QED
        BY <2>3, <3>2, <4>1 DEF Exists, TablesOK, CountsAreRight
    <3>. QED
      BY <3>1, <3>2
  <2>. QED
    BY <1>2, <2>2, <2>3, <2>5, <2>6, <2>7 DEF TablesOK
<1>. QED
  BY <1>3, <1>4

\* A row that gets another canonical report and nothing else.
LEMMA IntoStep ==
    ASSUME TablesOK, NEW r \in Report, NEW c \in Report \union {None},
           report' = [report EXCEPT ![r].into = c], UNCHANGED <<asset, link>>
    PROVE  /\ report' \in [Report -> Row] /\ report'[r].into = c
           /\ \A s \in Report : s # r => report'[s].into = report[s].into
           /\ \A s \in Report : report'[s].exists = report[s].exists /\ report'[s].images = report[s].images
           /\ FamilyIsFlat' => TablesOK'
<1>1. /\ report' \in [Report -> Row] /\ report'[r].into = c
      /\ \A s \in Report : s # r => report'[s].into = report[s].into
      /\ \A s \in Report : report'[s].exists = report[s].exists /\ report'[s].images = report[s].images
  BY DEF TablesOK, Row
<1>. QED
  BY <1>1, PlainStep

\* The trigger lets a report be merged only into a canonical one, and only
\* when it has no duplicates of its own.
LEMMA MergeWriteStep ==
    ASSUME FamilyInv, NEW e \in Editor, MergeWrite(e)
    PROVE  FamilyInv'
<1>. USE DEF FamilyInv
<1>. DEFINE r == edit[e].id
            c == edit[e].to
<1>1. r \in Report /\ c \in Report
  BY DEF MergeWrite, RequestsOK, RequestOK
<1>2. RequestsOK'
  BY DoneMoves DEF MergeWrite
<1>3. CASE ~(Exists(r) /\ MergeAllowed(r, c))
  BY <1>2, <1>3, TablesStay DEF MergeWrite
<1>4. CASE Exists(r) /\ MergeAllowed(r, c)
  <2>1. report' = [report EXCEPT ![r].into = c] /\ UNCHANGED <<asset, link>>
    BY <1>4 DEF MergeWrite
  <2>. HIDE DEF r, c
  <2>2. /\ report'[r].into = c
        /\ \A s \in Report : s # r => report'[s].into = report[s].into
        /\ \A s \in Report : report'[s].exists = report[s].exists
    BY <1>1, <2>1, IntoStep
  <2>3. r # c /\ Exists(c) /\ report[c].into = None /\ \A s \in Report : report[s].into # r
    BY <1>1, <1>4 DEF MergeAllowed, Children, TablesOK, FamilyIsFlat
  <2>4. FamilyIsFlat'
    <3>. SUFFICES ASSUME NEW s \in Report, report'[s].into # None
                  PROVE  Exists(s)' /\ Exists(report[s].into)' /\ report'[report'[s].into].into = None
      BY DEF FamilyIsFlat
    <3>1. CASE s = r
      BY <1>1, <1>4, <2>2, <2>3, <3>1 DEF Exists
    <3>2. CASE s # r
      <4>1. report'[s].into = report[s].into /\ report[s].into \in Report /\ report[s].into # r
        BY <2>2, <2>3, <3>2 DEF TablesOK, Row
      <4>2. Exists(s) /\ Exists(report[s].into) /\ report[report[s].into].into = None
        BY <4>1 DEF TablesOK, FamilyIsFlat
      <4>. QED
        BY <2>2, <4>1, <4>2 DEF Exists
    <3>. QED
      BY <3>1, <3>2
  <2>. QED
    BY <1>1, <1>2, <2>1, <2>4, IntoStep
<1>. QED
  BY <1>3, <1>4

LEMMA UnmergeWriteStep ==
    ASSUME FamilyInv, NEW e \in Editor, UnmergeWrite(e)
    PROVE  FamilyInv'
<1>. USE DEF FamilyInv
<1>. DEFINE r == edit[e].id
<1>1. r \in Report
  BY DEF UnmergeWrite, RequestsOK, RequestOK
<1>2. RequestsOK'
  BY DoneMoves DEF UnmergeWrite
<1>3. CASE ~Exists(r)
  BY <1>2, <1>3, TablesStay DEF UnmergeWrite
<1>4. CASE Exists(r)
  <2>1. report' = [report EXCEPT ![r].into = None] /\ UNCHANGED <<asset, link>>
    BY <1>4 DEF UnmergeWrite
  <2>. HIDE DEF r
  <2>2. /\ report'[r].into = None
        /\ \A s \in Report : s # r => report'[s].into = report[s].into
        /\ \A s \in Report : report'[s].exists = report[s].exists
    BY <1>1, <2>1, IntoStep
  <2>3. FamilyIsFlat'
    <3>. SUFFICES ASSUME NEW s \in Report, report'[s].into # None
                  PROVE  Exists(s)' /\ Exists(report[s].into)' /\ report'[report'[s].into].into = None
      BY DEF FamilyIsFlat
    <3>1. report'[s].into = report[s].into /\ report[s].into \in Report
      BY <2>2 DEF TablesOK, Row
    <3>2. Exists(s) /\ Exists(report[s].into) /\ report[report[s].into].into = None
      BY <3>1 DEF TablesOK, FamilyIsFlat
    <3>. QED
      BY <2>2, <3>1, <3>2 DEF Exists
  <2>. QED
    BY <1>1, <1>2, <2>1, <2>3, IntoStep
<1>. QED
  BY <1>3, <1>4

-----------------------------------------------------------------------------
(* The theorems. *)

LEMMA FamilyInit == Init => FamilyInv
<1>. SUFFICES ASSUME Init PROVE FamilyInv
  OBVIOUS
<1>1. PICK s \in Scenarios : ReportsInit(s.reports, s.images) /\ edits = s.edits
  BY DEF Init
<1>. DEFINE row == Published
            blank == NoRow
            rows == [r \in Report |-> IF r \in s.reports THEN row ELSE blank]
<1>2. row \in Row /\ row.exists /\ row.into = None /\ blank \in Row /\ blank.into = None
  BY DEF Published, NoRow, Row
<1>. HIDE DEF row, blank
<1>3. rows \in [Report -> Row] /\ \A r \in Report : rows[r].into = None /\ (r \in s.reports => rows[r].exists)
  BY <1>2
<1>4. report = CountImages(rows, link, asset) /\ link = s.images /\ asset = [a \in Asset |-> "public"]
      /\ edit = [e \in Editor |-> Idle]
  BY <1>1 DEF ReportsInit, row, blank
<1>. HIDE DEF rows
<1>5. s.reports \subseteq Report /\ s.images \subseteq s.reports \X Asset /\ s.edits \subseteq Asked
  BY ScenariosConstants
<1>6. /\ report \in [Report -> Row]
      /\ \A r \in Report : /\ report[r].exists = rows[r].exists /\ report[r].into = None
                           /\ report[r].images = IF rows[r].exists
                                                 THEN Cardinality(PublicLinks(r, link, asset)) ELSE 0
  BY <1>3, <1>4, CountKeepsRows
<1>7. TablesOK
  <2>1. FamilyIsFlat
    BY <1>6 DEF FamilyIsFlat
  <2>2. LinksHaveReports
    BY <1>3, <1>4, <1>5, <1>6 DEF LinksHaveReports, Exists
  <2>3. CountsAreRight
    BY <1>6 DEF CountsAreRight, Exists
  <2>4. asset \in [Asset -> AssetState] /\ link \subseteq Report \X Asset
    BY <1>4, <1>5 DEF AssetState
  <2>. QED
    BY <1>6, <2>1, <2>2, <2>3, <2>4 DEF TablesOK
<1>8. RequestsOK
  BY <1>1, <1>4, <1>5, IdleRequest DEF RequestsOK, RequestOK
<1>. QED
  BY <1>7, <1>8 DEF FamilyInv

LEMMA FamilyStep == FamilyInv /\ [Next]_vars => FamilyInv'
<1>. SUFFICES ASSUME FamilyInv, [Next]_vars PROVE FamilyInv'
  OBVIOUS
<1>1. ASSUME NEW e \in Editor, EditStep(e) PROVE FamilyInv'
  <2>1. CASE \E a \in Asset : Erase(e, a)
    BY <2>1, EraseStep
  <2>. QED
    BY <1>1, <2>1, BeginStep, ReadStep, RemoveAssetsStep, CreateWriteStep, UpdateWriteStep, ErasedStep, MergeWriteStep,
       UnmergeWriteStep DEF EditStep
<1>2. ASSUME NEW e \in Editor, CheckMerge(e) PROVE FamilyInv'
  BY <1>2, ReadStep DEF CheckMerge
<1>3. ASSUME NEW e \in Editor, RemoveReport(e) PROVE FamilyInv'
  BY <1>3, RemoveWriteStep DEF RemoveReport
<1>4. CASE UNCHANGED reportVars
  BY <1>4, TablesStay DEF reportVars, FamilyInv, RequestsOK
<1>. QED
  BY <1>1, <1>2, <1>3, <1>4 DEF Next, vars

THEOREM FamilyInvHolds == Spec => []FamilyInv
BY FamilyInit, FamilyStep, PTL DEF Spec

\* Whatever merges, removals and saves overtake each other's checks, what a
\* report is merged into exists and is canonical.
THEOREM FamiliesStayFlat == Spec => []FamilyIsFlat
BY FamilyInvHolds, PTL DEF FamilyInv, TablesOK

-----------------------------------------------------------------------------
(* The public reads. *)

\* One redirect of a reader.
Hop(at) == IF at # None /\ IsPublished(at) /\ report[at].into # None THEN report[at].into ELSE at

\* Nine redirects: the function that Follow defines by recursion exists, since a
\* flat family makes it constant after the first.
LEMMA FollowIsOneHop ==
    ASSUME NEW r \in Report, Hop(Hop(r)) = Hop(r)
    PROVE  Follow(r) = Hop(r)
<1>. DEFINE Hops(f) == f = [n \in 0 .. 9 |-> IF n = 0 THEN r ELSE Hop(f[n - 1])]
            g == [n \in 0 .. 9 |-> IF n = 0 THEN r ELSE Hop(r)]
            hop == CHOOSE f : Hops(f)
<1>1. Hops(g)
  <2>. DEFINE next == Hop(r)
              twice == Hop(next)
  <2>1. twice = next
    OBVIOUS
  <2>2. \A n \in 0 .. 9 : n # 0 => g[n - 1] = r \/ g[n - 1] = next
    OBVIOUS
  <2>3. ASSUME NEW n \in 0 .. 9 PROVE g[n] = IF n = 0 THEN r ELSE Hop(g[n - 1])
    BY <2>1, <2>2
  <2>. QED
    BY <2>3
<1>2. Hops(hop)
  <2>. HIDE DEF Hops
  <2>. QED
    BY <1>1
<1>3. Follow(r) = hop[9]
  BY DEF Follow, Hop
<1>. HIDE DEF Hops
<1>4. hop = [n \in 0 .. 9 |-> IF n = 0 THEN r ELSE Hop(hop[n - 1])]
  BY <1>2 DEF Hops
<1>. HIDE DEF hop
<1>5. hop[0] = r /\ \A n \in 1 .. 9 : hop[n] = Hop(hop[n - 1])
  BY <1>4
<1>. DEFINE once == Hop(r)
<1>6. hop[1] = once /\ Hop(once) = once
  BY <1>5
<1>. HIDE DEF once
<1>7. hop[2] = once
  BY <1>5, <1>6
<1>8. hop[3] = once
  BY <1>5, <1>6, <1>7
<1>9. hop[4] = once
  BY <1>5, <1>6, <1>8
<1>10. hop[5] = once
  BY <1>5, <1>6, <1>9
<1>11. hop[6] = once
  BY <1>5, <1>6, <1>10
<1>12. hop[7] = once
  BY <1>5, <1>6, <1>11
<1>13. hop[8] = once
  BY <1>5, <1>6, <1>12
<1>14. hop[9] = once
  BY <1>5, <1>6, <1>13
<1>. QED
  BY <1>3, <1>14 DEF once

\* In a flat family a reader of a published report arrives after one redirect.
LEMMA ResolvesInOneHop ==
    ASSUME FamilyInv, NEW r \in Report, IsPublished(r), NEW c, c = RootOf(r), c \in Listed
    PROVE  ResolvesTo(r) = c
<1>1. c \in Report /\ IsPublished(c) /\ report[c].into = None /\ IsRoot(c)
  BY DEF Listed, IsPublished, IsRoot
<1>2. Hop(r) = c
  BY <1>1 DEF RootOf, Hop
<1>3. Hop(c) = c
  BY <1>1 DEF Hop
<1>4. Follow(r) = c
  BY <1>2, <1>3, FollowIsOneHop
<1>. QED
  BY <1>1, <1>4 DEF ResolvesTo

\* What a link resolves to is listed.
LEMMA ResolvesToListed ==
    ASSUME FamilyInv, NEW r \in Report
    PROVE  ResolvesTo(r) \in Listed \union {None}
<1>1. Hop(r) \in Report /\ Hop(Hop(r)) = Hop(r)
  <2>1. CASE IsPublished(r) /\ report[r].into # None
    <3>1. Hop(r) = report[r].into
      BY <2>1 DEF Hop
    <3>2. report[r].into \in Report /\ report[report[r].into].into = None
      BY <2>1 DEF FamilyInv, TablesOK, FamilyIsFlat, Row
    <3>. QED
      BY <3>1, <3>2 DEF Hop
  <2>2. CASE ~(IsPublished(r) /\ report[r].into # None)
    BY <2>2 DEF Hop
  <2>. QED
    BY <2>1, <2>2
<1>2. Follow(r) = Hop(r)
  BY <1>1, FollowIsOneHop
<1>. QED
  BY <1>1, <1>2 DEF ResolvesTo, Listed, IsRoot

\* The natural numbers are well-ordered: a set of them has a least element.
LEMMA LeastExists ==
    ASSUME NEW S \in SUBSET Nat, S # {}
    PROVE  \E n \in S : \A m \in S : n <= m
<1>1. PICK n \in S : \A m \in S : ~(<<m, n>> \in OpToRel(<, Nat))
  BY NatLessThanWellFounded, WFMin
<1>2. \A m \in S : ~(m < n)
  BY <1>1 DEF OpToRel
<1>. QED
  BY <1>2

LEMMA NeighboursLeadBack ==
    ASSUME NEW r \in Listed, Newer(r) # None
    PROVE  Older(Newer(r)) = r
<1>. DEFINE later == {n \in Listed : n > r}
            newer == CHOOSE n \in later : \A m \in later : n <= m
            earlier == {n \in Listed : n < newer}
<1>1. Listed \subseteq Nat
  BY DEF Listed
<1>2. later # {} /\ Newer(r) = newer
  BY DEF Newer
<1>3. newer \in later /\ \A m \in later : newer <= m
  BY <1>1, <1>2, LeastExists
<1>. HIDE DEF newer
<1>4. r \in earlier /\ \A m \in earlier : r >= m
  BY <1>1, <1>3
<1>5. \A n \in earlier : (\A m \in earlier : n >= m) => n = r
  BY <1>1, <1>4
<1>6. Older(newer) = CHOOSE n \in earlier : \A m \in earlier : n >= m
  BY <1>4 DEF Older
<1>. HIDE DEF earlier
<1>. QED
  BY <1>2, <1>4, <1>5, <1>6

\* What the counters and the pages of a listed report count.
LEMMA CountersMatchPages ==
    ASSUME FamilyInv, NEW r \in Listed
    PROVE  ImageMetric(r) = Cardinality(PageImages(r))
<1>1. r \in Report /\ Exists(r) /\ report[r].into = None
  BY DEF Listed, IsPublished
<1>2. Family(r) = {r} \union Children(r)
  BY <1>1 DEF Family
<1>3. CASE Children(r) = {}
  <2>1. PageImages(r) = PublicLinks(r, link, asset)
    BY <1>1, <1>2, <1>3 DEF PageImages, PublicImagesOf, PublicLinks
  <2>. QED
    BY <1>1, <1>3, <2>1 DEF ImageMetric, FamilyInv, TablesOK, CountsAreRight
<1>4. CASE Children(r) # {}
  <2>. DEFINE members == {r} \union Children(r)
              counted == {a \in Asset : asset[a] = "public" /\ \E m \in members : <<m, a>> \in link}
  <2>. DEFINE page == PageImages(r)
  <2>3. \A a : a \in page <=> \E m \in members : a \in PublicImagesOf(m)
    BY <1>2 DEF PageImages
  <2>4. \A a : a \in counted <=> \E m \in members : a \in PublicImagesOf(m)
    BY DEF PublicImagesOf
  <2>. HIDE DEF page, counted
  <2>1. page = counted
    BY <2>3, <2>4
  <2>. USE DEF page, counted
  <2>2. ImageMetric(r) = Cardinality(counted)
    BY <1>4 DEF ImageMetric
  <2>. HIDE DEF counted
  <2>. QED
    BY <2>1, <2>2
<1>. QED
  BY <1>3, <1>4

LEMMA PageImagesAreDelivered ==
    ASSUME FamilyInv, NEW r \in Listed, NEW a \in PageImages(r)
    PROVE  Delivered(a)
<1>1. r \in Report /\ IsPublished(r) /\ IsRoot(r) /\ report[r].into = None
  BY DEF Listed, IsPublished, IsRoot
<1>2. PICK m \in Family(r) : a \in PublicImagesOf(m)
  BY DEF PageImages
<1>3. m \in Report /\ (m = r \/ report[m].into = r)
  BY <1>1, <1>2 DEF Family, Children
<1>4. a \in Asset /\ asset[a] = "public" /\ <<m, a>> \in link
  BY <1>2 DEF PublicImagesOf
<1>5. Exists(m)
  BY <1>3, <1>4 DEF FamilyInv, TablesOK, LinksHaveReports
<1>6. MayDeliver(m)
  BY <1>1, <1>3 DEF MayDeliver
<1>. QED
  BY <1>3, <1>4, <1>5, <1>6 DEF Delivered

LEMMA FamilyInvShowsPages == FamilyInv => PagesAgree
<1>. SUFFICES ASSUME FamilyInv PROVE PagesAgree
  OBVIOUS
<1>1. ASSUME NEW r \in Listed
      PROVE  r \in Report /\ IsPublished(r) /\ report[r].into = None /\ RootOf(r) = r
  BY DEF Listed, RootOf
<1>2. ASSUME NEW r \in Listed PROVE ResolvesTo(r) = r
  BY <1>1, ResolvesInOneHop
<1>3. ASSUME NEW r \in Listed, NEW d \in Children(r), IsPublished(d) PROVE ResolvesTo(d) = r
  <2>1. d \in Report /\ RootOf(d) = r
    BY <1>1 DEF Children, RootOf
  <2>. QED
    BY <1>3, <2>1, ResolvesInOneHop
<1>4. ASSUME NEW r \in Report, IsPublished(r), RootOf(r) \in Listed PROVE ResolvesTo(r) = RootOf(r)
  BY <1>4, ResolvesInOneHop
<1>. QED
  BY <1>2, <1>3, <1>4, NeighboursLeadBack, CountersMatchPages, PageImagesAreDelivered DEF PagesAgree

\* What the directory lists opens as itself, its neighbours lead back, its
\* counter is the number of images on its page, every one of them is delivered,
\* and its published duplicates lead to it, for any number of reports, images
\* and racing requests.
THEOREM PublicReadsAgree == Spec => []PagesAgree
BY FamilyInvHolds, FamilyInvShowsPages, PTL

-----------------------------------------------------------------------------
(* What reviews, cases and replies rely on. *)

\* The family of a listed report are the reports it is the root of.
LEMMA FamilyOfRoot ==
    ASSUME NEW r \in Listed, NEW c \in Report
    PROVE  /\ c \in Family(r) => RootOf(c) = r
           /\ Exists(c) /\ RootOf(c) = r => c \in Family(r)
BY DEF Listed, Family, RootOf, Children

\* No request but a removal makes a report disappear.
LEMMA ReportsStay ==
    ASSUME FamilyInv, NEW e \in Editor, EditStep(e) \/ CheckMerge(e), NEW r \in Report, Exists(r)
    PROVE  Exists(r)'
<1>. USE DEF FamilyInv, TablesOK
<1>1. CASE CreateWrite(e) /\ ~Exists(edit[e].id)
  <2>. DEFINE row == [exists |-> TRUE, published |-> edit[e].published, into |-> None, images |-> 0]
              rows == [report EXCEPT ![edit[e].id] = row]
  <2>1. edit[e].id \in Report /\ edit[e].published \in BOOLEAN
    BY <1>1 DEF CreateWrite, RequestsOK, RequestOK, Request
  <2>2. row \in Row
    BY <2>1 DEF Row
  <2>. HIDE DEF row
  <2>3. rows \in [Report -> Row] /\ rows[r] = report[r]
    BY <1>1, <2>1, <2>2
  <2>4. report' = CountImages(rows, link', asset)
    BY <1>1 DEF CreateWrite, row
  <2>. HIDE DEF rows
  <2>. QED
    BY <2>3, <2>4, CountKeepsRows DEF Exists
<1>2. CASE UpdateWrite(e) /\ Exists(edit[e].id)
  <2>. DEFINE rows == [report EXCEPT ![edit[e].id].published = edit[e].published]
  <2>1. edit[e].id \in Report /\ edit[e].published \in BOOLEAN
    BY <1>2 DEF UpdateWrite, RequestsOK, RequestOK, Request
  <2>2. rows \in [Report -> Row] /\ rows[r].exists
    BY <2>1 DEF Row, Exists
  <2>3. report' = CountImages(rows, link', asset)
    BY <1>2 DEF UpdateWrite
  <2>. HIDE DEF rows
  <2>. QED
    BY <2>2, <2>3, CountKeepsRows DEF Exists
<1>3. CASE report' = CountImages(report, link', asset')
  BY <1>3, CountKeepsRows DEF Exists
<1>4. CASE UNCHANGED report
  BY <1>4 DEF Exists
<1>5. CASE MergeWrite(e) \/ UnmergeWrite(e)
  <2>1. edit[e].id \in Report
    BY <1>5 DEF MergeWrite, UnmergeWrite, RequestsOK, RequestOK
  <2>. QED
    BY <1>5, <2>1 DEF MergeWrite, UnmergeWrite, Row, Exists
<1>6. ASSUME NEW a \in Asset, Erase(e, a) PROVE UNCHANGED report \/ report' = CountImages(report, link', asset')
  BY <1>6 DEF Erase, SetAsset
<1>7. CASE Begin(e) \/ CreateRead(e) \/ UpdateRead(e) \/ RemoveRead(e) \/ RemoveAssets(e) \/ EraseEnds(e)
           \/ MergeRead(e) \/ UnmergeRead(e) \/ CheckMerge(e)
  BY <1>4, <1>7 DEF Begin, CreateRead, UpdateRead, RemoveRead, RemoveAssets, EraseEnds, MergeRead, UnmergeRead,
     CheckMerge, MergeCheck, Reads
<1>8. CASE Erased(e) \/ EraseFails(e)
  BY <1>3, <1>8 DEF Erased, EraseFails, SetAsset
<1>9. CASE CreateWrite(e) /\ Exists(edit[e].id)
  BY <1>4, <1>9 DEF CreateWrite
<1>10. CASE UpdateWrite(e) /\ ~Exists(edit[e].id)
  BY <1>4, <1>10 DEF UpdateWrite
<1>. QED
  BY <1>1, <1>2, <1>3, <1>4, <1>5, <1>6, <1>7, <1>8, <1>9, <1>10 DEF EditStep

\* A removal takes one report and leaves the others.
LEMMA RemovalTakesOne ==
    ASSUME FamilyInv, NEW e \in Editor, RemoveReport(e)
    PROVE  /\ edit[e].id \in Report
           /\ DeleteAllowed(edit[e].id) =>
                  /\ DropReviewsOf(edit[e].id) /\ DropCasesOf(edit[e].id) /\ DropCommentsOf(edit[e].id)
                  /\ \A r \in Report : r # edit[e].id => report'[r] = report[r]
           /\ ~DeleteAllowed(edit[e].id) => UNCHANGED <<report, reviewVars, intakeVars, commentVars>>
<1>1. edit[e].id \in Report
  BY DEF RemoveReport, RemoveWrite, FamilyInv, RequestsOK, RequestOK
<1>. QED
  BY <1>1 DEF RemoveReport, RemoveWrite, FamilyInv, TablesOK
=============================================================================
