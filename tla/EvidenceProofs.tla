--------------------------- MODULE EvidenceProofs ---------------------------
(***************************************************************************)
(* What Evidence guarantees for every number of images, reports and        *)
(* requests, and for every set of faults.                                  *)
(***************************************************************************)
EXTENDS Inventory, TLAPS, FiniteSetTheorems

-----------------------------------------------------------------------------
(* Types of what the actions write.                                        *)

LEMMA NoRowType == NoRow \in Row
BY DEF Row, NoRow, State

LEMMA ReadyRowType == ASSUME NEW x \in Row PROVE ReadyRow(x) \in Row
BY DEF Row, ReadyRow, State

LEMMA RowWrite ==
    ASSUME row \in [Asset -> Row], NEW a \in Asset, NEW x \in Row,
           row' = [row EXCEPT ![a] = x]
    PROVE  row' \in [Asset -> Row]
OBVIOUS

LEMMA UploadGotoType ==
    ASSUME up \in [Asset -> UploadRequest], NEW a \in Asset, NEW pc \in UploadPc,
           UploadGoto(a, pc)
    PROVE  up' \in [Asset -> UploadRequest]
BY DEF UploadGoto, UploadRequest

LEMMA IdleIsNoRequest == Idle \notin ModRequest /\ Idle \notin DelRequest
BY DEF Idle, ModRequest, ModPc, DelRequest

LEMMA PcIsNotIdle == ASSUME NEW x, x.pc \in ModPc PROVE x # Idle
BY DEF Idle, ModPc

LEMMA ModRequestPc ==
    ASSUME NEW m \in Moderator, TypeOK, mod[m].pc \in ModPc
    PROVE  mod[m] \in ModRequest
BY DEF TypeOK, Idle, ModPc

LEMMA DelRequestPc ==
    ASSUME NEW d \in Deleter, TypeOK, del[d].pc \in {"claim", "erase"}
    PROVE  del[d] \in DelRequest
BY DEF TypeOK, Idle

LEMMA SyncRequestPc ==
    ASSUME NEW e \in Editor, TypeOK, sync[e].pc = "check"
    PROVE  sync[e] \in SyncRequest
BY DEF TypeOK, Idle

LEMMA TypeInit == Init => TypeOK
<1> SUFFICES ASSUME Init PROVE TypeOK
  OBVIOUS
<1>1. row \in [Asset -> Row]
  BY NoRowType, ReadyRowType DEF Init
<1>2. stored \in [Asset -> SUBSET ObjectKind]
  BY DEF Init
<1>3. link \in [Report -> [Asset -> Caption \union {"none"}]]
  BY DEF Init
<1>4. up \in [Asset -> UploadRequest]
  BY DEF Init, UploadRequest, UploadPc
<1> QED
  BY <1>1, <1>2, <1>3, <1>4 DEF Init, TypeOK

LEMMA TypeUpload ==
    ASSUME TypeOK, NEW a \in Asset,
           UploadInsert(a) \/ UploadStep(a) \/ UploadFault(a)
    PROVE  TypeOK'
<1> USE DEF TypeOK
<1>1. CASE UploadInsert(a)
  <2> PICK s \in Asset \union {"none"} :
        row' = [row EXCEPT ![a] = [NoRow EXCEPT !.state = "uploading", !.replaces = s]]
    BY <1>1 DEF UploadInsert
  <2>1. [NoRow EXCEPT !.state = "uploading", !.replaces = s] \in Row
    BY DEF Row, NoRow, State
  <2>2. up' \in [Asset -> UploadRequest]
    BY <1>1, UploadGotoType DEF UploadInsert, UploadPc
  <2> QED
    BY <1>1, <2>1, <2>2, RowWrite DEF UploadInsert
<1>2. CASE UploadSanitize(a)
  BY <1>2, UploadGotoType DEF UploadSanitize, UploadPc
<1>3. ASSUME NEW k \in ObjectKind, UploadPut(a, k)
      PROVE  TypeOK'
  <2>1. AfterPut[k] \in UploadPc
    BY DEF AfterPut, ObjectKind, UploadPc
  <2>2. up' \in [Asset -> UploadRequest]
    BY <1>3, <2>1 DEF UploadPut, UploadRequest
  <2>3. stored' \in [Asset -> SUBSET ObjectKind]
    BY <1>3 DEF UploadPut
  <2> QED
    BY <1>3, <2>2, <2>3 DEF UploadPut
<1>4. ASSUME NEW k \in ObjectKind, UploadPutFails(a, k)
      PROVE  TypeOK'
  <2>1. stored' \in [Asset -> SUBSET ObjectKind]
    BY <1>4 DEF UploadPutFails
  <2> QED
    BY <1>4, <2>1, UploadGotoType DEF UploadPutFails, UploadPc
<1>5. CASE UploadCommit(a)
  BY <1>5, UploadGotoType, ReadyRowType DEF UploadCommit, UploadPc
<1>6. CASE UploadCommitFails(a)
  BY <1>6, UploadGotoType, ReadyRowType DEF UploadCommitFails, UploadPc
<1>7. CASE UploadVerify(a)
  BY <1>7, UploadGotoType DEF UploadVerify, UploadPc
<1>8. ASSUME NEW k \in ObjectKind, UploadCleanup(a, k)
      PROVE  TypeOK'
  <2>1. stored' \in [Asset -> SUBSET ObjectKind]
    BY <1>8 DEF UploadCleanup
  <2>2. CASE up' = [up EXCEPT ![a].kept = @ \ {k}]
    BY <1>8, <2>1, <2>2 DEF UploadCleanup, UploadRequest
  <2>3. CASE up' = [up EXCEPT ![a].kept = @ \ {k}, ![a].clean = FALSE]
    <3>1. [up[a] EXCEPT !.kept = @ \ {k}, !.clean = FALSE] \in UploadRequest
      BY DEF UploadRequest
    <3> QED
      BY <1>8, <2>1, <2>3, <3>1 DEF UploadCleanup
  <2> QED
    BY <1>8, <2>2, <2>3 DEF UploadCleanup
<1>9. CASE UploadRecord(a)
  <2>1. [row[a] EXCEPT !.state = "failed"] \in Row
    BY DEF Row, State
  <2>2. row' \in {row, [row EXCEPT ![a].state = "failed"], [row EXCEPT ![a] = NoRow]}
    BY <1>9 DEF UploadRecord
  <2>3. row' \in [Asset -> Row]
    BY <2>1, <2>2, NoRowType
  <2> QED
    BY <1>9, <2>3, UploadGotoType DEF UploadRecord, UploadPc
<1>10. CASE UploadCrash(a)
  BY <1>10, UploadGotoType DEF UploadCrash, UploadPc
<1> QED
  BY <1>1, <1>2, <1>3, <1>4, <1>5, <1>6, <1>7, <1>8, <1>9, <1>10
  DEF UploadStep, UploadFault

LEMMA NextTypes ==
    ASSUME NEW cur \in Row, NEW in \in Inputs, Allowed(cur, in)
    PROVE  /\ NextState(cur, in) \in State
           /\ NextPrivacy(cur, in) \in BOOLEAN
           /\ NextReviewed(cur, in) \in BOOLEAN
           /\ NextHold(cur, in) \in BOOLEAN
<1> in \in Input
  BY EvidenceConstants
<1>1. NextState(cur, in) \in State
  BY DEF NextState, Allowed, Row, Input, State
<1>2. NextPrivacy(cur, in) \in BOOLEAN
  BY DEF NextPrivacy, Row, Input
<1>3. NextReviewed(cur, in) \in BOOLEAN
  BY <1>2 DEF NextReviewed, Row, Input
<1>4. NextHold(cur, in) \in BOOLEAN
  BY DEF NextHold, Row, Input
<1> QED
  BY <1>1, <1>2, <1>3, <1>4

LEMMA NewCaptionType ==
    ASSUME NEW q \in ModRequest
    PROVE  NewCaption(q) \in Caption
<1> q.in \in Input /\ q.from \in Caption \union {"none"}
  BY EvidenceConstants DEF ModRequest
<1> QED
  BY DEF NewCaption, Input, Caption

LEMMA ModeratedRowType ==
    ASSUME NEW old \in Row, NEW cur \in Row, NEW in \in Inputs, Allowed(cur, in)
    PROVE  ModeratedRow(old, cur, in) \in Row
BY NextTypes DEF ModeratedRow, Row

LEMMA ModeratedLinksType ==
    ASSUME TypeOK, NEW q \in ModRequest
    PROVE  ModeratedLinks(q) \in [Report -> [Asset -> Caption \union {"none"}]]
<1> USE DEF TypeOK
<1>0. q.in \in Input /\ q.a \in Asset /\ NewCaption(q) \in Caption
  BY EvidenceConstants, NewCaptionType DEF ModRequest
<1>1. CASE q.in.report \in Report
  BY <1>0, <1>1, EvidenceConstants DEF ModeratedLinks, EditsCaption
<1>2. CASE q.in.report = "unlink"
  BY <1>0, <1>2, EvidenceConstants DEF ModeratedLinks, EditsCaption
<1>3. CASE q.in.report = "keep" /\ EditsCaption(q)
  <2>1. q.in.caption \in Caption
    BY <1>0, <1>3 DEF EditsCaption, Input
  <2> QED
    BY <1>0, <1>3, <2>1, EvidenceConstants DEF ModeratedLinks
<1>4. CASE q.in.report = "keep" /\ ~EditsCaption(q)
  BY <1>0, <1>4, EvidenceConstants DEF ModeratedLinks
<1> QED
  BY <1>0, <1>1, <1>2, <1>3, <1>4 DEF Input

\* A moderation request acts on a decision its own snapshot allowed.
SnapshotAllowed ==
    \A m \in Moderator : mod[m] # Idle =>
        /\ Allowed(mod[m].cur, mod[m].in)
        /\ mod[m].pc = "source" => NeedsSource(mod[m])

LEMMA TypeModerate ==
    ASSUME TypeOK, SnapshotAllowed, NEW m \in Moderator, ModerateRead(m) \/ ModerateStep(m)
    PROVE  TypeOK'
<1> USE DEF TypeOK
<1>1. CASE ModerateRead(m)
  <2> PICK a \in Asset, in \in Inputs :
        mod' = [mod EXCEPT ![m] = [pc |-> "links", a |-> a, in |-> in, cur |-> row[a],
                                   links |-> NoLinks, from |-> "none"]]
    BY <1>1 DEF ModerateRead
  <2>1. [pc |-> "links", a |-> a, in |-> in, cur |-> row[a],
         links |-> NoLinks, from |-> "none"] \in ModRequest
    BY DEF ModRequest, ModPc, NoLinks
  <2> QED
    BY <1>1, <2>1 DEF ModerateRead
<1>2. CASE ModerateLinks(m)
  <2> DEFINE q == [mod[m] EXCEPT !.links = Links(mod[m].a)]
             pc == IF NeedsSource(q) THEN "source" ELSE AfterLinks(q)
  <2>1. mod[m] \in ModRequest
    BY <1>2, ModRequestPc DEF ModerateLinks, ModPc
  <2>2. pc \in ModPc
    BY DEF AfterLinks, AfterVerify, ModPc
  <2>3. Links(mod[m].a) \in [Report -> Caption \union {"none"}]
    BY <2>1 DEF Links, ModRequest
  <2> HIDE DEF pc
  <2>4. [q EXCEPT !.pc = pc] \in ModRequest
    BY <2>1, <2>2, <2>3 DEF ModRequest
  <2>5. mod' = [mod EXCEPT ![m] = [q EXCEPT !.pc = pc]]
    BY <1>2 DEF ModerateLinks, pc
  <2> QED
    BY <1>2, <2>4, <2>5 DEF ModerateLinks
<1>3. CASE ModerateSource(m)
  <2> DEFINE from == link[mod[m].in.report][mod[m].cur.replaces]
             pc == AfterLinks(mod[m])
  <2>0. mod[m] \in ModRequest
    BY <1>3, ModRequestPc DEF ModerateSource, ModPc
  <2>1. CASE mod' = [mod EXCEPT ![m] = Idle]
    BY <1>3, <2>1 DEF ModerateSource
  <2>2. CASE from \in Caption /\ mod' = [mod EXCEPT ![m].pc = pc, ![m].from = from]
    <3>1. pc \in ModPc
      BY DEF AfterLinks, AfterVerify, ModPc
    <3> HIDE DEF pc, from
    <3>2. [mod[m] EXCEPT !.pc = pc, !.from = from] \in ModRequest
      BY <2>0, <2>2, <3>1 DEF ModRequest
    <3> QED
      BY <1>3, <2>2, <3>2 DEF ModerateSource
  <2>3. mod[m].in.report \in Report /\ mod[m].cur.replaces \in Asset
    BY <1>3, <2>0, IdleIsNoRequest DEF ModerateSource, SnapshotAllowed, NeedsSource, ModRequest, Row
  <2> QED
    BY <1>3, <2>1, <2>2, <2>3 DEF ModerateSource, ModerateAbort
<1>4. CASE ModerateVerify(m)
  <2>1. mod[m] \in ModRequest
    BY <1>4, ModRequestPc DEF ModerateVerify, ModPc
  <2> DEFINE pc == AfterVerify(mod[m])
  <2>2. pc \in ModPc
    BY DEF AfterVerify, ModPc
  <2> HIDE DEF pc
  <2>3. [mod[m] EXCEPT !.pc = pc] \in ModRequest
    BY <2>1, <2>2 DEF ModRequest
  <2>4. mod' = [mod EXCEPT ![m].pc = pc] \/ mod' = [mod EXCEPT ![m] = Idle]
    BY <1>4 DEF ModerateVerify, ModerateGoto, ModerateAbort, pc
  <2> QED
    BY <1>4, <2>3, <2>4 DEF ModerateVerify
<1>5. CASE ModerateCapacity(m)
  <2>1. mod[m] \in ModRequest
    BY <1>5, ModRequestPc DEF ModerateCapacity, ModPc
  <2>2. [mod[m] EXCEPT !.pc = "commit"] \in ModRequest
    BY <2>1 DEF ModRequest, ModPc
  <2>3. mod' = [mod EXCEPT ![m].pc = "commit"] \/ mod' = [mod EXCEPT ![m] = Idle]
    BY <1>5 DEF ModerateCapacity, ModerateGoto, ModerateAbort
  <2> QED
    BY <1>5, <2>2, <2>3 DEF ModerateCapacity
<1>6. CASE ModerateCommit(m)
  <2> DEFINE q == mod[m]
  <2>1. q \in ModRequest
    BY <1>6, ModRequestPc DEF ModerateCommit, ModPc
  <2>2. Allowed(q.cur, q.in) /\ q.a \in Asset /\ q.cur \in Row /\ q.in \in Inputs
    BY <2>1, IdleIsNoRequest DEF SnapshotAllowed, ModRequest
  <2>3. row' = row \/ row' = [row EXCEPT ![q.a] = ModeratedRow(row[q.a], q.cur, q.in)]
    BY <1>6 DEF ModerateCommit
  <2>4. row' \in [Asset -> Row]
    BY <2>2, <2>3, ModeratedRowType
  <2>5. link' \in [Report -> [Asset -> Caption \union {"none"}]]
    BY <1>6, <2>1, ModeratedLinksType DEF ModerateCommit
  <2>6. mod' = [mod EXCEPT ![m] = Idle]
    BY <1>6 DEF ModerateCommit, ModerateAbort
  <2> QED
    BY <1>6, <2>4, <2>5, <2>6 DEF ModerateCommit
<1> QED
  BY <1>1, <1>2, <1>3, <1>4, <1>5, <1>6 DEF ModerateStep

LEMMA TypeDelete ==
    ASSUME TypeOK, NEW d \in Deleter, DeleteRead(d) \/ DeleteStep(d) \/ DeleteAbandon(d)
    PROVE  TypeOK'
<1> USE DEF TypeOK
<1>1. CASE DeleteRead(d)
  <2> PICK a \in Asset, t \in Token :
        del' = [del EXCEPT ![d] = [pc |-> "claim", a |-> a, token |-> t,
                  seen |-> IF Leased(a) THEN row[a].deletedAt ELSE "null",
                  todo |-> {}, failed |-> FALSE]]
    BY <1>1 DEF DeleteRead
  <2>1. [pc |-> "claim", a |-> a, token |-> t,
         seen |-> IF Leased(a) THEN row[a].deletedAt ELSE "null",
         todo |-> {}, failed |-> FALSE] \in DelRequest
    BY DEF DelRequest, Leased
  <2> QED
    BY <1>1, <2>1 DEF DeleteRead
<1>2. CASE DeleteClaim(d)
  <2> DEFINE q == del[d]
             todo == {"original"} \union IF row[q.a].deriv THEN {"derivative"} ELSE {}
  <2>1. q \in DelRequest
    BY <1>2, DelRequestPc DEF DeleteClaim
  <2>2. todo \in SUBSET ObjectKind
    BY DEF ObjectKind
  <2>3. CASE Claims(q)
    <3>1. [row[q.a] EXCEPT !.state = "withheld", !.deletedAt = q.token] \in Row
      <4>1. row[q.a] \in Row /\ q.token \in Token
        BY <2>1 DEF DelRequest
      <4> QED
        BY <4>1 DEF Row, State
    <3>2. [q EXCEPT !.pc = "erase", !.todo = todo] \in DelRequest
      BY <2>1, <2>2 DEF DelRequest
    <3>3. row' \in [Asset -> Row]
      BY <1>2, <2>3, <3>1 DEF DeleteClaim
    <3>4. del' \in [Deleter -> DelRequest \union {Idle}]
      BY <1>2, <2>3, <3>2 DEF DeleteClaim
    <3> QED
      BY <1>2, <2>3, <3>3, <3>4 DEF DeleteClaim
  <2>4. CASE ~Claims(q)
    BY <1>2, <2>4 DEF DeleteClaim
  <2> QED
    BY <2>3, <2>4
<1>3. ASSUME NEW k \in ObjectKind, DeleteObject(d, k)
      PROVE  TypeOK'
  <2> DEFINE q == del[d]
  <2>1. q \in DelRequest
    BY <1>3, DelRequestPc DEF DeleteObject
  <2>2. stored' \in [Asset -> SUBSET ObjectKind]
    BY <1>3 DEF DeleteObject
  <2>3. [q EXCEPT !.todo = @ \ {k}] \in DelRequest
    BY <2>1 DEF DelRequest
  <2>4. [q EXCEPT !.todo = @ \ {k}, !.failed = TRUE] \in DelRequest
    BY <2>1 DEF DelRequest
  <2>5. del' \in [Deleter -> DelRequest \union {Idle}]
    BY <1>3, <2>3, <2>4 DEF DeleteObject
  <2> QED
    BY <1>3, <2>2, <2>5 DEF DeleteObject
<1>4. CASE DeleteRelease(d)
  <2>1. del[d] \in DelRequest
    BY <1>4, DelRequestPc DEF DeleteRelease
  <2>2. [row[del[d].a] EXCEPT !.deletedAt = "null"] \in Row
    BY <2>1 DEF Row, DelRequest
  <2> QED
    BY <1>4, <2>2 DEF DeleteRelease
<1>5. CASE DeleteFinalize(d)
  <2> DEFINE q == del[d]
  <2>1. q \in DelRequest
    BY <1>5, DelRequestPc DEF DeleteFinalize
  <2>2. [row[q.a] EXCEPT !.state = "deleted", !.deriv = FALSE, !.deletedAt = "final"] \in Row
    <3>1. row[q.a] \in Row
      BY <2>1 DEF DelRequest
    <3> QED
      BY <3>1 DEF Row, State
  <2>3. row' \in [Asset -> Row]
    BY <1>5, <2>2 DEF DeleteFinalize
  <2>4. link' \in [Report -> [Asset -> Caption \union {"none"}]]
    BY <1>5 DEF DeleteFinalize
  <2> QED
    BY <1>5, <2>3, <2>4 DEF DeleteFinalize
<1>6. CASE DeleteAbandon(d)
  BY <1>6 DEF DeleteAbandon
<1> QED
  BY <1>1, <1>2, <1>3, <1>4, <1>5, <1>6 DEF DeleteStep

LEMMA TypeSync ==
    ASSUME TypeOK, NEW e \in Editor, SyncStart(e) \/ SyncStep(e)
    PROVE  TypeOK'
<1> USE DEF TypeOK
<1>1. CASE SyncStart(e)
  <2> PICK r \in Report, want \in SUBSET Asset, c \in Caption :
        sync' = [sync EXCEPT ![e] = [pc |-> "check", report |-> r, want |-> want,
                                     left |-> want, caption |-> c]]
    BY <1>1 DEF SyncStart
  <2>1. [pc |-> "check", report |-> r, want |-> want, left |-> want, caption |-> c]
          \in SyncRequest
    BY DEF SyncRequest
  <2> QED
    BY <1>1, <2>1 DEF SyncStart
<1>2. ASSUME NEW a \in Asset, SyncCheck(e, a)
      PROVE  TypeOK'
  <2>1. sync[e] \in SyncRequest
    BY <1>2, SyncRequestPc DEF SyncCheck
  <2>2. [sync[e] EXCEPT !.left = @ \ {a}] \in SyncRequest
    BY <2>1 DEF SyncRequest
  <2>3. sync' = [sync EXCEPT ![e].left = @ \ {a}] \/ sync' = [sync EXCEPT ![e] = Idle]
    BY <1>2 DEF SyncCheck
  <2> QED
    BY <1>2, <2>2, <2>3 DEF SyncCheck
<1>3. CASE SyncCommit(e)
  <2>1. sync[e] \in SyncRequest
    BY <1>3, SyncRequestPc DEF SyncCommit
  <2>2. sync[e].caption \in Caption
    BY <2>1 DEF SyncRequest
  <2>3. link' \in [Report -> [Asset -> Caption \union {"none"}]]
    BY <1>3, <2>2 DEF SyncCommit
  <2> QED
    BY <1>3, <2>3 DEF SyncCommit
<1> QED
  BY <1>1, <1>2, <1>3 DEF SyncStep

-----------------------------------------------------------------------------
(***************************************************************************)
(* The inductive invariant.  RowInv is what the properties say of one row; *)
(* the rest ties the snapshots of pending requests to the rows they will   *)
(* overwrite.                                                              *)
(***************************************************************************)
AfterPii == {"private_ready", "withheld", "deleted"}

RowInv(x) ==
    /\ x.privacy => x.state \in AfterPii
    /\ x.hold => x.deletedAt \notin Token /\ x.state # "deleted"
    /\ x.deletedAt \in Token => x.state = "withheld" /\ ~x.hold
    /\ x.state = "public" /\ x.deletedAt = "null" => x.reviewed /\ ~x.privacy /\ x.deriv

\* A derivative a request has seen is still named, or its row is finished.
KeepsDerivative(cur, x) ==
    cur.deriv => x.deriv \/ x.deletedAt = "final" \/ x.state = "absent"

\* A request past its last check on a publication has seen it reviewed and derived.
Checked(q) ==
    q.pc \in {"capacity", "commit"} /\ Publishes(q) => NextReviewed(q.cur, q.in) /\ q.cur.deriv

SnapshotInv ==
    \A m \in Moderator : mod[m] # Idle =>
        /\ mod[m].cur.privacy => mod[m].cur.state \in AfterPii
        /\ up[mod[m].a].pc # "new"
        /\ KeepsDerivative(mod[m].cur, row[mod[m].a])
        /\ Checked(mod[m])

IInv ==
    /\ TypeOK
    /\ SnapshotAllowed
    /\ SnapshotInv
    /\ \A a \in Asset : RowInv(row[a])
    /\ \A a \in Asset : up[a].pc = "new" => row[a] = NoRow
    /\ ReplacementSourceStaysWithheld
    /\ LinksNameRows

(***************************************************************************)
(* How one row may change in a step.                                       *)
(***************************************************************************)
Inserted(a, old, new) ==
    /\ up[a].pc = "new" /\ up'[a].pc # "new" /\ old = NoRow
    /\ \E s \in Asset \union {"none"} :
         new = [NoRow EXCEPT !.state = "uploading", !.replaces = s] /\ ReplacementTrigger(a, s)

Uploaded(old, new) ==
    old.state = "uploading" /\ new \in {ReadyRow(old), [old EXCEPT !.state = "failed"]}

Dropped(a, old, new) == new = NoRow /\ MayDeleteRow(a)

Moderated(old, new) ==
    old.state # "absent" /\ \E cur \in Row, in \in Inputs :
        /\ new = ModeratedRow(old, cur, in) /\ MayUpdate(old, new)
        /\ Allowed(cur, in)
        /\ cur.privacy => cur.state \in AfterPii
        /\ NextState(cur, in) = "public" =>
             NextReviewed(cur, in) /\ (old.deriv \/ old.deletedAt = "final")

Claimed(old, new) ==
    /\ old.state \notin {"absent", "deleted"} /\ ~old.hold /\ old.deletedAt # "final"
    /\ \E t \in Token : new = [old EXCEPT !.state = "withheld", !.deletedAt = t]

Settled(old, new) ==
    /\ old.deletedAt \in Token /\ old.state = "withheld" /\ ~old.hold
    /\ new \in {[old EXCEPT !.deletedAt = "null"],
                [old EXCEPT !.state = "deleted", !.deriv = FALSE, !.deletedAt = "final"]}

\* What uploads and moderation do to a row; a deletion claims and settles it.
Served(a, old, new) ==
    \/ new = old
    \/ Inserted(a, old, new)
    \/ Uploaded(old, new)
    \/ Dropped(a, old, new)
    \/ Moderated(old, new)

RowStep(a, old, new) == Served(a, old, new) \/ Claimed(old, new) \/ Settled(old, new)

\* Every action changes every row by one of these moves.
LEMMA UploadMoves ==
    ASSUME IInv, NEW b \in Asset, UploadInsert(b) \/ UploadStep(b) \/ UploadFault(b),
           NEW a \in Asset
    PROVE  Served(a, row[a], row'[a])
<1> USE DEF IInv, TypeOK, Served
<1>1. CASE UploadInsert(b)
  BY <1>1 DEF UploadInsert, Inserted, UploadGoto, UploadRequest
<1>2. CASE UploadCommit(b)
  BY <1>2 DEF UploadCommit, Uploaded
<1>3. CASE UploadCommitFails(b)
  BY <1>3 DEF UploadCommitFails, Uploaded
<1>4. CASE UploadRecord(b)
  <2>1. CASE row' = [row EXCEPT ![b].state = "failed"] /\ row[b].state = "uploading"
    BY <2>1 DEF Uploaded
  <2>2. CASE row' = [row EXCEPT ![b] = NoRow] /\ MayDeleteRow(b)
    BY <2>2 DEF Dropped
  <2>3. CASE row' = row
    BY <2>3
  <2> QED
    BY <1>4, <2>1, <2>2, <2>3 DEF UploadRecord
<1>5. CASE row' = row
  BY <1>5
<1> QED
  BY <1>1, <1>2, <1>3, <1>4, <1>5
  DEF UploadStep, UploadFault, UploadSanitize, UploadVerify, UploadPut, UploadCleanup,
      UploadCrash, UploadPutFails

LEMMA ModerateMoves ==
    ASSUME IInv, NEW m \in Moderator, ModerateRead(m) \/ ModerateStep(m), NEW a \in Asset
    PROVE  Served(a, row[a], row'[a])
<1>1. CASE ModerateCommit(m)
  <2> DEFINE q == mod[m]
             new == ModeratedRow(row[q.a], q.cur, q.in)
  <2>1. q \in ModRequest /\ q # Idle
    BY <1>1, ModRequestPc, IdleIsNoRequest DEF ModerateCommit, ModPc, IInv
  <2>2. q.cur \in Row /\ q.in \in Inputs /\ q.a \in Asset
    BY <2>1 DEF ModRequest
  <2>3. CASE row' = [row EXCEPT ![q.a] = new] /\ Present(q.a) /\ BatchAccepted(q)
    <3>1. MayUpdate(row[q.a], new)
      BY <2>3 DEF BatchAccepted
    <3>2. NextState(q.cur, q.in) = "public" =>
            NextReviewed(q.cur, q.in) /\ (row[q.a].deriv \/ row[q.a].deletedAt = "final")
      BY <1>1, <2>1, <2>3
      DEF ModerateCommit, IInv, SnapshotInv, Checked, Publishes, KeepsDerivative, Present
    <3>3. Allowed(q.cur, q.in) /\ (q.cur.privacy => q.cur.state \in AfterPii)
      BY <2>1 DEF IInv, SnapshotAllowed, SnapshotInv
    <3>4. Moderated(row[q.a], new)
      BY <2>2, <2>3, <3>1, <3>2, <3>3 DEF Moderated, Present
    <3> QED
      BY <2>2, <2>3, <3>4 DEF Served, IInv, TypeOK
  <2>4. CASE row' = row
    BY <2>4 DEF Served
  <2> QED
    BY <1>1, <2>3, <2>4 DEF ModerateCommit
<1>2. CASE row' = row
  BY <1>2 DEF Served
<1> QED
  BY <1>1, <1>2
  DEF ModerateStep, ModerateRead, ModerateLinks, ModerateSource, ModerateVerify,
      ModerateCapacity

LEMMA DeleteMoves ==
    ASSUME IInv, NEW d \in Deleter, DeleteRead(d) \/ DeleteStep(d) \/ DeleteAbandon(d),
           NEW a \in Asset
    PROVE  RowStep(a, row[a], row'[a])
<1> DEFINE q == del[d]
<1>1. CASE DeleteClaim(d)
  <2>1. q \in DelRequest
    BY <1>1, DelRequestPc DEF DeleteClaim, IInv
  <2>2. CASE Claims(q)
    <3>1. q.a \in Asset /\ q.token \in Token /\ q.seen \in Token \union {"null"}
      BY <2>1 DEF DelRequest
    <3>2. row' = [row EXCEPT ![q.a] =
                    [row[q.a] EXCEPT !.state = "withheld", !.deletedAt = q.token]]
      BY <1>1, <2>2, <3>1 DEF DeleteClaim, IInv, TypeOK
    <3>3. /\ row[q.a].state \notin {"absent", "deleted"} /\ ~row[q.a].hold
          /\ row[q.a].deletedAt # "final"
      BY <2>2, <3>1, EvidenceConstants DEF Claims, Present
    <3> QED
      BY <3>1, <3>2, <3>3 DEF RowStep, Served, Claimed, IInv, TypeOK
  <2> QED
    BY <1>1, <2>2 DEF DeleteClaim, RowStep, Served
<1>2. CASE DeleteRelease(d) \/ DeleteFinalize(d)
  <2>1. q \in DelRequest
    BY <1>2, DelRequestPc DEF DeleteRelease, DeleteFinalize, IInv
  <2>2. q.a \in Asset /\ q.token \in Token
    BY <2>1 DEF DelRequest
  <2>3. CASE ~HoldsLease(q)
    BY <1>2, <2>3 DEF DeleteRelease, DeleteFinalize, RowStep, Served
  <2>4. CASE HoldsLease(q)
    <3>1. row[q.a].deletedAt \in Token /\ row[q.a].state = "withheld" /\ ~row[q.a].hold
      BY <2>2, <2>4 DEF HoldsLease
    <3>2. \/ row' = [row EXCEPT ![q.a] = [row[q.a] EXCEPT !.deletedAt = "null"]]
          \/ row' = [row EXCEPT ![q.a] = [row[q.a] EXCEPT !.state = "deleted",
                                          !.deriv = FALSE, !.deletedAt = "final"]]
      BY <1>2, <2>2, <2>4 DEF DeleteRelease, DeleteFinalize, IInv, TypeOK
    <3> QED
      BY <2>2, <3>1, <3>2 DEF RowStep, Served, Settled, IInv, TypeOK
  <2> QED
    BY <2>3, <2>4
<1>3. CASE row' = row
  BY <1>3 DEF RowStep, Served
<1> QED
  BY <1>1, <1>2, <1>3 DEF DeleteStep, DeleteRead, DeleteAbandon, DeleteObject

\* So does a whole step.
LEMMA StepMoves ==
    ASSUME IInv, [Next]_vars, NEW a \in Asset
    PROVE  RowStep(a, row[a], row'[a])
<1>1. ASSUME NEW b \in Asset, UploadInsert(b) \/ UploadStep(b) \/ UploadFault(b)
      PROVE  RowStep(a, row[a], row'[a])
  BY <1>1, UploadMoves DEF RowStep
<1>2. ASSUME NEW m \in Moderator, ModerateRead(m) \/ ModerateStep(m)
      PROVE  RowStep(a, row[a], row'[a])
  BY <1>2, ModerateMoves DEF RowStep
<1>3. ASSUME NEW d \in Deleter, DeleteRead(d) \/ DeleteStep(d) \/ DeleteAbandon(d)
      PROVE  RowStep(a, row[a], row'[a])
  BY <1>3, DeleteMoves
<1>4. CASE row' = row
  BY <1>4 DEF RowStep, Served
<1> QED
  BY <1>1, <1>2, <1>3, <1>4
  DEF Next, vars, LeaseAges, SyncStart, SyncStep, SyncCheck, SyncCommit

-----------------------------------------------------------------------------
(* A move keeps what RowInv says of the row.                               *)

LEMMA ModeratedKeepsRow ==
    ASSUME NEW old \in Row, NEW new, RowInv(old), Moderated(old, new)
    PROVE  RowInv(new) /\ ~(old.deletedAt \in Token)
<1> PICK cur \in Row, in \in Inputs :
      /\ new = ModeratedRow(old, cur, in) /\ MayUpdate(old, new)
      /\ Allowed(cur, in)
      /\ cur.privacy => cur.state \in AfterPii
      /\ NextState(cur, in) = "public" =>
           NextReviewed(cur, in) /\ (old.deriv \/ old.deletedAt = "final")
  BY DEF Moderated
<1> DEFINE state == NextState(cur, in)
           reviewed == NextReviewed(cur, in)
           privacy == NextPrivacy(cur, in)
           hold == NextHold(cur, in)
<1>0. in \in Input /\ new \in Row
  BY EvidenceConstants, ModeratedRowType
<1>1. /\ new.state = state /\ new.reviewed = reviewed /\ new.privacy = privacy
      /\ new.hold = hold /\ new.deletedAt = old.deletedAt /\ new.deriv = old.deriv
  BY DEF ModeratedRow, Row
<1>2. ~(old.deletedAt \in Token)
  BY <1>1, EvidenceConstants DEF MayUpdate, LeaseGuard
<1>3. new.privacy => new.state \in AfterPii
  <2> SUFFICES ASSUME privacy PROVE state \in AfterPii
    BY <1>1
  <2>1. CASE in.pii
    BY <2>1 DEF NextState, AfterPii
  <2>2. CASE ~in.pii
    <3>1. cur.privacy /\ state # "public"
      BY <2>2 DEF NextPrivacy, Allowed
    <3>2. state \in {cur.state, "private_ready", "public", "withheld"}
      BY <2>2, <1>0 DEF NextState, Input
    <3> QED
      BY <3>1, <3>2 DEF AfterPii
  <2> QED
    BY <2>1, <2>2
<1>4. new.hold => new.deletedAt \notin Token /\ new.state # "deleted"
  BY DEF MayUpdate, HoldTrigger
<1>5. new.state = "public" /\ new.deletedAt = "null" => new.reviewed /\ ~new.privacy /\ new.deriv
  BY <1>1 DEF Allowed
<1> QED
  BY <1>1, <1>2, <1>3, <1>4, <1>5 DEF RowInv

LEMMA MoveKeepsRow ==
    ASSUME NEW a, NEW old \in Row, NEW new, RowInv(old), RowStep(a, old, new)
    PROVE  RowInv(new)
<1> USE EvidenceConstants
<1>1. CASE new = old
  BY <1>1
<1>2. CASE Inserted(a, old, new) \/ Dropped(a, old, new)
  <2>1. RowInv(NoRow)
    BY DEF RowInv, NoRow
  <2>2. ASSUME NEW s, new = [NoRow EXCEPT !.state = "uploading", !.replaces = s]
        PROVE  RowInv(new)
    BY <2>2 DEF RowInv, NoRow
  <2> QED
    BY <1>2, <2>1, <2>2 DEF Inserted, Dropped
<1>3. CASE Uploaded(old, new)
  BY <1>3 DEF Uploaded, ReadyRow, RowInv, Row, AfterPii
<1>4. CASE Moderated(old, new)
  BY <1>4, ModeratedKeepsRow
<1>5. CASE Claimed(old, new)
  BY <1>5 DEF Claimed, RowInv, Row, AfterPii
<1>6. CASE Settled(old, new)
  BY <1>6 DEF Settled, RowInv, Row, AfterPii
<1> QED
  BY <1>1, <1>2, <1>3, <1>4, <1>5, <1>6 DEF RowStep, Served

\* A visible-PII decision survives every move: a row that carries it is never
\* dropped or inserted, and the trigger rejects the edits that would clear it.
LEMMA MoveKeepsPrivacy ==
    ASSUME NEW a \in Asset, row[a] \in Row, RowInv(row[a]), NEW new,
           RowStep(a, row[a], new), row[a].privacy
    PROVE  new.privacy
<1> DEFINE old == row[a]
<1>1. CASE Inserted(a, old, new) \/ Dropped(a, old, new)
  BY <1>1 DEF Inserted, Dropped, MayDeleteRow, NoRow, RowInv, AfterPii
<1>2. CASE Uploaded(old, new)
  BY <1>2 DEF Uploaded, ReadyRow, Row
<1>3. CASE Moderated(old, new)
  BY <1>3 DEF Moderated, MayUpdate, PrivacyTriggers
<1>4. CASE Claimed(old, new)
  BY <1>4 DEF Claimed, Row
<1>5. CASE Settled(old, new)
  BY <1>5 DEF Settled, Row
<1> QED
  BY <1>1, <1>2, <1>3, <1>4, <1>5 DEF RowStep, Served

LEMMA MoveKeepsDerivative ==
    ASSUME NEW a \in Asset, NEW old \in Row, NEW new, NEW cur \in Row,
           RowStep(a, old, new), up[a].pc # "new", KeepsDerivative(cur, old)
    PROVE  KeepsDerivative(cur, new)
<1>1. CASE Dropped(a, old, new)
  BY <1>1 DEF Dropped, NoRow, KeepsDerivative
<1>2. CASE Uploaded(old, new)
  BY <1>2 DEF Uploaded, ReadyRow, Row, KeepsDerivative
<1>3. CASE Moderated(old, new)
  <2> PICK cu \in Row, in \in Inputs : new = ModeratedRow(old, cu, in) /\ Allowed(cu, in)
                                       /\ MayUpdate(old, new)
    BY <1>3 DEF Moderated
  <2>1. new.deriv = old.deriv /\ new.deletedAt = old.deletedAt
    BY DEF ModeratedRow, Row
  <2>2. old.state # "absent"
    BY <1>3 DEF Moderated
  <2> QED
    BY <2>1, <2>2 DEF KeepsDerivative
<1>4. CASE Claimed(old, new)
  BY <1>4 DEF Claimed, Row, KeepsDerivative
<1>5. CASE Settled(old, new)
  BY <1>5, EvidenceConstants DEF Settled, Row, KeepsDerivative
<1> QED
  BY <1>1, <1>2, <1>3, <1>4, <1>5 DEF RowStep, Served, Inserted

LEMMA MoveKeepsPresence ==
    ASSUME NEW a \in Asset, row[a] \in Row, NEW new, RowStep(a, row[a], new),
           row[a].state # "absent", LinkedTo(a) # {}
    PROVE  new.state # "absent"
<1> DEFINE old == row[a]
<1>1. CASE Uploaded(old, new)
  BY <1>1 DEF Uploaded, ReadyRow, Row
<1>2. CASE Moderated(old, new)
  <2> PICK cur \in Row, in \in Inputs : new = ModeratedRow(old, cur, in) /\ Allowed(cur, in)
    BY <1>2 DEF Moderated
  <2>1. new.state = NextState(cur, in) /\ NextState(cur, in) \in State
    BY NextTypes DEF ModeratedRow, Row
  <2> QED
    BY <2>1 DEF State
<1>3. CASE Claimed(old, new) \/ Settled(old, new)
  BY <1>3 DEF Claimed, Settled, Row
<1> QED
  BY <1>1, <1>2, <1>3 DEF RowStep, Served, Inserted, Dropped, MayDeleteRow, NoRow

LEMMA MoveKeepsSource ==
    ASSUME NEW a \in Asset, row[a] \in Row, NEW new, RowStep(a, row[a], new),
           new.replaces # "none"
    PROVE  \/ new.replaces = row[a].replaces
           \/ new.replaces \in Asset /\ row[new.replaces].privacy
<1> DEFINE old == row[a]
<1>1. CASE Inserted(a, old, new)
  <2> PICK s \in Asset \union {"none"} :
        new = [NoRow EXCEPT !.state = "uploading", !.replaces = s] /\ ReplacementTrigger(a, s)
    BY <1>1 DEF Inserted
  <2>1. new.replaces = s
    BY DEF NoRow
  <2> QED
    BY <2>1 DEF ReplacementTrigger
<1>2. CASE Uploaded(old, new)
  BY <1>2 DEF Uploaded, ReadyRow, Row
<1>3. CASE Moderated(old, new)
  BY <1>3 DEF Moderated, ModeratedRow, Row
<1>4. CASE Claimed(old, new) \/ Settled(old, new)
  BY <1>4 DEF Claimed, Settled, Row
<1> QED
  BY <1>1, <1>2, <1>3, <1>4 DEF RowStep, Served, Dropped, NoRow

-----------------------------------------------------------------------------
(* How one moderation request may change in a step.                        *)

Read(new) ==
    \E a \in Asset, in \in Inputs :
        /\ Allowed(row[a], in) /\ row' = row /\ up' = up
        /\ new = [pc |-> "links", a |-> a, in |-> in, cur |-> row[a],
                  links |-> NoLinks, from |-> "none"]

Advanced(old, new) ==
    /\ old \in ModRequest /\ new \in ModRequest
    /\ new.a = old.a /\ new.in = old.in /\ new.cur = old.cur
    /\ new.pc = "source" => NeedsSource(new)
    /\ Checked(new)

RequestStep(m) ==
    \/ mod'[m] \in {mod[m], Idle}
    \/ mod[m] = Idle /\ Read(mod'[m])
    \/ Advanced(mod[m], mod'[m])

LEMMA RequestMoves ==
    ASSUME IInv, TypeOK', NEW m \in Moderator, ModerateRead(m) \/ ModerateStep(m)
    PROVE  RequestStep(m)
<1> USE DEF IInv, TypeOK
<1>0. mod[m].pc \in ModPc => mod[m] \in ModRequest /\ mod[m] # Idle
  BY ModRequestPc, IdleIsNoRequest
<1>1. CASE ModerateRead(m)
  BY <1>1 DEF ModerateRead, RequestStep, Read
<1>2. CASE ModerateLinks(m)
  <2> DEFINE q == [mod[m] EXCEPT !.links = Links(mod[m].a)]
             pc == IF NeedsSource(q) THEN "source" ELSE AfterLinks(q)
             new == [q EXCEPT !.pc = pc]
  <2>1. mod[m] \in ModRequest
    BY <1>0, <1>2 DEF ModerateLinks, ModPc
  <2>2. mod'[m] = new
    BY <1>2 DEF ModerateLinks
  <2>3. /\ new.a = mod[m].a /\ new.in = mod[m].in /\ new.cur = mod[m].cur
        /\ new.pc = pc /\ new.links = q.links /\ q.in = mod[m].in /\ q.cur = mod[m].cur
    BY <2>1 DEF ModRequest
  <2>4. new.pc = "source" => NeedsSource(new)
    BY <2>3 DEF AfterLinks, AfterVerify, NeedsSource
  <2>5. Checked(new)
    BY <2>3 DEF Checked, AfterLinks, Publishes
  <2>6. new # Idle
    <3>1. new.pc \in ModPc
      BY <2>3 DEF AfterLinks, AfterVerify, ModPc
    <3> HIDE DEF new
    <3> QED
      BY <3>1, PcIsNotIdle
  <2>7. new \in ModRequest
    BY <2>2, <2>6
  <2> QED
    BY <2>1, <2>2, <2>3, <2>4, <2>5, <2>7 DEF RequestStep, Advanced
<1>3. CASE ModerateSource(m)
  <2> DEFINE from == link[mod[m].in.report][mod[m].cur.replaces]
             pc == AfterLinks(mod[m])
             new == [mod[m] EXCEPT !.pc = pc, !.from = from]
  <2>1. mod[m] \in ModRequest
    BY <1>0, <1>3 DEF ModerateSource, ModPc
  <2>2. mod'[m] = new \/ mod'[m] = Idle
    BY <1>3 DEF ModerateSource, ModerateAbort
  <2>3. /\ new.a = mod[m].a /\ new.in = mod[m].in /\ new.cur = mod[m].cur
        /\ new.pc = pc
    BY <2>1 DEF ModRequest
  <2>4. new.pc # "source" /\ Checked(new)
    BY <2>3 DEF Checked, AfterLinks, AfterVerify, Publishes
  <2>5. mod'[m] = Idle \/ new \in ModRequest
    <3>1. new.pc \in ModPc
      BY <2>3 DEF AfterLinks, AfterVerify, ModPc
    <3> HIDE DEF new
    <3> QED
      BY <2>2, <3>1, PcIsNotIdle
  <2> QED
    BY <2>1, <2>2, <2>3, <2>4, <2>5 DEF RequestStep, Advanced
<1>4. CASE ModerateVerify(m)
  <2> DEFINE pc == AfterVerify(mod[m])
             new == [mod[m] EXCEPT !.pc = pc]
  <2>1. mod[m] \in ModRequest
    BY <1>0, <1>4 DEF ModerateVerify, ModPc
  <2>2. (mod'[m] = new /\ MayPublish(mod[m])) \/ mod'[m] = Idle
    BY <1>4 DEF ModerateVerify, ModerateAbort, ModerateGoto
  <2>3. /\ new.a = mod[m].a /\ new.in = mod[m].in /\ new.cur = mod[m].cur
        /\ new.pc = pc
    BY <2>1 DEF ModRequest
  <2>4. new.pc # "source" /\ (MayPublish(mod[m]) => Checked(new))
    BY <2>3 DEF Checked, AfterVerify, MayPublish
  <2>5. mod'[m] = Idle \/ new \in ModRequest
    <3>1. new.pc \in ModPc
      BY <2>3 DEF AfterVerify, ModPc
    <3> HIDE DEF new
    <3> QED
      BY <2>2, <3>1, PcIsNotIdle
  <2> QED
    BY <2>1, <2>2, <2>3, <2>4, <2>5 DEF RequestStep, Advanced
<1>5. CASE ModerateCapacity(m)
  <2> DEFINE new == [mod[m] EXCEPT !.pc = "commit"]
  <2>1. mod[m] \in ModRequest /\ mod[m].pc = "capacity" /\ mod[m] # Idle
    BY <1>0, <1>5 DEF ModerateCapacity, ModPc
  <2>2. mod'[m] = new \/ mod'[m] = Idle
    BY <1>5 DEF ModerateCapacity, ModerateAbort, ModerateGoto
  <2>3. /\ new.a = mod[m].a /\ new.in = mod[m].in /\ new.cur = mod[m].cur
        /\ new.pc = "commit"
    BY <2>1 DEF ModRequest
  <2>4. Checked(new)
    BY <2>1, <2>3 DEF SnapshotInv, Checked, Publishes
  <2>5. mod'[m] = Idle \/ new \in ModRequest
    <3>1. new.pc \in ModPc
      BY <2>3 DEF ModPc
    <3> HIDE DEF new
    <3> QED
      BY <2>2, <3>1, PcIsNotIdle
  <2> QED
    BY <2>1, <2>2, <2>3, <2>4, <2>5 DEF RequestStep, Advanced
<1>6. CASE ModerateCommit(m)
  BY <1>6 DEF ModerateCommit, ModerateAbort, RequestStep
<1> QED
  BY <1>1, <1>2, <1>3, <1>4, <1>5, <1>6 DEF ModerateStep

LEMMA RequestSteps ==
    ASSUME IInv, TypeOK', [Next]_vars, NEW m \in Moderator
    PROVE  RequestStep(m)
<1>1. ASSUME NEW n \in Moderator, ModerateRead(n) \/ ModerateStep(n)
      PROVE  RequestStep(m)
  <2>1. CASE n = m
    BY <1>1, <2>1, RequestMoves
  <2>2. CASE n # m
    <3>1. mod'[m] = mod[m]
      BY <1>1, <2>2
      DEF ModerateRead, ModerateStep, ModerateLinks, ModerateSource, ModerateVerify,
          ModerateCapacity, ModerateCommit, ModerateGoto, ModerateAbort, IInv, TypeOK
    <3> QED
      BY <3>1 DEF RequestStep
  <2> QED
    BY <2>1, <2>2
<1>2. CASE mod' = mod
  BY <1>2 DEF RequestStep
<1> QED
  BY <1>1, <1>2
  DEF Next, vars, UploadInsert, UploadStep, UploadFault, UploadSanitize, UploadCommit,
      UploadVerify, UploadRecord, UploadPut, UploadCleanup, UploadCommitFails, UploadCrash,
      UploadPutFails, LeaseAges, DeleteRead, DeleteStep, DeleteAbandon, DeleteClaim,
      DeleteRelease, DeleteFinalize, DeleteObject, SyncStart, SyncStep, SyncCheck, SyncCommit

\* An upload that has begun does not begin again.
LEMMA UploadStarts ==
    ASSUME TypeOK, [Next]_vars, NEW a \in Asset, up'[a].pc = "new"
    PROVE  up[a].pc = "new"
<1> USE DEF TypeOK
<1>1. ASSUME NEW b \in Asset, UploadInsert(b) \/ UploadStep(b) \/ UploadFault(b)
      PROVE  up[a].pc = "new"
  <2>1. ASSUME NEW pc, pc # "new", UploadGoto(b, pc)
        PROVE  up[a].pc = "new"
    BY <2>1 DEF UploadGoto, UploadRequest
  <2>2. CASE UploadInsert(b)
    BY <2>1, <2>2 DEF UploadInsert
  <2>3. CASE UploadSanitize(b)
    BY <2>1, <2>3 DEF UploadSanitize
  <2>4. ASSUME NEW k \in ObjectKind, UploadPut(b, k)
        PROVE  up[a].pc = "new"
    <3>1. AfterPut[k] # "new"
      BY DEF AfterPut, ObjectKind
    <3> QED
      BY <2>4, <3>1 DEF UploadPut, UploadRequest
  <2>5. ASSUME NEW k \in ObjectKind, UploadPutFails(b, k)
        PROVE  up[a].pc = "new"
    BY <2>1, <2>5 DEF UploadPutFails
  <2>6. ASSUME NEW k \in ObjectKind, UploadCleanup(b, k)
        PROVE  up[a].pc = "new"
    BY <2>6 DEF UploadCleanup, UploadRequest
  <2>7. CASE UploadCommit(b) \/ UploadCommitFails(b)
    BY <2>1, <2>7 DEF UploadCommit, UploadCommitFails
  <2>8. CASE UploadVerify(b)
    BY <2>1, <2>8 DEF UploadVerify
  <2>9. CASE UploadRecord(b) \/ UploadCrash(b)
    BY <2>1, <2>9 DEF UploadRecord, UploadCrash
  <2> QED
    BY <1>1, <2>2, <2>3, <2>4, <2>5, <2>6, <2>7, <2>8, <2>9 DEF UploadStep, UploadFault
<1>2. CASE up' = up
  BY <1>2
<1> QED
  BY <1>1, <1>2
  DEF Next, vars, ModerateRead, ModerateStep, ModerateLinks, ModerateSource, ModerateVerify,
      ModerateCapacity, ModerateCommit, LeaseAges, DeleteRead, DeleteStep, DeleteAbandon,
      DeleteClaim, DeleteRelease, DeleteFinalize, DeleteObject, SyncStart, SyncStep, SyncCheck,
      SyncCommit

\* A new link names a row that is there, before and after the step.
LEMMA LinkSteps ==
    ASSUME IInv, [Next]_vars, NEW r \in Report, NEW a \in Asset,
           link'[r][a] # "none", link[r][a] = "none"
    PROVE  row'[a].state # "absent"
<1> USE DEF IInv, TypeOK
<1>1. ASSUME NEW m \in Moderator, ModerateCommit(m)
      PROVE  row'[a].state # "absent"
  <2> DEFINE q == mod[m]
  <2>1. q \in ModRequest /\ q # Idle
    BY <1>1, ModRequestPc, IdleIsNoRequest DEF ModerateCommit, ModPc
  <2>2. q.in \in Input /\ q.a \in Asset /\ q.cur \in Row /\ q.in \in Inputs
    BY <2>1, EvidenceConstants DEF ModRequest
  <2>3. link' = ModeratedLinks(q) /\ BatchAccepted(q)
    BY <1>1 DEF ModerateCommit
  <2>4. q.in.report \in Report /\ a = q.a
    BY <2>2, <2>3, EvidenceConstants DEF ModeratedLinks, EditsCaption, Input
  <2>5. Present(q.a) /\ row' = [row EXCEPT ![q.a] = ModeratedRow(row[q.a], q.cur, q.in)]
    BY <1>1, <2>3, <2>4 DEF ModerateCommit, BatchAccepted
  <2>6. Allowed(q.cur, q.in)
    BY <2>1 DEF SnapshotAllowed
  <2>7. row'[a].state = NextState(q.cur, q.in) /\ NextState(q.cur, q.in) \in State
    BY <2>2, <2>4, <2>5, <2>6, NextTypes DEF ModeratedRow, Row
  <2> QED
    BY <2>7 DEF State
<1>2. ASSUME NEW e \in Editor, SyncCommit(e)
      PROVE  row'[a].state # "absent"
  <2>1. sync[e] \in SyncRequest
    BY <1>2, SyncRequestPc DEF SyncCommit
  <2> QED
    BY <1>2, <2>1 DEF SyncCommit, Present, SyncRequest
<1>3. ASSUME NEW d \in Deleter, DeleteFinalize(d)
      PROVE  FALSE
  <2>1. del[d].a \in Asset
    BY <1>3, DelRequestPc DEF DeleteFinalize, DelRequest
  <2> QED
    BY <1>3, <2>1 DEF DeleteFinalize
<1>4. CASE link' = link
  BY <1>4
<1> QED
  BY <1>1, <1>2, <1>3, <1>4
  DEF Next, vars, UploadInsert, UploadStep, UploadFault, UploadSanitize, UploadCommit,
      UploadVerify, UploadRecord, UploadPut, UploadCleanup, UploadCommitFails, UploadCrash,
      UploadPutFails, LeaseAges, ModerateRead, ModerateStep, ModerateLinks, ModerateSource,
      ModerateVerify, ModerateCapacity, DeleteRead, DeleteStep, DeleteAbandon, DeleteClaim,
      DeleteRelease, DeleteObject, SyncStart, SyncStep, SyncCheck

-----------------------------------------------------------------------------
(* The invariant is inductive.                                             *)

LEMMA InitIInv == Init => IInv
<1> SUFFICES ASSUME Init PROVE IInv
  OBVIOUS
<1>1. TypeOK
  BY TypeInit
<1>2. SnapshotAllowed /\ SnapshotInv
  BY DEF Init, SnapshotAllowed, SnapshotInv
<1>3. \A a \in Asset : RowInv(row[a])
  BY EvidenceConstants DEF Init, RowInv, NoRow, ReadyRow, AfterPii
<1>4. \A a \in Asset : up[a].pc = "new" => row[a] = NoRow
  BY DEF Init
<1>5. ReplacementSourceStaysWithheld
  BY DEF Init, ReplacementSourceStaysWithheld, NoRow, ReadyRow
<1>6. LinksNameRows
  BY DEF Init, LinksNameRows, Linked
<1> QED
  BY <1>1, <1>2, <1>3, <1>4, <1>5, <1>6 DEF IInv

LEMMA NextTypeOK == IInv /\ [Next]_vars => TypeOK'
<1> SUFFICES ASSUME IInv, [Next]_vars PROVE TypeOK'
  OBVIOUS
<1> USE DEF IInv
<1>1. ASSUME NEW a \in Asset, LeaseAges(a)
      PROVE  TypeOK'
  BY <1>1 DEF LeaseAges, TypeOK
<1>2. CASE UNCHANGED vars
  BY <1>2 DEF vars, TypeOK
<1> QED
  BY <1>1, <1>2, TypeUpload, TypeModerate, TypeDelete, TypeSync DEF Next

LEMMA NextIInv == IInv /\ [Next]_vars => IInv'
<1> SUFFICES ASSUME IInv, [Next]_vars PROVE IInv'
  OBVIOUS
<1>0. TypeOK'
  BY NextTypeOK
<1>a. \A a \in Asset : row[a] \in Row /\ RowInv(row[a]) /\ RowStep(a, row[a], row'[a])
  BY StepMoves DEF IInv, TypeOK
<1>1. \A a \in Asset : RowInv(row'[a])
  BY <1>a, MoveKeepsRow
<1>2. \A m \in Moderator : mod'[m] # Idle =>
        /\ Allowed(mod'[m].cur, mod'[m].in)
        /\ mod'[m].pc = "source" => NeedsSource(mod'[m])
        /\ mod'[m].cur.privacy => mod'[m].cur.state \in AfterPii
        /\ up'[mod'[m].a].pc # "new"
        /\ KeepsDerivative(mod'[m].cur, row'[mod'[m].a])
        /\ Checked(mod'[m])
  <2> SUFFICES ASSUME NEW m \in Moderator, mod'[m] # Idle
               PROVE  /\ Allowed(mod'[m].cur, mod'[m].in)
                      /\ mod'[m].pc = "source" => NeedsSource(mod'[m])
                      /\ mod'[m].cur.privacy => mod'[m].cur.state \in AfterPii
                      /\ up'[mod'[m].a].pc # "new"
                      /\ KeepsDerivative(mod'[m].cur, row'[mod'[m].a])
                      /\ Checked(mod'[m])
    OBVIOUS
  <2>1. RequestStep(m)
    BY <1>0, RequestSteps
  <2>2. CASE mod[m] = Idle /\ Read(mod'[m])
    <3> PICK a \in Asset, in \in Inputs :
          /\ Allowed(row[a], in) /\ row' = row /\ up' = up
          /\ mod'[m] = [pc |-> "links", a |-> a, in |-> in, cur |-> row[a],
                        links |-> NoLinks, from |-> "none"]
      BY <2>2 DEF Read
    <3>1. row[a].privacy => row[a].state \in AfterPii
      BY <1>a DEF RowInv
    <3>2. up[a].pc # "new"
      BY DEF IInv, Allowed, NoRow
    <3> QED
      BY <3>1, <3>2 DEF KeepsDerivative, Checked
  <2>3. CASE mod[m] # Idle /\ mod'[m].a = mod[m].a /\ mod'[m].in = mod[m].in
             /\ mod'[m].cur = mod[m].cur /\ mod[m] \in ModRequest
             /\ (mod'[m].pc = "source" => NeedsSource(mod'[m])) /\ Checked(mod'[m])
    <3> DEFINE a == mod[m].a
               cur == mod[m].cur
    <3>1. a \in Asset /\ cur \in Row
      BY <2>3 DEF ModRequest
    <3>2. up[a].pc # "new" /\ KeepsDerivative(cur, row[a])
      BY <2>3 DEF IInv, SnapshotInv
    <3>3. up'[a].pc # "new"
      BY <3>1, <3>2, UploadStarts DEF IInv
    <3>4. KeepsDerivative(cur, row'[a])
      BY <1>a, <3>1, <3>2, MoveKeepsDerivative
    <3> QED
      BY <2>3, <3>3, <3>4 DEF IInv, SnapshotAllowed, SnapshotInv
  <2>4. CASE mod'[m] = mod[m]
    BY <2>3, <2>4 DEF IInv, TypeOK, SnapshotAllowed, SnapshotInv
  <2>5. CASE Advanced(mod[m], mod'[m])
    BY <2>3, <2>5, IdleIsNoRequest DEF Advanced
  <2> QED
    BY <2>1, <2>2, <2>4, <2>5 DEF RequestStep
<1>3. SnapshotAllowed'
  BY <1>2 DEF SnapshotAllowed, Allowed, NeedsSource, NextState, NextPrivacy
<1>4. SnapshotInv'
  BY <1>2 DEF SnapshotInv, KeepsDerivative, Checked, Publishes, NextReviewed, NextPrivacy, NextState
<1>5. ASSUME NEW a \in Asset, up'[a].pc = "new"
      PROVE  row'[a] = NoRow
  <2>1. row[a] = NoRow
    BY <1>5, UploadStarts DEF IInv
  <2>2. NoRow.state = "absent" /\ NoRow.deletedAt \notin Token
    BY EvidenceConstants DEF NoRow
  <2> QED
    BY <1>5, <1>a, <2>1, <2>2 DEF RowStep, Served, Inserted, Uploaded, Dropped, Moderated, Claimed, Settled
<1>6. ReplacementSourceStaysWithheld'
  <2> SUFFICES ASSUME NEW a \in Asset, row'[a].replaces # "none"
               PROVE  row'[row'[a].replaces].privacy
    BY DEF ReplacementSourceStaysWithheld
  <2> DEFINE s == row'[a].replaces
  <2>1. s \in Asset
    BY <1>0 DEF TypeOK, Row
  <2>2. row[s].privacy
    <3>1. s = row[a].replaces \/ row[s].privacy
      BY <1>a, MoveKeepsSource
    <3> QED
      BY <3>1 DEF IInv, ReplacementSourceStaysWithheld
  <2> QED
    BY <1>a, <2>1, <2>2, MoveKeepsPrivacy
<1>7. LinksNameRows'
  <2> SUFFICES ASSUME NEW r \in Report, NEW a \in Asset, link'[r][a] # "none"
               PROVE  row'[a].state # "absent"
    BY DEF LinksNameRows, Linked, Present
  <2>1. CASE link[r][a] = "none"
    BY <2>1, LinkSteps
  <2>2. CASE link[r][a] # "none"
    <3>1. row[a].state # "absent" /\ LinkedTo(a) # {}
      BY <2>2 DEF IInv, LinksNameRows, Linked, LinkedTo, Present
    <3> QED
      BY <1>a, <3>1, MoveKeepsPresence
  <2> QED
    BY <2>1, <2>2
<1> QED
  BY <1>0, <1>1, <1>3, <1>4, <1>5, <1>6, <1>7 DEF IInv, RowInv

LEMMA Invariance == Spec => []IInv
BY InitIInv, NextIInv, PTL DEF Spec

-----------------------------------------------------------------------------
(* Theorems.                                                               *)

\* Every record keeps its shape.
THEOREM TypeCorrect == Spec => []TypeOK
<1>1. IInv => TypeOK
  BY DEF IInv
<1> QED
  BY <1>1, Invariance, PTL

\* A visible-PII decision keeps the image from being public, for any number of
\* moderators acting on stale reads and any failures.
THEOREM PiiStaysPrivateForever == Spec => []PiiStaysPrivate
<1>1. IInv => PiiStaysPrivate
  BY DEF IInv, RowInv, AfterPii, PiiStaysPrivate
<1> QED
  BY <1>1, Invariance, PTL

\* No request, failure or cleanup ever takes that decision back, or publishes
\* the image in spite of it.
THEOREM PiiDecisionKept == Spec => PiiDecisionIsPermanent
<1>1. IInv /\ [Next]_vars =>
        [\A a \in Asset : row[a].privacy =>
           /\ row'[a].privacy
           /\ row'[a].state \in {"private_ready", "withheld", "deleted"}]_vars
  <2> SUFFICES ASSUME IInv, [Next]_vars, NEW a \in Asset, row[a].privacy
               PROVE  /\ row'[a].privacy
                      /\ row'[a].state \in {"private_ready", "withheld", "deleted"}
    OBVIOUS
  <2>1. row'[a].privacy
    BY StepMoves, MoveKeepsPrivacy DEF IInv, TypeOK
  <2>2. IInv'
    BY NextIInv
  <2>3. (\A b \in Asset : row[b].privacy =>
           row[b].state \in {"private_ready", "withheld", "deleted"})'
    BY <2>2 DEF IInv, RowInv, AfterPii
  <2> QED
    BY <2>1, <2>3
<1> QED
  BY <1>1, Invariance, PTL DEF Spec, PiiDecisionIsPermanent

\* Holds and deletions exclude each other.
THEOREM HoldsProtect == Spec => []HoldBlocksDeletion
<1>1. IInv => HoldBlocksDeletion
  BY DEF IInv, RowInv, HoldBlocksDeletion, Leased
<1> QED
  BY <1>1, Invariance, PTL

\* A leased image is withheld and free of holds.
THEOREM LeasesArePrivate == Spec => []LeaseIsPrivate
<1>1. IInv => LeaseIsPrivate
  BY DEF IInv, RowInv, LeaseIsPrivate, Leased
<1> QED
  BY <1>1, Invariance, PTL

\* Public rows were reviewed, are not withheld and name a derivative.
THEOREM PublicRowsAreReviewed == Spec => []PublicIsReviewed
<1>1. IInv => PublicIsReviewed
  BY DEF IInv, RowInv, PublicIsReviewed
<1> QED
  BY <1>1, Invariance, PTL

\* The source of a replacement stays recorded as withheld.
THEOREM SourcesStayWithheld == Spec => []ReplacementSourceStaysWithheld
<1>1. IInv => ReplacementSourceStaysWithheld
  BY DEF IInv
<1> QED
  BY <1>1, Invariance, PTL

\* No link dangles.
THEOREM LinksStayValid == Spec => []LinksNameRows
<1>1. IInv => LinksNameRows
  BY DEF IInv
<1> QED
  BY <1>1, Invariance, PTL

-----------------------------------------------------------------------------
(* Sums of sizes.  TotalSize chooses an element, adds its size and goes on *)
(* with the rest; that it is the sum of the sizes in whatever order is     *)
(* shown on a smallest set where it would not be.                          *)

Chosen(s) == CHOOSE x \in s : TRUE
SumStep(f, s) == IF s = {} THEN 0 ELSE Size[Chosen(s)] + f[s \ {Chosen(s)}]
SumsOf(f, S) == f = [s \in SUBSET S |-> SumStep(f, s)]

LEMMA AssetSets ==
    ASSUME NEW s \in SUBSET Asset
    PROVE  /\ IsFiniteSet(s) /\ Cardinality(s) \in Nat
           /\ s # {} => /\ Chosen(s) \in s /\ Size[Chosen(s)] \in Nat
                        /\ s \ {Chosen(s)} \in SUBSET s
                        /\ Cardinality(s \ {Chosen(s)}) < Cardinality(s)
<1>1. IsFiniteSet(s) /\ Cardinality(s) \in Nat
  BY FS_Subset, FS_CardinalityType, EvidenceConstants
<1>2. ASSUME s # {} PROVE Chosen(s) \in s
  BY <1>2 DEF Chosen
<1>. DEFINE x == Chosen(s)
<1>. HIDE DEF x
<1>3. ASSUME s # {} PROVE Cardinality(s \ {x}) < Cardinality(s)
  <2>1. Cardinality(s \ {x}) = Cardinality(s) - 1
    BY <1>1, <1>2, <1>3, FS_RemoveElement DEF x
  <2>. QED
    BY <1>1, <2>1
<1>. QED
  BY <1>1, <1>2, <1>3, EvidenceConstants DEF x

LEMMA FewerInPart ==
    ASSUME NEW s \in SUBSET Asset, NEW u \in SUBSET s, u # s
    PROVE  Cardinality(u) < Cardinality(s) /\ Cardinality(u) \in Nat /\ Cardinality(s) \in Nat
<1>1. u \in SUBSET Asset
  OBVIOUS
<1>2. IsFiniteSet(s) /\ Cardinality(u) \in Nat /\ Cardinality(s) \in Nat
  BY <1>1, AssetSets
<1>3. Cardinality(u) <= Cardinality(s) /\ Cardinality(u) # Cardinality(s)
  BY <1>2, FS_Subset
<1>. QED
  BY <1>2, <1>3

LEMMA SmallestOf ==
    ASSUME NEW bad \in SUBSET SUBSET Asset, bad # {}
    PROVE  \E s \in bad : \A t \in bad : Cardinality(s) <= Cardinality(t)
<1>. DEFINE sizes == {Cardinality(s) : s \in bad}
<1>1. sizes \in SUBSET Nat /\ sizes # {}
  <2>1. \A s \in bad : s \in SUBSET Asset
    OBVIOUS
  <2>2. \A s \in bad : Cardinality(s) \in Nat
    BY <2>1, AssetSets
  <2>. QED
    BY <2>2
<1>2. \E m \in sizes : \A k \in sizes : <<k, m>> \notin OpToRel(<, Nat)
  <2>. HIDE DEF sizes
  <2>. QED
    BY <1>1, NatLessThanWellFounded, WFMin
<1>3. PICK m \in sizes : \A k \in sizes : <<k, m>> \notin OpToRel(<, Nat)
  BY <1>2
<1>4. \A k \in sizes : ~(k < m)
  BY <1>1, <1>3 DEF OpToRel
<1>5. PICK s \in bad : m = Cardinality(s)
  BY <1>3
<1>6. ASSUME NEW t \in bad PROVE Cardinality(s) <= Cardinality(t)
  <2>1. Cardinality(s) \in Nat /\ Cardinality(t) \in Nat
    BY AssetSets
  <2>2. ~(Cardinality(t) < Cardinality(s))
    BY <1>4, <1>5
  <2>. QED
    BY <2>1, <2>2
<1>. QED
  BY <1>5, <1>6

\* Two ways of summing agree where both are defined.
LEMMA SumsAgree ==
    ASSUME NEW S \in SUBSET Asset, NEW T \in SUBSET S, NEW f, NEW g, SumsOf(f, S), SumsOf(g, T),
           NEW s \in SUBSET T
    PROVE  f[s] = g[s]
<1>. DEFINE bad == {t \in SUBSET T : f[t] # g[t]}
<1>1. SUFFICES ASSUME bad # {} PROVE FALSE
  OBVIOUS
<1>2. bad \in SUBSET SUBSET Asset
  OBVIOUS
<1>3. PICK t \in bad : \A u \in bad : Cardinality(t) <= Cardinality(u)
  <2>. HIDE DEF bad
  <2>. QED
    BY <1>1, <1>2, SmallestOf
<1>4. t \in SUBSET T /\ t \in SUBSET S /\ t \in SUBSET Asset /\ f[t] # g[t]
  OBVIOUS
<1>5. f[t] = SumStep(f, t) /\ g[t] = SumStep(g, t)
  BY <1>4 DEF SumsOf
<1>6. t # {}
  BY <1>4, <1>5 DEF SumStep
<1>. DEFINE rest == t \ {Chosen(t)}
<1>7. rest \in SUBSET T /\ Cardinality(rest) < Cardinality(t) /\ Cardinality(t) \in Nat /\ Cardinality(rest) \in Nat
  BY <1>4, <1>6, AssetSets
<1>8. rest \notin bad
  <2>. HIDE DEF rest, bad
  <2>. QED
    BY <1>3, <1>7
<1>. QED
  BY <1>4, <1>5, <1>6, <1>7, <1>8 DEF SumStep

\* There is a way of summing: the smaller subsets first.
LEMMA SumsExist ==
    ASSUME NEW S \in SUBSET Asset
    PROVE  \E f \in [SUBSET S -> Nat] : SumsOf(f, S)
<1>. DEFINE good == {t \in SUBSET Asset : \E f \in [SUBSET t -> Nat] : SumsOf(f, t)}
            bad == (SUBSET Asset) \ good
<1>1. SUFFICES ASSUME bad # {} PROVE FALSE
  OBVIOUS
<1>2. bad \in SUBSET SUBSET Asset
  OBVIOUS
<1>3. PICK t \in bad : \A u \in bad : Cardinality(t) <= Cardinality(u)
  <2>. HIDE DEF bad
  <2>. QED
    BY <1>1, <1>2, SmallestOf
<1>4. t \in SUBSET Asset
  OBVIOUS
\* Every proper subset has its sums; put each in its place.
<1>5. ASSUME NEW u \in SUBSET t, u # t PROVE \E f \in [SUBSET u -> Nat] : SumsOf(f, u)
  <2>1. Cardinality(u) < Cardinality(t) /\ Cardinality(u) \in Nat /\ Cardinality(t) \in Nat
    BY <1>4, <1>5, FewerInPart
  <2>2. u \notin bad /\ u \in SUBSET Asset
    <3>. HIDE DEF bad
    <3>. QED
      BY <1>3, <1>4, <2>1
  <2>. QED
    BY <2>2
<1>. DEFINE Of(u) == CHOOSE f \in [SUBSET u -> Nat] : SumsOf(f, u)
            lower == [u \in SUBSET t |-> IF u = t THEN 0 ELSE Of(u)[u]]
            all == [u \in SUBSET t |-> IF u = t THEN SumStep(lower, t) ELSE lower[u]]
<1>6. ASSUME NEW u \in SUBSET t, u # t PROVE Of(u) \in [SUBSET u -> Nat] /\ SumsOf(Of(u), u)
  <2>. HIDE DEF SumsOf
  <2>. QED
    BY <1>5, <1>6
<1>7. ASSUME NEW u \in SUBSET t, u # t PROVE lower[u] \in Nat /\ lower[u] = SumStep(lower, u)
  <2>1. lower[u] = Of(u)[u]
    BY <1>7
  <2>. HIDE DEF Of, lower
  <2>2. Of(u)[u] = SumStep(Of(u), u)
    BY <1>6, <1>7 DEF SumsOf
  <2>3. ASSUME u # {} PROVE lower[u \ {Chosen(u)}] = Of(u)[u \ {Chosen(u)}]
    <3>. DEFINE v == u \ {Chosen(u)}
    <3>1. v \in SUBSET u /\ v \in SUBSET t /\ v # t /\ u \in SUBSET Asset
      BY <1>4, <1>7, <2>3, AssetSets
    <3>. HIDE DEF v
    <3>2. lower[v] = Of(v)[v]
      BY <3>1 DEF lower
    <3>3. SumsOf(Of(v), v) /\ SumsOf(Of(u), u)
      BY <1>6, <1>7, <3>1
    <3>4. Of(u)[v] = Of(v)[v]
      BY <3>1, <3>3, SumsAgree
    <3>. QED
      BY <3>2, <3>4 DEF v
  <2>4. lower[u] \in Nat
    BY <1>6, <1>7, <2>1
  <2>. QED
    BY <2>1, <2>2, <2>3, <2>4 DEF SumStep
<1>8. SumStep(lower, t) \in Nat
  <2>1. ASSUME t # {} PROVE Size[Chosen(t)] \in Nat /\ lower[t \ {Chosen(t)}] \in Nat
    <3>. DEFINE v == t \ {Chosen(t)}
    <3>1. v \in SUBSET t /\ v # t
      BY <1>4, <2>1, AssetSets
    <3>. HIDE DEF v, lower
    <3>2. lower[v] \in Nat
      BY <1>7, <3>1
    <3>. QED
      BY <1>4, <2>1, <3>2, AssetSets DEF v
  <2>. HIDE DEF lower
  <2>. QED
    BY <2>1 DEF SumStep
<1>. HIDE DEF lower
<1>9. all \in [SUBSET t -> Nat]
  BY <1>7, <1>8
<1>10. ASSUME NEW u \in SUBSET t PROVE all[u] = SumStep(all, u)
  <2>1. ASSUME u # {} PROVE all[u \ {Chosen(u)}] = lower[u \ {Chosen(u)}]
    <3>1. u \ {Chosen(u)} \in SUBSET t /\ u \ {Chosen(u)} # t
      BY <1>4, <2>1, AssetSets
    <3>. QED
      BY <3>1
  <2>2. all[u] = SumStep(lower, u)
    BY <1>7
  <2>. HIDE DEF all
  <2>. QED
    BY <2>1, <2>2 DEF SumStep
<1>11. SumsOf(all, t)
  <2>. DEFINE rhs == [u \in SUBSET t |-> SumStep(all, u)]
  <2>1. all = [u \in SUBSET t |-> all[u]]
    BY <1>9
  <2>. HIDE DEF all
  <2>. QED
    BY <1>10, <2>1 DEF SumsOf
<1>12. t \in good
  <2>. HIDE DEF all
  <2>. QED
    BY <1>4, <1>9, <1>11
<1>. QED
  BY <1>3, <1>12

LEMMA TotalIsTheSum ==
    ASSUME NEW S \in SUBSET Asset, NEW f, SumsOf(f, S)
    PROVE  TotalSize(S) = f[S]
<1>. DEFINE iter == CHOOSE g : SumsOf(g, S)
<1>1. SumsOf(iter, S)
  BY SumsExist
<1>2. TotalSize(S) = iter[S]
  BY DEF TotalSize, MapThenSumSet, MapThenFoldSet, SumsOf, SumStep, Chosen
<1>. HIDE DEF iter
<1>3. S \in SUBSET S
  OBVIOUS
<1>. QED
  BY <1>1, <1>2, <1>3, SumsAgree

LEMMA TotalOfRest ==
    ASSUME NEW S \in SUBSET Asset
    PROVE  /\ TotalSize(S) \in Nat
           /\ S = {} => TotalSize(S) = 0
           /\ S # {} => TotalSize(S) = Size[Chosen(S)] + TotalSize(S \ {Chosen(S)})
<1>1. PICK f \in [SUBSET S -> Nat] : SumsOf(f, S)
  BY SumsExist
<1>2. S \in SUBSET S /\ f[S] = SumStep(f, S)
  BY <1>1 DEF SumsOf
<1>3. TotalSize(S) = f[S]
  BY <1>1, TotalIsTheSum
<1>4. TotalSize(S) \in Nat
  BY <1>1, <1>2, <1>3
<1>5. ASSUME S # {} PROVE TotalSize(S \ {Chosen(S)}) = f[S \ {Chosen(S)}]
  <2>. DEFINE T == S \ {Chosen(S)}
  <2>1. T \in SUBSET S /\ T \in SUBSET Asset /\ T \in SUBSET T
    OBVIOUS
  <2>. HIDE DEF T
  <2>2. PICK g \in [SUBSET T -> Nat] : SumsOf(g, T)
    BY <2>1, SumsExist
  <2>3. TotalSize(T) = g[T] /\ f[T] = g[T]
    BY <1>1, <2>1, <2>2, TotalIsTheSum, SumsAgree
  <2>. QED
    BY <2>3 DEF T
<1>. QED
  BY <1>2, <1>3, <1>4, <1>5 DEF SumStep

\* Whichever element is taken off.
LEMMA TotalOfOneMore ==
    ASSUME NEW S \in SUBSET Asset, NEW a \in Asset, a \notin S
    PROVE  TotalSize(S \union {a}) = TotalSize(S) + Size[a]
<1>. DEFINE Adds(t, b) == TotalSize(t \union {b}) = TotalSize(t) + Size[b]
            bad == {t \in SUBSET Asset : \E b \in Asset \ t : ~Adds(t, b)}
<1>1. SUFFICES ASSUME bad # {} PROVE FALSE
  OBVIOUS
<1>2. bad \in SUBSET SUBSET Asset
  OBVIOUS
<1>3. PICK t \in bad : \A u \in bad : Cardinality(t) <= Cardinality(u)
  <2>. HIDE DEF bad
  <2>. QED
    BY <1>1, <1>2, SmallestOf
<1>4. PICK b \in Asset \ t : ~Adds(t, b)
  OBVIOUS
<1>. DEFINE U == t \union {b}
            p == Chosen(U)
            rest == t \ {p}
<1>5. t \in SUBSET Asset /\ U \in SUBSET Asset /\ U # {}
  OBVIOUS
<1>6. p \in U /\ TotalSize(U) = Size[p] + TotalSize(U \ {p})
  <2>. HIDE DEF U
  <2>. QED
    BY <1>5, AssetSets, TotalOfRest
<1>. HIDE DEF p
<1>7. CASE p = b
  <2>1. U \ {p} = t
    BY <1>7
  <2>2. TotalSize(t) \in Nat /\ Size[b] \in Nat
    BY <1>5, TotalOfRest, EvidenceConstants
  <2>. QED
    BY <1>4, <1>6, <1>7, <2>1, <2>2
<1>8. CASE p # b
  <2>1. p \in t /\ p \in Asset /\ rest \in SUBSET Asset /\ U \ {p} = rest \union {b} /\ t = rest \union {p}
        /\ p \notin rest /\ b \notin rest
    BY <1>5, <1>6, <1>8
  <2>2. Cardinality(rest) < Cardinality(t) /\ Cardinality(rest) \in Nat /\ Cardinality(t) \in Nat
    BY <1>5, <2>1, FewerInPart
  <2>3. rest \notin bad
    <3>. HIDE DEF bad, rest
    <3>. QED
      BY <1>3, <2>2
  <2>4. Adds(rest, b) /\ Adds(rest, p)
    BY <2>1, <2>3
  <2>5. TotalSize(rest) \in Nat /\ Size[b] \in Nat /\ Size[p] \in Nat
    BY <2>1, TotalOfRest, EvidenceConstants
  <2>6. TotalSize(U) = Size[p] + TotalSize(rest \union {b})
    BY <1>6, <2>1
  <2>7. TotalSize(t) = TotalSize(rest) + Size[p] /\ TotalSize(rest \union {b}) = TotalSize(rest) + Size[b]
    BY <2>1, <2>4
  <2>. HIDE DEF rest
  <2>. QED
    BY <1>4, <2>5, <2>6, <2>7
<1>. QED
  BY <1>7, <1>8

LEMMA TotalOfFewer ==
    ASSUME NEW S \in SUBSET Asset, NEW T \in SUBSET S
    PROVE  TotalSize(T) <= TotalSize(S)
<1>. DEFINE bad == {u \in SUBSET Asset : T \subseteq u /\ ~(TotalSize(T) <= TotalSize(u))}
<1>1. SUFFICES ASSUME bad # {} PROVE FALSE
  OBVIOUS
<1>2. bad \in SUBSET SUBSET Asset
  OBVIOUS
<1>3. PICK u \in bad : \A v \in bad : Cardinality(u) <= Cardinality(v)
  <2>. HIDE DEF bad
  <2>. QED
    BY <1>1, <1>2, SmallestOf
<1>4. u \in SUBSET Asset /\ T \subseteq u /\ ~(TotalSize(T) <= TotalSize(u)) /\ T \in SUBSET Asset
  OBVIOUS
<1>5. TotalSize(T) \in Nat /\ TotalSize(u) \in Nat
  BY <1>4, TotalOfRest
<1>6. PICK x \in u : x \notin T
  BY <1>4, <1>5
<1>. DEFINE rest == u \ {x}
<1>7. rest \in SUBSET Asset /\ T \subseteq rest /\ x \in Asset /\ x \notin rest /\ u = rest \union {x}
  BY <1>4, <1>6
<1>8. Cardinality(rest) < Cardinality(u) /\ Cardinality(rest) \in Nat /\ Cardinality(u) \in Nat
  BY <1>4, <1>7, FewerInPart
<1>9. rest \notin bad
  <2>. HIDE DEF bad, rest
  <2>. QED
    BY <1>3, <1>8
<1>10. TotalSize(u) = TotalSize(rest) + Size[x] /\ TotalSize(rest) \in Nat /\ Size[x] \in Nat
  BY <1>7, TotalOfOneMore, TotalOfRest, EvidenceConstants
<1>. QED
  BY <1>4, <1>5, <1>7, <1>9, <1>10

-----------------------------------------------------------------------------
(* Links.                                                                  *)

Fits(S) == Cardinality(S) <= MaxFiles /\ TotalSize(S) <= MaxTotalSize

\* A save has at most as many files as a report may have.
SavesFit == \A e \in Editor : sync[e] # Idle => Cardinality(sync[e].want) <= MaxFiles

LimitInv == LinkLimits /\ SavesFit

LEMMA FewerFit ==
    ASSUME NEW S \in SUBSET Asset, NEW T \in SUBSET S, Fits(S)
    PROVE  Fits(T)
<1>1. T \in SUBSET Asset /\ MaxFiles \in Nat /\ MaxTotalSize \in Nat
  BY EvidenceConstants
<1>2. IsFiniteSet(S) /\ Cardinality(S) \in Nat /\ Cardinality(T) \in Nat
  BY <1>1, AssetSets
<1>3. Cardinality(T) <= Cardinality(S)
  BY <1>2, FS_Subset
<1>4. TotalSize(S) \in Nat /\ TotalSize(T) \in Nat /\ TotalSize(T) <= TotalSize(S)
  BY <1>1, TotalOfRest, TotalOfFewer
<1>. QED
  BY <1>1, <1>2, <1>3, <1>4 DEF Fits

LEMMA OneMoreFits ==
    ASSUME NEW S \in SUBSET Asset, NEW a \in Asset, a \notin S, LinkTriggers(S, a)
    PROVE  Fits(S \union {a})
<1>1. MaxFiles \in Nat /\ MaxTotalSize \in Nat
  BY EvidenceConstants
<1>2. IsFiniteSet(S) /\ Cardinality(S) \in Nat
  BY AssetSets
<1>3. Cardinality(S \union {a}) = Cardinality(S) + 1
  BY <1>2, FS_AddElement
<1>4. TotalSize(S \union {a}) = TotalSize(S) + Size[a]
  BY TotalOfOneMore
<1>. QED
  BY <1>1, <1>2, <1>3, <1>4 DEF Fits, LinkTriggers

LEMMA ModeratedFits ==
    ASSUME IInv, LimitInv, NEW m \in Moderator, ModerateCommit(m), NEW r \in Report
    PROVE  Fits(Linked(r)')
<1>. DEFINE q == mod[m]
<1>1. q \in ModRequest /\ q # Idle
  BY ModRequestPc, IdleIsNoRequest DEF ModerateCommit, ModPc, IInv
<1>2. q.in \in Input /\ q.a \in Asset /\ link' \in {link, ModeratedLinks(q)}
  BY <1>1, EvidenceConstants DEF ModRequest, ModerateCommit
<1>3. Linked(r) \in SUBSET Asset /\ Fits(Linked(r)) /\ link \in [Report -> [Asset -> Caption \union {"none"}]]
  BY DEF Linked, LimitInv, LinkLimits, Fits, IInv, TypeOK
<1>4. CASE q.in.report = r /\ link' # link
  <2>1. BatchAccepted(q) /\ link' = ModeratedLinks(q)
    BY <1>4 DEF ModerateCommit
  <2>2. LinkTriggers(Others(q, r), q.a)
    BY <1>4, <2>1 DEF BatchAccepted
  <2>3. Others(q, r) \in SUBSET Asset /\ q.a \notin Others(q, r)
    BY DEF Others, Linked
  <2>4. link'[r] = [b \in Asset |-> IF b = q.a THEN NewCaption(q)
                                   ELSE IF b \in Transferred(q) THEN "none" ELSE link[r][b]]
    BY <1>3, <1>4, <2>1, EvidenceConstants DEF ModeratedLinks, EditsCaption
  <2>5. Linked(r)' \subseteq Others(q, r) \union {q.a}
    BY <1>4, <2>4 DEF Linked, Others
  <2>6. Others(q, r) \union {q.a} \in SUBSET Asset
    BY <1>2, <2>3
  <2>7. Fits(Others(q, r) \union {q.a})
    BY <1>2, <2>2, <2>3, OneMoreFits
  <2>. QED
    BY <2>5, <2>6, <2>7, FewerFit
<1>5. CASE ~(q.in.report = r /\ link' # link)
  <2>1. \A a \in Asset : link'[r][a] # "none" => link[r][a] # "none"
    <3>1. CASE link' = link
      BY <3>1
    <3>2. CASE q.in.report \in Report /\ q.in.report # r /\ link' = ModeratedLinks(q)
      BY <1>3, <3>2 DEF ModeratedLinks
    <3>3. CASE q.in.report = "unlink" /\ link' = ModeratedLinks(q)
      BY <1>3, <3>3, EvidenceConstants DEF ModeratedLinks
    <3>4. CASE q.in.report = "keep" /\ link' = ModeratedLinks(q)
      BY <1>3, <3>4, EvidenceConstants DEF ModeratedLinks
    <3>. QED
      BY <1>2, <1>5, <3>1, <3>2, <3>3, <3>4 DEF Input
  <2>2. Linked(r)' \subseteq Linked(r)
    BY <2>1 DEF Linked
  <2>. QED
    BY <1>3, <2>2, FewerFit
<1>. QED
  BY <1>4, <1>5

LEMMA SavedFits ==
    ASSUME IInv, LimitInv, NEW e \in Editor, SyncCommit(e), NEW r \in Report
    PROVE  Fits(Linked(r)')
<1>. DEFINE q == sync[e]
<1>1. q \in SyncRequest /\ q # Idle
  BY SyncRequestPc DEF SyncCommit, IInv, Idle
<1>2. Fits(Linked(r)) /\ link \in [Report -> [Asset -> Caption \union {"none"}]]
  BY DEF LimitInv, LinkLimits, Fits, IInv, TypeOK
<1>3. CASE link' = link
  <2>1. Linked(r)' = Linked(r)
    BY <1>3 DEF Linked
  <2>. QED
    BY <1>2, <2>1
<1>4. CASE link' # link
  <2>1. /\ TotalSize(q.want) <= MaxTotalSize
        /\ link' = [link EXCEPT ![q.report] =
                      [a \in Asset |-> IF a \in q.want THEN q.caption ELSE "none"]]
    BY <1>4 DEF SyncCommit
  <2>2. Cardinality(q.want) <= MaxFiles /\ q.want \in SUBSET Asset /\ Fits(q.want)
    BY <1>1, <2>1 DEF LimitInv, SavesFit, SyncRequest, Fits
  <2>3. CASE r = q.report
    <3>1. Linked(r)' \subseteq q.want
      BY <1>2, <2>1, <2>3 DEF Linked
    <3>. QED
      BY <2>2, <3>1, FewerFit
  <2>4. CASE r # q.report
    <3>1. Linked(r)' = Linked(r)
      BY <1>2, <2>1, <2>4 DEF Linked
    <3>. QED
      BY <1>2, <3>1
  <2>. QED
    BY <2>3, <2>4
<1>. QED
  BY <1>3, <1>4

LEMMA DeletedFits ==
    ASSUME IInv, LimitInv, NEW d \in Deleter, DeleteFinalize(d), NEW r \in Report
    PROVE  Fits(Linked(r)')
<1>1. Linked(r) \in SUBSET Asset /\ Fits(Linked(r)) /\ link \in [Report -> [Asset -> Caption \union {"none"}]]
  BY DEF Linked, LimitInv, LinkLimits, Fits, IInv, TypeOK
<1>2. Linked(r)' \subseteq Linked(r)
  BY <1>1 DEF DeleteFinalize, Linked
<1>. QED
  BY <1>1, <1>2, FewerFit

LEMMA OtherLinks ==
    ASSUME [Next]_vars
    PROVE  \/ link' = link
           \/ \E m \in Moderator : ModerateCommit(m)
           \/ \E e \in Editor : SyncCommit(e)
           \/ \E d \in Deleter : DeleteFinalize(d)
BY DEF Next, vars, UploadInsert, UploadStep, UploadFault, UploadSanitize, UploadCommit,
      UploadVerify, UploadRecord, UploadPut, UploadCleanup, UploadCommitFails, UploadCrash,
      UploadPutFails, LeaseAges, ModerateRead, ModerateStep, ModerateLinks, ModerateSource,
      ModerateVerify, ModerateCapacity, DeleteRead, DeleteStep, DeleteAbandon, DeleteClaim,
      DeleteRelease, DeleteObject, SyncStart, SyncStep, SyncCheck

LEMMA SavesStayFitting ==
    ASSUME IInv, SavesFit, [Next]_vars
    PROVE  SavesFit'
<1>. SUFFICES ASSUME NEW e \in Editor, sync'[e] # Idle PROVE Cardinality(sync'[e].want) <= MaxFiles
  BY DEF SavesFit
<1>1. sync \in [Editor -> SyncRequest \union {Idle}]
  BY DEF IInv, TypeOK
<1>2. ASSUME NEW c \in Editor, SyncStart(c) PROVE Cardinality(sync'[e].want) <= MaxFiles
  BY <1>1, <1>2 DEF SyncStart, SavesFit
<1>3. ASSUME NEW c \in Editor, SyncStep(c) PROVE Cardinality(sync'[e].want) <= MaxFiles
  <2>1. CASE SyncCommit(c)
    BY <1>1, <2>1 DEF SyncCommit, SavesFit
  <2>2. ASSUME NEW a \in Asset, SyncCheck(c, a) PROVE Cardinality(sync'[e].want) <= MaxFiles
    <3>1. sync[c] \in SyncRequest
      BY <2>2, SyncRequestPc DEF SyncCheck, IInv
    <3>2. sync[c] # Idle
      BY <2>2 DEF SyncCheck, Idle
    <3>3. sync'[e] # Idle => sync[e] # Idle /\ sync'[e].want = sync[e].want
      BY <1>1, <2>2, <3>1, <3>2 DEF SyncCheck, SyncRequest
    <3>. QED
      BY <3>3 DEF SavesFit
  <2>. QED
    BY <1>3, <2>1, <2>2 DEF SyncStep
<1>4. CASE sync' = sync
  BY <1>4 DEF SavesFit
<1>. QED
  BY <1>2, <1>3, <1>4
  DEF Next, vars, UploadInsert, UploadStep, UploadFault, UploadSanitize, UploadCommit,
      UploadVerify, UploadRecord, UploadPut, UploadCleanup, UploadCommitFails, UploadCrash,
      UploadPutFails, LeaseAges, ModerateRead, ModerateStep, ModerateLinks, ModerateSource,
      ModerateVerify, ModerateCapacity, ModerateCommit, DeleteRead, DeleteStep, DeleteAbandon,
      DeleteClaim, DeleteRelease, DeleteObject, DeleteFinalize

LEMMA NextLimitInv == IInv /\ LimitInv /\ [Next]_vars => LimitInv'
<1>. SUFFICES ASSUME IInv, LimitInv, [Next]_vars PROVE LimitInv'
  OBVIOUS
<1>1. ASSUME NEW r \in Report PROVE Fits(Linked(r)')
  <2>1. CASE link' = link
    <3>1. Linked(r)' = Linked(r) /\ Fits(Linked(r))
      BY <2>1 DEF Linked, LimitInv, LinkLimits, Fits
    <3>. QED
      BY <3>1
  <2>. QED
    BY <2>1, OtherLinks, ModeratedFits, SavedFits, DeletedFits
<1>2. LinkLimits'
  BY <1>1 DEF LinkLimits, Fits
<1>. QED
  BY <1>2, SavesStayFitting DEF LimitInv

\* However links and saves race for the last slot and the last bytes, no report
\* gets more than five files or 20 MiB of originals (the triggers of migration
\* 0008 and the check of a save).
THEOREM LimitsOfLinks == Spec => []LinkLimits
<1>1. Init => LimitInv
  <2>. SUFFICES ASSUME Init PROVE LimitInv
    OBVIOUS
  <2>1. \A r \in Report : Linked(r) = {}
    BY DEF Init, Linked
  <2>2. {} \in SUBSET Asset /\ Cardinality({}) = 0 /\ TotalSize({}) = 0
    BY FS_EmptySet, TotalOfRest
  <2>3. SavesFit
    BY DEF Init, SavesFit
  <2>. QED
    BY <2>1, <2>2, <2>3, EvidenceConstants DEF LimitInv, LinkLimits
<1>2. LimitInv => LinkLimits
  BY DEF LimitInv
<1>. QED
  BY <1>1, <1>2, NextLimitInv, Invariance, PTL DEF Spec
-----------------------------------------------------------------------------
(***************************************************************************)
(* Leases.  A deletion that has not claimed yet holds a token nobody else  *)
(* has seen; what it saw is only worth claiming once it is ten minutes old.*)
(***************************************************************************)
Unused(t) ==
    /\ \A a \in Asset : row[a].deletedAt # t
    /\ \A c \in Deleter : del[c] # Idle => del[c].seen # t

LeaseInv ==
    /\ \A d \in Deleter : del[d].pc = "claim" =>
        /\ Unused(del[d].token)
        /\ del[d].seen \in Token /\ row[del[d].a].deletedAt = del[d].seen => del[d].a \in aged
    /\ \A c, d \in Deleter :
        del[c] # Idle /\ del[d] # Idle /\ del[c].token = del[d].token => c = d

\* A step that is no deletion's leaves every lease as it was.
LeasesUntouched ==
    /\ del' = del
    /\ \A a \in Asset : /\ row'[a].deletedAt = row[a].deletedAt
                        /\ Leased(a) => row'[a] = row[a]
                        /\ row[a].state # "deleted" => row'[a].state # "deleted"

\* What the steps of the other requests have in common.
ByOthers ==
    \/ \E a \in Asset : UploadInsert(a) \/ UploadStep(a) \/ UploadFault(a)
    \/ \E m \in Moderator : ModerateRead(m) \/ ModerateStep(m)
    \/ \E e \in Editor : SyncStart(e) \/ SyncStep(e)
    \/ UNCHANGED vars

LEMMA ServedKeepsLease ==
    ASSUME NEW a \in Asset, row[a] \in Row, RowInv(row[a]), NEW new, Served(a, row[a], new)
    PROVE  /\ new.deletedAt = row[a].deletedAt
           /\ Leased(a) => new = row[a]
           /\ row[a].state # "deleted" => new.state # "deleted"
<1> DEFINE old == row[a]
<1>1. CASE new = old
  BY <1>1
<1>2. CASE Inserted(a, old, new)
  BY <1>2, EvidenceConstants DEF Inserted, NoRow, Leased
<1>3. CASE Uploaded(old, new)
  BY <1>3 DEF Uploaded, ReadyRow, RowInv, Row, Leased
<1>4. CASE Dropped(a, old, new)
  BY <1>4, EvidenceConstants DEF Dropped, MayDeleteRow, NoRow, Leased
<1>5. CASE Moderated(old, new)
  <2>1. ~Leased(a)
    BY <1>5, ModeratedKeepsRow DEF Leased
  <2>2. PICK cur \in Row, in \in Inputs : new = ModeratedRow(old, cur, in) /\ Allowed(cur, in)
    BY <1>5 DEF Moderated
  <2>3. new.deletedAt = old.deletedAt /\ new.state = NextState(cur, in)
    BY <2>2 DEF ModeratedRow, Row
  <2>4. NextState(cur, in) # "deleted"
    BY <2>2, EvidenceConstants DEF NextState, Allowed, Input
  <2> QED
    BY <2>1, <2>3, <2>4
<1> QED
  BY <1>1, <1>2, <1>3, <1>4, <1>5 DEF Served

LEMMA OthersKeepLeases ==
    ASSUME IInv, ByOthers
    PROVE  LeasesUntouched /\ aged' = aged
<1>1. del' = del /\ aged' = aged
  BY DEF ByOthers, vars, UploadInsert, UploadStep, UploadFault, UploadSanitize, UploadCommit,
         UploadVerify, UploadRecord, UploadPut, UploadCleanup, UploadCommitFails, UploadCrash,
         UploadPutFails, ModerateRead, ModerateStep, ModerateLinks, ModerateSource,
         ModerateVerify, ModerateCapacity, ModerateCommit, SyncStart, SyncStep, SyncCheck,
         SyncCommit
<1>2. ASSUME NEW a \in Asset
      PROVE  Served(a, row[a], row'[a])
  <2>1. CASE row' = row
    BY <2>1 DEF Served
  <2> QED
    BY <2>1, UploadMoves, ModerateMoves
    DEF ByOthers, vars, SyncStart, SyncStep, SyncCheck, SyncCommit
<1>3. \A a \in Asset : row[a] \in Row /\ RowInv(row[a])
  BY DEF IInv, TypeOK
<1> QED
  BY <1>1, <1>2, <1>3, ServedKeepsLease DEF LeasesUntouched

\* A step is a deletion's, the clock's or another request's.
LEMMA StepsOfEvidence ==
    ASSUME [Next]_vars
    PROVE  \/ ByOthers
           \/ \E a \in Asset : LeaseAges(a)
           \/ \E d \in Deleter : DeleteRead(d) \/ DeleteStep(d) \/ DeleteAbandon(d)
BY DEF Next, ByOthers

-----------------------------------------------------------------------------
(* What the steps of a deletion do to leases.                              *)

\* A request begins with a token of its own.
Begun(d) ==
    /\ row' = row /\ stored' = stored /\ aged' = aged
    /\ \E a \in Asset, t \in Token :
        /\ Fresh(t)
        /\ Leased(a) => a \in aged
        /\ del' = [del EXCEPT ![d] = [pc |-> "claim", a |-> a, token |-> t,
                     seen |-> IF Leased(a) THEN row[a].deletedAt ELSE "null",
                     todo |-> {}, failed |-> FALSE]]

\* It takes the lease, or the one it has seen time out.
Took(d) ==
    /\ del[d].pc = "claim" /\ Claims(del[d]) /\ stored' = stored
    /\ row' = [row EXCEPT ![del[d].a] =
                 [row[del[d].a] EXCEPT !.state = "withheld", !.deletedAt = del[d].token]]
    /\ aged' = aged \ {del[d].a}
    /\ del' = [del EXCEPT ![d] = [del[d] EXCEPT !.pc = "erase", !.todo =
                 {"original"} \union IF row[del[d].a].deriv THEN {"derivative"} ELSE {}]]

\* It takes an object away, or tries to.
Removed(d) ==
    /\ del[d].pc = "erase" /\ row' = row /\ aged' = aged
    /\ \E k \in del[d].todo :
        \/ /\ stored' = [stored EXCEPT ![del[d].a] = @ \ {k}]
           /\ del' = [del EXCEPT ![d] = [del[d] EXCEPT !.todo = @ \ {k}]]
        \/ /\ "r2" \in Faults
           /\ \E gone \in SUBSET {k} : stored' = [stored EXCEPT ![del[d].a] = @ \ gone]
           /\ del' = [del EXCEPT ![d] = [del[d] EXCEPT !.todo = @ \ {k}, !.failed = TRUE]]

\* It gives the lease back, or finishes.
GaveBack(d) ==
    /\ del[d].pc = "erase" /\ HoldsLease(del[d]) /\ stored' = stored
    /\ \/ /\ del[d].todo = {} /\ del[d].failed
          /\ row' = [row EXCEPT ![del[d].a] = [row[del[d].a] EXCEPT !.deletedAt = "null"]]
       \/ /\ Erased(del[d])
          /\ row' = [row EXCEPT ![del[d].a] =
               [row[del[d].a] EXCEPT !.state = "deleted", !.deriv = FALSE, !.deletedAt = "final"]]
    /\ aged' = aged \ {del[d].a}
    /\ del' = [del EXCEPT ![d] = Idle]

\* It ends without touching anything.
Ended(d) ==
    row' = row /\ stored' = stored /\ aged' = aged /\ del' = [del EXCEPT ![d] = Idle]

LEMMA DeletionMoves ==
    ASSUME TypeOK, NEW d \in Deleter, DeleteRead(d) \/ DeleteStep(d) \/ DeleteAbandon(d)
    PROVE  /\ \/ del[d] = Idle /\ Begun(d)
              \/ del[d] \in DelRequest /\ (Took(d) \/ Removed(d) \/ GaveBack(d))
              \/ Ended(d)
           /\ up' = up /\ mod' = mod
<1>0. /\ del[d].pc \in {"claim", "erase"} => del[d] \in DelRequest /\ del[d].a \in Asset
      /\ row \in [Asset -> Row] /\ \A a \in Asset : row[a] \in Row
  BY DelRequestPc DEF DelRequest, TypeOK
<1>1. CASE DeleteRead(d)
  BY <1>1 DEF DeleteRead, Begun
<1>2. CASE DeleteClaim(d)
  <2>1. CASE Claims(del[d])
    <3>1. del[d] \in DelRequest /\ del[d].a \in Asset /\ del[d].pc = "claim"
      BY <1>0, <1>2 DEF DeleteClaim
    <3>2. row' = [row EXCEPT ![del[d].a] =
                 [row[del[d].a] EXCEPT !.state = "withheld", !.deletedAt = del[d].token]]
      BY <1>0, <1>2, <2>1, <3>1 DEF DeleteClaim
    <3>3. del' = [del EXCEPT ![d] = [del[d] EXCEPT !.pc = "erase", !.todo =
                 {"original"} \union IF row[del[d].a].deriv THEN {"derivative"} ELSE {}]]
      BY <1>2, <2>1, <3>1 DEF DeleteClaim, TypeOK
    <3> QED
      BY <1>2, <2>1, <3>1, <3>2, <3>3 DEF DeleteClaim, Took
  <2>2. CASE ~Claims(del[d])
    BY <1>2, <2>2 DEF DeleteClaim, Ended
  <2> QED
    BY <1>2, <2>1, <2>2 DEF DeleteClaim
<1>3. ASSUME NEW k \in ObjectKind, DeleteObject(d, k)
      PROVE  del[d] \in DelRequest /\ Removed(d) /\ up' = up /\ mod' = mod
  <2>1. del[d] \in DelRequest
    BY <1>0, <1>3 DEF DeleteObject
  <2>2. CASE del' = [del EXCEPT ![d].todo = @ \ {k}] /\ stored' = [stored EXCEPT ![del[d].a] = @ \ {k}]
    <3>1. del' = [del EXCEPT ![d] = [del[d] EXCEPT !.todo = @ \ {k}]]
      BY <2>2 DEF TypeOK
    <3> QED
      BY <1>3, <2>1, <2>2, <3>1 DEF DeleteObject, Removed
  <2>3. CASE "r2" \in Faults /\ del' = [del EXCEPT ![d].todo = @ \ {k}, ![d].failed = TRUE]
             /\ \E gone \in SUBSET {k} : stored' = [stored EXCEPT ![del[d].a] = @ \ gone]
    <3>1. del' = [del EXCEPT ![d] = [del[d] EXCEPT !.todo = @ \ {k}, !.failed = TRUE]]
      BY <2>3 DEF TypeOK
    <3> QED
      BY <1>3, <2>1, <2>3, <3>1 DEF DeleteObject, Removed
  <2> QED
    BY <1>3, <2>2, <2>3 DEF DeleteObject
<1>4. CASE DeleteRelease(d)
  <2>1. del[d] \in DelRequest /\ del[d].failed
    BY <1>0, <1>4 DEF DeleteRelease, Erased
  <2> QED
    BY <1>0, <1>4, <2>1 DEF DeleteRelease, GaveBack, Ended
<1>5. CASE DeleteFinalize(d)
  <2>1. del[d] \in DelRequest
    BY <1>0, <1>5 DEF DeleteFinalize
  <2>2. CASE HoldsLease(del[d])
    <3>1. row' = [row EXCEPT ![del[d].a] =
               [row[del[d].a] EXCEPT !.state = "deleted", !.deriv = FALSE, !.deletedAt = "final"]]
      BY <1>0, <1>5, <2>1, <2>2 DEF DeleteFinalize
    <3> QED
      BY <1>5, <2>1, <2>2, <3>1 DEF DeleteFinalize, GaveBack
  <2>3. CASE ~HoldsLease(del[d])
    BY <1>5, <2>3 DEF DeleteFinalize, Ended
  <2> QED
    BY <1>5, <2>2, <2>3 DEF DeleteFinalize
<1>6. CASE DeleteAbandon(d)
  BY <1>6 DEF DeleteAbandon, Ended
<1> QED
  BY <1>1, <1>2, <1>3, <1>4, <1>5, <1>6 DEF DeleteStep

-----------------------------------------------------------------------------
(* Leases stay exclusive.                                                  *)

LEMMA LeaseParts ==
    ASSUME TypeOK, LeaseInv
    PROVE  /\ \A c \in Deleter : del[c] \in DelRequest \union {Idle}
           /\ \A c \in Deleter : del[c].pc = "claim" => del[c] # Idle /\ del[c] \in DelRequest
           /\ \A c \in Deleter : del[c].pc = "erase" => del[c] # Idle /\ del[c] \in DelRequest
BY DelRequestPc, IdleIsNoRequest DEF TypeOK

LEMMA BegunKeepsLeases ==
    ASSUME TypeOK, LeaseInv, NEW d \in Deleter, Begun(d), del[d] = Idle
    PROVE  LeaseInv'
<1> PICK a \in Asset, t \in Token :
      /\ Fresh(t)
      /\ Leased(a) => a \in aged
      /\ del' = [del EXCEPT ![d] = [pc |-> "claim", a |-> a, token |-> t,
                   seen |-> IF Leased(a) THEN row[a].deletedAt ELSE "null",
                   todo |-> {}, failed |-> FALSE]]
  BY DEF Begun
<1> DEFINE q == [pc |-> "claim", a |-> a, token |-> t,
                 seen |-> IF Leased(a) THEN row[a].deletedAt ELSE "null",
                 todo |-> {}, failed |-> FALSE]
<1>1. /\ q.pc = "claim" /\ q.a = a /\ q.token = t
      /\ q.seen \in {row[a].deletedAt, "null"}
      /\ q.seen \in Token => Leased(a)
  BY EvidenceConstants DEF Leased
<1>2. del'[d] = q /\ \A c \in Deleter : c # d => del'[c] = del[c]
  BY DEF TypeOK
<1> HIDE DEF q
<1>3. row' = row /\ aged' = aged
  BY DEF Begun
<1>4. /\ \A b \in Asset : row[b].deletedAt # t
      /\ \A c \in Deleter : del[c] # Idle => t # del[c].token /\ t # del[c].seen
  BY DEF Fresh
<1>5. q.seen # t /\ q.seen \in Token => a \in aged
  BY <1>1, <1>4, EvidenceConstants
<1>6. \A c \in Deleter : del[c].pc = "claim" => del[c].token # q.seen
  <2> SUFFICES ASSUME NEW c \in Deleter, del[c].pc = "claim" PROVE del[c].token # q.seen
    OBVIOUS
  <2>1. del[c].token \in Token
    BY LeaseParts DEF DelRequest
  <2> QED
    BY <1>1, <2>1, EvidenceConstants DEF LeaseInv, Unused
<1>7. \A c \in Deleter : del'[c].pc = "claim" =>
        /\ \A b \in Asset : row[b].deletedAt # del'[c].token
        /\ \A e \in Deleter : del'[e] # Idle => del'[e].seen # del'[c].token
  <2> SUFFICES ASSUME NEW c \in Deleter, del'[c].pc = "claim"
               PROVE  /\ \A b \in Asset : row[b].deletedAt # del'[c].token
                      /\ \A e \in Deleter : del'[e] # Idle => del'[e].seen # del'[c].token
    OBVIOUS
  <2>1. CASE c = d
    BY <1>1, <1>2, <1>4, <1>5, <2>1
  <2>2. CASE c # d
    BY <1>2, <1>6, <2>2 DEF LeaseInv, Unused
  <2> QED
    BY <2>1, <2>2
<1>8. \A c \in Deleter : del'[c].pc = "claim" =>
        (del'[c].seen \in Token /\ row[del'[c].a].deletedAt = del'[c].seen => del'[c].a \in aged)
  BY <1>1, <1>2, <1>5 DEF LeaseInv
<1>9. \A c, e \in Deleter :
        del'[c] # Idle /\ del'[e] # Idle /\ del'[c].token = del'[e].token => c = e
  BY <1>1, <1>2, <1>4 DEF LeaseInv
<1> QED
  BY <1>3, <1>7, <1>8, <1>9 DEF LeaseInv, Unused

LEMMA TookKeepsLeases ==
    ASSUME TypeOK, LeaseInv, NEW d \in Deleter, Took(d), del[d] \in DelRequest
    PROVE  LeaseInv'
<1> DEFINE q == [del[d] EXCEPT !.pc = "erase", !.todo =
                   {"original"} \union IF row[del[d].a].deriv THEN {"derivative"} ELSE {}]
           x == [row[del[d].a] EXCEPT !.state = "withheld", !.deletedAt = del[d].token]
<1>1. del[d].a \in Asset /\ del[d].token \in Token /\ del[d] # Idle
  BY IdleIsNoRequest DEF DelRequest
<1>2. /\ q.pc = "erase" /\ q.a = del[d].a /\ q.token = del[d].token /\ q.seen = del[d].seen
  BY DEF DelRequest
<1>3. x.deletedAt = del[d].token
  BY <1>1 DEF TypeOK, Row
<1>4. del'[d] = q /\ \A c \in Deleter : c # d => del'[c] = del[c]
  BY DEF Took, TypeOK
<1>5. row'[del[d].a] = x /\ \A b \in Asset : b # del[d].a => row'[b] = row[b]
  BY <1>1 DEF Took, TypeOK
<1>6. aged' = aged \ {del[d].a}
  BY DEF Took
<1> HIDE DEF q, x
<1>7. ASSUME NEW c \in Deleter, del'[c].pc = "claim"
      PROVE  c # d /\ del'[c] = del[c] /\ del[c] # Idle /\ del[c] \in DelRequest
  BY <1>2, <1>4, <1>7, LeaseParts
<1>8. ASSUME NEW c \in Deleter, del'[c].pc = "claim"
      PROVE  /\ \A b \in Asset : row'[b].deletedAt # del'[c].token
             /\ \A e \in Deleter : del'[e] # Idle => del'[e].seen # del'[c].token
  <2>1. c # d /\ del'[c] = del[c] /\ del[c] # Idle /\ del[c].pc = "claim"
    BY <1>7, <1>8
  <2>2. del[c].token # del[d].token
    BY <1>1, <2>1 DEF LeaseInv
  <2>3. \A b \in Asset : row[b].deletedAt # del[c].token
    BY <2>1 DEF LeaseInv, Unused
  <2>4. \A e \in Deleter : del[e] # Idle => del[e].seen # del[c].token
    BY <2>1 DEF LeaseInv, Unused
  <2> QED
    BY <1>1, <1>2, <1>3, <1>4, <1>5, <2>1, <2>2, <2>3, <2>4
<1>9. ASSUME NEW c \in Deleter, del'[c].pc = "claim", del'[c].seen \in Token,
             row'[del'[c].a].deletedAt = del'[c].seen
      PROVE  del'[c].a \in aged'
  <2>1. c # d /\ del'[c] = del[c] /\ del[c] # Idle /\ del[c].pc = "claim" /\ del[c].a \in Asset
    BY <1>7, <1>9 DEF DelRequest
  <2>2. del[c].seen # del[d].token
    BY <2>1 DEF LeaseInv, Unused, Took
  <2>3. del[c].a # del[d].a
    BY <1>3, <1>5, <1>9, <2>1, <2>2
  <2> QED
    BY <1>5, <1>6, <1>9, <2>1, <2>3 DEF LeaseInv
<1>10. ASSUME NEW c \in Deleter, NEW e \in Deleter,
              del'[c] # Idle, del'[e] # Idle, del'[c].token = del'[e].token
       PROVE  c = e
  BY <1>1, <1>2, <1>4, <1>10 DEF LeaseInv
<1> QED
  BY <1>8, <1>9, <1>10 DEF LeaseInv, Unused

\* A request that ends, or goes on without a new lease, disturbs nobody else's.
LEMMA QuietKeepsLeases ==
    ASSUME TypeOK, LeaseInv,
           \A c \in Deleter : \/ del'[c] = Idle
                              \/ /\ del[c] # Idle /\ del'[c].pc = del[c].pc
                                 /\ del'[c].token = del[c].token /\ del'[c].a = del[c].a
                                 /\ del'[c].seen = del[c].seen,
           \A a \in Asset : \/ row'[a].deletedAt = row[a].deletedAt /\ (a \in aged => a \in aged')
                            \/ row'[a].deletedAt \in {"null", "final"}
    PROVE  LeaseInv'
<1>1. ASSUME NEW c \in Deleter, del'[c].pc = "claim"
      PROVE  /\ del'[c].token \in Token /\ del'[c].a \in Asset /\ del[c].pc = "claim"
             /\ del'[c].token = del[c].token /\ del'[c].a = del[c].a
             /\ del'[c].seen = del[c].seen
  <2>1. del'[c] # Idle
    BY <1>1 DEF Idle
  <2> QED
    BY <1>1, <2>1, LeaseParts DEF DelRequest
<1>2. ASSUME NEW c \in Deleter, del'[c].pc = "claim"
      PROVE  /\ \A b \in Asset : row'[b].deletedAt # del'[c].token
             /\ \A e \in Deleter : del'[e] # Idle => del'[e].seen # del'[c].token
  BY <1>1, <1>2, EvidenceConstants DEF LeaseInv, Unused
<1>3. ASSUME NEW c \in Deleter, del'[c].pc = "claim", del'[c].seen \in Token,
             row'[del'[c].a].deletedAt = del'[c].seen
      PROVE  del'[c].a \in aged'
  BY <1>1, <1>3, EvidenceConstants DEF LeaseInv
<1>4. ASSUME NEW c \in Deleter, NEW e \in Deleter,
             del'[c] # Idle, del'[e] # Idle, del'[c].token = del'[e].token
      PROVE  c = e
  BY <1>4 DEF LeaseInv
<1> QED
  BY <1>2, <1>3, <1>4 DEF LeaseInv, Unused

LEMMA DeletionKeepsLeases ==
    ASSUME TypeOK, LeaseInv, NEW d \in Deleter, DeleteRead(d) \/ DeleteStep(d) \/ DeleteAbandon(d)
    PROVE  LeaseInv'
<1> USE DEF TypeOK
<1>1. CASE del[d] = Idle /\ Begun(d)
  BY <1>1, BegunKeepsLeases
<1>2. CASE del[d] \in DelRequest /\ Took(d)
  BY <1>2, TookKeepsLeases
<1>3. CASE del[d] \in DelRequest /\ Removed(d)
  <2> PICK q : /\ del' = [del EXCEPT ![d] = q] /\ q.pc = del[d].pc /\ q.token = del[d].token
               /\ q.a = del[d].a /\ q.seen = del[d].seen
    <3> PICK k \in del[d].todo :
          \/ del' = [del EXCEPT ![d] = [del[d] EXCEPT !.todo = @ \ {k}]]
          \/ del' = [del EXCEPT ![d] = [del[d] EXCEPT !.todo = @ \ {k}, !.failed = TRUE]]
      BY <1>3 DEF Removed
    <3> QED
      BY <1>3 DEF DelRequest
  <2>1. del[d] # Idle
    BY <1>3, IdleIsNoRequest
  <2>2. \A c \in Deleter : \/ del'[c] = Idle
                           \/ /\ del[c] # Idle /\ del'[c].pc = del[c].pc
                              /\ del'[c].token = del[c].token /\ del'[c].a = del[c].a
                              /\ del'[c].seen = del[c].seen
    BY <2>1
  <2> QED
    BY <1>3, <2>2, QuietKeepsLeases DEF Removed
<1>4. CASE del[d] \in DelRequest /\ GaveBack(d)
  <2>1. del[d].a \in Asset
    BY <1>4 DEF DelRequest
  <2>2. row'[del[d].a].deletedAt \in {"null", "final"}
    <3>1. row[del[d].a] \in Row
      BY <2>1
    <3>2. /\ [row[del[d].a] EXCEPT !.deletedAt = "null"].deletedAt = "null"
          /\ [row[del[d].a] EXCEPT !.state = "deleted", !.deriv = FALSE,
                                   !.deletedAt = "final"].deletedAt = "final"
      BY <3>1 DEF Row
    <3>3. row'[del[d].a] \in {[row[del[d].a] EXCEPT !.deletedAt = "null"],
                              [row[del[d].a] EXCEPT !.state = "deleted", !.deriv = FALSE,
                                                    !.deletedAt = "final"]}
      BY <1>4, <2>1 DEF GaveBack
    <3> QED
      BY <3>2, <3>3
  <2>3. \A a \in Asset : a # del[d].a =>
          row'[a].deletedAt = row[a].deletedAt /\ (a \in aged => a \in aged')
    BY <1>4 DEF GaveBack
  <2>4. \A c \in Deleter : \/ del'[c] = Idle
                           \/ del[c] # Idle /\ del'[c] = del[c]
    BY <1>4 DEF GaveBack
  <2> QED
    BY <2>2, <2>3, <2>4, QuietKeepsLeases
<1>5. CASE Ended(d)
  <2>1. \A c \in Deleter : \/ del'[c] = Idle
                           \/ del[c] # Idle /\ del'[c] = del[c]
    BY <1>5 DEF Ended
  <2> QED
    BY <1>5, <2>1, QuietKeepsLeases DEF Ended
<1> QED
  BY <1>1, <1>2, <1>3, <1>4, <1>5, DeletionMoves

LEMMA NextLeaseInv == IInv /\ LeaseInv /\ [Next]_vars => LeaseInv'
<1> SUFFICES ASSUME IInv, LeaseInv, [Next]_vars PROVE LeaseInv'
  OBVIOUS
<1>0. TypeOK
  BY DEF IInv
<1>1. CASE ByOthers
  <2>1. /\ del' = del /\ aged' = aged
        /\ \A a \in Asset : row'[a].deletedAt = row[a].deletedAt
    BY <1>1, OthersKeepLeases DEF LeasesUntouched
  <2> QED
    BY <1>0, <2>1, QuietKeepsLeases
<1>2. ASSUME NEW a \in Asset, LeaseAges(a)
      PROVE  LeaseInv'
  BY <1>0, <1>2, QuietKeepsLeases DEF LeaseAges
<1>3. ASSUME NEW d \in Deleter, DeleteRead(d) \/ DeleteStep(d) \/ DeleteAbandon(d)
      PROVE  LeaseInv'
  BY <1>0, <1>3, DeletionKeepsLeases
<1> QED
  BY <1>1, <1>2, <1>3, StepsOfEvidence

LEMMA InitLeaseInv == Init => LeaseInv
BY DEF Init, LeaseInv, Idle

\* Who changes a leased row.
HolderEnds(d, a) == del[d] # Idle /\ del'[d] = Idle /\ del[d].token = row[a].deletedAt
TakesOver(d, a) ==
    /\ a \in aged
    /\ del[d] # Idle /\ del[d].pc = "claim" /\ del[d].seen = row[a].deletedAt
    /\ row'[a] = [row[a] EXCEPT !.deletedAt = del[d].token]

LEMMA StepsRespectLeases ==
    ASSUME IInv, LeaseInv, [Next]_vars, NEW a \in Asset, Leased(a), row'[a] # row[a]
    PROVE  \E d \in Deleter : HolderEnds(d, a) \/ TakesOver(d, a)
<1>0. TypeOK
  BY DEF IInv
<1>1. CASE ByOthers
  BY <1>1, OthersKeepLeases DEF LeasesUntouched
<1>2. ASSUME NEW b \in Asset, LeaseAges(b)
      PROVE  FALSE
  BY <1>2 DEF LeaseAges
<1>3. ASSUME NEW d \in Deleter, DeleteRead(d) \/ DeleteStep(d) \/ DeleteAbandon(d)
      PROVE  HolderEnds(d, a) \/ TakesOver(d, a)
  <2>1. del[d] \in DelRequest /\ (Took(d) \/ GaveBack(d))
    BY <1>0, <1>3, DeletionMoves DEF Begun, Removed, Ended
  <2>2. a = del[d].a /\ del[d] # Idle
    BY <1>0, <2>1, IdleIsNoRequest DEF Took, GaveBack, TypeOK, DelRequest
  <2>3. CASE Took(d)
    <3>1. del[d].pc = "claim" /\ row[a].deletedAt = del[d].seen /\ del[d].seen \in Token
      BY <2>2, <2>3 DEF Took, Claims, Leased
    <3>2. a \in aged
      BY <2>2, <3>1 DEF LeaseInv
    <3>3. row[a].state = "withheld" /\ row[a] \in Row
      BY <1>0 DEF IInv, RowInv, Leased, TypeOK
    <3>4. row'[a] = [row[a] EXCEPT !.state = "withheld", !.deletedAt = del[d].token]
      BY <1>0, <2>2, <2>3 DEF Took, TypeOK
    <3>5. [row[a] EXCEPT !.state = "withheld", !.deletedAt = del[d].token]
            = [row[a] EXCEPT !.deletedAt = del[d].token]
      BY <3>3 DEF Row
    <3> QED
      BY <2>2, <3>1, <3>2, <3>4, <3>5 DEF TakesOver
  <2>4. CASE GaveBack(d)
    BY <1>0, <2>2, <2>4 DEF GaveBack, HoldsLease, TypeOK, HolderEnds
  <2> QED
    BY <2>1, <2>3, <2>4
<1> QED
  BY <1>1, <1>2, <1>3, StepsOfEvidence

\* While a lease is out, nobody changes the row but its holder, when it ends,
\* and a later deletion that saw this lease time out and takes its place, and
\* changes nothing else (the conditional UPDATEs of deleteEvidenceAsset and the
\* lease trigger of migration 0011).
THEOREM LeasesAreExclusive == Spec => LeaseIsExclusive
<1>1. Spec => []LeaseInv
  BY InitLeaseInv, NextLeaseInv, Invariance, PTL DEF Spec
<1>2. IInv /\ LeaseInv /\ [Next]_vars =>
        [\A a \in Asset : Leased(a) /\ row'[a] # row[a] =>
           \E d \in Deleter :
               \/ del[d] # Idle /\ del'[d] = Idle /\ del[d].token = row[a].deletedAt
               \/ /\ a \in aged
                  /\ del[d] # Idle /\ del[d].pc = "claim" /\ del[d].seen = row[a].deletedAt
                  /\ row'[a] = [row[a] EXCEPT !.deletedAt = del[d].token]]_vars
  BY StepsRespectLeases DEF HolderEnds, TakesOver
<1> QED
  BY <1>1, <1>2, Invariance, PTL DEF Spec, LeaseIsExclusive

-----------------------------------------------------------------------------
(***************************************************************************)
(* Deletions that do not outlive their lease hold it while they erase.     *)
(***************************************************************************)
HolderInv ==
    \A d \in Deleter : del[d].pc = "erase" =>
        row[del[d].a].deletedAt = del[d].token /\ del[d].a \notin aged

LEMMA NextHolderInv ==
    ASSUME IInv, LeaseInv, HolderInv, ~StalledDeleters, [Next]_vars
    PROVE  HolderInv'
<1>0. TypeOK
  BY DEF IInv
<1> SUFFICES ASSUME NEW c \in Deleter, del'[c].pc = "erase"
             PROVE  row'[del'[c].a].deletedAt = del'[c].token /\ del'[c].a \notin aged'
  BY DEF HolderInv
<1>a. del[c].pc = "erase" => /\ del[c] # Idle /\ del[c].a \in Asset /\ del[c].token \in Token
                             /\ row[del[c].a].deletedAt = del[c].token /\ del[c].a \notin aged
  BY <1>0, LeaseParts DEF HolderInv, DelRequest
<1>1. CASE ByOthers
  BY <1>a, <1>1, OthersKeepLeases DEF LeasesUntouched
<1>2. ASSUME NEW b \in Asset, LeaseAges(b)
      PROVE  row'[del'[c].a].deletedAt = del'[c].token /\ del'[c].a \notin aged'
  BY <1>a, <1>2 DEF LeaseAges
<1>3. ASSUME NEW d \in Deleter, DeleteRead(d) \/ DeleteStep(d) \/ DeleteAbandon(d)
      PROVE  row'[del'[c].a].deletedAt = del'[c].token /\ del'[c].a \notin aged'
  <2>1. CASE Begun(d) \/ Ended(d)
    <3>1. row' = row /\ aged' = aged /\ del'[c] = del[c]
      <4>1. c = d => del'[c].pc # "erase"
        <5>1. CASE Begun(d)
          <6> PICK a \in Asset, t \in Token :
                del' = [del EXCEPT ![d] = [pc |-> "claim", a |-> a, token |-> t,
                          seen |-> IF Leased(a) THEN row[a].deletedAt ELSE "null",
                          todo |-> {}, failed |-> FALSE]]
            BY <5>1 DEF Begun
          <6> QED
            BY <1>0 DEF TypeOK
        <5>2. CASE Ended(d)
          BY <1>0, <5>2 DEF Ended, Idle, TypeOK
        <5> QED
          BY <2>1, <5>1, <5>2
      <4> QED
        BY <1>0, <2>1, <4>1 DEF Begun, Ended, TypeOK
    <3> QED
      BY <1>a, <3>1
  <2>2. CASE del[d] \in DelRequest /\ Removed(d)
    <3>1. row' = row /\ aged' = aged
      BY <2>2 DEF Removed
    <3>2. del'[c].a = del[c].a /\ del'[c].token = del[c].token /\ del[c].pc = "erase"
      <4> PICK k \in del[d].todo :
            \/ del' = [del EXCEPT ![d] = [del[d] EXCEPT !.todo = @ \ {k}]]
            \/ del' = [del EXCEPT ![d] = [del[d] EXCEPT !.todo = @ \ {k}, !.failed = TRUE]]
        BY <2>2 DEF Removed
      <4>1. CASE c = d
        <5>1. del'[c] \in {[del[d] EXCEPT !.todo = @ \ {k}],
                           [del[d] EXCEPT !.todo = @ \ {k}, !.failed = TRUE]}
          BY <1>0, <4>1 DEF TypeOK
        <5> QED
          BY <2>2, <4>1, <5>1 DEF Removed, DelRequest
      <4>2. CASE c # d
        BY <1>0, <4>2 DEF TypeOK
      <4> QED
        BY <4>1, <4>2
    <3> QED
      BY <1>a, <3>1, <3>2
  <2>3. CASE del[d] \in DelRequest /\ Took(d)
    <3>0. del[d].a \in Asset /\ del[d].token \in Token
      BY <2>3 DEF DelRequest
    <3>1. /\ row'[del[d].a].deletedAt = del[d].token
          /\ \A b \in Asset : b # del[d].a => row'[b] = row[b]
          /\ aged' = aged \ {del[d].a}
      BY <1>0, <2>3, <3>0 DEF Took, TypeOK, Row
    <3>2. CASE c = d
      <4>1. del'[c].a = del[d].a /\ del'[c].token = del[d].token
        BY <1>0, <2>3, <3>2 DEF Took, TypeOK, DelRequest
      <4> QED
        BY <3>1, <4>1
    <3>3. CASE c # d
      <4>1. del'[c] = del[c] /\ del[c].pc = "erase"
        BY <1>0, <2>3, <3>3 DEF Took, TypeOK
      <4>2. del[c].a # del[d].a
        <5> SUFFICES ASSUME del[c].a = del[d].a PROVE FALSE
          OBVIOUS
        <5>1. row[del[d].a].deletedAt = del[d].seen /\ del[d].seen \in Token
          BY <1>a, <2>3, <4>1 DEF Took, Claims
        <5>2. del[d].a \in aged
          BY <2>3, <5>1 DEF Took, LeaseInv
        <5> QED
          BY <1>a, <4>1, <5>2
      <4> QED
        BY <1>a, <3>1, <4>1, <4>2
    <3> QED
      BY <3>2, <3>3
  <2>4. CASE del[d] \in DelRequest /\ GaveBack(d)
    <3>0. del[d].a \in Asset /\ del[d].token \in Token /\ del[d] # Idle
      BY <2>4, IdleIsNoRequest DEF DelRequest
    <3>1. c # d /\ del'[c] = del[c] /\ del[c].pc = "erase"
      BY <1>0, <2>4 DEF GaveBack, TypeOK, Idle
    <3>2. del[c].a # del[d].a
      BY <1>a, <2>4, <3>0, <3>1 DEF GaveBack, HoldsLease, LeaseInv
    <3>3. row'[del[c].a] = row[del[c].a] /\ del[c].a \notin aged'
      BY <1>a, <1>0, <2>4, <3>0, <3>1, <3>2 DEF GaveBack, TypeOK
    <3> QED
      BY <1>a, <3>1, <3>3
  <2> QED
    BY <1>0, <1>3, <2>1, <2>2, <2>3, <2>4, DeletionMoves
<1> QED
  BY <1>1, <1>2, <1>3, StepsOfEvidence

\* Only an upload that gives up and a deletion take objects away.
LEMMA OthersKeepObjects ==
    ASSUME TypeOK, ByOthers, NEW a \in Asset, up[a].pc = "done"
    PROVE  stored'[a] = stored[a] /\ up'[a] = up[a]
<1> USE DEF TypeOK
<1>1. ASSUME NEW b \in Asset, UploadInsert(b) \/ UploadStep(b) \/ UploadFault(b)
      PROVE  b # a /\ \A c \in Asset : c # b => stored'[c] = stored[c] /\ up'[c] = up[c]
  <2>0. \A k \in ObjectKind : PutPc[k] # "done"
    BY DEF PutPc, ObjectKind
  <2>1. up[b].pc # "done"
    BY <1>1, <2>0 DEF UploadInsert, UploadStep, UploadFault, UploadSanitize, UploadCommit,
         UploadVerify, UploadRecord, UploadPut, UploadCleanup, UploadCommitFails, UploadCrash,
         UploadPutFails
  <2>2. \A c \in Asset : c # b => up'[c] = up[c]
    BY <1>1 DEF UploadInsert, UploadStep, UploadFault, UploadSanitize, UploadCommit,
         UploadVerify, UploadRecord, UploadPut, UploadCleanup, UploadCommitFails, UploadCrash,
         UploadPutFails, UploadGoto
  <2>3. \A c \in Asset : c # b => stored'[c] = stored[c]
    BY <1>1 DEF UploadInsert, UploadStep, UploadFault, UploadSanitize, UploadCommit,
         UploadVerify, UploadRecord, UploadPut, UploadCleanup, UploadCommitFails, UploadCrash,
         UploadPutFails
  <2> QED
    BY <2>1, <2>2, <2>3
<1>2. CASE stored' = stored /\ up' = up
  BY <1>2
<1> QED
  BY <1>1, <1>2
  DEF ByOthers, vars, ModerateRead, ModerateStep, ModerateLinks, ModerateSource, ModerateVerify,
      ModerateCapacity, ModerateCommit, SyncStart, SyncStep, SyncCheck, SyncCommit

LEMMA HeldStays ==
    ASSUME IInv, LeaseInv, HolderInv, [Next]_vars,
           NEW a \in Asset, row[a].hold, up[a].pc = "done"
    PROVE  stored[a] \subseteq stored'[a]
<1>0. TypeOK
  BY DEF IInv
<1>1. CASE ByOthers
  BY <1>0, <1>1, OthersKeepObjects
<1>2. ASSUME NEW b \in Asset, LeaseAges(b)
      PROVE  stored' = stored
  BY <1>2 DEF LeaseAges
<1>3. ASSUME NEW d \in Deleter, DeleteRead(d) \/ DeleteStep(d) \/ DeleteAbandon(d)
      PROVE  stored'[a] = stored[a]
  <2>1. CASE del[d] \in DelRequest /\ Removed(d)
    <3>1. del[d].a \in Asset /\ row[del[d].a].deletedAt \in Token
      BY <2>1 DEF Removed, HolderInv, DelRequest
    <3>2. del[d].a # a
      BY <3>1 DEF IInv, RowInv
    <3> QED
      BY <1>0, <2>1, <3>1, <3>2 DEF Removed, TypeOK
  <2>2. CASE stored' = stored
    BY <2>2
  <2> QED
    BY <1>0, <1>3, <2>1, <2>2, DeletionMoves DEF Begun, Took, GaveBack, Ended
<1> QED
  BY <1>1, <1>2, <1>3, StepsOfEvidence

\* When every deletion ends within the ten minutes of its lease, none takes an
\* object of an image under hold: the hold is refused while the lease is out
\* (deleteEvidenceAsset and the lease trigger of migration 0011).
THEOREM HeldImagesAreNotErased ==
    ASSUME ~StalledDeleters
    PROVE  Spec => HoldStopsErasure
<1>1. Init => HolderInv
  BY DEF Init, HolderInv, Idle
<1>2. IInv /\ LeaseInv /\ HolderInv /\ [Next]_vars => HolderInv'
  BY NextHolderInv
<1>3. IInv /\ LeaseInv /\ HolderInv /\ [Next]_vars =>
        [\A a \in Asset : row[a].hold /\ up[a].pc = "done" => stored[a] \subseteq stored'[a]]_vars
  BY HeldStays
<1> QED
  BY <1>1, <1>2, <1>3, InitLeaseInv, NextLeaseInv, Invariance, PTL DEF Spec, HoldStopsErasure

-----------------------------------------------------------------------------
(***************************************************************************)
(* Tombstones.  A holder that has been through its list without a failure  *)
(* has no original left to leave behind.                                   *)
(***************************************************************************)
Done(q) == "original" \notin q.todo /\ ~q.failed

TombInv ==
    /\ \A d \in Deleter :
        /\ del[d].pc = "erase" /\ row[del[d].a].deletedAt = del[d].token /\ Done(del[d])
        /\ up[del[d].a].pc = "done"
        => "original" \notin stored[del[d].a]
    /\ TombstoneHasNoOriginal

\* An upload that succeeds has just seen its row ready, so it is not leased.
LEMMA ReadyIsNew ==
    ASSUME IInv, ByOthers, NEW a \in Asset, up'[a].pc = "done", up[a].pc # "done"
    PROVE  row[a].state = "private_ready" /\ row' = row
<1> USE DEF TypeOK, IInv
<1>1. CASE up' = up
  BY <1>1
<1>2. ASSUME NEW b \in Asset, UploadVerify(b)
      PROVE  row[a].state = "private_ready" /\ row' = row
  BY <1>2 DEF UploadVerify, UploadGoto, UploadRequest
<1>3. ASSUME NEW b \in Asset, NEW pc, pc # "done", UploadGoto(b, pc)
      PROVE  FALSE
  BY <1>3 DEF UploadGoto, UploadRequest
<1>4. ASSUME NEW b \in Asset, NEW k \in ObjectKind, UploadPut(b, k) \/ UploadCleanup(b, k)
      PROVE  FALSE
  <2>1. CASE UploadPut(b, k)
    <3>1. AfterPut[k] # "done"
      BY DEF AfterPut, ObjectKind
    <3> QED
      BY <2>1, <3>1 DEF UploadPut, UploadRequest
  <2>2. CASE UploadCleanup(b, k)
    BY <2>2 DEF UploadCleanup, UploadRequest
  <2> QED
    BY <1>4, <2>1, <2>2
<1>5. ASSUME NEW b \in Asset, UploadSanitize(b)
      PROVE  FALSE
  BY <1>3, <1>5 DEF UploadSanitize
<1>6. ASSUME NEW b \in Asset, \/ UploadInsert(b) \/ UploadCommit(b) \/ UploadCommitFails(b)
                              \/ UploadRecord(b) \/ UploadCrash(b)
                              \/ \E k \in ObjectKind : UploadPutFails(b, k)
      PROVE  FALSE
  BY <1>3, <1>6 DEF UploadInsert, UploadCommit, UploadCommitFails, UploadRecord, UploadCrash,
                    UploadPutFails
<1> QED
  BY <1>1, <1>2, <1>4, <1>5, <1>6
  DEF ByOthers, vars, UploadStep, UploadFault, ModerateRead, ModerateStep, ModerateLinks,
      ModerateSource, ModerateVerify, ModerateCapacity, ModerateCommit, SyncStart, SyncStep,
      SyncCheck, SyncCommit

LEMMA OthersKeepTombs ==
    ASSUME IInv, TombInv, ByOthers
    PROVE  TombInv'
<1>0. TypeOK
  BY DEF IInv
<1>1. /\ del' = del
      /\ \A a \in Asset : /\ row'[a].deletedAt = row[a].deletedAt
                          /\ Leased(a) => row'[a] = row[a]
                          /\ row[a].state # "deleted" => row'[a].state # "deleted"
  BY OthersKeepLeases DEF LeasesUntouched
<1>2. ASSUME NEW a \in Asset, up'[a].pc = "done", Leased(a) \/ row'[a].state = "deleted"
      PROVE  up[a].pc = "done" /\ stored'[a] = stored[a]
  <2>1. row[a].state # "private_ready" \/ row' # row
    BY <1>2 DEF IInv, RowInv, Leased
  <2>2. up[a].pc = "done"
    BY <1>2, <2>1, ReadyIsNew
  <2> QED
    BY <1>0, <2>2, OthersKeepObjects
<1>3. ASSUME NEW d \in Deleter, del'[d].pc = "erase", row'[del'[d].a].deletedAt = del'[d].token,
             Done(del'[d]), up'[del'[d].a].pc = "done"
      PROVE  "original" \notin stored'[del'[d].a]
  <2>1. del[d].a \in Asset /\ del[d].token \in Token
    BY <1>0, <1>1, <1>3, DelRequestPc DEF DelRequest
  <2> QED
    BY <1>1, <1>2, <1>3, <2>1 DEF TombInv, Leased
<1>4. ASSUME NEW a \in Asset, row'[a].state = "deleted", up'[a].pc = "done"
      PROVE  "original" \notin stored'[a]
  BY <1>1, <1>2, <1>4 DEF TombInv, TombstoneHasNoOriginal
<1> QED
  BY <1>3, <1>4 DEF TombInv, TombstoneHasNoOriginal, Done

LEMMA DeletionKeepsTombs ==
    ASSUME TypeOK, LeaseInv, TombInv, NEW d \in Deleter,
           DeleteRead(d) \/ DeleteStep(d) \/ DeleteAbandon(d)
    PROVE  TombInv'
<1> USE DEF TypeOK
<1>0. up' = up
  BY DeletionMoves
<1>1. CASE Begun(d) \/ Ended(d)
  <2>1. del'[d].pc # "erase"
    <3>1. CASE Begun(d)
      <4> PICK a \in Asset, t \in Token :
            del' = [del EXCEPT ![d] = [pc |-> "claim", a |-> a, token |-> t,
                      seen |-> IF Leased(a) THEN row[a].deletedAt ELSE "null",
                      todo |-> {}, failed |-> FALSE]]
        BY <3>1 DEF Begun
      <4> QED
        OBVIOUS
    <3>2. CASE Ended(d)
      BY <3>2 DEF Ended, Idle
    <3> QED
      BY <1>1, <3>1, <3>2
  <2>2. row' = row /\ stored' = stored /\ \A c \in Deleter : c # d => del'[c] = del[c]
    BY <1>1 DEF Begun, Ended
  <2> QED
    BY <1>0, <2>1, <2>2 DEF TombInv, TombstoneHasNoOriginal, Done
<1>2. CASE del[d] \in DelRequest /\ Took(d)
  <2>0. del[d].a \in Asset /\ del[d].token \in Token /\ del[d] # Idle
    BY <1>2, IdleIsNoRequest DEF DelRequest
  <2>1. /\ row'[del[d].a].deletedAt = del[d].token /\ row'[del[d].a].state = "withheld"
        /\ \A b \in Asset : b # del[d].a => row'[b] = row[b]
    BY <1>2, <2>0 DEF Took, Row
  <2>2. "original" \in del'[d].todo
    BY <1>2 DEF Took, DelRequest
  <2>3. stored' = stored /\ \A c \in Deleter : c # d => del'[c] = del[c]
    BY <1>2 DEF Took
  <2>4. ASSUME NEW c \in Deleter, del'[c].pc = "erase",
               row'[del'[c].a].deletedAt = del'[c].token, Done(del'[c]),
               up[del'[c].a].pc = "done"
        PROVE  "original" \notin stored[del'[c].a]
    <3>1. c # d /\ del'[c] = del[c]
      BY <2>2, <2>3, <2>4 DEF Done
    <3>2. del[c] # Idle /\ del[c].a \in Asset
      BY <2>4, <3>1, LeaseParts DEF DelRequest
    <3>3. del[c].a # del[d].a
      BY <2>0, <2>1, <2>4, <3>1, <3>2 DEF LeaseInv
    <3> QED
      BY <2>1, <2>4, <3>1, <3>2, <3>3 DEF TombInv
  <2>5. ASSUME NEW a \in Asset, row'[a].state = "deleted", up[a].pc = "done"
        PROVE  "original" \notin stored[a]
    BY <2>1, <2>5 DEF TombInv, TombstoneHasNoOriginal
  <2> QED
    BY <1>0, <2>3, <2>4, <2>5 DEF TombInv, TombstoneHasNoOriginal, Done
<1>3. CASE del[d] \in DelRequest /\ Removed(d)
  <2>0. del[d].a \in Asset /\ del[d].token \in Token /\ del[d] # Idle /\ del[d].pc = "erase"
    BY <1>3, IdleIsNoRequest DEF DelRequest, Removed
  <2>1. row' = row /\ \A b \in Asset : stored'[b] \subseteq stored[b]
    BY <1>3, <2>0 DEF Removed
  <2>2. \A c \in Deleter : c # d => del'[c] = del[c]
    BY <1>3 DEF Removed
  <2>3. ASSUME row[del[d].a].deletedAt = del[d].token, Done(del'[d]), up[del[d].a].pc = "done"
        PROVE  "original" \notin stored'[del[d].a]
    <3> PICK k \in del[d].todo :
          \/ /\ stored' = [stored EXCEPT ![del[d].a] = @ \ {k}]
             /\ del' = [del EXCEPT ![d] = [del[d] EXCEPT !.todo = @ \ {k}]]
          \/ del' = [del EXCEPT ![d] = [del[d] EXCEPT !.todo = @ \ {k}, !.failed = TRUE]]
      BY <1>3 DEF Removed
    <3> DEFINE q == [del[d] EXCEPT !.todo = @ \ {k}, !.failed = TRUE]
    <3>1. q.failed = TRUE
      BY <1>3 DEF DelRequest
    <3> HIDE DEF q
    <3>2. del'[d] # q
      BY <2>3, <3>1 DEF Done
    <3>3. /\ stored' = [stored EXCEPT ![del[d].a] = @ \ {k}]
          /\ del'[d] = [del[d] EXCEPT !.todo = @ \ {k}]
      BY <3>2 DEF q
    <3>4. del'[d].todo = del[d].todo \ {k} /\ del'[d].failed = del[d].failed
      BY <1>3, <3>3 DEF DelRequest
    <3>5. CASE k = "original"
      BY <2>0, <3>3, <3>5
    <3>6. CASE k # "original"
      <4>1. Done(del[d])
        BY <2>3, <3>4, <3>6 DEF Done
      <4> QED
        BY <2>0, <2>1, <2>3, <4>1 DEF TombInv
    <3> QED
      BY <3>5, <3>6
  <2>4. del'[d].a = del[d].a /\ del'[d].token = del[d].token
    <3> PICK k \in del[d].todo :
          \/ del' = [del EXCEPT ![d] = [del[d] EXCEPT !.todo = @ \ {k}]]
          \/ del' = [del EXCEPT ![d] = [del[d] EXCEPT !.todo = @ \ {k}, !.failed = TRUE]]
      BY <1>3 DEF Removed
    <3>1. del'[d] \in {[del[d] EXCEPT !.todo = @ \ {k}],
                       [del[d] EXCEPT !.todo = @ \ {k}, !.failed = TRUE]}
      OBVIOUS
    <3> QED
      BY <1>3, <3>1 DEF DelRequest
  <2>5. ASSUME NEW c \in Deleter, del'[c].pc = "erase",
               row[del'[c].a].deletedAt = del'[c].token, Done(del'[c]),
               up[del'[c].a].pc = "done"
        PROVE  "original" \notin stored'[del'[c].a]
    <3>1. CASE c = d
      BY <2>3, <2>4, <2>5, <3>1
    <3>2. CASE c # d
      <4>1. del'[c] = del[c] /\ del[c].a \in Asset
        BY <2>2, <2>5, <3>2, LeaseParts DEF DelRequest
      <4> QED
        BY <2>1, <2>5, <4>1 DEF TombInv
    <3> QED
      BY <3>1, <3>2
  <2> QED
    BY <1>0, <2>1, <2>5 DEF TombInv, TombstoneHasNoOriginal, Done
<1>4. CASE del[d] \in DelRequest /\ GaveBack(d)
  <2>0. del[d].a \in Asset /\ del[d].token \in Token /\ row[del[d].a] \in Row
    BY <1>4 DEF DelRequest
  <2> DEFINE back == [row[del[d].a] EXCEPT !.deletedAt = "null"]
             over == [row[del[d].a] EXCEPT !.state = "deleted", !.deriv = FALSE,
                                           !.deletedAt = "final"]
  <2>1. /\ back.deletedAt = "null" /\ back.state = row[del[d].a].state
        /\ over.deletedAt = "final"
    BY <2>0 DEF Row
  <2>2. /\ row'[del[d].a] = back \/ (row'[del[d].a] = over /\ Erased(del[d]))
        /\ \A b \in Asset : b # del[d].a => row'[b] = row[b]
    BY <1>4, <2>0 DEF GaveBack
  <2> HIDE DEF back, over
  <2>3. stored' = stored /\ del'[d].pc # "erase" /\ \A c \in Deleter : c # d => del'[c] = del[c]
    BY <1>4 DEF GaveBack, Idle
  <2>4. ASSUME NEW c \in Deleter, del'[c].pc = "erase",
               row'[del'[c].a].deletedAt = del'[c].token, Done(del'[c]),
               up[del'[c].a].pc = "done"
        PROVE  "original" \notin stored[del'[c].a]
    <3>1. c # d /\ del'[c] = del[c] /\ del[c].a \in Asset /\ del[c].token \in Token
      BY <2>3, <2>4, LeaseParts DEF DelRequest
    <3>2. del[c].a # del[d].a
      BY <2>1, <2>2, <2>4, <3>1, EvidenceConstants
    <3> QED
      BY <2>2, <2>4, <3>1, <3>2 DEF TombInv
  <2>5. ASSUME NEW a \in Asset, row'[a].state = "deleted", up[a].pc = "done"
        PROVE  "original" \notin stored[a]
    <3>1. CASE a # del[d].a \/ row'[a] = back
      BY <2>1, <2>2, <2>5, <3>1 DEF TombInv, TombstoneHasNoOriginal
    <3>2. CASE a = del[d].a /\ Erased(del[d])
      <4>1. del[d].pc = "erase" /\ row[a].deletedAt = del[d].token /\ Done(del[d])
        BY <1>4, <3>2 DEF GaveBack, HoldsLease, Erased, Done
      <4> QED
        BY <2>5, <3>2, <4>1 DEF TombInv
    <3> QED
      BY <2>2, <3>1, <3>2
  <2> QED
    BY <1>0, <2>3, <2>4, <2>5 DEF TombInv, TombstoneHasNoOriginal, Done
<1> QED
  BY <1>1, <1>2, <1>3, <1>4, DeletionMoves

LEMMA NextTombInv == IInv /\ LeaseInv /\ TombInv /\ [Next]_vars => TombInv'
<1> SUFFICES ASSUME IInv, LeaseInv, TombInv, [Next]_vars PROVE TombInv'
  OBVIOUS
<1>1. ASSUME NEW a \in Asset, LeaseAges(a)
      PROVE  TombInv'
  BY <1>1 DEF LeaseAges, TombInv, TombstoneHasNoOriginal, Done
<1>2. TypeOK
  BY DEF IInv
<1> QED
  BY <1>1, <1>2, OthersKeepTombs, DeletionKeepsTombs, StepsOfEvidence

\* A finished deletion of an image whose upload completed leaves no live original,
\* however the deletions that claimed it failed and overtook one another
\* (deleteEvidenceAsset writes the tombstone only under its own lease).
THEOREM TombstonesAreEmpty == Spec => []TombstoneHasNoOriginal
<1>1. Init => TombInv
  BY DEF Init, TombInv, TombstoneHasNoOriginal, Idle, NoRow, ReadyRow
<1>2. TombInv => TombstoneHasNoOriginal
  BY DEF TombInv
<1> QED
  BY <1>1, <1>2, InitLeaseInv, NextLeaseInv, NextTombInv, Invariance, PTL DEF Spec

-----------------------------------------------------------------------------
(***************************************************************************)
(* The inventory, when every image had been uploaded before and R2 answers.*)
(***************************************************************************)
KeptWhole(a) ==
    /\ up[a].pc = "done" /\ row[a].state \in Stable \union {"deleted"}
    /\ "backup" \in stored[a]
    /\ row[a].deletedAt # "final" => row[a].deriv /\ row[a].state # "deleted"
    /\ row[a].deletedAt = "null" => stored[a] = ObjectKind
    /\ row[a].deletedAt = "final" => stored[a] = {"backup"}

CleanInv ==
    /\ \A a \in Asset : KeptWhole(a)
    /\ \A d \in Deleter : del[d] # Idle => ~del[d].failed
    /\ \A d \in Deleter : del[d].pc = "erase" =>
        /\ row[del[d].a].deletedAt # "null" /\ "backup" \notin del[d].todo
        /\ stored[del[d].a] \subseteq {"backup"} \union del[d].todo
    /\ \A m \in Moderator : mod[m] # Idle => mod[m].cur.state \in Stable

\* What an edit may make of a row whose upload is over.
LEMMA EditedRow ==
    ASSUME IInv, CleanInv, NEW m \in Moderator, ModerateRead(m) \/ ModerateStep(m),
           NEW a \in Asset
    PROVE  \/ row'[a] = row[a]
           \/ /\ row'[a].deletedAt = row[a].deletedAt /\ row'[a].deriv = row[a].deriv
              /\ row'[a].state \in Stable
<1> USE DEF IInv, TypeOK
<1>1. CASE ModerateCommit(m)
  <2> DEFINE q == mod[m]
             new == ModeratedRow(row[q.a], q.cur, q.in)
  <2>1. q \in ModRequest /\ q # Idle
    BY <1>1, ModRequestPc, IdleIsNoRequest DEF ModerateCommit, ModPc
  <2>2. q.in \in Input /\ q.a \in Asset
    BY <2>1, EvidenceConstants DEF ModRequest
  <2>3. NextState(q.cur, q.in) \in Stable
    <3>1. q.cur.state \in Stable
      BY <2>1 DEF CleanInv
    <3> QED
      BY <2>2, <3>1 DEF NextState, Input, Stable
  <2>4. new.deletedAt = row[q.a].deletedAt /\ new.deriv = row[q.a].deriv /\ new.state \in Stable
    BY <2>2, <2>3 DEF ModeratedRow, Row
  <2>5. row' = row \/ row' = [row EXCEPT ![q.a] = new]
    BY <1>1 DEF ModerateCommit
  <2> HIDE DEF new
  <2> QED
    BY <2>2, <2>4, <2>5
<1>2. CASE row' = row
  BY <1>2
<1> QED
  BY <1>1, <1>2
  DEF ModerateStep, ModerateRead, ModerateLinks, ModerateSource, ModerateVerify, ModerateCapacity

\* What a request has seen of the row it will edit.
LEMMA EditSeen ==
    ASSUME IInv, CleanInv, TypeOK', [Next]_vars, NEW m \in Moderator, mod'[m] # Idle
    PROVE  mod'[m].cur.state \in Stable
<1>1. RequestStep(m)
  BY RequestSteps
<1>2. CASE mod'[m] = mod[m]
  BY <1>2 DEF CleanInv
<1>3. CASE Read(mod'[m])
  <2> PICK a \in Asset, in \in Inputs :
        /\ Allowed(row[a], in)
        /\ mod'[m] = [pc |-> "links", a |-> a, in |-> in, cur |-> row[a],
                      links |-> NoLinks, from |-> "none"]
    BY <1>3 DEF Read
  <2>1. row[a].state \in Stable
    BY DEF Allowed, CleanInv, KeptWhole
  <2> QED
    BY <2>1
<1>4. CASE Advanced(mod[m], mod'[m])
  BY <1>4, IdleIsNoRequest DEF Advanced, CleanInv
<1> QED
  BY <1>1, <1>2, <1>3, <1>4 DEF RequestStep

LEMMA NoUploads ==
    ASSUME TypeOK, CleanInv, NEW a \in Asset
    PROVE  ~(UploadInsert(a) \/ UploadStep(a) \/ UploadFault(a))
<1>1. up[a].pc = "done"
  BY DEF CleanInv, KeptWhole
<1>2. \A k \in ObjectKind : PutPc[k] # "done"
  BY DEF PutPc, ObjectKind
<1> QED
  BY <1>1, <1>2 DEF UploadInsert, UploadStep, UploadFault, UploadSanitize, UploadCommit,
     UploadVerify, UploadRecord, UploadPut, UploadCleanup, UploadCommitFails, UploadCrash,
     UploadPutFails

LEMMA OthersKeepClean ==
    ASSUME IInv, CleanInv, ByOthers
    PROVE  /\ \A a \in Asset : KeptWhole(a)'
           /\ \A d \in Deleter : del'[d] # Idle => ~del'[d].failed
           /\ \A d \in Deleter : del'[d].pc = "erase" =>
                /\ row'[del'[d].a].deletedAt # "null" /\ "backup" \notin del'[d].todo
                /\ stored'[del'[d].a] \subseteq {"backup"} \union del'[d].todo
<1>0. TypeOK
  BY DEF IInv
<1>1. /\ del' = del
      /\ \A a \in Asset : row'[a].deletedAt = row[a].deletedAt
  BY OthersKeepLeases DEF LeasesUntouched
<1>2. \A a \in Asset : \/ row'[a] = row[a]
                       \/ /\ row'[a].deletedAt = row[a].deletedAt /\ row'[a].deriv = row[a].deriv
                          /\ row'[a].state \in Stable
  BY <1>0, EditedRow, NoUploads DEF ByOthers, vars, SyncStart, SyncStep, SyncCheck, SyncCommit
<1>3. \A a \in Asset : up[a].pc = "done" /\ stored'[a] = stored[a] /\ up'[a] = up[a]
  BY <1>0, OthersKeepObjects DEF CleanInv, KeptWhole
<1>4. \A a \in Asset : KeptWhole(a)'
  BY <1>2, <1>3 DEF CleanInv, KeptWhole, Stable
<1>5. \A d \in Deleter : del[d].pc = "erase" => del[d].a \in Asset
  BY <1>0, DelRequestPc DEF DelRequest
<1> QED
  BY <1>1, <1>3, <1>4, <1>5 DEF CleanInv

LEMMA DeletionKeepsClean ==
    ASSUME TypeOK, CleanInv, "r2" \notin Faults, NEW d \in Deleter,
           DeleteRead(d) \/ DeleteStep(d) \/ DeleteAbandon(d)
    PROVE  /\ \A a \in Asset : KeptWhole(a)'
           /\ \A c \in Deleter : del'[c] # Idle => ~del'[c].failed
           /\ \A c \in Deleter : del'[c].pc = "erase" =>
                /\ row'[del'[c].a].deletedAt # "null" /\ "backup" \notin del'[c].todo
                /\ stored'[del'[c].a] \subseteq {"backup"} \union del'[c].todo
<1> USE DEF TypeOK
<1>0. up' = up
  BY DeletionMoves
<1>a. \A c \in Deleter : del[c].pc = "erase" =>
        /\ del[c] \in DelRequest /\ del[c] # Idle /\ del[c].a \in Asset
        /\ row[del[c].a].deletedAt # "null" /\ "backup" \notin del[c].todo
        /\ stored[del[c].a] \subseteq {"backup"} \union del[c].todo
  BY DelRequestPc, IdleIsNoRequest DEF DelRequest, CleanInv
<1>1. CASE Begun(d) \/ Ended(d)
  <2>1. del'[d].pc # "erase" /\ (del'[d] # Idle => ~del'[d].failed)
    <3>1. CASE Begun(d)
      <4> PICK a \in Asset, t \in Token :
            del' = [del EXCEPT ![d] = [pc |-> "claim", a |-> a, token |-> t,
                      seen |-> IF Leased(a) THEN row[a].deletedAt ELSE "null",
                      todo |-> {}, failed |-> FALSE]]
        BY <3>1 DEF Begun
      <4> QED
        OBVIOUS
    <3>2. CASE Ended(d)
      BY <3>2 DEF Ended, Idle
    <3> QED
      BY <1>1, <3>1, <3>2
  <2>2. row' = row /\ stored' = stored /\ \A c \in Deleter : c # d => del'[c] = del[c]
    BY <1>1 DEF Begun, Ended
  <2>3. \A a \in Asset : KeptWhole(a)'
    BY <1>0, <2>2 DEF CleanInv, KeptWhole
  <2> QED
    BY <2>1, <2>2, <2>3 DEF CleanInv
<1>2. CASE del[d] \in DelRequest /\ Took(d)
  <2>0. del[d].a \in Asset /\ del[d].token \in Token /\ del[d] # Idle
    BY <1>2, IdleIsNoRequest DEF DelRequest
  <2>1. /\ row'[del[d].a].deletedAt = del[d].token /\ row'[del[d].a].state = "withheld"
        /\ row'[del[d].a].deriv = row[del[d].a].deriv
        /\ \A b \in Asset : b # del[d].a => row'[b] = row[b]
    BY <1>2, <2>0 DEF Took, Row
  <2>2. /\ del'[d].todo = {"original"} \union IF row[del[d].a].deriv THEN {"derivative"} ELSE {}
        /\ del'[d].a = del[d].a /\ del'[d].failed = del[d].failed
    BY <1>2 DEF Took, DelRequest
  <2>3. stored' = stored /\ \A c \in Deleter : c # d => del'[c] = del[c]
    BY <1>2 DEF Took
  <2>4. row[del[d].a].deletedAt # "final" /\ KeptWhole(del[d].a)
    BY <1>2, <2>0, EvidenceConstants DEF Took, Claims, DelRequest, CleanInv
  <2>5. \A a \in Asset : KeptWhole(a)'
    BY <1>0, <2>0, <2>1, <2>3, <2>4, EvidenceConstants DEF CleanInv, KeptWhole, Stable
  <2>6. stored[del[d].a] \subseteq {"backup"} \union del'[d].todo /\ "backup" \notin del'[d].todo
    BY <2>0, <2>2, <2>4 DEF KeptWhole, ObjectKind
  <2>7. \A c \in Deleter : del'[c].pc = "erase" =>
          /\ row'[del'[c].a].deletedAt # "null" /\ "backup" \notin del'[c].todo
          /\ stored'[del'[c].a] \subseteq {"backup"} \union del'[c].todo
    <3>1. ASSUME NEW c \in Deleter, c # d, del'[c].pc = "erase"
          PROVE  /\ row'[del'[c].a].deletedAt # "null" /\ "backup" \notin del'[c].todo
                 /\ stored'[del'[c].a] \subseteq {"backup"} \union del'[c].todo
      <4>1. del'[c] = del[c] /\ del[c].a \in Asset
        BY <1>a, <2>3, <3>1
      <4>2. row'[del[c].a].deletedAt # "null"
        BY <1>a, <2>0, <2>1, <3>1, <4>1, EvidenceConstants
      <4> QED
        BY <1>a, <2>3, <3>1, <4>1, <4>2
    <3>2. /\ row'[del'[d].a].deletedAt # "null" /\ "backup" \notin del'[d].todo
          /\ stored'[del'[d].a] \subseteq {"backup"} \union del'[d].todo
      <4>1. row'[del'[d].a].deletedAt # "null"
        BY <2>0, <2>1, <2>2, EvidenceConstants
      <4> QED
        BY <2>2, <2>3, <2>6, <4>1
    <3> QED
      BY <3>1, <3>2
  <2> QED
    BY <2>0, <2>2, <2>3, <2>5, <2>7 DEF CleanInv
<1>3. CASE del[d] \in DelRequest /\ Removed(d)
  <2>0. del[d].a \in Asset /\ del[d] # Idle /\ del[d].pc = "erase"
    BY <1>3, IdleIsNoRequest DEF DelRequest, Removed
  <2> PICK k \in del[d].todo :
        /\ stored' = [stored EXCEPT ![del[d].a] = @ \ {k}]
        /\ del' = [del EXCEPT ![d] = [del[d] EXCEPT !.todo = @ \ {k}]]
    BY <1>3 DEF Removed
  <2>1. row' = row
    BY <1>3 DEF Removed
  <2>2. /\ del'[d].todo = del[d].todo \ {k} /\ del'[d].a = del[d].a
        /\ del'[d].failed = del[d].failed
        /\ \A c \in Deleter : c # d => del'[c] = del[c]
    BY <1>3 DEF DelRequest
  <2>3. k # "backup" /\ row[del[d].a].deletedAt # "null"
    BY <1>a, <2>0
  <2>4. /\ stored'[del[d].a] = stored[del[d].a] \ {k}
        /\ \A b \in Asset : b # del[d].a => stored'[b] = stored[b]
    BY <2>0
  <2>5. \A a \in Asset : KeptWhole(a)'
    BY <1>0, <2>0, <2>1, <2>3, <2>4 DEF CleanInv, KeptWhole
  <2>6. \A c \in Deleter : del'[c].pc = "erase" =>
          /\ row'[del'[c].a].deletedAt # "null" /\ "backup" \notin del'[c].todo
          /\ stored'[del'[c].a] \subseteq {"backup"} \union del'[c].todo
    BY <1>a, <2>0, <2>1, <2>2, <2>4
  <2> QED
    BY <2>0, <2>2, <2>5, <2>6 DEF CleanInv
<1>4. CASE del[d] \in DelRequest /\ GaveBack(d)
  <2>0. del[d].a \in Asset /\ row[del[d].a] \in Row /\ del[d] # Idle /\ del[d].pc = "erase"
    BY <1>4, IdleIsNoRequest DEF DelRequest, GaveBack
  <2>1. ~del[d].failed /\ Erased(del[d])
    BY <1>4, <2>0 DEF GaveBack, CleanInv
  <2> DEFINE over == [row[del[d].a] EXCEPT !.state = "deleted", !.deriv = FALSE,
                                           !.deletedAt = "final"]
  <2>2. over.deletedAt = "final" /\ over.state = "deleted"
    BY <2>0 DEF Row
  <2>3. /\ row'[del[d].a] = over
        /\ \A b \in Asset : b # del[d].a => row'[b] = row[b]
    BY <1>4, <2>0, <2>1 DEF GaveBack
  <2> HIDE DEF over
  <2>4. stored' = stored /\ del'[d] = Idle /\ \A c \in Deleter : c # d => del'[c] = del[c]
    BY <1>4 DEF GaveBack
  <2>5. stored[del[d].a] = {"backup"}
    <3>1. stored[del[d].a] \subseteq {"backup"}
      BY <1>a, <2>0, <2>1 DEF Erased
    <3>2. "backup" \in stored[del[d].a]
      BY <2>0 DEF CleanInv, KeptWhole
    <3> QED
      BY <3>1, <3>2
  <2>6. \A a \in Asset : KeptWhole(a)'
    BY <1>0, <2>0, <2>2, <2>3, <2>4, <2>5 DEF CleanInv, KeptWhole
  <2>7. \A c \in Deleter : del'[c].pc = "erase" =>
          /\ row'[del'[c].a].deletedAt # "null" /\ "backup" \notin del'[c].todo
          /\ stored'[del'[c].a] \subseteq {"backup"} \union del'[c].todo
    BY <1>a, <2>2, <2>3, <2>4 DEF Idle
  <2> QED
    BY <2>4, <2>6, <2>7 DEF CleanInv
<1> QED
  BY <1>1, <1>2, <1>3, <1>4, DeletionMoves

LEMMA NextCleanInv ==
    ASSUME "r2" \notin Faults
    PROVE  IInv /\ CleanInv /\ [Next]_vars => CleanInv'
<1> SUFFICES ASSUME IInv, CleanInv, [Next]_vars PROVE CleanInv'
  OBVIOUS
<1>0. TypeOK /\ TypeOK'
  BY NextTypeOK DEF IInv
<1>1. ASSUME NEW m \in Moderator, mod'[m] # Idle
      PROVE  mod'[m].cur.state \in Stable
  BY <1>0, <1>1, EditSeen
<1>2. ASSUME NEW a \in Asset, LeaseAges(a)
      PROVE  /\ \A b \in Asset : KeptWhole(b)'
             /\ \A d \in Deleter : del'[d] # Idle => ~del'[d].failed
             /\ \A d \in Deleter : del'[d].pc = "erase" =>
                  /\ row'[del'[d].a].deletedAt # "null" /\ "backup" \notin del'[d].todo
                  /\ stored'[del'[d].a] \subseteq {"backup"} \union del'[d].todo
  BY <1>2 DEF LeaseAges, CleanInv, KeptWhole
<1>3. /\ \A b \in Asset : KeptWhole(b)'
      /\ \A d \in Deleter : del'[d] # Idle => ~del'[d].failed
      /\ \A d \in Deleter : del'[d].pc = "erase" =>
           /\ row'[del'[d].a].deletedAt # "null" /\ "backup" \notin del'[d].todo
           /\ stored'[del'[d].a] \subseteq {"backup"} \union del'[d].todo
  BY <1>0, <1>2, OthersKeepClean, DeletionKeepsClean, StepsOfEvidence
<1> QED
  BY <1>1, <1>3 DEF CleanInv

\* When every image had been uploaded before and R2 does what it is asked, the
\* operator's inventory has nothing to report once all is quiet, except of a
\* deletion to be taken over and of a tombstone an older edit brought back
\* (operator-evidence-inventory.mjs against moderateEvidenceAsset and
\* deleteEvidenceAsset).
THEOREM InventoryStaysClean ==
    ASSUME Ready = Asset, "r2" \notin Faults
    PROVE  Spec => []InventoryIsClean
<1>1. Init => CleanInv
  <2> SUFFICES ASSUME Init PROVE CleanInv
    OBVIOUS
  <2>1. ASSUME NEW a \in Asset
        PROVE  KeptWhole(a)
    <3>1. row[a] = ReadyRow(NoRow) /\ stored[a] = ObjectKind /\ up[a].pc = "done"
      BY DEF Init
    <3>2. /\ ReadyRow(NoRow).state = "private_ready" /\ ReadyRow(NoRow).deriv
          /\ ReadyRow(NoRow).deletedAt = "null"
      BY DEF ReadyRow, NoRow
    <3> QED
      BY <3>1, <3>2 DEF KeptWhole, Stable, ObjectKind
  <2> QED
    BY <2>1 DEF Init, CleanInv, Idle
<1>2. IInv /\ CleanInv /\ [Next]_vars => CleanInv'
  BY NextCleanInv
<1>3. TypeOK /\ CleanInv => InventoryIsClean
  <2> SUFFICES ASSUME TypeOK, CleanInv, NEW a \in Asset, Reported(a), ~Leased(a),
                      ~(row[a].deletedAt = "final" /\ row[a].state # "deleted")
               PROVE  FALSE
    BY DEF InventoryIsClean
  <2>1. KeptWhole(a) /\ row[a].deletedAt \in {"null", "final"}
    BY DEF CleanInv, TypeOK, Row, Leased
  <2>2. CASE row[a].deletedAt = "null"
    <3>1. row[a].state \in Stable /\ row[a].deriv /\ stored[a] = ObjectKind
      BY <2>1, <2>2 DEF KeptWhole
    <3> QED
      BY <3>1 DEF Reported, Expected, Stable, ObjectKind
  <2>3. CASE row[a].deletedAt = "final"
    <3>1. row[a].state = "deleted" /\ stored[a] = {"backup"}
      BY <2>1, <2>3 DEF KeptWhole
    <3> QED
      BY <3>1 DEF Reported, Expected, Stable
  <2> QED
    BY <2>1, <2>2, <2>3
<1> QED
  BY <1>1, <1>2, <1>3, Invariance, PTL DEF Spec, IInv
=============================================================================
