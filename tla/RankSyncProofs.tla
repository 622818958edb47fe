--------------------------- MODULE RankSyncProofs ---------------------------
(***************************************************************************)
(* Proofs about RankSync.  What makes a completion safe is that whoever    *)
(* still holds the lease when it closes the row has seen no change since   *)
(* its claim: every change of the rank or the identity drops the lease.    *)
(***************************************************************************)
EXTENDS RankSync, TLAPS

USE RankSyncConstants

\* The invocation works on a row, and has read the activity of its account.
Informed == {"member", "verify", "remove", "add", "finish", "gone"} \union Failure
AtWork == {"activity"} \union Informed
Changing == {"verify", "remove", "add"}

JobOK(w) ==
    /\ job[w].pc \in AtWork => Me(w) \in Subject
    /\ job[w].pc \in AtWork /\ HoldsLease(w) => (job[w].owned <=> Me(w) \in linked)
    /\ job[w].pc \in Informed /\ HoldsLease(w) /\ job[w].owned => job[w].want = want[Me(w)]
    /\ job[w].pc \in Changing /\ job[w].add => job[w].want \in Level
    /\ job[w].pc = "add" => job[w].add

IInv ==
    /\ TypeOK
    /\ LinkedHasRow
    /\ SyncedIsCurrent
    /\ \A w \in Worker : JobOK(w)

LEMMA InitIInv == Init => IInv
<1>. SUFFICES ASSUME Init PROVE IInv
  OBVIOUS
<1>1. NoRow \in Row /\ Resting \in Job
  BY DEF NoRow, Deleted, Row, Resting, Fresh, Job
<1>2. TypeOK
  <2>1. 0 \in 0 .. TopLevel /\ 0 \in 0 .. MaxChanges /\ 0 \in 0 .. MaxFaults
    OBVIOUS
  <2>2. row \in [Subject -> Row] /\ job \in [Worker -> Job]
    BY <1>1 DEF Init
  <2>. QED
    BY <2>1, <2>2 DEF Init, TypeOK
<1>. QED
  BY <1>2 DEF Init, IInv, LinkedHasRow, SyncedIsCurrent, JobOK, Exists, NoRow, Deleted, Resting, Fresh, AtWork,
     Informed, Changing, Failure

\* Steps that change neither identities, ranks nor rows: one job moves on.
LEMMA JobStep ==
    ASSUME IInv, NEW w \in Worker, TypeOK', UNCHANGED <<linked, want, row>>,
           \A v \in Worker : v # w => job'[v] = job[v],
           job'[w].pc \in Changing /\ job'[w].add => job'[w].want \in Level,
           job'[w].pc = "add" => job'[w].add,
           job'[w].pc \in AtWork =>
             /\ job[w].pc \in AtWork /\ job'[w].subject = Me(w)
             /\ job[w].pc \in Informed =>
                  job'[w].owned = job[w].owned /\ job'[w].want = job[w].want
             /\ job[w].pc = "activity" =>
                  /\ job'[w].owned = (job[w].owned /\ Me(w) \in linked)
                  /\ job'[w].owned => job'[w].want = want[Me(w)]
    PROVE  IInv'
<1>. USE DEF IInv
<1>1. LinkedHasRow' /\ SyncedIsCurrent'
  BY DEF LinkedHasRow, SyncedIsCurrent, Exists
<1>2. ASSUME NEW v \in Worker, v # w PROVE JobOK(v)'
  BY <1>2 DEF JobOK, HoldsLease, Me
<1>3. JobOK(w)'
  <2>1. CASE job'[w].pc \notin AtWork
    BY <2>1 DEF JobOK, AtWork
  <2>2. CASE job'[w].pc \in AtWork
    <3>1. Me(w)' = Me(w) /\ HoldsLease(w)' = HoldsLease(w) /\ JobOK(w)
      BY <2>2 DEF Me, HoldsLease
    <3>2. job[w].pc = "activity" \/ job[w].pc \in Informed
      BY <2>2 DEF AtWork
    <3>. QED
      BY <2>2, <3>1, <3>2 DEF JobOK, AtWork
  <2>. QED
    BY <2>1, <2>2
<1>. QED
  BY <1>1, <1>2, <1>3

\* A step of the website: the row is pending and nobody holds its lease.
LEMMA BumpStep ==
    ASSUME IInv, NEW s \in Subject, NEW owned \in BOOLEAN, TypeOK',
           row' = Bumped(s, owned), job' = job,
           s \in linked' <=> owned,
           \A t \in Subject : t # s => (t \in linked' <=> t \in linked) /\ want'[t] = want[t]
    PROVE  IInv'
<1>. USE DEF IInv, TypeOK
<1>1. /\ row'[s].status = "pending" /\ row'[s].owned = owned /\ row'[s].holder = "none"
      /\ \A t \in Subject : t # s => row'[t] = row[t]
  BY DEF Bumped, Row
<1>2. LinkedHasRow' /\ SyncedIsCurrent'
  BY <1>1 DEF LinkedHasRow, SyncedIsCurrent, Exists
<1>3. ASSUME NEW w \in Worker PROVE JobOK(w)'
  <2>1. Me(w)' = Me(w) /\ JobOK(w)
    BY DEF Me
  <2>2. CASE Me(w) = s
    BY <1>1, <2>1, <2>2 DEF JobOK, HoldsLease
  <2>3. CASE Me(w) # s
    BY <1>1, <2>1, <2>3 DEF JobOK, HoldsLease, AtWork
  <2>. QED
    BY <2>2, <2>3
<1>. QED
  BY <1>2, <1>3

\* A row of which only the time has come.
LEMMA DueStep ==
    ASSUME IInv, NEW s \in Subject, TypeOK', row' = [row EXCEPT ![s].due = TRUE],
           UNCHANGED <<linked, want, job>>
    PROVE  IInv'
<1>. USE DEF IInv, TypeOK
<1>1. \A t \in Subject : /\ row'[t].status = row[t].status /\ row'[t].owned = row[t].owned
                         /\ row'[t].holder = row[t].holder /\ row'[t].applied = row[t].applied
  BY DEF Row
<1>2. LinkedHasRow' /\ SyncedIsCurrent'
  BY <1>1 DEF LinkedHasRow, SyncedIsCurrent, Exists
<1>3. ASSUME NEW w \in Worker PROVE JobOK(w)'
  BY <1>1 DEF JobOK, HoldsLease, Me
<1>. QED
  BY <1>2, <1>3

LEMMA PurgeStep ==
    ASSUME IInv, NEW s \in Subject, Purge(s), TypeOK'
    PROVE  IInv'
<1>. USE DEF IInv, TypeOK
<1>1. /\ row'[s].status = "purged" /\ row'[s].holder = "none"
      /\ \A t \in Subject : t # s => row'[t] = row[t]
      /\ s \notin linked
      /\ UNCHANGED <<linked, want, job>>
  BY DEF Purge, NoRow, Deleted, LinkedHasRow
<1>2. LinkedHasRow' /\ SyncedIsCurrent'
  BY <1>1 DEF LinkedHasRow, SyncedIsCurrent, Exists
<1>3. ASSUME NEW w \in Worker PROVE JobOK(w)'
  <2>1. Me(w)' = Me(w) /\ JobOK(w)
    BY <1>1 DEF Me
  <2>. QED
    BY <1>1, <2>1 DEF JobOK, HoldsLease, AtWork
<1>. QED
  BY <1>2, <1>3

\* A claim: its invocation now holds the lease and no other does.
LEMMA ClaimStep ==
    ASSUME IInv, NEW w \in Worker, NEW s \in Subject, NEW due \in BOOLEAN, TypeOK',
           job[w].pc = "next", Claimable(s), Claimed(w, s),
           row' = [row EXCEPT ![s].status = "leased", ![s].holder = w, ![s].due = due],
           UNCHANGED <<linked, want>>
    PROVE  IInv'
<1>. USE DEF IInv, TypeOK
<1>1. /\ row'[s].status = "leased" /\ row'[s].holder = w /\ row'[s].owned = row[s].owned
      /\ \A t \in Subject : t # s => row'[t] = row[t]
  BY DEF Row
<1>2. /\ job'[w].pc = "activity" /\ job'[w].subject = s /\ job'[w].owned = row[s].owned
      /\ job'[w].add = FALSE
      /\ \A v \in Worker : v # w => job'[v] = job[v]
  BY DEF Claimed, Fresh
<1>3. LinkedHasRow' /\ SyncedIsCurrent'
  BY <1>1 DEF LinkedHasRow, SyncedIsCurrent, Exists, Claimable
<1>4. JobOK(w)'
  BY <1>1, <1>2 DEF JobOK, HoldsLease, Me, LinkedHasRow, Exists, Claimable, AtWork, Informed, Failure
<1>5. ASSUME NEW v \in Worker, v # w PROVE JobOK(v)'
  <2>1. Me(v)' = Me(v) /\ JobOK(v) /\ job'[v] = job[v]
    BY <1>2, <1>5 DEF Me
  <2>. QED
    BY <1>1, <1>5, <2>1 DEF JobOK, HoldsLease, AtWork
<1>. QED
  BY <1>3, <1>4, <1>5

\* A row is closed by the holder of its lease, with what it knows.
LEMMA CloseStep ==
    ASSUME IInv, NEW w \in Worker, TypeOK', UNCHANGED <<linked, want>>,
           \A v \in Worker : v # w => job'[v] = job[v],
           job[w].pc \in {"finish", "gone"} \union Failure, HoldsLease(w), row' = Outcome(w),
           job'[w].pc \in AtWork => job'[w].subject = Me(w),
           job'[w].pc \notin Changing
    PROVE  IInv'
<1>. USE DEF IInv, TypeOK
<1>. DEFINE s == Me(w)
<1>1. job[w].pc \in Informed /\ s \in Subject /\ (job[w].owned <=> s \in linked)
      /\ (job[w].owned => job[w].want = want[s]) /\ row[s].status = "leased"
  <2>1. JobOK(w) /\ job[w].pc \in Informed /\ job[w].pc \in AtWork
    BY DEF AtWork, Informed
  <2>2. row[s].status = "leased"
    BY DEF HoldsLease
  <2>. QED
    BY <2>1, <2>2 DEF JobOK
<1>2. \A t \in Subject : t # s => row'[t] = row[t]
  <2>1. ASSUME NEW t \in Subject, t # s, NEW st
        PROVE  Close(w, st)[t] = row[t]
    BY <1>1, <2>1 DEF Close
  <2>2. \/ row' = [row EXCEPT ![s] = NoRow]
        \/ \E st : row' = Close(w, st)
        \/ row' = [Close(w, "synced") EXCEPT ![s].applied = job[w].want]
    BY <1>1 DEF Outcome, Succeeded, Failure
  <2>3. \A st : Close(w, st) \in [Subject -> {Close(w, st)[t] : t \in Subject}]
    BY DEF Close
  <2>. QED
    BY <1>1, <2>1, <2>2, <2>3
<1>3. /\ row'[s].status # "leased"
      /\ s \in linked <=> row'[s].status \notin {"absent", "purged"} /\ row'[s].owned
      /\ row'[s].status = "synced" => s \in linked /\ row'[s].applied = want[s]
  <2>1. (s \in linked <=> row[s].owned) /\ row[s] \in Row
    BY <1>1 DEF LinkedHasRow, Exists
  <2>2. CASE row' = [row EXCEPT ![s] = NoRow] /\ ~job[w].owned
    <3>1. row'[s] = NoRow
      BY <1>1, <2>2
    <3>. QED
      BY <1>1, <2>1, <2>2, <3>1 DEF NoRow, Deleted
  <2>3. ASSUME NEW st \in {"not_in_guild", "failed", "terminal"}, row' = Close(w, st)
        PROVE  row'[s].status = st /\ row'[s].owned = row[s].owned
    BY <1>1, <2>1, <2>3 DEF Close, Row
  <2>4. ASSUME row' = [Close(w, "synced") EXCEPT ![s].applied = job[w].want]
        PROVE  row'[s].status = "synced" /\ row'[s].owned = row[s].owned
               /\ row'[s].applied = job[w].want
    BY <1>1, <2>1, <2>4 DEF Close, Row
  <2>5. \/ row' = [row EXCEPT ![s] = NoRow] /\ ~job[w].owned
        \/ \E st \in {"not_in_guild", "failed", "terminal"} : row' = Close(w, st)
        \/ row' = [Close(w, "synced") EXCEPT ![s].applied = job[w].want] /\ job[w].owned
    BY <1>1 DEF Outcome, Succeeded, Failure
  <2>. QED
    BY <1>1, <2>1, <2>2, <2>3, <2>4, <2>5
<1>4. LinkedHasRow' /\ SyncedIsCurrent'
  BY <1>1, <1>2, <1>3 DEF LinkedHasRow, SyncedIsCurrent, Exists
<1>5. ASSUME NEW v \in Worker, v # w PROVE JobOK(v)'
  <2>1. Me(v)' = Me(v) /\ JobOK(v) /\ job'[v] = job[v]
    BY <1>5 DEF Me
  <2>. QED
    BY <1>2, <1>3, <2>1 DEF JobOK, HoldsLease, AtWork
<1>6. JobOK(w)'
  BY <1>1, <1>3 DEF JobOK, HoldsLease, Me, AtWork, Changing
<1>. QED
  BY <1>4, <1>5, <1>6

-----------------------------------------------------------------------------
(* Types.                                                                  *)

LEMMA RowWrites ==
    ASSUME TypeOK, NEW s, NEW r \in Row
    PROVE  [row EXCEPT ![s] = r] \in [Subject -> Row]
BY DEF TypeOK

\* One field at a time.
LEMMA FieldWrites ==
    ASSUME NEW f \in [Subject -> Row], NEW s \in Subject
    PROVE  /\ \A x \in {"pending", "leased", "synced", "not_in_guild", "failed", "terminal"} :
                [f EXCEPT ![s].status = x] \in [Subject -> Row]
           /\ \A x \in BOOLEAN : [f EXCEPT ![s].owned = x] \in [Subject -> Row]
           /\ \A x \in BOOLEAN : [f EXCEPT ![s].due = x] \in [Subject -> Row]
           /\ \A x \in Worker \union {"none"} : [f EXCEPT ![s].holder = x] \in [Subject -> Row]
           /\ \A x \in 0 .. TopLevel : [f EXCEPT ![s].applied = x] \in [Subject -> Row]
<1>1. ASSUME NEW x \in {"pending", "leased", "synced", "not_in_guild", "failed", "terminal"}
      PROVE  [f EXCEPT ![s].status = x] \in [Subject -> Row]
  BY DEF Row
<1>2. ASSUME NEW x \in BOOLEAN PROVE [f EXCEPT ![s].owned = x] \in [Subject -> Row]
  BY DEF Row
<1>3. ASSUME NEW x \in BOOLEAN PROVE [f EXCEPT ![s].due = x] \in [Subject -> Row]
  BY DEF Row
<1>4. ASSUME NEW x \in Worker \union {"none"} PROVE [f EXCEPT ![s].holder = x] \in [Subject -> Row]
  BY DEF Row
<1>5. ASSUME NEW x \in 0 .. TopLevel PROVE [f EXCEPT ![s].applied = x] \in [Subject -> Row]
  BY DEF Row
<1>. QED
  BY <1>1, <1>2, <1>3, <1>4, <1>5

LEMMA Closed ==
    ASSUME TypeOK, NEW w \in Worker, Me(w) \in Subject,
           NEW st \in {"synced", "not_in_guild", "failed", "terminal"}
    PROVE  Close(w, st) \in [Subject -> Row]
<1>. DEFINE f == [row EXCEPT ![Me(w)].status = st]
             g == [f EXCEPT ![Me(w)].due = FALSE]
<1>1. f \in [Subject -> Row]
  BY FieldWrites DEF TypeOK
<1>2. g \in [Subject -> Row]
  BY <1>1, FieldWrites
<1>3. [g EXCEPT ![Me(w)].holder = "none"] \in [Subject -> Row]
  BY <1>2, FieldWrites
<1>. QED
  BY <1>3 DEF Close

LEMMA OutcomeType ==
    ASSUME TypeOK, NEW w \in Worker, Me(w) \in Subject,
           job[w].pc \in {"finish", "gone"} \union Failure
    PROVE  Outcome(w) \in [Subject -> Row]
<1>1. NoRow \in Row /\ job[w] \in Job
  BY DEF NoRow, Deleted, Row, TypeOK
<1>2. job[w].want \in 0 .. TopLevel
  BY <1>1 DEF Job
<1>3. [row EXCEPT ![Me(w)] = NoRow] \in [Subject -> Row]
  BY <1>1, RowWrites
<1>4. \A st \in {"synced", "not_in_guild", "failed", "terminal"} : Close(w, st) \in [Subject -> Row]
  BY Closed
<1>5. [Close(w, "synced") EXCEPT ![Me(w)].applied = job[w].want] \in [Subject -> Row]
  BY <1>2, <1>4, FieldWrites
<1>. QED
  BY <1>3, <1>4, <1>5 DEF Outcome, Succeeded, Failure

LEMMA BumpedType ==
    ASSUME TypeOK, NEW s \in Subject, NEW owned \in BOOLEAN
    PROVE  Bumped(s, owned) \in [Subject -> Row]
<1>. DEFINE f == [row EXCEPT ![s].status = "pending"]
             g == [f EXCEPT ![s].owned = owned]
             h == [g EXCEPT ![s].due = TRUE]
<1>1. f \in [Subject -> Row]
  BY FieldWrites DEF TypeOK
<1>2. g \in [Subject -> Row]
  BY <1>1, FieldWrites
<1>3. h \in [Subject -> Row]
  BY <1>2, FieldWrites
<1>4. [h EXCEPT ![s].holder = "none"] \in [Subject -> Row]
  BY <1>3, FieldWrites
<1>. QED
  BY <1>4 DEF Bumped

LEMMA LeasedType ==
    ASSUME TypeOK, NEW s \in Subject, NEW w \in Worker
    PROVE  /\ Leased(w, s) \in [Subject -> Row]
           /\ [Leased(w, s) EXCEPT ![s].due = TRUE] \in [Subject -> Row]
<1>. DEFINE f == [row EXCEPT ![s].status = "leased"]
             g == [f EXCEPT ![s].holder = w]
<1>1. f \in [Subject -> Row]
  BY FieldWrites DEF TypeOK
<1>2. g \in [Subject -> Row]
  BY <1>1, FieldWrites
<1>3. [g EXCEPT ![s].due = FALSE] \in [Subject -> Row]
  BY <1>2, FieldWrites
<1>4. Leased(w, s) \in [Subject -> Row]
  BY <1>3 DEF Leased
<1>. QED
  BY <1>4, FieldWrites

LEMMA HiddenType ==
    ASSUME TypeOK, NEW s
    PROVE  Hidden(s) \in [Worker -> SUBSET Subject]
BY DEF TypeOK, Hidden

LEMMA JobWrites ==
    ASSUME NEW f \in [Worker -> Job], NEW w \in Worker
    PROVE  /\ \A j \in Job : [f EXCEPT ![w] = j] \in [Worker -> Job]
           /\ \A x \in {"preflight", "next"} \union AtWork : [f EXCEPT ![w].pc = x] \in [Worker -> Job]
           /\ \A x \in BOOLEAN : [f EXCEPT ![w].owned = x] \in [Worker -> Job]
           /\ \A x \in 0 .. TopLevel : [f EXCEPT ![w].want = x] \in [Worker -> Job]
           /\ \A x \in SUBSET Level : [f EXCEPT ![w].unwanted = x] \in [Worker -> Job]
           /\ \A x \in BOOLEAN : [f EXCEPT ![w].add = x] \in [Worker -> Job]
<1>1. ASSUME NEW x \in {"preflight", "next"} \union AtWork
      PROVE  [f EXCEPT ![w].pc = x] \in [Worker -> Job]
  BY DEF Job, AtWork, Informed
<1>2. ASSUME NEW x \in BOOLEAN PROVE [f EXCEPT ![w].owned = x] \in [Worker -> Job]
  BY DEF Job
<1>3. ASSUME NEW x \in 0 .. TopLevel PROVE [f EXCEPT ![w].want = x] \in [Worker -> Job]
  BY DEF Job
<1>4. ASSUME NEW x \in SUBSET Level PROVE [f EXCEPT ![w].unwanted = x] \in [Worker -> Job]
  BY DEF Job
<1>5. ASSUME NEW x \in BOOLEAN PROVE [f EXCEPT ![w].add = x] \in [Worker -> Job]
  BY DEF Job
<1>. QED
  BY <1>1, <1>2, <1>3, <1>4, <1>5

LEMMA FreshType ==
    ASSUME NEW pc \in {"idle", "next", "activity"}, NEW s \in Subject \union {"none"},
           NEW owned \in BOOLEAN
    PROVE  Fresh(pc, s, owned) \in Job
BY DEF Fresh, Job

\* The two ways an invocation leaves a row.
LEMMA Leaving ==
    ASSUME TypeOK, NEW w \in Worker, Rest(w) \/ Advance(w)
    PROVE  /\ job' \in [Worker -> Job]
           /\ \A v \in Worker : v # w => job'[v] = job[v]
           /\ job'[w].pc \in {"idle", "next"}
<1>1. /\ Resting \in Job /\ Resting.pc = "idle"
      /\ Fresh("next", "none", FALSE) \in Job /\ Fresh("next", "none", FALSE).pc = "next"
  BY FreshType DEF Resting, Fresh
<1>. QED
  BY <1>1 DEF Rest, Advance, TypeOK

\* Any other move changes the program counter, and perhaps what was read.
LEMMA Going ==
    ASSUME TypeOK, NEW w \in Worker, NEW pc \in {"preflight", "next"} \union AtWork, Goto(w, pc)
    PROVE  /\ job' \in [Worker -> Job]
           /\ \A v \in Worker : v # w => job'[v] = job[v]
           /\ job'[w].pc = pc
           /\ job'[w].subject = job[w].subject /\ job'[w].owned = job[w].owned
           /\ job'[w].want = job[w].want /\ job'[w].add = job[w].add
<1>1. job' \in [Worker -> Job]
  BY JobWrites DEF Goto, TypeOK
<1>. QED
  BY <1>1 DEF Goto, TypeOK, Job

-----------------------------------------------------------------------------
(* Preservation.                                                           *)

LEMMA WorkStep ==
    ASSUME IInv, NEW w \in Worker, Work(w)
    PROVE  IInv'
<1>1. TypeOK /\ JobOK(w) /\ job[w] \in Job
  BY DEF IInv, TypeOK
<1>2. CASE Start(w) \/ Preflight(w) \/ Finish(w)
  <2>1. PICK pc \in {"preflight", "next"} : Goto(w, pc) \/ Rest(w)
    BY <1>2 DEF Start, Preflight, Finish
  <2>2. /\ job' \in [Worker -> Job]
        /\ \A v \in Worker : v # w => job'[v] = job[v]
        /\ job'[w].pc \in {"idle", "preflight", "next"}
    BY <1>1, <2>1, Going, Leaving
  <2>3. TypeOK' /\ UNCHANGED <<linked, want, row>>
    BY <1>1, <1>2, <2>2 DEF TypeOK, Start, Preflight, Finish, DueRows
  <2>. QED
    BY <2>2, <2>3, JobStep DEF AtWork, Informed, Failure, Changing
<1>3. ASSUME NEW s \in Subject, Claim(w, s) PROVE IInv'
  <2>1. Fresh("activity", s, row[s].owned) \in Job
    BY <1>1, FreshType DEF TypeOK, Row
  <2>2. TypeOK'
    BY <1>1, <1>3, <2>1, JobWrites, LeasedType, HiddenType DEF TypeOK, Claim, Claimed
  <2>. QED
    BY <1>3, <2>2, ClaimStep DEF Claim, Leased
<1>4. CASE ReadActivity(w)
  <2>. DEFINE found == job[w].owned /\ Me(w) \in linked
              l == IF found THEN want[Me(w)] ELSE 0
              f == [job EXCEPT ![w].pc = "member"]
              g == [f EXCEPT ![w].owned = found]
  <2>1. l \in 0 .. TopLevel /\ found \in BOOLEAN
    BY <1>1 DEF TypeOK, Job
  <2>2. f \in [Worker -> Job]
    BY <1>1, JobWrites DEF TypeOK, AtWork, Informed
  <2>3. g \in [Worker -> Job]
    BY <2>1, <2>2, JobWrites
  <2>4. job' = [g EXCEPT ![w].want = l]
    BY <1>4 DEF ReadActivity
  <2>5. job' \in [Worker -> Job]
    BY <2>1, <2>3, <2>4, JobWrites
  <2>6. TypeOK' /\ UNCHANGED <<linked, want, row>>
    BY <1>1, <1>4, <2>5 DEF TypeOK, ReadActivity
  <2>7. /\ \A v \in Worker : v # w => job'[v] = job[v]
        /\ job'[w].pc = "member" /\ job'[w].owned = found /\ job'[w].want = l
        /\ job'[w].subject = Me(w)
    BY <1>1, <1>4 DEF ReadActivity, TypeOK, Job, Me
  <2>8. job[w].pc = "activity"
    BY <1>4 DEF ReadActivity
  <2>. QED
    BY <1>1, <2>6, <2>7, <2>8, JobStep DEF AtWork, Informed, Failure, Changing
<1>5. CASE ReadMember(w)
  <2>. DEFINE S == roles[Me(w)] \ {job[w].want}
              a == job[w].want # 0 /\ job[w].want \notin roles[Me(w)]
              f == [job EXCEPT ![w].pc = "verify"]
              g == [f EXCEPT ![w].unwanted = S]
  <2>1. Me(w) \in Subject /\ job[w].pc = "member"
    BY <1>1, <1>5 DEF ReadMember, JobOK, AtWork, Informed
  <2>2. CASE Goto(w, "gone")
    <3>1. TypeOK' /\ UNCHANGED <<linked, want, row>>
      BY <1>1, <1>5, <2>2, Going DEF TypeOK, ReadMember, AtWork, Informed
    <3>. QED
      BY <1>1, <2>1, <2>2, <3>1, Going, JobStep DEF AtWork, Informed, Failure, Changing, Me
  <2>3. CASE Me(w) \in guild
    <3>1. S \in SUBSET Level /\ a \in BOOLEAN /\ job[w].want \in 0 .. TopLevel
      BY <1>1, <2>1 DEF TypeOK, Job
    <3>2. f \in [Worker -> Job]
      BY <1>1, JobWrites DEF TypeOK, AtWork, Informed
    <3>3. g \in [Worker -> Job]
      BY <3>1, <3>2, JobWrites
    <3>4. job' = [g EXCEPT ![w].add = a]
      BY <1>5, <2>3 DEF ReadMember
    <3>5. job' \in [Worker -> Job]
      BY <3>1, <3>3, <3>4, JobWrites
    <3>6. TypeOK' /\ UNCHANGED <<linked, want, row>>
      BY <1>1, <1>5, <3>5 DEF TypeOK, ReadMember
    <3>7. /\ \A v \in Worker : v # w => job'[v] = job[v]
          /\ job'[w].pc = "verify" /\ job'[w].owned = job[w].owned /\ job'[w].want = job[w].want
          /\ job'[w].subject = Me(w) /\ job'[w].add = a
      BY <1>1, <1>5, <2>3 DEF ReadMember, TypeOK, Job, Me
    <3>8. a => job[w].want \in Level
      BY <3>1 DEF Level
    <3>. QED
      BY <1>1, <2>1, <3>6, <3>7, <3>8, JobStep DEF AtWork, Informed, Failure, Changing
  <2>. QED
    BY <1>5, <2>2, <2>3 DEF ReadMember
<1>6. CASE Verify(w)
  <2>1. Me(w) \in Subject /\ job[w].pc = "verify"
    BY <1>1, <1>6 DEF Verify, JobOK, AtWork, Informed
  <2>2. CASE Advance(w)
    <3>1. TypeOK' /\ UNCHANGED <<linked, want, row>>
      BY <1>1, <1>6, <2>2, Leaving DEF TypeOK, Verify
    <3>. QED
      BY <1>1, <2>2, <3>1, Leaving, JobStep DEF AtWork, Informed, Failure, Changing
  <2>3. CASE \E pc \in {"remove", "add", "finish"} :
               Goto(w, pc) /\ (pc = "add" => job[w].add)
    <3>1. PICK pc \in {"remove", "add", "finish"} : Goto(w, pc) /\ (pc = "add" => job[w].add)
      BY <2>3
    <3>2. TypeOK' /\ UNCHANGED <<linked, want, row>>
      BY <1>1, <1>6, <3>1, Going DEF TypeOK, Verify, AtWork, Informed
    <3>3. JobOK(w) /\ job[w].pc \in Changing
      BY <1>1, <2>1 DEF Changing
    <3>. QED
      BY <1>1, <2>1, <3>1, <3>2, <3>3, Going, JobStep
         DEF JobOK, AtWork, Informed, Failure, Changing, Me
  <2>. QED
    BY <1>6, <2>2, <2>3 DEF Verify
<1>7. CASE RemoveRole(w)
  <2>1. Me(w) \in Subject /\ job[w].pc = "remove" /\ job[w].unwanted \in SUBSET Level
    BY <1>1, <1>7 DEF RemoveRole, JobOK, AtWork, Informed, Job
  <2>2. PICK l \in job[w].unwanted :
          \/ /\ roles' = [roles EXCEPT ![Me(w)] = @ \ {l}]
             /\ job' = [job EXCEPT ![w].pc = "verify",
                                  ![w].unwanted = job[w].unwanted \ {l}]
          \/ Goto(w, "gone") /\ UNCHANGED roles
    BY <1>7 DEF RemoveRole
  <2>3. CASE Goto(w, "gone") /\ UNCHANGED roles
    <3>1. TypeOK' /\ UNCHANGED <<linked, want, row>>
      BY <1>1, <1>7, <2>3, Going DEF TypeOK, RemoveRole, AtWork, Informed
    <3>. QED
      BY <1>1, <2>1, <2>3, <3>1, Going, JobStep DEF AtWork, Informed, Failure, Changing, Me
  <2>4. CASE /\ roles' = [roles EXCEPT ![Me(w)] = @ \ {l}]
             /\ job' = [job EXCEPT ![w].pc = "verify",
                                  ![w].unwanted = job[w].unwanted \ {l}]
    <3>. DEFINE f == [job EXCEPT ![w].pc = "verify"]
                S == job[w].unwanted \ {l}
    <3>1. f \in [Worker -> Job] /\ S \in SUBSET Level
      BY <1>1, <2>1, JobWrites DEF TypeOK, AtWork, Informed
    <3>2. job' = [f EXCEPT ![w].unwanted = S]
      BY <2>4
    <3>3. job' \in [Worker -> Job]
      BY <3>1, <3>2, JobWrites
    <3>4. roles' \in [Subject -> SUBSET Level]
      BY <1>1, <2>4 DEF TypeOK
    <3>5. TypeOK' /\ UNCHANGED <<linked, want, row>>
      BY <1>1, <1>7, <3>3, <3>4 DEF TypeOK, RemoveRole
    <3>6. /\ \A v \in Worker : v # w => job'[v] = job[v]
          /\ job'[w].pc = "verify" /\ job'[w].owned = job[w].owned /\ job'[w].want = job[w].want
          /\ job'[w].subject = Me(w) /\ job'[w].add = job[w].add
      BY <1>1, <2>4 DEF TypeOK, Job, Me
    <3>7. JobOK(w) /\ job[w].pc \in Changing
      BY <1>1, <2>1 DEF Changing
    <3>. QED
      BY <2>1, <3>5, <3>6, <3>7, JobStep DEF JobOK, AtWork, Informed, Failure, Changing
  <2>. QED
    BY <2>2, <2>3, <2>4
<1>8. CASE AddRole(w)
  <2>1. Me(w) \in Subject /\ job[w].pc = "add" /\ job[w].want \in Level
    BY <1>1, <1>8 DEF AddRole, JobOK, AtWork, Informed, Changing
  <2>2. PICK pc \in {"finish", "gone"} : Goto(w, pc)
    BY <1>8 DEF AddRole
  <2>3. roles' \in [Subject -> SUBSET Level]
    BY <1>1, <1>8, <2>1 DEF TypeOK, AddRole
  <2>4. TypeOK' /\ UNCHANGED <<linked, want, row>>
    BY <1>1, <1>8, <2>2, <2>3, Going DEF TypeOK, AddRole, AtWork, Informed
  <2>. QED
    BY <1>1, <2>1, <2>2, <2>4, Going, JobStep DEF AtWork, Informed, Failure, Changing, Me
<1>9. CASE Settle(w)
  <2>1. Me(w) \in Subject /\ job[w].pc \in {"finish", "gone"} \union Failure
    BY <1>1, <1>9 DEF Settle, JobOK, AtWork, Informed
  <2>2. Rest(w) \/ Advance(w)
    BY <1>9 DEF Settle
  <2>3. row' \in [Subject -> Row] /\ batch' \in [Worker -> SUBSET Subject]
    BY <1>1, <1>9, <2>1, OutcomeType, HiddenType DEF Settle, Settled, TypeOK
  <2>4. TypeOK' /\ UNCHANGED <<linked, want>>
    BY <1>1, <1>9, <2>2, <2>3, Leaving DEF TypeOK, Settle
  <2>5. CASE HoldsLease(w)
    <3>1. row' = Outcome(w)
      BY <1>9, <2>5 DEF Settle, Settled
    <3>. QED
      BY <1>1, <2>1, <2>2, <2>4, <2>5, <3>1, Leaving, CloseStep
         DEF AtWork, Informed, Failure, Changing
  <2>6. CASE ~HoldsLease(w)
    <3>1. row' = row
      BY <1>9, <2>6 DEF Settle, Settled
    <3>. QED
      BY <1>1, <2>2, <2>4, <3>1, Leaving, JobStep DEF AtWork, Informed, Failure, Changing
  <2>. QED
    BY <2>5, <2>6
<1>. QED
  BY <1>2, <1>3, <1>4, <1>5, <1>6, <1>7, <1>8, <1>9 DEF Work

LEMMA RolesType ==
    ASSUME TypeOK, NEW s,
           \/ UNCHANGED roles
           \/ \E l \in Level : roles' = [roles EXCEPT ![s] = @ \union {l}]
           \/ \E l : roles' = [roles EXCEPT ![s] = @ \ {l}]
    PROVE  roles' \in [Subject -> SUBSET Level]
<1>1. ASSUME NEW S \in SUBSET Level PROVE [roles EXCEPT ![s] = S] \in [Subject -> SUBSET Level]
  BY DEF TypeOK
<1>2. CASE UNCHANGED roles
  BY <1>2 DEF TypeOK
<1>3. ASSUME NEW l \in Level, roles' = [roles EXCEPT ![s] = @ \union {l}]
      PROVE  roles' \in [Subject -> SUBSET Level]
  BY <1>3 DEF TypeOK
<1>4. ASSUME NEW l, roles' = [roles EXCEPT ![s] = @ \ {l}]
      PROVE  roles' \in [Subject -> SUBSET Level]
  BY <1>4 DEF TypeOK
<1>. QED
  BY <1>2, <1>3, <1>4

LEMMA FaultyStep ==
    ASSUME IInv, NEW w \in Worker, Faulty(w)
    PROVE  IInv'
<1>1. TypeOK /\ JobOK(w) /\ job[w] \in Job
  BY DEF IInv, TypeOK
<1>2. Fault => faults' \in 0 .. MaxFaults
  BY <1>1 DEF Fault, TypeOK
<1>3. CASE PreflightFails(w)
  <2>1. TypeOK' /\ UNCHANGED <<linked, want, row>>
    BY <1>1, <1>2, <1>3, Leaving DEF TypeOK, PreflightFails
  <2>. QED
    BY <1>1, <1>3, <2>1, Leaving, JobStep DEF PreflightFails, AtWork, Informed, Failure, Changing
<1>4. ASSUME MayTakeEffect(w) PROVE roles' \in [Subject -> SUBSET Level]
  <2>1. job[w].pc = "add" => job[w].want \in Level
    BY <1>1 DEF JobOK, Changing
  <2>2. \/ UNCHANGED roles
        \/ \E l \in Level : roles' = [roles EXCEPT ![Me(w)] = @ \union {l}]
        \/ \E l : roles' = [roles EXCEPT ![Me(w)] = @ \ {l}]
    BY <1>4, <2>1 DEF MayTakeEffect
  <2>. QED
    BY <1>1, <2>2, RolesType
<1>5. CASE CallFails(w)
  <2>1. job[w].pc \in {"member", "remove", "add"} /\ UNCHANGED <<linked, want, row>>
    BY <1>5 DEF CallFails
  <2>2. PICK f \in Failure : Goto(w, f) /\ circuit' = (circuit \/ f = "auth")
    BY <1>5 DEF CallFails
  <2>3. f \in AtWork
    BY DEF AtWork, Informed
  <2>4. TypeOK'
    BY <1>1, <1>2, <1>4, <1>5, <2>2, <2>3, Going DEF TypeOK, CallFails
  <2>. QED
    BY <1>1, <2>1, <2>2, <2>3, <2>4, Going, JobStep DEF AtWork, Informed, Failure, Changing, Me
<1>6. CASE FinishThrows(w)
  <2>1. job[w].pc = "finish" /\ Me(w) \in Subject /\ Goto(w, "retry")
        /\ UNCHANGED <<linked, want>>
    BY <1>1, <1>6 DEF FinishThrows, JobOK, AtWork, Informed
  <2>2. "retry" \in AtWork
    BY DEF AtWork, Informed, Failure
  <2>3. CASE UNCHANGED <<row, batch>>
    <3>1. TypeOK' /\ UNCHANGED row
      BY <1>1, <1>2, <1>6, <2>2, <2>3, Going DEF TypeOK, FinishThrows
    <3>. QED
      BY <1>1, <2>1, <2>2, <3>1, Going, JobStep DEF AtWork, Informed, Failure, Changing, Me
  <2>4. CASE HoldsLease(w) /\ row' = Settled(w) /\ batch' = Hidden(Me(w))
    <3>1. row' = Outcome(w)
      BY <2>4 DEF Settled
    <3>2. row' \in [Subject -> Row] /\ batch' \in [Worker -> SUBSET Subject]
      BY <1>1, <2>1, <2>4, <3>1, OutcomeType, HiddenType
    <3>3. TypeOK'
      BY <1>1, <1>2, <1>6, <2>1, <2>2, <3>2, Going DEF TypeOK, FinishThrows
    <3>. QED
      BY <1>1, <2>1, <2>2, <2>4, <3>1, <3>3, Going, CloseStep DEF Changing, Me
  <2>. QED
    BY <1>6, <2>3, <2>4 DEF FinishThrows
<1>7. CASE Crash(w)
  <2>1. Rest(w) /\ UNCHANGED <<linked, want, row>>
    BY <1>7 DEF Crash
  <2>2. TypeOK'
    BY <1>1, <1>2, <1>4, <1>7, Leaving DEF TypeOK, Crash
  <2>. QED
    BY <1>1, <2>1, <2>2, Leaving, JobStep DEF AtWork, Informed, Failure, Changing
<1>8. ASSUME NEW s \in Subject, ClaimsLate(w, s) PROVE IInv'
  <2>1. Fresh("activity", s, row[s].owned) \in Job
    BY <1>1, FreshType DEF TypeOK, Row
  <2>2. TypeOK'
    BY <1>1, <1>2, <1>8, <2>1, JobWrites, LeasedType DEF TypeOK, ClaimsLate, Claimed
  <2>3. row' = [row EXCEPT ![s].status = "leased", ![s].holder = w, ![s].due = TRUE]
    BY <1>8 DEF ClaimsLate, Leased
  <2>. QED
    BY <1>8, <2>2, <2>3, ClaimStep DEF ClaimsLate
<1>. QED
  BY <1>3, <1>5, <1>6, <1>7, <1>8 DEF Faulty

LEMMA WebsiteStep ==
    ASSUME IInv, NEW s \in Subject, Website(s)
    PROVE  IInv'
<1>1. TypeOK
  BY DEF IInv
<1>2. Change => changes' \in 0 .. MaxChanges
  BY <1>1 DEF Change, TypeOK
<1>3. ASSUME NEW l \in 0 .. TopLevel
      PROVE  [want EXCEPT ![s] = l] \in [Subject -> 0 .. TopLevel]
  BY <1>1 DEF TypeOK
<1>4. 0 \in 0 .. TopLevel /\ \A l \in Level : l \in 0 .. TopLevel
  BY DEF Level
<1>5. ASSUME NEW owned \in BOOLEAN, Bump(s, owned), Change, UNCHANGED <<guild, roles>>,
             linked' \subseteq Subject, want' \in [Subject -> 0 .. TopLevel]
      PROVE  TypeOK'
  BY <1>1, <1>2, <1>5, BumpedType, HiddenType DEF TypeOK, Bump
<1>6. CASE Link(s)
  <2>1. PICK l \in Level : want' = [want EXCEPT ![s] = l]
    BY <1>6 DEF Link
  <2>2. TypeOK'
    BY <1>1, <1>3, <1>4, <1>5, <1>6, <2>1 DEF Link, TypeOK
  <2>. QED
    BY <1>1, <1>6, <2>1, <2>2, BumpStep DEF Link, Bump, TypeOK
<1>7. CASE Unlink(s)
  <2>1. TypeOK'
    BY <1>1, <1>3, <1>4, <1>5, <1>7 DEF Unlink, TypeOK
  <2>. QED
    BY <1>1, <1>7, <2>1, BumpStep DEF Unlink, Bump, TypeOK
<1>8. CASE Rerank(s)
  <2>1. PICK l \in 0 .. TopLevel : want' = [want EXCEPT ![s] = l]
    BY <1>8 DEF Rerank
  <2>2. TypeOK'
    BY <1>1, <1>3, <1>5, <1>8, <2>1 DEF Rerank, TypeOK
  <2>. QED
    BY <1>1, <1>8, <2>1, <2>2, BumpStep DEF Rerank, Bump, TypeOK
<1>9. CASE Purge(s)
  <2>1. Deleted("purged") \in Row
    BY DEF Deleted, Row
  <2>2. TypeOK'
    BY <1>1, <1>9, <2>1, RowWrites, HiddenType DEF TypeOK, Purge
  <2>. QED
    BY <1>9, <2>2, PurgeStep
<1>10. CASE JoinOrLeave(s)
  <2>1. TypeOK' /\ UNCHANGED <<linked, want, row, job>>
    BY <1>1, <1>2, <1>10 DEF TypeOK, JoinOrLeave
  <2>. QED
    BY <2>1 DEF IInv, LinkedHasRow, SyncedIsCurrent, Exists, JobOK, HoldsLease, Me
<1>. QED
  BY <1>6, <1>7, <1>8, <1>9, <1>10 DEF Website

LEMMA NextIInv == IInv /\ [Next]_vars => IInv'
<1>. SUFFICES ASSUME IInv, [Next]_vars PROVE IInv'
  OBVIOUS
<1>1. TypeOK
  BY DEF IInv
<1>2. ASSUME NEW w \in Worker, Work(w) \/ Faulty(w) PROVE IInv'
  BY <1>2, WorkStep, FaultyStep
<1>3. ASSUME NEW s \in Subject, Website(s) PROVE IInv'
  BY <1>3, WebsiteStep
<1>4. ASSUME NEW s \in Subject, Elapse(s) \/ Outlives(s) PROVE IInv'
  <2>1. row' = [row EXCEPT ![s].due = TRUE] /\ UNCHANGED <<linked, want, job>>
    BY <1>4 DEF Elapse, Outlives
  <2>2. faults' \in 0 .. MaxFaults
    BY <1>1, <1>4 DEF Elapse, Outlives, Fault, TypeOK
  <2>3. row' \in [Subject -> Row]
    BY <1>1, <2>1, FieldWrites DEF TypeOK
  <2>4. TypeOK'
    BY <1>1, <1>4, <2>2, <2>3 DEF TypeOK, Elapse, Outlives
  <2>. QED
    BY <2>1, <2>4, DueStep
<1>5. CASE CircuitElapses
  <2>1. TypeOK' /\ UNCHANGED <<linked, want, row, job>>
    BY <1>1, <1>5 DEF TypeOK, CircuitElapses
  <2>. QED
    BY <2>1 DEF IInv, LinkedHasRow, SyncedIsCurrent, Exists, JobOK, HoldsLease, Me
<1>6. CASE UNCHANGED vars
  BY <1>6 DEF vars, IInv, TypeOK, LinkedHasRow, SyncedIsCurrent, Exists, JobOK, HoldsLease, Me
<1>. QED
  BY <1>2, <1>3, <1>4, <1>5, <1>6 DEF Next

LEMMA Invariance == Spec => []IInv
BY InitIInv, NextIInv, PTL DEF Spec

-----------------------------------------------------------------------------
(* Results.                                                                *)

\* Rows, members and invocations keep their shape, for any number of them.
THEOREM TypeCorrect == Spec => []TypeOK
<1>1. IInv => TypeOK
  BY DEF IInv
<1>. QED
  BY <1>1, Invariance, PTL

\* However many invocations overlap, crash or outlive their leases, no row is
\* marked synced with a rank that has changed since (finishSuccess).
THEOREM SyncedStaysCurrent == Spec => []SyncedIsCurrent
<1>1. IInv => SyncedIsCurrent
  BY DEF IInv
<1>. QED
  BY <1>1, Invariance, PTL

\* A linked identity always has the row of its account, so that its next change
\* of rank finds one to raise, whatever stale cleanup is under way.
THEOREM LinkedKeepsRow == Spec => []LinkedHasRow
<1>1. IInv => LinkedHasRow
  BY DEF IInv
<1>. QED
  BY <1>1, Invariance, PTL

\* What the page shows of a linked account, from the two invariants above and
\* the eight states a row can be in.
LEMMA PageFromRow ==
    TypeOK /\ SyncedIsCurrent /\ LinkedHasRow => PageTellsTheTruth
<1>. SUFFICES ASSUME TypeOK, SyncedIsCurrent, LinkedHasRow, NEW s \in linked
              PROVE  /\ Shown(s).status = "synced" => Shown(s).applied = Shown(s).desired
                     /\ Shown(s).status = "failed" => row[s].status \in {"failed", "terminal"}
  BY DEF PageTellsTheTruth
<1>1. s \in Subject /\ row[s] \in Row
  BY DEF TypeOK
<1>2. row[s].status \in {"pending", "leased", "synced", "not_in_guild", "failed", "terminal"}
  BY <1>1 DEF LinkedHasRow, Exists, Row
<1>3. Shown(s).status = "synced" => row[s].status = "synced"
  BY <1>2 DEF Shown, ShownStatus
<1>4. Shown(s).status = "failed" => row[s].status \in {"failed", "terminal"}
  BY <1>2 DEF Shown, ShownStatus
<1>5. Shown(s).applied = row[s].applied /\ Shown(s).desired = want[s]
  BY DEF Shown
<1>. QED
  BY <1>1, <1>3, <1>4, <1>5 DEF SyncedIsCurrent

\* What a member reads of the synchronisation is true, for any number of
\* invocations, identities and ranks: "synced" only when the rank desired is the
\* rank applied, "failed" only when it did fail (getDiscordRankSyncStatus).
THEOREM PagesTellTheTruth == Spec => []PageTellsTheTruth
<1>1. IInv => PageTellsTheTruth
  BY PageFromRow DEF IInv
<1>. QED
  BY <1>1, Invariance, PTL
=============================================================================
