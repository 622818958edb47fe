---------------------------- MODULE ReviewProofs ----------------------------
(***************************************************************************)
(* Proofs about the reviews of Community: requests that write what they    *)
(* have read a moment ago never hold out a decided revision for            *)
(* moderation, and the ways to count the ratings of a family agree.        *)
(***************************************************************************)
EXTENDS IntakeProofs

USE ReportsConstants, ReviewsConstants

-----------------------------------------------------------------------------
(* The inductive invariant. *)

WrittenKeys == {k \in Key : Written(k)}

\* The id of a row says whether it was written; what it holds out is undecided
\* and held out by no other row; its report is there.
RowsOK ==
    /\ review \in [Key -> ReviewRow]
    /\ revision \in [Revision -> {"unused", "Pending", "Approved", "Rejected"}]
    /\ \A k \in Key : /\ Written(k) <=> review[k].id # 0
                      /\ ~Written(k) => review[k].pending = 0
                      /\ review[k].pending # 0 => revision[review[k].pending] = "Pending"
                      /\ Written(k) => Exists(k[2])
    /\ \A k, l \in Key : review[k].pending = review[l].pending /\ review[k].pending # 0 => k = l

\* A request knows a revision that is in use; a row that still holds it out is
\* the one the request has read.
CallOK(q) ==
    /\ q.pc # "idle" => q.key \in Key
    /\ q.pc = "moderate" => q.id # 0 /\ q.pending # 0
    /\ q.pending # 0 => revision[q.pending] # "unused"
    /\ \A l \in Key : q.pending # 0 /\ review[l].pending = q.pending => l = q.key
CallsOK ==
    /\ call \in [Client -> Call]
    /\ \A c \in Client : CallOK(call[c])

OrderOK == IsFiniteSet(WrittenKeys) /\ IsOrderOf(WrittenKeys)

TallyOf(r) == Tally(review, Count(review, r))
TalliesOK == tally = [r \in Report |-> TallyOf(r)]

ReviewInv ==
    /\ RowsOK
    /\ CallsOK
    /\ OrderOK
    /\ TalliesOK
    /\ gone \subseteq Member

LEMMA ReviewInvShowsQueue == ReviewInv => QueueIsUndecided
BY DEF ReviewInv, RowsOK, QueueIsUndecided

-----------------------------------------------------------------------------
(* Sums. *)

\* The sum over the keys looks at the numbers shown and nothing else.
LEMMA RatingsLookAtShown ==
    ASSUME NEW rows, NEW others, NEW keys, \A k \in keys : rows[k].shown = others[k].shown
    PROVE  Tally(rows, keys) = Tally(others, keys)
<1>1. [k \in keys |-> rows[k].shown] = [k \in keys |-> others[k].shown]
  OBVIOUS
<1>2. Ratings(rows, keys) = Ratings(others, keys)
  BY <1>1 DEF Ratings
<1>. QED
  BY <1>2 DEF Tally

\* The sum of no numbers.
LEMMA EmptyTally ==
    ASSUME NEW rows
    PROVE  Tally(rows, {}) = [count |-> 0, sum |-> 0]
<1>. DEFINE numbers == [k \in {} |-> rows[k].shown]
            least(s) == CHOOSE x \in s : TRUE
            Iters(f) == f = [s \in SUBSET {} |-> IF s = {} THEN 0 ELSE numbers[least(s)] + f[s \ {least(s)}]]
            iter == CHOOSE f : Iters(f)
            zero == [s \in SUBSET {} |-> 0]
<1>1. Iters(zero)
  OBVIOUS
<1>2. Iters(iter)
  <2>. HIDE DEF Iters
  <2>. QED
    BY <1>1
<1>3. iter[{}] = 0
  <2>1. iter = [s \in SUBSET {} |-> IF s = {} THEN 0 ELSE numbers[least(s)] + iter[s \ {least(s)}]]
    BY <1>2
  <2>. HIDE DEF iter
  <2>. QED
    BY <2>1
<1>4. Sum(numbers) = iter[{}]
  BY DEF Sum, FoldFunction, FoldFunctionOnSet, MapThenFoldSet
<1>5. Cardinality({}) = 0
  BY FS_EmptySet
<1>. QED
  BY <1>3, <1>4, <1>5 DEF Tally, Ratings

\* The sum of finitely many numbers is a number: the fold is defined on every
\* subset, and its value there is a number, the smaller subsets first.
LEMMA SumIsNatural ==
    ASSUME NEW S, IsFiniteSet(S), NEW g \in [S -> Nat]
    PROVE  Sum(g) \in Nat
<1>. DEFINE pick(s) == CHOOSE x \in s : TRUE
            Level(n) == {s \in SUBSET S : Cardinality(s) <= n}
            Add(f, s) == IF s = {} THEN 0 ELSE g[pick(s)] + f[s \ {pick(s)}]
            Fold(f, n) == f = [s \in Level(n) |-> Add(f, s)]
            Iter(f) == f = [s \in SUBSET S |-> Add(f, s)]
            iter == CHOOSE f : Iter(f)
<1>1. \A s \in SUBSET S : IsFiniteSet(s) /\ Cardinality(s) \in Nat /\ (Cardinality(s) = 0 <=> s = {})
  BY FS_Subset, FS_CardinalityType, FS_EmptySet
<1>2. ASSUME NEW s \in SUBSET S, s # {}
      PROVE  /\ pick(s) \in s /\ g[pick(s)] \in Nat
             /\ s \ {pick(s)} \in SUBSET S
             /\ Cardinality(s \ {pick(s)}) = Cardinality(s) - 1 /\ Cardinality(s) > 0
  <2>1. pick(s) \in s
    BY <1>2
  <2>. DEFINE x == pick(s)
  <2>. HIDE DEF x
  <2>2. Cardinality(s \ {x}) = Cardinality(s) - 1
    BY <1>1, <2>1, FS_RemoveElement DEF x
  <2>3. Cardinality(s) > 0
    BY <1>1, <1>2
  <2>. QED
    BY <2>1, <2>2, <2>3 DEF x
<1>. HIDE DEF pick
<1>3. ASSUME NEW n \in Nat PROVE \E f \in [Level(n) -> Nat] : Fold(f, n)
  <2>. DEFINE bad == {m \in Nat : ~\E f \in [Level(m) -> Nat] : Fold(f, m)}
  <2>1. SUFFICES ASSUME bad # {} PROVE FALSE
    BY <2>1
  <2>2. PICK m \in bad : \A k \in bad : m <= k
    <3>1. bad \in SUBSET Nat
      OBVIOUS
    <3>. HIDE DEF bad
    <3>. QED
      BY <2>1, <3>1, LeastExists
  <2>3. CASE m = 0
    <3>. DEFINE h == [s \in Level(0) |-> 0]
    <3>1. \A s \in Level(0) : s = {}
      BY <1>1
    <3>2. h \in [Level(0) -> Nat] /\ Fold(h, 0)
      BY <3>1
    <3>. QED
      BY <2>3, <3>2
  <2>4. CASE m # 0
    <3>1. m - 1 \in Nat /\ m - 1 \notin bad
      <4>1. m \in Nat
        OBVIOUS
      <4>2. m - 1 \in Nat /\ ~(m <= m - 1)
        BY <2>4, <4>1
      <4>. HIDE DEF bad
      <4>. QED
        BY <2>2, <4>2
    <3>2. PICK f \in [Level(m - 1) -> Nat] : Fold(f, m - 1)
      BY <3>1
    <3>. DEFINE h == [s \in Level(m) |-> Add(f, s)]
    <3>3. ASSUME NEW s \in Level(m), s # {} PROVE s \ {pick(s)} \in Level(m - 1) /\ Add(f, s) \in Nat
      <4>1. s \ {pick(s)} \in Level(m - 1)
        BY <1>1, <1>2, <3>1, <3>3
      <4>. QED
        BY <1>2, <3>3, <4>1
    <3>4. h \in [Level(m) -> Nat]
      BY <3>3
    <3>5. Level(m - 1) \subseteq Level(m)
      BY <1>1, <3>1
    <3>6. \A t \in Level(m - 1) : h[t] = f[t]
      <4>1. \A t \in Level(m - 1) : f[t] = Add(f, t)
        <5>. HIDE DEF Add, Level
        <5>. QED
          BY <3>2
      <4>2. \A t \in Level(m) : h[t] = Add(f, t)
        BY DEF h
      <4>. HIDE DEF h, Level, Add
      <4>. QED
        BY <3>5, <4>1, <4>2
    <3>7. \A s \in Level(m) : Add(f, s) = Add(h, s)
      <4>. HIDE DEF h, Level
      <4>. QED
        BY <3>3, <3>6
    <3>8. Fold(h, m)
      <4>. HIDE DEF Level, Add
      <4>. QED
        BY <3>7
    <3>. HIDE DEF h, Fold, Level
    <3>. QED
      BY <3>4, <3>8
  <2>. QED
    BY <2>3, <2>4
<1>4. Iter(iter)
  <2>1. Cardinality(S) \in Nat
    BY <1>1
  <2>2. Level(Cardinality(S)) = SUBSET S
    BY FS_Subset
  <2>3. \E f : Fold(f, Cardinality(S))
    BY <1>3, <2>1
  <2>. HIDE DEF Level, Add
  <2>4. \E f : Iter(f)
    BY <2>2, <2>3
  <2>. HIDE DEF Iter
  <2>. QED
    BY <2>4
<1>5. \A s \in SUBSET S : iter[s] = Add(iter, s)
  <2>1. iter = [s \in SUBSET S |-> Add(iter, s)]
    BY <1>4
  <2>. HIDE DEF iter, Add
  <2>. QED
    BY <2>1
<1>. HIDE DEF iter
<1>6. iter[S] \in Nat
  <2>. DEFINE odd == {s \in SUBSET S : iter[s] \notin Nat}
              bad == {Cardinality(s) : s \in odd}
  <2>1. SUFFICES ASSUME bad # {} PROVE FALSE
    BY <2>1
  <2>2. PICK m \in bad : \A k \in bad : m <= k
    <3>1. bad \in SUBSET Nat
      BY <1>1
    <3>. HIDE DEF bad
    <3>. QED
      BY <2>1, <3>1, LeastExists
  <2>3. PICK s \in odd : m = Cardinality(s)
    OBVIOUS
  <2>6. s \in SUBSET S /\ iter[s] \notin Nat
    OBVIOUS
  <2>4. s # {}
    <3>1. {} \in SUBSET S
      OBVIOUS
    <3>2. iter[{}] = 0
      BY <1>5, <3>1
    <3>. QED
      BY <2>6, <3>2
  <2>5. iter[s \ {pick(s)}] \in Nat
    <3>1. Cardinality(s \ {pick(s)}) < m
      BY <1>1, <1>2, <2>3, <2>4, <2>6
    <3>2. Cardinality(s \ {pick(s)}) \in bad \/ iter[s \ {pick(s)}] \in Nat
      BY <1>2, <2>4, <2>6
    <3>3. Cardinality(s \ {pick(s)}) \in Nat /\ m \in Nat
      BY <1>1, <1>2, <2>3, <2>4, <2>6
    <3>. HIDE DEF bad
    <3>. QED
      BY <2>2, <3>1, <3>2, <3>3
  <2>. QED
    BY <1>2, <1>5, <2>4, <2>5, <2>6
<1>7. Sum(g) = iter[S]
  BY DEF Sum, FoldFunction, FoldFunctionOnSet, MapThenFoldSet, iter, Iter, Add, pick
<1>. QED
  BY <1>6, <1>7

-----------------------------------------------------------------------------
(* What a write does to counters and order. *)

\* The triggers count the report whose reviews have changed.
LEMMA TalliesAfter ==
    ASSUME TalliesOK, NEW r \in Report, tally' = [tally EXCEPT ![r] = Tally(review', Count(review', r))],
           \A k \in Key : k[2] # r => review'[k].status = review[k].status /\ review'[k].shown = review[k].shown
    PROVE  TalliesOK'
<1>1. ASSUME NEW s \in Report, s # r PROVE tally'[s] = Tally(review', Count(review', s))
  <2>1. Count(review', s) = Count(review, s)
    BY <1>1 DEF Count
  <2>2. \A k \in Count(review, s) : review'[k].shown = review[k].shown
    BY <1>1 DEF Count
  <2>3. tally'[s] = Tally(review, Count(review, s))
    BY <1>1 DEF TalliesOK, TallyOf
  <2>. DEFINE keys == Count(review, s)
  <2>4. \A k \in keys : review[k].shown = review'[k].shown
    BY <2>2
  <2>. HIDE DEF keys
  <2>5. Tally(review, keys) = Tally(review', keys)
    BY <2>4, RatingsLookAtShown
  <2>. QED
    BY <2>1, <2>3, <2>5 DEF keys
<1>2. tally'[r] = Tally(review', Count(review', r))
  BY DEF TalliesOK
<1>3. DOMAIN tally' = Report /\ tally' = [s \in DOMAIN tally' |-> tally'[s]]
  BY DEF TalliesOK
<1>. QED
  BY <1>1, <1>2, <1>3 DEF TalliesOK, TallyOf

\* Nothing that is counted has changed.
LEMMA TalliesStay ==
    ASSUME TalliesOK, UNCHANGED tally,
           \A k \in Key : review'[k].status = review[k].status /\ review'[k].shown = review[k].shown
    PROVE  TalliesOK'
<1>1. ASSUME NEW s \in Report PROVE TallyOf(s) = TallyOf(s)'
  <2>1. Count(review', s) = Count(review, s)
    BY DEF Count
  <2>. DEFINE keys == Count(review, s)
  <2>2. \A k \in keys : review[k].shown = review'[k].shown
    BY DEF Count
  <2>. HIDE DEF keys
  <2>3. Tally(review, keys) = Tally(review', keys)
    BY <2>2, RatingsLookAtShown
  <2>. QED
    BY <2>1, <2>3 DEF keys, TallyOf
<1>. QED
  BY <1>1 DEF TalliesOK

LEMMA OrderStays ==
    ASSUME OrderOK, UNCHANGED after, \A k \in Key : Written(k)' <=> Written(k)
    PROVE  OrderOK'
<1>1. WrittenKeys' = WrittenKeys
  BY DEF WrittenKeys
<1>. QED
  BY <1>1 DEF OrderOK, IsOrderOf

LEMMA OrderAfterTouch ==
    ASSUME OrderOK, NEW k \in Key, Touch(k), Written(k)',
           \A l \in Key : l # k => (Written(l)' <=> Written(l))
    PROVE  OrderOK'
<1>1. WrittenKeys' = WrittenKeys \union {k}
  BY DEF WrittenKeys
<1>2. IsFiniteSet(WrittenKeys')
  BY <1>1, FS_AddElement DEF OrderOK
<1>3. \A p : p \in after' <=> \/ p \in after /\ k \notin {p[1], p[2]}
                              \/ p \in {k} \X (WrittenKeys \ {k})
  <2>1. {l \in Key \ {k} : Written(l)} = WrittenKeys \ {k}
    BY DEF WrittenKeys
  <2>. QED
    BY <2>1 DEF Touch
<1>4. after' \subseteq WrittenKeys' \X WrittenKeys'
  BY <1>1, <1>3 DEF OrderOK, IsOrderOf
<1>5. \A l, m : <<l, m>> \in after' <=> \/ <<l, m>> \in after /\ l # k /\ m # k
                                        \/ l = k /\ m \in WrittenKeys \ {k}
  BY <1>3
<1>. DEFINE new == after'
            keys == WrittenKeys'
<1>6. new \subseteq keys \X keys
  BY <1>4
<1>7. \A l \in keys : <<l, l>> \notin new
  BY <1>1, <1>5 DEF OrderOK, IsOrderOf
<1>8. \A l, m \in keys : l = m \/ <<l, m>> \in new \/ <<m, l>> \in new
  BY <1>1, <1>5 DEF OrderOK, IsOrderOf
<1>9. \A l, m, n \in keys : <<l, m>> \in new /\ <<m, n>> \in new => <<l, n>> \in new
  BY <1>1, <1>5 DEF OrderOK, IsOrderOf
<1>. QED
  BY <1>2, <1>6, <1>7, <1>8, <1>9 DEF OrderOK, IsOrderOf

LEMMA OrderAfterDrop ==
    ASSUME OrderOK, NEW keys, DropReviews(keys)
    PROVE  OrderOK'
<1>1. WrittenKeys' = WrittenKeys \ keys
  BY DEF DropReviews, WrittenKeys, Written, NoReview
<1>2. IsFiniteSet(WrittenKeys')
  BY <1>1, FS_Subset DEF OrderOK
<1>3. \A p : p \in after' <=> p \in after /\ p[1] \notin keys /\ p[2] \notin keys
  BY DEF DropReviews
<1>. DEFINE new == after'
            rest == WrittenKeys'
<1>4. new \subseteq rest \X rest
  BY <1>1, <1>3 DEF OrderOK, IsOrderOf
<1>5. \A l, m \in rest : <<l, m>> \in new <=> <<l, m>> \in after
  BY <1>1, <1>3
<1>6. \A l \in rest : <<l, l>> \notin new
  BY <1>1, <1>5 DEF OrderOK, IsOrderOf
<1>7. \A l, m \in rest : l = m \/ <<l, m>> \in new \/ <<m, l>> \in new
  BY <1>1, <1>5 DEF OrderOK, IsOrderOf
<1>8. \A l, m, n \in rest : <<l, m>> \in new /\ <<m, n>> \in new => <<l, n>> \in new
  BY <1>1, <1>5 DEF OrderOK, IsOrderOf
<1>. QED
  BY <1>2, <1>4, <1>6, <1>7, <1>8 DEF OrderOK, IsOrderOf

-----------------------------------------------------------------------------
(* Rows. *)

LEMMA RowFields ==
    ASSUME NEW q \in ReviewRow
    PROVE  /\ \A x \in {"Pending", "Approved", "Rejected"} :
                 LET p == [q EXCEPT !.status = x]
                 IN  p \in ReviewRow /\ p.status = x /\ p.id = q.id /\ p.pending = q.pending
           /\ \A x \in 0 .. MaxRevision :
                 LET p == [q EXCEPT !.shown = x]
                 IN  p \in ReviewRow /\ p.status = q.status /\ p.id = q.id /\ p.pending = q.pending
           /\ \A x \in 0 .. MaxRevision :
                 LET p == [q EXCEPT !.approved = x]
                 IN  p \in ReviewRow /\ p.status = q.status /\ p.id = q.id /\ p.pending = q.pending
           /\ \A x \in 0 .. MaxRevision :
                 LET p == [q EXCEPT !.pending = x]
                 IN  p \in ReviewRow /\ p.status = q.status /\ p.id = q.id /\ p.pending = x
<1>1. ASSUME NEW x \in {"Pending", "Approved", "Rejected"}
      PROVE  LET p == [q EXCEPT !.status = x]
             IN  p \in ReviewRow /\ p.status = x /\ p.id = q.id /\ p.pending = q.pending
  BY DEF ReviewRow
<1>2. ASSUME NEW x \in 0 .. MaxRevision
      PROVE  LET p == [q EXCEPT !.shown = x]
             IN  p \in ReviewRow /\ p.status = q.status /\ p.id = q.id /\ p.pending = q.pending
  BY DEF ReviewRow
<1>3. ASSUME NEW x \in 0 .. MaxRevision
      PROVE  LET p == [q EXCEPT !.approved = x]
             IN  p \in ReviewRow /\ p.status = q.status /\ p.id = q.id /\ p.pending = q.pending
  BY DEF ReviewRow
<1>4. ASSUME NEW x \in 0 .. MaxRevision
      PROVE  LET p == [q EXCEPT !.pending = x]
             IN  p \in ReviewRow /\ p.status = q.status /\ p.id = q.id /\ p.pending = x
  BY DEF ReviewRow
<1>. QED
  BY <1>1, <1>2, <1>3, <1>4

LEMMA NoReviewRow ==
    NoReview \in ReviewRow /\ NoReview.status = "none" /\ NoReview.id = 0 /\ NoReview.pending = 0
BY DEF NoReview, ReviewRow

\* The row that createReview's batch leaves.
LEMMA SubmittedRow ==
    ASSUME NEW row \in ReviewRow, NEW q \in Call, NEW n \in Revision,
           q.id # 0 => row.id = q.id /\ row.status # "none"
    PROVE  /\ Submitted(row, q, n) \in ReviewRow
           /\ Submitted(row, q, n).status # "none"
           /\ Submitted(row, q, n).pending = n
           /\ Submitted(row, q, n).id # 0
<1>. DEFINE first == [status |-> "Pending", owned |-> TRUE, id |-> n, shown |-> n, approved |-> 0, pending |-> n]
            next == [row EXCEPT !.pending = n]
            q1 == [row EXCEPT !.status = "Pending"]
            q2 == [q1 EXCEPT !.shown = n]
            q3 == [q2 EXCEPT !.pending = n]
<1>1. n \in 0 .. MaxRevision /\ n # 0
  BY DEF Revision
<1>2. first \in ReviewRow /\ first.status = "Pending" /\ first.pending = n /\ first.id = n
  BY <1>1 DEF ReviewRow
<1>3. next \in ReviewRow /\ next.status = row.status /\ next.pending = n /\ next.id = row.id
  BY <1>1, RowFields
<1>4. q1 \in ReviewRow /\ q1.status = "Pending" /\ q1.id = row.id
  BY RowFields
<1>. HIDE DEF q1
<1>5. q2 \in ReviewRow /\ q2.status = "Pending" /\ q2.id = row.id
  BY <1>1, <1>4, SMTT(30) DEF ReviewRow
<1>. HIDE DEF q2
<1>6. q3 \in ReviewRow /\ q3.status = "Pending" /\ q3.id = row.id /\ q3.pending = n
  BY <1>1, <1>5, SMTT(30) DEF ReviewRow
<1>7. [row EXCEPT !.status = "Pending", !.shown = n, !.pending = n] = q3
  BY DEF q1, q2
<1>. HIDE DEF first, next, q3
<1>8. CASE q.id = 0
  <2>1. Submitted(row, q, n) = first
    BY <1>8 DEF Submitted, first
  <2>. QED
    BY <1>1, <1>2, <2>1
<1>9. CASE q.id # 0 /\ q.approved # 0
  <2>1. Submitted(row, q, n) = next
    BY <1>9 DEF Submitted, next
  <2>. QED
    BY <1>3, <1>9, <2>1
<1>10. CASE q.id # 0 /\ q.approved = 0
  <2>1. Submitted(row, q, n) = q3
    BY <1>7, <1>10 DEF Submitted
  <2>. QED
    BY <1>6, <1>10, <2>1
<1>. QED
  BY <1>8, <1>9, <1>10

\* The row that a decision leaves: it holds out nothing.
LEMMA DecidedRow ==
    ASSUME NEW row \in ReviewRow, NEW q \in Call, NEW verdict \in {"Approved", "Rejected"}
    PROVE  /\ Decided(row, q, verdict) \in ReviewRow
           /\ Decided(row, q, verdict).status # "none"
           /\ Decided(row, q, verdict).pending = 0
           /\ Decided(row, q, verdict).id = row.id
<1>. DEFINE n == q.pending
            q1 == [row EXCEPT !.shown = n]
            q2 == [q1 EXCEPT !.status = "Approved"]
            q3 == [q2 EXCEPT !.approved = n]
            q4 == [q3 EXCEPT !.pending = 0]
            r1 == [row EXCEPT !.pending = 0]
            r2 == [r1 EXCEPT !.status = "Approved"]
            r3 == [r1 EXCEPT !.status = "Rejected"]
            zero == 0
<1>1. n \in 0 .. MaxRevision /\ zero \in 0 .. MaxRevision
  BY DEF Call
<1>. HIDE DEF n
<1>2. q1 \in ReviewRow /\ q1.id = row.id
  BY <1>1, RowFields
<1>. HIDE DEF q1
<1>3. q2 \in ReviewRow /\ q2.status = "Approved" /\ q2.id = row.id
  BY <1>2, RowFields
<1>. HIDE DEF q2
<1>4. q3 \in ReviewRow /\ q3.status = "Approved" /\ q3.id = row.id
  BY <1>1, <1>3, SMTT(30) DEF ReviewRow
<1>. HIDE DEF q3
<1>5. q4 \in ReviewRow /\ q4.status = "Approved" /\ q4.id = row.id /\ q4.pending = 0
  BY <1>1, <1>4, SMTT(30) DEF ReviewRow
<1>6. r1 \in ReviewRow /\ r1.id = row.id /\ r1.pending = 0
  BY <1>1, RowFields
<1>. HIDE DEF r1
<1>7. r2 \in ReviewRow /\ r2.status = "Approved" /\ r2.id = row.id /\ r2.pending = 0
  BY <1>6, RowFields
<1>8. r3 \in ReviewRow /\ r3.status = "Rejected" /\ r3.id = row.id /\ r3.pending = 0
  BY <1>6, RowFields
<1>9. CASE verdict = "Approved"
  <2>1. Decided(row, q, verdict) = q4
    BY <1>9 DEF Decided, n, q1, q2, q3
  <2>. QED
    BY <1>5, <2>1
<1>10. CASE verdict = "Rejected" /\ q.approved # 0
  <2>1. Decided(row, q, verdict) = r2
    BY <1>10 DEF Decided, r1
  <2>. QED
    BY <1>7, <2>1
<1>11. CASE verdict = "Rejected" /\ q.approved = 0
  <2>1. Decided(row, q, verdict) = r3
    BY <1>11 DEF Decided, r1
  <2>. QED
    BY <1>8, <2>1
<1>. QED
  BY <1>9, <1>10, <1>11

-----------------------------------------------------------------------------
(* Steps of a request that only read. *)

LEMMA IdleCall == NoCall \in Call /\ NoCall.pc = "idle" /\ NoCall.pending = 0
BY DEF NoCall, Call

LEMMA CallsStayOK ==
    ASSUME CallsOK, NEW c \in Client, NEW q \in Call, CallOK(q), call' = [call EXCEPT ![c] = q],
           UNCHANGED <<review, revision>>
    PROVE  CallsOK'
BY DEF CallsOK, CallOK

LEMMA RowsStay ==
    ASSUME RowsOK, UNCHANGED <<review, revision, report>>
    PROVE  RowsOK'
BY DEF RowsOK, Written, Exists

LEMMA OnlyCallMoves ==
    ASSUME ReviewInv, NEW c \in Client, NEW q \in Call, CallOK(q), call' = [call EXCEPT ![c] = q],
           UNCHANGED <<review, revision, after, tally, gone, report>>
    PROVE  ReviewInv'
BY CallsStayOK, RowsStay, OrderStays, TalliesStay DEF ReviewInv, Written

LEMMA BeginReviewStep ==
    ASSUME FamilyInv, ReviewInv, NEW c \in Client, ReviewBegin(c), UNCHANGED report
    PROVE  ReviewInv'
<1>1. PICK m \in Member \ gone, r \in Report :
          /\ ResolvesTo(r) # None
          /\ call' = [call EXCEPT ![c] = [NoCall EXCEPT !.pc = "review", !.key = <<m, ResolvesTo(r)>>]]
          /\ UNCHANGED <<review, revision, after, tally, gone>>
  BY DEF ReviewBegin
<1>. DEFINE k == <<m, ResolvesTo(r)>>
            n == NoCall
            q1 == [n EXCEPT !.pc = "review"]
            q == [q1 EXCEPT !.key = k]
<1>2. k \in Key
  BY <1>1, ResolvesToListed DEF Key, Listed
<1>. HIDE DEF k
<1>3. n \in Call /\ n.pending = 0
  BY IdleCall
<1>. HIDE DEF n
<1>4. q1 \in Call /\ q1.pc = "review" /\ q1.pending = 0
  BY <1>3 DEF Call
<1>. HIDE DEF q1
<1>7. q \in Call /\ q.pc = "review" /\ q.key = k /\ q.pending = 0
  BY <1>2, <1>4 DEF Call
<1>5. call' = [call EXCEPT ![c] = q]
  BY <1>1 DEF k, q1, n
<1>. HIDE DEF q
<1>6. CallOK(q)
  BY <1>2, <1>7 DEF CallOK
<1>. QED
  BY <1>1, <1>5, <1>6, <1>7, OnlyCallMoves

LEMMA ReadReviewStep ==
    ASSUME ReviewInv, NEW c \in Client, ReviewRead(c), UNCHANGED report
    PROVE  ReviewInv'
<1>. DEFINE k == call[c].key
            row == review[k]
            found == IF row.owned THEN row ELSE NoReview
            i == found.id
            a == found.approved
            n == found.pending
            q0 == call[c]
            q1 == [q0 EXCEPT !.pc = "write"]
            q2 == [q1 EXCEPT !.id = i]
            q3 == [q2 EXCEPT !.approved = a]
            q == [q3 EXCEPT !.pending = n]
<1>1. k \in Key /\ q0 \in Call
  BY DEF ReviewInv, CallsOK, CallOK, ReviewRead
<1>2. row \in ReviewRow
  BY <1>1 DEF ReviewInv, RowsOK
<1>3. found \in ReviewRow /\ (found.pending # 0 => found.pending = row.pending)
  BY <1>2, NoReviewRow
<1>4. call' = [call EXCEPT ![c] = q]
  BY <1>1 DEF ReviewRead, ReviewInv, CallsOK
<1>5. i \in 0 .. MaxRevision /\ a \in 0 .. MaxRevision /\ n \in 0 .. MaxRevision
  BY <1>3 DEF ReviewRow
<1>. HIDE DEF found, i, a, n
<1>6. q1 \in Call /\ q1.pc = "write" /\ q1.key = k
  BY <1>1 DEF Call
<1>. HIDE DEF q1
<1>7. q2 \in Call /\ q2.pc = "write" /\ q2.key = k
  BY <1>5, <1>6 DEF Call
<1>. HIDE DEF q2
<1>10. q3 \in Call /\ q3.pc = "write" /\ q3.key = k
  BY <1>5, <1>7 DEF Call
<1>. HIDE DEF q3
<1>11. q \in Call /\ q.pc = "write" /\ q.key = k /\ q.pending = n
  BY <1>5, <1>10 DEF Call
<1>. HIDE DEF q, k
<1>8. q \in Call /\ q.pc = "write" /\ q.key = k /\ q.pending = found.pending
  BY <1>11 DEF n
<1>9. CallOK(q)
  <2>1. found.pending # 0 => revision[found.pending] = "Pending"
    BY <1>1, <1>3, <1>2 DEF row, ReviewInv, RowsOK
  <2>2. \A l \in Key : found.pending # 0 /\ review[l].pending = found.pending => l = k
    BY <1>1, <1>3 DEF row, ReviewInv, RowsOK
  <2>. QED
    BY <1>1, <1>8, <2>1, <2>2 DEF CallOK
<1>. QED
  BY <1>4, <1>8, <1>9, OnlyCallMoves DEF ReviewRead

LEMMA ReadPendingStep ==
    ASSUME ReviewInv, NEW c \in Client, ModerateRead(c), UNCHANGED report
    PROVE  ReviewInv'
<1>1. PICK k \in Key :
          /\ Written(k) /\ review[k].pending # 0
          /\ call' = [call EXCEPT ![c] = [pc |-> "moderate", key |-> k, id |-> review[k].id,
                                          approved |-> review[k].approved, pending |-> review[k].pending]]
          /\ UNCHANGED <<review, revision, after, tally, gone>>
  BY DEF ModerateRead
<1>. DEFINE row == review[k]
            q == [pc |-> "moderate", key |-> k, id |-> row.id, approved |-> row.approved, pending |-> row.pending]
<1>2. row \in ReviewRow
  BY DEF ReviewInv, RowsOK
<1>3. row.id \in 0 .. MaxRevision /\ row.approved \in 0 .. MaxRevision /\ row.pending \in 0 .. MaxRevision
  BY <1>2 DEF ReviewRow
<1>4. q \in Call /\ q.pc = "moderate" /\ q.key = k /\ q.id = row.id /\ q.pending = row.pending
  BY <1>3 DEF Call
<1>5. /\ row.id # 0 /\ row.pending # 0 /\ revision[row.pending] # "unused"
      /\ \A l \in Key : review[l].pending = row.pending => l = k
  BY <1>1 DEF ReviewInv, RowsOK
<1>6. call' = [call EXCEPT ![c] = q]
  BY <1>1
<1>. HIDE DEF q
<1>7. CallOK(q)
  BY <1>4, <1>5 DEF CallOK
<1>. QED
  BY <1>1, <1>4, <1>6, <1>7, OnlyCallMoves

-----------------------------------------------------------------------------
(* Steps that write. *)

\* The write of one row at the end of a request.  What the row holds out is
\* either nothing or a revision nobody knew.
LEMMA RowWritten ==
    ASSUME ReviewInv, NEW c \in Client, NEW k \in Key, NEW row \in ReviewRow,
           row.status # "none", row.id # 0, Exists(k[2]),
           review' = [review EXCEPT ![k] = row], Touch(k), Recount(review', k[2]),
           Hangup(c), UNCHANGED <<gone, report>>,
           revision' \in [Revision -> {"unused", "Pending", "Approved", "Rejected"}],
           row.pending # 0 => revision[row.pending] = "unused" /\ revision'[row.pending] = "Pending",
           \A n \in Revision : revision'[n] = "unused" => revision[n] = "unused",
           \A l \in Key : l # k /\ review[l].pending # 0 => revision'[review[l].pending] = "Pending"
    PROVE  ReviewInv'
<1>1. /\ review \in [Key -> ReviewRow] /\ review' \in [Key -> ReviewRow]
      /\ review'[k] = row /\ \A l \in Key : l # k => review'[l] = review[l]
  BY DEF ReviewInv, RowsOK
<1>2. k[2] \in Report
  BY DEF Key
<1>3. \A l \in Key : review[l].pending # 0 => review[l].pending \in Revision
                     /\ revision[review[l].pending] = "Pending"
  BY DEF ReviewInv, RowsOK, ReviewRow, Revision
<1>4. RowsOK'
  <2>1. ASSUME NEW l \in Key
        PROVE  /\ Written(l)' <=> review'[l].id # 0
               /\ ~Written(l)' => review'[l].pending = 0
               /\ review'[l].pending # 0 => revision'[review'[l].pending] = "Pending"
               /\ Written(l)' => Exists(l[2])'
    BY <1>1 DEF ReviewInv, RowsOK, Written, Exists
  <2>2. ASSUME NEW l \in Key, NEW m \in Key, review'[l].pending = review'[m].pending, review'[l].pending # 0
        PROVE  l = m
    <3>1. CASE l # k /\ m # k
      BY <1>1, <2>2, <3>1 DEF ReviewInv, RowsOK
    <3>2. CASE l = k /\ m # k
      BY <1>1, <1>3, <2>2, <3>2
    <3>3. CASE l # k /\ m = k
      BY <1>1, <1>3, <2>2, <3>3
    <3>. QED
      BY <3>1, <3>2, <3>3
  <2>. QED
    BY <1>1, <2>1, <2>2 DEF RowsOK
<1>5. CallsOK'
  <2>1. call' \in [Client -> Call]
    BY IdleCall DEF Hangup, ReviewInv, CallsOK
  <2>2. ASSUME NEW d \in Client PROVE CallOK(call[d])'
    <3>1. CASE call'[d] = NoCall
      BY <3>1, IdleCall DEF CallOK
    <3>2. CASE call'[d] = call[d]
      <4>1. call[d] \in Call /\ CallOK(call[d])
        BY DEF ReviewInv, CallsOK
      <4>. DEFINE n == call[d].pending
      <4>2. n # 0 => n \in Revision /\ revision[n] # "unused"
        BY <4>1 DEF Call, Revision, CallOK
      <4>3. n # 0 => revision'[n] # "unused"
        BY <4>2
      <4>4. ASSUME n # 0, NEW l \in Key, review'[l].pending = n PROVE l = call[d].key
        <5>1. l # k
          BY <1>1, <4>2, <4>4
        <5>. QED
          BY <1>1, <4>1, <4>4, <5>1 DEF CallOK
      <4>. QED
        BY <3>2, <4>1, <4>3, <4>4 DEF CallOK
    <3>. QED
      BY <3>1, <3>2 DEF Hangup, ReviewInv, CallsOK
  <2>. QED
    BY <2>1, <2>2 DEF CallsOK
<1>6. OrderOK'
  BY <1>1, OrderAfterTouch DEF ReviewInv, Written
<1>7. TalliesOK'
  BY <1>1, <1>2, TalliesAfter DEF ReviewInv, Recount
<1>. QED
  BY <1>4, <1>5, <1>6, <1>7 DEF ReviewInv

\* A request ends without a write.
LEMMA GivesUp ==
    ASSUME ReviewInv, NEW c \in Client, Hangup(c), UNCHANGED <<review, revision, after, tally, gone, report>>
    PROVE  ReviewInv'
<1>. DEFINE q == NoCall
<1>1. q \in Call /\ CallOK(q) /\ call' = [call EXCEPT ![c] = q]
  BY IdleCall DEF CallOK, Hangup
<1>. HIDE DEF q
<1>. QED
  BY <1>1, OnlyCallMoves

LEMMA WriteReviewStep ==
    ASSUME ReviewInv, NEW c \in Client, ReviewWrite(c), UNCHANGED report
    PROVE  ReviewInv'
<1>. DEFINE q == call[c]
            k == q.key
            n == CHOOSE n \in Unused : \A m \in Unused : n <= m
            row == review[k]
            fits == /\ k[1] \notin gone /\ Exists(k[2])
                    /\ IF q.id = 0 THEN ~Written(k) ELSE row.id = q.id
            next == Submitted(row, q, n)
<1>1. q.pc = "write" /\ Unused # {} /\ Hangup(c) /\ UNCHANGED gone
  BY DEF ReviewWrite
<1>2. q \in Call /\ CallOK(q) /\ k \in Key
  BY <1>1 DEF ReviewInv, CallsOK, CallOK
<1>3. n \in Unused
  <2>1. Unused \in SUBSET Nat
    BY DEF Unused, Revision
  <2>. QED
    BY <1>1, <2>1, LeastExists
<1>4. n \in Revision /\ revision[n] = "unused"
  BY <1>3 DEF Unused
<1>5. row \in ReviewRow
  BY <1>2 DEF ReviewInv, RowsOK
<1>6. CASE fits
  <2>1. /\ review' = [review EXCEPT ![k] = next] /\ revision' = Superseded(q, n)
        /\ Touch(k) /\ Recount(review', k[2])
    BY <1>6 DEF ReviewWrite
  <2>2. q.id # 0 => row.id = q.id /\ row.status # "none"
    BY <1>2, <1>6 DEF ReviewInv, RowsOK, Written
  <2>. HIDE DEF n
  <2>3. next \in ReviewRow /\ next.status # "none" /\ next.pending = n /\ next.id # 0
    BY <1>2, <1>4, <1>5, <2>2, SubmittedRow
  <2>. HIDE DEF next
  <2>4. \A i \in Revision : revision'[i] = IF i = n THEN "Pending"
                                           ELSE IF i = q.pending /\ revision[i] = "Pending" THEN "Rejected"
                                           ELSE revision[i]
    BY <2>1 DEF Superseded
  <2>5. revision' \in [Revision -> {"unused", "Pending", "Approved", "Rejected"}]
    BY <2>1 DEF Superseded, ReviewInv, RowsOK
  <2>6. revision'[n] = "Pending" /\ \A i \in Revision : revision'[i] = "unused" => revision[i] = "unused"
    BY <1>4, <2>4
  <2>7. ASSUME NEW l \in Key, l # k, review[l].pending # 0 PROVE revision'[review[l].pending] = "Pending"
    <3>1. review[l].pending \in Revision /\ revision[review[l].pending] = "Pending"
      BY <2>7 DEF ReviewInv, RowsOK, ReviewRow, Revision
    <3>2. review[l].pending # q.pending
      BY <1>2, <2>7 DEF CallOK
    <3>. QED
      BY <2>4, <3>1, <3>2
  <2>8. Exists(k[2])
    BY <1>6
  <2>. HIDE DEF k, q, row
  <2>. QED
    BY <1>1, <1>2, <1>4, <2>1, <2>3, <2>5, <2>6, <2>7, <2>8, RowWritten
<1>7. CASE ~fits
  <2>1. UNCHANGED <<review, revision, after, tally>>
    BY <1>7 DEF ReviewWrite
  <2>. QED
    BY <1>1, <2>1, GivesUp
<1>. QED
  BY <1>6, <1>7

LEMMA DecisionStep ==
    ASSUME ReviewInv, NEW c \in Client, NEW verdict \in {"Approved", "Rejected"},
           ModerateWrite(c, verdict), UNCHANGED report
    PROVE  ReviewInv'
<1>. DEFINE q == call[c]
            k == q.key
            row == review[k]
            next == Decided(row, q, verdict)
<1>1. q.pc = "moderate" /\ Hangup(c) /\ UNCHANGED gone
  BY DEF ModerateWrite
<1>2. q \in Call /\ CallOK(q) /\ k \in Key /\ q.id # 0 /\ q.pending \in Revision
  BY <1>1 DEF ReviewInv, CallsOK, CallOK, Call, Revision
<1>3. row \in ReviewRow
  BY <1>2 DEF ReviewInv, RowsOK
<1>4. CASE row.id = q.id
  <2>1. /\ review' = [review EXCEPT ![k] = next] /\ revision' = [revision EXCEPT ![q.pending] = verdict]
        /\ Touch(k) /\ Recount(review', k[2])
    BY <1>2, <1>4 DEF ModerateWrite, ReviewInv, RowsOK
  <2>2. next \in ReviewRow /\ next.status # "none" /\ next.pending = 0 /\ next.id = row.id
    BY <1>2, <1>3, DecidedRow
  <2>. HIDE DEF next
  <2>3. revision' \in [Revision -> {"unused", "Pending", "Approved", "Rejected"}]
    BY <1>2, <2>1 DEF ReviewInv, RowsOK
  <2>4. \A i \in Revision : revision'[i] = IF i = q.pending THEN verdict ELSE revision[i]
    BY <1>2, <2>1 DEF ReviewInv, RowsOK
  <2>5. \A i \in Revision : revision'[i] = "unused" => revision[i] = "unused"
    BY <2>4
  <2>6. ASSUME NEW l \in Key, l # k, review[l].pending # 0 PROVE revision'[review[l].pending] = "Pending"
    <3>1. review[l].pending \in Revision /\ revision[review[l].pending] = "Pending"
      BY <2>6 DEF ReviewInv, RowsOK, ReviewRow, Revision
    <3>2. review[l].pending # q.pending
      BY <1>2, <2>6 DEF CallOK
    <3>. QED
      BY <2>4, <3>1, <3>2
  <2>7. Exists(k[2])
    BY <1>2, <1>4 DEF ReviewInv, RowsOK
  <2>8. next.id # 0
    BY <1>2, <1>4, <2>2
  <2>. HIDE DEF k, q, row
  <2>. QED
    BY <1>1, <1>2, <2>1, <2>2, <2>3, <2>5, <2>6, <2>7, <2>8, RowWritten
<1>5. CASE row.id # q.id
  <2>1. UNCHANGED <<review, revision, after, tally>>
    BY <1>5 DEF ModerateWrite
  <2>. QED
    BY <1>1, <2>1, GivesUp
<1>. QED
  BY <1>4, <1>5

\* Rows disappear: what is left is as it was.
LEMMA DropStep ==
    ASSUME ReviewInv, NEW keys \in SUBSET Key, DropReviews(keys), UNCHANGED <<revision, gone, call>>,
           \A k \in Key : Written(k) /\ k \notin keys => Exists(k[2])', TalliesOK'
    PROVE  ReviewInv'
<1>1. /\ review \in [Key -> ReviewRow] /\ review' \in [Key -> ReviewRow]
      /\ \A l \in Key : review'[l] = IF l \in keys THEN NoReview ELSE review[l]
  BY NoReviewRow DEF ReviewInv, RowsOK, DropReviews
<1>2. RowsOK'
  <2>1. ASSUME NEW l \in Key
        PROVE  /\ Written(l)' <=> review'[l].id # 0
               /\ ~Written(l)' => review'[l].pending = 0
               /\ review'[l].pending # 0 => revision'[review'[l].pending] = "Pending"
               /\ Written(l)' => Exists(l[2])'
    <3>1. CASE l \in keys
      BY <1>1, <3>1, NoReviewRow DEF Written
    <3>2. CASE l \notin keys
      BY <1>1, <3>2 DEF ReviewInv, RowsOK, Written
    <3>. QED
      BY <3>1, <3>2
  <2>2. ASSUME NEW l \in Key, NEW m \in Key, review'[l].pending = review'[m].pending, review'[l].pending # 0
        PROVE  l = m
    <3>1. l \notin keys /\ m \notin keys
      BY <1>1, <2>2, NoReviewRow
    <3>. QED
      BY <1>1, <2>2, <3>1 DEF ReviewInv, RowsOK
  <2>. QED
    BY <1>1, <2>1, <2>2 DEF RowsOK, ReviewInv
<1>3. CallsOK'
  <2>1. ASSUME NEW d \in Client PROVE CallOK(call[d])'
    <3>1. CallOK(call[d])
      BY DEF ReviewInv, CallsOK
    <3>2. \A l \in Key : review'[l].pending # 0 => review'[l].pending = review[l].pending
      BY <1>1, NoReviewRow
    <3>. QED
      BY <3>1, <3>2 DEF CallOK
  <2>. QED
    BY <2>1 DEF CallsOK, ReviewInv
<1>4. OrderOK'
  BY OrderAfterDrop DEF ReviewInv
<1>. QED
  BY <1>2, <1>3, <1>4 DEF ReviewInv

LEMMA DeleteReviewStep ==
    ASSUME ReviewInv, NEW k \in Key, DeleteReview(k), UNCHANGED report
    PROVE  ReviewInv'
<1>1. k[2] \in Report /\ \A l \in Key : l[2] # k[2] => review'[l] = review[l]
  BY DEF Key, DeleteReview, DropReviews
<1>2. TalliesOK'
  BY <1>1, TalliesAfter DEF ReviewInv, DeleteReview, Recount
<1>3. \A l \in Key : Written(l) => Exists(l[2])'
  BY DEF ReviewInv, RowsOK, Exists
<1>. QED
  BY <1>2, <1>3, DropStep DEF DeleteReview

LEMMA DeleteAccountStep ==
    ASSUME ReviewInv, NEW m \in Member, DeleteAccount(m), UNCHANGED report
    PROVE  ReviewInv'
<1>1. \A k \in Key : /\ review'[k] \in ReviewRow
                     /\ review'[k].status = review[k].status /\ review'[k].shown = review[k].shown
                     /\ review'[k].id = review[k].id /\ review'[k].pending = review[k].pending
  <2>1. ASSUME NEW k \in Key PROVE LET p == [review[k] EXCEPT !.owned = FALSE]
                                   IN  /\ p \in ReviewRow /\ p.status = review[k].status
                                       /\ p.shown = review[k].shown
                                       /\ p.id = review[k].id /\ p.pending = review[k].pending
    <3>. DEFINE row == review[k]
    <3>1. row \in ReviewRow
      BY DEF ReviewInv, RowsOK
    <3>. HIDE DEF row
    <3>2. LET p == [row EXCEPT !.owned = FALSE]
          IN  /\ p \in ReviewRow /\ p.status = row.status /\ p.shown = row.shown
              /\ p.id = row.id /\ p.pending = row.pending
      BY <3>1 DEF ReviewRow
    <3>. QED
      BY <3>2 DEF row
  <2>2. \A k \in Key : review[k] \in ReviewRow
    BY DEF ReviewInv, RowsOK
  <2>3. \A k \in Key : review'[k] = IF k[1] = m THEN [review[k] EXCEPT !.owned = FALSE] ELSE review[k]
    BY DEF DeleteAccount
  <2>. QED
    BY <2>1, <2>2, <2>3
<1>2. review' \in [Key -> ReviewRow]
  BY <1>1 DEF DeleteAccount
<1>3. RowsOK'
  BY <1>1, <1>2 DEF ReviewInv, RowsOK, Written, Exists, DeleteAccount
<1>4. CallsOK'
  BY <1>1 DEF ReviewInv, CallsOK, CallOK, DeleteAccount
<1>5. OrderOK'
  BY <1>1, OrderStays DEF ReviewInv, Written, DeleteAccount
<1>6. TalliesOK'
  BY <1>1, TalliesStay DEF ReviewInv, DeleteAccount
<1>. QED
  BY <1>3, <1>4, <1>5, <1>6 DEF ReviewInv, DeleteAccount

\* A removed report takes its reviews along.
LEMMA RemovedReportStep ==
    ASSUME FamilyInv, ReviewInv, NEW e \in Editor, RemoveReport(e)
    PROVE  ReviewInv'
<1>. DEFINE r == edit[e].id
            keys == {k \in Key : k[2] = r}
<1>1. r \in Report
  BY RemovalTakesOne
<1>2. CASE DeleteAllowed(r)
  <2>1. DropReviewsOf(r) /\ \A s \in Report : s # r => report'[s] = report[s]
    BY <1>2, RemovalTakesOne
  <2>2. Count(review', r) = {}
    BY <2>1, NoReviewRow DEF Count, DropReviewsOf, DropReviews
  <2>3. tally' = [tally EXCEPT ![r] = Tally(review', Count(review', r))]
    BY <2>1, <2>2, EmptyTally DEF DropReviewsOf
  <2>4. TalliesOK'
    BY <1>1, <2>1, <2>3, TalliesAfter DEF ReviewInv, DropReviewsOf, DropReviews
  <2>5. \A k \in Key : Written(k) /\ k \notin keys => Exists(k[2])'
    BY <2>1 DEF ReviewInv, RowsOK, Exists, Key
  <2>. QED
    BY <2>1, <2>4, <2>5, DropStep DEF DropReviewsOf
<1>3. CASE ~DeleteAllowed(r)
  <2>1. UNCHANGED <<report, reviewVars>>
    BY <1>3, RemovalTakesOne
  <2>. QED
    BY <2>1, RowsStay, OrderStays, TalliesStay DEF ReviewInv, reviewVars, Written, CallsOK, CallOK
<1>. QED
  BY <1>2, <1>3

-----------------------------------------------------------------------------
(* The invariant holds. *)

LEMMA ReviewsStart == Init => ReviewInv
<1>. SUFFICES ASSUME NEW s \in Scenarios, ReviewsInit(s.members, s.revisions) PROVE ReviewInv
  BY DEF Init
<1>1. review = [k \in Key |-> NoReview] /\ \A k \in Key : ~Written(k)
  BY NoReviewRow DEF ReviewsInit, Written
<1>2. RowsOK
  BY <1>1, NoReviewRow DEF RowsOK, ReviewsInit
<1>3. CallsOK
  BY IdleCall DEF CallsOK, CallOK, ReviewsInit
<1>4. OrderOK
  <2>1. WrittenKeys = {}
    BY <1>1 DEF WrittenKeys
  <2>. QED
    BY <2>1, FS_EmptySet DEF OrderOK, IsOrderOf, ReviewsInit
<1>5. TalliesOK
  <2>1. ASSUME NEW r \in Report PROVE TallyOf(r) = [count |-> 0, sum |-> 0]
    <3>1. Count(review, r) = {}
      BY <1>1, NoReviewRow DEF Count
    <3>. QED
      BY <3>1, EmptyTally DEF TallyOf
  <2>. QED
    BY <2>1 DEF TalliesOK, ReviewsInit
<1>. QED
  BY <1>2, <1>3, <1>4, <1>5 DEF ReviewInv, ReviewsInit

LEMMA ReviewsStay == ReviewInv /\ UNCHANGED reviewVars /\ (\A r \in Report : Exists(r) => Exists(r)') => ReviewInv'
<1>. SUFFICES ASSUME ReviewInv, UNCHANGED reviewVars, \A r \in Report : Exists(r) => Exists(r)' PROVE ReviewInv'
  OBVIOUS
<1>1. RowsOK'
  BY DEF ReviewInv, RowsOK, reviewVars, Written, Key
<1>. QED
  BY <1>1, OrderStays, TalliesStay DEF ReviewInv, reviewVars, Written, CallsOK, CallOK

LEMMA ReviewsNext == FamilyInv /\ ReviewInv /\ [Next]_vars => ReviewInv'
<1>. SUFFICES ASSUME FamilyInv, ReviewInv, [Next]_vars PROVE ReviewInv'
  OBVIOUS
<1>1. CASE UNCHANGED <<report, reviewVars>>
  BY <1>1, ReviewsStay DEF Exists
<1>2. ASSUME NEW e \in Editor, EditStep(e) \/ CheckMerge(e), UNCHANGED reviewVars PROVE ReviewInv'
  BY <1>2, ReportsStay, ReviewsStay
<1>3. ASSUME NEW e \in Editor, RemoveReport(e) PROVE ReviewInv'
  BY <1>3, RemovedReportStep
<1>4. CASE ReviewStep /\ UNCHANGED reportVars
  BY <1>4, BeginReviewStep, ReadReviewStep, WriteReviewStep, ReadPendingStep, DecisionStep, DeleteReviewStep,
     DeleteAccountStep DEF ReviewStep, reportVars
<1>. QED
  BY <1>1, <1>2, <1>3, <1>4 DEF Next, vars, CheckMerge, reportVars

\* The invariant of the reviews holds in every reachable state.
THEOREM ReviewInvHolds == Spec => []ReviewInv
BY FamilyInvHolds, ReviewsStart, ReviewsNext, PTL DEF Spec

\* Whatever authors and moderators have read before they write, the revision
\* that a review holds out for moderation is one nobody has decided or
\* replaced (createReview and moderateReview of lib/reviews.ts).
THEOREM QueueHoldsUndecided == Spec => []QueueIsUndecided
BY ReviewInvHolds, ReviewInvShowsQueue, PTL

-----------------------------------------------------------------------------
(* The ways to count the ratings of a family. *)

\* Of the reviews of one account, one was updated last.
LEMMA LatestExists ==
    ASSUME ReviewInv, NEW keys \in SUBSET WrittenKeys, keys # {}
    PROVE  \E k \in keys : \A l \in keys : <<l, k>> \notin after
<1>. DEFINE later(k) == {l \in keys : <<l, k>> \in after}
            sizes == {Cardinality(later(k)) : k \in keys}
<1>1. IsFiniteSet(keys)
  BY FS_Subset DEF ReviewInv, OrderOK
<1>2. \A k \in keys : IsFiniteSet(later(k)) /\ Cardinality(later(k)) \in Nat
  BY <1>1, FS_Subset, FS_CardinalityType
<1>3. PICK n \in sizes : \A m \in sizes : n <= m
  <2>1. sizes \in SUBSET Nat /\ sizes # {}
    BY <1>2
  <2>. HIDE DEF sizes
  <2>. QED
    BY <2>1, LeastExists
<1>4. PICK k \in keys : n = Cardinality(later(k))
  OBVIOUS
<1>5. ASSUME NEW l \in keys, <<l, k>> \in after PROVE FALSE
  <2>1. later(l) \subseteq later(k) /\ l \in later(k) /\ l \notin later(l)
    BY <1>5 DEF ReviewInv, OrderOK, IsOrderOf
  <2>2. Cardinality(later(l)) < Cardinality(later(k))
    <3>. DEFINE A == later(l)
                B == later(k)
    <3>1. A \subseteq B /\ A # B /\ IsFiniteSet(B)
      BY <1>2, <2>1
    <3>2. Cardinality(A) \in Nat /\ Cardinality(B) \in Nat
      BY <1>2
    <3>. HIDE DEF A, B
    <3>3. Cardinality(A) < Cardinality(B)
      BY <3>1, <3>2, FS_Subset
    <3>. QED
      BY <3>3 DEF A, B
  <2>3. Cardinality(later(k)) <= Cardinality(later(l))
    BY <1>3, <1>4
  <2>. QED
    BY <1>2, <2>2, <2>3
<1>. QED
  BY <1>5

\* The approved reviews of the family of a listed report.
FamilyReviews(r) == {k \in Key : review[k].status = "Approved" /\ RootOf(k[2]) = r}

LEMMA FamilyReviewsAre ==
    ASSUME FamilyInv, ReviewInv, NEW r \in Listed
    PROVE  /\ FamilyReviews(r) \subseteq WrittenKeys
           /\ FamilyReviews(r) = ApprovedIn(Family(r))
           /\ FamilyReviews(r) = UNION {Approved(m) : m \in {m \in Family(r) : IsPublished(RootOf(m))}}
<1>1. r \in Report /\ IsPublished(r) /\ report[r].into = None
  BY DEF Listed
<1>2. \A k \in FamilyReviews(r) : k \in Key /\ Written(k) /\ k[2] \in Report /\ Exists(k[2])
  BY DEF FamilyReviews, ReviewInv, RowsOK, Written, Key
<1>3. \A k \in FamilyReviews(r) : k[2] \in Family(r)
  BY <1>2, FamilyOfRoot DEF FamilyReviews
<1>4. \A m \in Family(r) : m \in Report /\ RootOf(m) = r /\ IsPublished(RootOf(m))
  BY <1>1, FamilyOfRoot DEF Family, Children
<1>. DEFINE mine == FamilyReviews(r)
            all == ApprovedIn(Family(r))
            shown == UNION {Approved(m) : m \in {m \in Family(r) : IsPublished(RootOf(m))}}
<1>5. \A k : k \in mine <=> k \in all
  BY <1>2, <1>3, <1>4 DEF FamilyReviews, ApprovedIn, Approved
<1>6. \A k : k \in shown <=> \E m \in Family(r) : k \in Approved(m)
  BY <1>4
<1>7. \A k : k \in all <=> \E m \in Family(r) : k \in Approved(m)
  BY DEF ApprovedIn
<1>8. mine \subseteq WrittenKeys
  BY <1>2 DEF WrittenKeys
<1>. HIDE DEF mine, all, shown
<1>9. mine = all /\ mine = shown
  BY <1>5, <1>6, <1>7
<1>. QED
  BY <1>8, <1>9 DEF mine, all, shown

\* What a page shows are the reviews of the family, one per account.
LEMMA PageReviews ==
    ASSUME FamilyInv, ReviewInv, NEW r \in Listed
    PROVE  OnPage(r) = Effective(FamilyReviews(r)) /\ Aggregate(r) = Tally(review, OnPage(r))
BY FamilyReviewsAre DEF OnPage, Aggregate

LEMMA HomeShowsPages ==
    ASSUME FamilyInv, ReviewInv
    PROVE  HomeReviews = UNION {OnPage(r) : r \in Listed}
<1>. DEFINE pages == UNION {OnPage(r) : r \in Listed}
<1>1. HomeReviews = UNION {Effective(FamilyReviews(r)) : r \in Listed}
  BY DEF HomeReviews, FamilyReviews
<1>2. \A k : k \in HomeReviews <=> \E r \in Listed : k \in Effective(FamilyReviews(r))
  BY <1>1
<1>3. \A k : k \in pages <=> \E r \in Listed : k \in OnPage(r)
  OBVIOUS
<1>4. \A k : k \in pages <=> \E r \in Listed : k \in Effective(FamilyReviews(r))
  BY <1>3, PageReviews
<1>. HIDE DEF pages
<1>5. HomeReviews = pages
  BY <1>2, <1>4
<1>. QED
  BY <1>5 DEF pages

\* A member's rank counts the pages that show a review of the member.
LEMMA RankCountsPages ==
    ASSUME FamilyInv, ReviewInv, NEW m \in Member
    PROVE  ReviewedBy(m) = {r \in Listed : \E k \in OnPage(r) : k[1] = m /\ review[k].owned}
<1>. DEFINE pages == {r \in Listed : \E k \in OnPage(r) : k[1] = m /\ review[k].owned}
<1>1. ASSUME NEW k \in Key, k[1] = m, review[k].owned, review[k].status = "Approved", IsPublished(RootOf(k[2]))
      PROVE  RootOf(k[2]) \in pages
  <2>. DEFINE r == RootOf(k[2])
              keys == {l \in FamilyReviews(r) : l[1] = m /\ review[l].owned}
  <2>1. k[2] \in Report /\ Exists(k[2])
    BY <1>1 DEF ReviewInv, RowsOK, Written, Key
  <2>2. r \in Listed
    BY <1>1, <2>1 DEF Listed, RootOf, FamilyInv, TablesOK, FamilyIsFlat, Row
  <2>3. k \in keys /\ keys \in SUBSET WrittenKeys
    BY <1>1, <2>2, FamilyReviewsAre DEF FamilyReviews
  <2>. HIDE DEF r
  <2>4. PICK l \in keys : \A n \in keys : <<n, l>> \notin after
    <3>. HIDE DEF keys
    <3>. QED
      BY <2>3, LatestExists
  <2>5. l \in Effective(FamilyReviews(r))
    BY <2>4 DEF Effective
  <2>. QED
    BY <2>2, <2>4, <2>5, PageReviews DEF r
<1>2. ASSUME NEW r \in pages
      PROVE  \E k \in Key : /\ k[1] = m /\ review[k].owned /\ review[k].status = "Approved"
                            /\ IsPublished(RootOf(k[2])) /\ RootOf(k[2]) = r
  <2>1. r \in Listed
    OBVIOUS
  <2>2. PICK k \in OnPage(r) : k[1] = m /\ review[k].owned
    OBVIOUS
  <2>3. k \in FamilyReviews(r)
    BY <2>1, <2>2, PageReviews DEF Effective
  <2>. QED
    BY <2>1, <2>2, <2>3 DEF FamilyReviews, Listed
<1>3. \A r : r \in ReviewedBy(m) <=> \E k \in Key : /\ k[1] = m /\ review[k].owned /\ review[k].status = "Approved"
                                                    /\ IsPublished(RootOf(k[2])) /\ RootOf(k[2]) = r
  BY DEF ReviewedBy
<1>. HIDE DEF pages
<1>4. \A r : r \in ReviewedBy(m) <=> r \in pages
  BY <1>1, <1>2, <1>3
<1>5. ReviewedBy(m) = pages
  BY <1>4
<1>. QED
  BY <1>5 DEF pages

\* The view over a family and the page count the same reviews.
LEMMA MetricCountsPage ==
    ASSUME FamilyInv, ReviewInv, NEW r \in Listed
    PROVE  ReviewMetric(r) = Aggregate(r)
<1>1. r \in Report /\ Family(r) = {r} \union Children(r)
  BY DEF Listed, Family
<1>2. CASE Children(r) # {}
  BY <1>1, <1>2 DEF ReviewMetric, Aggregate
<1>3. CASE Children(r) = {}
  <2>1. tally[r] = Tally(review, Count(review, r))
    BY <1>1 DEF ReviewInv, TalliesOK, TallyOf
  <2>. DEFINE keys == Count(review, r)
              shown == Effective(ApprovedIn(Family(r)))
  <2>2. \A k : k \in ApprovedIn(Family(r)) <=> k \in keys
    BY <1>1, <1>3 DEF ApprovedIn, Approved, Count
  <2>3. \A k, l \in keys : k[1] = l[1] => k = l
    BY DEF Count, Key
  <2>4. \A k \in keys : k \in WrittenKeys /\ <<k, k>> \notin after
    BY DEF Count, WrittenKeys, Written, ReviewInv, OrderOK, IsOrderOf
  <2>. HIDE DEF keys
  <2>5. \A k : k \in shown <=> k \in keys
    BY <2>2, <2>3, <2>4 DEF Effective
  <2>. HIDE DEF shown
  <2>6. shown = keys
    BY <2>5
  <2>. QED
    BY <1>3, <2>1, <2>6 DEF ReviewMetric, Aggregate, keys, shown
<1>. QED
  BY <1>2, <1>3

LEMMA ReviewInvShowsRatings == FamilyInv /\ ReviewInv => RatingsAgree
<1>. SUFFICES ASSUME FamilyInv, ReviewInv PROVE RatingsAgree
  OBVIOUS
<1>1. ASSUME NEW r \in Listed, NEW k \in OnPage(r), NEW l \in OnPage(r), k # l, k[1] = l[1],
             review[k].owned, review[l].owned
      PROVE  FALSE
  <2>1. k \in Effective(FamilyReviews(r)) /\ l \in Effective(FamilyReviews(r))
    BY PageReviews
  <2>2. k \in FamilyReviews(r) /\ l \in FamilyReviews(r) /\ <<l, k>> \notin after /\ <<k, l>> \notin after
    BY <1>1, <2>1 DEF Effective
  <2>3. k \in WrittenKeys /\ l \in WrittenKeys
    BY <2>2, FamilyReviewsAre
  <2>. QED
    BY <1>1, <2>2, <2>3 DEF ReviewInv, OrderOK, IsOrderOf
<1>. QED
  BY <1>1, HomeShowsPages, RankCountsPages, MetricCountsPage, PageReviews DEF RatingsAgree

\* The counters of the triggers, the view over a family, the aggregate of a
\* page and the list of reviews it shows agree in every reachable state, and
\* so do the home page and the pages a member's rank counts.
THEOREM RatingsAlwaysAgree == Spec => []RatingsAgree
BY FamilyInvHolds, ReviewInvHolds, ReviewInvShowsRatings, PTL

-----------------------------------------------------------------------------
(* Types. *)

\* The counters of every report are natural numbers.
LEMMA TalliesAreNumbers ==
    ASSUME ReviewInv, NEW r \in Report
    PROVE  TallyOf(r) \in [count : Nat, sum : Nat]
<1>. DEFINE keys == Count(review, r)
            numbers == [k \in keys |-> review[k].shown]
<1>1. keys \subseteq WrittenKeys
  BY DEF Count, WrittenKeys, Written
<1>2. IsFiniteSet(keys) /\ Cardinality(keys) \in Nat
  BY <1>1, FS_Subset, FS_CardinalityType DEF ReviewInv, OrderOK
<1>3. \A k \in keys : review[k].shown \in Nat
  BY DEF Count, ReviewInv, RowsOK, ReviewRow
<1>4. numbers \in [keys -> Nat]
  BY <1>3
<1>. HIDE DEF keys, numbers
<1>5. Sum(numbers) \in Nat
  BY <1>2, <1>4, SumIsNatural
<1>6. TallyOf(r) = [count |-> Cardinality(keys), sum |-> Sum(numbers)]
  BY DEF TallyOf, Tally, Ratings, keys, numbers
<1>. QED
  BY <1>2, <1>5, <1>6

LEMMA InvariantsShowTypes == FamilyInv /\ ReviewInv /\ IntakeInv /\ CommentInv => TypeOK
<1>. SUFFICES ASSUME FamilyInv, ReviewInv, IntakeInv, CommentInv PROVE TypeOK
  OBVIOUS
<1>1. ReportsTypeOK
  BY DEF FamilyInv, TablesOK, RequestsOK, ReportsTypeOK, Asked
<1>2. tally \in [Report -> [count : Nat, sum : Nat]]
  BY TalliesAreNumbers DEF ReviewInv, TalliesOK
<1>3. ReviewsTypeOK
  BY <1>2 DEF ReviewInv, RowsOK, CallsOK, OrderOK, ReviewsTypeOK, WrittenKeys
<1>. QED
  BY <1>1, <1>3 DEF TypeOK, IntakeInv, CommentInv

\* Every row of every table of reports, reviews, cases and replies has its
\* type; the order of updates has exactly the reviews there are, and the
\* counters of the triggers are natural numbers.
THEOREM CommunityTypes == Spec => []TypeOK
BY FamilyInvHolds, ReviewInvHolds, IntakeInvHolds, CommentsStart, CommentsNext, InvariantsShowTypes, PTL DEF Spec

-----------------------------------------------------------------------------
(* What refers to what.  Reports and replies have it from FamilyInv and      *)
(* CommentInv; accounts, cases and images need an invariant of their own.    *)

\* A review whose account is deleted has lost its author.
OwnersStand == \A k \in Key : Written(k) /\ review[k].owned => k[1] \notin gone

\* A case is about a report that is there.
AboutStands == \A c \in Case : Filed(c) /\ kase[c].about # None => Exists(kase[c].about)

\* The images of a case, or of a request that may still file one, have rows.
FilesStand ==
    \A c \in Case :
        /\ Filed(c) => \A f \in kase[c].files : file[f] \notin {"none", "gone"}
        /\ post[c].pc \in Filing => \A f \in post[c].stored : file[f] \notin {"none", "gone"}

NamesInv == OwnersStand /\ AboutStands /\ FilesStand

LEMMA InvariantsShowNames ==
    FamilyInv /\ ReviewInv /\ CommentInv /\ NamesInv => NothingNamesTheRemoved
<1>. SUFFICES ASSUME FamilyInv, ReviewInv, CommentInv, NamesInv PROVE NothingNamesTheRemoved
  OBVIOUS
<1>1. \A k \in Key : Written(k) => Exists(k[2]) /\ (review[k].owned => k[1] \notin gone)
  BY DEF ReviewInv, RowsOK, NamesInv, OwnersStand
<1>2. \A n \in Comment : Stands(n) => Exists(comment[n].on)
  BY DEF CommentInv
<1>3. ASSUME NEW l \in link PROVE Exists(l[1])
  <2>1. l \in Report \X Asset
    BY DEF FamilyInv, TablesOK
  <2>2. l = <<l[1], l[2]>> /\ l[1] \in Report /\ l[2] \in Asset
    BY <2>1
  <2>. QED
    BY <2>2 DEF FamilyInv, TablesOK, LinksHaveReports
<1>. QED
  BY <1>1, <1>2, <1>3 DEF NothingNamesTheRemoved, NamesInv, AboutStands, FilesStand

\* The row of a first review has an author, later writes keep what it had.
LEMMA OwnersAfterReviewStep ==
    ASSUME ReviewInv, OwnersStand, ReviewStep
    PROVE  OwnersStand'
<1>. USE DEF OwnersStand
<1>1. ASSUME NEW c \in Client, ReviewBegin(c) \/ ReviewRead(c) \/ ModerateRead(c) PROVE OwnersStand'
  BY <1>1 DEF ReviewBegin, ReviewRead, ModerateRead, Written
<1>2. ASSUME NEW c \in Client, ReviewWrite(c) PROVE OwnersStand'
  <2>. DEFINE q == call[c]
              k == q.key
              n == CHOOSE n \in Unused : \A m \in Unused : n <= m
              row == review[k]
              next == Submitted(row, q, n)
  <2>1. CASE UNCHANGED review
    BY <1>2, <2>1 DEF ReviewWrite, Written
  <2>2. CASE review' # review
    <3>1. /\ review' = [review EXCEPT ![k] = next] /\ gone' = gone /\ q.pc = "write"
          /\ k[1] \notin gone /\ (q.id # 0 => row.id = q.id)
      BY <1>2, <2>2 DEF ReviewWrite
    <3>2. k \in Key
      BY <3>1 DEF ReviewInv, CallsOK, CallOK
    <3>. HIDE DEF next, k
    <3>3. \A l \in Key : l # k => review'[l] = review[l]
      BY <3>1
    <3>. QED
      BY <3>1, <3>3 DEF Written
  <2>. QED
    BY <2>1, <2>2
<1>3. ASSUME NEW c \in Client, NEW verdict \in {"Approved", "Rejected"}, ModerateWrite(c, verdict)
      PROVE  OwnersStand'
  <2>. DEFINE q == call[c]
              k == q.key
              row == review[k]
              next == Decided(row, q, verdict)
  <2>1. q.pc = "moderate" /\ gone' = gone
    BY <1>3 DEF ModerateWrite
  <2>2. k \in Key /\ q.id # 0
    BY <2>1 DEF ReviewInv, CallsOK, CallOK
  <2>3. CASE row.id # q.id
    BY <1>3, <2>1, <2>3 DEF ModerateWrite, Written
  <2>4. CASE row.id = q.id
    <3>1. review' = [review EXCEPT ![k] = next]
      BY <1>3, <2>4 DEF ModerateWrite
    <3>2. Written(k) /\ row \in ReviewRow
      BY <2>2, <2>4 DEF ReviewInv, RowsOK
    <3>. HIDE DEF row, q
    <3>3. next.owned = row.owned
      BY <3>2 DEF Decided, ReviewRow
    <3>. HIDE DEF next, k
    <3>4. review'[k].owned = review[k].owned /\ \A l \in Key : l # k => review'[l] = review[l]
      BY <2>2, <3>1, <3>3 DEF ReviewInv, RowsOK, row
    <3>. QED
      BY <2>1, <3>2, <3>4 DEF Written
  <2>. QED
    BY <2>3, <2>4
<1>4. ASSUME NEW k \in Key, DeleteReview(k) PROVE OwnersStand'
  BY <1>4, NoReviewRow DEF DeleteReview, DropReviews, Written
<1>5. ASSUME NEW m \in Member, DeleteAccount(m) PROVE OwnersStand'
  <2>1. \A k \in Key : review'[k] = IF k[1] = m THEN [review[k] EXCEPT !.owned = FALSE] ELSE review[k]
    BY <1>5 DEF DeleteAccount
  <2>2. \A k \in Key : review[k] \in ReviewRow
    BY DEF ReviewInv, RowsOK
  <2>3. \A k \in Key : /\ k[1] = m => ~review'[k].owned
                       /\ k[1] # m => review'[k] = review[k]
    BY <2>1, <2>2 DEF ReviewRow
  <2>. QED
    BY <1>5, <2>3 DEF DeleteAccount, Written
<1>. QED
  BY <1>1, <1>2, <1>3, <1>4, <1>5 DEF ReviewStep

LEMMA OwnersNext ==
    ASSUME FamilyInv, ReviewInv, OwnersStand, [Next]_vars
    PROVE  OwnersStand'
<1>1. CASE UNCHANGED reviewVars
  BY <1>1 DEF reviewVars, OwnersStand, Written
<1>2. CASE ReviewStep
  BY <1>2, OwnersAfterReviewStep
<1>3. ASSUME NEW e \in Editor, DropReviewsOf(edit[e].id) PROVE OwnersStand'
  BY <1>3, NoReviewRow DEF DropReviewsOf, DropReviews, OwnersStand, Written
<1>. QED
  BY <1>1, <1>2, <1>3, RemovalTakesOne DEF Next, CheckMerge, vars

\* A case is filed or decided with a report only while that report is there.
LEMMA AboutAfterIntakeStep ==
    ASSUME FamilyInv, IntakeInv, AboutStands, IntakeStep, UNCHANGED report
    PROVE  AboutStands'
<1>. USE DEF AboutStands
<1>1. CASE UNCHANGED kase
  BY <1>1 DEF Filed, Exists
<1>2. ASSUME NEW c \in Case, InsertRow(c), Present(post[c].about) PROVE AboutStands'
  BY <1>2 DEF InsertRow, Filed, Exists, Present, IntakeInv, IntakeTypeOK
<1>3. ASSUME NEW d \in Desk, DecideWrite(d) PROVE AboutStands'
  <2>. DEFINE q == desk[d]
              about == IF q.case \in Appeal THEN kase[q.case].about ELSE q.about
  <2>1. CASE Filed(q.case) /\ Present(about)
    <3>1. PICK status \in Status : kase' = [kase EXCEPT ![q.case].status = status, ![q.case].about = about]
      BY <1>3, <2>1 DEF DecideWrite
    <3>2. q.case \in Case
      BY <1>3 DEF DecideWrite, IntakeInv, DeskOK
    <3>. HIDE DEF about
    <3>3. /\ \A c \in Case : c # q.case => kase'[c] = kase[c]
          /\ kase'[q.case].about = about
      BY <3>1, <3>2 DEF IntakeInv, IntakeTypeOK, CaseRow
    <3>. QED
      BY <2>1, <3>2, <3>3 DEF Filed, Exists, Present
  <2>. QED
    BY <1>1, <1>3, <2>1 DEF DecideWrite
<1>4. ASSUME NEW d \in Desk, RemovalWrite(d) PROVE AboutStands'
  <2>. DEFINE c == desk[d].case
  <2>1. CASE Filed(c)
    <3>1. kase' = [kase EXCEPT ![c].status = "removed", ![c].about = None]
      BY <1>4, <2>1 DEF RemovalWrite
    <3>2. c \in Case
      BY <1>4 DEF RemovalWrite, IntakeInv, DeskOK
    <3>3. kase'[c].about = None /\ \A b \in Case : b # c => kase'[b] = kase[b]
      BY <3>1, <3>2 DEF IntakeInv, IntakeTypeOK, CaseRow
    <3>. QED
      BY <3>3 DEF Filed, Exists
  <2>. QED
    BY <1>1, <1>4, <2>1 DEF RemovalWrite
<1>5. \/ UNCHANGED kase
      \/ \E c \in Case : InsertRow(c) /\ Present(post[c].about)
      \/ \E d \in Desk : DecideWrite(d) \/ RemovalWrite(d)
  BY DEF IntakeStep, PostBegin, StoreFails, StoreEnds, Insert, InsertThrows, RollbackCommitted,
     RollbackCheck, RollbackErase, RollbackEraseFails, RollbackRows, PostDies, StoreFile, TakeUp,
     RemovalClaim, DecideRead, RemovalRead, RemovalCheck, RemovalErases, RemovalFails
<1>. QED
  BY <1>1, <1>2, <1>3, <1>4, <1>5

LEMMA AboutNext ==
    ASSUME FamilyInv, IntakeInv, AboutStands, [Next]_vars
    PROVE  AboutStands'
<1>. USE DEF AboutStands
<1>0. \A c \in Case : kase[c].about \in Report \union {None}
  BY DEF IntakeInv, IntakeTypeOK, CaseRow
<1>1. CASE UNCHANGED <<report, kase>>
  BY <1>1 DEF Filed, Exists
<1>2. ASSUME NEW e \in Editor, EditStep(e) \/ CheckMerge(e), UNCHANGED kase PROVE AboutStands'
  BY <1>0, <1>2, ReportsStay DEF Filed
<1>3. CASE IntakeStep /\ UNCHANGED report
  BY <1>3, AboutAfterIntakeStep
<1>4. ASSUME NEW e \in Editor, RemoveReport(e) PROVE AboutStands'
  <2>. DEFINE r == edit[e].id
  <2>1. CASE DeleteAllowed(r)
    <3>1. DropCasesOf(r) /\ \A s \in Report : s # r => report'[s] = report[s]
      BY <1>4, <2>1, RemovalTakesOne
    <3>2. ASSUME NEW c \in Case
          PROVE  \/ kase'[c].about = None
                 \/ kase'[c] = kase[c] /\ (~Filed(c) \/ kase[c].about # r)
      <4>1. kase[c] \in CaseRow
        BY DEF IntakeInv, IntakeTypeOK
      <4>. HIDE DEF r
      <4>. QED
        BY <3>1, <4>1 DEF DropCasesOf, CaseRow
    <3>. HIDE DEF r
    <3>. QED
      BY <1>0, <3>1, <3>2 DEF Filed, Exists
  <2>2. CASE ~DeleteAllowed(r)
    BY <1>1, <1>4, <2>2, RemovalTakesOne DEF intakeVars
  <2>. QED
    BY <2>1, <2>2
<1>. QED
  BY <1>1, <1>2, <1>3, <1>4 DEF Next, CheckMerge, vars, reportVars, intakeVars

\* A rollback deletes a row of its own images alone, and not of a filed case.
LEMMA RowsOfFiledStay ==
    ASSUME IntakeInv, IntakeStep, NEW f \in File, file[f] \notin {"none", "gone"},
           Filed(f[1]) \/ post[f[1]].pc \in Filing
    PROVE  file'[f] \notin {"none", "gone"}
<1>1. ASSUME NEW c \in Case, RollbackRows(c) PROVE file'[f] = file[f]
  <2>1. f \in post[c].stored => f[1] = c
    BY DEF IntakeInv, PostOK
  <2>2. post[c].pc = "rows"
    BY <1>1 DEF RollbackRows
  <2>. QED
    BY <1>1, <2>1, <2>2 DEF RollbackRows, Filing
<1>2. \/ file' = file
      \/ \E c \in Case : RollbackRows(c)
      \/ \E g \in File : \E x \in {"private", "public", "leased", "withheld", "deleted"} :
             file' = [file EXCEPT ![g] = x]
  BY DEF IntakeStep, PostBegin, StoreFails, StoreEnds, Insert, InsertThrows, RollbackCommitted,
     RollbackCheck, RollbackErase, RollbackEraseFails, PostDies, StoreFile, TakeUp, DecideWrite,
     RemovalClaim, DecideRead, RemovalRead, RemovalCheck, RemovalErases, RemovalFails, RemovalWrite,
     IntakeInv, DeskOK
<1>3. file \in [File -> FileState]
  BY DEF IntakeInv, IntakeTypeOK
<1>. QED
  BY <1>1, <1>2, <1>3

\* A case that is filed now was filed before, with the same images, or its
\* request files it with the images it has stored.
LEMMA FiledFromRequests ==
    ASSUME IntakeInv, IntakeStep, NEW c \in Case, Filed(c)'
    PROVE  \/ Filed(c) /\ kase'[c].files = kase[c].files
           \/ post[c].pc \in Filing /\ kase'[c].files = post[c].stored
<1>. USE DEF IntakeInv
<1>1. ASSUME NEW b \in Case, post[b].pc = "insert", InsertRow(b)
      PROVE  \/ kase'[c] = kase[c]
             \/ c = b /\ kase'[c].files = post[b].stored
  BY <1>1 DEF InsertRow, IntakeTypeOK
<1>2. ASSUME NEW d \in Desk, DecideWrite(d), kase' # kase
      PROVE  (Filed(c) \/ kase'[c] = kase[c]) /\ kase'[c].files = kase[c].files
  <2>. DEFINE about == IF desk[d].case \in Appeal THEN kase[desk[d].case].about ELSE desk[d].about
  <2>1. PICK status \in Status :
            kase' = [kase EXCEPT ![desk[d].case].status = status, ![desk[d].case].about = about]
    BY <1>2 DEF DecideWrite
  <2>2. Filed(desk[d].case)
    BY <1>2 DEF DecideWrite
  <2>. HIDE DEF about
  <2>. QED
    BY <2>1, <2>2 DEF IntakeTypeOK, CaseRow
<1>3. ASSUME NEW d \in Desk, RemovalWrite(d), kase' # kase
      PROVE  kase'[c] = kase[c]
  <2>1. kase' = [kase EXCEPT ![desk[d].case].status = "removed", ![desk[d].case].about = None]
    BY <1>3 DEF RemovalWrite
  <2>2. c = desk[d].case => kase'[c].status = "removed"
    BY <2>1 DEF IntakeTypeOK, CaseRow
  <2>3. c # desk[d].case
    BY <2>2 DEF Filed, Status
  <2>. QED
    BY <2>1, <2>3 DEF IntakeTypeOK
<1>4. \/ kase' = kase
      \/ \E b \in Case : post[b].pc = "insert" /\ InsertRow(b)
      \/ \E d \in Desk : DecideWrite(d) \/ RemovalWrite(d)
  BY DEF IntakeStep, PostBegin, StoreFails, StoreEnds, Insert, InsertThrows, RollbackCommitted,
     RollbackCheck, RollbackErase, RollbackEraseFails, RollbackRows, PostDies, StoreFile, TakeUp,
     RemovalClaim, DecideRead, RemovalRead, RemovalCheck, RemovalErases, RemovalFails
<1>. QED
  BY <1>1, <1>2, <1>3, <1>4 DEF Filed, Filing

\* A request that may still file its case has stored what it holds.
LEMMA HeldByRequests ==
    ASSUME IntakeInv, IntakeStep, NEW c \in Case, post'[c].pc \in Filing
    PROVE  /\ post[c].pc \in Filing
           /\ \A f \in post'[c].stored : f \in post[c].stored \/ file'[f] = "private"
<1>. USE DEF IntakeInv
<1>0. post \in [Case -> PostRow] /\ file \in [File -> FileState]
  BY DEF IntakeTypeOK, PostRow
<1>1. ASSUME NEW b \in Case, NEW pc \in PostPc, PostGoto(b, pc), pc \in Filing => post[b].pc \in Filing
      PROVE  post[c].pc \in Filing /\ post'[c].stored = post[c].stored
  BY <1>0, <1>1 DEF PostGoto, PostRow
<1>2. ASSUME NEW b \in Case, PostBegin(b)
      PROVE  post[c].pc \in Filing /\ post'[c].stored = post[c].stored
  <2>1. PICK r \in Report \union {None} :
            post' = [post EXCEPT ![b].pc = "store", ![b].about = IF r = None THEN None ELSE ResolvesTo(r)]
    BY <1>2 DEF PostBegin
  <2>2. post[b].pc = "new"
    BY <1>2 DEF PostBegin
  <2>3. post'[c].stored = post[c].stored /\ (c # b => post'[c] = post[c])
    BY <1>0, <2>1 DEF PostRow
  <2>. QED
    BY <2>2, <2>3 DEF Filing
<1>3. ASSUME NEW f \in File, StoreFile(f)
      PROVE  /\ post[c].pc \in Filing
             /\ \A g \in post'[c].stored : g \in post[c].stored \/ file'[g] = "private"
  <2>1. post' = [post EXCEPT ![f[1]].stored = @ \union {f}] /\ file' = [file EXCEPT ![f] = "private"]
    BY <1>3 DEF StoreFile
  <2>2. /\ post'[c].pc = post[c].pc
        /\ post'[c].stored = IF c = f[1] THEN post[c].stored \union {f} ELSE post[c].stored
    BY <1>0, <2>1 DEF PostRow
  <2>3. file'[f] = "private"
    BY <1>0, <2>1
  <2>. QED
    BY <2>2, <2>3
<1>4. \/ post' = post
      \/ \E b \in Case : \/ PostBegin(b)
                         \/ \E pc \in PostPc : PostGoto(b, pc) /\ (pc \in Filing => post[b].pc \in Filing)
      \/ \E f \in File : StoreFile(f)
  <2>1. ASSUME NEW b \in Case,
               \/ StoreFails(b) \/ StoreEnds(b) \/ Insert(b) \/ InsertThrows(b)
               \/ RollbackCommitted(b) \/ RollbackCheck(b) \/ RollbackErase(b)
               \/ RollbackEraseFails(b) \/ RollbackRows(b) \/ PostDies(b)
        PROVE  \E pc \in PostPc : PostGoto(b, pc) /\ (pc \in Filing => post[b].pc \in Filing)
    BY <2>1 DEF StoreFails, StoreEnds, Insert, InsertThrows, RollbackCommitted, RollbackCheck,
       RollbackErase, RollbackEraseFails, RollbackRows, PostDies, AfterFailure, PostPc, Filing
  <2>2. ASSUME NEW d \in Desk,
               \/ DecideRead(d) \/ DecideWrite(d) \/ RemovalRead(d) \/ RemovalCheck(d)
               \/ RemovalErases(d) \/ RemovalFails(d) \/ RemovalWrite(d) \/ \E f \in File : RemovalClaim(d, f)
        PROVE  post' = post
    BY <2>2 DEF DecideRead, DecideWrite, RemovalRead, RemovalCheck, RemovalErases, RemovalFails,
       RemovalWrite, RemovalClaim
  <2>. QED
    BY <2>1, <2>2 DEF IntakeStep, TakeUp
<1>5. CASE post' = post
  BY <1>5
<1>6. ASSUME NEW b \in Case,
             \/ PostBegin(b)
             \/ \E pc \in PostPc : PostGoto(b, pc) /\ (pc \in Filing => post[b].pc \in Filing)
      PROVE  post[c].pc \in Filing /\ post'[c].stored = post[c].stored
  BY <1>1, <1>2, <1>6
<1>7. ASSUME NEW f \in File, StoreFile(f)
      PROVE  /\ post[c].pc \in Filing
             /\ \A g \in post'[c].stored : g \in post[c].stored \/ file'[g] = "private"
  BY <1>3, <1>7
<1>. QED
  BY <1>4, <1>5, <1>6, <1>7

LEMMA FilesNext ==
    ASSUME IntakeInv, FilesStand, [Next]_vars
    PROVE  FilesStand'
<1>. USE DEF FilesStand
<1>1. CASE UNCHANGED intakeVars
  BY <1>1 DEF intakeVars, Filed
<1>2. CASE IntakeStep
  <2>1. ASSUME NEW c \in Case, NEW f \in File, f[1] = c, file[f] \notin {"none", "gone"},
               Filed(c) \/ post[c].pc \in Filing
        PROVE  file'[f] \notin {"none", "gone"}
    BY <1>2, <2>1, RowsOfFiledStay
  <2>2. ASSUME NEW c \in Case
        PROVE  /\ \A f \in kase[c].files : f \in File /\ f[1] = c
               /\ \A f \in post[c].stored : f \in File /\ f[1] = c
    BY DEF IntakeInv, IntakeTypeOK, CaseRow, PostOK
  <2>3. ASSUME NEW c \in Case, Filed(c)', NEW f \in kase'[c].files PROVE file'[f] \notin {"none", "gone"}
    BY <1>2, <2>1, <2>2, <2>3, FiledFromRequests
  <2>4. ASSUME NEW c \in Case, post'[c].pc \in Filing, NEW f \in post'[c].stored
        PROVE  file'[f] \notin {"none", "gone"}
    <3>1. (f \in post[c].stored /\ post[c].pc \in Filing) \/ file'[f] = "private"
      BY <1>2, <2>4, HeldByRequests
    <3>. QED
      BY <2>1, <2>2, <3>1
  <2>. QED
    BY <2>3, <2>4
<1>3. ASSUME NEW r, DropCasesOf(r) PROVE FilesStand'
  <2>1. ASSUME NEW c \in Case PROVE kase'[c].files = kase[c].files /\ (Filed(c)' => Filed(c))
    <3>1. kase[c] \in CaseRow
      BY DEF IntakeInv, IntakeTypeOK
    <3>. QED
      BY <1>3, <3>1 DEF DropCasesOf, CaseRow, Filed
  <2>. QED
    BY <1>3, <2>1 DEF DropCasesOf
<1>. QED
  BY <1>1, <1>2, <1>3 DEF Next, CheckMerge, RemoveReport, vars

LEMMA NamesStart == Init => NamesInv
<1>. SUFFICES ASSUME Init PROVE NamesInv
  OBVIOUS
<1>1. PICK s \in Scenarios : ReviewsInit(s.members, s.revisions) /\ IntakeInit(s.cases)
  BY DEF Init
<1>2. OwnersStand
  BY <1>1, NoReviewRow DEF OwnersStand, ReviewsInit, Written
<1>3. \A c \in Case : ~Filed(c) /\ post[c].stored = {}
  BY <1>1 DEF IntakeInit, Filed, Status
<1>. QED
  BY <1>2, <1>3 DEF NamesInv, AboutStands, FilesStand

\* Whatever a request looked up before an admin removed a report, a member
\* closed the account or a rollback took images back: no row refers to one
\* that is gone.
THEOREM NothingDangles == Spec => []NothingNamesTheRemoved
<1>1. Spec => []CommentInv
  BY CommentsStart, CommentsNext, FamilyInvHolds, PTL DEF Spec
<1>2. FamilyInv /\ ReviewInv /\ IntakeInv /\ NamesInv /\ [Next]_vars => NamesInv'
  BY OwnersNext, AboutNext, FilesNext DEF NamesInv
<1>3. Spec => []NamesInv
  BY <1>2, NamesStart, FamilyInvHolds, ReviewInvHolds, IntakeInvHolds, PTL DEF Spec
<1>. QED
  BY <1>1, <1>3, FamilyInvHolds, ReviewInvHolds, InvariantsShowNames, PTL
=============================================================================
