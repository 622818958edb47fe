------------------------------ MODULE Reviews -------------------------------
(***************************************************************************)
(* lib/reviews.ts: the review a member writes about a report, its          *)
(* revisions, and their moderation.  A request reads the row, then writes  *)
(* a batch that does not look at the row again; authors, moderators and    *)
(* admins interleave, and reports merge and disappear meanwhile.           *)
(*                                                                         *)
(* The number of a revision stands for its text and for its rating.        *)
(***************************************************************************)
EXTENDS Reports, Functions

CONSTANTS
    Member,       \* accounts
    Client,       \* requests about reviews at a time
    MaxRevision   \* bound: revisions ever written

ASSUME ReviewsConstants == MaxRevision \in Nat

VARIABLES
    review,    \* reviews: one row per account and report
    revision,  \* review_revisions: their status
    after,     \* the order of updated_at: <<k, l>> when k was updated after l
    tally,     \* approved_review_count and approved_rating_sum of every report
    gone,      \* deleted accounts
    call       \* the requests under way

reviewVars == <<review, revision, after, tally, gone, call>>

Key == Member \X Report
Revision == 1 .. MaxRevision

\* id: the revision a row was created with, which no other row has; shown: the
\* revision whose text the row carries; 0 is null.
ReviewRow == [status : {"none", "Pending", "Approved", "Rejected"}, owned : BOOLEAN,
              id : 0 .. MaxRevision, shown : 0 .. MaxRevision,
              approved : 0 .. MaxRevision, pending : 0 .. MaxRevision]
NoReview == [status |-> "none", owned |-> FALSE, id |-> 0, shown |-> 0, approved |-> 0, pending |-> 0]

Written(k) == review[k].status # "none"
Approved(r) == {k \in Key : k[2] = r /\ review[k].status = "Approved"}

----------------------------------------------------------------------------
(* Counting and listing. *)

Count(rows, r) == {k \in Key : k[2] = r /\ rows[k].status = "Approved"}
Sum(numbers) == FoldFunction(+, 0, numbers)
Ratings(rows, keys) == Sum([k \in keys |-> rows[k].shown])
Tally(rows, keys) == [count |-> Cardinality(keys), sum |-> Ratings(rows, keys)]

\* Without the trigger on an update of the status.
MutantRecount(rows, r) ==
    tally' = IF \E k \in Key : k[2] = r /\ review[k].status = "Approved" /\ rows[k].status = "Pending"
             THEN tally ELSE [tally EXCEPT ![r] = Tally(rows, Count(rows, r))]

\* reviews_report_aggregate_insert, _update and _delete.
Recount(rows, r) == tally' = [tally EXCEPT ![r] = Tally(rows, Count(rows, r))]

\* One review per account: the one updated last.  A review whose account was
\* deleted stands for itself.
Effective(keys) ==
    {k \in keys : ~\E l \in keys : /\ l[1] = k[1] /\ review[k].owned /\ review[l].owned
                                   /\ <<l, k>> \in after}

ApprovedIn(reports) == UNION {Approved(r) : r \in reports}

\* approvedReviewAggregate, over the family of a page.
Aggregate(r) == Tally(review, Effective(ApprovedIn(Family(r))))

\* listPublicReviewsPage leaves out the reports nobody may open.
OnPage(r) ==
    Effective(UNION {Approved(m) : m \in {m \in Family(r) : IsPublished(RootOf(m))}})

\* LATEST_REVIEWS_SQL of the home page: per canonical report and account.
HomeReviews ==
    UNION {Effective({k \in Key : review[k].status = "Approved" /\ RootOf(k[2]) = r}) : r \in Listed}

\* public_member_activity: the pages on which a member has an approved review.
ReviewedBy(m) ==
    {RootOf(k[2]) : k \in {k \in Key : /\ k[1] = m /\ review[k].owned
                                       /\ review[k].status = "Approved"
                                       /\ IsPublished(RootOf(k[2]))}}

\* report_family_metrics
ReviewMetric(r) ==
    IF Children(r) = {} THEN tally[r]
    ELSE Tally(review, Effective(ApprovedIn({r} \union Children(r))))

\* The members who reviewed a report and the family it would join.
Overlap(r, c) ==
    {m \in Member : /\ Written(<<m, r>>) /\ review[<<m, r>>].owned
                    /\ \E f \in {c} \union Children(c) :
                           Written(<<m, f>>) /\ review[<<m, f>>].owned}

----------------------------------------------------------------------------
(* Requests. *)

Call == [pc : {"idle", "review", "write", "moderate"},
         key : Key \union {<<>>}, id : 0 .. MaxRevision,
         approved : 0 .. MaxRevision, pending : 0 .. MaxRevision]
NoCall == [pc |-> "idle", key |-> <<>>, id |-> 0, approved |-> 0, pending |-> 0]

\* budget of the revisions may be written by these members.
ReviewsInit(members, budget) ==
    /\ review = [k \in Key |-> NoReview]
    /\ revision = [n \in Revision |-> IF n <= budget THEN "unused" ELSE "Rejected"]
    /\ after = {}
    /\ tally = [r \in Report |-> [count |-> 0, sum |-> 0]]
    /\ gone = Member \ members
    /\ call = [c \in Client |-> NoCall]

Hangup(c) == call' = [call EXCEPT ![c] = NoCall]
\* The write of a row makes it the latest.
Touch(k) ==
    after' = {p \in after : k \notin {p[1], p[2]}} \union ({k} \X {l \in Key \ {k} : Written(l)})

\* POST /api/reviews: a member names a report; the review is about the report
\* its link resolves to at that moment.
ReviewBegin(c) ==
    \E m \in Member \ gone, r \in Report :
        /\ call[c] = NoCall /\ ResolvesTo(r) # None
        /\ call' = [call EXCEPT ![c] = [NoCall EXCEPT !.pc = "review", !.key = <<m, ResolvesTo(r)>>]]
        /\ UNCHANGED <<review, revision, after, tally, gone>>

\* createReview looks for the review of this account.
ReviewRead(c) ==
    LET row == review[call[c].key]
        found == IF row.owned THEN row ELSE NoReview
    IN  /\ call[c].pc = "review"
        /\ call' = [call EXCEPT ![c] = [@ EXCEPT !.pc = "write", !.id = found.id,
                                        !.approved = found.approved, !.pending = found.pending]]
        /\ UNCHANGED <<review, revision, after, tally, gone>>

Unused == {n \in Revision : revision[n] = "unused"}

\* The row after createReview's batch, and the revisions.
Submitted(row, q, n) ==
    CASE q.id = 0 -> [status |-> "Pending", owned |-> TRUE, id |-> n, shown |-> n,
                      approved |-> 0, pending |-> n]
      [] q.id # 0 /\ q.approved # 0 -> [row EXCEPT !.pending = n]
      [] OTHER -> [row EXCEPT !.status = "Pending", !.shown = n, !.pending = n]
Superseded(q, n) ==
    [k \in Revision |->
        IF k = n THEN "Pending"
        ELSE IF k = q.pending /\ revision[k] = "Pending" THEN "Rejected" ELSE revision[k]]

\* The batch fails as a whole: on the unique index when a first review arrived
\* meanwhile, on the foreign keys when account, report or row are gone.
ReviewWrite(c) ==
    LET q == call[c]
        n == CHOOSE n \in Unused : \A m \in Unused : n <= m
        row == review[q.key]
        fits == /\ q.key[1] \notin gone /\ Exists(q.key[2])
                /\ IF q.id = 0 THEN ~Written(q.key) ELSE row.id = q.id
        rows == [review EXCEPT ![q.key] = Submitted(row, q, n)]
    IN  /\ q.pc = "write" /\ Unused # {}
        /\ IF fits
           THEN /\ review' = rows /\ revision' = Superseded(q, n)
                /\ Touch(q.key) /\ Recount(rows, q.key[2])
           ELSE UNCHANGED <<review, revision, after, tally>>
        /\ Hangup(c)
        /\ UNCHANGED gone

\* moderateReview reads the row and its pending revision.  Some moderator is
\* always another account than the author's, which assertIndependentModerator
\* asks for.
ModerateRead(c) ==
    \E k \in Key :
        /\ call[c] = NoCall /\ Written(k) /\ review[k].pending # 0
        /\ call' = [call EXCEPT ![c] =
               [pc |-> "moderate", key |-> k, id |-> review[k].id,
                approved |-> review[k].approved, pending |-> review[k].pending]]
        /\ UNCHANGED <<review, revision, after, tally, gone>>

\* A decision that leaves a newer revision in the queue of the row.
MutantDecided(row, q, verdict) ==
    CASE verdict = "Approved" ->
             [row EXCEPT !.shown = q.pending, !.status = "Approved", !.approved = q.pending]
      [] verdict = "Rejected" /\ q.approved # 0 ->
             [row EXCEPT !.pending = 0, !.status = "Approved"]
      [] OTHER -> [row EXCEPT !.pending = 0, !.status = "Rejected"]

\* Its batch: the decision on the revision that was read, then the row.
Decided(row, q, verdict) ==
    CASE verdict = "Approved" ->
             [row EXCEPT !.shown = q.pending, !.status = "Approved",
                         !.approved = q.pending, !.pending = 0]
      [] verdict = "Rejected" /\ q.approved # 0 ->
             [row EXCEPT !.pending = 0, !.status = "Approved"]
      [] OTHER -> [row EXCEPT !.pending = 0, !.status = "Rejected"]

ModerateWrite(c, verdict) ==
    LET q == call[c]
        rows == [review EXCEPT ![q.key] = Decided(@, q, verdict)]
    IN  /\ q.pc = "moderate"
        /\ IF review[q.key].id = q.id
           THEN /\ review' = rows
                /\ revision' = [revision EXCEPT ![q.pending] = verdict]
                /\ Touch(q.key) /\ Recount(rows, q.key[2])
           ELSE UNCHANGED <<review, revision, after, tally>>
        /\ Hangup(c)
        /\ UNCHANGED gone

\* The rows that a deletion takes along.
DropReviews(keys) ==
    /\ review' = [k \in Key |-> IF k \in keys THEN NoReview ELSE review[k]]
    /\ after' = {p \in after : p[1] \notin keys /\ p[2] \notin keys}

\* removeReview, by an admin.
DeleteReview(k) ==
    /\ Written(k)
    /\ DropReviews({k})
    /\ Recount(review', k[2])
    /\ UNCHANGED <<revision, gone, call>>

\* A removed report takes its reviews with it.
DropReviewsOf(r) ==
    /\ DropReviews({k \in Key : k[2] = r})
    /\ tally' = [tally EXCEPT ![r] = [count |-> 0, sum |-> 0]]
    /\ UNCHANGED <<revision, gone, call>>

\* deleteAccount: what the account wrote stays, without its author.
DeleteAccount(m) ==
    /\ m \notin gone
    /\ gone' = gone \union {m}
    /\ review' = [k \in Key |-> IF k[1] = m THEN [review[k] EXCEPT !.owned = FALSE] ELSE review[k]]
    /\ UNCHANGED <<revision, after, tally, call>>

ReviewStep ==
    \/ \E c \in Client :
           \/ ReviewBegin(c) \/ ReviewRead(c) \/ ReviewWrite(c) \/ ModerateRead(c)
           \/ \E verdict \in {"Approved", "Rejected"} : ModerateWrite(c, verdict)
    \/ \E k \in Key : DeleteReview(k)
    \/ \E m \in Member : DeleteAccount(m)

----------------------------------------------------------------------------
\* after is a strict order of these keys, of any two of them.
IsOrderOf(keys) ==
    /\ after \subseteq keys \X keys
    /\ \A k \in keys : <<k, k>> \notin after
    /\ \A k, l \in keys : k = l \/ <<k, l>> \in after \/ <<l, k>> \in after
    /\ \A k, l, m \in keys : <<k, l>> \in after /\ <<l, m>> \in after => <<k, m>> \in after

ReviewsTypeOK ==
    /\ review \in [Key -> ReviewRow]
    /\ revision \in [Revision -> {"unused", "Pending", "Approved", "Rejected"}]
    /\ IsOrderOf({k \in Key : Written(k)})
    /\ tally \in [Report -> [count : Nat, sum : Nat]]
    /\ gone \subseteq Member
    /\ call \in [Client -> Call]

\* Two members write and edit, two moderators decide what they have read a
\* moment ago: the revision a row holds out for moderation is one nobody has
\* decided or replaced.
QueueIsUndecided ==
    \A k \in Key : review[k].pending # 0 => revision[review[k].pending] = "Pending"

\* The number and the sum of ratings of a report are computed four ways: by
\* counters that triggers maintain, by the view over a family, for the page
\* of the report, and from the list of reviews it shows.  They agree in every
\* state, across merges, removals and deleted accounts, with one review per
\* account; the home page chooses among the same reviews, and a member's rank
\* counts each page that shows one.
RatingsAgree ==
    /\ HomeReviews = UNION {OnPage(r) : r \in Listed}
    /\ \A m \in Member :
           ReviewedBy(m) = {r \in Listed : \E k \in OnPage(r) : k[1] = m /\ review[k].owned}
    /\ \A r \in Listed :
           /\ ReviewMetric(r) = Aggregate(r)
           /\ Aggregate(r) = Tally(review, OnPage(r))
           /\ \A k, l \in OnPage(r) :
                  k # l /\ k[1] = l[1] => ~review[k].owned \/ ~review[l].owned

\* docs/COMMUNITY.md: all reviews pass moderation.  The text that an approved
\* review shows is a revision that a moderator approved.
PublicTextWasApproved ==
    \A k \in Key : review[k].status = "Approved" => revision[review[k].shown] = "Approved"
=============================================================================
