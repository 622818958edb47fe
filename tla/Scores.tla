------------------------------- MODULE Scores -------------------------------
(***************************************************************************)
(* lib/reputation.ts, lib/public-analytics.ts and lib/community-ranks.ts:  *)
(* the numbers people see.  The score of a report is computed twice, by    *)
(* SQL where reports are sorted and averaged and by JavaScript where one   *)
(* is shown; they round halves differently.  Numbers are exact fractions.  *)
(* The sample is a report or a member, and grows.                          *)
(***************************************************************************)
EXTENDS Integers, FiniteSets, FiniteSetsExt

CONSTANTS
    MaxReviews,    \* bound: approved reviews of a family
    MaxPoints      \* bound: points of a member

ASSUME ScoreConstants == {MaxReviews, MaxPoints} \subseteq Nat

VARIABLES sample
scoreVars == <<sample>>

Verdict == {"Confirmed", "Under Review", "Reported", "Rejected"}
Adjustment == [s \in Verdict |-> CASE s = "Confirmed" -> -35 [] s = "Under Review" -> -15
                                   [] s = "Reported" -> -8 [] s = "Rejected" -> 15]

Clamp(n, low, high) == Max({low, Min({high, n})})

\* 50 + adjustment + (weighted average - 3) * 12.5, as a fraction.
Points(verdict, count, total) ==
    [over |-> 2 * (count + 3) * (50 + Adjustment[verdict]) + 25 * ((total + 9) - 3 * (count + 3)),
     under |-> 2 * (count + 3)]

\* Math.round: the nearest integer, halves towards plus infinity.
HalfUp(f) == (2 * f.over + f.under) \div (2 * f.under)

\* SQL's ROUND: halves away from zero.
HalfAway(f) == IF f.over >= 0 THEN HalfUp(f) ELSE -HalfUp([f EXCEPT !.over = -f.over])

\* Without the lower end of the clamp.
MutantPageScore(verdict, count, total) == Min({100, HalfUp(Points(verdict, count, total))})

\* calculateReputationFromAggregates and REPUTATION_SCORE_SQL
PageScore(verdict, count, total) == Clamp(HalfUp(Points(verdict, count, total)), 0, 100)
DirectoryScore(verdict, count, total) == Clamp(HalfAway(Points(verdict, count, total)), 0, 100)

\* COMMUNITY_RANK_LADDER; communityRankForPoints climbs until a step is too high.
Ladder == <<0, 10, 30, 75, 150, 300>>
Top == Max(DOMAIN Ladder)
LevelOf(points) == Max({n \in DOMAIN Ladder : \A m \in 1 .. n : points >= Ladder[m]})
PointsToNext(points) ==
    IF LevelOf(points) = Top THEN 0 ELSE Max({0, Ladder[LevelOf(points) + 1] - points})
Progress(points) ==
    LET level == LevelOf(points)
    IN  IF level = Top THEN 100
        ELSE Min({100, (100 * (points - Ladder[level])) \div (Ladder[level + 1] - Ladder[level])})

----------------------------------------------------------------------------
ReportSample == [verdict : Verdict, count : 0 .. MaxReviews, total : 0 .. 5 * MaxReviews]
MemberSample == [points : 0 .. MaxPoints]

ScoresInit ==
    sample \in {[verdict |-> "Reported", count |-> 0, total |-> 0], [points |-> 0]}

AddReview ==
    /\ sample \in ReportSample /\ sample.count < MaxReviews
    /\ \E stars \in 1 .. 5 : sample' = [sample EXCEPT !.count = @ + 1, !.total = @ + stars]

Judge ==
    /\ sample \in ReportSample
    /\ \E v \in Verdict : sample' = [sample EXCEPT !.verdict = v]

\* COMMUNITY_POINT_VALUES: a report, a review, an eligible reply.
Contribute ==
    /\ sample \in MemberSample
    /\ \E n \in {8, 4, 1} : /\ sample.points + n <= MaxPoints
                            /\ sample' = [sample EXCEPT !.points = @ + n]

ScoreStep == AddReview \/ Judge \/ Contribute

----------------------------------------------------------------------------
ScoresTypeOK == sample \in ReportSample \/ sample \in MemberSample

\* The directory sorts by a number that SQL rounds and shows the one JavaScript
\* rounds: they are the same, they stay on the scale, and better stars never
\* lower them.  More points never lower a rank, and its progress is complete
\* only on the last step of the ladder.
ScoresAgree ==
    IF sample \in MemberSample
    THEN /\ LevelOf(sample.points) <= LevelOf(sample.points + 1)
         /\ Progress(sample.points) = 100 <=> LevelOf(sample.points) = Top
         /\ PointsToNext(sample.points) > 0 =>
                LevelOf(sample.points + PointsToNext(sample.points)) = LevelOf(sample.points) + 1
    ELSE LET score == PageScore(sample.verdict, sample.count, sample.total)
         IN  /\ score = DirectoryScore(sample.verdict, sample.count, sample.total)
             /\ score \in 0 .. 100
             /\ sample.total < 5 * sample.count =>
                    score <= PageScore(sample.verdict, sample.count, sample.total + 1)
=============================================================================
