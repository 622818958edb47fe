----------------------------- MODULE MCEvidence -----------------------------
(* Evidence on small instances: the constants of the configurations.       *)
EXTENDS Inventory, TLC

CONSTANTS a1, a2, a3, r1, r2, m1, m2, d1, d2, e1, t1, t2, t3

Say == [state |-> "keep", report |-> "keep", caption |-> "keep",
        review |-> "keep", pii |-> FALSE, hold |-> "keep"]

LinkTo(r) == [Say EXCEPT !.report = r, !.caption = "text"]
Publish == [Say EXCEPT !.state = "public", !.review = "yes"]
PublishUnreviewed == [Say EXCEPT !.state = "public"]
Withhold == [Say EXCEPT !.state = "withheld"]
Return == [Say EXCEPT !.state = "private_ready"]
FlagPii == [Say EXCEPT !.pii = TRUE]
Hold == [Say EXCEPT !.hold = "yes"]
Unhold == [Say EXCEPT !.hold = "no"]
Recaption == [Say EXCEPT !.caption = "text"]
Unlink == [Say EXCEPT !.report = "unlink"]
LinkBlank == [Say EXCEPT !.report = r1]

\* Publication, personal information, holds and deletions at once.
RaceInputs == {LinkTo(r1), Publish, PublishUnreviewed, FlagPii, Hold, Unhold}

\* Replacements and links on three images, of which two fit into the bytes of a
\* report, but only one into its file slots, and the third into neither.
LinkInputs == {LinkTo(r1), LinkBlank, FlagPii, Unlink, Recaption}

\* Holds that race with deletions, and edits that write an old hold back.
HoldInputs == {Hold, Unhold, Withhold, Return, LinkTo(r1)}

Symmetry == Permutations(Moderator) \union Permutations(Deleter) \union Permutations(Token)

Sizes == [a \in Asset |-> IF a = a3 THEN 3 ELSE 1]
=============================================================================
