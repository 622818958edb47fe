---------------------------- MODULE MCCommunity -----------------------------
(* Community on small instances: each scenario lets one part be busy while  *)
(* reports change around it.                                               *)
EXTENDS Community, TLC

CONSTANTS a1, a2, m1, m2, s1, p1, e1, e2, c1, c2, d1, d2

Quiet == [reports |-> {1, 2}, images |-> {}, edits |-> {}, members |-> {}, revisions |-> 0, cases |-> {}, faults |-> 0,
          comments |-> {}]

\* Merges that overtake each other, a merge undone and a removal.
Families == [Quiet EXCEPT !.reports = {1, 2, 3},
    !.images = {<<1, a1>>, <<2, a1>>, <<2, a2>>},
    !.edits = {Merge(1, 2), Merge(2, 3), Merge(3, 2), Unmerge(1), Unmerge(2), Withdraw(1), Withdraw(2)}]

\* A family whose reports change images and publication, and go.
Pages == [Quiet EXCEPT !.images = {<<1, a1>>, <<2, a1>>}, !.edits =
    {Merge(1, 2), Update(1, FALSE, {a1, a2}), Update(2, TRUE, {a2}), Withdraw(1), Create(3, TRUE, {a1})}]

\* Two removals reach for the same image, which a report lost to another.
Removals == [Quiet EXCEPT !.images = {<<1, a1>>}, !.edits =
    {Withdraw(1), Withdraw(2), Update(1, FALSE, {}), Update(2, TRUE, {a1}), Create(3, TRUE, {a1})}]

\* Two members write and edit; one does while the reports merge and part, or
\* one of them is removed.
Authors == [Quiet EXCEPT !.reports = {1}, !.members = {m1, m2}, !.revisions = 3]
Merging == [Quiet EXCEPT !.edits = {Merge(1, 2), Unmerge(1)}, !.members = {m1}, !.revisions = 2]
Orphans == [Quiet EXCEPT !.edits = {Withdraw(1)}, !.members = {m1}, !.revisions = 2]

\* A case with two images is filed, rolled back, decided and removed; the
\* report an appeal is about may go meanwhile.
Submissions == [Quiet EXCEPT !.reports = {1}, !.cases = {s1}, !.faults = 1]
Appeals == [Quiet EXCEPT !.edits = {Withdraw(1)}, !.cases = {p1}, !.faults = 1]

\* Replies that answer each other across a merge that is undone.
Replies == [Quiet EXCEPT !.edits = {Merge(1, 2), Unmerge(1)}, !.comments = {1, 2}]

AllScenarios == {Families, Pages, Removals, Authors, Merging, Orphans, Submissions, Appeals, Replies}

\* One member writes and edits.
OneAuthor == {[Quiet EXCEPT !.reports = {1}, !.members = {m1}, !.revisions = 2]}

Symmetry == Permutations(Editor) \union Permutations(Client) \union Permutations(Desk)
                \union Permutations(Member)
=============================================================================
