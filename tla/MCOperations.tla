---------------------------- MODULE MCOperations ----------------------------
(* Operations on small instances, one part at a time.                      *)
EXTENDS Operations, TLC

CONSTANTS u1, u2, r1, r2, r3, w1, w2, t1, t2, t3, k1, k2, k3

Quiet == [part |-> "none", ids |-> {}, desks |-> {}, budget |-> 0,
          people |-> u1 :> [role |-> "member", active |-> TRUE, linked |-> TRUE] @@
                     u2 :> [role |-> "admin", active |-> TRUE, linked |-> TRUE],
          submissions |-> {}, clicks |-> u1 :> 0 @@ u2 :> 0]

\* Two applications at one desk; one at two, while accounts change.
Backlog == [Quiet EXCEPT !.part = "applications", !.ids = {1, 2}, !.desks = {1}]
Changing == [Quiet EXCEPT !.part = "applications", !.ids = {1}, !.desks = {1, 2}, !.budget = 1]

\* One moderator with two submissions, or longer with one; two with both.
Screens == [Quiet EXCEPT !.part = "panel", !.submissions = {1, 2}]
Alone == [Screens EXCEPT !.clicks = u1 :> 2 @@ u2 :> 0]
Longer == [Screens EXCEPT !.submissions = {1}, !.clicks = u1 :> 3 @@ u2 :> 0]
Together == [Screens EXCEPT !.clicks = u1 :> 1 @@ u2 :> 1]

Busy(p, n) == [Quiet EXCEPT !.part = p, !.budget = n]
AllScenarios == {Backlog, Changing, Busy("monitor", 2), Busy("incidents", 0), Busy("status", 2),
                 Busy("backup", 0), Busy("rate", 0), Busy("scores", 0), Busy("dialogs", 0), Busy("lists", 0),
                 Alone, Longer, Together}

\* Three events make an incident, and ten when they were only logged.
Thresholds == [p \in Pattern |-> 2]

\* Twelve backups are kept in the code.
BackupKinds == <<"weekly", "monthly", "weekly">>
=============================================================================
