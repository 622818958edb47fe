---------------------------- MODULE Applications ----------------------------
(***************************************************************************)
(* lib/moderator-applications.ts and the triggers of migration 0013: an    *)
(* application to become moderator, from its submission to the erasure of  *)
(* its answers.  Requests check the session, read the row, then write; the *)
(* triggers look at accounts and status once more inside the write.        *)
(*                                                                         *)
(* "old" stands for the 90 days after the last change of status, which     *)
(* both retention jobs wait for.                                           *)
(***************************************************************************)
EXTENDS Naturals, FiniteSets

CONSTANTS
    Account,       \* accounts
    Application,   \* application ids, one per submission
    Reviewer,      \* requests of the moderation queue at a time
    Nobody,        \* no account
    BatchLimit     \* rows a retention job takes at a time

ASSUME ApplicationConstants == Nobody \notin Account /\ BatchLimit \in Nat \ {0}

VARIABLES
    account,       \* accounts and account_identities, as far as they matter here
    application,   \* moderator_applications
    filing,        \* submissions under way
    ruling,        \* decisions under way
    changes        \* bound: changes of accounts still to come

applicationVars == <<account, application, filing, ruling, changes>>

\* linked: both Discord and email.
Person == [role : {"member", "moderator", "admin"}, active : BOOLEAN, linked : BOOLEAN]
          \union {[role |-> "gone", active |-> FALSE, linked |-> FALSE]}
Gone == [role |-> "gone", active |-> FALSE, linked |-> FALSE]

Eligible(a) == account[a].role = "member" /\ account[a].active /\ account[a].linked
Staffed(a) == account[a].role \in {"moderator", "admin"} /\ account[a].active /\ account[a].linked
Administers(a) == account[a].role = "admin" /\ account[a].active

Open == {"Pending", "Under Review"}
Closed == {"Accepted", "Rejected", "Withdrawn", "Expired"}

ApplicationRow ==
    [status : {"none", "dropped"} \union Open \union Closed, of : Account \union {Nobody},
     reviewer : Account \union {Nobody}, answers : BOOLEAN, notes : BOOLEAN,
     erased : BOOLEAN, old : BOOLEAN]
NoApplication == [status |-> "none", of |-> Nobody, reviewer |-> Nobody, answers |-> FALSE,
                  notes |-> FALSE, erased |-> FALSE, old |-> FALSE]

Submitted(i) == application[i].status \in Open \union Closed
HasOpen(a) == \E i \in Application : application[i].of = a /\ application[i].status \in Open

ApplicationsInit(people, ids, desks, budget) ==
    /\ account = people
    /\ changes = budget
    /\ application = [i \in Application |-> NoApplication]
    /\ filing = [i \in Application |-> [pc |-> IF i \in ids THEN "new" ELSE "done", of |-> Nobody]]
    /\ ruling = [d \in Reviewer |-> [pc |-> IF d \in desks THEN "idle" ELSE "absent",
                                     id |-> Nobody, by |-> Nobody,
                                     verdict |-> "none", seen |-> "none"]]

----------------------------------------------------------------------------
(* Submitting and withdrawing. *)

\* POST: the session is a member's with both identities.
Apply(i) ==
    /\ filing[i].pc = "new"
    /\ \E a \in Account : Eligible(a) /\ filing' = [filing EXCEPT ![i] = [pc |-> "read", of |-> a]]
    /\ UNCHANGED <<account, application, ruling, changes>>

\* findActiveModeratorApplicationForAccount
ApplyRead(i) ==
    /\ filing[i].pc = "read"
    /\ filing' = [filing EXCEPT ![i].pc = IF HasOpen(filing[i].of) THEN "done" ELSE "insert"]
    /\ UNCHANGED <<account, application, ruling, changes>>

\* The INSERT: the trigger asks for an eligible account, the partial unique
\* index for no other open application.
ApplyInsert(i) ==
    LET a == filing[i].of
    IN  /\ filing[i].pc = "insert"
        /\ application' =
               IF Eligible(a) /\ ~HasOpen(a)
               THEN [application EXCEPT ![i] = [NoApplication EXCEPT
                        !.status = "Pending", !.of = a, !.answers = TRUE]]
               ELSE application
        /\ filing' = [filing EXCEPT ![i].pc = "done"]
        /\ UNCHANGED <<account, ruling, changes>>

\* A row after its answers were erased.
Redacted(row) ==
    [row EXCEPT !.answers = FALSE, !.notes = FALSE, !.reviewer = Nobody, !.erased = TRUE]

\* A change of status restarts the 90 days; an expired application is redacted
\* by a trigger at once.
Moved(row, status) ==
    LET moved == [row EXCEPT !.status = status, !.old = FALSE]
    IN  IF status = "Expired" THEN Redacted(moved) ELSE moved

\* withdrawModeratorApplication: one guarded UPDATE.
Withdraw(i) ==
    /\ application[i].status \in Open
    /\ account[application[i].of].active
    /\ application' = [application EXCEPT ![i] = Moved(@, "Withdrawn")]
    /\ UNCHANGED <<account, filing, ruling, changes>>

----------------------------------------------------------------------------
(* Deciding. *)

\* PATCH: the session is of staff; accepting takes an administrator.
RuleBegin(d) ==
    /\ ruling[d].pc = "idle"
    /\ \E s \in Account, i \in Application, verdict \in {"Under Review", "Accepted", "Rejected"} :
           /\ Staffed(s) /\ Submitted(i)
           /\ verdict = "Accepted" => Administers(s)
           /\ ruling' = [ruling EXCEPT ![d] = [pc |-> "read", id |-> i, by |-> s,
                                              verdict |-> verdict, seen |-> "none"]]
    /\ UNCHANGED <<account, application, filing, changes>>

NextStatus(status) ==
    CASE status = "Pending" -> {"Under Review"}
      [] status = "Under Review" -> {"Accepted", "Rejected"}
      [] OTHER -> {}

RuleRead(d) ==
    LET q == ruling[d]
    IN  /\ q.pc = "read"
        /\ ruling' = [ruling EXCEPT ![d] =
               [@ EXCEPT !.pc = IF q.verdict \in NextStatus(application[q.id].status)
                                THEN "write" ELSE "idle",
                         !.seen = application[q.id].status]]
        /\ UNCHANGED <<account, application, filing, changes>>

\* Without the applicant's half of the trigger.
MutantMayRule(i, s, verdict) == Staffed(s) /\ (verdict = "Accepted" => Administers(s))

\* The triggers on the actor and on the requirements of an acceptance.
MayRule(i, s, verdict) ==
    /\ Staffed(s)
    /\ verdict = "Accepted" => Administers(s) /\ Eligible(application[i].of)

\* The UPDATE, guarded by the status that was read; acceptance grants the role.
RuleWrite(d) ==
    LET q == ruling[d]
        row == application[q.id]
    IN  /\ q.pc = "write"
        /\ IF row.status = q.seen /\ MayRule(q.id, q.by, q.verdict)
           THEN \E notes \in BOOLEAN :
                  /\ application' = [application EXCEPT ![q.id] =
                         [Moved(row, q.verdict) EXCEPT !.reviewer = q.by, !.notes = notes]]
                  /\ account' = IF /\ q.verdict = "Accepted"
                                   /\ account[row.of].role = "member" /\ account[row.of].active
                                THEN [account EXCEPT ![row.of].role = "moderator"] ELSE account
           ELSE UNCHANGED <<account, application>>
        /\ ruling' = [ruling EXCEPT ![d].pc = "idle"]
        /\ UNCHANGED <<filing, changes>>

----------------------------------------------------------------------------
(* Retention: runFrequentMaintenance, every five minutes. *)

\* A batch of rows; the jobs take the oldest first, which a bounded number of
\* applications does not tell from any other choice.
Batches(rows) ==
    {s \in SUBSET rows : Cardinality(s) = IF Cardinality(rows) < BatchLimit
                                          THEN Cardinality(rows) ELSE BatchLimit}

Stale == {i \in Application : application[i].status \in Open /\ application[i].old}
ExpireStale ==
    /\ Stale # {}
    /\ \E s \in Batches(Stale) :
           application' = [i \in Application |->
               IF i \in s THEN Moved(application[i], "Expired") ELSE application[i]]
    /\ UNCHANGED <<account, filing, ruling, changes>>

\* Forgets the applications that were withdrawn.
MutantDue ==
    {i \in Application : /\ application[i].status \in Closed \ {"Withdrawn"}
                         /\ application[i].old /\ ~application[i].erased}

Due == {i \in Application : /\ application[i].status \in Closed
                            /\ application[i].old /\ ~application[i].erased}
PurgeAnswers ==
    /\ Due # {}
    /\ \E s \in Batches(Due) :
           application' = [i \in Application |->
               IF i \in s THEN Redacted(application[i]) ELSE application[i]]
    /\ UNCHANGED <<account, filing, ruling, changes>>

Age(i) ==
    /\ Submitted(i) /\ ~application[i].old /\ ~application[i].erased
    /\ application' = [application EXCEPT ![i].old = TRUE]
    /\ UNCHANGED <<account, filing, ruling, changes>>

\* Whatever Accounts does to an account meanwhile; a deletion takes the
\* applications of the account along and forgets it as reviewer.
ChangeAccount(a) ==
    /\ changes > 0 /\ changes' = changes - 1
    /\ account[a] # Gone
    /\ \E p \in Person \ {account[a]} :
           /\ account' = [account EXCEPT ![a] = p]
           /\ application' = [i \in Application |->
                  LET row == application[i]
                  IN  IF p # Gone THEN row
                      ELSE IF row.of = a THEN [NoApplication EXCEPT !.status = "dropped"]
                      ELSE [row EXCEPT !.reviewer = IF @ = a THEN Nobody ELSE @]]
    /\ UNCHANGED <<filing, ruling>>

ApplicationStep ==
    \/ \E i \in Application : Apply(i) \/ ApplyRead(i) \/ ApplyInsert(i) \/ Withdraw(i) \/ Age(i)
    \/ \E d \in Reviewer : RuleBegin(d) \/ RuleRead(d) \/ RuleWrite(d)
    \/ ExpireStale \/ PurgeAnswers
    \/ \E a \in Account : ChangeAccount(a)

----------------------------------------------------------------------------
ApplicationsTypeOK ==
    /\ account \in [Account -> Person]
    /\ application \in [Application -> ApplicationRow]
    /\ filing \in [Application -> [pc : {"new", "read", "insert", "done"},
                                   of : Account \union {Nobody}]]
    /\ ruling \in [Reviewer -> [pc : {"absent", "idle", "read", "write"}, id : Application \union {Nobody},
                                by : Account \union {Nobody},
                                verdict : {"none", "Under Review", "Accepted", "Rejected"},
                                seen : {"none", "dropped"} \union Open \union Closed]]
    /\ changes \in Nat

\* Two moderators and the applicant act on what they have read while accounts
\* change: an application that is accepted was under review, and in that very
\* step an administrator other than the applicant turns a member who still is
\* active and has both identities into a moderator.
GrantsAreEarned ==
    [][\A i \in Application :
           application[i].status # "Accepted" /\ application'[i].status = "Accepted" =>
               /\ application[i].status = "Under Review"
               /\ Eligible(application[i].of) /\ account'[application[i].of].role = "moderator"
               /\ Administers(application'[i].reviewer)]_applicationVars

\* Every application, decided or not, loses its answers, its notes and its
\* reviewer for good, although moderators may still be writing to it.
AnswersAreErased ==
    \A i \in Application :
        Submitted(i) ~> [](Submitted(i) => application[i] = Redacted(application[i]))
=============================================================================
