------------------------------ MODULE Comments ------------------------------
(***************************************************************************)
(* The replies under a report, in lib/community-intake.ts: a reply may     *)
(* answer an approved reply of the same family, and families change        *)
(* between the check and the insert and ever after.  parent_id has no      *)
(* foreign key.                                                            *)
(***************************************************************************)
EXTENDS Reports

CONSTANTS Comment   \* comment ids, one per request that writes one

ASSUME CommentsConstants == Comment \subseteq Nat \ {0}

VARIABLES
    comment,   \* comments
    reply      \* the requests that write one

commentVars == <<comment, reply>>

NoParent == 0
CommentRow == [status : {"none", "Pending", "Approved", "Rejected", "removed"},
               on : Report \union {None}, parent : Comment \union {NoParent}]
Stands(n) == comment[n].status \in {"Pending", "Approved", "Rejected"}

\* The replies on the page of a report (listPublicCommentsPage, with the
\* family of the report that the link resolved to).
CommentsOn(r) ==
    {n \in Comment : /\ comment[n].status = "Approved" /\ comment[n].on \in Family(r)
                     /\ IsPublished(RootOf(comment[n].on))}

MutantSameFamily(n, p) == TRUE

\* Whose reply the page says this one answers.
SameFamily(n, p) == RootOf(comment[n].on) = RootOf(comment[p].on)
ShownParent(n) ==
    IF \E p \in Comment : p = comment[n].parent /\ comment[p].status = "Approved" /\ SameFamily(n, p)
    THEN comment[n].parent ELSE NoParent

CommentsInit(ids) ==
    /\ comment = [n \in Comment |-> [status |-> "none", on |-> None, parent |-> NoParent]]
    /\ reply = [n \in Comment |-> [pc |-> IF n \in ids THEN "new" ELSE "done",
                                on |-> None, parent |-> NoParent]]

\* POST /api/comments: the report is resolved.
ReplyBegin(n) ==
    /\ reply[n].pc = "new"
    /\ \E r \in Report, p \in Comment \union {NoParent} :
           /\ ResolvesTo(r) # None
           /\ reply' = [reply EXCEPT ![n] =
                  [pc |-> IF p = NoParent THEN "insert" ELSE "parent",
                   on |-> ResolvesTo(r), parent |-> p]]
    /\ UNCHANGED comment

\* publicCommentExists
ReplyParent(n) ==
    LET q == reply[n]
    IN  /\ q.pc = "parent"
        /\ reply' = [reply EXCEPT ![n].pc =
               IF comment[q.parent].status = "Approved" /\ comment[q.parent].on \in Family(q.on)
               THEN "insert" ELSE "done"]
        /\ UNCHANGED comment

\* createComment; the foreign key fails when the report is gone.
ReplyInsert(n) ==
    /\ reply[n].pc = "insert"
    /\ comment' = IF Exists(reply[n].on)
                  THEN [comment EXCEPT ![n] = [status |-> "Pending", on |-> reply[n].on,
                                               parent |-> reply[n].parent]]
                  ELSE comment
    /\ reply' = [reply EXCEPT ![n].pc = "done"]

\* moderateComment reads only whether the reply is there and who wrote it.
ModerateComment(n) ==
    /\ Stands(n)
    /\ \E status \in {"Approved", "Rejected"} : comment' = [comment EXCEPT ![n].status = status]
    /\ UNCHANGED reply

\* A row that is gone.
Drop(rows, gone) ==
    [n \in Comment |-> IF n \in gone THEN [rows[n] EXCEPT !.status = "removed"] ELSE rows[n]]

\* removeComment: the reply and its direct answers.
RemoveComment(n) ==
    /\ Stands(n)
    /\ comment' = Drop(comment, {n} \union {m \in Comment : Stands(m) /\ comment[m].parent = n})
    /\ UNCHANGED reply

DropCommentsOf(r) ==
    /\ comment' = Drop(comment, {n \in Comment : Stands(n) /\ comment[n].on = r})
    /\ UNCHANGED reply

CommentStep ==
    \E n \in Comment :
        \/ ReplyBegin(n) \/ ReplyParent(n) \/ ReplyInsert(n)
        \/ ModerateComment(n) \/ RemoveComment(n)

----------------------------------------------------------------------------
CommentsTypeOK ==
    /\ comment \in [Comment -> CommentRow]
    /\ reply \in [Comment -> [pc : {"new", "parent", "insert", "done"},
                              on : Report \union {None}, parent : Comment \union {NoParent}]]

\* A page names nobody it does not show: when a reply is said to answer
\* another, that one is approved and stands on the same page, also after the
\* reports were merged, answered across, and taken apart again.
QuotedReplyIsShown ==
    \A r \in Listed : \A n \in CommentsOn(r) :
        ShownParent(n) # NoParent => ShownParent(n) \in CommentsOn(r)
=============================================================================
