------------------------------ MODULE Inventory ------------------------------
(***************************************************************************)
(* scripts/operator-evidence-inventory.mjs: what an operator is told when  *)
(* the rows of evidence_assets are compared with the objects in the three  *)
(* buckets.  It only reads; the rows come first, then each bucket.         *)
(***************************************************************************)
EXTENDS Evidence

Stable == {"private_ready", "public", "withheld"}

\* The objects a row stands for.  The backup of a tombstone is kept for ninety
\* days, which do not pass here; failed uploads have left nothing.
MutantExpected(a) ==
    CASE row[a].state \in Stable ->
            {"original", "backup"} \union (IF row[a].deriv THEN {"derivative"} ELSE {})
      [] OTHER -> {}

Expected(a) ==
    CASE row[a].state \in Stable ->
            {"original", "backup"} \union (IF row[a].deriv THEN {"derivative"} ELSE {})
      [] row[a].state = "deleted" -> {"backup"}
      [] OTHER -> {}

\* An upload is given an hour, in which its objects are not looked at.
Transient(a) == row[a].state = "uploading" /\ up[a].pc # "over"

\* A stable row without a derivative, an upload that never ended, an object
\* nobody expects, or an expected one that is not there.
Reported(a) ==
    /\ ~Transient(a)
    /\ \/ row[a].state \in Stable /\ ~row[a].deriv
       \/ row[a].state = "uploading"
       \/ stored[a] # Expected(a)

AtRest ==
    /\ \A m \in Moderator : mod[m] = Idle
    /\ \A d \in Deleter : del[d] = Idle
    /\ \A a \in Asset : up[a].pc \in {"new", "done", "over"}

\* When no request is under way, the inventory complains of no image whose upload
\* completed, whatever edits and deletions of it have raced, crashed and been
\* taken over; except of a deletion that is still to be taken over, and of a
\* tombstone that an edit decided before has brought back.
InventoryIsClean ==
    AtRest => \A a \in Asset :
        Reported(a) => \/ up[a].pc = "over" \/ Leased(a)
                       \/ row[a].deletedAt = "final" /\ row[a].state # "deleted"
=============================================================================
