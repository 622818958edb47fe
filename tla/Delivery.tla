------------------------------ MODULE Delivery ------------------------------
(***************************************************************************)
(* What the notification outbox promises: an event that was enqueued stays *)
(* queued until a provider accepted it and the row records that, or until  *)
(* the outbox gives up visibly; a person can queue it again after that.    *)
(***************************************************************************)
CONSTANT Message

VARIABLES state, accepted

vars == <<state, accepted>>

Init ==
    /\ state = [m \in Message |-> "absent"]
    /\ accepted = {}

Enqueue(m) ==
    /\ state[m] = "absent"
    /\ state' = [state EXCEPT ![m] = "queued"]
    /\ UNCHANGED accepted

\* A provider accepts a copy; a slow sender may hand one over at any later time.
Accept(m) ==
    /\ state[m] # "absent"
    /\ accepted' = accepted \union {m}
    /\ UNCHANGED state

Deliver(m) ==
    /\ state[m] = "queued" /\ m \in accepted
    /\ state' = [state EXCEPT ![m] = "delivered"]
    /\ UNCHANGED accepted

GiveUp(m) ==
    /\ state[m] = "queued"
    /\ state' = [state EXCEPT ![m] = "stopped"]
    /\ UNCHANGED accepted

Requeue(m) ==
    /\ state[m] = "stopped"
    /\ state' = [state EXCEPT ![m] = "queued"]
    /\ UNCHANGED accepted

Next == \E m \in Message : Enqueue(m) \/ Accept(m) \/ Deliver(m) \/ GiveUp(m) \/ Requeue(m)

Spec == Init /\ [][Next]_vars

\* A queued event is settled one way or the other.
FairSpec == Spec /\ \A m \in Message : WF_vars(Deliver(m) \/ GiveUp(m))
=============================================================================
