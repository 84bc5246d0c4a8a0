---------------------------- MODULE EventDelivery ----------------------------
(***************************************************************************)
(* What the mini-program event channel promises, without envelopes, inbox, *)
(* outbox or network: an event is stored in the workbench's inventory, the *)
(* cloud then stops delivering it, and the workbench then files the        *)
(* receipt.  Each stage may only follow the one before it, and no stage is *)
(* ever taken back.                                                        *)
(***************************************************************************)
CONSTANT Events

VARIABLES
    stored,     \* events that are rows of inventory_event
    released,   \* events the cloud will never deliver again because of an ACK
    confirmed   \* events whose ACK the workbench holds as final

vars == <<stored, released, confirmed>>

Init ==
    /\ stored = {}
    /\ released = {}
    /\ confirmed = {}

Store(e) ==
    /\ stored' = stored \union {e}
    /\ UNCHANGED <<released, confirmed>>

Release(e) ==
    /\ e \in stored
    /\ released' = released \union {e}
    /\ UNCHANGED <<stored, confirmed>>

Confirm(e) ==
    /\ e \in released
    /\ confirmed' = confirmed \union {e}
    /\ UNCHANGED <<stored, released>>

Next == \E e \in Events : Store(e) \/ Release(e) \/ Confirm(e)

Spec == Init /\ [][Next]_vars

=============================================================================
