------------------------------- MODULE Handoff -------------------------------
(***************************************************************************)
(* What darek promises whenever it moves an item from one place to another *)
(* (a Todoist task or an unread article into the link library, a WhatsApp  *)
(* message into the daily mail): the source lets go of an item only after  *)
(* it has arrived.  An item may arrive and stay at its source, so it can   *)
(* arrive again; it is never lost.  This is at-least-once delivery.        *)
(***************************************************************************)
CONSTANT Items

VARIABLES
    arrived,   \* items that have reached their destination
    released   \* items that darek has marked as done at their source

vars == <<arrived, released>>

Init == arrived = {} /\ released = {}

(* Some items arrive, for the first time or again. *)
Arrive ==
    /\ \E new \in SUBSET Items : arrived' = arrived \cup new
    /\ UNCHANGED released

(* Items that have arrived are released. *)
Release ==
    /\ \E done \in SUBSET arrived : released' = released \cup done
    /\ UNCHANGED arrived

Next == Arrive \/ Release

Spec == Init /\ [][Next]_vars
=============================================================================
