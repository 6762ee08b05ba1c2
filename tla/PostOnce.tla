------------------------------ MODULE PostOnce ------------------------------
(***************************************************************************)
(* What the auto-poster promises for each scheduled task, whatever the     *)
(* passes that work on it do (README.md:245-270): it is posted, the post   *)
(* is recorded, the task is completed, in this order and each at most      *)
(* once.                                                                   *)
(***************************************************************************)
EXTENDS Naturals

CONSTANT Tasks

VARIABLES
    posts,     \* posts[t]: how often t was posted
    recorded,  \* tasks whose post is recorded
    done       \* tasks completed because they were posted

vars == <<posts, recorded, done>>

Init ==
    /\ posts = [t \in Tasks |-> 0]
    /\ recorded = {}
    /\ done = {}

Post(t) ==
    /\ posts[t] = 0
    /\ posts' = [posts EXCEPT ![t] = 1]
    /\ UNCHANGED <<recorded, done>>

Record(t) ==
    /\ posts[t] = 1
    /\ recorded' = recorded \cup {t}
    /\ UNCHANGED <<posts, done>>

Complete(t) ==
    /\ t \in recorded
    /\ done' = done \cup {t}
    /\ UNCHANGED <<posts, recorded>>

Next == \E t \in Tasks : Post(t) \/ Record(t) \/ Complete(t)

Spec == Init /\ [][Next]_vars
=============================================================================
