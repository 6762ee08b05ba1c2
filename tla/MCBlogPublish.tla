--------------------------- MODULE MCBlogPublish ---------------------------
(* Instances of BlogPublish for TLC.  Task 1 belongs to a platform without *)
(* a publisher or to Mastodon, task 2 to Mastodon, task 3 to nobody: the   *)
(* configurations choose which of them exist.  Task 2 is due at time 1,    *)
(* the others at once.                                                     *)
EXTENDS BlogPublish

CONSTANTS projA, projB

OneProject    == <<projA>>
TwoProjects   == <<projA, projB>>
AllInA        == [t \in Tasks |-> projA]
SecondInB     == [t \in Tasks |-> IF t = 2 THEN projB ELSE projA]
SecondDueLate == [t \in Tasks |-> IF t = 2 THEN 1 ELSE 0]
=============================================================================
