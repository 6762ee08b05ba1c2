----------------------------- MODULE MCBlogSync -----------------------------
(* Instances of BlogSync for TLC: the order in which SyncAll visits one or *)
(* two configured feeds.                                                   *)
EXTENDS BlogSync, TLC

CONSTANTS b1, b2

OneRun  == <<b1>>
TwoRuns == <<b1, b2>>

(* Posts are interchangeable. *)
UrlSymmetry == Permutations(Urls)
=============================================================================
