------------------------------ MODULE LinkKey -------------------------------
(***************************************************************************)
(* The key of a link (links/canonicalize.go and classify.go).  The         *)
(* theorems are in LinkLibraryProofs.                                      *)
(***************************************************************************)
EXTENDS Naturals

-----------------------------------------------------------------------------
(* The key of a link.  A URL is the number of "www." before its host, the  *)
(* host, the path without the slashes at its end, their number, the value  *)
(* of each parameter (a bag: values are sorted), and the fragment.         *)

CONSTANTS
    Hosts, Paths, Params, Values, \* Values has "none"; Paths has ""
    TrackingParams, VideoHosts, FragmentHosts

URL == [www : Nat, host : Hosts, path : Paths, slashes : Nat,
        query : [Params -> Values], fragment : Values]

(* One "www." is taken off; a host that has another one is not known. *)
OneOff(n) == IF n > 0 THEN n - 1 ELSE 0
Www(u) == OneOff(u.www)
HostIn(u, hosts) == Www(u) = 0 /\ u.host \in hosts

Dropped(u) ==
    TrackingParams \cup IF HostIn(u, VideoHosts) THEN {"si"} ELSE {}

Canonicalize(u) ==
    [www      |-> Www(u),
     host     |-> u.host,
     path     |-> u.path,
     slashes  |-> IF u.path = "" /\ u.slashes = 1 THEN 1 ELSE 0,
     query    |-> [p \in Params |-> IF p \in Dropped(u) THEN "none" ELSE u.query[p]],
     fragment |-> IF HostIn(u, FragmentHosts) THEN u.fragment ELSE "none"]
=============================================================================
