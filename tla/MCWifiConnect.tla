---------------------------- MODULE MCWifiConnect ----------------------------
(* WifiConnect with three access points, one of them ours, and a cache of two:
   enough for insertion in front, behind and into a full cache. *)
EXTENDS WifiConnect

CONSTANTS ours, near, far

MCRank == (near :> 1) @@ (ours :> 2) @@ (far :> 2)
==============================================================================
