-------------------------- MODULE MCMasterRequests --------------------------
(* MasterRequests with two game servers and a few threads.                   *)
EXTENDS MasterRequests

CONSTANTS s1, s2, t1, t2, t3

MCServers == {s1, s2}
=============================================================================
