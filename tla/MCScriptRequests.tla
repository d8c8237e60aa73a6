-------------------------- MODULE MCScriptRequests --------------------------
(* ScriptRequests with two contexts and two threads; every bound is reached. *)
EXTENDS ScriptRequests

CONSTANTS UI, SERVER, t1, t2
=============================================================================
