-------------------------- MODULE MCServerPresence --------------------------
(* ServerPresence on a small instance.  adds is bounded by MaxAttempts, the *)
(* times by UpdateRate and Cooldown: no further bound is needed.            *)
EXTENDS ServerPresence

CONSTANTS a, b
=============================================================================
