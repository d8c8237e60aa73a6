---------------------------- MODULE MCServerAuth ----------------------------
(* ServerAuth on a small instance: two accounts.  t2 is a second token of   *)
(* the first (a player who asked to join twice), for runs larger than Auth. *)
EXTENDS ServerAuth, TLC

CONSTANTS u1, u2, t1, t2, t3

MCUidOf == [t \in Tokens |-> IF t = t3 THEN u2 ELSE u1]

\* Slots are interchangeable; only safety is checked.
MCSymmetry == Permutations(Clients)
=============================================================================
