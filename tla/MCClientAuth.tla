---------------------------- MODULE MCClientAuth ----------------------------
(* ClientAuth with two game servers and a few threads.                       *)
EXTENDS ClientAuth, TLC

CONSTANTS s1, s2, t1, t2, t3

MCServers == {s1, s2}

\* No property under symmetry is a liveness property.
MCSymmetry == Permutations(Threads)
=============================================================================
