------------------------------ MODULE MCLeague ------------------------------
(***************************************************************************)
(* A league of two or three seats among three coaches, one of them played   *)
(* by the program.                                                         *)
(***************************************************************************)
EXTENDS League, TLC

CONSTANTS o, a, p, r1, r2

MCUsers == {o, a, p}
MCRobots == {p}
MCCounts == {2, 3}
MCInvites == 1..2
MCRequests == {r1, r2}
MCSymmetry == Permutations(MCRequests)
=============================================================================
