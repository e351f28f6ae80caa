------------------------------ MODULE MCTurns ------------------------------
(* A season of three windows; the matches of the second are too few, until *)
(* others move there.                                                      *)
EXTENDS Turns, TLC

CONSTANTS f1, f2, f3

MCFixtures == {f1, f2, f3}
MCSize == f1 :> 2 @@ f2 :> 1 @@ f3 :> 2
MCSquads == {{f1, f2, f3}}
MCKickoffs == f1 :> 1 @@ f2 :> 2 @@ f3 :> 3
MCTimes == {2}
=============================================================================
