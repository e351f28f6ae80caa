--------------------------- MODULE MCLiveAuction ---------------------------
(* Instances of LiveAuction: two teams with one slot, and two athletes     *)
(* that compete for the same role.                                         *)
EXTENDS LiveAuction, TLC

CONSTANTS a1, a2, t1, t2

MCAthletes == {a1, a2}
MCTeams == {t1, t2}
MCRole == [a \in MCAthletes |-> 1]
MCCompetition == [a \in MCAthletes |-> 1]
MCLimit == 1 :> 1

MCAdminAmounts == {0 - 1}
MCSymmetry == Permutations(MCAthletes) \cup Permutations(MCTeams)
=============================================================================
