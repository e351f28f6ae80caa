--------------------------- MODULE MCFantasyTeams ---------------------------
(* An instance of FantasyTeams: one team of two slots for the first role,   *)
(* three athletes of that role, two of them of one competition, and one of  *)
(* a role that has no place left: its limit is the one of a full role.      *)
EXTENDS FantasyTeams, TLC

CONSTANTS a1, a2, a3, a4, t1

MCAthletes == {a1, a2, a3, a4}
MCOneTeam == {t1}
MCRole == a1 :> 1 @@ a2 :> 2 @@ a3 :> 1 @@ a4 :> 1
MCCompetition == a1 :> 1 @@ a2 :> 1 @@ a3 :> 1 @@ a4 :> 2
MCLimit == 1 :> 2 @@ 2 :> 0
MCAdminAmounts == {0 - 1}

\* a1 and a3 have the same role and the same competition.
MCSymmetry == Permutations({a1, a3})
=============================================================================
