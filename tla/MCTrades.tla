------------------------------ MODULE MCTrades ------------------------------
(* Instance of Trades: three athletes of two roles, swaps, gifts and       *)
(* counter-proposals that compete for the same athletes and credits.       *)
EXTENDS Trades, TLC

CONSTANTS a1, a2, a3, t1, t2

MCAthletes == {a1, a2, a3}
MCTeams == {t1, t2}
MCRole == [a \in MCAthletes |-> IF a = a3 THEN 2 ELSE 1]
MCCompetition == [a \in MCAthletes |-> 1]
MCLimit == (1 :> 1) @@ (2 :> 2)
MCAdminAmounts == {0 - 1}

\* A swap, a sale, a purchase of two athletes that needs room and quota.
MCOffers ==
    {[offered |-> <<a1>>, requested |-> <<a2>>, give |-> 0, take |-> 1],
     [offered |-> <<a2>>, requested |-> << >>, give |-> 0, take |-> 1],
     [offered |-> << >>, requested |-> <<a3, a1>>, give |-> 2, take |-> 0]}

MCSymmetry == Permutations(MCTeams)
=============================================================================
