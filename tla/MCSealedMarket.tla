--------------------------- MODULE MCSealedMarket ---------------------------
(* Instances of SealedMarket: two teams and athletes of one role.          *)
EXTENDS SealedMarket, TLC

CONSTANTS a1, a2, a3, t1, t2

MCAthletes == {a1, a2, a3}
MCTeams == {t1, t2}
MCRole == [a \in MCAthletes |-> 1]
MCCompetition == [a \in MCAthletes |-> 1]
MCLimit == 1 :> 2

\* t1 has a3 in its slot 0, where the interval of a1 was left open.
MCHalfAssigned ==
    {[slot |-> [Blank.slot EXCEPT ![t1][0] = a3], active |-> [Blank.active EXCEPT ![t1][0] = a1]]}

=============================================================================
