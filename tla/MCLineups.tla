----------------------------- MODULE MCLineups -----------------------------
(* Two matches, five athletes of two roles; a sixth joins with the market. *)
EXTENDS Lineups, TLC

CONSTANTS d1, d2, d3, d4, a1, a2, early, late

MCAthletes == {d1, d2, d3, d4, a1, a2}
MCRole == d1 :> "D" @@ d2 :> "D" @@ d3 :> "D" @@ d4 :> "D" @@ a1 :> "A" @@ a2 :> "A"
MCModules == <<[D |-> 1, A |-> 1], [D |-> 2, A |-> 0]>>
MCQuota == [D |-> 1, A |-> 1]
MCOrder == <<"D", "A">>
MCScore == d1 :> 2 @@ d2 :> 5 @@ d3 :> 3 @@ d4 :> 6 @@ a1 :> 4 @@ a2 :> 1
MCAvailable == MCAthletes \ {a2}
MCFixtureOf == d1 :> early @@ a2 :> early @@ d2 :> late @@ d3 :> late @@ d4 :> late @@ a1 :> late
MCKickoff == early :> 1 @@ late :> 2
MCRosters == << <<d1, d2, d3, a1, a2>>, <<d4, d2, d3, a1, a2>> >>
MCLineup(m, s, b) == [module |-> m, starters |-> s, bench |-> b]
MCProposals == {MCLineup(1, <<d1, a1>>, <<a2, d2, d3>>), MCLineup(2, <<d1, d2>>, <<a2, d3, a1>>),
                MCLineup(1, <<d2, a2>>, <<d1, a1, d3>>), MCLineup(1, <<d4, a1>>, <<a2, d2, d3>>)}
MCDrafts == {MCLineup(1, <<d2, a2>>, <<d1, a1, d3>>)}
MCPrevious == MCLineup(1, <<d1, a2>>, <<d3, a1, d2>>)
MCVoted == {{}, {d2, d3, a2}, {d1, d3, a1}}
MCTimes == {2}
=============================================================================
