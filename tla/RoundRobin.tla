----------------------------- MODULE RoundRobin -----------------------------
(***************************************************************************)
(* The pairings of a league: the circle method (leagues/schedule.py), the  *)
(* orientation of its matches and its repetition over the turns of the     *)
(* season (leagues/calendar_planning.py).                                  *)
(*                                                                         *)
(* A participant is its rank among the sorted membership ids.  A slot is a *)
(* match, or the rest of `home' when `away' is NoOne.                      *)
(***************************************************************************)
EXTENDS Integers, Sequences, FiniteSets, SequencesExt, FiniteSetsExt

NoOne == 0

Slot(round, index, home, away) == [round |-> round, index |-> index, home |-> home, away |-> away]
IsBye(slot) == slot.away = NoOne
Flip(slot) == [slot EXCEPT !.home = slot.away, !.away = slot.home]
Size(n) == IF n % 2 = 1 THEN n + 1 ELSE n

CycleLength(n) == IF n % 2 = 0 THEN n - 1 ELSE n

\* The circle before each round: its first seat stays, the others turn.
Circle(n) == [i \in 1..Size(n) |-> IF i <= n THEN i ELSE NoOne]
Turned(c) == [i \in DOMAIN c |-> CASE i = 1 -> c[1] [] i = 2 -> c[Len(c)] [] i > 2 -> c[i - 1]]

Circles(n) ==
  LET circle[r \in 0..CycleLength(n)] == IF r = 0 THEN Circle(n) ELSE Turned(circle[r - 1])
  IN circle

Facing(circle, i) == <<circle[i], circle[Len(circle) + 1 - i]>>

\* The match of a pair: at home who has been there less often.
Oriented(round, index, pair, atHome) ==
  CASE NoOne \in {pair[1], pair[2]} -> Slot(round, index, pair[1] + pair[2], NoOne)
    [] NoOne \notin {pair[1], pair[2]} /\ atHome[pair[1]] <= atHome[pair[2]] -> Slot(round, index, pair[1], pair[2])
    [] NoOne \notin {pair[1], pair[2]} /\ atHome[pair[1]] > atHome[pair[2]] -> Slot(round, index, pair[2], pair[1])

\* The greedy flips that follow: a match is turned when that brings its two
\* participants nearer to as many home as away matches.
Surplus(slots) ==
  [m \in {slots[i].home : i \in DOMAIN slots} \cup {slots[i].away : i \in DOMAIN slots} |->
     Cardinality({i \in DOMAIN slots : ~IsBye(slots[i]) /\ slots[i].home = m})
       - Cardinality({i \in DOMAIN slots : ~IsBye(slots[i]) /\ slots[i].away = m})]

Magnitude(x) == IF x < 0 THEN 0 - x ELSE x

FlipIfBetter(slots, i) ==
  LET surplus == Surplus(slots)
      home == surplus[slots[i].home]
      away == surplus[slots[i].away]
  IN IF ~IsBye(slots[i]) /\ Magnitude(home - 2) + Magnitude(away + 2) < Magnitude(home) + Magnitude(away)
     THEN [slots EXCEPT ![i] = Flip(slots[i])]
     ELSE slots

\* One sweep over the matches.
Swept(slots) ==
  LET after[i \in 0..Len(slots)] == IF i = 0 THEN slots ELSE FlipIfBetter(after[i - 1], i)
  IN after[Len(slots)]

\* Sweeps until one flips nothing.  A flip brings the sum of the surpluses nearer
\* to 0 by two at least, and a match adds two to it at most: Len(slots) sweeps do.
Rebalanced(slots) ==
  LET after[k \in 0..Len(slots)] ==
        IF k = 0 THEN slots
        ELSE LET before == after[k - 1] IN IF before = Swept(before) THEN before ELSE Swept(before)
  IN after[Len(slots)]

\* The k-th pair of the cycle is placed: the matches so far, and how often each
\* participant is at home in them.
Place(n, placed, k) ==
  LET half == Size(n) \div 2
      round == (k - 1) \div half
      i == (k - 1) % half
      slot == Oriented(round + 1, i, Facing(Circles(n)[round], i + 1), placed.atHome)
  IN [slots |-> Append(placed.slots, slot),
      atHome |-> IF IsBye(slot) THEN placed.atHome ELSE [placed.atHome EXCEPT ![slot.home] = @ + 1]]

SingleRoundRobin(n) ==
  LET pairs == CycleLength(n) * (Size(n) \div 2)
      placed[k \in 0..pairs] ==
        IF k = 0 THEN [slots |-> << >>, atHome |-> [m \in 1..n |-> 0]] ELSE Place(n, placed[k - 1], k)
  IN Rebalanced(placed[pairs].slots)

(***************************************************************************)
(* Orientation: the matches are the edges of a graph, made even by edges   *)
(* to a dummy node; a walk gives each match the direction it takes it in.  *)
(* In an even graph a walk ends where it started, with no edge left there. *)
(***************************************************************************)
Dummy == 0

Edges(slots) ==
  LET matches == {i \in DOMAIN slots : ~IsBye(slots[i])}
      ends(i) == {slots[i].home, slots[i].away}
      odd == {m \in UNION {ends(i) : i \in matches} : Cardinality({i \in matches : m \in ends(i)}) % 2 = 1}
  IN {[id |-> i, ends |-> ends(i)] : i \in matches} \cup {[id |-> 0 - m, ends |-> {Dummy, m}] : m \in odd}

OtherEnd(edge, node) == CHOOSE other \in edge.ends \ {node} : TRUE

\* A walk takes the edge to the least node while one is left where it stands.
TakeEdge(walk) ==
  LET here == {e \in walk.left : walk.node \in e.ends}
      edge == CHOOSE e \in here : \A f \in here : OtherEnd(e, walk.node) <= OtherEnd(f, walk.node)
      next == OtherEnd(edge, walk.node)
  IN IF here = {} THEN walk
     ELSE [node |-> next, left |-> walk.left \ {edge},
           taken |-> IF edge.id > 0 THEN walk.taken \cup {<<edge.id, walk.node, next>>} ELSE walk.taken]

\* It takes each edge once.
Walk(walk) ==
  LET after[k \in 0..Cardinality(walk.left)] == IF k = 0 THEN walk ELSE TakeEdge(after[k - 1])
  IN after[Cardinality(walk.left)]

\* A mutant of the definition that follows.
BalanceSkipped(n, slots) == slots

BalanceHomeAway(n, slots) ==
  LET after[k \in 0..n] ==
        Walk(IF k = 0 THEN [node |-> Dummy, left |-> Edges(slots), taken |-> {}]
             ELSE [after[k - 1] EXCEPT !.node = k])
      taken == after[n].taken
  IN [i \in DOMAIN slots |->
        IF \E step \in taken : step[1] = i
        THEN LET step == CHOOSE s \in taken : s[1] = i
             IN Slot(slots[i].round, slots[i].index, step[2], step[3])
        ELSE slots[i]]

\* One cycle of a league of n participants.
BaseCycle(n) == BalanceHomeAway(n, SingleRoundRobin(n))

\* The matches of round k of the season, given the base cycle: every second
\* cycle exchanges home and away.
RoundOfPlan(n, base, k) ==
  LET cycle == (k - 1) \div CycleLength(n)
      round == 1 + ((k - 1) % CycleLength(n))
      slots == {base[i] : i \in {j \in DOMAIN base : base[j].round = round}}
      swapped(slot) == IF cycle % 2 = 1 /\ ~IsBye(slot) THEN Flip(slot) ELSE slot
  IN {[home |-> swapped(s).home, away |-> swapped(s).away] : s \in slots}
=============================================================================
