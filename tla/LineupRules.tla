---------------------------- MODULE LineupRules ----------------------------
(***************************************************************************)
(* The rules of a line-up (fantasy_lineups/rules.py), the formula of the   *)
(* AI (ai_selection.py) and its version for a turn that has begun          *)
(* (best_lineup_service.py): pure functions of athletes, roles and orders. *)
(*                                                                         *)
(* A line-up is a module, a sequence of starters and a bench in order.  An *)
(* empty place is None.  Modules are numbered in the order of the          *)
(* catalogue; roles follow RoleOrder.                                      *)
(***************************************************************************)
EXTENDS Integers, FiniteSets, Sequences, SequencesExt, FiniteSetsExt, Functions

CONSTANTS
  Athletes, Role,     \* the role the league gives to each athlete
  RoleOrder,          \* the roles, goalkeepers first
  Modules,            \* starters per role of each module of the catalogue
  StarterCount,       \* 11
  BenchActive, Quota, \* the places of the bench that must cover the roles
  MaxSubstitutions, MaxTacticalMoves,
  Available,          \* athletes neither injured nor without a match
  Score,              \* the formula of the AI, with its tie-breaks: injective
  None

Roles == Range(RoleOrder)

\* The places of a line-up, some of them empty.
Places == Seq(Athletes \cup {None})
IsLineup(lineup) ==
  /\ lineup = [module |-> lineup.module, starters |-> lineup.starters, bench |-> lineup.bench]
  /\ lineup.module \in DOMAIN Modules
  /\ lineup.starters \in Places /\ lineup.bench \in Places

ASSUME RulesAssumption ==
  /\ IsFiniteSet(Athletes) /\ None \notin Athletes
  /\ RoleOrder \in Seq(Roles) /\ Role \in [Athletes -> Roles]
  /\ StarterCount \in Nat /\ BenchActive \in Nat /\ MaxSubstitutions \in Nat
  /\ Modules \in Seq([Roles -> Nat]) /\ Modules # <<>>
  /\ Quota \in [Roles -> Nat] /\ Available \subseteq Athletes
  /\ Score \in [Athletes -> Nat] /\ \A a, b \in Athletes : Score[a] = Score[b] => a = b

Started == {"LIVE", "FT"}
Inactive == {"PST"}

NoLineup == [module |-> 0, starters |-> <<>>, bench |-> <<>>]

\* The members of a finite set by increasing key; no two have the same.
InOrder(T, key) ==
  [n \in 1..Cardinality(T) |-> CHOOSE x \in T : Cardinality({y \in T : key[y] <= key[x]}) = n]

\* What a sequence has of a set, in its order.
Kept(s, S) ==
  LET kept[i \in 0..Len(s)] ==
        IF i = 0 THEN <<>> ELSE IF s[i] \in S THEN Append(kept[i - 1], s[i]) ELSE kept[i - 1]
  IN kept[Len(s)]

Filled(s) == Kept(s, Range(s) \ {None})
Starters(lineup) == Range(lineup.starters) \ {None}
LineupAthletes(lineup) == (Range(lineup.starters) \cup Range(lineup.bench)) \ {None}
WithoutHoles(lineup) == [lineup EXCEPT !.starters = Filled(@), !.bench = Filled(@)]
Slot(lineup, a) == IF a \in Range(lineup.starters) THEN "starter"
                   ELSE IF a \in Range(lineup.bench) THEN "bench" ELSE "none"

OfRole(s, r) == Kept(s, {a \in Range(s) : Role[a] = r})
RoleCounts(s) == [r \in Roles |-> Cardinality({i \in DOMAIN s : Role[s[i]] = r})]
First(s, n) == SubSeq(s, 1, Min({n, Len(s)}))
Without(s, used) == Kept(s, Range(s) \ used)
RoleBlocks(s) == FlattenSeq([i \in DOMAIN RoleOrder |-> OfRole(s, RoleOrder[i])])

(***************************************************************************)
(* Legality                                                                *)
(***************************************************************************)
BenchRequired(s) == [r \in Roles |-> Min({Quota[r], RoleCounts(s)[r]})]

BenchCovers(bench) ==
  \A r \in Roles : RoleCounts(First(bench, BenchActive))[r] >= BenchRequired(bench)[r]

Distinct(lineup) ==
  Cardinality(LineupAthletes(lineup)) = Len(Filled(lineup.starters)) + Len(Filled(lineup.bench))

\* evaluate_lineup(strict=False): a draft may be incomplete.
ValidDraft(lineup, roster) ==
  /\ Distinct(lineup) /\ LineupAthletes(lineup) \subseteq roster
  /\ Starters(lineup) # {}

ValidLineup(lineup, roster) ==
  /\ Distinct(lineup) /\ LineupAthletes(lineup) = roster
  /\ None \notin Range(lineup.starters) \cup Range(lineup.bench)
  /\ Len(lineup.starters) = StarterCount
  /\ RoleCounts(lineup.starters) = Modules[lineup.module]
  /\ BenchCovers(lineup.bench)

\* A locked athlete keeps his place; one who has none may not start.
KeepsSlots(old, new, locked) ==
  \A a \in locked : IF Slot(old, a) = "none" THEN Slot(new, a) # "starter"
                    ELSE Slot(new, a) = Slot(old, a)

Before(s, a, b) == \E i, j \in DOMAIN s : i < j /\ s[i] = a /\ s[j] = b

\* Nobody crosses a locked athlete on the bench, nobody new comes before one.
KeepsBenchOrder(old, new, locked) ==
  LET was == Range(Filled(old.bench))
      is == Range(Filled(new.bench))
      still == locked \cap was \cap is
  IN /\ \A a \in still, b \in (was \cap is) : Before(old.bench, b, a) = Before(new.bench, b, a)
     /\ \A a \in still, b \in is \ was : ~Before(new.bench, b, a)

(***************************************************************************)
(* Automatic substitutions                                                 *)
(***************************************************************************)
\* The starters of the role of b without a vote, in a line that has changed.
Waiting(line, b, played) == {i \in DOMAIN line : Role[line[i]] = Role[b] /\ line[i] \notin played}
Used(starters, line) == Cardinality({i \in DOMAIN starters : line[i] # starters[i]})

\* A mutant of the definition that follows.
EnterVoteless(starters, line, b, played) ==
  LET out == Waiting(line, b, played)
  IN IF b \notin played \/ out = {} THEN line ELSE [line EXCEPT ![Min(out)] = b]

\* An athlete of the bench with a vote replaces the first starter of his role
\* without one, while substitutions are left.
Enter(starters, line, b, played) ==
  LET out == Waiting(line, b, played)
  IN IF Used(starters, line) >= MaxSubstitutions \/ b \notin played \/ out = {} THEN line
     ELSE [line EXCEPT ![Min(out)] = b]

\* The bench in its order.
Substitute(lineup, played) ==
  LET line[k \in 0..Len(lineup.bench)] ==
        IF k = 0 THEN lineup.starters
        ELSE Enter(lineup.starters, line[k - 1], lineup.bench[k], played)
  IN line[Len(lineup.bench)]

\* The athletes that the rules send in, without the walk along the bench.
Entitled(lineup, played) ==
  LET bench == lineup.bench
      voteless(r) == Cardinality({a \in Starters(lineup) \ played : Role[a] = r})
      queue(i) == Cardinality({j \in 1..i : bench[j] \in played /\ Role[bench[j]] = Role[bench[i]]})
      called == {i \in DOMAIN bench : bench[i] \in played /\ queue(i) <= voteless(Role[bench[i]])}
  IN {bench[i] : i \in {j \in called : Cardinality({k \in called : k <= j}) <= MaxSubstitutions}}

(***************************************************************************)
(* Orders of the bench                                                     *)
(***************************************************************************)
\* The active places first: per role as many as required, then whoever comes
\* first, then the others in blocks (active_bench_order and
\* reorder_bench_for_active_roles).
ActiveBench(s, required, size) ==
  LET due == FlattenSeq([i \in DOMAIN RoleOrder |-> First(OfRole(s, RoleOrder[i]), required[RoleOrder[i]])])
      fill == First(Without(s, Range(due)), Max({0, Min({size, Len(s)}) - Len(due)}))
  IN due \o fill \o RoleBlocks(Without(s, Range(due) \cup Range(fill)))

\* ordered_bench_from_roster
OrderedBench(roster, starters, order) ==
  LET rest == Without(roster, starters)
      kept == Kept(order, Range(rest))
  IN kept \o Without(rest, Range(kept))

\* copy_previous_lineup
CopiedLineup(previous, roster, locked, confirmed) ==
  LET taken(a) == a \in Range(roster) /\ (a \in locked => Slot(confirmed, a) = "starter")
      starters == [i \in 1..StarterCount |->
                     IF i \in DOMAIN previous.starters /\ taken(previous.starters[i])
                     THEN previous.starters[i] ELSE None]
      kept == Kept(previous.bench, Range(roster))
      displaced == Kept(previous.starters, {a \in Range(roster) : ~taken(a)})
      bench == OrderedBench(roster, Range(starters), Without(kept, Range(starters)) \o displaced)
  IN [module |-> previous.module, starters |-> starters,
      bench |-> IF locked = {} THEN ActiveBench(bench, BenchRequired(bench), BenchActive) ELSE bench]

(***************************************************************************)
(* The formula of the AI                                                   *)
(***************************************************************************)
Ranking == InOrder(Athletes, [a \in Athletes |-> 0 - Score[a]])
ByScore(S) == Kept(Ranking, S)

\* build_lineup_plan without the module's order of the bench
Chosen(pool, targets) ==
  LET ranked == ByScore(pool \cap Available)
  IN FlattenSeq([i \in DOMAIN RoleOrder |->
       First(OfRole(ranked, RoleOrder[i]), targets[RoleOrder[i]])])

Unfilled(chosen, targets) == \E r \in Roles : RoleCounts(chosen)[r] < targets[r]

Plan(pool, targets) ==
  LET chosen == Chosen(pool, targets)
      rest == ByScore(pool \ Range(chosen))
  IN [starters |-> chosen, bench |-> ActiveBench(rest, BenchRequired(rest), BenchActive),
      complete |-> Len(chosen) = StarterCount /\ ~Unfilled(chosen, targets)]

\* Locked starters stay, other locked athletes stay on the bench, the bench
\* keeps its order and the newcomers queue behind it.
PlanAroundLocked(roster, targets, locked, confirmed) ==
  LET pinned == Kept(roster, {a \in locked : Slot(confirmed, a) = "starter"})
      left == [r \in Roles |-> Max({0, targets[r] - RoleCounts(pinned)[r]})]
      free == Plan(Range(roster) \ locked, left)
      benched == (locked \ Range(pinned)) \cup Range(free.bench)
      carried == Kept(confirmed.bench, benched)
      prefix == First(carried, BenchActive)
      needed == [r \in Roles |-> Max({0, BenchRequired(ByScore(benched))[r] - RoleCounts(prefix)[r]})]
      starters == RoleBlocks(pinned \o free.starters)
  IN [starters |-> starters,
      bench |-> carried \o ActiveBench(ByScore(benched \ Range(carried)), needed, BenchActive - Len(prefix)),
      complete |-> Len(starters) = StarterCount /\ ~Unfilled(free.starters, left)]

\* What the athletes of a sequence are worth together.
Worth(s) ==
  LET worth[i \in 0..Len(s)] == IF i = 0 THEN 0 ELSE worth[i - 1] + Score[s[i]]
  IN worth[Len(s)]

\* select_best_module: the pinned athletes count in no module.
BestModule(plans, locked, current) ==
  LET value(m) == Worth(Without(plans[m].starters, locked))
      complete == {m \in DOMAIN plans : plans[m].complete}
      best == {m \in complete : \A n \in complete : value(n) <= value(m)}
  IN IF complete = {} THEN current ELSE Min(best)
=============================================================================
