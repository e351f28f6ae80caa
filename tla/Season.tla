------------------------------- MODULE Season -------------------------------
(***************************************************************************)
(* The head-to-head season of a league: its days, their results and the    *)
(* table (leagues/calendar_service.py, scoring_service.py and              *)
(* standings_service.py).                                                  *)
(*                                                                         *)
(* A day is known by the window of its turn; the numbers of days and turns *)
(* are in Turns.  Whoever creates turns or days holds the row of the       *)
(* league; a calculation holds at most the row of its turn, so it may come *)
(* between the check and the deletion of a generation.                     *)
(***************************************************************************)
EXTENDS RoundRobin

CONSTANTS
  Sizes,            \* possible numbers of participants
  Windows,          \* number of windows of the season
  FirstPlayable,    \* first window that starts after the creation of the league
  Late,             \* bound: windows whose turn comes and goes
  Scored,           \* bound: windows whose turns are played
  Forms,            \* bound: points of the line-ups, in tenths, a function of the rank
  Latecomers,       \* bound: ranks of the teams whose line-up may be missing
  MaxCalculations,  \* bound: calculations
  MaxCorrections,   \* bound: corrections
  Unplayed

ASSUME SeasonAssumption ==
  /\ Sizes \subseteq Nat \ {0, 1} /\ IsFiniteSet(Sizes)
  /\ Windows \in Nat \ {0} /\ FirstPlayable \in 1..Windows
  /\ Late \subseteq 1..Windows /\ Scored \subseteq 1..Windows
  /\ \A form \in Forms, n \in Sizes : \A m \in 1..n : form[m] \in Nat
  /\ MaxCalculations \in Nat /\ MaxCorrections \in Nat
  /\ \A form \in Forms, n \in Sizes, final \in BOOLEAN : \A home, away \in 1..n :
       Unplayed # [home |-> form[home], away |-> form[away], final |-> final]

VARIABLES
  size,          \* participants of the league
  turn,          \* turn[w]: "absent", "ahead" or "over"
  homologated,   \* homologated[w]: the verdict on turn w
  fielded,       \* fielded[w]: which effective line-ups turn w has
  day,           \* day[w]: the matches of the day, {} if there is none
  table,         \* the table: records from the first to the last
  generating,    \* a generation has checked that there are no results
  calculations, corrections

seasonVars == <<size, turn, homologated, fielded, day, table, generating, calculations, corrections>>

Window == 1..Windows
Participants == 1..size
Played(match) == match.result # Unplayed
HasResults == \E w \in Window : \E match \in day[w] : Played(match)

(***************************************************************************)
(* Days                                                                    *)
(***************************************************************************)
Playable(turns) == {w \in Window : turns[w] # "absent" /\ w >= FirstPlayable}

Bases == [n \in Sizes |-> BaseCycle(n)]

Matches(n, k) ==
  {[home |-> pair.home, away |-> pair.away, result |-> Unplayed] : pair \in RoundOfPlan(n, Bases[n], k)}

\* The day of a playable window is the round of the plan with its place.
Planned(turns, w) == Matches(size, Cardinality({v \in Playable(turns) : v <= w}))

\* A mutant of the definition that follows.
ExtendedFromPlan(days) == [w \in Window |-> IF w \in Playable(turn) THEN Planned(turn, w) ELSE days[w]]

Extended(days) ==
  [w \in Window |-> IF w \in Playable(turn) /\ days[w] = {} THEN Planned(turn, w) ELSE days[w]]

\* Days without a turn are dropped, unless they have results.
Realigned(turns) ==
  [w \in Window |-> IF turns[w] = "absent" /\ ~\E match \in day[w] : Played(match) THEN {} ELSE day[w]]

\* A turn that appears or is pruned renumbers those that follow it.
RealignedAfter(turns, w) == IF \E v \in Window : v > w /\ turn[v] # "absent" THEN Realigned(turns) ELSE day

(***************************************************************************)
(* Results and table                                                       *)
(***************************************************************************)
Goals(points) == IF points < 660 THEN 0 ELSE 1 + ((points - 660) \div 60)

Fielded(lineups) ==
  CASE lineups = "none" -> {} [] lineups = "some" -> Participants \ Latecomers [] lineups = "all" -> Participants

\* The result of a match-up is provisional until its turn is over and every
\* match-up of the day has both line-ups; a match-up without one is skipped.
Results(w, lineups, form) ==
  LET resolved == {match \in day[w] : ~IsBye(match) /\ {match.home, match.away} \subseteq Fielded(lineups)}
      final == turn[w] = "over" /\ resolved # {} /\ resolved = {match \in day[w] : ~IsBye(match)}
      computed(match) == [match EXCEPT !.result =
                            [home |-> form[match.home], away |-> form[match.away], final |-> final]]
  IN [final |-> final,
      day |-> (day[w] \ resolved) \cup {computed(match) : match \in resolved}]

Counted(days) == {entry \in UNION {{w} \X days[w] : w \in Window} :
                    ~IsBye(entry[2]) /\ Played(entry[2]) /\ entry[2].result.final}

NoRecord(team) == [team |-> team, won |-> 0, drawn |-> 0, lost |-> 0, for |-> 0, against |-> 0]

AddMatch(record, for, against) ==
  [team |-> record.team,
   won |-> record.won + (IF for > against THEN 1 ELSE 0),
   drawn |-> record.drawn + (IF for = against THEN 1 ELSE 0),
   lost |-> record.lost + (IF for < against THEN 1 ELSE 0),
   for |-> record.for + for, against |-> record.against + against]

\* A match that counts is added to the records of its two teams.
Tally(entry, records) ==
  LET match == entry[2]
      home == Goals(match.result.home)
      away == Goals(match.result.away)
  IN [records EXCEPT ![match.home] = AddMatch(@, home, away), ![match.away] = AddMatch(@, away, home)]

BuildStandings(days) == FoldSet(Tally, [m \in Participants |-> NoRecord(m)], Counted(days))

Points(record) == 3 * record.won + record.drawn
Difference(record) == record.for - record.against

\* A mutant of the definition that follows.
AheadByGoals(a, b) ==
  \/ Points(a) > Points(b)
  \/ Points(a) = Points(b) /\ a.for > b.for
  \/ Points(a) = Points(b) /\ a.for = b.for /\ a.team < b.team

\* Points, goal difference, goals scored, name: the names sort as the ranks.
Ahead(a, b) ==
  \/ Points(a) > Points(b)
  \/ Points(a) = Points(b) /\ Difference(a) > Difference(b)
  \/ Points(a) = Points(b) /\ Difference(a) = Difference(b) /\ a.for > b.for
  \/ Points(a) = Points(b) /\ Difference(a) = Difference(b) /\ a.for = b.for /\ a.team < b.team

\* The table is sorted: a row stands behind those that are ahead of it.
Standings(days) ==
  LET records == BuildStandings(days)
      rows == {records[m] : m \in Participants}
  IN [i \in Participants |-> CHOOSE row \in rows : Cardinality({other \in rows : Ahead(other, row)}) = i - 1]

(***************************************************************************)
(* Turns come, go and end                                                  *)
(***************************************************************************)
UnchangedResults == UNCHANGED <<homologated, fielded, table, calculations, corrections>>

TurnAppears(w) ==
  /\ ~generating /\ w \in Late /\ turn[w] = "absent"
  /\ turn' = [turn EXCEPT ![w] = "ahead"] /\ day' = RealignedAfter(turn', w)
  /\ UNCHANGED <<size, generating>> /\ UnchangedResults

\* Only a turn that nobody has played is pruned.
TurnPruned(w) ==
  /\ ~generating /\ w \in Late /\ turn[w] = "ahead" /\ fielded[w] = "none"
  /\ turn' = [turn EXCEPT ![w] = "absent"] /\ day' = RealignedAfter(turn', w)
  /\ UNCHANGED <<size, generating>> /\ UnchangedResults

TurnEnds(w) ==
  /\ w \in Scored /\ turn[w] = "ahead" /\ \A v \in Scored : v < w => turn[v] = "over"
  /\ turn' = [turn EXCEPT ![w] = "over"]
  /\ UNCHANGED <<size, generating, day>> /\ UnchangedResults

(***************************************************************************)
(* The calendar                                                            *)
(***************************************************************************)
\* A generation reads the slots, and refuses if one has a result.
GenerateChecks ==
  /\ ~generating /\ ~HasResults /\ Playable(turn) # {}
  /\ generating' = TRUE
  /\ UNCHANGED <<size, turn, day>> /\ UnchangedResults

\* It deletes all slots and writes the plan.
GenerateWrites ==
  /\ generating /\ generating' = FALSE
  /\ day' = [w \in Window |-> IF w \in Playable(turn) THEN Planned(turn, w) ELSE {}]
  /\ UNCHANGED <<size, turn>> /\ UnchangedResults

\* "Aggiorna calendario" of a league with results; of one without, the days
\* are realigned and generated.
RefreshExtends ==
  /\ ~generating /\ HasResults
  /\ day' = Extended(Realigned(turn))
  /\ UNCHANGED <<size, turn, generating>> /\ UnchangedResults

RefreshGenerates ==
  /\ ~generating /\ ~HasResults
  /\ day' = Realigned(turn) /\ generating' = (Playable(turn) # {})
  /\ UNCHANGED <<size, turn>> /\ UnchangedResults

(***************************************************************************)
(* Calculation                                                             *)
(***************************************************************************)
Compute(w, lineups, form) ==
  /\ calculations < MaxCalculations /\ calculations' = calculations + 1
  /\ day' = [day EXCEPT ![w] = Results(w, lineups, form).day]
  /\ table' = Standings(day')
  /\ UNCHANGED <<size, turn, generating, corrections>>

\* The whole pipeline of a turn: missing line-ups are made up once it is over.
\* New rows refer to the row of the league, and wait for who holds it.
CalculateRound(w) ==
  /\ w \in Scored /\ turn[w] # "absent" /\ ~homologated[w] /\ day[w] # {}
  /\ \E form \in Forms, more \in {"some", "all"} :
       LET lineups == IF turn[w] = "over" \/ fielded[w] = "all" THEN "all" ELSE more
           final == Results(w, lineups, form).final
       IN /\ generating => lineups = fielded[w] /\ ~final /\ table # << >>
          /\ Compute(w, lineups, form)
          /\ fielded' = [fielded EXCEPT ![w] = lineups]
          /\ homologated' = [homologated EXCEPT ![w] = final]

\* The line-ups alone.
ComputeEffectiveLineups(w) ==
  /\ w \in Scored /\ turn[w] # "absent" /\ ~homologated[w] /\ fielded[w] # "all" /\ ~generating
  /\ \E lineups \in {"some", "all"} : fielded' = [fielded EXCEPT ![w] = lineups]
  /\ UNCHANGED <<size, turn, homologated, day, table, generating, calculations, corrections>>

\* The results alone, on the line-ups there are.
ComputeRoundResults(w) ==
  /\ w \in Scored /\ turn[w] # "absent" /\ ~homologated[w] /\ day[w] # {}
  /\ generating => table # << >>
  /\ \E form \in Forms : Compute(w, fielded[w], form)
  /\ UNCHANGED <<fielded, homologated>>

ApplyRoundCorrection(w) ==
  /\ homologated[w] /\ homologated' = [homologated EXCEPT ![w] = FALSE]
  /\ corrections < MaxCorrections /\ corrections' = corrections + 1
  /\ UNCHANGED <<size, turn, fielded, day, table, generating, calculations>>

(***************************************************************************)
(* Specification                                                           *)
(***************************************************************************)
SeasonInit ==
  /\ size \in Sizes
  /\ turn = [w \in Window |-> IF w \in Late THEN "absent" ELSE "ahead"]
  /\ homologated = [w \in Window |-> FALSE] /\ fielded = [w \in Window |-> "none"]
  /\ day = [w \in Window |-> {}]
  /\ table = << >>
  /\ generating = FALSE /\ calculations = 0 /\ corrections = 0

SeasonNext ==
  \/ GenerateChecks \/ GenerateWrites \/ RefreshExtends \/ RefreshGenerates
  \/ \E w \in Window : \/ TurnAppears(w) \/ TurnPruned(w) \/ TurnEnds(w)
                       \/ CalculateRound(w) \/ ComputeEffectiveLineups(w) \/ ComputeRoundResults(w)
                       \/ ApplyRoundCorrection(w)

SeasonSpec == SeasonInit /\ [][SeasonNext]_seasonVars

(***************************************************************************)
(* Properties                                                              *)
(***************************************************************************)
Sides(match) == {match.home, match.away} \ {NoOne}
Pairing(match) == [home |-> match.home, away |-> match.away]

\* In a calendar just generated any two pairs of participants meet the same
\* number of times or once more, no one rests twice before all have rested,
\* and over whole cycles nobody has more than one home match more, or less,
\* than away matches (generate_cycles, balance_home_away), also with an odd
\* number of participants and a last cycle that is not whole.
FairlySpread(days, whole) ==
  LET all == UNION {{w} \X days[w] : w \in Window}
      meetings(p) == Cardinality({entry \in all : Sides(entry[2]) = p})
      rests(m) == Cardinality({entry \in all : Sides(entry[2]) = {m}})
      atHome(m) == Cardinality({entry \in whole : ~IsBye(entry[2]) /\ entry[2].home = m})
      away(m) == Cardinality({entry \in whole : entry[2].away = m})
      within(a, b, gap) == a - b <= gap /\ b - a <= gap
  IN /\ \A p, q \in kSubset(2, Participants) : within(meetings(p), meetings(q), 1)
     /\ \A m \in Participants : \A o \in Participants : within(rests(m), rests(o), 1)
     /\ \A m \in Participants : within(atHome(m), away(m), 1)

WholeCycles(days) ==
  LET played == {w \in Window : days[w] # {}}
      last == Cardinality(played) - (Cardinality(played) % CycleLength(size))
  IN UNION {{w} \X days[w] : w \in {v \in played : Cardinality({u \in played : u <= v}) <= last}}

FairPlan ==
  [][generating /\ ~generating' => FairlySpread(day', WholeCycles(day'))]_seasonVars

\* The table is what the final results say, however often and in whatever order
\* turns were calculated, corrected and calculated again: each match counts
\* once, with one goal for each threshold its points reach, and the teams are in
\* a strict order by points, difference, goals and name.
Reached(points) == Cardinality({k \in 0..(points \div 60) : 660 + 60 * k <= points})

\* What a match is for each of its two teams.
Outcomes(entries) ==
  {[match |-> e, team |-> e[2].home, own |-> Reached(e[2].result.home), other |-> Reached(e[2].result.away)] :
     e \in entries}
  \cup
  {[match |-> e, team |-> e[2].away, own |-> Reached(e[2].result.away), other |-> Reached(e[2].result.home)] :
     e \in entries}

RowOf(team, outcomes) ==
  [team |-> team,
   won |-> Cardinality({o \in outcomes : o.own > o.other}),
   drawn |-> Cardinality({o \in outcomes : o.own = o.other}),
   lost |-> Cardinality({o \in outcomes : o.own < o.other}),
   for |-> Cardinality(UNION {{o} \X (1..o.own) : o \in outcomes}),
   against |-> Cardinality(UNION {{o} \X (1..o.other) : o \in outcomes})]

TableIsResults(rows, days) ==
  /\ LET outcomes == Outcomes(Counted(days))
     IN {rows[i] : i \in DOMAIN rows} = {RowOf(m, {o \in outcomes : o.team = m}) : m \in Participants}
  /\ \A i, j \in DOMAIN rows : i < j =>
       LET gap == [points |-> 3 * (rows[i].won - rows[j].won) + rows[i].drawn - rows[j].drawn,
                   goals |-> (rows[i].for - rows[i].against) - (rows[j].for - rows[j].against),
                   for |-> rows[i].for - rows[j].for]
       IN /\ gap.points >= 0
          /\ gap.points = 0 => gap.goals >= 0
          /\ gap.points = 0 /\ gap.goals = 0 => gap.for >= 0
          /\ gap.points = 0 /\ gap.goals = 0 /\ gap.for = 0 => rows[i].team < rows[j].team

TableFollowsResults ==
  [][calculations' # calculations => TableIsResults(table', day')]_seasonVars

\* A match that has been played keeps its day and its pairing, and its result
\* until it is calculated again, whatever turns appear or vanish around it and
\* however the calendar is refreshed: only a generation that checked before the
\* results came deletes it.
Kept(match, w) ==
  \E other \in day'[w] :
    /\ Pairing(other) = Pairing(match) /\ Played(other)
    /\ calculations' = calculations => other = match

PlayedResultsKept ==
  [][(generating /\ ~generating') \/ \A w \in Window : \A match \in day[w] : Played(match) => Kept(match, w)]_seasonVars

=============================================================================
