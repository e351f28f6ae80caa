------------------------------- MODULE Turns -------------------------------
(***************************************************************************)
(* The turns of a league (fantasy_turns), from the fixtures a provider     *)
(* publishes to the verdict on their results: windows become numbered      *)
(* turns, turns open, lock, are calculated and homologated, and carry the  *)
(* head-to-head days of the league (leagues/calendar_service).             *)
(*                                                                         *)
(* Handlers that create turns hold the row of the league; the others lock  *)
(* the row of their turn, so that every handler is one step.  A window is  *)
(* WindowLength instants long; a window that holds no turn has the state   *)
(* "absent".  The squads stand for the clubs a roster depends on, each     *)
(* club by the fixture it plays.                                           *)
(***************************************************************************)
EXTENDS Integers, FiniteSets, FiniteSetsExt

CONSTANTS
  Fixtures,       \* groups of matches that kick off together
  Size,           \* matches in a group
  Windows,        \* number of windows of the season
  WindowLength,   \* instants in a window
  MinFixtures,    \* min_fixtures_per_round of the rules
  Squads,         \* one set of fixtures per team: those its roster plays
  Coverage,       \* fixtures of a squad that make a window playable
  Horizon,        \* instants the daily job looks ahead
  LastInstant,    \* bound: end of the clock
  Created,        \* instant at which the league was created
  FirstKickoffs,  \* kickoffs published at the start, None if not yet
  Kickoffs,       \* instants a kickoff may be moved to
  Movable,        \* bound: fixtures that are moved, postponed or cancelled
  MaxMoves,       \* bound: kickoffs moved by the provider
  MaxOperations,  \* bound: commands of an operator
  None

ASSUME TurnsAssumption ==
  /\ IsFiniteSet(Fixtures) /\ Size \in [Fixtures -> Nat \ {0}]
  /\ Windows \in Nat \ {0} /\ WindowLength \in Nat \ {0}
  /\ MinFixtures \in Nat \ {0} /\ Coverage \in Nat /\ Horizon \in Nat /\ LastInstant \in Nat /\ Created \in Nat
  /\ Squads \subseteq SUBSET Fixtures /\ Kickoffs \subseteq Nat /\ None \notin Nat
  /\ FirstKickoffs \in [Fixtures -> Nat \cup {None}]
  /\ Movable \subseteq Fixtures /\ MaxMoves \in Nat /\ MaxOperations \in Nat

VARIABLES now, fixture, rosters, turn, link, day, calendar, league, moves, operations

worldVars == <<now, fixture, rosters, moves>>
turnsVars == <<now, fixture, rosters, turn, link, day, calendar, league, moves, operations>>

Window == 1..Windows
Time == 0..LastInstant
\* Instant 0 is before the season.
Start(w) == 1 + (w - 1) * WindowLength
Passed(t) == t # None /\ now >= t
InWindow(t, w) == t # None /\ Start(w) <= t /\ t < Start(w) + WindowLength

NoTurn == [status |-> "absent", number |-> 0, cutoff |-> None,
           verdict |-> "provisional", entered |-> FALSE]
NoDay == [number |-> 0, result |-> "none"]

\* What the handlers on turns read and write, passed from one part to the next.
Tables == [turn |-> turn, link |-> link, day |-> day, league |-> league]
Save(s) == \E t \in {s} : turn' = t.turn /\ link' = t.link /\ day' = t.day /\ league' = t.league

Present(s) == {w \in Window : s.turn[w].status # "absent"}
European(s) == {w \in Window : s.turn[w].status \notin {"absent", "skipped"}}
Days(s) == {w \in Window : s.day[w].number # 0}
Active(s, w) == {f \in Fixtures : s.link[w][f] = "active"}
Assigned(s) == UNION {Active(s, w) : w \in Window}

(***************************************************************************)
(* Cut-off (fantasy_turns/rules.py); the lock of a kickoff is in Lineups    *)
(***************************************************************************)
Started == {"LIVE", "FT"}
Inactive == {"PST", "CANC"}

CountsForCutoff(f) ==
  /\ fixture[f].kickoff # None
  /\ fixture[f].status # "CANC"
  /\ fixture[f].status = "PST" => fixture[f].kickoff > now

ComputeCutoff(kickoffs) == IF kickoffs = {} THEN None ELSE Min(kickoffs)

\* A mutant of the definition that follows.
ApplyCutoffFreely(previous, candidate) == candidate

ApplyCutoff(previous, candidate) ==
  IF Passed(previous) /\ (candidate = None \/ candidate > previous)
  THEN previous
  ELSE candidate

EffectiveStatus(t) ==
  IF t.status = "open" /\ Passed(t.cutoff) THEN "locked" ELSE t.status

Reconciled(s, w) ==
  LET cutoff == ApplyCutoff(s.turn[w].cutoff,
                  ComputeCutoff({fixture[f].kickoff : f \in {g \in Active(s, w) : CountsForCutoff(g)}}))
      row == [s.turn[w] EXCEPT !.cutoff = cutoff]
  IN [row EXCEPT !.status = EffectiveStatus(row)]

Reconcile(s, w) == [s EXCEPT !.turn[w] = Reconciled(s, w)]

ReconcileExisting(s) ==
  [s EXCEPT !.turn = [w \in Window |-> IF w \in European(s) THEN Reconciled(s, w) ELSE @[w]]]

(***************************************************************************)
(* Numbers of turns and days                                               *)
(***************************************************************************)

\* The days of the calendar follow their windows to the new numbers; a day
\* whose turn is gone is dropped unless it has results.
RealignDays(s) ==
  LET dropped == {w \in Days(s) \ European(s) : s.day[w].result = "none"}
      left == Days(s) \ dropped
      target == [w \in left |-> IF w \in European(s) THEN s.turn[w].number ELSE s.day[w].number]
      apart == Cardinality({target[w] : w \in left}) = Cardinality(left)
  IN [s EXCEPT !.day = [w \in Window |-> CASE w \in dropped -> NoDay
                                           [] w \in left /\ apart -> [@[w] EXCEPT !.number = target[w]]
                                           [] OTHER -> @[w]]]

NextNumber(s) == Max({s.turn[w].number : w \in Window}) + 1

Renumber(s) ==
  LET numbered == [w \in Window |-> [s.turn[w] EXCEPT !.number =
                     IF w \in Present(s) THEN Cardinality({v \in Present(s) : v <= w}) ELSE 0]]
  IN IF numbered = s.turn THEN s ELSE RealignDays([s EXCEPT !.turn = numbered])

(***************************************************************************)
(* Materialisation of the windows                                          *)
(***************************************************************************)
Matches(fs) == MapThenSumSet(LAMBDA f : Size[f], fs)

Covered(w) ==
  \/ ~rosters
  \/ \A squad \in Squads :
       Cardinality({f \in squad : InWindow(fixture[f].kickoff, w)}) >= Coverage

\* A mutant of the definition that follows.
SelectedAssigned(s, w) ==
  {f \in Fixtures : fixture[f].status # "CANC" /\ InWindow(fixture[f].kickoff, w)}

Selected(s, w) ==
  {f \in Fixtures \ (Assigned(s) \ Active(s, w)) :
     fixture[f].status # "CANC" /\ InWindow(fixture[f].kickoff, w)}

LinkNew(s, w, fs) ==
  [s EXCEPT !.link[w] = [f \in Fixtures |-> IF f \in fs THEN "active" ELSE @[f]]]

AutoOpened(row) ==
  IF row.status = "scheduled" /\ ~Passed(row.cutoff) THEN [row EXCEPT !.status = "open"] ELSE row

\* The row of a turn that is created, or upgraded from a skipped one.
Dated(row, status, cutoff, number) ==
  [row EXCEPT !.status = status, !.cutoff = cutoff, !.number = number]

Materialize(s, w, persistSkipped, autoOpen) ==
  LET vacant == s.turn[w].status \in {"absent", "skipped"}
      chosen == Selected(s, w)
      enough == Matches(chosen) >= MinFixtures
      linked == LinkNew(s, w, chosen)
      number == IF s.turn[w].status = "absent" THEN NextNumber(s) ELSE s.turn[w].number
      created(status, cutoff) ==
        Renumber([linked EXCEPT !.turn[w] = Dated(@, status, cutoff, number)])
      scheduled == created("scheduled", ComputeCutoff({fixture[f].kickoff : f \in chosen}))
  IN CASE ~vacant \/ ~Covered(w) -> s
       [] vacant /\ Covered(w) /\ enough ->
            IF autoOpen THEN [scheduled EXCEPT !.turn[w] = AutoOpened(@)] ELSE scheduled
       [] vacant /\ Covered(w) /\ ~enough /\ s.turn[w].status = "skipped" -> linked
       [] vacant /\ Covered(w) /\ ~enough /\ s.turn[w].status = "absent" ->
            IF chosen # {} /\ persistSkipped THEN created("skipped", None) ELSE s

\* One window after the other, in their order.
MaterializeAll(s, ws, persistSkipped, autoOpen) ==
  LET upTo[w \in 0..Windows] ==
        IF w = 0 THEN s
        ELSE IF w \in ws THEN Materialize(upTo[w - 1], w, persistSkipped, autoOpen) ELSE upTo[w - 1]
  IN upTo[Windows]

\* Turns without fixtures, or that rosters do not cover, and nobody has played.
Prunable(s) ==
  {w \in Present(s) :
     /\ s.turn[w].verdict = "provisional" /\ ~s.turn[w].entered
     /\ Active(s, w) = {} \/ (rosters /\ ~Covered(w))}

\* A mutant of the definition that follows.
PruneUnnumbered(s) ==
  LET gone == Prunable(s)
  IN [s EXCEPT !.turn = [w \in Window |-> IF w \in gone THEN NoTurn ELSE @[w]],
               !.link = [w \in Window |-> IF w \in gone THEN [f \in Fixtures |-> "none"] ELSE @[w]]]

Prune(s) ==
  LET gone == Prunable(s)
      pruned == [s EXCEPT !.turn = [w \in Window |-> IF w \in gone THEN NoTurn ELSE @[w]],
                          !.link = [w \in Window |-> IF w \in gone
                                      THEN [f \in Fixtures |-> "none"] ELSE @[w]]]
  IN IF gone = {} THEN s ELSE Renumber(pruned)

\* The season runs from the first to the last published kickoff.
SeasonWindows ==
  LET dated == {f \in Fixtures : fixture[f].kickoff # None}
  IN {w \in Window : \E f, g \in dated : /\ fixture[f].kickoff < Start(w) + WindowLength
                                         /\ Start(w) <= fixture[g].kickoff}

FullSeason(s, persistSkipped, autoOpen) ==
  Prune(MaterializeAll(s, SeasonWindows, persistSkipped, autoOpen))

NeedsFullSeason(s) ==
  \/ European(s) = {}
  \/ \E w \in SeasonWindows \ European(s) :
       /\ Covered(w)
       /\ Matches({f \in Fixtures \ Assigned(s) :
             fixture[f].status # "CANC" /\ InWindow(fixture[f].kickoff, w)}) >= MinFixtures

(***************************************************************************)
(* The head-to-head calendar                                               *)
(***************************************************************************)
Playable(s) == {w \in European(s) : Start(w) >= Created}

Generated(s) ==
  [s EXCEPT !.day = [w \in Window |-> IF w \in Playable(s)
     THEN [number |-> s.turn[w].number, result |-> "none"] ELSE NoDay]]

HasResults(s) == \E w \in Days(s) : s.day[w].result # "none"

MayGenerate(s) == s.league # "concluded" /\ rosters /\ Playable(s) # {} /\ ~HasResults(s)

\* A day is appended for every turn whose number no day has yet.
Missing(s) == {w \in Playable(s) : s.turn[w].number \notin {s.day[v].number : v \in Days(s)}}

\* A calendar has one day per window: a second one is refused by the table,
\* and the whole refresh with it.
MayExtend(s) == HasResults(s) /\ Missing(s) \cap Days(s) = {}

Extended(s) ==
  [s EXCEPT !.day = [w \in Window |-> IF w \in Missing(s)
     THEN [number |-> s.turn[w].number, result |-> "none"] ELSE @[w]]]

(***************************************************************************)
(* Calculation and verdict of a turn                                       *)
(***************************************************************************)
Finished(s, w) == Active(s, w) # {} /\ \A f \in Active(s, w) : fixture[f].status = "FT"
StatsReady(s, w) == \A f \in Active(s, w) : fixture[f].stats
FinalData(s, w) == Finished(s, w) /\ StatsReady(s, w)

TryOpenNext(s, number) ==
  [s EXCEPT !.turn = [w \in Window |-> IF w \in Present(s) /\ @[w].number = number + 1
                                       THEN AutoOpened(@[w]) ELSE @[w]]]

SeasonComplete(s) ==
  /\ Days(s) # {} /\ calendar = "confirmed"
  /\ \A w \in Days(s) : w \in Present(s) /\ s.turn[w].verdict = "homologated"

TryConclude(s) ==
  IF s.league = "active" /\ SeasonComplete(s) THEN [s EXCEPT !.league = "concluded"] ELSE s

Homologated(s, w) ==
  TryConclude(TryOpenNext([s EXCEPT !.turn[w].verdict = "homologated"], s.turn[w].number))

\* A mutant of the definition that follows.
MayCalculateAgain(s, w) == calendar # "none"

\* Without every line-up some match-ups are skipped: allResolved says whether
\* the teams that submitted are all of them.  A calendar must exist.
MayCalculate(s, w) == s.turn[w].verdict = "provisional" /\ calendar # "none"

Calculated(s, w, allResolved) ==
  LET entered == s.turn[w].entered \/ Finished(s, w)
      complete == w \in Days(s) /\ entered /\ (allResolved \/ Finished(s, w))
      final == complete /\ FinalData(s, w)
      computed == [s EXCEPT !.turn[w].entered = entered,
                            !.day[w].result = IF final THEN "final"
                                              ELSE IF complete THEN "partial" ELSE @]
  IN IF final THEN Homologated(computed, w) ELSE computed

(***************************************************************************)
(* The world: clock, provider, rosters, line-ups                           *)
(***************************************************************************)
UnchangedTables == UNCHANGED <<turn, link, day, calendar, league, operations>>

Tick ==
  /\ now < LastInstant
  /\ \A f \in Fixtures : ~(fixture[f].status = "NS" /\ fixture[f].kickoff = now)
  /\ now' = now + 1
  /\ UNCHANGED <<fixture, rosters, moves>> /\ UnchangedTables

Provider(f, row) ==
  /\ fixture' = [fixture EXCEPT ![f] = row]
  /\ UNCHANGED <<now, rosters>> /\ UnchangedTables

\* Matches with the same kickoff start together; statistics come in one sync.
KickOff ==
  LET due == {f \in Fixtures : fixture[f].status = "NS" /\ fixture[f].kickoff = now}
  IN /\ due # {}
     /\ fixture' = [f \in Fixtures |-> IF f \in due THEN [fixture[f] EXCEPT !.status = "LIVE"]
                                                    ELSE fixture[f]]
     /\ UNCHANGED <<now, rosters, moves>> /\ UnchangedTables

PublishStats ==
  LET over == {f \in Fixtures : fixture[f].status = "FT" /\ ~fixture[f].stats}
  IN /\ over # {}
     /\ fixture' = [f \in Fixtures |-> [fixture[f] EXCEPT !.stats = @ \/ f \in over]]
     /\ UNCHANGED <<now, rosters, moves>> /\ UnchangedTables

FinalWhistle(f) ==
  /\ fixture[f].status = "LIVE"
  /\ Provider(f, [fixture[f] EXCEPT !.status = "FT"]) /\ UNCHANGED moves

Postpone(f) ==
  /\ f \in Movable /\ fixture[f].status = "NS" /\ moves < MaxMoves
  /\ moves' = moves + 1
  /\ \E status \in Inactive : Provider(f, [fixture[f] EXCEPT !.status = status])

Reschedule(f) ==
  /\ f \in Movable /\ fixture[f].status \in {"NS", "PST"} /\ moves < MaxMoves
  /\ moves' = moves + 1
  /\ \E t \in Kickoffs \ {fixture[f].kickoff} :
       t > now /\ Provider(f, [fixture[f] EXCEPT !.status = "NS", !.kickoff = t])

\* The rosters are complete before the season starts.
FillRosters ==
  /\ now = 0 /\ ~rosters /\ rosters' = TRUE
  /\ UNCHANGED <<now, fixture, moves>> /\ UnchangedTables

(***************************************************************************)
(* Handlers and jobs                                                       *)
(***************************************************************************)
OnTables == UNCHANGED <<worldVars, calendar>>

\* Jobs and managers go on; the commands of the operator are counted.
Job == UNCHANGED operations
Command == operations < MaxOperations /\ operations' = operations + 1

\* A manager saves a line-up (FantasyLineupService.save_my_lineup).
SubmitLineup(w) ==
  /\ Job
  /\ turn[w].status \in {"open", "locked"} /\ rosters
  /\ Save(Reconcile([Tables EXCEPT !.turn[w].entered = TRUE], w))
  /\ OnTables

\* Bootstrap of a new league, without opening turns.
MaterializeInitial ==
  /\ Job
  /\ now = 0
  /\ Save(FullSeason(Tables, FALSE, FALSE)) /\ OnTables

EnsureUpcoming ==
  /\ Job
  /\ LET upcoming == {w \in Window : Start(w) + WindowLength > now /\ Start(w) < now + Horizon}
     IN Save(ReconcileExisting(IF NeedsFullSeason(Tables)
                               THEN FullSeason(Tables, FALSE, TRUE)
                               ELSE MaterializeAll(Tables, upcoming, FALSE, TRUE)))
  /\ OnTables

\* "Aggiorna calendario": the whole season, then the days of the calendar.
RefreshCalendar ==
  Job /\
  LET s == RealignDays(FullSeason(Tables, TRUE, TRUE))
  IN /\ \/ MayExtend(s) /\ Save(Extended(s)) /\ UNCHANGED calendar
        \/ /\ MayGenerate(s)
           /\ Save([Generated(s) EXCEPT !.league =
                       IF calendar # "draft" /\ @ = "auction" THEN "active" ELSE @])
           /\ calendar' = IF calendar = "none" THEN "confirmed" ELSE calendar
        \/ ~HasResults(s) /\ ~MayGenerate(s) /\ Save(s) /\ UNCHANGED calendar
     /\ UNCHANGED worldVars

Generate(w) ==
  Command /\
  LET s == Materialize(Tables, w, TRUE, FALSE)
  IN /\ turn[w].status \in {"absent", "skipped"} /\ s.turn[w].status # "absent"
     /\ s.turn[w].status = "scheduled" \/ turn[w].status = "absent"
     /\ Save(s) /\ OnTables

\* The detail of a turn and the recalculation of its cut-off.
ReadTurn(w) ==
  /\ Job
  /\ w \in European(Tables)
  /\ Save(Reconcile(Tables, w)) /\ OnTables

OpenTurn(w) ==
  Command /\
  LET s == Reconcile(Tables, w)
  IN /\ turn[w].status = "scheduled"
     /\ ~Passed(s.turn[w].cutoff)
     /\ Save([s EXCEPT !.turn[w].status = "open"]) /\ OnTables

\* The exclusion is committed; the calculation that follows may be refused.
Exclude(w, fs) ==
  LET s == Reconcile([Tables EXCEPT !.link[w] = [f \in Fixtures |->
             IF f \in fs THEN "excluded" ELSE @[f]]], w)
  IN /\ EffectiveStatus(turn[w]) = "scheduled" /\ fs # {}
     /\ IF MayCalculate(s, w)
        THEN \E all \in BOOLEAN : Save(Calculated(s, w, all))
        ELSE Save(s)
     /\ OnTables

ExcludeFixture(w) == Command /\ \E f \in Active(Tables, w) : Exclude(w, {f})
ExcludeUnplayed(w) == Command /\ Exclude(w, {f \in Active(Tables, w) : fixture[f].status \in Inactive})

Calculate(w) ==
  /\ w \in Present(Tables) /\ MayCalculate(Tables, w)
  /\ \E all \in BOOLEAN : Save(Calculated(Tables, w, all))
  /\ OnTables

\* The live pipeline takes the provisional turns with a match that started.
LiveCandidate(w) ==
  /\ w \in European(Tables) /\ turn[w].verdict = "provisional"
  /\ \E f \in Active(Tables, w) : fixture[f].status \in Started

LivePipeline(w) == Job /\ LiveCandidate(w) /\ Calculate(w)

CalculateNow(w) == Command /\ Calculate(w)

Homologate(w) ==
  /\ Command
  /\ turn[w].verdict = "provisional" /\ FinalData(Tables, w)
  /\ Save(Homologated(Tables, w)) /\ OnTables

Correct(w) ==
  /\ Command
  /\ turn[w].verdict = "homologated"
  /\ Save([Tables EXCEPT !.turn[w].verdict = "provisional"]) /\ OnTables

\* A turn that is over and has a day that is not final is reopened if it must
\* be, and calculated.
RepairRound(w) ==
  Job /\
  LET s == [Tables EXCEPT !.turn[w].verdict = "provisional"]
  IN /\ league = "active" /\ w \in European(Tables) \cap Days(Tables)
     /\ Finished(Tables, w) /\ day[w].result # "final" /\ calendar # "none"
     /\ Save(Calculated(s, w, TRUE)) /\ OnTables

GenerateCalendar ==
  /\ Command
  /\ MayGenerate(Tables)
  /\ Save(Generated(Tables)) /\ calendar' = "draft"
  /\ UNCHANGED worldVars

\* Not counted as a command: each one follows a generation, which is.
ConfirmCalendar ==
  /\ UNCHANGED operations
  /\ calendar = "draft" /\ league # "concluded" /\ rosters
  /\ calendar' = "confirmed"
  /\ Save([Tables EXCEPT !.league = IF @ = "auction" THEN "active" ELSE @])
  /\ UNCHANGED worldVars

(***************************************************************************)
(* Specification                                                           *)
(***************************************************************************)
TurnsInit ==
  /\ now = 0 /\ rosters = FALSE /\ moves = 0 /\ operations = 0
  /\ fixture = [f \in Fixtures |-> [kickoff |-> FirstKickoffs[f], status |-> "NS", stats |-> FALSE]]
  /\ turn = [w \in Window |-> NoTurn]
  /\ link = [w \in Window |-> [f \in Fixtures |-> "none"]]
  /\ day = [w \in Window |-> NoDay]
  /\ calendar = "none" /\ league = "auction"

ProviderNext ==
  KickOff \/ PublishStats \/ \E f \in Fixtures : FinalWhistle(f) \/ Postpone(f) \/ Reschedule(f)

JobsNext ==
  \/ MaterializeInitial \/ EnsureUpcoming \/ RefreshCalendar
  \/ \E w \in Window : ReadTurn(w) \/ SubmitLineup(w) \/ LivePipeline(w) \/ RepairRound(w)

OperatorNext ==
  \/ GenerateCalendar \/ ConfirmCalendar
  \/ \E w \in Window : \/ Generate(w) \/ OpenTurn(w) \/ ExcludeFixture(w) \/ ExcludeUnplayed(w)
                        \/ CalculateNow(w) \/ Homologate(w) \/ Correct(w)

TurnsNext == Tick \/ FillRosters \/ ProviderNext \/ JobsNext \/ OperatorNext

TurnsSpec == TurnsInit /\ [][TurnsNext]_turnsVars

(***************************************************************************)
(* Properties                                                              *)
(***************************************************************************)

\* The turns are numbered from 1 without holes in the order of their windows,
\* whatever the order in which they were created, upgraded and pruned
\* (_renumber_league_rounds).
NumbersFollowWindows ==
  \A w \in Present(Tables) : turn[w].number = Cardinality({v \in Present(Tables) : v <= w})

\* A fixture counts in one turn at most, also after its kickoff moved to the
\* window of another turn (_active_assigned_fixture_ids).
FixtureInOneTurn ==
  \A v, w \in Window : v # w => Active(Tables, v) \cap Active(Tables, w) = {}

\* A cut-off that has passed is never moved after now again, whatever the
\* provider does to the kickoffs of the turn (apply_cutoff_recalculation).
CutoffNeverReopens ==
  [][\A w \in Window :
       Passed(turn[w].cutoff) /\ turn'[w].status # "absent"
         => turn'[w].cutoff # None /\ turn'[w].cutoff <= turn[w].cutoff]_turnsVars

\* No job and no operator touches the final result of a day while its turn is
\* homologated: only a correction gives it back to the calculation
\* (assert_round_not_homologated).
VerdictIsFrozen ==
  [][\A w \in Window :
       turn[w].verdict = "homologated" /\ turn'[w].verdict = "homologated" /\ day[w].result = "final"
         => day'[w].result = "final"]_turnsVars

=============================================================================
