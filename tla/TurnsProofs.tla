---------------------------- MODULE TurnsProofs ----------------------------
(***************************************************************************)
(* Theorems about Turns for every number of windows, fixtures and moves of *)
(* the provider.  The parts of the handlers are functions from tables to   *)
(* tables; each is shown to keep the tables good (numbered without holes,  *)
(* no fixture in two turns), and to leave the cut-offs, the verdicts and   *)
(* the results of the days as the properties need them.                    *)
(***************************************************************************)
EXTENDS Turns, FiniteSetTheorems, WellFoundedInduction, TLAPS

Results == {"none", "partial", "final"}

\* The rows of the table of turns, with numbers from a set.
Rows(numbers) ==
  [status : {"absent", "skipped", "scheduled", "open", "locked"}, number : numbers,
   cutoff : Nat \cup {None}, verdict : {"provisional", "homologated"}, entered : BOOLEAN]

TablesType(numbers) ==
  [turn : [Window -> Rows(numbers)],
   link : [Window -> [Fixtures -> {"none", "active", "excluded"}]],
   day : [Window -> [number : Nat, result : Results]],
   league : {"auction", "active", "concluded"}]

FixtureRows ==
  [kickoff : Nat \cup {None}, status : {"NS", "LIVE", "FT", "PST", "CANC"}, stats : BOOLEAN]

Numbered(s) ==
  \A w \in Present(s) : s.turn[w].number = Cardinality({v \in Present(s) : v <= w})

Apart(s) == \A v, w \in Window : v # w => Active(s, v) \cap Active(s, w) = {}

Vacant(row) == row.status \in {"absent", "skipped"}

\* A window without a turn that counts has no cut-off yet.
VacantIsUndated(s) == \A w \in Window : Vacant(s.turn[w]) => s.turn[w].cutoff = None

\* A row without a day has no result.
DaysNumbered(s) == \A w \in Window : s.day[w].number = 0 => s.day[w].result = "none"

Good(s) ==
  s \in TablesType(Nat) /\ Numbered(s) /\ Apart(s) /\ VacantIsUndated(s) /\ DaysNumbered(s)

TurnsInv ==
  /\ Good(Tables)
  /\ fixture \in [Fixtures -> FixtureRows]
  /\ now \in Nat /\ rosters \in BOOLEAN /\ moves \in Nat /\ operations \in Nat
  /\ calendar \in {"none", "draft", "confirmed"}

(***************************************************************************)
(* What a part of a handler may do to a turn and to a day                  *)
(***************************************************************************)
SameRow(old, new) ==
  /\ new.status = old.status /\ new.cutoff = old.cutoff
  /\ new.verdict = old.verdict /\ new.entered = old.entered

\* Results stay with their window.
ResultsStay(s, t) ==
  \A w \in Window : s.day[w].result # "none" => t.day[w].result = s.day[w].result

\* Turns appear in windows that had none; those that were there stay.
Grows(s, t) ==
  ResultsStay(s, t) /\ \A w \in Window : ~Vacant(s.turn[w]) => SameRow(s.turn[w], t.turn[w])

\* A turn that counted stays as it was or goes.
Settles(s, t) ==
  /\ ResultsStay(s, t)
  /\ \A w \in Window : \/ Vacant(s.turn[w]) \/ t.turn[w].status = "absent"
                       \/ SameRow(s.turn[w], t.turn[w])

\* A cut-off that has passed stays at or before its instant.
CutoffStays(old, new) ==
  Passed(old.cutoff) => new.cutoff # None /\ new.cutoff <= old.cutoff

CutoffsStay(s, t) ==
  \A w \in Window : t.turn[w].status # "absent" => CutoffStays(s.turn[w], t.turn[w])

-----------------------------------------------------------------------------
(* Windows, minima and numbers *)

LEMMA WindowsFinite ==
  /\ IsFiniteSet(Window) /\ Window \subseteq Nat
  /\ \A S : S \subseteq Window => IsFiniteSet(S) /\ Cardinality(S) \in Nat
<1>1. Windows \in Nat
  BY TurnsAssumption
<1>2. IsFiniteSet(Window) /\ Window \subseteq Nat
  BY <1>1, FS_Interval DEF Window
<1> QED
  BY <1>2, FS_Subset, FS_CardinalityType

\* The order of the naturals as a set of pairs.
Below == {p \in Nat \X Nat : p[1] < p[2]}

LEMMA SmallestOf ==
  ASSUME NEW T \in SUBSET Nat, T # {}
  PROVE  \E n \in T : \A m \in T : n <= m
<1>1. OpToRel(<, Nat) = Below
  BY Zenon DEF OpToRel, Below
<1>2. IsWellFoundedOn(Below, Nat)
  BY <1>1, NatLessThanWellFounded, Zenon
<1>3. PICK n \in T : \A m \in T : <<m, n>> \notin Below
  BY <1>2, WFMin
<1>4. ASSUME NEW m \in T
      PROVE  n <= m
  <2>1. <<m, n>> \in Nat \X Nat /\ <<m, n>>[1] = m /\ <<m, n>>[2] = n
    OBVIOUS
  <2> QED
    BY <1>3, <2>1 DEF Below
<1> QED
  BY <1>4

\* compute_cutoff_from_fixtures: no kickoff, no cut-off.
LEMMA CutoffType ==
  ASSUME NEW kickoffs \in SUBSET Nat
  PROVE  ComputeCutoff(kickoffs) \in Nat \cup {None}
<1>1. CASE kickoffs = {}
  BY <1>1 DEF ComputeCutoff
<1>2. CASE kickoffs # {}
  <2>1. PICK n \in kickoffs : \A m \in kickoffs : n <= m
    BY <1>2, SmallestOf
  <2>2. Min(kickoffs) \in kickoffs
    BY <2>1, Zenon DEF Min
  <2> QED
    BY <1>2, <2>2 DEF ComputeCutoff
<1> QED
  BY <1>1, <1>2

\* apply_cutoff_recalculation: a cut-off that has passed is not moved later.
LEMMA AppliedCutoff ==
  ASSUME NEW previous \in Nat \cup {None}, NEW candidate \in Nat \cup {None}
  PROVE  /\ ApplyCutoff(previous, candidate) \in Nat \cup {None}
         /\ Passed(previous) => /\ ApplyCutoff(previous, candidate) # None
                                /\ ApplyCutoff(previous, candidate) <= previous
BY TurnsAssumption DEF ApplyCutoff, Passed

-----------------------------------------------------------------------------
(* Renumbering *)

LEMMA NumberIsPositive ==
  ASSUME NEW s, NEW w \in Present(s)
  PROVE  Cardinality({v \in Present(s) : v <= w}) # 0
<1> DEFINE upTo == {v \in Present(s) : v <= w}
<1>1. upTo \subseteq Window /\ w \in upTo
  BY WindowsFinite DEF Present
<1>2. IsFiniteSet(upTo)
  BY <1>1, WindowsFinite
<1> QED
  BY <1>1, <1>2, FS_EmptySet

\* _realign_calendar_days: only the days move, and those with results keep them.
LEMMA RealignKeeps ==
  ASSUME NEW s \in TablesType(Nat), Numbered(s), DaysNumbered(s)
  PROVE  /\ RealignDays(s) \in TablesType(Nat) /\ DaysNumbered(RealignDays(s))
         /\ RealignDays(s).turn = s.turn /\ RealignDays(s).link = s.link
         /\ ResultsStay(s, RealignDays(s))
<1> DEFINE dropped == {w \in Days(s) \ European(s) : s.day[w].result = "none"}
           left == Days(s) \ dropped
           target == [w \in left |-> IF w \in European(s) THEN s.turn[w].number ELSE s.day[w].number]
           apart == Cardinality({target[w] : w \in left}) = Cardinality(left)
           day2 == [w \in Window |-> CASE w \in dropped -> NoDay
                                       [] w \in left /\ apart -> [s.day[w] EXCEPT !.number = target[w]]
                                       [] OTHER -> s.day[w]]
<1>1. RealignDays(s) = [s EXCEPT !.day = day2]
  BY DEF RealignDays
<1>2. \A w \in Window : s.day[w] \in [number : Nat, result : Results] /\ s.turn[w].number \in Nat
  BY DEF TablesType, Rows
<1>3. left \subseteq Window /\ left \cap dropped = {}
  BY DEF Days
<1>4. \A w \in left : target[w] \in Nat /\ target[w] # 0
  <2>1. \A w \in European(s) : s.turn[w].number # 0
    BY NumberIsPositive DEF Numbered, European, Present
  <2> QED
    BY <2>1, <1>2, <1>3 DEF Days
<1>5. \A w \in Window : /\ day2[w] \in [number : Nat, result : Results]
                        /\ s.day[w].result # "none" => day2[w].result = s.day[w].result
                        /\ day2[w].number = 0 => day2[w].result = "none"
  <2> SUFFICES ASSUME NEW w \in Window
               PROVE  /\ day2[w] \in [number : Nat, result : Results]
                      /\ s.day[w].result # "none" => day2[w].result = s.day[w].result
                      /\ day2[w].number = 0 => day2[w].result = "none"
    OBVIOUS
  <2> HIDE DEF target, apart
  <2>1. CASE w \in dropped
    BY <2>1, <1>3 DEF NoDay, Results
  <2>2. CASE w \in left /\ apart
    <3>1. day2[w] = [s.day[w] EXCEPT !.number = target[w]]
      BY <2>2, <1>3
    <3>2. target[w] \in Nat /\ target[w] # 0 /\ s.day[w] \in [number : Nat, result : Results]
      BY <2>2, <1>2, <1>4
    <3> QED
      BY <3>1, <3>2
  <2>3. CASE w \notin dropped /\ ~(w \in left /\ apart)
    BY <2>3, <1>2 DEF DaysNumbered
  <2> QED
    BY <2>1, <2>2, <2>3
<1>6. day2 = [w \in Window |-> day2[w]]
  OBVIOUS
<1> HIDE DEF dropped, left, target, apart, day2
<1>7. day2 \in [Window -> [number : Nat, result : Results]]
  BY <1>5, <1>6
<1> QED
  BY <1>1, <1>5, <1>7 DEF TablesType, ResultsStay, DaysNumbered

\* The number _renumber_league_rounds gives to the turn of a window.
NumberOf(s, w) ==
  IF w \in Present(s) THEN Cardinality({v \in Present(s) : v <= w}) ELSE 0

LEMMA NumberOfType ==
  ASSUME NEW s, NEW w \in Window
  PROVE  NumberOf(s, w) \in Nat
<1>1. {v \in Present(s) : v <= w} \subseteq Window
  BY DEF Present
<1> QED
  BY <1>1, WindowsFinite DEF NumberOf

\* _renumber_league_rounds: turns keep everything but their numbers, which
\* follow the windows.
LEMMA RenumberKeeps ==
  ASSUME NEW numbers, NEW s \in TablesType(numbers), DaysNumbered(s)
  PROVE  LET t == Renumber(s)
         IN  /\ t \in TablesType(Nat) /\ Numbered(t) /\ t.link = s.link
             /\ DaysNumbered(t) /\ ResultsStay(s, t)
             /\ \A w \in Window : SameRow(s.turn[w], t.turn[w])
<1> DEFINE numbered == [w \in Window |-> [s.turn[w] EXCEPT !.number = NumberOf(s, w)]]
           u == [s EXCEPT !.turn = numbered]
<1>1. Renumber(s) = IF numbered = s.turn THEN s ELSE RealignDays(u)
  BY DEF Renumber, NumberOf
<1>2. \A w \in Window : /\ numbered[w] \in Rows(Nat) /\ numbered[w].number = NumberOf(s, w)
                        /\ SameRow(s.turn[w], numbered[w])
  <2> SUFFICES ASSUME NEW w \in Window
               PROVE  /\ [s.turn[w] EXCEPT !.number = NumberOf(s, w)] \in Rows(Nat)
                      /\ [s.turn[w] EXCEPT !.number = NumberOf(s, w)].number = NumberOf(s, w)
                      /\ SameRow(s.turn[w], [s.turn[w] EXCEPT !.number = NumberOf(s, w)])
    OBVIOUS
  <2>1. s.turn[w] \in Rows(numbers)
    BY DEF TablesType
  <2> QED
    BY <2>1, NumberOfType DEF Rows, SameRow
<1>3. numbered \in [Window -> Rows(Nat)]
  BY <1>2
<1> HIDE DEF numbered
<1>4. u \in TablesType(Nat) /\ u.turn = numbered /\ u.link = s.link /\ u.day = s.day
  BY <1>3 DEF TablesType
<1>5. Present(u) = Present(s)
  BY <1>2, <1>4 DEF Present, SameRow
<1>6. Numbered(u)
  <2> SUFFICES ASSUME NEW w \in Present(u)
               PROVE  u.turn[w].number = Cardinality({v \in Present(u) : v <= w})
    BY DEF Numbered
  <2>1. w \in Window /\ w \in Present(s)
    BY <1>5 DEF Present
  <2> QED
    BY <2>1, <1>2, <1>4, <1>5 DEF NumberOf
<1> HIDE DEF u
<1>7. CASE numbered = s.turn
  <2>1. s = u
    BY <1>7 DEF u, TablesType
  <2> QED
    BY <2>1, <1>1, <1>7, <1>2, <1>4, <1>6 DEF ResultsStay
<1>8. CASE numbered # s.turn
  <2>1. Renumber(s) = RealignDays(u)
    BY <1>1, <1>8
  <2>2. /\ RealignDays(u) \in TablesType(Nat) /\ RealignDays(u).turn = numbered
        /\ RealignDays(u).link = s.link /\ ResultsStay(u, RealignDays(u))
        /\ DaysNumbered(RealignDays(u))
    BY <1>4, <1>6, RealignKeeps DEF DaysNumbered
  <2>3. Numbered(RealignDays(u))
    BY <2>2, <1>4, <1>6 DEF Numbered, Present
  <2> QED
    BY <2>1, <2>2, <2>3, <1>2, <1>4 DEF ResultsStay
<1> QED
  BY <1>7, <1>8

-----------------------------------------------------------------------------
(* Materialisation of a window *)

LEMMA ApartByLinks ==
  ASSUME NEW s, NEW t, Apart(s), t.link = s.link
  PROVE  Apart(t)
BY DEF Apart, Active

\* A fixture of another turn is not selected (_active_assigned_fixture_ids).
LEMMA LinkKeeps ==
  ASSUME NEW s \in TablesType(Nat), Apart(s), NEW w \in Window
  PROVE  LET t == LinkNew(s, w, Selected(s, w))
         IN  t \in TablesType(Nat) /\ Apart(t) /\ t.turn = s.turn /\ t.day = s.day
<1> DEFINE chosen == Selected(s, w)
           row == [f \in Fixtures |-> IF f \in chosen THEN "active" ELSE s.link[w][f]]
           link2 == [s.link EXCEPT ![w] = row]
           t == LinkNew(s, w, chosen)
<1>1. s.link \in [Window -> [Fixtures -> {"none", "active", "excluded"}]]
  BY DEF TablesType
<1>2. row \in [Fixtures -> {"none", "active", "excluded"}]
  BY <1>1
<1>3. \A f \in Fixtures : row[f] = "active" => f \in chosen \/ s.link[w][f] = "active"
  OBVIOUS
<1>4. t = [s EXCEPT !.link = link2]
  BY DEF LinkNew
<1> HIDE DEF row, chosen
<1>5. link2 \in [Window -> [Fixtures -> {"none", "active", "excluded"}]]
  BY <1>1, <1>2
<1>6. \A v \in Window : link2[v] = IF v = w THEN row ELSE s.link[v]
  BY <1>1
<1> HIDE DEF link2
<1>7. t \in TablesType(Nat) /\ t.turn = s.turn /\ t.day = s.day /\ t.link = link2
  BY <1>4, <1>5 DEF TablesType
<1> HIDE DEF t
<1>8. Active(t, w) \subseteq chosen \cup Active(s, w)
  BY <1>3, <1>6, <1>7 DEF Active
<1>9. \A v \in Window \ {w} : Active(t, v) = Active(s, v)
  BY <1>6, <1>7 DEF Active
<1>10. \A v \in Window \ {w} : chosen \cap Active(s, v) = {}
  <2> SUFFICES ASSUME NEW v \in Window \ {w}, NEW f \in chosen, f \in Active(s, v)
               PROVE  FALSE
    OBVIOUS
  <2>1. f \notin Assigned(s) \ Active(s, w)
    BY DEF chosen, Selected
  <2>2. f \in Assigned(s)
    BY DEF Assigned
  <2> QED
    BY <2>1, <2>2 DEF Apart
<1>11. Apart(t)
  <2> SUFFICES ASSUME NEW u \in Window, NEW v \in Window, u # v
               PROVE  Active(t, u) \cap Active(t, v) = {}
    BY DEF Apart
  <2>1. Active(s, u) \cap Active(s, v) = {}
    BY DEF Apart
  <2>2. CASE u = w
    BY <2>1, <2>2, <1>8, <1>9, <1>10
  <2>3. CASE v = w
    BY <2>1, <2>3, <1>8, <1>9, <1>10
  <2>4. CASE u # w /\ v # w
    BY <2>1, <2>4, <1>9
  <2> QED
    BY <2>2, <2>3, <2>4
<1> QED
  BY <1>7, <1>11 DEF t, chosen

\* The turn that a window gets: created, or upgraded from a skipped one.
WithTurn(linked, w, status, cutoff, number) ==
  Renumber([linked EXCEPT !.turn[w] = Dated(@, status, cutoff, number)])

LEMMA WithTurnKeeps ==
  ASSUME NEW s \in TablesType(Nat), NEW linked \in TablesType(Nat),
         linked.turn = s.turn, linked.day = s.day, Apart(linked), VacantIsUndated(s), DaysNumbered(s),
         NEW w \in Window, Vacant(s.turn[w]),
         NEW status \in {"skipped", "scheduled"}, NEW cutoff \in Nat \cup {None},
         status = "skipped" => cutoff = None, NEW number
  PROVE  LET t == WithTurn(linked, w, status, cutoff, number)
         IN  Good(t) /\ Grows(s, t) /\ t.turn[w].status = status
<1> DEFINE row == Dated(s.turn[w], status, cutoff, number)
           numbers == Nat \cup {number}
           turn2 == [s.turn EXCEPT ![w] = row]
           u == [linked EXCEPT !.turn = turn2]
           t == WithTurn(linked, w, status, cutoff, number)
<1>1. s.turn \in [Window -> Rows(Nat)]
  BY DEF TablesType
<1>2. row \in Rows(numbers) /\ row.status = status /\ row.cutoff = cutoff
  <2>1. s.turn[w] \in Rows(Nat)
    BY <1>1
  <2> QED
    BY <2>1 DEF Rows, Dated
<1>3. t = Renumber(u)
  <2>1. linked.turn[w] = s.turn[w]
    OBVIOUS
  <2>2. [linked EXCEPT !.turn[w] = Dated(@, status, cutoff, number)] = u
    BY <2>1 DEF TablesType
  <2> QED
    BY <2>2 DEF WithTurn
<1> HIDE DEF row
<1>4. \A v \in Window : s.turn[v] \in Rows(numbers)
  BY <1>1 DEF Rows
<1> HIDE DEF numbers
<1>5. turn2 \in [Window -> Rows(numbers)] /\ \A v \in Window : turn2[v] = IF v = w THEN row ELSE s.turn[v]
  BY <1>1, <1>2, <1>4
<1> HIDE DEF turn2
<1>6. u \in TablesType(numbers) /\ u.turn = turn2 /\ u.link = linked.link /\ u.day = s.day
  BY <1>5 DEF TablesType
<1> HIDE DEF u, t
<1>7. /\ t \in TablesType(Nat) /\ Numbered(t) /\ t.link = u.link
      /\ DaysNumbered(t) /\ ResultsStay(u, t)
      /\ \A v \in Window : SameRow(u.turn[v], t.turn[v])
  BY <1>3, <1>6, RenumberKeeps DEF DaysNumbered
<1>8. Apart(t)
  BY <1>6, <1>7, ApartByLinks
<1>9. VacantIsUndated(t)
  <2> SUFFICES ASSUME NEW v \in Window, Vacant(t.turn[v])
               PROVE  t.turn[v].cutoff = None
    BY DEF VacantIsUndated
  <2>1. Vacant(u.turn[v]) /\ t.turn[v].cutoff = u.turn[v].cutoff
    BY <1>7 DEF SameRow, Vacant
  <2>2. CASE v = w
    BY <2>1, <2>2, <1>2, <1>5, <1>6 DEF Vacant
  <2>3. CASE v # w
    BY <2>1, <2>3, <1>5, <1>6 DEF VacantIsUndated
  <2> QED
    BY <2>2, <2>3
<1>10. Grows(s, t)
  BY <1>5, <1>6, <1>7 DEF Grows, ResultsStay
<1>11. t.turn[w].status = status
  BY <1>2, <1>5, <1>6, <1>7 DEF SameRow
<1> QED
  BY <1>7, <1>8, <1>9, <1>10, <1>11 DEF Good, t

LEMMA AutoOpenedKeeps ==
  ASSUME NEW row \in Rows(Nat)
  PROVE  /\ AutoOpened(row) \in Rows(Nat)
         /\ \/ AutoOpened(row).status = row.status
            \/ row.status = "scheduled" /\ AutoOpened(row).status = "open"
         /\ AutoOpened(row).number = row.number /\ AutoOpened(row).cutoff = row.cutoff
         /\ AutoOpened(row).verdict = row.verdict /\ AutoOpened(row).entered = row.entered
BY DEF AutoOpened, Rows

\* Tables whose rows have changed in status among those that count only.
LEMMA StatusChange ==
  ASSUME NEW s, Good(s), NEW t \in TablesType(Nat), t.link = s.link, t.day = s.day,
         \A w \in Window : /\ Vacant(t.turn[w]) <=> Vacant(s.turn[w])
                           /\ t.turn[w].status = "absent" <=> s.turn[w].status = "absent"
                           /\ t.turn[w].number = s.turn[w].number
                           /\ Vacant(s.turn[w]) => t.turn[w].cutoff = s.turn[w].cutoff
  PROVE  Good(t)
<1>1. Present(t) = Present(s)
  BY DEF Present
<1>2. Numbered(t)
  BY <1>1 DEF Good, Numbered, Present
<1>3. Apart(t)
  BY ApartByLinks DEF Good
<1>4. VacantIsUndated(t)
  BY DEF Good, VacantIsUndated
<1> QED
  BY <1>2, <1>3, <1>4 DEF Good, DaysNumbered

LEMMA OpenedKeeps ==
  ASSUME NEW s, Good(s), NEW w \in Window
  PROVE  LET t == [s EXCEPT !.turn[w] = AutoOpened(@)]
         IN  Good(t) /\ t.day = s.day /\ \A v \in Window \ {w} : t.turn[v] = s.turn[v]
<1> DEFINE row == AutoOpened(s.turn[w])
           turn2 == [s.turn EXCEPT ![w] = row]
           t == [s EXCEPT !.turn = turn2]
<1>1. s \in TablesType(Nat) /\ s.turn \in [Window -> Rows(Nat)]
  BY DEF Good, TablesType
<1>2. /\ row \in Rows(Nat) /\ row.number = s.turn[w].number /\ row.cutoff = s.turn[w].cutoff
      /\ \/ row.status = s.turn[w].status
         \/ s.turn[w].status = "scheduled" /\ row.status = "open"
  BY <1>1, AutoOpenedKeeps
<1> HIDE DEF row
<1>3. /\ turn2 \in [Window -> Rows(Nat)]
      /\ turn2[w] = row /\ \A v \in Window \ {w} : turn2[v] = s.turn[v]
  BY <1>1, <1>2
<1> HIDE DEF turn2
<1>4. t \in TablesType(Nat) /\ t.turn = turn2 /\ t.link = s.link /\ t.day = s.day
  BY <1>1, <1>3 DEF TablesType
<1> HIDE DEF t
<1>5. Good(t)
  BY <1>2, <1>3, <1>4, StatusChange DEF Vacant
<1> QED
  BY <1>3, <1>4, <1>5 DEF t, turn2, row

LEMMA GrowsOn ==
  ASSUME NEW s, NEW t, NEW u, Grows(s, t), Grows(t, u)
  PROVE  Grows(s, u)
BY DEF Grows, ResultsStay, SameRow, Vacant

\* materialize_full_season, for a window: a turn that counts is left alone.
LEMMA MaterializeKeeps ==
  ASSUME fixture \in [Fixtures -> FixtureRows], NEW s, Good(s), NEW w \in Window,
         NEW persistSkipped \in BOOLEAN, NEW autoOpen \in BOOLEAN
  PROVE  LET t == Materialize(s, w, persistSkipped, autoOpen)
         IN  Good(t) /\ Grows(s, t)
<1> DEFINE vacant == s.turn[w].status \in {"absent", "skipped"}
           chosen == Selected(s, w)
           enough == Matches(chosen) >= MinFixtures
           linked == LinkNew(s, w, chosen)
           number == IF s.turn[w].status = "absent" THEN NextNumber(s) ELSE s.turn[w].number
           kickoffs == {fixture[f].kickoff : f \in chosen}
           scheduled == WithTurn(linked, w, "scheduled", ComputeCutoff(kickoffs), number)
           skipped == WithTurn(linked, w, "skipped", None, number)
           opened == [scheduled EXCEPT !.turn[w] = AutoOpened(@)]
           t == Materialize(s, w, persistSkipped, autoOpen)
<1>1. t = CASE ~vacant \/ ~Covered(w) -> s
            [] vacant /\ Covered(w) /\ enough -> IF autoOpen THEN opened ELSE scheduled
            [] vacant /\ Covered(w) /\ ~enough /\ s.turn[w].status = "skipped" -> linked
            [] vacant /\ Covered(w) /\ ~enough /\ s.turn[w].status = "absent" ->
                 IF chosen # {} /\ persistSkipped THEN skipped ELSE s
  BY DEF Materialize, WithTurn
<1>2. kickoffs \subseteq Nat
  <2> SUFFICES ASSUME NEW f \in chosen
               PROVE  fixture[f].kickoff \in Nat
    OBVIOUS
  <2>1. f \in Fixtures /\ fixture[f].kickoff # None
    BY DEF Selected, InWindow
  <2> QED
    BY <2>1 DEF FixtureRows
<1>3. ComputeCutoff(kickoffs) \in Nat \cup {None}
  BY <1>2, CutoffType
<1>4. linked \in TablesType(Nat) /\ Apart(linked) /\ linked.turn = s.turn /\ linked.day = s.day
  BY LinkKeeps DEF Good
<1> HIDE DEF linked, kickoffs, number, chosen, enough
<1>5. CASE vacant
  <2>1. s \in TablesType(Nat) /\ VacantIsUndated(s) /\ DaysNumbered(s) /\ Vacant(s.turn[w])
    BY <1>5 DEF Good, Vacant
  <2>2. Good(scheduled) /\ Grows(s, scheduled)
    BY <2>1, <1>3, <1>4, WithTurnKeeps
  <2>3. Good(skipped) /\ Grows(s, skipped)
    BY <2>1, <1>4, WithTurnKeeps
  <2>4. Good(linked) /\ Grows(s, linked)
    BY <1>4 DEF Good, Numbered, Present, VacantIsUndated, DaysNumbered, Grows, ResultsStay, SameRow
  <2>5. Good(s) /\ Grows(s, s)
    BY DEF Grows, ResultsStay, SameRow
  <2> HIDE DEF scheduled, skipped
  <2>6. Good(opened) /\ Grows(s, opened)
    <3>1. Good(opened) /\ opened.day = scheduled.day
          /\ \A v \in Window \ {w} : opened.turn[v] = scheduled.turn[v]
      BY <2>2, OpenedKeeps
    <3> HIDE DEF opened
    <3> QED
      BY <2>1, <2>2, <3>1 DEF Grows, ResultsStay
  <2> HIDE DEF opened
  <2>7. t \in {s, linked, scheduled, skipped, opened}
    <3>1. CASE ~Covered(w)
      BY <3>1, <1>1, <1>5
    <3>2. CASE Covered(w) /\ enough
      BY <3>2, <1>1, <1>5
    <3>3. CASE Covered(w) /\ ~enough /\ s.turn[w].status = "skipped"
      BY <3>3, <1>1, <1>5
    <3>4. CASE Covered(w) /\ ~enough /\ s.turn[w].status = "absent"
      BY <3>4, <1>1, <1>5
    <3> QED
      BY <1>5, <3>1, <3>2, <3>3, <3>4
  <2> QED
    BY <2>2, <2>3, <2>4, <2>5, <2>6, <2>7
<1>6. CASE ~vacant
  <2>1. t = s
    BY <1>1, <1>6
  <2> QED
    BY <2>1 DEF Grows, ResultsStay, SameRow
<1> QED
  BY <1>5, <1>6

\* The walk over the windows is defined for every number of windows.
LEMMA WalkDefined ==
  ASSUME NEW s, NEW ws, NEW persistSkipped, NEW autoOpen, NEW n \in Nat
  PROVE  \E f : f = [w \in 0..n |->
            IF w = 0 THEN s
            ELSE IF w \in ws THEN Materialize(f[w - 1], w, persistSkipped, autoOpen) ELSE f[w - 1]]
<1> DEFINE Step(u, w) == IF w \in ws THEN Materialize(u, w, persistSkipped, autoOpen) ELSE u
           IsWalk(f, k) == f = [w \in 0..k |-> IF w = 0 THEN s ELSE Step(f[w - 1], w)]
           bad == {k \in Nat : ~ \E f : IsWalk(f, k)}
<1>1. SUFFICES bad = {}
  OBVIOUS
<1>2. SUFFICES ASSUME bad # {}
               PROVE  FALSE
  OBVIOUS
<1>3. PICK m \in bad : \A k \in bad : m <= k
  BY <1>2, SmallestOf
<1>4. m \in Nat /\ ~ \E f : IsWalk(f, m)
  BY <1>3
<1>5. CASE m = 0
  <2> DEFINE f == [w \in 0..m |-> s]
  <2>1. IsWalk(f, m)
    BY <1>5
  <2> QED
    BY <1>4, <2>1
<1>6. CASE m # 0
  <2>1. m - 1 \in Nat /\ m - 1 \notin bad
    BY <1>3, <1>4, <1>6
  <2>2. PICK g : IsWalk(g, m - 1)
    BY <2>1
  <2> DEFINE last == Step(g[m - 1], m)
             f == [w \in 0..m |-> IF w = m THEN last ELSE g[w]]
  <2>3. \A w \in 0..(m - 1) : g[w] = IF w = 0 THEN s ELSE Step(g[w - 1], w)
    BY <2>2
  <2> HIDE DEF last
  <2>4. \A w \in 0..m : f[w] = IF w = m THEN last ELSE g[w]
    OBVIOUS
  <2>5. \A w \in 0..m : f[w] = IF w = 0 THEN s ELSE Step(f[w - 1], w)
    <3> SUFFICES ASSUME NEW w \in 0..m
                 PROVE  f[w] = IF w = 0 THEN s ELSE Step(f[w - 1], w)
      OBVIOUS
    <3>1. CASE w = m
      <4>1. m - 1 \in 0..m /\ f[m - 1] = g[m - 1] /\ f[w] = last
        BY <1>4, <1>6, <2>4, <3>1
      <4> QED
        BY <1>6, <3>1, <4>1 DEF last
    <3>2. CASE w # m /\ w # 0
      <4>1. w \in 0..(m - 1) /\ w - 1 \in 0..m /\ w - 1 # m
        BY <1>4, <3>2
      <4>2. f[w] = g[w] /\ f[w - 1] = g[w - 1]
        BY <2>4, <3>2, <4>1
      <4> QED
        BY <2>3, <3>2, <4>1, <4>2
    <3>3. CASE w # m /\ w = 0
      BY <1>4, <2>3, <2>4, <3>3
    <3> QED
      BY <3>1, <3>2, <3>3
  <2>6. f = [w \in 0..m |-> f[w]]
    OBVIOUS
  <2> HIDE DEF f
  <2>7. IsWalk(f, m)
    BY <2>5, <2>6
  <2> QED
    BY <1>4, <2>7
<1> QED
  BY <1>5, <1>6

\* materialize_full_season and ensure_upcoming_rounds: one window after the
\* other, turns appear and those that count stay.
LEMMA MaterializeAllKeeps ==
  ASSUME fixture \in [Fixtures -> FixtureRows], NEW s, Good(s), NEW ws,
         NEW persistSkipped \in BOOLEAN, NEW autoOpen \in BOOLEAN
  PROVE  LET t == MaterializeAll(s, ws, persistSkipped, autoOpen)
         IN  Good(t) /\ Grows(s, t)
<1> DEFINE upTo[w \in 0..Windows] ==
             IF w = 0 THEN s
             ELSE IF w \in ws THEN Materialize(upTo[w - 1], w, persistSkipped, autoOpen)
                              ELSE upTo[w - 1]
           t == MaterializeAll(s, ws, persistSkipped, autoOpen)
           Fine(u) == Good(u) /\ Grows(s, u)
           bad == {k \in 0..Windows : ~Fine(upTo[k])}
<1>1. t = upTo[Windows]
  BY DEF MaterializeAll
<1>2. upTo = [w \in 0..Windows |->
        IF w = 0 THEN s
        ELSE IF w \in ws THEN Materialize(upTo[w - 1], w, persistSkipped, autoOpen)
                         ELSE upTo[w - 1]]
  BY WalkDefined, TurnsAssumption
<1> HIDE DEF upTo
<1>3. Windows \in Nat
  BY TurnsAssumption
<1>4. /\ upTo[0] = s
      /\ \A w \in 1..Windows :
           upTo[w] = IF w \in ws THEN Materialize(upTo[w - 1], w, persistSkipped, autoOpen)
                                 ELSE upTo[w - 1]
  BY <1>2, <1>3
<1>5. bad = {}
  <2> SUFFICES ASSUME bad # {}
               PROVE  FALSE
    OBVIOUS
  <2>1. PICK m \in bad : \A k \in bad : m <= k
    <3>1. bad \in SUBSET Nat
      BY <1>3
    <3> HIDE DEF bad
    <3> QED
      BY <3>1, SmallestOf
  <2>2. m \in 0..Windows /\ ~Fine(upTo[m])
    BY <2>1
  <2>3. CASE m = 0
    BY <1>4, <2>2, <2>3 DEF Grows, ResultsStay, SameRow
  <2>4. CASE m # 0
    <3>1. m \in 1..Windows /\ m - 1 \in 0..Windows /\ m - 1 \notin bad
      BY <1>3, <2>1, <2>2, <2>4
    <3>2. Fine(upTo[m - 1])
      BY <3>1
    <3>3. CASE m \in ws
      <4>1. upTo[m] = Materialize(upTo[m - 1], m, persistSkipped, autoOpen)
        BY <1>4, <3>1, <3>3
      <4>2. Good(upTo[m]) /\ Grows(upTo[m - 1], upTo[m])
        BY <3>1, <3>2, <4>1, MaterializeKeeps DEF Window
      <4> QED
        BY <2>2, <3>2, <4>2, GrowsOn
    <3>4. CASE m \notin ws
      BY <1>4, <2>2, <3>1, <3>2, <3>4
    <3> QED
      BY <3>3, <3>4
  <2> QED
    BY <2>3, <2>4
<1>6. Fine(upTo[Windows])
  BY <1>3, <1>5
<1> QED
  BY <1>1, <1>6

-----------------------------------------------------------------------------
(* Pruning and the whole season *)

\* _prune_unplayable_rounds: a turn that goes was provisional and unplayed.
LEMMA PruneKeeps ==
  ASSUME NEW s, Good(s)
  PROVE  LET t == Prune(s)
         IN  /\ Good(t) /\ ResultsStay(s, t)
             /\ \A w \in Window : t.turn[w].status = "absent" \/ SameRow(s.turn[w], t.turn[w])
<1> DEFINE gone == Prunable(s)
           turn2 == [w \in Window |-> IF w \in gone THEN NoTurn ELSE s.turn[w]]
           link2 == [w \in Window |-> IF w \in gone THEN [f \in Fixtures |-> "none"] ELSE s.link[w]]
           u == [s EXCEPT !.turn = turn2, !.link = link2]
           t == Prune(s)
<1>1. s \in TablesType(Nat) /\ Apart(s) /\ VacantIsUndated(s) /\ DaysNumbered(s)
  BY DEF Good
<1>2. t = IF gone = {} THEN s ELSE Renumber(u)
  BY DEF Prune
<1> HIDE DEF gone
<1>3. NoTurn \in Rows(Nat)
  BY DEF NoTurn, Rows
<1>4. turn2 \in [Window -> Rows(Nat)] /\ link2 \in [Window -> [Fixtures -> {"none", "active", "excluded"}]]
  BY <1>1, <1>3 DEF TablesType
<1>5. \A w \in Window : turn2[w] = NoTurn \/ turn2[w] = s.turn[w]
  OBVIOUS
<1>6. \A w \in Window : {f \in Fixtures : link2[w][f] = "active"} \subseteq Active(s, w)
  BY DEF Active
<1> HIDE DEF turn2, link2
<1>7. u \in TablesType(Nat) /\ u.turn = turn2 /\ u.link = link2 /\ u.day = s.day
  BY <1>1, <1>4 DEF TablesType
<1> HIDE DEF u
<1>8. Apart(u)
  BY <1>1, <1>6, <1>7 DEF Apart, Active
<1>9. CASE gone = {}
  BY <1>2, <1>9 DEF ResultsStay, SameRow
<1>10. CASE gone # {}
  <2>1. t = Renumber(u)
    BY <1>2, <1>10
  <2> HIDE DEF t
  <2>2. /\ t \in TablesType(Nat) /\ Numbered(t) /\ t.link = u.link
        /\ DaysNumbered(t) /\ ResultsStay(u, t)
        /\ \A w \in Window : SameRow(u.turn[w], t.turn[w])
    BY <2>1, <1>1, <1>7, RenumberKeeps DEF DaysNumbered
  <2>3. Apart(t)
    BY <2>2, <1>8, ApartByLinks
  <2>4. \A w \in Window : (t.turn[w].status = "absent" /\ t.turn[w].cutoff = None)
                          \/ SameRow(s.turn[w], t.turn[w])
    BY <2>2, <1>5, <1>7 DEF SameRow, NoTurn
  <2>5. VacantIsUndated(t)
    BY <2>4, <1>1 DEF VacantIsUndated, SameRow, Vacant
  <2>6. ResultsStay(s, t)
    BY <2>2, <1>7 DEF ResultsStay
  <2> QED
    BY <2>2, <2>3, <2>4, <2>5, <2>6 DEF Good, t
<1> QED
  BY <1>9, <1>10

LEMMA FullSeasonKeeps ==
  ASSUME fixture \in [Fixtures -> FixtureRows], NEW s, Good(s),
         NEW persistSkipped \in BOOLEAN, NEW autoOpen \in BOOLEAN
  PROVE  LET t == FullSeason(s, persistSkipped, autoOpen)
         IN  Good(t) /\ Settles(s, t)
<1> DEFINE u == MaterializeAll(s, SeasonWindows, persistSkipped, autoOpen)
           t == FullSeason(s, persistSkipped, autoOpen)
<1>1. Good(u) /\ Grows(s, u)
  BY MaterializeAllKeeps
<1>2. t = Prune(u)
  BY DEF FullSeason
<1> HIDE DEF u, t
<1>3. /\ Good(t) /\ ResultsStay(u, t)
      /\ \A w \in Window : t.turn[w].status = "absent" \/ SameRow(u.turn[w], t.turn[w])
  BY <1>1, <1>2, PruneKeeps
<1>4. Settles(s, t)
  BY <1>1, <1>3 DEF Settles, Grows, ResultsStay, SameRow
<1> QED
  BY <1>3, <1>4 DEF t

-----------------------------------------------------------------------------
(* Cut-offs *)

\* _reconcile_cutoff, for a turn that counts.
LEMMA ReconciledKeeps ==
  ASSUME fixture \in [Fixtures -> FixtureRows], now \in Nat,
         NEW s \in TablesType(Nat), NEW w \in Window
  PROVE  LET row == Reconciled(s, w)
             old == s.turn[w]
         IN  /\ row \in Rows(Nat) /\ CutoffStays(old, row)
             /\ row.number = old.number /\ row.verdict = old.verdict /\ row.entered = old.entered
             /\ row.status = old.status \/ (old.status = "open" /\ row.status = "locked")
<1> DEFINE old == s.turn[w]
           kickoffs == {fixture[f].kickoff : f \in {g \in Active(s, w) : CountsForCutoff(g)}}
           cutoff == ApplyCutoff(old.cutoff, ComputeCutoff(kickoffs))
           dated == [old EXCEPT !.cutoff = cutoff]
           row == Reconciled(s, w)
<1>1. old \in Rows(Nat)
  BY DEF TablesType
<1>2. kickoffs \in SUBSET Nat
  BY DEF Active, CountsForCutoff, FixtureRows
<1>3. row = [dated EXCEPT !.status = EffectiveStatus(dated)]
  BY DEF Reconciled
<1> HIDE DEF kickoffs
<1>4. ComputeCutoff(kickoffs) \in Nat \cup {None}
  BY <1>2, CutoffType
<1>5. /\ cutoff \in Nat \cup {None}
      /\ Passed(old.cutoff) => cutoff # None /\ cutoff <= old.cutoff
  BY <1>1, <1>4, AppliedCutoff DEF Rows
<1> HIDE DEF cutoff, old
<1>6. dated \in Rows(Nat) /\ dated.cutoff = cutoff /\ dated.number = old.number
      /\ dated.verdict = old.verdict /\ dated.entered = old.entered /\ dated.status = old.status
  BY <1>1, <1>5 DEF Rows
<1> HIDE DEF dated
<1>7. EffectiveStatus(dated) = dated.status
      \/ (dated.status = "open" /\ EffectiveStatus(dated) = "locked")
  BY DEF EffectiveStatus
<1>8. row \in Rows(Nat) /\ row.cutoff = cutoff /\ row.number = old.number
      /\ row.verdict = old.verdict /\ row.entered = old.entered /\ row.status = EffectiveStatus(dated)
  BY <1>3, <1>6, <1>7 DEF Rows
<1> HIDE DEF row
<1> QED
  BY <1>5, <1>6, <1>7, <1>8 DEF CutoffStays, row, old

LEMMA ReconcileKeeps ==
  ASSUME fixture \in [Fixtures -> FixtureRows], now \in Nat,
         NEW s, Good(s), NEW w \in Window, ~Vacant(s.turn[w])
  PROVE  LET t == Reconcile(s, w)
         IN  /\ Good(t) /\ CutoffsStay(s, t) /\ t.day = s.day /\ t.link = s.link
             /\ \A v \in Window : /\ CutoffStays(s.turn[v], t.turn[v])
                                  /\ t.turn[v].verdict = s.turn[v].verdict
             /\ t.turn[w].status = s.turn[w].status
                \/ (s.turn[w].status = "open" /\ t.turn[w].status = "locked")
<1> DEFINE row == Reconciled(s, w)
           turn2 == [s.turn EXCEPT ![w] = row]
           t == Reconcile(s, w)
<1>1. s \in TablesType(Nat) /\ s.turn \in [Window -> Rows(Nat)]
  BY DEF Good, TablesType
<1>2. /\ row \in Rows(Nat) /\ CutoffStays(s.turn[w], row)
      /\ row.number = s.turn[w].number /\ row.verdict = s.turn[w].verdict
      /\ row.status = s.turn[w].status \/ (s.turn[w].status = "open" /\ row.status = "locked")
  BY <1>1, ReconciledKeeps
<1>3. t = [s EXCEPT !.turn = turn2]
  BY DEF Reconcile
<1> HIDE DEF row
<1>4. turn2 \in [Window -> Rows(Nat)] /\ turn2[w] = row /\ \A v \in Window \ {w} : turn2[v] = s.turn[v]
  BY <1>1, <1>2
<1> HIDE DEF turn2
<1>5. t \in TablesType(Nat) /\ t.turn = turn2 /\ t.link = s.link /\ t.day = s.day
  BY <1>1, <1>3, <1>4 DEF TablesType
<1> HIDE DEF t
<1>6. Good(t)
  BY <1>2, <1>4, <1>5, StatusChange DEF Vacant
<1>7. \A v \in Window : CutoffStays(s.turn[v], t.turn[v])
  <2> SUFFICES ASSUME NEW v \in Window
               PROVE  CutoffStays(s.turn[v], t.turn[v])
    OBVIOUS
  <2>1. CASE v = w
    BY <2>1, <1>2, <1>4, <1>5
  <2>2. CASE v # w
    <3>1. t.turn[v] = s.turn[v] /\ s.turn[v].cutoff \in Nat \cup {None}
      BY <2>2, <1>1, <1>4, <1>5 DEF Rows
    <3> QED
      BY <3>1 DEF CutoffStays, Passed
  <2> QED
    BY <2>1, <2>2
<1> QED
  BY <1>2, <1>4, <1>5, <1>6, <1>7 DEF t, CutoffsStay

\* _reconcile_existing_rounds
LEMMA ReconcileExistingKeeps ==
  ASSUME fixture \in [Fixtures -> FixtureRows], now \in Nat, NEW s, Good(s)
  PROVE  LET t == ReconcileExisting(s)
         IN  /\ Good(t) /\ t.day = s.day
             /\ \A w \in Window : /\ CutoffStays(s.turn[w], t.turn[w])
                                  /\ t.turn[w].status = "absent" <=> s.turn[w].status = "absent"
<1> DEFINE turn2 == [w \in Window |-> IF w \in European(s) THEN Reconciled(s, w) ELSE s.turn[w]]
           t == ReconcileExisting(s)
<1>1. s \in TablesType(Nat) /\ s.turn \in [Window -> Rows(Nat)]
  BY DEF Good, TablesType
<1>2. t = [s EXCEPT !.turn = turn2]
  BY DEF ReconcileExisting
<1>3. \A w \in Window :
        /\ turn2[w] \in Rows(Nat) /\ CutoffStays(s.turn[w], turn2[w])
        /\ turn2[w].number = s.turn[w].number
        /\ \/ turn2[w].status = s.turn[w].status
           \/ s.turn[w].status = "open" /\ turn2[w].status = "locked"
        /\ Vacant(s.turn[w]) => turn2[w].cutoff = s.turn[w].cutoff
  <2> SUFFICES ASSUME NEW w \in Window
               PROVE  /\ turn2[w] \in Rows(Nat) /\ CutoffStays(s.turn[w], turn2[w])
                      /\ turn2[w].number = s.turn[w].number
                      /\ \/ turn2[w].status = s.turn[w].status
                         \/ s.turn[w].status = "open" /\ turn2[w].status = "locked"
                      /\ Vacant(s.turn[w]) => turn2[w].cutoff = s.turn[w].cutoff
    OBVIOUS
  <2>1. CASE w \in European(s)
    <3>1. turn2[w] = Reconciled(s, w) /\ ~Vacant(s.turn[w])
      BY <2>1 DEF European, Vacant
    <3> HIDE DEF turn2
    <3> QED
      BY <3>1, <1>1, ReconciledKeeps
  <2>2. CASE w \notin European(s)
    <3>1. turn2[w] = s.turn[w] /\ s.turn[w] \in Rows(Nat)
      BY <2>2, <1>1
    <3> HIDE DEF turn2
    <3>2. s.turn[w].cutoff \in Nat \cup {None}
      BY <3>1 DEF Rows
    <3> QED
      BY <3>1, <3>2 DEF CutoffStays, Passed
  <2> QED
    BY <2>1, <2>2
<1>4. turn2 = [w \in Window |-> turn2[w]]
  OBVIOUS
<1> HIDE DEF turn2
<1>5. turn2 \in [Window -> Rows(Nat)]
  BY <1>3, <1>4
<1>6. t \in TablesType(Nat) /\ t.turn = turn2 /\ t.link = s.link /\ t.day = s.day
  BY <1>1, <1>2, <1>5 DEF TablesType
<1> HIDE DEF t
<1>7. Good(t)
  BY <1>3, <1>6, StatusChange DEF Vacant
<1> QED
  BY <1>3, <1>6, <1>7 DEF t

-----------------------------------------------------------------------------
(* Verdict and calculation *)

\* try_open_next_round and try_conclude_league touch no cut-off and no day.
LEMMA HomologatedKeeps ==
  ASSUME NEW s, Good(s), NEW w \in Window
  PROVE  LET t == Homologated(s, w)
         IN  Good(t) /\ t.day = s.day /\ \A v \in Window : t.turn[v].cutoff = s.turn[v].cutoff
<1> DEFINE row == [s.turn[w] EXCEPT !.verdict = "homologated"]
           turn2 == [s.turn EXCEPT ![w] = row]
           u == [s EXCEPT !.turn = turn2]
           number == s.turn[w].number
           turn3 == [v \in Window |-> IF v \in Present(u) /\ u.turn[v].number = number + 1
                                      THEN AutoOpened(u.turn[v]) ELSE u.turn[v]]
           opened == [u EXCEPT !.turn = turn3]
           t == Homologated(s, w)
<1>1. s \in TablesType(Nat) /\ s.turn \in [Window -> Rows(Nat)]
  BY DEF Good, TablesType
<1>2. [s EXCEPT !.turn[w].verdict = "homologated"] = u
  BY <1>1 DEF TablesType, Rows
<1>3. t = TryConclude(TryOpenNext(u, number))
  BY <1>2 DEF Homologated
<1>4. TryOpenNext(u, number) = opened
  BY DEF TryOpenNext
<1>5. /\ row \in Rows(Nat) /\ row.status = s.turn[w].status /\ row.number = s.turn[w].number
      /\ row.cutoff = s.turn[w].cutoff
  BY <1>1 DEF Rows
<1> HIDE DEF row
<1>6. turn2 \in [Window -> Rows(Nat)] /\ turn2[w] = row /\ \A v \in Window \ {w} : turn2[v] = s.turn[v]
  BY <1>1, <1>5
<1> HIDE DEF turn2
<1>7. u \in TablesType(Nat) /\ u.turn = turn2 /\ u.link = s.link /\ u.day = s.day
  BY <1>1, <1>6 DEF TablesType
<1> HIDE DEF u, number
<1>8. \A v \in Window :
        /\ turn3[v] \in Rows(Nat) /\ turn3[v].number = turn2[v].number
        /\ turn3[v].cutoff = turn2[v].cutoff
        /\ \/ turn3[v].status = turn2[v].status
           \/ turn2[v].status = "scheduled" /\ turn3[v].status = "open"
  <2> SUFFICES ASSUME NEW v \in Window
               PROVE  /\ turn3[v] \in Rows(Nat) /\ turn3[v].number = turn2[v].number
                      /\ turn3[v].cutoff = turn2[v].cutoff
                      /\ \/ turn3[v].status = turn2[v].status
                         \/ turn2[v].status = "scheduled" /\ turn3[v].status = "open"
    OBVIOUS
  <2>1. turn3[v] = turn2[v] \/ turn3[v] = AutoOpened(turn2[v])
    BY <1>7
  <2>2. turn2[v] \in Rows(Nat)
    BY <1>6
  <2> HIDE DEF turn3
  <2> QED
    BY <2>1, <2>2, AutoOpenedKeeps
<1>9. turn3 = [v \in Window |-> turn3[v]]
  OBVIOUS
<1> HIDE DEF turn3
<1>10. turn3 \in [Window -> Rows(Nat)]
  BY <1>8, <1>9
<1>11. opened \in TablesType(Nat) /\ opened.turn = turn3 /\ opened.link = s.link /\ opened.day = s.day
  BY <1>7, <1>10 DEF TablesType
<1> HIDE DEF opened
<1>12. t = opened \/ t = [opened EXCEPT !.league = "concluded"]
  BY <1>3, <1>4 DEF TryConclude
<1> HIDE DEF t
<1>13. t \in TablesType(Nat) /\ t.turn = turn3 /\ t.link = s.link /\ t.day = s.day
  BY <1>11, <1>12 DEF TablesType
<1>14. Good(t)
  BY <1>5, <1>6, <1>8, <1>13, StatusChange DEF Vacant
<1> QED
  BY <1>5, <1>6, <1>8, <1>13, <1>14 DEF t

\* calculate_round, on a turn: no cut-off and no other day.
LEMMA CalculatedKeeps ==
  ASSUME NEW s, Good(s), NEW w \in Window, NEW allResolved \in BOOLEAN
  PROVE  LET t == Calculated(s, w, allResolved)
         IN  /\ Good(t) /\ \A v \in Window : t.turn[v].cutoff = s.turn[v].cutoff
             /\ \A v \in Window \ {w} : t.day[v] = s.day[v]
<1> DEFINE entered == s.turn[w].entered \/ Finished(s, w)
           complete == w \in Days(s) /\ entered /\ (allResolved \/ Finished(s, w))
           final == complete /\ FinalData(s, w)
           result == IF final THEN "final" ELSE IF complete THEN "partial" ELSE s.day[w].result
           row == [s.turn[w] EXCEPT !.entered = entered]
           dayRow == [s.day[w] EXCEPT !.result = result]
           turn2 == [s.turn EXCEPT ![w] = row]
           day2 == [s.day EXCEPT ![w] = dayRow]
           u == [s EXCEPT !.turn = turn2, !.day = day2]
           t == Calculated(s, w, allResolved)
<1>1. /\ s \in TablesType(Nat) /\ s.turn \in [Window -> Rows(Nat)]
      /\ s.day \in [Window -> [number : Nat, result : Results]] /\ DaysNumbered(s)
  BY DEF Good, TablesType
<1>2. [s EXCEPT !.turn[w].entered = entered,
                !.day[w].result = IF final THEN "final" ELSE IF complete THEN "partial" ELSE @] = u
  <2> HIDE DEF entered, complete, final
  <2>1. [s.day EXCEPT ![w].result = IF final THEN "final" ELSE IF complete THEN "partial" ELSE @] = day2
    BY <1>1
  <2>2. [s.turn EXCEPT ![w].entered = entered] = turn2
    BY <1>1
  <2> HIDE DEF day2, turn2
  <2> QED
    BY <1>1, <2>1, <2>2 DEF TablesType
<1>3. t = IF final THEN Homologated(u, w) ELSE u
  BY <1>2 DEF Calculated
<1>4. entered \in BOOLEAN
  OBVIOUS
<1>5. complete => s.day[w].number # 0
  BY DEF Days
<1> HIDE DEF entered, complete, FinalData
<1>6. row \in Rows(Nat) /\ SameRow([s.turn[w] EXCEPT !.entered = entered], row)
      /\ row.status = s.turn[w].status /\ row.number = s.turn[w].number /\ row.cutoff = s.turn[w].cutoff
  BY <1>1, <1>4 DEF Rows, SameRow
<1>7. dayRow \in [number : Nat, result : Results] /\ (dayRow.number = 0 => dayRow.result = "none")
  BY <1>1, <1>5 DEF Results, DaysNumbered
<1> HIDE DEF row, dayRow, final
<1>8. /\ turn2 \in [Window -> Rows(Nat)] /\ turn2[w] = row
      /\ \A v \in Window \ {w} : turn2[v] = s.turn[v]
      /\ day2 \in [Window -> [number : Nat, result : Results]] /\ day2[w] = dayRow
      /\ \A v \in Window \ {w} : day2[v] = s.day[v]
  BY <1>1, <1>6, <1>7
<1> HIDE DEF turn2, day2
<1>9. u \in TablesType(Nat) /\ u.turn = turn2 /\ u.link = s.link /\ u.day = day2
  BY <1>1, <1>8 DEF TablesType
<1> HIDE DEF u
<1>10. Good(u)
  <2>1. Present(u) = Present(s)
    BY <1>6, <1>8, <1>9 DEF Present
  <2>2. Numbered(u)
    BY <2>1, <1>6, <1>8, <1>9 DEF Good, Numbered, Present
  <2>3. Apart(u)
    BY <1>9, ApartByLinks DEF Good
  <2>4. VacantIsUndated(u)
    BY <1>6, <1>8, <1>9 DEF Good, VacantIsUndated, Vacant
  <2>5. DaysNumbered(u)
    BY <1>1, <1>7, <1>8, <1>9 DEF DaysNumbered
  <2> QED
    BY <1>9, <2>2, <2>3, <2>4, <2>5 DEF Good
<1>11. \A v \in Window : u.turn[v].cutoff = s.turn[v].cutoff
  BY <1>6, <1>8, <1>9
<1>12. \A v \in Window \ {w} : u.day[v] = s.day[v]
  BY <1>8, <1>9
<1>13. /\ Good(Homologated(u, w)) /\ Homologated(u, w).day = u.day
       /\ \A v \in Window : Homologated(u, w).turn[v].cutoff = u.turn[v].cutoff
  BY <1>10, HomologatedKeeps
<1> HIDE DEF t
<1>14. Good(t) /\ t.day = u.day /\ \A v \in Window : t.turn[v].cutoff = u.turn[v].cutoff
  BY <1>3, <1>10, <1>13
<1> QED
  BY <1>11, <1>12, <1>14 DEF t

-----------------------------------------------------------------------------
(* The calendar *)

\* A calendar is generated only while no day has a result (generate_calendar).
LEMMA GeneratedKeeps ==
  ASSUME NEW s, Good(s), ~HasResults(s)
  PROVE  LET t == Generated(s)
         IN  Good(t) /\ t.turn = s.turn /\ \A w \in Window : s.day[w].result = "none"
<1> DEFINE day2 == [w \in Window |-> IF w \in Playable(s)
                      THEN [number |-> s.turn[w].number, result |-> "none"] ELSE NoDay]
           t == Generated(s)
<1>1. s \in TablesType(Nat) /\ DaysNumbered(s)
  BY DEF Good
<1>2. \A w \in Window : s.turn[w].number \in Nat
  BY <1>1 DEF TablesType, Rows
<1>3. t = [s EXCEPT !.day = day2]
  BY DEF Generated
<1>4. /\ day2 \in [Window -> [number : Nat, result : Results]]
      /\ \A w \in Window : day2[w].result = "none"
  BY <1>2 DEF NoDay, Results
<1> HIDE DEF day2
<1>5. t \in TablesType(Nat) /\ t.turn = s.turn /\ t.link = s.link /\ t.day = day2
  BY <1>1, <1>3, <1>4 DEF TablesType
<1> HIDE DEF t
<1>6. Good(t)
  BY <1>4, <1>5, ApartByLinks DEF Good, Numbered, Present, VacantIsUndated, DaysNumbered
<1>7. \A w \in Window : s.day[w].result = "none"
  BY <1>1 DEF HasResults, Days, DaysNumbered
<1> QED
  BY <1>5, <1>6, <1>7 DEF t

\* extend_to_european_turns: a window that has a day keeps it.
LEMMA ExtendedKeeps ==
  ASSUME NEW s, Good(s), MayExtend(s)
  PROVE  LET t == Extended(s)
         IN  Good(t) /\ t.turn = s.turn /\ ResultsStay(s, t)
<1> DEFINE day2 == [w \in Window |-> IF w \in Missing(s)
                      THEN [number |-> s.turn[w].number, result |-> "none"] ELSE s.day[w]]
           t == Extended(s)
<1>1. s \in TablesType(Nat) /\ DaysNumbered(s)
  BY DEF Good
<1>2. \A w \in Window : s.turn[w].number \in Nat /\ s.day[w] \in [number : Nat, result : Results]
  BY <1>1 DEF TablesType, Rows
<1>3. t = [s EXCEPT !.day = day2]
  BY DEF Extended
<1>4. \A w \in Missing(s) : s.day[w].number = 0 \/ w \notin Window
  BY DEF MayExtend, Days
<1>5. \A w \in Window : /\ day2[w] \in [number : Nat, result : Results]
                        /\ day2[w].number = 0 => day2[w].result = "none"
                        /\ s.day[w].result # "none" => day2[w].result = s.day[w].result
  BY <1>1, <1>2, <1>4 DEF Results, DaysNumbered
<1>6. day2 = [w \in Window |-> day2[w]]
  OBVIOUS
<1> HIDE DEF day2
<1>7. day2 \in [Window -> [number : Nat, result : Results]]
  BY <1>5, <1>6
<1>8. t \in TablesType(Nat) /\ t.turn = s.turn /\ t.link = s.link /\ t.day = day2
  BY <1>1, <1>3, <1>7 DEF TablesType
<1> HIDE DEF t
<1>9. Good(t)
  BY <1>5, <1>8, ApartByLinks DEF Good, Numbered, Present, VacantIsUndated, DaysNumbered
<1> QED
  BY <1>5, <1>8, <1>9 DEF t, ResultsStay

-----------------------------------------------------------------------------
(* What a step leaves *)

\* The final result of a turn that stays homologated stays.
Frozen(s, t) ==
  \A w \in Window :
    s.turn[w].verdict = "homologated" /\ t.turn[w].verdict = "homologated" /\ s.day[w].result = "final"
      => t.day[w].result = "final"

\* What a handler may write.
Sound(s) == Good(s) /\ CutoffsStay(Tables, s) /\ Frozen(Tables, s)

LEMMA SaveIs ==
  ASSUME NEW s, Good(s), Save(s)
  PROVE  Tables' = s
<1>1. s \in [turn : [Window -> Rows(Nat)],
             link : [Window -> [Fixtures -> {"none", "active", "excluded"}]],
             day : [Window -> [number : Nat, result : Results]],
             league : {"auction", "active", "concluded"}]
  BY DEF Good, TablesType
<1>2. turn' = s.turn /\ link' = s.link /\ day' = s.day /\ league' = s.league
  BY DEF Save
<1> QED
  BY <1>1, <1>2 DEF Tables

LEMMA ResultsAreFrozen ==
  ASSUME NEW s, NEW t, ResultsStay(s, t)
  PROVE  Frozen(s, t)
BY DEF ResultsStay, Frozen

LEMMA SameCutoffsStay ==
  ASSUME now \in Nat, NEW s, Good(s), NEW t, \A w \in Window : t.turn[w].cutoff = s.turn[w].cutoff
  PROVE  CutoffsStay(s, t)
<1>1. \A w \in Window : s.turn[w].cutoff \in Nat \cup {None}
  BY DEF Good, TablesType, Rows
<1> QED
  BY <1>1 DEF CutoffsStay, CutoffStays, Passed

LEMMA SettledCutoffsStay ==
  ASSUME now \in Nat, NEW s, Good(s), NEW t, Settles(s, t)
  PROVE  CutoffsStay(s, t)
<1>1. \A w \in Window : s.turn[w].cutoff \in Nat \cup {None}
  BY DEF Good, TablesType, Rows
<1>2. \A w \in Window : Vacant(s.turn[w]) => ~Passed(s.turn[w].cutoff)
  BY DEF Good, VacantIsUndated, Passed
<1> QED
  BY <1>1, <1>2 DEF CutoffsStay, CutoffStays, Passed, Settles, SameRow

LEMMA GrowsSettles ==
  ASSUME NEW s, NEW t, Grows(s, t)
  PROVE  Settles(s, t)
BY DEF Grows, Settles

LEMMA CutoffStaysOn ==
  ASSUME now \in Nat, NEW old \in Rows(Nat), NEW mid \in Rows(Nat), NEW new \in Rows(Nat),
         CutoffStays(old, mid), CutoffStays(mid, new)
  PROVE  CutoffStays(old, new)
BY TurnsAssumption DEF CutoffStays, Passed, Rows

LEMMA CutoffsStayOn ==
  ASSUME now \in Nat, NEW s, Good(s), NEW t, Good(t), NEW u, Good(u), CutoffsStay(s, t),
         \A w \in Window : /\ CutoffStays(t.turn[w], u.turn[w])
                           /\ t.turn[w].status = "absent" => u.turn[w].status = "absent"
  PROVE  CutoffsStay(s, u)
<1>1. \A w \in Window : s.turn[w] \in Rows(Nat) /\ t.turn[w] \in Rows(Nat) /\ u.turn[w] \in Rows(Nat)
  BY DEF Good, TablesType
<1> QED
  BY <1>1, CutoffStaysOn DEF CutoffsStay

\* A row that is edited in place, in what neither its number nor its cut-off
\* depends on.
LEMMA EditKeeps ==
  ASSUME NEW s, Good(s), NEW w \in Window, NEW row \in Rows(Nat),
         row.number = s.turn[w].number, row.cutoff = s.turn[w].cutoff,
         Vacant(row) <=> Vacant(s.turn[w]), row.status = "absent" <=> s.turn[w].status = "absent"
  PROVE  LET t == [s EXCEPT !.turn[w] = row]
         IN  /\ Good(t) /\ t.day = s.day /\ t.link = s.link /\ t.turn[w] = row
             /\ \A v \in Window \ {w} : t.turn[v] = s.turn[v]
             /\ \A v \in Window : t.turn[v].cutoff = s.turn[v].cutoff
<1> DEFINE turn2 == [s.turn EXCEPT ![w] = row]
           t == [s EXCEPT !.turn = turn2]
<1>1. s \in TablesType(Nat) /\ s.turn \in [Window -> Rows(Nat)]
  BY DEF Good, TablesType
<1>2. [s EXCEPT !.turn[w] = row] = t
  BY <1>1 DEF TablesType
<1>3. turn2 \in [Window -> Rows(Nat)] /\ turn2[w] = row /\ \A v \in Window \ {w} : turn2[v] = s.turn[v]
  BY <1>1
<1> HIDE DEF turn2
<1>4. t \in TablesType(Nat) /\ t.turn = turn2 /\ t.link = s.link /\ t.day = s.day
  BY <1>1, <1>3 DEF TablesType
<1> HIDE DEF t
<1>5. Good(t)
  BY <1>3, <1>4, StatusChange
<1> QED
  BY <1>2, <1>3, <1>4, <1>5

LEMMA TablesRow ==
  ASSUME TurnsInv, NEW w \in Window
  PROVE  /\ Tables \in TablesType(Nat) /\ Tables.turn = turn /\ Tables.link = link /\ Tables.day = day
         /\ turn[w] \in Rows(Nat) /\ turn \in [Window -> Rows(Nat)]
BY DEF TurnsInv, Good, TablesType, Tables

-----------------------------------------------------------------------------
(* The handlers, one by one *)

LEMMA SubmitLineupSound ==
  ASSUME TurnsInv, NEW w \in Window, SubmitLineup(w)
  PROVE  Sound(Tables')
<1> DEFINE row == [turn[w] EXCEPT !.entered = TRUE]
           edited == [Tables EXCEPT !.turn[w] = row]
           s == Reconcile(edited, w)
<1>1. Good(Tables) /\ fixture \in [Fixtures -> FixtureRows] /\ now \in Nat
  BY DEF TurnsInv
<1>2. row \in Rows(Nat) /\ SameRow([turn[w] EXCEPT !.entered = TRUE], row)
      /\ row.number = turn[w].number /\ row.cutoff = turn[w].cutoff /\ row.status = turn[w].status
  BY TablesRow DEF Rows, SameRow
<1>3. [Tables EXCEPT !.turn[w].entered = TRUE] = edited
  BY TablesRow DEF TablesType, Rows
<1>4. Save(s)
  BY <1>3 DEF SubmitLineup
<1> HIDE DEF row
<1>5. /\ Good(edited) /\ edited.day = day /\ edited.turn[w] = row
      /\ \A v \in Window : edited.turn[v].cutoff = turn[v].cutoff
  BY <1>1, <1>2, TablesRow, EditKeeps DEF Vacant
<1> HIDE DEF edited
<1>6. ~Vacant(edited.turn[w])
  BY <1>2, <1>5 DEF Vacant, SubmitLineup
<1>7. Good(s) /\ CutoffsStay(edited, s) /\ s.day = edited.day
  BY <1>1, <1>5, <1>6, ReconcileKeeps
<1> HIDE DEF s
<1>8. Tables' = s
  BY <1>4, <1>7, SaveIs
<1>9. CutoffsStay(Tables, s) /\ Frozen(Tables, s)
  BY <1>5, <1>7, TablesRow DEF CutoffsStay, CutoffStays, Frozen
<1> QED
  BY <1>7, <1>8, <1>9 DEF Sound

\* Parts that only make and drop turns.
LEMMA SettledSound ==
  ASSUME TurnsInv, NEW s, Good(s), Settles(Tables, s)
  PROVE  Sound(s)
BY SettledCutoffsStay, ResultsAreFrozen DEF TurnsInv, Sound, Settles

LEMMA MaterializeInitialSound ==
  ASSUME TurnsInv, MaterializeInitial
  PROVE  Sound(Tables')
<1> DEFINE s == FullSeason(Tables, FALSE, FALSE)
<1>1. Good(s) /\ Settles(Tables, s)
  BY FullSeasonKeeps DEF TurnsInv
<1>2. Save(s)
  BY DEF MaterializeInitial
<1> HIDE DEF s
<1> QED
  BY <1>1, <1>2, SaveIs, SettledSound

LEMMA EnsureUpcomingSound ==
  ASSUME TurnsInv, EnsureUpcoming
  PROVE  Sound(Tables')
<1> DEFINE upcoming == {w \in Window : Start(w) + WindowLength > now /\ Start(w) < now + Horizon}
           made == IF NeedsFullSeason(Tables) THEN FullSeason(Tables, FALSE, TRUE)
                   ELSE MaterializeAll(Tables, upcoming, FALSE, TRUE)
           s == ReconcileExisting(made)
<1>1. Good(Tables) /\ fixture \in [Fixtures -> FixtureRows] /\ now \in Nat
  BY DEF TurnsInv
<1>2. Save(s)
  BY DEF EnsureUpcoming
<1> HIDE DEF upcoming
<1>3. Good(made) /\ Settles(Tables, made)
  <2>1. Good(FullSeason(Tables, FALSE, TRUE)) /\ Settles(Tables, FullSeason(Tables, FALSE, TRUE))
    BY <1>1, FullSeasonKeeps
  <2>2. /\ Good(MaterializeAll(Tables, upcoming, FALSE, TRUE))
        /\ Settles(Tables, MaterializeAll(Tables, upcoming, FALSE, TRUE))
    BY <1>1, MaterializeAllKeeps, GrowsSettles
  <2> QED
    BY <2>1, <2>2
<1> HIDE DEF made
<1>4. /\ Good(s) /\ s.day = made.day
      /\ \A w \in Window : /\ CutoffStays(made.turn[w], s.turn[w])
                           /\ made.turn[w].status = "absent" => s.turn[w].status = "absent"
  BY <1>1, <1>3, ReconcileExistingKeeps
<1> HIDE DEF s
<1>5. CutoffsStay(Tables, s)
  BY <1>1, <1>3, <1>4, SettledCutoffsStay, CutoffsStayOn
<1>6. Frozen(Tables, s)
  BY <1>3, <1>4 DEF Settles, ResultsStay, Frozen
<1> QED
  BY <1>2, <1>4, <1>5, <1>6, SaveIs DEF Sound

LEMMA RefreshCalendarSound ==
  ASSUME TurnsInv, RefreshCalendar
  PROVE  Sound(Tables')
<1> DEFINE full == FullSeason(Tables, TRUE, TRUE)
           s == RealignDays(full)
<1>1. Good(Tables) /\ fixture \in [Fixtures -> FixtureRows]
  BY DEF TurnsInv
<1>2. \/ MayExtend(s) /\ Save(Extended(s))
      \/ /\ MayGenerate(s)
         /\ Save([Generated(s) EXCEPT !.league =
                    IF calendar # "draft" /\ @ = "auction" THEN "active" ELSE @])
      \/ Save(s)
  BY DEF RefreshCalendar
<1>3. Good(full) /\ Settles(Tables, full)
  BY <1>1, FullSeasonKeeps
<1> HIDE DEF full
<1>4. /\ s \in TablesType(Nat) /\ DaysNumbered(s) /\ s.turn = full.turn /\ s.link = full.link
      /\ ResultsStay(full, s)
  BY <1>3, RealignKeeps DEF Good
<1> HIDE DEF s
<1>5. Good(s)
  BY <1>3, <1>4, ApartByLinks DEF Good, Numbered, Present, VacantIsUndated
<1>6. Settles(Tables, s)
  BY <1>3, <1>4 DEF Settles, ResultsStay
<1>7. CASE MayExtend(s) /\ Save(Extended(s))
  <2>1. Good(Extended(s)) /\ Extended(s).turn = s.turn /\ ResultsStay(s, Extended(s))
    BY <1>5, <1>7, ExtendedKeeps
  <2>2. Settles(Tables, Extended(s))
    BY <1>6, <2>1 DEF Settles, ResultsStay
  <2> QED
    BY <1>7, <2>1, <2>2, SaveIs, SettledSound
<1>8. CASE /\ MayGenerate(s)
           /\ Save([Generated(s) EXCEPT !.league =
                      IF calendar # "draft" /\ @ = "auction" THEN "active" ELSE @])
  <2> DEFINE g == Generated(s)
             t == [g EXCEPT !.league = IF calendar # "draft" /\ @ = "auction" THEN "active" ELSE @]
  <2>1. Good(g) /\ g.turn = s.turn /\ \A w \in Window : s.day[w].result = "none"
    BY <1>5, <1>8, GeneratedKeeps DEF MayGenerate
  <2>2. Save(t)
    BY <1>8
  <2> HIDE DEF g
  <2>3. t \in TablesType(Nat) /\ t.turn = g.turn /\ t.link = g.link /\ t.day = g.day
    BY <2>1 DEF Good, TablesType
  <2> HIDE DEF t
  <2>4. Good(t)
    BY <2>1, <2>3, StatusChange
  <2>5. Settles(Tables, t)
    BY <1>6, <2>1, <2>3 DEF Settles, ResultsStay
  <2> QED
    BY <2>2, <2>4, <2>5, SaveIs, SettledSound
<1>9. CASE Save(s)
  BY <1>5, <1>6, <1>9, SaveIs, SettledSound
<1> QED
  BY <1>2, <1>7, <1>8, <1>9

LEMMA GenerateSound ==
  ASSUME TurnsInv, NEW w \in Window, Generate(w)
  PROVE  Sound(Tables')
<1> DEFINE s == Materialize(Tables, w, TRUE, FALSE)
<1>1. Good(s) /\ Grows(Tables, s)
  BY MaterializeKeeps DEF TurnsInv
<1>2. Save(s)
  BY DEF Generate
<1> HIDE DEF s
<1> QED
  BY <1>1, <1>2, GrowsSettles, SaveIs, SettledSound

LEMMA ReadTurnSound ==
  ASSUME TurnsInv, NEW w \in Window, ReadTurn(w)
  PROVE  Sound(Tables')
<1> DEFINE s == Reconcile(Tables, w)
<1>1. ~Vacant(Tables.turn[w])
  BY DEF ReadTurn, European, Vacant
<1>2. Good(s) /\ CutoffsStay(Tables, s) /\ s.day = Tables.day
  BY <1>1, ReconcileKeeps DEF TurnsInv
<1>3. Save(s)
  BY DEF ReadTurn
<1> HIDE DEF s
<1> QED
  BY <1>2, <1>3, SaveIs DEF Sound, Frozen

LEMMA OpenTurnSound ==
  ASSUME TurnsInv, NEW w \in Window, OpenTurn(w)
  PROVE  Sound(Tables')
<1> DEFINE s == Reconcile(Tables, w)
           row == [s.turn[w] EXCEPT !.status = "open"]
           t == [s EXCEPT !.turn[w] = row]
<1>1. turn[w].status = "scheduled" /\ ~Vacant(Tables.turn[w])
  BY DEF OpenTurn, Vacant, Tables
<1>2. /\ Good(s) /\ CutoffsStay(Tables, s) /\ s.day = Tables.day
      /\ s.turn[w].status = "scheduled"
  BY <1>1, TablesRow, ReconcileKeeps DEF TurnsInv
<1>3. Save([s EXCEPT !.turn[w].status = "open"])
  BY DEF OpenTurn
<1> HIDE DEF s
<1>4. s \in TablesType(Nat) /\ s.turn \in [Window -> Rows(Nat)]
  BY <1>2 DEF Good, TablesType
<1>5. [s EXCEPT !.turn[w].status = "open"] = t
  BY <1>4 DEF TablesType, Rows
<1>6. row \in Rows(Nat) /\ row.number = s.turn[w].number /\ row.cutoff = s.turn[w].cutoff
      /\ row.status = "open"
  BY <1>4 DEF Rows
<1> HIDE DEF row
<1>7. /\ Good(t) /\ t.day = s.day /\ t.turn[w] = row
      /\ \A v \in Window \ {w} : t.turn[v] = s.turn[v]
      /\ \A v \in Window : t.turn[v].cutoff = s.turn[v].cutoff
  <2>1. (Vacant(row) <=> Vacant(s.turn[w])) /\ (row.status = "absent" <=> s.turn[w].status = "absent")
    BY <1>2, <1>6 DEF Vacant
  <2> HIDE DEF t
  <2> QED
    BY <1>2, <1>6, <2>1, EditKeeps DEF t
<1> HIDE DEF t
<1>8. CutoffsStay(Tables, t)
  BY <1>2, <1>6, <1>7 DEF CutoffsStay, CutoffStays
<1> QED
  BY <1>2, <1>3, <1>5, <1>7, <1>8, SaveIs DEF Sound, Frozen

\* A calculation on tables that differ from the present ones in cut-offs and
\* links only, of a turn without a verdict or without a final result.
LEMMA CalculationSound ==
  ASSUME TurnsInv, NEW s, Good(s), s.day = day, NEW w \in Window,
         \A v \in Window : CutoffStays(turn[v], s.turn[v]),
         turn[w].verdict = "provisional" \/ day[w].result # "final", NEW allResolved \in BOOLEAN
  PROVE  Sound(Calculated(s, w, allResolved)) /\ Good(Calculated(s, w, allResolved))
<1> DEFINE t == Calculated(s, w, allResolved)
<1>1. /\ Good(t) /\ \A v \in Window : t.turn[v].cutoff = s.turn[v].cutoff
      /\ \A v \in Window \ {w} : t.day[v] = s.day[v]
  BY CalculatedKeeps
<1> HIDE DEF t
<1>2. CutoffsStay(Tables, t)
  BY <1>1 DEF CutoffsStay, CutoffStays, Tables
<1>3. Frozen(Tables, t)
  BY <1>1 DEF Frozen, Tables
<1> QED
  BY <1>1, <1>2, <1>3 DEF Sound, t

LEMMA SameCutoffStays ==
  ASSUME TurnsInv
  PROVE  \A v \in Window : CutoffStays(turn[v], turn[v])
<1>1. \A v \in Window : turn[v].cutoff \in Nat \cup {None}
  BY TablesRow DEF Rows
<1> QED
  BY <1>1 DEF CutoffStays, Passed

LEMMA CalculateSound ==
  ASSUME TurnsInv, NEW w \in Window, Calculate(w)
  PROVE  Sound(Tables')
<1>1. PICK all \in BOOLEAN : Save(Calculated(Tables, w, all))
  BY DEF Calculate
<1>2. turn[w].verdict = "provisional"
  BY DEF Calculate, MayCalculate, Tables
<1>3. Sound(Calculated(Tables, w, all)) /\ Good(Calculated(Tables, w, all))
  BY <1>2, CalculationSound, SameCutoffStays, TablesRow DEF TurnsInv
<1> QED
  BY <1>1, <1>3, SaveIs

\* An exclusion only takes fixtures away from the turn.
LEMMA ExcludeSound ==
  ASSUME TurnsInv, NEW w \in Window, NEW fs, Exclude(w, fs)
  PROVE  Sound(Tables')
<1> DEFINE row == [f \in Fixtures |-> IF f \in fs THEN "excluded" ELSE link[w][f]]
           link2 == [link EXCEPT ![w] = row]
           edited == [Tables EXCEPT !.link = link2]
           s == Reconcile(edited, w)
<1>1. /\ Tables \in TablesType(Nat) /\ Tables.turn = turn /\ Tables.link = link /\ Tables.day = day
      /\ link \in [Window -> [Fixtures -> {"none", "active", "excluded"}]]
      /\ Good(Tables) /\ fixture \in [Fixtures -> FixtureRows] /\ now \in Nat
  BY TablesRow DEF TurnsInv, TablesType
<1>2. turn[w].status = "scheduled" \/ turn[w].status = "open"
  BY DEF Exclude, EffectiveStatus
<1>3. [Tables EXCEPT !.link[w] = [f \in Fixtures |-> IF f \in fs THEN "excluded" ELSE @[f]]] = edited
  BY DEF Tables
<1>4. IF MayCalculate(s, w) THEN \E all \in BOOLEAN : Save(Calculated(s, w, all)) ELSE Save(s)
  BY <1>3 DEF Exclude
<1>5. row \in [Fixtures -> {"none", "active", "excluded"}]
      /\ \A f \in Fixtures : row[f] = "active" => link[w][f] = "active"
  BY <1>1
<1> HIDE DEF row
<1>6. link2 \in [Window -> [Fixtures -> {"none", "active", "excluded"}]]
      /\ \A v \in Window : \A f \in Fixtures : link2[v][f] = "active" => link[v][f] = "active"
  BY <1>1, <1>5
<1> HIDE DEF link2
<1>7. edited \in TablesType(Nat) /\ edited.turn = turn /\ edited.link = link2 /\ edited.day = day
  BY <1>1, <1>6 DEF TablesType
<1> HIDE DEF edited
<1>8. Good(edited)
  <2>1. \A v \in Window : Active(edited, v) \subseteq Active(Tables, v)
    BY <1>1, <1>6, <1>7 DEF Active
  <2>2. Apart(edited)
    BY <1>1, <2>1 DEF Good, Apart
  <2> QED
    BY <1>1, <1>7, <2>2 DEF Good, Numbered, Present, VacantIsUndated, DaysNumbered
<1>9. ~Vacant(edited.turn[w])
  BY <1>2, <1>7 DEF Vacant
<1>10. /\ Good(s) /\ CutoffsStay(edited, s) /\ s.day = edited.day
       /\ \A v \in Window : /\ CutoffStays(edited.turn[v], s.turn[v])
                            /\ s.turn[v].verdict = edited.turn[v].verdict
  BY <1>1, <1>8, <1>9, ReconcileKeeps
<1> HIDE DEF s
<1>11. CASE Save(s)
  <2>1. Sound(s)
    BY <1>1, <1>7, <1>10 DEF Sound, CutoffsStay, Frozen
  <2> QED
    BY <1>10, <1>11, <2>1, SaveIs
<1>12. CASE MayCalculate(s, w) /\ \E all \in BOOLEAN : Save(Calculated(s, w, all))
  <2>1. PICK all \in BOOLEAN : Save(Calculated(s, w, all))
    BY <1>12
  <2>2. turn[w].verdict = "provisional"
    BY <1>12, <1>7, <1>10 DEF MayCalculate
  <2>3. Sound(Calculated(s, w, all)) /\ Good(Calculated(s, w, all))
    BY <1>7, <1>10, <2>2, CalculationSound
  <2> QED
    BY <2>1, <2>3, SaveIs
<1> QED
  BY <1>4, <1>11, <1>12

LEMMA HomologateSound ==
  ASSUME TurnsInv, NEW w \in Window, Homologate(w)
  PROVE  Sound(Tables')
<1> DEFINE t == Homologated(Tables, w)
<1>1. Good(t) /\ t.day = Tables.day /\ \A v \in Window : t.turn[v].cutoff = Tables.turn[v].cutoff
  BY HomologatedKeeps DEF TurnsInv
<1>2. Save(t)
  BY DEF Homologate
<1> HIDE DEF t
<1> QED
  BY <1>1, <1>2, SaveIs, SameCutoffsStay DEF Sound, Frozen, TurnsInv

\* The verdict of a turn is taken back.
LEMMA Reopened ==
  ASSUME TurnsInv, NEW w \in Window
  PROVE  LET t == [Tables EXCEPT !.turn[w].verdict = "provisional"]
         IN  /\ Good(t) /\ t.day = day
             /\ \A v \in Window : t.turn[v].cutoff = turn[v].cutoff
<1> DEFINE row == [turn[w] EXCEPT !.verdict = "provisional"]
<1>1. row \in Rows(Nat) /\ row.number = turn[w].number /\ row.cutoff = turn[w].cutoff
      /\ row.status = turn[w].status
  BY TablesRow DEF Rows
<1>2. [Tables EXCEPT !.turn[w].verdict = "provisional"] = [Tables EXCEPT !.turn[w] = row]
  BY TablesRow DEF TablesType, Rows
<1> HIDE DEF row
<1> QED
  BY <1>1, <1>2, TablesRow, EditKeeps DEF Vacant, TurnsInv

LEMMA CorrectSound ==
  ASSUME TurnsInv, NEW w \in Window, Correct(w)
  PROVE  Sound(Tables')
<1> DEFINE t == [Tables EXCEPT !.turn[w].verdict = "provisional"]
<1>1. Good(t) /\ t.day = day /\ \A v \in Window : t.turn[v].cutoff = turn[v].cutoff
  BY Reopened
<1>2. Save(t)
  BY DEF Correct
<1> HIDE DEF t
<1>3. CutoffsStay(Tables, t)
  BY <1>1, TablesRow, SameCutoffsStay DEF TurnsInv
<1> QED
  BY <1>1, <1>2, <1>3, TablesRow, SaveIs DEF Sound, Frozen

LEMMA RepairRoundSound ==
  ASSUME TurnsInv, NEW w \in Window, RepairRound(w)
  PROVE  Sound(Tables')
<1> DEFINE s == [Tables EXCEPT !.turn[w].verdict = "provisional"]
<1>1. Good(s) /\ s.day = day /\ \A v \in Window : s.turn[v].cutoff = turn[v].cutoff
  BY Reopened
<1>2. Save(Calculated(s, w, TRUE)) /\ day[w].result # "final"
  BY DEF RepairRound
<1> HIDE DEF s
<1>3. \A v \in Window : CutoffStays(turn[v], s.turn[v])
  BY <1>1, SameCutoffStays DEF CutoffStays
<1>4. Sound(Calculated(s, w, TRUE)) /\ Good(Calculated(s, w, TRUE))
  BY <1>1, <1>2, <1>3, CalculationSound
<1> QED
  BY <1>2, <1>4, SaveIs

LEMMA GenerateCalendarSound ==
  ASSUME TurnsInv, GenerateCalendar
  PROVE  Sound(Tables')
<1> DEFINE t == Generated(Tables)
<1>1. Good(t) /\ t.turn = Tables.turn /\ \A w \in Window : Tables.day[w].result = "none"
  BY GeneratedKeeps DEF GenerateCalendar, MayGenerate, TurnsInv
<1>2. Save(t)
  BY DEF GenerateCalendar
<1> HIDE DEF t
<1> QED
  BY <1>1, <1>2, SaveIs, SameCutoffsStay DEF Sound, Frozen, TurnsInv

LEMMA ConfirmCalendarSound ==
  ASSUME TurnsInv, ConfirmCalendar
  PROVE  Sound(Tables')
<1> DEFINE t == [Tables EXCEPT !.league = IF @ = "auction" THEN "active" ELSE @]
<1>1. Good(Tables) /\ now \in Nat
  BY DEF TurnsInv
<1>2. t \in TablesType(Nat) /\ t.turn = Tables.turn /\ t.link = Tables.link /\ t.day = Tables.day
  BY <1>1 DEF Good, TablesType
<1>3. Save(t)
  BY DEF ConfirmCalendar
<1> HIDE DEF t
<1>4. Good(t)
  BY <1>1, <1>2, StatusChange
<1> QED
  BY <1>1, <1>2, <1>3, <1>4, SaveIs, SameCutoffsStay DEF Sound, Frozen

-----------------------------------------------------------------------------
(* The world, and every step *)

WorldTyped ==
  /\ fixture \in [Fixtures -> FixtureRows] /\ now \in Nat /\ rosters \in BOOLEAN
  /\ moves \in Nat /\ operations \in Nat /\ calendar \in {"none", "draft", "confirmed"}

LEMMA UnchangedTablesSound ==
  ASSUME TurnsInv, UNCHANGED <<turn, link, day, league>>
  PROVE  Sound(Tables')
<1>1. Tables' = Tables
  BY DEF Tables
<1> QED
  BY <1>1, SameCutoffsStay DEF Sound, Frozen, TurnsInv

LEMMA FixtureRowKept ==
  ASSUME fixture \in [Fixtures -> FixtureRows], NEW f \in Fixtures, NEW row \in FixtureRows
  PROVE  [fixture EXCEPT ![f] = row] \in [Fixtures -> FixtureRows]
OBVIOUS

LEMMA WorldStep ==
  ASSUME TurnsInv, Tick \/ FillRosters \/ ProviderNext
  PROVE  WorldTyped' /\ Sound(Tables')
<1>1. /\ fixture \in [Fixtures -> FixtureRows] /\ now \in Nat /\ rosters \in BOOLEAN
      /\ moves \in Nat /\ operations \in Nat /\ calendar \in {"none", "draft", "confirmed"}
  BY DEF TurnsInv
<1>2. CASE Tick
  BY <1>1, <1>2, UnchangedTablesSound DEF Tick, UnchangedTables, WorldTyped
<1>3. CASE FillRosters
  BY <1>1, <1>3, UnchangedTablesSound DEF FillRosters, UnchangedTables, WorldTyped
<1>4. CASE KickOff
  <2>1. \A f \in Fixtures : [fixture[f] EXCEPT !.status = "LIVE"] \in FixtureRows
    BY <1>1 DEF FixtureRows
  <2>2. fixture' \in [Fixtures -> FixtureRows]
    BY <1>1, <1>4, <2>1 DEF KickOff
  <2> QED
    BY <1>1, <1>4, <2>2, UnchangedTablesSound DEF KickOff, UnchangedTables, WorldTyped
<1>5. CASE PublishStats
  <2>1. \A f \in Fixtures : \A b \in BOOLEAN : [fixture[f] EXCEPT !.stats = b] \in FixtureRows
    BY <1>1 DEF FixtureRows
  <2>2. PICK over : fixture' = [f \in Fixtures |-> [fixture[f] EXCEPT !.stats = @ \/ f \in over]]
    BY <1>5, Zenon DEF PublishStats
  <2>3. \A f \in Fixtures : (fixture[f].stats \/ f \in over) \in BOOLEAN
    OBVIOUS
  <2>4. fixture' \in [Fixtures -> FixtureRows]
    BY <2>1, <2>2, <2>3
  <2> QED
    BY <1>1, <1>5, <2>4, UnchangedTablesSound DEF PublishStats, UnchangedTables, WorldTyped
<1>6. ASSUME NEW f \in Fixtures, FinalWhistle(f) \/ Postpone(f) \/ Reschedule(f)
      PROVE  WorldTyped' /\ Sound(Tables')
  <2>1. fixture[f] \in FixtureRows
    BY <1>1
  <2>2. PICK row \in FixtureRows : Provider(f, row)
    <3>1. CASE FinalWhistle(f)
      <4>1. [fixture[f] EXCEPT !.status = "FT"] \in FixtureRows
        BY <2>1 DEF FixtureRows
      <4> QED
        BY <3>1, <4>1 DEF FinalWhistle
    <3>2. CASE Postpone(f)
      <4>1. \A status \in Inactive : [fixture[f] EXCEPT !.status = status] \in FixtureRows
        BY <2>1 DEF FixtureRows, Inactive
      <4> QED
        BY <3>2, <4>1 DEF Postpone
    <3>3. CASE Reschedule(f)
      <4>1. \A t \in Nat : [fixture[f] EXCEPT !.status = "NS", !.kickoff = t] \in FixtureRows
        BY <2>1 DEF FixtureRows
      <4> QED
        BY <3>3, <4>1, TurnsAssumption DEF Reschedule
    <3> QED
      BY <1>6, <3>1, <3>2, <3>3
  <2>3. fixture' \in [Fixtures -> FixtureRows]
    BY <1>1, <2>2, FixtureRowKept DEF Provider
  <2>4. moves' \in Nat
    <3>1. FinalWhistle(f) => moves' = moves
      BY DEF FinalWhistle
    <3>2. Postpone(f) \/ Reschedule(f) => moves' = moves + 1
      BY DEF Postpone, Reschedule
    <3> QED
      BY <1>1, <1>6, <3>1, <3>2
  <2> QED
    BY <1>1, <2>2, <2>3, <2>4, UnchangedTablesSound DEF Provider, UnchangedTables, WorldTyped
<1> QED
  BY <1>2, <1>3, <1>4, <1>5, <1>6 DEF ProviderNext

LEMMA HandlerStep ==
  ASSUME TurnsInv, JobsNext \/ OperatorNext
  PROVE  Sound(Tables')
<1>1. CASE MaterializeInitial
  BY <1>1, MaterializeInitialSound
<1>2. CASE EnsureUpcoming
  BY <1>2, EnsureUpcomingSound
<1>3. CASE RefreshCalendar
  BY <1>3, RefreshCalendarSound
<1>4. CASE GenerateCalendar
  BY <1>4, GenerateCalendarSound
<1>5. CASE ConfirmCalendar
  BY <1>5, ConfirmCalendarSound
<1>6. ASSUME NEW w \in Window, ReadTurn(w) \/ SubmitLineup(w) \/ LivePipeline(w) \/ RepairRound(w)
      PROVE  Sound(Tables')
  BY <1>6, ReadTurnSound, SubmitLineupSound, CalculateSound, RepairRoundSound DEF LivePipeline
<1>7. ASSUME NEW w \in Window,
             Generate(w) \/ OpenTurn(w) \/ CalculateNow(w) \/ Homologate(w) \/ Correct(w)
      PROVE  Sound(Tables')
  BY <1>7, GenerateSound, OpenTurnSound, CalculateSound, HomologateSound, CorrectSound
     DEF CalculateNow
<1>8. ASSUME NEW w \in Window, ExcludeFixture(w) \/ ExcludeUnplayed(w)
      PROVE  Sound(Tables')
  <2>1. PICK fs : Exclude(w, fs)
    BY <1>8 DEF ExcludeFixture, ExcludeUnplayed
  <2> QED
    BY <2>1, ExcludeSound
<1> QED
  BY <1>1, <1>2, <1>3, <1>4, <1>5, <1>6, <1>7, <1>8 DEF JobsNext, OperatorNext

LEMMA HandlerWorld ==
  ASSUME TurnsInv, JobsNext \/ OperatorNext
  PROVE  WorldTyped'
<1>1. UNCHANGED <<now, fixture, rosters, moves>>
  BY DEF JobsNext, OperatorNext, MaterializeInitial, EnsureUpcoming, RefreshCalendar, ReadTurn,
         SubmitLineup, LivePipeline, RepairRound, GenerateCalendar, ConfirmCalendar, Generate,
         OpenTurn, ExcludeFixture, ExcludeUnplayed, Exclude, CalculateNow, Calculate, Homologate,
         Correct, OnTables, worldVars
<1>2. operations' = operations \/ operations' = operations + 1
  BY DEF JobsNext, OperatorNext, MaterializeInitial, EnsureUpcoming, RefreshCalendar, ReadTurn,
         SubmitLineup, LivePipeline, RepairRound, GenerateCalendar, ConfirmCalendar, Generate,
         OpenTurn, ExcludeFixture, ExcludeUnplayed, CalculateNow, Homologate, Correct, Job, Command
<1>3. calendar' = calendar \/ calendar' \in {"none", "draft", "confirmed"}
  BY DEF JobsNext, OperatorNext, MaterializeInitial, EnsureUpcoming, RefreshCalendar, ReadTurn,
         SubmitLineup, LivePipeline, RepairRound, GenerateCalendar, ConfirmCalendar, Generate,
         OpenTurn, ExcludeFixture, ExcludeUnplayed, Exclude, CalculateNow, Calculate, Homologate,
         Correct, OnTables
<1> QED
  BY <1>1, <1>2, <1>3 DEF TurnsInv, WorldTyped

LEMMA TurnsStart ==
  ASSUME TurnsInit
  PROVE  TurnsInv
<1>1. /\ turn = [w \in Window |-> NoTurn] /\ link = [w \in Window |-> [f \in Fixtures |-> "none"]]
      /\ day = [w \in Window |-> NoDay] /\ league = "auction"
  BY DEF TurnsInit
<1>2. NoTurn \in Rows(Nat) /\ NoDay \in [number : Nat, result : Results]
  BY DEF NoTurn, NoDay, Rows, Results
<1>3. Tables \in TablesType(Nat)
  BY <1>1, <1>2 DEF Tables, TablesType
<1>4. /\ \A w \in Window : /\ Tables.turn[w] = NoTurn /\ Tables.day[w] = NoDay
                           /\ Active(Tables, w) = {}
      /\ Present(Tables) = {}
  BY <1>1 DEF Tables, Active, Present, NoTurn
<1>5. Good(Tables)
  BY <1>3, <1>4 DEF Good, Numbered, Apart, VacantIsUndated, DaysNumbered, NoTurn, NoDay
<1>6. fixture \in [Fixtures -> FixtureRows]
  BY TurnsAssumption DEF TurnsInit, FixtureRows
<1> QED
  BY <1>5, <1>6 DEF TurnsInit, TurnsInv

\* Every step keeps the invariant, and stutters or is sound.
LEMMA TurnsStep ==
  ASSUME TurnsInv, [TurnsNext]_turnsVars
  PROVE  TurnsInv' /\ CutoffsStay(Tables, Tables') /\ Frozen(Tables, Tables')
<1>1. WorldTyped' /\ Sound(Tables')
  <2>1. CASE Tick \/ FillRosters \/ ProviderNext
    BY <2>1, WorldStep
  <2>2. CASE JobsNext \/ OperatorNext
    BY <2>2, HandlerStep, HandlerWorld
  <2>3. CASE UNCHANGED turnsVars
    <3>1. Sound(Tables')
      BY <2>3, UnchangedTablesSound DEF turnsVars
    <3> QED
      BY <2>3, <3>1 DEF TurnsInv, WorldTyped, turnsVars
  <2> QED
    BY <2>1, <2>2, <2>3 DEF TurnsNext
<1> QED
  BY <1>1 DEF Sound, TurnsInv, WorldTyped

LEMMA TurnsInvariant == TurnsSpec => []TurnsInv
<1>1. TurnsInit => TurnsInv
  BY TurnsStart
<1>2. TurnsInv /\ [TurnsNext]_turnsVars => TurnsInv'
  BY TurnsStep
<1> QED
  BY <1>1, <1>2, PTL DEF TurnsSpec

-----------------------------------------------------------------------------
(* Theorems *)

\* Whatever the order in which turns are created, upgraded and pruned, they
\* are numbered from 1 without holes in the order of their windows
\* (_renumber_league_rounds).
THEOREM NumbersAlwaysFollow == TurnsSpec => []NumbersFollowWindows
<1>1. TurnsInv => NumbersFollowWindows
  BY DEF TurnsInv, Good, Numbered, NumbersFollowWindows, Tables
<1> QED
  BY <1>1, TurnsInvariant, PTL

\* A fixture counts in one turn at most, also after its kickoff moved to the
\* window of another turn (_active_assigned_fixture_ids).
THEOREM FixtureStaysInOneTurn == TurnsSpec => []FixtureInOneTurn
<1>1. TurnsInv => FixtureInOneTurn
  BY DEF TurnsInv, Good, Apart, FixtureInOneTurn
<1> QED
  BY <1>1, TurnsInvariant, PTL

\* A cut-off that has passed is never moved after now again, whatever the
\* provider does to the kickoffs (apply_cutoff_recalculation).
THEOREM CutoffsNeverReopen == TurnsSpec => CutoffNeverReopens
<1> DEFINE Stays == \A w \in Window : Passed(turn[w].cutoff) /\ turn'[w].status # "absent"
                      => turn'[w].cutoff # None /\ turn'[w].cutoff <= turn[w].cutoff
<1>1. TurnsInv /\ [TurnsNext]_turnsVars => [Stays]_turnsVars
  <2> SUFFICES ASSUME TurnsInv, [TurnsNext]_turnsVars
               PROVE  Stays
    OBVIOUS
  <2>1. CutoffsStay(Tables, Tables')
    BY TurnsStep
  <2> QED
    BY <2>1 DEF CutoffsStay, CutoffStays, Tables
<1>2. TurnsSpec => [][Stays]_turnsVars
  BY <1>1, TurnsInvariant, PTL DEF TurnsSpec
<1> QED
  BY <1>2 DEF CutoffNeverReopens

\* The final result of a day stays while its turn is homologated: only a
\* correction gives it back to the calculation (assert_round_not_homologated).
THEOREM VerdictsAreFrozen == TurnsSpec => VerdictIsFrozen
<1> DEFINE Stays == \A w \in Window :
             turn[w].verdict = "homologated" /\ turn'[w].verdict = "homologated" /\ day[w].result = "final"
               => day'[w].result = "final"
<1>1. TurnsInv /\ [TurnsNext]_turnsVars => [Stays]_turnsVars
  <2> SUFFICES ASSUME TurnsInv, [TurnsNext]_turnsVars
               PROVE  Stays
    OBVIOUS
  <2>1. Frozen(Tables, Tables')
    BY TurnsStep
  <2> QED
    BY <2>1 DEF Frozen, Tables
<1>2. TurnsSpec => [][Stays]_turnsVars
  BY <1>1, TurnsInvariant, PTL DEF TurnsSpec
<1> QED
  BY <1>2 DEF VerdictIsFrozen

=============================================================================
