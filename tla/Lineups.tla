------------------------------ MODULE Lineups ------------------------------
(***************************************************************************)
(* The line-up of one fantasy team in one turn (fantasy_lineups): what the *)
(* manager, an operator, the AI and the calculation of the turn write,     *)
(* while matches kick off, are moved by the provider and lock athletes one *)
(* by one.                                                                 *)
(*                                                                         *)
(* Handlers that write line-ups hold the row of the turn, so that one save *)
(* at a time is under way (request); a save reads the matches first and    *)
(* commits later, the other handlers are one step.  The turn is open or    *)
(* locked throughout (its status is in Turns); the roster is complete and  *)
(* changes with the market.                                                *)
(***************************************************************************)
EXTENDS LineupRules

CONSTANTS
  Fixtures, FixtureOf,  \* matches of the turn; the one of each athlete
  FirstKickoff,         \* kickoffs known when the turn was made
  Kickoffs,             \* instants the provider may move a match to
  Movable,              \* bound: matches that are moved
  Margin,               \* lineup_lock_margin_minutes
  LastInstant,          \* bound: end of the clock
  Rosters,              \* the rosters the team has, one after the other
  Proposals, Drafts,    \* bound: line-ups people save and draft
  Previous,             \* line-up of an earlier turn, None if there is none
  Voted,                \* bound: sets of athletes that get a vote
  MaxRevisions          \* bound: revisions of a submission

ASSUME LineupsAssumption ==
  /\ FixtureOf \in [Athletes -> Fixtures] /\ FirstKickoff \in [Fixtures -> Nat]
  /\ Kickoffs \subseteq Nat /\ Margin \in Nat /\ Movable \subseteq Fixtures
  /\ Voted \subseteq SUBSET Athletes /\ None \notin Nat
  /\ Rosters \in Seq(Seq(Athletes)) /\ Rosters # <<>>
  /\ \A lineup \in Proposals \cup Drafts : IsLineup(lineup)
  /\ Previous # None => IsLineup(Previous)

VARIABLES now, fixture, link, rosterNo, moved, ai, submission, draft, request

world == <<now, fixture, rosterNo, moved, ai>>
lineupsVars == <<now, fixture, link, rosterNo, moved, ai, submission, draft, request>>

Roster == Rosters[rosterNo]

(***************************************************************************)
(* The lock of an athlete                                                  *)
(***************************************************************************)
Elapsed(t, at) == t # None /\ at >= t

\* A published kickoff that elapses latches the lock of the match.
\* A mutant of the definition that follows.
LatchCurrentOnly(l, f, at) ==
  [observed |-> f.kickoff,
   latch |-> IF l.latch = None /\ f.status \notin Inactive /\ at >= f.kickoff THEN f.kickoff ELSE l.latch]

ReconcileLock(l, f, at) ==
  LET elapsed == {t \in {l.observed} : Elapsed(t, at)}
                 \cup {t \in {f.kickoff} : f.status \notin Inactive /\ at >= t}
      latch == IF elapsed # {} THEN Min(elapsed)
               ELSE IF f.status \in Started THEN f.kickoff ELSE None
  IN [observed |-> f.kickoff, latch |-> IF l.latch = None THEN latch ELSE l.latch]

ReconcileLinks(at) == [f \in Fixtures |-> ReconcileLock(link[f], fixture[f], at)]

\* Without a latch (the AI) the match alone decides.
KickoffLocked(f, latched, at) ==
  \/ latched
  \/ f.status \in Started
  \/ f.status \notin Inactive /\ at >= f.kickoff - Margin

LockedAthletes(by, fixtures, links, at) ==
  IF by = "operator" THEN {}
  ELSE {a \in Range(Roster) :
          KickoffLocked(fixtures[FixtureOf[a]], links[FixtureOf[a]].latch # None, at)}

(***************************************************************************)
(* Saving a line-up                                                        *)
(***************************************************************************)
Confirmed == IF submission = None THEN NoLineup ELSE submission.lineup
Changed(lineup) == submission # None /\ lineup # Confirmed
MovesUsed == IF submission = None THEN 0 ELSE submission.moves

MayRevise == submission # None => submission.revision < MaxRevisions

\* Bound: the operator acts for the teams of the AI.
Actors == IF ai THEN {"operator"} ELSE {"manager"}

\* The kickoffs are synchronised, the matches read and their rows locked: the
\* objects already loaded keep the values read before.
BeginSave(by, lineup) ==
  /\ request = None /\ MayRevise
  /\ LET links == ReconcileLinks(now) IN
     request' = [at |-> now, by |-> by, lineup |-> lineup, roster |-> Range(Roster),
                 locked |-> LockedAthletes(by, fixture, links, now),
                 loaded |-> link, links |-> links]
  /\ UNCHANGED <<world, link, submission, draft>>

\* The session writes the columns that it changed.
Merged(l, loaded, changed) ==
  [observed |-> IF changed.observed # loaded.observed THEN changed.observed ELSE l.observed,
   latch |-> IF changed.latch # loaded.latch THEN changed.latch ELSE l.latch]

Acceptable(r, consumes) ==
  /\ ValidLineup(r.lineup, r.roster)
  /\ KeepsSlots(Confirmed, r.lineup, r.locked)
  /\ KeepsBenchOrder(Confirmed, r.lineup, r.locked)
  /\ ~(consumes /\ MovesUsed >= MaxTacticalMoves)

FinishSave ==
  /\ request # None
  /\ LET r == request
         consumes == Changed(r.lineup) /\ r.locked # {}
     IN IF Acceptable(r, consumes) /\ r.lineup # Confirmed
        THEN /\ submission' =
                  IF submission = None
                  THEN [lineup |-> r.lineup, at |-> r.at, by |-> r.by, revision |-> 1,
                        moves |-> 0, source |-> "manual", ai |-> FALSE]
                  ELSE [submission EXCEPT !.lineup = r.lineup, !.at = r.at, !.by = r.by,
                          !.revision = @ + 1, !.moves = IF consumes THEN @ + 1 ELSE @]
             /\ draft' = None
        ELSE UNCHANGED <<submission, draft>>
  /\ link' = [f \in Fixtures |-> Merged(link[f], request.loaded[f], request.links[f])]
  /\ request' = None
  /\ UNCHANGED world

(***************************************************************************)
(* Drafts                                                                  *)
(***************************************************************************)
\* Every handler of drafts synchronises the kickoffs, also when it refuses.
\* Bound: only managers keep drafts.
Drafting(lineup, source, accepted) ==
  /\ request = None /\ ~ai
  /\ link' = ReconcileLinks(now)
  /\ draft' = IF accepted THEN [lineup |-> lineup, at |-> now, source |-> source] ELSE draft
  /\ UNCHANGED <<world, submission, request>>

LockedNow == LockedAthletes("manager", fixture, ReconcileLinks(now), now)

\* A mutant of the definition that follows.
SaveDraftUnlocked(lineup) == Drafting(lineup, "manual", ValidDraft(lineup, Range(Roster)))

SaveDraft(lineup) ==
  LET locked == LockedNow IN
  Drafting(lineup, "manual",
    /\ ValidDraft(lineup, Range(Roster))
    /\ KeepsSlots(Confirmed, lineup, locked)
    /\ KeepsBenchOrder(Confirmed, lineup, locked))

CopyPrevious ==
  LET locked == LockedNow
      copy == CopiedLineup(Previous, Roster, locked, Confirmed)
  IN /\ Previous # None
     /\ Drafting(copy, "copied",
          /\ Starters(copy) # {}
          /\ KeepsSlots(Confirmed, copy, locked)
          /\ KeepsBenchOrder(Confirmed, copy, locked))

\* The formula of the AI on the athletes that are not locked.
\* A mutant of the definition that follows.
BestPlanUnpinned(m, locked) == Plan(Range(Roster), Modules[m])

BestPlan(m, locked) ==
  IF locked = {} THEN Plan(Range(Roster), Modules[m])
  ELSE PlanAroundLocked(Roster, Modules[m], locked, Confirmed)

ApplyBest(best) ==
  LET locked == LockedNow
      current == IF submission # None THEN submission.lineup.module
                 ELSE IF draft # None THEN draft.lineup.module ELSE 1
      chosen == IF best THEN BestModule([m \in DOMAIN Modules |-> BestPlan(m, locked)], locked, current)
                ELSE current
      plan == BestPlan(chosen, locked)
  IN Drafting([module |-> chosen, starters |-> plan.starters, bench |-> plan.bench], "best",
              plan.complete)

(***************************************************************************)
(* The AI and the calculation of the turn                                  *)
(***************************************************************************)
\* The job and the operator's button.  It never looks at the latches.
GenerateAi ==
  /\ request = None /\ MayRevise /\ ai /\ (submission # None => submission.ai)
  /\ \A a \in LineupAthletes(Confirmed) \cap Range(Roster) :
       ~KickoffLocked(fixture[FixtureOf[a]], FALSE, now)
  /\ LET plan == Plan(Range(Roster), Modules[1])
         lineup == [module |-> 1, starters |-> plan.starters, bench |-> plan.bench]
     IN /\ plan.complete /\ ValidLineup(lineup, Range(Roster))
        /\ lineup # Confirmed
        /\ submission' =
             IF submission = None
             THEN [lineup |-> lineup, at |-> now, by |-> "ai", revision |-> 1, moves |-> 0,
                   source |-> "manual", ai |-> TRUE]
             ELSE [submission EXCEPT !.lineup = lineup, !.at = now, !.revision = @ + 1]
  /\ UNCHANGED <<world, link, draft, request>>

\* The line-up of a team that sent none: its draft, the one of the turn
\* before, nothing.
Fallback ==
  LET submit(lineup, source) == [lineup |-> lineup, at |-> now, by |-> "system", revision |-> 1,
                                 moves |-> 0, source |-> source, ai |-> FALSE]
      copy == CopiedLineup(Previous, Roster, {}, NoLineup)
  IN CASE draft # None /\ ValidLineup(WithoutHoles(draft.lineup), Range(Roster)) ->
            submit(WithoutHoles(draft.lineup), "draft")
       [] (draft = None \/ ~ValidLineup(WithoutHoles(draft.lineup), Range(Roster)))
          /\ Previous # None /\ ValidLineup(copy, Range(Roster)) -> submit(copy, "previous_round")
       [] OTHER -> submit([NoLineup EXCEPT !.module = 1], "zero_fallback")

Over == \A f \in Fixtures : fixture[f].status = "FT"

Calculate ==
  /\ request = None /\ submission = None /\ Over
  /\ submission' = Fallback
  /\ UNCHANGED <<world, link, draft, request>>

\* A vote counts when its match is over; until then a starter waits for his.
Played(voted) == {a \in Athletes : fixture[FixtureOf[a]].status = "FT" => a \in voted}

\* The page of the line-up synchronises the kickoffs without the row of the
\* turn, also between the two steps of a save.
ReadLineup ==
  /\ link' = ReconcileLinks(now)
  /\ UNCHANGED <<world, submission, draft, request>>

(***************************************************************************)
(* The world                                                               *)
(***************************************************************************)
lineupTables == <<link, submission, draft, request>>

Tick ==
  /\ now < LastInstant /\ now' = now + 1
  /\ UNCHANGED <<fixture, rosterNo, moved, ai, lineupTables>>

Provider(f, row) ==
  /\ fixture' = [fixture EXCEPT ![f] = row]
  /\ UNCHANGED <<now, rosterNo, ai, lineupTables>>

\* The feed reports what happened, at the moment or later.
KickOff(f) ==
  /\ fixture[f].status = "NS" /\ now >= fixture[f].kickoff
  /\ Provider(f, [fixture[f] EXCEPT !.status = "LIVE"]) /\ UNCHANGED moved

FinalWhistle(f) ==
  /\ fixture[f].status = "LIVE"
  /\ Provider(f, [fixture[f] EXCEPT !.status = "FT"]) /\ UNCHANGED moved

Postpone(f) ==
  /\ f \in Movable /\ fixture[f].status = "NS" /\ ~moved /\ moved' = TRUE
  /\ Provider(f, [fixture[f] EXCEPT !.status = "PST"])

Reschedule(f) ==
  /\ f \in Movable /\ \/ fixture[f].status = "NS" /\ ~moved
                      \/ fixture[f].status = "PST"
  /\ moved' = TRUE
  /\ \E t \in Kickoffs : t > now /\ Provider(f, [fixture[f] EXCEPT !.status = "NS", !.kickoff = t])

\* The save that is under way has read the roster: the change comes after it.
ChangeRoster ==
  /\ request = None
  /\ rosterNo < Len(Rosters) /\ rosterNo' = rosterNo + 1
  /\ UNCHANGED <<now, fixture, moved, ai, lineupTables>>

(***************************************************************************)
(* Specification                                                           *)
(***************************************************************************)
LineupsInit ==
  /\ now = 0 /\ rosterNo = 1 /\ moved = FALSE
  /\ fixture = [f \in Fixtures |-> [kickoff |-> FirstKickoff[f], status |-> "NS"]]
  /\ link = [f \in Fixtures |-> [observed |-> FirstKickoff[f], latch |-> None]]
  /\ ai \in BOOLEAN
  /\ submission = None /\ draft = None /\ request = None

LineupsNext ==
  \/ Tick \/ ReadLineup \/ FinishSave \/ Calculate \/ ChangeRoster
  \/ \E f \in Fixtures : KickOff(f) \/ FinalWhistle(f) \/ Postpone(f) \/ Reschedule(f)
  \/ GenerateAi
  \/ \E by \in Actors, p \in Proposals : BeginSave(by, p)
  \/ \E d \in Drafts : SaveDraft(d)
  \/ CopyPrevious
  \/ \E best \in BOOLEAN : ApplyBest(best)

LineupsSpec == LineupsInit /\ [][LineupsNext]_lineupsVars

(***************************************************************************)
(* Properties                                                              *)
(***************************************************************************)

\* A manager changes the place of an athlete of his roster only with a save
\* sent before the published kickoff of his match and before the latch of its
\* lock, however long the save takes and whatever the provider does to the
\* kickoff before and meanwhile (save_my_lineup, reconcile_fixture_kickoff_lock).
\* The lock does not hold an athlete who left the roster with the market.
SubmittedBeforeLock ==
  [][\A a \in Range(Roster) :
       /\ submission' # submission /\ submission'.by = "manager"
       /\ Slot(Confirmed, a) # Slot(submission'.lineup, a)
       /\ a \in Starters(Confirmed) \cup Starters(submission'.lineup)
       => /\ submission'.at < link[FixtureOf[a]].observed
          /\ ~Elapsed(link'[FixtureOf[a]].latch, submission'.at)]_lineupsVars

\* A line-up made of a manager's draft has no starter whose match had kicked
\* off when the draft was saved, although the fallback that confirms it runs
\* after all matches and looks at no lock (_resolve_team_lineup).
DraftBeforeLock ==
  [][submission = None /\ submission' # None /\ submission'.source = "draft"
       => \A a \in Starters(submission'.lineup) :
            ~Elapsed(link[FixtureOf[a]].latch, draft.at)]_lineupsVars

\* A draft of the best line-up moves nobody who is locked and nobody across
\* him on the bench, in every module: a manager who confirms it at once is
\* never refused for the lock (compute_best_lineup_respecting_locks).
BestRespectsLocks ==
  [][draft' # draft /\ draft' # None /\ draft'.source = "best" /\ draft'.at = now
       => LET locked == LockedNow
          IN KeepsSlots(Confirmed, draft'.lineup, locked) /\ KeepsBenchOrder(Confirmed, draft'.lineup, locked)
     ]_lineupsVars

\* The substitutes that come in are exactly those the rules name: of each role
\* the first of the bench with a vote, as many as starters without a vote, and
\* of them all the first three (resolve_automatic_substitutions).
SubstitutionsSound ==
  submission # None /\ (\E f \in Fixtures : fixture[f].status = "FT") =>
    \A voted \in Voted :
      LET played == Played(voted)
          result == Substitute(Confirmed, played)
          out == Starters(Confirmed) \ Range(result)
      IN /\ Range(result) \ Starters(Confirmed) = Entitled(Confirmed, played)
         /\ out \cap played = {}
         /\ Cardinality(Range(result)) = Len(result)
         /\ RoleCounts(result) = RoleCounts(Confirmed.starters)
=============================================================================
