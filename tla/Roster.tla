------------------------------- MODULE Roster -------------------------------
(***************************************************************************)
(* Roster slots, role quotas and composition of fantasy teams              *)
(* (backend/src/fantasy_teams/composition.py, composition_service.py), as  *)
(* operators on the slots of one team: a function from slot index to the   *)
(* athlete in the slot, or NoAthlete.                                      *)
(***************************************************************************)
EXTENDS CreditLedger, FiniteSets

CONSTANTS
    Teams,            \* the fantasy teams of one league
    Slots,            \* slot indices 0 .. roster_size - 1
    Roles,            \* FantasyRole, numbered in declaration order: P, D, C, A
    Role,             \* effective listone role of every athlete
    Competition,      \* the competition every athlete plays in
    Limit,            \* league_rules limit per role
    MinCompetitions,  \* MIN_ROSTER_COMPETITIONS
    TotalCredits      \* league_rules.total_credits

ASSUME RosterAssumption ==
    /\ IsFiniteSet(Slots) /\ Slots \subseteq Nat /\ Roles \subseteq Nat
    /\ Role \in [Athletes -> Roles]
    /\ Limit \in [Roles -> Nat]
    /\ TotalCredits \in Nat
    /\ MinCompetitions \in Nat

TeamSlots == [Slots -> Athletes \cup {NoAthlete}]

Occupied(sl) == {s \in Slots : sl[s] # NoAthlete}
FreeSlots(sl) == {s \in Slots : sl[s] = NoAthlete}

\* ... ORDER BY slot_index ASC
FirstFree(sl) == CHOOSE s \in FreeSlots(sl) : \A r \in FreeSlots(sl) : s <= r

Holds(sl, a) == \E s \in Slots : sl[s] = a

SlotsOfRole(sl, r) == {s \in Occupied(sl) : Role[sl[s]] = r}

\* Faulty variant of WithinQuota: the new athlete is not counted.
WithinQuotaOffByOne(sl, s, a) ==
    Cardinality(SlotsOfRole(sl, Role[a]) \ {s}) <= Limit[Role[a]]

(* assert_assignment_respects_role_quota and would_exceed_role_quota: the  *)
(* slot that is filled is not counted, and its athlete's role is           *)
(* subtracted once more.                                                   *)
WithinQuota(sl, s, a) ==
    LET others    == Cardinality(SlotsOfRole(sl, Role[a]) \ {s})
        replacing == sl[s] # NoAthlete /\ Role[sl[s]] = Role[a]
        counted   == IF replacing /\ others > 0 THEN others - 1 ELSE others
    IN  counted + 1 <= Limit[Role[a]]

RespectsQuota(sl) == \A r \in Roles : Cardinality(SlotsOfRole(sl, r)) <= Limit[r]

\* Every slot is filled, with the exact number of athletes of every role.
Complete(sl) ==
    /\ FreeSlots(sl) = {}
    /\ \A r \in Roles : Cardinality(SlotsOfRole(sl, r)) = Limit[r]

\* The slots of a league: no athlete is in two of them.
Exclusive(slots) ==
    \A t, u \in Teams, s, r \in Slots :
        slots[t][s] # NoAthlete /\ slots[t][s] = slots[u][r] => t = u /\ s = r

(* evaluate_roster_composition with require_complete = False, every role   *)
(* resolved.                                                               *)
CompositionStatus(sl) ==
    LET complete ==
            /\ Complete(sl)
            /\ Cardinality({Competition[sl[s]] : s \in Occupied(sl)}) >= MinCompetitions
    IN  IF ~RespectsQuota(sl) THEN "invalid"
        ELSE IF complete THEN "validated"
        ELSE "incomplete"
=============================================================================
