---------------------------- MODULE FantasyTeams ----------------------------
(***************************************************************************)
(* Rosters, credits and ownership intervals of one league                  *)
(* (backend/src/fantasy_teams/service.py, ownership.py and the release of  *)
(* backend/src/market/service.py).                                         *)
(*                                                                         *)
(* Every handler here locks the league row first, so handlers run one      *)
(* after the other; the two that write several rows (confirm_csv_import    *)
(* and assign_random_ai_roster) are one step per row, and `job' holds the  *)
(* league lock while they run.                                             *)
(*                                                                         *)
(* A handler that fails with a ValidationAuthError does NOT roll back: the *)
(* router answers 400 and get_db_session commits whatever the handler had  *)
(* written outside a rolled-back savepoint.  Each such outcome is an       *)
(* action of its own.  Only an exception nobody catches rolls back.        *)
(***************************************************************************)
EXTENDS Roster

CONSTANTS
    AiTeams,          \* teams of AI managers
    Prices,           \* purchaseCredits a caller may send
    ImportPrices,     \* credits of the rows of an import
    RandomPrice,      \* purchase_credits of assign_random_ai_roster
    ReleasePercents,  \* refund percentages of the release reasons
    AdminAmounts,     \* amounts of admin movements
    AdminIds,         \* transaction ids of admin movements
    MaxRows,          \* bound: rows of an import
    MaxEntries        \* bound: ledger entries of a team

ASSUME FantasyTeamsAssumption ==
    /\ AiTeams \subseteq Teams
    /\ Prices \subseteq Nat /\ ImportPrices \subseteq Nat /\ RandomPrice \in Nat
    /\ ReleasePercents \subseteq Nat
    /\ AdminAmounts \subseteq Int /\ AdminIds \subseteq Nat
    /\ MaxRows \in Nat /\ MaxEntries \in Nat

VARIABLES
    marketOpen,   \* leagues.market_open
    created,      \* teams that exist (created lazily)
    slot,         \* fantasy_roster_slots.athlete_id, per team and slot
    paid,         \* fantasy_roster_slots.purchase_credits (NULL is 0)
    active,       \* athlete of the open ownership interval, per team and slot
    account,      \* credit account of every team
    composition,  \* fantasy_teams.composition_status
    draft,        \* the roster_import_sessions row
    job           \* the multi-row transaction in progress

vars == <<marketOpen, created, slot, paid, active, account, composition, draft, job>>

Rows == [team : Teams, athlete : Athletes, price : Nat]
SlottedRows == [team : Teams, athlete : Athletes, price : Nat, slot : Slots]

\* The tables a handler writes and a rolled-back transaction restores.
Tables == [slot : [Teams -> TeamSlots], paid : [Teams -> [Slots -> Nat]],
           active : [Teams -> TeamSlots], account : [Teams -> Accounts]]

Blank == [slot |-> [t \in Teams |-> [s \in Slots |-> NoAthlete]],
          paid |-> [t \in Teams |-> [s \in Slots |-> 0]],
          active |-> [t \in Teams |-> [s \in Slots |-> NoAthlete]],
          account |-> [t \in Teams |-> [balance |-> 0, entries |-> << >>]]]

Idle == [prefix |-> "none", rows |-> << >>, touched |-> {}, saved |-> Blank]

Jobs == {Idle} \cup
        [prefix : {"csv-purchase", "random-ai"}, rows : Seq(SlottedRows),
         touched : SUBSET Teams, saved : Tables]

Unlocked == job = Idle

Room(t) == Len(account[t].entries) < MaxEntries

Owner(a) == {t \in Teams : Holds(slot[t], a)}

TypeOK ==
    /\ marketOpen \in BOOLEAN
    /\ created \subseteq Teams
    /\ slot \in [Teams -> TeamSlots]
    /\ paid \in [Teams -> [Slots -> Nat]]
    /\ active \in [Teams -> TeamSlots]
    /\ account \in [Teams -> Accounts]
    /\ composition \in [Teams -> {"incomplete", "validated", "invalid"}]
    /\ draft \in [status : {"none", "draft", "confirmed"}, rows : Seq(Rows)]
    /\ job \in Jobs

Init ==
    /\ marketOpen = TRUE
    /\ created = {}
    /\ slot = Blank.slot
    /\ paid = Blank.paid
    /\ active = Blank.active
    /\ account = Blank.account
    /\ composition = [t \in Teams |-> "incomplete"]
    /\ draft = [status |-> "none", rows |-> << >>]
    /\ job = Idle

-----------------------------------------------------------------------------
(* Teams, the market switch and admin movements *)

\* ensure_team_for_membership: team, empty slots, account, first allocation.
EnsureTeam(t) ==
    /\ Unlocked
    /\ t \notin created
    /\ created' = created \cup {t}
    /\ account' = [account EXCEPT ![t] = OpenAccount(TotalCredits)]
    /\ UNCHANGED <<marketOpen, slot, paid, active, composition, draft, job>>

\* write_market_open
SetMarketOpen(open) ==
    /\ Unlocked
    /\ marketOpen # open
    /\ marketOpen' = open
    /\ UNCHANGED <<created, slot, paid, active, account, composition, draft, job>>

\* admin_post_credit_movement (not subject to the market switch)
AdminPostCreditMovement(t, id, amount) ==
    LET tx == <<"admin", 0, NoAthlete, id>>
    IN  /\ Unlocked
        /\ t \in created
        /\ Room(t)
        /\ amount # 0
        /\ CanPost(account[t], tx, amount)
        /\ account' = [account EXCEPT ![t] = Post(@, tx, amount)]
        /\ UNCHANGED <<marketOpen, created, slot, paid, active, composition, draft, job>>

-----------------------------------------------------------------------------
(* assign_slot and release_slot *)

\* Faulty variant of Refund: the transaction id forgets the account version.
RefundUnversioned(acc, s, a, credits) ==
    IF credits > 0 THEN Post(acc, <<"refund", s, a, 0>>, credits) ELSE acc

\* _refund_purchase
Refund(acc, s, a, credits) ==
    IF credits > 0 THEN Post(acc, <<"refund", s, a, Version(acc)>>, credits) ELSE acc

\* The checks of assign_slot that fail before anything is written.
AssignAdmitted(t, s, a, p) ==
    /\ Unlocked
    /\ marketOpen
    /\ t \in created
    /\ Room(t)
    /\ Owner(a) \subseteq {t}
    /\ WithinQuota(slot[t], s, a)
    /\ ~(slot[t][s] = a /\ paid[t][s] = p)

\* The account once the athlete that leaves the slot has been refunded.
Refunded(t, s, a) ==
    IF slot[t][s] \in {NoAthlete, a} THEN account[t]
    ELSE Refund(account[t], s, slot[t][s], paid[t][s])

\* The amount assign_slot posts: nothing when the price is 0.
Charge(t, s, a, p) ==
    IF p = 0 THEN 0 ELSE IF slot[t][s] = a THEN paid[t][s] - p ELSE 0 - p

ChargeTx(t, s, a) ==
    <<IF slot[t][s] = a THEN "purchase-adjust" ELSE "purchase", s, a,
      Version(Refunded(t, s, a))>>

\* The unique index on (league_id, athlete_id) of roster slots.
SlotConflict(t, s, a) ==
    \E u \in Teams, r \in Slots : <<u, r>> # <<t, s>> /\ slot[u][r] = a

\* The unique index on (league_id, athlete_id) of open ownership intervals.
IntervalConflict(t, s, a) ==
    \E u \in Teams, r \in Slots : <<u, r>> # <<t, s>> /\ active[u][r] = a

AssignSlot(t, s, a, p) ==
    LET charge == Charge(t, s, a, p)
        tx     == ChargeTx(t, s, a)
        acc    == Refunded(t, s, a)
    IN  /\ AssignAdmitted(t, s, a, p)
        /\ ~SlotConflict(t, s, a)
        /\ charge # 0 => CanPost(acc, tx, charge)
        /\ ~IntervalConflict(t, s, a)
        /\ account' = [account EXCEPT ![t] = IF charge = 0 THEN acc ELSE Post(acc, tx, charge)]
        /\ slot' = [slot EXCEPT ![t][s] = a]
        /\ paid' = [paid EXCEPT ![t][s] = p]
        /\ active' = [active EXCEPT ![t][s] = a]
        /\ composition' = [composition EXCEPT ![t] = CompositionStatus(slot'[t])]
        /\ UNCHANGED <<marketOpen, created, draft, job>>

(* The slot is written, then the charge is refused: the 400 commits the    *)
(* refund and the slot, without charge, interval and composition.          *)
AssignSlotOverdrawn(t, s, a, p) ==
    LET charge == Charge(t, s, a, p)
    IN  /\ AssignAdmitted(t, s, a, p)
        /\ ~SlotConflict(t, s, a)
        /\ charge # 0
        /\ ~CanPost(Refunded(t, s, a), ChargeTx(t, s, a), charge)
        /\ account' = [account EXCEPT ![t] = Refunded(t, s, a)]
        /\ slot' = [slot EXCEPT ![t][s] = a]
        /\ paid' = [paid EXCEPT ![t][s] = p]
        /\ UNCHANGED <<marketOpen, created, active, composition, draft, job>>

(* The athlete is already in another slot of the team: the savepoint of    *)
(* the slot is rolled back, the refund before it is committed.             *)
AssignSlotDuplicate(t, s, a, p) ==
    /\ AssignAdmitted(t, s, a, p)
    /\ SlotConflict(t, s, a)
    /\ account' = [account EXCEPT ![t] = Refunded(t, s, a)]
    /\ UNCHANGED <<marketOpen, created, slot, paid, active, composition, draft, job>>

\* Faulty variant of Vacate: the composition status is not synchronised.
VacateUnsynced(t, s) ==
    /\ slot' = [slot EXCEPT ![t][s] = NoAthlete]
    /\ paid' = [paid EXCEPT ![t][s] = 0]
    /\ active' = [active EXCEPT ![t][s] = NoAthlete]
    /\ UNCHANGED composition

\* Free the slot, sync_ownership_on_release, sync_team_composition_status.
Vacate(t, s) ==
    /\ slot' = [slot EXCEPT ![t][s] = NoAthlete]
    /\ paid' = [paid EXCEPT ![t][s] = 0]
    /\ active' = [active EXCEPT ![t][s] = NoAthlete]
    /\ composition' = [composition EXCEPT ![t] = CompositionStatus(slot'[t])]

\* release_slot: the whole purchase price comes back.
ReleaseSlot(t, s) ==
    /\ Unlocked
    /\ marketOpen
    /\ t \in created
    /\ Room(t)
    /\ slot[t][s] # NoAthlete
    /\ account' = [account EXCEPT ![t] = Refund(@, s, slot[t][s], paid[t][s])]
    /\ Vacate(t, s)
    /\ UNCHANGED <<marketOpen, created, draft, job>>

\* MarketService.apply_release: a percentage comes back, under an id that
\* names the slot and the athlete only.
ReleaseTx(s, a) == <<"release", s, a, 0>>

ApplyRelease(t, s, percent) ==
    LET refund == (paid[t][s] * percent) \div 100
    IN  /\ Unlocked
        /\ marketOpen
        /\ t \in created
        /\ Room(t)
        /\ slot[t][s] # NoAthlete
        /\ account' = [account EXCEPT
               ![t] = IF refund > 0 THEN Post(@, ReleaseTx(s, slot[t][s]), refund) ELSE @]
        /\ Vacate(t, s)
        /\ UNCHANGED <<marketOpen, created, draft, job>>

-----------------------------------------------------------------------------
(* Imports and random rosters: several rows in one transaction *)

\* Slot s is the n-th free slot of a team, counting from 0.
NthFree(t, n, s) ==
    /\ s \in FreeSlots(slot[t])
    /\ Cardinality({r \in FreeSlots(slot[t]) : r < s}) = n

\* preview_csv_import with a file without errors: no row is written yet.
PreviewCsvImport(rows) ==
    /\ Unlocked
    /\ draft.status # "draft"
    /\ \A i \in DOMAIN rows : rows[i].team \in created /\ Owner(rows[i].athlete) = {}
    /\ \A i, j \in DOMAIN rows : rows[i].athlete = rows[j].athlete => i = j
    /\ draft' = [status |-> "draft", rows |-> rows]
    /\ UNCHANGED <<marketOpen, created, slot, paid, active, account, composition, job>>

\* Rows of the same team before row i.
Earlier(rows, i) == {j \in 1..(i - 1) : rows[j].team = rows[i].team}

\* recompute_slot_assignments: slots and credits are checked again, for the
\* file as a whole; owners and role quotas are not.
RowsFit(rows) ==
    LET spent[i \in 0..Len(rows)] ==
            [t \in Teams |-> IF i = 0 THEN 0
                             ELSE spent[i - 1][t] +
                                  (IF rows[i].team = t THEN rows[i].price ELSE 0)]
    IN  \A i \in 1..Len(rows) :
            /\ Cardinality(Earlier(rows, i)) < Cardinality(FreeSlots(slot[rows[i].team]))
            /\ spent[i][rows[i].team] <= account[rows[i].team].balance

StartJob(prefix, rows) ==
    job' = [prefix |-> prefix, rows |-> rows,
            touched |-> {rows[i].team : i \in 1..Len(rows)},
            saved |-> [slot |-> slot, paid |-> paid, active |-> active, account |-> account]]

ConfirmCsvImport ==
    /\ Unlocked
    /\ marketOpen
    /\ draft.status = "draft"
    /\ Len(draft.rows) > 0
    /\ RowsFit(draft.rows)
    /\ \E place \in [1..Len(draft.rows) -> Slots] :
          /\ \A i \in 1..Len(draft.rows) :
                NthFree(draft.rows[i].team, Cardinality(Earlier(draft.rows, i)), place[i])
          /\ StartJob("csv-purchase",
                 [i \in 1..Len(draft.rows) |->
                     [team |-> draft.rows[i].team, athlete |-> draft.rows[i].athlete,
                      price |-> draft.rows[i].price, slot |-> place[i]]])
    /\ UNCHANGED <<marketOpen, created, slot, paid, active, account, composition, draft>>

\* assign_random_ai_roster: fill every role up to its limit, roles in order.
Needed(t, r) ==
    LET filled == Cardinality(SlotsOfRole(slot[t], r))
    IN  IF Limit[r] > filled THEN Limit[r] - filled ELSE 0

AssignRandomAiRoster(t, picks) ==
    /\ Unlocked
    /\ marketOpen
    /\ t \in created \cap AiTeams
    /\ Len(picks) > 0
    /\ Len(picks) <= Cardinality(FreeSlots(slot[t]))
    /\ \A i, j \in 1..Len(picks) :
          i < j => picks[i] # picks[j] /\ Role[picks[i]] <= Role[picks[j]]
    /\ \A i \in 1..Len(picks) : Owner(picks[i]) = {}
    /\ \A r \in Roles : Cardinality({i \in 1..Len(picks) : Role[picks[i]] = r}) = Needed(t, r)
    /\ \E place \in [1..Len(picks) -> Slots] :
          /\ \A i \in 1..Len(picks) : NthFree(t, i - 1, place[i])
          /\ StartJob("random-ai",
                 [i \in 1..Len(picks) |->
                     [team |-> t, athlete |-> picks[i], price |-> RandomPrice,
                      slot |-> place[i]]])
    /\ UNCHANGED <<marketOpen, created, slot, paid, active, account, composition, draft>>

\* _apply_assignment_without_commit, on the first row left.
RowTx(row) == <<job.prefix, row.slot, row.athlete, 0>>

RowAdmitted(row) ==
    /\ Owner(row.athlete) \subseteq {row.team}
    /\ slot[row.team][row.slot] = NoAthlete
    /\ WithinQuota(slot[row.team], row.slot, row.athlete)
    /\ ~SlotConflict(row.team, row.slot, row.athlete)

RowPayable(row) ==
    row.price > 0 => CanPost(account[row.team], RowTx(row), 0 - row.price)

Fill(row) ==
    /\ slot' = [slot EXCEPT ![row.team][row.slot] = row.athlete]
    /\ paid' = [paid EXCEPT ![row.team][row.slot] = row.price]

JobRow ==
    /\ job.rows # << >>
    /\ LET row == Head(job.rows)
       IN  /\ RowAdmitted(row)
           /\ RowPayable(row)
           /\ ~IntervalConflict(row.team, row.slot, row.athlete)
           /\ Fill(row)
           /\ account' = [account EXCEPT ![row.team] =
                  IF row.price > 0 THEN Post(@, RowTx(row), 0 - row.price) ELSE @]
           /\ active' = [active EXCEPT ![row.team][row.slot] = row.athlete]
    /\ job' = [job EXCEPT !.rows = Tail(@)]
    /\ UNCHANGED <<marketOpen, created, composition, draft>>

\* Faulty variant of JobRowRefused: the import goes on with the next row.
JobRowSkipped ==
    /\ job.rows # << >>
    /\ ~RowAdmitted(Head(job.rows))
    /\ job' = [job EXCEPT !.rows = Tail(@)]
    /\ UNCHANGED <<marketOpen, created, slot, paid, active, account, composition, draft>>

\* A refused row ends the request; the rows before it are committed.
JobRowRefused ==
    /\ job.rows # << >>
    /\ ~RowAdmitted(Head(job.rows))
    /\ job' = Idle
    /\ UNCHANGED <<marketOpen, created, slot, paid, active, account, composition, draft>>

\* As AssignSlotOverdrawn: the slot of the refused row is committed too.
JobRowOverdrawn ==
    /\ job.rows # << >>
    /\ RowAdmitted(Head(job.rows))
    /\ ~RowPayable(Head(job.rows))
    /\ Fill(Head(job.rows))
    /\ job' = Idle
    /\ UNCHANGED <<marketOpen, created, active, account, composition, draft>>

\* The IntegrityError of the interval is not caught: the request rolls back.
JobRollback ==
    /\ job.rows # << >>
    /\ LET row == Head(job.rows)
       IN  /\ RowAdmitted(row)
           /\ RowPayable(row)
           /\ IntervalConflict(row.team, row.slot, row.athlete)
    /\ slot' = job.saved.slot
    /\ paid' = job.saved.paid
    /\ active' = job.saved.active
    /\ account' = job.saved.account
    /\ job' = Idle
    /\ UNCHANGED <<marketOpen, created, composition, draft>>

\* The end of confirm_csv_import or assign_random_ai_roster.
JobEnd ==
    /\ ~Unlocked
    /\ job.rows = << >>
    /\ composition' = [t \in Teams |->
           IF t \in job.touched THEN CompositionStatus(slot[t]) ELSE composition[t]]
    /\ draft' = IF job.prefix = "csv-purchase"
                THEN [status |-> "confirmed", rows |-> << >>]
                ELSE draft
    /\ job' = Idle
    /\ UNCHANGED <<marketOpen, created, slot, paid, active, account>>

-----------------------------------------------------------------------------
SeqsUpTo(S, n) == UNION {[1..k -> S] : k \in 1..n}

ImportRows == [team : Teams, athlete : Athletes, price : ImportPrices]

AssignRequest(t, s, a, p) ==
    \/ AssignSlot(t, s, a, p)
    \/ AssignSlotOverdrawn(t, s, a, p)
    \/ AssignSlotDuplicate(t, s, a, p)

Next ==
    \/ \E t \in Teams : EnsureTeam(t)
    \/ \E open \in BOOLEAN : SetMarketOpen(open)
    \/ \E t \in Teams, id \in AdminIds, amount \in AdminAmounts :
           AdminPostCreditMovement(t, id, amount)
    \/ \E t \in Teams, s \in Slots, a \in Athletes, p \in Prices : AssignRequest(t, s, a, p)
    \/ \E t \in Teams, s \in Slots : ReleaseSlot(t, s)
    \/ \E t \in Teams, s \in Slots, percent \in ReleasePercents : ApplyRelease(t, s, percent)
    \/ \E rows \in SeqsUpTo(ImportRows, MaxRows) : PreviewCsvImport(rows)
    \/ ConfirmCsvImport
    \/ \E t \in AiTeams, picks \in SeqsUpTo(Athletes, Cardinality(Slots)) :
           AssignRandomAiRoster(t, picks)
    \/ JobRow
    \/ JobRowRefused
    \/ JobRowOverdrawn
    \/ JobRollback
    \/ JobEnd

Spec == Init /\ [][Next]_vars

-----------------------------------------------------------------------------
(* Properties *)

(* The balance of every account can be reconstructed from its ledger:      *)
(* balance_after links each entry to the one before, the stored balance is *)
(* the last link, and no transaction id is applied twice, whatever         *)
(* handler failed half way (ledger.py, apply_ledger_movement).             *)
LedgerChain == \A t \in Teams : Chained(account[t]) /\ TxUnique(account[t])

(* League exclusivity: an athlete is in one slot of one team at most,      *)
(* partial commits of assign_slot and of imports included.                 *)
OneOwner == Exclusive(slot)

(* No roster exceeds the league's limit for a role, although the quota     *)
(* check discounts the replaced athlete twice (would_exceed_role_quota).   *)
QuotaRespected == \A t \in Teams : RespectsQuota(slot[t])

(* A team shown as validated (Convalidata) has every slot filled and the   *)
(* exact number of athletes per role, even when a later assignment was     *)
(* committed half way without sync_team_composition_status.                *)
ValidatedIsComplete ==
    \A t \in Teams : composition[t] = "validated" => Complete(slot[t])

(* release_slot always pays the purchase price back, also the second time  *)
(* the same athlete leaves the same slot: the account version in the       *)
(* refund's transaction id keeps it from being taken for a replay.         *)
ReleasePaysBack ==
    [][\A t \in Teams, s \in Slots :
          ReleaseSlot(t, s) => account'[t].balance = account[t].balance + paid[t][s]]_vars

(* An import that ends as confirmed has put every athlete of its rows on   *)
(* the row's team: no row is dropped silently.                             *)
ConfirmedImportIsComplete ==
    [][(draft.status = "draft" /\ draft'.status = "confirmed")
          => \A i \in DOMAIN draft.rows :
                Holds(slot'[draft.rows[i].team], draft.rows[i].athlete)]_vars
=============================================================================
