----------------------------- MODULE LiveAuction -----------------------------
(***************************************************************************)
(* One live auction session of a league                                    *)
(* (backend/src/market/live_service.py, live_validators.py,                *)
(* live_windows.py and the sale of assignment.py), on top of the rosters   *)
(* and credits of FantasyTeams, which the admin and the managers keep      *)
(* changing while the auction runs.                                        *)
(*                                                                         *)
(* A lot is the element of `lots' at its sequence number.  Its window is   *)
(* a deadline: `left' is the time to it, and the first request that finds  *)
(* the lot expired finalizes it and COMMITS (_tick_current_lot).  That     *)
(* commit releases the locks of the request, which then goes on with what  *)
(* it had read: such requests wait in lateCalls and lateRaises, and every  *)
(* step of another request can come before their next one.  Every other    *)
(* request is one step, behind the row of the league, session or lot it    *)
(* locks.                                                                  *)
(***************************************************************************)
EXTENDS FantasyTeams

CONSTANTS
    Admin,          \* the league admin or the session's delegate
    NoTeam,         \* no leader yet
    Modes,          \* nomination modes the admin may choose
    RaiseAmounts,   \* amounts a manager may send
    MinIncrement,   \* min_increment_credits of the session
    Duration,       \* lot_duration_seconds, in clock steps
    Soft,           \* soft_close_seconds, in clock steps
    MaxLots,        \* bound: lots of the session
    MaxLate         \* bound: requests that go on after a committing tick

ASSUME LiveAssumption ==
    /\ Admin \notin Teams /\ NoTeam \notin Teams
    /\ Modes \subseteq {"manual", "sequential", "generated", "turn_based"}
    /\ RaiseAmounts \subseteq Nat
    /\ MinIncrement \in Nat \ {0} /\ Duration \in Nat \ {0} /\ Soft \in Nat \ {0}
    /\ MaxLots \in Nat /\ MaxLate \in Nat

VARIABLES
    sessionStatus,  \* market_sessions.status
    mode,           \* market_sessions.nomination_mode
    queue,          \* nomination queue entries not consumed yet, by position
    turnOrder,      \* market_live_turn_order
    lots,           \* market_live_lots, by sequence number
    lateCalls,      \* nominate_lot after a committing tick
    lateRaises      \* place_raise after a committing tick

rosterVars == <<marketOpen, created, slot, paid, active, account, composition, draft, job>>
sessionVars == <<sessionStatus, mode, queue, turnOrder>>
lateVars == <<lateCalls, lateRaises>>
liveVars == <<rosterVars, sessionVars, lots, lateVars>>

Callers == Teams \cup {Admin}

Lots == [athlete : Athletes, leader : Teams \cup {NoTeam}, amount : Nat, left : Nat,
         status : {"open", "sold", "passed", "cancelled", "pending_swap"}]

Calls == [step : {"ticked", "checked"}, by : Callers, athlete : Athletes]

Raises == [team : Teams, lot : Nat, amount : RaiseAmounts]

LiveTypeOK ==
    /\ TypeOK
    /\ sessionStatus \in {"none", "scheduled", "open", "resolved"}
    /\ mode \in {"manual", "sequential", "generated", "turn_based"}
    /\ queue \in Seq(Athletes)
    /\ turnOrder \in Seq(Teams)
    /\ lots \in Seq(Lots)
    /\ lateCalls \subseteq Calls
    /\ lateRaises \subseteq Raises

\* Every team exists and nothing is assigned: the initial auction.
LiveInit ==
    /\ marketOpen = TRUE
    /\ created = Teams
    /\ slot = Blank.slot /\ paid = Blank.paid /\ active = Blank.active
    /\ account = [t \in Teams |-> OpenAccount(TotalCredits)]
    /\ composition = [t \in Teams |-> "incomplete"]
    /\ draft = [status |-> "none", rows |-> << >>]
    /\ job = Idle
    /\ sessionStatus = "none" /\ mode = "manual"
    /\ queue = << >> /\ turnOrder = << >> /\ lots = << >>
    /\ lateCalls = {} /\ lateRaises = {}

OpenLots == {i \in DOMAIN lots : lots[i].status = "open"}

\* lot_window_is_open and lot_is_expired
WindowOpen(i) == i \in OpenLots /\ lots[i].left > 0
Expired(i) == i \in OpenLots /\ lots[i].left = 0

Close(i, status) == lots' = [lots EXCEPT ![i].status = status]

\* The unique index on (session_id, athlete_id) of open and sold lots.
OnBlockOrSold(a) == {i \in DOMAIN lots : lots[i].athlete = a /\ lots[i].status \in {"open", "sold"}}

-----------------------------------------------------------------------------
(* The session *)

QueueOf(S) == {q \in UNION {[1..n -> S] : n \in 0..Cardinality(S)} :
                 \A i, j \in DOMAIN q : q[i] = q[j] => i = j}

FreeAgents == {a \in Athletes : Owner(a) = {}}

(* create_session.  Only a sequential list comes from the admin; a list    *)
(* with an invalid id is committed up to that id.                          *)
CreateSession(m, q, order) ==
    /\ marketOpen
    /\ sessionStatus = "none"
    /\ q # << >> => m \in {"sequential", "generated"}
    /\ m = "generated" => {q[i] : i \in DOMAIN q} = FreeAgents
    /\ IF m = "turn_based"
       THEN Len(order) = Cardinality(Teams) /\ {order[i] : i \in DOMAIN order} = Teams
       ELSE order = << >>
    /\ sessionStatus' = "scheduled"
    /\ mode' = m
    /\ queue' = q
    /\ turnOrder' = order
    /\ UNCHANGED <<rosterVars, lots, lateVars>>

\* configure_session replaces the list; neither the league nor the gate.
ConfigureSession(q) ==
    /\ sessionStatus = "scheduled"
    /\ mode = "sequential"
    /\ queue' = q
    /\ UNCHANGED <<rosterVars, sessionStatus, mode, turnOrder, lots, lateVars>>

StartSession ==
    /\ marketOpen
    /\ sessionStatus = "scheduled"
    /\ sessionStatus' = "open"
    /\ UNCHANGED <<rosterVars, mode, queue, turnOrder, lots, lateVars>>

\* end_session, with _auto_decline_pending_swaps
EndSession ==
    /\ sessionStatus \in {"scheduled", "open"}
    /\ OpenLots = {}
    /\ sessionStatus' = "resolved"
    /\ lots' = [i \in DOMAIN lots |->
           IF lots[i].status = "pending_swap" THEN [lots[i] EXCEPT !.status = "passed"] ELSE lots[i]]
    /\ UNCHANGED <<rosterVars, mode, queue, turnOrder, lateVars>>

-----------------------------------------------------------------------------
(* The end of a lot: sold, pending_swap or passed *)

\* _finalize_slot_assignment is not refused.
CanTake(t, s, a, acc, amount) ==
    /\ acc.balance >= amount
    /\ WithinQuota(slot[t], s, a)
    /\ ~SlotConflict(t, s, a)

(* _finalize_slot_assignment, on an account the swap may have refunded.    *)
(* The unique index of the open intervals is not caught: no step.          *)
Take(t, s, a, acc, amount, tx) ==
    /\ ~IntervalConflict(t, s, a)
    /\ Len(acc.entries) < MaxEntries
    /\ account' = [account EXCEPT ![t] = Post(acc, tx, 0 - amount)]
    /\ slot' = [slot EXCEPT ![t][s] = a]
    /\ paid' = [paid EXCEPT ![t][s] = amount]
    /\ active' = [active EXCEPT ![t][s] = a]
    /\ composition' = [composition EXCEPT ![t] = CompositionStatus(slot'[t])]
    /\ UNCHANGED <<marketOpen, created, draft, job>>

\* assign_winning_bid: the first free slot of the winner.
Assignable(i) ==
    LET t == lots[i].leader
    IN  /\ FreeSlots(slot[t]) # {}
        /\ CanTake(t, FirstFree(slot[t]), lots[i].athlete, account[t], lots[i].amount)

\* _pending_swap_candidates
SwapCandidates(i) == SlotsOfRole(slot[lots[i].leader], Role[lots[i].athlete])

SaleTx(i) == <<"market-live", 0, lots[i].athlete, i>>

SellLot(i) ==
    LET t == lots[i].leader
    IN  \/ /\ Assignable(i)
           /\ Take(t, FirstFree(slot[t]), lots[i].athlete, account[t], lots[i].amount, SaleTx(i))
           /\ Close(i, "sold")
        \/ /\ account[t].balance < lots[i].amount
           /\ Close(i, "passed")
           /\ UNCHANGED rosterVars
        \/ /\ account[t].balance >= lots[i].amount
           /\ ~Assignable(i)
           /\ Close(i, IF SwapCandidates(i) # {} THEN "pending_swap" ELSE "passed")
           /\ UNCHANGED rosterVars

\* _pass_lot_internal
PassOpenLot(i) == Close(i, "passed") /\ UNCHANGED rosterVars

\* Faulty variant of Finalize: a lot nobody raised on is left open.
FinalizeSoldOnly(i) == Expired(i) /\ lots[i].leader # NoTeam /\ SellLot(i)

\* _tick_current_lot, up to its commit
Finalize(i) ==
    /\ Expired(i)
    /\ IF lots[i].leader # NoTeam THEN SellLot(i) ELSE PassOpenLot(i)

-----------------------------------------------------------------------------
(* The requests of the operator *)

ForceSellLot(i) ==
    /\ i \in OpenLots
    /\ lots[i].leader # NoTeam
    /\ SellLot(i)
    /\ UNCHANGED <<sessionVars, lateVars>>

\* Faulty variant of PassLot: the status of the lot is not checked.
PassLotUnguarded(i) ==
    /\ PassOpenLot(i)
    /\ UNCHANGED <<sessionVars, lateVars>>

PassLot(i) ==
    /\ i \in OpenLots
    /\ PassOpenLot(i)
    /\ UNCHANGED <<sessionVars, lateVars>>

CancelLot(i) ==
    /\ i \in OpenLots
    /\ lots[i].leader = NoTeam
    /\ Close(i, "cancelled")
    /\ UNCHANGED <<rosterVars, sessionVars, lateVars>>

-----------------------------------------------------------------------------
(* The requests of the winner of a lot its roster has no room for *)

\* Faulty variant of SwapRefund: the released athlete is not paid back.
SwapRefundForgotten(i, s) == account[lots[i].leader]

SwapRefund(i, s) ==
    LET t == lots[i].leader
    IN  IF paid[t][s] > 0
        THEN Post(account[t], <<"live-swap-release", 0, slot[t][s], i>>, paid[t][s])
        ELSE account[t]

\* resolve_swap: a swap that is not honoured is undone in its savepoint.
ResolveSwap(i, s) ==
    LET t   == lots[i].leader
        a   == lots[i].athlete
        acc == SwapRefund(i, s)
    IN  /\ lots[i].status = "pending_swap"
        /\ slot[t][s] # NoAthlete
        /\ CanTake(t, s, a, acc, lots[i].amount)
        /\ OnBlockOrSold(a) = {}
        /\ Take(t, s, a, acc, lots[i].amount, <<"live-swap-acquire", 0, a, i>>)
        /\ Close(i, "sold")
        /\ UNCHANGED <<sessionVars, lateVars>>

DeclineSwap(i) ==
    /\ lots[i].status = "pending_swap"
    /\ Close(i, "passed")
    /\ UNCHANGED <<rosterVars, sessionVars, lateVars>>

-----------------------------------------------------------------------------
(* nominate_lot *)

\* _current_turn_team_id: the lots called so far decide whose turn it is.
MyTurn(t) ==
    /\ mode = "turn_based"
    /\ turnOrder # << >>
    /\ turnOrder[(Len(lots) % Len(turnOrder)) + 1] = t

MayNominate(caller) == caller = Admin \/ MyTurn(caller)

\* The athlete of the call: the head of the list, or what the caller asks.
Called(a) ==
    IF mode \in {"sequential", "generated"}
    THEN queue # << >> /\ a = Head(queue)
    ELSE TRUE

\* The checks up to the athlete, and the insertion of the lot.
MayCall(caller, a) == MayNominate(caller) /\ OpenLots = {} /\ Called(a)

\* The entries of the list that do not name the athlete.
Without(q, a) == SelectSeq(q, LAMBDA b : b # a)

InsertLot(a) ==
    /\ a \in FreeAgents
    /\ OnBlockOrSold(a) = {}
    /\ Len(lots) < MaxLots
    /\ lots' = Append(lots, [athlete |-> a, leader |-> NoTeam, amount |-> 0,
                             left |-> Duration, status |-> "open"])
    /\ queue' = IF mode \in {"sequential", "generated"}
                THEN Without(queue, a) ELSE queue
    /\ UNCHANGED <<rosterVars, sessionStatus, mode, turnOrder>>

NominateLot(caller, a) ==
    /\ marketOpen
    /\ sessionStatus = "open"
    /\ MayCall(caller, a)
    /\ InsertLot(a)
    /\ UNCHANGED lateVars

\* The request after its tick: what its checks leave of call c.
Checked(c) ==
    {[c EXCEPT !.step = "checked", !.athlete = a] :
        a \in {b \in Athletes : /\ MayCall(c.by, b)
                                /\ mode \in {"manual", "turn_based"} => b = c.athlete}}

\* Faulty variant of CheckLateCall: the entry is consumed by the check.
CheckLateCallConsuming(c) ==
    /\ c.step = "ticked"
    /\ lateCalls' = (lateCalls \ {c}) \cup Checked(c)
    /\ queue' = SelectSeq(queue, LAMBDA b : Checked(c) = {} \/ b # Head(queue))
    /\ UNCHANGED <<rosterVars, sessionStatus, mode, turnOrder, lots, lateRaises>>

\* No lock and no gate any more.
CheckLateCall(c) ==
    /\ c.step = "ticked"
    /\ lateCalls' = (lateCalls \ {c}) \cup Checked(c)
    /\ UNCHANGED <<rosterVars, sessionVars, lots, lateRaises>>

InsertLateCall(c) ==
    /\ c.step = "checked"
    /\ InsertLot(c.athlete)
    /\ lateCalls' = lateCalls \ {c}
    /\ UNCHANGED lateRaises

LateCallRefused(c) ==
    /\ c.step = "checked"
    /\ c.athlete \notin FreeAgents \/ OnBlockOrSold(c.athlete) # {}

\* The athlete is not free any more, or is on the block: 400.
RefuseLateCall(c) ==
    /\ LateCallRefused(c)
    /\ lateCalls' = lateCalls \ {c}
    /\ UNCHANGED <<rosterVars, sessionVars, lots, lateRaises>>

-----------------------------------------------------------------------------
(* place_raise *)

\* Faulty variant of MinimumNext: a raise may equal the current amount.
MinimumNextEqual(lot) == IF lot.leader = NoTeam THEN MinIncrement ELSE lot.amount

\* compute_minimum_next_amount
MinimumNext(lot) == IF lot.leader = NoTeam THEN MinIncrement ELSE lot.amount + MinIncrement

\* The soft close.
Extended(left) == IF left <= Soft THEN Soft ELSE left

RaiseLot(t, i, amount) ==
    /\ WindowOpen(i)
    /\ lots[i].leader # t
    /\ amount >= MinimumNext(lots[i])
    /\ amount <= account[t].balance
    /\ lots' = [lots EXCEPT ![i].leader = t, ![i].amount = amount, ![i].left = Extended(@)]
    /\ UNCHANGED <<rosterVars, sessionVars>>

\* The session's status is not checked.
PlaceRaise(t, i, amount) ==
    /\ marketOpen
    /\ RaiseLot(t, i, amount)
    /\ UNCHANGED lateVars

\* The same request after its tick has committed: no lock and no gate.
PlaceLateRaise(r) ==
    /\ RaiseLot(r.team, r.lot, r.amount)
    /\ lateRaises' = lateRaises \ {r}
    /\ UNCHANGED lateCalls

RefuseLateRaise(r) ==
    /\ \/ ~WindowOpen(r.lot)
       \/ lots[r.lot].leader = r.team
       \/ r.amount < MinimumNext(lots[r.lot])
       \/ r.amount > account[r.team].balance
    /\ lateRaises' = lateRaises \ {r}
    /\ UNCHANGED <<rosterVars, sessionVars, lots, lateCalls>>

-----------------------------------------------------------------------------
(* The requests that find a lot expired, and the clock *)

LateRoom == Cardinality(lateCalls) + Cardinality(lateRaises) < MaxLate

\* get_state: a poll finalizes only while the session is open.
PollState(i) ==
    /\ sessionStatus = "open"
    /\ Finalize(i)
    /\ UNCHANGED <<sessionVars, lateVars>>

\* nominate_lot: refused after its tick unless the session was open.
NominateTicks(i, caller, a) ==
    /\ marketOpen
    /\ LateRoom
    /\ Finalize(i)
    /\ lateCalls' = IF sessionStatus = "open"
                    THEN lateCalls \cup {[step |-> "ticked", by |-> caller, athlete |-> a]}
                    ELSE lateCalls
    /\ UNCHANGED <<sessionVars, lateRaises>>

\* place_raise on lot j: refused after its tick unless j is another open lot.
RaiseTicks(i, t, j, amount) ==
    /\ marketOpen
    /\ LateRoom
    /\ Finalize(i)
    /\ lateRaises' = IF j \in OpenLots \ {i}
                     THEN lateRaises \cup {[team |-> t, lot |-> j, amount |-> amount]}
                     ELSE lateRaises
    /\ UNCHANGED <<sessionVars, lateCalls>>

Clock ==
    /\ \E i \in OpenLots : lots[i].left > 0
    /\ lots' = [i \in DOMAIN lots |->
           [lots[i] EXCEPT !.left = IF @ > 0 /\ i \in OpenLots THEN @ - 1 ELSE @]]
    /\ UNCHANGED <<rosterVars, sessionVars, lateVars>>

-----------------------------------------------------------------------------
RosterStep ==
    /\ \/ \E open \in BOOLEAN : SetMarketOpen(open)
       \/ \E t \in Teams, id \in AdminIds, amount \in AdminAmounts :
              AdminPostCreditMovement(t, id, amount)
       \/ \E t \in Teams, s \in Slots, a \in Athletes, p \in Prices : AssignRequest(t, s, a, p)
       \/ \E t \in Teams, s \in Slots : ReleaseSlot(t, s)
       \/ \E t \in Teams, s \in Slots, percent \in ReleasePercents : ApplyRelease(t, s, percent)
    /\ UNCHANGED <<sessionVars, lots, lateVars>>

SessionStep ==
    \/ \E m \in Modes, q \in QueueOf(Athletes), order \in {<< >>} \cup [1..Cardinality(Teams) -> Teams] :
           CreateSession(m, q, order)
    \/ \E q \in QueueOf(Athletes) : ConfigureSession(q)
    \/ StartSession
    \/ EndSession

LotStep ==
    \/ \E caller \in Callers, a \in Athletes : NominateLot(caller, a)
    \/ \E t \in Teams, i \in DOMAIN lots, amount \in RaiseAmounts : PlaceRaise(t, i, amount)
    \/ \E i \in DOMAIN lots : ForceSellLot(i) \/ PassLot(i) \/ CancelLot(i)
    \/ \E i \in DOMAIN lots, s \in Slots : ResolveSwap(i, s)
    \/ \E i \in DOMAIN lots : DeclineSwap(i)

TickStep ==
    \/ \E i \in DOMAIN lots : PollState(i)
    \/ \E i \in DOMAIN lots, caller \in Callers, a \in Athletes : NominateTicks(i, caller, a)
    \/ \E i, j \in DOMAIN lots, t \in Teams, amount \in RaiseAmounts : RaiseTicks(i, t, j, amount)
    \/ Clock

LateStep ==
    \/ \E c \in lateCalls : CheckLateCall(c) \/ InsertLateCall(c) \/ RefuseLateCall(c)
    \/ \E r \in lateRaises : PlaceLateRaise(r) \/ RefuseLateRaise(r)

LiveNext == RosterStep \/ SessionStep \/ LotStep \/ TickStep \/ LateStep

LiveSpec == LiveInit /\ [][LiveNext]_liveVars

(* Clients poll the state of an open session for as long as it is shown    *)
(* (docs/api/realtime.md: every 2.5 seconds), and time passes.                  *)
FairLiveSpec ==
    /\ LiveSpec
    /\ WF_liveVars(Clock)
    /\ WF_liveVars(\E i \in DOMAIN lots : PollState(i))

-----------------------------------------------------------------------------
(* Properties *)

Auction(i) ==
    INSTANCE EnglishAuction WITH
        Bidders <- Teams,
        Nobody <- NoTeam,
        phase <- IF i \in DOMAIN lots THEN lots[i].status ELSE "none",
        leader <- IF i \in DOMAIN lots THEN lots[i].leader ELSE NoTeam,
        amount <- IF i \in DOMAIN lots THEN lots[i].amount ELSE 0

(* Every lot is an English auction, whatever the managers, the operator,   *)
(* the end of the session and the polls do to it at the same time.         *)
LotsFollowAuction ==
    /\ \A i \in 1..MaxLots : Auction(i)!Init
    /\ [][\A i \in 1..MaxLots : [Auction(i)!Next]_(Auction(i)!lotVars)]_liveVars

\* The entries of a team's ledger that charge lot i.
Charges(t, i) ==
    {k \in DOMAIN account[t].entries :
        /\ account[t].entries[k].tx[1] \in {"market-live", "live-swap-acquire"}
        /\ account[t].entries[k].tx[4] = i}

(* A lot is sold exactly when the ledger of its winner, and of nobody      *)
(* else, has one charge of its amount: no tick, forced sale or swap sells  *)
(* a lot twice, for free, or charges a lot that is passed afterwards.      *)
SoldIsCharged ==
    \A i \in DOMAIN lots, t \in Teams :
        IF lots[i].status = "sold" /\ lots[i].leader = t
        THEN \E k \in DOMAIN account[t].entries :
                 /\ Charges(t, i) = {k}
                 /\ account[t].entries[k].amount = 0 - lots[i].amount
        ELSE Charges(t, i) = {}

(* A sale, at once or by a swap, puts the athlete on the winner's roster   *)
(* at its price, and the balance pays that price less the price of the     *)
(* athlete that makes room.                                                *)
SaleSettles ==
    [][\A i \in DOMAIN lots :
          (lots[i].status # "sold" /\ lots'[i].status = "sold") =>
              LET t == lots[i].leader
              IN  \E s \in Slots :
                     /\ slot'[t][s] = lots[i].athlete
                     /\ paid'[t][s] = lots[i].amount
                     /\ account'[t].balance = account[t].balance + paid[t][s] - lots[i].amount]_liveVars

(* In an open session an athlete leaves the nomination list only by being  *)
(* called: a refused call keeps its place, whatever overtook it.           *)
ListKept ==
    [][sessionStatus = "open" =>
          \/ queue' = queue
          \/ /\ Len(lots') > Len(lots)
             /\ queue' = Without(queue, lots'[Len(lots')].athlete)]_liveVars

(* While clients poll an open session, every lot called in it ends:        *)
(* nothing but the end of the session leaves a lot open.                   *)
EveryLotEnds ==
    \A i \in 1..MaxLots :
        (i \in OpenLots /\ sessionStatus = "open") ~> (i \notin OpenLots \/ sessionStatus # "open")
=============================================================================
