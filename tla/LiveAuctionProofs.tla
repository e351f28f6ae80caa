------------------------- MODULE LiveAuctionProofs -------------------------
(***************************************************************************)
(* Theorems about LiveAuction for every number of teams, lots and raises:  *)
(* the auction changes rosters and credits only in the ways of             *)
(* FantasyTeamsProofs, so its invariants hold while an auction runs, its   *)
(* late requests and swaps included.                                       *)
(***************************************************************************)
EXTENDS LiveAuction, FantasyTeamsProofs

\* The types of the lots and of the requests that go on without locks.
LotsTypeOK == lots \in Seq(Lots)

LateTypeOK == lateCalls \subseteq Calls /\ lateRaises \subseteq Raises

\* Nobody's lot stands at 0 and waits for nobody's swap.
LedLots ==
    \A i \in DOMAIN lots :
        lots[i].leader = NoTeam => lots[i].amount = 0 /\ lots[i].status # "pending_swap"

LiveOK == TypeOK /\ LotsTypeOK /\ LateTypeOK /\ LedLots

\* How the hammer, the operator or the winner may end lot l with a status.
Ends(l, status) ==
    \/ l.status = "open" /\ l.leader # NoTeam /\ status \in {"sold", "pending_swap", "passed"}
    \/ l.status = "open" /\ l.leader = NoTeam /\ status \in {"passed", "cancelled"}
    \/ l.status = "pending_swap" /\ status \in {"sold", "passed"}

\* What a step may make of lot l.
LotMoves(l, m) ==
    \/ m.status = l.status /\ m.leader = l.leader /\ m.amount = l.amount
    \/ /\ l.status = "open" /\ m.status = "open"
       /\ m.leader \in Teams /\ m.leader # l.leader
       /\ m.amount \in Nat /\ m.amount >= l.amount + MinIncrement
    \/ Ends(l, m.status) /\ m.leader = l.leader /\ m.amount = l.amount

LotsChange ==
    /\ \A i \in DOMAIN lots : i \in DOMAIN lots' /\ LotMoves(lots[i], lots'[i])
    /\ \A i \in DOMAIN lots' \ DOMAIN lots :
          lots'[i].status = "open" /\ lots'[i].leader = NoTeam /\ lots'[i].amount = 0

\* What is to be shown of every action, for the lots and for everything.
LotsStep == LotsTypeOK' /\ LedLots' /\ LotsChange

LiveStepOK == StepOK /\ LateTypeOK' /\ LotsStep

-----------------------------------------------------------------------------
(* Operators of LiveAuction *)

LEMMA LotType ==
    ASSUME LotsTypeOK, NEW i \in DOMAIN lots
    PROVE  /\ lots[i] \in Lots
           /\ i \in Nat
           /\ lots[i].athlete \in Athletes
           /\ lots[i].leader \in Teams \cup {NoTeam}
           /\ lots[i].amount \in Nat
           /\ lots[i].left \in Nat
<1>1. lots[i] \in Lots /\ i \in Nat
  BY DEF LotsTypeOK
<1> QED
  BY <1>1 DEF Lots

LEMMA CloseType ==
    ASSUME LotsTypeOK, LedLots, NEW i \in DOMAIN lots,
           NEW status, Ends(lots[i], status), Close(i, status)
    PROVE  LotsStep
<1> DEFINE new == [lots EXCEPT ![i].status = status]
<1>1. lots' = new
  BY DEF Close
<1>2. lots \in Seq(Lots) /\ lots[i] \in Lots
  BY LotType DEF LotsTypeOK
<1>0. /\ status \in {"sold", "passed", "cancelled", "pending_swap"}
      /\ status = "pending_swap" => lots[i].leader # NoTeam
  BY DEF Ends
<1>3. [lots[i] EXCEPT !.status = status] \in Lots
  BY <1>0, <1>2 DEF Lots
<1>4. new \in Seq(Lots)
  BY <1>2, <1>3
<1>5. DOMAIN new = DOMAIN lots /\ new[i] = [lots[i] EXCEPT !.status = status]
      /\ \A j \in DOMAIN lots \ {i} : new[j] = lots[j]
  BY <1>2
<1>6. new[i].status = status /\ new[i].leader = lots[i].leader /\ new[i].amount = lots[i].amount
  BY <1>2, <1>5 DEF Lots
<1>7. LotsTypeOK' /\ LedLots'
  BY <1>0, <1>1, <1>4, <1>5, <1>6 DEF LotsTypeOK, LedLots
<1> HIDE DEF new
<1>8. LotsChange
  BY <1>1, <1>5, <1>6 DEF LotsChange, LotMoves
<1> QED
  BY <1>7, <1>8 DEF LotsStep

\* _finalize_slot_assignment: one charge, one slot under quota and index.
LEMMA TakeStep ==
    ASSUME TypeOK, NEW t \in Teams, NEW s \in Slots, NEW a \in Athletes,
           NEW acc \in Accounts, MovedOnce(account[t], acc),
           NEW amount \in Nat, NEW tx \in TxIds,
           CanTake(t, s, a, acc, amount), Take(t, s, a, acc, amount, tx)
    PROVE  StepOK
<1> DEFINE new == Post(acc, tx, 0 - amount)
<1>1. 0 - amount \in Int /\ CanPost(acc, tx, 0 - amount)
  BY DEF CanTake, CanPost, Accounts
<1>2. MovedOnce(acc, new) /\ new \in Accounts
  BY <1>1, PostType DEF MovedOnce, Moved
<1>3. account' = [account EXCEPT ![t] = new] /\ slot' = [slot EXCEPT ![t][s] = a]
  BY DEF Take
<1> HIDE DEF new
<1>4. composition' \in [Teams -> {"incomplete", "validated", "invalid"}]
  BY DEF Take, TypeOK, CompositionStatus
<1>5. TypeOK'
  BY <1>2, <1>3, <1>4 DEF Take, TypeOK, TeamSlots
<1>6. AccountChange
  BY <1>2, <1>3 DEF AccountChange
<1>7. SlotChange
  BY <1>3 DEF SlotChange, CanTake
<1>8. SavedChange
  BY DEF Take, SavedChange
<1> QED
  BY <1>5, <1>6, <1>7, <1>8 DEF StepOK

\* A request that leaves rosters and credits alone.
LEMMA RosterUnchanged ==
    ASSUME TypeOK, UNCHANGED rosterVars
    PROVE  StepOK
BY StutterStep DEF rosterVars, vars

\* A request that leaves the lots alone.
LEMMA LotsUnchanged ==
    ASSUME LotsTypeOK, LedLots, UNCHANGED lots
    PROVE  LotsStep
BY DEF LotsTypeOK, LedLots, LotsStep, LotsChange, LotMoves

LEMMA LateUnchanged ==
    ASSUME LateTypeOK, UNCHANGED lateVars
    PROVE  LateTypeOK'
BY DEF LateTypeOK, lateVars

-----------------------------------------------------------------------------
(* The end of a lot *)

LEMMA SellStep ==
    ASSUME LiveOK, NEW i \in OpenLots, lots[i].leader # NoTeam, SellLot(i)
    PROVE  StepOK /\ LotsStep
<1> DEFINE t == lots[i].leader
           s == FirstFree(slot[t])
<1>1. /\ TypeOK /\ LotsTypeOK /\ LedLots
      /\ i \in DOMAIN lots /\ i \in Nat
      /\ t \in Teams /\ lots[i].athlete \in Athletes /\ lots[i].amount \in Nat
  BY LotType DEF LiveOK, OpenLots
<1>2. CASE /\ Assignable(i)
           /\ Take(t, s, lots[i].athlete, account[t], lots[i].amount, SaleTx(i))
           /\ Close(i, "sold")
  <2>1. s \in Slots
    BY <1>2, FirstFreeSlot DEF Assignable
  <2>2. account[t] \in Accounts /\ MovedOnce(account[t], account[t])
    BY <1>1 DEF TypeOK, MovedOnce
  <2>3. SaleTx(i) \in TxIds
    BY <1>1, TxIdType DEF SaleTx, TxPrefixes
  <2>4. CanTake(t, s, lots[i].athlete, account[t], lots[i].amount)
    BY <1>2 DEF Assignable
  <2>5. StepOK
    BY <1>1, <1>2, <2>1, <2>2, <2>3, <2>4, TakeStep
  <2>6. Ends(lots[i], "sold")
    BY DEF OpenLots, Ends
  <2> QED
    BY <1>1, <1>2, <2>5, <2>6, CloseType
<1>3. ASSUME NEW status \in {"passed", "pending_swap"}, Close(i, status), UNCHANGED rosterVars
      PROVE  StepOK /\ LotsStep
  <2>1. Ends(lots[i], status)
    BY DEF OpenLots, Ends
  <2> QED
    BY <1>1, <1>3, <2>1, RosterUnchanged, CloseType
<1> QED
  BY <1>2, <1>3 DEF SellLot

LEMMA FinalizeStep ==
    ASSUME LiveOK, NEW i \in DOMAIN lots, Finalize(i)
    PROVE  StepOK /\ LotsStep
<1>1. i \in OpenLots
  BY DEF Finalize, Expired
<1>2. CASE lots[i].leader # NoTeam
  BY <1>1, <1>2, SellStep DEF Finalize
<1>3. CASE lots[i].leader = NoTeam
  <2>1. Ends(lots[i], "passed")
    BY <1>1, <1>3 DEF OpenLots, Ends
  <2> QED
    BY <1>3, <2>1, RosterUnchanged, CloseType DEF Finalize, PassOpenLot, LiveOK
<1> QED
  BY <1>2, <1>3

LEMMA OperatorSteps ==
    ASSUME LiveOK, NEW i \in DOMAIN lots
    PROVE  /\ ForceSellLot(i) => LiveStepOK
           /\ PassLot(i) => LiveStepOK
           /\ CancelLot(i) => LiveStepOK
           /\ DeclineSwap(i) => LiveStepOK
<1>1. ASSUME ForceSellLot(i)
      PROVE  LiveStepOK
  BY <1>1, SellStep, LateUnchanged DEF ForceSellLot, LiveStepOK, LiveOK
<1>2. ASSUME NEW status, Ends(lots[i], status), Close(i, status),
             UNCHANGED rosterVars, UNCHANGED lateVars
      PROVE  LiveStepOK
  BY <1>2, RosterUnchanged, CloseType, LateUnchanged DEF LiveStepOK, LiveOK
<1>3. PassLot(i) => LiveStepOK
  BY <1>2 DEF PassLot, PassOpenLot, OpenLots, Ends
<1>4. CancelLot(i) => LiveStepOK
  BY <1>2 DEF CancelLot, OpenLots, Ends
<1>5. DeclineSwap(i) => LiveStepOK
  BY <1>2 DEF DeclineSwap, Ends
<1> QED
  BY <1>1, <1>3, <1>4, <1>5

LEMMA SwapStep ==
    ASSUME LiveOK, NEW i \in DOMAIN lots, NEW s \in Slots, ResolveSwap(i, s)
    PROVE  LiveStepOK
<1> DEFINE t == lots[i].leader
           a == lots[i].athlete
           acc == SwapRefund(i, s)
           tx == <<"live-swap-acquire", 0, a, i>>
           back == <<"live-swap-release", 0, slot[t][s], i>>
<1>1. TypeOK /\ LotsTypeOK /\ LedLots /\ LateTypeOK
  BY DEF LiveOK
<1>2. i \in Nat /\ a \in Athletes /\ lots[i].amount \in Nat /\ t \in Teams
  BY <1>1, LotType DEF ResolveSwap, LedLots
<1>3. account[t] \in Accounts /\ paid[t][s] \in Nat /\ slot[t][s] \in Athletes \cup {NoAthlete}
  BY <1>1, <1>2 DEF TypeOK, TeamSlots
<1>4. tx \in TxIds /\ back \in TxIds
  BY <1>2, <1>3, TxIdType DEF TxPrefixes
<1>5. /\ CanTake(t, s, a, acc, lots[i].amount)
      /\ Take(t, s, a, acc, lots[i].amount, tx)
      /\ Close(i, "sold")
      /\ UNCHANGED lateVars
  BY DEF ResolveSwap
<1> HIDE DEF back, tx
<1>6. MovedOnce(account[t], acc) /\ acc \in Accounts
  <2>1. CASE paid[t][s] > 0
    <3>1. CanPost(account[t], back, paid[t][s])
      BY <1>3, <2>1 DEF CanPost, Accounts
    <3>2. acc = Post(account[t], back, paid[t][s])
      BY <2>1 DEF SwapRefund, back
    <3> QED
      BY <1>3, <1>4, <3>1, <3>2, PostType DEF MovedOnce, Moved
  <2>2. CASE ~(paid[t][s] > 0)
    BY <1>3, <2>2 DEF SwapRefund, MovedOnce
  <2> QED
    BY <2>1, <2>2
<1> HIDE DEF acc, a, t
<1>7. StepOK
  BY <1>1, <1>2, <1>4, <1>5, <1>6, TakeStep
<1> QED
  <2>1. Ends(lots[i], "sold")
    BY DEF ResolveSwap, Ends
  <2> QED
    BY <1>1, <1>5, <1>7, <2>1, CloseType, LateUnchanged DEF LiveStepOK

-----------------------------------------------------------------------------
(* Calls, raises and the clock *)

LEMMA InsertStep ==
    ASSUME LotsTypeOK, LedLots, NEW a \in Athletes, InsertLot(a)
    PROVE  LotsStep
<1> DEFINE lot == [athlete |-> a, leader |-> NoTeam, amount |-> 0,
                   left |-> Duration, status |-> "open"]
<1>1. lot \in Lots
  BY LiveAssumption DEF Lots
<1>2. lots \in Seq(Lots) /\ lots' = Append(lots, lot)
  BY DEF LotsTypeOK, InsertLot
<1>3. lot.status = "open" /\ lot.leader = NoTeam /\ lot.amount = 0
  OBVIOUS
<1> HIDE DEF lot
<1>4. lots' \in Seq(Lots) /\ DOMAIN lots' = 1..(Len(lots) + 1) /\ lots'[Len(lots) + 1] = lot
      /\ \A i \in DOMAIN lots : lots'[i] = lots[i]
  BY <1>1, <1>2
<1>5. DOMAIN lots = 1..Len(lots) /\ Len(lots) \in Nat
  BY <1>2
<1> QED
  BY <1>3, <1>4, <1>5 DEF LotsTypeOK, LedLots, LotsStep, LotsChange, LotMoves

LEMMA RaiseStep ==
    ASSUME LiveOK, NEW t \in Teams, NEW i \in DOMAIN lots, NEW amount \in RaiseAmounts,
           RaiseLot(t, i, amount)
    PROVE  StepOK /\ LotsStep
<1> DEFINE new == [lots[i] EXCEPT !.leader = t, !.amount = amount, !.left = Extended(@)]
<1>1. TypeOK /\ LotsTypeOK /\ LedLots /\ amount \in Nat
  BY LiveAssumption DEF LiveOK
<1>2. Extended(lots[i].left) \in Nat
  BY <1>1, LotType, LiveAssumption DEF Extended
<1>3. lots[i] \in Lots
  BY <1>1, LotType
<1>4. new \in Lots /\ new.leader = t /\ new.amount = amount /\ new.status = lots[i].status
  BY <1>1, <1>2, <1>3 DEF Lots
<1>5. lots' = [lots EXCEPT ![i] = new] /\ UNCHANGED rosterVars
  BY DEF RaiseLot
<1>6. t # NoTeam
  BY LiveAssumption
<1> HIDE DEF new
<1>7. lots \in Seq(Lots) /\ lots' \in Seq(Lots) /\ DOMAIN lots' = DOMAIN lots
      /\ \A j \in DOMAIN lots : lots'[j] = IF j = i THEN new ELSE lots[j]
  BY <1>1, <1>4, <1>5 DEF LotsTypeOK
<1>8. LotMoves(lots[i], new)
  <2>1. lots[i].status = "open" /\ lots[i].leader # t /\ amount >= MinimumNext(lots[i])
    BY DEF RaiseLot, WindowOpen, OpenLots
  <2>2. lots[i].leader = NoTeam => lots[i].amount = 0
    BY <1>1 DEF LedLots
  <2> QED
    BY <1>1, <1>3, <1>4, <2>1, <2>2, LiveAssumption DEF MinimumNext, LotMoves, Lots
<1>9. LotsStep
  BY <1>1, <1>4, <1>6, <1>7, <1>8 DEF LotsTypeOK, LedLots, LotsStep, LotsChange, LotMoves
<1> QED
  BY <1>1, <1>5, <1>9, RosterUnchanged

LEMMA EndStep ==
    ASSUME LiveOK, EndSession
    PROVE  LiveStepOK
<1> DEFINE new(i) == IF lots[i].status = "pending_swap" THEN [lots[i] EXCEPT !.status = "passed"]
                     ELSE lots[i]
<1>1. TypeOK /\ LotsTypeOK /\ LedLots /\ LateTypeOK
  BY DEF LiveOK
<1>2. ASSUME NEW i \in DOMAIN lots
      PROVE  /\ new(i) \in Lots /\ new(i).status # "pending_swap"
             /\ new(i).leader = lots[i].leader /\ new(i).amount = lots[i].amount
             /\ LotMoves(lots[i], new(i))
  BY <1>1, LotType DEF Lots, LotMoves, Ends
<1>3. lots' = [i \in DOMAIN lots |-> new(i)] /\ UNCHANGED rosterVars /\ UNCHANGED lateVars
  BY DEF EndSession
<1>4. DOMAIN lots = 1..Len(lots) /\ Len(lots) \in Nat
  BY <1>1 DEF LotsTypeOK
<1> HIDE DEF new
<1>5. lots' \in Seq(Lots) /\ DOMAIN lots' = DOMAIN lots
  BY <1>2, <1>3, <1>4
<1>6. LotsStep
  BY <1>1, <1>2, <1>3, <1>5 DEF LotsTypeOK, LedLots, LotsStep, LotsChange
<1> QED
  BY <1>1, <1>3, <1>6, RosterUnchanged, LateUnchanged DEF LiveStepOK

LEMMA ClockStep ==
    ASSUME LiveOK, Clock
    PROVE  LiveStepOK
<1> DEFINE new(i) == [lots[i] EXCEPT !.left = IF @ > 0 /\ i \in OpenLots THEN @ - 1 ELSE @]
<1>1. TypeOK /\ LotsTypeOK /\ LedLots /\ LateTypeOK
  BY DEF LiveOK
<1>2. ASSUME NEW i \in DOMAIN lots
      PROVE  /\ new(i) \in Lots
             /\ new(i).status = lots[i].status
             /\ new(i).leader = lots[i].leader
             /\ new(i).amount = lots[i].amount
  BY <1>1, LotType DEF Lots
<1>3. lots' = [i \in DOMAIN lots |-> new(i)] /\ UNCHANGED rosterVars /\ UNCHANGED lateVars
  BY DEF Clock
<1>4. DOMAIN lots = 1..Len(lots) /\ Len(lots) \in Nat
  BY <1>1 DEF LotsTypeOK
<1> HIDE DEF new
<1>5. lots' \in Seq(Lots) /\ DOMAIN lots' = DOMAIN lots
  BY <1>2, <1>3, <1>4
<1>6. LotsStep
  BY <1>1, <1>2, <1>3, <1>5 DEF LotsTypeOK, LedLots, LotsStep, LotsChange, LotMoves
<1> QED
  BY <1>1, <1>3, <1>6, RosterUnchanged, LateUnchanged DEF LiveStepOK

-----------------------------------------------------------------------------
(* Requests that go on after a tick *)

LEMMA TickSteps ==
    ASSUME LiveOK, NEW i \in DOMAIN lots
    PROVE  /\ PollState(i) => LiveStepOK
           /\ \A caller \in Callers, a \in Athletes : NominateTicks(i, caller, a) => LiveStepOK
           /\ \A t \in Teams, j \in DOMAIN lots, amount \in RaiseAmounts :
                  RaiseTicks(i, t, j, amount) => LiveStepOK
<1>1. LotsTypeOK /\ LateTypeOK
  BY DEF LiveOK
<1>2. ASSUME PollState(i)
      PROVE  LiveStepOK
  BY <1>1, <1>2, FinalizeStep, LateUnchanged DEF PollState, LiveStepOK
<1>3. ASSUME NEW caller \in Callers, NEW a \in Athletes, NominateTicks(i, caller, a)
      PROVE  LiveStepOK
  <2>1. [step |-> "ticked", by |-> caller, athlete |-> a] \in Calls
    BY DEF Calls
  <2>2. LateTypeOK'
    BY <1>1, <1>3, <2>1 DEF NominateTicks, LateTypeOK
  <2> QED
    BY <1>3, <2>2, FinalizeStep DEF NominateTicks, LiveStepOK
<1>4. ASSUME NEW t \in Teams, NEW j \in DOMAIN lots, NEW amount \in RaiseAmounts,
             RaiseTicks(i, t, j, amount)
      PROVE  LiveStepOK
  <2>1. [team |-> t, lot |-> j, amount |-> amount] \in Raises
    BY <1>1, LotType DEF Raises
  <2>2. LateTypeOK'
    BY <1>1, <1>4, <2>1 DEF RaiseTicks, LateTypeOK
  <2> QED
    BY <1>4, <2>2, FinalizeStep DEF RaiseTicks, LiveStepOK
<1> QED
  BY <1>2, <1>3, <1>4

LEMMA LateCallSteps ==
    ASSUME LiveOK, NEW c \in lateCalls
    PROVE  /\ CheckLateCall(c) => LiveStepOK
           /\ InsertLateCall(c) => LiveStepOK
           /\ RefuseLateCall(c) => LiveStepOK
<1>1. TypeOK /\ LotsTypeOK /\ LedLots /\ LateTypeOK /\ c \in Calls
  BY DEF LiveOK, LateTypeOK
<1>2. ASSUME CheckLateCall(c)
      PROVE  LiveStepOK
  <2>1. ASSUME NEW a \in Athletes
        PROVE  [c EXCEPT !.step = "checked", !.athlete = a] \in Calls
    BY <1>1 DEF Calls
  <2>2. Checked(c) \subseteq Calls
    BY <2>1 DEF Checked
  <2>3. LateTypeOK' /\ UNCHANGED rosterVars /\ UNCHANGED lots
    BY <1>1, <1>2, <2>2 DEF CheckLateCall, LateTypeOK
  <2> QED
    BY <1>1, <2>3, RosterUnchanged, LotsUnchanged DEF LiveStepOK
<1>3. ASSUME InsertLateCall(c)
      PROVE  LiveStepOK
  <2>1. c.athlete \in Athletes
    BY <1>1 DEF Calls
  <2>2. InsertLot(c.athlete) /\ LateTypeOK'
    BY <1>1, <1>3 DEF InsertLateCall, LateTypeOK
  <2>3. StepOK
    BY <1>1, <2>2, RosterUnchanged DEF InsertLot
  <2> QED
    BY <1>1, <2>1, <2>2, <2>3, InsertStep DEF LiveStepOK
<1>4. ASSUME RefuseLateCall(c)
      PROVE  LiveStepOK
  <2>1. LateTypeOK' /\ UNCHANGED rosterVars /\ UNCHANGED lots
    BY <1>1, <1>4 DEF RefuseLateCall, LateTypeOK
  <2> QED
    BY <1>1, <2>1, RosterUnchanged, LotsUnchanged DEF LiveStepOK
<1> QED
  BY <1>2, <1>3, <1>4

LEMMA LateRaiseSteps ==
    ASSUME LiveOK, NEW r \in lateRaises
    PROVE  /\ PlaceLateRaise(r) => LiveStepOK
           /\ RefuseLateRaise(r) => LiveStepOK
<1>1. TypeOK /\ LotsTypeOK /\ LedLots /\ LateTypeOK /\ r \in Raises
  BY DEF LiveOK, LateTypeOK
<1>2. ASSUME PlaceLateRaise(r)
      PROVE  LiveStepOK
  <2>1. r.team \in Teams /\ r.amount \in RaiseAmounts
    BY <1>1 DEF Raises
  <2>2. RaiseLot(r.team, r.lot, r.amount) /\ LateTypeOK'
    BY <1>1, <1>2 DEF PlaceLateRaise, LateTypeOK
  <2>3. r.lot \in DOMAIN lots
    BY <2>2 DEF RaiseLot, WindowOpen, OpenLots
  <2> QED
    BY <2>1, <2>2, <2>3, RaiseStep DEF LiveStepOK
<1>3. ASSUME RefuseLateRaise(r)
      PROVE  LiveStepOK
  <2>1. LateTypeOK' /\ UNCHANGED rosterVars /\ UNCHANGED lots
    BY <1>1, <1>3 DEF RefuseLateRaise, LateTypeOK
  <2> QED
    BY <1>1, <2>1, RosterUnchanged, LotsUnchanged DEF LiveStepOK
<1> QED
  BY <1>2, <1>3

-----------------------------------------------------------------------------
(* Every step of the auction *)

LEMMA SessionSteps ==
    ASSUME LiveOK, SessionStep
    PROVE  LiveStepOK
<1>1. CASE EndSession
  BY <1>1, EndStep
<1>2. CASE /\ UNCHANGED rosterVars /\ UNCHANGED lots /\ UNCHANGED lateVars
  BY <1>2, RosterUnchanged, LotsUnchanged, LateUnchanged DEF LiveStepOK, LiveOK
<1> QED
  BY <1>1, <1>2 DEF SessionStep, CreateSession, ConfigureSession, StartSession

LEMMA RosterSteps ==
    ASSUME LiveOK, RosterStep
    PROVE  LiveStepOK
<1>1. TypeOK /\ UNCHANGED lots /\ UNCHANGED lateVars
  BY DEF LiveOK, RosterStep
<1>2. StepOK
  <2>1. CASE \E open \in BOOLEAN : SetMarketOpen(open)
    BY <1>1, <2>1, CreditSteps
  <2>2. CASE \E t \in Teams, id \in AdminIds, amount \in AdminAmounts :
                 AdminPostCreditMovement(t, id, amount)
    BY <1>1, <2>2, CreditSteps
  <2>3. CASE \E t \in Teams, s \in Slots, a \in Athletes, p \in Prices : AssignRequest(t, s, a, p)
    BY <1>1, <2>3, AssignSteps
  <2>4. CASE \E t \in Teams, s \in Slots : ReleaseSlot(t, s)
    BY <1>1, <2>4, ReleaseSteps
  <2>5. CASE \E t \in Teams, s \in Slots, percent \in ReleasePercents : ApplyRelease(t, s, percent)
    BY <1>1, <2>5, ReleaseSteps
  <2> QED
    BY <2>1, <2>2, <2>3, <2>4, <2>5 DEF RosterStep
<1> QED
  BY <1>1, <1>2, LotsUnchanged, LateUnchanged DEF LiveStepOK, LiveOK

LEMMA LotSteps ==
    ASSUME LiveOK, LotStep
    PROVE  LiveStepOK
<1>1. ASSUME NEW caller \in Callers, NEW a \in Athletes, NominateLot(caller, a)
      PROVE  LiveStepOK
  <2>1. InsertLot(a) /\ UNCHANGED lateVars
    BY <1>1 DEF NominateLot
  <2>2. UNCHANGED rosterVars
    BY <2>1 DEF InsertLot
  <2> QED
    BY <2>1, <2>2, InsertStep, RosterUnchanged, LateUnchanged DEF LiveStepOK, LiveOK
<1>2. ASSUME NEW t \in Teams, NEW i \in DOMAIN lots, NEW amount \in RaiseAmounts,
             PlaceRaise(t, i, amount)
      PROVE  LiveStepOK
  BY <1>2, RaiseStep, LateUnchanged DEF PlaceRaise, LiveStepOK, LiveOK
<1> QED
  BY <1>1, <1>2, OperatorSteps, SwapStep DEF LotStep

LEMMA EveryLiveStep ==
    ASSUME LiveOK, [LiveNext]_liveVars
    PROVE  LiveStepOK
<1>1. CASE TickStep
  BY <1>1, TickSteps, ClockStep DEF TickStep
<1>2. CASE LateStep
  BY <1>2, LateCallSteps, LateRaiseSteps DEF LateStep
<1>3. CASE UNCHANGED liveVars
  BY <1>3, RosterUnchanged, LotsUnchanged, LateUnchanged DEF liveVars, LiveStepOK, LiveOK
<1> QED
  BY <1>1, <1>2, <1>3, SessionSteps, RosterSteps, LotSteps DEF LiveNext

-----------------------------------------------------------------------------
(* Theorems *)

\* The initial auction starts with empty rosters and full accounts.
LEMMA LiveStart ==
    ASSUME LiveInit
    PROVE  LiveOK /\ LedgerInv /\ OwnerInv /\ QuotaInv
<1>1. TypeOK
  BY BlankType, OpenAccountFacts DEF LiveInit, TypeOK, Tables
<1>2. LotsTypeOK /\ LateTypeOK /\ LedLots
  BY DEF LiveInit, LotsTypeOK, LateTypeOK, LedLots
<1>3. LedgerInv
  BY OpenAccountFacts DEF LiveInit, LedgerInv, Idle, Sound
<1>4. OwnerInv
  BY DEF LiveInit, Blank, OwnerInv, Exclusive, Idle
<1>5. QuotaInv
  BY BlankQuota DEF LiveInit, QuotaInv, Idle
<1> QED
  BY <1>1, <1>2, <1>3, <1>4, <1>5 DEF LiveOK

(* While an auction runs every state of rosters and credits is well typed: *)
(* no sale, swap or late request overdraws an account.                     *)
THEOREM AuctionTypeCorrect == LiveSpec => []TypeOK
<1>1. LiveInit => LiveOK
  BY LiveStart
<1>2. LiveOK /\ [LiveNext]_liveVars => LiveOK'
  BY EveryLiveStep DEF LiveStepOK, LotsStep, StepOK, LiveOK
<1>3. LiveOK => TypeOK
  BY DEF LiveOK
<1> QED
  BY <1>1, <1>2, <1>3, PTL DEF LiveSpec

(* While an auction runs every account remains the sum of its ledger, and  *)
(* no sale or refund is posted twice under one transaction id.             *)
THEOREM AuctionLedgerSound == LiveSpec => []LedgerChain
<1>1. LiveInit => LiveOK /\ LedgerInv
  BY LiveStart
<1>2. LiveOK /\ LedgerInv /\ [LiveNext]_liveVars => LiveOK' /\ LedgerInv'
  BY EveryLiveStep, LedgerStep DEF LiveStepOK, LotsStep, StepOK, LiveOK
<1>3. LedgerInv => LedgerChain
  BY DEF LedgerInv, LedgerChain, Sound
<1> QED
  BY <1>1, <1>2, <1>3, PTL DEF LiveSpec

(* An athlete that several lots, a swap and the admin compete for is in    *)
(* one slot of one team at most.                                           *)
THEOREM AuctionExclusivity == LiveSpec => []OneOwner
<1>1. LiveInit => LiveOK /\ OwnerInv
  BY LiveStart
<1>2. LiveOK /\ OwnerInv /\ [LiveNext]_liveVars => LiveOK' /\ OwnerInv'
  BY EveryLiveStep, OwnerStep DEF LiveStepOK, LotsStep, StepOK, LiveOK
<1>3. OwnerInv => OneOwner
  BY DEF OwnerInv, OneOwner
<1> QED
  BY <1>1, <1>2, <1>3, PTL DEF LiveSpec

(* No sale and no swap brings a roster over the limit of a role.           *)
THEOREM AuctionQuotaKept == LiveSpec => []QuotaRespected
<1>1. LiveInit => LiveOK /\ QuotaInv
  BY LiveStart
<1>2. LiveOK /\ QuotaInv /\ [LiveNext]_liveVars => LiveOK' /\ QuotaInv'
  BY EveryLiveStep, QuotaStep DEF LiveStepOK, LotsStep, StepOK, LiveOK
<1>3. QuotaInv => QuotaRespected
  BY DEF QuotaInv, QuotaRespected
<1> QED
  BY <1>1, <1>2, <1>3, PTL DEF LiveSpec

-----------------------------------------------------------------------------
(* The refinement of EnglishAuction *)

LEMMA LotRefines ==
    ASSUME LotsChange, NEW i \in 1..MaxLots
    PROVE  [Auction(i)!Next]_(Auction(i)!lotVars)
<1>1. CASE i \in DOMAIN lots
  <2>1. i \in DOMAIN lots' /\ LotMoves(lots[i], lots'[i])
    BY <1>1 DEF LotsChange
  <2>2. CASE /\ lots'[i].status = lots[i].status
             /\ lots'[i].leader = lots[i].leader
             /\ lots'[i].amount = lots[i].amount
    BY <1>1, <2>1, <2>2 DEF Auction!lotVars
  <2> QED
    BY <1>1, <2>1, <2>2 DEF LotMoves, Ends, Auction!Next, Auction!Raise, Auction!Knock,
                            Auction!Unsold, Auction!Settle
<1>2. CASE i \notin DOMAIN lots /\ i \in DOMAIN lots'
  BY <1>2 DEF LotsChange, Auction!Next, Auction!Open
<1>3. CASE i \notin DOMAIN lots /\ i \notin DOMAIN lots'
  BY <1>3 DEF Auction!lotVars
<1> QED
  BY <1>1, <1>2, <1>3

(* Every lot implements the English auction: a raise tops the last one by  *)
(* the increment, a lot that ended stays ended, and whoever led it last    *)
(* is its only possible winner, with late requests and polls between.      *)
THEOREM LotsAreAuctions == LiveSpec => LotsFollowAuction
<1>1. LiveInit => LiveOK /\ \A i \in 1..MaxLots : Auction(i)!Init
  BY LiveStart DEF LiveInit, Auction!Init
<1>2. LiveOK /\ [LiveNext]_liveVars => LiveOK'
  BY EveryLiveStep DEF LiveStepOK, LotsStep, StepOK, LiveOK
<1>3. LiveOK /\ [LiveNext]_liveVars
      => [\A i \in 1..MaxLots : [Auction(i)!Next]_(Auction(i)!lotVars)]_liveVars
  BY EveryLiveStep, LotRefines DEF LiveStepOK, LotsStep
<1> QED
  BY <1>1, <1>2, <1>3, PTL DEF LiveSpec, LotsFollowAuction

-----------------------------------------------------------------------------
(* Sales and charges *)

SalePrefixes == {"market-live", "live-swap-acquire"}
LivePrefixes == SalePrefixes \cup {"live-swap-release"}

\* What the auction has booked on the account of a team.
LiveBooked(acc) == BookedUnder(acc, LivePrefixes)

Sold(i) == i \in DOMAIN lots /\ lots[i].status = "sold"

(* Inductive: only lots that are sold have been booked, each with one      *)
(* charge of its amount on its winner's account.                           *)
SaleInv ==
    \A t \in Teams :
       /\ \A x \in LiveBooked(account[t]) :
             /\ Sold(x[1][4])
             /\ x[1][1] \in SalePrefixes => /\ lots[x[1][4]].leader = t
                                           /\ x[2] = 0 - lots[x[1][4]].amount
       /\ \A x, y \in LiveBooked(account[t]) :
             (/\ x[1][1] \in SalePrefixes /\ y[1][1] \in SalePrefixes
              /\ x[1][4] = y[1][4]) => x = y
       /\ \A i \in DOMAIN lots :
             Sold(i) /\ lots[i].leader = t =>
                \E x \in LiveBooked(account[t]) : x[1][1] \in SalePrefixes /\ x[1][4] = i

\* Inductive: nothing was paid for a slot that is free.
UnpaidInv == \A t \in Teams, s \in Slots : slot[t][s] = NoAthlete => paid[t][s] = 0

OthersNotSold(S) == \A j \in DOMAIN lots' \ S : lots'[j].status = "sold" => Sold(j)

\* A step that sells nothing ...
NoSale == SameBooked(LivePrefixes) /\ OthersNotSold({})

\* ... and one that sells lot i: its winner is charged, a swap refunded.
Booking(i) ==
    LET t == lots[i].leader
    IN  \E tx \in TxIds, refund \in SUBSET (TxIds \X Nat) :
           /\ tx[1] \in SalePrefixes /\ tx[4] = i
           /\ \A x \in refund : x[1][1] = "live-swap-release" /\ x[1][4] = i
           /\ \A u \in Teams :
                 LiveBooked(account'[u]) =
                    IF u = t THEN (LiveBooked(account[t]) \cup refund) \cup {<<tx, 0 - lots[i].amount>>}
                    ELSE LiveBooked(account[u])

Settled(i) ==
    LET t == lots[i].leader
    IN  \E s \in Slots :
           /\ slot'[t][s] = lots[i].athlete
           /\ paid'[t][s] = lots[i].amount
           /\ account'[t].balance = account[t].balance + paid[t][s] - lots[i].amount

Sale(i) ==
    /\ lots[i].leader \in Teams /\ lots[i].status # "sold" /\ lots'[i].status = "sold"
    /\ OthersNotSold({i})
    /\ Booking(i) /\ Settled(i)

LEMMA CloseSells ==
    ASSUME LotsTypeOK, NEW i \in DOMAIN lots, NEW status, Close(i, status)
    PROVE  /\ lots'[i].status = status /\ OthersNotSold({i})
           /\ status # "sold" => OthersNotSold({})
<1>1. /\ DOMAIN lots' = DOMAIN lots /\ lots'[i] = [lots[i] EXCEPT !.status = status]
      /\ \A j \in DOMAIN lots \ {i} : lots'[j] = lots[j]
  BY DEF Close, LotsTypeOK
<1>2. lots'[i].status = status
  BY <1>1, LotType DEF Lots
<1> QED
  BY <1>1, <1>2 DEF OthersNotSold, Sold

LEMMA SameAccounts ==
    ASSUME UNCHANGED account
    PROVE  SameBooked(LivePrefixes)
BY DEF SameBooked

\* A lot that is not sold has booked nothing.
LEMMA NotBookedYet ==
    ASSUME SaleInv, NEW t \in Teams, account[t] \in Accounts, NEW i, ~Sold(i),
           NEW tx \in TxIds, tx[1] \in LivePrefixes, tx[4] = i
    PROVE  ~Posted(account[t], tx)
<1>1. \A x \in LiveBooked(account[t]) : x[1][4] # i
  BY DEF SaleInv
<1> QED
  BY <1>1, PostedIsBooked DEF LiveBooked, BookedUnder

\* _finalize_slot_assignment for the winner, whose account acc may already
\* have got back what it paid for the athlete that makes room.
LEMMA TakeSells ==
    ASSUME LiveOK, SaleInv, NEW i \in DOMAIN lots, NEW t \in Teams, lots[i].leader = t,
           ~Sold(i), NEW s \in Slots, NEW acc \in Accounts,
           NEW refund \in SUBSET (TxIds \X Nat),
           \A x \in refund : x[1][1] = "live-swap-release" /\ x[1][4] = i,
           LiveBooked(acc) = LiveBooked(account[t]) \cup refund,
           acc.balance = account[t].balance + paid[t][s],
           NEW tx \in TxIds, tx[1] \in SalePrefixes, tx[4] = i,
           Take(t, s, lots[i].athlete, acc, lots[i].amount, tx), Close(i, "sold")
    PROVE  Sale(i)
<1> DEFINE amount == lots[i].amount
           new == Post(acc, tx, 0 - amount)
<1>1. /\ account \in [Teams -> Accounts] /\ slot \in [Teams -> TeamSlots]
      /\ paid \in [Teams -> [Slots -> Nat]] /\ LotsTypeOK
  BY DEF LiveOK, TypeOK
<1>2. amount \in Nat /\ lots[i].athlete \in Athletes
  BY <1>1, LotType
<1>3. account[t] \in Accounts /\ paid[t][s] \in Nat
  BY <1>1
<1>4. account' = [account EXCEPT ![t] = new]
      /\ slot' = [slot EXCEPT ![t][s] = lots[i].athlete] /\ paid' = [paid EXCEPT ![t][s] = amount]
  BY DEF Take
<1>5. \A x \in LiveBooked(acc) : x[1][4] = i => x[1][1] = "live-swap-release"
  BY DEF SaleInv
<1>6. tx[1] \in LivePrefixes /\ tx[1] # "live-swap-release"
  BY DEF LivePrefixes, SalePrefixes
<1>7. ~Posted(acc, tx)
  BY <1>5, <1>6, PostedIsBooked DEF LiveBooked, BookedUnder
<1>8. new.balance = account[t].balance + paid[t][s] - amount
  BY <1>2, <1>3, <1>7 DEF Post, Accounts
<1>9. \A x, n : <<x, n>>[1] = x
  OBVIOUS
<1>10. LiveBooked(new) = LiveBooked(acc) \cup {<<tx, 0 - amount>>}
  BY <1>6, <1>7, <1>9, PostBooks DEF LiveBooked, BookedUnder
<1> HIDE DEF new
<1>11. Booking(i)
  <2>1. \A u \in Teams :
           LiveBooked(account'[u]) =
              IF u = t THEN (LiveBooked(account[t]) \cup refund) \cup {<<tx, 0 - amount>>}
              ELSE LiveBooked(account[u])
    BY <1>1, <1>4, <1>10
  <2> SUFFICES \E x \in TxIds, r \in SUBSET (TxIds \X Nat) :
                  /\ x[1] \in SalePrefixes /\ x[4] = i
                  /\ \A y \in r : y[1][1] = "live-swap-release" /\ y[1][4] = i
                  /\ \A u \in Teams :
                        LiveBooked(account'[u]) =
                           IF u = lots[i].leader
                           THEN (LiveBooked(account[lots[i].leader]) \cup r)
                                   \cup {<<x, 0 - lots[i].amount>>}
                           ELSE LiveBooked(account[u])
    BY DEF Booking
  <2> WITNESS tx \in TxIds, refund \in SUBSET (TxIds \X Nat)
  <2> QED
    BY <2>1
<1>12. Settled(i)
  <2>1. slot'[t][s] = lots[i].athlete /\ paid'[t][s] = amount
    BY <1>1, <1>4 DEF TeamSlots
  <2>2. account'[t].balance = account[t].balance + paid[t][s] - amount
    BY <1>1, <1>4, <1>8
  <2> QED
    BY <2>1, <2>2 DEF Settled
<1> QED
  BY <1>1, <1>11, <1>12, CloseSells DEF Sale, Sold

LEMMA SellSells ==
    ASSUME LiveOK, SaleInv, UnpaidInv, NEW i \in OpenLots, lots[i].leader # NoTeam, SellLot(i)
    PROVE  NoSale \/ Sale(i)
<1> DEFINE t == lots[i].leader
           s == FirstFree(slot[t])
<1>1. /\ TypeOK /\ LotsTypeOK
      /\ i \in DOMAIN lots /\ i \in Nat /\ lots[i].status = "open"
      /\ t \in Teams /\ lots[i].athlete \in Athletes
  BY LotType DEF LiveOK, OpenLots
<1>2. CASE /\ Assignable(i)
           /\ Take(t, s, lots[i].athlete, account[t], lots[i].amount, SaleTx(i))
           /\ Close(i, "sold")
  <2>1. s \in Slots /\ slot[t][s] = NoAthlete
    BY <1>2, FirstFreeSlot DEF Assignable, FreeSlots
  <2>2. account[t] \in Accounts
    BY <1>1 DEF TypeOK
  <2>3. account[t].balance = account[t].balance + paid[t][s]
    BY <1>1, <2>1, <2>2 DEF UnpaidInv, Accounts
  <2>4. SaleTx(i) \in TxIds /\ SaleTx(i)[1] = "market-live" /\ SaleTx(i)[4] = i
    BY <1>1, TxIdType DEF SaleTx, TxPrefixes
  <2>5. ~Sold(i)
    BY <1>1 DEF Sold
  <2>6. LiveBooked(account[t]) = LiveBooked(account[t]) \cup {} /\ {} \in SUBSET (TxIds \X Nat)
    OBVIOUS
  <2> HIDE DEF t, s
  <2>7. Sale(i)
    BY <1>1, <1>2, <2>1, <2>2, <2>3, <2>4, <2>5, <2>6, TakeSells DEF t, SalePrefixes
  <2> QED
    BY <2>7
<1>3. ASSUME NEW status \in {"passed", "pending_swap"}, Close(i, status), UNCHANGED rosterVars
      PROVE  NoSale
  BY <1>1, <1>3, CloseSells, SameAccounts DEF NoSale, rosterVars
<1> QED
  BY <1>2, <1>3 DEF SellLot

LEMMA SwapSells ==
    ASSUME LiveOK, SaleInv, NEW i \in DOMAIN lots, NEW s \in Slots, ResolveSwap(i, s)
    PROVE  Sale(i)
<1> DEFINE t == lots[i].leader
           a == lots[i].athlete
           acc == SwapRefund(i, s)
           tx == <<"live-swap-acquire", 0, a, i>>
           back == <<"live-swap-release", 0, slot[t][s], i>>
           booked == <<back, paid[t][s]>>
           refund == IF paid[t][s] > 0 THEN {booked} ELSE {}
<1>1. TypeOK /\ LotsTypeOK /\ LedLots
  BY DEF LiveOK
<1>2. i \in Nat /\ a \in Athletes /\ t \in Teams /\ lots[i].status = "pending_swap"
  BY <1>1, LotType DEF ResolveSwap, LedLots
<1>3. account[t] \in Accounts /\ paid[t][s] \in Nat /\ slot[t][s] \in Athletes \cup {NoAthlete}
  BY <1>1, <1>2 DEF TypeOK, TeamSlots
<1>4. tx \in TxIds /\ back \in TxIds
  BY <1>2, <1>3, TxIdType DEF TxPrefixes
<1>5. tx[1] = "live-swap-acquire" /\ tx[4] = i /\ back[1] = "live-swap-release" /\ back[4] = i
  OBVIOUS
<1>6. Take(t, s, a, acc, lots[i].amount, tx) /\ Close(i, "sold")
  BY DEF ResolveSwap
<1>7. ~Sold(i)
  BY <1>2 DEF Sold
<1> HIDE DEF back, tx
<1>8. booked[1] = back /\ booked \in TxIds \X Nat
  BY <1>3, <1>4
<1> HIDE DEF booked
<1>9. refund \in SUBSET (TxIds \X Nat)
      /\ \A x \in refund : x[1][1] = "live-swap-release" /\ x[1][4] = i
  BY <1>5, <1>8
<1>10. /\ acc \in Accounts /\ acc.balance = account[t].balance + paid[t][s]
       /\ LiveBooked(acc) = LiveBooked(account[t]) \cup refund
  <2>1. CASE paid[t][s] > 0
    <3>1. acc = Post(account[t], back, paid[t][s])
      BY <2>1 DEF SwapRefund, back
    <3>2. back[1] \in LivePrefixes
      BY <1>5 DEF LivePrefixes
    <3>3. ~Posted(account[t], back)
      BY <1>2, <1>3, <1>4, <1>5, <1>7, <3>2, NotBookedYet
    <3>4. CanPost(account[t], back, paid[t][s])
      BY <1>3, <2>1 DEF CanPost, Accounts
    <3>5. acc \in Accounts
      BY <1>3, <1>4, <3>1, <3>4, PostType
    <3>6. acc.balance = account[t].balance + paid[t][s]
      BY <3>1, <3>3 DEF Post
    <3>7. Bookings(acc) = Bookings(account[t]) \cup {booked}
      BY <1>3, <3>1, <3>3, PostBooks DEF booked
    <3>8. LiveBooked(acc) = LiveBooked(account[t]) \cup {booked}
      BY <1>8, <3>2, <3>7 DEF LiveBooked, BookedUnder
    <3> QED
      BY <2>1, <3>5, <3>6, <3>8
  <2>2. CASE ~(paid[t][s] > 0)
    <3>1. acc = account[t] /\ refund = {} /\ paid[t][s] = 0
      BY <1>3, <2>2 DEF SwapRefund
    <3> QED
      BY <1>3, <3>1 DEF Accounts
  <2> QED
    BY <2>1, <2>2
<1> HIDE DEF acc, refund
<1>11. Take(t, s, lots[i].athlete, acc, lots[i].amount, tx) /\ tx[1] \in SalePrefixes
  BY <1>5, <1>6 DEF SalePrefixes
<1> HIDE DEF a, t
<1> QED
  BY <1>2, <1>4, <1>5, <1>6, <1>7, <1>9, <1>10, <1>11, TakeSells DEF t

LEMMA FinalizeSells ==
    ASSUME LiveOK, SaleInv, UnpaidInv, NEW i \in DOMAIN lots, Finalize(i)
    PROVE  NoSale \/ Sale(i)
<1>1. i \in OpenLots
  BY DEF Finalize, Expired
<1>2. CASE lots[i].leader # NoTeam
  BY <1>1, <1>2, SellSells DEF Finalize
<1>3. CASE lots[i].leader = NoTeam
  <2>1. Close(i, "passed") /\ account' = account /\ LotsTypeOK
    BY <1>3 DEF Finalize, PassOpenLot, LiveOK, rosterVars
  <2>2. ASSUME NEW status, status # "sold", Close(i, status)
        PROVE  OthersNotSold({})
    BY <2>1, <2>2, CloseSells
  <2>3. SameBooked(LivePrefixes)
    BY <2>1, SameAccounts
  <2> QED
    BY <2>1, <2>2, <2>3 DEF NoSale
<1> QED
  BY <1>2, <1>3

LEMMA EverySale ==
    ASSUME LiveOK, SaleInv, UnpaidInv, [LiveNext]_liveVars
    PROVE  NoSale \/ \E i \in DOMAIN lots : Sale(i)
<1>1. TypeOK /\ LotsTypeOK /\ DOMAIN lots = 1..Len(lots) /\ Len(lots) \in Nat
  BY DEF LiveOK, LotsTypeOK
<1>2. CASE account' = account /\ lots' = lots
  BY <1>2, SameAccounts DEF NoSale, OthersNotSold, Sold
<1>3. CASE RosterStep
  <2>1. LivePrefixes \cap RosterPrefixes = {}
    BY DEF LivePrefixes, SalePrefixes, RosterPrefixes
  <2>2. SameBooked(LivePrefixes)
    BY <1>1, <1>3, <2>1, RosterBooks DEF RosterStep
  <2> QED
    BY <1>3, <2>2 DEF RosterStep, NoSale, OthersNotSold, Sold
<1>4. CASE EndSession
  <2>1. account' = account /\ DOMAIN lots' = DOMAIN lots
    BY <1>4 DEF EndSession, rosterVars
  <2>2. ASSUME NEW i \in DOMAIN lots, lots'[i].status = "sold"
        PROVE  Sold(i)
    <3>1. lots'[i] = IF lots[i].status = "pending_swap" THEN [lots[i] EXCEPT !.status = "passed"]
                     ELSE lots[i]
      BY <1>4 DEF EndSession
    <3>2. [lots[i] EXCEPT !.status = "passed"].status = "passed"
      BY <1>1, LotType DEF Lots
    <3> QED
      BY <2>2, <3>1, <3>2 DEF Sold
  <2> QED
    BY <2>1, <2>2, SameAccounts DEF NoSale, OthersNotSold
<1>5. CASE SessionStep /\ ~EndSession
  BY <1>2, <1>5 DEF SessionStep, CreateSession, ConfigureSession, StartSession, rosterVars
<1>6. ASSUME NEW a \in Athletes, InsertLot(a)
      PROVE  NoSale
  <2> DEFINE lot == [athlete |-> a, leader |-> NoTeam, amount |-> 0,
                     left |-> Duration, status |-> "open"]
  <2>1. lots' = Append(lots, lot) /\ account' = account /\ lot.status = "open"
    BY <1>6 DEF InsertLot, rosterVars
  <2> HIDE DEF lot
  <2>2. \A j \in DOMAIN lots' : lots'[j] = lot \/ (j \in DOMAIN lots /\ lots'[j] = lots[j])
    BY <1>1, <2>1 DEF LotsTypeOK
  <2> QED
    BY <2>1, <2>2, SameAccounts DEF NoSale, OthersNotSold, Sold
<1>7. ASSUME NEW t \in Teams, NEW i \in DOMAIN lots, NEW amount \in RaiseAmounts,
             RaiseLot(t, i, amount)
      PROVE  NoSale
  <2> DEFINE new == [lots[i] EXCEPT !.leader = t, !.amount = amount, !.left = Extended(@)]
  <2>1. lots' = [lots EXCEPT ![i] = new] /\ account' = account
    BY <1>7 DEF RaiseLot, rosterVars
  <2>2. new.status = lots[i].status
    BY <1>1, LotType DEF Lots
  <2> HIDE DEF new
  <2> QED
    BY <1>1, <2>1, <2>2, SameAccounts DEF NoSale, OthersNotSold, Sold
<1>8. ASSUME NEW i \in DOMAIN lots, NEW status, status # "sold", Close(i, status),
             UNCHANGED rosterVars
      PROVE  NoSale
  BY <1>1, <1>8, CloseSells, SameAccounts DEF NoSale, rosterVars
<1>9. CASE LotStep
  <2>1. ASSUME NEW i \in DOMAIN lots, ForceSellLot(i)
        PROVE  NoSale \/ Sale(i)
    BY <2>1, SellSells DEF ForceSellLot
  <2>2. ASSUME NEW i \in DOMAIN lots, PassLot(i) \/ CancelLot(i) \/ DeclineSwap(i)
        PROVE  NoSale
    BY <1>8, <2>2 DEF PassLot, PassOpenLot, CancelLot, DeclineSwap
  <2> QED
    BY <1>6, <1>7, <1>9, <2>1, <2>2, SwapSells DEF LotStep, NominateLot, PlaceRaise
<1>10. CASE Clock
  <2>1. account' = account /\ DOMAIN lots' = DOMAIN lots
    BY <1>10 DEF Clock, rosterVars
  <2>2. ASSUME NEW i \in DOMAIN lots
        PROVE  lots'[i].status = lots[i].status
    <3>1. lots'[i] = [lots[i] EXCEPT !.left = IF @ > 0 /\ i \in OpenLots THEN @ - 1 ELSE @]
      BY <1>10 DEF Clock
    <3> QED
      BY <1>1, <3>1, LotType DEF Lots
  <2> QED
    BY <2>1, <2>2, SameAccounts DEF NoSale, OthersNotSold, Sold
<1>11. CASE TickStep
  BY <1>10, <1>11, FinalizeSells DEF TickStep, PollState, NominateTicks, RaiseTicks
<1>12. CASE LateStep
  <2>1. lateCalls \subseteq Calls /\ lateRaises \subseteq Raises
    BY DEF LiveOK, LateTypeOK
  <2>2. ASSUME NEW c \in lateCalls, InsertLateCall(c)
        PROVE  NoSale
    BY <1>6, <2>1, <2>2 DEF InsertLateCall, Calls
  <2>3. ASSUME NEW r \in lateRaises, PlaceLateRaise(r)
        PROVE  NoSale
    BY <1>7, <2>1, <2>3 DEF PlaceLateRaise, RaiseLot, WindowOpen, OpenLots, Raises
  <2>4. ASSUME NEW c \in lateCalls, CheckLateCall(c) \/ RefuseLateCall(c)
        PROVE  account' = account /\ lots' = lots
    BY <2>4 DEF CheckLateCall, RefuseLateCall, rosterVars
  <2>5. ASSUME NEW r \in lateRaises, RefuseLateRaise(r)
        PROVE  account' = account /\ lots' = lots
    BY <2>5 DEF RefuseLateRaise, rosterVars
  <2> QED
    BY <1>2, <1>12, <2>2, <2>3, <2>4, <2>5 DEF LateStep
<1>13. CASE UNCHANGED liveVars
  BY <1>2, <1>13 DEF liveVars, rosterVars
<1> QED
  BY <1>3, <1>4, <1>5, <1>9, <1>11, <1>12, <1>13 DEF LiveNext

\* What a step keeps of the slots nobody paid for.
PaidChange ==
    \A t \in Teams, s \in Slots :
        slot'[t][s] = NoAthlete =>
            paid'[t][s] = 0 \/ (slot[t][s] = NoAthlete /\ paid'[t][s] = paid[t][s])

LEMMA UnpaidStep ==
    ASSUME LiveOK, UnpaidInv, [LiveNext]_liveVars
    PROVE  UnpaidInv'
<1>1. /\ slot \in [Teams -> TeamSlots] /\ paid \in [Teams -> [Slots -> Nat]]
      /\ NoAthlete \notin Athletes /\ LotsTypeOK /\ LedLots
  BY NoAthleteAssumption DEF LiveOK, TypeOK
<1>2. ASSUME slot' = slot, paid' = paid
      PROVE  PaidChange
  BY <1>2 DEF PaidChange
<1>3. ASSUME NEW t \in Teams, NEW s \in Slots, NEW a \in Athletes, slot' = [slot EXCEPT ![t][s] = a],
             NEW p, paid' = [paid EXCEPT ![t][s] = p]
      PROVE  PaidChange
  BY <1>1, <1>3 DEF PaidChange, TeamSlots
<1>4. ASSUME NEW t \in Teams, NEW s \in Slots, Vacate(t, s)
      PROVE  PaidChange
  BY <1>1, <1>4 DEF Vacate, PaidChange, TeamSlots
<1>5. RosterStep => PaidChange
  <2>1. ASSUME NEW t \in Teams, NEW s \in Slots, NEW a \in Athletes, NEW p \in Prices,
               AssignRequest(t, s, a, p)
        PROVE  PaidChange
    BY <1>2, <1>3, <2>1 DEF AssignRequest, AssignSlot, AssignSlotOverdrawn, AssignSlotDuplicate
  <2> QED
    BY <1>2, <1>4, <2>1
    DEF RosterStep, SetMarketOpen, AdminPostCreditMovement, ReleaseSlot, ApplyRelease
<1>6. ASSUME NEW i \in OpenLots, lots[i].leader # NoTeam, SellLot(i)
      PROVE  PaidChange
  <2>1. lots[i].leader \in Teams /\ lots[i].athlete \in Athletes
    BY <1>1, <1>6, LotType DEF OpenLots
  <2>2. Assignable(i) => FirstFree(slot[lots[i].leader]) \in Slots
    BY FirstFreeSlot DEF Assignable
  <2>3. CASE UNCHANGED rosterVars
    BY <1>2, <2>3 DEF rosterVars
  <2>4. CASE /\ Assignable(i)
             /\ Take(lots[i].leader, FirstFree(slot[lots[i].leader]), lots[i].athlete,
                     account[lots[i].leader], lots[i].amount, SaleTx(i))
    BY <1>3, <2>1, <2>2, <2>4 DEF Take
  <2> QED
    BY <1>6, <2>3, <2>4 DEF SellLot
<1>7. ASSUME NEW i \in DOMAIN lots, Finalize(i)
      PROVE  PaidChange
  BY <1>2, <1>6, <1>7 DEF Finalize, Expired, PassOpenLot, rosterVars
<1>8. ASSUME NEW i \in DOMAIN lots, NEW s \in Slots, ResolveSwap(i, s)
      PROVE  PaidChange
  <2>1. lots[i].leader \in Teams /\ lots[i].athlete \in Athletes
    BY <1>1, <1>8, LotType DEF ResolveSwap, LedLots
  <2> QED
    BY <1>3, <1>8, <2>1 DEF ResolveSwap, Take
<1>9. LotStep => PaidChange
  <2>1. ASSUME NEW i \in DOMAIN lots, ForceSellLot(i)
        PROVE  PaidChange
    BY <1>6, <2>1 DEF ForceSellLot
  <2> QED
    BY <1>2, <1>8, <2>1
    DEF LotStep, NominateLot, InsertLot, PlaceRaise, RaiseLot, PassLot, PassOpenLot, CancelLot,
        DeclineSwap, rosterVars
<1>10. TickStep => PaidChange
  BY <1>2, <1>7 DEF TickStep, PollState, NominateTicks, RaiseTicks, Clock, rosterVars
<1>11. SessionStep => PaidChange
  BY <1>2
  DEF SessionStep, CreateSession, ConfigureSession, StartSession, EndSession, rosterVars
<1>12. LateStep => PaidChange
  BY <1>2
  DEF LateStep, CheckLateCall, InsertLateCall, InsertLot, RefuseLateCall, PlaceLateRaise, RaiseLot,
      RefuseLateRaise, rosterVars
<1>13. UNCHANGED liveVars => PaidChange
  BY <1>2 DEF liveVars, rosterVars
<1>14. PaidChange
  BY <1>5, <1>9, <1>10, <1>11, <1>12, <1>13 DEF LiveNext
<1> QED
  BY <1>14 DEF PaidChange, UnpaidInv

LEMMA SaleKept ==
    ASSUME LotsTypeOK, SaleInv, LotsChange, NoSale
    PROVE  SaleInv'
<1>1. \A t \in Teams : LiveBooked(account'[t]) = LiveBooked(account[t])
  BY DEF NoSale, SameBooked, LiveBooked
<1>2. \A i : Sold(i) => /\ Sold(i)' /\ lots'[i].leader = lots[i].leader
                        /\ lots'[i].amount = lots[i].amount
  BY DEF Sold, LotsChange, LotMoves, Ends
<1>3. \A i : Sold(i)' => Sold(i)
  BY DEF NoSale, OthersNotSold, Sold
<1> QED
  BY <1>1, <1>2, <1>3 DEF SaleInv, Sold

LEMMA SaleAdded ==
    ASSUME LotsTypeOK, SaleInv, LotsChange, NEW i \in DOMAIN lots, Sale(i)
    PROVE  SaleInv'
<1> DEFINE t == lots[i].leader
<1>1. PICK tx \in TxIds, refund \in SUBSET (TxIds \X Nat) :
         /\ tx[1] \in SalePrefixes /\ tx[4] = i
         /\ \A x \in refund : x[1][1] = "live-swap-release" /\ x[1][4] = i
         /\ \A u \in Teams :
               LiveBooked(account'[u]) =
                  IF u = t THEN (LiveBooked(account[t]) \cup refund) \cup {<<tx, 0 - lots[i].amount>>}
                  ELSE LiveBooked(account[u])
  BY DEF Sale, Booking
<1>2. t \in Teams /\ ~Sold(i) /\ i \in DOMAIN lots' /\ Sold(i)'
      /\ lots'[i].leader = t /\ lots'[i].amount = lots[i].amount
  BY DEF Sale, Sold, LotsChange, LotMoves, Ends
<1>3. \A j : Sold(j) => /\ Sold(j)' /\ lots'[j].leader = lots[j].leader
                        /\ lots'[j].amount = lots[j].amount
  BY DEF Sold, LotsChange, LotMoves, Ends
<1>4. \A j : Sold(j)' => j = i \/ Sold(j)
  BY DEF Sale, OthersNotSold, Sold
<1> DEFINE charge == <<tx, 0 - lots[i].amount>>
<1>5. charge[1] = tx /\ charge[2] = 0 - lots[i].amount
  OBVIOUS
<1> HIDE DEF charge, t
<1>6. "live-swap-release" \notin SalePrefixes
  BY DEF SalePrefixes
<1>7. \A u \in Teams : \A x : x \in LiveBooked(account'[u]) <=>
         \/ x \in LiveBooked(account[u])
         \/ u = t /\ (x \in refund \/ x = charge)
  BY <1>1 DEF charge
<1>8. ASSUME NEW u \in Teams, NEW x \in LiveBooked(account[u])
      PROVE  x[1][4] # i /\ Sold(x[1][4])
  BY <1>2 DEF SaleInv
<1>9. ASSUME NEW u \in Teams, NEW x \in LiveBooked(account'[u])
      PROVE  /\ Sold(x[1][4])'
             /\ x[1][1] \in SalePrefixes => /\ lots'[x[1][4]].leader = u
                                            /\ x[2] = 0 - lots'[x[1][4]].amount
  BY <1>1, <1>2, <1>3, <1>5, <1>6, <1>7, <1>9 DEF SaleInv
<1>10. ASSUME NEW u \in Teams, NEW x \in LiveBooked(account'[u]), NEW y \in LiveBooked(account'[u]),
              x[1][1] \in SalePrefixes, y[1][1] \in SalePrefixes, x[1][4] = y[1][4]
       PROVE  x = y
  BY <1>1, <1>5, <1>6, <1>7, <1>8, <1>10 DEF SaleInv
<1>11. ASSUME NEW u \in Teams, NEW j \in DOMAIN lots', Sold(j)', lots'[j].leader = u
       PROVE  \E x \in LiveBooked(account'[u]) : x[1][1] \in SalePrefixes /\ x[1][4] = j
  <2>1. CASE j = i
    BY <1>1, <1>2, <1>5, <1>7, <1>11, <2>1
  <2>2. CASE j # i
    <3>1. Sold(j) /\ lots[j].leader = u /\ j \in DOMAIN lots
      BY <1>3, <1>4, <1>11, <2>2 DEF Sold
    <3> QED
      BY <1>7, <3>1 DEF SaleInv
  <2> QED
    BY <2>1, <2>2
<1> QED
  BY <1>9, <1>10, <1>11 DEF SaleInv

LEMMA SalesInvariant ==
    LiveSpec => [](LiveOK /\ LedgerInv /\ SaleInv /\ UnpaidInv)
<1>1. ASSUME LiveInit
      PROVE  SaleInv /\ UnpaidInv
  <2>1. \A t \in Teams : LiveBooked(account[t]) = {}
    BY <1>1, OpenBooksNothing DEF LiveInit, LiveBooked, LivePrefixes, SalePrefixes
  <2>2. DOMAIN lots = {}
    BY <1>1 DEF LiveInit
  <2>3. UnpaidInv
    BY <1>1 DEF LiveInit, Blank, UnpaidInv
  <2> QED
    BY <2>1, <2>2, <2>3 DEF SaleInv
<1>2. ASSUME LiveOK, LedgerInv, SaleInv, UnpaidInv, [LiveNext]_liveVars
      PROVE  LiveOK' /\ LedgerInv' /\ SaleInv' /\ UnpaidInv'
  <2>1. LiveStepOK /\ LiveOK'
    BY <1>2, EveryLiveStep DEF LiveStepOK, LotsStep, StepOK, LiveOK
  <2>2. LedgerInv'
    BY <1>2, <2>1, LedgerStep DEF LiveStepOK, StepOK, LiveOK
  <2>3. SaleInv'
    BY <1>2, <2>1, EverySale, SaleKept, SaleAdded DEF LiveStepOK, LotsStep, LiveOK
  <2> QED
    BY <1>2, <2>1, <2>2, <2>3, UnpaidStep
<1> QED
  BY <1>1, <1>2, LiveStart, PTL DEF LiveSpec

(* A lot is sold exactly when the ledger of its winner, and of nobody      *)
(* else, has one charge of its amount, for every order of ticks, forced    *)
(* sales, swaps and late requests.                                         *)
THEOREM SoldLotsAreCharged == LiveSpec => []SoldIsCharged
<1>1. ASSUME LiveOK, LedgerInv, SaleInv, NEW i \in DOMAIN lots, NEW t \in Teams
      PROVE  IF lots[i].status = "sold" /\ lots[i].leader = t
             THEN \E k \in DOMAIN account[t].entries :
                      /\ Charges(t, i) = {k}
                      /\ account[t].entries[k].amount = 0 - lots[i].amount
             ELSE Charges(t, i) = {}
  <2> DEFINE acc == account[t]
             booking(k) == <<acc.entries[k].tx, acc.entries[k].amount>>
  <2>1. acc \in Accounts /\ TxUnique(acc) /\ DOMAIN acc.entries = 1..Len(acc.entries)
    BY <1>1 DEF LiveOK, TypeOK, LedgerInv, Sound, Accounts
  <2>2. \A k : booking(k)[1] = acc.entries[k].tx /\ booking(k)[2] = acc.entries[k].amount
    OBVIOUS
  <2>3. Bookings(acc) = {booking(k) : k \in DOMAIN acc.entries}
    BY DEF Bookings
  <2>4. Charges(t, i) = {k \in DOMAIN acc.entries : /\ acc.entries[k].tx[1] \in SalePrefixes
                                                    /\ acc.entries[k].tx[4] = i}
    BY DEF Charges, SalePrefixes
  <2> HIDE DEF booking, acc
  <2>5. ASSUME NEW k \in Charges(t, i)
        PROVE  /\ booking(k) \in LiveBooked(acc) /\ booking(k)[1][1] \in SalePrefixes
               /\ booking(k)[1][4] = i /\ k \in DOMAIN acc.entries
    BY <2>2, <2>3, <2>4 DEF LiveBooked, BookedUnder, LivePrefixes
  <2>6. ASSUME NEW k \in Charges(t, i)
        PROVE  /\ lots[i].status = "sold" /\ lots[i].leader = t
               /\ acc.entries[k].amount = 0 - lots[i].amount
    BY <1>1, <2>2, <2>5 DEF SaleInv, Sold, acc
  <2>7. ASSUME NEW k \in Charges(t, i), NEW j \in Charges(t, i)
        PROVE  k = j
    <3>1. booking(k) = booking(j)
      BY <1>1, <2>5 DEF SaleInv, acc
    <3> QED
      BY <2>1, <2>2, <2>5, <3>1 DEF TxUnique
  <2>8. CASE lots[i].status = "sold" /\ lots[i].leader = t
    <3>1. PICK x \in LiveBooked(acc) : x[1][1] \in SalePrefixes /\ x[1][4] = i
      BY <1>1, <2>8 DEF SaleInv, Sold, acc
    <3>2. PICK k \in DOMAIN acc.entries : x = booking(k)
      BY <2>3, <3>1 DEF LiveBooked, BookedUnder
    <3>3. k \in Charges(t, i)
      BY <2>2, <2>4, <3>1, <3>2
    <3>4. Charges(t, i) = {k}
      BY <2>7, <3>3
    <3> QED
      BY <2>6, <2>8, <3>2, <3>3, <3>4 DEF acc
  <2>9. CASE ~(lots[i].status = "sold" /\ lots[i].leader = t)
    BY <2>6, <2>9
  <2> QED
    BY <2>8, <2>9
<1>2. LiveOK /\ LedgerInv /\ SaleInv => SoldIsCharged
  BY <1>1 DEF SoldIsCharged
<1> QED
  BY <1>2, SalesInvariant, PTL

(* A sale puts the athlete on the winner's roster at its price, and the    *)
(* balance pays that price less what it had paid for the athlete that      *)
(* makes room; a lot that nobody led is never sold.                        *)
THEOREM SalesSettle == LiveSpec => SaleSettles
<1> DEFINE AllSettled == \A i \in DOMAIN lots :
          (lots[i].status # "sold" /\ lots'[i].status = "sold") =>
              LET t == lots[i].leader
              IN  \E s \in Slots :
                     /\ slot'[t][s] = lots[i].athlete
                     /\ paid'[t][s] = lots[i].amount
                     /\ account'[t].balance = account[t].balance + paid[t][s] - lots[i].amount
<1>1. ASSUME LiveOK, SaleInv, UnpaidInv, [LiveNext]_liveVars
      PROVE  AllSettled
  <2> SUFFICES ASSUME NEW i \in DOMAIN lots, lots[i].status # "sold", lots'[i].status = "sold"
               PROVE  Settled(i)
    BY DEF Settled
  <2>1. i \in DOMAIN lots' /\ ~Sold(i)
    BY <1>1, EveryLiveStep DEF LiveStepOK, LotsStep, LotsChange, Sold
  <2>2. ~NoSale
    BY <2>1 DEF NoSale, OthersNotSold
  <2>3. PICK j \in DOMAIN lots : Sale(j)
    BY <1>1, <2>2, EverySale
  <2>4. j = i
    BY <2>1, <2>3 DEF Sale, OthersNotSold
  <2> QED
    BY <2>3, <2>4 DEF Sale
<1>2. LiveOK /\ SaleInv /\ UnpaidInv /\ [LiveNext]_liveVars => [AllSettled]_liveVars
  BY <1>1
<1>3. LiveSpec => [][AllSettled]_liveVars
  BY <1>2, SalesInvariant, PTL DEF LiveSpec
<1> QED
  BY <1>3 DEF SaleSettles

-----------------------------------------------------------------------------
(* The nomination list *)

\* What a step of an open session does to the nomination list.
Kept ==
    \/ queue' = queue
    \/ /\ Len(lots') > Len(lots)
       /\ queue' = Without(queue, lots'[Len(lots')].athlete)

\* The insertion of a lot consumes the entries of its athlete only.
LEMMA InsertKeeps ==
    ASSUME LotsTypeOK, NEW a \in Athletes, InsertLot(a)
    PROVE  Kept
<1> DEFINE lot == [athlete |-> a, leader |-> NoTeam, amount |-> 0,
                   left |-> Duration, status |-> "open"]
<1>1. lots \in Seq(Lots) /\ lots' = Append(lots, lot) /\ lot \in Lots /\ lot.athlete = a
  BY LiveAssumption DEF LotsTypeOK, InsertLot, Lots
<1> HIDE DEF lot
<1>2. Len(lots') = Len(lots) + 1 /\ lots'[Len(lots')] = lot /\ Len(lots) \in Nat
  BY <1>1
<1>3. queue' = queue \/ queue' = Without(queue, a)
  BY DEF InsertLot
<1> QED
  BY <1>1, <1>2, <1>3 DEF Kept

(* In an open session an athlete leaves the nomination list only by being  *)
(* called, whatever overtakes a call between its checks and its insertion. *)
THEOREM ListOnlyShrinksByCalls == LiveSpec => ListKept
<1>1. ASSUME LiveOK, [LiveNext]_liveVars, sessionStatus = "open"
      PROVE  Kept
  <2>1. LotsTypeOK /\ lateCalls \subseteq Calls
    BY <1>1 DEF LiveOK, LateTypeOK
  <2>2. CASE SessionStep
    BY <1>1, <2>2 DEF SessionStep, CreateSession, ConfigureSession, StartSession, EndSession, Kept
  <2>3. CASE RosterStep
    BY <2>3 DEF RosterStep, sessionVars, Kept
  <2>4. ASSUME NEW caller \in Callers, NEW a \in Athletes, NominateLot(caller, a)
        PROVE  Kept
    BY <2>1, <2>4, InsertKeeps DEF NominateLot
  <2>5. CASE LotStep
    BY <2>4, <2>5
    DEF LotStep, PlaceRaise, RaiseLot, ForceSellLot, PassLot, CancelLot, ResolveSwap, DeclineSwap,
        sessionVars, Kept
  <2>6. CASE TickStep
    BY <2>6 DEF TickStep, PollState, NominateTicks, RaiseTicks, Clock, sessionVars, Kept
  <2>7. ASSUME NEW c \in lateCalls, InsertLateCall(c)
        PROVE  Kept
    BY <2>1, <2>7, InsertKeeps DEF InsertLateCall, Calls
  <2>8. CASE LateStep
    BY <2>7, <2>8
    DEF LateStep, CheckLateCall, RefuseLateCall, PlaceLateRaise, RaiseLot, RefuseLateRaise,
        sessionVars, Kept
  <2>9. CASE UNCHANGED liveVars
    BY <2>9 DEF liveVars, sessionVars, Kept
  <2> QED
    BY <1>1, <2>2, <2>3, <2>5, <2>6, <2>8, <2>9 DEF LiveNext
<1>2. LiveOK /\ [LiveNext]_liveVars => [sessionStatus = "open" => Kept]_liveVars
  BY <1>1
<1>3. LiveSpec => [][sessionStatus = "open" => Kept]_liveVars
  BY <1>2, SalesInvariant, PTL DEF LiveSpec
<1> QED
  BY <1>3 DEF ListKept, Kept

=============================================================================
