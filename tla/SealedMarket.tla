---------------------------- MODULE SealedMarket ----------------------------
(***************************************************************************)
(* Sealed-bid sessions: the initial auction, the waivers and their         *)
(* tiebreaks (backend/src/market/service.py, windows.py, validators.py and *)
(* assignment.py), on top of the rosters and credits of FantasyTeams.      *)
(*                                                                         *)
(* create, submit, close and resolve lock the league, so they run one      *)
(* after the other; resolve_session writes many rows and is one step per   *)
(* bid and per tiebreak, with `resolving' as its lock.  withdraw_bid locks *)
(* nothing but the bid: its check of the window and its write are two      *)
(* steps.                                                                  *)
(***************************************************************************)
EXTENDS FantasyTeams

CONSTANTS
    Rosters,       \* slots and open intervals the sessions start from
    Kinds,         \* kinds of session the admin may create
    BidAmounts,    \* amountCredits of a bid
    MaxSessions,   \* bound: sessions the admin creates
    MaxTiebreaks,  \* bound: tiebreaks of all sessions
    MaxBids,       \* bound: bids of all sessions
    MaxWithdrawals \* bound: withdrawals between their check and their write

ASSUME SealedAssumption ==
    /\ Rosters \subseteq [slot : [Teams -> TeamSlots], active : [Teams -> TeamSlots]]
    /\ \A r \in Rosters : Exclusive(r.slot) /\ \A t \in Teams : RespectsQuota(r.slot[t])
    /\ Kinds \subseteq {"initial", "waiver"}
    /\ BidAmounts \subseteq Nat \ {0}
    /\ MaxSessions \in Nat /\ MaxTiebreaks \in Nat /\ MaxBids \in Nat
    /\ MaxWithdrawals \in Nat

VARIABLES
    sessions,     \* market_sessions, in creation order
    bids,         \* market_bids
    withdrawals,  \* withdraw_bid requests that passed the check of the window
    resolving     \* the resolve_session transaction in progress

rosterVars == <<marketOpen, created, slot, paid, active, account, composition, draft, job>>
sealedVars == <<rosterVars, sessions, bids, withdrawals, resolving>>

\* `window' is the position of the clock; a tiebreak has an athlete and teams.
Sessions == [kind : {"initial", "waiver"}, status : {"scheduled", "open", "closed", "resolved"},
             window : {"before", "during", "after"},
             target : Athletes \cup {NoAthlete}, eligible : SUBSET Teams]

BidStatuses == {"submitted", "won", "lost", "expired", "cancelled"}

\* `placed' is the order of submitted_at in the session, which an update keeps.
Bids == [session : Nat, team : Teams, athlete : Athletes, amount : BidAmounts,
         release : Athletes \cup {NoAthlete}, placed : Nat, status : BidStatuses]

Nobody == [session |-> 0, left |-> {}, ties |-> {}, bids |-> {}, composition |-> << >>, saved |-> Blank]

Free == resolving = Nobody

SealedTypeOK ==
    /\ TypeOK
    /\ sessions \in Seq(Sessions)
    /\ bids \subseteq Bids
    /\ withdrawals \subseteq [session : Nat, team : Teams, athlete : Athletes]
    /\ resolving.left \subseteq Bids /\ resolving.ties \subseteq Bids

\* Every team exists; its roster was filled at price 0, and an assignment
\* committed half way may have left another athlete's interval open.
SealedInit ==
    /\ marketOpen = TRUE
    /\ created = Teams
    /\ \E r \in Rosters : slot = r.slot /\ active = r.active
    /\ paid = Blank.paid
    /\ account = [t \in Teams |-> OpenAccount(TotalCredits)]
    /\ composition = [t \in Teams |-> CompositionStatus(slot[t])]
    /\ draft = [status |-> "none", rows |-> << >>]
    /\ job = Idle
    /\ sessions = << >> /\ bids = {} /\ withdrawals = {} /\ resolving = Nobody

\* effective_status
EffectiveStatus(s) ==
    IF s.status \in {"closed", "resolved"} THEN s.status
    ELSE CASE s.window = "before" -> "scheduled"
           [] s.window = "during" -> "open"
           [] s.window = "after" -> "closed"

OpenForBids(i) == i \in DOMAIN sessions /\ EffectiveStatus(sessions[i]) = "open"

BidOf(i, t, a) == {b \in bids : b.session = i /\ b.team = t /\ b.athlete = a}

-----------------------------------------------------------------------------
(* Sessions *)

Active(kind) ==
    {i \in DOMAIN sessions : /\ sessions[i].kind = kind
                             /\ sessions[i].target = NoAthlete
                             /\ sessions[i].status \in {"scheduled", "open"}}

(* _create_session.  Any one of the sessions that are not closed yet is    *)
(* looked at: one whose window is over hides one that is active.           *)
CreateSession(kind) ==
    /\ Free
    /\ marketOpen
    /\ Cardinality({i \in DOMAIN sessions : sessions[i].target = NoAthlete}) < MaxSessions
    /\ \/ Active(kind) = {}
       \/ \E i \in Active(kind) : EffectiveStatus(sessions[i]) = "closed"
    /\ sessions' = Append(sessions, [kind |-> kind, status |-> "scheduled", window |-> "before",
                                     target |-> NoAthlete, eligible |-> Teams])
    /\ UNCHANGED <<rosterVars, bids, withdrawals, resolving>>

CloseSession(i) ==
    /\ Free
    /\ sessions[i].status \notin {"closed", "resolved"}
    /\ sessions' = [sessions EXCEPT ![i].status = "closed"]
    /\ UNCHANGED <<rosterVars, bids, withdrawals, resolving>>

\* The clock reaches opens_at, then closes_at; nobody asks once it is closed.
PassTime(i) ==
    /\ sessions[i].status \notin {"closed", "resolved"}
    /\ sessions[i].window # "after"
    /\ sessions' = [sessions EXCEPT ![i].window = IF @ = "before" THEN "during" ELSE "after"]
    /\ UNCHANGED <<rosterVars, bids, withdrawals, resolving>>

-----------------------------------------------------------------------------
(* Bids *)

\* The first bid of a team on an athlete keeps its place in time.
Placed(i, t, a) ==
    IF BidOf(i, t, a) = {} THEN Cardinality({b \in bids : b.session = i}) + 1
    ELSE (CHOOSE b \in BidOf(i, t, a) : TRUE).placed

SubmitBid(i, t, a, amount, release) ==
    /\ Free
    /\ marketOpen
    /\ OpenForBids(i)
    /\ BidOf(i, t, a) = {} => Cardinality(bids) < MaxBids
    /\ sessions[i].target \in {NoAthlete, a}
    /\ t \in sessions[i].eligible
    /\ Owner(a) = {}
    /\ amount <= account[t].balance
    /\ IF sessions[i].kind = "waiver"
       THEN release # NoAthlete /\ Owner(release) = {t}
       ELSE release = NoAthlete /\ FreeSlots(slot[t]) # {}
    /\ bids' = (bids \ BidOf(i, t, a)) \cup
               {[session |-> i, team |-> t, athlete |-> a, amount |-> amount,
                 release |-> release, placed |-> Placed(i, t, a), status |-> "submitted"]}
    /\ UNCHANGED <<rosterVars, sessions, withdrawals, resolving>>

\* withdraw_bid reads the session without a lock ...
StartWithdraw(i, t, a) ==
    /\ OpenForBids(i)
    /\ BidOf(i, t, a) # {}
    /\ Cardinality(withdrawals) < MaxWithdrawals
    /\ withdrawals' = withdrawals \cup {[session |-> i, team |-> t, athlete |-> a]}
    /\ UNCHANGED <<rosterVars, sessions, bids, resolving>>

\* ... then waits for the bid, and cancels it whatever its status is now.
FinishWithdraw(w) ==
    /\ Free
    /\ bids' = {IF b \in BidOf(w.session, w.team, w.athlete)
                THEN [b EXCEPT !.status = "cancelled"] ELSE b : b \in bids}
    /\ withdrawals' = withdrawals \ {w}
    /\ UNCHANGED <<rosterVars, sessions, resolving>>

-----------------------------------------------------------------------------
(* resolve_session *)

Sealed(i) == {b \in bids : b.session = i /\ b.status = "submitted"}

Rivals(b) == {c \in Sealed(b.session) : c.athlete = b.athlete /\ c # b}

IsTop(b) == \A c \in Rivals(b) : c.amount <= b.amount

\* Faulty variant of Tied: the first of equal bids wins.
TiedByPlace(b) == \E c \in Rivals(b) : c.amount = b.amount /\ c.placed < b.placed

Tied(b) == \E c \in Rivals(b) : c.amount = b.amount

Candidates(i) == {b \in Sealed(i) : IsTop(b) /\ ~Tied(b)}
TiedBids(i) == {b \in Sealed(i) : IsTop(b) /\ Tied(b)}

\* candidates.sort(key=lambda row: (-row.amount_credits, row.submitted_at))
Precedes(b, c) == b.amount > c.amount \/ (b.amount = c.amount /\ b.placed < c.placed)

SetStatus(S, status) == {IF b \in S THEN [b EXCEPT !.status = status] ELSE b : b \in bids}

(* The losers are marked.  A resolved session is only reported again: a    *)
(* replay is not a step.                                                   *)
BeginResolve(i) ==
    /\ Free
    /\ EffectiveStatus(sessions[i]) = "closed"
    /\ bids' = SetStatus({b \in Sealed(i) : ~IsTop(b)}, "lost")
    /\ resolving' = [session |-> i, left |-> Candidates(i), ties |-> TiedBids(i),
                     bids |-> bids, composition |-> composition,
                     saved |-> [slot |-> slot, paid |-> paid, active |-> active, account |-> account]]
    /\ UNCHANGED <<rosterVars, sessions, withdrawals>>

\* Faulty variant of TakesSlot: a waiver takes any slot.
TakesSlotAny(b, s) ==
    sessions[b.session].kind = "waiver" \/
        (FreeSlots(slot[b.team]) # {} /\ s = FirstFree(slot[b.team]))

\* The slot of a winning bid: the first free one, or the released athlete's.
TakesSlot(b, s) ==
    IF sessions[b.session].kind = "waiver"
    THEN b.release # NoAthlete /\ slot[b.team][s] = b.release
    ELSE FreeSlots(slot[b.team]) # {} /\ s = FirstFree(slot[b.team])

\* _finalize_slot_assignment is not refused.
Honoured(b, s) ==
    /\ TakesSlot(b, s)
    /\ b.amount <= account[b.team].balance
    /\ WithinQuota(slot[b.team], s, b.athlete)
    /\ ~SlotConflict(b.team, s, b.athlete)

BidTx(b) == <<"market", b.session, b.athlete, 0>>

Turn(b) == b \in resolving.left /\ \A c \in resolving.left \ {b} : Precedes(b, c)

AssignWinner(b, s) ==
    /\ Turn(b)
    /\ Honoured(b, s)
    /\ ~IntervalConflict(b.team, s, b.athlete)
    /\ Room(b.team)
    /\ account' = [account EXCEPT ![b.team] = Post(@, BidTx(b), 0 - b.amount)]
    /\ slot' = [slot EXCEPT ![b.team][s] = b.athlete]
    /\ paid' = [paid EXCEPT ![b.team][s] = b.amount]
    /\ active' = [active EXCEPT ![b.team][s] = b.athlete]
    /\ composition' = [composition EXCEPT ![b.team] = CompositionStatus(slot'[b.team])]
    /\ bids' = SetStatus({b}, "won")
    /\ resolving' = [resolving EXCEPT !.left = @ \ {b}]
    /\ UNCHANGED <<marketOpen, created, draft, job, sessions, withdrawals>>

\* A winner that cannot be honoured loses; nobody else gets the athlete.
RefuseWinner(b) ==
    /\ Turn(b)
    /\ \A s \in Slots : ~Honoured(b, s)
    /\ bids' = SetStatus({b}, "lost")
    /\ resolving' = [resolving EXCEPT !.left = @ \ {b}]
    /\ UNCHANGED <<rosterVars, sessions, withdrawals>>

\* Faulty variant of RollbackResolve: the assignments made so far stay.
RollbackResolveBidsOnly(b, s) ==
    /\ Turn(b)
    /\ Honoured(b, s)
    /\ IntervalConflict(b.team, s, b.athlete)
    /\ bids' = resolving.bids
    /\ resolving' = Nobody
    /\ UNCHANGED <<rosterVars, sessions, withdrawals>>

\* The IntegrityError of the interval is not caught.
RollbackResolve(b, s) ==
    /\ Turn(b)
    /\ Honoured(b, s)
    /\ IntervalConflict(b.team, s, b.athlete)
    /\ slot' = resolving.saved.slot
    /\ paid' = resolving.saved.paid
    /\ active' = resolving.saved.active
    /\ account' = resolving.saved.account
    /\ composition' = resolving.composition
    /\ bids' = resolving.bids
    /\ resolving' = Nobody
    /\ UNCHANGED <<marketOpen, created, draft, job, sessions, withdrawals>>

\* Equal highest bids expire, and their teams bid again.
OpenTiebreak(a) ==
    LET group == {b \in resolving.ties : b.athlete = a}
    IN  /\ resolving.left = {}
        /\ group # {}
        /\ Cardinality({i \in DOMAIN sessions : sessions[i].target # NoAthlete}) < MaxTiebreaks
        /\ bids' = SetStatus(group, "expired")
        /\ sessions' = Append(sessions,
               [kind |-> sessions[resolving.session].kind, status |-> "open",
                window |-> "during", target |-> a, eligible |-> {b.team : b \in group}])
        /\ resolving' = [resolving EXCEPT !.ties = @ \ group]
        /\ UNCHANGED <<rosterVars, withdrawals>>

EndResolve ==
    /\ ~Free
    /\ resolving.left = {} /\ resolving.ties = {}
    /\ sessions' = [sessions EXCEPT ![resolving.session].status = "resolved"]
    /\ resolving' = Nobody
    /\ UNCHANGED <<rosterVars, bids, withdrawals>>

-----------------------------------------------------------------------------
RosterStep ==
    /\ Free
    /\ \/ \E open \in BOOLEAN : SetMarketOpen(open)
       \/ \E t \in Teams, id \in AdminIds, amount \in AdminAmounts :
              AdminPostCreditMovement(t, id, amount)
       \/ \E t \in Teams, s \in Slots, a \in Athletes, p \in Prices : AssignRequest(t, s, a, p)
       \/ \E t \in Teams, s \in Slots, percent \in ReleasePercents : ApplyRelease(t, s, percent)
    /\ UNCHANGED <<sessions, bids, withdrawals, resolving>>

SessionStep ==
    \/ \E kind \in Kinds : CreateSession(kind)
    \/ \E i \in DOMAIN sessions : CloseSession(i) \/ PassTime(i)

BidStep ==
    \/ \E i \in DOMAIN sessions, t \in Teams, a \in Athletes, amount \in BidAmounts,
          release \in Athletes \cup {NoAthlete} : SubmitBid(i, t, a, amount, release)
    \/ \E i \in DOMAIN sessions, t \in Teams, a \in Athletes : StartWithdraw(i, t, a)
    \/ \E w \in withdrawals : FinishWithdraw(w)

ResolveStep ==
    \/ \E i \in DOMAIN sessions : BeginResolve(i)
    \/ \E b \in resolving.left, s \in Slots : AssignWinner(b, s) \/ RollbackResolve(b, s)
    \/ \E b \in resolving.left : RefuseWinner(b)
    \/ \E a \in Athletes : OpenTiebreak(a)
    \/ EndResolve

SealedNext == RosterStep \/ SessionStep \/ BidStep \/ ResolveStep

SealedSpec == SealedInit /\ [][SealedNext]_sealedVars

-----------------------------------------------------------------------------
(* Properties *)

(* Only the highest bid wins an athlete, and only alone: a bid that lost   *)
(* or went to a tiebreak never equals or exceeds the bid that won.         *)
HighestBidWins ==
    \A b, c \in bids :
        (/\ b.status = "won" /\ c # b
         /\ c.session = b.session /\ c.athlete = b.athlete
         /\ c.status # "cancelled") => c.amount < b.amount

HeldBy(roster) == {a \in Athletes : Holds(roster, a)}

Charges(b) == {k \in DOMAIN account[b.team].entries : account[b.team].entries[k].tx = BidTx(b)}

(* A bid that won has been charged once, at its amount, and a bid that     *)
(* lost, expired or waits has not been charged, whatever resolution was    *)
(* rolled back half way and started again.                                 *)
WinnersCharged ==
    \A b \in bids :
        CASE b.status = "won" ->
                \E k \in DOMAIN account[b.team].entries :
                    /\ Charges(b) = {k}
                    /\ account[b.team].entries[k].amount = 0 - b.amount
          [] b.status = "cancelled" -> TRUE
          [] OTHER -> Charges(b) = {}

(* A bid that wins changes the roster by the bid alone: the athlete comes  *)
(* at the price of the bid, a waiver costs the athlete it announced, which *)
(* the team must still hold, and no other athlete is lost.                 *)
WinTradesAsBid ==
    [][\A b \in resolving.left :
          [b EXCEPT !.status = "won"] \in bids' =>
              LET held == HeldBy(slot[b.team])
              IN  /\ b.release # NoAthlete => b.release \in held
                  /\ HeldBy(slot'[b.team]) = (held \ {b.release}) \cup {b.athlete}
                  /\ \E s \in Slots : /\ slot'[b.team][s] = b.athlete
                                      /\ paid'[b.team][s] = b.amount]_sealedVars
=============================================================================
