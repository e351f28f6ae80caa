------------------------------- MODULE Trades -------------------------------
(***************************************************************************)
(* Trade proposals between two teams (backend/src/market/trade_service.py, *)
(* trade_execution.py, trade_validators.py and effective_trade_status of   *)
(* windows.py), on top of the rosters and credits of FantasyTeams.         *)
(*                                                                         *)
(* No handler here locks the league or looks at the market switch.  A      *)
(* decision locks its proposal first, and execute_trade locks every row it *)
(* reads and writes inside one savepoint, so each handler is one step;     *)
(* rosters and credits change in between through FantasyTeams.  A handler  *)
(* that is refused changes nothing and is not a step.                      *)
(***************************************************************************)
EXTENDS FantasyTeams

CONSTANTS
    Offers,         \* bodies of a proposal: offered, requested, give, take
    Deadlines,      \* deadlines a proposal may be sent with
    ApprovalModes,  \* values of league_rules.require_trade_approval
    ActiveLimit,    \* league_rules.max_active_trade_proposals_per_team
    MaxProposals    \* bound: proposals, counter-proposals included

ASSUME TradesAssumption ==
    /\ Offers \subseteq [offered : Seq(Athletes), requested : Seq(Athletes),
                         give : Nat, take : Nat]
    /\ Deadlines \subseteq {"none", "ahead"}
    /\ ApprovalModes \subseteq BOOLEAN
    /\ ActiveLimit \in Nat /\ MaxProposals \in Nat

VARIABLE
    proposals       \* trade_proposals, in creation order

rosters == <<marketOpen, created, slot, paid, active, account, composition, draft, job>>
tradeVars == <<rosters, proposals>>

TradeStatuses == {"proposed", "pending_approval", "accepted", "executed", "rejected",
                  "rejected_by_admin", "countered", "cancelled"}

\* `deadline' is expires_at seen from the clock, `counterOf' a proposal or 0.
Proposals == [proposer : Teams, recipient : Teams, offered : Seq(Athletes),
              requested : Seq(Athletes), give : Nat, take : Nat,
              status : TradeStatuses, deadline : {"none", "ahead", "past"},
              counterOf : Nat]

TradesTypeOK == TypeOK /\ proposals \in Seq(Proposals)

\* Every team exists; its roster was filled before at price 0.
TradesInit ==
    /\ marketOpen = TRUE
    /\ created = Teams
    /\ slot \in [Teams -> TeamSlots]
    /\ Exclusive(slot) /\ \A t \in Teams : RespectsQuota(slot[t])
    /\ paid = Blank.paid
    /\ active = slot
    /\ account = [t \in Teams |-> OpenAccount(TotalCredits)]
    /\ composition = [t \in Teams |-> CompositionStatus(slot[t])]
    /\ draft = [status |-> "none", rows |-> << >>]
    /\ job = Idle
    /\ proposals = << >>

Listed(athletes) == {athletes[k] : k \in DOMAIN athletes}

Distinct(athletes) ==
    \A j, k \in DOMAIN athletes : athletes[j] = athletes[k] => j = k

HeldBy(sl) == {sl[s] : s \in Occupied(sl)}

\* effective_trade_status: a proposal past its deadline reads as expired.
Actionable(p) == p.status = "proposed" /\ p.deadline # "past"

-----------------------------------------------------------------------------
(* Proposals *)

\* _count_active_proposals
ActiveProposals(t) ==
    {i \in DOMAIN proposals : proposals[i].proposer = t /\ Actionable(proposals[i])}

\* validate_active_proposal_limit
WithinLimit(t) == Cardinality(ActiveProposals(t)) < ActiveLimit

\* _build_validated_proposal, trades being enabled.
Valid(t, u, offer) ==
    /\ t # u
    /\ Distinct(offer.offered) /\ Distinct(offer.requested)
    /\ Listed(offer.offered) \cap Listed(offer.requested) = {}
    /\ offer.offered # << >> \/ offer.give > 0
    /\ offer.requested # << >> \/ offer.take > 0
    /\ Listed(offer.offered) \subseteq HeldBy(slot[t])
    /\ Listed(offer.requested) \subseteq HeldBy(slot[u])
    /\ WithinLimit(t)
    /\ offer.give <= account[t].balance

Proposal(t, u, offer, deadline, counterOf) ==
    [proposer |-> t, recipient |-> u, offered |-> offer.offered,
     requested |-> offer.requested, give |-> offer.give, take |-> offer.take,
     status |-> "proposed", deadline |-> deadline, counterOf |-> counterOf]

CreateProposal(t, u, offer, deadline) ==
    /\ Len(proposals) < MaxProposals
    /\ Valid(t, u, offer)
    /\ proposals' = Append(proposals, Proposal(t, u, offer, deadline, 0))
    /\ UNCHANGED rosters

Decide(i, status) == proposals' = [proposals EXCEPT ![i].status = status]

CancelProposal(i) ==
    /\ Actionable(proposals[i])
    /\ Decide(i, "cancelled")
    /\ UNCHANGED rosters

RejectProposal(i) ==
    /\ Actionable(proposals[i])
    /\ Decide(i, "rejected")
    /\ UNCHANGED rosters

\* counter_proposal: the roles are flipped, the original is decided.
CounterProposal(i, offer, deadline) ==
    /\ Actionable(proposals[i])
    /\ Len(proposals) < MaxProposals
    /\ Valid(proposals[i].recipient, proposals[i].proposer, offer)
    /\ proposals' = Append([proposals EXCEPT ![i].status = "countered"],
                           Proposal(proposals[i].recipient, proposals[i].proposer,
                                    offer, deadline, i))
    /\ UNCHANGED rosters

PassDeadline(i) ==
    /\ proposals[i].status = "proposed" /\ proposals[i].deadline = "ahead"
    /\ proposals' = [proposals EXCEPT ![i].deadline = "past"]
    /\ UNCHANGED rosters

-----------------------------------------------------------------------------
(* execute_trade *)

Gives(p, t) ==
    IF t = p.proposer THEN p.offered ELSE IF t = p.recipient THEN p.requested ELSE << >>

Gets(p, t) ==
    IF t = p.proposer THEN p.requested ELSE IF t = p.recipient THEN p.offered ELSE << >>

Sends(p, t) ==
    IF t = p.proposer THEN p.give ELSE IF t = p.recipient THEN p.take ELSE 0

Receives(p, t) ==
    IF t = p.proposer THEN p.take ELSE IF t = p.recipient THEN p.give ELSE 0

\* Every outgoing athlete is released first ...
Emptied(sl, out) ==
    [s \in Slots |-> IF sl[s] \in Listed(out) THEN NoAthlete ELSE sl[s]]

\* ... then the incoming ones take the free slots in index order.
Filled(sl, in) ==
    [s \in Slots |->
        LET n == Cardinality({r \in FreeSlots(sl) : r <= s})
        IN  IF s \in FreeSlots(sl) /\ n <= Len(in) THEN in[n] ELSE sl[s]]

\* Faulty variant of Swapped: the incoming athletes are copied, not moved.
SwappedCopied(p, t) ==
    IF t = p.proposer THEN Filled(Emptied(slot[t], Gives(p, t)), Gets(p, t))
    ELSE IF t = p.recipient THEN Filled(slot[t], Gets(p, t)) ELSE slot[t]

Swapped(p, t) == Filled(Emptied(slot[t], Gives(p, t)), Gets(p, t))

\* The quota of each incoming athlete, over all the steps of the savepoint.
SwapWithinQuota(p, t) ==
    \A k \in DOMAIN Gets(p, t) :
        LET r == Role[Gets(p, t)[k]]
        IN  Cardinality(SlotsOfRole(Swapped(p, t), r)) <= Limit[r]

\* No other slot has an interval of an incoming athlete open.
SwapIntervalsFree(p, t) ==
    \A u \in Teams, s \in Slots :
        active[u][s] \in Listed(Gets(p, t)) => slot[u][s] \in Listed(Gives(p, u))

\* Faulty variant of Executable: nobody looks for free slots.
ExecutableUnroomed(p) ==
    \A t \in {p.proposer, p.recipient} :
        /\ Listed(Gives(p, t)) \subseteq HeldBy(slot[t])
        /\ account[t].balance >= Sends(p, t)
        /\ SwapWithinQuota(p, t)

\* The checks of execute_trade against the rows as they are now.
Executable(p) ==
    \A t \in {p.proposer, p.recipient} :
        /\ Listed(Gives(p, t)) \subseteq HeldBy(slot[t])
        /\ account[t].balance >= Sends(p, t)
        /\ Cardinality(FreeSlots(Emptied(slot[t], Gives(p, t)))) >= Len(Gets(p, t))
        /\ SwapWithinQuota(p, t)
        /\ SwapIntervalsFree(p, t)

SentTx(i) == <<"trade-sent", 0, NoAthlete, i>>
ReceivedTx(i) == <<"trade-received", 0, NoAthlete, i>>

PostIf(acc, tx, amount) == IF amount = 0 THEN acc ELSE Post(acc, tx, amount)

\* The offered credits move first, then the requested ones.
Settled(i, t) ==
    LET p    == proposals[i]
        sent == 0 - Sends(p, t)
    IN  IF t = p.recipient
        THEN PostIf(PostIf(account[t], ReceivedTx(i), Receives(p, t)), SentTx(i), sent)
        ELSE PostIf(PostIf(account[t], SentTx(i), sent), ReceivedTx(i), Receives(p, t))

TradeRoom(p) == \A t \in {p.proposer, p.recipient} : Len(account[t].entries) + 2 <= MaxEntries

ExecuteTrade(i) ==
    LET p == proposals[i]
    IN  /\ Executable(p)
        /\ TradeRoom(p)
        /\ slot' = [t \in Teams |-> Swapped(p, t)]
        /\ paid' = [t \in Teams |-> [s \in Slots |->
                       IF Swapped(p, t)[s] = slot[t][s] THEN paid[t][s] ELSE 0]]
        /\ active' = [t \in Teams |-> [s \in Slots |->
                       IF Swapped(p, t)[s] = slot[t][s] THEN active[t][s]
                       ELSE Swapped(p, t)[s]]]
        /\ account' = [t \in Teams |-> Settled(i, t)]
        /\ composition' = [t \in Teams |->
               IF t \in {p.proposer, p.recipient} THEN CompositionStatus(Swapped(p, t))
               ELSE composition[t]]
        /\ UNCHANGED <<marketOpen, created, draft, job>>

\* accept_proposal: executed at once, or left to the admin.
AcceptProposal(i) ==
    /\ FALSE \in ApprovalModes
    /\ Actionable(proposals[i])
    /\ ExecuteTrade(i)
    /\ Decide(i, "accepted")

DeferToAdmin(i) ==
    /\ TRUE \in ApprovalModes
    /\ Actionable(proposals[i])
    /\ Decide(i, "pending_approval")
    /\ UNCHANGED rosters

\* _lock_pending_approval_proposal: the deadline does not count any more.
Pending(p) == p.status = "pending_approval"

\* Faulty variant of ApproveProposal: the status is not updated.
ApproveProposalAgain(i) ==
    /\ Pending(proposals[i])
    /\ ExecuteTrade(i)
    /\ UNCHANGED proposals

ApproveProposal(i) ==
    /\ Pending(proposals[i])
    /\ ExecuteTrade(i)
    /\ Decide(i, "executed")

RejectAdminProposal(i) ==
    /\ Pending(proposals[i])
    /\ Decide(i, "rejected_by_admin")
    /\ UNCHANGED rosters

-----------------------------------------------------------------------------
\* What changes rosters and credits between a proposal and its execution.
RosterStep ==
    /\ \/ \E t \in Teams, id \in AdminIds, amount \in AdminAmounts :
              AdminPostCreditMovement(t, id, amount)
       \/ \E t \in Teams, s \in Slots, a \in Athletes, p \in Prices : AssignRequest(t, s, a, p)
       \/ \E t \in Teams, s \in Slots : ReleaseSlot(t, s)
    /\ UNCHANGED proposals

DecisionStep(i) ==
    \/ CancelProposal(i)
    \/ RejectProposal(i)
    \/ PassDeadline(i)
    \/ AcceptProposal(i)
    \/ DeferToAdmin(i)
    \/ ApproveProposal(i)
    \/ RejectAdminProposal(i)

TradesNext ==
    \/ RosterStep
    \/ \E t, u \in Teams, offer \in Offers, deadline \in Deadlines :
           CreateProposal(t, u, offer, deadline)
    \/ \E i \in DOMAIN proposals, offer \in Offers, deadline \in Deadlines :
           CounterProposal(i, offer, deadline)
    \/ \E i \in DOMAIN proposals : DecisionStep(i)

TradesSpec == TradesInit /\ [][TradesNext]_tradeVars

-----------------------------------------------------------------------------
(* Properties *)

Done(p) == p.status \in {"accepted", "executed"}

Net(p, t) == Receives(p, t) - Sends(p, t)

(* A trade happens as proposed, entirely and at the moment it is recorded: *)
(* every team loses what it gives, gets what was promised, keeps the other *)
(* athletes, and its balance moves by the difference ("nessuna operazione  *)
(* parziale", execute_trade), whatever happened since it was proposed.     *)
TradesAsProposed ==
    [][\A i \in DOMAIN proposals :
          LET p == proposals[i]
          IN  ~Done(p) /\ Done(proposals'[i]) =>
                  \A t \in Teams :
                      /\ HeldBy(slot'[t]) =
                             (HeldBy(slot[t]) \ Listed(Gives(p, t))) \cup Listed(Gets(p, t))
                      /\ account'[t].balance = account[t].balance + Net(p, t)]_tradeVars

\* The amounts a proposal has posted on the account of a team.
PostedBy(i, t) ==
    {<<e.tx, e.amount>> : e \in {account[t].entries[k] : k \in
        {j \in DOMAIN account[t].entries : account[t].entries[j].tx \in {SentTx(i), ReceivedTx(i)}}}}

Promised(i, t) ==
    {x \in {<<SentTx(i), 0 - Sends(proposals[i], t)>>, <<ReceivedTx(i), Receives(proposals[i], t)>>} :
        x[2] # 0}

(* The ledger knows which proposals were executed: each of them is on both *)
(* accounts with its amounts, and a proposal that was refused, countered,  *)
(* cancelled or left pending has moved no credit.                          *)
CreditsFollowTrades ==
    \A i \in DOMAIN proposals, t \in Teams :
        PostedBy(i, t) = IF Done(proposals[i]) THEN Promised(i, t) ELSE {}

=============================================================================
