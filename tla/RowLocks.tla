------------------------------ MODULE RowLocks ------------------------------
(***************************************************************************)
(* The requests that move credits, statement by statement: the row locks   *)
(* they wait for, the rows their session keeps, and the deadlocks the      *)
(* database breaks (backend/src/market, fantasy_teams/ledger.py).          *)
(*                                                                         *)
(* Transactions are READ COMMITTED.  SELECT ... FOR UPDATE waits for the   *)
(* row and holds it until the end of the transaction, but an object the    *)
(* session has loaded before keeps the values it was loaded with: the      *)
(* query does not say populate_existing.  Writes are seen by others at the *)
(* commit only.  The other modules take a handler as one step; this one    *)
(* says when that is justified.                                            *)
(***************************************************************************)
EXTENDS Integers, Sequences, FiniteSets

CONSTANTS
    Teams,
    Proposals,    \* trade proposals
    Offer,        \* proposer, recipient, credits given and status of a proposal
    Requests,     \* the requests that run
    Call,         \* kind, team, amount or proposal of a request
    Credits       \* the balance every account starts with

Kinds == {"sell", "swap", "release", "assign", "admin",
          "accept", "approve", "reject", "cancel"}

ASSUME RowLocksAssumption ==
    /\ Offer \in [Proposals -> [proposer : Teams, recipient : Teams, give : Nat,
                               status : {"proposed", "pending_approval"}]]
    /\ Call \in [Requests -> [kind : Kinds, team : Teams, amount : Int, proposal : Proposals]]
    /\ Credits \in Nat

VARIABLES
    balance,    \* credit_accounts.balance, as committed
    ledger,     \* the sum of the committed ledger entries of the account
    status,     \* trade_proposals.status, as committed
    executed,   \* how often the credits of a proposal have been moved
    pc,         \* the step every request is at
    seen,       \* the balances the session of a request has loaded
    outcome     \* what became of a request

lockVars == <<balance, ledger, status, executed, pc, seen, outcome>>

Unseen == -1

Outcomes == {"running", "committed", "refused", "victim"}

Statuses == {"proposed", "pending_approval", "accepted", "executed", "rejected", "cancelled"}

-----------------------------------------------------------------------------
(* The statements of every request, in order *)

Account(t) == <<"account", t>>
FreeSlots(t) == <<"free slots", t>>
HeldSlots(t) == <<"held slots", t>>
TradeRow(p) == <<"proposal", p>>
LeagueRow == <<"league", 0>>
SessionRow == <<"session", 0>>

Lock(row) == [op |-> "lock", row |-> row]
Read(row) == [op |-> "read", row |-> row]
Decidable == [op |-> "decidable"]
Funded == [op |-> "funded"]

\* force_sell_lot: the account is read first, and locked after the slots.
SellLot(t) == <<Lock(SessionRow), Read(Account(t)), Funded,
                Lock(FreeSlots(t)), Lock(Account(t)), Funded>>

\* Faulty variant of ResolveSwap: the account is looked at before it is locked.
ResolveSwapUnlocked(t) == <<Lock(SessionRow), Read(Account(t)), Lock(HeldSlots(t)),
                            Lock(Account(t)), Funded>>

ResolveSwap(t) == <<Lock(SessionRow), Lock(HeldSlots(t)), Lock(Account(t)), Funded>>

\* apply_release: _my_team has locked the account of the caller.
ApplyRelease(t) == <<Lock(LeagueRow), Lock(Account(t)), Lock(HeldSlots(t))>>

\* Faulty variant of AssignSlot: the account first, then the slots.
AssignSlotAccountFirst(t) == <<Lock(LeagueRow), Lock(Account(t)), Lock(HeldSlots(t)), Funded>>

\* assign_slot in the place of another athlete.
AssignSlot(t) == <<Lock(LeagueRow), Lock(HeldSlots(t)), Lock(Account(t)), Funded>>

PostMovement(t) == <<Lock(LeagueRow), Lock(Account(t)), Funded>>

ExecuteTrade(p) ==
    <<Lock(HeldSlots(p.proposer)), Lock(HeldSlots(p.recipient)),
      Lock(Account(p.proposer)), Lock(Account(p.recipient)), Funded,
      Lock(FreeSlots(p.proposer)), Lock(FreeSlots(p.recipient))>>

\* Faulty variant of Decide: the status is looked at before the lock.
DecideUnlocked(p, t) == <<Lock(Account(t)), Decidable, Lock(TradeRow(p))>>

\* _my_team, then the proposal, then its status.
Decide(p, t) == <<Lock(Account(t)), Lock(TradeRow(p)), Decidable>>

\* approve_proposal: the admin has no team of its own here.
ApproveTrade(p) == <<Lock(TradeRow(p)), Decidable>> \o ExecuteTrade(Offer[p])

Statements(c) ==
    CASE c.kind = "sell"    -> SellLot(c.team)
      [] c.kind = "swap"    -> ResolveSwap(c.team)
      [] c.kind = "release" -> ApplyRelease(c.team)
      [] c.kind = "assign"  -> AssignSlot(c.team)
      [] c.kind = "admin"   -> PostMovement(c.team)
      [] c.kind = "accept"  -> Decide(c.proposal, Offer[c.proposal].recipient)
                                   \o ExecuteTrade(Offer[c.proposal])
      [] c.kind = "approve" -> ApproveTrade(c.proposal)
      [] c.kind = "reject"  -> Decide(c.proposal, Offer[c.proposal].recipient)
      [] c.kind = "cancel"  -> Decide(c.proposal, Offer[c.proposal].proposer)

Script == [r \in Requests |-> Statements(Call[r])]

Trades(r) == Call[r].kind \in {"accept", "approve"}
Decides(r) == Call[r].kind \in {"accept", "approve", "reject", "cancel"}
Target(r) == Call[r].proposal

\* What a request posts on the account of a team.
Amount(r, t) ==
    LET p == Offer[Target(r)]
    IN  IF Trades(r)
        THEN (IF t = p.recipient THEN p.give ELSE 0) - (IF t = p.proposer THEN p.give ELSE 0)
        ELSE IF t = Call[r].team /\ ~Decides(r) THEN Call[r].amount ELSE 0

Needs(r) == IF Call[r].kind = "approve" THEN "pending_approval" ELSE "proposed"

Decision(r) ==
    CASE Call[r].kind = "accept"  -> "accepted"
      [] Call[r].kind = "approve" -> "executed"
      [] Call[r].kind = "reject"  -> "rejected"
      [] Call[r].kind = "cancel"  -> "cancelled"

-----------------------------------------------------------------------------
Running(r) == outcome[r] = "running"

Statement(r) == Script[r][pc[r]]

\* The row is locked by a statement the request has passed.
Holds(r, row) == Running(r) /\ \E k \in 1..(pc[r] - 1) : Script[r][k] = Lock(row)

At(r, op) == Running(r) /\ pc[r] <= Len(Script[r]) /\ Statement(r).op = op

WaitsFor(r, q) == At(r, "lock") /\ q # r /\ Holds(q, Statement(r).row)

Waits(r) == At(r, "lock") /\ \E q \in Requests : WaitsFor(r, q)

\* The object of an account is loaded once, by the first query that finds it.
Loads(r, row) ==
    seen' = [seen EXCEPT ![r] = [t \in Teams |->
                IF row = Account(t) /\ @[t] = Unseen THEN balance[t] ELSE @[t]]]

Advance(r) == pc' = [pc EXCEPT ![r] = @ + 1]

Leave(r, how) == outcome' = [outcome EXCEPT ![r] = how]

\* A FOR UPDATE that is granted.
LockRow(r) ==
    /\ At(r, "lock")
    /\ ~Waits(r)
    /\ Loads(r, Statement(r).row)
    /\ Advance(r)
    /\ UNCHANGED <<balance, ledger, status, executed, outcome>>

ReadRow(r) ==
    /\ At(r, "read")
    /\ Loads(r, Statement(r).row)
    /\ Advance(r)
    /\ UNCHANGED <<balance, ledger, status, executed, outcome>>

\* The balances the checks see are those of the session.
Afford(r) == \A t \in Teams : seen[r][t] # Unseen => seen[r][t] + Amount(r, t) >= 0

Admitted(r) ==
    \/ At(r, "decidable") /\ status[Target(r)] = Needs(r)
    \/ At(r, "funded") /\ Afford(r)

Check(r) ==
    /\ Admitted(r)
    /\ Advance(r)
    /\ UNCHANGED <<balance, ledger, status, executed, seen, outcome>>

\* Faulty variant of Refuse: the session is not closed and keeps its rows.
RefuseUnclosed(r) ==
    /\ At(r, "decidable") \/ At(r, "funded")
    /\ ~Admitted(r)
    /\ UNCHANGED lockVars

\* The 400 of a refused request ends its transaction.
Refuse(r) ==
    /\ At(r, "decidable") \/ At(r, "funded")
    /\ ~Admitted(r)
    /\ Leave(r, "refused")
    /\ UNCHANGED <<balance, ledger, status, executed, pc, seen>>

\* apply_ledger_movement writes the balance of the object plus the amount.
Written(r, t) == IF Amount(r, t) = 0 THEN balance[t] ELSE seen[r][t] + Amount(r, t)

Commit(r) ==
    /\ Running(r)
    /\ pc[r] = Len(Script[r]) + 1
    /\ balance' = [t \in Teams |-> Written(r, t)]
    /\ ledger' = [t \in Teams |-> ledger[t] + Amount(r, t)]
    /\ status' = IF Decides(r) THEN [status EXCEPT ![Target(r)] = Decision(r)] ELSE status
    /\ executed' = IF Trades(r) THEN [executed EXCEPT ![Target(r)] = @ + 1] ELSE executed
    /\ Leave(r, "committed")
    /\ UNCHANGED <<pc, seen>>

\* Nobody outside S is waited for by r or by a request in S.
Closed(r, S) == \A q \in S \cup {r} : \A x \in Requests \ S : ~WaitsFor(q, x)

\* The requests that r waits for, directly or through others: whom every
\* such set has.
Ahead(r) == {x \in Requests : \A S \in SUBSET (Requests \ {x}) : ~Closed(r, S)}

Deadlocked(r) == Waits(r) /\ r \in Ahead(r)

\* The database ends one request of a cycle; its transaction is undone.
BreakDeadlock(r) ==
    /\ Deadlocked(r)
    /\ Leave(r, "victim")
    /\ UNCHANGED <<balance, ledger, status, executed, pc, seen>>

-----------------------------------------------------------------------------
LocksInit ==
    /\ balance = [t \in Teams |-> Credits]
    /\ ledger = [t \in Teams |-> Credits]
    /\ status = [p \in Proposals |-> Offer[p].status]
    /\ executed = [p \in Proposals |-> 0]
    /\ pc = [r \in Requests |-> 1]
    /\ seen = [r \in Requests |-> [t \in Teams |-> Unseen]]
    /\ outcome = [r \in Requests |-> "running"]

RequestStep(r) == LockRow(r) \/ ReadRow(r) \/ Check(r) \/ Refuse(r) \/ Commit(r)

LocksNext ==
    \/ \E r \in Requests : RequestStep(r)
    \/ \E r \in Requests : BreakDeadlock(r)

LocksSpec == LocksInit /\ [][LocksNext]_lockVars

\* The server goes on with what can go on; every script is finite, so it
\* does not matter with which request first.
LocksFairSpec == LocksSpec /\ WF_lockVars(LocksNext)

LocksTypeOK ==
    /\ balance \in [Teams -> Int]
    /\ ledger \in [Teams -> Int]
    /\ status \in [Proposals -> Statuses]
    /\ executed \in [Proposals -> Nat]
    /\ pc \in [Requests -> Nat \ {0}]
    /\ seen \in [Requests -> [Teams -> Int]]
    /\ outcome \in [Requests -> Outcomes]

-----------------------------------------------------------------------------
(* Properties *)

(* The balance of an account is the sum of its ledger, whatever requests   *)
(* run at the same time: "Append a ledger entry and update balance         *)
(* atomically" (apply_ledger_movement).                                    *)
BalanceIsLedger == \A t \in Teams : balance[t] = ledger[t]

(* Of the requests that decide the same proposal (a double click, an       *)
(* accept that races with a cancel) one succeeds, and the credits have     *)
(* moved if it was a trade: "solo una transizione valida prevale".         *)
OneDecision ==
    \A p \in Proposals :
        LET kept == {r \in Requests : outcome[r] = "committed" /\ Decides(r) /\ Target(r) = p}
        IN  /\ \A r, q \in kept : r = q
            /\ executed[p] = Cardinality({r \in kept : Trades(r)})

(* Sales, swaps, assignments and movements of the admin never wait for     *)
(* each other in a circle: a deadlock takes a trade or a release, which    *)
(* lock an account, or the slots of two teams, before the slots.           *)
OnlyTradesDeadlock ==
    \A r \in Requests :
        Deadlocked(r) => \E q \in Ahead(r) : Decides(q) \/ Call[q].kind = "release"

(* With the deadlocks broken every request ends.                           *)
EveryRequestEnds == \A r \in Requests : <>(outcome[r] # "running")
=============================================================================
