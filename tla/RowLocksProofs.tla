--------------------------- MODULE RowLocksProofs ---------------------------
(***************************************************************************)
(* Theorems about RowLocks for every set of requests, teams, proposals and *)
(* amounts: no statement of another request comes between the lock of an   *)
(* account or of a proposal and the commit.                                *)
(***************************************************************************)
EXTENDS RowLocks, FiniteSetTheorems, TLAPS

\* The statements a script is made of.
IsStatement(s) ==
    \/ \E row : s = Lock(row) \/ s = Read(row)
    \/ s = Decidable \/ s = Funded

LEMMA StatementKinds ==
    /\ \A row : /\ Lock(row).op = "lock" /\ Lock(row).row = row
                /\ Read(row).op = "read" /\ Read(row).row = row
    /\ Decidable.op = "decidable" /\ Funded.op = "funded"
BY DEF Lock, Read, Decidable, Funded

(***************************************************************************)
(* Scripts                                                                 *)
(***************************************************************************)
LEMMA ApproveScript ==
    ASSUME NEW p
    PROVE  LET s == ApproveTrade(p)
               o == Offer[p]
           IN  /\ Len(s) = 9
               /\ s[1] = Lock(TradeRow(p)) /\ s[2] = Decidable
               /\ s[3] = Lock(HeldSlots(o.proposer)) /\ s[4] = Lock(HeldSlots(o.recipient))
               /\ s[5] = Lock(Account(o.proposer)) /\ s[6] = Lock(Account(o.recipient))
               /\ s[7] = Funded /\ s[8] = Lock(FreeSlots(o.proposer))
               /\ s[9] = Lock(FreeSlots(o.recipient))
BY DEF ApproveTrade, ExecuteTrade

LEMMA DecideScript ==
    ASSUME NEW p, NEW t
    PROVE  LET s == Decide(p, t)
           IN  /\ Len(s) = 3
               /\ s[1] = Lock(Account(t)) /\ s[2] = Lock(TradeRow(p)) /\ s[3] = Decidable
BY DEF Decide

\* What a script is, for a request r: its accounts are locked before they are
\* written, its proposal right before its status is looked at.
ScriptOK(r) ==
    /\ Len(Script[r]) \in Nat
    /\ \A k \in 1..Len(Script[r]) :
          /\ IsStatement(Script[r][k])
          /\ Script[r][k].op = "read" => Call[r].kind = "sell"
          /\ Script[r][k] = Decidable =>
                 Decides(r) /\ k > 1 /\ Script[r][k - 1] = Lock(TradeRow(Target(r)))
    /\ \A t \in Teams : Amount(r, t) # 0 =>
          \E k \in 1..Len(Script[r]) : Script[r][k] = Lock(Account(t))
    /\ Decides(r) => \E k \in 1..Len(Script[r]) : Script[r][k] = Decidable

LEMMA CallTypes ==
    ASSUME NEW r \in Requests
    PROVE  /\ Script[r] = Statements(Call[r])
           /\ Call[r].kind \in Kinds /\ Call[r].team \in Teams /\ Call[r].amount \in Int
           /\ Target(r) \in Proposals /\ Target(r) = Call[r].proposal
           /\ \A p \in Proposals : /\ Offer[p].proposer \in Teams /\ Offer[p].recipient \in Teams
                                   /\ Offer[p].give \in Nat
                                   /\ Offer[p].status \in {"proposed", "pending_approval"}
BY RowLocksAssumption DEF Script, Target

LEMMA Scripts ==
    ASSUME NEW r \in Requests
    PROVE  ScriptOK(r)
<1> USE CallTypes, StatementKinds
<1> DEFINE t == Call[r].team
           p == Call[r].proposal
<1>1. CASE Call[r].kind = "sell"
  <2>1. Script[r] = SellLot(t)
    BY <1>1 DEF Statements
  <2>2. Len(Script[r]) = 6 /\ Script[r][5] = Lock(Account(t))
    BY <2>1 DEF SellLot
  <2> QED
    BY <1>1, <2>1, <2>2 DEF SellLot, ScriptOK, IsStatement, Amount, Trades, Decides
<1>2. CASE Call[r].kind = "swap"
  <2>1. Script[r] = ResolveSwap(t)
    BY <1>2 DEF Statements
  <2>2. Len(Script[r]) = 4 /\ Script[r][3] = Lock(Account(t))
    BY <2>1 DEF ResolveSwap
  <2> QED
    BY <1>2, <2>1, <2>2 DEF ResolveSwap, ScriptOK, IsStatement, Amount, Trades, Decides
<1>3. CASE Call[r].kind = "release"
  <2>1. Script[r] = ApplyRelease(t)
    BY <1>3 DEF Statements
  <2>2. Len(Script[r]) = 3 /\ Script[r][2] = Lock(Account(t))
    BY <2>1 DEF ApplyRelease
  <2> QED
    BY <1>3, <2>1, <2>2 DEF ApplyRelease, ScriptOK, IsStatement, Amount, Trades, Decides
<1>4. CASE Call[r].kind = "assign"
  <2>1. Script[r] = AssignSlot(t)
    BY <1>4 DEF Statements
  <2>2. Len(Script[r]) = 4 /\ Script[r][3] = Lock(Account(t))
    BY <2>1 DEF AssignSlot
  <2> QED
    BY <1>4, <2>1, <2>2 DEF AssignSlot, ScriptOK, IsStatement, Amount, Trades, Decides
<1>5. CASE Call[r].kind = "admin"
  <2>1. Script[r] = PostMovement(t)
    BY <1>5 DEF Statements
  <2>2. Len(Script[r]) = 3 /\ Script[r][2] = Lock(Account(t))
    BY <2>1 DEF PostMovement
  <2> QED
    BY <1>5, <2>1, <2>2 DEF PostMovement, ScriptOK, IsStatement, Amount, Trades, Decides
<1>6. CASE Call[r].kind = "accept"
  <2> DEFINE s == Script[r]
             o == Offer[p]
  <2>1. s = Decide(p, o.recipient) \o ExecuteTrade(o)
    BY <1>6 DEF Statements
  <2> HIDE DEF s, o
  <2>2. /\ Len(s) = 10
        /\ s[1] = Lock(Account(o.recipient)) /\ s[2] = Lock(TradeRow(p)) /\ s[3] = Decidable
        /\ s[4] = Lock(HeldSlots(o.proposer)) /\ s[5] = Lock(HeldSlots(o.recipient))
        /\ s[6] = Lock(Account(o.proposer)) /\ s[7] = Lock(Account(o.recipient))
        /\ s[8] = Funded /\ s[9] = Lock(FreeSlots(o.proposer))
        /\ s[10] = Lock(FreeSlots(o.recipient))
    BY <2>1 DEF Decide, ExecuteTrade
  <2> QED
    BY <1>6, <2>2 DEF s, o, ScriptOK, IsStatement, Amount, Trades, Decides
<1>7. CASE Call[r].kind = "approve"
  <2> DEFINE s == Script[r]
  <2>1. s = ApproveTrade(p)
    BY <1>7 DEF Statements
  <2>2. /\ Len(s) = 9
        /\ s[1] = Lock(TradeRow(p)) /\ s[2] = Decidable
        /\ s[3] = Lock(HeldSlots(Offer[p].proposer)) /\ s[4] = Lock(HeldSlots(Offer[p].recipient))
        /\ s[5] = Lock(Account(Offer[p].proposer)) /\ s[6] = Lock(Account(Offer[p].recipient))
        /\ s[7] = Funded /\ s[8] = Lock(FreeSlots(Offer[p].proposer))
        /\ s[9] = Lock(FreeSlots(Offer[p].recipient))
    BY <2>1, ApproveScript
  <2> QED
    BY <1>7, <2>2 DEF ScriptOK, IsStatement, Amount, Trades, Decides
<1>8. CASE Call[r].kind \in {"reject", "cancel"}
  <2>1. PICK u : Script[r] = Decide(p, u)
    BY <1>8 DEF Statements
  <2>2. /\ Len(Script[r]) = 3 /\ Script[r][1] = Lock(Account(u))
        /\ Script[r][2] = Lock(TradeRow(p)) /\ Script[r][3] = Decidable
    BY <2>1, DecideScript
  <2> QED
    BY <1>8, <2>2 DEF ScriptOK, IsStatement, Amount, Trades, Decides
<1> QED
  BY <1>1, <1>2, <1>3, <1>4, <1>5, <1>6, <1>7, <1>8 DEF Kinds
(***************************************************************************)
(* The inductive invariant                                                 *)
(***************************************************************************)
\* A row is held by one request at a time.
Exclusive == \A r, q \in Requests : \A row : Holds(r, row) /\ Holds(q, row) => r = q

\* A session that loads an account by locking it knows its balance.
Fresh ==
    \A r \in Requests, t \in Teams :
        (Running(r) /\ Call[r].kind # "sell") =>
            /\ seen[r][t] # Unseen => Holds(r, Account(t))
            /\ Holds(r, Account(t)) => seen[r][t] = balance[t]

\* The status that admitted a request is still the one of the proposal.
StillDecidable ==
    \A r \in Requests : \A k \in 1..(pc[r] - 1) :
        Running(r) /\ Script[r][k] = Decidable => status[Target(r)] = Needs(r)

Kept(p) == {r \in Requests : outcome[r] = "committed" /\ Decides(r) /\ Target(r) = p}

DecisionsFinal ==
    \A p \in Proposals : Kept(p) # {} => status[p] \notin {"proposed", "pending_approval"}

\* The accounts no forced sale takes credits from.
Unsold(t) == \A r \in Requests : Call[r].kind = "sell" => Call[r].team # t

UnsoldBalanced == \A t \in Teams : Unsold(t) => balance[t] = ledger[t]

PcOK == \A r \in Requests : pc[r] \in 1..(Len(Script[r]) + 1)

LocksInv ==
    /\ LocksTypeOK /\ PcOK /\ Exclusive /\ Fresh /\ StillDecidable
    /\ DecisionsFinal /\ OneDecision /\ UnsoldBalanced

LEMMA AmountType ==
    ASSUME NEW r \in Requests, NEW t \in Teams
    PROVE  Amount(r, t) \in Int
BY CallTypes DEF Amount, Trades

LEMMA DecisionType ==
    ASSUME NEW r \in Requests, Decides(r)
    PROVE  /\ Decision(r) \in Statuses \ {"proposed", "pending_approval"}
           /\ Needs(r) \in {"proposed", "pending_approval"}
BY DEF Decides, Decision, Needs, Statuses

LEMMA LocksStart == LocksInit => LocksInv
<1> SUFFICES ASSUME LocksInit
             PROVE  LocksInv
  OBVIOUS
<1>1. LocksTypeOK
  BY RowLocksAssumption DEF LocksInit, LocksTypeOK, Statuses, Outcomes, Unseen
<1>2. PcOK
  BY Scripts DEF LocksInit, PcOK, ScriptOK
<1>3. \A r \in Requests : \A row : ~Holds(r, row)
  BY DEF LocksInit, Holds
<1>4. \A p \in Proposals : Kept(p) = {}
  BY DEF LocksInit, Kept
<1>5. OneDecision
  <2> SUFFICES ASSUME NEW p \in Proposals
               PROVE  /\ \A r, q \in Kept(p) : r = q
                      /\ executed[p] = Cardinality({r \in Kept(p) : Trades(r)})
    BY DEF OneDecision, Kept
  <2>1. {r \in Kept(p) : Trades(r)} = {}
    BY <1>4
  <2> QED
    BY <1>4, <2>1, FS_EmptySet DEF LocksInit
<1>6. Fresh
  BY <1>3 DEF LocksInit, Fresh
<1> QED
  BY <1>1, <1>2, <1>3, <1>4, <1>5, <1>6
     DEF LocksInit, LocksInv, Exclusive, StillDecidable, DecisionsFinal, UnsoldBalanced
(***************************************************************************)
(* Statements of a request that goes on                                    *)
(***************************************************************************)
\* What a request holds after one more statement.
LEMMA HoldsNext ==
    ASSUME LocksInv, NEW r \in Requests, Running(r), pc[r] <= Len(Script[r]), Advance(r),
           UNCHANGED outcome
    PROVE  /\ pc' \in [Requests -> Nat \ {0}] /\ PcOK'
           /\ \A row : Holds(r, row)' <=> Holds(r, row) \/ Statement(r) = Lock(row)
           /\ \A q \in Requests \ {r} : \A row : Holds(q, row)' <=> Holds(q, row)
<1>1. /\ pc \in [Requests -> Nat \ {0}] /\ pc[r] \in Nat \ {0}
      /\ Len(Script[r]) \in Nat
  BY Scripts DEF LocksInv, LocksTypeOK, ScriptOK
<1>2. pc' = [pc EXCEPT ![r] = pc[r] + 1]
  BY DEF Advance
<1>3. pc'[r] - 1 = pc[r] /\ 1..pc[r] = (1..(pc[r] - 1)) \cup {pc[r]}
  BY <1>1, <1>2
<1>4. PcOK' /\ pc' \in [Requests -> Nat \ {0}]
  BY <1>1, <1>2, Scripts DEF LocksInv, PcOK, ScriptOK
<1>5. \A row : Holds(r, row)' <=> Holds(r, row) \/ Statement(r) = Lock(row)
  BY <1>1, <1>3 DEF Holds, Running, Statement
<1>6. \A q \in Requests \ {r} : \A row : Holds(q, row)' <=> Holds(q, row)
  BY <1>1, <1>2 DEF Holds, Running
<1> QED
  BY <1>4, <1>5, <1>6

LEMMA StatementAt ==
    ASSUME LocksInv, NEW r \in Requests, NEW op, At(r, op)
    PROVE  /\ Running(r) /\ pc[r] \in 1..Len(Script[r]) /\ IsStatement(Statement(r))
           /\ Statement(r).op = op
           /\ op = "lock" => Statement(r) = Lock(Statement(r).row)
           /\ op # "lock" => \A row : Statement(r) # Lock(row)
           /\ op = "decidable" <=> Statement(r) = Decidable
<1>1. pc[r] \in 1..Len(Script[r])
  BY Scripts DEF At, LocksInv, LocksTypeOK, ScriptOK
<1>2. IsStatement(Statement(r))
  BY <1>1, Scripts DEF ScriptOK, Statement
<1> QED
  BY <1>1, <1>2, StatementKinds DEF At, IsStatement

\* A statement that writes nothing that is committed.
Silent(r) ==
    /\ Running(r) /\ pc[r] <= Len(Script[r]) /\ Advance(r)
    /\ UNCHANGED <<balance, ledger, status, executed, outcome>>

LEMMA SilentKeeps ==
    ASSUME LocksInv, NEW r \in Requests, Silent(r), Exclusive', Fresh',
           seen' \in [Requests -> [Teams -> Int]],
           Statement(r) = Decidable => status[Target(r)] = Needs(r)
    PROVE  LocksInv'
<1>1. /\ pc' \in [Requests -> Nat \ {0}] /\ PcOK'
  BY HoldsNext DEF Silent
<1>2. LocksTypeOK'
  BY <1>1 DEF LocksInv, LocksTypeOK, Silent
<1>3. StillDecidable'
  <2> SUFFICES ASSUME NEW q \in Requests, NEW k \in 1..(pc'[q] - 1), Running(q),
                      Script[q][k] = Decidable
               PROVE  status[Target(q)] = Needs(q)
    BY DEF StillDecidable, Silent, Running
  <2>1. pc \in [Requests -> Nat \ {0}] /\ pc' = [pc EXCEPT ![r] = pc[r] + 1]
    BY DEF LocksInv, LocksTypeOK, Silent, Advance
  <2>2. k \in 1..(pc[q] - 1) \/ (q = r /\ k = pc[r])
    <3>1. CASE q = r
      <4>1. pc'[q] - 1 = pc[r] /\ pc[r] \in Nat \ {0}
        BY <2>1, <3>1
      <4> QED
        BY <3>1, <4>1
    <3>2. CASE q # r
      BY <2>1, <3>2
    <3> QED
      BY <3>1, <3>2
  <2> QED
    BY <2>2 DEF LocksInv, StillDecidable, Statement
<1>4. DecisionsFinal' /\ OneDecision' /\ UnsoldBalanced'
  BY DEF LocksInv, Silent, DecisionsFinal, Kept, OneDecision, UnsoldBalanced
<1> QED
  BY <1>1, <1>2, <1>3, <1>4 DEF LocksInv
LEMMA LoadsType ==
    ASSUME LocksInv, NEW r \in Requests, NEW row, Loads(r, row)
    PROVE  /\ seen' \in [Requests -> [Teams -> Int]]
           /\ \A q \in Requests \ {r} : seen'[q] = seen[q]
           /\ \A t \in Teams : seen'[r][t] = IF row = Account(t) /\ seen[r][t] = Unseen
                                             THEN balance[t] ELSE seen[r][t]
BY DEF Loads, LocksInv, LocksTypeOK

LEMMA LockKeeps ==
    ASSUME LocksInv, NEW r \in Requests, LockRow(r)
    PROVE  LocksInv'
<1> DEFINE row == Statement(r).row
<1>1. At(r, "lock") /\ ~Waits(r) /\ Loads(r, row) /\ Silent(r)
  BY DEF LockRow, Silent, At
<1>2. Statement(r) = Lock(row) /\ Statement(r) # Decidable
  BY <1>1, StatementAt, StatementKinds
<1>3. \A x : Statement(r) = Lock(x) <=> x = row
  BY <1>2, StatementKinds
<1>4. /\ seen' \in [Requests -> [Teams -> Int]]
      /\ \A q \in Requests \ {r} : seen'[q] = seen[q]
      /\ \A t \in Teams : seen'[r][t] = IF row = Account(t) /\ seen[r][t] = Unseen
                                        THEN balance[t] ELSE seen[r][t]
  BY <1>1, LoadsType
<1>5. \A q \in Requests \ {r} : ~Holds(q, row)
  BY <1>1 DEF Waits, WaitsFor
<1> HIDE DEF row
<1>6. /\ \A x : Holds(r, x)' <=> Holds(r, x) \/ x = row
      /\ \A q \in Requests \ {r} : \A x : Holds(q, x)' <=> Holds(q, x)
  BY <1>1, <1>3, HoldsNext DEF Silent
<1>7. Exclusive'
  BY <1>5, <1>6 DEF LocksInv, Exclusive
<1>8. Fresh'
  <2> SUFFICES ASSUME NEW q \in Requests, NEW t \in Teams, Running(q)', Call[q].kind # "sell"
               PROVE  /\ seen'[q][t] # Unseen => Holds(q, Account(t))'
                      /\ Holds(q, Account(t))' => seen'[q][t] = balance'[t]
    BY DEF Fresh
  <2>1. Running(q) /\ balance' = balance
    BY <1>1 DEF Silent, Running
  <2>2. /\ seen[q][t] # Unseen => Holds(q, Account(t))
        /\ Holds(q, Account(t)) => seen[q][t] = balance[t]
    BY <2>1 DEF LocksInv, Fresh
  <2>3. CASE q = r
    BY <1>4, <1>6, <2>1, <2>2, <2>3
  <2>4. CASE q # r
    BY <1>4, <1>6, <2>1, <2>2, <2>4
  <2> QED
    BY <2>3, <2>4
<1> QED
  BY <1>1, <1>2, <1>4, <1>7, <1>8, SilentKeeps

\* Reading an account, which only forced sales do, or checking something.
LEMMA LookKeeps ==
    ASSUME LocksInv, NEW r \in Requests, ReadRow(r) \/ Check(r)
    PROVE  LocksInv'
<1>1. Silent(r) /\ \A row : Statement(r) # Lock(row)
  BY StatementAt DEF ReadRow, Check, Admitted, Silent, At
<1>2. \A q \in Requests : \A x : Holds(q, x)' <=> Holds(q, x)
  BY <1>1, HoldsNext DEF Silent
<1>3. /\ seen' \in [Requests -> [Teams -> Int]]
      /\ \A q \in Requests : seen'[q] = seen[q] \/ Call[q].kind = "sell"
  <2>1. CASE ReadRow(r)
    <3>1. Call[r].kind = "sell"
      BY <2>1, StatementAt, Scripts DEF ReadRow, ScriptOK, Statement
    <3> QED
      BY <2>1, <3>1, LoadsType DEF ReadRow
  <2>2. CASE Check(r)
    BY <2>2 DEF Check, LocksInv, LocksTypeOK
  <2> QED
    BY <2>1, <2>2
<1>4. Exclusive'
  BY <1>2 DEF LocksInv, Exclusive
<1>5. Fresh'
  BY <1>1, <1>2, <1>3 DEF LocksInv, Fresh, Silent, Running
<1>6. Statement(r) = Decidable => status[Target(r)] = Needs(r)
  BY StatementAt, StatementKinds DEF ReadRow, Check, Admitted
<1> QED
  BY <1>1, <1>3, <1>4, <1>5, <1>6, SilentKeeps
(***************************************************************************)
(* The end of a request                                                    *)
(***************************************************************************)
LEMMA LeaveHolds ==
    ASSUME LocksInv, NEW r \in Requests, NEW how \in Outcomes \ {"running"}, Leave(r, how),
           UNCHANGED pc
    PROVE  /\ outcome' \in [Requests -> Outcomes] /\ outcome'[r] = how
           /\ \A q \in Requests \ {r} : outcome'[q] = outcome[q]
           /\ ~Running(r)'
           /\ \A q \in Requests : \A row : Holds(q, row)' => q # r /\ Holds(q, row)
<1>1. /\ outcome' \in [Requests -> Outcomes] /\ outcome'[r] = how
      /\ \A q \in Requests \ {r} : outcome'[q] = outcome[q]
  BY DEF Leave, LocksInv, LocksTypeOK
<1> QED
  BY <1>1 DEF Holds, Running

\* A request that is refused, or ended by the database, leaves nothing behind.
LEMMA UndoneKeeps ==
    ASSUME LocksInv, NEW r \in Requests, Refuse(r) \/ BreakDeadlock(r)
    PROVE  LocksInv'
<1>1. PICK how \in {"refused", "victim"} : Leave(r, how)
  BY DEF Refuse, BreakDeadlock
<1>2. UNCHANGED <<balance, ledger, status, executed, pc, seen>>
  BY DEF Refuse, BreakDeadlock
<1>3. Running(r)
  BY DEF Refuse, BreakDeadlock, Deadlocked, Waits, At
<1>4. /\ outcome' \in [Requests -> Outcomes] /\ outcome'[r] = how /\ ~Running(r)'
      /\ \A q \in Requests \ {r} : outcome'[q] = outcome[q]
      /\ \A q \in Requests : \A row : Holds(q, row)' => q # r /\ Holds(q, row)
  BY <1>1, <1>2, LeaveHolds DEF Outcomes
<1>5. \A q \in Requests \ {r} : \A row : Holds(q, row)' <=> Holds(q, row)
  BY <1>2, <1>4 DEF Holds, Running
<1>6. \A p \in Proposals : Kept(p)' = Kept(p)
  BY <1>3, <1>4 DEF Kept, Running
<1>7. LocksTypeOK' /\ PcOK' /\ Exclusive'
  BY <1>2, <1>4 DEF LocksInv, LocksTypeOK, PcOK, Exclusive
<1>8. Fresh' /\ StillDecidable'
  BY <1>2, <1>4, <1>5 DEF LocksInv, Fresh, StillDecidable, Running
<1>9. DecisionsFinal' /\ OneDecision' /\ UnsoldBalanced'
  <2>1. OneDecision'
    <3> SUFFICES ASSUME NEW p \in Proposals
                 PROVE  /\ \A x, q \in Kept(p)' : x = q
                        /\ executed'[p] = Cardinality({x \in Kept(p)' : Trades(x)})
      BY DEF OneDecision, Kept
    <3> QED
      BY <1>2, <1>6 DEF LocksInv, OneDecision, Kept
  <2> QED
    BY <1>2, <1>6, <2>1 DEF LocksInv, DecisionsFinal, UnsoldBalanced
<1> QED
  BY <1>7, <1>8, <1>9 DEF LocksInv

LEMMA CommitKeeps ==
    ASSUME LocksInv, NEW r \in Requests, Commit(r)
    PROVE  LocksInv'
<1> USE DEF LocksInv
<1>1. /\ Running(r) /\ pc[r] = Len(Script[r]) + 1 /\ Leave(r, "committed") /\ UNCHANGED <<pc, seen>>
      /\ \A t \in Teams : /\ balance'[t] = Written(r, t)
                          /\ ledger'[t] = ledger[t] + Amount(r, t)
  BY DEF Commit
<1>2. /\ outcome' \in [Requests -> Outcomes] /\ outcome'[r] = "committed" /\ ~Running(r)'
      /\ \A q \in Requests \ {r} : outcome'[q] = outcome[q]
      /\ \A q \in Requests : \A row : Holds(q, row)' => q # r /\ Holds(q, row)
  BY <1>1, LeaveHolds DEF Outcomes
<1>3. /\ Len(Script[r]) \in Nat /\ pc[r] - 1 = Len(Script[r])
      /\ \A k \in 1..Len(Script[r]) : \A row : Script[r][k] = Lock(row) => Holds(r, row)
  BY <1>1, Scripts DEF ScriptOK, Holds
<1>4. \A t \in Teams : Amount(r, t) # 0 => Holds(r, Account(t))
  BY <1>3, Scripts DEF ScriptOK
<1>5. ASSUME NEW t \in Teams
      PROVE  /\ balance[t] \in Int /\ ledger[t] \in Int /\ Amount(r, t) \in Int
             /\ seen[r][t] \in Int /\ balance'[t] \in Int /\ ledger'[t] \in Int
             /\ Amount(r, t) = 0 => balance'[t] = balance[t] /\ ledger'[t] = ledger[t]
             /\ Amount(r, t) # 0 /\ Call[r].kind # "sell" => balance'[t] = balance[t] + Amount(r, t)
  <2>1. balance[t] \in Int /\ ledger[t] \in Int /\ Amount(r, t) \in Int /\ seen[r][t] \in Int
    BY AmountType DEF LocksTypeOK
  <2>2. Amount(r, t) # 0 /\ Call[r].kind # "sell" => seen[r][t] = balance[t]
    BY <1>1, <1>4 DEF Fresh
  <2> QED
    BY <1>1, <2>1, <2>2 DEF Written
<1>6. UnsoldBalanced'
  <2> SUFFICES ASSUME NEW t \in Teams, Unsold(t)
               PROVE  balance'[t] = ledger'[t]
    BY DEF UnsoldBalanced, Unsold
  <2>1. balance[t] = ledger[t]
    BY DEF UnsoldBalanced
  <2>2. Call[r].kind = "sell" => Amount(r, t) = 0
    BY DEF Unsold, Amount, Trades, Decides
  <2> QED
    BY <1>1, <1>5, <2>1, <2>2
<1>7. Fresh'
  <2> SUFFICES ASSUME NEW q \in Requests, NEW t \in Teams, Running(q)', Call[q].kind # "sell"
               PROVE  /\ seen'[q][t] # Unseen => Holds(q, Account(t))'
                      /\ Holds(q, Account(t))' => seen'[q][t] = balance'[t]
    BY DEF Fresh
  <2>1. q # r /\ Running(q)
    BY <1>2 DEF Running
  <2>2. Holds(q, Account(t))' <=> Holds(q, Account(t))
    BY <1>1, <1>2, <2>1 DEF Holds, Running
  <2>3. Holds(q, Account(t)) => Amount(r, t) = 0
    BY <1>4, <2>1 DEF Exclusive
  <2> QED
    BY <1>1, <1>5, <2>1, <2>2, <2>3 DEF Fresh
<1>8. Exclusive' /\ PcOK'
  BY <1>1, <1>2 DEF Exclusive, PcOK
<1>9. /\ balance' \in [Teams -> Int] /\ ledger' \in [Teams -> Int]
      /\ seen' \in [Requests -> [Teams -> Int]] /\ pc' \in [Requests -> Nat \ {0}]
  <2>1. /\ balance' = [t \in Teams |-> Written(r, t)]
        /\ ledger' = [t \in Teams |-> ledger[t] + Amount(r, t)]
    BY DEF Commit
  <2> QED
    BY <1>1, <1>5, <2>1 DEF LocksTypeOK
<1> DEFINE p == Target(r)
<1>10. p \in Proposals
  BY CallTypes
<1>11. CASE ~Decides(r)
  <2>1. UNCHANGED <<status, executed>>
    BY <1>11 DEF Commit, Decides, Trades
  <2>2. \A o \in Proposals : Kept(o)' = Kept(o)
    BY <1>1, <1>2, <1>11 DEF Kept, Running
  <2>3. LocksTypeOK' /\ StillDecidable' /\ DecisionsFinal'
    BY <1>1, <1>2, <1>9, <2>1, <2>2 DEF LocksTypeOK, StillDecidable, DecisionsFinal, Running
  <2>4. OneDecision'
    <3> SUFFICES ASSUME NEW o \in Proposals
                 PROVE  /\ \A x, q \in Kept(o)' : x = q
                        /\ executed'[o] = Cardinality({x \in Kept(o)' : Trades(x)})
      BY DEF OneDecision, Kept
    <3> QED
      BY <2>1, <2>2 DEF OneDecision, Kept
  <2> QED
    BY <1>6, <1>7, <1>8, <2>3, <2>4
<1>12. CASE Decides(r)
  <2>1. /\ status' = [status EXCEPT ![p] = Decision(r)]
        /\ executed' = IF Trades(r) THEN [executed EXCEPT ![p] = @ + 1] ELSE executed
    BY <1>12 DEF Commit
  <2>2. PICK k \in 1..Len(Script[r]) : Script[r][k] = Decidable
    BY <1>12, Scripts DEF ScriptOK
  <2>3. status[p] = Needs(r) /\ Holds(r, TradeRow(p))
    <3>1. k - 1 \in 1..Len(Script[r]) /\ Script[r][k - 1] = Lock(TradeRow(p))
      BY <1>3, <2>2, Scripts DEF ScriptOK
    <3> QED
      BY <1>1, <1>3, <2>2, <3>1 DEF StillDecidable
  <2>4. Kept(p) = {}
    BY <1>10, <1>12, <2>3, DecisionType DEF DecisionsFinal
  <2>5. executed[p] = 0
    <3>1. {x \in Kept(p) : Trades(x)} = {}
      BY <2>4
    <3>2. executed[p] = Cardinality({x \in Kept(p) : Trades(x)})
      BY <1>10 DEF OneDecision, Kept
    <3> QED
      BY <3>1, <3>2, FS_EmptySet
  <2>6. Kept(p)' = {r} /\ \A o \in Proposals \ {p} : Kept(o)' = Kept(o)
    BY <1>1, <1>2, <1>12, <2>4 DEF Kept, Running
  <2> HIDE DEF p
  <2>7. /\ status' \in [Proposals -> Statuses] /\ executed' \in [Proposals -> Nat]
        /\ status'[p] \notin {"proposed", "pending_approval"}
        /\ \A o \in Proposals \ {p} : status'[o] = status[o] /\ executed'[o] = executed[o]
        /\ executed'[p] = IF Trades(r) THEN 1 ELSE 0
    BY <1>10, <1>12, <2>1, <2>5, DecisionType DEF LocksTypeOK
  <2>8. LocksTypeOK' /\ DecisionsFinal'
    BY <1>2, <1>9, <2>6, <2>7 DEF LocksTypeOK, DecisionsFinal
  <2>9. StillDecidable'
    <3> SUFFICES ASSUME NEW q \in Requests, NEW j \in 1..(pc[q] - 1), Running(q)',
                        Script[q][j] = Decidable
                 PROVE  status'[Target(q)] = Needs(q)
      BY <1>1 DEF StillDecidable
    <3>1. q # r /\ Running(q)
      BY <1>2 DEF Running
    <3>2. pc[q] \in 1..(Len(Script[q]) + 1) /\ Len(Script[q]) \in Nat
      BY Scripts DEF PcOK, ScriptOK
    <3>3. j - 1 \in 1..(pc[q] - 1) \/ j = 1
      BY <3>2
    <3>4. j \in 1..Len(Script[q])
      BY <3>2
    <3>5. j > 1 /\ Script[q][j - 1] = Lock(TradeRow(Target(q)))
      BY <3>4, Scripts DEF ScriptOK
    <3>6. Holds(q, TradeRow(Target(q)))
      BY <3>1, <3>2, <3>3, <3>5 DEF Holds
    <3>7. Target(q) # p
      BY <2>3, <3>1, <3>6 DEF Exclusive
    <3>8. Target(q) \in Proposals /\ status[Target(q)] = Needs(q)
      BY <3>1, CallTypes DEF StillDecidable
    <3> QED
      BY <2>7, <3>7, <3>8
  <2>10. OneDecision'
    <3> SUFFICES ASSUME NEW o \in Proposals
                 PROVE  /\ \A x, q \in Kept(o)' : x = q
                        /\ executed'[o] = Cardinality({x \in Kept(o)' : Trades(x)})
      BY DEF OneDecision, Kept
    <3>1. CASE o # p
      BY <2>6, <2>7, <3>1 DEF OneDecision, Kept
    <3>2. CASE o = p
      <4>1. {x \in Kept(p)' : Trades(x)} = IF Trades(r) THEN {r} ELSE {}
        BY <2>6
      <4> QED
        BY <2>6, <2>7, <3>2, <4>1, FS_EmptySet, FS_Singleton
    <3> QED
      BY <3>1, <3>2
  <2> QED
    BY <1>6, <1>7, <1>8, <2>8, <2>9, <2>10
<1> QED
  BY <1>11, <1>12
(***************************************************************************)
(* The theorems                                                            *)
(***************************************************************************)
LEMMA LocksInductive == LocksInv /\ [LocksNext]_lockVars => LocksInv'
<1> SUFFICES ASSUME LocksInv, [LocksNext]_lockVars
             PROVE  LocksInv'
  OBVIOUS
<1>1. ASSUME NEW r \in Requests, RequestStep(r) \/ BreakDeadlock(r)
      PROVE  LocksInv'
  <2>1. CASE LockRow(r)
    BY <2>1, LockKeeps
  <2>2. CASE ReadRow(r) \/ Check(r)
    BY <2>2, LookKeeps
  <2>3. CASE Refuse(r) \/ BreakDeadlock(r)
    BY <2>3, UndoneKeeps
  <2>4. CASE Commit(r)
    BY <2>4, CommitKeeps
  <2> QED
    BY <1>1, <2>1, <2>2, <2>3, <2>4 DEF RequestStep
<1>2. CASE UNCHANGED lockVars
  <2>1. /\ UNCHANGED <<balance, ledger, status, executed, pc, seen, outcome>>
        /\ \A r \in Requests : Running(r)' <=> Running(r)
        /\ \A r \in Requests : \A row : Holds(r, row)' <=> Holds(r, row)
        /\ \A p \in Proposals : Kept(p)' = Kept(p)
    BY <1>2 DEF lockVars, Holds, Running, Kept
  <2>2. LocksTypeOK' /\ PcOK' /\ Exclusive' /\ Fresh' /\ StillDecidable'
    BY <2>1 DEF LocksInv, LocksTypeOK, PcOK, Exclusive, Fresh, StillDecidable
  <2>3. DecisionsFinal' /\ OneDecision' /\ UnsoldBalanced'
    BY <2>1 DEF LocksInv, DecisionsFinal, OneDecision, UnsoldBalanced
  <2> QED
    BY <2>2, <2>3 DEF LocksInv
<1> QED
  BY <1>1, <1>2 DEF LocksNext

LEMMA LocksInvariant == LocksSpec => []LocksInv
<1> QED
  BY LocksStart, LocksInductive, PTL DEF LocksSpec

\* Balances, statuses, sessions and outcomes keep their types.
THEOREM LocksTypeCorrect == LocksSpec => []LocksTypeOK
<1>1. LocksInv => LocksTypeOK
  BY DEF LocksInv
<1> QED
  BY <1>1, LocksInvariant, PTL

\* A double click, or an accept that races with a cancel, decides a proposal
\* once and moves its credits once (_lock_proposal, then _require_status).
THEOREM DecidedOnce == LocksSpec => []OneDecision
<1>1. LocksInv => OneDecision
  BY DEF LocksInv
<1> QED
  BY <1>1, LocksInvariant, PTL

\* The balance of an account that no forced sale takes credits from is the sum
\* of its ledger, whatever else runs: the object apply_ledger_movement writes
\* was loaded by the query that locked it.
THEOREM UnsoldAccountsBalance == LocksSpec => []UnsoldBalanced
<1>1. LocksInv => UnsoldBalanced
  BY DEF LocksInv
<1> QED
  BY <1>1, LocksInvariant, PTL

\* Forced sales are the only requests that can break "Append a ledger entry and
\* update balance atomically" (force_sell_lot reads the account before its lock).
THEOREM BalancedWithoutSales ==
    ASSUME \A r \in Requests : Call[r].kind # "sell"
    PROVE  LocksSpec => []BalanceIsLedger
<1>1. LocksInv => BalanceIsLedger
  BY DEF LocksInv, UnsoldBalanced, Unsold, BalanceIsLedger
<1> QED
  BY <1>1, LocksInvariant, PTL

(***************************************************************************)
(* Deadlocks                                                               *)
(***************************************************************************)
\* The order in which sales, swaps, assignments and movements lock rows.
Level(row) ==
    IF row[1] = "account" THEN 3 ELSE IF row[1] \in {"free slots", "held slots"} THEN 2 ELSE 1

Orderly(r) == Call[r].kind \in {"sell", "swap", "assign", "admin"}

LEMMA LevelOf ==
    /\ \A t : Level(Account(t)) = 3 /\ Level(FreeSlots(t)) = 2 /\ Level(HeldSlots(t)) = 2
    /\ Level(LeagueRow) = 1 /\ Level(SessionRow) = 1
BY DEF Level, Account, FreeSlots, HeldSlots, LeagueRow, SessionRow

LEMMA LocksInOrder ==
    ASSUME NEW r \in Requests, Orderly(r),
           NEW k \in 1..Len(Script[r]), NEW j \in 1..(k - 1), NEW held, NEW wanted,
           Script[r][j] = Lock(held), Script[r][k] = Lock(wanted)
    PROVE  Level(held) < Level(wanted)
<1> USE CallTypes, StatementKinds
<1> DEFINE t == Call[r].team
<1>1. /\ Lock(held).op = "lock" /\ Lock(held).row = held
      /\ Lock(wanted).op = "lock" /\ Lock(wanted).row = wanted
  OBVIOUS
<1>2. CASE Call[r].kind = "sell"
  <2>1. Script[r] = SellLot(t)
    BY <1>2 DEF Statements
  <2> QED
    BY <1>1, <2>1, LevelOf DEF SellLot
<1>3. CASE Call[r].kind = "swap"
  <2>1. Script[r] = ResolveSwap(t)
    BY <1>3 DEF Statements
  <2> QED
    BY <1>1, <2>1, LevelOf DEF ResolveSwap
<1>4. CASE Call[r].kind = "assign"
  <2>1. Script[r] = AssignSlot(t)
    BY <1>4 DEF Statements
  <2> QED
    BY <1>1, <2>1, LevelOf DEF AssignSlot
<1>5. CASE Call[r].kind = "admin"
  <2>1. Script[r] = PostMovement(t)
    BY <1>5 DEF Statements
  <2> QED
    BY <1>1, <2>1, LevelOf DEF PostMovement
<1> QED
  BY <1>2, <1>3, <1>4, <1>5 DEF Orderly

\* The level of the row a request waits for.
Wanted(r) == Level(Statement(r).row)

\* Who is waited for and waits itself wants a row further on.
LEMMA WaitsUpwards ==
    ASSUME LocksInv, NEW q \in Requests, NEW x \in Requests, Orderly(x), WaitsFor(q, x), Waits(x)
    PROVE  Wanted(q) < Wanted(x)
<1>1. PICK j \in 1..(pc[x] - 1) : Script[x][j] = Lock(Statement(q).row)
  BY DEF WaitsFor, Holds
<1>2. At(x, "lock")
  BY DEF Waits
<1>3. pc[x] \in 1..Len(Script[x]) /\ IsStatement(Statement(x)) /\ Statement(x).op = "lock"
  BY <1>2, StatementAt DEF At
<1>4. PICK row : Statement(x) = Lock(row)
  BY <1>3, StatementKinds DEF IsStatement
<1>5. Script[x][pc[x]] = Lock(row) /\ Statement(x).row = row
  BY <1>4, StatementKinds DEF Statement
<1> QED
  BY <1>1, <1>3, <1>5, LocksInOrder DEF Wanted

LEMMA AheadGrows ==
    ASSUME NEW r \in Requests, NEW q \in Ahead(r) \cup {r}, NEW x \in Requests, WaitsFor(q, x)
    PROVE  x \in Ahead(r)
<1> SUFFICES ASSUME NEW S \in SUBSET (Requests \ {x}), Closed(r, S)
             PROVE  FALSE
  BY DEF Ahead
<1>1. q \in S \cup {r}
  <2>1. CASE q = r
    BY <2>1
  <2>2. CASE q \in Ahead(r) /\ q \notin S
    <3>1. S \in SUBSET (Requests \ {q})
      BY <2>2
    <3> QED
      BY <2>2, <3>1 DEF Ahead
  <2> QED
    BY <2>1, <2>2
<1>2. x \in Requests \ S
  OBVIOUS
<1> QED
  BY <1>1, <1>2 DEF Closed

\* Sales, swaps, assignments and movements of the admin never deadlock among
\* themselves, however many there are: they all lock the league or the session
\* first, then slots, then the account.  A deadlock takes a trade or a release.
THEOREM DeadlocksNeedTrades == LocksSpec => []OnlyTradesDeadlock
<1>1. ASSUME LocksInv, NEW r \in Requests, Deadlocked(r),
             \A q \in Ahead(r) : ~(Decides(q) \/ Call[q].kind = "release")
      PROVE  FALSE
  <2> DEFINE S == {x \in Ahead(r) : Waits(x) => Wanted(r) < Wanted(x)}
  <2>1. \A x \in Ahead(r) : x \in Requests /\ Orderly(x)
    <3>1. Ahead(r) \subseteq Requests
      BY DEF Ahead
    <3> QED
      BY <1>1, <3>1, CallTypes DEF Decides, Orderly, Kinds
  <2>2. \A x \in Requests : Wanted(x) \in Int
    BY DEF Wanted, Level
  <2>3. Waits(r) /\ r \in Ahead(r)
    BY <1>1 DEF Deadlocked
  <2>4. S \in SUBSET (Requests \ {r})
    BY <2>1, <2>2, <2>3
  <2>5. ASSUME NEW q \in S \cup {r}, NEW x \in Requests, WaitsFor(q, x)
        PROVE  x \in S
    <3>1. q \in Requests /\ q \in Ahead(r) \cup {r}
      BY <2>1
    <3>2. x \in Ahead(r) /\ Orderly(x)
      BY <2>1, <2>5, <3>1, AheadGrows
    <3>3. Waits(q)
      BY <2>5 DEF WaitsFor, Waits
    <3>4. Waits(x) => Wanted(q) < Wanted(x)
      BY <1>1, <2>5, <3>1, <3>2, WaitsUpwards
    <3>5. q = r \/ Wanted(r) < Wanted(q)
      BY <3>3
    <3> QED
      BY <2>2, <3>1, <3>2, <3>4, <3>5
  <2>6. Closed(r, S)
    BY <2>5 DEF Closed
  <2> HIDE DEF S
  <2> QED
    BY <2>3, <2>4, <2>6 DEF Ahead
<1>2. LocksInv => OnlyTradesDeadlock
  BY <1>1 DEF OnlyTradesDeadlock
<1> QED
  BY <1>2, LocksInvariant, PTL
=============================================================================
