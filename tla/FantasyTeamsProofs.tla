------------------------- MODULE FantasyTeamsProofs -------------------------
(***************************************************************************)
(* Theorems about FantasyTeams for every number of teams, slots, athletes  *)
(* and rows.  The handlers are first reduced to what they may do to the    *)
(* tables (TableSteps): a ledger is posted to, a slot is filled under the  *)
(* quota and the unique index, a slot is emptied, or the tables saved at   *)
(* the start of the transaction come back.  Every invariant is then shown  *)
(* to survive these changes.                                               *)
(***************************************************************************)
EXTENDS FantasyTeams, FiniteSetTheorems, WellFoundedInduction, TLAPS

-----------------------------------------------------------------------------
(* The ledger and the slots: facts about the operators of CreditLedger and   *)
(* Roster that the proofs about the components rest on.                      *)

(* A movement that CanPost admits keeps an account well typed: the balance *)
(* never becomes negative (validate_ledger_balance_non_negative).          *)
LEMMA PostType ==
    ASSUME NEW acc \in Accounts, NEW tx \in TxIds, NEW amount \in Int,
           CanPost(acc, tx, amount)
    PROVE  Post(acc, tx, amount) \in Accounts
<1>1. CASE Posted(acc, tx)
  BY <1>1 DEF Post
<1>2. CASE ~Posted(acc, tx)
  <2>1. acc.balance + amount \in Nat
    BY <1>2 DEF CanPost, Accounts
  <2>2. [tx |-> tx, amount |-> amount, after |-> acc.balance + amount] \in Entries
    BY <2>1 DEF Entries
  <2>3. Append(acc.entries, [tx |-> tx, amount |-> amount, after |-> acc.balance + amount])
            \in Seq(Entries)
    BY <2>2 DEF Accounts
  <2> QED
    BY <1>2, <2>1, <2>3 DEF Post, Accounts
<1> QED
  BY <1>1, <1>2

(* apply_ledger_movement keeps an account sound: the new entry continues   *)
(* the chain of balance_after and a known transaction id adds nothing.     *)
LEMMA PostSound ==
    ASSUME NEW acc \in Accounts, NEW tx \in TxIds, NEW amount \in Int,
           CanPost(acc, tx, amount), Chained(acc), TxUnique(acc)
    PROVE  Chained(Post(acc, tx, amount)) /\ TxUnique(Post(acc, tx, amount))
<1>1. CASE Posted(acc, tx)
  BY <1>1 DEF Post
<1>2. CASE ~Posted(acc, tx)
  <2> DEFINE n == Len(acc.entries)
             e == [tx |-> tx, amount |-> amount, after |-> acc.balance + amount]
             new == Append(acc.entries, e)
             after == Post(acc, tx, amount)
  <2>1. /\ acc.entries \in Seq(Entries)
        /\ n \in Nat
        /\ acc.balance \in Nat
    BY DEF Accounts
  <2>2. acc.balance + amount \in Nat
    BY <1>2, <2>1 DEF CanPost
  <2>3. e \in Entries
    BY <2>2 DEF Entries
  <2>4. /\ new \in Seq(Entries)
        /\ Len(new) = n + 1
        /\ \A i \in 1..n : new[i] = acc.entries[i]
        /\ new[n + 1] = e
    BY <2>1, <2>3
  <2>5. after.balance = acc.balance + amount /\ after.entries = new
    BY <1>2 DEF Post
  <2> HIDE DEF after, new, e, n
  <2>6. ASSUME NEW i \in 1..(n + 1)
        PROVE  new[i].after = AfterAt(new, i - 1) + new[i].amount
    <3>1. CASE i = n + 1
      <4>1. AfterAt(new, i - 1) = AfterAt(acc.entries, n)
        BY <2>1, <2>4, <3>1 DEF AfterAt
      <4>2. acc.balance = AfterAt(acc.entries, n)
        BY DEF Chained, n
      <4> QED
        BY <2>4, <3>1, <4>1, <4>2, <2>2 DEF e
    <3>2. CASE i \in 1..n
      <4>1. AfterAt(new, i - 1) = AfterAt(acc.entries, i - 1)
        BY <2>1, <2>4, <3>2 DEF AfterAt
      <4>2. acc.entries[i].after = AfterAt(acc.entries, i - 1) + acc.entries[i].amount
        BY <3>2 DEF Chained, n
      <4> QED
        BY <2>4, <3>2, <4>1, <4>2
    <3> QED
      BY <3>1, <3>2, <2>1
  <2>7. after.balance = AfterAt(new, n + 1)
    BY <2>1, <2>4, <2>5 DEF AfterAt, e
  <2>8. Chained(after)
    BY <2>4, <2>5, <2>6, <2>7 DEF Chained
  <2>9. TxUnique(after)
    <3>1. \A i \in 1..n : new[i].tx # tx
      BY <1>2, <2>4 DEF Posted, n
    <3>2. \A i, j \in 1..n : new[i].tx = new[j].tx => i = j
      BY <2>4 DEF TxUnique, n
    <3>3. new[n + 1].tx = tx
      BY <2>4 DEF e
    <3>4. \A i, j \in 1..(n + 1) : new[i].tx = new[j].tx => i = j
      BY <2>1, <3>1, <3>2, <3>3
    <3> QED
      BY <2>4, <2>5, <3>4 DEF TxUnique
  <2> QED
    BY <2>8, <2>9 DEF after
<1> QED
  BY <1>1, <1>2

-----------------------------------------------------------------------------
\* The order of the naturals as a set of pairs.
Below == {p \in Nat \X Nat : p[1] < p[2]}

(* A set of naturals that is not empty has a smallest element. *)
LEMMA SmallestElement ==
    ASSUME NEW T \in SUBSET Nat, T # {}
    PROVE  \E s \in T : \A r \in T : s <= r
<1>1. IsWellFoundedOn(Below, Nat)
  <2>1. OpToRel(<, Nat) = Below
    BY Zenon DEF OpToRel, Below
  <2> QED
    BY <2>1, NatLessThanWellFounded, Zenon
<1>2. PICK s \in T : \A r \in T : <<r, s>> \notin Below
  BY <1>1, WFMin
<1>3. ASSUME NEW r \in T
      PROVE  s <= r
  <2>1. <<r, s>> \in Nat \X Nat /\ <<r, s>>[1] = r /\ <<r, s>>[2] = s
    OBVIOUS
  <2>2. <<r, s>> \in Below <=> r < s
    BY <2>1 DEF Below
  <2> QED
    BY <1>2, <2>2
<1> QED
  BY <1>3

(* The first free slot is free, when there is one. *)
LEMMA FirstFreeSlot ==
    ASSUME NEW sl, FreeSlots(sl) # {}
    PROVE  FirstFree(sl) \in FreeSlots(sl) /\ FirstFree(sl) \in Slots
<1>1. FreeSlots(sl) \in SUBSET Nat /\ FreeSlots(sl) \subseteq Slots
  BY RosterAssumption DEF FreeSlots
<1>2. \E s \in FreeSlots(sl) : \A r \in FreeSlots(sl) : s <= r
  BY <1>1, SmallestElement
<1> HIDE DEF FreeSlots
<1> QED
  BY <1>1, <1>2 DEF FirstFree

(* The slots of a role form a finite set. *)
LEMMA SlotsOfRoleFinite ==
    ASSUME NEW sl, NEW r
    PROVE  /\ IsFiniteSet(SlotsOfRole(sl, r))
           /\ Cardinality(SlotsOfRole(sl, r)) \in Nat
<1>1. SlotsOfRole(sl, r) \subseteq Slots
  BY DEF SlotsOfRole, Occupied
<1>2. IsFiniteSet(SlotsOfRole(sl, r))
  BY <1>1, FS_Subset, RosterAssumption
<1> QED
  BY <1>2, FS_CardinalityType

(* Putting an athlete that WithinQuota admits into a slot keeps the roster *)
(* within the limit of every role: would_exceed_role_quota discounts the   *)
(* replaced athlete twice, yet it is strict enough.                        *)
LEMMA FillKeepsQuota ==
    ASSUME NEW sl \in TeamSlots, NEW s \in Slots, NEW a \in Athletes,
           WithinQuota(sl, s, a), RespectsQuota(sl)
    PROVE  RespectsQuota([sl EXCEPT ![s] = a])
<1> DEFINE new == [sl EXCEPT ![s] = a]
<1>0. /\ a # NoAthlete /\ Role[a] \in Roles /\ new \in TeamSlots
      /\ new[s] = a /\ \A r \in Slots \ {s} : new[r] = sl[r]
  BY NoAthleteAssumption, RosterAssumption DEF TeamSlots
<1>1. SUFFICES ASSUME NEW r \in Roles
               PROVE  Cardinality(SlotsOfRole(new, r)) <= Limit[r]
  BY DEF RespectsQuota
<1>2. Limit[r] \in Nat /\ Cardinality(SlotsOfRole(sl, r)) <= Limit[r]
  BY RosterAssumption DEF RespectsQuota
<1>3. CASE r # Role[a]
  <2>1. SlotsOfRole(new, r) \subseteq SlotsOfRole(sl, r)
    BY <1>0, <1>3 DEF SlotsOfRole, Occupied
  <2>2. Cardinality(SlotsOfRole(new, r)) <= Cardinality(SlotsOfRole(sl, r))
    BY <2>1, SlotsOfRoleFinite, FS_Subset
  <2> QED
    BY <1>2, <2>2, SlotsOfRoleFinite
<1>4. CASE r = Role[a] /\ s \in SlotsOfRole(sl, r)
  <2>1. SlotsOfRole(new, r) = SlotsOfRole(sl, r)
    BY <1>0, <1>4 DEF SlotsOfRole, Occupied
  <2> QED
    BY <1>2, <2>1
<1>5. CASE r = Role[a] /\ s \notin SlotsOfRole(sl, r)
  <2>1. SlotsOfRole(new, r) = SlotsOfRole(sl, r) \cup {s}
    BY <1>0, <1>5 DEF SlotsOfRole, Occupied
  <2>2. Cardinality(SlotsOfRole(new, r)) = Cardinality(SlotsOfRole(sl, r)) + 1
    BY <1>5, <2>1, SlotsOfRoleFinite, FS_AddElement
  <2>3. SlotsOfRole(sl, r) \ {s} = SlotsOfRole(sl, r)
    BY <1>5
  <2>4. ~(sl[s] # NoAthlete /\ Role[sl[s]] = Role[a])
    BY <1>5 DEF SlotsOfRole, Occupied
  <2>5. Cardinality(SlotsOfRole(sl, r)) + 1 <= Limit[r]
    BY <1>5, <2>3, <2>4 DEF WithinQuota
  <2> QED
    BY <2>2, <2>5
<1> QED
  BY <1>3, <1>4, <1>5

(* Emptying a slot keeps the roster within the limits. *)
LEMMA VacateKeepsQuota ==
    ASSUME NEW sl \in TeamSlots, NEW s \in Slots, RespectsQuota(sl)
    PROVE  RespectsQuota([sl EXCEPT ![s] = NoAthlete])
<1> DEFINE new == [sl EXCEPT ![s] = NoAthlete]
<1>1. SUFFICES ASSUME NEW r \in Roles
               PROVE  Cardinality(SlotsOfRole(new, r)) <= Limit[r]
  BY DEF RespectsQuota
<1>2. Limit[r] \in Nat /\ Cardinality(SlotsOfRole(sl, r)) <= Limit[r]
  BY RosterAssumption DEF RespectsQuota
<1>3. SlotsOfRole(new, r) \subseteq SlotsOfRole(sl, r)
  BY DEF SlotsOfRole, Occupied, TeamSlots
<1>4. Cardinality(SlotsOfRole(new, r)) <= Cardinality(SlotsOfRole(sl, r))
  BY <1>3, SlotsOfRoleFinite, FS_Subset
<1> QED
  BY <1>2, <1>4, SlotsOfRoleFinite

-----------------------------------------------------------------------------
(* What a step may do *)

\* One movement that CanPost admits.
Moved(acc, new) ==
    \E tx \in TxIds, amount \in Int :
        CanPost(acc, tx, amount) /\ new = Post(acc, tx, amount)

\* At most one movement.
MovedOnce(acc, new) == new = acc \/ Moved(acc, new)

\* A request posts a refund, a charge, both or nothing to one account.
AccountChange ==
    \/ account' = account
    \/ \E t \in Teams : account' = [account EXCEPT ![t] = OpenAccount(TotalCredits)]
    \/ \E t \in Teams, mid, new \in Accounts :
          /\ MovedOnce(account[t], mid)
          /\ MovedOnce(mid, new)
          /\ account' = [account EXCEPT ![t] = new]
    \/ job.rows # << >> /\ account' = job.saved.account

SlotChange ==
    \/ slot' = slot
    \/ \E t \in Teams, s \in Slots, a \in Athletes :
          /\ WithinQuota(slot[t], s, a)
          /\ ~SlotConflict(t, s, a)
          /\ slot' = [slot EXCEPT ![t][s] = a]
    \/ \E t \in Teams, s \in Slots : slot' = [slot EXCEPT ![t][s] = NoAthlete]
    \/ job.rows # << >> /\ slot' = job.saved.slot

\* While rows are left, the saved tables are those of the job's start.
SavedChange ==
    \/ job'.rows = << >>
    \/ job.rows # << >> /\ job'.saved = job.saved
    \/ /\ slot' = slot /\ account' = account /\ composition' = composition
       /\ job'.saved.slot = slot /\ job'.saved.account = account

-----------------------------------------------------------------------------
(* Operators of FantasyTeams *)

LEMMA TxIdType ==
    ASSUME NEW prefix \in TxPrefixes, NEW s \in Nat,
           NEW a \in Athletes \cup {NoAthlete}, NEW n \in Nat
    PROVE  <<prefix, s, a, n>> \in TxIds
BY DEF TxIds

LEMMA MovedType ==
    ASSUME NEW acc \in Accounts, NEW new, MovedOnce(acc, new)
    PROVE  new \in Accounts
BY PostType DEF MovedOnce, Moved

LEMMA OpenAccountFacts ==
    /\ OpenAccount(TotalCredits) \in Accounts
    /\ Chained(OpenAccount(TotalCredits))
    /\ TxUnique(OpenAccount(TotalCredits))
<1> DEFINE empty == [balance |-> 0, entries |-> << >>]
<1>1. empty \in Accounts /\ Chained(empty) /\ TxUnique(empty)
  BY DEF Accounts, Chained, TxUnique, AfterAt
<1>2. CASE TotalCredits > 0
  <2>1. InitialTx \in TxIds
    BY TxIdType DEF InitialTx, TxPrefixes
  <2>2. TotalCredits \in Int /\ CanPost(empty, InitialTx, TotalCredits)
    BY <1>2, RosterAssumption DEF CanPost
  <2> QED
    BY <1>1, <1>2, <2>1, <2>2, PostType, PostSound DEF OpenAccount
<1>3. CASE ~(TotalCredits > 0)
  BY <1>1, <1>3 DEF OpenAccount
<1> QED
  BY <1>2, <1>3

(* A refund only adds credits: it is always admitted. *)
LEMMA RefundMoves ==
    ASSUME NEW acc \in Accounts, NEW s \in Slots, NEW a \in Athletes, NEW credits \in Nat
    PROVE  MovedOnce(acc, Refund(acc, s, a, credits)) /\ Refund(acc, s, a, credits) \in Accounts
<1>1. MovedOnce(acc, Refund(acc, s, a, credits))
  <2>1. CASE credits > 0
    <3>1. Version(acc) \in Nat /\ s \in Nat
      BY RosterAssumption DEF Version, Accounts
    <3>2. <<"refund", s, a, Version(acc)>> \in TxIds
      BY <3>1, TxIdType DEF TxPrefixes
    <3>3. CanPost(acc, <<"refund", s, a, Version(acc)>>, credits)
      BY DEF CanPost, Accounts
    <3> QED
      BY <2>1, <3>2, <3>3 DEF MovedOnce, Moved, Refund
  <2>2. CASE ~(credits > 0)
    BY <2>2 DEF MovedOnce, Refund
  <2> QED
    BY <2>1, <2>2
<1> QED
  BY <1>1, MovedType

LEMMA RefundedMoves ==
    ASSUME TypeOK, NEW t \in Teams, NEW s \in Slots, NEW a \in Athletes
    PROVE  MovedOnce(account[t], Refunded(t, s, a)) /\ Refunded(t, s, a) \in Accounts
<1>1. account[t] \in Accounts /\ paid[t][s] \in Nat /\ slot[t][s] \in Athletes \cup {NoAthlete}
  BY DEF TypeOK, TeamSlots
<1>2. CASE slot[t][s] \in {NoAthlete, a}
  BY <1>1, <1>2 DEF Refunded, MovedOnce
<1>3. CASE slot[t][s] \notin {NoAthlete, a}
  BY <1>1, <1>3, RefundMoves DEF Refunded
<1> QED
  BY <1>2, <1>3

LEMMA ChargeType ==
    ASSUME TypeOK, NEW t \in Teams, NEW s \in Slots, NEW a \in Athletes, NEW p \in Nat
    PROVE  Charge(t, s, a, p) \in Int /\ ChargeTx(t, s, a) \in TxIds
<1>1. paid[t][s] \in Nat /\ s \in Nat
  BY RosterAssumption DEF TypeOK
<1>2. Version(Refunded(t, s, a)) \in Nat
  BY RefundedMoves DEF Version, Accounts
<1>3. CASE slot[t][s] = a
  BY <1>1, <1>2, <1>3, TxIdType DEF Charge, ChargeTx, TxPrefixes
<1>4. CASE slot[t][s] # a
  BY <1>1, <1>2, <1>4, TxIdType DEF Charge, ChargeTx, TxPrefixes
<1> QED
  BY <1>3, <1>4

LEMMA BlankType == Blank \in Tables /\ Idle \in Jobs
<1>1. [balance |-> 0, entries |-> << >>] \in Accounts
  BY DEF Accounts
<1>2. Blank \in Tables
  BY <1>1 DEF Blank, Tables, TeamSlots
<1> QED
  BY <1>2 DEF Idle, Jobs

LEMMA StartJobType ==
    ASSUME TypeOK, NEW prefix \in {"csv-purchase", "random-ai"},
           NEW rows \in Seq(SlottedRows), StartJob(prefix, rows)
    PROVE  job' \in Jobs
<1>1. [slot |-> slot, paid |-> paid, active |-> active, account |-> account] \in Tables
  BY DEF TypeOK, Tables
<1>2. ASSUME NEW i \in 1..Len(rows)
      PROVE  rows[i].team \in Teams
  <2>1. rows[i] \in SlottedRows
    OBVIOUS
  <2> QED
    BY <2>1 DEF SlottedRows
<1>3. {rows[i].team : i \in 1..Len(rows)} \in SUBSET Teams
  BY <1>2
<1> QED
  BY <1>1, <1>3 DEF StartJob, Jobs

-----------------------------------------------------------------------------
(* Every step keeps the types and changes the tables in the ways above *)

\* What is to be shown of every action.
StepOK == TypeOK' /\ AccountChange /\ SlotChange /\ SavedChange

\* Steps that leave the slots alone and move credits of one account.
LEMMA CreditSteps ==
    ASSUME TypeOK
    PROVE  /\ \A t \in Teams : EnsureTeam(t) => StepOK
           /\ \A t \in Teams, id \in AdminIds, amount \in AdminAmounts :
                 AdminPostCreditMovement(t, id, amount) => StepOK
           /\ \A open \in BOOLEAN : SetMarketOpen(open) => StepOK
<1>1. ASSUME NEW t \in Teams, EnsureTeam(t)
      PROVE  StepOK
  <2>1. TypeOK'
    BY <1>1, OpenAccountFacts DEF EnsureTeam, TypeOK
  <2>2. AccountChange /\ SlotChange /\ SavedChange
    BY <1>1 DEF EnsureTeam, AccountChange, SlotChange, SavedChange, Unlocked, Idle
  <2> QED
    BY <2>1, <2>2 DEF StepOK
<1>2. ASSUME NEW t \in Teams, NEW id \in AdminIds, NEW amount \in AdminAmounts,
             AdminPostCreditMovement(t, id, amount)
      PROVE  StepOK
  <2> DEFINE tx == <<"admin", 0, NoAthlete, id>>
             new == Post(account[t], tx, amount)
  <2>1. tx \in TxIds /\ amount \in Int
    BY TxIdType, FantasyTeamsAssumption DEF TxPrefixes
  <2>2. Moved(account[t], new)
    BY <1>2, <2>1 DEF AdminPostCreditMovement, Moved
  <2>3. account[t] \in Accounts /\ new \in Accounts
    BY <2>2, MovedType DEF MovedOnce, TypeOK
  <2>4. account' = [account EXCEPT ![t] = new]
    BY <1>2 DEF AdminPostCreditMovement
  <2> HIDE DEF new
  <2>5. TypeOK'
    BY <1>2, <2>3, <2>4 DEF AdminPostCreditMovement, TypeOK
  <2>6. AccountChange
    BY <2>2, <2>3, <2>4 DEF AccountChange, MovedOnce
  <2>7. SlotChange /\ SavedChange
    BY <1>2 DEF AdminPostCreditMovement, SlotChange, SavedChange, Unlocked, Idle
  <2> QED
    BY <2>5, <2>6, <2>7 DEF StepOK
<1>3. ASSUME NEW open \in BOOLEAN, SetMarketOpen(open)
      PROVE  StepOK
  BY <1>3 DEF SetMarketOpen, StepOK, TypeOK, AccountChange, SlotChange, SavedChange,
              Unlocked, Idle
<1> QED
  BY <1>1, <1>2, <1>3

LEMMA AssignSteps ==
    ASSUME TypeOK, NEW t \in Teams, NEW s \in Slots, NEW a \in Athletes, NEW p \in Prices,
           AssignRequest(t, s, a, p)
    PROVE  StepOK
<1> DEFINE acc == Refunded(t, s, a)
           charge == Charge(t, s, a, p)
           tx == ChargeTx(t, s, a)
<1>1. p \in Nat
  BY FantasyTeamsAssumption
<1>2. MovedOnce(account[t], acc) /\ acc \in Accounts
  BY RefundedMoves
<1>3. charge \in Int /\ tx \in TxIds
  BY <1>1, ChargeType
<1>4. AssignAdmitted(t, s, a, p)
  BY DEF AssignRequest, AssignSlot, AssignSlotOverdrawn, AssignSlotDuplicate
<1>5. WithinQuota(slot[t], s, a) /\ job' = job /\ job.rows = << >>
  BY <1>4 DEF AssignAdmitted, AssignRequest, AssignSlot, AssignSlotOverdrawn,
              AssignSlotDuplicate, Unlocked, Idle
<1> HIDE DEF acc, charge, tx
<1>6. CASE AssignSlot(t, s, a, p)
  <2> DEFINE new == IF charge = 0 THEN acc ELSE Post(acc, tx, charge)
  <2>1. MovedOnce(acc, new) /\ account' = [account EXCEPT ![t] = new]
    BY <1>3, <1>6 DEF AssignSlot, MovedOnce, Moved, acc, charge, tx
  <2>2. new \in Accounts
    BY <1>2, <2>1, MovedType
  <2> HIDE DEF new
  <2>3. /\ slot' = [slot EXCEPT ![t][s] = a]
        /\ ~SlotConflict(t, s, a)
    BY <1>6 DEF AssignSlot
  <2>4. composition' \in [Teams -> {"incomplete", "validated", "invalid"}]
    BY <1>6 DEF AssignSlot, TypeOK, CompositionStatus
  <2>5. TypeOK'
    BY <1>1, <1>5, <1>6, <2>1, <2>2, <2>3, <2>4 DEF AssignSlot, TypeOK, TeamSlots
  <2>6. AccountChange
    BY <1>2, <2>1, <2>2 DEF AccountChange
  <2>7. SlotChange /\ SavedChange
    BY <1>5, <2>3 DEF SlotChange, SavedChange
  <2> QED
    BY <2>5, <2>6, <2>7 DEF StepOK
<1>7. CASE AssignSlotOverdrawn(t, s, a, p)
  <2>1. /\ slot' = [slot EXCEPT ![t][s] = a]
        /\ ~SlotConflict(t, s, a)
        /\ account' = [account EXCEPT ![t] = acc]
    BY <1>7 DEF AssignSlotOverdrawn, acc
  <2>2. TypeOK'
    BY <1>1, <1>2, <1>5, <1>7, <2>1 DEF AssignSlotOverdrawn, TypeOK, TeamSlots
  <2>3. AccountChange
    BY <1>2, <2>1 DEF AccountChange, MovedOnce
  <2>4. SlotChange /\ SavedChange
    BY <1>5, <2>1 DEF SlotChange, SavedChange
  <2> QED
    BY <2>2, <2>3, <2>4 DEF StepOK
<1>8. CASE AssignSlotDuplicate(t, s, a, p)
  <2>1. account' = [account EXCEPT ![t] = acc]
    BY <1>8 DEF AssignSlotDuplicate, acc
  <2>2. TypeOK'
    BY <1>2, <1>5, <1>8, <2>1 DEF AssignSlotDuplicate, TypeOK
  <2>3. AccountChange
    BY <1>2, <2>1 DEF AccountChange, MovedOnce
  <2>4. SlotChange /\ SavedChange
    BY <1>5, <1>8 DEF AssignSlotDuplicate, SlotChange, SavedChange
  <2> QED
    BY <2>2, <2>3, <2>4 DEF StepOK
<1> QED
  BY <1>6, <1>7, <1>8 DEF AssignRequest

\* A slot is vacated and at most one refund is posted.
LEMMA VacateStep ==
    ASSUME TypeOK, NEW t \in Teams, NEW s \in Slots, Vacate(t, s), Unlocked,
           UNCHANGED <<marketOpen, created, draft, job>>,
           NEW new \in Accounts, MovedOnce(account[t], new),
           account' = [account EXCEPT ![t] = new]
    PROVE  StepOK
<1>1. composition' \in [Teams -> {"incomplete", "validated", "invalid"}]
  BY DEF Vacate, TypeOK, CompositionStatus
<1>2. TypeOK'
  BY <1>1 DEF Vacate, TypeOK, TeamSlots
<1>3. AccountChange
  BY DEF AccountChange, MovedOnce, TypeOK
<1>4. SlotChange /\ SavedChange
  BY DEF Vacate, SlotChange, SavedChange, Unlocked, Idle
<1> QED
  BY <1>2, <1>3, <1>4 DEF StepOK

LEMMA ReleaseSteps ==
    ASSUME TypeOK, NEW t \in Teams, NEW s \in Slots
    PROVE  /\ ReleaseSlot(t, s) => StepOK
           /\ \A percent \in ReleasePercents : ApplyRelease(t, s, percent) => StepOK
<1>1. account[t] \in Accounts /\ paid[t][s] \in Nat /\ s \in Nat
  BY RosterAssumption DEF TypeOK
<1>2. ASSUME ReleaseSlot(t, s)
      PROVE  StepOK
  <2> DEFINE new == Refund(account[t], s, slot[t][s], paid[t][s])
  <2>1. slot[t][s] \in Athletes
    BY <1>2 DEF ReleaseSlot, TypeOK, TeamSlots
  <2>2. MovedOnce(account[t], new) /\ new \in Accounts
    BY <1>1, <2>1, RefundMoves
  <2>3. account' = [account EXCEPT ![t] = new]
    BY <1>2 DEF ReleaseSlot
  <2> HIDE DEF new
  <2> QED
    BY <1>2, <2>2, <2>3, VacateStep DEF ReleaseSlot
<1>3. ASSUME NEW percent \in ReleasePercents, ApplyRelease(t, s, percent)
      PROVE  StepOK
  <2> DEFINE refund == (paid[t][s] * percent) \div 100
             tx == ReleaseTx(s, slot[t][s])
             new == IF refund > 0 THEN Post(account[t], tx, refund) ELSE account[t]
  <2>1. percent \in Nat
    BY <1>3, FantasyTeamsAssumption
  <2>2. paid[t][s] * percent \in Int
    BY <1>1, <2>1
  <2>3. refund \in Int
    BY <2>2
  <2>4. slot[t][s] \in Athletes
    BY <1>3 DEF ApplyRelease, TypeOK, TeamSlots
  <2>5. tx \in TxIds
    BY <1>1, <2>4, TxIdType DEF ReleaseTx, TxPrefixes
  <2>6. account' = [account EXCEPT ![t] = new]
    BY <1>3 DEF ApplyRelease
  <2> HIDE DEF refund, tx
  <2>7. refund > 0 => CanPost(account[t], tx, refund)
    BY <1>1, <2>3 DEF CanPost, Accounts
  <2>8. MovedOnce(account[t], new)
    BY <2>3, <2>5, <2>7 DEF MovedOnce, Moved
  <2>9. new \in Accounts
    BY <1>1, <2>8, MovedType
  <2> HIDE DEF new
  <2> QED
    BY <1>3, <2>6, <2>8, <2>9, VacateStep DEF ApplyRelease
<1> QED
  BY <1>2, <1>3

\* A job starts: no table changes, the present ones are saved.
LEMMA StartStep ==
    ASSUME TypeOK, NEW prefix \in {"csv-purchase", "random-ai"},
           NEW rows \in Seq(SlottedRows), StartJob(prefix, rows),
           UNCHANGED <<marketOpen, created, slot, paid, active, account, composition, draft>>
    PROVE  StepOK
<1>1. TypeOK'
  BY StartJobType DEF TypeOK
<1>2. job'.saved.slot = slot /\ job'.saved.account = account
  BY DEF StartJob
<1> QED
  BY <1>1, <1>2 DEF StepOK, AccountChange, SlotChange, SavedChange

LEMMA ImportSteps ==
    ASSUME TypeOK
    PROVE  /\ \A rows \in SeqsUpTo(ImportRows, MaxRows) : PreviewCsvImport(rows) => StepOK
           /\ ConfirmCsvImport => StepOK
<1>1. ASSUME NEW rows \in SeqsUpTo(ImportRows, MaxRows), PreviewCsvImport(rows)
      PROVE  StepOK
  <2>1. PICK k \in 1..MaxRows : rows \in [1..k -> ImportRows]
    BY DEF SeqsUpTo
  <2>2. ASSUME NEW i \in 1..k
        PROVE  rows[i] \in Rows
    <3>1. rows[i] \in ImportRows
      BY <2>1
    <3> QED
      BY <3>1, FantasyTeamsAssumption DEF ImportRows, Rows
  <2>3. k \in Nat /\ rows \in [1..k -> Rows]
    BY <2>1, <2>2
  <2> HIDE DEF Rows
  <2>4. rows \in Seq(Rows)
    BY <2>3
  <2>5. TypeOK'
    BY <1>1, <2>4 DEF PreviewCsvImport, TypeOK
  <2>6. AccountChange /\ SlotChange /\ SavedChange
    BY <1>1 DEF PreviewCsvImport, AccountChange, SlotChange, SavedChange, Unlocked, Idle
  <2> QED
    BY <2>5, <2>6 DEF StepOK
<1>2. ASSUME ConfirmCsvImport
      PROVE  StepOK
  <2> DEFINE n == Len(draft.rows)
  <2>1. draft.rows \in Seq(Rows) /\ n \in Nat
    BY DEF TypeOK
  <2>2. PICK place \in [1..n -> Slots] :
            StartJob("csv-purchase",
                [i \in 1..n |->
                    [team |-> draft.rows[i].team, athlete |-> draft.rows[i].athlete,
                     price |-> draft.rows[i].price, slot |-> place[i]]])
    BY <1>2 DEF ConfirmCsvImport
  <2> DEFINE rows == [i \in 1..n |->
                         [team |-> draft.rows[i].team, athlete |-> draft.rows[i].athlete,
                          price |-> draft.rows[i].price, slot |-> place[i]]]
  <2>3. ASSUME NEW i \in 1..n
        PROVE  rows[i] \in SlottedRows
    <3>1. draft.rows[i] \in Rows
      BY <2>1
    <3> QED
      BY <3>1 DEF Rows, SlottedRows
  <2>4. rows \in [1..n -> SlottedRows]
    BY <2>3
  <2>5. StartJob("csv-purchase", rows)
    BY <2>2
  <2> HIDE DEF rows, n
  <2>6. rows \in Seq(SlottedRows)
    BY <2>1, <2>4
  <2> QED
    BY <1>2, <2>5, <2>6, StartStep DEF ConfirmCsvImport
<1> QED
  BY <1>1, <1>2

LEMMA RandomStep ==
    ASSUME TypeOK, NEW t \in AiTeams, NEW picks \in SeqsUpTo(Athletes, Cardinality(Slots)),
           AssignRandomAiRoster(t, picks)
    PROVE  StepOK
<1> DEFINE n == Len(picks)
<1>1. Cardinality(Slots) \in Nat
  BY RosterAssumption, FS_CardinalityType
<1>2. PICK k \in 1..Cardinality(Slots) : picks \in [1..k -> Athletes]
  BY DEF SeqsUpTo
<1>3. k \in Nat
  BY <1>1
<1>4. picks \in Seq(Athletes) /\ n \in Nat
  BY <1>2, <1>3
<1>5. t \in Teams
  BY FantasyTeamsAssumption
<1>6. PICK place \in [1..n -> Slots] :
          StartJob("random-ai",
              [i \in 1..n |->
                  [team |-> t, athlete |-> picks[i], price |-> RandomPrice,
                   slot |-> place[i]]])
  BY DEF AssignRandomAiRoster
<1> DEFINE rows == [i \in 1..n |->
                       [team |-> t, athlete |-> picks[i], price |-> RandomPrice,
                        slot |-> place[i]]]
<1>7. ASSUME NEW i \in 1..n
      PROVE  rows[i] \in SlottedRows
  BY <1>4, <1>5, FantasyTeamsAssumption DEF SlottedRows
<1>8. rows \in Seq(SlottedRows)
  BY <1>4, <1>7
<1> QED
  BY <1>6, <1>8, StartStep DEF AssignRandomAiRoster

LEMMA RowType ==
    ASSUME TypeOK, job.rows # << >>
    PROVE  /\ Head(job.rows) \in SlottedRows
           /\ Tail(job.rows) \in Seq(SlottedRows)
           /\ RowTx(Head(job.rows)) \in TxIds
           /\ job.saved \in Tables
           /\ [job EXCEPT !.rows = Tail(@)] \in Jobs
<1>1. /\ job.rows \in Seq(SlottedRows)
      /\ job \in [prefix : {"csv-purchase", "random-ai"}, rows : Seq(SlottedRows),
                  touched : SUBSET Teams, saved : Tables]
  BY DEF TypeOK, Jobs, Idle
<1>2. Head(job.rows) \in SlottedRows /\ Tail(job.rows) \in Seq(SlottedRows)
  BY <1>1
<1>3. Head(job.rows).slot \in Nat /\ Head(job.rows).athlete \in Athletes
  BY <1>2, RosterAssumption DEF SlottedRows
<1>4. [job EXCEPT !.rows = Tail(@)] \in Jobs
  BY <1>1, <1>2 DEF Jobs
<1> QED
  BY <1>1, <1>2, <1>3, <1>4, TxIdType DEF RowTx, TxPrefixes

LEMMA JobSteps ==
    ASSUME TypeOK
    PROVE  /\ JobRow => StepOK
           /\ JobRowRefused => StepOK
           /\ JobRowOverdrawn => StepOK
           /\ JobRollback => StepOK
           /\ JobEnd => StepOK
<1> DEFINE row == Head(job.rows)
<1>1. Idle \in Jobs /\ Idle.rows = << >>
  BY BlankType DEF Idle
<1>2. ASSUME JobRow
      PROVE  StepOK
  <2> DEFINE tx == RowTx(row)
             new == IF row.price > 0 THEN Post(account[row.team], tx, 0 - row.price)
                    ELSE account[row.team]
  <2>1. job.rows # << >>
    BY <1>2 DEF JobRow
  <2>2. /\ row.team \in Teams /\ row.slot \in Slots /\ row.athlete \in Athletes
        /\ row.price \in Nat /\ tx \in TxIds
    BY <2>1, RowType DEF SlottedRows
  <2>3. /\ RowAdmitted(row) /\ RowPayable(row) /\ Fill(row)
        /\ account' = [account EXCEPT ![row.team] = new]
        /\ active' = [active EXCEPT ![row.team][row.slot] = row.athlete]
        /\ job' = [job EXCEPT !.rows = Tail(@)]
        /\ UNCHANGED <<marketOpen, created, composition, draft>>
    BY <1>2 DEF JobRow
  <2>4. job' \in Jobs /\ job'.saved = job.saved
    BY <2>1, <2>3, RowType DEF TypeOK, Jobs, Idle
  <2> HIDE DEF row, tx
  <2>5. account[row.team] \in Accounts
    BY <2>2 DEF TypeOK
  <2>6. MovedOnce(account[row.team], new)
    BY <2>2, <2>3 DEF MovedOnce, Moved, RowPayable, tx
  <2>7. new \in Accounts
    BY <2>5, <2>6, MovedType
  <2> HIDE DEF new
  <2>8. TypeOK'
    BY <2>2, <2>3, <2>4, <2>7 DEF TypeOK, Fill, TeamSlots
  <2>9. AccountChange
    BY <2>2, <2>3, <2>6, <2>7 DEF AccountChange, MovedOnce
  <2>10. SlotChange
    BY <2>2, <2>3 DEF SlotChange, RowAdmitted, Fill
  <2>11. SavedChange
    BY <2>1, <2>4 DEF SavedChange
  <2> QED
    BY <2>8, <2>9, <2>10, <2>11 DEF StepOK
<1>3. ASSUME JobRowRefused
      PROVE  StepOK
  BY <1>1, <1>3 DEF JobRowRefused, StepOK, TypeOK, AccountChange, SlotChange, SavedChange
<1>4. ASSUME JobRowOverdrawn
      PROVE  StepOK
  <2>1. row \in SlottedRows
    BY <1>4, RowType DEF JobRowOverdrawn
  <2>2. RowAdmitted(row) /\ Fill(row) /\ job' = Idle
    BY <1>4 DEF JobRowOverdrawn
  <2>3. UNCHANGED <<marketOpen, created, active, account, composition, draft>>
    BY <1>4 DEF JobRowOverdrawn
  <2> HIDE DEF row
  <2>4. /\ row.team \in Teams /\ row.slot \in Slots /\ row.athlete \in Athletes
        /\ row.price \in Nat
    BY <2>1 DEF SlottedRows
  <2>5. TypeOK'
    BY <1>1, <2>2, <2>3, <2>4 DEF TypeOK, Fill, TeamSlots
  <2>6. AccountChange /\ SavedChange
    BY <1>1, <2>2, <2>3 DEF AccountChange, SavedChange
  <2>7. SlotChange
    BY <2>2, <2>4 DEF SlotChange, RowAdmitted, Fill
  <2> QED
    BY <2>5, <2>6, <2>7 DEF StepOK
<1>5. ASSUME JobRollback
      PROVE  StepOK
  <2>1. job.saved \in Tables
    BY <1>5, RowType DEF JobRollback
  <2>2. TypeOK'
    BY <1>1, <1>5, <2>1 DEF JobRollback, TypeOK, Tables
  <2>3. AccountChange /\ SlotChange /\ SavedChange
    BY <1>1, <1>5 DEF JobRollback, AccountChange, SlotChange, SavedChange
  <2> QED
    BY <2>2, <2>3 DEF StepOK
<1>6. ASSUME JobEnd
      PROVE  StepOK
  <2>1. composition' \in [Teams -> {"incomplete", "validated", "invalid"}]
    BY <1>6 DEF JobEnd, TypeOK, CompositionStatus
  <2>2. draft' \in [status : {"none", "draft", "confirmed"}, rows : Seq(Rows)]
    BY <1>6 DEF JobEnd, TypeOK
  <2>3. TypeOK'
    BY <1>1, <1>6, <2>1, <2>2 DEF JobEnd, TypeOK
  <2>4. AccountChange /\ SlotChange /\ SavedChange
    BY <1>1, <1>6 DEF JobEnd, AccountChange, SlotChange, SavedChange
  <2> QED
    BY <2>3, <2>4 DEF StepOK
<1> QED
  BY <1>2, <1>3, <1>4, <1>5, <1>6

\* A step that changes nothing.
LEMMA StutterStep ==
    ASSUME TypeOK, UNCHANGED vars
    PROVE  StepOK
BY DEF vars, StepOK, TypeOK, AccountChange, SlotChange, SavedChange

LEMMA EveryStep ==
    ASSUME TypeOK, [Next]_vars
    PROVE  StepOK
<1>1. CASE \E t \in Teams : EnsureTeam(t)
  BY <1>1, CreditSteps
<1>2. CASE \E open \in BOOLEAN : SetMarketOpen(open)
  BY <1>2, CreditSteps
<1>3. CASE \E t \in Teams, id \in AdminIds, amount \in AdminAmounts :
               AdminPostCreditMovement(t, id, amount)
  BY <1>3, CreditSteps
<1>4. CASE \E t \in Teams, s \in Slots, a \in Athletes, p \in Prices :
               AssignRequest(t, s, a, p)
  BY <1>4, AssignSteps
<1>5. CASE \E t \in Teams, s \in Slots : ReleaseSlot(t, s)
  BY <1>5, ReleaseSteps
<1>6. CASE \E t \in Teams, s \in Slots, percent \in ReleasePercents :
               ApplyRelease(t, s, percent)
  BY <1>6, ReleaseSteps
<1>7. CASE \E rows \in SeqsUpTo(ImportRows, MaxRows) : PreviewCsvImport(rows)
  BY <1>7, ImportSteps
<1>8. CASE ConfirmCsvImport
  BY <1>8, ImportSteps
<1>9. CASE \E t \in AiTeams, picks \in SeqsUpTo(Athletes, Cardinality(Slots)) :
               AssignRandomAiRoster(t, picks)
  BY <1>9, RandomStep
<1>10. CASE JobRow \/ JobRowRefused \/ JobRowOverdrawn \/ JobRollback \/ JobEnd
  BY <1>10, JobSteps
<1>11. CASE UNCHANGED vars
  BY <1>11, StutterStep
<1> QED
  BY <1>1, <1>2, <1>3, <1>4, <1>5, <1>6, <1>7, <1>8, <1>9, <1>10, <1>11 DEF Next

-----------------------------------------------------------------------------
(* Theorems *)

(* Every reachable state is well typed; in particular no balance is ever   *)
(* negative, whichever handler failed half way.                            *)
THEOREM TypeCorrect == Spec => []TypeOK
<1>1. Init => TypeOK
  BY BlankType DEF Init, TypeOK, Tables
<1>2. TypeOK /\ [Next]_vars => TypeOK'
  BY EveryStep DEF StepOK
<1> QED
  BY <1>1, <1>2, PTL DEF Spec

\* A sound account: its chain and its transaction ids.
Sound(acc) == Chained(acc) /\ TxUnique(acc)

\* Inductive: the accounts a rollback would restore are sound as well.
LedgerInv ==
    /\ \A t \in Teams : Sound(account[t])
    /\ job.rows # << >> => \A t \in Teams : Sound(job.saved.account[t])

\* A step that changes the tables in the ways of StepOK keeps the ledgers.
LEMMA LedgerStep ==
    ASSUME TypeOK, LedgerInv, StepOK
    PROVE  LedgerInv'
<1>1. AccountChange /\ SavedChange
  BY DEF StepOK
<1>2. ASSUME NEW t \in Teams
      PROVE  Sound(account'[t])
  <2>1. account \in [Teams -> Accounts] /\ Sound(account[t])
    BY DEF TypeOK, LedgerInv
  <2>2. CASE account' = account
    BY <2>1, <2>2
  <2>3. ASSUME NEW u \in Teams, account' = [account EXCEPT ![u] = OpenAccount(TotalCredits)]
        PROVE  Sound(account'[t])
    BY <2>1, <2>3, OpenAccountFacts DEF Sound
  <2>4. ASSUME NEW u \in Teams, NEW mid \in Accounts, NEW new \in Accounts,
               MovedOnce(account[u], mid), MovedOnce(mid, new),
               account' = [account EXCEPT ![u] = new]
        PROVE  Sound(account'[t])
    <3>1. account[u] \in Accounts /\ Sound(account[u])
      BY DEF TypeOK, LedgerInv
    <3>2. Sound(mid)
      BY <2>4, <3>1, PostSound DEF MovedOnce, Moved, Sound
    <3>3. Sound(new)
      BY <2>4, <3>2, PostSound DEF MovedOnce, Moved, Sound
    <3> QED
      BY <2>1, <2>4, <3>3
  <2>5. CASE job.rows # << >> /\ account' = job.saved.account
    BY <2>5 DEF LedgerInv
  <2> QED
    BY <1>1, <2>2, <2>3, <2>4, <2>5 DEF AccountChange
<1>3. job'.rows # << >> => \A t \in Teams : Sound(job'.saved.account[t])
  BY <1>1 DEF SavedChange, LedgerInv
<1> QED
  BY <1>2, <1>3 DEF LedgerInv

(* Every balance can be reconstructed from its ledger and no transaction   *)
(* id is applied twice, for every handler of the roster and every failure. *)
THEOREM LedgerSound == Spec => []LedgerChain
<1>1. Init => LedgerInv
  <2>1. ASSUME NEW t \in Teams PROVE Sound(Blank.account[t])
    BY DEF Blank, Sound, Chained, TxUnique, AfterAt
  <2> QED
    BY <2>1 DEF Init, LedgerInv, Idle
<1>2. ASSUME TypeOK, LedgerInv, [Next]_vars
      PROVE  LedgerInv'
  BY <1>2, EveryStep, LedgerStep
<1>3. LedgerInv => LedgerChain
  BY DEF LedgerInv, LedgerChain, Sound
<1> QED
  BY <1>1, <1>2, <1>3, TypeCorrect, PTL DEF Spec

\* Inductive: the rosters a rollback would restore are exclusive as well.
OwnerInv ==
    /\ Exclusive(slot)
    /\ job.rows # << >> => Exclusive(job.saved.slot)

\* Such a step keeps the exclusivity of athletes.
LEMMA OwnerStep ==
    ASSUME TypeOK, OwnerInv, StepOK
    PROVE  OwnerInv'
<1>1. SlotChange /\ SavedChange
  BY DEF StepOK
<1>2. slot \in [Teams -> TeamSlots] /\ Exclusive(slot)
  BY DEF TypeOK, OwnerInv
<1>3. Exclusive(slot')
  <2>1. ASSUME NEW t \in Teams, NEW s \in Slots, NEW a \in Athletes,
               ~SlotConflict(t, s, a), slot' = [slot EXCEPT ![t][s] = a]
        PROVE  Exclusive(slot')
    BY <1>2, <2>1 DEF Exclusive, SlotConflict, TeamSlots
  <2>2. ASSUME NEW t \in Teams, NEW s \in Slots, slot' = [slot EXCEPT ![t][s] = NoAthlete]
        PROVE  Exclusive(slot')
    BY <1>2, <2>2 DEF Exclusive, TeamSlots
  <2>3. CASE job.rows # << >> /\ slot' = job.saved.slot
    BY <2>3 DEF OwnerInv
  <2> QED
    BY <1>1, <1>2, <2>1, <2>2, <2>3 DEF SlotChange
<1>4. job'.rows # << >> => Exclusive(job'.saved.slot)
  BY <1>1 DEF SavedChange, OwnerInv
<1> QED
  BY <1>3, <1>4 DEF OwnerInv

(* An athlete is in at most one slot of the league: the unique index and   *)
(* the savepoints keep it so, although refused requests are committed.     *)
THEOREM Exclusivity == Spec => []OneOwner
<1>1. Init => OwnerInv
  BY DEF Init, Blank, OwnerInv, Exclusive, Idle
<1>2. ASSUME TypeOK, OwnerInv, [Next]_vars
      PROVE  OwnerInv'
  BY <1>2, EveryStep, OwnerStep
<1>3. OwnerInv => OneOwner
  BY DEF OwnerInv, OneOwner
<1> QED
  BY <1>1, <1>2, <1>3, TypeCorrect, PTL DEF Spec

\* Inductive: the rosters a rollback would restore respect the quotas too.
QuotaInv ==
    /\ \A t \in Teams : RespectsQuota(slot[t])
    /\ job.rows # << >> => \A t \in Teams : RespectsQuota(job.saved.slot[t])

\* Empty rosters respect every quota.
LEMMA BlankQuota == \A t \in Teams : RespectsQuota(Blank.slot[t])
<1>1. ASSUME NEW t \in Teams, NEW r \in Roles
      PROVE  Cardinality(SlotsOfRole(Blank.slot[t], r)) <= Limit[r]
  <2>1. SlotsOfRole(Blank.slot[t], r) = {}
    BY DEF Blank, SlotsOfRole, Occupied
  <2>2. Limit[r] \in Nat
    BY RosterAssumption
  <2> QED
    BY <2>1, <2>2, FS_EmptySet
<1> QED
  BY <1>1 DEF RespectsQuota

\* Such a step keeps every roster within the quotas.
LEMMA QuotaStep ==
    ASSUME TypeOK, QuotaInv, StepOK
    PROVE  QuotaInv'
<1>1. SlotChange /\ SavedChange
  BY DEF StepOK
<1>2. slot \in [Teams -> TeamSlots] /\ \A t \in Teams : RespectsQuota(slot[t])
  BY DEF TypeOK, QuotaInv
<1>3. \A t \in Teams : RespectsQuota(slot'[t])
  <2>1. ASSUME NEW t \in Teams, NEW s \in Slots, NEW a \in Athletes,
               WithinQuota(slot[t], s, a), slot' = [slot EXCEPT ![t][s] = a]
        PROVE  \A u \in Teams : RespectsQuota(slot'[u])
    <3>1. RespectsQuota([slot[t] EXCEPT ![s] = a])
      BY <1>2, <2>1, FillKeepsQuota
    <3> QED
      BY <1>2, <2>1, <3>1
  <2>2. ASSUME NEW t \in Teams, NEW s \in Slots, slot' = [slot EXCEPT ![t][s] = NoAthlete]
        PROVE  \A u \in Teams : RespectsQuota(slot'[u])
    <3>1. RespectsQuota([slot[t] EXCEPT ![s] = NoAthlete])
      BY <1>2, VacateKeepsQuota
    <3> QED
      BY <1>2, <2>2, <3>1
  <2>3. CASE job.rows # << >> /\ slot' = job.saved.slot
    BY <2>3 DEF QuotaInv
  <2> QED
    BY <1>1, <1>2, <2>1, <2>2, <2>3 DEF SlotChange
<1>4. job'.rows # << >> => \A t \in Teams : RespectsQuota(job'.saved.slot[t])
  BY <1>1 DEF SavedChange, QuotaInv
<1> QED
  BY <1>3, <1>4 DEF QuotaInv

(* No roster ever exceeds the limit of a role, for every limit and every   *)
(* sequence of assignments, replacements, imports and rollbacks.           *)
THEOREM QuotaKept == Spec => []QuotaRespected
<1>1. Init => QuotaInv
  BY BlankQuota DEF Init, QuotaInv, Idle
<1>2. ASSUME TypeOK, QuotaInv, [Next]_vars
      PROVE  QuotaInv'
  BY <1>2, EveryStep, QuotaStep
<1>3. QuotaInv => QuotaRespected
  BY DEF QuotaInv, QuotaRespected
<1> QED
  BY <1>1, <1>2, <1>3, TypeCorrect, PTL DEF Spec

-----------------------------------------------------------------------------
(* What the entries of an account book *)

\* The ids and amounts of an account, and those under some prefixes.
Bookings(acc) == {<<acc.entries[k].tx, acc.entries[k].amount>> : k \in DOMAIN acc.entries}
BookedUnder(acc, prefixes) == {x \in Bookings(acc) : x[1][1] \in prefixes}

SameBooked(prefixes) ==
    \A t \in Teams : BookedUnder(account'[t], prefixes) = BookedUnder(account[t], prefixes)

\* A movement that is not a replay books itself and nothing else.
LEMMA PostBooks ==
    ASSUME NEW acc \in Accounts, NEW tx, NEW amount, ~Posted(acc, tx)
    PROVE  Bookings(Post(acc, tx, amount)) = Bookings(acc) \cup {<<tx, amount>>}
<1> DEFINE e == [tx |-> tx, amount |-> amount, after |-> acc.balance + amount]
           new == Append(acc.entries, e)
           n == Len(acc.entries)
<1>1. acc.entries \in Seq(Entries) /\ n \in Nat
  BY DEF Accounts
<1>2. Post(acc, tx, amount).entries = new
  BY DEF Post
<1>3. /\ DOMAIN new = 1..(n + 1) /\ DOMAIN acc.entries = 1..n
      /\ \A k \in 1..n : new[k] = acc.entries[k]
      /\ new[n + 1] = e
  BY <1>1
<1>4. e.tx = tx /\ e.amount = amount
  OBVIOUS
<1> HIDE DEF new, e, n
<1>5. 1..(n + 1) = (1..n) \cup {n + 1}
  BY <1>1 DEF n
<1>6. Bookings(Post(acc, tx, amount)) = {<<new[k].tx, new[k].amount>> : k \in 1..(n + 1)}
  BY <1>2, <1>3 DEF Bookings
<1>7. Bookings(acc) = {<<new[k].tx, new[k].amount>> : k \in 1..n}
  BY <1>3 DEF Bookings
<1>8. <<new[n + 1].tx, new[n + 1].amount>> = <<tx, amount>>
  BY <1>3, <1>4
<1> QED BY <1>5, <1>6, <1>7, <1>8

LEMMA PostedIsBooked ==
    ASSUME NEW acc \in Accounts, NEW tx
    PROVE  Posted(acc, tx) <=> \E x \in Bookings(acc) : x[1] = tx
<1> DEFINE booking(k) == <<acc.entries[k].tx, acc.entries[k].amount>>
<1>1. DOMAIN acc.entries = 1..Len(acc.entries)
  BY DEF Accounts
<1>2. \A k : booking(k)[1] = acc.entries[k].tx
  OBVIOUS
<1>3. Bookings(acc) = {booking(k) : k \in 1..Len(acc.entries)}
  BY <1>1 DEF Bookings
<1> HIDE DEF booking
<1> QED BY <1>2, <1>3 DEF Posted

\* A movement under another prefix is not seen.
LEMMA PostElsewhere ==
    ASSUME NEW acc \in Accounts, NEW tx, NEW amount, NEW prefixes, tx[1] \notin prefixes
    PROVE  BookedUnder(Post(acc, tx, amount), prefixes) = BookedUnder(acc, prefixes)
<1>1. CASE Posted(acc, tx)
  BY <1>1 DEF Post
<1>2. CASE ~Posted(acc, tx)
  <2>1. <<tx, amount>>[1] = tx
    OBVIOUS
  <2> QED BY <1>2, <2>1, PostBooks DEF BookedUnder
<1> QED BY <1>1, <1>2

\* A ledger without replays has one entry for what it has booked.
LEMMA BookedOnce ==
    ASSUME NEW acc \in Accounts, TxUnique(acc), NEW tx, NEW amount
    PROVE  /\ <<tx, amount>> \in Bookings(acc) =>
                 \E k \in DOMAIN acc.entries :
                    /\ {j \in DOMAIN acc.entries : acc.entries[j].tx = tx} = {k}
                    /\ acc.entries[k].amount = amount
           /\ (\A x \in Bookings(acc) : x[1] # tx) =>
                 {j \in DOMAIN acc.entries : acc.entries[j].tx = tx} = {}
<1>1. DOMAIN acc.entries = 1..Len(acc.entries)
  BY DEF Accounts
<1>2. \A y, n : <<y, n>>[1] = y /\ <<y, n>>[2] = n
  OBVIOUS
<1>3. ASSUME <<tx, amount>> \in Bookings(acc)
      PROVE  \E k \in DOMAIN acc.entries :
                /\ {j \in DOMAIN acc.entries : acc.entries[j].tx = tx} = {k}
                /\ acc.entries[k].amount = amount
  <2>1. PICK k \in DOMAIN acc.entries : <<tx, amount>> = <<acc.entries[k].tx, acc.entries[k].amount>>
    BY <1>3 DEF Bookings
  <2>2. acc.entries[k].tx = tx /\ acc.entries[k].amount = amount
    BY <2>1
  <2>3. \A j \in DOMAIN acc.entries : acc.entries[j].tx = tx => j = k
    BY <1>1, <2>2 DEF TxUnique
  <2> QED BY <2>2, <2>3
<1>4. ASSUME \A x \in Bookings(acc) : x[1] # tx
      PROVE  {j \in DOMAIN acc.entries : acc.entries[j].tx = tx} = {}
  <2>1. ASSUME NEW j \in DOMAIN acc.entries
        PROVE  acc.entries[j].tx # tx
    <3>1. <<acc.entries[j].tx, acc.entries[j].amount>> \in Bookings(acc)
      BY DEF Bookings
    <3> QED BY <1>2, <1>4, <3>1
  <2> QED BY <2>1
<1> QED BY <1>3, <1>4

\* A new account has only its initial allocation.
LEMMA OpenBooksNothing ==
    ASSUME NEW prefixes, "initial" \notin prefixes
    PROVE  BookedUnder(OpenAccount(TotalCredits), prefixes) = {}
<1> DEFINE empty == [balance |-> 0, entries |-> << >>]
<1>1. empty \in Accounts /\ BookedUnder(empty, prefixes) = {}
  BY DEF Accounts, BookedUnder, Bookings
<1>2. InitialTx[1] \notin prefixes
  BY DEF InitialTx
<1> QED BY <1>1, <1>2, PostElsewhere DEF OpenAccount

\* The prefixes of the requests that change one slot or one account.
RosterPrefixes == {"admin", "refund", "purchase", "purchase-adjust", "release"}

LEMMA RosterBooks ==
    ASSUME TypeOK, NEW prefixes, prefixes \cap RosterPrefixes = {}
    PROVE  /\ \A open \in BOOLEAN : SetMarketOpen(open) => SameBooked(prefixes)
           /\ \A t \in Teams, id \in AdminIds, amount \in AdminAmounts :
                 AdminPostCreditMovement(t, id, amount) => SameBooked(prefixes)
           /\ \A t \in Teams, s \in Slots, a \in Athletes, p \in Prices :
                 AssignRequest(t, s, a, p) => SameBooked(prefixes)
           /\ \A t \in Teams, s \in Slots : ReleaseSlot(t, s) => SameBooked(prefixes)
           /\ \A t \in Teams, s \in Slots, percent \in ReleasePercents :
                 ApplyRelease(t, s, percent) => SameBooked(prefixes)
<1> DEFINE Quiet(new, t) == BookedUnder(new, prefixes) = BookedUnder(account[t], prefixes)
<1>1. account \in [Teams -> Accounts]
  BY DEF TypeOK
<1>2. \A x \in RosterPrefixes : x \notin prefixes
  OBVIOUS
\* One account changes, under other ids.
<1>3. ASSUME NEW t \in Teams, NEW new, Quiet(new, t), account' = [account EXCEPT ![t] = new]
      PROVE  SameBooked(prefixes)
  BY <1>1, <1>3 DEF SameBooked
<1>4. ASSUME NEW t \in Teams, NEW s, NEW a, NEW credits
      PROVE  Quiet(Refund(account[t], s, a, credits), t)
  <2>1. <<"refund", s, a, Version(account[t])>>[1] \notin prefixes
    BY <1>2 DEF RosterPrefixes
  <2> QED BY <1>1, <2>1, PostElsewhere DEF Refund
<1>5. ASSUME NEW open \in BOOLEAN, SetMarketOpen(open)
      PROVE  SameBooked(prefixes)
  BY <1>5 DEF SetMarketOpen, SameBooked
<1>6. ASSUME NEW t \in Teams, NEW id \in AdminIds, NEW amount \in AdminAmounts,
             AdminPostCreditMovement(t, id, amount)
      PROVE  SameBooked(prefixes)
  <2> DEFINE tx == <<"admin", 0, NoAthlete, id>>
  <2>1. tx[1] \notin prefixes
    BY <1>2 DEF RosterPrefixes
  <2>2. account' = [account EXCEPT ![t] = Post(account[t], tx, amount)]
    BY <1>6 DEF AdminPostCreditMovement
  <2> HIDE DEF tx
  <2>3. Quiet(Post(account[t], tx, amount), t)
    BY <1>1, <2>1, PostElsewhere
  <2> HIDE DEF Quiet
  <2> QED BY <1>3, <2>2, <2>3
<1>7. ASSUME NEW t \in Teams, NEW s \in Slots, NEW a \in Athletes, NEW p \in Prices,
             AssignRequest(t, s, a, p)
      PROVE  SameBooked(prefixes)
  <2> DEFINE acc == Refunded(t, s, a)
             tx == ChargeTx(t, s, a)
             charge == Charge(t, s, a, p)
  <2>1. acc \in Accounts
    BY RefundedMoves
  <2>2. Quiet(acc, t)
    BY <1>4 DEF Refunded
  <2>3. tx[1] \notin prefixes
    BY <1>2 DEF ChargeTx, RosterPrefixes
  <2>4. Quiet(Post(acc, tx, charge), t)
    BY <2>1, <2>2, <2>3, PostElsewhere
  <2>5. \/ account' = [account EXCEPT ![t] = acc]
        \/ account' = [account EXCEPT ![t] = Post(acc, tx, charge)]
    BY <1>7 DEF AssignRequest, AssignSlot, AssignSlotOverdrawn, AssignSlotDuplicate
  <2> HIDE DEF acc, tx, charge, Quiet
  <2> QED BY <1>3, <2>2, <2>4, <2>5
<1>8. ASSUME NEW t \in Teams, NEW s \in Slots, ReleaseSlot(t, s)
      PROVE  SameBooked(prefixes)
  <2>1. account' = [account EXCEPT ![t] = Refund(account[t], s, slot[t][s], paid[t][s])]
    BY <1>8 DEF ReleaseSlot
  <2>2. Quiet(Refund(account[t], s, slot[t][s], paid[t][s]), t)
    BY <1>4
  <2> HIDE DEF Quiet
  <2> QED BY <1>3, <2>1, <2>2
<1>9. ASSUME NEW t \in Teams, NEW s \in Slots, NEW percent \in ReleasePercents,
             ApplyRelease(t, s, percent)
      PROVE  SameBooked(prefixes)
  <2> DEFINE tx == ReleaseTx(s, slot[t][s])
             refund == (paid[t][s] * percent) \div 100
             new == IF refund > 0 THEN Post(account[t], tx, refund) ELSE account[t]
  <2>1. tx[1] \notin prefixes
    BY <1>2 DEF ReleaseTx, RosterPrefixes
  <2>2. account' = [account EXCEPT ![t] = new]
    BY <1>9 DEF ApplyRelease
  <2> HIDE DEF tx, refund
  <2>3. Quiet(new, t)
    BY <1>1, <2>1, PostElsewhere
  <2> HIDE DEF new, Quiet
  <2> QED BY <1>3, <2>2, <2>3
<1> QED BY <1>5, <1>6, <1>7, <1>8, <1>9

-----------------------------------------------------------------------------
(* The composition status *)

\* The status of a team is computed again, or its slots keep what it says.
CompositionChange ==
    /\ \A t \in Teams :
          \/ composition'[t] = CompositionStatus(slot'[t])
          \/ /\ composition'[t] = composition[t]
             /\ \/ slot'[t] = slot[t]
                \/ \E s \in Slots, a \in Athletes :
                      /\ WithinQuota(slot[t], s, a)
                      /\ slot'[t] = [slot[t] EXCEPT ![s] = a]
                \/ job.rows # << >> /\ slot'[t] = job.saved.slot[t]
    /\ \/ job'.rows = << >>
       \/ composition' = composition /\ job.rows # << >> /\ job'.saved = job.saved
       \/ composition' = composition /\ job'.saved.slot = slot

\* Replacing an athlete within the quota of a complete roster keeps it complete.
LEMMA FillKeepsComplete ==
    ASSUME NEW sl \in TeamSlots, NEW s \in Slots, NEW a \in Athletes,
           WithinQuota(sl, s, a), Complete(sl)
    PROVE  Complete([sl EXCEPT ![s] = a])
<1> DEFINE new == [sl EXCEPT ![s] = a]
<1>1. /\ a # NoAthlete /\ Role[a] \in Roles /\ new \in TeamSlots
      /\ new[s] = a /\ \A r \in Slots \ {s} : new[r] = sl[r]
      /\ sl[s] # NoAthlete
  BY NoAthleteAssumption, RosterAssumption DEF TeamSlots, Complete, FreeSlots
<1> HIDE DEF new
<1>2. FreeSlots(new) = {}
  BY <1>1 DEF Complete, FreeSlots
<1>3. Role[sl[s]] = Role[a]
  <2>1. SUFFICES ASSUME Role[sl[s]] # Role[a] PROVE FALSE
    OBVIOUS
  <2>2. SlotsOfRole(sl, Role[a]) \ {s} = SlotsOfRole(sl, Role[a])
    BY <2>1 DEF SlotsOfRole
  <2>3. Cardinality(SlotsOfRole(sl, Role[a])) = Limit[Role[a]] /\ Limit[Role[a]] \in Nat
    BY <1>1, RosterAssumption DEF Complete
  <2> QED
    BY <2>1, <2>2, <2>3 DEF WithinQuota
<1>4. \A r \in Roles : SlotsOfRole(new, r) = SlotsOfRole(sl, r)
  BY <1>1, <1>3 DEF SlotsOfRole, Occupied
<1> QED
  BY <1>2, <1>4 DEF Complete, new

LEMMA CompositionSteps ==
    ASSUME TypeOK, [Next]_vars
    PROVE  CompositionChange
<1>1. slot \in [Teams -> TeamSlots] /\ composition \in [Teams -> {"incomplete", "validated", "invalid"}]
  BY DEF TypeOK
<1>2. ASSUME composition' = composition, slot' = slot, job'.rows = << >>
      PROVE  CompositionChange
  BY <1>2 DEF CompositionChange
<1>3. ASSUME NEW t \in Teams, NEW s \in Slots, NEW a \in Athletes \cup {NoAthlete},
             slot' = [slot EXCEPT ![t][s] = a],
             composition' = [composition EXCEPT ![t] = CompositionStatus(slot'[t])],
             job'.rows = << >>
      PROVE  CompositionChange
  BY <1>1, <1>3 DEF CompositionChange
<1>4. ASSUME NEW t \in Teams, NEW s \in Slots, NEW a \in Athletes,
             WithinQuota(slot[t], s, a), slot' = [slot EXCEPT ![t][s] = a],
             composition' = composition,
             job'.rows = << >> \/ (job.rows # << >> /\ job'.saved = job.saved)
      PROVE  CompositionChange
  BY <1>1, <1>4 DEF CompositionChange
<1>5. CASE (\E t \in Teams : EnsureTeam(t)) \/ (\E open \in BOOLEAN : SetMarketOpen(open))
  BY <1>2, <1>5 DEF EnsureTeam, SetMarketOpen, Unlocked, Idle
<1>6. CASE \E t \in Teams, id \in AdminIds, amount \in AdminAmounts :
               AdminPostCreditMovement(t, id, amount)
  BY <1>2, <1>6 DEF AdminPostCreditMovement, Unlocked, Idle
<1>7. ASSUME NEW t \in Teams, NEW s \in Slots, NEW a \in Athletes, NEW p \in Prices,
             AssignRequest(t, s, a, p)
      PROVE  CompositionChange
  <2>1. WithinQuota(slot[t], s, a) /\ job' = job /\ job.rows = << >>
    BY <1>7 DEF AssignRequest, AssignSlot, AssignSlotOverdrawn, AssignSlotDuplicate,
                AssignAdmitted, Unlocked, Idle
  <2>2. CASE AssignSlot(t, s, a, p)
    BY <1>3, <2>1, <2>2 DEF AssignSlot
  <2>3. CASE AssignSlotOverdrawn(t, s, a, p)
    BY <1>4, <2>1, <2>3 DEF AssignSlotOverdrawn
  <2>4. CASE AssignSlotDuplicate(t, s, a, p)
    BY <1>2, <2>1, <2>4 DEF AssignSlotDuplicate
  <2> QED
    BY <1>7, <2>2, <2>3, <2>4 DEF AssignRequest
<1>8. ASSUME NEW t \in Teams, NEW s \in Slots, Vacate(t, s), Unlocked, job' = job
      PROVE  CompositionChange
  BY <1>3, <1>8 DEF Vacate, Unlocked, Idle
<1>9. CASE \E t \in Teams, s \in Slots :
               ReleaseSlot(t, s) \/ \E percent \in ReleasePercents : ApplyRelease(t, s, percent)
  BY <1>8, <1>9 DEF ReleaseSlot, ApplyRelease
<1>10. CASE \E rows \in SeqsUpTo(ImportRows, MaxRows) : PreviewCsvImport(rows)
  BY <1>2, <1>10 DEF PreviewCsvImport, Unlocked, Idle
<1>11. ASSUME NEW prefix, NEW rows, StartJob(prefix, rows), UNCHANGED <<slot, composition>>
       PROVE  CompositionChange
  BY <1>11 DEF StartJob, CompositionChange
<1>12. CASE \/ ConfirmCsvImport
            \/ \E t \in AiTeams, picks \in SeqsUpTo(Athletes, Cardinality(Slots)) :
                   AssignRandomAiRoster(t, picks)
  BY <1>11, <1>12 DEF ConfirmCsvImport, AssignRandomAiRoster
<1>13. CASE JobRow \/ JobRowOverdrawn
  <2> DEFINE row == Head(job.rows)
  <2>1. row \in SlottedRows /\ job \in Jobs
    BY <1>13, RowType DEF JobRow, JobRowOverdrawn, TypeOK
  <2>2. row.team \in Teams /\ row.slot \in Slots /\ row.athlete \in Athletes
    BY <2>1 DEF SlottedRows
  <2>3. /\ WithinQuota(slot[row.team], row.slot, row.athlete)
        /\ slot' = [slot EXCEPT ![row.team][row.slot] = row.athlete]
        /\ composition' = composition /\ job.rows # << >>
    BY <1>13 DEF JobRow, JobRowOverdrawn, RowAdmitted, Fill
  <2>4. job'.rows = << >> \/ job'.saved = job.saved
    BY <1>13, <2>1 DEF JobRow, JobRowOverdrawn, Jobs, Idle
  <2> QED
    BY <1>4, <2>2, <2>3, <2>4
<1>14. CASE JobRowRefused
  BY <1>2, <1>14 DEF JobRowRefused, Idle
<1>15. CASE JobRollback
  BY <1>15 DEF JobRollback, CompositionChange, Idle
<1>16. CASE JobEnd
  BY <1>16 DEF JobEnd, CompositionChange, Idle
<1>17. CASE UNCHANGED vars
  BY <1>17 DEF vars, CompositionChange
<1> QED
  BY <1>5, <1>6, <1>7, <1>9, <1>10, <1>12, <1>13, <1>14, <1>15, <1>16, <1>17 DEF Next

\* Inductive: a validated roster is complete in the saved tables as well.
ValidInv ==
    \A t \in Teams :
        composition[t] = "validated" =>
            /\ Complete(slot[t])
            /\ job.rows # << >> => Complete(job.saved.slot[t])

(* A roster shown as validated is complete, also after an assignment that  *)
(* was committed half way and after an import that rolled back.            *)
THEOREM ValidatedStaysComplete == Spec => []ValidatedIsComplete
<1>1. Init => ValidInv
  BY DEF Init, ValidInv
<1>2. ASSUME TypeOK, ValidInv, [Next]_vars
      PROVE  ValidInv'
  <2>1. CompositionChange
    BY <1>2, CompositionSteps
  <2>2. SUFFICES ASSUME NEW t \in Teams, composition'[t] = "validated"
                 PROVE  /\ Complete(slot'[t])
                        /\ job'.rows # << >> => Complete(job'.saved.slot[t])
    BY DEF ValidInv
  <2>3. CASE composition'[t] = CompositionStatus(slot'[t])
             /\ ~(composition'[t] = composition[t])
    BY <2>1, <2>2, <2>3 DEF CompositionStatus, CompositionChange
  <2>4. CASE composition'[t] = composition[t]
    <3>1. Complete(slot[t]) /\ (job.rows # << >> => Complete(job.saved.slot[t]))
          /\ slot[t] \in TeamSlots
      BY <1>2, <2>2, <2>4 DEF ValidInv, TypeOK
    <3>2. Complete(slot'[t])
      BY <2>1, <2>2, <3>1, FillKeepsComplete DEF CompositionChange, CompositionStatus
    <3> QED
      BY <2>1, <3>1, <3>2 DEF CompositionChange
  <2> QED
    BY <2>1, <2>3, <2>4 DEF CompositionChange
<1>3. ValidInv => ValidatedIsComplete
  BY DEF ValidInv, ValidatedIsComplete
<1> QED
  BY <1>1, <1>2, <1>3, TypeCorrect, PTL DEF Spec

-----------------------------------------------------------------------------
(* Refunds *)

\* The number in the id of a refund is that of an entry of the ledger.
FreshRefunds(acc) ==
    \A k \in 1..Len(acc.entries) :
        acc.entries[k].tx[1] = "refund" => acc.entries[k].tx[4] < Version(acc)

\* Inductive: a rollback restores ledgers of the same kind.
RefundInv ==
    /\ \A t \in Teams : FreshRefunds(account[t])
    /\ job.rows # << >> => \A t \in Teams : FreshRefunds(job.saved.account[t])

\* A movement under another prefix, or a refund under the present version.
LEMMA PostFresh ==
    ASSUME NEW acc \in Accounts, FreshRefunds(acc), NEW tx, NEW amount,
           tx[1] # "refund" \/ tx[4] = Version(acc)
    PROVE  FreshRefunds(Post(acc, tx, amount))
<1>1. CASE Posted(acc, tx)
  BY <1>1 DEF Post
<1>2. CASE ~Posted(acc, tx)
  <2> DEFINE n == Len(acc.entries)
             e == [tx |-> tx, amount |-> amount, after |-> acc.balance + amount]
             new == Append(acc.entries, e)
  <2>1. acc.entries \in Seq(Entries) /\ n \in Nat
    BY DEF Accounts
  <2>2. Post(acc, tx, amount).entries = new
    BY <1>2 DEF Post
  <2>3. Len(new) = n + 1 /\ new[n + 1] = e /\ \A k \in 1..n : new[k] = acc.entries[k]
    BY <2>1
  <2>4. e.tx = tx
    OBVIOUS
  <2>5. \A k \in 1..n : acc.entries[k] \in Entries
    BY <2>1
  <2>6. \A k \in 1..n : acc.entries[k].tx[4] \in Nat
    BY <2>5 DEF Entries, TxIds
  <2>7. Version(acc) = n
    BY DEF Version
  <2> HIDE DEF new, e, n
  <2>8. ASSUME NEW k \in 1..(n + 1), new[k].tx[1] = "refund"
        PROVE  new[k].tx[4] < n + 1
    <3>1. CASE k = n + 1
      BY <2>1, <2>3, <2>4, <2>7, <2>8, <3>1
    <3>2. CASE k \in 1..n
      <4>1. acc.entries[k].tx[4] < n
        BY <2>3, <2>7, <2>8, <3>2 DEF FreshRefunds, n
      <4> QED
        BY <2>1, <2>3, <2>6, <3>2, <4>1
    <3> QED
      BY <2>1, <3>1, <3>2
  <2> QED
    BY <2>2, <2>3, <2>8 DEF FreshRefunds, Version
<1> QED
  BY <1>1, <1>2

\* So the id of the next refund is unknown and its credits are posted.
LEMMA FreshRefundPays ==
    ASSUME NEW acc \in Accounts, FreshRefunds(acc), NEW s, NEW a, NEW credits \in Nat
    PROVE  Refund(acc, s, a, credits).balance = acc.balance + credits
<1> DEFINE tx == <<"refund", s, a, Version(acc)>>
<1>1. tx[1] = "refund" /\ tx[4] = Version(acc) /\ Version(acc) \in Nat /\ acc.balance \in Nat
  BY DEF Version, Accounts
<1> HIDE DEF tx
<1>2. ~Posted(acc, tx)
  BY <1>1 DEF Posted, FreshRefunds
<1>3. Post(acc, tx, credits).balance = acc.balance + credits
  BY <1>2 DEF Post
<1> QED
  BY <1>1, <1>3 DEF Refund, tx

\* What a step does to the ledgers, as far as refunds can tell.
FreshChange ==
    \/ account' = account
    \/ \E t \in Teams, new \in Accounts :
           FreshRefunds(new) /\ account' = [account EXCEPT ![t] = new]
    \/ job.rows # << >> /\ account' = job.saved.account

LEMMA FreshSteps ==
    ASSUME TypeOK, RefundInv, [Next]_vars
    PROVE  FreshChange
<1>1. \A t \in Teams : account[t] \in Accounts /\ FreshRefunds(account[t])
  BY DEF TypeOK, RefundInv
<1>2. ASSUME NEW t \in Teams, NEW s \in Slots, NEW a \in Athletes, NEW credits \in Nat
      PROVE  /\ Refund(account[t], s, a, credits) \in Accounts
             /\ FreshRefunds(Refund(account[t], s, a, credits))
  <2>1. <<"refund", s, a, Version(account[t])>>[4] = Version(account[t])
    OBVIOUS
  <2> QED
    BY <1>1, <2>1, PostFresh, RefundMoves DEF Refund
<1>3. ASSUME NEW t \in Teams, NEW tx \in TxIds, NEW amount \in Int, tx[1] # "refund",
             CanPost(account[t], tx, amount),
             account' = [account EXCEPT ![t] = Post(account[t], tx, amount)]
      PROVE  FreshChange
  BY <1>1, <1>3, PostType, PostFresh DEF FreshChange
<1>4. ASSUME NEW t \in Teams, EnsureTeam(t)
      PROVE  FreshChange
  <2> DEFINE empty == [balance |-> 0, entries |-> << >>]
  <2>1. empty \in Accounts /\ FreshRefunds(empty) /\ InitialTx[1] # "refund"
    BY DEF Accounts, FreshRefunds, InitialTx
  <2>2. FreshRefunds(OpenAccount(TotalCredits))
    BY <2>1, PostFresh DEF OpenAccount
  <2> QED
    BY <1>4, <2>2, OpenAccountFacts DEF EnsureTeam, FreshChange
<1>5. ASSUME NEW t \in Teams, NEW id \in AdminIds, NEW amount \in AdminAmounts,
             AdminPostCreditMovement(t, id, amount)
      PROVE  FreshChange
  <2> DEFINE tx == <<"admin", 0, NoAthlete, id>>
  <2>1. tx \in TxIds /\ tx[1] # "refund" /\ amount \in Int
    BY TxIdType, FantasyTeamsAssumption DEF TxPrefixes
  <2>2. /\ CanPost(account[t], tx, amount)
        /\ account' = [account EXCEPT ![t] = Post(account[t], tx, amount)]
    BY <1>5 DEF AdminPostCreditMovement
  <2> HIDE DEF tx
  <2> QED
    BY <1>3, <2>1, <2>2
<1>6. ASSUME NEW t \in Teams, NEW s \in Slots, NEW a \in Athletes, NEW p \in Prices,
             AssignRequest(t, s, a, p)
      PROVE  FreshChange
  <2> DEFINE acc == Refunded(t, s, a)
             tx == ChargeTx(t, s, a)
             charge == Charge(t, s, a, p)
  <2>1. acc \in Accounts /\ charge \in Int /\ tx \in TxIds
    BY RefundedMoves, ChargeType, FantasyTeamsAssumption
  <2>2. FreshRefunds(acc)
    <3>1. paid[t][s] \in Nat /\ slot[t][s] \in Athletes \cup {NoAthlete}
      BY DEF TypeOK, TeamSlots
    <3> QED
      BY <1>1, <1>2, <3>1 DEF Refunded
  <2>3. tx[1] # "refund"
    BY DEF ChargeTx
  <2>4. \/ account' = [account EXCEPT ![t] = acc]
        \/ /\ account' = [account EXCEPT ![t] = Post(acc, tx, charge)]
           /\ CanPost(acc, tx, charge)
    BY <1>6 DEF AssignRequest, AssignSlot, AssignSlotOverdrawn, AssignSlotDuplicate
  <2> HIDE DEF acc, tx, charge
  <2> QED
    BY <2>1, <2>2, <2>3, <2>4, PostType, PostFresh DEF FreshChange
<1>7. ASSUME NEW t \in Teams, NEW s \in Slots, ReleaseSlot(t, s)
      PROVE  FreshChange
  <2>1. slot[t][s] \in Athletes /\ paid[t][s] \in Nat
    BY <1>7 DEF ReleaseSlot, TypeOK, TeamSlots
  <2> QED
    BY <1>2, <1>7, <2>1 DEF ReleaseSlot, FreshChange
<1>8. ASSUME NEW t \in Teams, NEW s \in Slots, NEW percent \in ReleasePercents,
             ApplyRelease(t, s, percent)
      PROVE  FreshChange
  <2> DEFINE refund == (paid[t][s] * percent) \div 100
             tx == ReleaseTx(s, slot[t][s])
  <2>1. slot[t][s] \in Athletes /\ paid[t][s] \in Nat /\ s \in Nat /\ percent \in Nat
    BY <1>8, RosterAssumption, FantasyTeamsAssumption DEF ApplyRelease, TypeOK, TeamSlots
  <2>2. paid[t][s] * percent \in Int
    BY <2>1
  <2>3. refund \in Int
    BY <2>2
  <2>4. tx \in TxIds /\ tx[1] # "refund"
    BY <2>1, TxIdType DEF ReleaseTx, TxPrefixes
  <2>5. account' = [account EXCEPT ![t] = IF refund > 0 THEN Post(account[t], tx, refund)
                                          ELSE account[t]]
    BY <1>8 DEF ApplyRelease
  <2> HIDE DEF refund, tx
  <2>6. refund > 0 => CanPost(account[t], tx, refund)
    BY <1>1, <2>3 DEF CanPost, Accounts
  <2> QED
    BY <1>1, <1>3, <2>3, <2>4, <2>5, <2>6 DEF FreshChange, TypeOK
<1>9. CASE JobRow
  <2> DEFINE row == Head(job.rows)
             tx == RowTx(row)
  <2>1. row \in SlottedRows /\ tx \in TxIds /\ job \in Jobs \ {Idle}
    BY <1>9, RowType DEF JobRow, TypeOK, Idle
  <2>2. row.team \in Teams /\ row.price \in Nat /\ tx[1] # "refund"
    BY <2>1 DEF SlottedRows, Jobs, RowTx
  <2>3. /\ row.price > 0 => CanPost(account[row.team], tx, 0 - row.price)
        /\ account' = [account EXCEPT ![row.team] =
               IF row.price > 0 THEN Post(account[row.team], tx, 0 - row.price)
               ELSE account[row.team]]
    BY <1>9 DEF JobRow, RowPayable
  <2> HIDE DEF row, tx
  <2>4. CASE row.price > 0
    <3>1. account' = [account EXCEPT ![row.team] = Post(account[row.team], tx, 0 - row.price)]
      BY <2>3, <2>4
    <3>2. CanPost(account[row.team], tx, 0 - row.price) /\ 0 - row.price \in Int
      BY <2>2, <2>3, <2>4
    <3> QED
      BY <1>3, <2>1, <2>2, <3>1, <3>2
  <2>5. CASE ~(row.price > 0)
    BY <1>1, <2>2, <2>3, <2>5 DEF FreshChange
  <2> QED
    BY <2>4, <2>5
<1>10. CASE JobRollback
  BY <1>10 DEF JobRollback, FreshChange
<1>11. CASE \/ \E open \in BOOLEAN : SetMarketOpen(open)
            \/ \E rows \in SeqsUpTo(ImportRows, MaxRows) : PreviewCsvImport(rows)
            \/ ConfirmCsvImport
            \/ \E t \in AiTeams, picks \in SeqsUpTo(Athletes, Cardinality(Slots)) :
                   AssignRandomAiRoster(t, picks)
            \/ JobRowRefused \/ JobRowOverdrawn \/ JobEnd
            \/ UNCHANGED vars
  BY <1>11
  DEF SetMarketOpen, PreviewCsvImport, ConfirmCsvImport, AssignRandomAiRoster, JobRowRefused,
      JobRowOverdrawn, JobEnd, vars, FreshChange
<1> QED
  BY <1>4, <1>5, <1>6, <1>7, <1>8, <1>9, <1>10, <1>11 DEF Next

LEMMA RefundInvariant == Spec => [](TypeOK /\ RefundInv)
<1>1. Init => RefundInv
  BY DEF Init, Blank, Idle, RefundInv, FreshRefunds
<1>2. ASSUME TypeOK, RefundInv, [Next]_vars
      PROVE  RefundInv'
  <2>1. FreshChange /\ SavedChange
    BY <1>2, FreshSteps, EveryStep DEF StepOK
  <2>2. \A t \in Teams : FreshRefunds(account'[t])
    BY <1>2, <2>1 DEF FreshChange, RefundInv, TypeOK
  <2>3. job'.rows # << >> => \A t \in Teams : FreshRefunds(job'.saved.account[t])
    BY <1>2, <2>1 DEF SavedChange, RefundInv
  <2> QED
    BY <2>2, <2>3 DEF RefundInv
<1> QED
  BY <1>1, <1>2, TypeCorrect, PTL DEF Spec

(* release_slot pays the whole purchase price back, also when the same     *)
(* athlete leaves the same slot again after an import that rolled back:    *)
(* the version in the id of a refund has never been used by an earlier one.*)
THEOREM ReleasesPayBack == Spec => ReleasePaysBack
<1> DEFINE PaidBack == \A t \in Teams, s \in Slots :
          ReleaseSlot(t, s) => account'[t].balance = account[t].balance + paid[t][s]
<1>1. TypeOK /\ RefundInv => PaidBack
  <2> SUFFICES ASSUME TypeOK, RefundInv, NEW t \in Teams, NEW s \in Slots, ReleaseSlot(t, s)
               PROVE  account'[t].balance = account[t].balance + paid[t][s]
    OBVIOUS
  <2>1. account[t] \in Accounts /\ FreshRefunds(account[t]) /\ paid[t][s] \in Nat
    BY DEF TypeOK, RefundInv
  <2>2. account'[t] = Refund(account[t], s, slot[t][s], paid[t][s])
    BY DEF ReleaseSlot, TypeOK
  <2> QED
    BY <2>1, <2>2, FreshRefundPays
<1>2. TypeOK /\ RefundInv => [PaidBack]_vars
  BY <1>1
<1>3. Spec => [][PaidBack]_vars
  BY <1>2, RefundInvariant, PTL
<1> QED
  BY <1>3 DEF ReleasePaysBack

-----------------------------------------------------------------------------
(* Imports *)

(* Inductive: while an import runs, every row of its draft is on the roster *)
(* of its team or still to be applied.                                      *)
ImportInv ==
    job.prefix = "csv-purchase" =>
        \A i \in DOMAIN draft.rows :
            \/ Holds(slot[draft.rows[i].team], draft.rows[i].athlete)
            \/ \E j \in DOMAIN job.rows : /\ job.rows[j].team = draft.rows[i].team
                                         /\ job.rows[j].athlete = draft.rows[i].athlete

LEMMA ImportStep ==
    ASSUME TypeOK, ImportInv, [Next]_vars
    PROVE  ImportInv'
<1>1. ASSUME job' = Idle
      PROVE  ImportInv'
  BY <1>1 DEF ImportInv, Idle
<1>2. ASSUME Unlocked, job' = job
      PROVE  ImportInv'
  BY <1>1, <1>2 DEF Unlocked
<1>3. CASE ConfirmCsvImport
  <2> DEFINE n == Len(draft.rows)
             row(i, place) == [team |-> draft.rows[i].team, athlete |-> draft.rows[i].athlete,
                               price |-> draft.rows[i].price, slot |-> place[i]]
  <2>1. PICK place \in [1..n -> Slots] : StartJob("csv-purchase", [i \in 1..n |-> row(i, place)])
    BY <1>3 DEF ConfirmCsvImport
  <2>2. draft' = draft /\ DOMAIN draft.rows = 1..n
    BY <1>3 DEF ConfirmCsvImport, TypeOK
  <2>3. \A i : row(i, place).team = draft.rows[i].team
               /\ row(i, place).athlete = draft.rows[i].athlete
    OBVIOUS
  <2> HIDE DEF n, row
  <2>4. job'.rows = [i \in 1..n |-> row(i, place)]
    BY <2>1 DEF StartJob
  <2>5. \A i \in DOMAIN draft.rows : /\ i \in DOMAIN job'.rows
                                     /\ job'.rows[i].team = draft'.rows[i].team
                                     /\ job'.rows[i].athlete = draft'.rows[i].athlete
    BY <2>2, <2>3, <2>4
  <2> QED
    BY <2>2, <2>5 DEF ImportInv
<1>4. CASE \E t \in AiTeams, picks \in SeqsUpTo(Athletes, Cardinality(Slots)) :
               AssignRandomAiRoster(t, picks)
  <2>1. job'.prefix = "random-ai"
    BY <1>4 DEF AssignRandomAiRoster, StartJob
  <2> QED
    BY <2>1 DEF ImportInv
<1>5. CASE JobRow
  <2> DEFINE row == Head(job.rows)
  <2>1. row \in SlottedRows /\ job \in Jobs /\ job.rows \in Seq(SlottedRows) /\ job.rows # << >>
    BY <1>5, RowType DEF JobRow, TypeOK, Jobs, Idle
  <2>2. row.team \in Teams /\ row.slot \in Slots
    BY <2>1 DEF SlottedRows
  <2>3. /\ slot[row.team][row.slot] = NoAthlete
        /\ slot' = [slot EXCEPT ![row.team][row.slot] = row.athlete]
        /\ job' = [job EXCEPT !.rows = Tail(job.rows)]
        /\ draft' = draft
    BY <1>5 DEF JobRow, RowAdmitted, Fill
  <2>4. job'.rows = Tail(job.rows) /\ job'.prefix = job.prefix
    BY <2>1, <2>3 DEF Jobs, Idle
  <2>5. \A j \in DOMAIN job.rows : \/ job.rows[j] = row
                                   \/ j - 1 \in DOMAIN job'.rows /\ job'.rows[j - 1] = job.rows[j]
    BY <2>1, <2>4
  <2> HIDE DEF row
  <2>6. /\ Holds(slot'[row.team], row.athlete)
        /\ \A t \in Teams, a \in Athletes : Holds(slot[t], a) => Holds(slot'[t], a)
    BY <2>2, <2>3, NoAthleteAssumption DEF Holds, TypeOK, TeamSlots
  <2>7. ASSUME NEW i \in DOMAIN draft.rows
        PROVE  draft.rows[i].team \in Teams /\ draft.rows[i].athlete \in Athletes
    <3>1. draft.rows[i] \in Rows
      BY DEF TypeOK
    <3> QED
      BY <3>1 DEF Rows
  <2>8. SUFFICES ASSUME job.prefix = "csv-purchase", NEW i \in DOMAIN draft.rows
                 PROVE  \/ Holds(slot'[draft.rows[i].team], draft.rows[i].athlete)
                        \/ \E j \in DOMAIN job'.rows :
                              /\ job'.rows[j].team = draft.rows[i].team
                              /\ job'.rows[j].athlete = draft.rows[i].athlete
    BY <2>3, <2>4 DEF ImportInv
  <2>9. CASE Holds(slot[draft.rows[i].team], draft.rows[i].athlete)
    BY <2>6, <2>7, <2>9
  <2>10. ASSUME NEW j \in DOMAIN job.rows, job.rows[j].team = draft.rows[i].team,
                job.rows[j].athlete = draft.rows[i].athlete
         PROVE  \/ Holds(slot'[draft.rows[i].team], draft.rows[i].athlete)
                \/ \E k \in DOMAIN job'.rows : /\ job'.rows[k].team = draft.rows[i].team
                                               /\ job'.rows[k].athlete = draft.rows[i].athlete
    BY <2>5, <2>6, <2>10
  <2> QED
    BY <2>8, <2>9, <2>10 DEF ImportInv
<1>6. CASE JobRowRefused \/ JobRowOverdrawn \/ JobRollback \/ JobEnd
  BY <1>1, <1>6 DEF JobRowRefused, JobRowOverdrawn, JobRollback, JobEnd
<1>7. CASE \E t \in Teams, s \in Slots, a \in Athletes, p \in Prices : AssignRequest(t, s, a, p)
  BY <1>2, <1>7
  DEF AssignRequest, AssignSlot, AssignSlotOverdrawn, AssignSlotDuplicate, AssignAdmitted
<1>8. CASE \/ \E t \in Teams : EnsureTeam(t)
           \/ \E open \in BOOLEAN : SetMarketOpen(open)
           \/ \E t \in Teams, id \in AdminIds, amount \in AdminAmounts :
                  AdminPostCreditMovement(t, id, amount)
           \/ \E t \in Teams, s \in Slots : ReleaseSlot(t, s)
           \/ \E t \in Teams, s \in Slots, percent \in ReleasePercents :
                  ApplyRelease(t, s, percent)
           \/ \E rows \in SeqsUpTo(ImportRows, MaxRows) : PreviewCsvImport(rows)
  BY <1>2, <1>8
  DEF EnsureTeam, SetMarketOpen, AdminPostCreditMovement, ReleaseSlot, ApplyRelease, PreviewCsvImport
<1>9. CASE UNCHANGED vars
  BY <1>9 DEF vars, ImportInv
<1> QED
  BY <1>3, <1>4, <1>5, <1>6, <1>7, <1>8, <1>9 DEF Next

LEMMA ImportInvariant == Spec => [](TypeOK /\ ImportInv)
<1>1. Init => ImportInv
  BY DEF Init, Idle, ImportInv
<1>2. TypeOK /\ ImportInv /\ [Next]_vars => ImportInv'
  BY ImportStep
<1> QED
  BY <1>1, <1>2, TypeCorrect, PTL DEF Spec

(* An import that ends as confirmed has put every athlete of its draft on  *)
(* the roster of the row's team: a refused row ends the request, it is     *)
(* never skipped.                                                          *)
THEOREM ConfirmedImportsAreComplete == Spec => ConfirmedImportIsComplete
<1> DEFINE Arrives == (draft.status = "draft" /\ draft'.status = "confirmed")
          => \A i \in DOMAIN draft.rows :
                Holds(slot'[draft.rows[i].team], draft.rows[i].athlete)
<1>1. ASSUME TypeOK, ImportInv, [Next]_vars
      PROVE  Arrives
  <2> SUFFICES ASSUME draft.status = "draft", draft'.status = "confirmed"
               PROVE  \A i \in DOMAIN draft.rows :
                         Holds(slot'[draft.rows[i].team], draft.rows[i].athlete)
    OBVIOUS
  <2>1. JobEnd
    <3>1. draft' # draft
      OBVIOUS
    <3>2. ~(\E rows \in SeqsUpTo(ImportRows, MaxRows) : PreviewCsvImport(rows))
      BY DEF PreviewCsvImport
    <3>3. ~(\E t \in Teams, s \in Slots, a \in Athletes, p \in Prices : AssignRequest(t, s, a, p))
      BY <3>1 DEF AssignRequest, AssignSlot, AssignSlotOverdrawn, AssignSlotDuplicate
    <3>4. ~(JobRow \/ JobRowRefused \/ JobRowOverdrawn \/ JobRollback)
      BY <3>1 DEF JobRow, JobRowRefused, JobRowOverdrawn, JobRollback
    <3>5. ~(UNCHANGED vars)
      BY <3>1 DEF vars
    <3> QED
      BY <1>1, <3>1, <3>2, <3>3, <3>4, <3>5
      DEF Next, EnsureTeam, SetMarketOpen, AdminPostCreditMovement, ReleaseSlot, ApplyRelease,
          ConfirmCsvImport, AssignRandomAiRoster
  <2>2. job.prefix = "csv-purchase" /\ job.rows = << >> /\ slot' = slot
    BY <1>1, <2>1 DEF JobEnd
  <2> QED
    BY <1>1, <2>2 DEF ImportInv
<1>2. TypeOK /\ ImportInv /\ [Next]_vars => [Arrives]_vars
  BY <1>1
<1>3. Spec => [][Arrives]_vars
  BY <1>2, ImportInvariant, PTL DEF Spec
<1> QED
  BY <1>3 DEF ConfirmedImportIsComplete

=============================================================================
