---------------------------- MODULE CreditLedger ----------------------------
(***************************************************************************)
(* The append-only credit ledger of one fantasy team                       *)
(* (backend/src/fantasy_teams/ledger.py), as operators on an account       *)
(*                                                                         *)
(*     [balance |-> credit_accounts.balance, entries |-> its ledger]       *)
(*                                                                         *)
(* An entry keeps transaction_id, amount and balance_after.  The column    *)
(* credit_accounts.version counts the entries, so it is Len(entries).      *)
(* A transaction id is <<prefix, slot, athlete, number>>: the prefix the   *)
(* caller formats into the id and the parts it interpolates (the team is   *)
(* the account's own).                                                     *)
(***************************************************************************)
EXTENDS Integers, Sequences

CONSTANTS Athletes, NoAthlete

ASSUME NoAthleteAssumption == NoAthlete \notin Athletes

TxPrefixes == {"initial", "admin", "purchase", "purchase-adjust", "refund",
               "csv-purchase", "random-ai", "release", "market-live",
               "live-swap-acquire", "live-swap-release",
               "trade-sent", "trade-received", "market"}

TxIds == TxPrefixes \X Nat \X (Athletes \cup {NoAthlete}) \X Nat

Entries == [tx : TxIds, amount : Int, after : Nat]

Accounts == [balance : Nat, entries : Seq(Entries)]

\* Account.version: incremented by every entry that is created.
Version(acc) == Len(acc.entries)

\* The (account_id, transaction_id) lookup that makes a replay idempotent.
Posted(acc, tx) == \E i \in 1..Len(acc.entries) : acc.entries[i].tx = tx

\* Faulty variant of CanPost: the balance is not checked.
CanPostUnchecked(acc, tx, amount) == TRUE

\* validate_ledger_balance_non_negative, not reached by a replay.
CanPost(acc, tx, amount) == Posted(acc, tx) \/ acc.balance + amount >= 0

\* Faulty variant of Post: a replay is posted again.
PostReplayed(acc, tx, amount) ==
    [balance |-> acc.balance + amount,
     entries |-> Append(acc.entries,
                        [tx |-> tx, amount |-> amount, after |-> acc.balance + amount])]

\* apply_ledger_movement: a known transaction id changes nothing.
Post(acc, tx, amount) ==
    IF Posted(acc, tx) THEN acc
    ELSE [balance |-> acc.balance + amount,
          entries |-> Append(acc.entries,
                             [tx |-> tx, amount |-> amount,
                              after |-> acc.balance + amount])]

\* ensure_credit_account_for_team: balance 0, then the initial allocation.
InitialTx == <<"initial", 0, NoAthlete, 0>>

OpenAccount(totalCredits) ==
    LET empty == [balance |-> 0, entries |-> << >>]
    IN  IF totalCredits > 0 THEN Post(empty, InitialTx, totalCredits) ELSE empty

-----------------------------------------------------------------------------
(* What a sound account looks like: every entry's balance_after is the     *)
(* previous one plus its amount, the balance is the last balance_after,    *)
(* and no transaction id was applied twice.                                *)

AfterAt(entries, i) == IF i = 0 THEN 0 ELSE entries[i].after

Chained(acc) ==
    /\ \A i \in 1..Len(acc.entries) :
          acc.entries[i].after = AfterAt(acc.entries, i - 1) + acc.entries[i].amount
    /\ acc.balance = AfterAt(acc.entries, Len(acc.entries))

TxUnique(acc) ==
    \A i, j \in 1..Len(acc.entries) :
        acc.entries[i].tx = acc.entries[j].tx => i = j

\* reconstruct_balance: the sum of the amounts of the ledger.
ReconstructBalance(acc) ==
    LET sum[i \in 0..Len(acc.entries)] ==
            IF i = 0 THEN 0 ELSE sum[i - 1] + acc.entries[i].amount
    IN  sum[Len(acc.entries)]
=============================================================================
