--------------------------- MODULE EnglishAuction ---------------------------
(***************************************************************************)
(* What a lot of the live auction promises, without rosters, credits,      *)
(* sessions or time: raises only go up, a lot that ended never changes     *)
(* again, and it is sold to its last leader at the last amount.            *)
(***************************************************************************)
EXTENDS Naturals

CONSTANTS
    Bidders,
    Nobody,        \* not a bidder
    MinIncrement   \* at least 1

VARIABLES phase, leader, amount

lotVars == <<phase, leader, amount>>

Init == phase = "none" /\ leader = Nobody /\ amount = 0

\* The athlete is called.
Open ==
    /\ phase = "none"
    /\ phase' = "open"
    /\ UNCHANGED <<leader, amount>>

Raise(b) ==
    /\ phase = "open"
    /\ b # leader
    /\ leader' = b
    /\ amount' \in Nat
    /\ amount' >= amount + MinIncrement
    /\ UNCHANGED phase

\* The hammer: sold, left for the winner to make room, or not honoured.
Knock ==
    /\ phase = "open"
    /\ leader # Nobody
    /\ phase' \in {"sold", "pending_swap", "passed"}
    /\ UNCHANGED <<leader, amount>>

\* Nobody raised, or the operator withdraws the lot before the first raise.
Unsold ==
    /\ phase = "open"
    /\ leader = Nobody
    /\ phase' \in {"passed", "cancelled"}
    /\ UNCHANGED <<leader, amount>>

\* The winner makes room, or gives the athlete up.
Settle ==
    /\ phase = "pending_swap"
    /\ phase' \in {"sold", "passed"}
    /\ UNCHANGED <<leader, amount>>

Next ==
    \/ Open
    \/ \E b \in Bidders : Raise(b)
    \/ Knock
    \/ Unsold
    \/ Settle

Spec == Init /\ [][Next]_lotVars
=============================================================================
