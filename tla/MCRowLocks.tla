----------------------------- MODULE MCRowLocks -----------------------------
(* Requests that compete for the accounts of two teams, for TLC.           *)
EXTENDS RowLocks, TLC

CONSTANTS a, b

\* Two offers of a credit that cross, the second waiting for the admin.
MCOffer == << [proposer |-> a, recipient |-> b, give |-> 1, status |-> "proposed"],
              [proposer |-> b, recipient |-> a, give |-> 1, status |-> "pending_approval"] >>

On(kind, p) == [kind |-> kind, team |-> a, amount |-> 0, proposal |-> p]
For(kind, t, amount) == [kind |-> kind, team |-> t, amount |-> amount, proposal |-> 1]

MCCall == << On("accept", 1), On("cancel", 1), On("approve", 2),
             For("swap", a, -2), For("assign", a, -1), For("sell", b, -9) >>

MCSellCall == << For("sell", a, -1), For("admin", a, 2), For("release", a, 1), On("accept", 1) >>
=============================================================================
