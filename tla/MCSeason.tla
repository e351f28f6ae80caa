------------------------------ MODULE MCSeason ------------------------------
(* Leagues of four, five and seven participants over eight windows:  *)
(* the first starts before the league, the fourth gets its turn late.      *)
EXTENDS Season

Spread == [m \in 1..7 |-> 655 + 30 * ((m * 3) % 5)]
Upset == [m \in 1..7 |-> IF m \in {2, 4} THEN 725 ELSE 600]

MCForms == {Spread, Upset}
=============================================================================
