------------------------------ MODULE MCCredit -------------------------------
(* The credit score of one creator who is tipped by send_tip.                *)
EXTENDS Credit, TLC

TipAmounts == [t1 |-> 499999999, t2 |-> 500000001]
Reports == {[followers |-> 49, engagement |-> 0]}
\* Forty-five days and some seconds: a tip after the first, asked for after the second.
Steps == {3888000, 3888007}
=============================================================================
