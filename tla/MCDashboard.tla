---------------------------- MODULE MCDashboard ----------------------------
(* A small instance of Dashboard for a counterexample: a wallet with a       *)
(* profile and one without.                                                  *)
EXTENDS Dashboard

TwoWallets == {"w1", "w2"}
OneRegistered == {[w1 |-> 2, w2 |-> Missing]}
TwoSwitches == {[switches |-> 2, withdrawals |-> 0, tips |-> 0, faults |-> 0, pulls |-> 0]}
=============================================================================
