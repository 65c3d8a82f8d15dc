---------------------------- MODULE MCChargeWorker ----------------------------
EXTENDS ChargeWorker, TLC
MCDunningDays == <<1, 2>>
Processes == Permutations(Workers)
=============================================================================
