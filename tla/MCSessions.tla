------------------------------ MODULE MCSessions ------------------------------
EXTENDS Sessions, TLC
CONSTANTS b1, b2
\* Each mix of events is explored in full, not the product of all of them.
Budget(tabs, calls, tokens, challenges, faults, ages, rotations) ==
    [tabs |-> tabs, calls |-> calls, tokens |-> tokens, challenges |-> challenges,
     faults |-> faults, ages |-> ages, rotations |-> rotations]
MCBudgets == {Budget({b1, b2}, {b1}, 2, 1, 1, 1, 0), Budget({b1, b2}, {}, 4, 1, 1, 1, 0),
              Budget({b1}, {b1}, 3, 1, 0, 3, 1), Budget({b1, b2}, {}, 3, 2, 1, 0, 0)}
=============================================================================
