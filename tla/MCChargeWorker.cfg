CONSTANTS
    Workers = {w1, w2}
    Interval = 1
    DunningDays <- MCDunningDays
    ClaimTTL = 1
    MaxTime = 3
    MaxUserOps = 2
    MaxFaults = 2
SPECIFICATION Spec
SYMMETRY Processes
INVARIANTS Safe SettledRowAgrees
PROPERTY LateFailureIsIgnored
