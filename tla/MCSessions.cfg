CONSTANTS
    b1 = b1
    b2 = b2
    Tabs = {b1, b2}
    SlotCount = 2
    Budgets <- MCBudgets
SPECIFICATION Spec
INVARIANTS Safe OneLiveTokenUnlessRaced RotationKeepsSessions
PROPERTY CallsEnd
