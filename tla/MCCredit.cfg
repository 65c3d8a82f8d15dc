CONSTANTS
    Tips = {"t1", "t2"}
    Amount <- TipAmounts
    Metrics <- Reports
    Waits <- Steps
    LastTime = 15552014
SPECIFICATION Spec
INVARIANTS TippedAreActive
