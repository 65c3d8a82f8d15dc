CONSTANTS
    Events <- MCEvents
    Topic <- MCTopic
    Readable <- MCReadable
    RefundOf <- MCRefundOf
    Scenarios <- MCScenarios
    FinalityDepth = 1
    Lookback = 2
    StartLedger = 1
    MaxPages = 2
    MaxLedger = 4
    MaxReorgs = 2
SPECIFICATION Spec
INVARIANT Safe
PROPERTIES TickLeavesChainState EveryFinalTipIndexed
