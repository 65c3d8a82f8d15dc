\* Three tips, for a swap-remove in the middle of the index, entries that
\* disappear before the clock stops, and a creator who withdraws what is
\* refunded later, leaves and comes back.
CONSTANTS
  Creators = {ann}
  Leavers = {ann}
  RequestWindow = 2
  ResponseWindow = 1
  RequestTtl = 2
  EntryTtl = 2
  GenesisTime = 0
  LedgerSeconds = 1
  MaxTips = 3
  MaxLedger = 3
  BatchLimits = {1, 2}
SPECIFICATION FairSpec
INVARIANT Safe
PROPERTIES FollowsLifecycle OverdueIsAnswered
