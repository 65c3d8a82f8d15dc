\* The queue at its smallest: RefundQueue.cfg is its run.
CONSTANTS
  Creators = {ann}
  Leavers = {ann}
  RequestWindow = 1
  ResponseWindow = 1
  RequestTtl = 1
  EntryTtl = 1
  GenesisTime = 0
  LedgerSeconds = 1
  MaxTips = 1
  MaxLedger = 1
  BatchLimits = {1}
\* Two creators who tip each other, one amount divisible by every rate, and a
\* clock on which each window is open at first and then closed.
  NumCreators = 2
  Fans = {}
  TipAmounts = {100}
  WithdrawAmounts = {0, 60}
  FeeRates = {1000}
  PauseBits = {tips_flag}
  RefundFeeRates = {200}
  PoolRequestWindow = 0
  PoolResponseWindow = 1
  PoolRequestTtl = 1
  EmergencyDelay = 1
  LedgerOffset = 0
  MaxRecords = 2
  MaxScheduled = 1
  MaxTime = 1
SPECIFICATION CustodySpec
INVARIANTS BooksBalance RefundedOnce DebtBoundedByRefunds
PROPERTY OnlyEmergencyExitWhilePaused
