CONSTANTS
  NumCreators = 2
  Fans = {}
  TipAmounts = {100}
  WithdrawAmounts = {0, 60}
  FeeRates = {1000}
  PauseBits = {tips_flag}
  RefundFeeRates = {200}
  RequestWindow = 1
  ResponseWindow = 1
  RequestTtl = 1
  EmergencyDelay = 1
  LedgerOffset = 0
  MaxTips = 2
  MaxScheduled = 0
  MaxTime = 2
SPECIFICATION Spec
INVARIANT AllBalancesWithdrawable
