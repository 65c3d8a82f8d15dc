\* Two rosters that share a signer, so that approvals given under one could count
\* under the other; a raise and a cut of the fee; every delay one step long.
CONSTANTS
  ann = ann
  bob = bob
  sue = sue
  tom = tom
  bea = bea
  Addresses <- AnnAndBob
  FirstAdmin = ann
  Rosters <- TwoRosters
  FeeRates = {1, 2}
  MaxFeeBps = 2
  MinFeeDelay = 1
  FeeDelays = {0, 1}
  AdminTimelock = 1
  AdminExpiry = 1
  ProposalExpiry = 1
  PauseBits = {tips_flag}
  Hashes = {hash}
  MaxProposals = 1
  MaxEpoch = 1
  MaxVersion = 1
  MaxTime = 2
  BreakerConfigs <- Settings
  Withdrawals = {1, 2}
  Genesis = 12
  BreakerEnd = 22
  MaxStep = 3
  Tips = {"t1", "t2", "t3"}
  TipAmount <- ThreeTips
  Metrics <- TwoReports
  Waits = {3888000, 3888007}
  ScoreEnd = 15552014
\* Two subscribers in batches that charge one of them or both, and who may be short of
\* money, over the rate limit, or have signed nothing.
  Subscribers = {sue, tom}
  Creators = {bea}
  Pledges = {1}
  Intervals = {1, 2}
  SubscriptionLimit = 1
  MaxOps = 1
  RateWindow = 1
  BatchLimits = {1, 2}
  MaxWallet = 1
  LastDay = 2
SPECIFICATION RulesSpec
INVARIANTS BreakerIsExact ScoresAreHonest SubscriptionsSafe
PROPERTIES FeeRaiseWasAnnounced QuorumExecutes ClosedStaysClosed GuardedByMultisig
           TermsHoldForPeriod PauseStopsCharges ReadyIsCharged
