\* Two switches are enough: to the wallet without a profile, and on to the other.
CONSTANTS
  Wallets <- TwoWallets
  Ledgers <- OneRegistered
  Budgets <- TwoSwitches
SPECIFICATION Spec
PROPERTY KeptFresh
