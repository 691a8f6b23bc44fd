SPECIFICATION Spec
CONSTANTS
  btc = btc
  eth = eth
  TunnelIds <- OneTunnel
  Users = {alice, bob}
  Signals = {btc, eth}
  Prices = {100, 102, 110}
  Deviations <- TwoSignals
  Intervals = {2}
  MinDeposits = {0, 1}
  BaseFees = {1}
  SigningFees = {1}
  Amounts = {1}
  Wealth = 2
  StartTime = 2
  MaxTime = 3
SYMMETRY UserSymmetry
INVARIANT ModuleBalanceExact
INVARIANT LatestIsDelivered
PROPERTY FreshAfterPacket
PROPERTY ActiveIsBacked
