SPECIFICATION Spec
CONSTANTS
  w1 = w1
  w2 = w2
  v1 = v1
  Voters = {w1, w2}
  Signals <- TwoSignals
  Validators = {v1}
  VotePowers = {1}
  VoterPowers = {2}
  GenesisVotes <- TwoVoted
  Submissions <- OneReport
  ParamChoices <- ReportParams
  Gaps = {1, 2}
  MaxHeight = 4
  Discrepancies = {1, 2}
  MaxGuaranteeBlockTime = 3
  IntWidth = 16
  OtherTokens = 5
  Tokens <- EqualTokens
CHECK_DEADLOCK FALSE
PROPERTY OnlySilentAreDeactivated
INVARIANT TotalPowerExact
INVARIANT PricesAreCurrent
