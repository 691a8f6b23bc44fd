SPECIFICATION Spec
CONSTANTS
  w1 = w1
  v1 = v1
  Voters = {w1}
  Signals <- TwoSignals
  Validators = {v1}
  VotePowers = {1}
  VoterPowers = {3}
  GenesisVotes <- BothVoted
  Submissions <- OneReport
  ParamChoices <- NoQuorum
  Gaps = {1}
  MaxHeight = 3
  Discrepancies = {1, 2}
  MaxGuaranteeBlockTime = 3
  IntWidth = 16
  OtherTokens = 5
  Tokens <- EqualTokens
CHECK_DEADLOCK FALSE
INVARIANT EndBlockNeverFails
