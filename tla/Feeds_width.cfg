SPECIFICATION Spec
CONSTANTS
  w1 = w1
  Voters = {w1}
  Signals <- ThreeSignals
  Validators = {}
  VotePowers = {2, 7}
  VoterPowers = {3}
  GenesisVotes <- NobodyVoted
  Submissions <- OneReport
  ParamChoices <- WideParams
  Gaps = {1}
  MaxHeight = 3
  Discrepancies = {1, 2}
  MaxGuaranteeBlockTime = 3
  IntWidth = 4
  OtherTokens = 5
  Tokens <- EqualTokens
CHECK_DEADLOCK FALSE
INVARIANT VoteIsLocked
