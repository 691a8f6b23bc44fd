SPECIFICATION FairSpec
CONSTANTS
  alice = alice
  Validators = {v1, v2}
  Feeders = {v1}
  Users = {alice}
  Codes <- OneCode
  GenesisDataSources <- NoSource
  GenesisOracleScripts <- NoScript
  MaxDataSources = 1
  MaxOracleScripts = 1
  Fees = {1}
  FeeLimits = {2}
  SigningFees = {1, 2}
  TSSWishes = {TRUE}
  Wealth = 3
  TicksPerSecond = 1
  MaxGap = 1
  RequestIds <- TwoRequests
  ParamChoices <- ChangingParams
  MaxHeight = 4
  AskCounts = {1, 2}
INVARIANT FeesWithinLimit
INVARIANT ResolvedOnce
PROPERTY NoStalePenalty
PROPERTY EveryRequestResolves
