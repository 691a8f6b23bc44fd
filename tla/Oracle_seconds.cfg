SPECIFICATION Spec
CONSTANTS
  alice = alice
  Validators = {v1, v2}
  Feeders = {}
  Users = {alice}
  Codes <- OneCode
  GenesisDataSources <- OneSource
  GenesisOracleScripts <- OneScript
  MaxDataSources = 1
  MaxOracleScripts = 1
  Fees = {1}
  FeeLimits = {2}
  SigningFees = {0}
  TSSWishes = {FALSE}
  Wealth = 4
  TicksPerSecond = 2
  MaxGap = 1
  RequestIds <- OneRequest
  ParamChoices <- FixedParams
  MaxHeight = 4
  AskCounts = {1}
PROPERTY MissIsPenalised
