SPECIFICATION Spec
CONSTANTS
  ReportStatuses = {"available", "unavailable"}
  ValidatorPowers = {1, 3}
  ReportPrices = {1, 2, 3}
  Timestamps = {1, 2}
  MaxInfos = 4
  Precision = 1000
  BlockFees = {0, 1, 7, 20}
  Percentages = {0, 33, 70, 100, 150}
  Taxes = {0, 20, 333, 1000}
  MaxMembers = 3
  MaxChoice = 3
  MaxAsk = 2
  MaxTries = 2
  Order = 23
  MemberIDs = {1, 2, 3, 4, 5, 6, 7, 8, 9, 10, 11, 12, 13, 14, 15, 16, 17, 18, 19, 20, 21, 22}
  MaxQuorum = 3
  GroupSize = 3
  Coefficients = {2, 22}
  NoncePairs <- SomeNoncePairs
  Bindings = {2, 9}
  Challenges = {4}
CHECK_DEADLOCK FALSE
INVARIANT MedianIsReference
INVARIANT QuarterCannotMovePrice
INVARIANT RewardsAddUp
INVARIANT ChoiceIsFair
INVARIANT AnyQuorumSigns
