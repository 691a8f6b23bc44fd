SPECIFICATION Spec
CONSTANTS
  Accounts = {a1, a2}
  Groups <- TwoGroups
  GroupMembers <- TwoGroupsMembers
  Threshold <- TwoGroupsThreshold
  ParamChoices <- ChangingPeriod
  MaxSignings = 2
  MaxAttempts = 2
  MaxPeriod = 3
  MaxDEs = 3
  MaxHeight = 8
INVARIANT ExpirationsIncrease
