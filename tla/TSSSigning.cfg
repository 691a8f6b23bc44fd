SPECIFICATION FairSpec
CONSTANTS
  Accounts = {a1, a2}
  Groups <- TwoGroups
  GroupMembers <- TwoGroupsMembers
  Threshold <- TwoGroupsThreshold
  ParamChoices <- FixedPeriod
  MaxSignings = 2
  MaxAttempts = 2
  MaxPeriod = 1
  MaxDEs = 2
  MaxHeight = 4
INVARIANT NonceUsedOnce
INVARIANT QueueIsExact
INVARIANT WaitingIsTracked
PROPERTY ImplementsLifecycle
PROPERTY EverySigningEnds
