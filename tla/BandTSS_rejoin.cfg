SPECIFICATION Spec
CONSTANTS
  a1 = a1
  a2 = a2
  a3 = a3
  Accounts = {a1, a2, a3}
  GroupIds <- TwoGroups
  SigningIds <- OneSigning
  GroupMembers <- TwoGroupMembers
  Threshold <- TwoThresholds
  FeeChoices = {1}
  MinTransitionDuration = 1
  MaxTransitionDuration = 1
  InactivePenaltyDuration = 2
  MaxBlockGap = 1
  MaxTimeouts = 2
  MaxTime = 4
INVARIANT IdleCanRejoin
