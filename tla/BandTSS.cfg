SPECIFICATION FairSpec
CONSTANTS
  a1 = a1
  a2 = a2
  a3 = a3
  Accounts = {a1, a2}
  GroupIds <- ThreeGroups
  SigningIds <- TwoSignings
  GroupMembers <- ThreeGroupMembers
  Threshold <- ThreeThresholds
  FeeChoices = {0, 1}
  MinTransitionDuration = 1
  MaxTransitionDuration = 2
  InactivePenaltyDuration = 1
  MaxBlockGap = 2
  MaxTimeouts = 1
  MaxTime = 3
INVARIANT NoPanic
INVARIANT DutyIsSound
INVARIANT IdleInBoth
PROPERTY HandoverIsSigned
PROPERTY EveryTransitionEnds
