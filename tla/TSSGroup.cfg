SPECIFICATION FairSpec
CONSTANTS
  MaxGroups = 2
  MaxGroupSize = 3
  Periods = {1, 3}
  MaxHeight = 5
  Honest = {1, 2}
PROPERTY NoOverdueGroup
INVARIANT PendingIsComplete
INVARIANT ActiveGroupSound
INVARIANT HonestNeverMalicious
PROPERTY CompleteGroupNeverExpires
PROPERTY EveryGroupFinishes
PROPERTY ImplementsLifecycle
