SPECIFICATION CylinderSpec
CONSTANTS
  Groups = {1}
  Signings = {}
  MaxVersion = 2
  GasPriceSet = FALSE
  MinDE = 1
  MaxDESize = 3
  SenderKeys = {k1}
  MaxMessages = 2
  SenderTries = 1
  MaxFaults = 1
  GroupOf <- MCGroupOf
  DEs <- MCDEs
INVARIANT SharesMatchCommits
