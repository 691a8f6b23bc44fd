SPECIFICATION CylinderSpec
CONSTANTS
  Groups = {1}
  Signings = {1}
  MaxVersion = 1
  GasPriceSet = FALSE
  MinDE = 1
  MaxDESize = 3
  SenderKeys = {k1}
  MaxMessages = 2
  SenderTries = 2
  MaxFaults = 1
  GroupOf <- MCGroupOf
  DEs <- MCDEs
INVARIANT NoncesAreNew
