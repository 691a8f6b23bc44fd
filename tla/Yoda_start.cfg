SPECIFICATION Spec
CONSTANTS
  Txs <- OneTransaction
  Mine = {1, 2, 3}
  NumKeys = 1
  MaxReport = 1
  MaxTry = 2
  MaxCrashes = 1
CHECK_DEADLOCK FALSE
INVARIANT StartFindsOpen
