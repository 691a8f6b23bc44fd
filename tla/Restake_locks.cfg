SPECIFICATION RestakeSpec
CONSTANTS
  a = a
  b = b
  Stakers = {s, t}
  LiquidStakers = {t}
  StakingValidators = {v, w}
  Keys = {k1, k2}
  Denoms = {a, b}
  DenomChoices <- ShrinkingDenoms
  Amounts = {1}
  LockPowers = {0, 1, 2, 3}
  Wealth = 1
  MaxDelegated = 2
CHECK_DEADLOCK FALSE
INVARIANT PowerCoversLocks
