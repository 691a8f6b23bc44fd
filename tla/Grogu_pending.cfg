SPECIFICATION GroguSpec
CONSTANTS
  Signals = {a, b}
  SubmitterKeys = {k1, k2}
  Cooldown = 1
  TimeBuffer = 0
  Capacity = 1
  MaxSends = 2
  MaxTime = 2
  MaxLag = 0
SYMMETRY Symmetry
INVARIANT PendingIsExact
