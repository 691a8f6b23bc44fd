SPECIFICATION GroguSpec
CONSTANTS
  Signals = {a}
  SubmitterKeys = {k1}
  Cooldown = 2
  TimeBuffer = 1
  Capacity = 1
  MaxSends = 1
  MaxTime = 6
  MaxLag = 0
SYMMETRY Symmetry
INVARIANT NotTooEarly
