SPECIFICATION GroguSpec
CONSTANTS
  Signals = {a}
  SubmitterKeys = {k1}
  Cooldown = 1
  TimeBuffer = 0
  Capacity = 1
  MaxSends = 1
  MaxTime = 3
  MaxLag = 1
PROPERTY HeightNeverFalls
