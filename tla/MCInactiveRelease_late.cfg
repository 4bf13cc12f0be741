CONSTANTS
  a = a
  Capacity = 3
  MaxLag = 2
  MaxIdle = 7
  Id = {a}
  Delays = {2}
SPECIFICATION SafetyAll
INVARIANTS ReleasedUncalled
