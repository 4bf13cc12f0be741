CONSTANTS
  a = a  b = b
  Id <- MCId
  Capacity = 3
  Delays <- AllDelays
  MaxLag = 2
SPECIFICATION Spec
INVARIANTS TimersAlive IInv HandOnTime
PROPERTIES ImplementsDeadlines DeadlinesReached
