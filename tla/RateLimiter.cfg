SPECIFICATION Spec
CONSTANTS
  Queues = {q1}
  NoQueue = NoQueue
  Callers = {c1, c2}
  Unit = 2
  Rates <- MCRates
  MaxClock = 3
INVARIANTS TypeOK WindowBounded TokensCovered
