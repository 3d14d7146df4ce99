CONSTANTS
  Requests = {q1}
  MaxEvents = 2
  BatchSize = 2
  MaxCopies = 1
  MaxDead = 1
  MaxProjections = 2
SPECIFICATION Spec
CHECK_DEADLOCK FALSE
INVARIANTS
  Converges
