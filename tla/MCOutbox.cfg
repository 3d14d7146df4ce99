CONSTANTS
  Requests = {q1, q2}
  MaxEvents = 2
  BatchSize = 2
  MaxCopies = 1
  MaxDead = 1
  MaxProjections = 2
SPECIFICATION Spec
SYMMETRY RequestSymmetry
CHECK_DEADLOCK FALSE
INVARIANTS
  TypeOK
  DeliveredReached
PROPERTIES
  ImplementsEventLog
