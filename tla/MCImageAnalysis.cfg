CONSTANTS
  Photos = {p1}
  Requests = {q1, q2}
  Keys = {k1}
  NoKey = NoKey
  Forced = Forced
  Workers = {w1, w2}
  MaxReceive = 2
  Limit = 2
  None = None
SPECIFICATION Spec
CHECK_DEADLOCK FALSE
SYMMETRY Symmetry
INVARIANTS
  PlainAnalysedOnce
  SpentOnce
  DeletedWasRun
PROPERTIES
  CommittedStays
