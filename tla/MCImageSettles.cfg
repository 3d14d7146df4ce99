CONSTANTS
  Photos = {p1, p2}
  Requests = {q1}
  Keys = {}
  NoKey = NoKey
  Forced = Forced
  Workers = {w1, w2}
  MaxReceive = 3
  Limit = 1
  None = None
SPECIFICATION FairSpec
CHECK_DEADLOCK FALSE
INVARIANTS
  TypeOK
  CompletedHasAnalysis
PROPERTIES
  MessagesSettle
