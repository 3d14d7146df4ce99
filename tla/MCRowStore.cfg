CONSTANTS
  Requests = {"accept1", "reject1", "analysis"}
  WorkerRequests = {"analysis"}
  Hosts = {"api1", "api2", "worker"}
  HostOf <- MCHostOf
  Rows <- MCRows
  Versioned <- MCVersioned
  LoadOrder <- MCLoadOrder
  Initial <- MCInitial
  Writes <- MCWrites
  Bumps <- MCBumps
  Excludes <- MCExcludes
  AuditRow <- MCAuditRow
  MaxAttempts = 2
  Shared = FALSE
  None = None
SPECIFICATION FairSpec
CHECK_DEADLOCK FALSE
INVARIANTS
  TypeOK
  VersionedUpdatesKept
  VersionsCountUpdates
  CoCommitted
PROPERTIES
  ExclusionsHold
  RowsSurvive
  RequestsEnd
