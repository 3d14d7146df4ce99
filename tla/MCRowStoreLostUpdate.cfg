CONSTANTS
  Requests = {"accept1", "accept2"}
  WorkerRequests = {}
  Hosts = {"api1", "api2"}
  HostOf <- MCHostOf
  Rows <- MCRows
  Versioned <- MCVersioned
  LoadOrder <- MCLoadOrder
  Initial <- MCInitial
  Writes <- MCWrites
  Bumps <- MCBumps
  Excludes <- MCExcludes
  AuditRow <- MCAuditRow
  MaxAttempts = 3
  Shared = FALSE
  None = None
SPECIFICATION Spec
CHECK_DEADLOCK FALSE
INVARIANTS
  UpdatesKept
