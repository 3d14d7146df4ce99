CONSTANTS
  NumOperations = 1
  Syncs = {s1, s2}
  MaxAttempts = 5
SPECIFICATION FairSpec
CHECK_DEADLOCK FALSE
INVARIANTS
  TypeOK
  PhotoOnce
  UploadedIsStored
PROPERTIES
  UploadsSettle
