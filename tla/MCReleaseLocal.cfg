CONSTANTS
  NumPhotos = 1
  NumRuns = 2
  Angles = {front}
  RequiredAngles = {front}
  NoAngle = NoAngle
  Findings = {}
  MaxDamage = 1
  Calls = {c1, c2}
  Keys = {k1}
  NoKey = NoKey
  NoCall = NoCall
  NoGrade = NoGrade
  GradingVersions = {"fallback"}
  MaxVersion = 4
  Bedrock = FALSE
  AdminOverride = FALSE
SPECIFICATION FairSpec
CHECK_DEADLOCK FALSE
INVARIANTS
  OneDraftAtATime
PROPERTIES
  FinalizedReportImmutable
  FinalizedFactsImmutable
  DraftSettles
