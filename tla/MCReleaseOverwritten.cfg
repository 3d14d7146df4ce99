CONSTANTS
  NumPhotos = 1
  NumRuns = 1
  Angles = {front}
  RequiredAngles = {front}
  NoAngle = NoAngle
  Findings = {"quality_warning"}
  MaxDamage = 0
  Calls = {c1, c2}
  Keys = {}
  NoKey = NoKey
  NoCall = NoCall
  NoGrade = NoGrade
  GradingVersions = {"fallback"}
  MaxVersion = 4
  Bedrock = TRUE
  AdminOverride = FALSE
SPECIFICATION Spec
CHECK_DEADLOCK FALSE
PROPERTIES
  FinalizedReportImmutable
