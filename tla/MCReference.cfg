CONSTANTS
  NumPhotos = 2
  NumRuns = 1
  front = front
  rear = rear
  Angles = {front, rear}
  RequiredAngles = {front}
  NoAngle = NoAngle
  Findings = {"quality_warning", "extracted_text"}
  MaxDamage = 0
  Calls = {c1}
  Keys = {}
  NoKey = NoKey
  NoCall = NoCall
  NoGrade = NoGrade
  GradingVersions = {"fallback"}
  MaxVersion = 3
  Bedrock = FALSE
  AdminOverride = FALSE
  Seeded = {1}
  Manifest <- MCManifest
  LegacyClaims <- MCLegacy
SPECIFICATION SeededSpec
CHECK_DEADLOCK FALSE
INVARIANTS
  ReleasedRetakesReplaced
  CompletenessIsCurrent
PROPERTIES
  DecisionsOutliveReloads
