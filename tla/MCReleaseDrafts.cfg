CONSTANTS
  NumPhotos = 1
  NumRuns = 1
  Angles = {front, odometer}
  RequiredAngles = {front}
  NoAngle = NoAngle
  Findings = {"damage_candidate"}
  MaxDamage = 1
  Calls = {c1, c2}
  Keys = {}
  NoKey = NoKey
  NoCall = NoCall
  NoGrade = NoGrade
  GradingVersions = {"service", "fallback"}
  MaxVersion = 4
  Bedrock = TRUE
  AdminOverride = TRUE
SPECIFICATION Spec
SYMMETRY CallSymmetry
CHECK_DEADLOCK FALSE
INVARIANTS
  TypeOK
  CompletenessIsCurrent
  GradeRestsOnEvidence
  ReleasedIsReviewed
  HistoryNamesTexts
  ReleasedTextWasApproved
