CONSTANTS
  Suggestions = {angle, vin}
  Retakable = {angle}
  Identity = {vin}
  Values = {v1, v2}
  Extracted = {v1}
  Blank = {v2}
  Pages = {page}
  Phones = {phone}
  MaxChanges = 1
SPECIFICATION FairSpec
CHECK_DEADLOCK FALSE
INVARIANTS
  TypeOK
  VersionNamesContent
  VerifiedIsAccepted
PROPERTIES
  DecidedAsSeen
  ReviewsSettle
