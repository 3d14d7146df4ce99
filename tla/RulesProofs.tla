---------------------------- MODULE RulesProofs -----------------------------
(***************************************************************************)
(* Theorems about the functions of the system: the grade, the repair       *)
(* estimates, image analysis, authorization, the statements of a save, and *)
(* what the web page derives from what the server stores.                  *)
(***************************************************************************)
EXTENDS Vision, Workspace, Tables, WellFoundedInduction, TLAPS

-----------------------------------------------------------------------------
(* The grade.                                                              *)

\* The penalty of an evidence gap is rounded to at most 24 points; Python rounds a half to the
\* even neighbour and JavaScript up, but no percentage of 24 is a half.
LEMMA RoundsAgree ==
  ASSUME NEW percent \in Percent
  PROVE  /\ pyRound((100 - percent) * 24) = jsRound((100 - percent) * 24)
         /\ jsRound((100 - percent) * 24) \in 0 .. 24
         /\ jsRound((100 - percent) * 24) <= 10 => percent > 50
<1> DEFINE n == (100 - percent) * 24
<1>1. n \in 0 .. 2400 /\ n % 100 # 50 BY DEF Percent
<1>2. jsRound(n) = IF n % 100 < 50 THEN n \div 100 ELSE (n \div 100) + 1 BY <1>1 DEF jsRound
<1>3. pyRound(n) = jsRound(n) BY <1>1, <1>2 DEF pyRound
<1>4. jsRound(n) \in 0 .. 24 BY <1>1 DEF jsRound
<1>5. jsRound(n) <= 10 => percent > 50 BY <1>1 DEF jsRound, Percent
<1> QED BY <1>3, <1>4, <1>5

\* The other adjustments.
LEMMA Adjustments ==
  /\ \A mileage \in Nat : mileage_adjustment(mileage) \in 0 .. 10
  /\ \A age \in Int : ageAdjustment(age) \in 0 .. 8
  /\ \A damage \in DamageList :
       /\ Deductions(damage) \in Nat
       /\ Deductions(damage) <= 10 => damage["severe"] = 0 /\ damage["moderate"] <= 1
  /\ \A damage, worse \in DamageList :
       (\A s \in Severity : damage[s] <= worse[s]) => Deductions(damage) <= Deductions(worse)
<1>1. \A mileage \in Nat : mileage_adjustment(mileage) \in 0 .. 10 BY DEF mileage_adjustment
<1>2. \A age \in Int : ageAdjustment(age) \in 0 .. 8 BY DEF ageAdjustment, Clamp
<1>3. ASSUME NEW damage \in DamageList
      PROVE  /\ Deductions(damage) \in Nat
             /\ Deductions(damage) <= 10 => damage["severe"] = 0 /\ damage["moderate"] <= 1
  BY DEF DamageList, Severity, Deductions, severityPoints
<1>4. ASSUME NEW damage \in DamageList, NEW worse \in DamageList,
             \A s \in Severity : damage[s] <= worse[s]
      PROVE  Deductions(damage) <= Deductions(worse)
  BY <1>4 DEF DamageList, Severity, Deductions, severityPoints
<1> QED BY <1>1, <1>2, <1>3, <1>4

\* A score is between 0 and 100, and falls with the points deducted.
LEMMA ScoreBounds ==
  ASSUME NEW n \in Int, NEW m \in Int, n <= m
  PROVE  Clamp(0, n, 100) \in 0 .. 100 /\ Clamp(0, n, 100) <= Clamp(0, m, 100)
BY DEF Clamp

\* GradeResponse and GradingOutputSchema demand a score between 0 and 100; neither the service
\* nor the fallback can fail on its own result, however much damage there is.
THEOREM ScoreInRange ==
  ASSUME NEW damage \in DamageList, NEW percent \in Percent, NEW mileage \in Nat, NEW age \in Int,
         NEW answers \in BOOLEAN
  PROVE  gradeCondition(answers, damage, percent, mileage, age).score \in 0 .. 100
<1>1. pyRound((100 - percent) * 24) \in 0 .. 24 /\ jsRound((100 - percent) * 24) \in 0 .. 24
  BY RoundsAgree
<1>2. ASSUME NEW penalty \in 0 .. 24
      PROVE  Score(damage, penalty, mileage, age) \in 0 .. 100
  <2>1. /\ Deductions(damage) \in Nat /\ mileage_adjustment(mileage) \in 0 .. 10
        /\ ageAdjustment(age) \in 0 .. 8
    BY Adjustments
  <2>2. 100 - (Deductions(damage) + penalty + mileage_adjustment(mileage) + ageAdjustment(age)) \in Int
    BY <2>1
  <2> QED BY <2>2, ScoreBounds DEF Score
<1> QED BY <1>1, <1>2 DEF gradeCondition, grade_condition, localGrade

\* An inspection gets the same score and letter from the service and from the fallback: the
\* grade does not depend on which of the two answered.
THEOREM FallbackAgrees ==
  ASSUME NEW damage \in DamageList, NEW percent \in Percent, NEW mileage \in Nat, NEW age \in Int
  PROVE  /\ gradeCondition(TRUE, damage, percent, mileage, age).score
              = gradeCondition(FALSE, damage, percent, mileage, age).score
         /\ gradeCondition(TRUE, damage, percent, mileage, age).grade
              = gradeCondition(FALSE, damage, percent, mileage, age).grade
BY RoundsAgree DEF gradeCondition, grade_condition, localGrade

\* More damage never gives a better score, nor do fewer confirmed angles.
THEOREM ScoreMonotone ==
  ASSUME NEW damage \in DamageList, NEW worse \in DamageList,
         \A s \in Severity : damage[s] <= worse[s],
         NEW percent \in Percent, NEW less \in Percent, less <= percent,
         NEW mileage \in Nat, NEW age \in Int
  PROVE  localGrade(worse, less, mileage, age) <= localGrade(damage, percent, mileage, age)
<1>1. jsRound((100 - percent) * 24) <= jsRound((100 - less) * 24) BY DEF jsRound, Percent
<1>2. Deductions(damage) <= Deductions(worse) BY Adjustments
<1>3. /\ Deductions(damage) \in Nat /\ Deductions(worse) \in Nat
      /\ mileage_adjustment(mileage) \in 0 .. 10 /\ ageAdjustment(age) \in 0 .. 8
      /\ jsRound((100 - percent) * 24) \in 0 .. 24 /\ jsRound((100 - less) * 24) \in 0 .. 24
  BY Adjustments, RoundsAgree
<1> DEFINE rest(d, p) == 100 - (Deductions(d) + p + mileage_adjustment(mileage) + ageAdjustment(age))
           low == rest(worse, jsRound((100 - less) * 24))
           high == rest(damage, jsRound((100 - percent) * 24))
<1>4. low \in Int /\ high \in Int /\ low <= high BY <1>1, <1>2, <1>3
<1>5. Clamp(0, low, 100) <= Clamp(0, high, 100) BY <1>4, ScoreBounds
<1> QED BY <1>5 DEF localGrade, Score

\* Severe damage, a second moderate item or half of the evidence missing keep a vehicle from
\* grade A, whatever its age and mileage.
THEOREM GradeAIsClean ==
  ASSUME NEW damage \in DamageList, NEW percent \in Percent, NEW mileage \in Nat, NEW age \in Int,
         NEW answers \in BOOLEAN,
         gradeCondition(answers, damage, percent, mileage, age).grade = "A"
  PROVE  damage["severe"] = 0 /\ damage["moderate"] <= 1 /\ percent > 50
<1> DEFINE penalty == jsRound((100 - percent) * 24)
<1>1. gradeCondition(answers, damage, percent, mileage, age).grade
        = letter_grade(Score(damage, penalty, mileage, age))
  BY RoundsAgree DEF gradeCondition, grade_condition, localGrade
<1>2. Score(damage, penalty, mileage, age) >= 90 BY <1>1 DEF letter_grade
<1>3. Deductions(damage) \in Nat /\ penalty \in 0 .. 24 /\ mileage_adjustment(mileage) \in 0 .. 10
      /\ ageAdjustment(age) \in 0 .. 8
  BY Adjustments, RoundsAgree
<1>4. Deductions(damage) <= 10 /\ penalty <= 10 BY <1>2, <1>3 DEF Score, Clamp
<1> QED BY <1>4, Adjustments, RoundsAgree

-----------------------------------------------------------------------------
(* Repair estimates.                                                       *)

\* A damage type's ranges are proper and follow each other.
Ordered(range) ==
  /\ range \in [Severity -> [min : Nat, max : Nat]]
  /\ 0 < range["minor"].min /\ range["minor"].min < range["minor"].max
  /\ range["minor"].max <= range["moderate"].min
  /\ range["moderate"].min < range["moderate"].max
  /\ range["moderate"].max <= range["severe"].min
  /\ range["severe"].min < range["severe"].max
  /\ range["unknown"] = EstimatorReview

LEMMA RangesOrdered ==
  ASSUME NEW a \in Nat, NEW b \in Nat, NEW c \in Nat, NEW d \in Nat, NEW e \in Nat, NEW f \in Nat,
         0 < a, a < b, b <= c, c < d, d <= e, e < f
  PROVE  Ordered(Ranges(a, b, c, d, e, f))
BY DEF Ordered, Ranges, Severity, EstimatorReview

\* A graver severity is never estimated below a lighter one.
THEOREM BandsOrdered == \A type \in DamageType : Ordered(repairEstimateRangesUsd[type])
<1> DEFINE R == repairEstimateRangesUsd
<1>1. Ordered(R["scratch"]) /\ Ordered(R["dent"])
  BY RangesOrdered DEF repairEstimateRangesUsd
<1>2. Ordered(R["crack"]) /\ Ordered(R["paint_damage"])
  BY RangesOrdered DEF repairEstimateRangesUsd
<1>3. Ordered(R["glass_damage"]) /\ Ordered(R["wheel_damage"])
  BY RangesOrdered DEF repairEstimateRangesUsd
<1>4. Ordered(R["interior_wear"]) /\ Ordered(R["unknown"])
  BY RangesOrdered DEF repairEstimateRangesUsd
<1> QED BY <1>1, <1>2, <1>3, <1>4 DEF DamageType

\* Whatever words a damage item uses, its estimate is a range, and it is left to an estimator
\* exactly when the severity is not one of the three known ones.
THEOREM EstimateIsRange ==
  ASSUME NEW type, NEW severity
  PROVE  LET estimate == estimateDamageRepairCost(type, severity) IN
         /\ estimate \in [min : Nat, max : Nat] /\ estimate.min <= estimate.max
         /\ estimate = EstimatorReview <=> severity \notin Severity \ {"unknown"}
<1> DEFINE t == normalizeDamageType(type)  s == normalizeDamageSeverity(severity)
           range == repairEstimateRangesUsd[t]
<1>1. t \in DamageType BY DEF normalizeDamageType, DamageType
<1>2. s \in Severity /\ (s = "unknown" <=> severity \notin Severity \ {"unknown"})
  BY DEF normalizeDamageSeverity, Severity
<1>3. estimateDamageRepairCost(type, severity) = range[s] BY DEF estimateDamageRepairCost
<1> HIDE DEF t, s, range
<1>4. CASE s = "unknown" BY <1>1, <1>2, <1>3, <1>4, BandsOrdered DEF range, Ordered, EstimatorReview
<1>5. CASE s # "unknown"
  <2>1. s \in {"minor", "moderate", "severe"} BY <1>2, <1>5 DEF Severity
  <2>2. range[s] \in [min : Nat, max : Nat] /\ 0 < range[s].max /\ range[s].min <= range[s].max
    BY <1>1, <1>2, <2>1, BandsOrdered DEF range, Ordered, Severity
  <2> QED BY <1>2, <1>3, <1>5, <2>2 DEF EstimatorReview
<1> QED BY <1>4, <1>5

\* The total of any damage list is a range, and stays zero only while every item is left to
\* the estimator, which is what the total is then called.
THEOREM TotalIsRange ==
  ASSUME NEW total \in [min : Nat, max : Nat], total.min <= total.max, NEW type, NEW severity
  PROVE  LET next == AddEstimate(total, type, severity) IN
         /\ next \in [min : Nat, max : Nat] /\ next.min <= next.max
         /\ next = EstimatorReview <=> /\ total = EstimatorReview
                                       /\ estimateDamageRepairCost(type, severity) = EstimatorReview
<1> DEFINE estimate == estimateDamageRepairCost(type, severity)
<1>1. estimate \in [min : Nat, max : Nat] /\ estimate.min <= estimate.max BY EstimateIsRange
<1> HIDE DEF estimate
<1>2. AddEstimate(total, type, severity)
        = [min |-> total.min + estimate.min, max |-> total.max + estimate.max]
  BY DEF AddEstimate, estimate
<1>3. \A r \in [min : Nat, max : Nat] : r.min <= r.max => (r = EstimatorReview <=> r.max = 0)
  BY DEF EstimatorReview
<1>4. PICK a \in Nat, b \in Nat : total = [min |-> a, max |-> b] /\ a <= b OBVIOUS
<1>5. PICK c \in Nat, d \in Nat : estimate = [min |-> c, max |-> d] /\ c <= d BY <1>1
<1>6. AddEstimate(total, type, severity) = [min |-> a + c, max |-> b + d] BY <1>2, <1>4, <1>5
<1> QED BY <1>3, <1>4, <1>5, <1>6 DEF estimate
-----------------------------------------------------------------------------
(* What is kept of an image analysis.                                      *)

Declared == PhotoAngle \cup {NullAngle}

\* slice(0, 1) of a list sorted by falling confidence takes a candidate none exceeds.
LEMMA MostConfidentIsOne ==
  ASSUME NEW S \in SUBSET Candidate, S # {}
  PROVE  \E c \in S : MostConfident(S) = {c} /\ \A d \in S : d.confidence <= c.confidence
<1> DEFINE gaps == { 100 - c.confidence : c \in S }
           below == OpToRel(<, Nat)
<1>1. gaps \subseteq Nat /\ gaps # {} BY DEF Candidate, Percent
<1>2. \A x, y \in Nat : x < y => <<x, y>> \in below BY ZenonT(30) DEF OpToRel
<1>3. IsWellFoundedOn(below, Nat) BY NatLessThanWellFounded
<1> HIDE DEF below, gaps
<1>4. PICK low \in gaps : \A g \in gaps : ~ (<<g, low>> \in below) BY <1>1, <1>3, WFMin
<1>5. ASSUME NEW g \in gaps PROVE low <= g
  <2>1. g \in Nat /\ low \in Nat BY <1>1
  <2>2. ~ (g < low) BY <1>2, <1>4, <2>1
  <2> QED BY <2>1, <2>2
<1>6. PICK c \in S : low = 100 - c.confidence BY DEF gaps
<1>7. ASSUME NEW d \in S PROVE d.confidence <= c.confidence
  <2>1. low <= 100 - d.confidence BY <1>5 DEF gaps
  <2>2. d.confidence \in 0 .. 100 /\ c.confidence \in 0 .. 100 BY DEF Candidate, Percent
  <2> QED BY <1>6, <2>1, <2>2
<1> QED BY <1>7 DEF MostConfident

LEMMA FirstIsOne ==
  ASSUME NEW S
  PROVE  First(S) \subseteq S /\ (\E x : First(S) \subseteq {x}) /\ (S # {} => First(S) # {})
         /\ First(First(S)) = First(S)
BY DEF First

LEMMA OutputType ==
  ASSUME NEW output \in Output, NEW declared, IllegibleWarning \in Warnings
  PROVE  /\ normalizeVisionOutput(output, declared) \in Output
         /\ keptWarnings(output, declared) \in SUBSET Warnings
         /\ credibleDamage(output, declared) \in SUBSET { c \in output.damage : Credible(c) }
<1>1. keptWarnings(output, declared) \in SUBSET Warnings
  BY FirstIsOne DEF keptWarnings, Output
<1>2. credibleDamage(output, declared) \in SUBSET { c \in output.damage : Credible(c) }
  <2> DEFINE S == { c \in output.damage : Credible(c) }
  <2>1. S \in SUBSET Candidate BY DEF Output
  <2>2. S # {} => MostConfident(S) \subseteq S BY <2>1, MostConfidentIsOne
  <2>3. S = {} => MostConfident(S) = {} BY DEF MostConfident
  <2> QED BY <2>2, <2>3 DEF credibleDamage
<1>3. credibleDamage(output, declared) \in SUBSET Candidate BY <1>2 DEF Output
<1>4. \A t \in {"legible", "garbled", "missing"} : Kept(t) \in {"legible", "garbled", "missing"}
  BY DEF Kept
<1> QED BY <1>1, <1>2, <1>3, <1>4 DEF Output, normalizeVisionOutput

LEMMA NormalizedFields ==
  ASSUME NEW output \in Output, NEW declared
  PROVE  LET kept == normalizeVisionOutput(output, declared) IN
         /\ kept.angle = output.angle
         /\ kept.grade = IF Illegible(output, declared) THEN "retake" ELSE output.grade
         /\ kept.retakeRequired = (output.retakeRequired \/ Illegible(output, declared))
         /\ kept.warnings = keptWarnings(output, declared)
         /\ kept.damage = credibleDamage(output, declared)
         /\ kept.odometer = Kept(output.odometer) /\ kept.vin = Kept(output.vin)
         /\ kept.humanReviewRequired = \/ output.humanReviewRequired
                                       \/ keptWarnings(output, declared) # {}
                                       \/ credibleDamage(output, declared) # {}
BY DEF normalizeVisionOutput, Output

\* A photo costs a reviewer a bounded number of decisions, whatever the model wrote: at most one
\* warning and one damage candidate are kept of an analysis.
THEOREM ReviewIsBounded ==
  ASSUME NEW output \in Output, NEW declared \in Declared, IllegibleWarning \in Warnings
  PROVE  LET kept == normalizeVisionOutput(output, declared) IN
         /\ \E w : kept.warnings \subseteq {w}
         /\ \E c : kept.damage \subseteq {c}
<1>1. \E w : keptWarnings(output, declared) \subseteq {w} BY FirstIsOne DEF keptWarnings
<1>2. \E c : credibleDamage(output, declared) \subseteq {c}
  <2> DEFINE S == { c \in output.damage : Credible(c) }
  <2>1. S \in SUBSET Candidate BY DEF Output
  <2>2. \E c : MostConfident(S) \subseteq {c} BY <2>1, MostConfidentIsOne DEF MostConfident
  <2> QED BY <2>2 DEF credibleDamage
<1>3. normalizeVisionOutput(output, declared).warnings = keptWarnings(output, declared)
  BY NormalizedFields
<1>4. normalizeVisionOutput(output, declared).damage = credibleDamage(output, declared)
  BY NormalizedFields
<1> QED BY <1>1, <1>2, <1>3, <1>4

\* What a model claims to see on a photo of the odometer or the VIN plate never becomes a
\* damage candidate, neither when the photo was declared as one nor when it turns out to be one.
THEOREM IdentityPhotosHaveNoDamage ==
  ASSUME NEW output \in Output, NEW declared \in Declared,
         declared \in IdentitySlots \/ output.angle \in IdentitySlots
  PROVE  LET kept == normalizeVisionOutput(output, declared) IN
         kept.damage = {} /\ "damage_candidate" \notin SuggestionKinds(kept)
<1>1. credibleDamage(output, declared) = {} BY DEF credibleDamage
<1> QED BY <1>1, NormalizedFields DEF SuggestionKinds

\* A kept candidate has a price: it is never one the estimator would have to be asked about.
THEOREM KeptDamageIsPriced ==
  ASSUME NEW output \in Output, NEW declared \in Declared, IllegibleWarning \in Warnings,
         NEW c \in normalizeVisionOutput(output, declared).damage
  PROVE  c.confidence >= MinConfidence
         /\ estimateDamageRepairCost(c.type, c.severity) # EstimatorReview
<1>1. c \in credibleDamage(output, declared) BY NormalizedFields
<1>2. c \in output.damage /\ Credible(c) BY <1>1, OutputType
<1>3. c \in Candidate BY <1>2 DEF Output
<1>4. c.severity \in Severity \ {"unknown"} BY <1>2, <1>3 DEF Candidate, Credible
<1> QED BY <1>2, <1>4, EstimateIsRange DEF Credible

\* A photo declared to show the odometer or the VIN plate either yields the text it was taken
\* for or asks for a retake with a warning, and fails: no analysis lets it pass unread.
THEOREM IdentityIsReadOrRetaken ==
  ASSUME NEW output \in Output, NEW declared \in IdentitySlots
  PROVE  LET kept == normalizeVisionOutput(output, declared) IN
         \/ IF declared = "odometer" THEN kept.odometer = "legible" ELSE kept.vin = "legible"
         \/ /\ qualityStatus(kept) = "fail" /\ kept.humanReviewRequired
            /\ "quality_warning" \in SuggestionKinds(kept)
<1> DEFINE kept == normalizeVisionOutput(output, declared)
<1>1. CASE Illegible(output, declared)
  <2>1. kept.grade = "retake" /\ kept.warnings = {IllegibleWarning} /\ kept.humanReviewRequired
    BY <1>1, NormalizedFields DEF keptWarnings
  <2> QED BY <2>1 DEF qualityStatus, RetakeAsked, SuggestionKinds
<1>2. CASE ~ Illegible(output, declared)
  <2>1. IF declared = "odometer" THEN output.odometer = "legible" ELSE output.vin = "legible"
    BY <1>2 DEF Illegible, IdentitySlots
  <2> QED BY <2>1, NormalizedFields DEF Kept
<1> QED BY <1>1, <1>2

\* A kept warning always fails the photo: the status a reviewer sees and the readiness check
\* reads is never better than the suggestions raised beside it.
THEOREM WarnedIsFailed ==
  ASSUME NEW output \in Output, NEW declared \in Declared
  PROVE  LET kept == normalizeVisionOutput(output, declared) IN
         "quality_warning" \in SuggestionKinds(kept) => qualityStatus(kept) = "fail"
<1> DEFINE kept == normalizeVisionOutput(output, declared)
<1>1. ASSUME keptWarnings(output, declared) # {}
      PROVE  Illegible(output, declared) \/ RetakeAsked(output)
  BY <1>1 DEF keptWarnings
<1>2. Illegible(output, declared) \/ RetakeAsked(output) => RetakeAsked(kept)
  BY NormalizedFields DEF RetakeAsked
<1> QED BY <1>1, <1>2, NormalizedFields DEF SuggestionKinds, qualityStatus

\* The converse fails: a model may ask for a retake and give no reason, and then the photo fails
\* with no warning for a reviewer to confirm; of the two, readinessIssues looks at the warnings.
THEOREM SilentRetake ==
  LET output == [cleanOutput("front") EXCEPT !.grade = "retake", !.retakeRequired = TRUE]
      kept   == normalizeVisionOutput(output, "front") IN
  /\ output \in Output
  /\ qualityStatus(kept) = "fail" /\ SuggestionKinds(kept) = {"photo_angle"}
<1> DEFINE output == [cleanOutput("front") EXCEPT !.grade = "retake", !.retakeRequired = TRUE]
           kept == normalizeVisionOutput(output, "front")
<1>1. /\ output.grade = "retake" /\ output.warnings = {} /\ output.damage = {}
      /\ output.odometer = "missing" /\ output.vin = "missing"
  BY DEF cleanOutput
<1>2. output \in Output BY DEF cleanOutput, Output, PhotoAngle
<1> HIDE DEF output
<1>3. ~ Illegible(output, "front") BY DEF Illegible
<1>4. keptWarnings(output, "front") = {} BY <1>1, <1>3 DEF keptWarnings, First
<1>5. credibleDamage(output, "front") = {}
  BY <1>1 DEF credibleDamage, MostConfident
<1>6. /\ kept.grade = "retake" /\ kept.warnings = {} /\ kept.damage = {}
      /\ kept.odometer = "missing" /\ kept.vin = "missing"
  BY <1>1, <1>2, <1>3, <1>4, <1>5, NormalizedFields DEF Kept
<1>7. qualityStatus(kept) = "fail" BY <1>6 DEF qualityStatus, RetakeAsked
<1>8. SuggestionKinds(kept) = {"photo_angle"} BY <1>6 DEF SuggestionKinds
<1> QED BY <1>2, <1>7, <1>8 DEF output

LEMMA LocalOutputType ==
  ASSUME NEW word, NEW declared \in Declared, NEW warning \in Warnings, NEW place \in Places
  PROVE  LET output == localOutput(word, declared, warning, place) IN
         output \in Output /\ (RetakeAsked(output) <=> output.warnings # {})
<1> DEFINE Reasoned(output) == output \in Output /\ (RetakeAsked(output) <=> output.warnings # {})
<1>1. \A angle \in PhotoAngle : Reasoned(cleanOutput(angle))
  BY DEF cleanOutput, Output, RetakeAsked
<1>2. \A angle \in PhotoAngle, grade \in {"review", "retake"} : Reasoned(PoorOutput(angle, grade, warning))
  BY DEF PoorOutput, cleanOutput, Output, RetakeAsked
<1>3. ASSUME NEW angle \in PhotoAngle, NEW candidate \in Candidate, NEW review \in BOOLEAN
      PROVE  Reasoned(DamageOutput(angle, candidate, review))
  <2>1. {candidate} \in SUBSET Candidate OBVIOUS
  <2>2. DamageOutput(angle, candidate, review) \in Output
    BY <2>1 DEF DamageOutput, cleanOutput, Output
  <2>3. LET output == DamageOutput(angle, candidate, review) IN
        output.warnings = {} /\ output.grade = "review" /\ output.retakeRequired = FALSE
    BY DEF DamageOutput, cleanOutput
  <2> QED BY <2>2, <2>3 DEF RetakeAsked
<1>4. /\ Reasoned([cleanOutput("interior") EXCEPT !.grade = "review"])
      /\ Reasoned([cleanOutput("odometer") EXCEPT !.odometer = "legible"])
      /\ Reasoned([cleanOutput("vin_plate") EXCEPT !.vin = "legible"])
  BY DEF cleanOutput, Output, PhotoAngle, RetakeAsked
<1>5. \A type \in DamageType, severity \in Severity, confidence \in Percent :
        [place |-> place, type |-> type, severity |-> severity, confidence |-> confidence] \in Candidate
  BY DEF Candidate
<1>6. /\ {"dent", "interior_wear"} \subseteq DamageType /\ {"moderate", "severe"} \subseteq Severity
      /\ {90, 91, 96} \subseteq Percent
  BY DEF DamageType, Severity, Percent
<1>7. Slot(declared) \in PhotoAngle /\ (Slot(declared) # "unknown" => declared \in PhotoAngle)
  BY DEF Slot, Declared, PhotoAngle, NullAngle
<1>8. {"front", "rear", "passenger_side", "interior", "engine_bay", "odometer", "vin_plate",
       "unknown"} \subseteq PhotoAngle
  BY DEF PhotoAngle
<1> HIDE DEF Reasoned
<1>9. Reasoned(localOutput(word, declared, warning, place))
  BY <1>1, <1>2, <1>3, <1>4, <1>5, <1>6, <1>7, <1>8 DEF localOutput
<1> QED BY <1>9 DEF Reasoned

\* The local provider does give a reason: its photos fail exactly when they raise a warning.
THEOREM LocalRetakesAreReasoned ==
  ASSUME NEW name, NEW declared \in Declared, NEW warning \in Warnings, NEW place \in Places
  PROVE  LET kept == localVisionProvider(name, declared, warning, place) IN
         qualityStatus(kept) = "fail" <=> "quality_warning" \in SuggestionKinds(kept)
<1> DEFINE output == localOutput(FirstWord(name), declared, warning, place)
           kept == normalizeVisionOutput(output, declared)
<1>1. output \in Output /\ (RetakeAsked(output) <=> output.warnings # {}) BY LocalOutputType
<1> HIDE DEF output
<1>2. RetakeAsked(kept) <=> Illegible(output, declared) \/ RetakeAsked(output)
  BY <1>1, NormalizedFields DEF RetakeAsked
<1>3. kept.warnings = keptWarnings(output, declared) BY <1>1, NormalizedFields
<1>4. output.warnings # {} => First(output.warnings) # {} BY FirstIsOne
<1>5. kept.warnings # {} <=> Illegible(output, declared) \/ RetakeAsked(output)
  BY <1>1, <1>3, <1>4 DEF keptWarnings
<1> QED BY <1>2, <1>5 DEF localVisionProvider, qualityStatus, SuggestionKinds, output

\* An answer that is kept has passed the schema: a photo's analysis is a normalized output of
\* the model or the local table's, and a photo whose bytes cannot be had is not analysed at all.
THEOREM AnalysedIsValid ==
  ASSUME NEW photo, NEW answer, NEW failOnInvalid \in BOOLEAN, NEW declared \in Declared,
         NEW name, NEW warning \in Warnings, NEW place \in Places, IllegibleWarning \in Warnings,
         bedrockVisionProvider(photo, answer, failOnInvalid, declared,
           localVisionProvider(name, declared, warning, place)).outcome = "analysed"
  PROVE  LET result == bedrockVisionProvider(photo, answer, failOnInvalid, declared,
                         localVisionProvider(name, declared, warning, place)) IN
         /\ loadImageInput(photo) # "error"
         /\ result.output \in Output
         /\ result.fallbackUsed <=> answer \notin Output
<1> DEFINE fallback == localVisionProvider(name, declared, warning, place)
<1>1. fallback \in Output BY LocalOutputType, OutputType DEF localVisionProvider
<1>2. answer \in Output => normalizeVisionOutput(answer, declared) \in Output BY OutputType
<1> HIDE DEF fallback
<1>3. bedrockVisionProvider(photo, answer, failOnInvalid, declared, fallback).outcome = "analysed"
      => LET result == bedrockVisionProvider(photo, answer, failOnInvalid, declared, fallback) IN
         /\ loadImageInput(photo) # "error"
         /\ result.output \in Output
         /\ result.fallbackUsed <=> answer \notin Output
  BY <1>1, <1>2 DEF bedrockVisionProvider
<1> QED BY <1>3 DEF fallback
-----------------------------------------------------------------------------
(* Who may do what.                                                        *)

LEMMA LeastIsChosen ==
  ASSUME NEW S \in SUBSET Nat, NEW p \in S, \A i \in S : p <= i
  PROVE  (CHOOSE i \in S : \A j \in S : i <= j) = p
<1> DEFINE least == CHOOSE i \in S : \A j \in S : i <= j
<1>1. least \in S /\ \A j \in S : least <= j OBVIOUS
<1> HIDE DEF least
<1>2. least \in Nat /\ p \in Nat /\ least <= p /\ p <= least BY <1>1
<1>3. least = p BY <1>2
<1> QED BY <1>3 DEF least

\* A token that names the role in a claim of its own gives its user the same role at the API, on
\* the web page and on the phone: no client offers what the API would refuse, nor hides what it
\* would grant.
THEOREM DirectClaimAgrees ==
  ASSUME NEW claims \in Claims, NEW env, NEW defaultAuthRole, DirectRole(claims) # NoRole
  PROVE  /\ webRole(claims, defaultAuthRole) = roleFromPayload(claims, env)
         /\ mobileRole(claims) = roleFromPayload(claims, env)
BY DEF webRole, mobileRole, roleFromPayload, NamedRole, OrElse

\* If the role comes from group claims, the phone, which reads the first group claim only, still
\* never shows more than the API grants: it agrees or falls back to inspector.
THEOREM PhoneIsNoStronger ==
  ASSUME NEW claims \in Claims, NEW env, NEW defaultAuthRole, NamedRole(claims) # NoRole
  PROVE  /\ webRole(claims, defaultAuthRole) = roleFromPayload(claims, env)
         /\ mobileRole(claims) \in {roleFromPayload(claims, env), "inspector"}
<1> DEFINE group(i) == FirstRole(claims.groups[i].roles)
           present == { i \in 1 .. 3 : claims.groups[i].present }
           named == { i \in 1 .. 3 : group(i) # NoRole }
           first == CHOOSE i \in present : \A j \in present : i <= j
<1>1. roleFromPayload(claims, env) = NamedRole(claims) /\ webRole(claims, defaultAuthRole) = NamedRole(claims)
  BY DEF roleFromPayload, webRole, NamedRole, OrElse
<1>2. CASE DirectRole(claims) # NoRole BY <1>1, <1>2, DirectClaimAgrees
<1>3. CASE DirectRole(claims) = NoRole /\ (present = {} \/ group(first) = NoRole)
  <2>1. mobileRole(claims) = "inspector" BY <1>3, ZenonT(30) DEF mobileRole, OrElse
  <2> QED BY <1>1, <2>1
<1>4. CASE DirectRole(claims) = NoRole /\ present # {} /\ group(first) # NoRole
  <2>1. \A i \in 1 .. 3 : claims.groups[i].present \/ claims.groups[i].roles = << >>
    BY DEF Claims, Group
  <2>2. FirstRole(<< >>) = NoRole BY DEF FirstRole
  <2>3. named \subseteq present BY <2>1, <2>2
  <2>4. present \in SUBSET (1 .. 3) OBVIOUS
  <2> HIDE DEF present, group
  <2>5. first \in present /\ \A j \in present : first <= j
    <3>1. \E i \in present : \A j \in present : i <= j
      <4>1. CASE 1 \in present BY <2>4, <4>1
      <4>2. CASE 1 \notin present /\ 2 \in present BY <2>4, <4>2
      <4>3. CASE 1 \notin present /\ 2 \notin present /\ 3 \in present
        <5>1. \A j \in present : j = 3 BY <2>4, <4>3
        <5> QED BY <4>3, <5>1
      <4>4. PICK k \in present : TRUE BY <1>4
      <4>5. k \in 1 .. 3 BY <2>4
      <4>6. k = 1 \/ k = 2 \/ k = 3 BY <4>5
      <4> QED BY <4>1, <4>2, <4>3, <4>6
    <3> QED BY <3>1
  <2>6. first \in named /\ \A j \in named : first <= j BY <1>4, <2>3, <2>4, <2>5
  <2> DEFINE roles == [i \in 1 .. 3 |-> group(i)]
  <2>7. named = { i \in DOMAIN roles : roles[i] # NoRole } OBVIOUS
  <2>8. FirstRole(roles) = roles[CHOOSE i \in named : \A j \in named : i <= j]
    BY <2>6, <2>7 DEF FirstRole
  <2> HIDE DEF first, named
  <2>9. named \in SUBSET Nat BY DEF named
  <2>10. (CHOOSE i \in named : \A j \in named : i <= j) = first BY <2>6, <2>9, LeastIsChosen
  <2>11. first \in 1 .. 3 BY <2>4, <2>5
  <2>12. FirstRole(roles) = group(first) BY <2>8, <2>10, <2>11
  <2>13. GroupRole(claims) = group(first) BY <2>12 DEF GroupRole, group
  <2>14. mobileRole(claims) = group(first)
    BY <1>4 DEF mobileRole, OrElse, group, present, first
  <2>15. NamedRole(claims) = group(first) BY <1>4, <2>13 DEF NamedRole, OrElse
  <2> QED BY <1>1, <2>14, <2>15
<1> QED BY <1>2, <1>3, <1>4

\* Nothing is changed on behalf of the read-only workspace, whichever of its three signs a
\* request carries, whatever role it claims and whatever token comes with it.
THEOREM EvaluationChangesNothing ==
  ASSUME NEW req, NEW env, NEW now, NEW action, EvaluationAsked(req)
  PROVE  ~ Permitted(req, env, now, action)
<1>1. actorFromRequest(req, env, now) = evaluationActorFromRequest(req, env)
  BY DEF actorFromRequest
<1>2. \/ actorFromRequest(req, env, now) = Unauthorized
      \/ actorFromRequest(req, env, now).id.evaluation
  BY <1>1 DEF evaluationActorFromRequest, evaluationActor
<1> QED BY <1>2 DEF Permitted, requireAction, isEvaluationActor

\* With AUTH_MODE = jwt an action is permitted only to the role of a token that was verified:
\* neither the actor headers nor a query parameter stand in for it.
THEOREM OnlyTokensAct ==
  ASSUME NEW req, NEW env, NEW now, NEW action, env.authMode = "jwt",
         Permitted(req, env, now, action)
  PROVE  /\ req.token.kind # "none" /\ verifyJwt(req.token, env, now)
         /\ canRole(roleFromPayload(req.token.claims, env), action)
<1>1. ~ EvaluationAsked(req) BY EvaluationChangesNothing
<1>2. actorFromRequest(req, env, now) = authenticateRequest(req, env, now)
  BY <1>1 DEF actorFromRequest
<1> DEFINE actor == authenticateRequest(req, env, now)
<1>3. actor # Unauthorized /\ ~ actor.id.evaluation /\ canRole(actor.role, action)
  BY <1>2 DEF Permitted, requireAction, isEvaluationActor
<1>4. req.token.kind # "none" BY <1>3 DEF authenticateRequest, evaluationActor
<1>5. verifyJwt(req.token, env, now) BY <1>3, <1>4 DEF authenticateRequest
<1>6. actor.role = roleFromPayload(req.token.claims, env)
  BY <1>3, <1>4, <1>5 DEF authenticateRequest
<1> QED BY <1>3, <1>4, <1>5, <1>6

\* With AUTH_MODE = jwt an inspector changes only inspections assigned to the holder of the
\* token, created by him, or made under his name.
THEOREM OwnInspections ==
  ASSUME NEW req, NEW env, NEW now, NEW action, NEW inspection, env.authMode = "jwt",
         inspectionForRequest(req, env, now, action, inspection)
  PROVE  \/ roleFromPayload(req.token.claims, env) \in {"admin", "reviewer"}
         \/ req.token.id \in {inspection.assignedToUserId, inspection.createdBy}
         \/ req.name = inspection.inspectorName
<1>1. Permitted(req, env, now, action) BY DEF inspectionForRequest
<1>2. ~ EvaluationAsked(req) BY <1>1, EvaluationChangesNothing
<1>3. req.token.kind # "none" /\ verifyJwt(req.token, env, now) BY <1>1, OnlyTokensAct
<1> DEFINE actor == actorFromRequest(req, env, now)
           role == roleFromPayload(req.token.claims, env)
<1>4. actor = authenticateRequest(req, env, now) BY <1>2 DEF actorFromRequest
<1>5. role # NoRole
  BY <1>1, <1>3, <1>4 DEF Permitted, authenticateRequest
<1>6. actor = [id |-> req.token.id, name |-> req.name, role |-> role]
  BY <1>3, <1>4, <1>5 DEF authenticateRequest
<1>7. canAccessInspection(actor, inspection) BY DEF inspectionForRequest
<1> QED BY <1>6, <1>7 DEF canAccessInspection

\* What the page offers a signed-in user is granted, once the page has taken over the role the
\* API names and no session of the read-only workspace is left behind.
THEOREM OfferedIsAllowed ==
  ASSUME NEW auth \in Session, NEW local \in Session \cup {NoSession}, auth.mode = "oidc",
         NEW token, token.kind # "none", ~ token.id.evaluation,
         NEW env, env.authMode = "jwt", NEW now, verifyJwt(token, env, now),
         roleFromPayload(token.claims, env) # NoRole,
         ~ isEvaluationSession(local), NEW id, NEW name, NEW action,
         can(confirmed(auth, token, env, now), local, TRUE, action)
  PROVE  Permitted(requestOf(confirmed(auth, token, env, now), local, TRUE, token, id, name),
                   env, now, action)
<1> DEFINE session == confirmed(auth, token, env, now)
           role == roleFromPayload(token.claims, env)
           req == requestOf(session, local, TRUE, token, id, name)
<1>1. session.role = role /\ session.mode = "oidc" BY DEF confirmed, Session
<1>2. session # NoSession BY <1>1 DEF NoSession
<1>3. canRole(role, action) BY <1>1, <1>2 DEF can, activeSession
<1>4. ~ EvaluationAsked(req) BY <1>2 DEF requestOf, EvaluationAsked
<1>5. req.token = token BY <1>2 DEF requestOf
<1> HIDE DEF req, session
<1>6. role # NoRole /\ actorFromRequest(req, env, now) = [id |-> token.id, name |-> req.name, role |-> role]
  BY <1>4, <1>5 DEF actorFromRequest, authenticateRequest
<1>7. [id |-> token.id, name |-> req.name, role |-> role] # Unauthorized
  BY <1>6 DEF Unauthorized
<1>8. Permitted(req, env, now, action)
  BY <1>3, <1>6, <1>7 DEF Permitted, requireAction, isEvaluationActor
<1> QED BY <1>8 DEF req, session

\* Without that last condition it fails for everything the page offers: a session of the
\* read-only workspace started in another tab turns every request into one of the workspace.
THEOREM LeftoverSessionRefuses ==
  ASSUME NEW auth \in Session, auth.mode = "oidc", NEW local \in Session, isEvaluationSession(local),
         NEW token, NEW env, NEW now, NEW id, NEW name, NEW action, canRole(auth.role, action)
  PROVE  /\ can(auth, local, TRUE, action)
         /\ ~ Permitted(requestOf(auth, local, TRUE, token, id, name), env, now, action)
<1>1. auth # NoSession BY DEF NoSession
<1>2. can(auth, local, TRUE, action) BY <1>1 DEF can, activeSession, isEvaluationSession
<1>3. EvaluationAsked(requestOf(auth, local, TRUE, token, id, name)) BY DEF requestOf, EvaluationAsked
<1> QED BY <1>2, <1>3, EvaluationChangesNothing

\* Whoever may take the photos of an inspection may not release its report, unless that is the
\* administrator; and every action a route asks for is one that somebody may do.
THEOREM DutiesSeparated ==
  /\ \A role \in userRoles \ {"admin"} :
       ~ (canRole(role, "photo:capture") /\ canRole(role, "report:finalize"))
  /\ \A action \in roleActions : rolesForAction(action) # {}
<1>1. \A role \in userRoles \ {"admin"} :
        ~ (canRole(role, "photo:capture") /\ canRole(role, "report:finalize"))
  BY DEF userRoles, canRole, rolePermissions
<1>2. "admin" \in userRoles /\ rolePermissions["admin"] = roleActions
  BY DEF userRoles, rolePermissions
<1> QED BY <1>1, <1>2 DEF rolesForAction, canRole

-----------------------------------------------------------------------------
(* A save of the row store, statement by statement.                        *)

\* The position of a table in storeMapNames is its own.
LEMMA TablesDiffer ==
  \A i, j \in Positions : storeMapNames[i] = storeMapNames[j] => i = j
<1>1. Positions = 1 .. 15 BY DEF Positions, storeMapNames
<1> QED BY <1>1 DEF storeMapNames

\* Every key column names a table that is written before the one it is a column of.
LEMMA KeysPointBack ==
  \A k \in Keys : \A i \in Positions : storeMapNames[i] = k[1] =>
    \E j \in Positions : j < i /\ storeMapNames[j] = k[3]
<1>1. Positions = 1 .. 15 BY DEF Positions, storeMapNames
<1>2. \A k \in EvidenceKeys : \A i \in Positions : storeMapNames[i] = k[1] =>
        \E j \in Positions : j < i /\ storeMapNames[j] = k[3]
  BY <1>1 DEF EvidenceKeys, storeMapNames
<1>3. \A k \in DerivedKeys : \A i \in Positions : storeMapNames[i] = k[1] =>
        \E j \in Positions : j < i /\ storeMapNames[j] = k[3]
  BY <1>1 DEF DerivedKeys, storeMapNames
<1> QED BY <1>2, <1>3 DEF Keys

\* Of a row and a row it refers to, the one referred to stands in the earlier table.
LEMMA ReferredEarlier ==
  ASSUME NEW st \in Stores, NEW r \in DOMAIN st, NEW q \in References(st[r]),
         NEW i \in Positions \cup {Len(storeMapNames) + 1}, r \notin From(i)
  PROVE  q \notin From(i)
<1>1. r \in Rows /\ st[r] \in Records(r[1]) BY DEF Stores
<1>2. PICK k \in st[r].keys : q = <<k[1][3], k[2]>> BY DEF References
<1>3. k \in Keys \X RowIds /\ k[1][1] = r[1] BY <1>1, <1>2 DEF Records
<1>4. PICK n \in Positions : storeMapNames[n] = r[1] BY <1>1 DEF Rows, Tables
<1>5. PICK m \in Positions : m < n /\ storeMapNames[m] = k[1][3] BY <1>3, <1>4, KeysPointBack
<1>6. n < i
  <2>1. Positions = 1 .. 15 /\ Len(storeMapNames) = 15 BY DEF Positions, storeMapNames
  <2> QED BY <1>1, <1>4, <2>1 DEF From
<1>7. \A j \in Positions : storeMapNames[j] = q[1] => j = m BY <1>2, <1>5, TablesDiffer
<1>8. Positions \subseteq Int /\ i \in Int
  <2>1. Positions = 1 .. 15 /\ Len(storeMapNames) = 15 BY DEF Positions, storeMapNames
  <2> QED BY <2>1
<1> QED BY <1>5, <1>6, <1>7, <1>8 DEF From

\* The statements of a save run one after the other against constraints that are checked at the
\* end of each: with the stores before and after whole, and no row that stays having referred to
\* one that goes, no statement leaves a row that refers to a missing one. A handler deletes
\* damage items, to which nothing refers, and the reconciliation of the reference evidence
\* deletes text suggestions together with the verifications that refer to them.
THEOREM ReferencesHold ==
  ASSUME NEW before \in Stores, NEW after \in Stores, Referential(before), Referential(after),
         \A r \in DOMAIN before \cap DOMAIN after : References(before[r]) \subseteq DOMAIN after,
         NEW db \in Steps(before, after)
  PROVE  Referential(db)
<1>1. CASE db \in { deleted(before, after, i) : i \in Positions }
  <2>1. PICK i \in Positions : db = deleted(before, after, i) BY <1>1
  <2>2. DOMAIN db = DOMAIN before \ (deletedIds(before, after) \cap From(i))
        /\ \A r \in DOMAIN db : db[r] = before[r]
    BY <2>1 DEF deleted
  <2>3. ASSUME NEW r \in DOMAIN db, NEW q \in References(db[r]) PROVE q \in DOMAIN db
    <3>1. r \in DOMAIN before /\ db[r] = before[r] /\ q \in DOMAIN before
      BY <2>2, <2>3 DEF Referential
    <3>2. CASE q \in DOMAIN after BY <3>1, <3>2, <2>2 DEF deletedIds
    <3>3. CASE q \notin DOMAIN after
      <4>1. r \notin DOMAIN after BY <3>1, <3>3, <2>3
      <4>2. r \notin From(i) BY <4>1, <3>1, <2>2 DEF deletedIds
      <4>3. q \notin From(i) BY <4>2, <3>1, <2>3, ReferredEarlier
      <4> QED BY <4>3, <3>1, <2>2
    <3> QED BY <3>2, <3>3
  <2> QED BY <2>3 DEF Referential
<1>2. CASE db \in { upserted(before, after, i) : i \in Positions \cup {Len(storeMapNames) + 1} }
  <2>1. PICK i \in Positions \cup {Len(storeMapNames) + 1} : db = upserted(before, after, i)
    BY <1>2
  <2> DEFINE written == changedRows(before, after) \ From(i)
  <2>2. /\ DOMAIN db = (DOMAIN before \cap DOMAIN after) \cup written
        /\ \A r \in DOMAIN db : db[r] = IF r \in written THEN after[r] ELSE before[r]
    BY <2>1 DEF upserted
  <2>3. written \subseteq DOMAIN after BY DEF changedRows
  <2>4. ASSUME NEW r \in DOMAIN db, NEW q \in References(db[r]) PROVE q \in DOMAIN db
    <3>1. CASE r \in written
      <4>1. r \in DOMAIN after /\ db[r] = after[r] /\ r \notin From(i) BY <3>1, <2>2, <2>3
      <4>2. q \in DOMAIN after BY <4>1, <2>4 DEF Referential
      <4>3. q \notin From(i) BY <4>1, <2>4, ReferredEarlier
      <4> QED BY <4>2, <4>3, <2>2 DEF changedRows
    <3>2. CASE r \notin written
      <4>1. r \in DOMAIN before \cap DOMAIN after /\ db[r] = before[r] BY <3>2, <2>2
      <4>2. q \in DOMAIN after /\ q \in DOMAIN before BY <4>1, <2>4 DEF Referential
      <4> QED BY <4>2, <2>2
    <3> QED BY <3>1, <3>2
  <2> QED BY <2>4 DEF Referential
<1> QED BY <1>1, <1>2 DEF Steps

\* Writing only the rows that differ from the snapshot leaves exactly the handler's store.
THEOREM SaveWritesTheStore ==
  ASSUME NEW before \in Stores, NEW after \in Stores
  PROVE  upserted(before, after, Len(storeMapNames) + 1) = after
<1> DEFINE end == Len(storeMapNames) + 1
           written == changedRows(before, after) \ From(end)
<1>1. From(end) = {}
  <2>1. Positions = 1 .. 15 /\ end = 16 BY DEF Positions, storeMapNames
  <2> QED BY <2>1 DEF From
<1>2. written = changedRows(before, after) BY <1>1
<1>3. (DOMAIN before \cap DOMAIN after) \cup written = DOMAIN after BY <1>2 DEF changedRows
<1>4. \A r \in DOMAIN after : (IF r \in written THEN after[r] ELSE before[r]) = after[r]
  BY <1>2 DEF changedRows
<1>5. upserted(before, after, end) =
        [r \in DOMAIN after |-> IF r \in written THEN after[r] ELSE before[r]]
  BY <1>3 DEF upserted
<1>6. after = [r \in DOMAIN after |-> after[r]] BY DEF Stores
<1> QED BY <1>4, <1>5, <1>6

-----------------------------------------------------------------------------
(* The page: what it tells its user of a stored inspection, compared with  *)
(* what the server that made the bundle decides.                           *)

\* What the page checks of its own, besides a photo of quality "fail", the server has reported.
LEMMA PageChecksAreBlockers ==
  ASSUME NEW s \in Stored, Blockers(s) \subseteq {"final_report_missing"},
         \A p \in DOMAIN s.photos : s.photos[p].qualityStatus # "fail"
  PROVE  crReady(bundle(s))
<1> DEFINE b == bundle(s)
<1>1. b.store = s /\ b.blockers = Blockers(s) BY DEF bundle
<1>2. missingRequiredEvidence(s) = {} /\ s.graded
  <2>1. "missing_required_angle" \notin Blockers(s) /\ "condition_grade_missing" \notin Blockers(s)
    OBVIOUS
  <2> QED BY <2>1 DEF Blockers
<1>3. ~pendingDamage(b)
  <2>1. "unreviewed_ai_suggestion" \notin Blockers(s) OBVIOUS
  <2> QED BY <1>1, <2>1 DEF Blockers, pendingDamage
<1>4. ~unresolvedQualityIssues(b)
  <2>1. "image_quality_retake" \notin Blockers(s) /\ "image_analysis_failed" \notin Blockers(s)
    OBVIOUS
  <2>2. Numbered(s, "quality_warning", Unreviewed) = {} BY <2>1 DEF Blockers
  <2>3. \A p \in DOMAIN s.photos : s.photos[p].analysisStatus # "failed" BY <2>1 DEF Blockers
  <2> QED BY <1>1, <2>2, <2>3 DEF unresolvedQualityIssues
<1> QED BY <1>1, <1>2, <1>3, <1>4 DEF crReady

\* The page never promises more than the server: a condition report it calls ready has no open
\* blocker but its release, and what it calls buyer-visible is, also when the details of an
\* inspection did not load and it shows what the list says of it.
THEOREM PageNeverAhead ==
  ASSUME NEW s \in Stored, RequiredAngles # {}
  PROVE  /\ crReady(bundle(s)) => Blockers(s) \subseteq {"final_report_missing"}
         /\ vdpReady(bundle(s)) => buyerVisibleReady(s)
         /\ ~crReady(fallbackBundle(s))
         /\ vdpReady(fallbackBundle(s)) => buyerVisibleReady(s)
         /\ vdpStatus(bundle(s)) = "VDP ready" => buyerVisibleReady(s)
<1>1. crReady(bundle(s)) => Blockers(s) \subseteq {"final_report_missing"} BY DEF crReady, bundle
<1>2. vdpReady(bundle(s)) => buyerVisibleReady(s)
  BY DEF vdpReady, bundle, buyerVisibleReady
<1>3. missingRequiredEvidence(fallbackBundle(s).store) = RequiredAngles
  <2>1. "suggestions" \in DOMAIN s BY DEF Stored
  <2>2. fallbackBundle(s).store.suggestions = << >> BY <2>1 DEF fallbackBundle
  <2>3. DOMAIN fallbackBundle(s).store.suggestions = {} BY <2>2
  <2> QED BY <2>3 DEF missingRequiredEvidence, acceptedAngles, Numbered
<1>4. ~crReady(fallbackBundle(s)) BY <1>3 DEF crReady
<1>5. vdpReady(fallbackBundle(s)) => buyerVisibleReady(s)
  <2>1. vdpReady(fallbackBundle(s)) => fallbackBundle(s).ready BY <1>4 DEF vdpReady
  <2> QED BY <2>1 DEF fallbackBundle
<1>6. vdpStatus(bundle(s)) = "VDP ready" => vdpReady(bundle(s)) BY DEF vdpStatus
<1> QED BY <1>1, <1>2, <1>4, <1>5, <1>6

\* Without a photo whose analysis demanded a retake the two agree exactly: the page repeats the
\* server's decision, whatever its own checks are.
THEOREM PageAgrees ==
  ASSUME NEW s \in Stored, \A p \in DOMAIN s.photos : s.photos[p].qualityStatus # "fail"
  PROVE  /\ crReady(bundle(s)) <=> Blockers(s) \subseteq {"final_report_missing"}
         /\ vdpReady(bundle(s)) <=> buyerVisibleReady(s)
<1>1. crReady(bundle(s)) <=> Blockers(s) \subseteq {"final_report_missing"}
  BY PageChecksAreBlockers DEF crReady, bundle
<1>2. ASSUME Blockers(s) = {} PROVE vdpReady(bundle(s))
  <2>1. crReady(bundle(s)) BY <1>1, <1>2
  <2>2. s.report.finalized BY <1>2 DEF Blockers
  <2> QED BY <1>2, <2>1, <2>2 DEF vdpReady, bundle, buyerVisibleReady
<1>3. ASSUME Blockers(s) # {} PROVE vdpReady(bundle(s)) <=> buyerVisibleReady(s)
  BY <1>3 DEF vdpReady, bundle, buyerVisibleReady
<1> QED BY <1>1, <1>2, <1>3 DEF buyerVisibleReady

\* With one they do not. The photo keeps its quality "fail" after a clean photo of the same angle
\* has replaced it, which is all the server asks for: the page then calls a released report
\* blocked, and shows it to buyers only if its damage is severe or of unknown cost.
THEOREM ReplacedPhotoHoldsPage ==
  ASSUME NEW s \in Stored, buyerVisibleReady(s),
         NEW p \in DOMAIN s.photos, s.photos[p].qualityStatus = "fail"
  PROVE  /\ ~crReady(bundle(s)) /\ (vdpReady(bundle(s)) <=> watched(s))
         /\ vdpStatus(bundle(s)) = IF watched(s) THEN "VDP ready" ELSE "Needs review"
<1>1. unresolvedQualityIssues(bundle(s)) BY DEF unresolvedQualityIssues, bundle
<1>2. ~crReady(bundle(s)) BY <1>1 DEF crReady
<1>3. vdpReady(bundle(s)) <=> watched(s)
  BY <1>2 DEF vdpReady, bundle, buyerVisibleReady
<1>4. missingRequiredEvidence(s) = {} /\ s.report.finalized
  <2>1. "missing_required_angle" \notin Blockers(s) /\ "final_report_missing" \notin Blockers(s)
    BY DEF buyerVisibleReady
  <2> QED BY <2>1 DEF Blockers
<1>5. missingRequiredEvidence(bundle(s).store) = {} /\ bundle(s).store.report.finalized
  BY <1>4 DEF bundle
<1> QED BY <1>2, <1>3, <1>5 DEF vdpStatus

-----------------------------------------------------------------------------
\* The release button: what the server would do is offered to whoever may do it, and offered next
\* to a ready condition report it succeeds, if nothing has changed since the page loaded and the
\* cached completeness is the one of the evidence.
THEOREM FinalizeButton ==
  ASSUME NEW s \in Stored, NEW role \in userRoles, canRole(role, "report:finalize")
  PROVE  /\ finalizeAccepted(s, s.report.version) /\ s.status # "FINALIZED" =>
              Offered(s, role, "report:finalize")
         /\ /\ Offered(s, role, "report:finalize")
            /\ crReady(bundle(s)) /\ s.complete
            /\ s.status \in {"AI_DRAFTED", "HUMAN_REVIEW_REQUIRED"}
            => finalizeAccepted(s, s.report.version)
<1>1. s.report \in Report BY DEF Stored
<1>2. crReady(bundle(s)) => Blockers(s) \subseteq {"final_report_missing"} BY DEF crReady, bundle
<1> QED BY <1>1, <1>2 DEF finalizeAccepted, Offered, Report

\* Between its pages nobody loses an inspection: every one that is not released is in the capture
\* or in the review queue, and one that needs no work is released and visible to buyers.
THEOREM QueuesCoverAll ==
  ASSUME NEW s \in Stored
  PROVE  /\ s.status # "FINALIZED" => isCaptureQueueInspection(s) \/ isReviewQueueInspection(s)
         /\ ~inspectionNeedsWork(s) => s.status = "FINALIZED" /\ buyerVisibleReady(s)
<1>1. s.status \in Statuses BY DEF Stored
<1> QED BY <1>1 DEF Statuses, isCaptureQueueInspection, isReviewQueueInspection, inspectionNeedsWork

-----------------------------------------------------------------------------
\* "Usable analysis signals and no open retake blocker": where a photo has one warning at most and
\* a completed job stands for a completed photo, the guidance is ready only if no analysis
\* failed, nobody has to decide on a warning, and a warning that was accepted and still blocks
\* had not itself required the retake: that one the page does not see.
THEOREM GuidanceReady ==
  ASSUME NEW s \in Stored, fieldGuidanceTone(s) = "ready",
         \A p \in DOMAIN s.photos :
           /\ ~s.photos[p].reference
           /\ s.photos[p].job = "completed" => s.photos[p].analysisStatus = "completed"
           /\ \A m, n \in warningsOf(s, p) : m = n
  PROVE  /\ "image_analysis_failed" \notin Blockers(s)
         /\ Numbered(s, "quality_warning", Unreviewed) = {}
         /\ \A n \in Numbered(s, "quality_warning", {"accepted"}) : ~s.suggestions[n].retake
<1>1. \A p \in DOMAIN s.photos : photoQualityView(s, p) \notin {"retake", "failed", "review", "pending"}
  <2>1. Viewed(s, {"retake", "failed"}) = {} /\ Viewed(s, {"review", "pending"}) = {}
    BY DEF fieldGuidanceTone
  <2> QED BY <2>1 DEF Viewed
<1>2. ASSUME NEW p \in DOMAIN s.photos
      PROVE  /\ terminalStatus(s.photos[p]) = "completed" /\ ~reviewing(s, p)
             /\ warningsOf(s, p) # {} => ~s.suggestions[qualitySuggestion(s, p)].retake
  BY <1>1 DEF photoQualityView
<1>3. \A p \in DOMAIN s.photos : s.photos[p].analysisStatus = "completed"
  BY <1>2 DEF terminalStatus
<1>4. "image_analysis_failed" \notin Blockers(s) BY <1>3 DEF Blockers
<1>5. ASSUME NEW n \in DOMAIN s.suggestions, s.suggestions[n].type = "quality_warning"
      PROVE  s.suggestions[n].status \notin Unreviewed /\ ~s.suggestions[n].retake
  <2> DEFINE p == s.suggestions[n].photo
  <2>1. p \in DOMAIN s.photos BY DEF Stored
  <2>2. s.suggestions[n] \in Suggestion BY DEF Stored
  <2>3. n \in warningsOf(s, p)
    BY <1>5, <2>2 DEF warningsOf, Numbered, Unreviewed, Suggestion
  <2>4. warningsOf(s, p) \subseteq Int BY DEF warningsOf, Numbered, Stored
  <2>5. n \in warningsOf(s, p) /\ \A m \in warningsOf(s, p) : m <= n BY <2>1, <2>3, <2>4
  <2>6. qualitySuggestion(s, p) \in warningsOf(s, p) BY <2>5 DEF qualitySuggestion
  <2>7. qualitySuggestion(s, p) = n BY <2>1, <2>3, <2>6
  <2> QED BY <1>2, <2>1, <2>3, <2>7 DEF reviewing
<1> QED BY <1>4, <1>5 DEF Numbered

\* After "Analyze photos" has come back without an error, no photo blocks the release as failed,
\* unless one that had not been asked for has failed since.
THEOREM AnalysisComesBack ==
  ASSUME NEW before \in Stored, NEW s \in Stored,
         DOMAIN s.photos = DOMAIN before.photos,
         \A p \in DOMAIN s.photos \ photosToAnalyze(before) : s.photos[p].analysisStatus # "failed",
         analysisAwaited(s, photosToAnalyze(before)) = "completed"
  PROVE  "image_analysis_failed" \notin Blockers(s)
<1>1. \A p \in photosToAnalyze(before) : s.photos[p].analysisStatus = "completed"
  BY DEF analysisAwaited, photosToAnalyze
<1>2. \A p \in DOMAIN s.photos : s.photos[p].analysisStatus # "failed" BY <1>1
<1> QED BY <1>2 DEF Blockers
=============================================================================
