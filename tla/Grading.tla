------------------------------ MODULE Grading -------------------------------
(***************************************************************************)
(* The condition grade and the repair estimate: pure functions of the      *)
(* confirmed damage, the mileage, the year and the completeness of the     *)
(* evidence.  The grade is computed by a Python service or, when that does *)
(* not answer, by the fallback of the API (gradingClient.ts).              *)
(*                                                                         *)
(* A damage list counts its items per severity, which is all the grade     *)
(* looks at; completeness is inspection.completenessPercentage, so that    *)
(* missingRatio * 24 is the exact fraction (100 - percent) * 24 / 100.     *)
(***************************************************************************)
EXTENDS Integers

Severity   == {"minor", "moderate", "severe", "unknown"}
DamageList == [Severity -> Nat]
Percent    == 0 .. 100

severityPoints == [minor |-> 3, moderate |-> 9, severe |-> 18, unknown |-> 5]

Deductions(damage) ==
  severityPoints["minor"] * damage["minor"] + severityPoints["moderate"] * damage["moderate"]
  + severityPoints["severe"] * damage["severe"] + severityPoints["unknown"] * damage["unknown"]

mileage_adjustment(mileage) ==
  IF mileage > 120000 THEN 10
  ELSE IF mileage > 90000 THEN 7
  ELSE IF mileage > 60000 THEN 4
  ELSE IF mileage > 30000 THEN 2 ELSE 0

Clamp(low, n, high) == IF n < low THEN low ELSE IF n > high THEN high ELSE n

\* Both languages round the quotient down.
ageAdjustment(age) == Clamp(0, age \div 3, 8)

\* round() of Python, of n/100: a half goes to the even neighbour.
pyRound(n) ==
  LET q == n \div 100  r == n % 100 IN
  IF r < 50 \/ (r = 50 /\ q % 2 = 0) THEN q ELSE q + 1

\* Math.round, of n/100: a half goes up.
jsRound(n) == (n + 50) \div 100

Score(damage, penalty, mileage, age) ==
  Clamp(0, 100 - (Deductions(damage) + penalty + mileage_adjustment(mileage) + ageAdjustment(age)), 100)

letter_grade(score) ==
  IF score >= 90 THEN "A" ELSE IF score >= 80 THEN "B"
  ELSE IF score >= 70 THEN "C" ELSE IF score >= 60 THEN "D" ELSE "F"

\* grade_condition of the service, and the fallback.
grade_condition(damage, percent, mileage, age) ==
  Score(damage, pyRound((100 - percent) * 24), mileage, age)

localGrade(damage, percent, mileage, age) ==
  Score(damage, jsRound((100 - percent) * 24), mileage, age)

\* The service counts if it answers in time, with success and a valid body.
gradeCondition(answers, damage, percent, mileage, age) ==
  LET score == IF answers THEN grade_condition(damage, percent, mileage, age)
                          ELSE localGrade(damage, percent, mileage, age) IN
  [score |-> score, grade |-> letter_grade(score),
   gradingVersion |-> IF answers THEN "python" ELSE "local-fallback"]

-----------------------------------------------------------------------------
(* Repair estimates.                                                       *)

DamageType == {"scratch", "dent", "crack", "paint_damage", "glass_damage",
               "wheel_damage", "interior_wear", "unknown"}

EstimatorReview == [min |-> 0, max |-> 0]

\* The ranges of a damage type: minor a..b, moderate c..d, severe e..f.
Ranges(a, b, c, d, e, f) ==
  [minor |-> [min |-> a, max |-> b], moderate |-> [min |-> c, max |-> d],
   severe |-> [min |-> e, max |-> f], unknown |-> EstimatorReview]

repairEstimateRangesUsd ==
  [scratch       |-> Ranges(150, 300, 300, 700, 700, 1500),
   dent          |-> Ranges(200, 450, 500, 1200, 1200, 2500),
   crack         |-> Ranges(250, 600, 600, 1400, 1400, 3000),
   paint_damage  |-> Ranges(250, 600, 600, 1500, 1500, 3500),
   glass_damage  |-> Ranges(200, 500, 500, 900, 900, 1600),
   wheel_damage  |-> Ranges(125, 350, 350, 850, 850, 1800),
   interior_wear |-> Ranges(75, 250, 250, 750, 750, 1800),
   unknown       |-> Ranges(150, 400, 400, 1000, 1000, 2500)]

\* Words outside the enumerations count as unknown.
normalizeDamageType(word)     == IF word \in DamageType THEN word ELSE "unknown"
normalizeDamageSeverity(word) == IF word \in Severity THEN word ELSE "unknown"

estimateDamageRepairCost(type, severity) ==
  repairEstimateRangesUsd[normalizeDamageType(type)][normalizeDamageSeverity(severity)]

\* One round of the loop of estimateTotalRepairRange.
AddEstimate(total, type, severity) ==
  LET estimate == estimateDamageRepairCost(type, severity) IN
  [min |-> total.min + estimate.min, max |-> total.max + estimate.max]
=============================================================================
