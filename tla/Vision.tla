------------------------------- MODULE Vision -------------------------------
(***************************************************************************)
(* Image analysis as a function (apps/api/src/visionProvider.ts): what the *)
(* local table or the model says of a photo, what the API keeps of it, and *)
(* which suggestions it becomes (MemoryStore.saveAnalysis).                *)
(*                                                                         *)
(* A text is its length after trimming; the text read from a photo is      *)
(* legible, garbled or missing; scores and wording are left out.           *)
(***************************************************************************)
EXTENDS Integers, Grading

CONSTANTS Warnings,        \* texts of quality warnings
          IllegibleWarning,  \* the fixed text for an identity photo that cannot be read
          Places,          \* what tells two damage candidates apart besides their fields
          MinConfidence    \* MIN_DAMAGE_CONFIDENCE, in percent

PhotoAngle == {"front", "rear", "driver_side", "passenger_side", "interior", "engine_bay",
               "odometer", "vin_plate", "unknown"}
NullAngle     == "null"
IdentitySlots == {"odometer", "vin_plate"}

Candidate == [place : Places, type : DamageType, severity : Severity, confidence : Percent]

\* VisionOutputSchema, and the outputs it accepts.
Output == [angle : PhotoAngle, grade : {"pass", "review", "retake"}, retakeRequired : BOOLEAN,
           warnings : SUBSET Warnings, damage : SUBSET Candidate,
           odometer : {"legible", "garbled", "missing"}, vin : {"legible", "garbled", "missing"},
           humanReviewRequired : BOOLEAN]

-----------------------------------------------------------------------------
(* What is kept of an output: normalizeVisionOutput.                       *)

\* slice(0, 1) of the distinct warnings.
First(S) == IF S = {} THEN {} ELSE {CHOOSE x \in S : TRUE}

\* slice(0, 1) of the candidates by falling confidence.
MostConfident(S) ==
  IF S = {} THEN {} ELSE {CHOOSE c \in S : \A d \in S : d.confidence <= c.confidence}

Credible(c) == c.confidence >= MinConfidence /\ c.type # "unknown" /\ c.severity # "unknown"

Kept(text) == IF text = "legible" THEN "legible" ELSE "missing"

\* The photo was taken for a text that cannot be read.
Illegible(output, declared) ==
  \/ declared = "odometer" /\ output.odometer # "legible"
  \/ declared = "vin_plate" /\ output.vin # "legible"

RetakeAsked(output) == output.retakeRequired \/ output.grade = "retake"

keptWarnings(output, declared) ==
  IF Illegible(output, declared) THEN {IllegibleWarning}
  ELSE IF RetakeAsked(output) THEN First(output.warnings) ELSE {}

credibleDamage(output, declared) ==
  IF output.angle \in IdentitySlots \/ declared \in IdentitySlots THEN {}
  ELSE MostConfident({ c \in output.damage : Credible(c) })

normalizeVisionOutput(output, declared) ==
  [output EXCEPT
     !.grade = IF Illegible(output, declared) THEN "retake" ELSE @,
     !.retakeRequired = @ \/ Illegible(output, declared),
     !.warnings = keptWarnings(output, declared),
     !.damage = credibleDamage(output, declared),
     !.odometer = Kept(@), !.vin = Kept(@),
     !.humanReviewRequired = \/ @
                             \/ keptWarnings(output, declared) # {}
                             \/ credibleDamage(output, declared) # {}]

\* saveAnalysis: the quality of the photo, and the kinds of the suggestions.
qualityStatus(output) ==
  IF RetakeAsked(output) THEN "fail"
  ELSE IF output.warnings # {} \/ output.grade = "review" THEN "warning" ELSE "ok"

SuggestionKinds(output) ==
  {"photo_angle"} \cup
  { k \in {"quality_warning", "damage_candidate", "extracted_text"} :
      \/ k = "quality_warning" /\ output.warnings # {}
      \/ k = "damage_candidate" /\ output.damage # {}
      \/ k = "extracted_text" /\ "legible" \in {output.odometer, output.vin} }

-----------------------------------------------------------------------------
(* The local provider: the first of its words the file name contains.      *)

Words ==
  << "eval-retake-", "skoda-roomster-rear-quarter-dent", "passenger-door-severe-dent", "glare",
     "bad-angle", "dark-interior", "dirty-odometer", "partial-vin", "interior-wear",
     "interior-overview", "odometer", "vin-plate", "passenger-side", "engine-bay", "blurry",
     "front-clean" >>

cleanOutput(angle) ==
  [angle |-> angle, grade |-> "pass", retakeRequired |-> FALSE, warnings |-> {}, damage |-> {},
   odometer |-> "missing", vin |-> "missing", humanReviewRequired |-> FALSE]

\* An image of poor quality: never without a warning.
PoorOutput(angle, grade, warning) ==
  [cleanOutput(angle) EXCEPT !.grade = grade, !.retakeRequired = TRUE, !.warnings = {warning},
                             !.humanReviewRequired = TRUE]

DamageOutput(angle, candidate, review) ==
  [cleanOutput(angle) EXCEPT !.grade = "review", !.damage = {candidate},
                             !.humanReviewRequired = review]

Slot(declared) == IF declared = NullAngle THEN "unknown" ELSE declared

localOutput(word, declared, warning, place) ==
  LET damage(type, severity, confidence) ==
        [place |-> place, type |-> type, severity |-> severity, confidence |-> confidence] IN
  IF word = "eval-retake-" THEN PoorOutput(Slot(declared), "retake", warning)
  ELSE IF word = "skoda-roomster-rear-quarter-dent"
    THEN DamageOutput("rear", damage("dent", "moderate", 91), TRUE)
  ELSE IF word = "passenger-door-severe-dent"
    THEN DamageOutput("passenger_side", damage("dent", "severe", 96), FALSE)
  ELSE IF word = "glare"          THEN PoorOutput("front", "review", warning)
  ELSE IF word = "bad-angle"      THEN PoorOutput(Slot(declared), "review", warning)
  ELSE IF word = "dark-interior"  THEN PoorOutput("interior", "review", warning)
  ELSE IF word = "dirty-odometer" THEN PoorOutput("odometer", "retake", warning)
  ELSE IF word = "partial-vin"    THEN PoorOutput("vin_plate", "retake", warning)
  ELSE IF word = "interior-wear"
    THEN DamageOutput("interior", damage("interior_wear", "moderate", 90), FALSE)
  ELSE IF word = "interior-overview" THEN [cleanOutput("interior") EXCEPT !.grade = "review"]
  ELSE IF word = "odometer"       THEN [cleanOutput("odometer") EXCEPT !.odometer = "legible"]
  ELSE IF word = "vin-plate"      THEN [cleanOutput("vin_plate") EXCEPT !.vin = "legible"]
  ELSE IF word = "passenger-side" THEN cleanOutput("passenger_side")
  ELSE IF word = "engine-bay"     THEN cleanOutput("engine_bay")
  ELSE IF word = "blurry"         THEN PoorOutput("front", "retake", warning)
  ELSE IF word = "front-clean"    THEN cleanOutput("front")
  \* no word matches
  ELSE IF Slot(declared) # "unknown" THEN cleanOutput(declared)
  ELSE PoorOutput("unknown", "retake", warning)

\* name: the words its file name and storage key contain.
FirstWord(name) ==
  LET hits == { i \in DOMAIN Words : Words[i] \in name } IN
  IF hits = {} THEN "" ELSE Words[CHOOSE i \in hits : \A j \in hits : i <= j]

localVisionProvider(name, declared, warning, place) ==
  normalizeVisionOutput(localOutput(FirstWord(name), declared, warning, place), declared)

-----------------------------------------------------------------------------
(* The Bedrock provider.                                                   *)

\* boundedText: 0 stands for null; what is cut may lose blanks at its new end.
boundedText(length, maxLength) ==
  IF length <= maxLength THEN {length} ELSE 1 .. maxLength - 1

\* loadImageInput: where the bytes come from, or the error that they cannot be had.
loadImageInput(photo) ==
  IF ~photo.readable THEN "error"
  ELSE IF photo.object /\ ~photo.sampleBucket THEN "s3"
  ELSE IF photo.storageKey \in {"data", "sample", "https"} THEN photo.storageKey ELSE "error"

\* answer: what the model wrote, after parseJsonObject and prepareBedrockOutput, or that the call
\* failed; no output if it is no JSON object or the schema refuses it.  failOnInvalid:
\* BEDROCK_VISION_FALLBACK = "fail".
bedrockVisionProvider(photo, answer, failOnInvalid, declared, fallback) ==
  IF loadImageInput(photo) = "error" \/ answer = "call failed" THEN [outcome |-> "error"]
  ELSE IF answer \in Output
         THEN [outcome |-> "analysed", output |-> normalizeVisionOutput(answer, declared),
               fallbackUsed |-> FALSE]
  ELSE IF failOnInvalid THEN [outcome |-> "error"]
  ELSE [outcome |-> "analysed", output |-> fallback, fallbackUsed |-> TRUE]
=============================================================================
