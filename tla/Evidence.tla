------------------------------ MODULE Evidence ------------------------------
(***************************************************************************)
(* The evidence of one inspection, as MemoryStore (apps/api/src/store.ts)  *)
(* keeps it: photos, what image analysis says of them, the suggestions it  *)
(* raises, the decisions reviewers take on them, the damage list and the   *)
(* cached completeness.                                                    *)
(*                                                                         *)
(* Photos are numbered in the order of their upload.  The n-th analysis    *)
(* saved for photo p raises the suggestions <<p, n, kind>>; several        *)
(* warnings or candidates of one analysis are one suggestion of the model. *)
(* completenessPercentage is kept as the set of angles it is computed from *)
(* (the code only compares it with 100); the damage list is kept as the    *)
(* number of changes made to it, which tells two contents apart.           *)
(***************************************************************************)
EXTENDS StateMachine, Integers

CONSTANTS
  NumPhotos,          \* bound: photos uploaded to the inspection
  NumRuns,            \* bound: analyses saved for one photo
  Angles,             \* PhotoAngle
  RequiredAngles,     \* requiredPhotoAngles
  NoAngle,            \* a null angle
  Findings,           \* suggestion kinds raised besides photo_angle
  MaxDamage           \* bound: changes made to the damage list

ASSUME EvidenceAssumption ==
  /\ NumPhotos \in Nat /\ NumRuns \in Nat /\ MaxDamage \in Nat
  /\ RequiredAngles \subseteq Angles
  /\ RequiredAngles # {}
  /\ NoAngle \notin Angles
  /\ Findings \subseteq {"quality_warning", "damage_candidate", "extracted_text"}

Photos == 1 .. NumPhotos
Runs   == 1 .. NumRuns
Kinds  == {"photo_angle"} \cup Findings

SuggestionIds    == Photos \X Runs \X Kinds
SuggestionStatus == {"none", "pending", "edited", "accepted", "rejected"}
AnalysisStatus   == {"absent", "not_analyzed", "pending", "completed", "failed"}

VARIABLES
  analysis,     \* photo.analysisStatus; "absent" before the upload
  clean,        \* photos whose qualityStatus is "ok"
  declared,     \* photo.declaredAngle
  detected,     \* photo.detectedAngle
  failedJob,    \* photos with an analysis job in status failed or dead_letter
  suggestion,   \* suggestion.status; "none" before it is created
  value,        \* suggestedValueJson.photoAngle of the angle suggestions
  confirmed,    \* inspection.completenessPercentage, as the angles it counts
  damage        \* changes made to the damage list so far

evidenceVars == << analysis, clean, declared, detected, failedJob,
                   suggestion, value, confirmed, damage >>

EvidenceInit ==
  /\ status = "DRAFT"
  /\ analysis = [p \in Photos |-> "absent"]
  /\ clean = {}
  /\ declared = [p \in Photos |-> NoAngle]
  /\ detected = [p \in Photos |-> NoAngle]
  /\ failedJob = {}
  /\ suggestion = [s \in SuggestionIds |-> "none"]
  /\ value = [r \in Photos \X Runs |-> NoAngle]
  /\ confirmed = {}
  /\ damage = 0

-----------------------------------------------------------------------------
(* Readiness.                                                              *)

\* The angles of the accepted angle suggestions, from the given statuses and values.
AcceptedAngles(sug, val) ==
  { val[r] : r \in { q \in Photos \X Runs :
                       sug[<<q[1], q[2], "photo_angle">>] = "accepted" } }

missingRequiredEvidence == RequiredAngles \ AcceptedAngles(suggestion, value)

\* The first accepted angle suggestion decides, then the declared, then the detected angle.
confirmedAngleForPhoto(p) ==
  LET accepted == { n \in Runs : suggestion[<<p, n, "photo_angle">>] = "accepted" }
  IN  IF accepted # {}
        THEN value[<<p, CHOOSE n \in accepted : \A m \in accepted : n <= m>>]
        ELSE IF declared[p] # NoAngle THEN declared[p] ELSE detected[p]

\* Variant: any later photo counts as a replacement, whatever it shows.
hasLaterCleanPhoto(p) ==
  /\ confirmedAngleForPhoto(p) \in RequiredAngles
  /\ \E q \in Photos : q > p /\ analysis[q] = "completed" /\ q \in clean

hasCleanReplacementEvidence(p) ==
  /\ confirmedAngleForPhoto(p) \in RequiredAngles
  /\ \E q \in Photos :
       /\ q > p
       /\ analysis[q] = "completed" /\ q \in clean
       /\ confirmedAngleForPhoto(q) = confirmedAngleForPhoto(p)

Open(s) == suggestion[s] \in {"pending", "edited"}

\* No blocker that readinessIssues derives from the evidence (the grade and the
\* report, the other two, are the report component's).
EvidenceReady ==
  /\ missingRequiredEvidence = {}
  /\ \A p \in Photos : analysis[p] # "failed"
  /\ \A s \in SuggestionIds : ~Open(s)
  /\ \A s \in SuggestionIds :
       s[3] = "quality_warning" /\ suggestion[s] = "accepted" => hasCleanReplacementEvidence(s[1])

-----------------------------------------------------------------------------
(* Photos and their analysis.                                              *)

\* POST photos/upload and photos/sample: a new photo, which takes a draft to
\* NEEDS_PHOTOS (maybeProgressFromDraft).
addPhoto(p, angle) ==
  /\ Mutable
  /\ analysis[p] = "absent" /\ \A q \in 1 .. p - 1 : analysis[q] # "absent"
  /\ analysis' = [analysis EXCEPT ![p] = "not_analyzed"]
  /\ declared' = [declared EXCEPT ![p] = angle]
  /\ status' = IF status = "DRAFT" THEN "NEEDS_PHOTOS" ELSE status
  /\ UNCHANGED << clean, detected, failedJob, suggestion, value, confirmed, damage >>

\* What a step of one of the photo's jobs does to the photo's failed jobs: the
\* job that moves on may be the only one that had failed.
JobMovesOn(p) == failedJob' \in {failedJob, failedJob \ {p}}

\* enqueueImageAnalysis of a new job, startImageAnalysisJob of any job.
startAnalysis(p) ==
  /\ Mutable
  /\ analysis[p] # "absent"
  /\ analysis' = [analysis EXCEPT ![p] = "pending"]
  /\ JobMovesOn(p)
  /\ UNCHANGED << status, clean, declared, detected, suggestion, value, confirmed, damage >>

\* No suggestion carries the number n of photo p yet.
Unsaved(p, n) == \A k \in Kinds : suggestion[<<p, n, k>>] = "none"

\* saveAnalysis, after the await of the vision provider: the photo is completed
\* and the result becomes suggestions for a reviewer.  A warning excludes "ok".
saveAnalysis(p, n, angle, kinds, ok) ==
  /\ Mutable
  /\ analysis[p] \notin {"absent", "not_analyzed"}
  /\ Unsaved(p, n) /\ \A m \in 1 .. n - 1 : ~Unsaved(p, m)
  /\ ok => "quality_warning" \notin kinds
  /\ analysis' = [analysis EXCEPT ![p] = "completed"]
  /\ clean' = IF ok THEN clean \cup {p} ELSE clean \ {p}
  /\ detected' = [detected EXCEPT ![p] = angle]
  /\ suggestion' = [s \in SuggestionIds |->
                      IF s[1] = p /\ s[2] = n /\ s[3] \in kinds \cup {"photo_angle"}
                        THEN "pending" ELSE suggestion[s]]
  /\ value' = [value EXCEPT ![<<p, n>>] = angle]
  /\ JobMovesOn(p)
  /\ UNCHANGED << status, declared, confirmed, damage >>

\* failAnalysis: the provider, the schema or the cost guard refused, or
\* saveAnalysis itself threw.
failAnalysis(p) ==
  /\ Mutable
  /\ analysis[p] \notin {"absent", "not_analyzed"}
  /\ analysis' = [analysis EXCEPT ![p] = "failed"]
  /\ clean' = clean \ {p}
  /\ failedJob' = failedJob \cup {p}
  /\ UNCHANGED << status, declared, detected, suggestion, value, confirmed, damage >>

\* POST platform-health/recover-failed-jobs: every failed job is queued again and
\* its photo reset, on finalized inspections too.
recoverFailedJobs ==
  /\ failedJob # {}
  /\ analysis' = [p \in Photos |-> IF p \in failedJob THEN "pending" ELSE analysis[p]]
  /\ clean' = clean \ failedJob
  /\ failedJob' = {}
  /\ UNCHANGED << status, declared, detected, suggestion, value, confirmed, damage >>

-----------------------------------------------------------------------------
(* Human review of suggestions, and the damage list.                       *)

ChangeDamage == damage < MaxDamage /\ damage' = damage + 1

\* Variant: editSuggestion without the check that the suggestion is still open.
editSuggestionReviewed(s, angle) ==
  /\ Mutable
  /\ suggestion[s] # "none"
  /\ suggestion' = [suggestion EXCEPT ![s] = "edited"]
  /\ value' = IF s[3] = "photo_angle" THEN [value EXCEPT ![<<s[1], s[2]>>] = angle] ELSE value
  /\ UNCHANGED << status, analysis, clean, declared, detected, failedJob, confirmed, damage >>

\* Only an angle suggestion carries a value the model distinguishes.
editSuggestion(s, angle) ==
  /\ Mutable
  /\ Open(s)
  /\ suggestion' = [suggestion EXCEPT ![s] = "edited"]
  /\ value' = IF s[3] = "photo_angle" THEN [value EXCEPT ![<<s[1], s[2]>>] = angle] ELSE value
  /\ UNCHANGED << status, analysis, clean, declared, detected, failedJob, confirmed, damage >>

\* Variant: recomputeCompleteness that counts every accepted angle, required or not.
recomputeCompletenessAllAngles ==
  /\ confirmed' = AcceptedAngles(suggestion', value)
  /\ status' = IF status \in {"DRAFT", "NEEDS_PHOTOS"} /\ RequiredAngles \subseteq confirmed'
                 THEN "READY_FOR_GRADING"
                 ELSE IF status = "DRAFT" THEN "NEEDS_PHOTOS" ELSE status

\* recomputeCompleteness, from the suggestions the caller has just written.
recomputeCompleteness ==
  /\ confirmed' = RequiredAngles \cap AcceptedAngles(suggestion', value)
  /\ status' = IF status \in {"DRAFT", "NEEDS_PHOTOS"} /\ confirmed' = RequiredAngles
                 THEN "READY_FOR_GRADING"
                 ELSE IF status = "DRAFT" THEN "NEEDS_PHOTOS" ELSE status

\* The suggestion becomes a fact: an angle is declared, a candidate is a damage item.
acceptSuggestion(s) ==
  /\ Mutable
  /\ Open(s)
  /\ suggestion' = [suggestion EXCEPT ![s] = "accepted"]
  /\ declared' = IF s[3] = "photo_angle"
                   THEN [declared EXCEPT ![s[1]] = value[<<s[1], s[2]>>]] ELSE declared
  /\ IF s[3] = "damage_candidate" THEN ChangeDamage ELSE UNCHANGED damage
  /\ recomputeCompleteness
  /\ UNCHANGED << analysis, clean, detected, failedJob, value >>

\* An accepted suggestion is refused; a rejected one is written again, unchanged.
rejectSuggestion(s) ==
  /\ Mutable
  /\ Open(s)
  /\ suggestion' = [suggestion EXCEPT ![s] = "rejected"]
  /\ UNCHANGED << status, analysis, clean, declared, detected, failedJob, value, confirmed, damage >>

\* Variant: the damage routes without assertMutableInspection.
changeDamageUnguarded ==
  /\ ChangeDamage
  /\ UNCHANGED << status, analysis, clean, declared, detected, failedJob,
                  suggestion, value, confirmed >>

\* POST, PATCH and DELETE damage: any reviewer, at any time before finalization.
changeDamage ==
  /\ Mutable
  /\ ChangeDamage
  /\ UNCHANGED << status, analysis, clean, declared, detected, failedJob,
                  suggestion, value, confirmed >>

EvidenceNext ==
  \/ \E p \in Photos, a \in Angles \cup {NoAngle} : addPhoto(p, a)
  \/ \E p \in Photos : startAnalysis(p)
  \/ \E p \in Photos, n \in Runs, a \in Angles, k \in SUBSET Findings,
        ok \in BOOLEAN : saveAnalysis(p, n, a, k, ok)
  \/ \E p \in Photos : failAnalysis(p)
  \/ recoverFailedJobs
  \/ \E s \in SuggestionIds, a \in Angles : editSuggestion(s, a)
  \/ \E s \in SuggestionIds : acceptSuggestion(s)
  \/ \E s \in SuggestionIds : rejectSuggestion(s)
  \/ changeDamage
=============================================================================
