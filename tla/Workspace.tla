----------------------------- MODULE Workspace ------------------------------
(***************************************************************************)
(* What the web page makes of an inspection (apps/web/src): it loads the   *)
(* bundle of the server, which says what blocks the release, and derives   *)
(* from it a readiness of its own, the state of every photo, what to       *)
(* capture next and which actions to offer.  The functions of the server   *)
(* the page is compared with are here too.                                 *)
(*                                                                         *)
(* A bundle has its photos, with the status of their last job, and its     *)
(* suggestions in the order the server lists them.  A warning has "retake" *)
(* when the analysis that raised it requires another photo.                *)
(***************************************************************************)
EXTENDS Access

CONSTANTS Angles, RequiredAngles, NoAngle

Statuses ==
  {"DRAFT", "NEEDS_PHOTOS", "READY_FOR_GRADING", "GRADED", "AI_DRAFT_PENDING", "AI_DRAFTED",
   "HUMAN_REVIEW_REQUIRED", "REPORT_FAILED", "FINALIZED"}

JobStatuses == {"none", "queued", "running", "completed", "failed", "dead_letter"}

Photo ==
  [analysisStatus : {"not_analyzed", "pending", "completed", "failed"},
   qualityStatus : {"unknown", "ok", "warning", "fail"},
   declared : Angles \cup {NoAngle}, detected : Angles \cup {NoAngle},
   unsure : BOOLEAN,          \* detectedAngleConfidence below 0.9
   reference : BOOLEAN,       \* isReferenceEvidence
   uploadedAt : Nat, job : JobStatuses]

Suggestion ==
  [photo : Nat, type : {"photo_angle", "quality_warning", "damage_candidate", "extracted_text"},
   status : {"pending", "edited", "accepted", "rejected"}, angle : Angles, retake : BOOLEAN]

\* The report: version 0 when there is none.
Report == [version : Nat, approved : BOOLEAN, finalized : BOOLEAN]

Stored ==
  { s \in [status : Statuses, complete : BOOLEAN, photos : Seq(Photo),
           suggestions : Seq(Suggestion), severe : BOOLEAN, unestimated : BOOLEAN,
           graded : BOOLEAN, report : Report] :
      \A n \in DOMAIN s.suggestions : s.suggestions[n].photo \in DOMAIN s.photos }

-----------------------------------------------------------------------------
(* The server: MemoryStore.readinessIssues and what rests on it.           *)

Numbered(s, type, status) ==
  { n \in DOMAIN s.suggestions :
      s.suggestions[n].type = type /\ s.suggestions[n].status \in status }

Unreviewed == {"pending", "edited"}

acceptedAngles(s) == { s.suggestions[n].angle : n \in Numbered(s, "photo_angle", {"accepted"}) }
missingRequiredEvidence(s) == RequiredAngles \ acceptedAngles(s)

confirmedAngleForPhoto(s, p) ==
  LET accepted == { n \in Numbered(s, "photo_angle", {"accepted"}) : s.suggestions[n].photo = p } IN
  IF accepted # {} THEN s.suggestions[CHOOSE n \in accepted : \A m \in accepted : n <= m].angle
  ELSE IF s.photos[p].declared # NoAngle THEN s.photos[p].declared ELSE s.photos[p].detected

hasCleanReplacementEvidence(s, p) ==
  /\ confirmedAngleForPhoto(s, p) \in RequiredAngles
  /\ \E q \in DOMAIN s.photos :
       /\ s.photos[q].uploadedAt > s.photos[p].uploadedAt
       /\ s.photos[q].analysisStatus = "completed" /\ s.photos[q].qualityStatus = "ok"
       /\ confirmedAngleForPhoto(s, q) = confirmedAngleForPhoto(s, p)

\* The types of the issues of severity blocker; severe and unestimated damage is only watched.
Blockers(s) ==
  { type \in {"missing_required_angle", "image_analysis_failed", "image_quality_retake",
              "unreviewed_ai_suggestion", "condition_grade_missing", "final_report_missing"} :
      \/ type = "missing_required_angle" /\ missingRequiredEvidence(s) # {}
      \/ /\ type = "image_analysis_failed"
         /\ \E p \in DOMAIN s.photos : s.photos[p].analysisStatus = "failed"
      \/ /\ type = "image_quality_retake"
         /\ \/ Numbered(s, "quality_warning", Unreviewed) # {}
            \/ \E n \in Numbered(s, "quality_warning", {"accepted"}) :
                 ~hasCleanReplacementEvidence(s, s.suggestions[n].photo)
      \/ /\ type = "unreviewed_ai_suggestion"
         /\ \E t \in {"photo_angle", "damage_candidate", "extracted_text"} :
              Numbered(s, t, Unreviewed) # {}
      \/ type = "condition_grade_missing" /\ ~s.graded
      \/ type = "final_report_missing" /\ ~s.report.finalized }

watched(s) == s.severe \/ s.unestimated
buyerVisibleReady(s) == Blockers(s) = {}

\* finalizeReport for the version the caller has read.
finalizeAccepted(s, expectedVersion) ==
  /\ s.report.version > 0 /\ expectedVersion = s.report.version
  /\ ~s.report.finalized /\ s.report.approved
  /\ s.complete /\ Blockers(s) \subseteq {"final_report_missing"}
  /\ s.status \in {"AI_DRAFTED", "HUMAN_REVIEW_REQUIRED", "FINALIZED"}

\* MemoryStore.bundle.
bundle(s) ==
  [store |-> s, blockers |-> Blockers(s), watch |-> watched(s), ready |-> buyerVisibleReady(s)]

\* fallbackBundle: the page lists an inspection whose bundle did not load.
fallbackBundle(s) ==
  [store |-> [s EXCEPT !.photos = << >>, !.suggestions = << >>, !.severe = FALSE,
                       !.unestimated = FALSE,
                       !.report = [version |-> 0, approved |-> FALSE, finalized |-> FALSE]],
   blockers |-> IF Blockers(s) # {} \/ watched(s) THEN {"image_analysis_failed"} ELSE {},
   watch |-> FALSE, ready |-> buyerVisibleReady(s)]

-----------------------------------------------------------------------------
(* deriveMarketplaceReadiness, from a bundle.                              *)

pendingDamage(b) == Numbered(b.store, "damage_candidate", Unreviewed) # {}

unresolvedQualityIssues(b) ==
  \/ Numbered(b.store, "quality_warning", Unreviewed) # {}
  \/ \E p \in DOMAIN b.store.photos :
       b.store.photos[p].qualityStatus = "fail" \/ b.store.photos[p].analysisStatus = "failed"

crReady(b) ==
  /\ b.blockers \subseteq {"final_report_missing"}
  /\ missingRequiredEvidence(b.store) = {}
  /\ b.store.graded /\ ~pendingDamage(b) /\ ~unresolvedQualityIssues(b)

vdpReady(b) ==
  IF b.blockers # {} \/ b.watch THEN b.ready ELSE crReady(b) /\ b.store.report.finalized

vdpStatus(b) ==
  IF missingRequiredEvidence(b.store) # {} THEN "Needs evidence"
  ELSE IF vdpReady(b) THEN "VDP ready"
  ELSE IF b.store.report.finalized THEN "Needs review" ELSE "Needs final report"

-----------------------------------------------------------------------------
(* InspectionDetailPage: photos and guidance.                              *)

\* qualitySuggestionsByPhotoId: of several warnings of a photo the last one stays.
warningsOf(s, p) ==
  { n \in Numbered(s, "quality_warning", Unreviewed \cup {"accepted", "rejected"}) :
      s.suggestions[n].photo = p }

qualitySuggestion(s, p) == CHOOSE n \in warningsOf(s, p) : \A m \in warningsOf(s, p) : m <= n

reviewing(s, p) ==
  warningsOf(s, p) # {} /\ s.suggestions[qualitySuggestion(s, p)].status \in Unreviewed

terminalStatus(photo) == IF photo.job # "none" THEN photo.job ELSE photo.analysisStatus

photoQualityView(s, p) ==
  LET photo == s.photos[p] IN
  IF photo.reference
    THEN IF reviewing(s, p) THEN "review"
         ELSE IF photo.qualityStatus = "fail" THEN "retake" ELSE "ready"
  ELSE IF terminalStatus(photo) \in {"failed", "dead_letter"} THEN "failed"
  ELSE IF warningsOf(s, p) # {} /\ s.suggestions[qualitySuggestion(s, p)].retake THEN "retake"
  ELSE IF reviewing(s, p) \/ photo.unsure THEN "review"
  ELSE IF terminalStatus(photo) # "completed" THEN "pending" ELSE "ready"

\* capturedAngles: what a photo shows, or any angle suggestion names.
capturedAngles(s) ==
  { s.suggestions[n].angle : n \in Numbered(s, "photo_angle", Unreviewed \cup {"accepted", "rejected"}) }
  \cup ({ IF s.photos[p].detected # NoAngle THEN s.photos[p].detected ELSE s.photos[p].declared :
             p \in DOMAIN s.photos } \ {NoAngle})

Viewed(s, views) == { p \in DOMAIN s.photos : photoQualityView(s, p) \in views }

fieldGuidanceTone(s) ==
  IF Viewed(s, {"retake", "failed"}) # {} THEN "retake"
  ELSE IF RequiredAngles \ capturedAngles(s) # {} \/ Viewed(s, {"review", "pending"}) # {}
    THEN "review" ELSE "ready"

\* waitForPhotoAnalysisCompletion, asked of one bundle; the photos are those it was started for.
analysisAwaited(s, photos) ==
  LET found == photos \cap DOMAIN s.photos IN
  IF found # photos \/ \E p \in found : s.photos[p].analysisStatus \notin {"completed", "failed"}
    THEN "waiting"
  ELSE IF \E p \in found : s.photos[p].analysisStatus # "completed" THEN "failed" ELSE "completed"

\* The photos POST photos/analyze is asked for, and waited for afterwards.
photosToAnalyze(s) ==
  LET open == { p \in DOMAIN s.photos : s.photos[p].analysisStatus # "completed" } IN
  IF open # {} THEN open ELSE DOMAIN s.photos

-----------------------------------------------------------------------------
(* InspectionDetailPage: the actions a user with a role is offered.        *)

Offered(s, role, action) ==
  /\ canRole(role, action)
  /\ s.status # "FINALIZED"
  /\ action = "report:draft" => s.status \in {"GRADED", "REPORT_FAILED", "HUMAN_REVIEW_REQUIRED"}
  /\ action = "suggestion:assign" => \E n \in DOMAIN s.suggestions : s.suggestions[n].status \in Unreviewed
  /\ action \in {"report:edit", "report:approve", "report:finalize"} => s.report.version > 0
  /\ action \in {"report:approve", "report:finalize"} => ~s.report.finalized
  /\ action = "report:finalize" => s.report.approved

-----------------------------------------------------------------------------
(* workflowMetrics: the queues of the list of inspections.                 *)

isCaptureQueueInspection(s) == s.status \in {"DRAFT", "NEEDS_PHOTOS"} \/ ~s.complete

\* humanReviewFlag is set for the status HUMAN_REVIEW_REQUIRED only.
isReviewQueueInspection(s) ==
  s.status \in {"READY_FOR_GRADING", "GRADED", "AI_DRAFT_PENDING", "AI_DRAFTED",
                "HUMAN_REVIEW_REQUIRED", "REPORT_FAILED"}

inspectionNeedsWork(s) == s.status # "FINALIZED" \/ ~buyerVisibleReady(s) \/ watched(s)
=============================================================================
