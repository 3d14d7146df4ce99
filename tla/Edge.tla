-------------------------------- MODULE Edge --------------------------------
(***************************************************************************)
(* The edge deployment (functions/api/[[path]].ts): a second, smaller      *)
(* server around the same MemoryStore.  Every request reads a snapshot of  *)
(* the whole store from a key-value namespace, handles the request and, if *)
(* it changed something and succeeded, writes the whole store back.        *)
(*                                                                         *)
(* The namespace answers with any snapshot that was ever written: it is    *)
(* eventually consistent, and two isolates that read, handle and write in  *)
(* turn overwrite each other.  A snapshot leaves out report_versions,      *)
(* identity verifications and domain events.                               *)
(*                                                                         *)
(* Analysis and drafting await only local functions, so their handlers run *)
(* to completion; the grade request waits for the grading service.         *)
(***************************************************************************)
EXTENDS Reference

VARIABLE kv           \* the snapshots written so far

edgeVars == << allVars, kv >>

\* storeMapNames.
snapshotStore ==
  [ status |-> status, analysis |-> analysis, clean |-> clean, declared |-> declared,
    detected |-> detected, failedJob |-> failedJob, suggestion |-> suggestion,
    value |-> value, confirmed |-> confirmed, damage |-> damage, grade |-> grade,
    version |-> version, body |-> body, approvalStatus |-> approvalStatus,
    finalizedAt |-> finalizedAt ]

\* restoreStore: the store becomes the snapshot; what it lacks is gone.
restoreStore(s) ==
  /\ status' = s.status /\ analysis' = s.analysis /\ clean' = s.clean
  /\ declared' = s.declared /\ detected' = s.detected /\ failedJob' = s.failedJob
  /\ suggestion' = s.suggestion /\ value' = s.value /\ confirmed' = s.confirmed
  /\ damage' = s.damage /\ grade' = s.grade
  /\ version' = s.version /\ body' = s.body
  /\ approvalStatus' = s.approvalStatus /\ finalizedAt' = s.finalizedAt
  /\ versions' = << >>

\* loadStore, before a request is routed.
loadStore ==
  /\ \E s \in kv : restoreStore(s)
  /\ UNCHANGED << grading, draftVars, refVars, kv >>

\* saveStore, when the answer is a success: not after a refusal that had already changed
\* the store in memory.
saveStore == kv' \in {kv, kv \cup {snapshotStore'}}

-----------------------------------------------------------------------------
(* The routes.                                                             *)

\* POST photos/:id/analyze of a completed photo, without force: what there is is shown, and
\* the store written back as it was read.
showAnalysis(p) == analysis[p] = "completed" /\ UNCHANGED << status, evidenceVars >>

\* The local provider has analysed the photo; the first analysis of a seeded one is the
\* manifest's.
LocallyAnalysed(p) == \E n \in Runs : (p \in reference => n > 1) /\ ~Unsaved(p, n)

\* POST photos/:id/analyze: the job, its start and its result in one request.
analyze(p, n, angle, kinds, ok, force) ==
  /\ Mutable
  /\ analysis[p] # "absent"
  /\ analysis[p] = "completed" => force
  /\ ~LocallyAnalysed(p)
  /\ Unsaved(p, n) /\ \A m \in 1 .. n - 1 : ~Unsaved(p, m)
  /\ ok => "quality_warning" \notin kinds
  /\ analysis' = [analysis EXCEPT ![p] = "completed"]
  /\ clean' = IF ok THEN clean \cup {p} ELSE clean \ {p}
  /\ detected' = [detected EXCEPT ![p] = angle]
  /\ suggestion' = [s \in SuggestionIds |->
                      IF s[1] = p /\ s[2] = n /\ s[3] \in kinds \cup {"photo_angle"}
                        THEN "pending" ELSE suggestion[s]]
  /\ value' = [value EXCEPT ![<<p, n>>] = angle]
  /\ UNCHANGED << status, declared, failedJob, confirmed, damage >>

\* The same, by force or of a photo that is pending: saveAnalysis has a result of that provider
\* and keeps it, but the start of the job has made the photo pending.
analyzeAgain(p) ==
  /\ Mutable
  /\ LocallyAnalysed(p)
  /\ analysis' = [analysis EXCEPT ![p] = "pending"]
  /\ UNCHANGED << status, clean, declared, detected, failedJob, suggestion, value, confirmed, damage >>

\* POST inspections/:id/ai-report, with the local report provider: no cost guard, and no
\* status between the request and the text.
draft(humanReviewRequired) ==
  /\ grade # NoGrade
  /\ status \in {"GRADED", "REPORT_FAILED", "HUMAN_REVIEW_REQUIRED"}
  /\ status' = IF humanReviewRequired THEN "HUMAN_REVIEW_REQUIRED" ELSE "AI_DRAFTED"
  /\ nextVersion(version + 1, "draft", "generated")
  /\ UNCHANGED << finalizedAt, gradeVars, draftVars >>

PhotoRoutes ==
  \/ \E p \in Photos, a \in Angles \cup {NoAngle} : addPhoto(p, a)
  \/ \E p \in Photos, n \in Runs, a \in Angles, k \in SUBSET Findings, ok, force \in BOOLEAN :
       analyze(p, n, a, k, ok, force)
  \/ \E p \in Photos : showAnalysis(p) \/ analyzeAgain(p)

ReviewRoutes ==
  \/ \E s \in SuggestionIds, a \in Angles : editSuggestion(s, a)
  \/ \E s \in SuggestionIds : acceptSuggestion(s)
  \/ \E s \in SuggestionIds : rejectSuggestion(s)
  \/ changeDamage

\* There is no route to approve a report, and retry only names the route to use.
ReportRoutes ==
  \/ requestGrade(missingRequiredEvidence = {}, damage)
  \/ \E d \in 0 .. MaxDamage, g \in GradingVersions : saveGrade(d, g)
  \/ \E h \in BOOLEAN : draft(h)
  \/ patchReport
  \/ finalizeReport(Complete100 /\ EvidenceReady)

handleApi ==
  \/ (PhotoRoutes \/ ReviewRoutes) /\ UNCHANGED reportVars
  \/ ReportRoutes /\ UNCHANGED evidenceVars
  \/ \E to \in InspectionStatus : patchInspection(to)

-----------------------------------------------------------------------------
\* ensureSeeded; an inspection that a request creates starts as Init says.
EdgeInit == ReferenceInit /\ kv = {snapshotStore}

onRequest ==
  \/ loadStore
  \/ handleApi /\ UNCHANGED refVars /\ saveStore

EdgeSpec == EdgeInit /\ [][onRequest]_edgeVars
=============================================================================
