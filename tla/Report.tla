------------------------------- MODULE Report -------------------------------
(***************************************************************************)
(* The condition grade, the drafting of the report and its versions, for   *)
(* one inspection in one API process (apps/api/src/store.ts, app.ts).      *)
(*                                                                         *)
(* Handlers run to completion between two awaits, so a request that awaits *)
(* is several steps: a grade request waits for the grading service; a      *)
(* draft request waits for the cost guard (Bedrock only) and then for the  *)
(* report provider.  Everything else may run in between.                   *)
(*                                                                         *)
(* A draft request is a call slot, used once; the job it creates carries   *)
(* the slot's name.  The text of a report is named by the version that     *)
(* wrote it, so two versions with one text have the same body.             *)
(***************************************************************************)
EXTENDS StateMachine, Integers, Sequences

CONSTANTS
  Calls,              \* bound: draft requests
  Keys,               \* idempotency keys clients send
  NoKey, NoCall,
  NoGrade,
  GradingVersions,    \* who may answer a grade request: the service, the fallback
  MaxVersion,         \* bound: versions of the report
  Bedrock             \* is the report provider Bedrock, reached through the cost guard?

ASSUME ReportAssumption ==
  /\ MaxVersion \in Nat
  /\ Bedrock \in BOOLEAN
  /\ NoKey \notin Keys \cup Calls
  /\ Keys \cap Calls = {}
  /\ NoCall \notin Calls
  /\ NoGrade \notin [damage : Nat, gradingVersion : GradingVersions]

JobStatus == {"none", "pending", "running", "failed", "completed"}
Approval  == {"draft", "in_review", "approved", "finalized"}
Change    == {"generated", "edited", "approved", "finalized"}

VARIABLES
  grading,      \* damage contents sent to the grading service, answer pending
  grade,        \* the stored grade: the damage it was computed from, and who computed it
  pc,           \* draft request: "idle", "reserving", "generating" or "done"
  key,          \* its idempotency key
  job,          \* the job it drives
  jobStatus,    \* status of the job created by each call
  version, body, approvalStatus, finalizedAt,   \* the report; version 0: none yet
  versions      \* report_versions, oldest first

reportVars == << grading, grade, pc, key, job, jobStatus,
                 version, body, approvalStatus, finalizedAt, versions >>
gradeVars  == << grading, grade >>
draftVars  == << pc, key, job, jobStatus >>
textVars   == << version, body, approvalStatus, finalizedAt, versions >>

ReportInit ==
  /\ grading = {} /\ grade = NoGrade
  /\ pc = [c \in Calls |-> "idle"]
  /\ key = [c \in Calls |-> NoKey]
  /\ job = [c \in Calls |-> NoCall]
  /\ jobStatus = [c \in Calls |-> "none"]
  /\ version = 0 /\ body = 0
  /\ approvalStatus = "draft" /\ finalizedAt = FALSE
  /\ versions = << >>

-----------------------------------------------------------------------------
(* Grading.                                                                *)

\* Variant: the grade route trusts the status and does not look at the evidence.
requestGradeByStatus(evidenceComplete, damageList) ==
  /\ status \in {"READY_FOR_GRADING", "GRADED"}
  /\ grading' = grading \cup {damageList}
  /\ UNCHANGED << status, grade, draftVars, textVars >>

\* POST grade, up to the await of gradeCondition.
requestGrade(evidenceComplete, damageList) ==
  /\ evidenceComplete
  /\ status \in {"READY_FOR_GRADING", "GRADED"}
  /\ grading' = grading \cup {damageList}
  /\ UNCHANGED << status, grade, draftVars, textVars >>

\* saveGrade, when the service or, after 2.5 s, the fallback has answered: a grade of the same
\* grading version is kept as it is, one of another is replaced.  The new grade is stored before
\* the transition that may still be refused, and the status is not looked at again.
saveGrade(damageList, gradingVersion) ==
  /\ damageList \in grading
  /\ grading' = grading \ {damageList}
  /\ IF grade # NoGrade /\ grade.gradingVersion = gradingVersion
       THEN UNCHANGED << status, grade >>
       ELSE /\ grade' = [damage |-> damageList, gradingVersion |-> gradingVersion]
            /\ tryTransition("GRADED")
  /\ UNCHANGED << draftVars, textVars >>

-----------------------------------------------------------------------------
(* Drafting.                                                               *)

\* A job createReportJob returns instead of creating one.
ActiveJobs(k) ==
  { j \in Calls : /\ jobStatus[j] \in {"pending", "running"}
                  /\ k = NoKey \/ key[j] = k }

\* createReportJob, then markJobRunning.  A new job is stored before the
\* transition to AI_DRAFT_PENDING, whose refusal leaves it pending.
createReportJob(c, k) ==
  \/ \E j \in ActiveJobs(k) :
       /\ job' = [job EXCEPT ![c] = j]
       /\ jobStatus' = [jobStatus EXCEPT ![j] = "running"]
       /\ pc' = [pc EXCEPT ![c] = "generating"]
       /\ UNCHANGED status
  \/ /\ ActiveJobs(k) = {}
     /\ transition("AI_DRAFT_PENDING")
     /\ job' = [job EXCEPT ![c] = c]
     /\ jobStatus' = [jobStatus EXCEPT ![c] = "running"]
     /\ pc' = [pc EXCEPT ![c] = "generating"]
  \/ /\ ActiveJobs(k) = {}
     /\ ~canTransition(status, "AI_DRAFT_PENDING")
     /\ jobStatus' = [jobStatus EXCEPT ![c] = "pending"]
     /\ pc' = [pc EXCEPT ![c] = "done"]
     /\ UNCHANGED << status, job >>

\* draftInspectionReport, up to its first await.
draftInspectionReport(c, k) ==
  /\ pc[c] = "idle"
  /\ grade # NoGrade
  /\ status \in {"GRADED", "REPORT_FAILED", "HUMAN_REVIEW_REQUIRED"}
  /\ key' = [key EXCEPT ![c] = k]
  /\ IF Bedrock
       THEN pc' = [pc EXCEPT ![c] = "reserving"] /\ UNCHANGED << status, job, jobStatus >>
       ELSE createReportJob(c, k)
  /\ UNCHANGED << gradeVars, textVars >>

\* POST ai-report, with or without an idempotency key.
requestDraft(c) == \E k \in Keys \cup {NoKey} : draftInspectionReport(c, k)

\* POST ai-report-jobs/:id/retry of a failed job, under a key of its own.
retryDraft(c) ==
  /\ \E j \in Calls : jobStatus[j] = "failed"
  /\ draftInspectionReport(c, c)

\* reserveBedrockUsage answers.
reserved(c) ==
  /\ pc[c] = "reserving"
  /\ createReportJob(c, key[c])
  /\ UNCHANGED << key, gradeVars, textVars >>

costGuardReached(c) ==
  /\ pc[c] = "reserving"
  /\ pc' = [pc EXCEPT ![c] = "done"]
  /\ UNCHANGED << status, key, job, jobStatus, gradeVars, textVars >>

-----------------------------------------------------------------------------
(* The report and its versions.                                            *)

\* Variant: an edit overwrites the current version in place of making the next one.
nextVersionUnlessEdited(b, a, change) ==
  /\ version < MaxVersion
  /\ version' = IF change = "edited" THEN version ELSE version + 1
  /\ body' = b
  /\ approvalStatus' = a
  /\ versions' = Append(versions, [version |-> version', body |-> b,
                                   approvalStatus |-> a, change |-> change])

\* The report moves to its next version, with text b and approval a, and
\* recordReportVersion appends the copy.
nextVersion(b, a, change) ==
  /\ version < MaxVersion
  /\ version' = version + 1
  /\ body' = b
  /\ approvalStatus' = a
  /\ versions' = Append(versions, [version |-> version + 1, body |-> b,
                                   approvalStatus |-> a, change |-> change])

\* Variants: the failure is not recorded on the job; the inspection keeps waiting.
failReportJobUnrecorded(c) ==
  /\ pc' = [pc EXCEPT ![c] = "done"]
  /\ tryTransition("REPORT_FAILED")
  /\ UNCHANGED jobStatus

failReportJobStatusKept(c) ==
  /\ jobStatus' = [jobStatus EXCEPT ![job[c]] = "failed"]
  /\ pc' = [pc EXCEPT ![c] = "done"]
  /\ UNCHANGED status

\* failReportJob: the job is failed even if the transition is then refused.
failReportJob(c) ==
  /\ jobStatus' = [jobStatus EXCEPT ![job[c]] = "failed"]
  /\ pc' = [pc EXCEPT ![c] = "done"]
  /\ tryTransition("REPORT_FAILED")

\* Variant: completeReportJob does not take back the approval of the text it replaces.
completeReportJobStillApproved(c, humanReviewRequired) ==
  LET next == IF humanReviewRequired THEN "HUMAN_REVIEW_REQUIRED" ELSE "AI_DRAFTED" IN
  /\ pc[c] = "generating"
  /\ nextVersion(version + 1, approvalStatus, "generated")
  /\ IF canTransition(status, next)
       THEN /\ transition(next)
            /\ jobStatus' = [jobStatus EXCEPT ![job[c]] = "completed"]
            /\ pc' = [pc EXCEPT ![c] = "done"]
       ELSE failReportJob(c)
  /\ UNCHANGED << key, job, finalizedAt, gradeVars >>

\* completeReportJob: a new text, first or not, in status draft.  Nothing asks
\* whether the report is finalized.  A refused transition is an error of the
\* handler, which then fails the job; the text stays.
completeReportJob(c, humanReviewRequired) ==
  LET next == IF humanReviewRequired THEN "HUMAN_REVIEW_REQUIRED" ELSE "AI_DRAFTED" IN
  /\ pc[c] = "generating"
  /\ nextVersion(version + 1, "draft", "generated")
  /\ IF canTransition(status, next)
       THEN /\ transition(next)
            /\ jobStatus' = [jobStatus EXCEPT ![job[c]] = "completed"]
            /\ pc' = [pc EXCEPT ![c] = "done"]
       ELSE failReportJob(c)
  /\ UNCHANGED << key, job, finalizedAt, gradeVars >>

\* The provider failed or its answer did not validate.
providerFailed(c) ==
  /\ pc[c] = "generating"
  /\ failReportJob(c)
  /\ UNCHANGED << key, job, gradeVars, textVars >>

\* Variant: patchReport without the check that the report is not finalized.
patchReportAlways ==
  /\ version > 0
  /\ nextVersion(version + 1, "in_review", "edited")
  /\ UNCHANGED << status, finalizedAt, gradeVars, draftVars >>

\* PATCH reports/:id by a reviewer.
patchReport ==
  /\ version > 0 /\ ~finalizedAt
  /\ nextVersion(version + 1, "in_review", "edited")
  /\ UNCHANGED << status, finalizedAt, gradeVars, draftVars >>

\* POST reports/:id/approve with the version the reviewer has read.
approveReport(expectedVersion) ==
  /\ version > 0 /\ expectedVersion = version
  /\ ~finalizedAt
  /\ nextVersion(body, "approved", "approved")
  /\ UNCHANGED << status, finalizedAt, gradeVars, draftVars >>

\* Variant: finalizeReport without the readiness check.
finalizeReportUnready(evidenceReady) ==
  /\ version > 0 /\ ~finalizedAt
  /\ approvalStatus = "approved"
  /\ transition("FINALIZED")
  /\ finalizedAt' = TRUE
  /\ nextVersion(body, "finalized", "finalized")
  /\ UNCHANGED << gradeVars, draftVars >>

\* POST reports/:id/finalize.  The evidence component says whether it is complete
\* and free of blockers; the grade is the blocker that is left to check.
finalizeReport(evidenceReady) ==
  /\ version > 0 /\ ~finalizedAt
  /\ approvalStatus = "approved"
  /\ evidenceReady
  /\ grade # NoGrade
  /\ transition("FINALIZED")
  /\ finalizedAt' = TRUE
  /\ nextVersion(body, "finalized", "finalized")
  /\ UNCHANGED << gradeVars, draftVars >>
=============================================================================
