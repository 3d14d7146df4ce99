--------------------------- MODULE ReleaseProofs ----------------------------
(***************************************************************************)
(* Proofs about Release, for every number of photos, analyses, draft       *)
(* requests, angles and versions.                                          *)
(***************************************************************************)
EXTENDS Release, SequenceTheorems, TLAPS

-----------------------------------------------------------------------------
(* Type correctness.                                                       *)

\* The part of the type invariant that speaks of the evidence.
EvidenceTypeOK ==
  /\ analysis \in [Photos -> AnalysisStatus]
  /\ clean \subseteq Photos
  /\ declared \in [Photos -> Angles \cup {NoAngle}]
  /\ detected \in [Photos -> Angles \cup {NoAngle}]
  /\ failedJob \subseteq Photos
  /\ suggestion \in [SuggestionIds -> SuggestionStatus]
  /\ value \in [Photos \X Runs -> Angles \cup {NoAngle}]
  /\ confirmed \subseteq RequiredAngles
  /\ damage \in Nat

\* The part that speaks of grade, drafts and report.
VersionRecords == [version : Nat, body : Nat, approvalStatus : Approval, change : Change]

ReportTypeOK ==
  /\ grading \subseteq Nat
  /\ grade \in [damage : Nat, gradingVersion : GradingVersions] \cup {NoGrade}
  /\ pc \in [Calls -> {"idle", "reserving", "generating", "done"}]
  /\ key \in [Calls -> Keys \cup Calls \cup {NoKey}]
  /\ job \in [Calls -> Calls \cup {NoCall}]
  /\ jobStatus \in [Calls -> JobStatus]
  /\ version \in Nat /\ body \in Nat
  /\ approvalStatus \in Approval
  /\ finalizedAt \in BOOLEAN
  /\ versions \in Seq(VersionRecords)

\* The type invariant is the status, the evidence part and the report part.
LEMMA TypeOKSplit == TypeOK <=> status \in InspectionStatus /\ EvidenceTypeOK /\ ReportTypeOK
  BY DEF TypeOK, EvidenceTypeOK, ReportTypeOK, VersionRecords

\* No step of the evidence component leaves the types.
LEMMA EvidenceTypeStep ==
  ASSUME TypeOK, EvidenceNext
  PROVE  status' \in InspectionStatus /\ EvidenceTypeOK'
<1>1. status \in InspectionStatus /\ EvidenceTypeOK
  BY TypeOKSplit
<1>a. RequiredAngles \subseteq Angles
  BY EvidenceAssumption DEF EvidenceAssumption
<1>2. ASSUME NEW p \in Photos, NEW a \in Angles \cup {NoAngle}, addPhoto(p, a)
      PROVE  status' \in InspectionStatus /\ EvidenceTypeOK'
  BY <1>1, <1>2 DEF addPhoto, EvidenceTypeOK, AnalysisStatus, InspectionStatus
<1>3. ASSUME NEW p \in Photos, startAnalysis(p)
      PROVE  status' \in InspectionStatus /\ EvidenceTypeOK'
  BY <1>1, <1>3 DEF startAnalysis, JobMovesOn, EvidenceTypeOK, AnalysisStatus
<1>4. ASSUME NEW p \in Photos, NEW n \in Runs, NEW a \in Angles, NEW k \in SUBSET Findings,
             NEW ok \in BOOLEAN, saveAnalysis(p, n, a, k, ok)
      PROVE  status' \in InspectionStatus /\ EvidenceTypeOK'
  <2>1. suggestion' \in [SuggestionIds -> SuggestionStatus]
    BY <1>1, <1>4 DEF saveAnalysis, EvidenceTypeOK, SuggestionStatus
  <2>2. value' \in [Photos \X Runs -> Angles \cup {NoAngle}]
    BY <1>1, <1>4 DEF saveAnalysis, EvidenceTypeOK
  <2>3. analysis' \in [Photos -> AnalysisStatus] /\ detected' \in [Photos -> Angles \cup {NoAngle}]
    BY <1>1, <1>4 DEF saveAnalysis, EvidenceTypeOK, AnalysisStatus
  <2>4. clean' \subseteq Photos /\ failedJob' \subseteq Photos
    BY <1>1, <1>4 DEF saveAnalysis, JobMovesOn, EvidenceTypeOK
  <2> QED
    BY <1>1, <1>4, <2>1, <2>2, <2>3, <2>4 DEF saveAnalysis, EvidenceTypeOK
<1>5. ASSUME NEW p \in Photos, failAnalysis(p)
      PROVE  status' \in InspectionStatus /\ EvidenceTypeOK'
  BY <1>1, <1>5 DEF failAnalysis, EvidenceTypeOK, AnalysisStatus
<1>6. ASSUME recoverFailedJobs
      PROVE  status' \in InspectionStatus /\ EvidenceTypeOK'
  BY <1>1, <1>6 DEF recoverFailedJobs, EvidenceTypeOK, AnalysisStatus
<1>7. ASSUME NEW s \in SuggestionIds, NEW a \in Angles, editSuggestion(s, a)
      PROVE  status' \in InspectionStatus /\ EvidenceTypeOK'
  <2>1. suggestion' \in [SuggestionIds -> SuggestionStatus]
    BY <1>1, <1>7 DEF editSuggestion, EvidenceTypeOK, SuggestionStatus
  <2>2. value' \in [Photos \X Runs -> Angles \cup {NoAngle}]
    BY <1>1, <1>7 DEF editSuggestion, EvidenceTypeOK
  <2> QED
    BY <1>1, <1>7, <2>1, <2>2 DEF editSuggestion, EvidenceTypeOK
<1>8. ASSUME NEW s \in SuggestionIds, acceptSuggestion(s)
      PROVE  status' \in InspectionStatus /\ EvidenceTypeOK'
  <2>1. suggestion' \in [SuggestionIds -> SuggestionStatus]
    BY <1>1, <1>8 DEF acceptSuggestion, EvidenceTypeOK, SuggestionStatus
  <2>2. declared' \in [Photos -> Angles \cup {NoAngle}]
    BY <1>1, <1>8 DEF acceptSuggestion, EvidenceTypeOK, SuggestionIds
  <2>3. damage' \in Nat
    BY <1>1, <1>8 DEF acceptSuggestion, ChangeDamage, EvidenceTypeOK
  <2>4. confirmed' \subseteq RequiredAngles /\ status' \in InspectionStatus
    BY <1>1, <1>8 DEF acceptSuggestion, recomputeCompleteness, InspectionStatus
  <2> QED
    BY <1>1, <1>8, <2>1, <2>2, <2>3, <2>4 DEF acceptSuggestion, EvidenceTypeOK
<1>9. ASSUME NEW s \in SuggestionIds, rejectSuggestion(s)
      PROVE  status' \in InspectionStatus /\ EvidenceTypeOK'
  BY <1>1, <1>9 DEF rejectSuggestion, EvidenceTypeOK, SuggestionStatus
<1>10. ASSUME changeDamage
       PROVE  status' \in InspectionStatus /\ EvidenceTypeOK'
  BY <1>1, <1>10 DEF changeDamage, ChangeDamage, EvidenceTypeOK
<1> QED
  BY EvidenceNext, <1>2, <1>3, <1>4, <1>5, <1>6, <1>7, <1>8, <1>9, <1>10 DEF EvidenceNext

\* The next version of a report, appended to its history, is a version record.
LEMMA NextVersionType ==
  ASSUME ReportTypeOK, NEW b \in Nat, NEW a \in Approval, NEW ch \in Change,
         nextVersion(b, a, ch)
  PROVE  /\ version' \in Nat /\ body' \in Nat /\ approvalStatus' \in Approval
         /\ versions' \in Seq(VersionRecords)
<1>1. [version |-> version + 1, body |-> b, approvalStatus |-> a, change |-> ch]
        \in VersionRecords
  BY DEF ReportTypeOK, VersionRecords
<1>2. versions' \in Seq(VersionRecords)
  BY <1>1, AppendProperties DEF nextVersion, ReportTypeOK
<1> QED
  BY <1>2 DEF nextVersion, ReportTypeOK

\* No step of the report component leaves the types.
LEMMA ReportTypeStep ==
  ASSUME TypeOK, ReportNext
  PROVE  status' \in InspectionStatus /\ ReportTypeOK'
<1>1. status \in InspectionStatus /\ EvidenceTypeOK /\ ReportTypeOK
  BY TypeOKSplit
<1> DEFINE Goal == status' \in InspectionStatus /\ ReportTypeOK'
<1>2. ASSUME requestGrade(missingRequiredEvidence = {}, damage)
      PROVE  Goal
  BY <1>1, <1>2 DEF requestGrade, EvidenceTypeOK, ReportTypeOK, draftVars, textVars
<1>3. ASSUME NEW d \in 0 .. MaxDamage, NEW g \in GradingVersions, saveGrade(d, g)
      PROVE  Goal
  <2>1. d \in Nat
    BY EvidenceAssumption DEF EvidenceAssumption
  <2> QED
    BY <1>1, <1>3, <2>1 DEF saveGrade, tryTransition, ReportTypeOK,
                            InspectionStatus, draftVars, textVars
<1>4. ASSUME NEW c \in Calls, NEW k \in Keys \cup Calls \cup {NoKey}, createReportJob(c, k)
      PROVE  /\ status' \in InspectionStatus
             /\ pc' \in [Calls -> {"idle", "reserving", "generating", "done"}]
             /\ job' \in [Calls -> Calls \cup {NoCall}]
             /\ jobStatus' \in [Calls -> JobStatus]
  BY <1>1, <1>4 DEF createReportJob, ActiveJobs, transition, ReportTypeOK,
                    InspectionStatus, JobStatus
<1>5. ASSUME NEW c \in Calls, NEW k \in Keys \cup Calls \cup {NoKey}, draftInspectionReport(c, k)
      PROVE  Goal
  <2>1. key' \in [Calls -> Keys \cup Calls \cup {NoKey}]
    BY <1>1, <1>5 DEF draftInspectionReport, ReportTypeOK
  <2>2. CASE Bedrock
    BY <1>1, <1>5, <2>1, <2>2 DEF draftInspectionReport, ReportTypeOK, gradeVars, textVars
  <2>3. CASE ~Bedrock
    BY <1>1, <1>4, <1>5, <2>1, <2>3 DEF draftInspectionReport, ReportTypeOK, gradeVars, textVars
  <2> QED
    BY <2>2, <2>3
<1>6. ASSUME NEW c \in Calls, requestDraft(c) \/ retryDraft(c)
      PROVE  Goal
  BY <1>5, <1>6 DEF requestDraft, retryDraft
<1>7. ASSUME NEW c \in Calls, reserved(c)
      PROVE  Goal
  <2>1. key[c] \in Keys \cup Calls \cup {NoKey}
    BY <1>1 DEF ReportTypeOK
  <2> QED
    BY <1>1, <1>4, <1>7, <2>1 DEF reserved, ReportTypeOK, gradeVars, textVars
<1>8. ASSUME NEW c \in Calls, costGuardReached(c)
      PROVE  Goal
  BY <1>1, <1>8 DEF costGuardReached, ReportTypeOK, gradeVars, textVars
<1>9. ASSUME NEW c \in Calls, failReportJob(c)
      PROVE  /\ status' \in InspectionStatus
             /\ pc' \in [Calls -> {"idle", "reserving", "generating", "done"}]
             /\ jobStatus' \in [Calls -> JobStatus]
  BY <1>1, <1>9 DEF failReportJob, tryTransition, ReportTypeOK, InspectionStatus, JobStatus
<1>10. ASSUME NEW c \in Calls, NEW h \in BOOLEAN, completeReportJob(c, h)
       PROVE  Goal
  <2>1. nextVersion(version + 1, "draft", "generated")
    BY <1>10 DEF completeReportJob
  <2>2. /\ version' \in Nat /\ body' \in Nat /\ approvalStatus' \in Approval
        /\ versions' \in Seq(VersionRecords)
    BY <1>1, <2>1, NextVersionType DEF ReportTypeOK, Approval, Change
  <2>3. /\ status' \in InspectionStatus
        /\ pc' \in [Calls -> {"idle", "reserving", "generating", "done"}]
        /\ jobStatus' \in [Calls -> JobStatus]
    BY <1>1, <1>9, <1>10 DEF completeReportJob, transition, ReportTypeOK, InspectionStatus, JobStatus
  <2> QED
    BY <1>1, <1>10, <2>2, <2>3 DEF completeReportJob, ReportTypeOK, gradeVars
<1>11. ASSUME NEW c \in Calls, providerFailed(c)
       PROVE  Goal
  BY <1>1, <1>9, <1>11 DEF providerFailed, ReportTypeOK, gradeVars, textVars
<1>12. ASSUME patchReport
       PROVE  Goal
  <2>1. nextVersion(version + 1, "in_review", "edited")
    BY <1>12 DEF patchReport
  <2>2. /\ version' \in Nat /\ body' \in Nat /\ approvalStatus' \in Approval
        /\ versions' \in Seq(VersionRecords)
    BY <1>1, <2>1, NextVersionType DEF ReportTypeOK, Approval, Change
  <2> QED
    BY <1>1, <1>12, <2>2 DEF patchReport, ReportTypeOK, gradeVars, draftVars
<1>13. ASSUME NEW v \in 1 .. MaxVersion, approveReport(v)
       PROVE  Goal
  <2>1. nextVersion(body, "approved", "approved")
    BY <1>13 DEF approveReport
  <2>2. /\ version' \in Nat /\ body' \in Nat /\ approvalStatus' \in Approval
        /\ versions' \in Seq(VersionRecords)
    BY <1>1, <2>1, NextVersionType DEF ReportTypeOK, Approval, Change
  <2> QED
    BY <1>1, <1>13, <2>2 DEF approveReport, ReportTypeOK, gradeVars, draftVars
<1>14. ASSUME finalizeReport(Complete100 /\ EvidenceReady)
       PROVE  Goal
  <2>1. nextVersion(body, "finalized", "finalized")
    BY <1>14 DEF finalizeReport
  <2>2. /\ version' \in Nat /\ body' \in Nat /\ approvalStatus' \in Approval
        /\ versions' \in Seq(VersionRecords)
    BY <1>1, <2>1, NextVersionType DEF ReportTypeOK, Approval, Change
  <2> QED
    BY <1>1, <1>14, <2>2 DEF finalizeReport, transition, ReportTypeOK, InspectionStatus,
                             gradeVars, draftVars
<1> QED
  BY ReportNext, <1>2, <1>3, <1>6, <1>7, <1>8, <1>10, <1>11, <1>12, <1>13, <1>14 DEF ReportNext

\* A new inspection has the types.
LEMMA InitType ==
  ASSUME Init
  PROVE  TypeOK
<1>1. status \in InspectionStatus /\ EvidenceTypeOK
  BY DEF Init, EvidenceInit, EvidenceTypeOK, InspectionStatus, AnalysisStatus, SuggestionStatus
<1>2. versions \in Seq(VersionRecords)
  BY EmptySeq DEF Init, ReportInit
<1>3. ReportTypeOK
  BY <1>2 DEF Init, ReportInit, ReportTypeOK, JobStatus, Approval
<1> QED
  BY <1>1, <1>3, TypeOKSplit

\* No step leaves the types.
LEMMA TypeStep ==
  ASSUME TypeOK, [Next]_vars
  PROVE  TypeOK'
<1>1. status \in InspectionStatus /\ EvidenceTypeOK /\ ReportTypeOK
  BY TypeOKSplit
<1> SUFFICES status' \in InspectionStatus /\ EvidenceTypeOK' /\ ReportTypeOK'
  BY DEF TypeOK, EvidenceTypeOK, ReportTypeOK, VersionRecords
<1>2. CASE EvidenceNext /\ UNCHANGED reportVars
  BY <1>1, <1>2, EvidenceTypeStep DEF reportVars, ReportTypeOK
<1>3. CASE ReportNext /\ UNCHANGED evidenceVars
  BY <1>1, <1>3, ReportTypeStep DEF evidenceVars, EvidenceTypeOK
<1>4. ASSUME NEW to \in InspectionStatus, patchInspection(to)
      PROVE  status' \in InspectionStatus /\ EvidenceTypeOK' /\ ReportTypeOK'
  BY <1>1, <1>4 DEF patchInspection, transition, evidenceVars, reportVars,
                    EvidenceTypeOK, ReportTypeOK
<1>5. CASE UNCHANGED vars
  BY <1>1, <1>5 DEF vars, evidenceVars, reportVars, EvidenceTypeOK, ReportTypeOK
<1> QED
  BY <1>2, <1>3, <1>4, <1>5 DEF Next

\* Every reachable state has the types of TypeOK.
THEOREM TypeCorrect == Spec => []TypeOK
  BY InitType, TypeStep, PTL DEF Spec

-----------------------------------------------------------------------------
(* Accepted angles and the completeness cached from them.                  *)

Accepted == AcceptedAngles(suggestion, value)

AngleAccepted(r) == suggestion[<<r[1], r[2], "photo_angle">>] = "accepted"

\* The accepted angles depend on which angle suggestions are accepted, and on the
\* values of those alone.
LEMMA SameAccepted ==
  ASSUME \A r \in Photos \X Runs :
           /\ AngleAccepted(r)' <=> AngleAccepted(r)
           /\ AngleAccepted(r) => value'[r] = value[r]
  PROVE  Accepted' = Accepted
  BY DEF Accepted, AcceptedAngles, AngleAccepted

\* The identifier of an angle suggestion.
LEMMA AngleSuggestionId ==
  ASSUME NEW r \in Photos \X Runs
  PROVE  /\ <<r[1], r[2], "photo_angle">> \in SuggestionIds
         /\ r = <<r[1], r[2]>>
  BY DEF SuggestionIds, Kinds

\* Only acceptSuggestion changes the accepted angles; it adds to them and computes the
\* completeness from them again.
LEMMA AcceptedStep ==
  ASSUME TypeOK, EvidenceNext
  PROVE  \/ Accepted' = Accepted /\ confirmed' = confirmed
         \/ Accepted \subseteq Accepted' /\ confirmed' = RequiredAngles \cap Accepted'
<1> DEFINE Same == Accepted' = Accepted /\ confirmed' = confirmed
<1>1. ASSUME UNCHANGED << suggestion, value, confirmed >>
      PROVE  Same
  BY <1>1 DEF Accepted, AcceptedAngles
<1>2. ASSUME NEW p \in Photos, NEW n \in Runs, NEW a \in Angles, NEW k \in SUBSET Findings,
             NEW ok \in BOOLEAN, saveAnalysis(p, n, a, k, ok)
      PROVE  Same
  <2>1. ASSUME NEW r \in Photos \X Runs
        PROVE  /\ AngleAccepted(r)' <=> AngleAccepted(r)
               /\ AngleAccepted(r) => value'[r] = value[r]
    <3>1. CASE r = <<p, n>>
      BY <1>2, <3>1, AngleSuggestionId DEF saveAnalysis, Unsaved, Kinds, AngleAccepted
    <3>2. CASE r # <<p, n>>
      BY <1>2, <3>2, AngleSuggestionId DEF saveAnalysis, AngleAccepted, TypeOK
    <3> QED
      BY <3>1, <3>2
  <2> QED
    BY <1>2, <2>1, SameAccepted DEF saveAnalysis
<1>3. ASSUME NEW s \in SuggestionIds, NEW a \in Angles, editSuggestion(s, a)
      PROVE  Same
  <2>1. ASSUME NEW r \in Photos \X Runs
        PROVE  /\ AngleAccepted(r)' <=> AngleAccepted(r)
               /\ AngleAccepted(r) => value'[r] = value[r]
    <3>1. CASE s = <<r[1], r[2], "photo_angle">>
      BY <1>3, <3>1 DEF editSuggestion, Open, AngleAccepted, TypeOK
    <3>2. CASE s # <<r[1], r[2], "photo_angle">>
      <4>1. AngleAccepted(r)' <=> AngleAccepted(r)
        BY <1>3, <3>2, AngleSuggestionId DEF editSuggestion, AngleAccepted, TypeOK
      <4>2. s[3] = "photo_angle" => r # <<s[1], s[2]>>
        BY <3>2 DEF SuggestionIds
      <4>3. value'[r] = value[r]
        BY <1>3, <4>2 DEF editSuggestion, TypeOK
      <4> QED
        BY <4>1, <4>3
    <3> QED
      BY <3>1, <3>2
  <2> QED
    BY <1>3, <2>1, SameAccepted DEF editSuggestion
<1>4. ASSUME NEW s \in SuggestionIds, rejectSuggestion(s)
      PROVE  Same
  <2>1. ASSUME NEW r \in Photos \X Runs
        PROVE  AngleAccepted(r)' <=> AngleAccepted(r)
    BY <1>4, AngleSuggestionId DEF rejectSuggestion, Open, AngleAccepted, TypeOK
  <2> QED
    BY <1>4, <2>1, SameAccepted DEF rejectSuggestion
<1>5. ASSUME NEW s \in SuggestionIds, acceptSuggestion(s)
      PROVE  Accepted \subseteq Accepted' /\ confirmed' = RequiredAngles \cap Accepted'
  <2>1. ASSUME NEW r \in Photos \X Runs, AngleAccepted(r)
        PROVE  AngleAccepted(r)'
    BY <1>5, <2>1, AngleSuggestionId DEF acceptSuggestion, AngleAccepted, TypeOK
  <2>2. Accepted \subseteq Accepted'
    BY <1>5, <2>1 DEF acceptSuggestion, Accepted, AcceptedAngles, AngleAccepted
  <2>3. confirmed' = RequiredAngles \cap Accepted'
    BY <1>5 DEF acceptSuggestion, recomputeCompleteness, Accepted, AcceptedAngles
  <2> QED
    BY <2>2, <2>3
<1> QED
  BY EvidenceNext, <1>1, <1>2, <1>3, <1>4, <1>5
     DEF EvidenceNext, addPhoto, startAnalysis, failAnalysis, recoverFailedJobs, changeDamage

\* Steps outside the evidence component leave it alone.
LEMMA OtherStep ==
  ASSUME [Next]_vars, ~(EvidenceNext /\ UNCHANGED reportVars)
  PROVE  UNCHANGED evidenceVars
  BY DEF Next, patchInspection, vars

\* A new inspection has no accepted angle.
LEMMA InitCompleteness == Init => CompletenessIsCurrent
  BY DEF Init, EvidenceInit, CompletenessIsCurrent, AcceptedAngles, SuggestionIds, Kinds

\* The cached completeness always is what the accepted angle suggestions give.
THEOREM CompletenessCurrent == Spec => []CompletenessIsCurrent
<1>1. Init => CompletenessIsCurrent
  BY InitCompleteness
<1>2. TypeOK /\ CompletenessIsCurrent /\ [Next]_vars => CompletenessIsCurrent'
  <2> SUFFICES ASSUME TypeOK, CompletenessIsCurrent, [Next]_vars
               PROVE  CompletenessIsCurrent'
    OBVIOUS
  <2>1. CASE EvidenceNext
    BY <2>1, AcceptedStep DEF CompletenessIsCurrent, Accepted
  <2>2. CASE UNCHANGED evidenceVars
    BY <2>2 DEF evidenceVars, CompletenessIsCurrent, AcceptedAngles
  <2> QED
    BY <2>1, <2>2, OtherStep
<1> QED
  BY <1>1, <1>2, TypeCorrect, PTL DEF Spec
-----------------------------------------------------------------------------
(* The grade, and what finalization saw.                                   *)

\* A grade that was asked for was asked for on complete evidence, and evidence once
\* complete stays complete: an accepted suggestion is never open again.
GradeInv == (grading # {} \/ grade # NoGrade) => missingRequiredEvidence = {}

\* No step takes an accepted angle away again.
LEMMA EvidenceStaysComplete ==
  ASSUME TypeOK, [Next]_vars, missingRequiredEvidence = {}
  PROVE  missingRequiredEvidence' = {}
<1>1. RequiredAngles \subseteq Accepted
  BY DEF missingRequiredEvidence, Accepted
<1>2. Accepted \subseteq Accepted'
  <2>1. CASE EvidenceNext
    BY <2>1, AcceptedStep
  <2>2. CASE UNCHANGED evidenceVars
    BY <2>2 DEF evidenceVars, Accepted, AcceptedAngles
  <2> QED
    BY <2>1, <2>2, OtherStep
<1> QED
  BY <1>1, <1>2 DEF missingRequiredEvidence, Accepted

\* How the grade and the requests for one can change.
LEMMA GradeStep ==
  ASSUME [Next]_vars
  PROVE  \/ UNCHANGED gradeVars
         \/ missingRequiredEvidence = {} /\ UNCHANGED grade
         \/ grading # {}
<1>1. CASE ReportNext
  <2>1. CASE requestGrade(missingRequiredEvidence = {}, damage)
    BY <2>1 DEF requestGrade
  <2>2. CASE \E d \in 0 .. MaxDamage, g \in GradingVersions : saveGrade(d, g)
    BY <2>2 DEF saveGrade
  <2>3. CASE \E c \in Calls : requestDraft(c) \/ retryDraft(c) \/ reserved(c) \/ costGuardReached(c)
    BY <2>3 DEF requestDraft, retryDraft, draftInspectionReport, reserved, costGuardReached
  <2>4. CASE \E c \in Calls : providerFailed(c) \/ \E h \in BOOLEAN : completeReportJob(c, h)
    BY <2>4 DEF providerFailed, completeReportJob
  <2>5. CASE \/ patchReport
             \/ \E v \in 1 .. MaxVersion : approveReport(v)
             \/ finalizeReport(Complete100 /\ EvidenceReady)
    BY <2>5 DEF patchReport, approveReport, finalizeReport
  <2> QED
    BY <1>1, <2>1, <2>2, <2>3, <2>4, <2>5 DEF ReportNext
<1>2. CASE UNCHANGED reportVars
  BY <1>2 DEF reportVars, gradeVars
<1> QED
  BY <1>1, <1>2 DEF Next, patchInspection, vars

\* The strengthened grade invariant is inductive.
LEMMA GradeInvStep ==
  ASSUME TypeOK, GradeInv, [Next]_vars
  PROVE  GradeInv'
  BY GradeStep, EvidenceStaysComplete DEF GradeInv, gradeVars

\* A stored grade stands on complete, accepted evidence.
THEOREM GradeOnEvidence == Spec => []GradeRestsOnEvidence
<1>1. Init => GradeInv
  BY DEF Init, ReportInit, GradeInv
<1>2. GradeInv => GradeRestsOnEvidence
  BY DEF GradeInv, GradeRestsOnEvidence
<1> QED
  BY <1>1, <1>2, GradeInvStep, TypeCorrect, PTL DEF Spec

\* Only one of the service and the fallback ever answers a grade request.
OneGrader == \A g, h \in GradingVersions : g = h

\* A finalized inspection stays finalized, and no step of its evidence but the recovery
\* of failed jobs is possible; a grade is at most replaced, and only by another grader's.
LEMMA FinalizedStep ==
  ASSUME TypeOK, [Next]_vars, status = "FINALIZED", grade # NoGrade
  PROVE  /\ status' = "FINALIZED"
         /\ UNCHANGED << suggestion, value, declared, detected, confirmed, damage >>
         /\ UNCHANGED analysis \/ recoverFailedJobs
         /\ grade' # NoGrade
         /\ OneGrader => grade' = grade
<1>1. ~Mutable
  BY DEF Mutable
<1>2. CASE EvidenceNext
  <2>1. recoverFailedJobs
    BY <1>1, <1>2 DEF EvidenceNext, addPhoto, startAnalysis, saveAnalysis, failAnalysis,
                      editSuggestion, acceptSuggestion, rejectSuggestion, changeDamage
  <2>2. UNCHANGED reportVars
    BY <1>2, <2>1, OtherStep DEF evidenceVars, recoverFailedJobs
  <2> QED
    BY <2>1, <2>2 DEF recoverFailedJobs, reportVars
<1>a. ASSUME NEW d \in 0 .. MaxDamage, NEW g \in GradingVersions, saveGrade(d, g)
      PROVE  status' = "FINALIZED" /\ grade' # NoGrade /\ (OneGrader => grade' = grade)
  <2>1. grade \in [damage : Nat, gradingVersion : GradingVersions]
    BY DEF TypeOK
  <2>2. [damage |-> d, gradingVersion |-> g] # NoGrade
    BY EvidenceAssumption, ReportAssumption DEF EvidenceAssumption, ReportAssumption
  <2>3. status' = "FINALIZED" /\ grade' # NoGrade
    BY <1>a, <2>2 DEF saveGrade, tryTransition, canTransition, allowedTransitions
  <2>4. OneGrader => grade' = grade
    BY <1>a, <2>1 DEF saveGrade, OneGrader
  <2> QED
    BY <2>3, <2>4
<1>3. CASE ReportNext /\ UNCHANGED evidenceVars
  <2>1. UNCHANGED << suggestion, value, declared, detected, confirmed, damage, analysis >>
    BY <1>3 DEF evidenceVars
  <2>2. CASE requestGrade(missingRequiredEvidence = {}, damage)
    BY <2>1, <2>2 DEF requestGrade
  <2>7. CASE \E d \in 0 .. MaxDamage, g \in GradingVersions : saveGrade(d, g)
    BY <1>a, <2>1, <2>7
  <2>3. CASE \E c \in Calls : requestDraft(c) \/ retryDraft(c) \/ reserved(c) \/ costGuardReached(c)
    BY <2>1, <2>3 DEF requestDraft, retryDraft, draftInspectionReport, reserved, costGuardReached,
                      createReportJob, transition, canTransition, allowedTransitions, gradeVars
  <2>4. CASE \E c \in Calls : providerFailed(c) \/ \E h \in BOOLEAN : completeReportJob(c, h)
    BY <2>1, <2>4 DEF providerFailed, completeReportJob, failReportJob, transition, tryTransition,
                      canTransition, allowedTransitions, gradeVars
  <2>5. CASE patchReport \/ \E v \in 1 .. MaxVersion : approveReport(v)
    BY <2>1, <2>5 DEF patchReport, approveReport, gradeVars
  <2>6. CASE finalizeReport(Complete100 /\ EvidenceReady)
    BY <2>1, <2>6 DEF finalizeReport, transition, gradeVars
  <2> QED
    BY <1>3, <2>2, <2>3, <2>4, <2>5, <2>6, <2>7 DEF ReportNext
<1>4. ASSUME NEW to \in InspectionStatus, patchInspection(to)
      PROVE  FALSE
  BY <1>1, <1>4 DEF patchInspection
<1>5. CASE UNCHANGED vars
  BY <1>5 DEF vars, evidenceVars, reportVars
<1> QED
  BY <1>2, <1>3, <1>4, <1>5 DEF Next

\* Only finalizeReport finalizes, and nothing takes a finalization back.
LEMMA OnlyFinalize ==
  ASSUME [Next]_vars
  PROVE  \/ /\ finalizedAt' = finalizedAt
            /\ status # "FINALIZED" => status' # "FINALIZED"
         \/ finalizeReport(Complete100 /\ EvidenceReady) /\ UNCHANGED evidenceVars
<1> DEFINE Same == /\ finalizedAt' = finalizedAt
                   /\ status # "FINALIZED" => status' # "FINALIZED"
<1>1. CASE EvidenceNext /\ UNCHANGED reportVars
  <2>1. finalizedAt' = finalizedAt
    BY <1>1 DEF reportVars
  <2> QED
    BY <1>1, <2>1 DEF EvidenceNext, addPhoto, startAnalysis, saveAnalysis, failAnalysis, recoverFailedJobs,
                editSuggestion, acceptSuggestion, recomputeCompleteness, rejectSuggestion, changeDamage
<1>2. CASE ReportNext /\ UNCHANGED evidenceVars
  <2>1. CASE \/ requestGrade(missingRequiredEvidence = {}, damage)
             \/ \E d \in 0 .. MaxDamage, g \in GradingVersions : saveGrade(d, g)
    BY <2>1 DEF requestGrade, saveGrade, tryTransition, textVars
  <2>2. CASE \E c \in Calls : requestDraft(c) \/ retryDraft(c) \/ reserved(c) \/ costGuardReached(c)
    BY <2>2 DEF requestDraft, retryDraft, draftInspectionReport, reserved, costGuardReached,
                createReportJob, transition, textVars
  <2>3. CASE \E c \in Calls : providerFailed(c) \/ \E h \in BOOLEAN : completeReportJob(c, h)
    BY <2>3 DEF providerFailed, completeReportJob, failReportJob, transition, tryTransition, textVars
  <2>4. CASE patchReport \/ \E v \in 1 .. MaxVersion : approveReport(v)
    BY <2>4 DEF patchReport, approveReport
  <2> QED
    BY <1>2, <2>1, <2>2, <2>3, <2>4 DEF ReportNext
<1>3. ASSUME NEW to \in InspectionStatus, patchInspection(to)
      PROVE  Same
  BY <1>3 DEF patchInspection, transition, reportVars
<1>4. CASE UNCHANGED vars
  BY <1>4 DEF vars, reportVars
<1> QED
  BY <1>1, <1>2, <1>3, <1>4 DEF Next

\* What finalization checked is still true after any step.
LEMMA ReleasedStep ==
  ASSUME TypeOK, GradeInv, ReleasedIsReviewed, [Next]_vars
  PROVE  ReleasedIsReviewed'
<1>1. CASE status = "FINALIZED"
  <2>1. status' = "FINALIZED" /\ UNCHANGED << suggestion, value >> /\ grade' # NoGrade
    BY <1>1, FinalizedStep DEF ReleasedIsReviewed
  <2>2. finalizedAt /\ finalizedAt'
    BY <1>1, OnlyFinalize DEF ReleasedIsReviewed, finalizeReport
  <2> QED
    BY <1>1, <2>1, <2>2 DEF ReleasedIsReviewed, missingRequiredEvidence, AcceptedAngles, Open
<1>2. CASE status # "FINALIZED" /\ finalizeReport(Complete100 /\ EvidenceReady) /\ UNCHANGED evidenceVars
  <2>1. missingRequiredEvidence = {} /\ \A s \in SuggestionIds : ~Open(s)
    BY <1>2 DEF finalizeReport, EvidenceReady
  <2>2. missingRequiredEvidence' = {} /\ \A s \in SuggestionIds : ~Open(s)'
    BY <1>2, <2>1 DEF evidenceVars, missingRequiredEvidence, AcceptedAngles, Open
  <2>3. status' = "FINALIZED" /\ finalizedAt' = TRUE /\ grade' = grade /\ grade # NoGrade
    BY <1>2 DEF finalizeReport, transition, gradeVars
  <2> QED
    BY <2>2, <2>3 DEF ReleasedIsReviewed
<1>3. CASE status # "FINALIZED" /\ finalizedAt' = finalizedAt /\ status' # "FINALIZED"
  BY <1>3 DEF ReleasedIsReviewed
<1> QED
  BY <1>1, <1>2, <1>3, OnlyFinalize

\* A finalized inspection is graded, complete, and has no open finding, at any time.
THEOREM ReleasedReviewed == Spec => []ReleasedIsReviewed
<1>1. Init => GradeInv /\ ReleasedIsReviewed
  BY DEF Init, EvidenceInit, ReportInit, GradeInv, ReleasedIsReviewed
<1> QED
  BY <1>1, GradeInvStep, ReleasedStep, TypeCorrect, PTL DEF Spec

\* No request that was in flight changes the facts of a finalized inspection, where one grader
\* answers; with two, a late answer of the other replaces the grade and nothing else.
THEOREM FinalizedFacts ==
  ASSUME OneGrader
  PROVE  Spec => FinalizedFactsImmutable
<1>1. TypeOK /\ ReleasedIsReviewed /\ [Next]_vars =>
        (status = "FINALIZED" =>
           UNCHANGED << suggestion, value, declared, detected, confirmed, damage, grade >>)
  BY FinalizedStep DEF ReleasedIsReviewed
<1> QED
  BY <1>1, TypeCorrect, ReleasedReviewed, PTL DEF Spec, FinalizedFactsImmutable

\* What is finalized has a grade, and keeps one.
LEMMA GradedStep ==
  ASSUME TypeOK, status = "FINALIZED" => grade # NoGrade, [Next]_vars
  PROVE  status' = "FINALIZED" => grade' # NoGrade
<1>1. CASE status = "FINALIZED"
  BY <1>1, FinalizedStep
<1>2. CASE status # "FINALIZED" /\ finalizeReport(Complete100 /\ EvidenceReady)
  BY <1>2 DEF finalizeReport, gradeVars
<1> QED
  BY <1>1, <1>2, OnlyFinalize

\* A step that releases the inspection, or finds it released, leaves a later photo of the
\* angle of every accepted warning.
LEMMA RetakesStep ==
  ASSUME TypeOK, status = "FINALIZED" => grade # NoGrade, ReleasedRetakesReplaced, [Next]_vars
  PROVE  ReleasedRetakesReplaced'
<1> SUFFICES ASSUME status' = "FINALIZED",
                    NEW s \in SuggestionIds,
                    s[3] = "quality_warning", suggestion'[s] = "accepted"
             PROVE  \E q \in Photos : /\ q > s[1] /\ analysis'[q] \in {"completed", "pending"}
                                      /\ confirmedAngleForPhoto(q)' = confirmedAngleForPhoto(s[1])'
  BY DEF ReleasedRetakesReplaced
<1>1. UNCHANGED << suggestion, value, declared, detected >>
        => \A q \in Photos : confirmedAngleForPhoto(q)' = confirmedAngleForPhoto(q)
  BY DEF confirmedAngleForPhoto
<1>2. s[1] \in Photos
  BY DEF SuggestionIds
<1>3. CASE status = "FINALIZED"
  <2>1. /\ UNCHANGED << suggestion, value, declared, detected >>
        /\ UNCHANGED analysis \/ recoverFailedJobs
    BY <1>3, FinalizedStep
  <2>2. \E q \in Photos : /\ q > s[1] /\ analysis[q] \in {"completed", "pending"}
                          /\ confirmedAngleForPhoto(q) = confirmedAngleForPhoto(s[1])
    BY <1>3, <2>1 DEF ReleasedRetakesReplaced
  <2>3. ASSUME NEW q \in Photos, analysis[q] \in {"completed", "pending"}
        PROVE  analysis'[q] \in {"completed", "pending"}
    BY <2>1, <2>3 DEF recoverFailedJobs
  <2> QED
    BY <1>1, <1>2, <2>1, <2>2, <2>3
<1>4. CASE status # "FINALIZED"
  <2>1. finalizeReport(Complete100 /\ EvidenceReady) /\ UNCHANGED evidenceVars
    BY <1>4, OnlyFinalize
  <2>2. hasCleanReplacementEvidence(s[1])
    BY <2>1 DEF finalizeReport, EvidenceReady, evidenceVars
  <2> QED
    BY <1>1, <1>2, <2>1, <2>2 DEF hasCleanReplacementEvidence, evidenceVars
<1> QED
  BY <1>3, <1>4

\* An accepted quality warning is not released without a later photo of the same angle.
THEOREM RetakesReplaced == Spec => []ReleasedRetakesReplaced
<1>1. Init => ReleasedRetakesReplaced
  BY DEF Init, EvidenceInit, ReleasedRetakesReplaced
<1>2. ReleasedIsReviewed => (status = "FINALIZED" => grade # NoGrade)
  BY DEF ReleasedIsReviewed
<1> QED
  BY <1>1, <1>2, RetakesStep, TypeCorrect, ReleasedReviewed, PTL DEF Spec

-----------------------------------------------------------------------------
(* The versions of the report.                                             *)

\* What a step can do to the report: nothing, or its next version.
LEMMA TextStep ==
  ASSUME [Next]_vars
  PROVE  \/ UNCHANGED << version, body, approvalStatus, versions >>
         \/ \E c \in Calls : pc[c] = "generating" /\ nextVersion(version + 1, "draft", "generated")
         \/ ~finalizedAt /\ nextVersion(version + 1, "in_review", "edited")
         \/ version > 0 /\ ~finalizedAt /\ nextVersion(body, "approved", "approved")
         \/ /\ version > 0 /\ ~finalizedAt /\ approvalStatus = "approved"
            /\ nextVersion(body, "finalized", "finalized")
<1>1. CASE ReportNext
  <2>1. CASE \/ requestGrade(missingRequiredEvidence = {}, damage)
             \/ \E d \in 0 .. MaxDamage, g \in GradingVersions : saveGrade(d, g)
    BY <2>1 DEF requestGrade, saveGrade, textVars
  <2>2. CASE \E c \in Calls : requestDraft(c) \/ retryDraft(c) \/ reserved(c) \/ costGuardReached(c)
    BY <2>2 DEF requestDraft, retryDraft, draftInspectionReport, reserved, costGuardReached, textVars
  <2>3. CASE \E c \in Calls, h \in BOOLEAN : completeReportJob(c, h)
    BY <2>3 DEF completeReportJob
  <2>4. CASE \E c \in Calls : providerFailed(c)
    BY <2>4 DEF providerFailed, textVars
  <2>5. CASE \/ patchReport
             \/ \E v \in 1 .. MaxVersion : approveReport(v)
             \/ finalizeReport(Complete100 /\ EvidenceReady)
    BY <2>5 DEF patchReport, approveReport, finalizeReport
  <2> QED
    BY <1>1, <2>1, <2>2, <2>3, <2>4, <2>5 DEF ReportNext
<1>2. CASE UNCHANGED reportVars
  BY <1>2 DEF reportVars
<1> QED
  BY <1>1, <1>2 DEF Next, patchInspection, vars

\* The history keeps every entry, and the next version is its next entry.
LEMMA NextVersionHistory ==
  ASSUME TypeOK, HistoryNamesTexts, NEW b \in Nat, NEW a \in Approval, NEW ch \in Change,
         nextVersion(b, a, ch)
  PROVE  /\ version' = version + 1 /\ body' = b /\ approvalStatus' = a
         /\ Len(versions') = version'
         /\ \A v \in 1 .. version : versions'[v] = versions[v]
         /\ versions'[version'] = [version |-> version', body |-> b,
                                   approvalStatus |-> a, change |-> ch]
<1>1. versions \in Seq(VersionRecords) /\ version \in Nat /\ Len(versions) = version
  BY DEF TypeOK, VersionRecords, HistoryNamesTexts
<1>2. [version |-> version + 1, body |-> b, approvalStatus |-> a, change |-> ch] \in VersionRecords
  BY <1>1 DEF VersionRecords
<1> QED
  BY <1>1, <1>2, AppendProperties DEF nextVersion

\* What the last entry says of an approved report, for the next step to rely on.
ApprovalInv ==
  approvalStatus = "approved" => version > 0 /\ versions[version].change = "approved"

\* A next version keeps the history in order.
LEMMA HistoryStep ==
  ASSUME TypeOK, HistoryNamesTexts, NEW b \in Nat, NEW a \in Approval, NEW ch \in Change,
         nextVersion(b, a, ch)
  PROVE  HistoryNamesTexts'
<1>1. version \in Nat /\ Len(versions) = version
  BY DEF TypeOK, HistoryNamesTexts
<1>2. /\ version' = version + 1 /\ body' = b /\ approvalStatus' = a
      /\ Len(versions') = version'
      /\ \A v \in 1 .. version : versions'[v] = versions[v]
      /\ versions'[version'] = [version |-> version', body |-> b,
                                approvalStatus |-> a, change |-> ch]
  BY NextVersionHistory
<1>3. ASSUME NEW v \in 1 .. Len(versions')
      PROVE  versions'[v].version = v
  <2>1. CASE v = version'
    BY <1>2, <2>1
  <2>2. CASE v # version'
    <3>1. v \in 1 .. version
      BY <1>1, <1>2, <2>2
    <3> QED
      BY <1>1, <1>2, <3>1 DEF HistoryNamesTexts
  <2> QED
    BY <2>1, <2>2
<1> QED
  BY <1>1, <1>2, <1>3 DEF HistoryNamesTexts

\* Every step keeps the history in order.
LEMMA HistoryInvStep ==
  ASSUME TypeOK, HistoryNamesTexts, [Next]_vars
  PROVE  HistoryNamesTexts'
<1>1. CASE UNCHANGED << version, body, approvalStatus, versions >>
  BY <1>1 DEF HistoryNamesTexts
<1>2. CASE \E c \in Calls : pc[c] = "generating" /\ nextVersion(version + 1, "draft", "generated")
  BY <1>2, HistoryStep DEF TypeOK, Approval, Change
<1>3. CASE nextVersion(version + 1, "in_review", "edited")
  BY <1>3, HistoryStep DEF TypeOK, Approval, Change
<1>4. CASE nextVersion(body, "approved", "approved")
  BY <1>4, HistoryStep DEF TypeOK, Approval, Change
<1>5. CASE nextVersion(body, "finalized", "finalized")
  BY <1>5, HistoryStep DEF TypeOK, Approval, Change
<1> QED
  BY <1>1, <1>2, <1>3, <1>4, <1>5, TextStep

\* The history of the report has every version once, in order, and ends with the report.
THEOREM HistoryNames == Spec => []HistoryNamesTexts
<1>1. Init => HistoryNamesTexts
  BY DEF Init, ReportInit, HistoryNamesTexts
<1> QED
  BY <1>1, HistoryInvStep, TypeCorrect, PTL DEF Spec
\* A version is finalized only on top of an approval of the same text.
LEMMA ReleasedTextStep ==
  ASSUME TypeOK, HistoryNamesTexts, ApprovalInv, ReleasedTextWasApproved,
         NEW b \in Nat, NEW a \in Approval, NEW ch \in Change, nextVersion(b, a, ch),
         a = "approved" => ch = "approved",
         ch = "finalized" => approvalStatus = "approved" /\ b = body
  PROVE  ApprovalInv' /\ ReleasedTextWasApproved'
<1>1. version \in Nat /\ Len(versions) = version
  BY DEF TypeOK, HistoryNamesTexts
<1>2. /\ version' = version + 1 /\ approvalStatus' = a
      /\ Len(versions') = version'
      /\ \A v \in 1 .. version : versions'[v] = versions[v]
      /\ versions'[version'] = [version |-> version', body |-> b,
                                approvalStatus |-> a, change |-> ch]
  BY NextVersionHistory
<1>3. ApprovalInv'
  BY <1>1, <1>2 DEF ApprovalInv
<1>4. ASSUME NEW v \in 1 .. Len(versions'), versions'[v].change = "finalized"
      PROVE  /\ v > 1
             /\ versions'[v - 1].change = "approved"
             /\ versions'[v - 1].body = versions'[v].body
  <2>1. CASE v = version'
    <3>1. approvalStatus = "approved" /\ b = body
      BY <1>2, <1>4, <2>1
    <3>2. version > 0 /\ versions[version].change = "approved" /\ versions[version].body = body
      BY <1>1, <3>1 DEF ApprovalInv, HistoryNamesTexts
    <3>3. versions'[v - 1] = versions[version] /\ v > 1
      BY <1>1, <1>2, <2>1, <3>2
    <3> QED
      BY <1>2, <2>1, <3>1, <3>2, <3>3
  <2>2. CASE v # version'
    <3>1. v \in 1 .. version /\ versions'[v] = versions[v]
      BY <1>1, <1>2, <2>2
    <3>2. v > 1 /\ versions[v - 1].change = "approved" /\ versions[v - 1].body = versions[v].body
      BY <1>1, <1>4, <3>1 DEF ReleasedTextWasApproved
    <3>3. versions'[v - 1] = versions[v - 1]
      BY <1>1, <1>2, <3>1, <3>2
    <3> QED
      BY <3>1, <3>2, <3>3
  <2> QED
    BY <2>1, <2>2
<1> QED
  BY <1>3, <1>4 DEF ReleasedTextWasApproved

\* Every step keeps released texts approved.
LEMMA ReleasedTextInvStep ==
  ASSUME TypeOK, HistoryNamesTexts, ApprovalInv, ReleasedTextWasApproved, [Next]_vars
  PROVE  ApprovalInv' /\ ReleasedTextWasApproved'
<1>1. CASE UNCHANGED << version, body, approvalStatus, versions >>
  BY <1>1 DEF ApprovalInv, ReleasedTextWasApproved
<1>2. CASE \E c \in Calls : pc[c] = "generating" /\ nextVersion(version + 1, "draft", "generated")
  BY <1>2, ReleasedTextStep DEF TypeOK, Approval, Change
<1>3. CASE nextVersion(version + 1, "in_review", "edited")
  BY <1>3, ReleasedTextStep DEF TypeOK, Approval, Change
<1>4. CASE nextVersion(body, "approved", "approved")
  BY <1>4, ReleasedTextStep DEF TypeOK, Approval, Change
<1>5. CASE approvalStatus = "approved" /\ nextVersion(body, "finalized", "finalized")
  BY <1>5, ReleasedTextStep DEF TypeOK, Approval, Change
<1> QED
  BY <1>1, <1>2, <1>3, <1>4, <1>5, TextStep

\* Every released text was approved, unchanged, by the version just before it.
THEOREM ReleasedText == Spec => []ReleasedTextWasApproved
<1>1. Init => ApprovalInv /\ ReleasedTextWasApproved
  BY DEF Init, ReportInit, ApprovalInv, ReleasedTextWasApproved
<1> QED
  BY <1>1, ReleasedTextInvStep, HistoryNames, TypeCorrect, PTL DEF Spec

-----------------------------------------------------------------------------
(* A local report provider and no manual override.                         *)

\* The status is the lock on drafting: whoever generates owns the one active job.
DraftInv ==
  /\ \A c \in Calls : pc[c] # "reserving"
  /\ \A c \in Calls : pc[c] = "generating" =>
       status = "AI_DRAFT_PENDING" /\ job[c] = c /\ jobStatus[c] = "running"
  /\ \A c \in Calls : jobStatus[c] \in {"pending", "running"} => pc[c] = "generating"
  /\ \A c, d \in Calls : pc[c] = "generating" /\ pc[d] = "generating" => c = d
  /\ status = "AI_DRAFT_PENDING" => \E c \in Calls : pc[c] = "generating"

\* Without Bedrock's await and manual patches, every step keeps DraftInv.
LEMMA DraftInvStep ==
  ASSUME ~Bedrock, ~AdminOverride, TypeOK, DraftInv, [Next]_vars
  PROVE  DraftInv'
<1>1. CASE UNCHANGED << status, draftVars >>
  BY <1>1 DEF DraftInv, draftVars
<1>2. CASE EvidenceNext /\ UNCHANGED reportVars
  <2>1. status' = "AI_DRAFT_PENDING" <=> status = "AI_DRAFT_PENDING"
    BY <1>2 DEF EvidenceNext, addPhoto, startAnalysis, saveAnalysis, failAnalysis, recoverFailedJobs,
                editSuggestion, acceptSuggestion, recomputeCompleteness, rejectSuggestion, changeDamage
  <2> QED
    BY <1>2, <2>1 DEF DraftInv, reportVars
<1>3. ASSUME NEW d \in 0 .. MaxDamage, NEW g \in GradingVersions, saveGrade(d, g)
      PROVE  DraftInv'
  <2>1. status' = "AI_DRAFT_PENDING" <=> status = "AI_DRAFT_PENDING"
    BY <1>3 DEF saveGrade, tryTransition, canTransition, allowedTransitions
  <2> QED
    BY <1>3, <2>1 DEF saveGrade, DraftInv, draftVars
<1>4. ASSUME NEW c \in Calls, NEW k \in Keys \cup Calls \cup {NoKey}, draftInspectionReport(c, k)
      PROVE  DraftInv'
  <2>1. status # "AI_DRAFT_PENDING" /\ canTransition(status, "AI_DRAFT_PENDING")
    BY <1>4 DEF draftInspectionReport, canTransition, allowedTransitions
  <2>2. ActiveJobs(k) = {}
    BY <2>1 DEF ActiveJobs, DraftInv
  <2>3. /\ status' = "AI_DRAFT_PENDING"
        /\ job' = [job EXCEPT ![c] = c]
        /\ jobStatus' = [jobStatus EXCEPT ![c] = "running"]
        /\ pc' = [pc EXCEPT ![c] = "generating"]
    BY <1>4, <2>1, <2>2 DEF draftInspectionReport, createReportJob, transition
  <2> QED
    BY <2>1, <2>3 DEF DraftInv, TypeOK
<1>5. ASSUME NEW c \in Calls, pc[c] = "generating",
             pc' = [pc EXCEPT ![c] = "done"],
             jobStatus' = [jobStatus EXCEPT ![job[c]] = "completed"] \/
               jobStatus' = [jobStatus EXCEPT ![job[c]] = "failed"],
             status' # "AI_DRAFT_PENDING", job' = job
      PROVE  DraftInv'
  BY <1>5 DEF DraftInv, TypeOK
<1>6. ASSUME NEW c \in Calls, NEW h \in BOOLEAN, completeReportJob(c, h)
      PROVE  DraftInv'
  <2>1. pc[c] = "generating" /\ status = "AI_DRAFT_PENDING" /\ job' = job
    BY <1>6 DEF completeReportJob, DraftInv
  <2>2. /\ status' # "AI_DRAFT_PENDING"
        /\ pc' = [pc EXCEPT ![c] = "done"]
        /\ jobStatus' = [jobStatus EXCEPT ![job[c]] = "completed"]
    BY <1>6, <2>1 DEF completeReportJob, transition, canTransition, allowedTransitions
  <2> QED
    BY <1>5, <2>1, <2>2
<1>7. ASSUME NEW c \in Calls, providerFailed(c)
      PROVE  DraftInv'
  <2>1. pc[c] = "generating" /\ status = "AI_DRAFT_PENDING" /\ job' = job
    BY <1>7 DEF providerFailed, DraftInv
  <2>2. /\ status' # "AI_DRAFT_PENDING"
        /\ pc' = [pc EXCEPT ![c] = "done"]
        /\ jobStatus' = [jobStatus EXCEPT ![job[c]] = "failed"]
    BY <1>7, <2>1 DEF providerFailed, failReportJob, tryTransition, canTransition, allowedTransitions
  <2> QED
    BY <1>5, <2>1, <2>2
<1>8. CASE finalizeReport(Complete100 /\ EvidenceReady)
  <2>1. status # "AI_DRAFT_PENDING" /\ status' # "AI_DRAFT_PENDING"
    BY <1>8 DEF finalizeReport, transition, canTransition, allowedTransitions
  <2> QED
    BY <1>8, <2>1 DEF finalizeReport, DraftInv, draftVars
<1>9. ASSUME NEW c \in Calls, requestDraft(c) \/ retryDraft(c)
      PROVE  DraftInv'
  BY <1>4, <1>9 DEF requestDraft, retryDraft
<1>10. CASE ReportNext /\ UNCHANGED evidenceVars
  <2>1. CASE \E c \in Calls : reserved(c) \/ costGuardReached(c)
    BY <2>1 DEF reserved, costGuardReached, DraftInv
  <2>2. CASE \/ requestGrade(missingRequiredEvidence = {}, damage)
             \/ patchReport
             \/ \E v \in 1 .. MaxVersion : approveReport(v)
    BY <1>1, <2>2 DEF requestGrade, patchReport, approveReport
  <2> QED
    BY <1>3, <1>6, <1>7, <1>8, <1>9, <1>10, <2>1, <2>2 DEF ReportNext
<1> QED
  BY <1>1, <1>2, <1>10 DEF Next, patchInspection, vars, reportVars, draftVars

\* With a local provider, the status says whether a draft is being generated.
THEOREM OneDraft ==
  ASSUME ~Bedrock, ~AdminOverride
  PROVE  Spec => []OneDraftAtATime
<1>1. Init => DraftInv
  BY DEF Init, EvidenceInit, ReportInit, DraftInv
<1>2. TypeOK /\ DraftInv /\ [Next]_vars => DraftInv'
  BY DraftInvStep
<1>3. DraftInv => OneDraftAtATime
  BY DEF DraftInv, OneDraftAtATime
<1> QED
  BY <1>1, <1>2, <1>3, TypeCorrect, PTL DEF Spec

\* With a local provider, no draft in flight changes a finalized report.
THEOREM FinalizedReport ==
  ASSUME ~Bedrock, ~AdminOverride
  PROVE  Spec => FinalizedReportImmutable
<1>1. Init => DraftInv
  BY DEF Init, EvidenceInit, ReportInit, DraftInv
<1>2. TypeOK /\ DraftInv /\ [Next]_vars => DraftInv'
  BY DraftInvStep
<1>3. DraftInv /\ ReleasedIsReviewed /\ [Next]_vars => (finalizedAt => UNCHANGED textVars)
  <2> SUFFICES ASSUME DraftInv, ReleasedIsReviewed, [Next]_vars, finalizedAt
               PROVE  UNCHANGED textVars
    OBVIOUS
  <2>1. status = "FINALIZED" /\ \A c \in Calls : pc[c] # "generating"
    BY DEF DraftInv, ReleasedIsReviewed
  <2>2. UNCHANGED << version, body, approvalStatus, versions >>
    BY <2>1, TextStep
  <2>3. finalizedAt' = finalizedAt
    BY OnlyFinalize DEF finalizeReport
  <2> QED
    BY <2>2, <2>3 DEF textVars
<1> QED
  BY <1>1, <1>2, <1>3, TypeCorrect, ReleasedReviewed, PTL DEF Spec, FinalizedReportImmutable
=============================================================================
