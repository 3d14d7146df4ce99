------------------------------ MODULE Release -------------------------------
(***************************************************************************)
(* One inspection from intake to the release of its report: the evidence   *)
(* and the report components over one status, in one API process.  This is *)
(* the server as it runs with the memory or file store, or as one Lambda   *)
(* instance; what several processes on one database do to each other is    *)
(* the row store's subject.                                                *)
(***************************************************************************)
EXTENDS Evidence, Report

CONSTANT AdminOverride   \* do admins patch the status by hand?

ASSUME ReleaseAssumption == AdminOverride \in BOOLEAN

vars == << status, evidenceVars, reportVars >>

\* PATCH inspections/:id with a status: any allowed transition but the last.
patchInspection(to) ==
  /\ AdminOverride
  /\ to # "FINALIZED" /\ Mutable
  /\ transition(to)
  /\ UNCHANGED << evidenceVars, reportVars >>

Complete100 == confirmed = RequiredAngles

ReportNext ==
  \/ requestGrade(missingRequiredEvidence = {}, damage)
  \/ \E d \in 0 .. MaxDamage, g \in GradingVersions : saveGrade(d, g)
  \/ \E c \in Calls : requestDraft(c) \/ retryDraft(c) \/ reserved(c) \/ costGuardReached(c)
  \/ \E c \in Calls, h \in BOOLEAN : completeReportJob(c, h)
  \/ \E c \in Calls : providerFailed(c)
  \/ patchReport
  \/ \E v \in 1 .. MaxVersion : approveReport(v)
  \/ finalizeReport(Complete100 /\ EvidenceReady)

Init == EvidenceInit /\ ReportInit

Next ==
  \/ EvidenceNext /\ UNCHANGED reportVars
  \/ ReportNext /\ UNCHANGED evidenceVars
  \/ \E to \in InspectionStatus : patchInspection(to)

Spec == Init /\ [][Next]_vars

\* The grading service and the report provider answer, one way or the other.
Settle(c) ==
  /\ reserved(c) \/ costGuardReached(c) \/ providerFailed(c)
       \/ \E h \in BOOLEAN : completeReportJob(c, h)
  /\ UNCHANGED evidenceVars

FairSpec == Spec /\ \A c \in Calls : WF_vars(Settle(c))

-----------------------------------------------------------------------------
(* Properties.                                                             *)

\* Every variable has its type: the statuses are those of the schema, and the
\* report's history is a sequence of version records.
TypeOK ==
  /\ status \in InspectionStatus
  /\ analysis \in [Photos -> AnalysisStatus]
  /\ clean \subseteq Photos
  /\ declared \in [Photos -> Angles \cup {NoAngle}]
  /\ detected \in [Photos -> Angles \cup {NoAngle}]
  /\ failedJob \subseteq Photos
  /\ suggestion \in [SuggestionIds -> SuggestionStatus]
  /\ value \in [Photos \X Runs -> Angles \cup {NoAngle}]
  /\ confirmed \subseteq RequiredAngles
  /\ damage \in Nat
  /\ grading \subseteq Nat
  /\ grade \in [damage : Nat, gradingVersion : GradingVersions] \cup {NoGrade}
  /\ pc \in [Calls -> {"idle", "reserving", "generating", "done"}]
  /\ key \in [Calls -> Keys \cup Calls \cup {NoKey}]
  /\ job \in [Calls -> Calls \cup {NoCall}]
  /\ jobStatus \in [Calls -> JobStatus]
  /\ version \in Nat /\ body \in Nat
  /\ approvalStatus \in Approval
  /\ finalizedAt \in BOOLEAN
  /\ versions \in Seq([version : Nat, body : Nat, approvalStatus : Approval, change : Change])

\* The cached completeness that finalization compares with 100 is what the accepted
\* angle suggestions give now: no later edit, rejection or analysis makes it stale.
CompletenessIsCurrent == confirmed = RequiredAngles \cap AcceptedAngles(suggestion, value)

\* Whatever photos, edits and analyses came while the grading service was busy, a
\* stored grade stands on every required angle accepted by a reviewer.
GradeRestsOnEvidence == grade # NoGrade => missingRequiredEvidence = {}

\* A finalized inspection has its grade, its complete evidence and no finding that a
\* reviewer has left open, and its report is the released one: no request that was in
\* flight when it was finalized adds an open finding or splits report from inspection.
ReleasedIsReviewed ==
  /\ finalizedAt <=> status = "FINALIZED"
  /\ status = "FINALIZED" =>
       /\ missingRequiredEvidence = {}
       /\ \A s \in SuggestionIds : ~Open(s)
       /\ grade # NoGrade

\* A photo whose quality warning was accepted is not released alone: a later photo shows
\* the same confirmed angle, even if an operator has since queued its analysis again.
ReleasedRetakesReplaced ==
  status = "FINALIZED" =>
    \A s \in SuggestionIds :
      s[3] = "quality_warning" /\ suggestion[s] = "accepted" =>
        \E q \in Photos : /\ q > s[1] /\ analysis[q] \in {"completed", "pending"}
                          /\ confirmedAngleForPhoto(q) = confirmedAngleForPhoto(s[1])

\* The history of a report is what its readers rely on: version v is the v-th entry,
\* the last entry is the report itself, and so a version number names one text.
HistoryNamesTexts ==
  /\ Len(versions) = version
  /\ \A v \in 1 .. Len(versions) : versions[v].version = v
  /\ version > 0 => versions[version].body = body /\ versions[version].approvalStatus = approvalStatus

\* The text a buyer gets was approved, as it is, by the version just before it; no
\* draft that was being generated slips in between.
ReleasedTextWasApproved ==
  \A v \in 1 .. Len(versions) :
    versions[v].change = "finalized" =>
      /\ v > 1
      /\ versions[v - 1].change = "approved"
      /\ versions[v - 1].body = versions[v].body

\* docs/implementation-boundary.md: "post-finalization immutability".  Once released, the
\* text, its version and its approval stay.
FinalizedReportImmutable ==
  [][finalizedAt => UNCHANGED textVars]_vars

\* docs/resume-bullets.md: "finalized inspections reject further material changes".  What
\* reviewers decided, the angles and the damage list stay after finalization, whatever request
\* was in flight; so does the grade where only one of service and fallback ever answers.
FinalizedFactsImmutable ==
  [][status = "FINALIZED" =>
       UNCHANGED << suggestion, value, declared, detected, confirmed, damage, grade >>]_vars

\* With a local provider and no manual override, the status says whether a draft is
\* being generated: exactly one active job while AI_DRAFT_PENDING, none otherwise.
OneDraftAtATime ==
  LET active == { j \in Calls : jobStatus[j] \in {"pending", "running"} } IN
  IF status = "AI_DRAFT_PENDING"
    THEN \E j \in active : active = {j} /\ \E c \in Calls : pc[c] = "generating" /\ job[c] = j
    ELSE active = {}

\* A draft request does not leave the inspection waiting for a report forever.
DraftSettles == status = "AI_DRAFT_PENDING" ~> status # "AI_DRAFT_PENDING"
=============================================================================
