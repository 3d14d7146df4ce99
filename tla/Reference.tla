----------------------------- MODULE Reference ------------------------------
(***************************************************************************)
(* Reference evidence (apps/api/src/seedData.ts): photos that come from    *)
(* the manifest of sample images in place of a camera.  Seeding creates    *)
(* inspections from them; reconcileReferenceEvidence, which runs after     *)
(* every load of the rows, brings the photos of the store back to what the *)
(* manifest says of them.                                                  *)
(*                                                                         *)
(* A photo that a provider has analysed, with or without success, is left  *)
(* to its analysis.  LegacyClaims are what earlier seeds accepted without  *)
(* support: damage the picture does not show, whose removal is the one     *)
(* correction that reaches reports, released ones too, and text taken from *)
(* the metadata of the vehicle.                                            *)
(***************************************************************************)
EXTENDS Release

CONSTANTS
  Seeded,             \* the photos a seeded inspection has
  Manifest,           \* per photo, if it is of the manifest: angle, ok, warned
  LegacyClaims        \* unsupportedReferenceClaims, and the texts read from metadata

ASSUME ReferenceAssumption ==
  /\ Seeded \subseteq Photos
  /\ Manifest \in [Photos -> [angle : Angles, ok : BOOLEAN, warned : BOOLEAN]]
  /\ \A p \in Photos : Manifest[p].ok => ~Manifest[p].warned
  /\ { Manifest[p].angle : p \in Seeded } = RequiredAngles
  /\ NumRuns > 0
  /\ LegacyClaims \subseteq { s \in SuggestionIds : /\ s[1] \in Seeded /\ s[2] = 1
                                                   /\ s[3] \in {"damage_candidate", "extracted_text"} }

VARIABLES
  reference,          \* photos found in the manifest
  modelled            \* photos with an analysis that does not come from it

refVars == << reference, modelled >>
allVars == << vars, refVars >>

\* hasModelAnalysis is false.
Unmodelled == reference \ modelled

-----------------------------------------------------------------------------
(* Seeding.                                                                *)

\* analyzeImportedPhoto: saveReferenceMapping raises the angle and the warnings of the
\* manifest, and the angle is accepted at once.
SeedSuggestion(s, warning, claims) ==
  IF s[1] \notin Seeded \/ s[2] # 1 THEN "none"
  ELSE IF s[3] = "photo_angle" THEN "accepted"
  ELSE IF s[3] = "quality_warning" /\ Manifest[s[1]].warned THEN warning
  ELSE IF s \in claims THEN "accepted" ELSE "none"

SeedEvidence(warning, claims) ==
  /\ analysis = [p \in Photos |-> IF p \in Seeded THEN "completed" ELSE "absent"]
  /\ clean = { p \in Seeded : Manifest[p].ok }
  /\ declared = [p \in Photos |-> IF p \in Seeded THEN Manifest[p].angle ELSE NoAngle]
  /\ detected = declared
  /\ failedJob = {}
  /\ suggestion = [s \in SuggestionIds |-> SeedSuggestion(s, warning, claims)]
  /\ value = [r \in Photos \X Runs |->
                IF r[1] \in Seeded /\ r[2] = 1 THEN Manifest[r[1]].angle ELSE NoAngle]
  /\ confirmed = RequiredAngles
  /\ damage = 0

Version(v, a, change) == [version |-> v, body |-> 1, approvalStatus |-> a, change |-> change]

\* createReferenceReport, by its reportState.  The job of a seeded draft is completed and
\* takes no further part; a seeded grade is never compared with another.
SeedReport(reportState) ==
  /\ status = IF reportState = "none" THEN "READY_FOR_GRADING"
              ELSE IF reportState = "finalized" THEN "FINALIZED" ELSE "HUMAN_REVIEW_REQUIRED"
  /\ IF reportState = "none" THEN grade = NoGrade
       ELSE \E g \in GradingVersions : grade = [damage |-> 0, gradingVersion |-> g]
  /\ versions = IF reportState = "none" THEN << >>
                ELSE IF reportState = "finalized"
                  THEN << Version(1, "draft", "generated"), Version(2, "approved", "approved"),
                          Version(3, "finalized", "finalized") >>
                  ELSE << Version(1, "draft", "generated") >>
  /\ version = Len(versions)
  /\ body = IF reportState = "none" THEN 0 ELSE 1
  /\ approvalStatus = IF reportState = "finalized" THEN "finalized" ELSE "draft"
  /\ finalizedAt = (reportState = "finalized")
  /\ grading = {}
  /\ pc = [c \in Calls |-> "idle"]
  /\ key = [c \in Calls |-> NoKey]
  /\ job = [c \in Calls |-> NoCall]
  /\ jobStatus = [c \in Calls |-> "none"]

\* seedStore.  A finalized seed has accepted every suggestion, and releases nothing
\* with a warning that no later photo answers.
seedStore ==
  /\ reference = Seeded /\ modelled = {}
  /\ \E claims \in SUBSET LegacyClaims :
       \/ SeedEvidence("pending", claims) /\ SeedReport("none")
       \/ SeedEvidence("pending", claims) /\ SeedReport("draft_human_review")
       \/ /\ \A p \in Seeded : ~Manifest[p].warned
          /\ SeedEvidence("accepted", claims) /\ SeedReport("finalized")

-----------------------------------------------------------------------------
(* Reconciliation.                                                         *)

\* Variant: a warning a reviewer has rejected is missing again.
WarningMissingOrRejected(p) ==
  /\ "quality_warning" \in Findings /\ Manifest[p].warned
  /\ suggestion[<<p, 1, "quality_warning">>] \in {"none", "rejected"}

\* The warning of the manifest is not among the photo's suggestions.
WarningMissing(p) ==
  /\ "quality_warning" \in Findings /\ Manifest[p].warned
  /\ suggestion[<<p, 1, "quality_warning">>] = "none"

\* removeUnsupportedReferenceClaims, removeReferenceMetadataOcrClaims.
Claimed == { s \in LegacyClaims : s[3] = "damage_candidate" /\ suggestion[s] # "none" }
MetadataOcr == { s \in SuggestionIds : s[1] \in Unmodelled /\ s[3] = "extracted_text" }

\* An accepted claim has a damage item, until a reviewer edits or deletes it (changeDamage).
\* If there is one to remove, the report of an inspection with a grade is written anew, under
\* the numbers of its versions.
repairReferenceReport ==
  \/ (Claimed = {} \/ damage > 0) /\ UNCHANGED << damage, body, versions >>
  \/ /\ Claimed # {}
     /\ damage' = damage + 1
     /\ IF grade = NoGrade \/ version = 0 THEN UNCHANGED << body, versions >>
        ELSE /\ body' = MaxVersion + 1
             /\ versions' = [v \in 1 .. Len(versions) |->
                               [versions[v] EXCEPT !.body = MaxVersion + 1]]

\* reconcileReferenceEvidence, for every photo of the store.  It looks at no status and
\* raises no version.
reconcileReferenceEvidence ==
  /\ declared' = [p \in Photos |-> IF p \in reference THEN Manifest[p].angle ELSE declared[p]]
  /\ detected' = [p \in Photos |-> IF p \in Unmodelled THEN Manifest[p].angle ELSE detected[p]]
  /\ clean' = (clean \ Unmodelled) \cup { p \in Unmodelled : Manifest[p].ok }
  /\ analysis' = [p \in Photos |-> IF p \in Unmodelled THEN "completed" ELSE analysis[p]]
  /\ value' = [r \in Photos \X Runs |->
                 IF r[1] \in Unmodelled /\ suggestion[<<r[1], r[2], "photo_angle">>] # "none"
                   THEN Manifest[r[1]].angle ELSE value[r]]
  /\ suggestion' = [s \in SuggestionIds |->
                      IF s \in Claimed \cup MetadataOcr THEN "none"
                      ELSE IF s = <<s[1], 1, "quality_warning">> /\ s[1] \in Unmodelled
                                /\ WarningMissing(s[1])
                        THEN "pending" ELSE suggestion[s]]
  /\ repairReferenceReport
  /\ UNCHANGED << status, failedJob, confirmed, gradeVars, draftVars,
                  version, approvalStatus, finalizedAt, refVars >>

-----------------------------------------------------------------------------
\* POST photos/sample: a photo of the manifest, declared to show its angle.
addSamplePhoto(p) ==
  /\ addPhoto(p, Manifest[p].angle)
  /\ reference' = reference \cup {p}
  /\ UNCHANGED modelled

\* Both outcomes of a provider leave a row in photo_analysis_results.
analyzePhoto(p) ==
  /\ \/ \E n \in Runs, a \in Angles, k \in SUBSET Findings, ok \in BOOLEAN :
          saveAnalysis(p, n, a, k, ok)
     \/ failAnalysis(p)
  /\ modelled' = modelled \cup {p}
  /\ UNCHANGED reference

\* What the rest of the server does to the evidence is the same for every photo.
OtherEvidence ==
  /\ \/ \E p \in Photos, a \in Angles \cup {NoAngle} : addPhoto(p, a)
     \/ \E p \in Photos : startAnalysis(p)
     \/ recoverFailedJobs
     \/ \E s \in SuggestionIds, a \in Angles : editSuggestion(s, a)
     \/ \E s \in SuggestionIds : acceptSuggestion(s)
     \/ \E s \in SuggestionIds : rejectSuggestion(s)
     \/ changeDamage
  /\ UNCHANGED refVars

ReferenceInit ==
  \/ seedStore
  \/ Init /\ reference = {} /\ modelled = {}

ReferenceNext ==
  \/ \E p \in Photos : (addSamplePhoto(p) \/ analyzePhoto(p)) /\ UNCHANGED reportVars
  \/ OtherEvidence /\ UNCHANGED reportVars
  \/ /\ \/ ReportNext /\ UNCHANGED evidenceVars
        \/ \E to \in InspectionStatus : patchInspection(to)
     /\ UNCHANGED refVars
  \/ reconcileReferenceEvidence

ReferenceSpec == ReferenceInit /\ [][ReferenceNext]_allVars

-----------------------------------------------------------------------------
(* Properties.                                                             *)

Decided(s) == suggestion[s] \in {"accepted", "rejected"}

\* A reload takes back nothing a reviewer has decided, and no value an accepted angle
\* stands on, but the claims of earlier seeds: photos of the manifest are reconciled on
\* every request, without a version and also after the release.
DecisionsOutliveReloads ==
  [][\A s \in SuggestionIds \ LegacyClaims :
       Decided(s) => /\ suggestion'[s] = suggestion[s]
                     /\ s[3] = "photo_angle" => value'[<<s[1], s[2]>>] = value[<<s[1], s[2]>>]
    ]_allVars
=============================================================================
