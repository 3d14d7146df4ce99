----------------------------- MODULE EdgeProofs ------------------------------
(***************************************************************************)
(* Proofs about Reference and Edge, for every manifest, number of photos   *)
(* and analyses, angle, version and set of stored snapshots.               *)
(***************************************************************************)
EXTENDS Edge, ReleaseProofs, WellFoundedInduction

-----------------------------------------------------------------------------
(* Types under reconciliation.                                             *)

RefTypeOK == reference \subseteq Photos /\ modelled \subseteq Photos

\* Writing a report anew leaves a sequence of version records of the same length.
LEMMA RewrittenVersions ==
  ASSUME versions \in Seq(VersionRecords), NEW b \in Nat,
         versions' = [v \in 1 .. Len(versions) |-> [versions[v] EXCEPT !.body = b]]
  PROVE  /\ versions' \in Seq(VersionRecords)
         /\ Len(versions') = Len(versions)
         /\ \A v \in 1 .. Len(versions) :
              versions'[v] = [versions[v] EXCEPT !.body = b]
<1>1. Len(versions) \in Nat /\ \A v \in 1 .. Len(versions) : versions[v] \in VersionRecords
  OBVIOUS
<1>2. \A v \in 1 .. Len(versions) : [versions[v] EXCEPT !.body = b] \in VersionRecords
  BY <1>1 DEF VersionRecords
<1>3. versions' \in [1 .. Len(versions) -> VersionRecords]
  BY <1>2
<1> QED
  BY <1>1, <1>3

\* Reconciliation keeps the types.
LEMMA ReconcileTypes ==
  ASSUME TypeOK, RefTypeOK, reconcileReferenceEvidence
  PROVE  TypeOK' /\ RefTypeOK'
<1>0. /\ status \in InspectionStatus /\ EvidenceTypeOK /\ ReportTypeOK
      /\ ReferenceAssumption /\ ReportAssumption
  BY TypeOKSplit, ReferenceAssumption, ReportAssumption
<1>1. Unmodelled \subseteq Photos
  BY DEF Unmodelled, RefTypeOK
<1>2. /\ declared' \in [Photos -> Angles \cup {NoAngle}]
      /\ detected' \in [Photos -> Angles \cup {NoAngle}]
  BY <1>0, <1>1 DEF reconcileReferenceEvidence, EvidenceTypeOK, ReferenceAssumption
<1>3. analysis' \in [Photos -> AnalysisStatus] /\ clean' \subseteq Photos
  BY <1>0, <1>1 DEF reconcileReferenceEvidence, EvidenceTypeOK, AnalysisStatus
<1>4. value' \in [Photos \X Runs -> Angles \cup {NoAngle}]
  BY <1>0, <1>1 DEF reconcileReferenceEvidence, EvidenceTypeOK, ReferenceAssumption
<1>5. suggestion' \in [SuggestionIds -> SuggestionStatus]
  BY <1>0 DEF reconcileReferenceEvidence, EvidenceTypeOK, SuggestionStatus
<1>6. damage' \in Nat
  BY <1>0 DEF reconcileReferenceEvidence, repairReferenceReport, EvidenceTypeOK
<1>7. body' \in Nat /\ versions' \in Seq(VersionRecords)
  <2>1. MaxVersion + 1 \in Nat
    BY <1>0 DEF ReportAssumption
  <2>2. CASE UNCHANGED << body, versions >>
    BY <1>0, <2>2 DEF ReportTypeOK
  <2>3. CASE /\ body' = MaxVersion + 1
             /\ versions' = [v \in 1 .. Len(versions) |->
                               [versions[v] EXCEPT !.body = MaxVersion + 1]]
    BY <1>0, <2>1, <2>3, RewrittenVersions DEF ReportTypeOK
  <2> QED
    BY <2>2, <2>3 DEF reconcileReferenceEvidence, repairReferenceReport
<1>8. EvidenceTypeOK'
  BY <1>0, <1>2, <1>3, <1>4, <1>5, <1>6 DEF EvidenceTypeOK, reconcileReferenceEvidence
<1>9. ReportTypeOK'
  BY <1>0, <1>7 DEF ReportTypeOK, reconcileReferenceEvidence, gradeVars, draftVars
<1>10. status' \in InspectionStatus /\ RefTypeOK'
  BY <1>0 DEF reconcileReferenceEvidence, RefTypeOK, refVars
<1> QED
  BY <1>8, <1>9, <1>10 DEF TypeOK, EvidenceTypeOK, ReportTypeOK, VersionRecords

\* What the angles of a photo that only the manifest speaks for look like: none is open,
\* an accepted one is the manifest's, no text but that of earlier seeds is read from it, and
\* no photo has suggestions before its upload.
ManifestAngles ==
  /\ \A p \in Unmodelled, n \in Runs :
       /\ suggestion[<<p, n, "photo_angle">>] \in {"none", "accepted"}
       /\ suggestion[<<p, n, "photo_angle">>] = "accepted" =>
            value[<<p, n>>] = Manifest[p].angle
  /\ \A s \in MetadataOcr :
       suggestion[s] # "none" => s \in LegacyClaims /\ suggestion[s] = "accepted"
  /\ \A s \in SuggestionIds : analysis[s[1]] = "absent" => suggestion[s] = "none"

ReferenceInv == RefTypeOK /\ ManifestAngles /\ CompletenessIsCurrent

\* A decision and the value an accepted angle stands on are left alone by a step.
DecisionsKept ==
  \A s \in SuggestionIds \ LegacyClaims :
    Decided(s) => /\ suggestion'[s] = suggestion[s]
                  /\ s[3] = "photo_angle" => value'[<<s[1], s[2]>>] = value[<<s[1], s[2]>>]

\* The parts of a suggestion's identifier.
LEMMA SuggestionParts ==
  ASSUME NEW s \in SuggestionIds
  PROVE  /\ s[1] \in Photos /\ s[2] \in Runs /\ s[3] \in Kinds
         /\ s = <<s[1], s[2], s[3]>> /\ <<s[1], s[2]>> \in Photos \X Runs
  BY DEF SuggestionIds

\* No evidence step of a request takes a decision back.
LEMMA EvidenceKeepsDecisions ==
  ASSUME TypeOK, EvidenceNext
  PROVE  DecisionsKept
<1>1. CASE UNCHANGED << suggestion, value >>
  BY <1>1 DEF DecisionsKept
<1>2. ASSUME NEW p \in Photos, NEW n \in Runs, NEW a \in Angles, NEW k \in SUBSET Findings,
             NEW ok \in BOOLEAN, saveAnalysis(p, n, a, k, ok)
      PROVE  DecisionsKept
  <2> SUFFICES ASSUME NEW s \in SuggestionIds, Decided(s)
               PROVE  /\ suggestion'[s] = suggestion[s]
                      /\ value'[<<s[1], s[2]>>] = value[<<s[1], s[2]>>]
    BY DEF DecisionsKept
  <2>1. ~(s[1] = p /\ s[2] = n)
    BY <1>2, SuggestionParts DEF saveAnalysis, Unsaved, Decided
  <2>2. suggestion'[s] = suggestion[s]
    BY <1>2, <2>1 DEF saveAnalysis
  <2>3. value'[<<s[1], s[2]>>] = value[<<s[1], s[2]>>]
    BY <1>2, <2>1, SuggestionParts DEF saveAnalysis, TypeOK
  <2> QED
    BY <2>2, <2>3
<1>3. ASSUME NEW t \in SuggestionIds, NEW a \in Angles, editSuggestion(t, a)
      PROVE  DecisionsKept
  <2> SUFFICES ASSUME NEW s \in SuggestionIds, Decided(s)
               PROVE  /\ suggestion'[s] = suggestion[s]
                      /\ s[3] = "photo_angle" => value'[<<s[1], s[2]>>] = value[<<s[1], s[2]>>]
    BY DEF DecisionsKept
  <2>1. s # t
    BY <1>3 DEF editSuggestion, Open, Decided
  <2>2. suggestion'[s] = suggestion[s]
    BY <1>3, <2>1 DEF editSuggestion, TypeOK
  <2>3. ASSUME s[3] = "photo_angle"
        PROVE  value'[<<s[1], s[2]>>] = value[<<s[1], s[2]>>]
    <3>1. t[3] = "photo_angle" => <<t[1], t[2]>> # <<s[1], s[2]>>
      BY <2>1, <2>3, SuggestionParts
    <3> QED
      BY <1>3, <3>1, SuggestionParts DEF editSuggestion, TypeOK
  <2> QED
    BY <2>2, <2>3
<1>4. ASSUME NEW t \in SuggestionIds, acceptSuggestion(t) \/ rejectSuggestion(t)
      PROVE  DecisionsKept
  <2>1. ASSUME NEW s \in SuggestionIds, Decided(s)
        PROVE  suggestion'[s] = suggestion[s] /\ value' = value
    <3>1. s # t
      BY <1>4, <2>1 DEF acceptSuggestion, rejectSuggestion, Open, Decided
    <3> QED
      BY <1>4, <3>1 DEF acceptSuggestion, rejectSuggestion, TypeOK
  <2> QED
    BY <2>1 DEF DecisionsKept
<1>5. CASE \/ \E p \in Photos, a \in Angles \cup {NoAngle} : addPhoto(p, a)
           \/ \E p \in Photos : startAnalysis(p) \/ failAnalysis(p)
           \/ recoverFailedJobs
           \/ changeDamage
  BY <1>1, <1>5 DEF addPhoto, startAnalysis, failAnalysis, recoverFailedJobs, changeDamage
<1> QED
  BY EvidenceNext, <1>2, <1>3, <1>4, <1>5 DEF EvidenceNext

\* What reconciliation does to one suggestion and one value.
LEMMA ReconciledSuggestion ==
  ASSUME TypeOK, ReferenceInv, reconcileReferenceEvidence, NEW s \in SuggestionIds
  PROVE  /\ suggestion[s] # "none" /\ s \notin Claimed \cup MetadataOcr =>
              suggestion'[s] = suggestion[s]
         /\ s[3] = "photo_angle" => suggestion'[s] = suggestion[s]
         /\ s[3] = "photo_angle" /\ s[1] \in Unmodelled => suggestion[s] \in {"none", "accepted"}
         /\ s[3] = "photo_angle" /\ suggestion[s] # "none" =>
              value'[<<s[1], s[2]>>] = value[<<s[1], s[2]>>]
<1>0. ReferenceAssumption
  BY ReferenceAssumption
<1>1. s[1] \in Photos /\ s[2] \in Runs /\ s = <<s[1], s[2], s[3]>> /\ <<s[1], s[2]>> \in Photos \X Runs
  BY SuggestionParts
<1>2. suggestion'[s] = IF s \in Claimed \cup MetadataOcr THEN "none"
                       ELSE IF s = <<s[1], 1, "quality_warning">> /\ s[1] \in Unmodelled
                                 /\ WarningMissing(s[1])
                         THEN "pending" ELSE suggestion[s]
  BY DEF reconcileReferenceEvidence
<1>3. s = <<s[1], 1, "quality_warning">> /\ WarningMissing(s[1]) => suggestion[s] = "none"
  BY DEF WarningMissing
<1>4. s[3] = "photo_angle" => s \notin Claimed \cup MetadataOcr /\ s # <<s[1], 1, "quality_warning">>
  BY <1>0, <1>1 DEF Claimed, MetadataOcr, ReferenceAssumption
<1>5. s[3] = "photo_angle" /\ s[1] \in Unmodelled =>
        /\ suggestion[s] \in {"none", "accepted"}
        /\ suggestion[s] = "accepted" => value[<<s[1], s[2]>>] = Manifest[s[1]].angle
  BY <1>1 DEF ReferenceInv, ManifestAngles
<1>6. value'[<<s[1], s[2]>>] =
        IF s[1] \in Unmodelled /\ suggestion[<<s[1], s[2], "photo_angle">>] # "none"
          THEN Manifest[s[1]].angle ELSE value[<<s[1], s[2]>>]
  BY <1>1 DEF reconcileReferenceEvidence
<1> QED
  BY <1>1, <1>2, <1>3, <1>4, <1>5, <1>6

\* Reconciliation takes back no decision but that on the claims of earlier seeds.
LEMMA ReconcileKeepsDecisions ==
  ASSUME TypeOK, ReferenceInv, reconcileReferenceEvidence
  PROVE  DecisionsKept
<1>1. ASSUME NEW s \in SuggestionIds \ LegacyClaims, Decided(s)
      PROVE  /\ suggestion'[s] = suggestion[s]
             /\ s[3] = "photo_angle" => value'[<<s[1], s[2]>>] = value[<<s[1], s[2]>>]
  <2>1. suggestion[s] # "none" /\ s \notin Claimed \cup MetadataOcr
    BY <1>1 DEF Decided, Claimed, ReferenceInv, ManifestAngles
  <2> QED
    BY <2>1, ReconciledSuggestion
<1> QED
  BY <1>1 DEF DecisionsKept

\* Reconciliation keeps the accepted angles and what is computed from them.
LEMMA ReconcileKeepsCompleteness ==
  ASSUME TypeOK, ReferenceInv, reconcileReferenceEvidence
  PROVE  CompletenessIsCurrent'
<1>1. ASSUME NEW r \in Photos \X Runs
      PROVE  /\ AngleAccepted(r)' <=> AngleAccepted(r)
             /\ AngleAccepted(r) => value'[r] = value[r]
  <2>1. <<r[1], r[2], "photo_angle">> \in SuggestionIds /\ r = <<r[1], r[2]>>
    BY AngleSuggestionId
  <2>2. /\ suggestion'[<<r[1], r[2], "photo_angle">>] = suggestion[<<r[1], r[2], "photo_angle">>]
        /\ suggestion[<<r[1], r[2], "photo_angle">>] # "none" =>
             value'[<<r[1], r[2]>>] = value[<<r[1], r[2]>>]
    BY <2>1, ReconciledSuggestion
  <2> QED
    BY <2>1, <2>2 DEF AngleAccepted
<1>2. Accepted' = Accepted
  BY <1>1, SameAccepted
<1>3. confirmed' = confirmed
  BY DEF reconcileReferenceEvidence
<1> QED
  BY <1>2, <1>3 DEF ReferenceInv, CompletenessIsCurrent, Accepted

\* Reconciliation keeps what the invariant says of the photos of the manifest.
LEMMA ReconcileKeepsAngles ==
  ASSUME TypeOK, ReferenceInv, reconcileReferenceEvidence
  PROVE  ManifestAngles'
<1>0. Unmodelled' = Unmodelled /\ MetadataOcr' = MetadataOcr /\ Unmodelled \subseteq Photos
  BY DEF reconcileReferenceEvidence, refVars, Unmodelled, MetadataOcr, ReferenceInv, RefTypeOK
<1>1. ASSUME NEW p \in Unmodelled, NEW n \in Runs
      PROVE  /\ suggestion'[<<p, n, "photo_angle">>] \in {"none", "accepted"}
             /\ suggestion'[<<p, n, "photo_angle">>] = "accepted" =>
                  value'[<<p, n>>] = Manifest[p].angle
  <2>1. <<p, n, "photo_angle">> \in SuggestionIds /\ p \in Photos
    BY <1>0 DEF SuggestionIds, Kinds
  <2>2. /\ suggestion'[<<p, n, "photo_angle">>] = suggestion[<<p, n, "photo_angle">>]
        /\ suggestion[<<p, n, "photo_angle">>] # "none" => value'[<<p, n>>] = value[<<p, n>>]
    BY <2>1, ReconciledSuggestion
  <2> QED
    BY <2>2 DEF ReferenceInv, ManifestAngles
<1>2. ASSUME NEW s \in MetadataOcr
      PROVE  suggestion'[s] = "none"
  BY <1>2 DEF reconcileReferenceEvidence, MetadataOcr
<1>3. ASSUME NEW s \in SuggestionIds, analysis'[s[1]] = "absent"
      PROVE  suggestion'[s] = "none"
  <2>1. s[1] \in Photos
    BY SuggestionParts
  <2>2. s[1] \notin Unmodelled /\ analysis[s[1]] = "absent"
    BY <1>3, <2>1 DEF reconcileReferenceEvidence
  <2>3. suggestion[s] = "none"
    BY <2>2 DEF ReferenceInv, ManifestAngles
  <2> QED
    BY <2>2, <2>3 DEF reconcileReferenceEvidence
<1> QED
  BY <1>0, <1>1, <1>2, <1>3 DEF ManifestAngles

\* A step that leaves the angle and text suggestions of the manifest's photos alone, and
\* whose photos were uploaded before they had suggestions, keeps ManifestAngles.
LEMMA AnglesStep ==
  ASSUME ManifestAngles,
         Unmodelled' \subseteq Unmodelled \cup { p \in Photos : analysis[p] = "absent" },
         \A s \in SuggestionIds : s[1] \in Unmodelled' /\ s[3] \in {"photo_angle", "extracted_text"} =>
           /\ suggestion'[s] = suggestion[s] \/ suggestion'[s] = "none"
           /\ value'[<<s[1], s[2]>>] = value[<<s[1], s[2]>>],
         \A s \in SuggestionIds : analysis'[s[1]] = "absent" =>
           analysis[s[1]] = "absent" /\ suggestion'[s] = suggestion[s],
         RefTypeOK
  PROVE  ManifestAngles'
<1>1. ASSUME NEW p \in Unmodelled', NEW n \in Runs
      PROVE  /\ suggestion'[<<p, n, "photo_angle">>] \in {"none", "accepted"}
             /\ suggestion'[<<p, n, "photo_angle">>] = "accepted" =>
                  value'[<<p, n>>] = Manifest[p].angle
  <2>1. p \in Photos /\ <<p, n, "photo_angle">> \in SuggestionIds
    BY <1>1 DEF SuggestionIds, Kinds, Unmodelled, RefTypeOK
  <2>2. CASE p \in Unmodelled
    BY <2>1, <2>2, <1>1 DEF ManifestAngles
  <2>3. CASE analysis[p] = "absent"
    BY <2>1, <2>3, <1>1 DEF ManifestAngles
  <2> QED
    BY <1>1, <2>2, <2>3
<1>2. ASSUME NEW s \in SuggestionIds, s[1] \in Unmodelled', s[3] = "extracted_text",
             suggestion'[s] # "none"
      PROVE  s \in LegacyClaims /\ suggestion'[s] = "accepted"
  BY <1>2 DEF ManifestAngles, MetadataOcr
<1>3. ASSUME NEW s \in SuggestionIds, analysis'[s[1]] = "absent"
      PROVE  suggestion'[s] = "none"
  BY <1>3 DEF ManifestAngles
<1> QED
  BY <1>1, <1>2, <1>3 DEF ManifestAngles, MetadataOcr

\* The evidence steps of the server keep ManifestAngles.
LEMMA EvidenceKeepsAngles ==
  ASSUME TypeOK, ReferenceInv,
         \/ \E p \in Photos : addSamplePhoto(p) \/ analyzePhoto(p)
         \/ OtherEvidence
  PROVE  ManifestAngles' /\ RefTypeOK'
<1>0. ManifestAngles /\ RefTypeOK
  BY DEF ReferenceInv
<1> DEFINE KeptAt(s) == /\ suggestion'[s] = suggestion[s] \/ suggestion'[s] = "none"
                        /\ value'[<<s[1], s[2]>>] = value[<<s[1], s[2]>>]
           Fixed(s) == s[1] \in Unmodelled' /\ s[3] \in {"photo_angle", "extracted_text"}
           Absent(s) == analysis'[s[1]] = "absent" =>
                          analysis[s[1]] = "absent" /\ suggestion'[s] = suggestion[s]
           Goal == ManifestAngles' /\ RefTypeOK'
<1>1. ASSUME NEW s \in SuggestionIds, s[1] \in Unmodelled, s[3] \in {"photo_angle", "extracted_text"}
      PROVE  ~Open(s)
  <2>1. s[1] \in Photos /\ s[2] \in Runs /\ s = <<s[1], s[2], s[3]>>
    BY SuggestionParts
  <2>2. CASE s[3] = "photo_angle"
    BY <1>0, <1>1, <2>1, <2>2 DEF ManifestAngles, Open
  <2>3. CASE s[3] = "extracted_text"
    BY <1>0, <1>1, <2>1, <2>3 DEF ManifestAngles, MetadataOcr, Open
  <2> QED
    BY <1>1, <2>2, <2>3
<1>2. ASSUME NEW s \in SuggestionIds, Open(s)
      PROVE  analysis[s[1]] # "absent"
  BY <1>0, <1>2 DEF ManifestAngles, Open
<1>3. ASSUME NEW p \in Photos, addSamplePhoto(p)
      PROVE  Goal
  <2>1. RefTypeOK' /\ Unmodelled' \subseteq Unmodelled \cup {p} /\ analysis[p] = "absent"
    BY <1>0, <1>3 DEF addSamplePhoto, addPhoto, RefTypeOK, Unmodelled
  <2>2. suggestion' = suggestion /\ value' = value
        /\ \A q \in Photos : analysis'[q] = "absent" => analysis[q] = "absent"
    BY <1>3 DEF addSamplePhoto, addPhoto, TypeOK
  <2>3. \A s \in SuggestionIds : Absent(s) /\ KeptAt(s)
    BY <2>2, SuggestionParts
  <2> QED
    BY <1>0, <2>1, <2>3, AnglesStep
<1>4. ASSUME NEW p \in Photos, analyzePhoto(p)
      PROVE  Goal
  <2>1. RefTypeOK' /\ Unmodelled' \subseteq Unmodelled \ {p}
    BY <1>0, <1>4 DEF analyzePhoto, RefTypeOK, Unmodelled
  <2>2. ASSUME NEW s \in SuggestionIds
        PROVE  /\ s[1] # p => suggestion'[s] = suggestion[s]
                              /\ value'[<<s[1], s[2]>>] = value[<<s[1], s[2]>>]
                              /\ analysis'[s[1]] = analysis[s[1]]
               /\ s[1] = p => analysis'[s[1]] # "absent"
    <3>1. s[1] \in Photos /\ <<s[1], s[2]>> \in Photos \X Runs
      BY SuggestionParts
    <3>2. CASE failAnalysis(p)
      BY <3>1, <3>2 DEF failAnalysis, TypeOK
    <3>3. ASSUME NEW n \in Runs, NEW a \in Angles, NEW k \in SUBSET Findings, NEW ok \in BOOLEAN,
                 saveAnalysis(p, n, a, k, ok)
          PROVE  /\ s[1] # p => suggestion'[s] = suggestion[s]
                                /\ value'[<<s[1], s[2]>>] = value[<<s[1], s[2]>>]
                                /\ analysis'[s[1]] = analysis[s[1]]
                 /\ s[1] = p => analysis'[s[1]] # "absent"
      BY <3>1, <3>3 DEF saveAnalysis, TypeOK
    <3> QED
      BY <1>4, <3>2, <3>3 DEF analyzePhoto
  <2>3. \A s \in SuggestionIds : Absent(s) /\ (Fixed(s) => KeptAt(s))
    BY <2>1, <2>2
  <2> QED
    BY <1>0, <2>1, <2>3, AnglesStep
<1>5. ASSUME NEW t \in SuggestionIds,
             \/ \E a \in Angles : editSuggestion(t, a)
             \/ acceptSuggestion(t)
             \/ rejectSuggestion(t),
             UNCHANGED refVars
      PROVE  Goal
  <2>1. RefTypeOK' /\ Unmodelled' = Unmodelled
    BY <1>0, <1>5 DEF refVars, RefTypeOK, Unmodelled
  <2>2. Open(t) /\ analysis' = analysis
    BY <1>5 DEF editSuggestion, acceptSuggestion, rejectSuggestion
  <2>3. ASSUME NEW s \in SuggestionIds, s # t
        PROVE  suggestion'[s] = suggestion[s]
    BY <1>5, <2>3 DEF editSuggestion, acceptSuggestion, rejectSuggestion, TypeOK
  <2>4. ASSUME NEW s \in SuggestionIds, s[3] = "photo_angle" => s # t, s[3] = "extracted_text" => s # t,
               s[1] \in Unmodelled, s[3] \in {"photo_angle", "extracted_text"}
        PROVE  value'[<<s[1], s[2]>>] = value[<<s[1], s[2]>>]
    <3>1. <<s[1], s[2]>> \in Photos \X Runs /\ <<t[1], t[2]>> \in Photos \X Runs
      BY SuggestionParts
    <3>2. CASE t[3] = "photo_angle" /\ <<t[1], t[2]>> = <<s[1], s[2]>>
      <4>1. t[1] \in Unmodelled
        BY <2>4, <3>2
      <4> QED
        BY <1>1, <2>2, <3>2, <4>1
    <3>3. CASE ~(t[3] = "photo_angle" /\ <<t[1], t[2]>> = <<s[1], s[2]>>)
      BY <1>5, <3>1, <3>3 DEF editSuggestion, acceptSuggestion, rejectSuggestion, TypeOK
    <3> QED
      BY <3>2, <3>3
  <2>5. \A s \in SuggestionIds : Fixed(s) => KeptAt(s)
    BY <1>1, <2>1, <2>2, <2>3, <2>4
  <2>6. \A s \in SuggestionIds : Absent(s)
    BY <1>2, <2>2, <2>3
  <2> QED
    BY <1>0, <2>1, <2>5, <2>6, AnglesStep
<1>6. CASE UNCHANGED << refVars, suggestion, value >>
           /\ \A q \in Photos : analysis'[q] = "absent" => analysis[q] = "absent"
  <2>1. RefTypeOK' /\ Unmodelled' = Unmodelled
    BY <1>0, <1>6 DEF refVars, RefTypeOK, Unmodelled
  <2>2. \A s \in SuggestionIds : Absent(s) /\ KeptAt(s)
    BY <1>6, SuggestionParts
  <2> QED
    BY <1>0, <2>1, <2>2, AnglesStep
<1>7. ASSUME NEW p \in Photos, NEW a \in Angles \cup {NoAngle},
             addPhoto(p, a) \/ startAnalysis(p)
      PROVE  /\ UNCHANGED << suggestion, value >>
             /\ \A q \in Photos : analysis'[q] = "absent" => analysis[q] = "absent"
  BY <1>7 DEF addPhoto, startAnalysis, TypeOK
<1>8. recoverFailedJobs \/ changeDamage =>
        /\ UNCHANGED << suggestion, value >>
        /\ \A q \in Photos : analysis'[q] = "absent" => analysis[q] = "absent"
  BY DEF recoverFailedJobs, changeDamage, TypeOK
<1>9. OtherEvidence => Goal
  BY <1>5, <1>6, <1>7, <1>8 DEF OtherEvidence
<1> QED
  BY <1>3, <1>4, <1>9

-----------------------------------------------------------------------------
(* What seeding leaves behind.                                             *)

\* The evidence of a seeded inspection has its types, and its angles are accepted as the
\* manifest gives them.
LEMMA SeededEvidence ==
  ASSUME NEW warning \in {"pending", "accepted"}, NEW claims \in SUBSET LegacyClaims,
         SeedEvidence(warning, claims), reference = Seeded, modelled = {}
  PROVE  EvidenceTypeOK /\ RefTypeOK /\ ManifestAngles /\ CompletenessIsCurrent
         /\ missingRequiredEvidence = {}
<1>0. ReferenceAssumption /\ EvidenceAssumption
  BY ReferenceAssumption, EvidenceAssumption
<1>1. Seeded \subseteq Photos /\ 1 \in Runs /\ RequiredAngles \subseteq Angles
  BY <1>0 DEF ReferenceAssumption, EvidenceAssumption, Runs
<1>2. ASSUME NEW s \in SuggestionIds
      PROVE  /\ suggestion[s] = SeedSuggestion(s, warning, claims)
             /\ suggestion[s] \in SuggestionStatus
             /\ s[3] = "photo_angle" =>
                  suggestion[s] = IF s[1] \in Seeded /\ s[2] = 1 THEN "accepted" ELSE "none"
             /\ s[1] \notin Seeded => suggestion[s] = "none"
             /\ s[3] = "extracted_text" /\ suggestion[s] # "none" =>
                  s \in LegacyClaims /\ suggestion[s] = "accepted"
  <2>1. s \in claims => s \in LegacyClaims /\ s[3] \in {"damage_candidate", "extracted_text"}
    BY <1>0 DEF ReferenceAssumption
  <2> QED
    BY <2>1 DEF SeedEvidence, SeedSuggestion, SuggestionStatus
<1>3. EvidenceTypeOK
  <2>1. suggestion \in [SuggestionIds -> SuggestionStatus]
    BY <1>2 DEF SeedEvidence
  <2>2. /\ value \in [Photos \X Runs -> Angles \cup {NoAngle}]
        /\ declared \in [Photos -> Angles \cup {NoAngle}]
        /\ detected \in [Photos -> Angles \cup {NoAngle}]
    BY <1>0 DEF SeedEvidence, ReferenceAssumption
  <2>3. analysis \in [Photos -> AnalysisStatus] /\ clean \subseteq Photos
    BY <1>1 DEF SeedEvidence, AnalysisStatus
  <2> QED
    BY <2>1, <2>2, <2>3 DEF EvidenceTypeOK, SeedEvidence
<1>4. ASSUME NEW p \in Photos, NEW n \in Runs
      PROVE  /\ suggestion[<<p, n, "photo_angle">>] =
                  IF p \in Seeded /\ n = 1 THEN "accepted" ELSE "none"
             /\ value[<<p, n>>] = IF p \in Seeded /\ n = 1 THEN Manifest[p].angle ELSE NoAngle
  <2>1. <<p, n, "photo_angle">> \in SuggestionIds
    BY DEF SuggestionIds, Kinds
  <2> QED
    BY <1>2, <2>1 DEF SeedEvidence
<1>5. RefTypeOK /\ ManifestAngles
  <2>1. Unmodelled = Seeded
    BY DEF Unmodelled
  <2>2. ASSUME NEW p \in Unmodelled, NEW n \in Runs
        PROVE  /\ suggestion[<<p, n, "photo_angle">>] \in {"none", "accepted"}
               /\ suggestion[<<p, n, "photo_angle">>] = "accepted" => value[<<p, n>>] = Manifest[p].angle
    BY <1>1, <1>4, <2>1
  <2>3. \A s \in MetadataOcr :
          suggestion[s] # "none" => s \in LegacyClaims /\ suggestion[s] = "accepted"
    BY <1>2 DEF MetadataOcr
  <2>4. ASSUME NEW s \in SuggestionIds, analysis[s[1]] = "absent"
        PROVE  suggestion[s] = "none"
    <3>1. s[1] \notin Seeded
      BY <2>4, SuggestionParts DEF SeedEvidence
    <3> QED
      BY <1>2, <3>1
  <2> QED
    BY <1>1, <2>2, <2>3, <2>4 DEF ManifestAngles, RefTypeOK
<1>6. AcceptedAngles(suggestion, value) = RequiredAngles
  <2>1. ASSUME NEW r \in Photos \X Runs, suggestion[<<r[1], r[2], "photo_angle">>] = "accepted"
        PROVE  value[r] \in { Manifest[p].angle : p \in Seeded }
    <3>1. r[1] \in Photos /\ r[2] \in Runs /\ r = <<r[1], r[2]>>
      OBVIOUS
    <3>2. r[1] \in Seeded /\ r[2] = 1
      BY <1>4, <2>1, <3>1
    <3>3. value[r] = Manifest[r[1]].angle
      BY <1>4, <3>1, <3>2
    <3> QED
      BY <3>2, <3>3
  <2>2. ASSUME NEW p \in Seeded
        PROVE  Manifest[p].angle \in AcceptedAngles(suggestion, value)
    <3>1. <<p, 1>> \in Photos \X Runs /\ suggestion[<<p, 1, "photo_angle">>] = "accepted"
          /\ value[<<p, 1>>] = Manifest[p].angle
      BY <1>1, <1>4
    <3>2. <<p, 1>>[1] = p /\ <<p, 1>>[2] = 1
      OBVIOUS
    <3> QED
      BY <3>1, <3>2 DEF AcceptedAngles
  <2>3. AcceptedAngles(suggestion, value) = { Manifest[p].angle : p \in Seeded }
    BY <2>1, <2>2 DEF AcceptedAngles
  <2> QED
    BY <1>0, <2>3 DEF ReferenceAssumption
<1> QED
  BY <1>3, <1>5, <1>6 DEF CompletenessIsCurrent, missingRequiredEvidence, SeedEvidence

\* The version records seeding writes.
LEMMA SeededVersions ==
  /\ \A v \in Nat, a \in Approval, ch \in Change :
       /\ Version(v, a, ch) \in VersionRecords
       /\ Version(v, a, ch).version = v /\ Version(v, a, ch).body = 1
       /\ Version(v, a, ch).approvalStatus = a /\ Version(v, a, ch).change = ch
  BY DEF Version, VersionRecords

\* The report of a seeded inspection, by its reportState.
LEMMA SeededReport ==
  ASSUME NEW state \in {"none", "draft_human_review", "finalized"}, SeedReport(state)
  PROVE  /\ status \in InspectionStatus /\ ReportTypeOK
         /\ HistoryNamesTexts /\ ReleasedTextWasApproved
         /\ state = "finalized" <=> status = "FINALIZED"
         /\ finalizedAt <=> status = "FINALIZED"
         /\ status = "FINALIZED" => grade # NoGrade
         /\ status # "FINALIZED" => approvalStatus = "draft"
<1>0. ReportAssumption
  BY ReportAssumption
<1>1. grade \in [damage : Nat, gradingVersion : GradingVersions] \cup {NoGrade}
      /\ (state # "none" => grade # NoGrade)
  BY <1>0 DEF SeedReport, ReportAssumption
<1>2. /\ versions \in Seq(VersionRecords)
      /\ HistoryNamesTexts /\ ReleasedTextWasApproved
  <2>1. CASE state = "none"
    BY <2>1 DEF SeedReport, HistoryNamesTexts, ReleasedTextWasApproved
  <2>2. CASE state = "draft_human_review"
    <3>1. versions = << Version(1, "draft", "generated") >>
      BY <2>2 DEF SeedReport
    <3>2. version = 1 /\ body = 1 /\ approvalStatus = "draft"
      BY <2>2, <3>1 DEF SeedReport
    <3> QED
      BY <3>1, <3>2, SeededVersions DEF HistoryNamesTexts, ReleasedTextWasApproved, Approval, Change
  <2>3. CASE state = "finalized"
    <3>1. versions = << Version(1, "draft", "generated"), Version(2, "approved", "approved"),
                        Version(3, "finalized", "finalized") >>
      BY <2>3 DEF SeedReport
    <3>2. version = 3 /\ body = 1 /\ approvalStatus = "finalized"
      BY <2>3, <3>1 DEF SeedReport
    <3> QED
      BY <3>1, <3>2, SeededVersions DEF HistoryNamesTexts, ReleasedTextWasApproved, Approval, Change
  <2> QED
    BY <2>1, <2>2, <2>3
<1>3. ReportTypeOK /\ status \in InspectionStatus
  BY <1>1, <1>2 DEF SeedReport, ReportTypeOK, JobStatus, Approval, InspectionStatus
<1> QED
  BY <1>1, <1>2, <1>3 DEF SeedReport

\* Whatever the manifest says, a seeded inspection has everything the workflow asks of one
\* that a reviewer brought to the same state: a released seed is complete, graded, without an
\* open finding or an accepted warning, and its text was approved.
THEOREM SeedsAreReviewed ==
  seedStore => /\ TypeOK /\ RefTypeOK /\ ManifestAngles
               /\ CompletenessIsCurrent /\ GradeRestsOnEvidence
               /\ ReleasedIsReviewed /\ ReleasedRetakesReplaced
               /\ HistoryNamesTexts /\ ReleasedTextWasApproved
<1> SUFFICES ASSUME seedStore
             PROVE  /\ TypeOK /\ RefTypeOK /\ ManifestAngles
                    /\ CompletenessIsCurrent /\ GradeRestsOnEvidence
                    /\ ReleasedIsReviewed /\ ReleasedRetakesReplaced
                    /\ HistoryNamesTexts /\ ReleasedTextWasApproved
  OBVIOUS
<1>1. PICK claims \in SUBSET LegacyClaims, warning \in {"pending", "accepted"},
           state \in {"none", "draft_human_review", "finalized"} :
        /\ SeedEvidence(warning, claims) /\ SeedReport(state)
        /\ state = "finalized" => warning = "accepted" /\ \A p \in Seeded : ~Manifest[p].warned
  BY DEF seedStore
<1>2. /\ EvidenceTypeOK /\ RefTypeOK /\ ManifestAngles /\ CompletenessIsCurrent
      /\ missingRequiredEvidence = {}
  BY <1>1, SeededEvidence DEF seedStore
<1>3. /\ status \in InspectionStatus /\ ReportTypeOK /\ HistoryNamesTexts /\ ReleasedTextWasApproved
      /\ state = "finalized" <=> status = "FINALIZED"
      /\ finalizedAt <=> status = "FINALIZED"
      /\ status = "FINALIZED" => grade # NoGrade
  BY <1>1, SeededReport
<1>4. TypeOK
  BY <1>2, <1>3, TypeOKSplit
<1>5. ASSUME status = "FINALIZED", NEW s \in SuggestionIds
      PROVE  ~Open(s) /\ ~(s[3] = "quality_warning" /\ suggestion[s] = "accepted")
  <2>1. suggestion[s] = SeedSuggestion(s, "accepted", claims) /\ \A p \in Seeded : ~Manifest[p].warned
    BY <1>1, <1>3, <1>5 DEF SeedEvidence
  <2>2. s \in claims => s[3] # "quality_warning"
    BY ReferenceAssumption DEF ReferenceAssumption
  <2> QED
    BY <2>1, <2>2 DEF SeedSuggestion, Open
<1> QED
  BY <1>2, <1>3, <1>4, <1>5 DEF GradeRestsOnEvidence, ReleasedIsReviewed, ReleasedRetakesReplaced

-----------------------------------------------------------------------------
(* An inspection whose photos are reconciled.                              *)

\* Every step of the server with reconciliation keeps types and ReferenceInv, and takes
\* back no decision.
LEMMA ReferenceStep ==
  ASSUME TypeOK, ReferenceInv, [ReferenceNext]_allVars
  PROVE  TypeOK' /\ ReferenceInv' /\ DecisionsKept
<1>1. CASE reconcileReferenceEvidence
  BY <1>1, ReconcileTypes, ReconcileKeepsAngles, ReconcileKeepsCompleteness, ReconcileKeepsDecisions
     DEF ReferenceInv
<1>2. CASE UNCHANGED << evidenceVars, refVars >> /\ [Next]_vars
  <2>1. TypeOK'
    BY <1>2, TypeStep
  <2>2. ReferenceInv'
    BY <1>2 DEF ReferenceInv, RefTypeOK, ManifestAngles, Unmodelled, MetadataOcr,
                CompletenessIsCurrent, evidenceVars, refVars
  <2>3. DecisionsKept
    BY <1>2 DEF evidenceVars, DecisionsKept
  <2> QED
    BY <2>1, <2>2, <2>3
<1>3. ASSUME \/ \E p \in Photos : addSamplePhoto(p) \/ analyzePhoto(p)
             \/ OtherEvidence,
             UNCHANGED reportVars
      PROVE  TypeOK' /\ ReferenceInv' /\ DecisionsKept
  <2>0. ReferenceAssumption
    BY ReferenceAssumption
  <2>1. EvidenceNext
    BY <1>3, <2>0 DEF addSamplePhoto, analyzePhoto, OtherEvidence, EvidenceNext, ReferenceAssumption
  <2>2. TypeOK'
    BY <1>3, <2>1, TypeStep DEF Next
  <2>3. CompletenessIsCurrent'
    BY <2>1, AcceptedStep DEF ReferenceInv, CompletenessIsCurrent, Accepted
  <2> QED
    BY <1>3, <2>1, <2>2, <2>3, EvidenceKeepsAngles, EvidenceKeepsDecisions DEF ReferenceInv
<1>4. ReportNext /\ UNCHANGED evidenceVars => Next
  BY DEF Next
<1>5. \A to \in InspectionStatus : patchInspection(to) => Next /\ UNCHANGED evidenceVars
  BY DEF Next, patchInspection, evidenceVars
<1>6. CASE UNCHANGED allVars
  BY <1>2, <1>6 DEF allVars, vars
<1> QED
  BY <1>1, <1>2, <1>3, <1>4, <1>5, <1>6 DEF ReferenceNext

\* The initial states are those of seeding or of an inspection without photos.
LEMMA ReferenceStart ==
  ReferenceInit => TypeOK /\ ReferenceInv
<1>1. seedStore => TypeOK /\ ReferenceInv
  BY SeedsAreReviewed DEF ReferenceInv
<1>2. ASSUME Init, reference = {}, modelled = {}
      PROVE  TypeOK /\ ReferenceInv
  <2>1. TypeOK
    BY <1>2, InitType
  <2>2. \A s \in SuggestionIds : suggestion[s] = "none"
    BY <1>2 DEF Init, EvidenceInit
  <2>3. ManifestAngles /\ RefTypeOK
    BY <1>2, <2>2 DEF ManifestAngles, RefTypeOK, Unmodelled, MetadataOcr
  <2>4. CompletenessIsCurrent
    BY <1>2, InitCompleteness
  <2> QED
    BY <2>1, <2>3, <2>4 DEF ReferenceInv
<1> QED
  BY <1>1, <1>2 DEF ReferenceInit

\* Seeds, sample photos and reconciliation leave the types of TypeOK intact.
THEOREM ReferenceTypes == ReferenceSpec => []TypeOK
  BY ReferenceStart, ReferenceStep, PTL DEF ReferenceSpec

\* The cached completeness follows the accepted angles under reconciliation too.
THEOREM ReferenceCompleteness == ReferenceSpec => []CompletenessIsCurrent
<1>1. ReferenceInv => CompletenessIsCurrent
  BY DEF ReferenceInv
<1> QED
  BY <1>1, ReferenceStart, ReferenceStep, PTL DEF ReferenceSpec

\* Neither a request nor a reload takes back a decision of a reviewer.
THEOREM DecisionsOutlive == ReferenceSpec => DecisionsOutliveReloads
<1>1. DecisionsKept =>
        \A s \in SuggestionIds \ LegacyClaims :
          Decided(s) => /\ suggestion'[s] = suggestion[s]
                        /\ s[3] = "photo_angle" => value'[<<s[1], s[2]>>] = value[<<s[1], s[2]>>]
  BY DEF DecisionsKept
<1> QED
  BY <1>1, ReferenceStart, ReferenceStep, PTL DEF ReferenceSpec, DecisionsOutliveReloads

-----------------------------------------------------------------------------
(* What is released with a warning, under reconciliation.                  *)

\* A photo of the manifest was uploaded, and until an angle of it is accepted it is declared
\* to show the manifest's; what is finalized has a grade.
DeclaredInv ==
  /\ \A p \in reference :
       /\ analysis[p] # "absent"
       /\ \/ declared[p] = Manifest[p].angle
          \/ \E n \in Runs : suggestion[<<p, n, "photo_angle">>] = "accepted"
  /\ status = "FINALIZED" => grade # NoGrade

\* Accepted angles are accepted for good.
LEMMA AcceptedStays ==
  ASSUME DecisionsKept, NEW p \in Photos, NEW n \in Runs,
         suggestion[<<p, n, "photo_angle">>] = "accepted"
  PROVE  /\ suggestion'[<<p, n, "photo_angle">>] = "accepted"
         /\ value'[<<p, n>>] = value[<<p, n>>]
<1> DEFINE s == <<p, n, "photo_angle">>
<1>1. s \in SuggestionIds
  BY DEF SuggestionIds, Kinds
<1>2. s \notin LegacyClaims
  BY <1>1, ReferenceAssumption DEF ReferenceAssumption
<1> QED
  BY <1>1, <1>2 DEF DecisionsKept, Decided

\* The runs of a photo are numbered: some have a first.
LEMMA RunsHaveFirst ==
  ASSUME NEW S \in SUBSET Runs, S # {}
  PROVE  \E n \in S : \A m \in S : n <= m
<1> DEFINE below == OpToRel(<, Nat)
<1>1. S \subseteq Nat
  BY EvidenceAssumption DEF Runs, EvidenceAssumption
<1>2. \A x, y \in Nat : x < y => <<x, y>> \in below
  BY ZenonT(30) DEF OpToRel
<1>3. IsWellFoundedOn(below, Nat)
  BY NatLessThanWellFounded
<1> HIDE DEF below
<1>4. PICK n \in S : \A m \in S : ~ (<<m, n>> \in below)
  BY <1>1, <1>3, WFMin
<1>5. ASSUME NEW m \in S
      PROVE  n <= m
  <2>1. n \in Nat /\ m \in Nat /\ ~ (m < n)
    BY <1>1, <1>2, <1>4
  <2> QED
    BY <2>1
<1> QED
  BY <1>5

\* Reconciliation leaves the angle that a photo is taken to show as it is.
LEMMA ReconcileKeepsConfirmed ==
  ASSUME TypeOK, ReferenceInv, DeclaredInv, reconcileReferenceEvidence, NEW p \in Photos
  PROVE  confirmedAngleForPhoto(p)' = confirmedAngleForPhoto(p)
<1> DEFINE AcceptedIn(n) == suggestion[<<p, n, "photo_angle">>] = "accepted"
<1>0. DecisionsKept
  BY ReconcileKeepsDecisions
<1>1. ASSUME NEW n \in Runs
      PROVE  /\ (suggestion'[<<p, n, "photo_angle">>] = "accepted") <=> AcceptedIn(n)
             /\ AcceptedIn(n) => value'[<<p, n>>] = value[<<p, n>>]
  <2>1. <<p, n, "photo_angle">> \in SuggestionIds
    BY DEF SuggestionIds, Kinds
  <2>2. suggestion'[<<p, n, "photo_angle">>] = suggestion[<<p, n, "photo_angle">>]
    BY <2>1, ReconciledSuggestion
  <2> QED
    BY <1>0, <2>2, AcceptedStays
<1>2. { n \in Runs : suggestion'[<<p, n, "photo_angle">>] = "accepted" } = { n \in Runs : AcceptedIn(n) }
  BY <1>1
<1>3. CASE { n \in Runs : AcceptedIn(n) } # {}
  <2> DEFINE first == CHOOSE n \in { m \in Runs : AcceptedIn(m) } :
                        \A m \in { x \in Runs : AcceptedIn(x) } : n <= m
  <2>1. first \in { n \in Runs : AcceptedIn(n) }
    BY <1>3, RunsHaveFirst
  <2>2. value'[<<p, first>>] = value[<<p, first>>]
    BY <1>1, <2>1
  <2> HIDE DEF first
  <2>3. confirmedAngleForPhoto(p) = value[<<p, first>>]
    BY <1>3 DEF confirmedAngleForPhoto, first
  <2>4. confirmedAngleForPhoto(p)' = value'[<<p, first>>]
    BY <1>2, <1>3 DEF confirmedAngleForPhoto, first
  <2> QED
    BY <2>2, <2>3, <2>4
<1>4. CASE { n \in Runs : AcceptedIn(n) } = {}
  <2>1. /\ confirmedAngleForPhoto(p) = IF declared[p] # NoAngle THEN declared[p] ELSE detected[p]
        /\ confirmedAngleForPhoto(p)' = IF declared'[p] # NoAngle THEN declared'[p] ELSE detected'[p]
    BY <1>2, <1>4 DEF confirmedAngleForPhoto
  <2>2. CASE p \in reference
    <3>1. declared[p] = Manifest[p].angle /\ declared'[p] = Manifest[p].angle
      BY <1>4, <2>2 DEF DeclaredInv, reconcileReferenceEvidence
    <3>2. Manifest[p].angle # NoAngle
      BY EvidenceAssumption, ReferenceAssumption DEF EvidenceAssumption, ReferenceAssumption
    <3> QED
      BY <2>1, <3>1, <3>2
  <2>3. CASE p \notin reference
    BY <2>1, <2>3 DEF reconcileReferenceEvidence, Unmodelled
  <2> QED
    BY <2>2, <2>3
<1> QED
  BY <1>3, <1>4

\* Every step keeps DeclaredInv.
LEMMA DeclaredStep ==
  ASSUME TypeOK, ReferenceInv, DeclaredInv, [ReferenceNext]_allVars
  PROVE  DeclaredInv'
<1>0. DecisionsKept /\ RefTypeOK /\ reference \subseteq Photos /\ ReferenceAssumption
  BY ReferenceStep, ReferenceAssumption DEF ReferenceInv, RefTypeOK
<1>1. ASSUME NEW p \in reference, UNCHANGED << declared, reference >>
      PROVE  \/ declared'[p] = Manifest[p].angle
             \/ \E n \in Runs : suggestion'[<<p, n, "photo_angle">>] = "accepted"
  BY <1>0, <1>1, AcceptedStays DEF DeclaredInv
<1> DEFINE Uploaded == \A p \in reference : analysis'[p] # "absent"
           Declared == \A p \in reference :
                         \/ declared'[p] = Manifest[p].angle
                         \/ \E n \in Runs : suggestion'[<<p, n, "photo_angle">>] = "accepted"
           Graded == status' = "FINALIZED" => grade' # NoGrade
<1>2. CASE reconcileReferenceEvidence
  <2>1. reference' = reference /\ Declared /\ Graded
    BY <1>0, <1>2 DEF reconcileReferenceEvidence, refVars, gradeVars, DeclaredInv
  <2>2. Uploaded
    BY <1>0, <1>2 DEF reconcileReferenceEvidence, DeclaredInv
  <2> QED
    BY <2>1, <2>2 DEF DeclaredInv
<1>3. CASE UNCHANGED << evidenceVars, refVars >> /\ [Next]_vars
  <2>1. Graded
    BY <1>3, GradedStep DEF DeclaredInv
  <2>2. reference' = reference /\ Declared /\ Uploaded
    BY <1>1, <1>3 DEF evidenceVars, refVars, DeclaredInv
  <2> QED
    BY <2>1, <2>2 DEF DeclaredInv
<1>4. ASSUME \/ \E p \in Photos : addSamplePhoto(p) \/ analyzePhoto(p)
             \/ OtherEvidence,
             UNCHANGED reportVars
      PROVE  DeclaredInv'
  <2>1. EvidenceNext
    BY <1>0, <1>4 DEF addSamplePhoto, analyzePhoto, OtherEvidence, EvidenceNext, ReferenceAssumption
  <2>2. Graded
    BY <1>4, <2>1, GradedStep DEF DeclaredInv, Next
  <2>3. Uploaded /\ Declared
    <3>1. ASSUME NEW p \in Photos, NEW a \in Angles \cup {NoAngle}, addPhoto(p, a)
          PROVE  Uploaded /\ Declared
      <4>1. p \notin reference
        BY <3>1 DEF addPhoto, DeclaredInv
      <4>2. /\ suggestion' = suggestion
            /\ \A q \in reference : analysis'[q] = analysis[q] /\ declared'[q] = declared[q]
        BY <1>0, <3>1, <4>1 DEF addPhoto, TypeOK
      <4> QED
        BY <4>2 DEF DeclaredInv
    <3>2. CASE \E p \in Photos : \/ startAnalysis(p) \/ failAnalysis(p)
                                 \/ \E n \in Runs, a \in Angles, k \in SUBSET Findings, ok \in BOOLEAN :
                                      saveAnalysis(p, n, a, k, ok)
      <4>1. UNCHANGED declared /\ Uploaded
        BY <1>0, <3>2 DEF startAnalysis, failAnalysis, saveAnalysis, DeclaredInv, TypeOK
      <4> QED
        BY <1>0, <4>1, AcceptedStays DEF DeclaredInv
    <3>3. CASE \/ recoverFailedJobs \/ changeDamage
               \/ \E s \in SuggestionIds, a \in Angles : editSuggestion(s, a)
               \/ \E s \in SuggestionIds : rejectSuggestion(s)
      <4>1. UNCHANGED declared /\ Uploaded
        BY <1>0, <3>3 DEF recoverFailedJobs, changeDamage, editSuggestion, rejectSuggestion, DeclaredInv
      <4> QED
        BY <1>0, <4>1, AcceptedStays DEF DeclaredInv
    <3>4. ASSUME NEW s \in SuggestionIds, acceptSuggestion(s)
          PROVE  Uploaded /\ Declared
      <4>1. Uploaded
        BY <3>4 DEF acceptSuggestion, DeclaredInv
      <4>2. ASSUME NEW p \in reference, declared'[p] # declared[p]
            PROVE  \E n \in Runs : suggestion'[<<p, n, "photo_angle">>] = "accepted"
        <5>1. s[3] = "photo_angle" /\ s[1] = p
          BY <1>0, <3>4, <4>2 DEF acceptSuggestion, TypeOK
        <5>2. s = <<p, s[2], "photo_angle">> /\ s[2] \in Runs
          BY <5>1, SuggestionParts
        <5>3. suggestion'[s] = "accepted"
          BY <3>4 DEF acceptSuggestion, TypeOK
        <5> QED
          BY <5>2, <5>3
      <4> QED
        BY <1>0, <4>1, <4>2, AcceptedStays DEF DeclaredInv
    <3> QED
      BY <2>1, <3>1, <3>2, <3>3, <3>4 DEF EvidenceNext
  <2>4. ASSUME NEW p \in reference', p \notin reference
        PROVE  analysis'[p] # "absent" /\ declared'[p] = Manifest[p].angle
    <3>1. addSamplePhoto(p) /\ p \in Photos
      BY <1>4, <2>4 DEF addSamplePhoto, analyzePhoto, OtherEvidence, refVars
    <3> QED
      BY <3>1 DEF addSamplePhoto, addPhoto, TypeOK
  <2> QED
    BY <2>2, <2>3, <2>4 DEF DeclaredInv
<1>5. ASSUME \/ ReportNext /\ UNCHANGED evidenceVars
             \/ \E to \in InspectionStatus : patchInspection(to)
      PROVE  Next /\ UNCHANGED evidenceVars
  BY <1>5 DEF Next, patchInspection, evidenceVars
<1>6. CASE UNCHANGED allVars
  BY <1>3, <1>6 DEF allVars, vars
<1> QED
  BY <1>2, <1>3, <1>4, <1>5, <1>6 DEF ReferenceNext

\* A step of the server that is no reconciliation is a step of Release.
LEMMA RequestsAreNext ==
  ASSUME [ReferenceNext]_allVars
  PROVE  reconcileReferenceEvidence \/ [Next]_vars
<1>1. ASSUME \/ \E p \in Photos : addSamplePhoto(p) \/ analyzePhoto(p)
             \/ OtherEvidence
      PROVE  EvidenceNext
  BY <1>1, ReferenceAssumption DEF addSamplePhoto, analyzePhoto, OtherEvidence, EvidenceNext,
                                   ReferenceAssumption
<1> QED
  BY <1>1 DEF ReferenceNext, Next, allVars

\* Reconciliation leaves the retakes of a release alone.
LEMMA ReconcileKeepsRetakes ==
  ASSUME TypeOK, ReferenceInv, DeclaredInv, ReleasedRetakesReplaced, reconcileReferenceEvidence
  PROVE  ReleasedRetakesReplaced'
<1> SUFFICES ASSUME status' = "FINALIZED",
                    NEW s \in SuggestionIds,
                    s[3] = "quality_warning", suggestion'[s] = "accepted"
             PROVE  \E q \in Photos : /\ q > s[1] /\ analysis'[q] \in {"completed", "pending"}
                                      /\ confirmedAngleForPhoto(q)' = confirmedAngleForPhoto(s[1])'
  BY DEF ReleasedRetakesReplaced
<1>1. status = "FINALIZED" /\ suggestion[s] = "accepted"
  BY DEF reconcileReferenceEvidence
<1>2. PICK q \in Photos : /\ q > s[1] /\ analysis[q] \in {"completed", "pending"}
                         /\ confirmedAngleForPhoto(q) = confirmedAngleForPhoto(s[1])
  BY <1>1 DEF ReleasedRetakesReplaced
<1>3. analysis'[q] \in {"completed", "pending"}
  BY <1>2 DEF reconcileReferenceEvidence
<1>4. s[1] \in Photos
  BY SuggestionParts
<1> QED
  BY <1>2, <1>3, <1>4, ReconcileKeepsConfirmed

\* What is released with an accepted warning has a later photo of the same angle, whatever
\* the manifest says and however often the store is reconciled.
THEOREM ReferenceRetakes == ReferenceSpec => []ReleasedRetakesReplaced
<1>1. ReferenceInit => DeclaredInv /\ ReleasedRetakesReplaced
  <2>1. seedStore => DeclaredInv
    <3> SUFFICES ASSUME seedStore PROVE DeclaredInv
      OBVIOUS
    <3>1. PICK claims \in SUBSET LegacyClaims, warning \in {"pending", "accepted"},
               state \in {"none", "draft_human_review", "finalized"} :
            SeedEvidence(warning, claims) /\ SeedReport(state)
      BY DEF seedStore
    <3>2. reference = Seeded /\ Seeded \subseteq Photos
      BY ReferenceAssumption DEF seedStore, ReferenceAssumption
    <3> QED
      BY <3>1, <3>2, SeededReport DEF SeedEvidence, DeclaredInv
  <2>2. Init /\ reference = {} => DeclaredInv /\ ReleasedRetakesReplaced
    BY DEF Init, EvidenceInit, DeclaredInv, ReleasedRetakesReplaced
  <2> QED
    BY <2>1, <2>2, SeedsAreReviewed DEF ReferenceInit
<1>2. TypeOK /\ ReferenceInv /\ DeclaredInv /\ ReleasedRetakesReplaced /\ [ReferenceNext]_allVars
        => DeclaredInv' /\ ReleasedRetakesReplaced'
  <2> SUFFICES ASSUME TypeOK, ReferenceInv, DeclaredInv, ReleasedRetakesReplaced,
                      [ReferenceNext]_allVars
               PROVE  DeclaredInv' /\ ReleasedRetakesReplaced'
    OBVIOUS
  <2>1. CASE reconcileReferenceEvidence
    BY <2>1, DeclaredStep, ReconcileKeepsRetakes
  <2>2. CASE [Next]_vars
    BY <2>2, DeclaredStep, RetakesStep DEF DeclaredInv
  <2> QED
    BY <2>1, <2>2, RequestsAreNext
<1> QED
  BY <1>1, <1>2, ReferenceStart, ReferenceStep, PTL DEF ReferenceSpec

\* Reconciliation writes a report anew in every version alike, under the versions' numbers:
\* which version was approved, and that it has the released text, stays as it was.
LEMMA ReconcileKeepsTexts ==
  ASSUME TypeOK, HistoryNamesTexts, ApprovalInv, ReleasedTextWasApproved,
         reconcileReferenceEvidence
  PROVE  HistoryNamesTexts' /\ ApprovalInv' /\ ReleasedTextWasApproved'
<1>1. version' = version /\ approvalStatus' = approvalStatus /\ version \in Nat
  BY DEF reconcileReferenceEvidence, TypeOK
<1>2. CASE UNCHANGED << body, versions >>
  BY <1>1, <1>2 DEF HistoryNamesTexts, ApprovalInv, ReleasedTextWasApproved
<1>3. CASE body' = MaxVersion + 1 /\ versions' = [v \in 1 .. Len(versions) |->
                                                   [versions[v] EXCEPT !.body = MaxVersion + 1]]
  <2>1. versions \in Seq(VersionRecords) /\ MaxVersion + 1 \in Nat
    BY ReportAssumption DEF TypeOK, VersionRecords, ReportAssumption
  <2>2. /\ Len(versions') = Len(versions)
        /\ \A v \in 1 .. Len(versions) : versions'[v] = [versions[v] EXCEPT !.body = body']
    BY <1>3, <2>1, RewrittenVersions
  <2>3. \A v \in 1 .. Len(versions) :
          /\ versions'[v].version = versions[v].version
          /\ versions'[v].approvalStatus = versions[v].approvalStatus
          /\ versions'[v].change = versions[v].change
          /\ versions'[v].body = body'
    <3> SUFFICES ASSUME NEW v \in 1 .. Len(versions)
                 PROVE  /\ versions'[v].version = versions[v].version
                        /\ versions'[v].approvalStatus = versions[v].approvalStatus
                        /\ versions'[v].change = versions[v].change
                        /\ versions'[v].body = body'
      OBVIOUS
    <3>1. versions[v] \in VersionRecords
      BY <2>1
    <3>2. versions'[v] = [versions[v] EXCEPT !.body = body']
      BY <2>2
    <3> QED
      BY <3>1, <3>2 DEF VersionRecords
  <2>4. Len(versions) = version
    BY DEF HistoryNamesTexts
  <2>5. HistoryNamesTexts'
    BY <1>1, <2>2, <2>3, <2>4 DEF HistoryNamesTexts
  <2>6. ApprovalInv'
    BY <1>1, <2>3, <2>4 DEF ApprovalInv
  <2>7. ReleasedTextWasApproved'
    <3> SUFFICES ASSUME NEW v \in 1 .. Len(versions), versions'[v].change = "finalized"
                 PROVE  /\ v > 1
                        /\ versions'[v - 1].change = "approved"
                        /\ versions'[v - 1].body = versions'[v].body
      BY <2>2 DEF ReleasedTextWasApproved
    <3>1. v > 1 /\ versions[v - 1].change = "approved"
      BY <2>3 DEF ReleasedTextWasApproved
    <3>2. v - 1 \in 1 .. Len(versions)
      BY <1>1, <2>4, <3>1
    <3> QED
      BY <2>3, <3>1, <3>2
  <2> QED
    BY <2>5, <2>6, <2>7
<1> QED
  BY <1>2, <1>3 DEF reconcileReferenceEvidence, repairReferenceReport

\* The history of a report names its texts, and a released text was approved as it is, also
\* where seeds and reconciliation write reports past the routes.
THEOREM ReferenceTexts == ReferenceSpec => [](HistoryNamesTexts /\ ReleasedTextWasApproved)
<1>1. ReferenceInit => HistoryNamesTexts /\ ApprovalInv /\ ReleasedTextWasApproved
  <2>1. seedStore => ApprovalInv
    BY DEF seedStore, SeedReport, ApprovalInv
  <2>2. Init => HistoryNamesTexts /\ ApprovalInv /\ ReleasedTextWasApproved
    BY DEF Init, ReportInit, HistoryNamesTexts, ApprovalInv, ReleasedTextWasApproved
  <2> QED
    BY <2>1, <2>2, SeedsAreReviewed DEF ReferenceInit
<1>2. TypeOK /\ HistoryNamesTexts /\ ApprovalInv /\ ReleasedTextWasApproved
        /\ [ReferenceNext]_allVars
        => HistoryNamesTexts' /\ ApprovalInv' /\ ReleasedTextWasApproved'
  <2> SUFFICES ASSUME TypeOK, HistoryNamesTexts, ApprovalInv, ReleasedTextWasApproved,
                      [ReferenceNext]_allVars
               PROVE  HistoryNamesTexts' /\ ApprovalInv' /\ ReleasedTextWasApproved'
    OBVIOUS
  <2>1. CASE reconcileReferenceEvidence
    BY <2>1, ReconcileKeepsTexts
  <2>2. CASE [Next]_vars
    BY <2>2, HistoryInvStep, ReleasedTextInvStep
  <2> QED
    BY <2>1, <2>2, RequestsAreNext
<1> QED
  BY <1>1, <1>2, ReferenceTypes, PTL DEF ReferenceSpec

-----------------------------------------------------------------------------
(* Reconciliation settles.                                                 *)

\* The photos of the store are as the manifest has them, and no legacy claim is left.
Reconciled ==
  /\ \A p \in reference : declared[p] = Manifest[p].angle
  /\ \A p \in Unmodelled :
       /\ detected[p] = Manifest[p].angle
       /\ analysis[p] = "completed"
       /\ p \in clean <=> Manifest[p].ok
       /\ ~WarningMissing(p)
  /\ \A r \in Photos \X Runs :
       r[1] \in Unmodelled /\ suggestion[<<r[1], r[2], "photo_angle">>] # "none" =>
         value[r] = Manifest[r[1]].angle
  /\ \A s \in Claimed \cup MetadataOcr : suggestion[s] = "none"

\* One reconciliation brings the store there, whatever it held before.
THEOREM ReconcileReaches ==
  ASSUME TypeOK, RefTypeOK, reconcileReferenceEvidence
  PROVE  Reconciled'
<1>0. /\ reference \subseteq Photos /\ Unmodelled \subseteq Photos
      /\ Unmodelled' = Unmodelled /\ reference' = reference /\ MetadataOcr' = MetadataOcr
  BY DEF reconcileReferenceEvidence, refVars, RefTypeOK, Unmodelled, MetadataOcr
<1>1. \A p \in reference : declared'[p] = Manifest[p].angle
  BY <1>0 DEF reconcileReferenceEvidence
<1>2. ASSUME NEW p \in Unmodelled
      PROVE  /\ detected'[p] = Manifest[p].angle /\ analysis'[p] = "completed"
             /\ p \in clean' <=> Manifest[p].ok
             /\ ~WarningMissing(p)'
  <2>1. /\ detected'[p] = Manifest[p].angle /\ analysis'[p] = "completed"
        /\ p \in clean' <=> Manifest[p].ok
    BY <1>0 DEF reconcileReferenceEvidence
  <2>2. ASSUME "quality_warning" \in Findings, Manifest[p].warned
        PROVE  suggestion'[<<p, 1, "quality_warning">>] # "none"
    <3>1. /\ 1 \in Runs /\ p \in Photos
          /\ \A s \in LegacyClaims : s[3] \in {"damage_candidate", "extracted_text"}
      BY <1>0, ReferenceAssumption, EvidenceAssumption
         DEF ReferenceAssumption, EvidenceAssumption, Runs
    <3>2. /\ <<p, 1, "quality_warning">> \in SuggestionIds
          /\ <<p, 1, "quality_warning">> \notin Claimed \cup MetadataOcr
      BY <2>2, <3>1 DEF SuggestionIds, Kinds, Claimed, MetadataOcr
    <3>3. suggestion'[<<p, 1, "quality_warning">>] =
            IF WarningMissing(p) THEN "pending" ELSE suggestion[<<p, 1, "quality_warning">>]
      BY <3>2 DEF reconcileReferenceEvidence
    <3> QED
      BY <2>2, <3>3 DEF WarningMissing
  <2> QED
    BY <2>1, <2>2 DEF WarningMissing
<1>3. ASSUME NEW r \in Photos \X Runs, r[1] \in Unmodelled,
             suggestion'[<<r[1], r[2], "photo_angle">>] # "none"
      PROVE  value'[r] = Manifest[r[1]].angle
  <2>1. <<r[1], r[2], "photo_angle">> \in SuggestionIds /\ <<r[1], r[2], "photo_angle">>[3] # "quality_warning"
    BY AngleSuggestionId
  <2>2. suggestion[<<r[1], r[2], "photo_angle">>] # "none"
    BY <1>3, <2>1 DEF reconcileReferenceEvidence
  <2> QED
    BY <1>3, <2>2 DEF reconcileReferenceEvidence
<1>4. ASSUME NEW s \in Claimed' \cup MetadataOcr'
      PROVE  suggestion'[s] = "none"
  <2>1. CASE s \in MetadataOcr
    BY <2>1 DEF reconcileReferenceEvidence, MetadataOcr
  <2>2. CASE s \in Claimed'
    <3>1. s \in SuggestionIds /\ s \in LegacyClaims /\ s[3] = "damage_candidate" /\ suggestion'[s] # "none"
      BY <2>2, ReferenceAssumption DEF Claimed, ReferenceAssumption
    <3>2. s # <<s[1], 1, "quality_warning">>
      BY <3>1
    <3>3. suggestion'[s] = IF s \in Claimed \cup MetadataOcr THEN "none" ELSE suggestion[s]
      BY <3>1, <3>2 DEF reconcileReferenceEvidence
    <3> QED
      BY <3>1, <3>3 DEF Claimed
  <2> QED
    BY <1>0, <1>4, <2>1, <2>2
<1> QED
  BY <1>0, <1>1, <1>2, <1>3, <1>4 DEF Reconciled

\* And another one changes nothing: a reload without a request in between has nothing to
\* save.
THEOREM ReconcileSettles ==
  ASSUME TypeOK, RefTypeOK, Reconciled, reconcileReferenceEvidence
  PROVE  UNCHANGED allVars
<1>0. /\ reference \subseteq Photos /\ Unmodelled \subseteq Photos /\ EvidenceTypeOK
  BY TypeOKSplit DEF RefTypeOK, Unmodelled
<1>1. Claimed = {}
  BY DEF Reconciled, Claimed
<1>2. declared' = declared /\ detected' = detected /\ analysis' = analysis
  BY <1>0 DEF reconcileReferenceEvidence, Reconciled, EvidenceTypeOK
<1>3. clean' = clean
  BY <1>0 DEF reconcileReferenceEvidence, Reconciled
<1>4. value' = value
  <2>1. /\ value \in [Photos \X Runs -> Angles \cup {NoAngle}]
        /\ value' = [r \in Photos \X Runs |->
             IF r[1] \in Unmodelled /\ suggestion[<<r[1], r[2], "photo_angle">>] # "none"
               THEN Manifest[r[1]].angle ELSE value[r]]
    BY <1>0 DEF reconcileReferenceEvidence, EvidenceTypeOK
  <2>2. \A r \in Photos \X Runs :
          r[1] \in Unmodelled /\ suggestion[<<r[1], r[2], "photo_angle">>] # "none" =>
            value[r] = Manifest[r[1]].angle
    BY DEF Reconciled
  <2> QED
    BY <2>1, <2>2
<1>5. suggestion' = suggestion
  <2>1. /\ suggestion \in [SuggestionIds -> SuggestionStatus]
        /\ suggestion' = [s \in SuggestionIds |->
             IF s \in Claimed \cup MetadataOcr THEN "none"
             ELSE IF s = <<s[1], 1, "quality_warning">> /\ s[1] \in Unmodelled
                       /\ WarningMissing(s[1])
               THEN "pending" ELSE suggestion[s]]
    BY <1>0 DEF reconcileReferenceEvidence, EvidenceTypeOK
  <2>2. /\ \A s \in Claimed \cup MetadataOcr : suggestion[s] = "none"
        /\ \A p \in Unmodelled : ~WarningMissing(p)
    BY DEF Reconciled
  <2> QED
    BY <2>1, <2>2
<1>6. UNCHANGED << damage, body, versions >>
  BY <1>1 DEF reconcileReferenceEvidence, repairReferenceReport
<1> QED
  BY <1>2, <1>3, <1>4, <1>5, <1>6
     DEF reconcileReferenceEvidence, allVars, vars, evidenceVars, reportVars, gradeVars, draftVars, refVars

-----------------------------------------------------------------------------
(* The edge deployment.                                                    *)

\* A store from which nothing can be finalized, and a store that was seeded as released.
Unreleased(s) ==
  s.status # "FINALIZED" /\ s.approvalStatus \in {"draft", "in_review"} /\ ~s.finalizedAt

Released(s) ==
  /\ s.status = "FINALIZED" /\ s.finalizedAt
  /\ s.version = 3 /\ s.body = 1 /\ s.approvalStatus = "finalized"

\* Saving adds at most the store as the request left it.
LEMMA SavedSnapshot ==
  ASSUME saveStore
  PROVE  \A s \in kv' : s \in kv \/ s = snapshotStore'
  BY DEF saveStore

\* The requests that leave the report alone, and those that may change it.
LEMMA EdgeReportStep ==
  ASSUME handleApi
  PROVE  \/ UNCHANGED << version, body, approvalStatus, finalizedAt >>
            /\ (status' = "FINALIZED" <=> status = "FINALIZED")
         \/ \E h \in BOOLEAN : draft(h)
         \/ patchReport
         \/ finalizeReport(Complete100 /\ EvidenceReady)
<1>1. ASSUME PhotoRoutes, UNCHANGED reportVars
      PROVE  UNCHANGED << version, body, approvalStatus, finalizedAt >>
             /\ (status' = "FINALIZED" <=> status = "FINALIZED")
  BY <1>1 DEF PhotoRoutes, addPhoto, analyze, showAnalysis, analyzeAgain, Mutable, reportVars
<1>2. ASSUME ReviewRoutes, UNCHANGED reportVars
      PROVE  UNCHANGED << version, body, approvalStatus, finalizedAt >>
             /\ (status' = "FINALIZED" <=> status = "FINALIZED")
  BY <1>2 DEF ReviewRoutes, editSuggestion, acceptSuggestion, rejectSuggestion, changeDamage,
              recomputeCompleteness, Mutable, reportVars
<1>3. ASSUME \/ requestGrade(missingRequiredEvidence = {}, damage)
             \/ \E d \in 0 .. MaxDamage, g \in GradingVersions : saveGrade(d, g)
      PROVE  UNCHANGED << version, body, approvalStatus, finalizedAt >>
             /\ (status' = "FINALIZED" <=> status = "FINALIZED")
  BY <1>3 DEF requestGrade, saveGrade, tryTransition, canTransition, allowedTransitions, textVars
<1>4. ASSUME NEW to \in InspectionStatus, patchInspection(to)
      PROVE  UNCHANGED << version, body, approvalStatus, finalizedAt >>
             /\ (status' = "FINALIZED" <=> status = "FINALIZED")
  BY <1>4 DEF patchInspection, transition, Mutable, reportVars
<1> QED
  BY <1>1, <1>2, <1>3, <1>4 DEF handleApi, ReportRoutes

\* The edge has no route that approves a report, so whatever requests come, and whichever
\* snapshots they find, an inspection that was not seeded as released never is.
THEOREM NothingReleasedAtTheEdge ==
  EdgeSpec /\ status # "FINALIZED" => [](status # "FINALIZED")
<1> DEFINE Inv == Unreleased(snapshotStore) /\ \A s \in kv : Unreleased(s)
<1>0. Unreleased(snapshotStore) <=>
        status # "FINALIZED" /\ approvalStatus \in {"draft", "in_review"} /\ ~finalizedAt
  BY DEF Unreleased, snapshotStore
<1>1. EdgeInit /\ status # "FINALIZED" => Inv
  <2> SUFFICES ASSUME EdgeInit, status # "FINALIZED" PROVE Inv
    OBVIOUS
  <2>1. CASE seedStore
    <3>1. PICK state \in {"none", "draft_human_review", "finalized"} : SeedReport(state)
      BY <2>1 DEF seedStore
    <3>2. approvalStatus = "draft" /\ ~finalizedAt
      BY <3>1, SeededReport DEF SeedReport
    <3> QED
      BY <1>0, <3>2 DEF EdgeInit
  <2>2. CASE Init
    BY <1>0, <2>2 DEF Init, ReportInit, EdgeInit
  <2> QED
    BY <2>1, <2>2 DEF EdgeInit, ReferenceInit
<1>2. Inv /\ [onRequest]_edgeVars => Inv'
  <2> SUFFICES ASSUME Inv, [onRequest]_edgeVars PROVE Inv'
    OBVIOUS
  <2>1. Unreleased(snapshotStore)' <=>
          status' # "FINALIZED" /\ approvalStatus' \in {"draft", "in_review"} /\ ~finalizedAt'
    BY DEF Unreleased, snapshotStore
  <2>2. CASE loadStore
    <3>1. PICK s \in kv : restoreStore(s)
      BY <2>2 DEF loadStore
    <3>2. Unreleased(s) /\ kv' = kv
      BY <2>2 DEF loadStore
    <3> QED
      BY <2>1, <3>1, <3>2 DEF restoreStore, Unreleased
  <2>3. CASE handleApi /\ saveStore
    <3>1. CASE UNCHANGED << version, body, approvalStatus, finalizedAt >>
               /\ (status' = "FINALIZED" <=> status = "FINALIZED")
      BY <1>0, <2>1, <2>3, <3>1, SavedSnapshot
    <3>2. CASE \E h \in BOOLEAN : draft(h)
      BY <1>0, <2>1, <2>3, <3>2, SavedSnapshot DEF draft, nextVersion
    <3>3. CASE patchReport
      BY <1>0, <2>1, <2>3, <3>3, SavedSnapshot DEF patchReport, nextVersion
    <3>4. CASE finalizeReport(Complete100 /\ EvidenceReady)
      BY <1>0, <3>4 DEF finalizeReport
    <3> QED
      BY <2>3, <3>1, <3>2, <3>3, <3>4, EdgeReportStep
  <2>4. CASE UNCHANGED edgeVars
    <3>1. kv' = kv /\ status' = status /\ approvalStatus' = approvalStatus
          /\ finalizedAt' = finalizedAt
      BY <2>4 DEF edgeVars, allVars, vars, reportVars
    <3> QED
      BY <1>0, <2>1, <3>1
  <2> QED
    BY <2>2, <2>3, <2>4 DEF onRequest
<1>3. Inv => status # "FINALIZED"
  BY <1>0
<1> QED
  BY <1>1, <1>2, <1>3, PTL DEF EdgeSpec

\* A seeded release stays as it was seeded, whatever requests find it in whichever snapshot.
THEOREM SeededReleaseStays ==
  EdgeSpec /\ status = "FINALIZED" =>
    [](status = "FINALIZED" /\ finalizedAt /\ version = 3 /\ approvalStatus = "finalized")
<1> DEFINE Inv == Released(snapshotStore) /\ \A s \in kv : Released(s)
<1>0. Released(snapshotStore) <=>
        /\ status = "FINALIZED" /\ finalizedAt
        /\ version = 3 /\ body = 1 /\ approvalStatus = "finalized"
  BY DEF Released, snapshotStore
<1>1. EdgeInit /\ status = "FINALIZED" => Inv
  <2> SUFFICES ASSUME EdgeInit, status = "FINALIZED" PROVE Inv
    OBVIOUS
  <2>1. seedStore
    BY DEF EdgeInit, ReferenceInit, Init, EvidenceInit
  <2>2. PICK state \in {"none", "draft_human_review", "finalized"} : SeedReport(state)
    BY <2>1 DEF seedStore
  <2>3. state = "finalized" /\ finalizedAt
    BY <2>2, SeededReport
  <2>4. Len(versions) = 3
    BY <2>2, <2>3 DEF SeedReport
  <2>5. version = 3 /\ body = 1 /\ approvalStatus = "finalized"
    BY <2>2, <2>3, <2>4 DEF SeedReport
  <2> QED
    BY <1>0, <2>3, <2>5 DEF EdgeInit
<1>2. Inv /\ [onRequest]_edgeVars => Inv'
  <2> SUFFICES ASSUME Inv, [onRequest]_edgeVars PROVE Inv'
    OBVIOUS
  <2>1. Released(snapshotStore)' <=>
          /\ status' = "FINALIZED" /\ finalizedAt'
          /\ version' = 3 /\ body' = 1 /\ approvalStatus' = "finalized"
    BY DEF Released, snapshotStore
  <2>2. CASE loadStore
    <3>1. PICK s \in kv : restoreStore(s)
      BY <2>2 DEF loadStore
    <3>2. Released(s) /\ kv' = kv
      BY <2>2 DEF loadStore
    <3> QED
      BY <2>1, <3>1, <3>2 DEF restoreStore, Released
  <2>3. CASE handleApi /\ saveStore
    <3>1. UNCHANGED << version, body, approvalStatus, finalizedAt >>
          /\ (status' = "FINALIZED" <=> status = "FINALIZED")
      BY <1>0, <2>3, EdgeReportStep DEF draft, patchReport, finalizeReport
    <3> QED
      BY <1>0, <2>1, <2>3, <3>1, SavedSnapshot
  <2>4. CASE UNCHANGED edgeVars
    <3>1. /\ kv' = kv /\ status' = status /\ approvalStatus' = approvalStatus
          /\ finalizedAt' = finalizedAt /\ version' = version /\ body' = body
      BY <2>4 DEF edgeVars, allVars, vars, reportVars
    <3> QED
      BY <1>0, <2>1, <3>1
  <2> QED
    BY <2>2, <2>3, <2>4 DEF onRequest
<1>3. Inv => status = "FINALIZED" /\ finalizedAt /\ version = 3 /\ approvalStatus = "finalized"
  BY <1>0
<1> QED
  BY <1>1, <1>2, <1>3, PTL DEF EdgeSpec
=============================================================================
