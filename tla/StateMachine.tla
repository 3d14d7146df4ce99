---------------------------- MODULE StateMachine ----------------------------
(***************************************************************************)
(* The inspection state machine (apps/api/src/stateMachine.ts) and the one *)
(* place that applies it, MemoryStore.transition.  Every other component   *)
(* moves the status of an inspection through these operators.              *)
(***************************************************************************)

InspectionStatus ==
  { "DRAFT", "NEEDS_PHOTOS", "READY_FOR_GRADING", "GRADED", "AI_DRAFT_PENDING",
    "AI_DRAFTED", "HUMAN_REVIEW_REQUIRED", "REPORT_FAILED", "FINALIZED" }

\* Pairs <<from, to>> of the table allowedTransitions.
allowedTransitions ==
  { <<"DRAFT", "NEEDS_PHOTOS">>,
    <<"DRAFT", "READY_FOR_GRADING">>,
    <<"NEEDS_PHOTOS", "READY_FOR_GRADING">>,
    <<"READY_FOR_GRADING", "GRADED">>,
    <<"GRADED", "AI_DRAFT_PENDING">>,
    <<"AI_DRAFT_PENDING", "AI_DRAFTED">>,
    <<"AI_DRAFT_PENDING", "HUMAN_REVIEW_REQUIRED">>,
    <<"AI_DRAFT_PENDING", "REPORT_FAILED">>,
    <<"AI_DRAFTED", "HUMAN_REVIEW_REQUIRED">>,
    <<"AI_DRAFTED", "FINALIZED">>,
    <<"HUMAN_REVIEW_REQUIRED", "FINALIZED">>,
    <<"HUMAN_REVIEW_REQUIRED", "AI_DRAFT_PENDING">>,
    <<"REPORT_FAILED", "AI_DRAFT_PENDING">> }

canTransition(from, to) == from = to \/ <<from, to>> \in allowedTransitions

VARIABLE status         \* inspection.status

\* assertMutableInspection: what most write operations check first.
Mutable == status # "FINALIZED"

\* MemoryStore.transition when it does not throw.
transition(to) == canTransition(status, to) /\ status' = to

\* A transition whose refusal the caller does not undo: the exception leaves
\* the status alone and whatever was written before it in place.
tryTransition(to) == status' = IF canTransition(status, to) THEN to ELSE status
=============================================================================
