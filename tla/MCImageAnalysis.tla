-------------------------- MODULE MCImageAnalysis ---------------------------
(* Instances of ImageAnalysis for TLC.                                     *)
EXTENDS ImageAnalysis, TLC

\* Requests and workers are interchangeable; no liveness is checked with it.
Symmetry == Permutations(Requests) \cup Permutations(Workers)
=============================================================================
