---------------------------- MODULE MCReference -----------------------------
(* A small instance of Reference for TLC: photo 1 is the seeded front view, with the  *)
(* warning of its manifest entry; photo 2 is a sample or a camera picture.            *)
EXTENDS Reference

CONSTANTS front, rear

MCManifest ==
  << [angle |-> front, ok |-> FALSE, warned |-> TRUE],
     [angle |-> front, ok |-> TRUE, warned |-> FALSE] >>

MCLegacy == { <<1, 1, "extracted_text">> }

\* Bound: the second photo is the one that may answer the warning of the first; its analysis
\* raises no warning and reads no text, so that the only text is what an earlier seed accepted.
SecondPhotoClear == \A k \in Findings : suggestion[<<2, 1, k>>] = "none"

SeededSpec == seedStore /\ [][ReferenceNext /\ SecondPhotoClear']_allVars
=============================================================================
