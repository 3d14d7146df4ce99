----------------------------- MODULE MCRelease ------------------------------
(* Small instances of Release for TLC.  Draft requests are interchangeable. *)
EXTENDS Release, TLC

CallSymmetry == Permutations(Calls)
=============================================================================
