------------------------------ MODULE MCOutbox ------------------------------
(* Instances of Outbox for TLC.  Requests are interchangeable.             *)
EXTENDS Outbox, TLC

RequestSymmetry == Permutations(Requests)
=============================================================================
