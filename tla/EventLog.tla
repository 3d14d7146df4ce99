------------------------------ MODULE EventLog ------------------------------
(***************************************************************************)
(* What the outbox, the event bus and the operations projector promise     *)
(* together: events that were committed with the business rows reach the   *)
(* operational projection, never any other, and none is counted again for  *)
(* as long as the projector remembers it.  The delivery in between may     *)
(* lose, repeat and reorder what it likes.                                 *)
(***************************************************************************)
EXTENDS Naturals

CONSTANT Events

VARIABLES
  log,           \* events committed with the rows that they report
  projected,     \* events in the projection
  remembered,    \* events whose idempotency item exists
  count          \* projectedCount

logVars == << log, projected, remembered, count >>

LogInit == log = {} /\ projected = {} /\ remembered = {} /\ count = 0

\* One request commits all its events.
Append(E) ==
  /\ E # {} /\ E \cap log = {}
  /\ log' = log \cup E
  /\ UNCHANGED << projected, remembered, count >>

Project(e) ==
  /\ e \in log \ remembered
  /\ projected' = projected \cup {e}
  /\ remembered' = remembered \cup {e}
  /\ count' = count + 1
  /\ UNCHANGED log

Forget(e) ==
  /\ e \in remembered
  /\ remembered' = remembered \ {e}
  /\ UNCHANGED << log, projected, count >>

LogNext ==
  \/ \E E \in SUBSET Events : Append(E)
  \/ \E e \in Events : Project(e) \/ Forget(e)

LogSpec == LogInit /\ [][LogNext]_logVars
=============================================================================
