----------------------------- MODULE CostGuard ------------------------------
(***************************************************************************)
(* The Bedrock cost guard (apps/api/src/operationsStore.ts) for one kind   *)
(* of model call and one month: a counter and the reservations it counts,  *)
(* written in one DynamoDB transaction.  A call of reserveBedrockUsage is  *)
(* one step: what its error path reads after a failed transaction (the     *)
(* reservation, then the counter) only grows within a month, so it may be  *)
(* read in the state in which the call ends.                               *)
(***************************************************************************)
EXTENDS Integers, FiniteSets

CONSTANT Limit      \* monthlyLimit

ASSUME LimitAssumption == Limit \in Nat \ {0}

VARIABLES
  reservations,     \* idempotency keys with a RESERVATION item
  usage             \* the counter of the month

guardVars == << reservations, usage >>

GuardInit == reservations = {} /\ usage = 0

\* Both conditions of the transaction hold: the key is new and the counter below its limit.
Grant(key) ==
  /\ key \notin reservations /\ usage < Limit
  /\ reservations' = reservations \cup {key}
  /\ usage' = usage + 1

\* Variant: a retry under the same key is counted again.
reserveEveryTime(key) ==
  /\ usage < Limit
  /\ reservations' = reservations \cup {key}
  /\ usage' = usage + 1

\* The call returns: reserved now, or by an earlier call with this key.
reserve(key) ==
  \/ Grant(key)
  \/ key \in reservations /\ UNCHANGED guardVars

\* COST_GUARD_REACHED.
costGuardReached(key) == key \notin reservations /\ usage >= Limit /\ UNCHANGED guardVars

\* DynamoDB fails, before or after the transaction took effect.
reserveFails(key) == Grant(key) \/ UNCHANGED guardVars

\* The counter counts the reservations, and never passes the limit.
Balanced == usage = Cardinality(reservations) /\ usage <= Limit
=============================================================================
