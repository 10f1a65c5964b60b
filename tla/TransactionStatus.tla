-------------------------- MODULE TransactionStatus --------------------------
(***************************************************************************)
(* The status machine of a payment transaction: the enum, the map of valid *)
(* transitions and the operators the entity's guard is built from.         *)
(***************************************************************************)

\* TransactionStatus
Statuses == {"PENDING", "PROCESSING", "COMPLETED", "FAILED", "CANCELLED"}

\* VALID_TRANSITIONS, a map from a status to the set of its valid targets
ValidTransitions ==
  [from \in Statuses |->
     CASE from = "PENDING"    -> {"PROCESSING", "CANCELLED"}
       [] from = "PROCESSING" -> {"COMPLETED", "FAILED"}
       [] from = "FAILED"     -> {"PENDING"}
       [] OTHER               -> {}]

\* isValidTransition
IsValidTransition(from, to) ==
  /\ from \in Statuses
  /\ to \in ValidTransitions[from]

\* TransactionEntity.isTerminal
IsTerminal(status) == status \in {"COMPLETED", "CANCELLED"}

=============================================================================
