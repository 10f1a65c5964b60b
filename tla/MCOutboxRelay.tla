---------------------------- MODULE MCOutboxRelay ----------------------------
(***************************************************************************)
(* Small instances of OutboxRelay for TLC.                                 *)
(***************************************************************************)
EXTENDS OutboxRelay

CONSTANTS x1, x2, x3, p1, p2

\* One server whose ticks may overlap
OneServer == [x \in Executions |-> p1]

\* The same, and a replica beside it
WithReplica == [x \in Executions |-> IF x = x3 THEN p2 ELSE p1]

=============================================================================
