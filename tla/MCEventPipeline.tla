--------------------------- MODULE MCEventPipeline ---------------------------
(***************************************************************************)
(* Small instances of EventPipeline for TLC.                               *)
(***************************************************************************)
EXTENDS EventPipeline

CONSTANTS x, p1, p2, garbled, empty

\* Both processes consume; one relays
OneRelays == [e \in Executions |-> p1]

=============================================================================
