---------------------------- MODULE MCIdempotency ----------------------------
(***************************************************************************)
(* Small instances of Idempotency for TLC.                                 *)
(***************************************************************************)
EXTENDS Idempotency

\* Redis is empty, or holds an entry that some other writer left
EmptyOrJunk == {NoResponse, Corrupt}

=============================================================================
