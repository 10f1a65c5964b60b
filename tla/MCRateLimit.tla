----------------------------- MODULE MCRateLimit -----------------------------
(***************************************************************************)
(* Small instances of RateLimit for TLC: the configurations give every     *)
(* constant its value. Requests are not made symmetric, since the runs     *)
(* check temporal properties.                                              *)
(***************************************************************************)
EXTENDS RateLimit

=============================================================================
