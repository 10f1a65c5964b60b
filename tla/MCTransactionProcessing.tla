---------------------- MODULE MCTransactionProcessing -----------------------
(***************************************************************************)
(* Small instances of TransactionProcessing for TLC.                       *)
(***************************************************************************)
EXTENDS TransactionProcessing, TLC

\* Requests are interchangeable, and so are transactions: no definition names
\* one. Used only in runs without temporal properties.
Interchangeable == Permutations(Requests) \cup Permutations(Transactions)

=============================================================================
