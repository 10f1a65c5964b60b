--------------------------- MODULE ReservedCharges ---------------------------
(***************************************************************************)
(* What processing a transaction promises, with no database transaction,   *)
(* no column and no save: attempts that find a transaction pending may     *)
(* reserve it; whoever reserved it may capture money for it, once, and     *)
(* settle it according to what the gateway did. As long as one attempt     *)
(* alone has reserved a transaction, it is charged at most once and its    *)
(* settlement is final; only attempts that found it pending together can   *)
(* disturb that, and none that comes later. TransactionProcessing          *)
(* implements it.                                                          *)
(***************************************************************************)
CONSTANTS Transactions, Requests

VARIABLES
  status,        \* the status of each transaction, "ABSENT" before it exists
  racing,        \* per transaction, the attempts that may still reserve it
  reservations,  \* per transaction, the attempts that have reserved it
  charges        \* per transaction, the attempts that captured money for it

abstractVars == <<status, racing, reservations, charges>>

AbstractInit ==
  /\ status       = [t \in Transactions |-> "ABSENT"]
  /\ racing       = [t \in Transactions |-> {}]
  /\ reservations = [t \in Transactions |-> {}]
  /\ charges      = [t \in Transactions |-> {}]

\* r reserved t, and if nobody else did, t is still waiting to be settled
MaySettle(t, r) ==
  /\ r \in reservations[t]
  /\ reservations[t] = {r} => status[t] = "PROCESSING"

Open(t) ==
  /\ status[t] = "ABSENT"
  /\ status' = [status EXCEPT ![t] = "PENDING"]
  /\ UNCHANGED <<racing, reservations, charges>>

\* An attempt finds the transaction pending: it is the only way into the race
Attempt(t, r) ==
  /\ status[t] = "PENDING"
  /\ racing' = [racing EXCEPT ![t] = @ \cup {r}]
  /\ UNCHANGED <<status, reservations, charges>>

GiveUp(t, r) ==
  /\ racing' = [racing EXCEPT ![t] = @ \ {r}]
  /\ UNCHANGED <<status, reservations, charges>>

\* One that comes second in a race may take the transaction back to PROCESSING
Reserve(t, r) ==
  /\ r \in racing[t]
  /\ racing' = [racing EXCEPT ![t] = @ \ {r}]
  /\ reservations' = [reservations EXCEPT ![t] = @ \cup {r}]
  /\ \/ status' = [status EXCEPT ![t] = "PROCESSING"]
     \/ status[t] # "PENDING" /\ UNCHANGED status
  /\ UNCHANGED charges

Capture(t, r) ==
  /\ MaySettle(t, r)
  /\ r \notin charges[t]
  /\ charges' = [charges EXCEPT ![t] = @ \cup {r}]
  /\ UNCHANGED <<status, racing, reservations>>

\* COMPLETED says that money was captured. A gateway that answers with an error
\* may have captured it as well, so FAILED says nothing.
Settle(t, r, outcome) ==
  /\ MaySettle(t, r)
  /\ outcome = "COMPLETED" => r \in charges[t]
  /\ status' = [status EXCEPT ![t] = outcome]
  /\ UNCHANGED <<racing, reservations, charges>>

AbstractNext ==
  \E t \in Transactions :
    \/ Open(t)
    \/ \E r \in Requests :
         \/ Attempt(t, r) \/ GiveUp(t, r) \/ Reserve(t, r) \/ Capture(t, r)
         \/ \E outcome \in {"COMPLETED", "FAILED"} : Settle(t, r, outcome)

AbstractSpec == AbstractInit /\ [][AbstractNext]_abstractVars

=============================================================================
