------------------------------ MODULE Delivery -------------------------------
(***************************************************************************)
(* What the outbox, the relay, the queue and the consumer promise together:*)
(* an event that was committed with its business data is told to the       *)
(* consumer, or set aside where operators find it; never is one told that  *)
(* was not committed. An event stays set aside, unless two replicas had it *)
(* in hand at once. EventPipeline implements it.                           *)
(***************************************************************************)
CONSTANT Events

VARIABLES
  committed,  \* events whose database transaction committed
  told,       \* events the consumer has handled
  setAside,   \* events parked in FAILED, or in the dead-letter queue
  contested   \* events that two replicas have had in hand at once

deliveryVars == <<committed, told, setAside, contested>>

DeliveryInit == committed = {} /\ told = {} /\ setAside = {} /\ contested = {}

Commit(e) ==
  /\ e \notin committed
  /\ committed' = committed \cup {e}
  /\ UNCHANGED <<told, setAside, contested>>

Tell(e) ==
  /\ e \in committed
  /\ told' = told \cup {e}
  /\ UNCHANGED <<committed, setAside, contested>>

\* An event may be set aside although it was told: the failure may have been
\* that of the acknowledgement
SetAside(e) ==
  /\ e \in committed
  /\ setAside' = setAside \cup {e}
  /\ UNCHANGED <<committed, told, contested>>

Contend(S) ==
  /\ contested' = contested \cup S
  /\ UNCHANGED <<committed, told, setAside>>

\* A replica that loaded the event before it was parked saves its own view of it
TakeBack(e) ==
  /\ e \in contested
  /\ setAside' = setAside \ {e}
  /\ UNCHANGED <<committed, told, contested>>

DeliveryNext ==
  \/ \E e \in Events : Commit(e) \/ Tell(e) \/ SetAside(e) \/ TakeBack(e)
  \/ \E S \in SUBSET committed : Contend(S)

Settle(e) == e \notin told \cup setAside /\ (Tell(e) \/ SetAside(e))

DeliverySpec ==
  /\ DeliveryInit
  /\ [][DeliveryNext]_deliveryVars
  /\ \A e \in Events : WF_deliveryVars(Settle(e))

=============================================================================
