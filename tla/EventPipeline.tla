---------------------------- MODULE EventPipeline ----------------------------
(***************************************************************************)
(* The way of an event from the commit of a handler to the notification:   *)
(* the outbox and its relay (OutboxRelay), the queue, and the              *)
(* NotificationConsumer of each server process. The queue is a standard    *)
(* one: it delivers in any order and, after the visibility timeout, again; *)
(* a message that was received MaxReceives times goes to the dead-letter   *)
(* queue. Others may put messages on it that the consumer cannot read.     *)
(*                                                                         *)
(* A message is <<e, n>>, the n-th that the broker accepted for event e.   *)
(* The process that dies takes its relay and its consumer with it. A       *)
(* handler slower than the visibility timeout counts as a mishap.          *)
(***************************************************************************)
EXTENDS Naturals, FiniteSets

CONSTANTS
  EventCount, Executions, Processes, ProcessOf, MaxAttempts, BatchSize, MaxMishaps,
  Foreign,      \* messages that others may have sent
  Garbled,      \* those of them whose Body is not JSON; the others have none
  MaxReceives,  \* maxReceiveCount of the redrive policy
  NoMessage

ASSUME PipelineAssumption ==
  /\ EventCount \in Nat
  /\ ProcessOf \in [Executions -> Processes]
  /\ MaxAttempts \in Nat \ {0}
  /\ BatchSize \in Nat \ {0}
  /\ MaxMishaps \in Nat
  /\ Garbled \subseteq Foreign
  /\ MaxReceives \in Nat \ {0}

VARIABLES
  table, sent, refused, isProcessing, pc, batch, snap, mishaps, contested,
  queue,     \* where each message is
  receives,  \* how often it was received: the last receipt handed out
  handled,   \* how often processNotification was called for it
  stage,     \* what the consumer of each process is doing
  message,   \* the message it has received
  receipt    \* and the receipt it got with it

relay    == <<table, sent, refused, isProcessing, pc, batch, snap, contested>>
broker   == <<queue, receives>>
consumer == <<stage, message, receipt>>
vars     == <<relay, mishaps, broker, handled, consumer>>

Relay == INSTANCE OutboxRelay

Copies(e) == {<<e, n>> : n \in 1 .. Relay!SentCap}
OwnMessages == UNION {Copies(e) : e \in Relay!EventIds}
Messages == OwnMessages \cup Foreign

\* What others sent is not what the relay sent
ASSUME ForeignAssumption == Foreign \cap OwnMessages = {}

-----------------------------------------------------------------------------

Init ==
  /\ Relay!Init
  /\ queue \in {[m \in Messages |-> IF m = f THEN "visible" ELSE "absent"] : f \in Foreign}
  /\ receives = [m \in Messages |-> 0]
  /\ handled  = [m \in Messages |-> 0]
  /\ stage    = [p \in Processes |-> "polling"]
  /\ message  = [p \in Processes |-> NoMessage]
  /\ receipt  = [p \in Processes |-> 0]

\* The messages that the broker accepts in this step
Arriving == {m \in OwnMessages : sent[m[1]] < m[2] /\ m[2] <= sent'[m[1]]}

WithQueue ==
  /\ queue' = [m \in Messages |-> IF m \in Arriving THEN "visible" ELSE queue[m]]
  /\ UNCHANGED <<receives, handled, consumer>>

Insert(e) == Relay!Insert(e) /\ WithQueue

Tick(p) == (\E x \in Executions : ProcessOf[x] = p /\ Relay!Tick(x)) /\ WithQueue

RelayProgress(x) == Relay!Progress(x) /\ WithQueue

RelayMishap(x) ==
  /\ Relay!SendAnswerLost(x) \/ Relay!PublishSaveFails(x) \/ Relay!FailureSaveFails(x)
  /\ WithQueue

-----------------------------------------------------------------------------
(* The queue *)

Receive(p, m) ==
  /\ stage[p] = "polling"
  /\ queue[m] = "visible"
  /\ receives[m] < MaxReceives
  /\ queue'    = [queue EXCEPT ![m] = "inflight"]
  /\ receives' = [receives EXCEPT ![m] = @ + 1]
  /\ stage'    = [stage EXCEPT ![p] = "handling"]
  /\ message'  = [message EXCEPT ![p] = m]
  /\ receipt'  = [receipt EXCEPT ![p] = receives[m] + 1]
  /\ UNCHANGED <<relay, mishaps, handled>>

\* The redrive policy
DeadLetter(m) ==
  /\ queue[m] = "visible"
  /\ receives[m] = MaxReceives
  /\ queue' = [queue EXCEPT ![m] = "dead"]
  /\ UNCHANGED <<relay, mishaps, receives, handled, consumer>>

Held(m) ==
  \E p \in Processes :
    stage[p] # "polling" /\ message[p] = m /\ receipt[p] = receives[m]

Expire(m) ==
  /\ queue[m] = "inflight"
  /\ queue' = [queue EXCEPT ![m] = "visible"]
  /\ UNCHANGED <<relay, receives, handled, consumer>>

\* The visibility timeout, after whoever received the message gave up
VisibilityExpires(m) == ~ Held(m) /\ Expire(m) /\ UNCHANGED mishaps

\* The visibility timeout, while the message is still being handled
HandlerTooSlow(m) == Held(m) /\ Expire(m) /\ Relay!Mishap

-----------------------------------------------------------------------------
(* handleMessage, and what sqs-consumer does with its outcome *)

Poll(p) ==
  /\ stage'   = [stage EXCEPT ![p] = "polling"]
  /\ message' = [message EXCEPT ![p] = NoMessage]
  /\ receipt' = [receipt EXCEPT ![p] = 0]

Acknowledge(p) ==
  /\ stage' = [stage EXCEPT ![p] = "deleting"]
  /\ UNCHANGED <<message, receipt>>

\* The event is processed; returning acknowledges the message
Handle(p) ==
  /\ stage[p] = "handling"
  /\ message[p] \in OwnMessages
  /\ handled' = [handled EXCEPT ![message[p]] = @ + 1]
  /\ Acknowledge(p)
  /\ UNCHANGED <<relay, mishaps, broker>>

\* A message without a Body is acknowledged
HandleEmpty(p) ==
  /\ stage[p] = "handling"
  /\ message[p] \in Foreign \ Garbled
  /\ Acknowledge(p)
  /\ UNCHANGED <<relay, mishaps, broker, handled>>

\* Mutant: the catch does not rethrow
HandleThrowsSwallowed(p) ==
  /\ stage[p] = "handling"
  /\ message[p] \in Garbled
  /\ Acknowledge(p)
  /\ UNCHANGED <<relay, mishaps, broker, handled>>

\* Mutant: the Body of an event is parsed twice
HandleThrowsAlways(p) ==
  /\ stage[p] = "handling"
  /\ message[p] \in Garbled \cup OwnMessages
  /\ Poll(p)
  /\ UNCHANGED <<relay, mishaps, broker, handled>>

\* Mutant: the consumer waits for a message to be repaired
HandleThrowsStuck(p) ==
  /\ stage[p] = "handling"
  /\ message[p] \in Garbled
  /\ UNCHANGED vars

\* JSON.parse throws, the error is rethrown: the message is left to its timeout
HandleThrows(p) ==
  /\ stage[p] = "handling"
  /\ message[p] \in Garbled
  /\ Poll(p)
  /\ UNCHANGED <<relay, mishaps, broker, handled>>

Deleted(m) ==
  queue' = [queue EXCEPT ![m] = IF @ \in {"inflight", "visible"} THEN "deleted" ELSE @]

\* Mutant: a handler that returns undefined acknowledges nothing
DeleteNever(p) ==
  /\ stage[p] = "deleting"
  /\ Poll(p)
  /\ UNCHANGED <<relay, mishaps, broker, handled>>

\* DeleteMessage with the last receipt; with an older one it may have no effect
Delete(p) ==
  /\ stage[p] = "deleting"
  /\ \/ Deleted(message[p])
     \/ receipt[p] < receives[message[p]] /\ UNCHANGED queue
  /\ Poll(p)
  /\ UNCHANGED <<relay, mishaps, receives, handled>>

\* DeleteMessage fails
DeleteFails(p) ==
  /\ stage[p] = "deleting"
  /\ Relay!Mishap
  /\ Poll(p)
  /\ UNCHANGED <<relay, broker, handled>>

\* A process dies and is restarted
Die(p) ==
  /\ \/ Relay!Crash(p)
     \/ /\ ~ isProcessing[p]
        /\ stage[p] # "polling"
        /\ Relay!Mishap
        /\ UNCHANGED relay
  /\ Poll(p)
  /\ UNCHANGED <<broker, handled>>

-----------------------------------------------------------------------------

ConsumerProgress(p) == Handle(p) \/ HandleEmpty(p) \/ HandleThrows(p) \/ Delete(p)

Next ==
  \/ \E e \in Relay!EventIds : Insert(e)
  \/ \E x \in Executions : RelayProgress(x) \/ RelayMishap(x)
  \/ \E p \in Processes : \/ Tick(p) \/ ConsumerProgress(p) \/ DeleteFails(p) \/ Die(p)
                          \/ \E m \in Messages : Receive(p, m)
  \/ \E m \in Messages : DeadLetter(m) \/ VisibilityExpires(m) \/ HandlerTooSlow(m)

Spec == Init /\ [][Next]_vars

\* The fairness of OutboxRelay; consumers poll and are resumed for as long as
\* their process lives, and the queue keeps its timeouts. A message can be
\* received only so many times, so that none starves another.
FairSpec ==
  /\ Spec
  /\ \A x \in Executions : WF_vars(RelayProgress(x))
  /\ \A p \in Processes :
       /\ WF_vars(Tick(p))
       /\ WF_vars(ConsumerProgress(p))
       /\ WF_vars(\E m \in Messages : Receive(p, m))
  /\ WF_vars(\E m \in Messages : DeadLetter(m))
  /\ WF_vars(\E m \in Messages : VisibilityExpires(m))

-----------------------------------------------------------------------------
(* Properties *)

TypeOK ==
  /\ queue    \in [Messages -> {"absent", "visible", "inflight", "deleted", "dead"}]
  /\ receives \in [Messages -> 0 .. MaxReceives]
  /\ handled  \in [Messages -> 0 .. MaxReceives]
  /\ stage    \in [Processes -> {"polling", "handling", "deleting"}]
  /\ message  \in [Processes -> Messages \cup {NoMessage}]
  /\ receipt  \in [Processes -> 0 .. MaxReceives]

\* A consumer at work has a receipt of its message
ReceiptsAreReal ==
  \A p \in Processes :
    IF stage[p] = "polling" THEN message[p] = NoMessage
    ELSE message[p] \in Messages /\ receipt[p] \in 1 .. receives[message[p]]

\* A message leaves the queue for good only after its event was processed, or
\* because there was nothing in it: what cannot be read is kept for operators.
DeletedWasUnderstood ==
  \A m \in Messages :
    queue[m] = "deleted" => handled[m] > 0 \/ m \in Foreign \ Garbled

\* The queue and the consumers agree: whoever works has a receipt, nothing is
\* processed without one, and nothing is deleted that was not processed.
QueueInv ==
  /\ TypeOK
  /\ ReceiptsAreReal
  /\ \A m \in Messages : handled[m] <= receives[m]
  /\ DeletedWasUnderstood

\* At-least-once has its price, and no more: every repeated notification of one
\* message is due to one mishap, however messages, timeouts and late deletions
\* with old receipts overtake each other.
RedeliveriesArePaidFor ==
  Cardinality({p \in OwnMessages \X (2 .. MaxReceives) : p[2] <= handled[p[1]]})
    <= mishaps

\* An event's message is dead-lettered only if every time it was received
\* something went wrong; a message nobody can read takes none with it.
DeadLettersAreEarned ==
  \A m \in OwnMessages : queue[m] = "dead" => mishaps >= MaxReceives

\* The queue drains: whatever is accepted is deleted or dead-lettered in the
\* end, also a message that no consumer can read.
QueueDrains ==
  \A m \in Messages : []<>(queue[m] \in {"absent", "deleted", "dead"})

\* The pipeline implements what it promises end to end: no event is notified
\* that was not committed, and a committed one is notified, parked or
\* dead-lettered, whatever fails on its way.
Promise ==
  INSTANCE Delivery WITH
    Events    <- Relay!EventIds,
    committed <- {e \in Relay!EventIds : table[e].status # "ABSENT"},
    told      <- {e \in Relay!EventIds : \E m \in Copies(e) : handled[m] > 0},
    setAside  <- {e \in Relay!EventIds :
                    \/ table[e].status = "FAILED"
                    \/ \E m \in Copies(e) : queue[m] = "dead"},
    contested <- contested

EveryEventArrives == Promise!DeliverySpec

=============================================================================
