------------------------- MODULE EventPipeline_proofs -------------------------
(***************************************************************************)
(* Proofs about EventPipeline, for any number of events, replicas, foreign *)
(* messages and receives, and any bound on mishaps.                        *)
(***************************************************************************)
EXTENDS EventPipeline, Counting, FiniteSetTheorems, TLAPS

(* The queue and the consumers *)

\* The consumers that are handling m
Working(m) == {p \in Processes : stage[p] = "handling" /\ message[p] = m}

\* Every handling under way and every one that ended has had a receipt of its
\* own.
Counted ==
  \A m \in Messages :
    /\ IsFiniteSet(Working(m))
    /\ handled[m] + Cardinality(Working(m)) <= receives[m]

\* What may be deleted: events that were processed, and messages without a Body
Understood(m) == handled[m] > 0 \/ m \in Foreign \ Garbled

DeletingUnderstood ==
  \A p \in Processes : stage[p] = "deleting" => Understood(message[p])

QueueStrong ==
  /\ TypeOK
  /\ ReceiptsAreReal
  /\ Counted
  /\ DeletingUnderstood
  /\ DeletedWasUnderstood

QueueStates == {"absent", "visible", "inflight", "deleted", "dead"}

Stages == {"polling", "handling", "deleting"}

\* The parts of the type invariant, by variable.
LEMMA QueueTypes ==
  ASSUME QueueStrong
  PROVE  /\ MaxReceives \in Nat \ {0}
         /\ queue \in [Messages -> QueueStates]
         /\ receives \in [Messages -> 0 .. MaxReceives]
         /\ handled \in [Messages -> 0 .. MaxReceives]
         /\ stage \in [Processes -> Stages]
         /\ message \in [Processes -> Messages \cup {NoMessage}]
         /\ receipt \in [Processes -> 0 .. MaxReceives]
         /\ \A m \in Messages : receives[m] \in Nat /\ handled[m] \in Nat
         /\ \A p \in Processes :
              stage[p] # "polling" => message[p] \in Messages
         /\ \A m \in Messages : Cardinality(Working(m)) \in Nat
<1>1. \A m \in Messages : Cardinality(Working(m)) \in Nat
  BY FS_CardinalityType DEF QueueStrong, Counted
<1> QED
  BY <1>1, PipelineAssumption
  DEF QueueStrong, TypeOK, ReceiptsAreReal, QueueStates, Stages

\* Where nobody receives, handles or stops handling, only deletions matter.
LEMMA QueueQuiet ==
  ASSUME QueueStrong, UNCHANGED <<receives, handled, consumer>>,
         queue' \in [Messages -> QueueStates],
         \A m \in Messages : queue'[m] = "deleted" => queue[m] = "deleted"
  PROVE  QueueStrong'
<1>1. UNCHANGED <<receives, handled, stage, message, receipt>>
  BY DEF consumer
<1>2. \A m : Working(m)' = Working(m)
  BY <1>1 DEF Working
<1>3. TypeOK' /\ ReceiptsAreReal'
  BY <1>1 DEF QueueStrong, TypeOK, ReceiptsAreReal, QueueStates
<1>4. Counted'
  BY <1>1, <1>2 DEF QueueStrong, Counted
<1>5. DeletingUnderstood' /\ DeletedWasUnderstood'
  BY <1>1 DEF QueueStrong, DeletingUnderstood, DeletedWasUnderstood, Understood
<1> QED
  BY <1>3, <1>4, <1>5 DEF QueueStrong

LEMMA QueueReceive ==
  ASSUME QueueStrong, NEW p \in Processes, NEW m \in Messages, Receive(p, m)
  PROVE  QueueStrong'
<1>1. /\ stage[p] = "polling" /\ receives[m] < MaxReceives
      /\ queue' = [queue EXCEPT ![m] = "inflight"]
      /\ receives' = [receives EXCEPT ![m] = receives[m] + 1]
      /\ stage' = [stage EXCEPT ![p] = "handling"]
      /\ message' = [message EXCEPT ![p] = m]
      /\ receipt' = [receipt EXCEPT ![p] = receives[m] + 1]
      /\ handled' = handled
  BY DEF Receive
<1>2. /\ receives'[m] = receives[m] + 1
      /\ \A d \in Messages : d # m => receives'[d] = receives[d]
      /\ \A d \in Messages : receives[d] \in Nat /\ receives'[d] >= receives[d]
  BY <1>1, QueueTypes
<1>3. \A q \in Processes : q # p => /\ stage'[q] = stage[q]
                                    /\ message'[q] = message[q]
                                    /\ receipt'[q] = receipt[q]
  BY <1>1, QueueTypes
<1>4. stage'[p] = "handling" /\ message'[p] = m /\ receipt'[p] = receives[m] + 1
  BY <1>1, QueueTypes
<1>5. TypeOK'
  BY <1>1, QueueTypes DEF TypeOK, QueueStates, Stages
<1>6. ReceiptsAreReal'
  <2>1. ASSUME NEW q \in Processes
        PROVE  IF stage'[q] = "polling" THEN message'[q] = NoMessage
               ELSE message'[q] \in Messages /\ receipt'[q] \in 1 .. receives'[message'[q]]
    <3>1. CASE q = p
      BY <1>2, <1>4, <3>1
    <3>2. CASE q # p
      BY <1>2, <1>3, <3>2 DEF QueueStrong, ReceiptsAreReal
    <3> QED
      BY <3>1, <3>2
  <2> QED
    BY <2>1 DEF ReceiptsAreReal
<1>7. ASSUME NEW d \in Messages
      PROVE  IsFiniteSet(Working(d)') /\ handled[d] + Cardinality(Working(d)') <= receives'[d]
  <2>1. IsFiniteSet(Working(d)) /\ Cardinality(Working(d)) \in Nat /\ handled[d] \in Nat
        /\ handled[d] + Cardinality(Working(d)) <= receives[d]
    BY QueueTypes DEF QueueStrong, Counted
  <2>2. CASE d = m
    <3>1. Working(d)' \in SUBSET (Working(d) \cup {p})
      BY <1>3 DEF Working
    <3>2. /\ IsFiniteSet(Working(d)') /\ Cardinality(Working(d)') \in Nat
          /\ Cardinality(Working(d)') <= Cardinality(Working(d)) + 1
      BY <2>1, <3>1, GrowsByOne
    <3> QED
      BY <1>2, <2>1, <2>2, <3>2
  <2>3. CASE d # m
    <3>1. Working(d)' = Working(d)
      BY <1>1, <1>3, <1>4, <2>3 DEF Working
    <3> QED
      BY <1>2, <2>1, <2>3, <3>1
  <2> QED
    BY <2>2, <2>3
<1>8. Counted'
  BY <1>1, <1>7 DEF Counted
<1>9. DeletingUnderstood'
  BY <1>1, <1>3, <1>4 DEF QueueStrong, DeletingUnderstood, Understood
<1>10. DeletedWasUnderstood'
  BY <1>1, QueueTypes DEF QueueStrong, DeletedWasUnderstood
<1> QED
  BY <1>5, <1>6, <1>8, <1>9, <1>10 DEF QueueStrong

\* A consumer that goes on to the acknowledgement has understood its message.
LEMMA QueueAcknowledge ==
  ASSUME QueueStrong, NEW p \in Processes, Handle(p) \/ HandleEmpty(p)
  PROVE  QueueStrong'
<1>1. PICK m \in Messages : m = message[p]
  BY QueueTypes DEF Handle, HandleEmpty
<1>2. /\ stage[p] = "handling" /\ stage' = [stage EXCEPT ![p] = "deleting"]
      /\ UNCHANGED <<queue, receives, message, receipt>>
  BY DEF Handle, HandleEmpty, Acknowledge, broker
<1>3. \/ handled' = [handled EXCEPT ![m] = handled[m] + 1]
      \/ handled' = handled /\ m \in Foreign \ Garbled
  BY <1>1 DEF Handle, HandleEmpty
<1>4. /\ \A d \in Messages : d # m => handled'[d] = handled[d]
      /\ \A d \in Messages : handled'[d] >= handled[d]
      /\ handled'[m] = handled[m] + 1 \/ (handled'[m] = handled[m] /\ m \in Foreign \ Garbled)
      /\ handled'[m] <= handled[m] + 1
  BY <1>3, QueueTypes
<1>5. /\ stage'[p] = "deleting"
      /\ \A q \in Processes : q # p => stage'[q] = stage[q]
  BY <1>2, QueueTypes
<1>6. /\ IsFiniteSet(Working(m)) /\ p \in Working(m)
      /\ Working(m)' = Working(m) \ {p}
      /\ \A d : d # m => Working(d)' = Working(d)
  BY <1>1, <1>2, <1>5 DEF Working, QueueStrong, Counted
<1>7. /\ IsFiniteSet(Working(m)')
      /\ Cardinality(Working(m)') = Cardinality(Working(m)) - 1
  BY <1>6, FS_RemoveElement
<1>8. ASSUME NEW d \in Messages
      PROVE  /\ IsFiniteSet(Working(d)')
             /\ handled'[d] + Cardinality(Working(d)') <= receives[d]
             /\ handled'[d] \in 0 .. MaxReceives
  <2>1. /\ IsFiniteSet(Working(d)) /\ Cardinality(Working(d)) \in Nat
        /\ handled[d] \in Nat /\ receives[d] \in 0 .. MaxReceives /\ MaxReceives \in Nat
        /\ handled[d] + Cardinality(Working(d)) <= receives[d]
    BY QueueTypes DEF QueueStrong, Counted
  <2>2. CASE d = m
    <3>1. Cardinality(Working(m)') \in Nat
      BY <1>7, FS_CardinalityType
    <3> QED
      BY <1>4, <1>7, <2>1, <2>2, <3>1
  <2>3. CASE d # m
    BY <1>4, <1>6, <2>1, <2>3
  <2> QED
    BY <2>2, <2>3
<1>9. handled' \in [Messages -> 0 .. MaxReceives]
  <2>1. handled' = [d \in Messages |-> handled'[d]]
    BY <1>3, QueueTypes
  <2> QED
    BY <1>8, <2>1
<1>10. TypeOK'
  BY <1>2, <1>9, QueueTypes DEF TypeOK, QueueStates, Stages
<1>11. ReceiptsAreReal'
  BY <1>2, <1>5 DEF QueueStrong, ReceiptsAreReal
<1>12. Counted'
  BY <1>2, <1>8 DEF Counted
<1>13. \A d \in Messages : Understood(d) => Understood(d)'
  BY <1>4, QueueTypes DEF Understood
<1>14. Understood(m)'
  BY <1>4, QueueTypes DEF Understood
<1>15. DeletingUnderstood'
  <2>1. ASSUME NEW q \in Processes, stage'[q] = "deleting"
        PROVE  Understood(message[q])'
    <3>1. CASE q = p
      BY <1>1, <1>2, <1>14, <3>1 DEF Understood
    <3>2. CASE q # p
      <4>1. stage[q] = "deleting" /\ message[q] \in Messages
        BY <1>5, <2>1, <3>2, QueueTypes
      <4>2. PICK d \in Messages : d = message[q]
        BY <4>1
      <4>3. Understood(d)'
        BY <1>13, <4>1, <4>2 DEF QueueStrong, DeletingUnderstood
      <4> QED
        BY <1>2, <4>2, <4>3 DEF Understood
    <3> QED
      BY <3>1, <3>2
  <2> QED
    BY <1>2, <2>1 DEF DeletingUnderstood, Understood
<1>16. DeletedWasUnderstood'
  BY <1>2, <1>13 DEF QueueStrong, DeletedWasUnderstood, Understood
<1> QED
  BY <1>10, <1>11, <1>12, <1>15, <1>16 DEF QueueStrong

\* A consumer that gives up its message deletes it only if it was understood.
LEMMA QueuePoll ==
  ASSUME QueueStrong, NEW p \in Processes, Poll(p), UNCHANGED <<receives, handled>>,
         queue' \in [Messages -> QueueStates],
         \A m \in Messages :
           queue'[m] = "deleted" => queue[m] = "deleted" \/ Understood(m)
  PROVE  QueueStrong'
<1>1. /\ stage' = [stage EXCEPT ![p] = "polling"]
      /\ message' = [message EXCEPT ![p] = NoMessage]
      /\ receipt' = [receipt EXCEPT ![p] = 0]
  BY DEF Poll
<1>2. /\ stage'[p] = "polling" /\ message'[p] = NoMessage
      /\ \A q \in Processes : q # p => /\ stage'[q] = stage[q]
                                       /\ message'[q] = message[q]
                                       /\ receipt'[q] = receipt[q]
  BY <1>1, QueueTypes
<1>3. TypeOK'
  BY <1>1, QueueTypes DEF TypeOK, QueueStates, Stages
<1>4. ReceiptsAreReal'
  BY <1>2 DEF QueueStrong, ReceiptsAreReal
<1>5. ASSUME NEW m \in Messages
      PROVE  IsFiniteSet(Working(m)') /\ handled[m] + Cardinality(Working(m)') <= receives[m]
  <2>1. Working(m)' \in SUBSET Working(m)
    BY <1>2 DEF Working
  <2>2. IsFiniteSet(Working(m)) /\ Cardinality(Working(m)) \in Nat
        /\ handled[m] \in Nat /\ receives[m] \in Nat
        /\ handled[m] + Cardinality(Working(m)) <= receives[m]
    BY QueueTypes DEF QueueStrong, Counted
  <2>3. /\ IsFiniteSet(Working(m)') /\ Cardinality(Working(m)') \in Nat
        /\ Cardinality(Working(m)') <= Cardinality(Working(m))
    BY <2>1, <2>2, GrowsByNone
  <2> QED
    BY <2>2, <2>3
<1>6. Counted'
  BY <1>5 DEF Counted
<1>7. DeletingUnderstood'
  BY <1>2 DEF QueueStrong, DeletingUnderstood, Understood
<1>8. DeletedWasUnderstood'
  BY DEF QueueStrong, DeletedWasUnderstood, Understood
<1> QED
  BY <1>3, <1>4, <1>6, <1>7, <1>8 DEF QueueStrong

\* What the relay does is, to the queue, that messages become visible.
LEMMA RelayStepsQuiet ==
  ASSUME QueueStrong, WithQueue
  PROVE  /\ UNCHANGED <<receives, handled, consumer>>
         /\ queue' \in [Messages -> QueueStates]
         /\ \A m \in Messages : queue'[m] = IF m \in Arriving THEN "visible" ELSE queue[m]
<1>1. queue' = [m \in Messages |-> IF m \in Arriving THEN "visible" ELSE queue[m]]
      /\ UNCHANGED <<receives, handled, consumer>>
  BY DEF WithQueue
<1>2. \A m \in Messages : queue'[m] = IF m \in Arriving THEN "visible" ELSE queue[m]
  BY <1>1
<1>3. \A m \in Messages : queue'[m] \in QueueStates
  BY <1>2, QueueTypes DEF QueueStates
<1> QED
  BY <1>1, <1>2, <1>3

LEMMA QueueInit == Init => QueueStrong
<1> SUFFICES ASSUME Init PROVE QueueStrong
  OBVIOUS
<1>1. \A m \in Messages : Working(m) = {}
  BY DEF Init, Working
<1>2. IsFiniteSet({}) /\ Cardinality({}) = 0
  BY FS_EmptySet
<1>3. TypeOK
  BY PipelineAssumption DEF Init, TypeOK
<1> QED
  BY <1>1, <1>2, <1>3
  DEF Init, QueueStrong, ReceiptsAreReal, Counted, DeletingUnderstood, DeletedWasUnderstood

LEMMA QueueStep == QueueStrong /\ [Next]_vars => QueueStrong'
<1> SUFFICES ASSUME QueueStrong, [Next]_vars PROVE QueueStrong'
  OBVIOUS
<1>1. CASE WithQueue
  BY <1>1, RelayStepsQuiet, QueueQuiet
<1>2. ASSUME NEW m \in Messages, DeadLetter(m) \/ Expire(m) PROVE QueueStrong'
  <2>1. /\ UNCHANGED <<receives, handled, consumer>>
        /\ \/ queue' = [queue EXCEPT ![m] = "dead"]
           \/ queue' = [queue EXCEPT ![m] = "visible"]
    BY <1>2 DEF DeadLetter, Expire
  <2>2. /\ queue' \in [Messages -> QueueStates]
        /\ \A d \in Messages : queue'[d] = "deleted" => queue[d] = "deleted"
    BY <2>1, QueueTypes DEF QueueStates
  <2> QED
    BY <2>1, <2>2, QueueQuiet
<1>3. ASSUME NEW p \in Processes, HandleThrows(p) \/ DeleteFails(p) \/ Die(p)
      PROVE  QueueStrong'
  <2>1. Poll(p) /\ UNCHANGED <<queue, receives, handled>>
    BY <1>3 DEF HandleThrows, DeleteFails, Die, broker
  <2> QED
    BY <2>1, QueueTypes, QueuePoll
<1>4. ASSUME NEW p \in Processes, Delete(p) PROVE QueueStrong'
  <2>1. Poll(p) /\ UNCHANGED <<receives, handled>> /\ stage[p] = "deleting"
    BY <1>4 DEF Delete
  <2>2. PICK m \in Messages : m = message[p]
    BY <2>1, QueueTypes
  <2>3. Understood(m)
    BY <2>1, <2>2 DEF QueueStrong, DeletingUnderstood
  <2>4. /\ queue' \in [Messages -> QueueStates]
        /\ \A d \in Messages : d # m => queue'[d] = queue[d]
    BY <1>4, <2>2, QueueTypes DEF Delete, Deleted, QueueStates
  <2> QED
    BY <2>1, <2>3, <2>4, QueuePoll
<1>5. CASE UNCHANGED vars
  <2>1. UNCHANGED <<queue, receives, handled, consumer>>
    BY <1>5 DEF vars, broker
  <2> QED
    BY <2>1, QueueTypes, QueueQuiet
<1> QED
  BY <1>1, <1>2, <1>3, <1>4, <1>5, QueueReceive, QueueAcknowledge
  DEF Next, Insert, Tick, RelayProgress, RelayMishap, ConsumerProgress,
      VisibilityExpires, HandlerTooSlow

\* For any number of consumers and messages: whoever works has a receipt of his
\* own, nothing is processed without one, and nothing is deleted that was
\* neither processed nor empty.
THEOREM QueueAgrees == Spec => []QueueInv
<1>1. QueueStrong => QueueInv
  <2> SUFFICES ASSUME QueueStrong, NEW m \in Messages PROVE handled[m] <= receives[m]
    BY DEF QueueInv, QueueStrong
  <2> QED
    BY QueueTypes DEF QueueStrong, Counted
<1> QED
  BY <1>1, QueueInit, QueueStep, PTL DEF Spec

-------------------------------------------------------------------------------
(* What redeliveries cost *)

\* The last receipt of m was given up without a deletion, or there is none.
Lost(m) ==
  \/ queue[m] = "visible" \/ queue[m] = "dead"
  \/ queue[m] = "inflight" /\ ~ Held(m)

\* The n-th receive of m repeats what was done, or is about to.
DueAgain(m, n) == n <= receives[m] \/ (n = receives[m] + 1 /\ Lost(m))

Repeats == {p \in OwnMessages \X (2 .. MaxReceives + 1) : DueAgain(p[1], p[2])}

\* Each repeated receive of an event's message, made or about to be made, has
\* its own mishap; a message the broker has not yet is nowhere.
RepeatInv ==
  /\ sent \in [Relay!EventIds -> Nat]
  /\ mishaps \in Nat
  /\ Cardinality(Repeats) <= mishaps
  /\ \A m \in OwnMessages : m[2] > sent[m[1]] => queue[m] = "absent" /\ receives[m] = 0
  /\ \A m \in Messages : queue[m] = "dead" => receives[m] = MaxReceives

LEMMA OwnTypes ==
  /\ OwnMessages \subseteq Relay!EventIds \X (1 .. Relay!SentCap)
  /\ OwnMessages \subseteq Messages
  /\ \A m \in OwnMessages : m \notin Foreign
  /\ Relay!SentCap \in Nat
  BY PipelineAssumption, ForeignAssumption
  DEF OwnMessages, Copies, Messages, Relay!SentCap

LEMMA RepeatsFinite == IsFiniteSet(Repeats) /\ Cardinality(Repeats) \in Nat
<1>1. IsFiniteSet(Relay!EventIds) /\ IsFiniteSet(1 .. Relay!SentCap)
  BY PipelineAssumption, OwnTypes, FS_Interval DEF Relay!EventIds
<1>2. IsFiniteSet(Relay!EventIds \X (1 .. Relay!SentCap))
  BY <1>1, FS_Product
<1>3. OwnMessages \in SUBSET (Relay!EventIds \X (1 .. Relay!SentCap))
  BY OwnTypes
<1>4. IsFiniteSet(OwnMessages) /\ IsFiniteSet(2 .. MaxReceives + 1)
  <2>1. IsFiniteSet(OwnMessages)
    BY <1>2, <1>3, FS_Subset
  <2>2. 2 \in Int /\ MaxReceives + 1 \in Int
    BY PipelineAssumption
  <2> QED
    BY <2>1, <2>2, FS_Interval
<1>5. IsFiniteSet(OwnMessages \X (2 .. MaxReceives + 1))
  BY <1>4, FS_Product
<1>6. Repeats \in SUBSET (OwnMessages \X (2 .. MaxReceives + 1))
  BY DEF Repeats
<1> QED
  BY <1>5, <1>6, FS_Subset, FS_CardinalityType

\* If nothing new is due, nothing more has to be paid.
LEMMA NothingDueAgain ==
  ASSUME mishaps \in Nat, Cardinality(Repeats) <= mishaps,
         mishaps' = mishaps \/ mishaps' = mishaps + 1,
         \A m \in OwnMessages : \A n \in 2 .. MaxReceives + 1 :
           DueAgain(m, n)' => DueAgain(m, n)
  PROVE  Cardinality(Repeats') <= mishaps'
<1>1. Repeats' \in SUBSET Repeats
  BY DEF Repeats
<1>2. /\ Cardinality(Repeats') \in Nat /\ Cardinality(Repeats) \in Nat
      /\ Cardinality(Repeats') <= Cardinality(Repeats)
  BY <1>1, RepeatsFinite, GrowsByNone
<1> QED
  BY <1>2

\* A mishap pays for one receive more.
LEMMA OneDueAgain ==
  ASSUME mishaps \in Nat, Cardinality(Repeats) <= mishaps, mishaps' = mishaps + 1,
         NEW c, NEW k,
         \A m \in OwnMessages : \A n \in 2 .. MaxReceives + 1 :
           DueAgain(m, n)' => DueAgain(m, n) \/ (m = c /\ n = k)
  PROVE  Cardinality(Repeats') <= mishaps'
<1>1. Repeats' \in SUBSET (Repeats \cup {<<c, k>>})
  BY DEF Repeats
<1>2. /\ Cardinality(Repeats') \in Nat /\ Cardinality(Repeats) \in Nat
      /\ Cardinality(Repeats') <= Cardinality(Repeats) + 1
  BY <1>1, RepeatsFinite, GrowsByOne
<1> QED
  BY <1>2

\* The broker's counters only grow.
LEMMA AcceptedGrows ==
  ASSUME NEW x, Relay!Accepted(Relay!Current(x)), sent \in [Relay!EventIds -> Nat]
  PROVE  /\ sent' \in [Relay!EventIds -> Nat]
         /\ \A e \in Relay!EventIds : sent'[e] >= sent[e]
<1> DEFINE c == Relay!Current(x)
           n == IF sent[c] < Relay!SentCap THEN sent[c] + 1 ELSE sent[c]
<1>1. sent' = [sent EXCEPT ![c] = n]
  BY DEF Relay!Accepted
<1>2. c \in Relay!EventIds => n \in Nat /\ n >= sent[c]
  OBVIOUS
<1> HIDE DEF c, n
<1>3. \A e \in Relay!EventIds : sent'[e] = IF e = c THEN n ELSE sent[e]
  BY <1>1
<1>4. \A e \in Relay!EventIds : sent[e] \in Nat /\ sent[e] >= sent[e]
  OBVIOUS
<1>5. \A e \in Relay!EventIds : sent'[e] \in Nat /\ sent'[e] >= sent[e]
  BY <1>2, <1>3, <1>4
<1>6. sent' = [e \in Relay!EventIds |-> sent'[e]]
  BY <1>1
<1> QED
  BY <1>5, <1>6

LEMMA RelaySent ==
  ASSUME sent \in [Relay!EventIds -> Nat], mishaps \in Nat,
         \/ \E e \in Relay!EventIds : Insert(e)
         \/ \E p \in Processes : Tick(p)
         \/ \E x \in Executions : RelayProgress(x) \/ RelayMishap(x)
  PROVE  /\ sent' \in [Relay!EventIds -> Nat]
         /\ \A e \in Relay!EventIds : sent'[e] >= sent[e]
         /\ mishaps' = mishaps \/ mishaps' = mishaps + 1
<1>1. /\ mishaps' = mishaps \/ mishaps' = mishaps + 1
      /\ sent' = sent \/ \E x \in Executions : Relay!Accepted(Relay!Current(x))
  BY DEF Insert, Tick, RelayProgress, RelayMishap, Relay!Insert, Relay!Tick,
     Relay!Progress, Relay!Send, Relay!SendRefused, Relay!SelectForSave, Relay!Save,
     Relay!SendAnswerLost, Relay!PublishSaveFails, Relay!FailureSaveFails,
     Relay!SaveFailed, Relay!Mishap
<1>2. CASE sent' = sent
  BY <1>1, <1>2
<1>3. CASE \E x \in Executions : Relay!Accepted(Relay!Current(x))
  BY <1>1, <1>3, AcceptedGrows
<1> QED
  BY <1>1, <1>2, <1>3

\* A message that arrives was nowhere; every other stays where it is.
LEMMA RepeatArrive ==
  ASSUME QueueStrong, RepeatInv, WithQueue,
         sent' \in [Relay!EventIds -> Nat],
         \A e \in Relay!EventIds : sent'[e] >= sent[e],
         mishaps' = mishaps \/ mishaps' = mishaps + 1
  PROVE  RepeatInv'
<1>1. /\ UNCHANGED <<receives, stage, message, receipt>>
      /\ \A m \in Messages : queue'[m] = IF m \in Arriving THEN "visible" ELSE queue[m]
  BY RelayStepsQuiet DEF consumer
<1>2. \A m : Held(m)' <=> Held(m)
  BY <1>1 DEF Held
<1>3. mishaps \in Nat /\ Cardinality(Repeats) <= mishaps /\ mishaps' \in Nat
  BY DEF RepeatInv
<1>4. ASSUME NEW m \in OwnMessages
      PROVE  /\ m \in Messages /\ m[1] \in Relay!EventIds /\ m[2] \in Nat
             /\ sent[m[1]] \in Nat /\ sent'[m[1]] \in Nat /\ sent'[m[1]] >= sent[m[1]]
             /\ m \in Arriving <=> sent[m[1]] < m[2] /\ m[2] <= sent'[m[1]]
             /\ receives[m] \in Nat
  BY OwnTypes, QueueTypes DEF RepeatInv, Arriving
<1>5. ASSUME NEW m \in OwnMessages, NEW n \in 2 .. MaxReceives + 1, DueAgain(m, n)'
      PROVE  DueAgain(m, n)
  <2>1. CASE m \in Arriving
    <3>1. receives[m] = 0 /\ receives'[m] = 0
      BY <1>1, <1>4, <2>1 DEF RepeatInv
    <3>2. n <= 1
      BY <1>5, <3>1 DEF DueAgain
    <3> QED
      BY <3>2, PipelineAssumption
  <2>2. CASE m \notin Arriving
    <3>1. queue'[m] = queue[m] /\ receives'[m] = receives[m]
      BY <1>1, <1>4, <2>2
    <3> QED
      BY <1>2, <1>5, <3>1 DEF DueAgain, Lost
  <2> QED
    BY <2>1, <2>2
<1>6. Cardinality(Repeats') <= mishaps'
  BY <1>3, <1>5, NothingDueAgain
<1>7. ASSUME NEW m \in OwnMessages, m[2] > sent'[m[1]]
      PROVE  queue'[m] = "absent" /\ receives'[m] = 0
  <2>1. m \notin Arriving /\ m[2] > sent[m[1]]
    BY <1>4, <1>7
  <2> QED
    BY <1>1, <1>4, <2>1 DEF RepeatInv
<1>8. ASSUME NEW m \in Messages, queue'[m] = "dead"
      PROVE  receives'[m] = MaxReceives
  BY <1>1, <1>8 DEF RepeatInv
<1> QED
  BY <1>3, <1>6, <1>7, <1>8 DEF RepeatInv

\* Where the relay does nothing, sent is as it was.
LEMMA RepeatFrom ==
  ASSUME QueueStrong, RepeatInv, UNCHANGED sent, mishaps' \in Nat,
         Cardinality(Repeats') <= mishaps',
         \A m \in Messages :
           /\ queue[m] = "absent" => queue'[m] = "absent" /\ receives'[m] = receives[m]
           /\ queue'[m] = "dead" => receives'[m] = MaxReceives
  PROVE  RepeatInv'
  BY OwnTypes DEF RepeatInv

LEMMA RepeatReceive ==
  ASSUME QueueStrong, RepeatInv, NEW p \in Processes, NEW m \in Messages, Receive(p, m)
  PROVE  RepeatInv'
<1>1. /\ stage[p] = "polling" /\ queue[m] = "visible"
      /\ queue' = [queue EXCEPT ![m] = "inflight"]
      /\ receives' = [receives EXCEPT ![m] = receives[m] + 1]
      /\ stage' = [stage EXCEPT ![p] = "handling"]
      /\ message' = [message EXCEPT ![p] = m]
      /\ receipt' = [receipt EXCEPT ![p] = receives[m] + 1]
      /\ UNCHANGED <<sent, mishaps>>
  BY DEF Receive, relay
<1>2. /\ receives'[m] = receives[m] + 1 /\ queue'[m] = "inflight"
      /\ \A d \in Messages : d # m => receives'[d] = receives[d] /\ queue'[d] = queue[d]
  BY <1>1, QueueTypes
<1>3. /\ stage'[p] = "handling" /\ message'[p] = m /\ receipt'[p] = receives'[m]
      /\ \A q \in Processes : q # p =>
           stage'[q] = stage[q] /\ message'[q] = message[q] /\ receipt'[q] = receipt[q]
  BY <1>1, <1>2, QueueTypes
<1>4. Held(m)'
  BY <1>3 DEF Held
<1>5. ASSUME NEW d \in Messages, d # m, Held(d) PROVE Held(d)'
  <2>1. PICK q \in Processes :
          stage[q] # "polling" /\ message[q] = d /\ receipt[q] = receives[d]
    BY <1>5 DEF Held
  <2> QED
    BY <1>1, <1>2, <1>3, <1>5, <2>1 DEF Held
<1>6. ASSUME NEW d \in OwnMessages, NEW n \in 2 .. MaxReceives + 1, DueAgain(d, n)'
      PROVE  DueAgain(d, n)
  <2>1. d \in Messages /\ receives[d] \in Nat
    BY OwnTypes, QueueTypes
  <2>2. CASE d = m
    <3>1. ~ Lost(d)' /\ Lost(d)
      BY <1>1, <1>2, <1>4, <2>2 DEF Lost
    <3> QED
      BY <1>2, <1>6, <2>1, <2>2, <3>1 DEF DueAgain
  <2>3. CASE d # m
    <3>1. Lost(d)' => Lost(d)
      BY <1>2, <1>5, <2>1, <2>3 DEF Lost
    <3> QED
      BY <1>2, <1>6, <2>1, <2>3, <3>1 DEF DueAgain
  <2> QED
    BY <2>2, <2>3
<1>7. mishaps \in Nat /\ Cardinality(Repeats) <= mishaps
  BY DEF RepeatInv
<1>8. Cardinality(Repeats') <= mishaps'
  BY <1>1, <1>6, <1>7, NothingDueAgain
<1>9. \A d \in Messages :
        /\ queue[d] = "absent" => queue'[d] = "absent" /\ receives'[d] = receives[d]
        /\ queue'[d] = "dead" => receives'[d] = MaxReceives
  BY <1>1, <1>2 DEF RepeatInv
<1> QED
  BY <1>1, <1>7, <1>8, <1>9, RepeatFrom

\* What the queue does on its own makes a message due only if it takes it from
\* the consumer at work, and that is a mishap.
LEMMA RepeatQueue ==
  ASSUME QueueStrong, RepeatInv, NEW m \in Messages,
         DeadLetter(m) \/ VisibilityExpires(m) \/ HandlerTooSlow(m)
  PROVE  RepeatInv'
<1>1. /\ UNCHANGED <<sent, receives, stage, message, receipt>>
      /\ queue[m] # "absent"
      /\ queue' = [queue EXCEPT ![m] = "dead"] \/ queue' = [queue EXCEPT ![m] = "visible"]
      /\ queue' = [queue EXCEPT ![m] = "dead"] => receives[m] = MaxReceives
  <2>1. CASE DeadLetter(m)
    BY <2>1 DEF DeadLetter, relay, consumer
  <2>2. CASE Expire(m)
    <3>1. queue'[m] = "visible" \/ m \notin DOMAIN queue
      BY <2>2 DEF Expire
    <3> QED
      BY <2>2, <3>1, QueueTypes DEF Expire, relay, consumer
  <2> QED
    BY <2>1, <2>2 DEF VisibilityExpires, HandlerTooSlow
<1>2. \A d \in Messages : d # m => queue'[d] = queue[d]
  BY <1>1, QueueTypes
<1>3. \A d : Held(d)' <=> Held(d)
  BY <1>1 DEF Held
<1>4. mishaps \in Nat /\ Cardinality(Repeats) <= mishaps
  BY DEF RepeatInv
<1>5. ASSUME NEW d \in OwnMessages, NEW n \in 2 .. MaxReceives + 1, DueAgain(d, n)'
      PROVE  DueAgain(d, n) \/ (d = m /\ n = receives[m] + 1)
  <2>1. d \in Messages
    BY OwnTypes
  <2> QED
    BY <1>1, <1>2, <1>3, <1>5, <2>1 DEF DueAgain, Lost
<1>6. Cardinality(Repeats') <= mishaps' /\ mishaps' \in Nat
  <2>1. CASE DeadLetter(m) \/ VisibilityExpires(m)
    <3>1. UNCHANGED mishaps /\ Lost(m)
      BY <2>1 DEF DeadLetter, VisibilityExpires, Expire, Lost
    <3>2. \A d \in OwnMessages : \A n \in 2 .. MaxReceives + 1 :
            DueAgain(d, n)' => DueAgain(d, n)
      BY <1>5, <3>1 DEF DueAgain
    <3> QED
      BY <1>4, <3>1, <3>2, NothingDueAgain
  <2>2. CASE HandlerTooSlow(m)
    <3>1. mishaps' = mishaps + 1
      BY <2>2 DEF HandlerTooSlow, Relay!Mishap
    <3>2. PICK k \in Nat : k = receives[m] + 1
      BY QueueTypes
    <3>3. \A d \in OwnMessages : \A n \in 2 .. MaxReceives + 1 :
            DueAgain(d, n)' => DueAgain(d, n) \/ (d = m /\ n = k)
      BY <1>5, <3>2
    <3> QED
      BY <1>4, <3>1, <3>3, OneDueAgain
  <2> QED
    BY <2>1, <2>2
<1>7. \A d \in Messages :
        /\ queue[d] = "absent" => queue'[d] = "absent" /\ receives'[d] = receives[d]
        /\ queue'[d] = "dead" => receives'[d] = MaxReceives
  BY <1>1, <1>2, QueueTypes DEF RepeatInv
<1> QED
  BY <1>1, <1>6, <1>7, RepeatFrom

\* An acknowledged message is still held.
LEMMA RepeatAcknowledge ==
  ASSUME QueueStrong, RepeatInv, NEW p \in Processes, Handle(p) \/ HandleEmpty(p)
  PROVE  RepeatInv'
<1>1. /\ stage[p] = "handling" /\ stage' = [stage EXCEPT ![p] = "deleting"]
      /\ UNCHANGED <<sent, mishaps, queue, receives, message, receipt>>
  BY DEF Handle, HandleEmpty, Acknowledge, broker, relay
<1>2. \A q \in Processes : stage'[q] # "polling" <=> stage[q] # "polling"
  BY <1>1, QueueTypes
<1>3. \A d : Held(d)' <=> Held(d)
  BY <1>1, <1>2 DEF Held
<1>4. mishaps \in Nat /\ Cardinality(Repeats) <= mishaps
  BY DEF RepeatInv
<1>5. \A d \in OwnMessages : \A n \in 2 .. MaxReceives + 1 :
        DueAgain(d, n)' => DueAgain(d, n)
  BY <1>1, <1>3 DEF DueAgain, Lost
<1>6. Cardinality(Repeats') <= mishaps'
  BY <1>1, <1>4, <1>5, NothingDueAgain
<1> QED
  BY <1>1, <1>4, <1>6, RepeatFrom DEF RepeatInv

\* A consumer that gives up its message without deleting it leaves it lost, and
\* that is a mishap, unless the message is one it cannot read.
LEMMA RepeatPoll ==
  ASSUME QueueStrong, RepeatInv, NEW p \in Processes, Poll(p), UNCHANGED <<sent, receives>>,
         NEW c \in Messages \cup {NoMessage}, c = message[p],
         \A m \in Messages : m # c => queue'[m] = queue[m],
         c \in Messages => queue'[c] = queue[c] \/ queue'[c] = "deleted",
         \A m \in Messages : queue[m] = "absent" => queue'[m] = "absent",
         \/ mishaps' = mishaps + 1
         \/ /\ UNCHANGED mishaps
            /\ \/ c \notin OwnMessages
               \/ queue'[c] \notin {"inflight", "visible", "dead"}
               \/ queue'[c] = queue[c] /\ (queue[c] = "dead" \/ receipt[p] # receives[c])
  PROVE  RepeatInv'
<1>1. /\ stage'[p] = "polling" /\ stage' = [stage EXCEPT ![p] = "polling"]
      /\ \A q \in Processes : q # p =>
           stage'[q] = stage[q] /\ message'[q] = message[q] /\ receipt'[q] = receipt[q]
  BY QueueTypes DEF Poll
<1>2. mishaps \in Nat /\ mishaps' \in Nat /\ Cardinality(Repeats) <= mishaps
  BY DEF RepeatInv
<1>3. ASSUME NEW d, Held(d), d # c \/ receipt[p] # receives[d]
      PROVE  Held(d)'
  <2>1. PICK q \in Processes :
          stage[q] # "polling" /\ message[q] = d /\ receipt[q] = receives[d]
    BY <1>3 DEF Held
  <2>2. q # p
    BY <1>3, <2>1
  <2> QED
    BY <1>1, <2>1, <2>2 DEF Held
<1>4. ASSUME NEW d \in OwnMessages, d # c PROVE Lost(d)' => Lost(d)
  BY <1>3, <1>4, OwnTypes DEF Lost
<1>5. ASSUME NEW d \in OwnMessages, NEW n \in 2 .. MaxReceives + 1, DueAgain(d, n)'
      PROVE  DueAgain(d, n) \/ (d = c /\ n = receives[d] + 1)
  BY <1>4, <1>5 DEF DueAgain
<1>6. Cardinality(Repeats') <= mishaps'
  <2>1. CASE mishaps' = mishaps + 1
    <3>1. CASE c \in OwnMessages
      <4>1. PICK k \in Nat : k = receives[c] + 1
        BY <3>1, OwnTypes, QueueTypes
      <4>2. \A d \in OwnMessages : \A n \in 2 .. MaxReceives + 1 :
              DueAgain(d, n)' => DueAgain(d, n) \/ (d = c /\ n = k)
        BY <1>5, <4>1
      <4> QED
        BY <1>2, <2>1, <4>2, OneDueAgain
    <3>2. CASE c \notin OwnMessages
      BY <1>2, <1>5, <2>1, <3>2, NothingDueAgain
    <3> QED
      BY <3>1, <3>2
  <2>2. CASE mishaps' = mishaps /\ (c \in OwnMessages => (Lost(c)' => Lost(c)))
    <3>1. \A d \in OwnMessages : \A n \in 2 .. MaxReceives + 1 :
            DueAgain(d, n)' => DueAgain(d, n)
      BY <1>4, <2>2 DEF DueAgain
    <3> QED
      BY <1>2, <2>2, <3>1, NothingDueAgain
  <2>3. CASE mishaps' = mishaps /\ c \in OwnMessages
    <3>1. CASE queue'[c] \notin {"inflight", "visible", "dead"}
      <4>1. ~ Lost(c)'
        BY <3>1 DEF Lost
      <4> QED
        BY <2>2, <2>3, <4>1
    <3>2. CASE queue'[c] = queue[c] /\ (queue[c] = "dead" \/ receipt[p] # receives[c])
      <4>1. Lost(c)' => Lost(c)
        BY <1>3, <3>2 DEF Lost
      <4> QED
        BY <2>2, <2>3, <4>1
    <3>3. mishaps' # mishaps + 1
      BY <1>2, <2>3
    <3> QED
      BY <2>3, <3>1, <3>2, <3>3
  <2> QED
    BY <2>1, <2>2, <2>3
<1>7. \A m \in Messages :
        /\ queue[m] = "absent" => queue'[m] = "absent" /\ receives'[m] = receives[m]
        /\ queue'[m] = "dead" => receives'[m] = MaxReceives
  BY DEF RepeatInv
<1> QED
  BY <1>2, <1>6, <1>7, RepeatFrom

LEMMA RepeatDelete ==
  ASSUME QueueStrong, RepeatInv, NEW p \in Processes, Delete(p)
  PROVE  RepeatInv'
<1>1. /\ stage[p] = "deleting" /\ Poll(p) /\ UNCHANGED <<sent, receives, mishaps>>
  BY DEF Delete, relay
<1>2. PICK c \in Messages : c = message[p]
  BY <1>1, QueueTypes
<1>3. /\ receipt[p] \in Nat /\ receives[c] \in Nat
      /\ queue[c] \in QueueStates
  BY <1>2, QueueTypes
<1>4. CASE Deleted(c)
  <2>1. /\ \A m \in Messages : m # c => queue'[m] = queue[m]
        /\ queue'[c] = IF queue[c] \in {"inflight", "visible"} THEN "deleted" ELSE queue[c]
    BY <1>4, QueueTypes DEF Deleted
  <2>2. queue'[c] = queue[c] \/ queue'[c] = "deleted"
    BY <2>1
  <2>3. \A m \in Messages : queue[m] = "absent" => queue'[m] = "absent"
    BY <2>1
  <2>4. \/ queue'[c] \notin {"inflight", "visible", "dead"}
        \/ queue'[c] = queue[c] /\ queue[c] = "dead"
    BY <1>3, <2>1 DEF QueueStates
  <2> QED
    BY <1>1, <1>2, <2>1, <2>2, <2>3, <2>4, RepeatPoll
<1>5. CASE receipt[p] < receives[c] /\ UNCHANGED queue
  <2>1. receipt[p] # receives[c]
    BY <1>3, <1>5
  <2> QED
    BY <1>1, <1>2, <1>5, <2>1, RepeatPoll
<1> QED
  BY <1>2, <1>4, <1>5 DEF Delete

LEMMA RepeatGiveUp ==
  ASSUME QueueStrong, RepeatInv, NEW p \in Processes,
         HandleThrows(p) \/ DeleteFails(p) \/ Die(p)
  PROVE  RepeatInv'
<1>1. Poll(p) /\ UNCHANGED <<sent, receives, queue>>
  BY DEF HandleThrows, DeleteFails, Die, broker, relay, Relay!Crash
<1>2. PICK c \in Messages \cup {NoMessage} : c = message[p]
  BY QueueTypes
<1>3. mishaps' = mishaps + 1 \/ (UNCHANGED mishaps /\ c \notin OwnMessages)
  BY <1>2, PipelineAssumption, ForeignAssumption
  DEF HandleThrows, DeleteFails, Die, Relay!Crash, Relay!Mishap
<1> QED
  BY <1>1, <1>2, <1>3, RepeatPoll

LEMMA RepeatStep == QueueStrong /\ RepeatInv /\ [Next]_vars => RepeatInv'
<1> SUFFICES ASSUME QueueStrong, RepeatInv, [Next]_vars PROVE RepeatInv'
  OBVIOUS
<1>1. CASE \/ \E e \in Relay!EventIds : Insert(e)
           \/ \E p \in Processes : Tick(p)
           \/ \E x \in Executions : RelayProgress(x) \/ RelayMishap(x)
  <2>1. WithQueue
    BY <1>1 DEF Insert, Tick, RelayProgress, RelayMishap
  <2>2. /\ sent' \in [Relay!EventIds -> Nat]
        /\ \A e \in Relay!EventIds : sent'[e] >= sent[e]
        /\ mishaps' = mishaps \/ mishaps' = mishaps + 1
    BY <1>1, RelaySent DEF RepeatInv
  <2> QED
    BY <2>1, <2>2, RepeatArrive
<1>2. CASE UNCHANGED vars
  <2>1. UNCHANGED <<sent, mishaps, queue, receives, stage, message, receipt>>
    BY <1>2 DEF vars, relay, broker, consumer
  <2>2. \A d : Lost(d)' <=> Lost(d)
    BY <2>1 DEF Lost, Held
  <2>3. Repeats' = Repeats
    BY <2>1, <2>2 DEF Repeats, DueAgain
  <2> QED
    BY <2>1, <2>3 DEF RepeatInv
<1> QED
  BY <1>1, <1>2, RepeatReceive, RepeatQueue, RepeatAcknowledge, RepeatDelete, RepeatGiveUp
  DEF Next, ConsumerProgress

LEMMA RepeatInit == Init => RepeatInv
<1> SUFFICES ASSUME Init PROVE RepeatInv
  OBVIOUS
<1>1. /\ sent = [e \in Relay!EventIds |-> 0] /\ mishaps = 0
      /\ receives = [m \in Messages |-> 0]
  BY DEF Init, Relay!Init
<1>2. PICK f \in Foreign :
        queue = [m \in Messages |-> IF m = f THEN "visible" ELSE "absent"]
  BY DEF Init
<1>3. \A m \in OwnMessages : queue[m] = "absent" /\ receives[m] = 0
  BY <1>1, <1>2, OwnTypes
<1>4. Repeats = {}
  BY <1>3, PipelineAssumption DEF Repeats, DueAgain, Lost
<1>5. Cardinality(Repeats) = 0
  BY <1>4, FS_EmptySet
<1>6. \A m \in Messages : queue[m] # "dead"
  BY <1>2
<1> QED
  BY <1>1, <1>3, <1>5, <1>6 DEF RepeatInv

\* For any number of replicas: every repeated notification of one message has
\* its own mishap.
THEOREM RedeliveriesPaid == Spec => []RedeliveriesArePaidFor
<1> DEFINE Inv == QueueStrong /\ RepeatInv
<1>1. Init => Inv
  BY QueueInit, RepeatInit
<1>2. Inv /\ [Next]_vars => Inv'
  BY QueueStep, RepeatStep
<1>3. Inv => RedeliveriesArePaidFor
  <2> SUFFICES ASSUME QueueStrong, RepeatInv PROVE RedeliveriesArePaidFor
    OBVIOUS
  <2> DEFINE R == {p \in OwnMessages \X (2 .. MaxReceives) : p[2] <= handled[p[1]]}
  <2>1. ASSUME NEW m \in OwnMessages PROVE m \in Messages /\ handled[m] <= receives[m]
    BY OwnTypes, QueueTypes DEF QueueStrong, Counted
  <2>2. R \in SUBSET Repeats
    BY <2>1, QueueTypes DEF Repeats, DueAgain
  <2>3. IsFiniteSet(Repeats) /\ Cardinality(Repeats) \in Nat
    BY RepeatsFinite
  <2>4. Cardinality(R) \in Nat /\ Cardinality(R) <= Cardinality(Repeats)
    BY <2>2, <2>3, GrowsByNone
  <2>5. Cardinality(Repeats) <= mishaps /\ mishaps \in Nat
    BY DEF RepeatInv
  <2>6. Cardinality(R) <= mishaps
    BY <2>3, <2>4, <2>5
  <2> QED
    BY <2>6 DEF RedeliveriesArePaidFor
<1> QED
  BY <1>1, <1>2, <1>3, PTL DEF Spec

\* An event's message is dead-lettered only at the price of a mishap for each
\* time it was received.
THEOREM DeadLettersEarned == Spec => []DeadLettersAreEarned
<1> DEFINE Inv == QueueStrong /\ RepeatInv
<1>1. Init => Inv
  BY QueueInit, RepeatInit
<1>2. Inv /\ [Next]_vars => Inv'
  BY QueueStep, RepeatStep
<1>3. Inv => DeadLettersAreEarned
  <2> SUFFICES ASSUME QueueStrong, RepeatInv, NEW m \in OwnMessages, queue[m] = "dead"
               PROVE  mishaps >= MaxReceives
    BY DEF DeadLettersAreEarned
  <2> DEFINE R == {m} \X (2 .. MaxReceives + 1)
  <2>1. receives[m] = MaxReceives
    BY OwnTypes DEF RepeatInv
  <2>2. R \in SUBSET Repeats
    BY <2>1, PipelineAssumption DEF Repeats, DueAgain, Lost
  <2>3. IsFiniteSet({m}) /\ Cardinality({m}) = 1
    BY FS_Singleton
  <2>4. 2 \in Int /\ MaxReceives + 1 \in Int /\ MaxReceives \in Nat
    BY PipelineAssumption
  <2>5. IsFiniteSet(2 .. MaxReceives + 1) /\ Cardinality(2 .. MaxReceives + 1) = MaxReceives
    BY <2>4, PipelineAssumption, FS_Interval
  <2>6. Cardinality(R) = MaxReceives
    <3>1. Cardinality(R) = Cardinality({m}) * Cardinality(2 .. MaxReceives + 1)
      BY <2>3, <2>5, FS_Product
    <3> HIDE DEF R
    <3> QED
      BY <2>3, <2>4, <2>5, <3>1
  <2>7. Cardinality(R) <= Cardinality(Repeats)
    BY <2>2, RepeatsFinite, GrowsByNone
  <2>8. Cardinality(Repeats) \in Nat /\ mishaps \in Nat /\ Cardinality(Repeats) <= mishaps
    BY RepeatsFinite DEF RepeatInv
  <2> QED
    BY <2>4, <2>6, <2>7, <2>8
<1> QED
  BY <1>1, <1>2, <1>3, PTL DEF Spec

-------------------------------------------------------------------------------
(* From end to end *)

\* What is proved about the relay holds of the relay in the pipeline.
Outbox == INSTANCE OutboxRelay_proofs

LEMMA OutboxAssumption == Outbox!ConstantsAssumption
  BY PipelineAssumption DEF Outbox!ConstantsAssumption

\* A step of the pipeline in which the relay takes part
RelayStep ==
  \/ \E e \in Relay!EventIds : Relay!Insert(e)
  \/ \E x \in Executions :
       \/ Relay!Tick(x) \/ Relay!Progress(x)
       \/ Relay!SendAnswerLost(x) \/ Relay!PublishSaveFails(x) \/ Relay!FailureSaveFails(x)
  \/ \E p \in Processes : Relay!Crash(p)

LEMMA RelayStepsAreNext == RelayStep => Outbox!Next
<1>1. ASSUME NEW e, Relay!Insert(e) PROVE Outbox!Insert(e)
  BY <1>1
  DEF Relay!Insert, Outbox!Insert, Relay!NewRow, Outbox!NewRow, Relay!NoRow,
      Outbox!NoRow
<1>2. ASSUME NEW x, Relay!Tick(x) PROVE Outbox!Tick(x)
  BY <1>2
  DEF Relay!Tick, Outbox!Tick, Relay!Pending, Outbox!Pending, Relay!Fetch,
      Outbox!Fetch, Relay!Oldest, Outbox!Oldest, Relay!EventIds, Outbox!EventIds,
      Relay!Cardinality, Outbox!Cardinality, Relay!IsFiniteSet, Outbox!IsFiniteSet
<1>3. ASSUME NEW x, Relay!Send(x) PROVE Outbox!Send(x)
  BY <1>3
  DEF Relay!Send, Outbox!Send, Relay!Accepted, Outbox!Accepted, Relay!Current,
      Outbox!Current, Relay!BeginSave, Outbox!BeginSave, Relay!SentCap,
      Outbox!SentCap
<1>4. ASSUME NEW x, Relay!SendRefused(x) PROVE Outbox!SendRefused(x)
  BY <1>4
  DEF Relay!SendRefused, Outbox!SendRefused, Relay!Refused, Outbox!Refused,
      Relay!Current, Outbox!Current, Relay!BeginSave, Outbox!BeginSave,
      Relay!Failed, Outbox!Failed
<1>5. ASSUME NEW x, Relay!SendAnswerLost(x) PROVE Outbox!SendAnswerLost(x)
  BY <1>5
  DEF Relay!SendAnswerLost, Outbox!SendAnswerLost, Relay!Mishap, Outbox!Mishap,
      Relay!Accepted, Outbox!Accepted, Relay!Refused, Outbox!Refused, Relay!Current,
      Outbox!Current, Relay!BeginSave, Outbox!BeginSave, Relay!Failed,
      Outbox!Failed, Relay!SentCap, Outbox!SentCap
<1>6. ASSUME NEW x, Relay!SelectForSave(x) PROVE Outbox!SelectForSave(x)
  BY <1>6
  DEF Relay!SelectForSave, Outbox!SelectForSave, Relay!Current, Outbox!Current
<1>7. ASSUME NEW x, Relay!Save(x) PROVE Outbox!Save(x)
  BY <1>7
  DEF Relay!Save, Outbox!Save, Relay!WriteRow, Outbox!WriteRow, Relay!NextEvent,
      Outbox!NextEvent, Relay!Written, Outbox!Written, Relay!Column, Outbox!Column,
      Relay!Current, Outbox!Current, Relay!EndExecution, Outbox!EndExecution,
      Relay!NoBatch, Outbox!NoBatch, Relay!NoRow, Outbox!NoRow
<1>8. ASSUME NEW x, Relay!PublishSaveFails(x) PROVE Outbox!PublishSaveFails(x)
  BY <1>8
  DEF Relay!PublishSaveFails, Outbox!PublishSaveFails, Relay!SaveFailed,
      Outbox!SaveFailed, Relay!Mishap, Outbox!Mishap, Relay!WriteRow,
      Outbox!WriteRow, Relay!Written, Outbox!Written, Relay!Column, Outbox!Column,
      Relay!Current, Outbox!Current, Relay!Failed, Outbox!Failed, Relay!NoRow,
      Outbox!NoRow
<1>9. ASSUME NEW x, Relay!FailureSaveFails(x) PROVE Outbox!FailureSaveFails(x)
  BY <1>9
  DEF Relay!FailureSaveFails, Outbox!FailureSaveFails, Relay!SaveFailed,
      Outbox!SaveFailed, Relay!Mishap, Outbox!Mishap, Relay!WriteRow,
      Outbox!WriteRow, Relay!Written, Outbox!Written, Relay!Column, Outbox!Column,
      Relay!Current, Outbox!Current, Relay!EndExecution, Outbox!EndExecution,
      Relay!NoBatch, Outbox!NoBatch, Relay!NoRow, Outbox!NoRow
<1>10. ASSUME NEW p, Relay!Crash(p) PROVE Outbox!Crash(p)
  BY <1>10
  DEF Relay!Crash, Outbox!Crash, Relay!Mishap, Outbox!Mishap, Relay!NoBatch,
      Outbox!NoBatch, Relay!NoRow, Outbox!NoRow
<1>11. ASSUME NEW x, Relay!Progress(x) PROVE Outbox!Progress(x)
  BY <1>3, <1>4, <1>6, <1>7, <1>11 DEF Relay!Progress, Outbox!Progress
<1>12. Relay!EventIds = Outbox!EventIds
  BY DEF Relay!EventIds, Outbox!EventIds
<1> QED
  BY <1>1, <1>2, <1>5, <1>8, <1>9, <1>10, <1>11, <1>12
  DEF RelayStep, Outbox!Next

OutboxInv == Outbox!RowsInv /\ Outbox!WrittenInv

LEMMA OutboxInit == Init => OutboxInv
<1>1. Relay!Init => Outbox!Init
  BY DEF Relay!Init, Outbox!Init, Relay!NoBatch, Outbox!NoBatch, Relay!NoRow, Outbox!NoRow,
     Relay!EventIds, Outbox!EventIds
<1> QED
  BY <1>1, Outbox!RowsInit, Outbox!WrittenInit, OutboxAssumption DEF Init, OutboxInv

\* Either the relay takes a step, or it is left alone.
LEMMA RelayOrNot ==
  ASSUME [Next]_vars
  PROVE  RelayStep \/ (UNCHANGED relay /\ (UNCHANGED mishaps \/ Relay!Mishap))
<1>1. ASSUME NEW e \in Relay!EventIds, Insert(e) PROVE RelayStep
  BY <1>1 DEF Insert, RelayStep
<1>2. ASSUME NEW x \in Executions, RelayProgress(x) \/ RelayMishap(x) PROVE RelayStep
  BY <1>2 DEF RelayProgress, RelayMishap, RelayStep
<1>3. ASSUME NEW p \in Processes, Tick(p) PROVE RelayStep
  BY <1>3 DEF Tick, RelayStep
<1>4. ASSUME NEW p \in Processes,
             ConsumerProgress(p) \/ DeleteFails(p) \/ \E m \in Messages : Receive(p, m)
      PROVE  UNCHANGED relay /\ (UNCHANGED mishaps \/ Relay!Mishap)
  BY <1>4 DEF ConsumerProgress, Handle, HandleEmpty, HandleThrows, Delete, DeleteFails, Receive
<1>5. ASSUME NEW p \in Processes, Die(p)
      PROVE  RelayStep \/ (UNCHANGED relay /\ Relay!Mishap)
  BY <1>5 DEF Die, RelayStep
<1>6. ASSUME NEW m \in Messages, DeadLetter(m) \/ VisibilityExpires(m) \/ HandlerTooSlow(m)
      PROVE  UNCHANGED relay /\ (UNCHANGED mishaps \/ Relay!Mishap)
  BY <1>6 DEF DeadLetter, VisibilityExpires, HandlerTooSlow, Expire
<1>7. CASE UNCHANGED vars
  BY <1>7 DEF vars
<1> QED
  BY <1>1, <1>2, <1>3, <1>4, <1>5, <1>6, <1>7 DEF Next

\* Whatever the consumers do, the relay keeps its invariants, with any number of
\* replicas.
LEMMA OutboxStep ==
  ASSUME OutboxInv, [Next]_vars
  PROVE  OutboxInv'
<1>1. CASE RelayStep
  <2>1. Outbox!Next
    BY <1>1, RelayStepsAreNext
  <2>2. Outbox!RowsInv'
    BY <2>1, Outbox!RowsStep, OutboxAssumption DEF OutboxInv
  <2>3. Outbox!WrittenInv'
    BY <2>1, Outbox!WrittenStep, OutboxAssumption DEF OutboxInv, Outbox!RowsInv
  <2> QED
    BY <2>2, <2>3 DEF OutboxInv
<1>2. CASE UNCHANGED relay /\ (UNCHANGED mishaps \/ Relay!Mishap)
  <2>1. mishaps \in 0 .. MaxMishaps
    BY DEF OutboxInv, Outbox!RowsInv, Outbox!TypeInv, Outbox!TypeOK
  <2>2. mishaps' \in 0 .. MaxMishaps
    BY <1>2, <2>1, PipelineAssumption DEF Relay!Mishap
  <2>3. Outbox!RowsInv'
    BY <1>2, <2>2, Outbox!RowsElsewhere, OutboxAssumption DEF OutboxInv, relay
  <2>4. Outbox!WrittenInv'
    BY <1>2, Outbox!WrittenElsewhere, OutboxAssumption DEF OutboxInv, relay
  <2> QED
    BY <2>3, <2>4 DEF OutboxInv
<1> QED
  BY <1>1, <1>2, RelayOrNot

-------------------------------------------------------------------------------
(* The refinement of Delivery *)

Committed == {e \in Relay!EventIds : table[e].status # "ABSENT"}

Told == {e \in Relay!EventIds : \E m \in Copies(e) : handled[m] > 0}

Dead(e) == \E m \in Copies(e) : queue[m] = "dead"

Parked == {e \in Relay!EventIds : table[e].status = "FAILED" \/ Dead(e)}

ArrivalInv == QueueStrong /\ RepeatInv /\ OutboxInv

LEMMA ArrivalStarts == Init => ArrivalInv
  BY QueueInit, RepeatInit, OutboxInit DEF ArrivalInv

LEMMA ArrivalStep == ArrivalInv /\ [Next]_vars => ArrivalInv'
  BY QueueStep, RepeatStep, OutboxStep DEF ArrivalInv

\* The event of a message that the broker has is committed.
LEMMA KnownIsCommitted ==
  ASSUME ArrivalInv, NEW m \in OwnMessages, queue[m] # "absent" \/ receives[m] # 0
  PROVE  m[1] \in Committed
<1>1. m[1] \in Relay!EventIds /\ m[2] \in 1 .. Relay!SentCap
  BY OwnTypes
<1>2. sent[m[1]] > 0
  BY <1>1 DEF ArrivalInv, RepeatInv
<1>3. m[1] \in Outbox!EventIds
  BY <1>1 DEF Relay!EventIds, Outbox!EventIds
<1> QED
  BY <1>1, <1>2, <1>3
  DEF ArrivalInv, OutboxInv, Outbox!WrittenInv, Outbox!InTable, Committed

\* A message belongs to one event.
LEMMA OneEvent ==
  ASSUME NEW e \in Relay!EventIds
  PROVE  \A m \in Copies(e) : m \in OwnMessages /\ m[1] = e
  BY DEF Copies, OwnMessages

\* With any number of relaying replicas, stale saves included: no notification is
\* made of an event whose commit is not in the table.
THEOREM OnlyCommittedIsTold == Spec => [](Told \subseteq Committed)
<1>1. ArrivalInv => Told \subseteq Committed
  <2> SUFFICES ASSUME ArrivalInv, NEW e \in Relay!EventIds, NEW m \in Copies(e),
                      handled[m] > 0
               PROVE  e \in Committed
    BY DEF Told
  <2>1. m \in OwnMessages /\ m \in Messages /\ m[1] = e
    BY OneEvent, OwnTypes
  <2>2. handled[m] <= receives[m]
    BY <2>1, QueueTypes DEF ArrivalInv, QueueStrong, Counted
  <2>3. receives[m] # 0
    BY <2>1, <2>2, QueueTypes DEF ArrivalInv
  <2> QED
    BY <2>1, <2>3, KnownIsCommitted
<1> QED
  BY <1>1, ArrivalStarts, ArrivalStep, PTL DEF Spec

\* What a step does for Delivery: nothing, or one event is committed, told, set
\* aside or taken back, or some become contested.
Delivers ==
  \/ /\ contested' = contested
     /\ \/ Committed' = Committed /\ Told' = Told /\ Parked' = Parked
        \/ \E e \in Relay!EventIds \ Committed :
             Committed' = Committed \cup {e} /\ Told' = Told /\ Parked' = Parked
        \/ \E e \in Committed :
             Committed' = Committed /\ Told' = Told \cup {e} /\ Parked' = Parked
        \/ \E e \in Committed :
             Committed' = Committed /\ Told' = Told /\ Parked' = Parked \cup {e}
        \/ \E e \in contested \cap Committed :
             Committed' = Committed /\ Told' = Told /\ Parked' = Parked \ {e}
  \/ /\ Committed' = Committed /\ Told' = Told /\ Parked' = Parked
     /\ \E S \in SUBSET Committed : contested' = contested \cup S

LEMMA DeliversIsStep == Delivers => [Promise!DeliveryNext]_(Promise!deliveryVars)
<1>1. Committed \subseteq Relay!EventIds
  BY DEF Committed
<1> QED
  BY <1>1
  DEF Delivers, Committed, Told, Parked, Dead, Promise!DeliveryNext, Promise!deliveryVars,
      Promise!Commit, Promise!Tell, Promise!SetAside, Promise!TakeBack, Promise!Contend

\* A step that leaves the relay alone and handles or buries at most m.
LEMMA ConsumerStep ==
  ASSUME UNCHANGED <<table, contested>>, NEW m \in Messages,
         m \in OwnMessages => m[1] \in Committed,
         \A d \in Messages : d # m => handled'[d] = handled[d]
                                       /\ (queue'[d] = "dead" <=> queue[d] = "dead"),
         \/ handled'[m] = handled[m] /\ (queue[m] = "dead" => queue'[m] = "dead")
         \/ handled'[m] > 0 /\ (queue'[m] = "dead" <=> queue[m] = "dead")
  PROVE  Delivers
<1>1. Committed' = Committed
  BY DEF Committed
<1>2. \A d \in OwnMessages : d \in Messages
  BY OwnTypes
<1>3. CASE handled'[m] = handled[m] /\ (queue'[m] = "dead" <=> queue[m] = "dead")
  <2>1. \A d \in OwnMessages :
          handled'[d] = handled[d] /\ (queue'[d] = "dead" <=> queue[d] = "dead")
    BY <1>2, <1>3
  <2>2. Told' = Told /\ Parked' = Parked
    BY <2>1, OneEvent DEF Told, Parked, Dead
  <2> QED
    BY <1>1, <2>2 DEF Delivers
<1>4. CASE m \notin OwnMessages
  <2>1. \A d \in OwnMessages :
          handled'[d] = handled[d] /\ (queue'[d] = "dead" <=> queue[d] = "dead")
    BY <1>2, <1>4
  <2>2. Told' = Told /\ Parked' = Parked
    BY <2>1, OneEvent DEF Told, Parked, Dead
  <2> QED
    BY <1>1, <2>2 DEF Delivers
<1>5. CASE m \in OwnMessages /\ handled'[m] > 0 /\ (queue'[m] = "dead" <=> queue[m] = "dead")
  <2>1. PICK e \in Relay!EventIds : e = m[1] /\ m \in Copies(e) /\ e \in Committed
    BY <1>5 DEF OwnMessages, Copies
  <2>2. \A d \in OwnMessages : queue'[d] = "dead" <=> queue[d] = "dead"
    BY <1>2, <1>5
  <2>3. Parked' = Parked
    BY <2>2, OneEvent DEF Parked, Dead
  <2>4. \A c \in Relay!EventIds : c # e =>
          \A d \in Copies(c) : handled'[d] = handled[d]
    BY <1>2, <2>1, OneEvent
  <2>5. e \in Told'
    BY <1>5, <2>1 DEF Told
  <2>6. Told' = Told \cup {e}
    BY <2>1, <2>4, <2>5 DEF Told
  <2> QED
    BY <1>1, <2>1, <2>3, <2>6 DEF Delivers
<1>6. CASE m \in OwnMessages /\ handled'[m] = handled[m] /\ queue'[m] = "dead"
  <2>1. PICK e \in Relay!EventIds : e = m[1] /\ m \in Copies(e) /\ e \in Committed
    BY <1>6 DEF OwnMessages, Copies
  <2>2. Told' = Told
    BY <1>2, <1>6, OneEvent DEF Told
  <2>3. \A c \in Relay!EventIds : c # e => (Dead(c)' <=> Dead(c))
    BY <1>2, <2>1, OneEvent DEF Dead
  <2>4. Dead(e)'
    BY <1>6, <2>1 DEF Dead
  <2>5. Parked' = Parked \cup {e}
    BY <2>1, <2>3, <2>4 DEF Parked
  <2> QED
    BY <1>1, <2>1, <2>2, <2>5 DEF Delivers
<1> QED
  BY <1>3, <1>4, <1>5, <1>6

\* The relay's steps leave what was told and buried; of the table they change
\* one row at a time.
LEMMA RelayDelivers ==
  ASSUME ArrivalInv, RelayStep, WithQueue \/ UNCHANGED <<queue, handled>>
  PROVE  Delivers
<1>1. UNCHANGED handled
  BY DEF WithQueue
<1>2. ASSUME NEW m \in OwnMessages PROVE queue'[m] = "dead" <=> queue[m] = "dead"
  <2>1. CASE UNCHANGED queue
    BY <2>1
  <2>2. CASE WithQueue
    <3>1. m \in Messages /\ queue'[m] = IF m \in Arriving THEN "visible" ELSE queue[m]
      BY <2>2, OwnTypes, RelayStepsQuiet DEF ArrivalInv
    <3>2. m \in Arriving => queue[m] = "absent"
      BY OwnTypes DEF Arriving, ArrivalInv, RepeatInv
    <3> QED
      BY <3>1, <3>2
  <2> QED
    BY <2>1, <2>2
<1>3. Told' = Told
  BY <1>1 DEF Told
<1>4. \A e \in Relay!EventIds : Dead(e)' <=> Dead(e)
  BY <1>2, OneEvent DEF Dead
<1>5. Relay!EventIds = Outbox!EventIds
  BY DEF Relay!EventIds, Outbox!EventIds
<1>6. \/ UNCHANGED table
      \/ \E e \in Relay!EventIds :
           /\ table[e].status = "ABSENT" /\ table'[e].status = "PENDING"
           /\ \A d \in Relay!EventIds : d # e => table'[d] = table[d]
      \/ \E e \in Relay!EventIds :
           /\ table[e].status # "ABSENT" /\ table'[e].status # "ABSENT"
           /\ table[e].status = "FAILED" => e \in contested
           /\ \A d \in Relay!EventIds : d # e => table'[d] = table[d]
  BY <1>5, RelayStepsAreNext, Outbox!RowOutcome, OutboxAssumption
  DEF ArrivalInv, OutboxInv
<1>7. \/ UNCHANGED contested
      \/ /\ UNCHANGED table
         /\ contested \subseteq contested'
         /\ \A e \in contested' \ contested : e \in Committed
  BY <1>5, RelayStepsAreNext, Outbox!ContestedOutcome, OutboxAssumption
  DEF Outbox!InTable, Committed
<1>8. CASE UNCHANGED table
  <2>1. Committed' = Committed /\ Parked' = Parked
    BY <1>4, <1>8 DEF Committed, Parked
  <2>2. CASE UNCHANGED contested
    BY <1>3, <2>1, <2>2 DEF Delivers
  <2>3. CASE /\ contested \subseteq contested'
             /\ \A e \in contested' \ contested : e \in Committed
    <3>1. PICK S \in SUBSET Committed : S = contested' \ contested
      BY <2>3
    <3>2. contested' = contested \cup S
      BY <2>3, <3>1
    <3> QED
      BY <1>3, <2>1, <3>2 DEF Delivers
  <2> QED
    BY <1>7, <2>2, <2>3
<1>9. ASSUME NEW e \in Relay!EventIds, UNCHANGED contested,
             table[e].status = "ABSENT", table'[e].status = "PENDING",
             \A d \in Relay!EventIds : d # e => table'[d] = table[d]
      PROVE  Delivers
  <2>1. e \notin Committed /\ Committed' = Committed \cup {e}
    BY <1>9 DEF Committed
  <2>2. Parked' = Parked
    BY <1>4, <1>9 DEF Parked
  <2> QED
    BY <1>3, <1>9, <2>1, <2>2 DEF Delivers
<1>10. ASSUME NEW e \in Relay!EventIds, UNCHANGED contested,
              table[e].status # "ABSENT", table'[e].status # "ABSENT",
              table[e].status = "FAILED" => e \in contested,
              \A d \in Relay!EventIds : d # e => table'[d] = table[d]
       PROVE  Delivers
  <2>1. e \in Committed /\ Committed' = Committed
    BY <1>10 DEF Committed
  <2>2. CASE table'[e].status = "FAILED" \/ Dead(e)
    <3>1. Parked' = Parked \cup {e}
      BY <1>4, <1>10, <2>2 DEF Parked
    <3> QED
      BY <1>3, <1>10, <2>1, <3>1 DEF Delivers
  <2>3. CASE table'[e].status # "FAILED" /\ ~ Dead(e)
    <3>1. Parked' = Parked \ {e}
      BY <1>4, <1>10, <2>3 DEF Parked
    <3>2. CASE e \in contested
      BY <1>3, <1>10, <2>1, <3>1, <3>2 DEF Delivers
    <3>3. CASE e \notin contested
      <4>1. Parked' = Parked
        BY <1>10, <2>3, <3>1, <3>3 DEF Parked
      <4> QED
        BY <1>3, <1>10, <2>1, <4>1 DEF Delivers
    <3> QED
      BY <3>2, <3>3
  <2> QED
    BY <2>2, <2>3
<1>11. CASE UNCHANGED contested
  BY <1>6, <1>8, <1>9, <1>10, <1>11
<1> QED
  BY <1>7, <1>8, <1>11

\* Every step of the pipeline does one thing for Delivery, or nothing.
LEMMA StepDelivers ==
  ASSUME ArrivalInv, [Next]_vars
  PROVE  Delivers
<1>1. QueueStrong
  BY DEF ArrivalInv
<1>2. CASE WithQueue /\ RelayStep
  BY <1>2, RelayDelivers
<1>3. ASSUME NEW p \in Processes, Die(p) PROVE Delivers
  <2>1. UNCHANGED <<queue, handled>>
    BY <1>3 DEF Die, broker
  <2>2. CASE Relay!Crash(p)
    <3>1. RelayStep
      BY <2>2 DEF RelayStep
    <3> QED
      BY <2>1, <3>1, RelayDelivers
  <2>3. CASE UNCHANGED relay
    <3>1. UNCHANGED <<table, contested>>
      BY <2>3 DEF relay
    <3> QED
      BY <2>1, <3>1 DEF Delivers, Committed, Told, Parked, Dead
  <2> QED
    BY <1>3, <2>2, <2>3 DEF Die
<1>4. ASSUME NEW p \in Processes, NEW m \in Messages, Receive(p, m) PROVE Delivers
  <2>1. UNCHANGED <<table, contested, handled>> /\ queue[m] = "visible"
        /\ queue' = [queue EXCEPT ![m] = "inflight"]
    BY <1>4 DEF Receive, relay
  <2>2. \A d \in Messages : handled'[d] = handled[d] /\ (queue'[d] = "dead" <=> queue[d] = "dead")
    BY <1>1, <2>1, QueueTypes
  <2>3. m \in OwnMessages => m[1] \in Committed
    BY <2>1, KnownIsCommitted
  <2> QED
    BY <2>1, <2>2, <2>3, ConsumerStep
<1>5. ASSUME NEW m \in Messages, DeadLetter(m) \/ Expire(m) PROVE Delivers
  <2>1. /\ UNCHANGED <<table, contested, handled>> /\ queue[m] # "absent" /\ queue[m] # "dead"
        /\ \/ queue' = [queue EXCEPT ![m] = "dead"]
           \/ queue' = [queue EXCEPT ![m] = "visible"]
    BY <1>5 DEF DeadLetter, Expire, relay
  <2>2. \A d \in Messages : d # m => queue'[d] = queue[d]
    BY <1>1, <2>1, QueueTypes
  <2>3. m \in OwnMessages => m[1] \in Committed
    BY <2>1, KnownIsCommitted
  <2> QED
    BY <2>1, <2>2, <2>3, ConsumerStep
<1>6. ASSUME NEW p \in Processes, Handle(p) PROVE Delivers
  <2>1. /\ stage[p] = "handling" /\ message[p] \in OwnMessages
        /\ handled' = [handled EXCEPT ![message[p]] = handled[message[p]] + 1]
        /\ UNCHANGED <<table, contested, queue>>
    BY <1>6 DEF Handle, relay, broker
  <2>2. PICK m \in OwnMessages : m = message[p]
    BY <2>1
  <2>3. m \in Messages /\ handled[m] \in Nat
    BY <1>1, OwnTypes, QueueTypes
  <2>4. handled'[m] > 0 /\ \A d \in Messages : d # m => handled'[d] = handled[d]
    BY <1>1, <2>1, <2>2, <2>3, QueueTypes
  <2>5. receives[m] # 0
    BY <1>1, <2>1, <2>2, <2>3, QueueTypes DEF QueueStrong, ReceiptsAreReal
  <2>6. m[1] \in Committed
    BY <2>5, KnownIsCommitted
  <2> QED
    BY <2>1, <2>3, <2>4, <2>6, ConsumerStep
<1>7. ASSUME NEW p \in Processes,
             HandleEmpty(p) \/ HandleThrows(p) \/ Delete(p) \/ DeleteFails(p)
      PROVE  Delivers
  <2>1. UNCHANGED <<table, contested, handled>>
    BY <1>7 DEF HandleEmpty, HandleThrows, Delete, DeleteFails, relay
  <2>2. UNCHANGED queue \/ (Deleted(message[p]) /\ message[p] \in Messages)
    BY <1>1, <1>7, QueueTypes
    DEF HandleEmpty, HandleThrows, Delete, DeleteFails, broker
  <2>3. \A d \in Messages : queue'[d] = "dead" <=> queue[d] = "dead"
    BY <1>1, <2>2, QueueTypes DEF Deleted
  <2>4. Told' = Told /\ Committed' = Committed
    BY <2>1 DEF Told, Committed
  <2>5. Parked' = Parked
    BY <2>1, <2>3, OneEvent, OwnTypes DEF Parked, Dead
  <2> QED
    BY <2>1, <2>4, <2>5 DEF Delivers
<1>8. CASE UNCHANGED vars
  BY <1>8 DEF vars, relay, broker, Delivers, Committed, Told, Parked, Dead
<1>9. ASSUME NEW e \in Relay!EventIds, Insert(e) PROVE WithQueue /\ RelayStep
  BY <1>9 DEF Insert, RelayStep
<1>10. ASSUME NEW x \in Executions, RelayProgress(x) \/ RelayMishap(x)
       PROVE  WithQueue /\ RelayStep
  BY <1>10 DEF RelayProgress, RelayMishap, RelayStep
<1>11. ASSUME NEW p \in Processes, Tick(p) PROVE WithQueue /\ RelayStep
  BY <1>11 DEF Tick, RelayStep
<1> QED
  BY <1>2, <1>3, <1>4, <1>5, <1>6, <1>7, <1>8, <1>9, <1>10, <1>11
  DEF Next, ConsumerProgress, VisibilityExpires, HandlerTooSlow

LEMMA DeliveryStarts == Init => Promise!DeliveryInit
<1> SUFFICES ASSUME Init PROVE Promise!DeliveryInit
  OBVIOUS
<1>1. /\ \A e \in Relay!EventIds : table[e].status = "ABSENT"
      /\ \A m \in Messages : handled[m] = 0
  BY DEF Init, Relay!Init, Relay!NoRow
<1>2. \A m \in Messages : queue[m] # "dead"
  BY DEF Init
<1>3. \A e \in Relay!EventIds : \A m \in Copies(e) : m \in Messages
  BY OneEvent, OwnTypes
<1>4. contested = {}
  BY DEF Init, Relay!Init
<1> QED
  BY <1>1, <1>2, <1>3, <1>4 DEF Promise!DeliveryInit

\* With any number of relaying processes, consumers and mishaps, the pipeline
\* takes no step that Delivery does not allow: no event is told or set aside that
\* was not committed, one is committed once, none is untold, and only one that
\* two replicas had in hand at once comes back from where it was set aside.
THEOREM NothingElseArrives ==
  Spec => Promise!DeliveryInit /\ [][Promise!DeliveryNext]_(Promise!deliveryVars)
<1>1. Init => ArrivalInv /\ Promise!DeliveryInit
  BY ArrivalStarts, DeliveryStarts
<1>2. ArrivalInv /\ [Next]_vars => ArrivalInv'
  BY ArrivalStep
<1>3. ArrivalInv /\ [Next]_vars => [Promise!DeliveryNext]_(Promise!deliveryVars)
  BY StepDelivers, DeliversIsStep
<1> QED
  BY <1>1, <1>2, <1>3, PTL DEF Spec

===============================================================================
