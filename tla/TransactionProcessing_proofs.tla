--------------------- MODULE TransactionProcessing_proofs ---------------------
(***************************************************************************)
(* Machine-checked proofs about TransactionProcessing, for any number of   *)
(* transactions and requests, and for the save the program performs.       *)
(***************************************************************************)
EXTENDS TransactionProcessing, Counting, SequenceTheorems, FiniteSetTheorems, TLAPS

-----------------------------------------------------------------------------
(* What the helpers return *)

\* A save writes a well-typed row whatever it overwrites.
LEMMA WrittenType ==
  ASSUME NEW row \in Entities, NEW entity \in Entities, NEW selected \in Entities
  PROVE  Written(row, entity, selected) \in Entities
  BY DEF Written, Column, Entities

\* A save that overwrites the row it selected leaves the entity in the table.
LEMMA WrittenAlone ==
  ASSUME NEW row \in Entities, NEW entity \in Entities
  PROVE  Written(row, entity, row) = entity
<1>1. entity = [status |-> entity.status, externalId |-> entity.externalId,
                failureReason |-> entity.failureReason]
  BY DEF Entities
<1>2. Written(row, entity, row) =
        [status |-> entity.status, externalId |-> entity.externalId,
         failureReason |-> entity.failureReason]
  BY DEF Written, Column
<1> QED
  BY <1>1, <1>2

\* The constructors of entities and events are well typed.
LEMMA ConstructorTypes ==
  /\ NoRow \in Entities
  /\ NewRow \in Entities
  /\ \A e \in Entities : MarkAsProcessing(e) \in Entities
  /\ \A e \in Entities, id \in Requests \cup {NoExternalId} :
       Complete(e, id) \in Entities
  /\ \A e \in Entities, why \in Reasons : Fail(e, why) \in Entities
  /\ \A e \in Entities, type \in {"Created", "Processing", "Processed"} :
       e.status # "ABSENT" => Event(type, e) \in Events
  BY DEF Entities, Events, NoRow, NewRow, MarkAsProcessing, Complete, Fail,
         Event, Statuses, Reasons

\* Appending to a history of one or two events.
LEMMA AppendHistory ==
  ASSUME NEW a, NEW b, NEW c
  PROVE  /\ Append(<<a>>, b) = <<a, b>>
         /\ Append(<<a, b>>, c) = <<a, b, c>>
<1> DEFINE S == {a, b, c}
<1>1. <<a>> \in Seq(S) /\ <<a, b>> \in Seq(S) /\ <<a, b, c>> \in Seq(S)
  OBVIOUS
<1>2. Append(<<a>>, b) = <<a, b>>
  <2> DEFINE s == Append(<<a>>, b)
             u == <<a, b>>
  <2>1. s \in Seq(S) /\ u \in Seq(S)
    BY <1>1
  <2>2. Len(s) = Len(u) /\ \A i \in 1 .. Len(s) : s[i] = u[i]
    BY <1>1
  <2> QED
    BY <2>1, <2>2, SeqEqual
<1>3. Append(<<a, b>>, c) = <<a, b, c>>
  <2> DEFINE s == Append(<<a, b>>, c)
             u == <<a, b, c>>
  <2>1. s \in Seq(S) /\ u \in Seq(S)
    BY <1>1
  <2>2. Len(s) = Len(u) /\ \A i \in 1 .. Len(s) : s[i] = u[i]
    BY <1>1
  <2> QED
    BY <2>1, <2>2, SeqEqual
<1> QED
  BY <1>2, <1>3

\* The fields of the rows a transaction goes through.
LEMMA StageFields ==
  /\ NoRow.status = "ABSENT"
  /\ NoRow.externalId = Null /\ NoRow.failureReason = Null
  /\ NewRow.status = "PENDING"
  /\ NewRow.externalId = Null /\ NewRow.failureReason = Null
  /\ ProcessingRow = MarkAsProcessing(NewRow)
  /\ ProcessingRow = [status |-> "PROCESSING", externalId |-> Null,
                      failureReason |-> Null]
  /\ ProcessingRow.status = "PROCESSING"
  /\ ProcessingRow.externalId = Null /\ ProcessingRow.failureReason = Null
<1>1. ProcessingRow = MarkAsProcessing(NewRow)
  BY DEF ProcessingRow
<1>2. ProcessingRow = [status |-> "PROCESSING", externalId |-> Null,
                       failureReason |-> Null]
  BY DEF ProcessingRow, MarkAsProcessing, NewRow
<1> QED
  BY <1>1, <1>2 DEF NoRow, NewRow

\* What the gateway's answer leaves of the entity, field by field.
LEMMA SettledFields ==
  ASSUME NEW r \in Requests, NEW e, SettledBy(r, e)
  PROVE  /\ e.status \in {"COMPLETED", "FAILED"}
         /\ e.status = "COMPLETED" => r \in charged
         /\ e.externalId \in Requests => e.externalId = r /\ r \in charged
<1>1. CASE e \in {Complete(ProcessingRow, r), Complete(ProcessingRow, NoExternalId)}
           /\ r \in charged
  <2>1. PICK id \in {r, NoExternalId} :
          e = [status |-> "COMPLETED", externalId |-> id, failureReason |-> Null]
    BY <1>1, StageFields DEF Complete
  <2> QED
    BY <1>1, <2>1, ConstantsAssumption
<1>2. CASE \E why \in Reasons : e = Fail(ProcessingRow, why)
  <2>1. PICK why \in Reasons : e = Fail(ProcessingRow, why)
    BY <1>2
  <2>2. e.status = "FAILED" /\ e.externalId = Null
    BY <2>1, StageFields DEF Fail
  <2> QED
    BY <2>2, ConstantsAssumption
<1> QED
  BY <1>1, <1>2 DEF SettledBy

-----------------------------------------------------------------------------
(* Type correctness *)

\* Committing a save keeps the table and the outbox well typed.
LEMMA CommitSaveType ==
  ASSUME TypeOK, NEW r \in Requests, NEW type \in {"Processing", "Processed"},
         target[r] \in Transactions, mem[r].status # "ABSENT",
         CommitSave(r, type)
  PROVE  /\ rows' \in [Transactions -> Entities]
         /\ log' \in [Transactions -> Seq(Events)]
         /\ UNCHANGED <<charged, target, mem>>
<1>1. Written(rows[target[r]], mem[r], snap[r]) \in Entities
  BY WrittenType DEF TypeOK
<1>2. Event(type, mem[r]) \in Events
  BY ConstructorTypes DEF TypeOK
<1>3. rows' \in [Transactions -> Entities]
  BY <1>1 DEF TypeOK, CommitSave
<1>4. log' \in [Transactions -> Seq(Events)]
  BY <1>2 DEF TypeOK, CommitSave
<1> QED
  BY <1>3, <1>4 DEF CommitSave

\* A request in flight works on a transaction, with a loaded entity
Working ==
  \A r \in Requests :
    InFlight(r) => target[r] \in Transactions /\ mem[r].status # "ABSENT"

TypeInv == TypeOK /\ Working

\* Empty tables and idle requests are well typed.
LEMMA TypeInvInit == Init => TypeInv
  BY ConstructorTypes
  DEF Init, TypeInv, TypeOK, Working, InFlight, Locations, Answers

\* Every step of the two handlers keeps the types.
LEMMA TypeInvStep == TypeInv /\ [Next]_vars => TypeInv'
<1> SUFFICES ASSUME TypeInv, [Next]_vars PROVE TypeInv'
  OBVIOUS
<1> USE DEF TypeInv
<1>1. CASE UNCHANGED vars
  BY <1>1 DEF vars, TypeOK, Working, InFlight
<1>2. ASSUME NEW t \in Transactions, Create(t) PROVE TypeInv'
  <2>1. Event("Created", NewRow) \in Events
    BY ConstructorTypes DEF NewRow
  <2> QED
    BY <1>2, <2>1, ConstructorTypes DEF Create, TypeOK, Working, InFlight
<1>3. ASSUME NEW r \in Requests, NEW t \in Transactions,
             NotFound(r, t) \/ RejectTransition(r, t)
      PROVE TypeInv'
  <2>1. PICK code \in Answers :
          /\ pc' = [pc EXCEPT ![r] = "done"]
          /\ answer' = [answer EXCEPT ![r] = code]
    BY <1>3 DEF NotFound, RejectTransition, Respond, Answers
  <2>2. /\ snap' = [snap EXCEPT ![r] = NoRow]
        /\ target' = [target EXCEPT ![r] = t]
        /\ UNCHANGED <<rows, log, charged, reserved, mem>>
    BY <1>3 DEF NotFound, RejectTransition, Respond
  <2> QED
    BY <2>1, <2>2, ConstructorTypes DEF TypeOK, Working, InFlight, Locations
<1>4. ASSUME NEW r \in Requests, NEW t \in Transactions, Load(r, t)
      PROVE TypeInv'
  <2>1. /\ MarkAsProcessing(rows[t]) \in Entities
        /\ MarkAsProcessing(rows[t]).status # "ABSENT"
    BY ConstructorTypes DEF TypeOK, MarkAsProcessing, Entities
  <2> QED
    BY <1>4, <2>1 DEF Load, TypeOK, Working, InFlight, Locations
<1>5. ASSUME NEW r \in Requests, SelectForSave(r) PROVE TypeInv'
  BY <1>5 DEF SelectForSave, TypeOK, Working, InFlight, Locations
<1>6. ASSUME NEW r \in Requests, Reserve(r) PROVE TypeInv'
  <2>1. target[r] \in Transactions /\ mem[r].status # "ABSENT"
    BY <1>6 DEF Reserve, CommitReservation, Working, InFlight
  <2>2. CommitSave(r, "Processing") /\ reserved' = reserved \cup {r}
    BY <1>6 DEF Reserve, CommitReservation
  <2> QED
    BY <1>6, <2>1, <2>2, CommitSaveType, ConstructorTypes
    DEF Reserve, TypeOK, Working, InFlight, Locations
<1>7. ASSUME NEW r \in Requests, DatabaseFails(r)
      PROVE TypeInv'
  BY <1>7, ConstructorTypes
  DEF DatabaseFails, Respond, TypeOK, Working, InFlight, Locations, Answers
<1>8. ASSUME NEW r \in Requests,
             \/ \E id \in {r, NoExternalId} : Approve(r, id)
             \/ Decline(r)
             \/ GatewayThrows(r)
      PROVE TypeInv'
  <2> DEFINE Outcomes == {Complete(mem[r], r), Complete(mem[r], NoExternalId),
                          Fail(mem[r], "declined"), Fail(mem[r], "gateway error")}
  <2>a. PICK e \in Outcomes : mem' = [mem EXCEPT ![r] = e]
    BY <1>8 DEF Approve, Decline, GatewayThrows
  <2>b. mem[r] \in Entities
    BY DEF TypeOK
  <2>c. e \in Entities
    BY <2>b, ConstructorTypes DEF Reasons
  <2>d. e.status # "ABSENT"
    BY <2>b DEF Complete, Fail, Entities
  <2>1. /\ mem'[r] \in Entities /\ mem'[r].status # "ABSENT"
        /\ mem' = [mem EXCEPT ![r] = mem'[r]]
    BY <2>a, <2>c, <2>d DEF TypeOK
  <2>2. /\ charged' \in SUBSET Requests
        /\ pc' = [pc EXCEPT ![r] = "settle select"]
        /\ UNCHANGED <<rows, log, reserved, target, snap, answer>>
    BY <1>8 DEF Approve, Decline, GatewayThrows, TypeOK
  <2>3. target[r] \in Transactions
    BY <1>8 DEF Approve, Decline, GatewayThrows, Working, InFlight
  <2> QED
    BY <2>1, <2>2, <2>3 DEF TypeOK, Working, InFlight, Locations
<1>9. ASSUME NEW r \in Requests, NEW type \in {"Processing", "Processed"},
             pc[r] \in {"reserve write", "settle write"},
             CommitSave(r, type), reserved' \in {reserved, reserved \cup {r}},
             NEW code \in Answers, Respond(r, code)
      PROVE TypeInv'
  <2>1. target[r] \in Transactions /\ mem[r].status # "ABSENT"
    BY <1>9 DEF Working, InFlight
  <2> QED
    BY <1>9, <2>1, CommitSaveType, ConstructorTypes
    DEF Respond, TypeOK, Working, InFlight, Locations
<1>10. ASSUME NEW r \in Requests, Settle(r) \/ CommitAnswerLost(r) PROVE TypeInv'
  BY <1>9, <1>10
  DEF Settle, CommitAnswerLost, CommitReservation, CommitSettlement, Answers
<1>11. ASSUME NEW r \in Requests, Crash(r) PROVE TypeInv'
  BY <1>11, ConstructorTypes DEF Crash, TypeOK, Working, InFlight, Locations
<1> QED
  BY <1>1, <1>2, <1>3, <1>4, <1>5, <1>6, <1>7, <1>8, <1>10, <1>11
  DEF Next, Start, Progress

\* Type correctness of the two handlers, the table and the outbox, for every
\* set of transactions and requests.
THEOREM TypeCorrect == Spec => []TypeOK
<1>1. Init => TypeInv
  BY TypeInvInit
<1>2. TypeInv /\ [Next]_vars => TypeInv'
  BY TypeInvStep
<1>3. TypeInv => TypeOK
  BY DEF TypeInv
<1> QED
  BY <1>1, <1>2, <1>3, PTL DEF Spec

-----------------------------------------------------------------------------
(* Reservations *)

\* The stages of a row are distinct.
LEMMA StagesDiffer ==
  /\ NoRow # NewRow /\ NoRow # ProcessingRow /\ NewRow # ProcessingRow
  /\ ~ SettledRow(NoRow) /\ ~ SettledRow(NewRow) /\ ~ SettledRow(ProcessingRow)
<1>1. NoRow # NewRow /\ NoRow # ProcessingRow /\ NewRow # ProcessingRow
  BY StageFields
<1>2. ~ SettledRow(NoRow) /\ ~ SettledRow(NewRow) /\ ~ SettledRow(ProcessingRow)
  BY StageFields DEF SettledRow
<1> QED
  BY <1>1, <1>2

\* A row that has left PENDING, from where no request processes it.
Left(row) == row.status \in {"PROCESSING", "COMPLETED", "FAILED"}

\* What the types do not say of the reservation invariant
Protocol ==
  /\ RowShapes
  /\ RequestShapes
  /\ CompletedIsCharged
  /\ OutboxTellsTheStory
  /\ AnswerIsDurable

\* A row that is PENDING is as it was created, and nobody has reserved it.
LEMMA PendingRow ==
  ASSUME Protocol, NEW t \in Transactions, rows[t].status = "PENDING"
  PROVE  rows[t] = NewRow /\ ReservationsOf(t) = {}
  BY StageFields DEF Protocol, RowShapes

\* A step that adds no reservation, and in which the requests that hold one
\* keep their transactions, leaves all reservations as they are.
LEMMA ReservationsKept ==
  ASSUME reserved' = reserved, \A q \in reserved : target'[q] = target[q]
  PROVE  \A t : ReservationsOf(t)' = ReservationsOf(t) /\ (Sole(t)' <=> Sole(t))
<1>1. \A t : ReservationsOf(t)' = ReservationsOf(t)
  BY DEF ReservationsOf
<1> QED
  BY <1>1 DEF Sole

\* That is so in particular of a request's own transaction.
LEMMA OwnReservationsKept ==
  ASSUME reserved' = reserved, \A q \in reserved : target'[q] = target[q],
         NEW r, target'[r] = target[r]
  PROVE  Sole(target[r])' <=> Sole(target[r])
<1>1. ReservationsOf(target[r])' = ReservationsOf(target[r])
  BY DEF ReservationsOf
<1> QED
  BY <1>1 DEF Sole

\* Before any request, the reservation protocol holds vacuously.
LEMMA ProtocolInit == Init => Protocol
<1> SUFFICES ASSUME Init PROVE Protocol
  OBVIOUS
<1>1. \A t \in Transactions : Story(rows[t]) = <<>>
  BY StageFields DEF Init, Story
<1>2. CompletedIsCharged
  BY StageFields, ConstantsAssumption DEF Init, CompletedIsCharged
<1>3. \A t \in Transactions : ReservationsOf(t) = {}
  BY DEF Init, ReservationsOf
<1> QED
  BY <1>1, <1>2, <1>3
  DEF Init, Protocol, RowShapes, RequestShapes, RequestShape, Reserving, Settling,
      OutboxTellsTheStory, AnswerIsDurable

\* What a step leaves of a request that does nothing in it
Still(q) ==
  /\ pc'[q] = pc[q] /\ target'[q] = target[q] /\ mem'[q] = mem[q]
  /\ snap'[q] = snap[q] /\ answer'[q] = answer[q]

\* A request that does nothing in a step knows what it knew, if the step
\* changes neither its row nor who has reserved its transaction.
LEMMA ShapeKept ==
  ASSUME NEW q \in Requests, RequestShape(q), Still(q),
         q \in reserved' <=> q \in reserved,
         q \in charged' <=> q \in charged,
         target[q] \in Transactions =>
           rows'[target[q]] = rows[target[q]] /\ (Sole(target[q])' <=> Sole(target[q]))
  PROVE  RequestShape(q)'
<1>1. SettledBy(q, mem[q]) => SettledBy(q, mem[q])'
  BY DEF SettledBy, Still
<1>2. /\ Reserving(q)' <=> Reserving(q)
      /\ Settling(q)' <=> Settling(q)
      /\ pc'[q] = pc[q] /\ target'[q] = target[q] /\ mem'[q] = mem[q]
      /\ snap'[q] = snap[q] /\ answer'[q] = answer[q]
  BY DEF Still, Reserving, Settling
<1>4. Reserving(q) \/ pc[q] = "charging" \/ Settling(q) \/ q \in reserved =>
        target[q] \in Transactions
  BY DEF RequestShape
<1>5. /\ (Reserving(q) =>
            /\ target[q] \in Transactions
            /\ rows[target[q]] # NoRow
            /\ mem[q] = ProcessingRow
            /\ q \notin reserved)'
      /\ (pc[q] = "reserve write" /\ rows[target[q]] = NewRow => snap[q] = NewRow)'
  BY <1>2, <1>4 DEF RequestShape, Reserving
<1>6. /\ (q \in reserved => target[q] \in Transactions /\ pc[q] # "idle")'
      /\ (pc[q] = "charging" => mem[q] = ProcessingRow /\ q \notin charged)'
      /\ (q \in charged => q \in reserved)'
      /\ (answer[q] = "200" => q \in reserved /\ pc[q] = "done")'
      /\ (Settling(q) => SettledBy(q, mem[q]))'
  BY <1>1, <1>2 DEF RequestShape
<1>7. /\ (pc[q] = "charging" \/ Settling(q) =>
            /\ q \in reserved
            /\ Sole(target[q]) => rows[target[q]] = ProcessingRow)'
      /\ (pc[q] = "settle write" /\ Sole(target[q]) => snap[q] = ProcessingRow)'
  BY <1>2, <1>4 DEF RequestShape, Settling
<1> QED
  BY <1>5, <1>6, <1>7 DEF RequestShape

\* A step that touches neither rows nor outbox nor captures nor reservations
\* disturbs at most what the request that makes it knows.
LEMMA QuietKeeps ==
  ASSUME TypeOK, Protocol, NEW r \in Requests,
         UNCHANGED <<rows, log, charged, reserved>>,
         \A q \in Requests : q # r => Still(q),
         r \in reserved => target'[r] = target[r],
         RequestShape(r)',
         answer'[r] = "200" => answer[r] = "200" /\ mem'[r] = mem[r]
  PROVE  Protocol'
<1> USE DEF Protocol
<1>1. \A q \in reserved : target'[q] = target[q]
  BY DEF TypeOK, Still
<1>2. \A t : ReservationsOf(t)' = ReservationsOf(t) /\ (Sole(t)' <=> Sole(t))
  BY <1>1, ReservationsKept
<1>3. RowShapes'
  BY <1>2 DEF RowShapes
<1>4. RequestShapes'
  <2> SUFFICES ASSUME NEW q \in Requests, q # r PROVE RequestShape(q)'
    BY DEF RequestShapes
  <2>1. Still(q) /\ RequestShape(q)
    BY DEF RequestShapes
  <2>2. Sole(target[q])' <=> Sole(target[q])
    BY <1>1, <2>1, OwnReservationsKept DEF Still
  <2> QED
    BY <2>1, <2>2, ShapeKept
<1>5. \A q \in charged : target'[q] = target[q]
  BY <1>1 DEF RequestShapes, RequestShape, TypeOK
<1>6. CompletedIsCharged'
  <2>1. \A t : ChargesOf(t)' = ChargesOf(t)
    BY <1>5 DEF ChargesOf
  <2> QED
    BY <2>1 DEF CompletedIsCharged
<1>7. OutboxTellsTheStory'
  BY <1>2 DEF OutboxTellsTheStory
<1>8. AnswerIsDurable'
  <2> SUFFICES ASSUME NEW q \in Requests, answer'[q] = "200", Sole(target[q])'
               PROVE  rows'[target'[q]] = mem'[q]
    BY DEF AnswerIsDurable
  <2>1. answer[q] = "200" /\ mem'[q] = mem[q]
    BY DEF Still
  <2>2. target'[q] = target[q]
    BY <1>1, <2>1 DEF RequestShapes, RequestShape
  <2>3. Sole(target[q])
    BY <1>1, <2>2, OwnReservationsKept
  <2> QED
    BY <2>1, <2>2, <2>3 DEF AnswerIsDurable
<1> QED
  BY <1>3, <1>4, <1>6, <1>7, <1>8

\* A request that ends without having committed disturbs no other.
LEMMA EndStep ==
  ASSUME TypeOK, Protocol, NEW r \in Requests,
         UNCHANGED <<rows, log, charged, reserved>>,
         \A q \in Requests : q # r => Still(q),
         pc'[r] \in {"done", "crashed"}, answer'[r] # "200",
         pc[r] # "idle" => target'[r] = target[r]
  PROVE  Protocol'
<1>1. r \in reserved => target'[r] = target[r]
  BY DEF Protocol, RequestShapes, RequestShape
<1>2. RequestShape(r)'
  BY <1>1 DEF Protocol, RequestShapes, RequestShape, Reserving, Settling
<1> QED
  BY <1>1, <1>2, QuietKeeps

\* A request that loads a row has a copy of the row as it was created.
LEMMA LoadStep ==
  ASSUME TypeOK, Protocol, NEW r \in Requests, NEW t \in Transactions, Load(r, t)
  PROVE  Protocol'
<1>1. /\ pc[r] = "idle" /\ pc'[r] = "reserve select" /\ answer'[r] = answer[r]
      /\ target'[r] = t /\ mem'[r] = MarkAsProcessing(rows[t])
      /\ \A q \in Requests : q # r => Still(q)
      /\ UNCHANGED <<rows, log, charged, reserved>>
  BY DEF Load, TypeOK, Still
<1>2. rows[t].status = "PENDING"
  BY DEF Load, IsValidTransition, ValidTransitions, Statuses
<1>3. rows[t] = NewRow
  BY <1>2, PendingRow
<1>4. r \notin charged /\ answer[r] # "200" /\ r \notin reserved
  BY <1>1 DEF Protocol, RequestShapes, RequestShape
<1>5. RequestShape(r)'
  BY <1>1, <1>3, <1>4, StagesDiffer, StageFields DEF RequestShape, Reserving, Settling
<1> QED
  BY <1>1, <1>4, <1>5, QuietKeeps

\* The row a save selects is the one its request knows.
LEMMA SelectStep ==
  ASSUME TypeOK, Protocol, NEW r \in Requests, SelectForSave(r)
  PROVE  Protocol'
<1>1. /\ UNCHANGED <<rows, log, charged, reserved>>
      /\ target'[r] = target[r] /\ mem'[r] = mem[r] /\ answer'[r] = answer[r]
      /\ \/ pc[r] = "reserve select" /\ pc'[r] = "reserve write"
         \/ pc[r] = "settle select" /\ pc'[r] = "settle write"
      /\ \A q \in Requests : q # r => Still(q)
      /\ snap'[r] = rows[target[r]]
  BY DEF SelectForSave, TypeOK, Still
<1>2. RequestShape(r)'
  <2>1. RequestShape(r)
    BY DEF Protocol, RequestShapes
  <2>2. Sole(target[r])' <=> Sole(target[r])
    BY OwnReservationsKept DEF SelectForSave
  <2>4. SettledBy(r, mem[r])' <=> SettledBy(r, mem[r])
    BY <1>1 DEF SettledBy
  <2>5. CASE pc[r] = "reserve select"
    BY <1>1, <2>1, <2>5 DEF RequestShape, Reserving, Settling
  <2>6. CASE pc[r] = "settle select"
    BY <1>1, <2>1, <2>2, <2>4, <2>6 DEF RequestShape, Reserving, Settling
  <2> QED
    BY <1>1, <2>5, <2>6
<1> QED
  BY <1>1, <1>2, QuietKeeps

\* Creating a transaction touches nothing any request relies on.
LEMMA CreateStep ==
  ASSUME TypeOK, Protocol, NEW t \in Transactions, Create(t)
  PROVE  Protocol'
<1> USE DEF Protocol
<1> DEFINE created == Event("Created", NewRow)
<1>1. /\ rows[t] = NoRow /\ rows'[t] = NewRow
      /\ \A u \in Transactions : u # t => rows'[u] = rows[u]
  BY DEF Create, TypeOK
<1>2. UNCHANGED <<charged, reserved, pc, target, mem, snap, answer>>
  BY DEF Create
<1>3. /\ log'[t] = Append(log[t], created)
      /\ \A u \in Transactions : u # t => log'[u] = log[u]
  BY DEF Create, TypeOK
<1> HIDE DEF created
<1>4. ReservationsOf(t) = {} /\ \A r \in reserved : target[r] # t
  <2>1. ReservationsOf(t) = {}
    BY <1>1, StageFields DEF RowShapes
  <2> QED
    BY <2>1 DEF ReservationsOf
<1>5. \A u : ReservationsOf(u)' = ReservationsOf(u) /\ (Sole(u)' <=> Sole(u))
  BY <1>2, ReservationsKept
<1>6. RowShapes'
  BY <1>1, <1>4, <1>5 DEF RowShapes
<1>7. RequestShapes'
  <2> SUFFICES ASSUME NEW q \in Requests PROVE RequestShape(q)'
    BY DEF RequestShapes
  <2>1. Still(q) /\ RequestShape(q)
    BY <1>2 DEF Still, RequestShapes
  <2>2. Sole(target[q])' <=> Sole(target[q])
    BY <1>2, OwnReservationsKept
  <2>3. CASE target[q] = t
    <3>1. ~ Reserving(q) /\ q \notin reserved
      BY <1>1, <1>4, <2>1, <2>3 DEF RequestShape
    <3> QED
      BY <1>2, <2>1, <3>1 DEF RequestShape, Reserving, Settling
  <2>4. CASE target[q] # t
    BY <1>1, <1>2, <2>1, <2>2, <2>4, ShapeKept
  <2> QED
    BY <2>3, <2>4
<1>8. CompletedIsCharged'
  <2>1. /\ rows'[t].status # "COMPLETED" /\ rows'[t].externalId \notin Requests
        /\ \A u \in Transactions : u # t => rows'[u] = rows[u]
    BY <1>1, StageFields, ConstantsAssumption
  <2>2. \A u : ChargesOf(u)' = ChargesOf(u)
    BY <1>2 DEF ChargesOf
  <2> QED
    BY <2>1, <2>2 DEF CompletedIsCharged
<1>9. OutboxTellsTheStory'
  <2>1. log[t] = <<>>
    BY <1>1, <1>4, StageFields DEF OutboxTellsTheStory, Story, Sole
  <2>2. Append(<<>>, created) = <<created>>
    OBVIOUS
  <2>3. log'[t] = <<created>>
    BY <1>3, <2>1, <2>2
  <2>4. Story(NewRow) = <<created>>
    BY StageFields DEF Story, created
  <2> QED
    BY <1>1, <1>3, <1>5, <2>3, <2>4 DEF OutboxTellsTheStory
<1>10. AnswerIsDurable'
  <2> SUFFICES ASSUME NEW q \in Requests, answer'[q] = "200", Sole(target[q])'
               PROVE  rows'[target'[q]] = mem'[q]
    BY DEF AnswerIsDurable
  <2>1. answer[q] = "200" /\ Sole(target[q])
    BY <1>2, OwnReservationsKept
  <2>2. target[q] \in Transactions /\ target[q] # t
    BY <1>4, <2>1 DEF RequestShapes, RequestShape
  <2> QED
    BY <1>1, <1>2, <2>1, <2>2 DEF AnswerIsDurable
<1> QED
  BY <1>6, <1>7, <1>8, <1>9, <1>10

\* A request about to write the row it has selected.
Saving(r) == pc[r] = "reserve write" \/ pc[r] = "settle write"

\* What the write of a save does to the table: the row of its transaction has
\* left PENDING, and what it says of captures comes from the row as it was or
\* from what this request was told by the gateway.
Saved(r, type, t) ==
  /\ t \in Transactions
  /\ rows'[t] = Written(rows[t], mem[r], snap[r])
  /\ \A u \in Transactions : u # t => rows'[u] = rows[u]
  /\ log'[t] = Append(log[t], Event(type, mem[r]))
  /\ \A u \in Transactions : u # t => log'[u] = log[u]
  /\ charged' = charged /\ target' = target /\ mem' = mem
  /\ rows'[t].status \in {rows[t].status, mem[r].status}
  /\ rows'[t].externalId \in {rows[t].externalId, mem[r].externalId}
  /\ rows[t].status \in {"PENDING", "PROCESSING", "COMPLETED", "FAILED"}
  /\ pc[r] = "settle write" => Left(rows[t]) /\ Left(rows'[t])
  /\ Left(rows[t]) => Left(rows'[t])

\* That is what every save does, whatever was written since it selected its row.
LEMMA CommitSaveRow ==
  ASSUME TypeOK, Protocol, NEW r \in Requests, NEW type, NEW t, t = target[r],
         Saving(r), CommitSave(r, type)
  PROVE  Saved(r, type, t)
<1>1. t \in Transactions
  BY DEF Saving, Protocol, RequestShapes, RequestShape, Reserving, Settling
<1>2. t = target[r]
  OBVIOUS
<1>3. /\ rows'[t] = Written(rows[t], mem[r], snap[r])
      /\ \A u \in Transactions : u # t => rows'[u] = rows[u]
      /\ log'[t] = Append(log[t], Event(type, mem[r]))
      /\ \A u \in Transactions : u # t => log'[u] = log[u]
      /\ charged' = charged /\ target' = target /\ mem' = mem
  BY <1>1, <1>2 DEF CommitSave, TypeOK
<1>4. /\ rows'[t].status \in {rows[t].status, mem[r].status}
      /\ rows'[t].externalId \in {rows[t].externalId, mem[r].externalId}
  <2> DEFINE written == Written(rows[t], mem[r], snap[r])
  <2>1. /\ written.status = Column(rows[t].status, mem[r].status, snap[r].status)
        /\ written.externalId =
             Column(rows[t].externalId, mem[r].externalId, snap[r].externalId)
    BY DEF Written
  <2>2. rows'[t] = written
    BY <1>3
  <2> HIDE DEF written
  <2> QED
    BY <2>1, <2>2 DEF Column
<1>5. RequestShape(r)
  BY DEF Protocol, RequestShapes
<1>6. mem[r].status \in {"PROCESSING", "COMPLETED", "FAILED"}
  <2>1. CASE pc[r] = "reserve write"
    BY <1>5, <2>1, StageFields DEF RequestShape, Reserving
  <2>2. CASE pc[r] = "settle write"
    <3>1. SettledBy(r, mem[r])
      BY <1>5, <2>2 DEF RequestShape, Settling
    <3> QED
      BY <3>1, SettledFields
  <2> QED
    BY <2>1, <2>2 DEF Saving
<1>7. rows[t].status \in {"PENDING", "PROCESSING", "COMPLETED", "FAILED"}
  <2>1. rows[t] # NoRow
    <3>1. CASE pc[r] = "reserve write"
      BY <1>2, <1>5, <3>1 DEF RequestShape, Reserving
    <3>2. CASE pc[r] = "settle write"
      <4>1. r \in ReservationsOf(t)
        BY <1>2, <1>5, <3>2 DEF RequestShape, Settling, ReservationsOf
      <4> QED
        BY <1>1, <4>1, StageFields DEF Protocol, RowShapes
    <3> QED
      BY <3>1, <3>2 DEF Saving
  <2> QED
    BY <1>1, <2>1, StageFields DEF Protocol, RowShapes
<1>8. pc[r] = "settle write" => Left(rows[t])
  <2> SUFFICES ASSUME pc[r] = "settle write" PROVE Left(rows[t])
    OBVIOUS
  <2>1. r \in ReservationsOf(t)
    BY <1>2, <1>5 DEF RequestShape, Settling, ReservationsOf
  <2> QED
    BY <1>1, <2>1 DEF Protocol, RowShapes, Left
<1>9. Left(rows[t]) => Left(rows'[t])
  BY <1>4, <1>6 DEF Left
<1> QED
  BY <1>1, <1>3, <1>4, <1>7, <1>8, <1>9 DEF Saved

\* A save keeps true what rows say of captures.
LEMMA CommitSaveCharges ==
  ASSUME TypeOK, Protocol, NEW r \in Requests, NEW type, NEW t, t = target[r],
         Saving(r), CommitSave(r, type)
  PROVE  CompletedIsCharged'
<1>1. /\ t \in Transactions
      /\ \A u \in Transactions : u # t => rows'[u] = rows[u]
      /\ rows'[t].status \in {rows[t].status, mem[r].status}
      /\ rows'[t].externalId \in {rows[t].externalId, mem[r].externalId}
      /\ charged' = charged /\ target' = target
  <2>1. Saved(r, type, t)
    BY CommitSaveRow
  <2> QED
    BY <2>1 DEF Saved
<1>2. /\ mem[r].status = "COMPLETED" => r \in charged
      /\ mem[r].externalId \in Requests => mem[r].externalId = r /\ r \in charged
  <2>1. CASE pc[r] = "reserve write"
    <3>1. mem[r] = ProcessingRow
      BY <2>1 DEF Protocol, RequestShapes, RequestShape, Reserving
    <3> QED
      BY <3>1, StageFields, ConstantsAssumption
  <2>2. CASE pc[r] = "settle write"
    <3>1. SettledBy(r, mem[r])
      BY <2>2 DEF Protocol, RequestShapes, RequestShape, Settling
    <3> QED
      BY <3>1, SettledFields
  <2> QED
    BY <2>1, <2>2 DEF Saving
<1>3. \A u : ChargesOf(u)' = ChargesOf(u)
  BY <1>1 DEF ChargesOf
<1>4. r \in charged => r \in ChargesOf(t)
  BY DEF ChargesOf
<1>5. /\ rows'[t].status = "COMPLETED" => ChargesOf(t) # {}
      /\ rows'[t].externalId \in Requests => rows'[t].externalId \in ChargesOf(t)
  BY <1>1, <1>2, <1>4 DEF Protocol, CompletedIsCharged
<1> QED
  BY <1>1, <1>3, <1>5 DEF Protocol, CompletedIsCharged

\* The first to reserve a transaction turns the row as it was created into the
\* processing row; another one leaves a row that several have reserved.
LEMMA ReserveStep ==
  ASSUME TypeOK, Protocol, NEW r \in Requests, CommitReservation(r),
         pc'[r] = "charging" \/ pc'[r] = "done",
         answer'[r] # "200",
         \A q \in Requests : q # r => /\ pc'[q] = pc[q]
                                      /\ answer'[q] = answer[q]
                                      /\ snap'[q] = snap[q]
  PROVE  Protocol'
<1>1. pc[r] = "reserve write" /\ CommitSave(r, "Processing")
      /\ reserved' = reserved \cup {r}
  BY DEF CommitReservation
<1>a. PICK type : type = "Processing" /\ CommitSave(r, type)
  BY <1>1
<1>4. PICK t : t = target[r]
  OBVIOUS
<1>2. /\ t \in Transactions
      /\ rows'[t] = Written(rows[t], mem[r], snap[r])
      /\ \A u \in Transactions : u # t => rows'[u] = rows[u]
      /\ log'[t] = Append(log[t], Event("Processing", mem[r]))
      /\ \A u \in Transactions : u # t => log'[u] = log[u]
      /\ charged' = charged /\ target' = target /\ mem' = mem
      /\ Left(rows[t]) => Left(rows'[t])
  <2>1. CommitSave(r, type) /\ Saving(r) /\ type = "Processing"
    BY <1>1, <1>a DEF Saving
  <2>2. Saved(r, type, t)
    BY <1>4, <2>1, CommitSaveRow
  <2> QED
    BY <2>1, <2>2 DEF Saved
<1>3. CompletedIsCharged'
  BY <1>1, <1>4, <1>a, CommitSaveCharges DEF Saving
<1> USE DEF Protocol
<1>5. /\ rows[t] # NoRow /\ mem[r] = ProcessingRow /\ r \notin reserved
      /\ r \notin charged
      /\ rows[t] = NewRow => snap[r] = NewRow
  BY <1>1, <1>4 DEF RequestShapes, RequestShape, Reserving
<1>6. \A u \in Transactions : /\ u # t => ReservationsOf(u)' = ReservationsOf(u)
                              /\ u # t => (Sole(u)' <=> Sole(u))
                              /\ ReservationsOf(t)' = ReservationsOf(t) \cup {r}
  <2>1. \A u \in Transactions : u # t => ReservationsOf(u)' = ReservationsOf(u)
    BY <1>1, <1>2, <1>4 DEF ReservationsOf
  <2>2. ReservationsOf(t)' = ReservationsOf(t) \cup {r}
    BY <1>1, <1>2, <1>4 DEF ReservationsOf
  <2> QED
    BY <2>1, <2>2 DEF Sole
<1>7. r \notin ReservationsOf(t) /\ r \in ReservationsOf(t)'
  BY <1>2, <1>5, <1>6 DEF ReservationsOf
<1>8. ReservationsOf(t) # {} => ~ Sole(t)'
  BY <1>2, <1>6, <1>7 DEF Sole
<1>9. ReservationsOf(t) = {} =>
        /\ rows[t] = NewRow /\ rows'[t] = ProcessingRow
        /\ log'[t] = Story(ProcessingRow)
  <2> SUFFICES ASSUME ReservationsOf(t) = {}
               PROVE  /\ rows[t] = NewRow /\ rows'[t] = ProcessingRow
                      /\ log'[t] = Story(ProcessingRow)
    OBVIOUS
  <2>1. rows[t] = NewRow /\ snap[r] = NewRow
    BY <1>2, <1>5 DEF RowShapes
  <2>2. rows'[t] = ProcessingRow
    <3>1. NewRow \in Entities /\ ProcessingRow \in Entities
      BY StageFields, ConstructorTypes
    <3>2. Written(NewRow, ProcessingRow, NewRow) = ProcessingRow
      BY <3>1, WrittenAlone
    <3> QED
      BY <1>2, <1>5, <2>1, <3>2
  <2>3. log[t] = <<Event("Created", NewRow)>>
    BY <1>2, <2>1, StageFields DEF OutboxTellsTheStory, Story, Sole
  <2>4. Story(ProcessingRow) =
          <<Event("Created", NewRow), Event("Processing", MarkAsProcessing(NewRow))>>
    BY StageFields DEF Story
  <2>5. mem[r] = MarkAsProcessing(NewRow)
    BY <1>5, StageFields
  <2> QED
    BY <1>2, <2>1, <2>2, <2>3, <2>4, <2>5, AppendHistory
<1>10. Left(rows'[t])
  <2>1. CASE ReservationsOf(t) = {}
    BY <1>9, <2>1, StageFields DEF Left
  <2>2. CASE ReservationsOf(t) # {}
    BY <1>2, <2>2 DEF RowShapes, Left
  <2> QED
    BY <2>1, <2>2
<1>11. RowShapes'
  <2> SUFFICES ASSUME NEW u \in Transactions
               PROVE  IF ReservationsOf(u)' = {} THEN rows'[u] \in {NoRow, NewRow}
                      ELSE /\ rows'[u].status \in {"PROCESSING", "COMPLETED", "FAILED"}
                           /\ Sole(u)' => rows'[u] = ProcessingRow \/ SettledRow(rows'[u])
    BY DEF RowShapes, SettledRow
  <2>1. CASE u = t
    BY <1>7, <1>8, <1>9, <1>10, <2>1 DEF Left
  <2>2. CASE u # t
    BY <1>2, <1>6, <2>2 DEF RowShapes
  <2> QED
    BY <2>1, <2>2
<1>12. OutboxTellsTheStory'
  <2> SUFFICES ASSUME NEW u \in Transactions, Sole(u)'
               PROVE  log'[u] = Story(rows'[u])
    BY DEF OutboxTellsTheStory, Story, Event
  <2>1. CASE u = t
    BY <1>8, <1>9, <2>1
  <2>2. CASE u # t
    BY <1>2, <1>6, <2>2 DEF OutboxTellsTheStory
  <2> QED
    BY <2>1, <2>2
<1>13. ASSUME NEW q \in Requests, q # r, target[q] = t, q \in reserved
       PROVE  ~ Sole(t)'
  BY <1>8, <1>13 DEF ReservationsOf
<1>14. RequestShapes'
  <2>1. RequestShape(r)'
    <3>1. r \in reserved' /\ target'[r] = t /\ mem'[r] = ProcessingRow
          /\ r \notin charged' /\ ~ Reserving(r)' /\ ~ Settling(r)'
      BY <1>1, <1>2, <1>4, <1>5 DEF Reserving, Settling
    <3>2. Sole(target[r])' => Sole(t)'
      BY <3>1 DEF Sole, ReservationsOf
    <3>3. Sole(target[r])' => rows'[target'[r]] = ProcessingRow
      BY <1>8, <1>9, <3>1, <3>2
    <3> QED
      BY <1>2, <3>1, <3>3 DEF RequestShape, Settling, Reserving
  <2>2. ASSUME NEW q \in Requests, q # r PROVE RequestShape(q)'
    <3>1. Still(q) /\ RequestShape(q) /\ (q \in reserved' <=> q \in reserved)
          /\ (q \in charged' <=> q \in charged)
      BY <1>1, <1>2, <2>2 DEF Still, RequestShapes
    <3>2. CASE target[q] = t
      <4>1. target'[q] = t
        BY <3>1, <3>2 DEF Still
      <4>2. q \in reserved => ~ Sole(target[q])'
        <5>1. Sole(target[q])' => Sole(t)'
          BY <4>1 DEF Sole, ReservationsOf
        <5> QED
          BY <1>13, <2>2, <3>2, <5>1
      <4>3. rows'[t] # NoRow /\ rows'[t] # NewRow
        BY <1>10, StageFields DEF Left
      <4>4. SettledBy(q, mem[q]) => SettledBy(q, mem[q])'
        BY <1>2, <3>1 DEF SettledBy, Still
      <4> QED
        BY <1>2, <3>1, <3>2, <4>1, <4>2, <4>3, <4>4
           DEF RequestShape, Reserving, Settling, Still
    <3>3. CASE target[q] # t
      <4>1. target[q] \in Transactions => (Sole(target[q])' <=> Sole(target[q]))
        <5>1. ReservationsOf(target[q])' = ReservationsOf(target[q])
          BY <1>1, <1>2, <1>4, <3>3 DEF ReservationsOf
        <5> QED
          BY <5>1 DEF Sole
      <4> QED
        BY <1>2, <3>1, <3>3, <4>1, ShapeKept
    <3> QED
      BY <3>2, <3>3
  <2> QED
    BY <2>1, <2>2 DEF RequestShapes
<1>15. AnswerIsDurable'
  <2> SUFFICES ASSUME NEW q \in Requests, answer'[q] = "200", Sole(target[q])'
               PROVE  rows'[target'[q]] = mem'[q]
    BY DEF AnswerIsDurable
  <2>1. q # r /\ answer[q] = "200" /\ target'[q] = target[q] /\ mem'[q] = mem[q]
    BY <1>2
  <2>2. q \in reserved /\ target[q] \in Transactions
    BY <2>1 DEF RequestShapes, RequestShape
  <2>3. target[q] # t
    <3> SUFFICES ASSUME target[q] = t PROVE FALSE
      OBVIOUS
    <3>1. Sole(target[q])' => Sole(t)'
      BY <2>1 DEF Sole, ReservationsOf
    <3> QED
      BY <1>13, <2>1, <2>2, <3>1
  <2>4. Sole(target[q])
    <3>1. ReservationsOf(target[q])' = ReservationsOf(target[q])
      BY <1>1, <1>2, <1>4, <2>3 DEF ReservationsOf
    <3> QED
      BY <3>1 DEF Sole
  <2> QED
    BY <1>2, <2>1, <2>2, <2>3, <2>4 DEF AnswerIsDurable
<1> QED
  BY <1>3, <1>11, <1>12, <1>14, <1>15

\* The gateway's answer changes what is charged and what the request knows.
LEMMA GatewayStep ==
  ASSUME TypeOK, Protocol, NEW r \in Requests, pc[r] = "charging",
         pc'[r] = "settle select",
         \A q \in Requests : q # r => pc'[q] = pc[q] /\ mem'[q] = mem[q],
         charged' \in {charged, charged \cup {r}},
         SettledBy(r, mem[r])',
         UNCHANGED <<rows, log, reserved, target, snap, answer>>
  PROVE  Protocol'
<1> USE DEF Protocol
<1>1. UNCHANGED <<rows, log, reserved, target, snap, answer>>
  OBVIOUS
<1>2. r \in reserved /\ answer[r] # "200"
  BY DEF RequestShapes, RequestShape
<1>3. \A u : ReservationsOf(u)' = ReservationsOf(u) /\ (Sole(u)' <=> Sole(u))
  BY <1>1, ReservationsKept
<1>4. RowShapes' /\ OutboxTellsTheStory'
  BY <1>1, <1>3 DEF RowShapes, OutboxTellsTheStory
<1>5. RequestShapes'
  <2> SUFFICES ASSUME NEW q \in Requests PROVE RequestShape(q)'
    BY DEF RequestShapes
  <2>1. Sole(target[q])' <=> Sole(target[q])
    BY <1>1, OwnReservationsKept
  <2>2. RequestShape(q)
    BY DEF RequestShapes
  <2>3. CASE q = r
    BY <1>1, <1>2, <2>1, <2>2, <2>3 DEF RequestShape, Reserving, Settling
  <2>4. CASE q # r
    <3>1. Still(q) /\ (q \in charged' <=> q \in charged)
      BY <1>1, <2>4 DEF Still
    <3> QED
      BY <1>1, <2>1, <2>2, <3>1, ShapeKept
  <2> QED
    BY <2>3, <2>4
<1>6. CompletedIsCharged'
  <2>1. \A u : ChargesOf(u) \in SUBSET ChargesOf(u)'
    BY <1>1 DEF ChargesOf
  <2> QED
    BY <1>1, <2>1 DEF CompletedIsCharged
<1>7. AnswerIsDurable'
  <2> SUFFICES ASSUME NEW q \in Requests, answer'[q] = "200", Sole(target[q])'
               PROVE  rows'[target'[q]] = mem'[q]
    BY DEF AnswerIsDurable
  <2>1. q # r /\ answer[q] = "200" /\ Sole(target[q])
    BY <1>1, <1>2, OwnReservationsKept
  <2> QED
    BY <1>1, <2>1 DEF AnswerIsDurable
<1> QED
  BY <1>4, <1>5, <1>6, <1>7

\* Settling writes the request's entity over the row it alone has reserved;
\* where several have, it leaves a row they have mixed.
LEMMA SettleStep ==
  ASSUME TypeOK, Protocol, NEW r \in Requests, CommitSettlement(r),
         pc'[r] = "done",
         \A q \in Requests : q # r => /\ pc'[q] = pc[q]
                                      /\ answer'[q] = answer[q]
                                      /\ snap'[q] = snap[q]
  PROVE  Protocol'
<1>1. pc[r] = "settle write" /\ CommitSave(r, "Processed") /\ reserved' = reserved
  BY DEF CommitSettlement
<1>a. PICK type : type = "Processed" /\ CommitSave(r, type)
  BY <1>1
<1>4. PICK t : t = target[r]
  OBVIOUS
<1>2. /\ t \in Transactions
      /\ rows'[t] = Written(rows[t], mem[r], snap[r])
      /\ \A u \in Transactions : u # t => rows'[u] = rows[u]
      /\ log'[t] = Append(log[t], Event("Processed", mem[r]))
      /\ \A u \in Transactions : u # t => log'[u] = log[u]
      /\ charged' = charged /\ target' = target /\ mem' = mem
      /\ Left(rows[t]) /\ Left(rows'[t])
  <2>1. CommitSave(r, type) /\ Saving(r) /\ type = "Processed"
    BY <1>1, <1>a DEF Saving
  <2>2. Saved(r, type, t)
    BY <1>4, <2>1, CommitSaveRow
  <2> QED
    BY <1>1, <2>1, <2>2 DEF Saved
<1>3. CompletedIsCharged'
  BY <1>1, <1>4, <1>a, CommitSaveCharges DEF Saving
<1> USE DEF Protocol
<1>5. /\ r \in reserved /\ SettledBy(r, mem[r])
      /\ Sole(t) => rows[t] = ProcessingRow /\ snap[r] = ProcessingRow
  BY <1>1, <1>4 DEF RequestShapes, RequestShape, Settling
<1>6. \A u : ReservationsOf(u)' = ReservationsOf(u) /\ (Sole(u)' <=> Sole(u))
  BY <1>1, <1>2, ReservationsKept
<1>7. r \in ReservationsOf(t)
  BY <1>4, <1>5 DEF ReservationsOf
<1>8. mem[r].status \in {"COMPLETED", "FAILED"}
  BY <1>5, SettledFields
<1>9. Sole(t) => rows'[t] = mem[r] /\ log'[t] = Story(mem[r])
  <2> SUFFICES ASSUME Sole(t) PROVE rows'[t] = mem[r] /\ log'[t] = Story(mem[r])
    OBVIOUS
  <2>1. ProcessingRow \in Entities /\ mem[r] \in Entities
    BY StageFields, ConstructorTypes DEF TypeOK
  <2>2. Written(ProcessingRow, mem[r], ProcessingRow) = mem[r]
    BY <2>1, WrittenAlone
  <2>3. log[t] = <<Event("Created", NewRow),
                   Event("Processing", MarkAsProcessing(NewRow))>>
    BY <1>2, <1>5, StageFields DEF OutboxTellsTheStory, Story
  <2>4. Story(mem[r]) =
          <<Event("Created", NewRow), Event("Processing", MarkAsProcessing(NewRow)),
            Event("Processed", mem[r])>>
    BY <1>8 DEF Story
  <2> QED
    BY <1>2, <1>5, <2>2, <2>3, <2>4, AppendHistory
<1>10. RowShapes'
  <2> SUFFICES ASSUME NEW u \in Transactions
               PROVE  IF ReservationsOf(u)' = {} THEN rows'[u] \in {NoRow, NewRow}
                      ELSE /\ rows'[u].status \in {"PROCESSING", "COMPLETED", "FAILED"}
                           /\ Sole(u)' => rows'[u] = ProcessingRow \/ SettledRow(rows'[u])
    BY DEF RowShapes, SettledRow
  <2>1. CASE u = t
    BY <1>2, <1>6, <1>7, <1>8, <1>9, <2>1 DEF Left, SettledRow
  <2>2. CASE u # t
    BY <1>2, <1>6, <2>2 DEF RowShapes
  <2> QED
    BY <2>1, <2>2
<1>11. OutboxTellsTheStory'
  <2> SUFFICES ASSUME NEW u \in Transactions, Sole(u)'
               PROVE  log'[u] = Story(rows'[u])
    BY DEF OutboxTellsTheStory, Story, Event
  <2>1. CASE u = t
    BY <1>6, <1>9, <2>1
  <2>2. CASE u # t
    BY <1>2, <1>6, <2>2 DEF OutboxTellsTheStory
  <2> QED
    BY <2>1, <2>2
<1>12. ASSUME NEW q \in Requests, q # r, target[q] = t, q \in reserved
       PROVE  ~ Sole(t)
  BY <1>7, <1>12 DEF ReservationsOf, Sole
<1>13. RequestShapes'
  <2>1. RequestShape(r)'
    <3>1. r \in reserved' /\ target'[r] \in Transactions
      BY <1>1, <1>2, <1>4, <1>5
    <3> QED
      BY <3>1 DEF RequestShape, Reserving, Settling
  <2>2. ASSUME NEW q \in Requests, q # r PROVE RequestShape(q)'
    <3>1. Still(q) /\ RequestShape(q) /\ (q \in reserved' <=> q \in reserved)
          /\ (q \in charged' <=> q \in charged)
      BY <1>1, <1>2, <2>2 DEF Still, RequestShapes
    <3>2. Sole(target[q])' <=> Sole(target[q])
      BY <1>1, <1>2, OwnReservationsKept
    <3>3. CASE target[q] = t
      <4>1. q \in reserved => ~ Sole(target[q])'
        BY <1>12, <2>2, <3>2, <3>3
      <4>2. rows'[t] # NoRow /\ rows'[t] # NewRow
        BY <1>2, StageFields DEF Left
      <4>3. SettledBy(q, mem[q]) => SettledBy(q, mem[q])'
        BY <1>2, <3>1 DEF SettledBy, Still
      <4> QED
        BY <1>2, <3>1, <3>3, <4>1, <4>2, <4>3
           DEF RequestShape, Reserving, Settling, Still
    <3>4. CASE target[q] # t
      BY <1>2, <3>1, <3>2, <3>4, ShapeKept
    <3> QED
      BY <3>3, <3>4
  <2> QED
    BY <2>1, <2>2 DEF RequestShapes
<1>14. AnswerIsDurable'
  <2> SUFFICES ASSUME NEW q \in Requests, answer'[q] = "200", Sole(target[q])'
               PROVE  rows'[target'[q]] = mem'[q]
    BY DEF AnswerIsDurable
  <2>1. target'[q] = target[q] /\ mem'[q] = mem[q] /\ Sole(target[q])
    BY <1>1, <1>2, OwnReservationsKept
  <2>2. CASE q = r
    BY <1>4, <1>9, <2>1, <2>2
  <2>3. CASE q # r
    <3>1. answer[q] = "200"
      BY <2>3
    <3>2. q \in reserved /\ target[q] \in Transactions
      BY <3>1 DEF RequestShapes, RequestShape
    <3>3. target[q] # t
      BY <1>12, <2>1, <2>3, <3>2
    <3> QED
      BY <1>2, <2>1, <3>1, <3>2, <3>3 DEF AnswerIsDurable
  <2> QED
    BY <2>2, <2>3
<1> QED
  BY <1>3, <1>10, <1>11, <1>13, <1>14

\* Every step of the two handlers keeps the reservation protocol.
LEMMA ProtocolStep ==
  ASSUME TypeOK, Protocol, [Next]_vars
  PROVE  Protocol'
<1>1. CASE UNCHANGED vars
  <2>1. UNCHANGED <<rows, log, charged, reserved, pc, target, mem, snap, answer>>
    BY <1>1 DEF vars
  <2>2. \A u : ReservationsOf(u)' = ReservationsOf(u) /\ (Sole(u)' <=> Sole(u))
    BY <2>1, ReservationsKept
  <2>3. \A u : ChargesOf(u)' = ChargesOf(u)
    BY <2>1 DEF ChargesOf
  <2>4. RequestShapes'
    <3> SUFFICES ASSUME NEW q \in Requests PROVE RequestShape(q)'
      BY DEF RequestShapes
    <3>1. Still(q) /\ RequestShape(q)
      BY <2>1 DEF Still, Protocol, RequestShapes
    <3>2. Sole(target[q])' <=> Sole(target[q])
      BY <2>1, OwnReservationsKept
    <3> QED
      BY <2>1, <3>1, <3>2, ShapeKept
  <2>5. RowShapes' /\ OutboxTellsTheStory' /\ CompletedIsCharged'
    BY <2>1, <2>2, <2>3 DEF Protocol, RowShapes, OutboxTellsTheStory, CompletedIsCharged
  <2>6. AnswerIsDurable'
    <3> SUFFICES ASSUME NEW q \in Requests, answer'[q] = "200", Sole(target[q])'
                 PROVE  rows'[target'[q]] = mem'[q]
      BY DEF AnswerIsDurable
    <3>1. answer[q] = "200" /\ Sole(target[q])
      BY <2>1, OwnReservationsKept
    <3> QED
      BY <2>1, <3>1 DEF Protocol, AnswerIsDurable
  <2> QED
    BY <2>4, <2>5, <2>6 DEF Protocol
<1>2. ASSUME NEW t \in Transactions, Create(t) PROVE Protocol'
  BY <1>2, CreateStep
<1>3. ASSUME NEW r \in Requests, NEW t \in Transactions,
             NotFound(r, t) \/ RejectTransition(r, t)
      PROVE  Protocol'
  <2>1. /\ UNCHANGED <<rows, log, charged, reserved>>
        /\ \A q \in Requests : q # r => Still(q)
        /\ pc'[r] \in {"done", "crashed"} /\ answer'[r] # "200"
        /\ pc[r] = "idle"
    BY <1>3 DEF NotFound, RejectTransition, Respond, Still, TypeOK
  <2> QED
    BY <2>1, EndStep
<1>4. ASSUME NEW r \in Requests, NEW t \in Transactions, Load(r, t) PROVE Protocol'
  BY <1>4, LoadStep
<1>5. ASSUME NEW r \in Requests, SelectForSave(r) PROVE Protocol'
  BY <1>5, SelectStep
<1>6. ASSUME NEW r \in Requests, DatabaseFails(r) \/ Crash(r) PROVE Protocol'
  <2>1. answer[r] = "200" => pc[r] = "done"
    BY DEF Protocol, RequestShapes, RequestShape
  <2>2. /\ UNCHANGED <<rows, log, charged, reserved, target>>
        /\ \A q \in Requests : q # r => Still(q)
        /\ pc'[r] \in {"done", "crashed"} /\ answer'[r] # "200"
    BY <1>6, <2>1 DEF DatabaseFails, Crash, Respond, Still, TypeOK
  <2> QED
    BY <2>2, EndStep
<1>7. ASSUME NEW r \in Requests,
             \/ \E id \in {r, NoExternalId} : Approve(r, id)
             \/ Decline(r)
             \/ GatewayThrows(r)
      PROVE Protocol'
  <2>1. /\ pc[r] = "charging" /\ pc'[r] = "settle select"
        /\ charged' \in {charged, charged \cup {r}}
        /\ \A q \in Requests : q # r => pc'[q] = pc[q] /\ mem'[q] = mem[q]
        /\ UNCHANGED <<rows, log, reserved, target, snap, answer>>
    BY <1>7 DEF Approve, Decline, GatewayThrows, TypeOK
  <2>2. mem[r] = ProcessingRow
    BY <2>1 DEF Protocol, RequestShapes, RequestShape
  <2>3. SettledBy(r, mem[r])'
    <3>1. CASE \E id \in {r, NoExternalId} : Approve(r, id)
      <4>1. PICK id \in {r, NoExternalId} : Approve(r, id)
        BY <3>1
      <4>2. mem'[r] = Complete(ProcessingRow, id) /\ r \in charged'
        BY <2>2, <4>1 DEF Approve, TypeOK
      <4> QED
        BY <4>2 DEF SettledBy
    <3>2. CASE Decline(r)
      <4>1. mem'[r] = Fail(ProcessingRow, "declined")
        BY <2>2, <3>2 DEF Decline, TypeOK
      <4> QED
        BY <4>1 DEF SettledBy, Reasons
    <3>3. CASE GatewayThrows(r)
      <4>1. mem'[r] = Fail(ProcessingRow, "gateway error")
        BY <2>2, <3>3 DEF GatewayThrows, TypeOK
      <4> QED
        BY <4>1 DEF SettledBy, Reasons
    <3> QED
      BY <1>7, <3>1, <3>2, <3>3
  <2> QED
    BY <2>1, <2>3, GatewayStep
<1>8. ASSUME NEW r \in Requests, Reserve(r) \/ Settle(r) \/ CommitAnswerLost(r)
      PROVE Protocol'
  <2>1. \A q \in Requests : q # r => /\ pc'[q] = pc[q]
                                     /\ answer'[q] = answer[q]
                                     /\ snap'[q] = snap[q]
    BY <1>8 DEF Reserve, Settle, CommitAnswerLost, CommitReservation,
                CommitSettlement, Respond, TypeOK
  <2>2. CASE CommitReservation(r)
    <3>1. answer[r] # "200"
      BY <2>2 DEF CommitReservation, Protocol, RequestShapes, RequestShape
    <3>2. answer'[r] # "200" /\ (pc'[r] = "charging" \/ pc'[r] = "done")
      BY <1>8, <2>2, <3>1 DEF Reserve, Settle, CommitAnswerLost, CommitReservation,
                              CommitSettlement, Respond, TypeOK
    <3> QED
      BY <2>1, <2>2, <3>2, ReserveStep
  <2>3. CASE CommitSettlement(r)
    <3>1. pc'[r] = "done"
      BY <1>8, <2>3 DEF Reserve, Settle, CommitAnswerLost, CommitReservation,
                        CommitSettlement, Respond, TypeOK
    <3> QED
      BY <2>1, <2>3, <3>1, SettleStep
  <2> QED
    BY <1>8, <2>2, <2>3 DEF Reserve, Settle, CommitAnswerLost
<1> QED
  BY <1>1, <1>2, <1>3, <1>4, <1>5, <1>6, <1>7, <1>8 DEF Next, Start, Progress

-----------------------------------------------------------------------------
(* Theorems about rows, outbox and answers *)

\* The reservation invariant holds in every reachable state, for any number of
\* transactions and requests, racing or not.
THEOREM ReservationInvariant == Spec => []ReservationInv
<1> DEFINE Inv == TypeInv /\ Protocol
<1>1. Init => Inv
  BY TypeInvInit, ProtocolInit
<1>2. Inv /\ [Next]_vars => Inv'
  BY TypeInvStep, ProtocolStep DEF TypeInv
<1>3. Inv => ReservationInv
  BY DEF TypeInv, Protocol, ReservationInv
<1> QED
  BY <1>1, <1>2, <1>3, PTL DEF Spec

\* COMPLETED is only said of a transaction that was charged, and a reference on
\* the row is that of one of its captures, however racing saves mix the columns.
THEOREM CompletedWasCharged == Spec => []CompletedIsCharged
<1>1. ReservationInv => CompletedIsCharged
  BY DEF ReservationInv
<1> QED
  BY <1>1, ReservationInvariant, PTL

\* The outbox is the exact history of every row that one request alone has
\* reserved, whatever queries fail and whichever commits lose their answer.
THEOREM OutboxIsHistory == Spec => []OutboxTellsTheStory
<1>1. ReservationInv => OutboxTellsTheStory
  BY DEF ReservationInv
<1> QED
  BY <1>1, ReservationInvariant, PTL

\* What a client was told with a 200 stays true, unless two requests reserved
\* the transaction.
THEOREM AnswersStayTrue == Spec => []AnswerIsDurable
<1>1. ReservationInv => AnswerIsDurable
  BY DEF ReservationInv
<1> QED
  BY <1>1, ReservationInvariant, PTL

-----------------------------------------------------------------------------
(* Processing implements ReservedCharges *)

\* The requests that have found t pending and may still reserve it
RacingOf(t) == {r \in Requests : Reserving(r) /\ target[r] = t}

\* A step that changes no status, no race, no reservation and no capture is a
\* stutter of ReservedCharges.
LEMMA Stutters ==
  ASSUME \A t \in Transactions :
           /\ rows'[t].status = rows[t].status
           /\ RacingOf(t)' = RacingOf(t)
           /\ ReservationsOf(t)' = ReservationsOf(t)
           /\ ChargesOf(t)' = ChargesOf(t)
  PROVE  UNCHANGED Ideal!abstractVars
  BY DEF Ideal!abstractVars, RacingOf

\* Whoever holds a reservation has loaded its transaction and keeps it.
LEMMA ReservedKnows ==
  ASSUME ReservationInv, NEW r \in Requests, pc[r] = "idle"
  PROVE  r \notin reserved /\ r \notin charged /\ ~ Reserving(r)
  BY DEF ReservationInv, RequestShapes, RequestShape, Reserving

\* The steps of a request that touch no row and no capture, and neither begin
\* nor end its race.
LEMMA OwnStepStutters ==
  ASSUME ReservationInv, NEW r \in Requests, UNCHANGED <<rows, charged, reserved>>,
         \A q \in Requests : q # r => pc'[q] = pc[q] /\ target'[q] = target[q],
         \/ target'[r] = target[r] /\ (Reserving(r)' <=> Reserving(r))
         \/ pc[r] = "idle" /\ ~ Reserving(r)'
  PROVE  UNCHANGED Ideal!abstractVars
<1>1. reserved \in SUBSET Requests /\ charged \in SUBSET Requests
  BY DEF ReservationInv, TypeOK
<1>2. pc[r] = "idle" => r \notin reserved /\ r \notin charged /\ ~ Reserving(r)
  BY ReservedKnows
<1>3. \A t \in Transactions : RacingOf(t)' = RacingOf(t)
  BY <1>2 DEF RacingOf, Reserving
<1>4. \A t \in Transactions : ReservationsOf(t)' = ReservationsOf(t)
  BY <1>1, <1>2 DEF ReservationsOf
<1>5. \A t \in Transactions : ChargesOf(t)' = ChargesOf(t)
  BY <1>1, <1>2 DEF ChargesOf
<1> QED
  BY <1>3, <1>4, <1>5, Stutters

\* Creating a transaction opens it.
LEMMA CreateOpens ==
  ASSUME ReservationInv, NEW t \in Transactions, Create(t)
  PROVE  Ideal!Open(t)
<1>1. /\ rows[t].status = "ABSENT"
      /\ rows' = [rows EXCEPT ![t] = NewRow]
      /\ UNCHANGED <<charged, reserved, pc, target>>
  BY StageFields DEF Create
<1>2. [u \in Transactions |-> rows[u].status]' =
        [[u \in Transactions |-> rows[u].status] EXCEPT ![t] = "PENDING"]
  BY <1>1, StageFields DEF ReservationInv, TypeOK
<1>3. UNCHANGED <<[u \in Transactions |-> {r \in Requests : Reserving(r) /\ target[r] = u}],
                  [u \in Transactions |-> ReservationsOf(u)],
                  [u \in Transactions |-> ChargesOf(u)]>>
  BY <1>1 DEF Reserving, ReservationsOf, ChargesOf
<1> QED
  BY <1>1, <1>2, <1>3 DEF Ideal!Open

\* Loading a pending row is an attempt.
LEMMA LoadAttempts ==
  ASSUME ReservationInv, NEW r \in Requests, NEW t \in Transactions, Load(r, t)
  PROVE  Ideal!Attempt(t, r)
<1>1. /\ pc[r] = "idle" /\ UNCHANGED <<rows, charged, reserved>>
      /\ pc'[r] = "reserve select" /\ target'[r] = t
      /\ \A q \in Requests : q # r => pc'[q] = pc[q] /\ target'[q] = target[q]
  BY DEF Load, ReservationInv, TypeOK
<1>2. rows[t].status = "PENDING"
  BY DEF Load, IsValidTransition, ValidTransitions, Statuses
<1>3. r \notin reserved /\ r \notin charged /\ ~ Reserving(r)
  BY <1>1, ReservedKnows
<1>4. reserved \in SUBSET Requests /\ charged \in SUBSET Requests
  BY DEF ReservationInv, TypeOK
<1>5. \A u \in Transactions :
        /\ RacingOf(u)' = IF u = t THEN RacingOf(u) \cup {r} ELSE RacingOf(u)
        /\ ReservationsOf(u)' = ReservationsOf(u)
        /\ ChargesOf(u)' = ChargesOf(u)
  <2> SUFFICES ASSUME NEW u \in Transactions
               PROVE  /\ RacingOf(u)' = IF u = t THEN RacingOf(u) \cup {r} ELSE RacingOf(u)
                      /\ ReservationsOf(u)' = ReservationsOf(u)
                      /\ ChargesOf(u)' = ChargesOf(u)
    OBVIOUS
  <2>1. RacingOf(u)' = IF u = t THEN RacingOf(u) \cup {r} ELSE RacingOf(u)
    BY <1>1, <1>3 DEF RacingOf, Reserving
  <2>2. ReservationsOf(u)' = ReservationsOf(u) /\ ChargesOf(u)' = ChargesOf(u)
    BY <1>1, <1>3, <1>4 DEF ReservationsOf, ChargesOf
  <2> QED
    BY <2>1, <2>2
<1>6. [u \in Transactions |-> {q \in Requests : Reserving(q) /\ target[q] = u}]' =
        [[u \in Transactions |-> {q \in Requests : Reserving(q) /\ target[q] = u}]
           EXCEPT ![t] = @ \cup {r}]
  BY <1>5 DEF RacingOf
<1>7. UNCHANGED <<[u \in Transactions |-> rows[u].status],
                  [u \in Transactions |-> ReservationsOf(u)],
                  [u \in Transactions |-> ChargesOf(u)]>>
  BY <1>1, <1>5
<1> QED
  BY <1>2, <1>6, <1>7 DEF Ideal!Attempt

\* A request that ends before it has reserved gives up.
LEMMA EndGivesUp ==
  ASSUME ReservationInv, NEW r \in Requests, Reserving(r), ~ Reserving(r)',
         UNCHANGED <<rows, charged, reserved, target>>,
         \A q \in Requests : q # r => pc'[q] = pc[q],
         NEW t, t = target[r]
  PROVE  t \in Transactions /\ Ideal!GiveUp(t, r)
<1>1. t \in Transactions
  BY DEF ReservationInv, RequestShapes, RequestShape
<1>2. \A u \in Transactions :
        RacingOf(u)' = IF u = t THEN RacingOf(u) \ {r} ELSE RacingOf(u)
  BY DEF RacingOf, Reserving
<1>3. [u \in Transactions |-> {q \in Requests : Reserving(q) /\ target[q] = u}]' =
        [[u \in Transactions |-> {q \in Requests : Reserving(q) /\ target[q] = u}]
           EXCEPT ![t] = @ \ {r}]
  BY <1>1, <1>2, ZenonT(60) DEF RacingOf
<1>4. UNCHANGED <<[u \in Transactions |-> rows[u].status],
                  [u \in Transactions |-> ReservationsOf(u)],
                  [u \in Transactions |-> ChargesOf(u)]>>
  BY DEF ReservationsOf, ChargesOf
<1> QED
  BY <1>1, <1>3, <1>4 DEF Ideal!GiveUp

\* What a commit does to statuses.
LEMMA CommitStatus ==
  ASSUME ReservationInv, NEW r \in Requests, Saving(r), NEW type, CommitSave(r, type),
         NEW t, t = target[r]
  PROVE  /\ t \in Transactions
         /\ [u \in Transactions |-> rows[u].status]' =
              [[u \in Transactions |-> rows[u].status] EXCEPT ![t] = rows'[t].status]
         /\ rows'[t].status \in {rows[t].status, mem[r].status}
         /\ charged' = charged /\ target' = target
<1>1. TypeOK /\ Protocol
  BY DEF ReservationInv, Protocol
<1>2. Saved(r, type, t)
  BY <1>1, CommitSaveRow
<1> QED
  BY <1>2 DEF Saved

\* Committing the first save reserves, also when the answer is lost.
LEMMA ReserveReserves ==
  ASSUME ReservationInv, ReservationInv', NEW r \in Requests, CommitReservation(r),
         pc'[r] \in {"charging", "done"},
         \A q \in Requests : q # r => pc'[q] = pc[q],
         NEW t, t = target[r]
  PROVE  t \in Transactions /\ Ideal!Reserve(t, r)
<1>1. pc[r] = "reserve write" /\ reserved' = reserved \cup {r} /\ Saving(r)
  BY DEF CommitReservation, Saving
<1>2. PICK type : type = "Processing" /\ CommitSave(r, type)
  BY DEF CommitReservation
<1>3. /\ t \in Transactions
      /\ [u \in Transactions |-> rows[u].status]' =
           [[u \in Transactions |-> rows[u].status] EXCEPT ![t] = rows'[t].status]
      /\ rows'[t].status \in {rows[t].status, mem[r].status}
      /\ charged' = charged /\ target' = target
  BY <1>1, <1>2, CommitStatus
<1>4. /\ r \in RacingOf(t) /\ mem[r].status = "PROCESSING"
      /\ ~ Reserving(r)'
  BY <1>1, StageFields DEF ReservationInv, RequestShapes, RequestShape, Reserving, RacingOf
<1>5. \A u \in Transactions :
        /\ RacingOf(u)' = IF u = t THEN RacingOf(u) \ {r} ELSE RacingOf(u)
        /\ ReservationsOf(u)' = IF u = t THEN ReservationsOf(u) \cup {r} ELSE ReservationsOf(u)
  <2> SUFFICES ASSUME NEW u \in Transactions
      PROVE /\ RacingOf(u)' = IF u = t THEN RacingOf(u) \ {r} ELSE RacingOf(u)
            /\ ReservationsOf(u)' = IF u = t THEN ReservationsOf(u) \cup {r} ELSE ReservationsOf(u)
    OBVIOUS
  <2>1. RacingOf(u)' = IF u = t THEN RacingOf(u) \ {r} ELSE RacingOf(u)
    BY <1>3, <1>4 DEF RacingOf, Reserving
  <2>2. ReservationsOf(u)' = IF u = t THEN ReservationsOf(u) \cup {r} ELSE ReservationsOf(u)
    BY <1>1, <1>3 DEF ReservationsOf
  <2> QED
    BY <2>1, <2>2
<1>6. [u \in Transactions |-> {q \in Requests : Reserving(q) /\ target[q] = u}]' =
        [[u \in Transactions |-> {q \in Requests : Reserving(q) /\ target[q] = u}]
           EXCEPT ![t] = @ \ {r}]
  <2>1. t \in Transactions
    BY <1>3
  <2>2. \A u \in Transactions :
          RacingOf(u)' = IF u = t THEN RacingOf(u) \ {r} ELSE RacingOf(u)
    BY <1>5
  <2> QED
    BY <2>1, <2>2, ZenonT(60) DEF RacingOf
<1>7. [u \in Transactions |-> ReservationsOf(u)]' =
        [[u \in Transactions |-> ReservationsOf(u)] EXCEPT ![t] = @ \cup {r}]
  BY <1>3, <1>5
<1>8. UNCHANGED [u \in Transactions |-> ChargesOf(u)]
  BY <1>3 DEF ChargesOf
<1>9. \/ rows'[t].status = "PROCESSING"
      \/ rows[t].status # "PENDING" /\ rows'[t].status = rows[t].status
  <2>1. rows'[t].status # "PENDING"
    <3>1. ReservationsOf(t)' # {}
      BY <1>3, <1>5
    <3> QED
      BY <1>3, <3>1 DEF ReservationInv, RowShapes
  <2> QED
    BY <1>3, <1>4, <2>1
<1>10. r \in [u \in Transactions |-> {q \in Requests : Reserving(q) /\ target[q] = u}][t]
  BY <1>3, <1>4 DEF RacingOf
<1>11. \/ [u \in Transactions |-> rows[u].status]' =
            [[u \in Transactions |-> rows[u].status] EXCEPT ![t] = "PROCESSING"]
       \/ /\ [u \in Transactions |-> rows[u].status][t] # "PENDING"
          /\ UNCHANGED [u \in Transactions |-> rows[u].status]
  BY <1>3, <1>9
<1> QED
  BY <1>3, <1>6, <1>7, <1>8, <1>10, <1>11 DEF Ideal!Reserve

\* A request that holds a reservation may capture and settle.
LEMMA HoldersMaySettle ==
  ASSUME ReservationInv, NEW r \in Requests, pc[r] = "charging" \/ Settling(r),
         NEW t, t = target[r]
  PROVE  t \in Transactions /\ Ideal!MaySettle(t, r)
<1>1. RequestShape(r)
  BY DEF ReservationInv, RequestShapes
<1>2. t \in Transactions /\ r \in ReservationsOf(t)
  BY <1>1 DEF RequestShape, ReservationsOf
<1>3. ReservationsOf(t) = {r} => rows[t].status = "PROCESSING"
  BY <1>1, StageFields DEF RequestShape, Sole
<1> QED
  BY <1>2, <1>3 DEF Ideal!MaySettle

\* A capture by the gateway is a capture.
LEMMA CaptureCaptures ==
  ASSUME ReservationInv, NEW r \in Requests, pc[r] = "charging",
         pc'[r] = "settle select", \A q \in Requests : q # r => pc'[q] = pc[q],
         charged' = charged \cup {r}, UNCHANGED <<rows, reserved, target>>,
         NEW t, t = target[r]
  PROVE  t \in Transactions /\ Ideal!Capture(t, r)
<1>1. t \in Transactions /\ Ideal!MaySettle(t, r)
  BY HoldersMaySettle
<1>2. r \notin ChargesOf(t)
  BY DEF ReservationInv, RequestShapes, RequestShape, ChargesOf
<1>3. \A u \in Transactions :
        ChargesOf(u)' = IF u = t THEN ChargesOf(u) \cup {r} ELSE ChargesOf(u)
  BY DEF ChargesOf
<1>4. [u \in Transactions |-> ChargesOf(u)]' =
        [[u \in Transactions |-> ChargesOf(u)] EXCEPT ![t] = @ \cup {r}]
  BY <1>1, <1>3
<1>5. UNCHANGED <<[u \in Transactions |-> rows[u].status],
                  [u \in Transactions |-> {q \in Requests : Reserving(q) /\ target[q] = u}],
                  [u \in Transactions |-> ReservationsOf(u)]>>
  BY DEF Reserving, ReservationsOf
<1> QED
  BY <1>1, <1>2, <1>4, <1>5 DEF Ideal!Capture

\* Committing the second save settles, or leaves the status that another
\* request in the race has written.
LEMMA SettleSettles ==
  ASSUME ReservationInv, NEW r \in Requests, CommitSettlement(r), pc'[r] = "done",
         \A q \in Requests : q # r => pc'[q] = pc[q]
  PROVE  Ideal!AbstractNext \/ UNCHANGED Ideal!abstractVars
<1>1. pc[r] = "settle write" /\ reserved' = reserved /\ Saving(r) /\ Settling(r)
  BY DEF CommitSettlement, Saving, Settling
<1>2. PICK type : type = "Processed" /\ CommitSave(r, type)
  BY DEF CommitSettlement
<1>3. PICK t : t = target[r]
  OBVIOUS
<1>4. /\ t \in Transactions
      /\ [u \in Transactions |-> rows[u].status]' =
           [[u \in Transactions |-> rows[u].status] EXCEPT ![t] = rows'[t].status]
      /\ rows'[t].status \in {rows[t].status, mem[r].status}
      /\ charged' = charged /\ target' = target
  BY <1>1, <1>2, <1>3, CommitStatus
<1>5. Ideal!MaySettle(t, r)
  BY <1>1, <1>3, HoldersMaySettle
<1>6. /\ mem[r].status \in {"COMPLETED", "FAILED"}
      /\ mem[r].status = "COMPLETED" => r \in ChargesOf(t)
  <2>1. SettledBy(r, mem[r])
    BY <1>1 DEF ReservationInv, RequestShapes, RequestShape
  <2> QED
    BY <1>3, <2>1, SettledFields DEF ChargesOf
<1>7. /\ \A u \in Transactions : RacingOf(u)' = RacingOf(u)
      /\ \A u \in Transactions : ReservationsOf(u)' = ReservationsOf(u)
      /\ \A u \in Transactions : ChargesOf(u)' = ChargesOf(u)
  BY <1>1, <1>4 DEF RacingOf, Reserving, ReservationsOf, ChargesOf
<1>8. UNCHANGED <<[u \in Transactions |-> {q \in Requests : Reserving(q) /\ target[q] = u}],
                  [u \in Transactions |-> ReservationsOf(u)],
                  [u \in Transactions |-> ChargesOf(u)]>>
  BY <1>7 DEF RacingOf
<1>9. CASE rows'[t].status = mem[r].status
  <2>1. PICK outcome \in {"COMPLETED", "FAILED"} : outcome = mem[r].status
    BY <1>6
  <2>2. outcome = "COMPLETED" => r \in [u \in Transactions |-> ChargesOf(u)][t]
    BY <1>4, <1>6, <2>1
  <2>3. [u \in Transactions |-> rows[u].status]' =
          [[u \in Transactions |-> rows[u].status] EXCEPT ![t] = outcome]
    BY <1>4, <1>9, <2>1
  <2>4. Ideal!Settle(t, r, outcome)
    BY <1>5, <1>8, <2>2, <2>3 DEF Ideal!Settle
  <2> QED
    BY <1>4, <2>4 DEF Ideal!AbstractNext
<1>10. CASE rows'[t].status = rows[t].status
  <2>1. UNCHANGED [u \in Transactions |-> rows[u].status]
    BY <1>4, <1>10
  <2> QED
    BY <1>8, <2>1 DEF Ideal!abstractVars
<1> QED
  BY <1>4, <1>9, <1>10

\* Every step of the handlers is a step of ReservedCharges, or a stutter.
LEMMA IdealStep ==
  ASSUME ReservationInv, ReservationInv', [Next]_vars
  PROVE  [Ideal!AbstractNext]_(Ideal!abstractVars)
<1> DEFINE Stutter == UNCHANGED Ideal!abstractVars
<1>0. TypeOK
  BY DEF ReservationInv
<1>1. ASSUME NEW t \in Transactions, Create(t) PROVE Ideal!AbstractNext
  BY <1>1, CreateOpens DEF Ideal!AbstractNext
<1>2. ASSUME NEW r \in Requests, NEW t \in Transactions,
             NotFound(r, t) \/ RejectTransition(r, t)
      PROVE  Stutter
  <2>1. /\ pc[r] = "idle" /\ UNCHANGED <<rows, charged, reserved>>
        /\ ~ Reserving(r)'
        /\ \A q \in Requests : q # r => pc'[q] = pc[q] /\ target'[q] = target[q]
    BY <1>0, <1>2 DEF NotFound, RejectTransition, Respond, Reserving, TypeOK
  <2> QED
    BY <2>1, OwnStepStutters
<1>3. ASSUME NEW r \in Requests, NEW t \in Transactions, Load(r, t)
      PROVE  Ideal!AbstractNext
  BY <1>3, LoadAttempts DEF Ideal!AbstractNext
<1>4. ASSUME NEW r \in Requests, SelectForSave(r) \/ Decline(r) PROVE Stutter
  <2>1. /\ UNCHANGED <<rows, charged, reserved, target>>
        /\ Reserving(r)' <=> Reserving(r)
        /\ \A q \in Requests : q # r => pc'[q] = pc[q]
    BY <1>0, <1>4 DEF SelectForSave, Decline, Reserving, TypeOK
  <2> QED
    BY <2>1, OwnStepStutters
<1>5. ASSUME NEW r \in Requests, DatabaseFails(r) \/ Crash(r)
      PROVE  Ideal!AbstractNext \/ Stutter
  <2>1. /\ UNCHANGED <<rows, charged, reserved, target>>
        /\ ~ Reserving(r)'
        /\ \A q \in Requests : q # r => pc'[q] = pc[q]
    BY <1>0, <1>5 DEF DatabaseFails, Crash, Respond, Reserving, TypeOK
  <2>2. CASE Reserving(r)
    <3>1. PICK t : t = target[r]
      OBVIOUS
    <3>2. t \in Transactions /\ Ideal!GiveUp(t, r)
      BY <2>1, <2>2, <3>1, EndGivesUp
    <3> QED
      BY <3>2 DEF Ideal!AbstractNext
  <2>3. CASE ~ Reserving(r)
    BY <2>1, <2>3, OwnStepStutters
  <2> QED
    BY <2>2, <2>3
<1>6. ASSUME NEW r \in Requests,
             (\E id \in {r, NoExternalId} : Approve(r, id)) \/ GatewayThrows(r)
      PROVE  Ideal!AbstractNext \/ Stutter
  <2>1. /\ UNCHANGED <<rows, reserved, target>>
        /\ pc[r] = "charging" /\ pc'[r] = "settle select"
        /\ \A q \in Requests : q # r => pc'[q] = pc[q]
        /\ charged' \in {charged, charged \cup {r}}
    BY <1>0, <1>6 DEF Approve, GatewayThrows, TypeOK
  <2>2. CASE charged' = charged
    <3>1. Reserving(r)' <=> Reserving(r)
      BY <2>1 DEF Reserving
    <3> QED
      BY <2>1, <2>2, <3>1, OwnStepStutters
  <2>3. CASE charged' = charged \cup {r}
    <3>1. PICK t : t = target[r]
      OBVIOUS
    <3>2. t \in Transactions /\ Ideal!Capture(t, r)
      BY <2>1, <2>3, <3>1, CaptureCaptures
    <3> QED
      BY <3>2 DEF Ideal!AbstractNext
  <2> QED
    BY <2>1, <2>2, <2>3
<1>7. ASSUME NEW r \in Requests, Reserve(r) \/ Settle(r) \/ CommitAnswerLost(r)
      PROVE  Ideal!AbstractNext \/ Stutter
  <2>1. /\ \A q \in Requests : q # r => pc'[q] = pc[q]
        /\ CommitReservation(r) => pc'[r] \in {"charging", "done"}
        /\ CommitSettlement(r) => pc'[r] = "done"
        /\ CommitReservation(r) \/ CommitSettlement(r)
    BY <1>0, <1>7 DEF Reserve, Settle, CommitAnswerLost, CommitReservation,
                      CommitSettlement, Respond, TypeOK
  <2>2. CASE CommitReservation(r)
    <3>1. PICK t : t = target[r]
      OBVIOUS
    <3>2. t \in Transactions /\ Ideal!Reserve(t, r)
      BY <2>1, <2>2, <3>1, ReserveReserves
    <3> QED
      BY <3>2 DEF Ideal!AbstractNext
  <2>3. CASE CommitSettlement(r)
    BY <2>1, <2>3, SettleSettles
  <2> QED
    BY <2>1, <2>2, <2>3
<1>8. CASE UNCHANGED vars
  <2>1. UNCHANGED <<rows, charged, reserved, pc, target>>
    BY <1>8 DEF vars
  <2>2. \A t \in Transactions :
          /\ rows'[t].status = rows[t].status /\ RacingOf(t)' = RacingOf(t)
          /\ ReservationsOf(t)' = ReservationsOf(t) /\ ChargesOf(t)' = ChargesOf(t)
    BY <2>1 DEF RacingOf, Reserving, ReservationsOf, ChargesOf
  <2>3. Stutter
    BY <2>2, Stutters
  <2> QED
    BY <2>3
<1> QED
  BY <1>1, <1>2, <1>3, <1>4, <1>5, <1>6, <1>7, <1>8 DEF Next, Start, Progress

\* The two handlers implement ReservedCharges for any number of transactions
\* and racing requests: whoever captures has reserved, each request captures
\* once, one that reserved alone settles for good, and a transaction is only
\* raced for by requests that found it pending.
THEOREM Implements == Spec => IdealSpec
<1>1. Init => Ideal!AbstractInit
  BY StageFields
  DEF Init, Ideal!AbstractInit, ChargesOf, ReservationsOf, Reserving
<1>2. ReservationInv /\ ReservationInv' /\ [Next]_vars
        => [Ideal!AbstractNext]_(Ideal!abstractVars)
  BY IdealStep
<1>3. Spec => []ReservationInv
  BY ReservationInvariant
<1> QED
  BY <1>1, <1>2, <1>3, PTL DEF Spec, IdealSpec, Ideal!AbstractSpec


-----------------------------------------------------------------------------
(* Reservations are kept *)

Stays == \A q \in reserved : q \in reserved' /\ target'[q] = target[q]

\* No step takes a reservation back or moves it to another transaction.
LEMMA ReservedStays ==
  ASSUME ReservationInv, [Next]_vars
  PROVE  Stays
<1>0. TypeOK
  BY DEF ReservationInv
<1>1. CASE UNCHANGED vars
  BY <1>1 DEF vars, Stays
<1>2. ASSUME NEW t \in Transactions, Create(t) PROVE Stays
  BY <1>2 DEF Create, Stays
<1>3. ASSUME NEW r \in Requests, Start(r) PROVE Stays
  <2>1. /\ pc[r] = "idle" /\ reserved' = reserved
        /\ \A q \in Requests : q # r => target'[q] = target[q]
    BY <1>0, <1>3 DEF Start, NotFound, RejectTransition, Load, TypeOK
  <2> QED
    BY <1>0, <2>1, ReservedKnows DEF Stays, TypeOK
<1>4. ASSUME NEW r \in Requests,
             Progress(r) \/ DatabaseFails(r) \/ CommitAnswerLost(r) \/ Crash(r)
      PROVE  Stays
  <2>1. target' = target /\ reserved \subseteq reserved'
    BY <1>4 DEF Progress, SelectForSave, Reserve, Approve, Decline, GatewayThrows,
                Settle, DatabaseFails, CommitAnswerLost, Crash, CommitReservation,
                CommitSettlement, CommitSave
  <2> QED
    BY <2>1 DEF Stays
<1> QED
  BY <1>1, <1>2, <1>3, <1>4 DEF Next

\* The reservations of a transaction only grow.
LEMMA ReservationsGrow ==
  ASSUME Stays, TypeOK, NEW t \in Transactions
  PROVE  ReservationsOf(t) \subseteq ReservationsOf(t)'
  BY DEF Stays, ReservationsOf

-----------------------------------------------------------------------------
(* Conflicts *)

\* A request refused with 409 met a transaction that somebody had reserved.
ConflictInv ==
  \A r \in Requests :
    answer[r] = "409" =>
      /\ pc[r] = "done"
      /\ target[r] \in Transactions
      /\ ReservationsOf(target[r]) # {}

\* What a step does to an answer: it stands, or it is the first one.
LEMMA Answering ==
  ASSUME TypeOK, [Next]_vars, NEW r \in Requests, answer'[r] = "409"
  PROVE  \/ /\ answer[r] = "409"
            /\ pc[r] = "done" => pc'[r] = "done" /\ target'[r] = target[r]
         \/ \E t \in Transactions : RejectTransition(r, t)
<1>1. CASE UNCHANGED vars
  BY <1>1 DEF vars
<1>2. ASSUME NEW t \in Transactions, Create(t) PROVE UNCHANGED <<answer, pc, target>>
  BY <1>2 DEF Create
<1>3. ASSUME NEW q \in Requests, NEW t \in Transactions, RejectTransition(q, t)
      PROVE  q = r \/ (answer'[r] = answer[r] /\ pc'[r] = pc[r] /\ target'[r] = target[r])
  <2>1. /\ pc' = [pc EXCEPT ![q] = "done"] /\ answer' = [answer EXCEPT ![q] = "409"]
        /\ target' = [target EXCEPT ![q] = t]
    BY <1>3 DEF RejectTransition, Respond
  <2>2. /\ pc \in [Requests -> Locations] /\ answer \in [Requests -> Answers]
        /\ target \in [Requests -> Transactions \cup {NoTransaction}]
    BY DEF TypeOK
  <2> QED
    BY <2>1, <2>2
<1>4. ASSUME NEW q \in Requests,
             \/ \E t \in Transactions : NotFound(q, t) \/ Load(q, t)
             \/ Progress(q) \/ DatabaseFails(q) \/ CommitAnswerLost(q) \/ Crash(q)
      PROVE  /\ pc[q] # "done"
             /\ answer'[q] \in {answer[q], "404", "500", "200"}
             /\ \A p \in Requests : p # q => /\ answer'[p] = answer[p]
                                             /\ pc'[p] = pc[p]
                                             /\ target'[p] = target[p]
  <2>1. CASE \E t \in Transactions : NotFound(q, t) \/ Load(q, t)
    BY <2>1 DEF NotFound, Load, Respond, TypeOK
  <2>2. CASE SelectForSave(q) \/ Decline(q) \/ GatewayThrows(q)
             \/ \E id \in {q, NoExternalId} : Approve(q, id)
    BY <2>2 DEF SelectForSave, Decline, GatewayThrows, Approve, TypeOK
  <2>3. CASE Reserve(q) \/ Settle(q) \/ CommitAnswerLost(q)
    BY <2>3 DEF Reserve, Settle, CommitAnswerLost, CommitReservation,
                CommitSettlement, CommitSave, Respond, TypeOK
  <2>4. CASE DatabaseFails(q) \/ Crash(q)
    BY <2>4 DEF DatabaseFails, Crash, Respond, TypeOK
  <2> QED
    BY <1>4, <2>1, <2>2, <2>3, <2>4 DEF Progress
<1>5. ASSUME NEW q \in Requests,
             Start(q) \/ Progress(q) \/ DatabaseFails(q) \/ CommitAnswerLost(q) \/ Crash(q)
      PROVE  \/ answer[r] = "409"
                  /\ (pc[r] = "done" => pc'[r] = "done" /\ target'[r] = target[r])
             \/ \E t \in Transactions : RejectTransition(r, t)
  <2>1. CASE \E t \in Transactions : RejectTransition(q, t)
    BY <1>3, <2>1
  <2>2. CASE \/ \E t \in Transactions : NotFound(q, t) \/ Load(q, t)
             \/ Progress(q) \/ DatabaseFails(q) \/ CommitAnswerLost(q) \/ Crash(q)
    BY <1>4, <2>2
  <2> QED
    BY <1>5, <2>1, <2>2 DEF Start
<1> QED
  BY <1>1, <1>2, <1>5 DEF Next

\* Every step keeps the reasons of the conflicts.
LEMMA ConflictStep ==
  ASSUME ReservationInv, ConflictInv, [Next]_vars
  PROVE  ConflictInv'
<1>0. TypeOK /\ Stays
  BY ReservedStays DEF ReservationInv
<1> SUFFICES ASSUME NEW r \in Requests, answer'[r] = "409"
             PROVE  /\ pc'[r] = "done" /\ target'[r] \in Transactions
                    /\ ReservationsOf(target[r])' # {}
  BY DEF ConflictInv
<1>1. CASE answer[r] = "409"
           /\ (pc[r] = "done" => pc'[r] = "done" /\ target'[r] = target[r])
  <2>1. /\ pc'[r] = "done" /\ target'[r] = target[r] /\ target[r] \in Transactions
        /\ ReservationsOf(target[r]) # {}
    BY <1>1 DEF ConflictInv
  <2>2. \A t \in Transactions : ReservationsOf(t) \subseteq ReservationsOf(t)'
    BY <1>0, ReservationsGrow
  <2>3. PICK q \in ReservationsOf(target[r]) : TRUE
    BY <2>1
  <2>4. q \in ReservationsOf(target[r])'
    BY <1>0, <2>1, <2>3 DEF ReservationsOf, Stays
  <2> QED
    BY <2>1, <2>4
<1>2. ASSUME NEW t \in Transactions, RejectTransition(r, t)
      PROVE  /\ pc'[r] = "done" /\ target'[r] \in Transactions
             /\ ReservationsOf(target[r])' # {}
  <2>1. /\ pc[r] = "idle" /\ pc'[r] = "done" /\ target'[r] = t
        /\ rows[t] \notin {NoRow, NewRow}
    BY <1>0, <1>2, StageFields
    DEF RejectTransition, Respond, TypeOK, IsValidTransition, ValidTransitions, Statuses
  <2>2. PICK q \in ReservationsOf(t) : TRUE
    BY <2>1 DEF ReservationInv, RowShapes
  <2>3. q \in reserved /\ q \in reserved' /\ target'[q] = t
    BY <1>0, <2>2 DEF ReservationsOf, Stays
  <2>4. q \in ReservationsOf(target[r])'
    BY <2>1, <2>3 DEF ReservationsOf
  <2> QED
    BY <2>1, <2>4
<1> QED
  BY <1>0, <1>1, <1>2, Answering

\* A 409 is never spurious, whatever the other requests, the database and the
\* gateway do: the row it speaks of has left PENDING, and never comes back.
THEOREM ConflictsAreReal == Spec => []NoSpuriousConflict
<1>1. Init => ConflictInv
  BY DEF Init, ConflictInv
<1>2. ReservationInv /\ ConflictInv /\ [Next]_vars => ConflictInv'
  BY ConflictStep
<1>3. ReservationInv /\ ConflictInv => NoSpuriousConflict
  BY DEF ReservationInv, RowShapes, ConflictInv, NoSpuriousConflict
<1> QED
  BY <1>1, <1>2, <1>3, ReservationInvariant, PTL DEF Spec

-----------------------------------------------------------------------------
(* Announcements *)

\* Every reservation has an announcement of its own in the outbox.
AnnouncedInv ==
  \A t \in Transactions :
    /\ IsFiniteSet(ReservationsOf(t))
    /\ Cardinality(ReservationsOf(t)) <= Cardinality(EventsOf(t, "Processing"))

\* The events of an outbox are finitely many.
LEMMA EventsFinite ==
  ASSUME TypeOK, NEW t \in Transactions, NEW type
  PROVE  /\ IsFiniteSet(EventsOf(t, type))
         /\ Cardinality(EventsOf(t, type)) \in Nat
<1>1. Len(log[t]) \in Nat /\ DOMAIN log[t] = 1 .. Len(log[t])
  BY DEF TypeOK
<1>2. IsFiniteSet(1 .. Len(log[t]))
  BY <1>1, FS_Interval
<1>3. EventsOf(t, type) \in SUBSET (1 .. Len(log[t]))
  BY <1>1 DEF EventsOf
<1> QED
  BY <1>2, <1>3, FS_Subset, FS_CardinalityType

\* An appended event is one more of its type, and takes none away.
LEMMA EventAppended ==
  ASSUME TypeOK, TypeOK', NEW t \in Transactions, NEW e \in Events,
         log'[t] = Append(log[t], e)
  PROVE  \A type : Cardinality(EventsOf(t, type)') =
                     IF e.type = type THEN Cardinality(EventsOf(t, type)) + 1
                                      ELSE Cardinality(EventsOf(t, type))
<1> SUFFICES ASSUME NEW type
             PROVE  Cardinality(EventsOf(t, type)') =
                      IF e.type = type THEN Cardinality(EventsOf(t, type)) + 1
                                       ELSE Cardinality(EventsOf(t, type))
  OBVIOUS
<1> DEFINE n == Len(log[t])
<1>1. /\ n \in Nat /\ DOMAIN log[t] = 1 .. n
      /\ DOMAIN log'[t] = 1 .. (n + 1)
      /\ \A i \in 1 .. n : log'[t][i] = log[t][i]
      /\ log'[t][n + 1] = e
  BY DEF TypeOK
<1>2. CASE e.type = type
  <2>1. EventsOf(t, type)' = EventsOf(t, type) \cup {n + 1}
    BY <1>1, <1>2 DEF EventsOf
  <2>2. n + 1 \notin EventsOf(t, type)
    BY <1>1 DEF EventsOf
  <2> QED
    BY <1>2, <2>1, <2>2, EventsFinite, FS_AddElement
<1>3. CASE e.type # type
  <2>1. EventsOf(t, type)' = EventsOf(t, type)
    BY <1>1, <1>3 DEF EventsOf
  <2> QED
    BY <1>3, <2>1
<1> QED
  BY <1>2, <1>3

\* A step that appends at most an event of another type, and reserves nothing.
LEMMA NothingReserved ==
  ASSUME ReservationInv, ReservationInv', AnnouncedInv, Stays, reserved' = reserved,
         NEW t \in Transactions,
         \/ log'[t] = log[t]
         \/ \E e \in Events : e.type # "Processing" /\ log'[t] = Append(log[t], e)
  PROVE  /\ IsFiniteSet(ReservationsOf(t)')
         /\ Cardinality(ReservationsOf(t)') <= Cardinality(EventsOf(t, "Processing")')
<1>1. ReservationsOf(t)' = ReservationsOf(t)
  BY DEF Stays, ReservationsOf
<1>2. TypeOK /\ TypeOK'
  BY DEF ReservationInv
<1>3. Cardinality(EventsOf(t, "Processing")') = Cardinality(EventsOf(t, "Processing"))
  <2>1. CASE log'[t] = log[t]
    <3>1. EventsOf(t, "Processing")' = EventsOf(t, "Processing")
      BY <2>1 DEF EventsOf
    <3> QED
      BY <3>1
  <2>2. CASE \E e \in Events : e.type # "Processing" /\ log'[t] = Append(log[t], e)
    BY <1>2, <2>2, EventAppended
  <2> QED
    BY <2>1, <2>2
<1> QED
  BY <1>1, <1>3 DEF AnnouncedInv

\* A committed first save gives its request the event that announces it.
LEMMA ReserveAnnounces ==
  ASSUME ReservationInv, ReservationInv', AnnouncedInv, Stays,
         NEW r \in Requests, CommitReservation(r), NEW t \in Transactions
  PROVE  /\ IsFiniteSet(ReservationsOf(t)')
         /\ Cardinality(ReservationsOf(t)') <= Cardinality(EventsOf(t, "Processing")')
<1>1. PICK e : e = Event("Processing", mem[r])
  OBVIOUS
<1>2. target[r] \in Transactions /\ mem[r] = ProcessingRow /\ TypeOK /\ TypeOK'
  BY DEF CommitReservation, ReservationInv, RequestShapes, RequestShape, Reserving
<1>3. e \in Events /\ e.type = "Processing"
  BY <1>1, <1>2, ConstructorTypes, StageFields DEF TypeOK, Event
<1>4. /\ log' = [log EXCEPT ![target[r]] = Append(log[target[r]], e)]
      /\ target' = target /\ reserved' = reserved \cup {r}
  BY <1>1 DEF CommitReservation, CommitSave
<1>6. /\ IsFiniteSet(ReservationsOf(t)) /\ Cardinality(ReservationsOf(t)) \in Nat
      /\ Cardinality(ReservationsOf(t)) <= Cardinality(EventsOf(t, "Processing"))
      /\ Cardinality(EventsOf(t, "Processing")) \in Nat
  BY <1>2, EventsFinite, FS_CardinalityType DEF AnnouncedInv
<1>7. CASE t = target[r]
  <2>1. log'[t] = Append(log[t], e)
    BY <1>2, <1>4, <1>7 DEF TypeOK
  <2>2. Cardinality(EventsOf(t, "Processing")') =
          Cardinality(EventsOf(t, "Processing")) + 1
    BY <1>2, <1>3, <2>1, EventAppended
  <2>3. ReservationsOf(t)' \in SUBSET (ReservationsOf(t) \cup {r})
    BY <1>4 DEF ReservationsOf
  <2>4. /\ IsFiniteSet(ReservationsOf(t)') /\ Cardinality(ReservationsOf(t)') \in Nat
        /\ Cardinality(ReservationsOf(t)') <= Cardinality(ReservationsOf(t)) + 1
    BY <1>6, <2>3, GrowsByOne
  <2>5. Cardinality(ReservationsOf(t)') <= Cardinality(EventsOf(t, "Processing")) + 1
    BY <1>6, <2>4, GrowsWithin, Zenon
  <2>6. Cardinality(ReservationsOf(t)') <= Cardinality(EventsOf(t, "Processing")')
    BY <2>2, <2>5, Zenon
  <2> QED
    BY <2>4, <2>6
<1>8. CASE t # target[r]
  <2>1. log'[t] = log[t]
    BY <1>2, <1>4, <1>8 DEF TypeOK
  <2>2. ReservationsOf(t)' = ReservationsOf(t)
    BY <1>4, <1>8 DEF ReservationsOf
  <2>3. EventsOf(t, "Processing")' = EventsOf(t, "Processing")
    BY <2>1 DEF EventsOf
  <2>4. /\ IsFiniteSet(ReservationsOf(t)')
        /\ Cardinality(ReservationsOf(t)') = Cardinality(ReservationsOf(t))
    BY <1>6, <2>2
  <2>5. Cardinality(EventsOf(t, "Processing")') = Cardinality(EventsOf(t, "Processing"))
    BY <2>3
  <2> QED
    BY <1>6, <2>4, <2>5
<1> QED
  BY <1>7, <1>8

\* The steps that reserve nothing append at most one event of another type.
LEMMA OtherSteps ==
  ASSUME ReservationInv, [Next]_vars
  PROVE  \/ \E r \in Requests : CommitReservation(r)
         \/ /\ reserved' = reserved
            /\ \A t \in Transactions :
                 \/ log'[t] = log[t]
                 \/ \E e \in Events :
                      e.type # "Processing" /\ log'[t] = Append(log[t], e)
<1>0. TypeOK
  BY DEF ReservationInv
<1> DEFINE Other == /\ reserved' = reserved
                    /\ \A t \in Transactions :
                         \/ log'[t] = log[t]
                         \/ \E e \in Events :
                              e.type # "Processing" /\ log'[t] = Append(log[t], e)
<1>1. CASE UNCHANGED vars
  BY <1>1 DEF vars
<1>2. ASSUME NEW t \in Transactions, Create(t) PROVE Other
  <2>1. PICK e : e = Event("Created", NewRow)
    OBVIOUS
  <2>2. e \in Events /\ e.type # "Processing"
    BY <2>1, ConstructorTypes, StageFields DEF Event
  <2>3. /\ reserved' = reserved
        /\ \A u \in Transactions :
             log'[u] = IF u = t THEN Append(log[u], e) ELSE log[u]
    BY <1>0, <1>2, <2>1 DEF Create, TypeOK
  <2> QED
    BY <2>2, <2>3
<1>3. ASSUME NEW r \in Requests,
             \/ Start(r) \/ SelectForSave(r) \/ Decline(r) \/ GatewayThrows(r)
             \/ \E id \in {r, NoExternalId} : Approve(r, id)
             \/ DatabaseFails(r) \/ Crash(r)
      PROVE  Other
  <2>1. UNCHANGED <<log, reserved>>
    BY <1>3 DEF Start, NotFound, RejectTransition, Load, SelectForSave, Decline,
                GatewayThrows, Approve, DatabaseFails, Crash
  <2> QED
    BY <2>1
<1>4. ASSUME NEW r \in Requests, CommitSettlement(r) PROVE Other
  <2>1. PICK e : e = Event("Processed", mem[r])
    OBVIOUS
  <2>2. SettledBy(r, mem[r])
    BY <1>4 DEF CommitSettlement, ReservationInv, RequestShapes, RequestShape, Settling
  <2>3. mem[r].status # "ABSENT"
    BY <2>2, SettledFields
  <2>4. e \in Events /\ e.type # "Processing"
    BY <1>0, <2>1, <2>3, ConstructorTypes DEF Event, TypeOK
  <2>5. /\ reserved' = reserved
        /\ \A u \in Transactions :
             log'[u] = IF u = target[r] THEN Append(log[u], e) ELSE log[u]
    BY <1>0, <1>4, <2>1 DEF CommitSettlement, CommitSave, TypeOK
  <2> QED
    BY <2>4, <2>5
<1>5. ASSUME NEW r \in Requests, Reserve(r) \/ Settle(r) \/ CommitAnswerLost(r)
      PROVE  CommitReservation(r) \/ Other
  BY <1>4, <1>5 DEF Reserve, Settle, CommitAnswerLost
<1> QED
  BY <1>1, <1>2, <1>3, <1>5 DEF Next, Progress

\* Every step keeps an event of its own for every reservation.
LEMMA AnnouncedStep ==
  ASSUME ReservationInv, ReservationInv', AnnouncedInv, [Next]_vars
  PROVE  AnnouncedInv'
<1>1. Stays
  BY ReservedStays
<1>2. SUFFICES ASSUME NEW t \in Transactions
               PROVE  /\ IsFiniteSet(ReservationsOf(t)')
                      /\ Cardinality(ReservationsOf(t)') <=
                           Cardinality(EventsOf(t, "Processing")')
  BY DEF AnnouncedInv
<1>3. CASE \E r \in Requests : CommitReservation(r)
  BY <1>1, <1>3, ReserveAnnounces
<1>4. CASE /\ reserved' = reserved
           /\ \A u \in Transactions :
                \/ log'[u] = log[u]
                \/ \E e \in Events :
                     e.type # "Processing" /\ log'[u] = Append(log[u], e)
  BY <1>1, <1>4, NothingReserved
<1> QED
  BY <1>3, <1>4, OtherSteps

\* Nothing is reserved before anything is created.
LEMMA AnnouncedInit == Init => AnnouncedInv
<1> SUFFICES ASSUME Init PROVE AnnouncedInv
  OBVIOUS
<1>1. \A t \in Transactions : ReservationsOf(t) = {}
  BY DEF Init, ReservationsOf
<1>2. \A t \in Transactions : EventsOf(t, "Processing") = {}
  <2>1. \A t \in Transactions : log[t] = <<>>
    BY DEF Init
  <2>2. DOMAIN <<>> = {}
    OBVIOUS
  <2> QED
    BY <2>1, <2>2 DEF EventsOf
<1>3. IsFiniteSet({}) /\ Cardinality({}) = 0
  BY FS_EmptySet
<1> QED
  BY <1>1, <1>2, <1>3 DEF AnnouncedInv

\* Money is captured only after the intent to capture it is on disk, even when
\* several requests charge one transaction: every capture has its own event.
THEOREM ChargesAreAnnounced == Spec => []EveryChargeAnnounced
<1>1. ReservationInv /\ AnnouncedInv => EveryChargeAnnounced
  <2> SUFFICES ASSUME ReservationInv, AnnouncedInv, NEW t \in Transactions
               PROVE  Cardinality(ChargesOf(t)) <= Cardinality(EventsOf(t, "Processing"))
    BY DEF EveryChargeAnnounced
  <2>1. TypeOK
    BY DEF ReservationInv
  <2>2. ChargesOf(t) \in SUBSET ReservationsOf(t)
    BY <2>1 DEF ReservationInv, RequestShapes, RequestShape, ChargesOf, ReservationsOf, TypeOK
  <2>3. /\ IsFiniteSet(ReservationsOf(t))
        /\ Cardinality(ReservationsOf(t)) <= Cardinality(EventsOf(t, "Processing"))
    BY DEF AnnouncedInv
  <2>4. IsFiniteSet(ChargesOf(t))
        /\ Cardinality(ChargesOf(t)) <= Cardinality(ReservationsOf(t))
    BY <2>2, <2>3, FS_Subset
  <2>5. /\ Cardinality(ChargesOf(t)) \in Nat /\ Cardinality(ReservationsOf(t)) \in Nat
        /\ Cardinality(EventsOf(t, "Processing")) \in Nat
    BY <2>1, <2>3, <2>4, FS_CardinalityType, EventsFinite
  <2> QED
    BY <2>3, <2>4, <2>5
<1>2. ReservationInv /\ ReservationInv' /\ AnnouncedInv /\ [Next]_vars => AnnouncedInv'
  BY AnnouncedStep
<1> QED
  BY <1>1, <1>2, AnnouncedInit, ReservationInvariant, PTL DEF Spec

-----------------------------------------------------------------------------
(* Retries *)

\* Once nobody works on a transaction that has left PENDING, no step of any
\* request touches it: its row, its events and its captures stay.
LEMMA QuietStep ==
  ASSUME ReservationInv, Next, NEW t \in Transactions, Quiet(t)
  PROVE  /\ Quiet(t)' /\ rows'[t] = rows[t] /\ log'[t] = log[t]
         /\ ChargesOf(t)' = ChargesOf(t)
<1> DEFINE Same == /\ rows'[t] = rows[t] /\ log'[t] = log[t]
                   /\ ChargesOf(t)' = ChargesOf(t)
<1>0. TypeOK
  BY DEF ReservationInv
<1>1. /\ rows[t].status \in {"PROCESSING", "COMPLETED", "FAILED"}
      /\ \A q \in Requests : InFlight(q) => target[q] # t
  BY DEF Quiet
<1>a. ASSUME NEW r \in Requests, Same,
             InFlight(r)' => target'[r] # t,
             \A q \in Requests : q # r => pc'[q] = pc[q] /\ target'[q] = target[q]
      PROVE  Quiet(t)' /\ Same
  BY <1>1, <1>a DEF Quiet, InFlight
<1>2. ASSUME NEW u \in Transactions, Create(u) PROVE Quiet(t)' /\ Same
  <2>1. u # t
    BY <1>1, <1>2, StageFields DEF Create
  <2>2. /\ rows'[t] = rows[t] /\ log'[t] = log[t]
        /\ UNCHANGED <<charged, pc, target>>
    BY <1>0, <1>2, <2>1 DEF Create, TypeOK
  <2> QED
    BY <1>1, <2>2 DEF Quiet, InFlight, ChargesOf
<1>3. ASSUME NEW r \in Requests, NEW u \in Transactions,
             NotFound(r, u) \/ RejectTransition(r, u) \/ Load(r, u)
      PROVE  Quiet(t)' /\ Same
  <2>1. /\ pc[r] = "idle" /\ UNCHANGED <<rows, log, charged>>
        /\ target'[r] = u
        /\ pc'[r] = "done" \/ Load(r, u)
        /\ \A q \in Requests : q # r => pc'[q] = pc[q] /\ target'[q] = target[q]
    BY <1>0, <1>3 DEF NotFound, RejectTransition, Load, Respond, TypeOK
  <2>2. Load(r, u) => u # t
    BY <1>1 DEF Load, IsValidTransition, ValidTransitions, Statuses
  <2>3. r \notin charged
    BY <2>1, ReservedKnows
  <2>4. \A q \in charged : target'[q] = target[q]
    BY <1>0, <2>1, <2>3 DEF TypeOK
  <2>5. Same
    BY <2>1, <2>4 DEF ChargesOf
  <2>6. InFlight(r)' => target'[r] # t
    BY <2>1, <2>2 DEF InFlight
  <2> QED
    BY <1>a, <2>1, <2>5, <2>6
<1>4. ASSUME NEW r \in Requests,
             \/ SelectForSave(r) \/ Crash(r)
             \/ DatabaseFails(r) /\ pc[r] # "idle"
             \/ \E id \in {r, NoExternalId} : Approve(r, id)
             \/ Decline(r) \/ GatewayThrows(r)
      PROVE  Quiet(t)' /\ Same
  <2>1. /\ InFlight(r) /\ UNCHANGED <<rows, log, target>>
        /\ charged' \in {charged, charged \cup {r}}
        /\ \A q \in Requests : q # r => pc'[q] = pc[q]
    BY <1>0, <1>4 DEF SelectForSave, Crash, DatabaseFails, Approve,
                Decline, GatewayThrows, Respond, InFlight, TypeOK
  <2>2. target[r] # t
    BY <1>1, <2>1
  <2>3. Same
    BY <2>1, <2>2 DEF ChargesOf
  <2> QED
    BY <1>a, <2>1, <2>2, <2>3
<1>5. ASSUME NEW r \in Requests, DatabaseFails(r), pc[r] = "idle"
      PROVE  Quiet(t)' /\ Same
  <2>1. /\ UNCHANGED <<rows, log, charged, target>> /\ pc'[r] = "done"
        /\ \A q \in Requests : q # r => pc'[q] = pc[q]
    BY <1>0, <1>5 DEF DatabaseFails, Respond, TypeOK
  <2> QED
    BY <1>a, <2>1 DEF ChargesOf, InFlight
<1>6. ASSUME NEW r \in Requests, Reserve(r) \/ Settle(r) \/ CommitAnswerLost(r)
      PROVE  Quiet(t)' /\ Same
  <2>1. PICK type \in {"Processing", "Processed"} : CommitSave(r, type)
    BY <1>6 DEF Reserve, Settle, CommitAnswerLost, CommitReservation, CommitSettlement
  <2>2. InFlight(r) /\ \A q \in Requests : q # r => pc'[q] = pc[q]
    BY <1>0, <1>6 DEF Reserve, Settle, CommitAnswerLost, CommitReservation,
                      CommitSettlement, Respond, InFlight, TypeOK
  <2>3. target[r] # t
    BY <1>1, <2>2
  <2>4. /\ rows'[t] = rows[t] /\ log'[t] = log[t]
        /\ UNCHANGED <<charged, target>>
    BY <1>0, <2>1, <2>3 DEF CommitSave, TypeOK
  <2>5. Same
    BY <2>4 DEF ChargesOf
  <2> QED
    BY <1>a, <2>2, <2>3, <2>4, <2>5
<1> QED
  BY <1>2, <1>3, <1>4, <1>5, <1>6 DEF Next, Start, Progress

\* Also after a race, a retry that arrives when the others have ended changes
\* neither the row nor the outbox, and charges nobody.
THEOREM RetriesAreSafe == Spec => SequentialRetriesAreSafe
<1> DEFINE Harmless == \A t \in Transactions :
                         Quiet(t) => /\ Quiet(t)'
                                     /\ rows'[t] = rows[t]
                                     /\ log'[t] = log[t]
                                     /\ ChargesOf(t)' = ChargesOf(t)
<1>1. ReservationInv /\ [Next]_vars => [Harmless]_vars
  BY QuietStep
<1> QED
  BY <1>1, ReservationInvariant, PTL DEF Spec, SequentialRetriesAreSafe

=============================================================================
