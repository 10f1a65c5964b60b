-------------------------- MODULE OutboxRelay_proofs --------------------------
(***************************************************************************)
(* Proofs about OutboxRelay, for any number of events, executions and      *)
(* processes, any batch size and any bound on attempts and mishaps.        *)
(***************************************************************************)
EXTENDS OutboxRelay, Counting, FiniteSetTheorems, WellFoundedInduction, TLAPS

\* A row, in the table or in memory, that says PUBLISHED has been delivered,
\* deliveries being counted by n.
Backed(n, row) == row.status = "PUBLISHED" => n > 0

\* The variables are functions of the events and executions, and an execution
\* in progress has an event to handle.
Shapes ==
  /\ sent \in [EventIds -> Nat]
  /\ table = [e \in EventIds |-> table[e]]
  /\ batch = [x \in Executions |-> batch[x]]
  /\ pc = [x \in Executions |-> pc[x]]

TableBacked == \A e \in EventIds : Backed(sent[e], table[e])

BatchBacked(x) ==
  /\ DOMAIN batch[x] \subseteq EventIds
  /\ pc[x] # "idle" => DOMAIN batch[x] # {}
  /\ \A e \in DOMAIN batch[x] : Backed(sent[e], batch[x][e])

\* PUBLISHED is backed by a delivery in the table and in every batch: an
\* execution writes to the table what its batch says.
DeliveryInv ==
  /\ Shapes
  /\ TableBacked
  /\ \A x \in Executions : BatchBacked(x)

\* The deliveries of an event are never forgotten.
SentGrows ==
  /\ sent' \in [EventIds -> Nat]
  /\ \A e \in EventIds : sent'[e] >= sent[e]

\* x is the only execution that takes a step.
OnlyMoves(x) ==
  /\ batch' = [y \in Executions |-> batch'[y]]
  /\ pc' = [y \in Executions |-> pc'[y]]
  /\ \A y \in Executions : y # x => batch'[y] = batch[y]
  /\ \A y \in Executions : y # x => pc'[y] = pc[y]

\* A row that was backed is backed after the step.
LEMMA BackedStays ==
  ASSUME Shapes, SentGrows, NEW e \in EventIds, NEW row, Backed(sent[e], row)
  PROVE  Backed(sent'[e], row)
  BY DEF Shapes, SentGrows, Backed

\* A step that moves one execution keeps the invariant if it leaves a backed
\* table and a backed batch.
LEMMA StepKeeps ==
  ASSUME DeliveryInv, SentGrows, NEW x \in Executions, OnlyMoves(x),
         table' = [e \in EventIds |-> table'[e]],
         TableBacked', BatchBacked(x)'
  PROVE  DeliveryInv'
<1>1. ASSUME NEW y \in Executions, y # x
      PROVE  BatchBacked(y)'
  <2>1. /\ DOMAIN batch'[y] \subseteq EventIds
        /\ pc'[y] # "idle" => DOMAIN batch'[y] # {}
    BY <1>1 DEF DeliveryInv, BatchBacked, OnlyMoves
  <2>2. \A e \in DOMAIN batch'[y] : Backed(sent'[e], batch'[y][e])
    BY <1>1, BackedStays DEF DeliveryInv, BatchBacked, OnlyMoves
  <2> QED
    BY <2>1, <2>2 DEF BatchBacked
<1> QED
  BY <1>1 DEF DeliveryInv, Shapes, SentGrows, OnlyMoves

\* A table that is left alone stays backed.
LEMMA SameTable ==
  ASSUME DeliveryInv, SentGrows, UNCHANGED table
  PROVE  /\ table' = [e \in EventIds |-> table'[e]]
         /\ TableBacked'
<1>1. \A e \in EventIds : Backed(sent'[e], table'[e])
  BY BackedStays DEF DeliveryInv, TableBacked
<1> QED
  BY <1>1 DEF DeliveryInv, Shapes, TableBacked

\* The broker's counter goes up for the event it accepts, and never down.
LEMMA AcceptedGrows ==
  ASSUME Shapes, NEW e, Accepted(e)
  PROVE  SentGrows /\ (e \in EventIds => sent'[e] > 0)
<1>1. sent \in [EventIds -> Nat] /\ SentCap \in Nat \ {0}
  BY ConstantsAssumption DEF Shapes, SentCap
<1>2. /\ DOMAIN sent' = EventIds
      /\ sent' = [d \in EventIds |-> sent'[d]]
      /\ \A d \in EventIds :
           sent'[d] = IF d = e /\ sent[d] < SentCap THEN sent[d] + 1 ELSE sent[d]
  BY <1>1 DEF Accepted
<1>3. \A d \in EventIds : sent'[d] \in Nat /\ sent'[d] >= sent[d]
  BY <1>1, <1>2
<1>4. e \in EventIds => sent'[e] > 0
  BY <1>1, <1>2
<1> QED
  BY <1>2, <1>3, <1>4 DEF SentGrows

\* A counter left alone has not gone down.
LEMMA SameSent ==
  ASSUME Shapes, UNCHANGED sent
  PROVE  SentGrows
  BY DEF Shapes, SentGrows

\* The catch never turns an entity into a published one.
LEMMA FailedBacked ==
  ASSUME NEW n, NEW entity, Backed(n, entity)
  PROVE  Backed(n, Failed(entity))
  BY DEF Backed, Failed

\* A set of events has an oldest one.
LEMMA OldestExists ==
  ASSUME NEW S, S \subseteq EventIds, S # {}
  PROVE  \E e \in S : \A d \in S : e <= d
<1>1. S \subseteq Nat
  BY ConstantsAssumption DEF EventIds
<1>2. PICK e \in S : \A d \in S : ~ (<<d, e>> \in OpToRel(<, Nat))
  BY <1>1, NatLessThanWellFounded, WFMin
<1>3. \A d \in S : ~ (d < e)
  BY <1>1, <1>2 DEF OpToRel
<1> QED
  BY <1>1, <1>3

\* The loop of an execution in progress is at an event of its batch.
LEMMA CurrentInBatch ==
  ASSUME DeliveryInv, NEW x \in Executions, pc[x] # "idle"
  PROVE  /\ Current(x) \in DOMAIN batch[x]
         /\ Current(x) \in EventIds
         /\ Backed(sent[Current(x)], batch[x][Current(x)])
<1>1. DOMAIN batch[x] \subseteq EventIds /\ DOMAIN batch[x] # {}
  BY DEF DeliveryInv, BatchBacked
<1>2. \E e \in DOMAIN batch[x] : \A d \in DOMAIN batch[x] : e <= d
  BY <1>1, OldestExists
<1>3. Current(x) \in DOMAIN batch[x]
  BY <1>2 DEF Current
<1>4. \A e \in DOMAIN batch[x] : Backed(sent[e], batch[x][e])
  BY DEF DeliveryInv, BatchBacked
<1> QED
  BY <1>1, <1>3, <1>4

\* The oldest PENDING row is in the result of the query.
LEMMA BatchNotEmpty ==
  ASSUME Pending # {}
  PROVE  Oldest # {}
<1>1. Pending \subseteq EventIds
  BY DEF Pending
<1>2. PICK e \in Pending : \A d \in Pending : e <= d
  BY <1>1, OldestExists
<1>3. {d \in Pending : d < e} = {}
  <2>1. Pending \subseteq Nat
    BY <1>1, ConstantsAssumption DEF EventIds
  <2>2. \A d \in Pending : ~ (d < e)
    BY <1>2, <2>1
  <2> QED
    BY <2>2
<1>4. Cardinality({d \in Pending : d < e}) = 0
  BY <1>3, FS_EmptySet
<1>5. 0 < BatchSize
  BY ConstantsAssumption
<1> QED
  BY <1>4, <1>5 DEF Oldest

-------------------------------------------------------------------------------
(* One lemma per kind of step *)

\* A new row is PENDING.
LEMMA InsertStep ==
  ASSUME DeliveryInv, NEW e \in EventIds, Insert(e)
  PROVE  DeliveryInv'
<1>1. table' = [table EXCEPT ![e] = NewRow] /\ UNCHANGED <<sent, batch, pc>>
  BY DEF Insert
<1>2. /\ table' = [d \in EventIds |-> table'[d]]
      /\ \A d \in EventIds : table'[d] = IF d = e THEN NewRow ELSE table[d]
  BY <1>1 DEF DeliveryInv, Shapes
<1>3. NewRow.status # "PUBLISHED"
  BY DEF NewRow
<1>4. TableBacked'
  BY <1>1, <1>2, <1>3 DEF DeliveryInv, TableBacked, Backed
<1> QED
  BY <1>1, <1>2, <1>4 DEF DeliveryInv, Shapes, BatchBacked

\* A batch is made of PENDING rows.
LEMMA TickStep ==
  ASSUME DeliveryInv, NEW x \in Executions, Tick(x)
  PROVE  DeliveryInv'
<1>1. SentGrows
  BY SameSent DEF DeliveryInv, Tick
<1>2. OnlyMoves(x)
  BY DEF DeliveryInv, Shapes, OnlyMoves, Tick, Fetch
<1>3. DOMAIN batch'[x] = Oldest /\ \A e \in Oldest : batch'[x][e] = table[e]
  BY DEF DeliveryInv, Shapes, Tick, Fetch
<1>4. Oldest # {}
  BY BatchNotEmpty DEF Tick
<1>5. \A e \in Oldest : e \in EventIds /\ table[e].status # "PUBLISHED"
  BY DEF Oldest, Pending
<1>6. BatchBacked(x)'
  BY <1>3, <1>4, <1>5 DEF BatchBacked, Backed
<1> QED
  BY <1>1, <1>2, <1>6, SameTable, StepKeeps DEF Tick

\* The current entity may become one that is backed after the step.
LEMMA EntityStep ==
  ASSUME DeliveryInv, SentGrows, UNCHANGED table,
         NEW x \in Executions, pc[x] # "idle", NEW entity, NEW location,
         batch' = [batch EXCEPT ![x][Current(x)] = entity],
         pc' = [pc EXCEPT ![x] = location],
         Backed(sent'[Current(x)], entity)
  PROVE  DeliveryInv'
<1>1. OnlyMoves(x)
  BY DEF DeliveryInv, Shapes, OnlyMoves
<1>2. batch'[x] = [batch[x] EXCEPT ![Current(x)] = entity]
  BY DEF DeliveryInv, Shapes
<1>3. /\ DOMAIN batch'[x] = DOMAIN batch[x]
      /\ DOMAIN batch[x] \subseteq EventIds
      /\ DOMAIN batch[x] # {}
  BY <1>2 DEF DeliveryInv, BatchBacked
<1>4. \A e \in DOMAIN batch[x] :
        batch'[x][e] = IF e = Current(x) THEN entity ELSE batch[x][e]
  BY <1>2
<1>5. \A e \in DOMAIN batch[x] : Backed(sent'[e], batch[x][e])
  BY <1>3, BackedStays DEF DeliveryInv, BatchBacked
<1>6. \A e \in DOMAIN batch'[x] : Backed(sent'[e], batch'[x][e])
  BY <1>3, <1>4, <1>5
<1>7. BatchBacked(x)'
  BY <1>3, <1>6 DEF BatchBacked
<1> QED
  BY <1>1, <1>7, SameTable, StepKeeps

\* However a send ends, only an accepted one marks the event PUBLISHED.
LEMMA SendStep ==
  ASSUME DeliveryInv, NEW x \in Executions,
         Send(x) \/ SendRefused(x) \/ SendAnswerLost(x)
  PROVE  DeliveryInv'
<1>1. pc[x] # "idle" /\ UNCHANGED table
  BY DEF Send, SendRefused, SendAnswerLost, BeginSave
<1>2. /\ Current(x) \in EventIds
      /\ Backed(sent[Current(x)], batch[x][Current(x)])
  BY <1>1, CurrentInBatch
<1>3. CASE Send(x)
  <2>1. SentGrows /\ sent'[Current(x)] > 0
    BY <1>2, <1>3, AcceptedGrows DEF Send, DeliveryInv
  <2>2. Backed(sent'[Current(x)],
               [batch[x][Current(x)] EXCEPT !.status = "PUBLISHED"])
    BY <2>1 DEF Backed
  <2> QED
    BY <1>1, <1>3, <2>1, <2>2, EntityStep DEF Send, BeginSave
<1>4. CASE SendRefused(x) \/ SendAnswerLost(x)
  <2>1. SentGrows
    BY <1>4, SameSent, AcceptedGrows DEF SendRefused, SendAnswerLost, DeliveryInv
  <2>2. Backed(sent'[Current(x)], Failed(batch[x][Current(x)]))
    BY <1>2, <2>1, FailedBacked, BackedStays DEF DeliveryInv
  <2> QED
    BY <1>1, <1>4, <2>1, <2>2, EntityStep
    DEF SendRefused, SendAnswerLost, BeginSave
<1> QED
  BY <1>3, <1>4

\* The row a save writes has the status of the row before or of the entity.
LEMMA WriteKeeps ==
  ASSUME DeliveryInv, UNCHANGED sent, NEW x \in Executions, pc[x] # "idle",
         WriteRow(x) \/ UNCHANGED table
  PROVE  /\ table' = [e \in EventIds |-> table'[e]]
         /\ TableBacked'
<1> DEFINE c == Current(x)
           new == Written(table[c], batch[x][c], snap[x])
<1>1. c \in EventIds /\ Backed(sent[c], batch[x][c])
  BY CurrentInBatch
<1>2. Backed(sent[c], new)
  <2>1. new.status \in {table[c].status, batch[x][c].status}
    BY DEF Written, Column
  <2>2. Backed(sent[c], table[c])
    BY <1>1 DEF DeliveryInv, TableBacked
  <2> QED
    BY <1>1, <2>1, <2>2 DEF Backed
<1>3. CASE WriteRow(x)
  <2>1. table' = [table EXCEPT ![c] = new]
    BY <1>3 DEF WriteRow
  <2> HIDE DEF c, new
  <2>2. /\ table' = [e \in EventIds |-> table'[e]]
        /\ \A e \in EventIds : table'[e] = IF e = c THEN new ELSE table[e]
    BY <2>1 DEF DeliveryInv, Shapes
  <2>3. \A e \in EventIds : Backed(sent'[e], table'[e])
    BY <1>1, <1>2, <2>2 DEF DeliveryInv, TableBacked
  <2> QED
    BY <2>2, <2>3 DEF TableBacked
<1>4. CASE UNCHANGED table
  BY <1>4, SameTable, SameSent DEF DeliveryInv
<1> QED
  BY <1>3, <1>4

\* A batch whose handled event is dropped, or one that ends, stays backed.
LEMMA LoopKeeps ==
  ASSUME DeliveryInv, UNCHANGED sent, NEW x \in Executions,
         NextEvent(x) \/ EndExecution(x)
  PROVE  OnlyMoves(x) /\ BatchBacked(x)'
<1>1. CASE EndExecution(x)
  <2>1. OnlyMoves(x)
    BY <1>1 DEF DeliveryInv, Shapes, OnlyMoves, EndExecution
  <2>2. DOMAIN batch'[x] = {} /\ pc'[x] = "idle"
    BY <1>1 DEF DeliveryInv, Shapes, EndExecution, NoBatch
  <2> QED
    BY <2>1, <2>2 DEF BatchBacked
<1>2. CASE NextEvent(x) /\ ~ EndExecution(x)
  <2> DEFINE rest == DOMAIN batch[x] \ {Current(x)}
  <2>1. /\ rest # {}
        /\ batch' = [batch EXCEPT ![x] = [e \in rest |-> batch[x][e]]]
        /\ pc' = [pc EXCEPT ![x] = "sending"]
    BY <1>2 DEF NextEvent
  <2>2. OnlyMoves(x)
    BY <2>1 DEF DeliveryInv, Shapes, OnlyMoves
  <2>3. /\ DOMAIN batch'[x] = rest
        /\ \A e \in rest : batch'[x][e] = batch[x][e]
    BY <2>1 DEF DeliveryInv, Shapes
  <2>4. BatchBacked(x)'
    BY <2>1, <2>3 DEF DeliveryInv, BatchBacked
  <2> QED
    BY <2>2, <2>4
<1> QED
  BY <1>1, <1>2

\* A save, and a save in the catch that fails.
LEMMA SaveStep ==
  ASSUME DeliveryInv, NEW x \in Executions, Save(x) \/ FailureSaveFails(x)
  PROVE  DeliveryInv'
<1>1. /\ pc[x] # "idle"
      /\ UNCHANGED sent
      /\ WriteRow(x) \/ UNCHANGED table
      /\ NextEvent(x) \/ EndExecution(x)
  BY DEF Save, FailureSaveFails, SaveFailed
<1> QED
  BY <1>1, WriteKeeps, LoopKeeps, SameSent, StepKeeps DEF DeliveryInv

\* The save of a published event that fails, with or without effect.
LEMMA PublishSaveStep ==
  ASSUME DeliveryInv, NEW x \in Executions, PublishSaveFails(x)
  PROVE  DeliveryInv'
<1> DEFINE c == Current(x)
<1>1. /\ pc[x] # "idle"
      /\ UNCHANGED sent
      /\ WriteRow(x) \/ UNCHANGED table
      /\ batch' = [batch EXCEPT ![x][c] = Failed(batch[x][c])]
      /\ pc' = [pc EXCEPT ![x] = "failure select"]
  BY DEF PublishSaveFails, SaveFailed
<1>2. /\ c \in EventIds
      /\ Backed(sent[c], Failed(batch[x][c]))
  BY <1>1, CurrentInBatch, FailedBacked
<1>3. OnlyMoves(x)
  BY <1>1 DEF DeliveryInv, Shapes, OnlyMoves
<1>4. batch'[x] = [batch[x] EXCEPT ![c] = Failed(batch[x][c])]
  BY <1>1 DEF DeliveryInv, Shapes
<1>5. BatchBacked(x)'
  BY <1>1, <1>2, <1>4 DEF DeliveryInv, BatchBacked
<1> QED
  BY <1>1, <1>3, <1>5, WriteKeeps, SameSent, StepKeeps DEF DeliveryInv

\* A crash leaves batches empty or as they were.
LEMMA CrashStep ==
  ASSUME DeliveryInv, NEW p \in Processes, Crash(p)
  PROVE  DeliveryInv'
<1> DEFINE killed == {x \in Executions : ProcessOf[x] = p}
<1>1. /\ UNCHANGED <<table, sent>>
      /\ batch' = [x \in Executions |-> IF x \in killed THEN NoBatch ELSE batch[x]]
      /\ pc' = [x \in Executions |-> IF x \in killed THEN "idle" ELSE pc[x]]
  BY DEF Crash
<1> HIDE DEF killed
<1>2. /\ batch' = [x \in Executions |-> batch'[x]]
      /\ pc' = [x \in Executions |-> pc'[x]]
  BY <1>1
<1>3. ASSUME NEW x \in Executions
      PROVE  BatchBacked(x)'
  <2>1. CASE x \in killed
    <3>1. DOMAIN batch'[x] = {} /\ pc'[x] = "idle"
      BY <1>1, <2>1 DEF NoBatch
    <3> QED
      BY <3>1 DEF BatchBacked
  <2>2. CASE x \notin killed
    BY <1>1, <2>2 DEF DeliveryInv, BatchBacked
  <2> QED
    BY <2>1, <2>2
<1> QED
  BY <1>1, <1>2, <1>3 DEF DeliveryInv, Shapes, TableBacked

\* A step that changes neither deliveries, rows nor batches.
LEMMA QuietStep ==
  ASSUME DeliveryInv, UNCHANGED <<sent, table, batch>>, NEW x \in Executions,
         NEW location, pc[x] # "idle", pc' = [pc EXCEPT ![x] = location]
  PROVE  DeliveryInv'
<1>1. OnlyMoves(x) /\ SentGrows
  BY SameSent DEF DeliveryInv, Shapes, OnlyMoves
<1>2. BatchBacked(x)'
  BY DEF DeliveryInv, BatchBacked
<1> QED
  BY <1>1, <1>2, SameTable, StepKeeps

-------------------------------------------------------------------------------
(* At-least-once delivery *)

\* Before anything is written, nothing has to be backed.
LEMMA DeliveryInit == Init => DeliveryInv
<1>1. Init => Shapes
  BY DEF Init, Shapes
<1>2. Init => TableBacked
  BY DEF Init, NoRow, TableBacked, Backed
<1>3. Init => \A x \in Executions : BatchBacked(x)
  BY DEF Init, NoBatch, BatchBacked
<1> QED
  BY <1>1, <1>2, <1>3 DEF DeliveryInv

\* Every step leaves a delivery behind each row that says PUBLISHED.
LEMMA DeliveryStep ==
  ASSUME DeliveryInv, [Next]_vars
  PROVE  DeliveryInv'
<1>1. CASE \E e \in EventIds : Insert(e)
  BY <1>1, InsertStep
<1>2. ASSUME NEW x \in Executions,
             \/ Tick(x) \/ Progress(x)
             \/ SendAnswerLost(x) \/ PublishSaveFails(x) \/ FailureSaveFails(x)
      PROVE  DeliveryInv'
  <2>1. CASE SelectForSave(x)
    <3>1. /\ UNCHANGED <<sent, table, batch>>
          /\ pc[x] # "idle"
          /\ \E location \in Locations : pc' = [pc EXCEPT ![x] = location]
      BY <2>1 DEF SelectForSave, Locations
    <3> QED
      BY <3>1, QuietStep
  <2> QED
    BY <1>2, <2>1, TickStep, SendStep, SaveStep, PublishSaveStep DEF Progress
<1>3. CASE \E p \in Processes : Crash(p)
  BY <1>3, CrashStep
<1>4. CASE UNCHANGED vars
  BY <1>4 DEF vars, DeliveryInv, Shapes, TableBacked, BatchBacked
<1> QED
  BY <1>1, <1>2, <1>3, <1>4 DEF Next

\* At-least-once delivery: for any number of replicas, a row says PUBLISHED
\* only if the broker has the message.
THEOREM PublishedOnlyIfSent == Spec => []PublishedWasSent
<1>1. Init => DeliveryInv
  BY DeliveryInit
<1>2. DeliveryInv /\ [Next]_vars => DeliveryInv'
  BY DeliveryStep
<1>3. DeliveryInv => PublishedWasSent
  BY DEF DeliveryInv, TableBacked, Backed, PublishedWasSent
<1> QED
  BY <1>1, <1>2, <1>3, PTL DEF Spec

-------------------------------------------------------------------------------
(* Type correctness, and one execution at a time in each process *)

\* A process runs one execution at a time, and an execution that is not running
\* holds no entities.
RunInv ==
  /\ \A x, y \in Executions :
       pc[x] # "idle" /\ pc[y] # "idle" /\ ProcessOf[x] = ProcessOf[y] => x = y
  /\ \A x \in Executions : pc[x] = "idle" => DOMAIN batch[x] = {}

TypeInv == TypeOK /\ DeliveryInv /\ RunInv

\* The rows the relay computes are rows.
LEMMA RowTypes ==
  ASSUME NEW row \in Rows
  PROVE  /\ NoRow \in Rows /\ NewRow \in Rows
         /\ [row EXCEPT !.status = "PUBLISHED"] \in Rows
         /\ Failed(row) \in Rows
         /\ \A entity \in Rows, selected \in Rows : Written(row, entity, selected) \in Rows
  BY DEF Rows, NoRow, NewRow, Failed, Written, Column

\* The counters saturate within their types.
LEMMA CounterTypes ==
  ASSUME TypeOK, NEW e \in EventIds
  PROVE  /\ Accepted(e) => sent' \in [EventIds -> 0 .. SentCap]
         /\ Refused(e) => refused' \in [EventIds -> 0 .. MaxAttempts]
<1>1. SentCap \in Nat /\ MaxAttempts \in Nat
  BY ConstantsAssumption DEF SentCap
<1>2. /\ sent \in [EventIds -> 0 .. SentCap]
      /\ refused \in [EventIds -> 0 .. MaxAttempts]
  BY DEF TypeOK
<1>3. Accepted(e) => sent' \in [EventIds -> 0 .. SentCap]
  <2> DEFINE n == IF sent[e] < SentCap THEN sent[e] + 1 ELSE sent[e]
  <2>1. n \in 0 .. SentCap
    BY <1>1, <1>2
  <2>2. Accepted(e) => sent' = [sent EXCEPT ![e] = n]
    BY DEF Accepted
  <2> HIDE DEF n
  <2> QED
    BY <1>2, <2>1, <2>2
<1>4. Refused(e) => refused' \in [EventIds -> 0 .. MaxAttempts]
  <2> DEFINE n == IF refused[e] < MaxAttempts THEN refused[e] + 1 ELSE refused[e]
  <2>1. n \in 0 .. MaxAttempts
    BY <1>1, <1>2
  <2>2. Refused(e) => refused' = [refused EXCEPT ![e] = n]
    BY DEF Refused
  <2> HIDE DEF n
  <2> QED
    BY <1>2, <2>1, <2>2
<1> QED
  BY <1>3, <1>4

\* Mishaps are counted up to their bound.
LEMMA MishapType ==
  ASSUME TypeOK, Mishap
  PROVE  mishaps' = mishaps + 1 /\ mishaps' \in 0 .. MaxMishaps
  BY ConstantsAssumption DEF TypeOK, Mishap

\* The columns that are not about who runs.
DataTypes ==
  /\ table   \in [EventIds -> Rows]
  /\ sent    \in [EventIds -> 0 .. SentCap]
  /\ refused \in [EventIds -> 0 .. MaxAttempts]
  /\ snap    \in [Executions -> Rows]
  /\ mishaps \in 0 .. MaxMishaps
  /\ contested \in SUBSET EventIds

\* x goes on, ends, or starts where nobody runs: each process keeps one
\* execution at most, and its flag tells whether there is one.
LEMMA MoveTyped ==
  ASSUME TypeOK, RunInv, DeliveryInv, DeliveryInv', DataTypes',
         NEW x \in Executions, NEW location \in Locations,
         pc' = [pc EXCEPT ![x] = location],
         \A y \in Executions : y # x => batch'[y] = batch[y],
         \A e \in DOMAIN batch'[x] : batch'[x][e] \in Rows,
         \/ /\ pc[x] # "idle" /\ location # "idle"
            /\ UNCHANGED isProcessing
         \/ /\ pc[x] # "idle" /\ location = "idle" /\ DOMAIN batch'[x] = {}
            /\ isProcessing' = [isProcessing EXCEPT ![ProcessOf[x]] = FALSE]
         \/ /\ ~ isProcessing[ProcessOf[x]] /\ location # "idle"
            /\ isProcessing' = [isProcessing EXCEPT ![ProcessOf[x]] = TRUE]
  PROVE  TypeOK' /\ RunInv'
<1>1. /\ pc \in [Executions -> Locations]
      /\ isProcessing \in [Processes -> BOOLEAN]
      /\ \A y \in Executions : ProcessOf[y] \in Processes
      /\ \A y \in Executions : pc[y] # "idle" => isProcessing[ProcessOf[y]]
  BY ConstantsAssumption DEF TypeOK
<1>2. /\ pc' \in [Executions -> Locations] /\ pc'[x] = location
      /\ \A y \in Executions : y # x => pc'[y] = pc[y]
  BY <1>1
<1>3. isProcessing' \in [Processes -> BOOLEAN]
  BY <1>1
<1>4. \A y \in Executions : y # x /\ pc'[y] # "idle" => isProcessing'[ProcessOf[y]]
  BY <1>1, <1>2 DEF RunInv
<1>5. pc'[x] # "idle" => isProcessing'[ProcessOf[x]]
  BY <1>1, <1>2
<1>6. \A y \in Executions :
        /\ DOMAIN batch'[y] \in SUBSET EventIds
        /\ \A e \in DOMAIN batch'[y] : batch'[y][e] \in Rows
        /\ pc'[y] # "idle" => batch'[y] # NoBatch
  <2>1. DOMAIN NoBatch = {}
    BY DEF NoBatch
  <2>2. \A y \in Executions : /\ DOMAIN batch'[y] \in SUBSET EventIds
                              /\ pc'[y] # "idle" => DOMAIN batch'[y] # {}
    BY DEF DeliveryInv, BatchBacked
  <2>3. \A y \in Executions : \A e \in DOMAIN batch'[y] : batch'[y][e] \in Rows
    BY DEF TypeOK
  <2> QED
    BY <2>1, <2>2, <2>3
<1>7. TypeOK'
  BY <1>2, <1>3, <1>4, <1>5, <1>6 DEF TypeOK, DataTypes
<1>8. \A y \in Executions : pc'[y] = "idle" => DOMAIN batch'[y] = {}
  BY <1>2 DEF RunInv
<1>9. \A y, z \in Executions :
        pc'[y] # "idle" /\ pc'[z] # "idle" /\ ProcessOf[y] = ProcessOf[z] => y = z
  BY <1>1, <1>2 DEF RunInv
<1> QED
  BY <1>7, <1>8, <1>9 DEF RunInv

\* Nothing runs, and nothing is written, at the start.
LEMMA TypeInit == Init => TypeInv
<1> SUFFICES ASSUME Init PROVE TypeInv
  OBVIOUS
<1>1. SentCap \in Nat /\ NoRow \in Rows
  BY ConstantsAssumption DEF SentCap, Rows, NoRow
<1>2. isProcessing \in [Processes -> BOOLEAN]
  BY DEF Init
<1>3. TypeOK
  BY <1>1, <1>2, ConstantsAssumption DEF Init, TypeOK, NoBatch, Locations
<1>4. RunInv
  BY DEF Init, RunInv, NoBatch
<1> QED
  BY <1>3, <1>4, DeliveryInit DEF TypeInv

\* Every step of the relay keeps the types and the sole execution.
LEMMA TypeStep ==
  ASSUME TypeInv, [Next]_vars
  PROVE  TypeInv'
<1>0. TypeOK /\ RunInv /\ DeliveryInv /\ DeliveryInv'
  BY DeliveryStep DEF TypeInv
<1>a. SUFFICES TypeOK' /\ RunInv'
  BY <1>0 DEF TypeInv
<1>b. \A x \in Executions : pc[x] # "idle" =>
        /\ Current(x) \in DOMAIN batch[x] /\ Current(x) \in EventIds
        /\ batch[x][Current(x)] \in Rows
  BY <1>0, CurrentInBatch DEF TypeOK
<1>1. ASSUME NEW e \in EventIds, Insert(e) PROVE TypeOK' /\ RunInv'
  <2>1. table' \in [EventIds -> Rows]
    BY <1>0, <1>1 DEF Insert, TypeOK, Rows, NewRow
  <2>2. UNCHANGED <<sent, refused, isProcessing, pc, batch, snap, mishaps, contested>>
    BY <1>1 DEF Insert
  <2> QED
    BY <1>0, <2>1, <2>2 DEF TypeOK, RunInv
<1>2. ASSUME NEW x \in Executions, Tick(x) PROVE TypeOK' /\ RunInv'
  <2>1. /\ ~ isProcessing[ProcessOf[x]]
        /\ isProcessing' = [isProcessing EXCEPT ![ProcessOf[x]] = TRUE]
        /\ pc' = [pc EXCEPT ![x] = "sending"]
        /\ UNCHANGED <<table, sent, refused, snap, mishaps>>
    BY <1>2 DEF Tick
  <2>2. /\ \A y \in Executions : y # x => batch'[y] = batch[y]
        /\ DOMAIN batch'[x] = Oldest
        /\ \A e \in Oldest : batch'[x][e] = table[e]
    BY <1>0, <1>2 DEF Tick, Fetch, DeliveryInv, Shapes
  <2>3. Oldest \in SUBSET EventIds
    BY DEF Oldest, Pending
  <2>4. contested' \in SUBSET EventIds
    BY <1>0, <1>2, <2>3 DEF Tick, Fetch, TypeOK
  <2>5. DataTypes'
    BY <1>0, <2>1, <2>4 DEF DataTypes, TypeOK
  <2>6. \A e \in DOMAIN batch'[x] : batch'[x][e] \in Rows
    BY <1>0, <2>2, <2>3 DEF TypeOK
  <2> QED
    BY <1>0, <2>1, <2>2, <2>5, <2>6, MoveTyped DEF Locations
<1>3. ASSUME NEW x \in Executions, NEW entity \in Rows, NEW location \in Locations,
             pc[x] # "idle", location # "idle", BeginSave(x, entity, location),
             UNCHANGED <<snap, contested>>,
             sent' \in [EventIds -> 0 .. SentCap],
             refused' \in [EventIds -> 0 .. MaxAttempts],
             mishaps' \in 0 .. MaxMishaps
      PROVE  TypeOK' /\ RunInv'
  <2>1. /\ pc' = [pc EXCEPT ![x] = location]
        /\ UNCHANGED <<table, isProcessing, snap, contested>>
        /\ \A y \in Executions : y # x => batch'[y] = batch[y]
        /\ batch'[x] = [batch[x] EXCEPT ![Current(x)] = entity]
    BY <1>0, <1>3 DEF BeginSave, DeliveryInv, Shapes
  <2>2. \A e \in DOMAIN batch'[x] : batch'[x][e] \in Rows
    BY <1>0, <2>1 DEF TypeOK
  <2>3. DataTypes'
    BY <1>0, <1>3, <2>1 DEF DataTypes, TypeOK
  <2> QED
    BY <1>0, <1>3, <2>1, <2>2, <2>3, MoveTyped
<1>4. ASSUME NEW x \in Executions, Send(x) \/ SendRefused(x) \/ SendAnswerLost(x)
      PROVE  TypeOK' /\ RunInv'
  <2>1. pc[x] = "sending"
    BY <1>4 DEF Send, SendRefused, SendAnswerLost
  <2>2. batch[x][Current(x)] \in Rows
    BY <1>b, <2>1
  <2>3. /\ [batch[x][Current(x)] EXCEPT !.status = "PUBLISHED"] \in Rows
        /\ Failed(batch[x][Current(x)]) \in Rows
    BY <2>2, RowTypes
  <2>4. /\ sent' \in [EventIds -> 0 .. SentCap]
        /\ refused' \in [EventIds -> 0 .. MaxAttempts]
        /\ mishaps' \in 0 .. MaxMishaps
        /\ UNCHANGED <<snap, contested>>
    <3>1. /\ Accepted(Current(x)) \/ UNCHANGED sent
          /\ Refused(Current(x)) \/ UNCHANGED refused
          /\ Mishap \/ UNCHANGED mishaps
          /\ UNCHANGED <<snap, contested>>
      BY <1>4 DEF Send, SendRefused, SendAnswerLost
    <3> QED
      BY <1>0, <1>b, <2>1, <3>1, CounterTypes, MishapType DEF TypeOK
  <2>5. PICK entity \in Rows, location \in {"publish select", "failure select"} :
          BeginSave(x, entity, location)
    BY <1>4, <2>3 DEF Send, SendRefused, SendAnswerLost
  <2>6. location \in Locations /\ location # "idle" /\ pc[x] # "idle"
    BY <2>1, <2>5 DEF Locations
  <2> QED
    BY <1>3, <2>4, <2>5, <2>6
<1>5. ASSUME NEW x \in Executions, SelectForSave(x) PROVE TypeOK' /\ RunInv'
  <2>1. PICK location \in {"publish write", "failure write"} :
          pc' = [pc EXCEPT ![x] = location]
    BY <1>5 DEF SelectForSave
  <2>2. /\ pc[x] # "idle"
        /\ UNCHANGED <<table, sent, refused, isProcessing, batch, mishaps, contested>>
    BY <1>5 DEF SelectForSave
  <2>3. snap' \in [Executions -> Rows]
    BY <1>0, <1>5, <1>b, <2>2 DEF SelectForSave, TypeOK
  <2>4. DataTypes'
    BY <1>0, <2>2, <2>3 DEF DataTypes, TypeOK
  <2>5. \A e \in DOMAIN batch'[x] : batch'[x][e] \in Rows
    BY <1>0, <2>2 DEF TypeOK
  <2>6. location \in Locations /\ location # "idle"
    BY DEF Locations
  <2> QED
    BY <1>0, <2>1, <2>2, <2>4, <2>5, <2>6, MoveTyped
<1>c. ASSUME NEW x \in Executions, pc[x] # "idle", WriteRow(x) \/ UNCHANGED table
      PROVE  table' \in [EventIds -> Rows]
  <2>1. Written(table[Current(x)], batch[x][Current(x)], snap[x]) \in Rows
    BY <1>0, <1>b, <1>c, RowTypes DEF TypeOK
  <2> QED
    BY <1>0, <1>c, <2>1 DEF WriteRow, TypeOK
<1>6. ASSUME NEW x \in Executions, Save(x) \/ FailureSaveFails(x)
      PROVE  TypeOK' /\ RunInv'
  <2>1. /\ pc[x] # "idle"
        /\ WriteRow(x) \/ UNCHANGED table
        /\ NextEvent(x) \/ EndExecution(x)
        /\ UNCHANGED <<sent, refused, contested>>
        /\ Mishap \/ UNCHANGED mishaps
    BY <1>6 DEF Save, FailureSaveFails, SaveFailed
  <2>2. snap' \in [Executions -> Rows]
    <3>1. snap' = [snap EXCEPT ![x] = NoRow]
      BY <2>1 DEF NextEvent, EndExecution
    <3> QED
      BY <1>0, <3>1 DEF TypeOK, Rows, NoRow
  <2>3. DataTypes'
    BY <1>0, <1>c, <2>1, <2>2, MishapType DEF DataTypes, TypeOK
  <2>4. CASE EndExecution(x)
    <3>1. /\ isProcessing' = [isProcessing EXCEPT ![ProcessOf[x]] = FALSE]
          /\ pc' = [pc EXCEPT ![x] = "idle"]
          /\ DOMAIN batch'[x] = {}
          /\ \A y \in Executions : y # x => batch'[y] = batch[y]
      BY <1>0, <2>4 DEF EndExecution, NoBatch, DeliveryInv, Shapes
    <3> QED
      BY <1>0, <2>1, <2>3, <3>1, MoveTyped DEF Locations
  <2>5. CASE NextEvent(x) /\ ~ EndExecution(x)
    <3> DEFINE rest == DOMAIN batch[x] \ {Current(x)}
    <3>1. /\ batch' = [batch EXCEPT ![x] = [e \in rest |-> batch[x][e]]]
          /\ pc' = [pc EXCEPT ![x] = "sending"]
          /\ UNCHANGED isProcessing
      BY <2>5 DEF NextEvent
    <3>2. /\ \A y \in Executions : y # x => batch'[y] = batch[y]
          /\ DOMAIN batch'[x] = rest
          /\ \A e \in rest : batch'[x][e] = batch[x][e]
      BY <1>0, <3>1 DEF DeliveryInv, Shapes
    <3>3. \A e \in DOMAIN batch'[x] : batch'[x][e] \in Rows
      BY <1>0, <3>2 DEF TypeOK
    <3> QED
      BY <1>0, <2>1, <2>3, <3>1, <3>2, <3>3, MoveTyped DEF Locations
  <2> QED
    BY <2>1, <2>4, <2>5
<1>7. ASSUME NEW x \in Executions, PublishSaveFails(x) PROVE TypeOK' /\ RunInv'
  <2>1. /\ pc[x] # "idle"
        /\ WriteRow(x) \/ UNCHANGED table
        /\ batch' = [batch EXCEPT ![x][Current(x)] = Failed(batch[x][Current(x)])]
        /\ pc' = [pc EXCEPT ![x] = "failure select"]
        /\ snap' = [snap EXCEPT ![x] = NoRow]
        /\ UNCHANGED <<sent, refused, contested, isProcessing>>
        /\ Mishap
    BY <1>7 DEF PublishSaveFails, SaveFailed
  <2>2. Failed(batch[x][Current(x)]) \in Rows
    BY <1>b, <2>1, RowTypes
  <2>3. snap' \in [Executions -> Rows]
    BY <1>0, <2>1 DEF TypeOK, Rows, NoRow
  <2>4. DataTypes'
    BY <1>0, <1>c, <2>1, <2>3, MishapType DEF DataTypes, TypeOK
  <2>5. /\ \A y \in Executions : y # x => batch'[y] = batch[y]
        /\ batch'[x] = [batch[x] EXCEPT ![Current(x)] = Failed(batch[x][Current(x)])]
    BY <1>0, <2>1 DEF DeliveryInv, Shapes
  <2>6. \A e \in DOMAIN batch'[x] : batch'[x][e] \in Rows
    BY <1>0, <2>2, <2>5 DEF TypeOK
  <2> QED
    BY <1>0, <2>1, <2>4, <2>5, <2>6, MoveTyped DEF Locations
<1>8. ASSUME NEW p \in Processes, Crash(p) PROVE TypeOK' /\ RunInv'
  <2> DEFINE killed == {x \in Executions : ProcessOf[x] = p}
  <2>1. /\ isProcessing' = [isProcessing EXCEPT ![p] = FALSE]
        /\ pc' = [x \in Executions |-> IF x \in killed THEN "idle" ELSE pc[x]]
        /\ batch' = [x \in Executions |-> IF x \in killed THEN NoBatch ELSE batch[x]]
        /\ snap' = [x \in Executions |-> IF x \in killed THEN NoRow ELSE snap[x]]
        /\ UNCHANGED <<table, sent, refused, contested>>
        /\ Mishap
    BY <1>8 DEF Crash
  <2>2. mishaps' \in 0 .. MaxMishaps
    BY <1>0, <2>1, MishapType
  <2>3. isProcessing' \in [Processes -> BOOLEAN]
    BY <1>0, <2>1 DEF TypeOK
  <2>4. /\ pc' \in [Executions -> Locations] /\ snap' \in [Executions -> Rows]
    BY <1>0, <2>1 DEF TypeOK, Locations, Rows, NoRow
  <2>5. \A x \in Executions :
          IF ProcessOf[x] = p THEN pc'[x] = "idle" /\ batch'[x] = NoBatch
                              ELSE pc'[x] = pc[x] /\ batch'[x] = batch[x]
    BY <2>1
  <2>6. \A x \in Executions :
          ProcessOf[x] # p => isProcessing'[ProcessOf[x]] = isProcessing[ProcessOf[x]]
    BY <1>0, <2>1, ConstantsAssumption DEF TypeOK
  <2>7. \A x \in Executions :
          /\ DOMAIN batch'[x] \in SUBSET EventIds
          /\ \A e \in DOMAIN batch'[x] : batch'[x][e] \in Rows
          /\ pc'[x] # "idle" => batch'[x] # NoBatch /\ isProcessing'[ProcessOf[x]]
    <3>1. DOMAIN NoBatch = {}
      BY DEF NoBatch
    <3> QED
      BY <1>0, <2>5, <2>6, <3>1 DEF TypeOK
  <2>8. TypeOK'
    BY <1>0, <2>1, <2>2, <2>3, <2>4, <2>7 DEF TypeOK
  <2>9. RunInv'
    <3>1. DOMAIN NoBatch = {}
      BY DEF NoBatch
    <3> QED
      BY <1>0, <2>5, <3>1 DEF RunInv
  <2> QED
    BY <2>8, <2>9
<1>9. CASE UNCHANGED vars
  BY <1>0, <1>9 DEF vars, TypeOK, RunInv
<1> QED
  BY <1>1, <1>2, <1>4, <1>5, <1>6, <1>7, <1>8, <1>9 DEF Next, Progress

\* The tables, the flags and the batches of the relay are what they are
\* declared to be, for any number of replicas and overlapping ticks.
THEOREM TypeCorrect == Spec => []TypeOK
<1>1. Init => TypeInv
  BY TypeInit
<1>2. TypeInv /\ [Next]_vars => TypeInv'
  BY TypeStep
<1>3. TypeInv => TypeOK
  BY DEF TypeInv
<1> QED
  BY <1>1, <1>2, <1>3, PTL DEF Spec

-------------------------------------------------------------------------------
(* Attempts, for the events that no two processes had in hand at once *)

Publishing(x) == pc[x] = "publish select" \/ pc[x] = "publish write"

Failing(x) == pc[x] = "failure select" \/ pc[x] = "failure write"

Writing(x) == pc[x] = "publish write" \/ pc[x] = "failure write"

\* Attempts never exceed their maximum, and reach it only in a parked row.
Parked(row) ==
  /\ row.attempts <= MaxAttempts
  /\ row.status = "FAILED" <=> row.attempts = MaxAttempts

\* What the catch has made of the entity, next to the row it will overwrite.
FailedFrom(row, entity) ==
  /\ row.status \in {"PENDING", "PUBLISHED"}
  /\ entity.attempts = row.attempts + 1
  /\ IF entity.attempts = MaxAttempts
       THEN entity.status = "FAILED"
       ELSE entity.status \in {"PENDING", "PUBLISHED"}
  /\ entity.status = "PENDING" => row.status = "PENDING"

\* How the row of an event in a batch relates to the entity: the same until the
\* loop comes to it, then one change ahead, and the save compares with the row.
Held(x, e) ==
  /\ e # Current(x) \/ pc[x] = "sending" =>
       batch[x][e] = table[e] /\ table[e].status = "PENDING"
  /\ e = Current(x) /\ Publishing(x) =>
       /\ table[e].status = "PENDING"
       /\ batch[x][e] = [table[e] EXCEPT !.status = "PUBLISHED"]
  /\ e = Current(x) /\ Failing(x) => FailedFrom(table[e], batch[x][e])
  /\ e = Current(x) /\ Writing(x) => snap[x] = table[e]

\* An event in two batches is contested; any other is held as its row says.
HandsInv ==
  /\ \A x, y \in Executions :
       x # y => \A e \in DOMAIN batch[x] : e \in DOMAIN batch[y] => e \in contested
  /\ \A e \in EventIds \ contested : Parked(table[e])
  /\ \A x \in Executions : \A e \in DOMAIN batch[x] : e \notin contested => Held(x, e)

\* Which event the loop is at depends on the batch alone.
LEMMA CurrentStays ==
  ASSUME NEW x \in Executions, DOMAIN batch'[x] = DOMAIN batch[x]
  PROVE  Current(x)' = Current(x)
  BY DEF Current

\* A save over the row it selected writes the entity.
LEMMA WrittenFresh ==
  ASSUME NEW row \in Rows, NEW entity \in Rows
  PROVE  Written(row, entity, row) = entity
<1>1. /\ Written(row, entity, row).status = entity.status
      /\ Written(row, entity, row).attempts = entity.attempts
  BY DEF Written, Column
<1>2. Written(row, entity, row) \in Rows
  BY RowTypes
<1> QED
  BY <1>1, <1>2 DEF Rows

\* What the catch makes of an entity that is as its row says, or published.
LEMMA FailedHeld ==
  ASSUME NEW row \in Rows, Parked(row), row.status \in {"PENDING", "PUBLISHED"},
         NEW entity \in Rows, entity.attempts = row.attempts,
         entity.status \in {"PENDING", "PUBLISHED"},
         entity.status = "PENDING" => row.status = "PENDING"
  PROVE  FailedFrom(row, Failed(entity))
<1>1. row.attempts \in Nat /\ row.attempts < MaxAttempts /\ MaxAttempts \in Nat
  BY ConstantsAssumption DEF Rows, Parked
<1>2. /\ Failed(entity).attempts = row.attempts + 1
      /\ Failed(entity).status = IF row.attempts + 1 >= MaxAttempts
                                   THEN "FAILED" ELSE entity.status
  BY DEF Failed
<1> QED
  BY <1>1, <1>2 DEF FailedFrom

\* Writing what the catch made of the entity parks it exactly when it should.
LEMMA FailedParked ==
  ASSUME NEW row \in Rows, NEW entity \in Rows, Parked(row), FailedFrom(row, entity)
  PROVE  Parked(entity)
<1>1. row.attempts \in Nat /\ row.attempts < MaxAttempts /\ MaxAttempts \in Nat
  BY ConstantsAssumption DEF Rows, Parked, FailedFrom
<1> QED
  BY <1>1 DEF FailedFrom, Parked

\* x is the only execution that moves, among the events of its batch.
Confined(x) ==
  /\ OnlyMoves(x)
  /\ \A y \in Executions : y # x => snap'[y] = snap[y]
  /\ \A e \in contested : e \in contested'
  /\ \A e \in EventIds : table'[e] # table[e] => e \in DOMAIN batch[x]

\* A step confined to the batch of one execution keeps the invariant if it
\* leaves that batch as the rows say.
LEMMA HandsKept ==
  ASSUME TypeInv, TypeInv', HandsInv, NEW x \in Executions, Confined(x),
         \A e \in DOMAIN batch'[x] :
           e \in DOMAIN batch[x] \/ e \in contested'
             \/ \A y \in Executions : y # x => e \notin DOMAIN batch[y],
         \A e \in EventIds :
           e \notin contested' /\ table'[e] # table[e] => Parked(table'[e]),
         \A e \in DOMAIN batch'[x] : e \notin contested' => Held(x, e)'
  PROVE  HandsInv'
<1>1. \A e : e \notin contested' => e \notin contested
  BY DEF Confined
<1>2. \A y \in Executions : DOMAIN batch[y] \subseteq EventIds
  BY DEF TypeInv, TypeOK
<1>3. ASSUME NEW y \in Executions, y # x, NEW e \in DOMAIN batch'[y], e \notin contested'
      PROVE  Held(y, e)'
  <2>1. /\ batch'[y] = batch[y] /\ pc'[y] = pc[y] /\ snap'[y] = snap[y]
        /\ e \in DOMAIN batch[y] /\ e \in EventIds /\ e \notin contested
    BY <1>1, <1>2, <1>3 DEF Confined, OnlyMoves
  <2>2. Held(y, e)
    BY <2>1 DEF HandsInv
  <2>3. table'[e] = table[e]
    BY <1>3, <2>1 DEF Confined, HandsInv
  <2>4. Current(y)' = Current(y)
    BY <2>1, CurrentStays
  <2> QED
    BY <2>1, <2>2, <2>3, <2>4 DEF Held, Publishing, Failing, Writing
<1>4. \A y, z \in Executions :
        y # z => \A e \in DOMAIN batch'[y] : e \in DOMAIN batch'[z] => e \in contested'
  <2> SUFFICES ASSUME NEW y \in Executions, NEW z \in Executions, y # z,
                      NEW e \in DOMAIN batch'[y], e \in DOMAIN batch'[z]
               PROVE  e \in contested'
    OBVIOUS
  <2>1. CASE y # x /\ z # x
    BY <1>1, <2>1 DEF Confined, OnlyMoves, HandsInv
  <2>2. CASE y = x
    <3>1. e \in DOMAIN batch[z]
      BY <2>2 DEF Confined, OnlyMoves
    <3> QED
      BY <1>1, <2>2, <3>1 DEF HandsInv
  <2>3. CASE z = x
    <3>1. e \in DOMAIN batch[y]
      BY <2>3 DEF Confined, OnlyMoves
    <3> QED
      BY <1>1, <2>3, <3>1 DEF HandsInv
  <2> QED
    BY <2>1, <2>2, <2>3
<1>5. \A e \in EventIds \ contested' : Parked(table'[e])
  <2> SUFFICES ASSUME NEW e \in EventIds, e \notin contested' PROVE Parked(table'[e])
    OBVIOUS
  <2>1. CASE table'[e] = table[e]
    BY <1>1, <2>1 DEF HandsInv
  <2> QED
    BY <2>1
<1>6. \A y \in Executions : \A e \in DOMAIN batch'[y] : e \notin contested' => Held(y, e)'
  BY <1>3
<1>7. \A e \in EventIds \ contested' : Parked(table[e])'
  BY <1>5 DEF Parked
<1> QED
  BY <1>4, <1>6, <1>7 DEF HandsInv

\* What a save writes to the row of an event that nobody else has in hand.
LEMMA FreshWrite ==
  ASSUME TypeInv, HandsInv, NEW x \in Executions, Writing(x), WriteRow(x)
  PROVE  /\ Current(x) \in DOMAIN batch[x] /\ Current(x) \in EventIds
         /\ \A e \in EventIds : e # Current(x) => table'[e] = table[e]
         /\ Current(x) \notin contested => table'[Current(x)] = batch[x][Current(x)]
<1> DEFINE c == Current(x)
           new == Written(table[c], batch[x][c], snap[x])
<1>1. pc[x] # "idle"
  BY DEF Writing
<1>2. c \in DOMAIN batch[x] /\ c \in EventIds
  BY <1>1, CurrentInBatch DEF TypeInv
<1>3. table[c] \in Rows /\ batch[x][c] \in Rows
  BY <1>2 DEF TypeInv, TypeOK
<1>4. c \notin contested => new = batch[x][c]
  <2>1. c \notin contested => snap[x] = table[c]
    BY <1>2 DEF HandsInv, Held
  <2> QED
    BY <1>3, <2>1, WrittenFresh
<1>5. table' = [table EXCEPT ![c] = new]
  BY DEF WriteRow
<1> HIDE DEF c, new
<1>6. \A e \in EventIds : table'[e] = IF e = c THEN new ELSE table[e]
  BY <1>5 DEF TypeInv, TypeOK
<1> QED
  BY <1>2, <1>4, <1>6 DEF c

\* The entity at hand changes, and the table does not.
LEMMA HandsEntity ==
  ASSUME TypeInv, TypeInv', HandsInv, NEW x \in Executions, pc[x] # "idle",
         NEW entity, NEW location,
         batch' = [batch EXCEPT ![x][Current(x)] = entity],
         pc' = [pc EXCEPT ![x] = location],
         location = "publish select" \/ location = "failure select",
         UNCHANGED <<table, contested>>,
         \A y \in Executions : y # x => snap'[y] = snap[y],
         Current(x) \notin contested =>
           IF location = "publish select"
             THEN /\ table[Current(x)].status = "PENDING"
                  /\ entity = [table[Current(x)] EXCEPT !.status = "PUBLISHED"]
             ELSE FailedFrom(table[Current(x)], entity)
  PROVE  HandsInv'
<1> DEFINE c == Current(x)
<1>1. c \in DOMAIN batch[x]
  BY CurrentInBatch DEF TypeInv
<1>2. OnlyMoves(x)
  BY DEF TypeInv, DeliveryInv, Shapes, OnlyMoves
<1>3. batch'[x] = [batch[x] EXCEPT ![c] = entity] /\ pc'[x] = location
  BY DEF TypeInv, DeliveryInv, Shapes
<1>4. /\ DOMAIN batch'[x] = DOMAIN batch[x] /\ batch'[x][c] = entity
      /\ \A e \in DOMAIN batch[x] : e # c => batch'[x][e] = batch[x][e]
  BY <1>1, <1>3
<1>5. Current(x)' = c
  BY <1>4, CurrentStays
<1>6. ASSUME NEW e \in DOMAIN batch'[x], e \notin contested'
      PROVE  Held(x, e)'
  <2>1. e \in DOMAIN batch[x] /\ e \notin contested
    BY <1>4, <1>6
  <2>2. CASE e = c
    BY <1>3, <1>4, <1>5, <2>1, <2>2 DEF Held, Publishing, Failing, Writing, FailedFrom
  <2>3. CASE e # c
    <3>1. batch[x][e] = table[e] /\ table[e].status = "PENDING"
      BY <2>1, <2>3 DEF HandsInv, Held
    <3> QED
      BY <1>3, <1>4, <1>5, <2>1, <2>3, <3>1 DEF Held
  <2> QED
    BY <2>2, <2>3
<1>7. Confined(x)
  BY <1>2 DEF Confined
<1> HIDE DEF c
<1> QED
  BY <1>4, <1>6, <1>7, HandsKept

\* Nothing is held before the first tick.
LEMMA HandsInit == Init => HandsInv
<1> SUFFICES ASSUME Init PROVE HandsInv
  OBVIOUS
<1>1. \A x \in Executions : DOMAIN batch[x] = {}
  BY DEF Init, NoBatch
<1>2. \A e \in EventIds : Parked(table[e])
  BY ConstantsAssumption DEF Init, NoRow, Parked
<1> QED
  BY <1>1, <1>2 DEF HandsInv

\* A row that is inserted is in nobody's hands.
LEMMA HandsInsert ==
  ASSUME TypeInv, HandsInv, NEW e \in EventIds, Insert(e)
  PROVE  HandsInv'
<1>1. /\ table[e] = NoRow
      /\ \A d \in EventIds : table'[d] = IF d = e THEN NewRow ELSE table[d]
      /\ UNCHANGED <<pc, batch, snap, contested>>
  BY DEF Insert, TypeInv, TypeOK
<1>2. \A x \in Executions : e \in DOMAIN batch[x] /\ e \notin contested => FALSE
  <2> SUFFICES ASSUME NEW x \in Executions, e \in DOMAIN batch[x], e \notin contested
               PROVE  FALSE
    OBVIOUS
  <2>1. Held(x, e) /\ table[e].status = "ABSENT"
    BY <1>1 DEF HandsInv, NoRow
  <2>2. pc[x] # "idle"
    BY DEF TypeInv, RunInv
  <2>3. pc[x] = "sending" \/ Publishing(x) \/ Failing(x)
    BY <2>2 DEF TypeInv, TypeOK, Locations, Publishing, Failing
  <2> QED
    BY <2>1, <2>3 DEF Held, FailedFrom
<1>3. \A d \in EventIds \ contested' : Parked(table[d])'
  BY <1>1, ConstantsAssumption DEF HandsInv, Parked, NewRow
<1>4. ASSUME NEW x \in Executions, NEW d \in DOMAIN batch'[x], d \notin contested'
      PROVE  Held(x, d)'
  <2>1. d \in DOMAIN batch[x] /\ d \notin contested /\ d \in EventIds
    BY <1>1, <1>4 DEF TypeInv, TypeOK
  <2>2. table'[d] = table[d] /\ Held(x, d)
    BY <1>1, <1>2, <2>1 DEF HandsInv
  <2>3. Current(x)' = Current(x)
    BY <1>1, CurrentStays
  <2> QED
    BY <1>1, <2>2, <2>3 DEF Held, Publishing, Failing, Writing
<1>5. \A x \in Executions : \A d \in DOMAIN batch'[x] : d \notin contested' => Held(x, d)'
  BY <1>4
<1> QED
  BY <1>1, <1>3, <1>5 DEF HandsInv

\* A batch holds the PENDING rows it was loaded from, and is contested where it
\* overlaps with the batch of another process.
LEMMA HandsTick ==
  ASSUME TypeInv, TypeInv', HandsInv, NEW x \in Executions, Tick(x)
  PROVE  HandsInv'
<1>1. /\ OnlyMoves(x) /\ pc'[x] = "sending"
      /\ DOMAIN batch'[x] = Oldest
      /\ \A e \in Oldest : batch'[x][e] = table[e]
  BY DEF TypeInv, DeliveryInv, Shapes, OnlyMoves, Tick, Fetch
<1>2. /\ UNCHANGED <<table, snap>>
      /\ contested' = contested \cup
           {e \in Oldest : \E y \in Executions :
              ProcessOf[y] # ProcessOf[x] /\ e \in DOMAIN batch[y]}
      /\ ~ isProcessing[ProcessOf[x]]
  BY DEF Tick, Fetch
<1>3. Confined(x)
  BY <1>1, <1>2 DEF Confined
<1>4. \A e \in DOMAIN batch'[x] :
        e \in contested' \/ \A y \in Executions : y # x => e \notin DOMAIN batch[y]
  <2>1. \A y \in Executions : \A e \in DOMAIN batch[y] : ProcessOf[y] # ProcessOf[x]
    BY <1>2 DEF TypeInv, TypeOK, RunInv
  <2> QED
    BY <1>1, <1>2, <2>1
<1>5. ASSUME NEW e \in DOMAIN batch'[x], e \notin contested'
      PROVE  Held(x, e)'
  <2>1. /\ batch'[x][e] = table'[e] /\ table'[e].status = "PENDING"
        /\ pc'[x] = "sending"
    BY <1>1, <1>2, <1>5 DEF Oldest, Pending
  <2> QED
    BY <2>1 DEF Held, Publishing, Failing, Writing
<1> QED
  BY <1>2, <1>3, <1>4, <1>5, HandsKept

\* However a send ends, the entity is one change ahead of its row.
LEMMA HandsSend ==
  ASSUME TypeInv, TypeInv', HandsInv, NEW x \in Executions,
         Send(x) \/ SendRefused(x) \/ SendAnswerLost(x)
  PROVE  HandsInv'
<1> DEFINE c == Current(x)
<1>1. pc[x] = "sending" /\ UNCHANGED <<table, contested, snap>>
  BY DEF Send, SendRefused, SendAnswerLost, BeginSave
<1>2. c \in DOMAIN batch[x] /\ c \in EventIds
  BY <1>1, CurrentInBatch DEF TypeInv
<1>3. /\ c \notin contested =>
           /\ batch[x][c] = table[c] /\ table[c].status = "PENDING"
           /\ Parked(table[c])
      /\ table[c] \in Rows
  BY <1>1, <1>2 DEF HandsInv, Held, TypeInv, TypeOK
<1>4. CASE Send(x)
  <2>1. /\ batch' = [batch EXCEPT ![x][c] = [batch[x][c] EXCEPT !.status = "PUBLISHED"]]
        /\ pc' = [pc EXCEPT ![x] = "publish select"]
    BY <1>4 DEF Send, BeginSave
  <2> QED
    BY <1>1, <1>3, <2>1, HandsEntity
<1>5. CASE SendRefused(x) \/ SendAnswerLost(x)
  <2>1. /\ batch' = [batch EXCEPT ![x][c] = Failed(batch[x][c])]
        /\ pc' = [pc EXCEPT ![x] = "failure select"]
    BY <1>5 DEF SendRefused, SendAnswerLost, BeginSave
  <2>2. c \notin contested => FailedFrom(table[c], Failed(batch[x][c]))
    BY <1>3, FailedHeld
  <2> QED
    BY <1>1, <2>1, <2>2, HandsEntity
<1> QED
  BY <1>4, <1>5

\* A save compares with the row as it is.
LEMMA HandsSelect ==
  ASSUME TypeInv, TypeInv', HandsInv, NEW x \in Executions, SelectForSave(x)
  PROVE  HandsInv'
<1> DEFINE c == Current(x)
<1>1. /\ UNCHANGED <<table, batch, contested>>
      /\ snap' = [snap EXCEPT ![x] = table[c]]
      /\ \/ pc[x] = "publish select" /\ pc' = [pc EXCEPT ![x] = "publish write"]
         \/ pc[x] = "failure select" /\ pc' = [pc EXCEPT ![x] = "failure write"]
  BY DEF SelectForSave
<1>2. OnlyMoves(x) /\ Confined(x)
  BY <1>1 DEF TypeInv, TypeOK, DeliveryInv, Shapes, OnlyMoves, Confined
<1>3. snap'[x] = table[c] /\ Current(x)' = c
  BY <1>1, CurrentStays DEF TypeInv, TypeOK
<1>4. \/ pc[x] = "publish select" /\ pc'[x] = "publish write"
      \/ pc[x] = "failure select" /\ pc'[x] = "failure write"
  BY <1>1 DEF TypeInv, TypeOK
<1> HIDE DEF c
<1>5. ASSUME NEW e \in DOMAIN batch'[x], e \notin contested'
      PROVE  Held(x, e)'
  <2>1. Held(x, e)
    BY <1>1, <1>5 DEF HandsInv
  <2> QED
    BY <1>1, <1>3, <1>4, <2>1 DEF Held, Publishing, Failing, Writing, c
<1> QED
  BY <1>1, <1>2, <1>5, HandsKept

\* The batch loses the event at hand, or all, and the row may have been saved.
LEMMA HandsSave ==
  ASSUME TypeInv, TypeInv', HandsInv, NEW x \in Executions,
         Save(x) \/ FailureSaveFails(x)
  PROVE  HandsInv'
<1> DEFINE c == Current(x)
<1>1. /\ pc[x] # "idle"
      /\ (Writing(x) /\ WriteRow(x)) \/ UNCHANGED table
      /\ NextEvent(x) \/ EndExecution(x)
      /\ UNCHANGED contested
  BY DEF Save, FailureSaveFails, SaveFailed, Writing
<1>2. c \in DOMAIN batch[x] /\ c \in EventIds
  BY <1>1, CurrentInBatch DEF TypeInv
<1>3. /\ OnlyMoves(x)
      /\ \A y \in Executions : y # x => snap'[y] = snap[y]
  <2>1. snap' = [snap EXCEPT ![x] = NoRow] /\ UNCHANGED sent
    BY <1>1 DEF NextEvent, EndExecution, Save, FailureSaveFails, SaveFailed
  <2> QED
    BY <1>1, <2>1, LoopKeeps DEF TypeInv, TypeOK
<1>4. \A e \in EventIds : e # c => table'[e] = table[e]
  BY <1>1, FreshWrite
<1>5. c \notin contested /\ table'[c] # table[c] => Parked(table'[c])
  <2> SUFFICES ASSUME c \notin contested, Writing(x), WriteRow(x)
               PROVE  Parked(table'[c])
    BY <1>1
  <2>1. table'[c] = batch[x][c] /\ Held(x, c) /\ Parked(table[c])
    BY <1>2, FreshWrite DEF HandsInv
  <2>2. table[c] \in Rows /\ batch[x][c] \in Rows
    BY <1>2 DEF TypeInv, TypeOK
  <2>3. CASE Publishing(x)
    <3>1. /\ table[c].status = "PENDING"
          /\ batch[x][c].attempts = table[c].attempts
          /\ batch[x][c].status = "PUBLISHED"
      BY <2>1, <2>2, <2>3 DEF Held, Rows
    <3> QED
      BY <2>1, <3>1 DEF Parked
  <2>4. CASE Failing(x)
    <3>1. FailedFrom(table[c], batch[x][c])
      BY <2>1, <2>4 DEF Held
    <3>2. Parked(batch[x][c])
      BY <2>1, <2>2, <3>1, FailedParked
    <3> QED
      BY <2>1, <3>2
  <2> QED
    BY <2>3, <2>4 DEF Writing, Publishing, Failing
<1>6. Confined(x)
  BY <1>1, <1>2, <1>3, <1>4 DEF Confined
<1>7. /\ \A e \in DOMAIN batch'[x] : e \in DOMAIN batch[x] /\ e # c
                                     /\ batch'[x][e] = batch[x][e]
      /\ DOMAIN batch'[x] # {} => pc'[x] = "sending"
  <2>1. CASE EndExecution(x)
    <3>1. DOMAIN batch'[x] = {}
      BY <2>1 DEF EndExecution, NoBatch, TypeInv, DeliveryInv, Shapes
    <3> QED
      BY <3>1
  <2>2. CASE NextEvent(x) /\ ~ EndExecution(x)
    <3> DEFINE rest == DOMAIN batch[x] \ {c}
    <3>1. /\ batch' = [batch EXCEPT ![x] = [e \in rest |-> batch[x][e]]]
          /\ pc' = [pc EXCEPT ![x] = "sending"]
      BY <2>2 DEF NextEvent
    <3>2. batch'[x] = [e \in rest |-> batch[x][e]] /\ pc'[x] = "sending"
      BY <3>1 DEF TypeInv, DeliveryInv, Shapes
    <3> QED
      BY <3>2
  <2> QED
    BY <1>1, <2>1, <2>2
<1> HIDE DEF c
<1>8. ASSUME NEW e \in DOMAIN batch'[x], e \notin contested'
      PROVE  Held(x, e)'
  <2>1. /\ e \in DOMAIN batch[x] /\ e # c /\ e \in EventIds /\ e \notin contested
        /\ batch'[x][e] = batch[x][e] /\ pc'[x] = "sending"
    BY <1>1, <1>7, <1>8 DEF TypeInv, TypeOK
  <2>2. batch[x][e] = table[e] /\ table[e].status = "PENDING"
    BY <2>1 DEF HandsInv, Held, c
  <2>3. table'[e] = table[e]
    BY <1>4, <2>1
  <2> QED
    BY <2>1, <2>2, <2>3 DEF Held, Publishing, Failing, Writing
<1>9. \A e \in EventIds :
        e \notin contested' /\ table'[e] # table[e] => Parked(table'[e])
  BY <1>1, <1>4, <1>5
<1> QED
  BY <1>6, <1>7, <1>8, <1>9, HandsKept

\* The save of a published event fails: whether or not the row was written, the
\* catch leaves an entity one attempt ahead of it.
LEMMA HandsPublishFails ==
  ASSUME TypeInv, TypeInv', HandsInv, NEW x \in Executions, PublishSaveFails(x)
  PROVE  HandsInv'
<1> DEFINE c == Current(x)
           entity == Failed(batch[x][c])
<1>1. /\ Publishing(x) /\ pc[x] # "idle"
      /\ (Writing(x) /\ WriteRow(x)) \/ UNCHANGED table
      /\ batch' = [batch EXCEPT ![x][c] = entity]
      /\ pc' = [pc EXCEPT ![x] = "failure select"]
      /\ snap' = [snap EXCEPT ![x] = NoRow]
      /\ UNCHANGED contested
  BY DEF PublishSaveFails, SaveFailed, Publishing, Writing
<1>2. c \in DOMAIN batch[x] /\ c \in EventIds
  BY <1>1, CurrentInBatch DEF TypeInv
<1>3. table[c] \in Rows /\ batch[x][c] \in Rows /\ table'[c] \in Rows
  BY <1>2 DEF TypeInv, TypeOK
<1>4. c \notin contested =>
        /\ Parked(table[c]) /\ table[c].status = "PENDING"
        /\ batch[x][c] = [table[c] EXCEPT !.status = "PUBLISHED"]
  BY <1>1, <1>2 DEF HandsInv, Held
<1>5. \A e \in EventIds : e # c => table'[e] = table[e]
  BY <1>1, FreshWrite
<1>6. c \notin contested =>
        table'[c] = table[c] \/ table'[c] = [table[c] EXCEPT !.status = "PUBLISHED"]
  BY <1>1, <1>4, FreshWrite
<1>7. c \notin contested => Parked(table'[c]) /\ FailedFrom(table'[c], entity)
  <2> SUFFICES ASSUME c \notin contested
               PROVE  Parked(table'[c]) /\ FailedFrom(table'[c], entity)
    OBVIOUS
  <2>1. /\ Parked(table[c]) /\ table[c].status = "PENDING"
        /\ batch[x][c].attempts = table[c].attempts
        /\ batch[x][c].status = "PUBLISHED"
    BY <1>3, <1>4 DEF Rows
  <2>2. /\ table'[c].attempts = table[c].attempts
        /\ table'[c].status \in {"PENDING", "PUBLISHED"}
    BY <1>3, <1>6, <2>1 DEF Rows
  <2>3. Parked(table'[c])
    BY <2>1, <2>2 DEF Parked
  <2> QED
    BY <1>3, <2>1, <2>2, <2>3, FailedHeld
<1>8. /\ OnlyMoves(x)
      /\ \A y \in Executions : y # x => snap'[y] = snap[y]
      /\ pc'[x] = "failure select"
      /\ batch'[x] = [batch[x] EXCEPT ![c] = entity]
  BY <1>1 DEF TypeInv, TypeOK, DeliveryInv, Shapes, OnlyMoves
<1>9. Confined(x)
  BY <1>1, <1>2, <1>5, <1>8 DEF Confined
<1>10. /\ DOMAIN batch'[x] = DOMAIN batch[x] /\ batch'[x][c] = entity
       /\ \A e \in DOMAIN batch[x] : e # c => batch'[x][e] = batch[x][e]
  BY <1>2, <1>8
<1>11. Current(x)' = c
  BY <1>10, CurrentStays
<1> HIDE DEF c, entity
<1>12. ASSUME NEW e \in DOMAIN batch'[x], e \notin contested'
       PROVE  Held(x, e)'
  <2>1. e \in DOMAIN batch[x] /\ e \notin contested /\ e \in EventIds
    BY <1>1, <1>10, <1>12 DEF TypeInv, TypeOK
  <2>2. CASE e = c
    BY <1>7, <1>8, <1>10, <1>11, <2>1, <2>2 DEF Held, Publishing, Failing, Writing
  <2>3. CASE e # c
    <3>1. batch[x][e] = table[e] /\ table[e].status = "PENDING"
      BY <2>1, <2>3 DEF HandsInv, Held, c
    <3>2. table'[e] = table[e]
      BY <1>5, <2>1, <2>3
    <3> QED
      BY <1>10, <1>11, <2>1, <2>3, <3>1, <3>2 DEF Held
  <2> QED
    BY <2>2, <2>3
<1>13. \A e \in EventIds :
         e \notin contested' /\ table'[e] # table[e] => Parked(table'[e])
  BY <1>1, <1>5, <1>7
<1> QED
  BY <1>9, <1>10, <1>12, <1>13, HandsKept

\* A crash drops the batches of a process, and no row changes.
LEMMA HandsCrash ==
  ASSUME TypeInv, HandsInv, NEW p \in Processes, Crash(p)
  PROVE  HandsInv'
<1> DEFINE killed == {x \in Executions : ProcessOf[x] = p}
<1>1. /\ UNCHANGED <<table, contested>>
      /\ pc' = [x \in Executions |-> IF x \in killed THEN "idle" ELSE pc[x]]
      /\ batch' = [x \in Executions |-> IF x \in killed THEN NoBatch ELSE batch[x]]
      /\ snap' = [x \in Executions |-> IF x \in killed THEN NoRow ELSE snap[x]]
  BY DEF Crash
<1> HIDE DEF killed
<1>2. \A x \in Executions :
        \/ DOMAIN batch'[x] = {}
        \/ batch'[x] = batch[x] /\ pc'[x] = pc[x] /\ snap'[x] = snap[x]
  <2>1. DOMAIN NoBatch = {}
    BY DEF NoBatch
  <2> QED
    BY <1>1, <2>1
<1>3. ASSUME NEW x \in Executions, NEW e \in DOMAIN batch'[x], e \notin contested'
      PROVE  Held(x, e)'
  <2>1. batch'[x] = batch[x] /\ pc'[x] = pc[x] /\ snap'[x] = snap[x]
    BY <1>2, <1>3
  <2>2. Held(x, e) /\ table'[e] = table[e]
    BY <1>1, <1>3, <2>1 DEF HandsInv
  <2>3. Current(x)' = Current(x)
    BY <2>1, CurrentStays
  <2> QED
    BY <2>1, <2>2, <2>3 DEF Held, Publishing, Failing, Writing
<1>4. \A e \in EventIds \ contested' : Parked(table[e])'
  BY <1>1 DEF HandsInv, Parked
<1>5. \A x, y \in Executions :
        x # y => \A e \in DOMAIN batch'[x] : e \in DOMAIN batch'[y] => e \in contested'
  BY <1>1, <1>2 DEF HandsInv
<1>6. \A x \in Executions : \A e \in DOMAIN batch'[x] : e \notin contested' => Held(x, e)'
  BY <1>3
<1> QED
  BY <1>4, <1>5, <1>6 DEF HandsInv

\* Hands depend on these variables only.
LEMMA HandsQuiet ==
  ASSUME HandsInv, UNCHANGED <<table, contested, batch, pc, snap>>
  PROVE  HandsInv'
<1>1. \A x \in Executions : Current(x)' = Current(x)
  BY CurrentStays
<1>2. \A x \in Executions : \A e \in DOMAIN batch[x] : e \notin contested => Held(x, e)'
  <2> SUFFICES ASSUME NEW x \in Executions, NEW e \in DOMAIN batch[x], e \notin contested
               PROVE  Held(x, e)'
    OBVIOUS
  <2>1. Held(x, e) /\ Current(x)' = Current(x)
    BY <1>1 DEF HandsInv
  <2> QED
    BY <2>1 DEF Held, Publishing, Failing, Writing
<1>3. \A e \in EventIds \ contested : Parked(table[e])'
  BY DEF HandsInv, Parked
<1> QED
  BY <1>2, <1>3 DEF HandsInv

\* Every step keeps the entities of uncontested events in line with their rows.
LEMMA HandsStep ==
  ASSUME TypeInv, TypeInv', HandsInv, [Next]_vars
  PROVE  HandsInv'
<1>1. ASSUME UNCHANGED vars PROVE HandsInv'
  BY <1>1, HandsQuiet DEF vars
<1> QED
  BY <1>1, HandsInsert, HandsTick, HandsSend, HandsSelect, HandsSave,
     HandsPublishFails, HandsCrash
  DEF Next, Progress

\* For any number of replicas, an event that no two processes had in hand at
\* once is FAILED exactly when its attempts are used up.
THEOREM ParkedWhenUsedUp == Spec => []ParkedAtMaxAttempts
<1> DEFINE Inv == TypeInv /\ HandsInv
<1>1. Init => Inv
  BY TypeInit, HandsInit
<1>2. Inv /\ [Next]_vars => Inv'
  BY TypeStep, HandsStep
<1>3. Inv => ParkedAtMaxAttempts
  BY DEF HandsInv, Parked, ParkedAtMaxAttempts
<1> QED
  BY <1>1, <1>2, <1>3, PTL DEF Spec

-------------------------------------------------------------------------------
(* Duplicates *)

\* An event that may be sent once more although the broker has it: its row is
\* PENDING, and no execution is about to mark it PUBLISHED.
AtRisk(e) ==
  /\ sent[e] > 0 /\ table[e].status = "PENDING"
  /\ \A x \in Executions : e \in DOMAIN batch[x] /\ e = Current(x) => ~ Publishing(x)

\* The n-th delivery of an event is a duplicate, or about to become one.
Due(e, n) == n <= sent[e] \/ (n = sent[e] + 1 /\ AtRisk(e))

PaidPairs == {p \in (EventIds \ contested) \X (2 .. SentCap + 1) : Due(p[1], p[2])}

\* What is not in the table was never sent.
UnsentInv ==
  \A e \in EventIds \ contested : table[e].status = "ABSENT" => sent[e] = 0

\* Each duplicate, made or about to be made, has its own mishap.
PaidInv == Cardinality(PaidPairs) <= mishaps /\ UnsentInv

\* Deliveries that are counted are finitely many.
LEMMA PairsFinite ==
  ASSUME TypeInv
  PROVE  IsFiniteSet(PaidPairs) /\ Cardinality(PaidPairs) \in Nat
<1>1. IsFiniteSet(EventIds) /\ IsFiniteSet(2 .. SentCap + 1)
  BY ConstantsAssumption, FS_Interval DEF EventIds, SentCap
<1>2. IsFiniteSet(EventIds \X (2 .. SentCap + 1))
  BY <1>1, FS_Product
<1>3. PaidPairs \in SUBSET (EventIds \X (2 .. SentCap + 1))
  BY DEF PaidPairs
<1> QED
  BY <1>2, <1>3, FS_Subset, FS_CardinalityType

\* Nothing new is due for e.
Calm(e) == sent'[e] = sent[e] /\ (AtRisk(e)' => AtRisk(e))

\* A step of x brings no risk to an event it is not marking PUBLISHED.
LEMMA CalmUnless ==
  ASSUME NEW x \in Executions, OnlyMoves(x), NEW e \in EventIds,
         sent'[e] = sent[e],
         table'[e].status = "PENDING" => table[e].status = "PENDING",
         table'[e].status # "PENDING" \/ e \notin DOMAIN batch[x]
           \/ e # Current(x) \/ ~ Publishing(x)
  PROVE  Calm(e)
<1> SUFFICES ASSUME AtRisk(e)' PROVE AtRisk(e)
  BY DEF Calm
<1>1. sent[e] > 0 /\ table'[e].status = "PENDING" /\ table[e].status = "PENDING"
  BY DEF AtRisk
<1>2. ASSUME NEW y \in Executions, e \in DOMAIN batch[y], e = Current(y)
      PROVE  ~ Publishing(y)
  <2>1. CASE y = x
    BY <1>1, <1>2, <2>1
  <2>2. CASE y # x
    <3>1. batch'[y] = batch[y] /\ pc'[y] = pc[y]
      BY <2>2 DEF OnlyMoves
    <3>2. Current(y)' = Current(y)
      BY <3>1, CurrentStays
    <3> QED
      BY <1>2, <3>1, <3>2 DEF AtRisk, Publishing
  <2> QED
    BY <2>1, <2>2
<1> QED
  BY <1>1, <1>2 DEF AtRisk

\* If nothing new is due for any event, nothing more has to be paid.
LEMMA NothingDue ==
  ASSUME TypeInv, PaidInv, contested \subseteq contested',
         mishaps' \in Nat, mishaps \in Nat, mishaps' >= mishaps,
         \A e \in EventIds : e \notin contested' =>
           \A n \in 2 .. SentCap + 1 : Due(e, n)' => Due(e, n)
  PROVE  Cardinality(PaidPairs') <= mishaps'
<1>1. PaidPairs' \in SUBSET PaidPairs
  BY DEF PaidPairs
<1>2. /\ Cardinality(PaidPairs') \in Nat /\ Cardinality(PaidPairs) \in Nat
      /\ Cardinality(PaidPairs') <= Cardinality(PaidPairs)
      /\ Cardinality(PaidPairs) <= mishaps
  BY <1>1, PairsFinite, GrowsByNone DEF PaidInv
<1> QED
  BY <1>2

\* A mishap pays for one delivery more.
LEMMA OneDue ==
  ASSUME TypeInv, PaidInv, UNCHANGED contested, mishaps \in Nat,
         mishaps' = mishaps + 1, NEW c, NEW m,
         \A e \in EventIds : e \notin contested =>
           \A n \in 2 .. SentCap + 1 :
             Due(e, n)' => Due(e, n) \/ (e = c /\ n = m)
  PROVE  Cardinality(PaidPairs') <= mishaps'
<1>1. PaidPairs' \in SUBSET (PaidPairs \cup {<<c, m>>})
  BY DEF PaidPairs
<1>2. /\ Cardinality(PaidPairs') \in Nat /\ Cardinality(PaidPairs) \in Nat
      /\ Cardinality(PaidPairs') <= Cardinality(PaidPairs) + 1
      /\ Cardinality(PaidPairs) <= mishaps
  BY <1>1, PairsFinite, GrowsByOne DEF PaidInv
<1> QED
  BY <1>2

\* What is calm has nothing new due, and what only becomes at risk one more.
LEMMA DueFrom ==
  ASSUME TypeInv, NEW e \in EventIds
  PROVE  /\ Calm(e) => \A n \in 2 .. SentCap + 1 : Due(e, n)' => Due(e, n)
         /\ sent'[e] = sent[e] =>
              \A n \in 2 .. SentCap + 1 : Due(e, n)' => Due(e, n) \/ n = sent[e] + 1
  BY DEF Calm, Due

\* An event in hand is not at risk only if its execution marks it PUBLISHED.
LEMMA InHandAtRisk ==
  ASSUME HandsInv, NEW x \in Executions, NEW e \in DOMAIN batch[x], e \notin contested,
         ~ Publishing(x), sent[e] > 0, table[e].status = "PENDING"
  PROVE  AtRisk(e)
<1>1. \A y \in Executions : e \in DOMAIN batch[y] => y = x
  BY DEF HandsInv
<1> QED
  BY <1>1 DEF AtRisk

\* Counters and mishaps as numbers.
LEMMA PaidTypes ==
  ASSUME TypeInv
  PROVE  /\ mishaps \in Nat /\ SentCap \in Nat \ {0}
         /\ sent \in [EventIds -> 0 .. SentCap]
         /\ \A e \in EventIds : sent[e] \in Nat
  BY ConstantsAssumption DEF TypeInv, TypeOK, SentCap

\* What the broker's counter says after it accepted e.
LEMMA AcceptedCount ==
  ASSUME TypeInv, NEW e \in EventIds, Accepted(e)
  PROVE  /\ sent'[e] = IF sent[e] < SentCap THEN sent[e] + 1 ELSE sent[e]
         /\ \A d \in EventIds : d # e => sent'[d] = sent[d]
<1> DEFINE n == IF sent[e] < SentCap THEN sent[e] + 1 ELSE sent[e]
<1>1. sent' = [sent EXCEPT ![e] = n]
  BY DEF Accepted
<1> HIDE DEF n
<1>2. sent'[e] = n /\ \A d \in EventIds : d # e => sent'[d] = sent[d]
  BY <1>1, PaidTypes
<1> QED
  BY <1>2 DEF n

\* A broker that counts one more delivery, up to its cap, adds no number from 2
\* on but the successor of a positive count.
LEMMA CountsOneMore ==
  ASSUME NEW s \in Nat, NEW t, NEW cap \in Nat, NEW n \in 2 .. cap + 1,
         t = IF s < cap THEN s + 1 ELSE s, n <= t
  PROVE  n <= s \/ (n = s + 1 /\ s > 0)
<1>1. CASE s < cap
  BY <1>1
<1>2. CASE ~ (s < cap)
  BY <1>2
<1> QED
  BY <1>1, <1>2

\* A delivery of an event that, once delivered, is at risk was the first or due.
LEMMA DeliveredWasDue ==
  ASSUME TypeInv, NEW e \in EventIds, Accepted(e), sent[e] > 0 => AtRisk(e),
         NEW n \in 2 .. SentCap + 1, Due(e, n)'
  PROVE  Due(e, n) \/ (n = sent'[e] + 1 /\ AtRisk(e)')
<1>1. sent[e] \in Nat /\ SentCap \in Nat
  BY PaidTypes
<1>2. sent'[e] = IF sent[e] < SentCap THEN sent[e] + 1 ELSE sent[e]
  BY AcceptedCount
<1>3. n <= sent'[e] \/ (n = sent'[e] + 1 /\ AtRisk(e)')
  BY DEF Due
<1>4. n <= sent'[e] => n <= sent[e] \/ (n = sent[e] + 1 /\ sent[e] > 0)
  BY <1>1, <1>2, CountsOneMore
<1> QED
  BY <1>3, <1>4 DEF Due

\* A delivery that is not answered may have to be made again; the delivery
\* itself was either the first, or due already.
LEMMA SendPaid ==
  ASSUME TypeInv, TypeInv', HandsInv, PaidInv, NEW x \in Executions,
         Send(x) \/ SendRefused(x) \/ SendAnswerLost(x)
  PROVE  Cardinality(PaidPairs') <= mishaps'
<1> DEFINE c == Current(x)
<1>1. pc[x] = "sending" /\ UNCHANGED <<table, contested>>
  BY DEF Send, SendRefused, SendAnswerLost, BeginSave
<1>2. c \in DOMAIN batch[x] /\ c \in EventIds
  BY <1>1, CurrentInBatch DEF TypeInv
<1>3. OnlyMoves(x)
  BY DEF Send, SendRefused, SendAnswerLost, BeginSave, TypeInv, DeliveryInv, Shapes,
         OnlyMoves
<1>4. ~ Publishing(x)
  BY <1>1 DEF Publishing
<1>5. \A e \in EventIds : sent'[e] = sent[e] => Calm(e)
  BY <1>1, <1>3, <1>4, CalmUnless
<1>6. c \notin contested => (sent[c] > 0 => AtRisk(c))
  BY <1>1, <1>2, <1>4, InHandAtRisk DEF HandsInv, Held
<1>7. /\ mishaps \in Nat /\ mishaps' \in Nat /\ contested \subseteq contested'
      /\ mishaps' = mishaps => mishaps' >= mishaps
  BY <1>1, PaidTypes DEF TypeInv, TypeOK
<1>8. PICK d \in EventIds : d = c
  BY <1>2
<1> HIDE DEF c
<1>9. CASE SendRefused(x)
  <2>1. UNCHANGED <<sent, mishaps>>
    BY <1>9 DEF SendRefused
  <2>2. \A e \in EventIds : Calm(e)
    BY <1>5, <2>1
  <2> QED
    BY <1>1, <1>7, <2>1, <2>2, DueFrom, NothingDue
<1>10. CASE Send(x)
  <2>1. Accepted(c) /\ UNCHANGED mishaps /\ pc' = [pc EXCEPT ![x] = "publish select"]
        /\ batch' = [batch EXCEPT ![x][c] = [batch[x][c] EXCEPT !.status = "PUBLISHED"]]
    BY <1>10 DEF Send, BeginSave, c
  <2>2. \A e \in EventIds : e # d => Calm(e)
    BY <1>8, <1>5, <2>1, AcceptedCount
  <2>3. DOMAIN batch'[x] = DOMAIN batch[x] /\ pc'[x] = "publish select"
    BY <2>1 DEF TypeInv, DeliveryInv, Shapes
  <2>4. ~ AtRisk(d)'
    BY <1>2, <1>8, <2>3, CurrentStays DEF AtRisk, Publishing, c
  <2>5. ASSUME NEW e \in EventIds, e \notin contested', NEW n \in 2 .. SentCap + 1,
               Due(e, n)'
        PROVE  Due(e, n)
    <3>1. CASE e = d
      BY <1>1, <1>6, <1>8, <2>1, <2>4, <2>5, <3>1, DeliveredWasDue
    <3>2. CASE e # d
      BY <2>2, <2>5, <3>2, DueFrom
    <3> QED
      BY <3>1, <3>2
  <2> QED
    BY <1>7, <2>1, <2>5, NothingDue
<1>11. CASE SendAnswerLost(x)
  <2>1. Accepted(c) /\ mishaps' = mishaps + 1
    BY <1>11 DEF SendAnswerLost, Mishap, c
  <2>2. \A e \in EventIds : e # d => Calm(e)
    BY <1>8, <1>5, <2>1, AcceptedCount
  <2>3. PICK m \in Nat : m = sent'[d] + 1
    BY PaidTypes, <1>8, <2>1, AcceptedCount
  <2>4. ASSUME NEW e \in EventIds, e \notin contested, NEW n \in 2 .. SentCap + 1,
               Due(e, n)'
        PROVE  Due(e, n) \/ (e = d /\ n = m)
    <3>1. CASE e = d
      BY <1>6, <1>8, <2>1, <2>3, <2>4, <3>1, DeliveredWasDue
    <3>2. CASE e # d
      BY <2>2, <2>4, <3>2, DueFrom
    <3> QED
      BY <3>1, <3>2
  <2> QED
    BY <1>1, <1>7, <2>1, <2>4, OneDue
<1> QED
  BY <1>9, <1>10, <1>11

\* A save that succeeds marks its event PUBLISHED or leaves its risk as it was;
\* one that fails is a mishap, which pays for the event at hand.
LEMMA SavePaid ==
  ASSUME TypeInv, TypeInv', HandsInv, HandsInv', PaidInv, NEW x \in Executions,
         Save(x) \/ FailureSaveFails(x) \/ PublishSaveFails(x)
  PROVE  Cardinality(PaidPairs') <= mishaps'
<1> DEFINE c == Current(x)
<1>1. /\ pc[x] # "idle"
      /\ (Writing(x) /\ WriteRow(x)) \/ UNCHANGED table
      /\ UNCHANGED <<sent, contested>>
  BY DEF Save, FailureSaveFails, PublishSaveFails, SaveFailed, Writing
<1>2. c \in DOMAIN batch[x] /\ c \in EventIds
  BY <1>1, CurrentInBatch DEF TypeInv
<1>3. OnlyMoves(x)
  <2>1. CASE PublishSaveFails(x)
    BY <2>1 DEF PublishSaveFails, TypeInv, DeliveryInv, Shapes, OnlyMoves
  <2>2. CASE Save(x) \/ FailureSaveFails(x)
    <3>1. NextEvent(x) \/ EndExecution(x)
      BY <2>2 DEF Save, FailureSaveFails
    <3> QED
      BY <1>1, <3>1, LoopKeeps DEF TypeInv
  <2> QED
    BY <2>1, <2>2
<1>4. \A e \in EventIds : e # c => table'[e] = table[e]
  BY <1>1, FreshWrite
<1>5. \A e \in EventIds : e # c => Calm(e)
  BY <1>1, <1>3, <1>4, CalmUnless
<1>6. mishaps \in Nat /\ sent[c] \in Nat
  BY <1>2, PaidTypes
<1>7. CASE Save(x)
  <2>1. Writing(x) /\ WriteRow(x) /\ UNCHANGED mishaps
    BY <1>7 DEF Save, Writing
  <2>2. ASSUME c \notin contested PROVE Calm(c)
    <3>1. table'[c] = batch[x][c] /\ Held(x, c)
      BY <1>2, <2>1, <2>2, FreshWrite DEF HandsInv
    <3>2. CASE Publishing(x)
      <4>1. table[c] \in Rows
        BY <1>2 DEF TypeInv, TypeOK
      <4>2. table'[c].status = "PUBLISHED"
        BY <3>1, <3>2, <4>1 DEF Held, Rows
      <4> QED
        BY <1>1, <1>2, <1>3, <4>2, CalmUnless
    <3>3. CASE Failing(x)
      <4>1. table'[c].status = "PENDING" => table[c].status = "PENDING"
        BY <3>1, <3>3 DEF Held, FailedFrom
      <4>2. ~ Publishing(x)
        BY <3>3 DEF Failing, Publishing
      <4> QED
        BY <1>1, <1>2, <1>3, <4>1, <4>2, CalmUnless
    <3> QED
      BY <2>1, <3>2, <3>3 DEF Writing, Publishing, Failing
  <2>3. \A e \in EventIds : e \notin contested' => Calm(e)
    BY <1>1, <1>5, <2>2
  <2> QED
    BY <1>1, <1>6, <2>1, <2>3, DueFrom, NothingDue
<1>8. CASE FailureSaveFails(x) \/ PublishSaveFails(x)
  <2>1. mishaps' = mishaps + 1
    BY <1>8 DEF FailureSaveFails, PublishSaveFails, SaveFailed, Mishap
  <2>2. PICK m \in Nat : m = sent[c] + 1
    BY <1>6
  <2>3. PICK d \in EventIds : d = c
    BY <1>2
  <2>4. \A e \in EventIds : e \notin contested =>
          \A n \in 2 .. SentCap + 1 : Due(e, n)' => Due(e, n) \/ (e = d /\ n = m)
    BY <1>1, <1>5, <2>2, <2>3, DueFrom
  <2> QED
    BY <1>1, <1>6, <2>1, <2>4, OneDue
<1> QED
  BY <1>7, <1>8

\* A crash is a mishap, and puts at risk at most the event that the only
\* running execution of the process was marking PUBLISHED.
LEMMA CrashPaid ==
  ASSUME TypeInv, TypeInv', HandsInv, PaidInv, NEW p \in Processes, Crash(p)
  PROVE  Cardinality(PaidPairs') <= mishaps'
<1>1. /\ UNCHANGED <<table, sent, contested>> /\ mishaps' = mishaps + 1
      /\ \A y \in Executions : ProcessOf[y] # p => batch'[y] = batch[y] /\ pc'[y] = pc[y]
  BY DEF Crash, Mishap
<1>2. mishaps \in Nat
  BY PaidTypes
<1>3. ASSUME NEW e \in EventIds,
             \A x \in Executions :
               ProcessOf[x] = p /\ pc[x] # "idle" => e # Current(x)
      PROVE  Calm(e)
  <2> SUFFICES ASSUME AtRisk(e)' PROVE AtRisk(e)
    BY <1>1 DEF Calm
  <2>1. ASSUME NEW y \in Executions, e \in DOMAIN batch[y], e = Current(y)
        PROVE  ~ Publishing(y)
    <3>1. CASE ProcessOf[y] = p
      BY <1>3, <2>1, <3>1 DEF Publishing
    <3>2. CASE ProcessOf[y] # p
      <4>1. batch'[y] = batch[y] /\ pc'[y] = pc[y]
        BY <1>1, <3>2
      <4>2. Current(y)' = Current(y)
        BY <4>1, CurrentStays
      <4> QED
        BY <2>1, <4>1, <4>2 DEF AtRisk, Publishing
    <3> QED
      BY <3>1, <3>2
  <2> QED
    BY <1>1, <2>1 DEF AtRisk
<1>4. CASE \E x \in Executions : ProcessOf[x] = p /\ pc[x] # "idle"
  <2>1. PICK x \in Executions : ProcessOf[x] = p /\ pc[x] # "idle"
    BY <1>4
  <2>2. \A y \in Executions : ProcessOf[y] = p /\ pc[y] # "idle" => y = x
    BY <2>1 DEF TypeInv, RunInv
  <2>3. PICK d \in EventIds : d = Current(x)
    BY <2>1, CurrentInBatch DEF TypeInv
  <2>4. PICK m \in Nat : m = sent[d] + 1
    BY PaidTypes
  <2>5. \A e \in EventIds : e # d => Calm(e)
    BY <1>3, <2>2, <2>3
  <2>6. \A e \in EventIds : e \notin contested =>
          \A n \in 2 .. SentCap + 1 : Due(e, n)' => Due(e, n) \/ (e = d /\ n = m)
    BY <1>1, <2>4, <2>5, DueFrom
  <2> QED
    BY <1>1, <1>2, <2>6, OneDue
<1>5. CASE ~ \E x \in Executions : ProcessOf[x] = p /\ pc[x] # "idle"
  <2>1. \A e \in EventIds : Calm(e)
    BY <1>3, <1>5
  <2>2. mishaps' \in Nat /\ mishaps' >= mishaps /\ contested \subseteq contested'
    BY <1>1, <1>2
  <2> QED
    BY <1>1, <1>2, <2>1, <2>2, DueFrom, NothingDue
<1> QED
  BY <1>4, <1>5

\* A row that is inserted was never sent; a tick, a select and a stutter change
\* nothing that is due.
LEMMA QuietPaid ==
  ASSUME TypeInv, TypeInv', HandsInv, PaidInv,
         \/ \E e \in EventIds : Insert(e)
         \/ \E x \in Executions : Tick(x) \/ SelectForSave(x)
         \/ UNCHANGED vars
  PROVE  Cardinality(PaidPairs') <= mishaps'
<1>1. mishaps \in Nat /\ UNCHANGED mishaps
  BY PaidTypes DEF Insert, Tick, SelectForSave, vars
<1>2. ASSUME NEW e \in EventIds, Insert(e)
      PROVE  Cardinality(PaidPairs') <= mishaps'
  <2>1. /\ table[e].status = "ABSENT"
        /\ \A d \in EventIds : d # e => table'[d] = table[d]
        /\ UNCHANGED <<sent, contested, batch, pc>>
    BY <1>2 DEF Insert, NoRow, TypeInv, TypeOK
  <2>2. \A x \in Executions : Current(x)' = Current(x)
    BY <2>1, CurrentStays
  <2>3. \A d \in EventIds : d # e => (AtRisk(d)' => AtRisk(d))
    BY <2>1, <2>2 DEF AtRisk, Publishing
  <2>4. e \notin contested => ~ AtRisk(e)'
    BY <2>1 DEF AtRisk, PaidInv, UnsentInv
  <2>5. \A d \in EventIds : d \notin contested' => Calm(d)
    BY <2>1, <2>3, <2>4 DEF Calm
  <2> QED
    BY <1>1, <2>1, <2>5, DueFrom, NothingDue
<1>3. ASSUME NEW x \in Executions, Tick(x) \/ SelectForSave(x)
      PROVE  Cardinality(PaidPairs') <= mishaps'
  <2>1. UNCHANGED <<table, sent>> /\ contested \subseteq contested' /\ OnlyMoves(x)
    BY <1>3 DEF Tick, Fetch, SelectForSave, TypeInv, DeliveryInv, Shapes, OnlyMoves
  <2>2. CASE Tick(x)
    <3>1. ~ Publishing(x)
      BY <2>2 DEF Tick, Publishing
    <3>2. \A e \in EventIds : Calm(e)
      BY <2>1, <3>1, CalmUnless
    <3> QED
      BY <1>1, <2>1, <3>2, DueFrom, NothingDue
  <2>3. CASE SelectForSave(x)
    <3>1. /\ UNCHANGED <<batch, contested>>
          /\ Publishing(x) => Publishing(x)'
          /\ \A y \in Executions : y # x => pc'[y] = pc[y]
      BY <2>3 DEF SelectForSave, Publishing, TypeInv, TypeOK
    <3>2. \A y \in Executions : Current(y)' = Current(y)
      BY <3>1, CurrentStays
    <3>3. \A y \in Executions : Publishing(y) => Publishing(y)'
      BY <3>1 DEF Publishing
    <3>4. \A e \in EventIds : Calm(e)
      BY <2>1, <3>1, <3>2, <3>3 DEF Calm, AtRisk
    <3> QED
      BY <1>1, <2>1, <3>4, DueFrom, NothingDue
  <2> QED
    BY <1>3, <2>2, <2>3
<1>4. CASE UNCHANGED vars
  <2>1. UNCHANGED <<table, sent, contested, batch, pc>>
    BY <1>4 DEF vars
  <2>2. \A y \in Executions : Current(y)' = Current(y)
    BY <2>1, CurrentStays
  <2>3. \A e \in EventIds : Calm(e)
    BY <2>1, <2>2 DEF Calm, AtRisk, Publishing
  <2> QED
    BY <1>1, <2>1, <2>3, DueFrom, NothingDue
<1> QED
  BY <1>2, <1>3, <1>4

\* A row is never deleted, and an event that is sent for the first time has one:
\* unless it is contested, it is held by the execution that sends it.
LEMMA UnwrittenUnsent ==
  ASSUME TypeInv, TypeInv', HandsInv, UnsentInv, [Next]_vars,
         NEW e \in EventIds, e \notin contested', table'[e].status = "ABSENT"
  PROVE  sent'[e] = 0
<1> DEFINE Goal == sent'[e] = 0
<1> SUFFICES Goal
  OBVIOUS
<1>1. e \notin contested
  BY DEF Next, Progress, Insert, Tick, Fetch, Send, SendRefused, SendAnswerLost,
     SelectForSave, Save, PublishSaveFails, FailureSaveFails, SaveFailed, Crash, vars
<1>2. table[e].status = "ABSENT" => sent[e] = 0
  BY <1>1 DEF UnsentInv
<1>3. table \in [EventIds -> Rows]
  BY DEF TypeInv, TypeOK
<1>4. UNCHANGED <<table, sent>> => Goal
  BY <1>2
<1>5. ASSUME NEW d \in EventIds, Insert(d) PROVE Goal
  <2>1. d # e => table'[e] = table[e]
    BY <1>3, <1>5 DEF Insert
  <2>2. table'[d].status = "PENDING" /\ UNCHANGED sent
    BY <1>3, <1>5 DEF Insert, NewRow
  <2> QED
    BY <1>2, <2>1, <2>2
<1>6. ASSUME NEW x \in Executions, Tick(x) \/ SendRefused(x) \/ SelectForSave(x)
      PROVE  Goal
  <2>1. UNCHANGED <<table, sent>>
    BY <1>6 DEF Tick, SendRefused, SelectForSave, BeginSave
  <2> QED
    BY <1>4, <2>1
<1>7. ASSUME NEW p \in Processes, Crash(p) PROVE Goal
  BY <1>4, <1>7 DEF Crash
<1>8. ASSUME NEW x \in Executions, Send(x) \/ SendAnswerLost(x) PROVE Goal
  <2>1. pc[x] = "sending" /\ Accepted(Current(x)) /\ UNCHANGED table
    BY <1>8 DEF Send, SendAnswerLost, BeginSave
  <2>2. PICK d \in EventIds : d = Current(x) /\ d \in DOMAIN batch[x]
    BY <2>1, CurrentInBatch DEF TypeInv
  <2>3. d \notin contested => table[d].status = "PENDING"
    BY <2>1, <2>2 DEF HandsInv, Held
  <2>4. e # d => sent'[e] = sent[e]
    BY <2>1, <2>2, AcceptedCount
  <2> QED
    BY <1>1, <1>2, <2>1, <2>3, <2>4
<1>9. ASSUME NEW x \in Executions, Save(x) \/ FailureSaveFails(x) \/ PublishSaveFails(x)
      PROVE  Goal
  <2>1. /\ pc[x] # "idle"
        /\ (Writing(x) /\ WriteRow(x)) \/ UNCHANGED table
        /\ UNCHANGED sent
    BY <1>9 DEF Save, FailureSaveFails, PublishSaveFails, SaveFailed, Writing
  <2>2. CASE UNCHANGED table
    BY <1>4, <2>1, <2>2
  <2>3. CASE Writing(x) /\ WriteRow(x)
    <3>1. PICK d \in EventIds : d = Current(x) /\ d \in DOMAIN batch[x]
      BY <2>1, CurrentInBatch DEF TypeInv
    <3>2. e # d => table'[e] = table[e]
      BY <2>3, <3>1, FreshWrite
    <3>3. d \notin contested => table'[d].status # "ABSENT"
      <4>1. d \notin contested => table'[d] = batch[x][d] /\ Held(x, d)
        BY <2>3, <3>1, FreshWrite DEF HandsInv
      <4>2. table[d] \in Rows
        BY <1>3
      <4>3. CASE Publishing(x)
        BY <3>1, <4>1, <4>2, <4>3 DEF Held, Rows
      <4>4. CASE Failing(x)
        BY <3>1, <4>1, <4>4 DEF Held, FailedFrom
      <4> QED
        BY <2>3, <4>3, <4>4 DEF Writing, Publishing, Failing
    <3> QED
      BY <1>1, <1>2, <2>1, <3>2, <3>3
  <2> QED
    BY <2>1, <2>2, <2>3
<1>10. CASE UNCHANGED vars
  BY <1>4, <1>10 DEF vars
<1> QED
  BY <1>5, <1>6, <1>7, <1>8, <1>9, <1>10 DEF Next, Progress

LEMMA PaidStep ==
  TypeInv /\ TypeInv' /\ HandsInv /\ HandsInv' /\ PaidInv /\ [Next]_vars => PaidInv'
<1> SUFFICES ASSUME TypeInv, TypeInv', HandsInv, HandsInv', PaidInv, [Next]_vars
             PROVE  PaidInv'
  OBVIOUS
<1>1. Cardinality(PaidPairs') <= mishaps'
  BY SendPaid, SavePaid, CrashPaid, QuietPaid DEF Next, Progress
<1>2. UnsentInv'
  BY UnwrittenUnsent DEF PaidInv, UnsentInv
<1> QED
  BY <1>1, <1>2 DEF PaidInv

LEMMA PaidInit == Init => PaidInv
<1> SUFFICES ASSUME Init PROVE PaidInv
  OBVIOUS
<1>1. mishaps = 0 /\ \A e \in EventIds : sent[e] = 0
  BY DEF Init
<1>2. PaidPairs = {}
  BY <1>1, ConstantsAssumption DEF PaidPairs, Due, AtRisk, SentCap
<1>3. Cardinality(PaidPairs) = 0
  BY <1>2, FS_EmptySet
<1> QED
  BY <1>1, <1>3 DEF PaidInv, UnsentInv

\* For any number of replicas, an event that no two processes had in hand at
\* once is sent again only when a mishap paid for it.
THEOREM DuplicatesPaid == Spec => []DuplicatesArePaidFor
<1> DEFINE Inv == TypeInv /\ HandsInv /\ PaidInv
<1>1. Init => Inv
  BY TypeInit, HandsInit, PaidInit
<1>2. Inv /\ [Next]_vars => Inv'
  BY TypeStep, HandsStep, PaidStep
<1>3. Inv => DuplicatesArePaidFor
  <2> SUFFICES ASSUME TypeInv, PaidInv PROVE Duplicates <= mishaps
    BY DEF DuplicatesArePaidFor
  <2> DEFINE D == {p \in (EventIds \ contested) \X (2 .. SentCap) : p[2] <= sent[p[1]]}
  <2>1. D \in SUBSET PaidPairs
    BY PaidTypes DEF PaidPairs, Due
  <2>2. IsFiniteSet(PaidPairs) /\ Cardinality(PaidPairs) \in Nat /\ mishaps \in Nat
    BY PairsFinite, PaidTypes
  <2>3. Cardinality(D) \in Nat /\ Cardinality(D) <= Cardinality(PaidPairs)
    BY <2>1, <2>2, FS_Subset, FS_CardinalityType
  <2>4. Cardinality(PaidPairs) <= mishaps
    BY DEF PaidInv
  <2>5. Cardinality(D) <= mishaps
    BY <2>2, <2>3, <2>4
  <2> QED
    BY <2>5 DEF Duplicates
<1> QED
  BY <1>1, <1>2, <1>3, PTL DEF Spec

-------------------------------------------------------------------------------
(* What a step does to the table, for those who look at it from outside *)

\* The invariants that say what rows may become.
RowsInv == TypeInv /\ HandsInv /\ UnsentInv

LEMMA RowsInit == Init => RowsInv
  BY TypeInit, HandsInit DEF Init, RowsInv, UnsentInv

LEMMA RowsStep == RowsInv /\ [Next]_vars => RowsInv'
  BY TypeStep, HandsStep, UnwrittenUnsent DEF RowsInv, UnsentInv

\* A mishap of someone else changes nothing here.
LEMMA RowsElsewhere ==
  ASSUME RowsInv, mishaps' \in 0 .. MaxMishaps,
         UNCHANGED <<table, sent, refused, isProcessing, pc, batch, snap, contested>>
  PROVE  RowsInv'
<1>1. TypeInv'
  BY DEF RowsInv, TypeInv, TypeOK, DeliveryInv, Shapes, TableBacked, BatchBacked, Backed,
     RunInv
<1>2. HandsInv'
  BY HandsQuiet DEF RowsInv
<1>3. UnsentInv'
  BY DEF RowsInv, UnsentInv
<1> QED
  BY <1>1, <1>2, <1>3 DEF RowsInv

-------------------------------------------------------------------------------
(* What is sent was committed, contested or not *)

InTable(e) == table[e].status # "ABSENT"

\* Whatever is in a batch or was sent is a row of the table.
WrittenInv ==
  /\ \A x \in Executions : \A e \in DOMAIN batch[x] :
       InTable(e) /\ batch[x][e].status # "ABSENT"
  /\ \A e \in EventIds : sent[e] > 0 => InTable(e)

LEMMA WrittenInit == Init => WrittenInv
  BY DEF Init, WrittenInv, NoBatch

\* An execution hands on what its batch held, or rows.
LEMMA WrittenKept ==
  ASSUME WrittenInv,
         \A e \in EventIds : InTable(e) => InTable(e)',
         \A x \in Executions : \A e \in DOMAIN batch'[x] :
           InTable(e)' /\ batch'[x][e].status # "ABSENT",
         \A e \in EventIds : sent'[e] > 0 => sent[e] > 0 \/ InTable(e)
  PROVE  WrittenInv'
  BY DEF WrittenInv

\* Stale saves overwrite rows, and nothing deletes them.
LEMMA WrittenStep ==
  ASSUME TypeInv, WrittenInv, [Next]_vars
  PROVE  WrittenInv'
<1> DEFINE RowsKept == \A e \in EventIds : InTable(e) => InTable(e)'
           BatchesKept == \A x \in Executions : \A e \in DOMAIN batch'[x] :
                            InTable(e) /\ batch'[x][e].status # "ABSENT"
           SendsKept == \A e \in EventIds : sent'[e] > 0 => sent[e] > 0 \/ InTable(e)
<1>a. /\ table \in [EventIds -> Rows]
      /\ \A x \in Executions : DOMAIN batch[x] \in SUBSET EventIds
      /\ Shapes /\ Shapes'
      /\ \A x \in Executions : \A e \in DOMAIN batch'[x] : e \in EventIds
      /\ \A x \in Executions : pc[x] # "idle" =>
           Current(x) \in EventIds /\ Current(x) \in DOMAIN batch[x]
  <2>1. DeliveryInv' /\ TypeOK'
    BY TypeStep DEF TypeInv
  <2> QED
    BY <2>1, CurrentInBatch DEF TypeInv, TypeOK, DeliveryInv
<1>b. RowsKept /\ BatchesKept /\ SendsKept => WrittenInv'
  BY <1>a, WrittenKept
<1>c. UNCHANGED table => RowsKept
  BY DEF InTable
<1>d. UNCHANGED sent => SendsKept
  OBVIOUS
<1>e. UNCHANGED batch => BatchesKept
  BY DEF WrittenInv
<1>f. ASSUME NEW x \in Executions, pc[x] # "idle", WriteRow(x) \/ UNCHANGED table
      PROVE  RowsKept
  BY <1>a, <1>f DEF WriteRow, Written, Column, InTable, WrittenInv
<1>g. ASSUME NEW x \in Executions, pc[x] # "idle",
             NEW entity, entity.status # "ABSENT",
             batch' = [batch EXCEPT ![x] = [batch[x] EXCEPT ![Current(x)] = entity]]
      PROVE  BatchesKept
  <2>1. /\ \A y \in Executions : y # x => batch'[y] = batch[y]
        /\ batch'[x] = [batch[x] EXCEPT ![Current(x)] = entity]
    BY <1>a, <1>g DEF Shapes
  <2> QED
    BY <1>a, <1>g, <2>1 DEF WrittenInv
<1>h. ASSUME NEW x \in Executions, pc[x] # "idle"
      PROVE  /\ [batch[x][Current(x)] EXCEPT !.status = "PUBLISHED"].status # "ABSENT"
             /\ Failed(batch[x][Current(x)]).status # "ABSENT"
  <2>1. batch[x][Current(x)] \in Rows /\ batch[x][Current(x)].status # "ABSENT"
    BY <1>a, <1>h DEF TypeInv, TypeOK, WrittenInv
  <2> QED
    BY <2>1 DEF Failed, Rows
<1>1. ASSUME NEW e \in EventIds, Insert(e) PROVE WrittenInv'
  <2>1. RowsKept
    BY <1>a, <1>1 DEF Insert, InTable, NoRow, NewRow
  <2>2. UNCHANGED <<batch, sent>>
    BY <1>1 DEF Insert
  <2> QED
    BY <1>b, <1>d, <1>e, <2>1, <2>2
<1>2. ASSUME NEW x \in Executions, Tick(x) PROVE WrittenInv'
  <2>1. /\ \A y \in Executions : y # x => batch'[y] = batch[y]
        /\ DOMAIN batch'[x] = Oldest
        /\ \A e \in Oldest : batch'[x][e] = table[e]
        /\ UNCHANGED <<table, sent>>
    BY <1>a, <1>2 DEF Tick, Fetch, Shapes
  <2>2. \A e \in Oldest : InTable(e)
    BY DEF Oldest, Pending, InTable
  <2>3. BatchesKept
    BY <2>1, <2>2 DEF WrittenInv, InTable
  <2> QED
    BY <1>b, <1>c, <1>d, <2>1, <2>3
<1>3. ASSUME NEW x \in Executions, Send(x) \/ SendRefused(x) \/ SendAnswerLost(x)
      PROVE  WrittenInv'
  <2>1. pc[x] # "idle" /\ UNCHANGED table /\ (Accepted(Current(x)) \/ UNCHANGED sent)
    BY <1>3 DEF Send, SendRefused, SendAnswerLost, BeginSave
  <2>2. BatchesKept
    BY <1>3, <1>g, <1>h, <2>1 DEF Send, SendRefused, SendAnswerLost, BeginSave
  <2>3. SendsKept
    BY <1>a, <2>1, AcceptedCount DEF WrittenInv
  <2> QED
    BY <1>b, <1>c, <2>1, <2>2, <2>3
<1>4. ASSUME NEW x \in Executions, SelectForSave(x) PROVE WrittenInv'
  <2>1. UNCHANGED <<table, sent, batch>>
    BY <1>4 DEF SelectForSave
  <2> QED
    BY <1>b, <1>c, <1>d, <1>e, <2>1
<1>5. ASSUME NEW x \in Executions, Save(x) \/ FailureSaveFails(x) PROVE WrittenInv'
  <2>1. /\ pc[x] # "idle" /\ (WriteRow(x) \/ UNCHANGED table) /\ UNCHANGED sent
        /\ NextEvent(x) \/ EndExecution(x)
    BY <1>5 DEF Save, FailureSaveFails, SaveFailed
  <2>2. /\ \A y \in Executions : y # x => batch'[y] = batch[y]
        /\ \A e \in DOMAIN batch'[x] : e \in DOMAIN batch[x] /\ batch'[x][e] = batch[x][e]
    BY <1>a, <2>1 DEF NextEvent, EndExecution, NoBatch, Shapes
  <2>3. BatchesKept
    BY <2>2 DEF WrittenInv
  <2> QED
    BY <1>b, <1>d, <1>f, <2>1, <2>3
<1>6. ASSUME NEW x \in Executions, PublishSaveFails(x) PROVE WrittenInv'
  <2>1. /\ pc[x] # "idle" /\ (WriteRow(x) \/ UNCHANGED table) /\ UNCHANGED sent
        /\ batch' = [batch EXCEPT ![x] =
                       [batch[x] EXCEPT ![Current(x)] = Failed(batch[x][Current(x)])]]
    BY <1>6 DEF PublishSaveFails, SaveFailed
  <2>2. BatchesKept
    BY <1>g, <1>h, <2>1
  <2> QED
    BY <1>b, <1>d, <1>f, <2>1, <2>2
<1>7. ASSUME NEW p \in Processes, Crash(p) PROVE WrittenInv'
  <2>1. /\ UNCHANGED <<table, sent>>
        /\ \A x \in Executions : batch'[x] \in {NoBatch, batch[x]}
    BY <1>7 DEF Crash
  <2>2. BatchesKept
    BY <2>1 DEF WrittenInv, NoBatch
  <2> QED
    BY <1>b, <1>c, <1>d, <2>1, <2>2
<1>8. CASE UNCHANGED vars
  BY <1>b, <1>c, <1>d, <1>e, <1>8 DEF vars
<1> QED
  BY <1>1, <1>2, <1>3, <1>4, <1>5, <1>6, <1>7, <1>8 DEF Next, Progress

\* A mishap of someone else changes nothing here.
LEMMA WrittenElsewhere ==
  ASSUME WrittenInv, UNCHANGED <<table, sent, batch>>
  PROVE  WrittenInv'
  BY DEF WrittenInv, InTable

\* Contested events stay contested. Only a tick, which leaves the table alone,
\* adds to them, and only events that are in the table.
LEMMA ContestedOutcome ==
  ASSUME Next
  PROVE  \/ UNCHANGED contested
         \/ /\ UNCHANGED table
            /\ contested \subseteq contested'
            /\ \A e \in contested' \ contested : e \in EventIds /\ InTable(e)
<1>1. ASSUME NEW x \in Executions, Tick(x)
      PROVE  /\ UNCHANGED table /\ contested \subseteq contested'
             /\ \A e \in contested' \ contested : e \in EventIds /\ InTable(e)
  <2>1. \A e \in Oldest : e \in EventIds /\ InTable(e)
    BY DEF Oldest, Pending, InTable
  <2> QED
    BY <1>1, <2>1 DEF Tick, Fetch
<1> QED
  BY <1>1
     DEF Next, Progress, Insert, Send, SendRefused, SendAnswerLost, SelectForSave, Save,
         PublishSaveFails, FailureSaveFails, SaveFailed, Crash

\* A row is inserted once, rows change one at a time and are never deleted, and
\* once parked a row never changes again, unless it is contested.
LEMMA RowOutcome ==
  ASSUME RowsInv, WrittenInv, Next
  PROVE  \/ UNCHANGED table
         \/ \E e \in EventIds :
              /\ table[e].status = "ABSENT" /\ table'[e].status = "PENDING"
              /\ \A d \in EventIds : d # e => table'[d] = table[d]
         \/ \E e \in EventIds :
              /\ table[e].status # "ABSENT" /\ table'[e].status # "ABSENT"
              /\ table[e].status = "FAILED" => e \in contested
              /\ \A d \in EventIds : d # e => table'[d] = table[d]
<1> DEFINE Goal ==
      \/ UNCHANGED table
      \/ \E e \in EventIds :
           /\ table[e].status = "ABSENT" /\ table'[e].status = "PENDING"
           /\ \A d \in EventIds : d # e => table'[d] = table[d]
      \/ \E e \in EventIds :
           /\ table[e].status # "ABSENT" /\ table'[e].status # "ABSENT"
           /\ table[e].status = "FAILED" => e \in contested
           /\ \A d \in EventIds : d # e => table'[d] = table[d]
<1> SUFFICES Goal
  OBVIOUS
<1>1. TypeInv /\ HandsInv /\ table \in [EventIds -> Rows]
  BY DEF RowsInv, TypeInv, TypeOK
<1>2. UNCHANGED table => Goal
  OBVIOUS
<1>3. ASSUME NEW e \in EventIds, Insert(e) PROVE Goal
  <2>1. table[e].status = "ABSENT" /\ table'[e].status = "PENDING"
    BY <1>1, <1>3 DEF Insert, NoRow, NewRow
  <2>2. \A d \in EventIds : d # e => table'[d] = table[d]
    BY <1>1, <1>3 DEF Insert
  <2> QED
    BY <2>1, <2>2
<1>4. ASSUME NEW x \in Executions, Writing(x), WriteRow(x) PROVE Goal
  <2>1. pc[x] # "idle"
    BY <1>4 DEF Writing
  <2>2. PICK e \in EventIds : e = Current(x) /\ e \in DOMAIN batch[x]
    BY <1>1, <2>1, CurrentInBatch DEF TypeInv
  <2>3. \A d \in EventIds : d # e => table'[d] = table[d]
    BY <1>1, <1>4, <2>2, FreshWrite
  <2>4. table[e].status # "ABSENT" /\ batch[x][e].status # "ABSENT"
    BY <2>2 DEF WrittenInv, InTable
  <2>5. table'[e].status # "ABSENT"
    BY <1>1, <1>4, <2>2, <2>4 DEF WriteRow, Written, Column
  <2>6. e \notin contested => table[e].status # "FAILED"
    <3>1. e \notin contested => Held(x, e)
      BY <1>1, <2>2 DEF HandsInv
    <3>2. Publishing(x) \/ Failing(x)
      BY <1>4 DEF Writing, Publishing, Failing
    <3> QED
      BY <2>2, <3>1, <3>2 DEF Held, FailedFrom
  <2> QED
    BY <2>3, <2>4, <2>5, <2>6
<1>5. ASSUME NEW x \in Executions,
             Tick(x) \/ Send(x) \/ SendRefused(x) \/ SendAnswerLost(x) \/ SelectForSave(x)
      PROVE  UNCHANGED table
  BY <1>5 DEF Tick, Send, SendRefused, SendAnswerLost, SelectForSave, BeginSave
<1>6. ASSUME NEW x \in Executions, Save(x) \/ PublishSaveFails(x) \/ FailureSaveFails(x)
      PROVE  UNCHANGED table \/ (Writing(x) /\ WriteRow(x))
  BY <1>6 DEF Save, PublishSaveFails, FailureSaveFails, SaveFailed, Writing
<1>7. ASSUME NEW p \in Processes, Crash(p) PROVE UNCHANGED table
  BY <1>7 DEF Crash
<1> HIDE DEF Goal
<1> QED
  BY <1>2, <1>3, <1>4, <1>5, <1>6, <1>7 DEF Next, Progress

===============================================================================
