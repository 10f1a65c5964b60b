------------------------ MODULE TransactionProcessing ------------------------
(***************************************************************************)
(* Creating and processing payment transactions: the two command handlers, *)
(* the row each one writes, the outbox events committed with the row, and  *)
(* the payment gateway. A request is one execution of the process handler; *)
(* requests interleave at their awaits, the database fails or answers too  *)
(* late, the gateway loses answers, and a server may die at any await.     *)
(*                                                                         *)
(* repo.save of a loaded entity selects the row and updates, by primary    *)
(* key, the columns in which the entity differs from it. It compares no    *)
(* version, so requests that have loaded one pending row reserve it one    *)
(* after another, and the catch for OptimisticLockVersionMismatchError is  *)
(* never entered. The version column, which nothing reads, is left out.    *)
(***************************************************************************)
EXTENDS Naturals, Sequences, FiniteSets, TransactionStatus

CONSTANTS
  Transactions,       \* ids of transactions
  Requests,           \* executions of the process handler
  Null,               \* the SQL NULL of external_id and failure_reason
  NoExternalId,       \* 'no-external-id', for a success without a reference
  NoTransaction       \* a request that has not loaded its transaction yet

ASSUME ConstantsAssumption ==
  /\ Null \notin Requests
  /\ NoExternalId \notin Requests
  /\ NoExternalId # Null
  /\ NoTransaction \notin Transactions
  /\ Null \notin {"declined", "gateway error"}

VARIABLES
  rows,      \* the transactions table
  log,       \* per transaction, its outbox rows in the order they committed
  charged,   \* the requests for which the gateway captured money
  reserved,  \* history: the requests whose first database transaction committed
  pc,        \* where each request is
  target,    \* the transaction each request loaded
  mem,       \* the entity each request holds in memory
  snap,      \* the row the save in progress has selected to compare with
  answer     \* the HTTP outcome of each request

vars == <<rows, log, charged, reserved, pc, target, mem, snap, answer>>

-----------------------------------------------------------------------------
(* Data *)

Reasons == {"declined", "gateway error"}

\* The columns of TransactionEntity that processing changes
Entities ==
  [status        : Statuses \cup {"ABSENT"},
   externalId    : Requests \cup {NoExternalId, Null},
   failureReason : Reasons \cup {Null}]

NoRow == [status |-> "ABSENT", externalId |-> Null, failureReason |-> Null]

\* The row a create inserts: PENDING, both nullable columns null
NewRow == [status |-> "PENDING", externalId |-> Null, failureReason |-> Null]

Events ==
  [type          : {"Created", "Processing", "Processed"},
   status        : Statuses,
   externalId    : Requests \cup {NoExternalId, Null},
   failureReason : Reasons \cup {Null}]

\* outboxService.saveEvent: the payload is taken from the entity in memory
Event(type, entity) ==
  [type |-> type, status |-> entity.status, externalId |-> entity.externalId,
   failureReason |-> entity.failureReason]

\* transitionTo(PROCESSING), complete(externalId) and fail(reason)
MarkAsProcessing(entity) == [entity EXCEPT !.status = "PROCESSING"]

Complete(entity, id) ==
  [entity EXCEPT !.status = "COMPLETED", !.externalId = id]

Fail(entity, reason) ==
  [entity EXCEPT !.status = "FAILED", !.failureReason = reason]

\* repo.save of a loaded entity: only the columns that differ from the row it
\* selected are written
Column(current, new, selected) == IF new # selected THEN new ELSE current

Written(row, entity, selected) ==
  [status |-> Column(row.status, entity.status, selected.status),
   externalId |-> Column(row.externalId, entity.externalId, selected.externalId),
   failureReason |->
     Column(row.failureReason, entity.failureReason, selected.failureReason)]

-----------------------------------------------------------------------------
(* State *)

Locations ==
  {"idle", "reserve select", "reserve write", "charging",
   "settle select", "settle write", "done", "crashed"}

Answers == {"none", "200", "404", "409", "500"}

Init ==
  /\ rows    = [t \in Transactions |-> NoRow]
  /\ log     = [t \in Transactions |-> <<>>]
  /\ charged = {}
  /\ reserved = {}
  /\ pc      = [r \in Requests |-> "idle"]
  /\ target  = [r \in Requests |-> NoTransaction]
  /\ mem     = [r \in Requests |-> NoRow]
  /\ snap    = [r \in Requests |-> NoRow]
  /\ answer  = [r \in Requests |-> "none"]

\* A request leaves its handler with an HTTP outcome
Respond(r, code) ==
  /\ pc'     = [pc EXCEPT ![r] = "done"]
  /\ answer' = [answer EXCEPT ![r] = code]
  /\ snap'   = [snap EXCEPT ![r] = NoRow]

-----------------------------------------------------------------------------
(* Actions *)

\* CreateTransactionHandler.execute: the row and its event in one database
\* transaction. A create that fails rolls both back and changes nothing.
Create(t) ==
  /\ rows[t] = NoRow
  /\ rows' = [rows EXCEPT ![t] = NewRow]
  /\ log'  = [log EXCEPT ![t] = Append(@, Event("Created", NewRow))]
  /\ UNCHANGED <<charged, reserved, pc, target, mem, snap, answer>>

\* ProcessTransactionHandler.execute: findById returned no row
NotFound(r, t) ==
  /\ pc[r] = "idle"
  /\ rows[t] = NoRow
  /\ Respond(r, "404")
  /\ target' = [target EXCEPT ![r] = t]
  /\ UNCHANGED <<rows, log, charged, reserved, mem>>

\* findById returned a row whose status does not allow PROCESSING
\* (InvalidStatusTransitionError)
RejectTransition(r, t) ==
  /\ pc[r] = "idle"
  /\ rows[t] # NoRow
  /\ ~ IsValidTransition(rows[t].status, "PROCESSING")
  /\ Respond(r, "409")
  /\ target' = [target EXCEPT ![r] = t]
  /\ UNCHANGED <<rows, log, charged, reserved, mem>>

\* Mutant: markAsProcessing assigns the status without asking isValidTransition
LoadUnguarded(r, t) ==
  /\ pc[r] = "idle"
  /\ rows[t] # NoRow
  /\ pc'     = [pc EXCEPT ![r] = "reserve select"]
  /\ target' = [target EXCEPT ![r] = t]
  /\ mem'    = [mem EXCEPT ![r] = MarkAsProcessing(rows[t])]
  /\ UNCHANGED <<rows, log, charged, reserved, snap, answer>>

\* findById returned a row, and markAsProcessing succeeds on the copy of it
Load(r, t) ==
  /\ pc[r] = "idle"
  /\ rows[t] # NoRow
  /\ IsValidTransition(rows[t].status, "PROCESSING")
  /\ pc'     = [pc EXCEPT ![r] = "reserve select"]
  /\ target' = [target EXCEPT ![r] = t]
  /\ mem'    = [mem EXCEPT ![r] = MarkAsProcessing(rows[t])]
  /\ UNCHANGED <<rows, log, charged, reserved, snap, answer>>

\* repo.save starts by selecting the row to compare the entity with
SelectForSave(r) ==
  /\ pc[r] \in {"reserve select", "settle select"}
  /\ snap' = [snap EXCEPT ![r] = rows[target[r]]]
  /\ pc'   = [pc EXCEPT ![r] = IF pc[r] = "reserve select"
                                 THEN "reserve write" ELSE "settle write"]
  /\ UNCHANGED <<rows, log, charged, reserved, target, mem, answer>>

\* The write half of a save and the outbox insert, committed together
CommitSave(r, type) ==
  LET t == target[r]
  IN  /\ rows' = [rows EXCEPT ![t] = Written(@, mem[r], snap[r])]
      /\ log'  = [log EXCEPT ![t] = Append(@, Event(type, mem[r]))]
      /\ UNCHANGED <<charged, target, mem>>

\* The first database transaction: PROCESSING is on disk
CommitReservation(r) ==
  /\ pc[r] = "reserve write"
  /\ CommitSave(r, "Processing")
  /\ reserved' = reserved \cup {r}

\* The second one: the outcome of the gateway is on disk
CommitSettlement(r) ==
  /\ pc[r] = "settle write"
  /\ CommitSave(r, "Processed")
  /\ UNCHANGED reserved

\* Mutant: the first database transaction is not awaited
ReserveNotAwaited(r) ==
  /\ pc[r] = "reserve write"
  /\ pc'   = [pc EXCEPT ![r] = "charging"]
  /\ snap' = [snap EXCEPT ![r] = NoRow]
  /\ UNCHANGED <<rows, log, charged, reserved, target, mem, answer>>

\* The first database transaction commits
Reserve(r) ==
  /\ CommitReservation(r)
  /\ pc'   = [pc EXCEPT ![r] = "charging"]
  /\ snap' = [snap EXCEPT ![r] = NoRow]
  /\ UNCHANGED answer

\* The gateway captures the money and says so, with or without a reference
Approve(r, id) ==
  /\ pc[r] = "charging"
  /\ charged' = charged \cup {r}
  /\ mem'     = [mem EXCEPT ![r] = Complete(@, id)]
  /\ pc'      = [pc EXCEPT ![r] = "settle select"]
  /\ UNCHANGED <<rows, log, reserved, target, snap, answer>>

\* The gateway declines
Decline(r) ==
  /\ pc[r] = "charging"
  /\ mem' = [mem EXCEPT ![r] = Fail(@, "declined")]
  /\ pc'  = [pc EXCEPT ![r] = "settle select"]
  /\ UNCHANGED <<rows, log, charged, reserved, target, snap, answer>>

\* Mutant: the catch around the gateway lets a thrown call pass for a success
GatewayThrowsSwallowed(r) ==
  /\ pc[r] = "charging"
  /\ charged' \in {charged, charged \cup {r}}
  /\ mem' = [mem EXCEPT ![r] = Complete(@, NoExternalId)]
  /\ pc'  = [pc EXCEPT ![r] = "settle select"]
  /\ UNCHANGED <<rows, log, reserved, target, snap, answer>>

\* Mutant: the catch around the gateway answers instead of recording a failure
GatewayThrowsRethrown(r) ==
  /\ pc[r] = "charging"
  /\ charged' \in {charged, charged \cup {r}}
  /\ Respond(r, "409")
  /\ UNCHANGED <<rows, log, reserved, target, mem>>

\* The call throws: the gateway never saw it, or captured and the answer is lost
GatewayThrows(r) ==
  /\ pc[r] = "charging"
  /\ charged' \in {charged, charged \cup {r}}
  /\ mem' = [mem EXCEPT ![r] = Fail(@, "gateway error")]
  /\ pc'  = [pc EXCEPT ![r] = "settle select"]
  /\ UNCHANGED <<rows, log, reserved, target, snap, answer>>

\* Mutant: the second database transaction is not awaited
SettleNotAwaited(r) ==
  /\ pc[r] = "settle write"
  /\ Respond(r, "200")
  /\ UNCHANGED <<rows, log, charged, reserved, target, mem>>

\* The second database transaction commits, and the handler answers
Settle(r) == CommitSettlement(r) /\ Respond(r, "200")

\* Mutant: the outbox row is inserted by another connection than the one of
\* the database transaction, and survives its rollback
DatabaseFailsOutsideTransaction(r) ==
  /\ pc[r] \in {"reserve write", "settle write"}
  /\ log' = [log EXCEPT ![target[r]] = Append(@, Event("Processing", mem[r]))]
  /\ Respond(r, "500")
  /\ UNCHANGED <<rows, charged, reserved, target, mem>>

\* Mutant: the catch of the first transaction takes any error for a conflict
DatabaseFailsAsConflict(r) ==
  /\ pc[r] \in {"reserve select", "reserve write"}
  /\ Respond(r, "409")
  /\ UNCHANGED <<rows, log, charged, reserved, target, mem>>

\* Mutant: the catch of the first transaction rethrows nothing
DatabaseFailsUnnoticed(r) ==
  /\ pc[r] \in {"reserve select", "reserve write"}
  /\ pc'   = [pc EXCEPT ![r] = "charging"]
  /\ snap' = [snap EXCEPT ![r] = NoRow]
  /\ UNCHANGED <<rows, log, charged, reserved, target, mem, answer>>

\* A query fails: the open database transaction is rolled back and the error
\* propagates out of execute.
DatabaseFails(r) ==
  /\ pc[r] \in {"idle", "reserve select", "reserve write",
                "settle select", "settle write"}
  /\ Respond(r, "500")
  /\ UNCHANGED <<rows, log, charged, reserved, target, mem>>

\* The COMMIT takes effect but its answer is lost: the handler sees an error
CommitAnswerLost(r) ==
  /\ CommitReservation(r) \/ CommitSettlement(r)
  /\ Respond(r, "500")

\* The server dies; what the request had not committed is rolled back
Crash(r) ==
  /\ pc[r] \notin {"idle", "done", "crashed"}
  /\ pc'   = [pc EXCEPT ![r] = "crashed"]
  /\ snap' = [snap EXCEPT ![r] = NoRow]
  /\ UNCHANGED <<rows, log, charged, reserved, target, mem, answer>>

-----------------------------------------------------------------------------

Progress(r) ==
  \/ SelectForSave(r)
  \/ Reserve(r)
  \/ \E id \in {r, NoExternalId} : Approve(r, id)
  \/ Decline(r)
  \/ GatewayThrows(r)
  \/ Settle(r)

Start(r) ==
  \E t \in Transactions : NotFound(r, t) \/ RejectTransition(r, t) \/ Load(r, t)

Next ==
  \/ \E t \in Transactions : Create(t)
  \/ \E r \in Requests :
       Start(r) \/ Progress(r) \/ DatabaseFails(r) \/ CommitAnswerLost(r) \/ Crash(r)

Spec == Init /\ [][Next]_vars

\* A handler that has started is resumed by the event loop until it answers:
\* every await it makes settles. Nothing forces a request to arrive.
FairSpec == Spec /\ \A r \in Requests : WF_vars(Progress(r))

-----------------------------------------------------------------------------
(* Properties *)

\* Type invariant: the columns hold what TransactionEntity declares, and an
\* outbox row carries a known event type with a payload read from an entity.
TypeOK ==
  /\ rows    \in [Transactions -> Entities]
  /\ log     \in [Transactions -> Seq(Events)]
  /\ charged \in SUBSET Requests
  /\ reserved \in SUBSET Requests
  /\ pc      \in [Requests -> Locations]
  /\ target  \in [Requests -> Transactions \cup {NoTransaction}]
  /\ mem     \in [Requests -> Entities]
  /\ snap    \in [Requests -> Entities]
  /\ answer  \in [Requests -> Answers]

ChargesOf(t) == {r \in charged : target[r] = t}

\* The requests that have reserved t
ReservationsOf(t) == {r \in reserved : target[r] = t}

\* At most one request has reserved t. Requests that loaded the row together,
\* while it was pending, may reserve it one after another.
Sole(t) == \A q, r \in ReservationsOf(t) : q = r

\* What the comment of the version column promises: however many process
\* requests race for a transaction, money is captured for it at most once.
AtMostOneCharge ==
  \A q, r \in charged : target[q] = target[r] => q = r

\* However racing saves mix the columns of a row: COMPLETED is only said where
\* money was captured, and a reference on the row is that of a capture for
\* this transaction.
CompletedIsCharged ==
  \A t \in Transactions :
    /\ rows[t].status = "COMPLETED" => ChargesOf(t) # {}
    /\ rows[t].externalId \in Requests => rows[t].externalId \in ChargesOf(t)

\* The events that brought a row where it is
Story(row) ==
  LET created    == Event("Created", NewRow)
      processing == Event("Processing", MarkAsProcessing(NewRow))
  IN  CASE row.status = "ABSENT"     -> <<>>
        [] row.status = "PENDING"    -> <<created>>
        [] row.status = "PROCESSING" -> <<created, processing>>
        [] OTHER -> <<created, processing, Event("Processed", row)>>

\* Committing the row and its event in one database transaction keeps the
\* outbox the exact history of the row: no state change without its event, no
\* event for a change that was rolled back, none twice, none out of order;
\* unless two requests reserved the transaction.
OutboxTellsTheStory ==
  \A t \in Transactions : Sole(t) => log[t] = Story(rows[t])

\* What a 200 answer told the client is what the table holds from then on,
\* unless two requests reserved the transaction.
AnswerIsDurable ==
  \A r \in Requests :
    answer[r] = "200" /\ Sole(target[r]) => rows[target[r]] = mem[r]

\* A 409 is never spurious: the client that gets one can rely on the
\* transaction having left PENDING.
NoSpuriousConflict ==
  \A r \in Requests :
    answer[r] = "409" =>
      rows[target[r]].status \in {"PROCESSING", "COMPLETED", "FAILED"}

EventsOf(t, type) == {i \in DOMAIN log[t] : log[t][i].type = type}

\* Money is captured only after the intent to capture is on disk: every charge
\* of a transaction has a TransactionProcessingEvent of its own, also where
\* several requests charge.
EveryChargeAnnounced ==
  \A t \in Transactions :
    Cardinality(ChargesOf(t)) <= Cardinality(EventsOf(t, "Processing"))

InFlight(r) == pc[r] \notin {"idle", "done", "crashed"}

\* Nobody is working on t, and it has left PENDING
Quiet(t) ==
  /\ rows[t].status \in {"PROCESSING", "COMPLETED", "FAILED"}
  /\ \A r \in Requests : InFlight(r) => target[r] # t

\* A retry that arrives after the others ended is harmless: it changes neither
\* the row, nor the outbox, nor the charges (a crash leaves the row PROCESSING,
\* and no retry charges it again).
SequentialRetriesAreSafe ==
  [][\A t \in Transactions :
       Quiet(t) => /\ Quiet(t)'
                   /\ rows'[t] = rows[t]
                   /\ log'[t] = log[t]
                   /\ ChargesOf(t)' = ChargesOf(t)]_vars

\* The reservation r committed was abandoned: r crashed or answered an error
Abandoned(r, t) ==
  /\ r \in ReservationsOf(t)
  /\ pc[r] = "crashed" \/ answer[r] = "500"

\* A transaction in PROCESSING is settled, also if racing requests put it back
\* there, unless a request that reserved it crashed or failed after reserving
\* (nothing in the code resumes it then).
ReservationSettles ==
  \A t \in Transactions :
    rows[t].status = "PROCESSING" ~>
      \/ rows[t].status \in {"COMPLETED", "FAILED"}
      \/ \E r \in Requests : Abandoned(r, t)

-----------------------------------------------------------------------------
(* The inductive invariant behind these: while one request alone has         *)
(* reserved a transaction, every request knows exactly what its next save    *)
(* overwrites; once two have, only what is true of each of them is left.     *)

ProcessingRow == MarkAsProcessing(NewRow)

\* What the gateway's answer to r can have made of the entity
SettledBy(r, entity) ==
  \/ /\ entity \in {Complete(ProcessingRow, r),
                    Complete(ProcessingRow, NoExternalId)}
     /\ r \in charged
  \/ \E reason \in Reasons : entity = Fail(ProcessingRow, reason)

SettledRow(row) == row.status \in {"COMPLETED", "FAILED"}

Reserving(r) == pc[r] \in {"reserve select", "reserve write"}
Settling(r)  == pc[r] \in {"settle select", "settle write"}

\* A row nobody has reserved is as it was created; it leaves PENDING with the
\* first reservation, and does not come back.
RowShapes ==
  \A t \in Transactions :
    IF ReservationsOf(t) = {} THEN rows[t] \in {NoRow, NewRow}
    ELSE /\ rows[t].status \in {"PROCESSING", "COMPLETED", "FAILED"}
         /\ Sole(t) => rows[t] = ProcessingRow \/ SettledRow(rows[t])

\* What a request knows about itself and its row at each await
RequestShape(r) ==
  /\ Reserving(r) =>
       /\ target[r] \in Transactions
       /\ rows[target[r]] # NoRow
       /\ mem[r] = ProcessingRow
       /\ r \notin reserved
  /\ pc[r] = "reserve write" /\ rows[target[r]] = NewRow => snap[r] = NewRow
  /\ r \in reserved => target[r] \in Transactions /\ pc[r] # "idle"
  /\ pc[r] = "charging" => mem[r] = ProcessingRow /\ r \notin charged
  /\ pc[r] = "charging" \/ Settling(r) =>
       /\ r \in reserved
       /\ Sole(target[r]) => rows[target[r]] = ProcessingRow
  /\ Settling(r) => SettledBy(r, mem[r])
  /\ pc[r] = "settle write" /\ Sole(target[r]) => snap[r] = ProcessingRow
  /\ r \in charged => r \in reserved
  /\ answer[r] = "200" => r \in reserved /\ pc[r] = "done"

RequestShapes == \A r \in Requests : RequestShape(r)

\* The inductive invariant
ReservationInv ==
  /\ TypeOK
  /\ RowShapes
  /\ RequestShapes
  /\ CompletedIsCharged
  /\ OutboxTellsTheStory
  /\ AnswerIsDurable

-----------------------------------------------------------------------------
\* Processing implements ReservedCharges: a request races from the load of a
\* pending row to the commit of its first database transaction.
Ideal == INSTANCE ReservedCharges
           WITH status  <- [t \in Transactions |-> rows[t].status],
                racing  <- [t \in Transactions |->
                              {r \in Requests : Reserving(r) /\ target[r] = t}],
                reservations <- [t \in Transactions |-> ReservationsOf(t)],
                charges <- [t \in Transactions |-> ChargesOf(t)]

IdealSpec == Ideal!AbstractSpec

=============================================================================
