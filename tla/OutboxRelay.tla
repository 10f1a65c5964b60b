----------------------------- MODULE OutboxRelay -----------------------------
(***************************************************************************)
(* The relay that publishes the outbox table to the broker. Every 5 s each *)
(* server process starts an execution of handleCron, which skips its turn  *)
(* while another execution of the same process is still running; replicas  *)
(* of the server share the table and nothing else. Sends are refused, or   *)
(* accepted with the answer lost; saves fail, or take effect with the      *)
(* answer lost; a process may die at any await.                            *)
(*                                                                         *)
(* An event is its rank in createdAt order. An outbox row is committed     *)
(* after its createdAt is drawn, so rows may appear out of that order.     *)
(***************************************************************************)
EXTENDS Naturals, FiniteSets

CONSTANTS
  EventCount,   \* number of events the handlers write
  Executions,   \* executions of handleCron that may be in progress
  Processes,    \* server processes
  ProcessOf,    \* the process of each execution
  MaxAttempts,  \* MAX_ATTEMPTS
  BatchSize,    \* take: 50
  MaxMishaps    \* bound on the crashes, failed saves and lost answers

ASSUME ConstantsAssumption ==
  /\ EventCount \in Nat
  /\ ProcessOf \in [Executions -> Processes]
  /\ MaxAttempts \in Nat \ {0}
  /\ BatchSize \in Nat \ {0}
  /\ MaxMishaps \in Nat

VARIABLES
  table,         \* outbox_events: status and attempts of each event
  sent,          \* how often the broker accepted each event (saturating)
  refused,       \* how often publishing each event failed (saturating)
  isProcessing,  \* the flag of each process
  pc,            \* where each execution is
  batch,         \* the entities it has still to handle, as held in memory
  snap,          \* the row the save in progress has selected to compare with
  mishaps,       \* how many mishaps there were
  contested      \* history: the events that two processes had in hand at once

vars == <<table, sent, refused, isProcessing, pc, batch, snap, mishaps, contested>>

-----------------------------------------------------------------------------

EventIds == 1 .. EventCount

Rows == [status : {"ABSENT", "PENDING", "PUBLISHED", "FAILED"},
         attempts : Nat]

NoRow == [status |-> "ABSENT", attempts |-> 0]

\* OutboxService.saveEvent
NewRow == [status |-> "PENDING", attempts |-> 0]

Pending == {e \in EventIds : table[e].status = "PENDING"}

\* find: the BatchSize oldest of the PENDING rows
Oldest == {e \in Pending : Cardinality({d \in Pending : d < e}) < BatchSize}

NoBatch == [e \in {} |-> NoRow]

\* The event the loop is at
Current(x) ==
  CHOOSE e \in DOMAIN batch[x] : \A d \in DOMAIN batch[x] : e <= d

\* Mutant: an event is parked only once attempts exceeds MAX_ATTEMPTS
FailedLate(entity) ==
  [status |-> IF entity.attempts + 1 > MaxAttempts THEN "FAILED" ELSE entity.status,
   attempts |-> entity.attempts + 1]

\* Mutant: the catch does not count the attempt
FailedUncounted(entity) ==
  [entity EXCEPT !.status = IF entity.attempts >= MaxAttempts THEN "FAILED" ELSE @]

\* What the catch does to the entity: its status stays what the try left,
\* PUBLISHED if it is the save that failed
Failed(entity) ==
  [status |-> IF entity.attempts + 1 >= MaxAttempts THEN "FAILED" ELSE entity.status,
   attempts |-> entity.attempts + 1]

\* The counters of the past saturate where no property tells them apart
SentCap == MaxMishaps + 2

Accepted(e) == sent' = [sent EXCEPT ![e] = IF @ < SentCap THEN @ + 1 ELSE @]

Refused(e) == refused' = [refused EXCEPT ![e] = IF @ < MaxAttempts THEN @ + 1 ELSE @]

\* repo.save writes the columns that differ from the row it selected
Column(current, new, selected) == IF new # selected THEN new ELSE current

Written(row, entity, selected) ==
  [status |-> Column(row.status, entity.status, selected.status),
   attempts |-> Column(row.attempts, entity.attempts, selected.attempts)]

Mishap ==
  /\ mishaps < MaxMishaps
  /\ mishaps' = mishaps + 1

-----------------------------------------------------------------------------

Locations ==
  {"idle", "sending", "publish select", "publish write",
   "failure select", "failure write"}

Init ==
  /\ table   = [e \in EventIds |-> NoRow]
  /\ sent    = [e \in EventIds |-> 0]
  /\ refused = [e \in EventIds |-> 0]
  /\ isProcessing = [p \in Processes |-> FALSE]
  /\ pc      = [x \in Executions |-> "idle"]
  /\ batch   = [x \in Executions |-> NoBatch]
  /\ snap    = [x \in Executions |-> NoRow]
  /\ mishaps = 0
  /\ contested = {}

\* A handler's database transaction commits with the event in it
Insert(e) ==
  /\ table[e] = NoRow
  /\ table' = [table EXCEPT ![e] = NewRow]
  /\ UNCHANGED <<sent, refused, isProcessing, pc, batch, snap, mishaps, contested>>

\* find: the batch is loaded. Events that another process has in hand, loaded
\* and not yet saved, are contested from now on.
Fetch(x) ==
  /\ batch' = [batch EXCEPT ![x] = [e \in Oldest |-> table[e]]]
  /\ contested' = contested \cup
       {e \in Oldest : \E y \in Executions :
          ProcessOf[y] # ProcessOf[x] /\ e \in DOMAIN batch[y]}

\* Mutant: handleCron does not look at isProcessing
TickOverlapping(x) ==
  /\ pc[x] = "idle"
  /\ Pending # {}
  /\ isProcessing' = [isProcessing EXCEPT ![ProcessOf[x]] = TRUE]
  /\ Fetch(x)
  /\ pc'    = [pc EXCEPT ![x] = "sending"]
  /\ UNCHANGED <<table, sent, refused, snap, mishaps>>

\* handleCron, up to the first send. A tick that finds the flag set, no PENDING
\* row, or an unreachable database ends as it began.
Tick(x) ==
  /\ ~ isProcessing[ProcessOf[x]]
  /\ pc[x] = "idle"
  /\ Pending # {}
  /\ isProcessing' = [isProcessing EXCEPT ![ProcessOf[x]] = TRUE]
  /\ Fetch(x)
  /\ pc'    = [pc EXCEPT ![x] = "sending"]
  /\ UNCHANGED <<table, sent, refused, snap, mishaps>>

\* The entity the loop is at becomes entity, and its save begins
BeginSave(x, entity, location) ==
  /\ batch' = [batch EXCEPT ![x][Current(x)] = entity]
  /\ pc'    = [pc EXCEPT ![x] = location]
  /\ UNCHANGED <<table, isProcessing>>

\* sendMessage resolves: the event is marked PUBLISHED in memory
Send(x) ==
  /\ pc[x] = "sending"
  /\ Accepted(Current(x))
  /\ BeginSave(x, [batch[x][Current(x)] EXCEPT !.status = "PUBLISHED"],
               "publish select")
  /\ UNCHANGED <<refused, snap, mishaps, contested>>

\* Mutant: the event is marked PUBLISHED before it is sent
SendRefusedMarked(x) ==
  /\ pc[x] = "sending"
  /\ Refused(Current(x))
  /\ BeginSave(x, Failed([batch[x][Current(x)] EXCEPT !.status = "PUBLISHED"]),
               "failure select")
  /\ UNCHANGED <<sent, snap, mishaps, contested>>

\* sendMessage rejects
SendRefused(x) ==
  /\ pc[x] = "sending"
  /\ Refused(Current(x))
  /\ BeginSave(x, Failed(batch[x][Current(x)]), "failure select")
  /\ UNCHANGED <<sent, snap, mishaps, contested>>

\* sendMessage rejects although the broker has accepted the message
SendAnswerLost(x) ==
  /\ pc[x] = "sending"
  /\ Mishap
  /\ Accepted(Current(x))
  /\ Refused(Current(x))
  /\ BeginSave(x, Failed(batch[x][Current(x)]), "failure select")
  /\ UNCHANGED <<snap, contested>>

\* repo.save starts by selecting the row to compare the entity with
SelectForSave(x) ==
  /\ pc[x] \in {"publish select", "failure select"}
  /\ snap' = [snap EXCEPT ![x] = table[Current(x)]]
  /\ pc'   = [pc EXCEPT ![x] = IF pc[x] = "publish select"
                                 THEN "publish write" ELSE "failure write"]
  /\ UNCHANGED <<table, sent, refused, isProcessing, batch, mishaps, contested>>

WriteRow(x) ==
  table' = [table EXCEPT ![Current(x)] =
              Written(@, batch[x][Current(x)], snap[x])]

\* handleCron ends, by the loop's end or by an error: finally clears the flag
EndExecution(x) ==
  /\ isProcessing' = [isProcessing EXCEPT ![ProcessOf[x]] = FALSE]
  /\ batch' = [batch EXCEPT ![x] = NoBatch]
  /\ pc'    = [pc EXCEPT ![x] = "idle"]
  /\ snap'  = [snap EXCEPT ![x] = NoRow]

\* The loop goes on with the next event, if there is one
NextEvent(x) ==
  LET rest == DOMAIN batch[x] \ {Current(x)}
  IN  \/ /\ rest = {}
         /\ EndExecution(x)
      \/ /\ rest # {}
         /\ batch' = [batch EXCEPT ![x] = [e \in rest |-> batch[x][e]]]
         /\ pc'    = [pc EXCEPT ![x] = "sending"]
         /\ snap'  = [snap EXCEPT ![x] = NoRow]
         /\ UNCHANGED isProcessing

\* Mutant: the save after a send is not awaited before the next event is taken
SaveSkipped(x) ==
  /\ pc[x] \in {"publish write", "failure write"}
  /\ IF pc[x] = "failure write" THEN WriteRow(x) ELSE UNCHANGED table
  /\ NextEvent(x)
  /\ UNCHANGED <<sent, refused, mishaps, contested>>

Save(x) ==
  /\ pc[x] \in {"publish write", "failure write"}
  /\ WriteRow(x)
  /\ NextEvent(x)
  /\ UNCHANGED <<sent, refused, mishaps, contested>>

\* A save rejects; if it had reached its UPDATE, that may have taken effect
SaveFailed(x, phase) ==
  /\ Mishap
  /\ \/ pc[x] = phase.select /\ UNCHANGED table
     \/ pc[x] = phase.write  /\ (WriteRow(x) \/ UNCHANGED table)
  /\ UNCHANGED <<sent, refused, contested>>

\* The save of a published event rejects: the catch counts a failed attempt
PublishSaveFails(x) ==
  /\ SaveFailed(x, [select |-> "publish select", write |-> "publish write"])
  /\ batch' = [batch EXCEPT ![x][Current(x)] = Failed(@)]
  /\ pc'    = [pc EXCEPT ![x] = "failure select"]
  /\ snap'  = [snap EXCEPT ![x] = NoRow]
  /\ UNCHANGED isProcessing

\* The save in the catch rejects: the rest of the batch is left for a next tick
FailureSaveFails(x) ==
  /\ SaveFailed(x, [select |-> "failure select", write |-> "failure write"])
  /\ EndExecution(x)

\* A process dies and is restarted: its memory is gone
Crash(p) ==
  LET killed == {x \in Executions : ProcessOf[x] = p}
  IN  /\ Mishap
      /\ isProcessing[p]
      /\ isProcessing' = [isProcessing EXCEPT ![p] = FALSE]
      /\ pc'    = [x \in Executions |-> IF x \in killed THEN "idle" ELSE pc[x]]
      /\ batch' = [x \in Executions |-> IF x \in killed THEN NoBatch ELSE batch[x]]
      /\ snap'  = [x \in Executions |-> IF x \in killed THEN NoRow ELSE snap[x]]
      /\ UNCHANGED <<table, sent, refused, contested>>

Progress(x) ==
  Send(x) \/ SendRefused(x) \/ SelectForSave(x) \/ Save(x)

Next ==
  \/ \E e \in EventIds : Insert(e)
  \/ \E x \in Executions :
       \/ Tick(x) \/ Progress(x)
       \/ SendAnswerLost(x) \/ PublishSaveFails(x) \/ FailureSaveFails(x)
  \/ \E p \in Processes : Crash(p)

Spec == Init /\ [][Next]_vars

\* The schedule fires every 5 s for as long as the process lives, and an
\* execution is resumed after each await. Mishaps are bounded, so that from
\* some time on saves succeed; the broker may refuse for ever.
FairSpec ==
  /\ Spec
  /\ \A x \in Executions : WF_vars(Progress(x))
  /\ \A p \in Processes :
       WF_vars(\E x \in Executions : ProcessOf[x] = p /\ Tick(x))

-----------------------------------------------------------------------------
(* Properties *)

\* Type invariant: statuses of the enum, a batch of rows for every execution in
\* progress, and the flag of its process set.
TypeOK ==
  /\ table   \in [EventIds -> Rows]
  /\ sent    \in [EventIds -> 0 .. SentCap]
  /\ refused \in [EventIds -> 0 .. MaxAttempts]
  /\ isProcessing \in [Processes -> BOOLEAN]
  /\ pc      \in [Executions -> Locations]
  /\ \A x \in Executions :
       /\ DOMAIN batch[x] \in SUBSET EventIds
       /\ \A e \in DOMAIN batch[x] : batch[x][e] \in Rows
       /\ pc[x] # "idle" => batch[x] # NoBatch /\ isProcessing[ProcessOf[x]]
  /\ snap    \in [Executions -> Rows]
  /\ mishaps \in 0 .. MaxMishaps
  /\ contested \in SUBSET EventIds

\* At-least-once: a row marked PUBLISHED was accepted by the broker, whatever
\* failed in between and however many replicas work on the table.
PublishedWasSent ==
  \A e \in EventIds : table[e].status = "PUBLISHED" => sent[e] > 0

\* How many times the broker got a message it already had, other than messages
\* that two processes had in hand at once
Duplicates ==
  Cardinality({p \in (EventIds \ contested) \X (2 .. SentCap) :
                 p[2] <= sent[p[1]]})

\* Unless two processes have an event in hand at once, every duplicate delivery
\* is the price of one mishap: ticks that fire during an execution, the batch
\* and the saves alone never send an event twice.
DuplicatesArePaidFor == Duplicates <= mishaps

\* Unless two processes have an event in hand at once, it is parked exactly
\* when its attempts are used up: none is given up early, and none is retried
\* beyond MAX_ATTEMPTS.
ParkedAtMaxAttempts ==
  \A e \in EventIds \ contested :
    table[e].status = "FAILED" <=> table[e].attempts = MaxAttempts

\* Every committed event ends PUBLISHED or FAILED for good, although batches
\* are aborted, processes die and, with replicas, stale entities are written.
EventsSettle ==
  \A e \in EventIds :
    table[e].status # "ABSENT" ~> [](table[e].status \in {"PUBLISHED", "FAILED"})

\* What the comment on attempts says: it counts failed publish attempts, and
\* the relay gives an event up only when there were MAX_ATTEMPTS of them.
GivesUpAfterFailedPublishes ==
  \A e \in EventIds : table[e].status = "FAILED" => refused[e] = MaxAttempts

=============================================================================
