-------------------------- MODULE Idempotency_proofs --------------------------
(***************************************************************************)
(* Proofs about Idempotency, for any set of requests.                      *)
(***************************************************************************)
EXTENDS Idempotency, TLAPS

\* Type correctness: an inductive invariant by itself.
THEOREM TypeCorrect == Spec => []TypeOK
<1>1. Init => TypeOK
  BY ConstantsAssumption DEF Init, TypeOK, Locations, Answers
<1>2. TypeOK /\ [Next]_vars => TypeOK'
  <2> SUFFICES ASSUME TypeOK, [Next]_vars
               PROVE  TypeOK'
    OBVIOUS
  <2> USE DEF TypeOK, Locations, Answers, history
  <2>1. ASSUME NEW r \in Requests, Replay(r) \/ Miss(r)
        PROVE  TypeOK'
    BY <2>1 DEF Replay, Miss, Respond, Goto
  <2>2. ASSUME NEW r \in Requests, Progress(r)
        PROVE  TypeOK'
    <3>1. CASE Discard(r)
      BY <3>1 DEF Discard, DeleteResponse, Goto
    <3>2. CASE Acquire(r) \/ AcquireRefused(r)
      BY <3>2 DEF Acquire, AcquireRefused, Respond, Goto
    <3>3. CASE HandlerReturns(r) \/ HandlerThrows(r) \/ StoreResponse(r)
      BY <3>3 DEF HandlerReturns, HandlerThrows, StoreResponse, Goto
    <3>4. CASE Release(r) \/ Cleanup(r)
      BY <3>4 DEF Release, Cleanup, ReleaseLock, Rethrown, Respond, Goto
    <3> QED
      BY <2>2, <3>1, <3>2, <3>3, <3>4 DEF Progress
  <2>3. ASSUME NEW r \in Requests, Failure(r)
        PROVE  TypeOK'
    <3>1. CASE LookupFails(r)
      BY <3>1 DEF LookupFails, DeleteResponse, Respond, Goto
    <3>2. CASE AcquireAnswerLost(r) \/ AcquireFails(r)
      BY <3>2 DEF AcquireAnswerLost, AcquireFails, Respond, Goto
    <3>3. CASE StoreFails(r) \/ Crash(r)
      BY <3>3 DEF StoreFails, Crash, Goto
    <3>4. CASE ReleaseFails(r) \/ CleanupFails(r)
      BY <3>4 DEF ReleaseFails, CleanupFails, ReleaseLock, Respond, Goto
    <3> QED
      BY <2>3, <3>1, <3>2, <3>3, <3>4 DEF Failure
  <2>4. CASE LockExpires \/ ResponseExpires
    BY <2>4 DEF LockExpires, ResponseExpires, DeleteResponse
  <2>5. CASE UNCHANGED vars
    BY <2>5 DEF vars, history
  <2> QED
    BY <2>1, <2>2, <2>3, <2>4, <2>5 DEF Next
<1> QED
  BY <1>1, <1>2, PTL DEF Spec

\* No request's token is the absence of one.
LEMMA TokensAreRequests == NoToken \notin Requests
  BY ConstantsAssumption

\* No body is taken for an error.
LEMMA ErrorsAreNoBodies ==
  ASSUME NEW what, what \in {"none", "conflict", "handler error", "redis error"}
  PROVE  what \notin Requests
  BY ConstantsAssumption

\* No body is taken for the absence of one, or for an entry that does not parse.
LEMMA MissesAreNoBodies == NoResponse \notin Requests /\ Corrupt \notin Requests
  BY ConstantsAssumption

\* The lease is an inductive invariant: an execution that has not outlived the
\* lock's TTL owns the lock, and a request that has not acquired it does not.
THEOREM LeaseInvariant == Spec => []LeaseInv
<1>1. Init => LeaseInv
  BY ConstantsAssumption DEF Init, LeaseInv, TypeOK, Locations, Answers
<1>2. TypeOK' /\ LeaseInv /\ [Next]_vars => LeaseInv'
  <2> SUFFICES ASSUME TypeOK', LeaseInv, [Next]_vars
               PROVE  LeaseInv'
    OBVIOUS
  <2> USE DEF LeaseInv, TypeOK, history
  <2>1. ASSUME NEW r \in Requests, Replay(r) \/ Miss(r)
        PROVE  LeaseInv'
    BY <2>1 DEF Replay, Miss, Respond, Goto
  <2>2. ASSUME NEW r \in Requests, Progress(r)
        PROVE  LeaseInv'
    <3>1. CASE Discard(r)
      BY <3>1 DEF Discard, DeleteResponse, Goto
    <3>2. CASE Acquire(r) \/ AcquireRefused(r)
      BY <3>2, TokensAreRequests DEF Acquire, AcquireRefused, Respond, Goto
    <3>3. CASE HandlerReturns(r) \/ HandlerThrows(r) \/ StoreResponse(r)
      BY <3>3 DEF HandlerReturns, HandlerThrows, StoreResponse, Goto
    <3>4. CASE Release(r) \/ Cleanup(r)
      <4>1. /\ pc' = [pc EXCEPT ![r] = "done"]
            /\ lock' = IF lock = r THEN NoToken ELSE lock
            /\ UNCHANGED <<returned, overran>>
        BY <3>4 DEF Release, Cleanup, ReleaseLock, Respond, Goto
      <4> QED
        BY <4>1, TokensAreRequests
    <3> QED
      BY <2>2, <3>1, <3>2, <3>3, <3>4 DEF Progress
  <2>3. ASSUME NEW r \in Requests, Failure(r)
        PROVE  LeaseInv'
    <3>1. CASE LookupFails(r)
      BY <3>1 DEF LookupFails, DeleteResponse, Respond, Goto
    <3>2. CASE AcquireAnswerLost(r) \/ AcquireFails(r)
      BY <3>2, TokensAreRequests DEF AcquireAnswerLost, AcquireFails, Respond, Goto
    <3>3. CASE StoreFails(r) \/ Crash(r)
      BY <3>3 DEF StoreFails, Crash, Goto
    <3>4. CASE ReleaseFails(r) \/ CleanupFails(r)
      <4>1. /\ \E location \in {"cleanup", "done"} :
                 pc' = [pc EXCEPT ![r] = location]
            /\ lock' \in {lock, IF lock = r THEN NoToken ELSE lock}
            /\ UNCHANGED <<returned, overran>>
        BY <3>4 DEF ReleaseFails, CleanupFails, ReleaseLock, Respond, Goto
      <4>2. PICK location \in {"cleanup", "done"} : pc' = [pc EXCEPT ![r] = location]
        BY <4>1
      <4>3. pc[r] \in {"releasing", "cleanup"}
        BY <3>4 DEF ReleaseFails, CleanupFails
      <4> QED
        BY <4>1, <4>2, <4>3, TokensAreRequests
    <3> QED
      BY <2>3, <3>1, <3>2, <3>3, <3>4 DEF Failure
  <2>4. CASE LockExpires
    BY <2>4, ConstantsAssumption DEF LockExpires, Holding
  <2>5. CASE ResponseExpires \/ UNCHANGED vars
    BY <2>5 DEF ResponseExpires, DeleteResponse, vars
  <2> QED
    BY <2>1, <2>2, <2>3, <2>4, <2>5 DEF Next
<1> QED
  BY <1>1, <1>2, TypeCorrect, PTL DEF Spec

\* Mutual exclusion: two requests with one key never execute together, unless
\* one of them outlived its lock.
THEOREM LockExcludes == Spec => []ExecutionsExclude
<1>1. LeaseInv => ExecutionsExclude
  BY DEF LeaseInv, ExecutionsExclude
<1> QED
  BY <1>1, LeaseInvariant, PTL

\* The compare-and-delete protects the lock of another request, timely or not:
\* no step of one request takes it away.
THEOREM LockIsProtected == Spec => OnlyOwnerFrees
<1>1. TypeOK /\ [Next]_vars =>
        [\A q, r \in Requests :
           lock = q /\ lock' # q /\ r # q => pc'[r] = pc[r]]_vars
  <2> SUFFICES ASSUME TypeOK, Next,
                      NEW q \in Requests, lock = q, lock' # q,
                      NEW r \in Requests, r # q
               PROVE  pc'[r] = pc[r]
    OBVIOUS
  <2>1. ASSUME NEW s \in Requests, Replay(s) \/ Miss(s)
        PROVE  FALSE
    BY <2>1 DEF Replay, Miss
  <2>2. ASSUME NEW s \in Requests, Progress(s)
        PROVE  s = q /\ pc'[r] = pc[r]
    <3>1. Release(s) \/ Cleanup(s)
      BY <2>2, ConstantsAssumption
      DEF Progress, Discard, Acquire, AcquireRefused, HandlerReturns,
          HandlerThrows, StoreResponse
    <3>2. s = q /\ pc' = [pc EXCEPT ![s] = "done"]
      BY <3>1 DEF Release, Cleanup, ReleaseLock, Respond, Goto
    <3> QED
      BY <3>2 DEF TypeOK
  <2>3. ASSUME NEW s \in Requests, Failure(s)
        PROVE  s = q /\ pc'[r] = pc[r]
    <3>1. ReleaseFails(s) \/ CleanupFails(s)
      BY <2>3, ConstantsAssumption
      DEF Failure, LookupFails, AcquireAnswerLost, AcquireFails, StoreFails, Crash
    <3>2. s = q /\ \E location \in Locations : pc' = [pc EXCEPT ![s] = location]
      BY <3>1
      DEF ReleaseFails, CleanupFails, ReleaseLock, Respond, Goto, Locations
    <3> QED
      BY <3>2 DEF TypeOK
  <2>4. CASE LockExpires \/ ResponseExpires
    BY <2>4 DEF LockExpires, ResponseExpires, DeleteResponse
  <2> QED
    BY <2>1, <2>2, <2>3, <2>4 DEF Next
<1> QED
  BY <1>1, TypeCorrect, PTL DEF Spec, OnlyOwnerFrees

\* What is stored, and what is about to be, was returned by a handler.
Genuine ==
  /\ AnswersAreGenuine
  /\ response \in Requests => response \in returned
  /\ \A r \in Requests : pc[r] \in {"storing", "releasing"} => r \in returned

\* What a step of r must do to keep answers genuine.
KeepsGenuine(r) ==
  /\ returned \subseteq returned'
  /\ \A q \in Requests : q # r => pc'[q] = pc[q] /\ answer'[q] = answer[q]
  /\ answer'[r] \in Requests => answer'[r] \in returned'
  /\ response' \in Requests => response' \in returned'
  /\ pc'[r] \in {"storing", "releasing"} => r \in returned'

\* It suffices to look at the request that takes the step.
LEMMA GenuineKept ==
  ASSUME Genuine, NEW r \in Requests, KeepsGenuine(r)
  PROVE  Genuine'
  BY DEF Genuine, KeepsGenuine, AnswersAreGenuine

\* A request that moves on without an answer.
LEMMA GotoKeepsGenuine ==
  ASSUME TypeOK, Genuine, NEW r \in Requests, NEW location, Goto(r, location),
         UNCHANGED answer, returned \subseteq returned',
         response' \in Requests => response' \in returned',
         location \in {"storing", "releasing"} => r \in returned'
  PROVE  Genuine'
<1>1. pc'[r] = location /\ \A q \in Requests : q # r => pc'[q] = pc[q]
  BY DEF TypeOK, Goto
<1>2. answer'[r] \in Requests => answer'[r] \in returned'
  BY DEF Genuine, AnswersAreGenuine
<1> QED
  BY <1>1, <1>2, GenuineKept DEF KeepsGenuine

\* A request that answers, with an error or with a genuine body.
LEMMA RespondKeepsGenuine ==
  ASSUME TypeOK, Genuine, NEW r \in Requests, NEW what, Respond(r, what),
         UNCHANGED returned,
         response' \in Requests => response' \in returned,
         what \in Requests => what \in returned
  PROVE  Genuine'
<1>1. /\ pc'[r] = "done"
      /\ \A q \in Requests : q # r => pc'[q] = pc[q]
  BY DEF TypeOK, Respond, Goto
<1>2. /\ answer'[r] = what
      /\ \A q \in Requests : q # r => answer'[q] = answer[q]
  BY DEF TypeOK, Respond
<1> QED
  BY <1>1, <1>2, GenuineKept DEF KeepsGenuine

\* A client only ever receives a body that some execution returned, whether or
\* not executions exclude each other and whatever Redis loses.
THEOREM AnswersGenuine == Spec => []AnswersAreGenuine
<1>1. Init => Genuine
  <2>1. Init => AnswersAreGenuine
    BY ErrorsAreNoBodies DEF Init, AnswersAreGenuine
  <2> QED
    BY <2>1, ConstantsAssumption DEF Init, Genuine
<1>2. TypeOK /\ Genuine /\ [Next]_vars => Genuine'
  <2> SUFFICES ASSUME TypeOK, Genuine, [Next]_vars
               PROVE  Genuine'
    OBVIOUS
  <2>1. response \in Requests => response \in returned
    BY DEF Genuine
  <2>2. ASSUME NEW r \in Requests, Replay(r)
        PROVE  Genuine'
    BY <2>1, <2>2, RespondKeepsGenuine DEF Replay
  <2>3. ASSUME NEW r \in Requests, Miss(r)
        PROVE  Genuine'
    <3>1. PICK location \in {"discarding", "locking"} : Goto(r, location)
      BY <2>3 DEF Miss
    <3> QED
      BY <2>1, <2>3, <3>1, GotoKeepsGenuine DEF Miss
  <2>4. ASSUME NEW r \in Requests, Progress(r)
        PROVE  Genuine'
    <3>1. CASE Discard(r)
      BY <3>1, MissesAreNoBodies, GotoKeepsGenuine DEF Discard, DeleteResponse
    <3>2. CASE Acquire(r)
      BY <2>1, <3>2, GotoKeepsGenuine DEF Acquire
    <3>3. CASE AcquireRefused(r)
      BY <2>1, <3>3, ErrorsAreNoBodies, RespondKeepsGenuine DEF AcquireRefused
    <3>4. CASE HandlerReturns(r)
      BY <2>1, <3>4, GotoKeepsGenuine DEF HandlerReturns
    <3>5. CASE HandlerThrows(r)
      BY <2>1, <3>5, GotoKeepsGenuine DEF HandlerThrows
    <3>6. CASE StoreResponse(r)
      <4>1. r \in returned
        BY <3>6 DEF StoreResponse, Genuine
      <4> QED
        BY <3>6, <4>1, GotoKeepsGenuine DEF StoreResponse
    <3>7. CASE Release(r)
      <4>1. r \in returned
        BY <3>7 DEF Release, Genuine
      <4> QED
        BY <2>1, <3>7, <4>1, RespondKeepsGenuine DEF Release
    <3>8. CASE Cleanup(r)
      <4>1. Rethrown(r) \notin Requests
        BY ErrorsAreNoBodies DEF Rethrown
      <4> QED
        BY <2>1, <3>8, <4>1, RespondKeepsGenuine DEF Cleanup
    <3> QED
      BY <2>4, <3>1, <3>2, <3>3, <3>4, <3>5, <3>6, <3>7, <3>8 DEF Progress
  <2>5. ASSUME NEW r \in Requests, Failure(r)
        PROVE  Genuine'
    <3>1. CASE LookupFails(r)
      <4>1. response' \in Requests => response' \in returned
        BY <2>1, <3>1, MissesAreNoBodies DEF LookupFails, DeleteResponse
      <4> QED
        BY <3>1, <4>1, ErrorsAreNoBodies, RespondKeepsGenuine DEF LookupFails
    <3>2. CASE AcquireAnswerLost(r)
      BY <2>1, <3>2, ErrorsAreNoBodies, RespondKeepsGenuine DEF AcquireAnswerLost
    <3>3. CASE AcquireFails(r)
      BY <2>1, <3>3, ErrorsAreNoBodies, RespondKeepsGenuine DEF AcquireFails
    <3>4. CASE StoreFails(r)
      <4>1. r \in returned
        BY <3>4 DEF StoreFails, Genuine
      <4> QED
        BY <2>1, <3>4, <4>1, GotoKeepsGenuine DEF StoreFails
    <3>5. CASE ReleaseFails(r)
      BY <2>1, <3>5, GotoKeepsGenuine DEF ReleaseFails
    <3>6. CASE CleanupFails(r)
      BY <2>1, <3>6, ErrorsAreNoBodies, RespondKeepsGenuine DEF CleanupFails
    <3>7. CASE Crash(r)
      BY <2>1, <3>7, GotoKeepsGenuine DEF Crash
    <3> QED
      BY <2>5, <3>1, <3>2, <3>3, <3>4, <3>5, <3>6, <3>7 DEF Failure
  <2>6. CASE LockExpires
    BY <2>6 DEF LockExpires, Genuine, AnswersAreGenuine
  <2>7. CASE ResponseExpires
    BY <2>7, MissesAreNoBodies DEF ResponseExpires, DeleteResponse, Genuine, AnswersAreGenuine
  <2>8. CASE UNCHANGED vars
    BY <2>8 DEF vars, history, Genuine, AnswersAreGenuine
  <2> QED
    BY <2>2, <2>3, <2>4, <2>5, <2>6, <2>7, <2>8 DEF Next
<1>3. Genuine => AnswersAreGenuine
  BY DEF Genuine
<1> QED
  BY <1>1, <1>2, <1>3, TypeCorrect, PTL DEF Spec

-----------------------------------------------------------------------------
(* What clients may rely on after an answer *)

\* Whoever received its own body, or its handler's error, is done and does not
\* own the lock.
Settled(r) ==
  answer[r] \in {r, "handler error"} => pc[r] = "done" /\ lock # r

\* A step of r that takes the lock only for r keeps what others left behind.
LEMMA SettledKept ==
  ASSUME TypeOK, NEW r \in Requests, \A q \in Requests : Settled(q),
         lock' \in {lock, r, NoToken},
         NEW location, Goto(r, location),
         \A q \in Requests : q # r => answer'[q] = answer[q],
         Settled(r)'
  PROVE  \A q \in Requests : Settled(q)'
<1>1. \A q \in Requests : q # r => pc'[q] = pc[q]
  BY DEF TypeOK, Goto
<1> QED
  BY <1>1, TokensAreRequests DEF Settled

\* A request that moves on without an answer was not done.
LEMMA GotoKeepsSettled ==
  ASSUME TypeOK, NEW r \in Requests, \A q \in Requests : Settled(q),
         pc[r] # "done", NEW location, Goto(r, location), UNCHANGED answer,
         lock' \in {lock, r, NoToken}
  PROVE  \A q \in Requests : Settled(q)'
<1>1. Settled(r)'
  BY DEF Settled
<1> QED
  BY <1>1, SettledKept

\* A request that answers does not own the lock then, or its answer is one
\* that promises nothing.
LEMMA RespondKeepsSettled ==
  ASSUME TypeOK, NEW r \in Requests, \A q \in Requests : Settled(q),
         NEW what, Respond(r, what), lock' \in {lock, r, NoToken},
         what \in {"conflict", "redis error"} \/ lock' # r
  PROVE  \A q \in Requests : Settled(q)'
<1>1. /\ pc'[r] = "done" /\ answer'[r] = what
      /\ \A q \in Requests : q # r => answer'[q] = answer[q]
  BY DEF TypeOK, Respond, Goto
<1>2. Settled(r)'
  BY <1>1, ErrorsAreNoBodies DEF Settled
<1> QED
  BY <1>1, <1>2, SettledKept DEF Respond

\* A step of one request leaves no lock behind an answer.
LEMMA SettledStep ==
  ASSUME TypeOK, LeaseInv, NEW r \in Requests, \A q \in Requests : Settled(q),
         Replay(r) \/ Miss(r) \/ Progress(r) \/ Failure(r)
  PROVE  \A q \in Requests : Settled(q)'
<1> DEFINE Goal == \A q \in Requests : Settled(q)'
<1>1. ASSUME NEW location, pc[r] # "done", Goto(r, location),
             UNCHANGED answer, lock' \in {lock, r, NoToken}
      PROVE  Goal
  BY <1>1, GotoKeepsSettled
<1>2. ASSUME NEW what, Respond(r, what), lock' \in {lock, r, NoToken},
             what \in {"conflict", "redis error"} \/ lock' # r
      PROVE  Goal
  BY <1>2, RespondKeepsSettled
<1> SUFFICES Goal
  OBVIOUS
<1> HIDE DEF Goal
<1>3. CASE Replay(r)
  <2>1. lock # r
    BY <1>3 DEF Replay, LeaseInv
  <2> QED
    BY <1>2, <1>3, <2>1 DEF Replay
<1>4. CASE Miss(r) \/ Discard(r) \/ HandlerReturns(r) \/ HandlerThrows(r)
             \/ StoreResponse(r) \/ StoreFails(r) \/ Crash(r) \/ Acquire(r)
  <2>1. /\ pc[r] # "done" /\ UNCHANGED answer /\ lock' \in {lock, r}
        /\ \E location \in Locations : Goto(r, location)
    BY <1>4
    DEF Miss, Discard, HandlerReturns, HandlerThrows, StoreResponse, StoreFails,
        Crash, Acquire, Locations
  <2> QED
    BY <1>1, <2>1
<1>5. CASE ReleaseFails(r)
  <2>1. /\ pc[r] # "done" /\ UNCHANGED answer /\ lock' \in {lock, NoToken}
        /\ Goto(r, "cleanup")
    BY <1>5 DEF ReleaseFails, ReleaseLock
  <2> QED
    BY <1>1, <2>1
<1>6. CASE Release(r) \/ Cleanup(r)
  <2>1. lock' = (IF lock = r THEN NoToken ELSE lock)
    BY <1>6 DEF Release, Cleanup, ReleaseLock
  <2>2. lock' # r /\ lock' \in {lock, NoToken}
    BY <2>1, TokensAreRequests
  <2>3. \E what : Respond(r, what)
    BY <1>6 DEF Release, Cleanup
  <2> QED
    BY <1>2, <2>2, <2>3
<1>7. CASE LookupFails(r) \/ AcquireRefused(r) \/ AcquireFails(r)
             \/ AcquireAnswerLost(r) \/ CleanupFails(r)
  <2>1. /\ lock' \in {lock, r, NoToken}
        /\ \E what \in {"conflict", "redis error"} : Respond(r, what)
    BY <1>7
    DEF LookupFails, AcquireRefused, AcquireFails, AcquireAnswerLost,
        CleanupFails, ReleaseLock
  <2> QED
    BY <1>2, <2>1
<1> QED
  BY <1>3, <1>4, <1>5, <1>6, <1>7 DEF Progress, Failure

\* A client that received its own body, or its handler's error, left no lock
\* behind, whatever Redis loses and whenever locks expire.
THEOREM AnswersRelease == Spec => []AnsweredMeansReleased
<1> DEFINE Inv == \A r \in Requests : Settled(r)
<1>1. Init => Inv
  BY ErrorsAreNoBodies DEF Init, Settled
<1>2. TypeOK /\ LeaseInv /\ Inv /\ [Next]_vars => Inv'
  <2> SUFFICES ASSUME TypeOK, LeaseInv, Inv, [Next]_vars
               PROVE  Inv'
    OBVIOUS
  <2>1. ASSUME NEW r \in Requests, Replay(r) \/ Miss(r) \/ Progress(r) \/ Failure(r)
        PROVE  Inv'
    BY <2>1, SettledStep
  <2>2. CASE LockExpires \/ ResponseExpires \/ UNCHANGED vars
    <3>1. UNCHANGED <<pc, answer>> /\ lock' \in {lock, NoToken}
      BY <2>2 DEF LockExpires, ResponseExpires, vars
    <3> QED
      BY <3>1, TokensAreRequests DEF Settled
  <2> QED
    BY <2>1, <2>2 DEF Next
<1>3. Inv => AnsweredMeansReleased
  BY DEF Settled, AnsweredMeansReleased
<1> QED
  BY <1>1, <1>2, <1>3, TypeCorrect, LeaseInvariant, PTL DEF Spec

\* Some body was stored and handed out, or is about to be.
Succeeded ==
  \/ \E r \in Requests : answer[r] \in Requests
  \/ \E r \in Requests : pc[r] = "releasing"

\* Unless a body was deleted, it is still there.
Remembered == Succeeded /\ ~ forgotten => response \in Requests

\* A deletion is remembered as such.
LEMMA DeletingForgets ==
  ASSUME Remembered, DeleteResponse, Succeeded' => Succeeded
  PROVE  Remembered'
  BY DEF Remembered, DeleteResponse

\* Only storing a response, or replaying one, is a success.
LEMMA RememberedKept ==
  ASSUME Remembered, Succeeded' => Succeeded \/ response' \in Requests,
         forgotten' = forgotten,
         response \in Requests => response' \in Requests
  PROVE  Remembered'
  BY DEF Remembered

\* A request that goes elsewhere than to its release, with no new answer.
LEMMA GotoSucceeds ==
  ASSUME TypeOK, NEW r \in Requests, NEW location, Goto(r, location),
         location # "releasing", UNCHANGED answer
  PROVE  Succeeded' => Succeeded
  BY DEF TypeOK, Goto, Succeeded

\* An error is no success, and the request that gets its own body was one.
LEMMA RespondSucceeds ==
  ASSUME TypeOK, NEW r \in Requests, NEW what, Respond(r, what),
         what \notin Requests \/ pc[r] = "releasing"
  PROVE  Succeeded' => Succeeded
<1>1. /\ pc'[r] = "done" /\ answer'[r] = what
      /\ \A q \in Requests : q # r => answer'[q] = answer[q] /\ pc'[q] = pc[q]
  BY DEF TypeOK, Respond, Goto
<1> QED
  BY <1>1 DEF Succeeded

\* No step of a request loses a body other than by deleting it.
LEMMA RememberedStep ==
  ASSUME TypeOK, NEW r \in Requests, Remembered,
         Replay(r) \/ Miss(r) \/ Progress(r) \/ Failure(r)
  PROVE  Remembered'
<1>1. CASE Replay(r)
  <2>1. response' \in Requests /\ forgotten' = forgotten
    BY <1>1 DEF Replay, history
  <2> QED
    BY <2>1, RememberedKept
<1>2. CASE StoreResponse(r)
  <2>1. response' \in Requests /\ forgotten' = forgotten
    BY <1>2 DEF StoreResponse, history
  <2> QED
    BY <2>1, RememberedKept
<1>3. CASE Discard(r)
  BY <1>3, GotoSucceeds, DeletingForgets DEF Discard
<1>4. CASE LookupFails(r)
  <2>1. Succeeded' => Succeeded
    BY <1>4, ErrorsAreNoBodies, RespondSucceeds DEF LookupFails
  <2>2. UNCHANGED <<response, forgotten>> \/ DeleteResponse
    BY <1>4 DEF LookupFails
  <2> QED
    BY <2>1, <2>2, RememberedKept, DeletingForgets
<1>5. CASE Miss(r) \/ Acquire(r) \/ HandlerReturns(r) \/ HandlerThrows(r)
             \/ StoreFails(r) \/ ReleaseFails(r) \/ Crash(r)
  <2>1. /\ UNCHANGED <<answer, forgotten>>
        /\ response' \in {response, r}
        /\ \E location \in Locations \ {"releasing"} : Goto(r, location)
    BY <1>5
    DEF Miss, Acquire, HandlerReturns, HandlerThrows, StoreFails, ReleaseFails,
        Crash, Locations, history
  <2>2. Succeeded' => Succeeded
    BY <2>1, GotoSucceeds
  <2> QED
    BY <2>1, <2>2, RememberedKept
<1>6. CASE AcquireRefused(r) \/ AcquireAnswerLost(r) \/ AcquireFails(r)
             \/ Cleanup(r) \/ CleanupFails(r) \/ Release(r)
  <2>1. UNCHANGED <<response, forgotten>>
    BY <1>6
    DEF AcquireRefused, AcquireAnswerLost, AcquireFails, Cleanup, CleanupFails,
        Release, history
  <2>2. \E what : Respond(r, what) /\ (what \notin Requests \/ pc[r] = "releasing")
    BY <1>6, ErrorsAreNoBodies
    DEF AcquireRefused, AcquireAnswerLost, AcquireFails, Cleanup, CleanupFails,
        Release, Rethrown
  <2>3. Succeeded' => Succeeded
    BY <2>2, RespondSucceeds
  <2> QED
    BY <2>1, <2>3, RememberedKept
<1> QED
  BY <1>1, <1>2, <1>3, <1>4, <1>5, <1>6 DEF Progress, Failure

\* Unless a stored body was deleted, a request that arrives after a client
\* received one never reaches the handler.
THEOREM RetriesReplay == Spec => RetryAfterSuccessReplays
<1>1. Init => Remembered
  BY ErrorsAreNoBodies DEF Init, Remembered, Succeeded
<1>2. TypeOK /\ Remembered /\ [Next]_vars => Remembered'
  <2> SUFFICES ASSUME TypeOK, Remembered, [Next]_vars
               PROVE  Remembered'
    OBVIOUS
  <2>1. ASSUME NEW r \in Requests, Replay(r) \/ Miss(r) \/ Progress(r) \/ Failure(r)
        PROVE  Remembered'
    BY <2>1, RememberedStep
  <2>2. CASE LockExpires \/ UNCHANGED vars
    <3>1. UNCHANGED <<response, pc, answer, forgotten>>
      BY <2>2 DEF LockExpires, vars, history
    <3> QED
      BY <3>1 DEF Remembered, Succeeded
  <2>3. CASE ResponseExpires
    <3>1. UNCHANGED <<pc, answer>> /\ DeleteResponse
      BY <2>3 DEF ResponseExpires
    <3> QED
      BY <3>1, DeletingForgets DEF Succeeded
  <2> QED
    BY <2>1, <2>2, <2>3 DEF Next
<1>3. TypeOK /\ Remembered /\ [Next]_vars =>
        [\A r \in Requests :
           /\ pc[r] = "idle"
           /\ ~ forgotten
           /\ \E q \in Requests : answer[q] \in Requests
           => pc'[r] \in {"idle", "done"}]_vars
  <2> SUFFICES ASSUME TypeOK, Remembered, Next,
                      NEW r \in Requests, pc[r] = "idle", ~ forgotten,
                      \E q \in Requests : answer[q] \in Requests
               PROVE  pc'[r] \in {"idle", "done"}
    OBVIOUS
  <2>1. response \in Requests
    BY DEF Remembered, Succeeded
  <2>2. ASSUME NEW s \in Requests, Replay(s) \/ Miss(s) \/ Progress(s) \/ Failure(s)
        PROVE  pc'[r] \in {"idle", "done"}
    <3>1. CASE s # r
      <4>1. \E location : Goto(s, location)
        BY <2>2
        DEF Replay, Miss, Progress, Failure, Discard, Acquire, AcquireRefused,
            HandlerReturns, HandlerThrows, StoreResponse, Release, Cleanup,
            LookupFails, AcquireAnswerLost, AcquireFails, StoreFails, ReleaseFails,
            CleanupFails, Crash, Respond
      <4> QED
        BY <3>1, <4>1 DEF Goto, TypeOK
    <3>2. CASE s = r
      <4>1. Replay(r) \/ LookupFails(r)
        BY <2>1, <2>2, <3>2
        DEF Miss, Progress, Failure, Discard, Acquire, AcquireRefused,
            HandlerReturns, HandlerThrows, StoreResponse, Release, Cleanup,
            AcquireAnswerLost, AcquireFails, StoreFails, ReleaseFails,
            CleanupFails, Crash
      <4> QED
        BY <4>1 DEF Replay, LookupFails, Respond, Goto, TypeOK
    <3> QED
      BY <3>1, <3>2
  <2>3. CASE LockExpires \/ ResponseExpires
    BY <2>3 DEF LockExpires, ResponseExpires
  <2> QED
    BY <2>2, <2>3 DEF Next
<1> QED
  BY <1>1, <1>2, <1>3, TypeCorrect, PTL DEF Spec, RetryAfterSuccessReplays

===============================================================================
