----------------------------- MODULE Idempotency -----------------------------
(***************************************************************************)
(* The idempotency interceptor and its service, for the requests that      *)
(* carry one scoped key tenantId:userId:clientKey (keys share nothing in   *)
(* Redis). Every Redis command is one atomic step; between two of them     *)
(* requests of any replica interleave, keys expire, Redis fails or answers *)
(* too late, and a server may die.                                         *)
(*                                                                         *)
(* The token acquireLock draws is unique to the acquisition, and a request *)
(* acquires at most once: the request itself stands for its token, and for *)
(* the body its handler returns.                                           *)
(***************************************************************************)
CONSTANTS
  Requests,           \* requests with the key
  NoToken,            \* idem:lock:<key> does not exist
  NoResponse,         \* idem:resp:<key> does not exist
  Corrupt,            \* idem:resp:<key> holds something JSON.parse rejects
  InitialResponses    \* what idem:resp:<key> may hold at first

ASSUME ConstantsAssumption ==
  /\ NoToken \notin Requests
  /\ NoResponse \notin Requests
  /\ Corrupt \notin Requests
  /\ Corrupt # NoResponse
  /\ InitialResponses \in SUBSET {NoResponse, Corrupt}
  /\ Requests \cap {"none", "conflict", "handler error", "redis error"} = {}

VARIABLES
  lock,       \* the token under idem:lock:<key>
  response,   \* the body under idem:resp:<key>
  returned,   \* the requests whose handler returned a body
  pc,         \* where each request is
  answer,     \* what its client received: the body of some request, or an error
  overran,    \* history: the requests whose lock expired while they held it
  forgotten   \* history: whether a stored body has been deleted

history == <<overran, forgotten>>
vars == <<lock, response, returned, pc, answer, history>>

Locations ==
  {"idle", "discarding", "locking", "handling", "storing", "releasing",
   "cleanup", "done", "crashed"}

Answers == Requests \cup {"none", "conflict", "handler error", "redis error"}

\* A request between acquireLock and the end of the interceptor
Holding(r) == pc[r] \in {"handling", "storing", "releasing", "cleanup"}

Init ==
  /\ lock = NoToken
  /\ response \in InitialResponses
  /\ returned = {}
  /\ pc     = [r \in Requests |-> "idle"]
  /\ answer = [r \in Requests |-> "none"]
  /\ overran = {}
  /\ forgotten = FALSE

Goto(r, location) == pc' = [pc EXCEPT ![r] = location]

\* The client of r receives its answer
Respond(r, what) ==
  /\ Goto(r, "done")
  /\ answer' = [answer EXCEPT ![r] = what]

\* Mutant: a plain DEL instead of the compare-and-delete
DeleteLock(r) == lock' = NoToken

\* RELEASE_LOCK_SCRIPT: delete the lock if it still holds the token of r
ReleaseLock(r) == lock' = IF lock = r THEN NoToken ELSE lock

\* The body under the key is gone, by a DEL or by its TTL
DeleteResponse ==
  /\ response' = NoResponse
  /\ forgotten' = (forgotten \/ response \in Requests)

-----------------------------------------------------------------------------
(* getStoredResponse *)

\* A cached response: the handler is not called
Replay(r) ==
  /\ pc[r] = "idle"
  /\ response \in Requests
  /\ Respond(r, response)
  /\ UNCHANGED <<lock, response, returned, history>>

\* No response, or one that does not parse and is to be deleted
Miss(r) ==
  /\ pc[r] = "idle"
  /\ response \notin Requests
  /\ Goto(r, IF response = Corrupt THEN "discarding" ELSE "locking")
  /\ UNCHANGED <<lock, response, returned, answer, history>>

\* The DEL of a response that did not parse: it deletes what is there now
Discard(r) ==
  /\ pc[r] = "discarding"
  /\ DeleteResponse
  /\ Goto(r, "locking")
  /\ UNCHANGED <<lock, returned, answer, overran>>

\* Mutant: a failing lookup counts as a miss
LookupFailsOpen(r) ==
  /\ pc[r] \in {"idle", "discarding"}
  /\ Goto(r, "locking")
  /\ UNCHANGED <<lock, response, returned, answer, history>>

\* The GET or the DEL fails, the latter with or without effect
LookupFails(r) ==
  /\ \/ pc[r] \in {"idle", "discarding"} /\ UNCHANGED <<response, forgotten>>
     \/ pc[r] = "discarding" /\ DeleteResponse
  /\ Respond(r, "redis error")
  /\ UNCHANGED <<lock, returned, overran>>

-----------------------------------------------------------------------------
(* acquireLock *)

\* Mutant: SET without NX
AcquireOverwriting(r) ==
  /\ pc[r] = "locking"
  /\ lock' = r
  /\ Goto(r, "handling")
  /\ UNCHANGED <<response, returned, answer, history>>

\* SET NX EX answers OK
Acquire(r) ==
  /\ pc[r] = "locking"
  /\ lock = NoToken
  /\ lock' = r
  /\ Goto(r, "handling")
  /\ UNCHANGED <<response, returned, answer, history>>

\* SET NX EX answers null: 409
AcquireRefused(r) ==
  /\ pc[r] = "locking"
  /\ lock # NoToken
  /\ Respond(r, "conflict")
  /\ UNCHANGED <<lock, response, returned, history>>

\* The answer of the SET is lost, its effect is not. The client resends the
\* command, which then finds the key set, or gives up.
AcquireAnswerLost(r) ==
  /\ pc[r] = "locking"
  /\ lock = NoToken
  /\ lock' = r
  /\ \E what \in {"conflict", "redis error"} : Respond(r, what)
  /\ UNCHANGED <<response, returned, history>>

\* The SET fails without effect
AcquireFails(r) ==
  /\ pc[r] = "locking"
  /\ Respond(r, "redis error")
  /\ UNCHANGED <<lock, response, returned, history>>

-----------------------------------------------------------------------------
(* The handler, persistAndRelease and catchError *)

HandlerReturns(r) ==
  /\ pc[r] = "handling"
  /\ returned' = returned \cup {r}
  /\ Goto(r, "storing")
  /\ UNCHANGED <<lock, response, answer, history>>

\* Mutant: the outcome of a handler that throws is cached too
HandlerThrowsCached(r) ==
  /\ pc[r] = "handling"
  /\ Goto(r, "storing")
  /\ UNCHANGED <<lock, response, returned, answer, history>>

\* Mutant: catchError wraps storing and releasing only, not the handler
HandlerThrowsUncaught(r) ==
  /\ pc[r] = "handling"
  /\ Respond(r, "handler error")
  /\ UNCHANGED <<lock, response, returned, history>>

HandlerThrows(r) ==
  /\ pc[r] = "handling"
  /\ Goto(r, "cleanup")
  /\ UNCHANGED <<lock, response, returned, answer, history>>

\* storeResponse: SET EX overwrites whatever is there
StoreResponse(r) ==
  /\ pc[r] = "storing"
  /\ response' = r
  /\ Goto(r, "releasing")
  /\ UNCHANGED <<lock, returned, answer, history>>

\* The SET fails, with or without effect: the error reaches catchError
StoreFails(r) ==
  /\ pc[r] = "storing"
  /\ response' \in {response, r}
  /\ Goto(r, "cleanup")
  /\ UNCHANGED <<lock, returned, answer, history>>

\* releaseLock in persistAndRelease: the client receives its body
Release(r) ==
  /\ pc[r] = "releasing"
  /\ ReleaseLock(r)
  /\ Respond(r, r)
  /\ UNCHANGED <<response, returned, history>>

\* It fails, with or without effect: the error reaches catchError too
ReleaseFails(r) ==
  /\ pc[r] = "releasing"
  /\ ReleaseLock(r) \/ UNCHANGED lock
  /\ Goto(r, "cleanup")
  /\ UNCHANGED <<response, returned, answer, history>>

\* The error that catchError rethrows: the handler's, or Redis's when the
\* handler had returned
Rethrown(r) == IF r \in returned THEN "redis error" ELSE "handler error"

\* Mutant: catchError rethrows without releasing the lock
CleanupKeepsLock(r) ==
  /\ pc[r] = "cleanup"
  /\ Respond(r, Rethrown(r))
  /\ UNCHANGED <<lock, response, returned, history>>

\* releaseLock in catchError, then the error is rethrown
Cleanup(r) ==
  /\ pc[r] = "cleanup"
  /\ ReleaseLock(r)
  /\ Respond(r, Rethrown(r))
  /\ UNCHANGED <<response, returned, history>>

\* It fails, with or without effect: its own error replaces the handler's
CleanupFails(r) ==
  /\ pc[r] = "cleanup"
  /\ ReleaseLock(r) \/ UNCHANGED lock
  /\ Respond(r, "redis error")
  /\ UNCHANGED <<response, returned, history>>

-----------------------------------------------------------------------------
(* The environment *)

\* The TTL of the lock runs out, possibly before its holder has finished
LockExpires ==
  /\ lock # NoToken
  /\ lock' = NoToken
  /\ overran' = IF Holding(lock) THEN overran \cup {lock} ELSE overran
  /\ UNCHANGED <<response, returned, pc, answer, forgotten>>

\* The TTL of the response runs out
ResponseExpires ==
  /\ response # NoResponse
  /\ DeleteResponse
  /\ UNCHANGED <<lock, returned, pc, answer, overran>>

\* The server that runs r dies
Crash(r) ==
  /\ pc[r] \notin {"idle", "done", "crashed"}
  /\ Goto(r, "crashed")
  /\ UNCHANGED <<lock, response, returned, answer, history>>

Progress(r) ==
  \/ Discard(r)
  \/ Acquire(r) \/ AcquireRefused(r)
  \/ HandlerReturns(r) \/ HandlerThrows(r)
  \/ StoreResponse(r) \/ Release(r) \/ Cleanup(r)

Failure(r) ==
  \/ LookupFails(r)
  \/ AcquireAnswerLost(r) \/ AcquireFails(r)
  \/ StoreFails(r) \/ ReleaseFails(r) \/ CleanupFails(r)
  \/ Crash(r)

Next ==
  \/ \E r \in Requests : Replay(r) \/ Miss(r) \/ Progress(r) \/ Failure(r)
  \/ LockExpires
  \/ ResponseExpires

Spec == Init /\ [][Next]_vars

\* A request that has started is resumed after each await. Nothing forces a
\* request to arrive, a lock to expire or Redis to answer.
FairSpec == Spec /\ \A r \in Requests : WF_vars(Progress(r))

-----------------------------------------------------------------------------
(* Properties *)

TypeOK ==
  /\ lock     \in Requests \cup {NoToken}
  /\ response \in Requests \cup {NoResponse, Corrupt}
  /\ returned \in SUBSET Requests
  /\ pc       \in [Requests -> Locations]
  /\ answer   \in [Requests -> Answers]
  /\ overran  \in SUBSET Requests
  /\ forgotten \in BOOLEAN

\* The distributed lock: two requests are between acquireLock and the start of
\* releaseLock at once only if one of them outlived the lock's TTL, in spite
\* of crashes, lost answers and releases that are retried by catchError.
ExecutionsExclude ==
  \A q, r \in Requests \ overran :
    pc[q] \in {"handling", "storing"} /\ pc[r] \in {"handling", "storing"} =>
      q = r

\* Whoever executes within the TTL owns the lock, and nobody owns it before
\* acquiring it. The inductive invariant behind ExecutionsExclude.
LeaseInv ==
  /\ TypeOK
  /\ \A r \in Requests \ overran :
       pc[r] \in {"handling", "storing"} => lock = r
  /\ \A r \in Requests :
       pc[r] \in {"idle", "discarding", "locking"} => lock # r /\ r \notin returned

\* The compare-and-delete: whatever expired in between, a step of one request
\* never frees or takes over the lock that another request holds.
OnlyOwnerFrees ==
  [][\A q, r \in Requests :
       lock = q /\ lock' # q /\ r # q => pc'[r] = pc[r]]_vars

\* A body a client receives, its own or a replayed one, is one that a handler
\* returned: errors, conflicts and half-written entries are never replayed.
AnswersAreGenuine ==
  \A r \in Requests : answer[r] \in Requests => answer[r] \in returned

\* A client that received its body, or the handler's own error, left no lock
\* behind: its retry is not turned away with a 409.
AnsweredMeansReleased ==
  \A r \in Requests : answer[r] \in {r, "handler error"} => lock # r

\* A retry sent after some client received a body never reaches the handler,
\* not even when its lookup fails or a slower execution stores a second body:
\* it is replayed or gets an error, unless a stored body has been deleted.
RetryAfterSuccessReplays ==
  [][\A r \in Requests :
       /\ pc[r] = "idle"
       /\ ~ forgotten
       /\ \E q \in Requests : answer[q] \in Requests
       => pc'[r] \in {"idle", "done"}]_vars

\* Whoever got the lock lets go of it, without the help of its expiry: the only
\* locks left to expire are those of a server that died and of a request whose
\* client was told of an error or a conflict, because Redis failed in its
\* acquireLock or in its last releaseLock.
LetsGo(r) ==
  \/ lock # r
  \/ pc[r] = "crashed"
  \/ answer[r] \in {"conflict", "redis error"}

HolderLetsGo == \A r \in Requests : lock = r ~> LetsGo(r)

\* What the interceptor's comment promises: with a cached response for the
\* key, duplicates get it and the handler is not executed again, here even if
\* all holders finish within their lock's TTL.
CachedInsteadOfReexecuted ==
  overran = {} =>
    \A r \in Requests : pc[r] = "handling" => response \notin Requests

=============================================================================
