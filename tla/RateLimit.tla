------------------------------ MODULE RateLimit ------------------------------
(***************************************************************************)
(* The fixed-window rate limiter, for the requests of one principal on one *)
(* route: they share one counter in Redis, whatever replica serves them.   *)
(* INCR, PEXPIRE and PTTL are three commands; between them requests        *)
(* interleave, time passes, the counter expires, Redis fails, answers are  *)
(* lost and the client resends the command, or a server dies.              *)
(***************************************************************************)
EXTENDS Integers, FiniteSets

CONSTANTS
  Requests,     \* requests of the principal
  Limit,        \* options.limit
  Window,       \* options.windowMs, in ticks of the clock
  PerSecond,    \* ticks per second: Retry-After counts seconds
  MaxResends    \* maxRetriesPerRequest: how often a command is resent

ASSUME ConstantsAssumption ==
  /\ IsFiniteSet(Requests)
  /\ Limit \in Nat
  /\ Window \in Nat \ {0}
  /\ PerSecond \in Nat \ {0}
  /\ MaxResends \in Nat

VARIABLES
  counter,   \* the value of the key, 0 if it does not exist
  ttl,       \* the time the key has left, 0 if it has no expiry
  counted,   \* history: the requests counted since the key was created
  prolonged, \* history: whether a second PEXPIRE has reset its expiry
  pc,        \* where each request is
  count,     \* the value INCR returned to each request
  resent,    \* how often each request resent its INCR
  read,      \* what PTTL answered to each refused request
  wait       \* what is left of the Retry-After of each refused request

key  == <<counter, ttl, counted, prolonged>>
vars == <<key, pc, count, resent, read, wait>>

\* Passed by the counter, passed because Redis failed, refused with 429, lost
Locations ==
  {"idle", "arming", "refusing", "passed", "open", "refused", "crashed"}

Init ==
  /\ counter = 0
  /\ ttl     = 0
  /\ counted = {}
  /\ prolonged = FALSE
  /\ pc      = [r \in Requests |-> "idle"]
  /\ count   = [r \in Requests |-> 0]
  /\ resent  = [r \in Requests |-> 0]
  /\ read    = [r \in Requests |-> 0]
  /\ wait    = [r \in Requests |-> 0]

Goto(r, location) == pc' = [pc EXCEPT ![r] = location]

\* Mutant: the comparison refuses the last request of the quota
VerdictEarly(n) == IF n >= Limit THEN "refusing" ELSE "passed"

\* count > options.limit
Verdict(n) == IF n > Limit THEN "refusing" ELSE "passed"

\* Mutant: the quotient is rounded down
RetryAfterFloor(ms) ==
  LET seconds == (IF ms > 0 THEN ms ELSE Window) \div PerSecond
  IN  IF seconds < 1 THEN 1 ELSE seconds

\* Math.max(1, Math.ceil((ttlMs > 0 ? ttlMs : windowMs) / 1000)), in seconds
RetryAfter(ms) ==
  LET seconds == ((IF ms > 0 THEN ms ELSE Window) + PerSecond - 1) \div PerSecond
  IN  IF seconds < 1 THEN 1 ELSE seconds

-----------------------------------------------------------------------------
(* Redis *)

\* INCR creates the key if need be and keeps its expiry
Increment(r) ==
  /\ counter' = counter + 1
  /\ counted' = counted \cup {r}
  /\ UNCHANGED <<ttl, prolonged>>

\* PEXPIRE sets the expiry of a key that exists
Arm ==
  /\ ttl' = IF counter > 0 THEN Window ELSE 0
  /\ prolonged' = (prolonged \/ ttl > 0)
  /\ UNCHANGED <<counter, counted>>

\* PTTL: -2 without a key, -1 without an expiry
Pttl == IF counter = 0 THEN -2 ELSE IF ttl = 0 THEN -1 ELSE ttl

\* Time passes for the key and for the clients that were told to wait
Tick ==
  /\ ttl > 0 \/ \E r \in Requests : wait[r] > 0
  /\ ttl' = IF ttl > 0 THEN ttl - 1 ELSE 0
  /\ counter' = IF ttl = 1 THEN 0 ELSE counter
  /\ counted' = IF ttl = 1 THEN {} ELSE counted
  /\ prolonged' = (prolonged /\ ttl # 1)
  /\ wait' = [r \in Requests |-> IF wait[r] > 0 THEN wait[r] - 1 ELSE 0]
  /\ UNCHANGED <<pc, count, resent, read>>

-----------------------------------------------------------------------------
(* canActivate *)

\* Mutant: the first request of a window is taken for any other
IncrWithoutExpiry(r) ==
  /\ pc[r] = "idle"
  /\ Increment(r)
  /\ count' = [count EXCEPT ![r] = counter + 1]
  /\ Goto(r, Verdict(counter + 1))
  /\ UNCHANGED <<resent, read, wait>>

\* Mutant: the counter is read and written back, and replicas read the same
IncrReadStale(r) ==
  /\ pc[r] = "idle"
  /\ \E n \in {counter, counter + 1} \ {0} :
       /\ counter' = n
       /\ count' = [count EXCEPT ![r] = n]
       /\ Goto(r, IF n = 1 THEN "arming" ELSE Verdict(n))
  /\ counted' = counted \cup {r}
  /\ UNCHANGED <<ttl, prolonged, resent, read, wait>>

\* INCR answers; the request that created the key has to set its expiry
Incr(r) ==
  /\ pc[r] = "idle"
  /\ Increment(r)
  /\ count' = [count EXCEPT ![r] = counter + 1]
  /\ Goto(r, IF counter + 1 = 1 THEN "arming" ELSE Verdict(counter + 1))
  /\ UNCHANGED <<resent, read, wait>>

PExpire(r) ==
  /\ pc[r] = "arming"
  /\ Arm
  /\ Goto(r, Verdict(count[r]))
  /\ UNCHANGED <<count, resent, read, wait>>

\* 429 with a Retry-After made of what PTTL answers
Refuse(r) ==
  /\ pc[r] = "refusing"
  /\ read' = [read EXCEPT ![r] = Pttl]
  /\ wait' = [wait EXCEPT ![r] = RetryAfter(Pttl) * PerSecond]
  /\ Goto(r, "refused")
  /\ UNCHANGED <<key, count, resent>>

\* INCR took effect, its answer is lost, and the client sends it again
IncrResent(r) ==
  /\ pc[r] = "idle"
  /\ resent[r] < MaxResends
  /\ Increment(r)
  /\ resent' = [resent EXCEPT ![r] = @ + 1]
  /\ UNCHANGED <<pc, count, read, wait>>

\* INCR fails, with or without effect: the request is let through
IncrFails(r) ==
  /\ pc[r] = "idle"
  /\ Increment(r) \/ UNCHANGED key
  /\ Goto(r, "open")
  /\ UNCHANGED <<count, resent, read, wait>>

\* PEXPIRE took effect and is sent again
PExpireResent(r) ==
  /\ pc[r] = "arming"
  /\ Arm
  /\ UNCHANGED <<pc, count, resent, read, wait>>

\* PEXPIRE fails, with or without effect
PExpireFails(r) ==
  /\ pc[r] = "arming"
  /\ Arm \/ UNCHANGED key
  /\ Goto(r, "open")
  /\ UNCHANGED <<count, resent, read, wait>>

\* PTTL fails: a request over the limit is let through as well
PttlFails(r) ==
  /\ pc[r] = "refusing"
  /\ Goto(r, "open")
  /\ UNCHANGED <<key, count, resent, read, wait>>

\* The server that runs r dies
Crash(r) ==
  /\ pc[r] \in {"arming", "refusing"} \/ (pc[r] = "idle" /\ resent[r] > 0)
  /\ Goto(r, "crashed")
  /\ UNCHANGED <<key, count, resent, read, wait>>

\* What a request that has sent its INCR does next, a resend included
Progress(r) ==
  \/ resent[r] > 0 /\ Incr(r)
  \/ PExpire(r)
  \/ Refuse(r)

Failure(r) ==
  \/ IncrResent(r) \/ IncrFails(r)
  \/ PExpireResent(r) \/ PExpireFails(r)
  \/ PttlFails(r)
  \/ Crash(r)

Next ==
  \/ \E r \in Requests : Incr(r) \/ Progress(r) \/ Failure(r)
  \/ Tick

Spec == Init /\ [][Next]_vars

\* A request that has started is resumed after each await, and time passes.
\* Nothing forces a request to arrive.
FairSpec ==
  /\ Spec
  /\ \A r \in Requests : WF_vars(Progress(r))
  /\ WF_vars(Tick)

-----------------------------------------------------------------------------
(* Properties *)

TypeOK ==
  /\ counter \in Nat
  /\ ttl     \in 0 .. Window
  /\ counted \in SUBSET Requests
  /\ prolonged \in BOOLEAN
  /\ pc      \in [Requests -> Locations]
  /\ count   \in [Requests -> Nat]
  /\ resent  \in [Requests -> 0 .. MaxResends]
  /\ read    \in [Requests -> -2 .. Window]
  /\ wait    \in [Requests -> Nat]

\* The requests that the counter let pass since it was created
Admitted == {r \in counted : pc[r] = "passed"}

\* However many replicas count, and however often commands are resent, the
\* counter lets at most Limit requests pass from its creation to its expiry.
QuotaPerWindow == Cardinality(Admitted) <= Limit

\* The requests that know their place since the counter was created
Placed == {r \in counted : pc[r] \in {"arming", "refusing", "passed", "refused"}}

\* The inductive invariant behind the quota: no two requests were given the
\* same place, and only places within the limit pass.
QuotaInv ==
  /\ TypeOK
  /\ ttl > 0 => counter > 0
  /\ counter = 0 => counted = {}
  /\ \A r \in Placed : count[r] \in 1 .. counter
  /\ \A q, r \in Placed : count[q] = count[r] => q = r
  /\ \A r \in Requests : pc[r] = "passed" => count[r] <= Limit

\* How many INCRs were sent again
Resends ==
  Cardinality({p \in Requests \X (1 .. MaxResends) : p[2] <= resent[p[1]]})

\* A client is refused only if its principal really sent more than Limit
\* requests since the counter was created, or INCRs that were sent again
\* make up for the difference.
RefusalsAreEarned ==
  \A r \in counted :
    pc[r] = "refused" => Cardinality(counted) + Resends > Limit

\* A client that waits out its Retry-After meets another counter than the one
\* it was refused by, provided that one had its expiry when it was asked and
\* no PEXPIRE that was sent again has prolonged it.
RetryAfterIsHonest ==
  \A r \in counted :
    pc[r] = "refused" /\ read[r] > 0 /\ wait[r] = 0 => prolonged

\* A request that met a failure of Redis or of its server
Disturbed(r) == pc[r] \in {"open", "crashed"} \/ resent[r] > 0

\* A window ends, so that a principal over its limit is let through some time
\* later, unless one of the requests counted in it met a failure: late
\* verdicts, expiries between the commands and refusals do not keep it open.
UndisturbedWindowEnds ==
  counter > 0 ~> counter = 0 \/ \E r \in counted : Disturbed(r)

\* Every window ends. The comment of the guard says that the window is
\* enforced atomically.
WindowEnds == counter > 0 ~> counter = 0

=============================================================================
