--------------------------- MODULE RateLimit_proofs ---------------------------
(***************************************************************************)
(* Proofs about RateLimit, for any number of requests, any limit, window   *)
(* and number of resends, with or without failures.                        *)
(***************************************************************************)
EXTENDS RateLimit, FiniteSetTheorems, TLAPS

\* A Retry-After is a positive number of seconds, whatever PTTL answered.
LEMMA RetryAfterType ==
  ASSUME NEW ms \in Int
  PROVE  RetryAfter(ms) \in Nat \ {0} /\ RetryAfter(ms) * PerSecond \in Nat
<1> DEFINE seconds == ((IF ms > 0 THEN ms ELSE Window) + PerSecond - 1) \div PerSecond
<1>1. seconds \in Int
  BY ConstantsAssumption
<1>2. RetryAfter(ms) \in Nat \ {0}
  BY <1>1 DEF RetryAfter
<1> QED
  BY <1>2, ConstantsAssumption

\* PTTL answers an integer between -2 and the window.
LEMMA PttlType ==
  ASSUME TypeOK
  PROVE  Pttl \in -2 .. Window
  BY ConstantsAssumption DEF TypeOK, Pttl

\* A PEXPIRE, with or without effect, keeps the types of the key.
LEMMA ArmType ==
  ASSUME TypeOK, Arm \/ UNCHANGED key
  PROVE  /\ counter' = counter /\ counted' = counted
         /\ ttl' \in 0 .. Window
         /\ ttl' > 0 => counter > 0 \/ ttl > 0
         /\ prolonged' \in BOOLEAN
<1>1. CASE Arm
  <2>1. prolonged' = (prolonged \/ ttl > 0)
    BY <1>1 DEF Arm
  <2>2. prolonged' \in BOOLEAN
    BY <2>1, Zenon
  <2> QED
    BY <1>1, <2>2, ConstantsAssumption DEF Arm
<1>2. CASE UNCHANGED key
  BY <1>2 DEF TypeOK, key
<1> QED
  BY <1>1, <1>2

\* Every step keeps the types.
LEMMA TypeStep == TypeOK /\ [Next]_vars => TypeOK'
<1> SUFFICES ASSUME TypeOK, [Next]_vars PROVE TypeOK'
  OBVIOUS
<1> USE ConstantsAssumption DEF TypeOK, Locations, key
<1>1. ASSUME NEW r \in Requests, Incr(r) PROVE TypeOK'
  BY <1>1 DEF Incr, Increment, Goto, Verdict
<1>2. ASSUME NEW r \in Requests, PExpire(r) PROVE TypeOK'
  BY <1>2 DEF PExpire, Arm, Goto, Verdict
<1>3. ASSUME NEW r \in Requests, Refuse(r) PROVE TypeOK'
  <2>1. Pttl \in -2 .. Window /\ Pttl \in Int
    BY PttlType
  <2>2. RetryAfter(Pttl) * PerSecond \in Nat
    BY <2>1, RetryAfterType
  <2> QED
    BY <1>3, <2>1, <2>2 DEF Refuse, Goto
<1>4. ASSUME NEW r \in Requests, IncrResent(r) PROVE TypeOK'
  BY <1>4 DEF IncrResent, Increment
<1>5. ASSUME NEW r \in Requests, IncrFails(r) PROVE TypeOK'
  BY <1>5 DEF IncrFails, Increment, Goto
<1>6. ASSUME NEW r \in Requests, PExpireResent(r) \/ PExpireFails(r) PROVE TypeOK'
  BY <1>6, ArmType DEF PExpireResent, PExpireFails, Goto
<1>7. ASSUME NEW r \in Requests, PttlFails(r) \/ Crash(r) PROVE TypeOK'
  BY <1>7 DEF PttlFails, Crash, Goto
<1>8. CASE Tick
  BY <1>8 DEF Tick
<1>9. CASE UNCHANGED vars
  BY <1>9 DEF vars
<1> QED
  BY <1>1, <1>2, <1>3, <1>4, <1>5, <1>6, <1>7, <1>8, <1>9
  DEF Next, Progress, Failure

\* Every step keeps the places distinct and the quota of those that pass.
LEMMA QuotaStep == TypeOK' /\ QuotaInv /\ [Next]_vars => QuotaInv'
<1> SUFFICES ASSUME TypeOK', QuotaInv, [Next]_vars PROVE QuotaInv'
  OBVIOUS
<1> USE ConstantsAssumption DEF QuotaInv, TypeOK, Placed, key
<1>1. ASSUME NEW r \in Requests, Incr(r) PROVE QuotaInv'
  BY <1>1 DEF Incr, Increment, Goto, Verdict
<1>2. ASSUME NEW r \in Requests, PExpire(r) PROVE QuotaInv'
  BY <1>2 DEF PExpire, Arm, Goto, Verdict
<1>3. ASSUME NEW r \in Requests, Refuse(r) PROVE QuotaInv'
  BY <1>3 DEF Refuse, Goto
<1>4. ASSUME NEW r \in Requests, IncrResent(r) PROVE QuotaInv'
  BY <1>4 DEF IncrResent, Increment
<1>5. ASSUME NEW r \in Requests, IncrFails(r) PROVE QuotaInv'
  BY <1>5 DEF IncrFails, Increment, Goto
<1>6. ASSUME NEW r \in Requests, PExpireResent(r) \/ PExpireFails(r) PROVE QuotaInv'
  BY <1>6, ArmType DEF PExpireResent, PExpireFails, Goto
<1>7. ASSUME NEW r \in Requests, PttlFails(r) \/ Crash(r) PROVE QuotaInv'
  BY <1>7 DEF PttlFails, Crash, Goto
<1>8. CASE Tick
  BY <1>8 DEF Tick
<1>9. CASE UNCHANGED vars
  BY <1>9 DEF vars
<1> QED
  BY <1>1, <1>2, <1>3, <1>4, <1>5, <1>6, <1>7, <1>8, <1>9
  DEF Next, Progress, Failure

\* The places given out by one counter are distinct, and only places within
\* the limit pass, whatever fails, is resent or expires.
THEOREM QuotaInvariant == Spec => []QuotaInv
<1>1. Init => QuotaInv
  <2>1. Init => prolonged \in BOOLEAN
    BY Zenon DEF Init
  <2> QED
    BY <2>1, ConstantsAssumption DEF Init, QuotaInv, TypeOK, Placed, Locations
<1>2. QuotaInv /\ [Next]_vars => QuotaInv'
  BY TypeStep, QuotaStep DEF QuotaInv
<1> QED
  BY <1>1, <1>2, PTL DEF Spec

\* From its creation to its expiry, a counter lets at most Limit requests pass:
\* their places are an injection into 1 .. Limit.
THEOREM QuotaHolds == Spec => []QuotaPerWindow
<1>1. QuotaInv => QuotaPerWindow
  <2> SUFFICES ASSUME QuotaInv PROVE Cardinality(Admitted) <= Limit
    BY DEF QuotaPerWindow
  <2> DEFINE place == [r \in Admitted |-> count[r]]
  <2>1. Admitted \subseteq Placed /\ Admitted \subseteq Requests
    BY DEF Admitted, Placed, QuotaInv, TypeOK
  <2>2. \A r \in Admitted : count[r] \in 1 .. Limit
    BY <2>1, ConstantsAssumption DEF Admitted, QuotaInv, TypeOK
  <2>3. \A q, r \in Admitted : place[q] = place[r] => q = r
    BY <2>1 DEF QuotaInv
  <2>4. place \in Injection(Admitted, 1 .. Limit)
    BY <2>2, <2>3 DEF Injection, IsInjective
  <2>5. IsFiniteSet(1 .. Limit) /\ Cardinality(1 .. Limit) = Limit
    BY FS_Interval, ConstantsAssumption
  <2> QED
    BY <2>4, <2>5, FS_Injection
<1> QED
  BY <1>1, QuotaInvariant, PTL

-----------------------------------------------------------------------------
(* Refusals *)

\* The counted requests that sent their last INCR.
Answered == {r \in counted : pc[r] # "idle"}

\* The INCRs that were sent again, one by one.
ResendPairs == {p \in Requests \X (1 .. MaxResends) : p[2] <= resent[p[1]]}

\* Each INCR of a counter is the last of its request or one sent again.
Accounted == counter <= Cardinality(Answered) + Resends

\* Only a count over the limit is refused.
OverLimit ==
  \A r \in Requests : pc[r] \in {"refusing", "refused"} => count[r] > Limit

\* Any set of requests is finite, and so are the INCRs sent again.
LEMMA RequestsFinite ==
  ASSUME NEW S \in SUBSET Requests, NEW f
  PROVE  /\ IsFiniteSet(S) /\ Cardinality(S) \in Nat
         /\ Cardinality({p \in Requests \X (1 .. MaxResends) : p[2] <= f[p[1]]}) \in Nat
<1> DEFINE P == {p \in Requests \X (1 .. MaxResends) : p[2] <= f[p[1]]}
<1>1. IsFiniteSet(S)
  BY ConstantsAssumption, FS_Subset
<1>2. IsFiniteSet(Requests \X (1 .. MaxResends))
  <2>1. IsFiniteSet(1 .. MaxResends)
    BY ConstantsAssumption, FS_Interval
  <2> QED
    BY <2>1, ConstantsAssumption, FS_Product
<1>3. IsFiniteSet(P)
  <2>1. P \in SUBSET (Requests \X (1 .. MaxResends))
    OBVIOUS
  <2> QED
    BY <1>2, <2>1, FS_Subset
<1> QED
  BY <1>1, <1>3, FS_CardinalityType

\* The sets that are counted are finite.
LEMMA CountedFinite ==
  ASSUME TypeOK
  PROVE  /\ IsFiniteSet(Answered) /\ Cardinality(Answered) \in Nat
         /\ IsFiniteSet(counted) /\ Cardinality(counted) \in Nat
         /\ Cardinality(Answered) <= Cardinality(counted)
         /\ IsFiniteSet(ResendPairs) /\ Cardinality(ResendPairs) \in Nat
<1>1. IsFiniteSet(counted)
  BY ConstantsAssumption, FS_Subset DEF TypeOK
<1>2. Answered \in SUBSET counted
  BY DEF Answered
<1>3. IsFiniteSet(1 .. MaxResends)
  BY ConstantsAssumption, FS_Interval
<1>4. IsFiniteSet(Requests \X (1 .. MaxResends))
  BY <1>3, ConstantsAssumption, FS_Product
<1>5. ResendPairs \in SUBSET (Requests \X (1 .. MaxResends))
  BY DEF ResendPairs
<1>6. IsFiniteSet(ResendPairs)
  BY <1>4, <1>5, FS_Subset
<1>7. IsFiniteSet(Answered) /\ Cardinality(Answered) <= Cardinality(counted)
  BY <1>1, <1>2, FS_Subset
<1> QED
  BY <1>1, <1>6, <1>7, FS_CardinalityType

\* A request that is counted for the last time adds one to those accounted for.
LEMMA LastIncrAccounted ==
  ASSUME TypeOK, Accounted, NEW r \in Requests, pc[r] = "idle",
         NEW location, location # "idle", Goto(r, location),
         counter' = counter + 1, counted' = counted \cup {r}, UNCHANGED resent
  PROVE  Accounted'
<1>1. Answered' = Answered \cup {r} /\ r \notin Answered
  BY DEF Answered, Goto, TypeOK
<1>2. Cardinality(Answered') = Cardinality(Answered) + 1
  BY <1>1, CountedFinite, FS_AddElement
<1>3. Resends' = Resends /\ Resends \in Nat
  BY CountedFinite DEF Resends, ResendPairs
<1> QED
  BY <1>2, <1>3, CountedFinite DEF Accounted, TypeOK

\* An INCR that is sent again adds one as well.
LEMMA ResendAccounted ==
  ASSUME TypeOK, Accounted, NEW r \in Requests, IncrResent(r)
  PROVE  Accounted'
<1> DEFINE new == <<r, resent[r] + 1>>
<1>1. /\ pc[r] = "idle" /\ resent[r] < MaxResends
      /\ counter' = counter + 1 /\ counted' = counted \cup {r} /\ UNCHANGED pc
      /\ \A q \in Requests : resent'[q] = IF q = r THEN resent[q] + 1 ELSE resent[q]
  BY DEF IncrResent, Increment, TypeOK
<1>2. Answered' = Answered
  BY <1>1 DEF Answered
<1>3. ResendPairs' = ResendPairs \cup {new} /\ new \notin ResendPairs
  BY <1>1, ConstantsAssumption DEF ResendPairs, TypeOK
<1>4. Cardinality(ResendPairs') = Cardinality(ResendPairs) + 1
  BY <1>3, CountedFinite, FS_AddElement
<1>5. Resends = Cardinality(ResendPairs) /\ Resends' = Cardinality(ResendPairs')
  BY DEF Resends, ResendPairs
<1> QED
  BY <1>1, <1>2, <1>4, <1>5, CountedFinite DEF Accounted, TypeOK

\* A step that counts nobody, and sends nobody back to the start.
LEMMA QuietAccounted ==
  ASSUME TypeOK, TypeOK', Accounted, UNCHANGED <<counter, counted, resent>>,
         \A r \in Requests : pc[r] # "idle" => pc'[r] # "idle"
  PROVE  Accounted'
<1>1. Answered \in SUBSET Answered'
  BY DEF Answered, TypeOK
<1>2. Answered' \in SUBSET Requests
  BY DEF Answered, TypeOK
<1>3. IsFiniteSet(Answered') /\ Cardinality(Answered') \in Nat
  BY <1>2, RequestsFinite
<1>4. Cardinality(Answered) <= Cardinality(Answered')
  BY <1>1, <1>3, FS_Subset
<1>5. Resends' = Resends /\ Resends \in Nat
  BY CountedFinite DEF Resends, ResendPairs
<1> QED
  BY <1>3, <1>4, <1>5, CountedFinite DEF Accounted, TypeOK

\* Time passes, and the counter may expire.
LEMMA TickAccounted ==
  ASSUME TypeOK, TypeOK', Accounted, Tick
  PROVE  Accounted'
<1>1. CASE ttl = 1
  <2>1. counter' = 0
    BY <1>1 DEF Tick
  <2>2. Answered' \in SUBSET Requests
    BY DEF Answered, TypeOK
  <2>3. Cardinality(Answered') \in Nat /\ Resends' \in Nat
    BY <2>2, RequestsFinite DEF Resends
  <2> QED
    BY <2>1, <2>3 DEF Accounted
<1>2. CASE ttl # 1
  BY <1>2, QuietAccounted DEF Tick
<1> QED
  BY <1>1, <1>2

\* Every INCR stays accounted for.
LEMMA AccountedStep ==
  ASSUME TypeOK, TypeOK', Accounted, [Next]_vars
  PROVE  Accounted'
<1>1. ASSUME NEW r \in Requests, Incr(r) PROVE Accounted'
  <2>1. \E location \in Locations \ {"idle"} : Goto(r, location)
    BY <1>1 DEF Incr, Verdict, Locations
  <2> QED
    BY <1>1, <2>1, LastIncrAccounted DEF Incr, Increment
<1>2. ASSUME NEW r \in Requests, IncrFails(r) PROVE Accounted'
  <2>1. CASE Increment(r)
    BY <1>2, <2>1, LastIncrAccounted DEF IncrFails, Increment
  <2>2. CASE UNCHANGED key
    <3>1. \A q \in Requests : pc[q] # "idle" => pc'[q] # "idle"
      BY <1>2 DEF IncrFails, Goto, TypeOK
    <3> QED
      BY <1>2, <2>2, <3>1, QuietAccounted DEF IncrFails, key
  <2> QED
    BY <1>2, <2>1, <2>2 DEF IncrFails
<1>3. ASSUME NEW r \in Requests,
             \/ PExpire(r) \/ PExpireResent(r) \/ PExpireFails(r)
             \/ Refuse(r) \/ PttlFails(r) \/ Crash(r)
      PROVE  Accounted'
  <2>1. UNCHANGED <<counter, counted, resent>>
    BY <1>3
    DEF PExpire, PExpireResent, PExpireFails, Refuse, PttlFails, Crash, Arm, key
  <2>2. (\E location \in Locations \ {"idle"} : Goto(r, location)) \/ UNCHANGED pc
    BY <1>3
    DEF PExpire, PExpireResent, PExpireFails, Refuse, PttlFails, Crash, Verdict,
        Locations
  <2>3. \A q \in Requests : pc[q] # "idle" => pc'[q] # "idle"
    BY <2>2 DEF Goto, TypeOK
  <2> QED
    BY <2>1, <2>3, QuietAccounted
<1>4. CASE UNCHANGED vars
  BY <1>4, QuietAccounted DEF vars, key
<1> QED
  BY <1>1, <1>2, <1>3, <1>4, ResendAccounted, TickAccounted
  DEF Next, Progress, Failure

\* Whoever is refused was counted over the limit.
LEMMA OverLimitStep ==
  ASSUME TypeOK, OverLimit, [Next]_vars
  PROVE  OverLimit'
<1> USE ConstantsAssumption DEF OverLimit, TypeOK, Goto
<1>1. ASSUME NEW r \in Requests, Incr(r) PROVE OverLimit'
  BY <1>1 DEF Incr, Verdict
<1>2. ASSUME NEW r \in Requests, PExpire(r) \/ Refuse(r) PROVE OverLimit'
  BY <1>2 DEF PExpire, Refuse, Verdict
<1>3. ASSUME NEW r \in Requests, Failure(r) PROVE OverLimit'
  BY <1>3
  DEF Failure, IncrResent, IncrFails, PExpireResent, PExpireFails, PttlFails, Crash
<1>4. CASE Tick \/ UNCHANGED vars
  BY <1>4 DEF Tick, vars
<1> QED
  BY <1>1, <1>2, <1>3, <1>4 DEF Next, Progress

\* A refusal is earned: the principal sent more than Limit requests since the
\* counter was created, INCRs that were sent again included, whatever fails.
THEOREM RefusalsEarned == Spec => []RefusalsAreEarned
<1> DEFINE Inv == QuotaInv /\ Accounted /\ OverLimit
<1>1. Init => Accounted /\ OverLimit
  <2> SUFFICES ASSUME Init PROVE Accounted /\ OverLimit
    OBVIOUS
  <2>1. TypeOK
    <3>1. prolonged \in BOOLEAN
      BY Zenon DEF Init
    <3> QED
      BY <3>1, ConstantsAssumption DEF Init, TypeOK, Locations
  <2>2. Cardinality(Answered) \in Nat /\ Resends \in Nat
    BY <2>1, CountedFinite DEF Resends, ResendPairs
  <2> QED
    BY <2>2 DEF Init, Accounted, OverLimit
<1>2. QuotaInv /\ QuotaInv' /\ Accounted /\ OverLimit /\ [Next]_vars =>
        Accounted' /\ OverLimit'
  BY AccountedStep, OverLimitStep DEF QuotaInv
<1>3. QuotaInv /\ Accounted /\ OverLimit => RefusalsAreEarned
  <2> SUFFICES ASSUME QuotaInv, Accounted, OverLimit,
                      NEW r \in counted, pc[r] = "refused"
               PROVE  Cardinality(counted) + Resends > Limit
    BY DEF RefusalsAreEarned
  <2>1. count[r] > Limit /\ count[r] \in 1 .. counter /\ counter \in Nat
    BY DEF QuotaInv, TypeOK, OverLimit, Placed
  <2>2. /\ Resends \in Nat
        /\ Cardinality(Answered) \in Nat /\ Cardinality(counted) \in Nat
        /\ Cardinality(Answered) <= Cardinality(counted)
    BY CountedFinite DEF QuotaInv, Resends, ResendPairs
  <2> QED
    BY <2>1, <2>2, ConstantsAssumption DEF Accounted
<1> QED
  BY <1>1, <1>2, <1>3, QuotaInvariant, PTL DEF Spec

-----------------------------------------------------------------------------
(* Retry-After *)

\* The seconds of a Retry-After cover the milliseconds they are made of.
LEMMA RetryAfterCovers ==
  ASSUME NEW ms \in Nat \ {0}
  PROVE  RetryAfter(ms) * PerSecond >= ms
<1> DEFINE n == ms + PerSecond - 1
           seconds == n \div PerSecond
<1>1. n \in Int /\ PerSecond \in Nat \ {0}
  BY ConstantsAssumption
<1>2. seconds \in Int /\ seconds * PerSecond + (n % PerSecond) = n /\ n % PerSecond < PerSecond
  BY <1>1
<1>3. seconds * PerSecond >= ms
  BY <1>1, <1>2
<1>4. RetryAfter(ms) = IF seconds < 1 THEN 1 ELSE seconds
  BY DEF RetryAfter
<1> QED
  BY <1>1, <1>2, <1>3, <1>4

\* Whoever was told to wait by a counter with an expiry waits until that has
\* passed, unless a second PEXPIRE has moved it.
WaitCovers ==
  \A r \in counted :
    pc[r] = "refused" /\ read[r] > 0 => prolonged \/ (ttl > 0 /\ wait[r] >= ttl)

\* A PEXPIRE moves the expiry of a key that has one, and marks that it did.
LEMMA ArmCovers ==
  ASSUME TypeOK, WaitCovers, NEW r \in Requests, pc[r] # "refused",
         pc'[r] # "refused", \A q \in Requests : q # r => pc'[q] = pc[q],
         Arm \/ UNCHANGED key, UNCHANGED <<read, wait>>
  PROVE  WaitCovers'
<1>1. CASE Arm
  <2>1. counted' = counted /\ (prolonged \/ ttl > 0 => prolonged')
    BY <1>1 DEF Arm
  <2> QED
    BY <2>1 DEF WaitCovers, TypeOK
<1>2. CASE UNCHANGED key
  BY <1>2 DEF WaitCovers, TypeOK, key
<1> QED
  BY <1>1, <1>2

\* The time a client waits and the time the key has left pass together.
LEMMA TickCovers ==
  ASSUME TypeOK, WaitCovers, Tick
  PROVE  WaitCovers'
<1>1. CASE ttl = 1
  BY <1>1 DEF Tick, WaitCovers
<1>2. CASE ttl # 1
  <2>1. /\ UNCHANGED <<counted, pc, read>>
        /\ prolonged => prolonged'
        /\ ttl > 0 => ttl' = ttl - 1 /\ ttl' > 0
        /\ \A r \in Requests : wait'[r] = IF wait[r] > 0 THEN wait[r] - 1 ELSE 0
    BY <1>2 DEF Tick, TypeOK
  <2> QED
    BY <2>1 DEF WaitCovers, TypeOK
<1> QED
  BY <1>1, <1>2

\* Every step keeps the waiting times long enough.
LEMMA WaitCoversStep ==
  ASSUME TypeOK, WaitCovers, [Next]_vars
  PROVE  WaitCovers'
<1>1. ASSUME NEW r \in Requests, Incr(r) \/ IncrResent(r) \/ IncrFails(r)
      PROVE  WaitCovers'
  <2>1. /\ counted' \subseteq counted \cup {r} /\ UNCHANGED <<ttl, prolonged, read, wait>>
        /\ pc[r] = "idle" /\ pc'[r] # "refused"
        /\ \A q \in Requests : q # r => pc'[q] = pc[q]
    BY <1>1 DEF Incr, IncrResent, IncrFails, Increment, Goto, Verdict, TypeOK, key
  <2> QED
    BY <2>1 DEF WaitCovers, TypeOK
<1>2. ASSUME NEW r \in Requests,
             PExpire(r) \/ PExpireResent(r) \/ PExpireFails(r)
      PROVE  WaitCovers'
  <2>1. /\ pc[r] # "refused" /\ pc'[r] # "refused"
        /\ \A q \in Requests : q # r => pc'[q] = pc[q]
    BY <1>2 DEF PExpire, PExpireResent, PExpireFails, Goto, Verdict, TypeOK
  <2>2. (Arm \/ UNCHANGED key) /\ UNCHANGED <<read, wait>>
    BY <1>2 DEF PExpire, PExpireResent, PExpireFails
  <2> QED
    BY <2>1, <2>2, ArmCovers
<1>3. ASSUME NEW r \in Requests, Refuse(r)
      PROVE  WaitCovers'
  <2>1. /\ UNCHANGED <<counted, ttl, prolonged, counter>>
        /\ read' = [read EXCEPT ![r] = Pttl]
        /\ wait' = [wait EXCEPT ![r] = RetryAfter(Pttl) * PerSecond]
        /\ pc' = [pc EXCEPT ![r] = "refused"]
    BY <1>3 DEF Refuse, Goto, key
  <2>2. Pttl > 0 => ttl > 0 /\ Pttl = ttl
    BY DEF Pttl, TypeOK
  <2>3. Pttl > 0 => RetryAfter(Pttl) * PerSecond >= ttl
    BY <2>2, ConstantsAssumption, RetryAfterCovers DEF TypeOK
  <2> DEFINE answered == Pttl
             waiting == RetryAfter(Pttl) * PerSecond
  <2>4. /\ read' = [read EXCEPT ![r] = answered]
        /\ wait' = [wait EXCEPT ![r] = waiting]
        /\ answered > 0 => ttl > 0 /\ waiting >= ttl
    BY <2>1, <2>2, <2>3
  <2> HIDE DEF answered, waiting
  <2> QED
    BY <2>1, <2>4 DEF WaitCovers, TypeOK
<1>4. ASSUME NEW r \in Requests, PttlFails(r) \/ Crash(r)
      PROVE  WaitCovers'
  <2>1. /\ UNCHANGED <<counted, ttl, prolonged, read, wait>>
        /\ \E location \in {"open", "crashed"} : pc' = [pc EXCEPT ![r] = location]
    BY <1>4 DEF PttlFails, Crash, Goto, key
  <2> QED
    BY <2>1 DEF WaitCovers, TypeOK
<1>5. CASE UNCHANGED vars
  BY <1>5 DEF vars, key, WaitCovers
<1> QED
  BY <1>1, <1>2, <1>3, <1>4, <1>5, TickCovers DEF Next, Progress, Failure

\* A client that waits out its Retry-After meets another counter than the one
\* that refused it, for any window and any length of a second.
THEOREM RetryAfterHonest == Spec => []RetryAfterIsHonest
<1>1. Init => WaitCovers
  BY DEF Init, WaitCovers
<1>2. QuotaInv /\ WaitCovers /\ [Next]_vars => WaitCovers'
  BY WaitCoversStep DEF QuotaInv
<1>3. QuotaInv /\ WaitCovers => RetryAfterIsHonest
  BY DEF QuotaInv, TypeOK, WaitCovers, RetryAfterIsHonest
<1> QED
  BY <1>1, <1>2, <1>3, QuotaInvariant, PTL DEF Spec

===============================================================================
