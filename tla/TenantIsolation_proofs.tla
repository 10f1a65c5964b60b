------------------------ MODULE TenantIsolation_proofs ------------------------
(***************************************************************************)
(* Proofs about TenantIsolation, for any number of clients, connections,   *)
(* tenants and transactions, with the policy and without it.               *)
(***************************************************************************)
EXTENDS TenantIsolation, Counting, FiniteSetTheorems, TLAPS

-----------------------------------------------------------------------------
(* Types *)

\* Ids are natural numbers, and the sets of rows that statements return are
\* sets of ids.
LEMMA RowSets ==
  ASSUME NEW r \in Clients
  PROVE  /\ Ids \subseteq Nat
         /\ Own(r) \in SUBSET Ids
         /\ Scoped(r) \in SUBSET Ids
  BY ConstantsAssumption DEF Ids, Own, Scoped, Visible

\* A page is a set of the rows that the query selects.
LEMMA WindowsInside ==
  ASSUME NEW S, NEW skip, NEW take, NEW W \in Windows(S, skip, take)
  PROVE  W \subseteq S
  BY DEF Windows

\* The number of the page that findAll returns is a natural number.
LEMMA PageType ==
  ASSUME NEW page \in Nat
  PROVE  PageOf(page) \in Nat
  BY DEF PageOf, Most

\* A walk that has received one more page is a walk.
LEMMA WalkGrows ==
  ASSUME TypeOK, NEW r \in Clients
  PROVE  Received(r) \in [due : SUBSET Ids, seen : SUBSET Ids, page : Nat]
  BY PageType DEF TypeOK, Received

\* A walk that begins is a walk.
LEMMA WalkBegins ==
  ASSUME TypeOK, NEW r \in Clients
  PROVE  [walk EXCEPT ![r].due = Own(r)]
           \in [Clients -> [due : SUBSET Ids, seen : SUBSET Ids, page : Nat]]
  BY RowSets DEF TypeOK

\* No walk is a walk.
LEMMA NoWalkType ==
  NoWalk \in [due : SUBSET Ids, seen : SUBSET Ids, page : Nat]
  BY DEF NoWalk

\* A request that arrives keeps the types.
LEMMA ArriveTypes ==
  ASSUME TypeOK, NEW r \in Clients, NEW what \in Kinds, NEW with \in Nat,
         Arrive(r, what, with),
         walk' \in [Clients -> [due : SUBSET Ids, seen : SUBSET Ids, page : Nat]]
  PROVE  TypeOK'
  BY DEF TypeOK, Arrive, Goto, Forget, fixed, table, session, Locations, Principals

\* An error answer keeps the types of what it changes.
LEMMA RejectTypes ==
  ASSUME TypeOK, NEW r \in Clients, Reject(r)
  PROVE  /\ pc' \in [Clients -> Locations]
         /\ kind' \in [Clients -> Kinds]
         /\ arg' \in [Clients -> Nat]
         /\ context' \in [Clients -> Principals]
         /\ found' \in [Clients -> SUBSET Ids]
         /\ walk' \in [Clients -> [due : SUBSET Ids, seen : SUBSET Ids, page : Nat]]
  BY NoWalkType
     DEF TypeOK, Reject, Respond, Goto, Forget, Locations, Kinds, Principals

\* The end of a database transaction keeps the types of the session.
LEMMA EndTypes ==
  ASSUME TypeOK, NEW r \in Clients, EndTransaction(r)
  PROVE  /\ role' \in [Connections -> {Superuser, "rls_app"}]
         /\ setting' \in [Connections -> Principals]
         /\ conn' \in [Clients -> Connections \cup {NoConnection}]
  BY DEF TypeOK, EndTransaction, Principals

\* Every step keeps the types.
LEMMA TypeStep ==
  TypeOK /\ [Next]_vars => TypeOK'
<1> SUFFICES ASSUME TypeOK, [Next]_vars PROVE TypeOK'
  OBVIOUS
<1> DEFINE Walks == [Clients -> [due : SUBSET Ids, seen : SUBSET Ids, page : Nat]]
<1>1. ASSUME NEW r \in Clients, NEW i \in Ids,
             AskForOne(r, "get", i) \/ AskForOne(r, "process", i) \/ AskToCreate(r, i)
      PROVE  TypeOK'
  <2>1. PICK what \in {"get", "process", "create"} : Arrive(r, what, i) /\ EndWalk(r)
    BY <1>1 DEF AskForOne, AskToCreate
  <2>2. what \in Kinds /\ i \in Nat
    BY RowSets DEF Kinds
  <2>3. walk' \in Walks
    BY <2>1, NoWalkType DEF EndWalk, TypeOK
  <2> QED
    BY <2>1, <2>2, <2>3, ArriveTypes
<1>2. ASSUME NEW r \in Clients, AskForPage(r) PROVE TypeOK'
  <2>1. walk[r].page + 1 \in Nat
    BY DEF TypeOK
  <2>2. PICK page \in Nat : Arrive(r, "list", page)
    BY <1>2, <2>1 DEF AskForPage
  <2>3. walk' \in Walks
    <3>1. walk' = [walk EXCEPT ![r].due = Own(r)] \/ walk' = walk
      BY <1>2 DEF AskForPage
    <3> QED
      BY <3>1, WalkBegins DEF TypeOK
  <2> QED
    BY <2>2, <2>3, ArriveTypes DEF Kinds
<1>3. ASSUME NEW r \in Clients, RefuseToken(r) \/ RefuseRole(r) \/ ConnectTimesOut(r)
      PROVE  TypeOK'
  BY <1>3, RejectTypes
     DEF RefuseToken, RefuseRole, ConnectTimesOut, TypeOK, fixed, table, session
<1>4. ASSUME NEW r \in Clients, NEW c \in pool, Begin(r, c) PROVE TypeOK'
  BY <1>4 DEF Begin, TypeOK, Goto, Locations, fixed, table, session
<1>5. ASSUME NEW r \in Clients, Authenticate(r) PROVE TypeOK'
  BY <1>5 DEF Authenticate, TypeOK, Goto, Locations, fixed, table, session
<1>6. ASSUME NEW r \in Clients, AnswerNoTenant(r) PROVE TypeOK'
  BY <1>6, NoWalkType
     DEF AnswerNoTenant, Respond, EndWalk, TypeOK, Goto, Locations, Kinds, Principals,
         fixed, table, session
<1>7. ASSUME NEW r \in Clients, SetRole(r) \/ SetTenant(r) PROVE TypeOK'
  BY <1>7 DEF SetRole, SetTenant, AfterRole, TypeOK, Goto, Locations, fixed, table
<1>8. ASSUME NEW r \in Clients, Fail(r) PROVE TypeOK'
  BY <1>8, RejectTypes, EndTypes DEF Fail, TypeOK, fixed, table
<1>9. ASSUME NEW r \in Clients, Create(r) PROVE TypeOK'
  BY <1>9, EndTypes
     DEF Create, Respond, TypeOK, Goto, Locations, Kinds, Principals, fixed
<1>10. ASSUME NEW r \in Clients, FindById(r) PROVE TypeOK'
  <2>1. found' \in [Clients -> SUBSET Ids]
    BY <1>10, RowSets DEF FindById, TypeOK
  <2>2. /\ pc' \in [Clients -> Locations]
        /\ kind' \in [Clients -> Kinds]
        /\ arg' \in [Clients -> Nat]
        /\ context' \in [Clients -> Principals]
    <3>1. CASE Respond(r)
      BY <3>1 DEF Respond, TypeOK, Goto, Locations, Kinds, Principals
    <3>2. CASE kind' = [kind EXCEPT ![r] = "reserve"] /\ Goto(r, "dispatch")
               /\ UNCHANGED <<arg, context>>
      BY <3>2 DEF TypeOK, Goto, Locations, Kinds
    <3> QED
      BY <1>10, <3>1, <3>2 DEF FindById
  <2> QED
    BY <1>10, <2>1, <2>2, EndTypes DEF FindById, TypeOK, fixed, table
<1>11. ASSUME NEW r \in Clients, Reserve(r) \/ Settle(r) PROVE TypeOK'
  <2>1. writers' \in [Ids -> SUBSET Principals]
    BY <1>11 DEF Reserve, Settle, Update, TypeOK
  <2>2. CASE Reserve(r)
    BY <2>1, <2>2, EndTypes DEF Reserve, TypeOK, Goto, Locations, Kinds, fixed
  <2>3. CASE Settle(r)
    BY <2>1, <2>3, EndTypes
       DEF Settle, Respond, Forget, TypeOK, Goto, Locations, Kinds, Principals, fixed
  <2> QED
    BY <1>11, <2>2, <2>3
<1>12. ASSUME NEW r \in Clients, FindPage(r) PROVE TypeOK'
  <2>1. found' \in [Clients -> SUBSET Ids]
    BY <1>12, WindowsInside, RowSets DEF FindPage, TypeOK
  <2> QED
    BY <1>12, <2>1 DEF FindPage, TypeOK, Goto, Locations, fixed, table, session
<1>13. ASSUME NEW r \in Clients, CountAndAnswer(r) PROVE TypeOK'
  <2>1. walk' \in Walks
    BY <1>13, WalkGrows, NoWalkType DEF CountAndAnswer, EndWalk, TypeOK
  <2> QED
    BY <1>13, <2>1, EndTypes
       DEF CountAndAnswer, Respond, Forget, TypeOK, Goto, Locations, Kinds, Principals,
           fixed, table
<1>14. ASSUME UNCHANGED vars PROVE TypeOK'
  BY <1>14 DEF vars, fixed, table, session, request, TypeOK
<1> QED
  BY <1>1, <1>2, <1>3, <1>4, <1>5, <1>6, <1>7, <1>8, <1>9, <1>10, <1>11, <1>12,
     <1>13, <1>14
     DEF Next, Progress

-----------------------------------------------------------------------------
(* Sessions *)

\* A request that is in no transaction before and after a step that leaves
\* sessions and connections alone may lose its context or get its own.
LEMMA OutsideStep ==
  ASSUME TypeOK, SessionsInv, NEW r \in Clients, NEW l \in {"idle", "guards", "dispatch"},
         UNCHANGED <<fixed, session, conn>>,
         pc[r] \notin InTransaction, Goto(r, l),
         context' = [context EXCEPT ![r] = IF l = "dispatch" THEN claim[r] ELSE NoTenant]
  PROVE  SessionsInv'
<1>1. ContextIsOwn'
  BY DEF SessionsInv, ContextIsOwn, TypeOK, Goto, fixed
<1>2. OneHolder'
  BY DEF SessionsInv, OneHolder
<1>3. \A q \in Clients : SessionOf(q)'
  BY DEF SessionsInv, SessionOf, TypeOK, Goto, session, InTransaction
<1>4. PooledAreClean'
  BY DEF SessionsInv, PooledAreClean, session
<1> QED
  BY <1>1, <1>2, <1>3, <1>4 DEF SessionsInv

\* A request that takes a free connection finds it clean.
LEMMA BeginStep ==
  ASSUME TypeOK, SessionsInv, NEW r \in Clients, NEW c \in pool, Begin(r, c)
  PROVE  SessionsInv'
<1>1. pc[r] = "dispatch" /\ c \in Connections /\ c # NoConnection
  BY ConstantsAssumption DEF Begin, Waiting, TypeOK
<1>2. role[c] = Superuser /\ setting[c] = NoTenant
  BY <1>1 DEF Begin, SessionsInv, PooledAreClean
<1>3. ContextIsOwn'
  BY <1>1 DEF SessionsInv, ContextIsOwn, Begin, TypeOK, Goto, fixed
<1>4. OneHolder'
  BY <1>1 DEF SessionsInv, OneHolder, Begin, TypeOK
<1>5. ASSUME NEW q \in Clients PROVE SessionOf(q)'
  BY <1>1, <1>2 DEF SessionsInv, SessionOf, Begin, TypeOK, Goto, session, InTransaction
<1>6. PooledAreClean'
  <2>1. conn[r] = NoConnection
    BY <1>1 DEF SessionsInv, SessionOf, InTransaction
  <2>2. ASSUME NEW d \in Connections, \A q \in Clients : conn'[q] # d
        PROVE  \A q \in Clients : conn[q] # d
    BY <2>1, <2>2, ConstantsAssumption DEF Begin, TypeOK
  <2> QED
    BY <2>2 DEF SessionsInv, PooledAreClean, Begin, session
<1> QED
  BY <1>3, <1>4, <1>5, <1>6 DEF SessionsInv

\* A statement of a transaction changes what is set on its own connection.
LEMMA SettingStep ==
  ASSUME TypeOK, SessionsInv, NEW r \in Clients, SetRole(r) \/ SetTenant(r)
  PROVE  SessionsInv'
<1>1. /\ pc[r] \in InTransaction
      /\ conn[r] \in Connections /\ conn[r] # NoConnection
      /\ context[r] = claim[r]
  BY DEF SetRole, SetTenant, SessionsInv, SessionOf, ContextIsOwn, InTransaction, TypeOK
<1>2. ContextIsOwn'
  <2>1. PICK l \in {"tenant", "working"} : Goto(r, l)
    BY DEF SetRole, SetTenant, AfterRole
  <2>2. UNCHANGED <<context, claim>>
    BY DEF SetRole, SetTenant, fixed
  <2> QED
    BY <1>1, <2>1, <2>2 DEF SessionsInv, ContextIsOwn, TypeOK, Goto
<1>3. OneHolder'
  BY DEF SessionsInv, OneHolder, SetRole, SetTenant
<1>4. ASSUME NEW q \in Clients, q # r PROVE SessionOf(q)'
  <2>1. conn[q] # NoConnection => conn[q] # conn[r] /\ conn[q] \in Connections
    BY <1>1, <1>4 DEF SessionsInv, OneHolder, TypeOK
  <2> QED
    BY <1>1, <1>4, <2>1
       DEF SessionsInv, SessionOf, SetRole, SetTenant, TypeOK, Goto, InTransaction
<1>5. SessionOf(r)'
  BY <1>1
     DEF SessionsInv, SessionOf, SetRole, SetTenant, AfterRole, TypeOK, Goto, InTransaction
<1>6. PooledAreClean'
  BY <1>1 DEF SessionsInv, PooledAreClean, SetRole, SetTenant, TypeOK
<1> QED
  BY <1>2, <1>3, <1>4, <1>5, <1>6 DEF SessionsInv

\* The end of a transaction returns its connection clean, and disturbs no other.
LEMMA EndStep ==
  ASSUME TypeOK, SessionsInv, NEW r \in Clients, NEW l \in {"idle", "dispatch"},
         UNCHANGED fixed, EndTransaction(r),
         pc[r] \in InTransaction, Goto(r, l),
         context' = [context EXCEPT ![r] = IF l = "dispatch" THEN claim[r] ELSE NoTenant]
  PROVE  SessionsInv'
<1>1. conn[r] \in Connections /\ conn[r] # NoConnection
  BY DEF SessionsInv, SessionOf, TypeOK
<1>2. ContextIsOwn'
  BY DEF SessionsInv, ContextIsOwn, TypeOK, Goto, fixed
<1>3. OneHolder'
  BY DEF SessionsInv, OneHolder, EndTransaction, TypeOK
<1>4. ASSUME NEW q \in Clients, q # r PROVE SessionOf(q)'
  <2>1. conn[q] # NoConnection => conn[q] # conn[r] /\ conn[q] \in Connections
    BY <1>1, <1>4 DEF SessionsInv, OneHolder, TypeOK
  <2> QED
    BY <1>1, <1>4, <2>1
       DEF SessionsInv, SessionOf, EndTransaction, TypeOK, Goto, InTransaction
<1>5. SessionOf(r)'
  BY <1>1 DEF SessionOf, EndTransaction, TypeOK, Goto, InTransaction
<1>6. PooledAreClean'
  <2>1. ASSUME NEW c \in Connections, c # conn[r], \A q \in Clients : conn'[q] # c
        PROVE  \A q \in Clients : conn[q] # c
    BY <2>1 DEF EndTransaction, TypeOK
  <2> QED
    BY <1>1, <2>1 DEF SessionsInv, PooledAreClean, EndTransaction, TypeOK
<1> QED
  BY <1>2, <1>3, <1>4, <1>5, <1>6 DEF SessionsInv

\* The end of a transaction that answers its client.
LEMMA EndAndAnswer ==
  ASSUME TypeOK, SessionsInv, NEW r \in Clients,
         UNCHANGED fixed, EndTransaction(r), pc[r] \in InTransaction, Respond(r)
  PROVE  SessionsInv'
  BY EndStep DEF Respond

\* An answer, or an arrival, outside of transactions.
LEMMA AnswerOutside ==
  ASSUME TypeOK, SessionsInv, NEW r \in Clients,
         UNCHANGED <<fixed, session, conn>>, pc[r] \notin InTransaction,
         Respond(r) \/ (Goto(r, "guards") /\ context' = [context EXCEPT ![r] = NoTenant])
  PROVE  SessionsInv'
  BY OutsideStep DEF Respond

-----------------------------------------------------------------------------
(* Rows *)

\* What a client has found stays its own when the rows, its claim and what it
\* has found do not change, or when it finds less.
LEMMA RowsStay ==
  ASSUME TypeOK, TenantsAreApart, UNCHANGED <<fixed, rows, writers>>,
         \A r \in Clients : found'[r] \subseteq Own(r)
  PROVE  TenantsAreApart'
  BY DEF TenantsAreApart, ReadsAreOwn, WritesAreOwn, Own, fixed

\* The repository's filter lets through what is the client's own.
LEMMA ScopedIsOwn ==
  ASSUME SessionsInv, NEW r \in Clients, pc[r] = "working"
  PROVE  Scoped(r) \subseteq Own(r)
  BY DEF SessionsInv, ContextIsOwn, Scoped, Visible, Own

\* Pending inserts stay fresh when the rows do not change and no request takes
\* up an insert.
LEMMA FreshStays ==
  ASSUME TypeOK, CreatesAreFresh, UNCHANGED rows,
         \A q \in Clients : kind'[q] = "create" => kind[q] = "create" /\ arg'[q] = arg[q]
  PROVE  CreatesAreFresh'
  BY DEF CreatesAreFresh

\* Inserting a row leaves what others have found, and the ids they are about to
\* insert, as they were.
LEMMA CreateRows ==
  ASSUME TypeOK, SessionsInv, CreatesAreFresh, TenantsAreApart,
         NEW r \in Clients, Create(r)
  PROVE  CreatesAreFresh' /\ TenantsAreApart'
<1>1. /\ kind[r] = "create" /\ arg[r] \in Ids /\ rows[arg[r]] = NoTenant
      /\ claim[r] \in Tenants /\ claim[r] # NoTenant
  BY ConstantsAssumption DEF Create, Working, CreatesAreFresh
<1>2. /\ rows' = [rows EXCEPT ![arg[r]] = claim[r]]
      /\ writers' = [writers EXCEPT ![arg[r]] = @ \cup {claim[r]}]
      /\ kind' = [kind EXCEPT ![r] = "none"] /\ arg' = [arg EXCEPT ![r] = 0]
      /\ UNCHANGED <<claim, found>>
  BY DEF Create, Respond, fixed
<1>3. \A q \in Clients : kind'[q] = "create" =>
        q # r /\ kind[q] = "create" /\ arg'[q] = arg[q] /\ arg[q] # arg[r]
  BY <1>1, <1>2 DEF TypeOK, CreatesAreFresh
<1>4. CreatesAreFresh'
  BY <1>2, <1>3 DEF CreatesAreFresh, TypeOK
<1>5. ReadsAreOwn'
  BY <1>1, <1>2 DEF TenantsAreApart, ReadsAreOwn, Own, TypeOK
<1>6. WritesAreOwn'
  BY <1>1, <1>2 DEF TenantsAreApart, WritesAreOwn, TypeOK
<1> QED
  BY <1>4, <1>5, <1>6 DEF TenantsAreApart

\* Saving a processed transaction writes rows that the client had found, and so
\* its own.
LEMMA UpdateRows ==
  ASSUME TypeOK, TenantsAreApart, NEW r \in Clients, Update(r), UNCHANGED <<fixed, rows>>,
         found' = found \/ Forget(r)
  PROVE  TenantsAreApart'
<1>1. \A i \in found[r] : i \in Ids /\ rows[i] = claim[r] /\ claim[r] # NoTenant
  BY DEF TenantsAreApart, ReadsAreOwn, Own
<1>2. WritesAreOwn'
  BY <1>1 DEF Update, TenantsAreApart, WritesAreOwn, TypeOK
<1>3. ReadsAreOwn'
  BY DEF Forget, TenantsAreApart, ReadsAreOwn, Own, TypeOK, fixed
<1> QED
  BY <1>2, <1>3 DEF TenantsAreApart

-----------------------------------------------------------------------------
(* The invariant *)

\* A request that arrives has no connection, and asks to insert only a fresh id.
LEMMA ArriveStep ==
  ASSUME IsolationInv, NEW r \in Clients, NEW what \in Kinds, NEW with,
         Arrive(r, what, with),
         what = "create" => /\ with \in Ids /\ rows[with] = NoTenant
                            /\ \A q \in Clients : kind[q] = "create" => arg[q] # with
  PROVE  SessionsInv' /\ CreatesAreFresh' /\ TenantsAreApart'
<1>1. SessionsInv'
  BY AnswerOutside DEF IsolationInv, Arrive, InTransaction
<1>2. CreatesAreFresh'
  BY DEF IsolationInv, Arrive, CreatesAreFresh, TypeOK, table
<1>3. TenantsAreApart'
  BY RowsStay DEF IsolationInv, TenantsAreApart, ReadsAreOwn, Arrive, Forget, TypeOK, table
<1> QED
  BY <1>1, <1>2, <1>3

\* An error answer forgets what was found, and inserts nothing.
LEMMA RejectStep ==
  ASSUME IsolationInv, NEW r \in Clients, Reject(r), UNCHANGED <<fixed, table>>
  PROVE  CreatesAreFresh' /\ TenantsAreApart'
<1>1. CreatesAreFresh'
  BY FreshStays DEF IsolationInv, Reject, Respond, TypeOK, table
<1>2. TenantsAreApart'
  BY RowsStay DEF IsolationInv, TenantsAreApart, ReadsAreOwn, Reject, Forget, TypeOK, table
<1> QED
  BY <1>1, <1>2

\* A step that leaves the rows and what was found alone, and takes up no insert,
\* keeps the tenants apart.
LEMMA QuietStep ==
  ASSUME IsolationInv, UNCHANGED <<fixed, table, found>>,
         \A q \in Clients : kind'[q] = "create" => kind[q] = "create" /\ arg'[q] = arg[q]
  PROVE  CreatesAreFresh' /\ TenantsAreApart'
<1>1. CreatesAreFresh'
  BY FreshStays DEF IsolationInv, table
<1>2. TenantsAreApart'
  BY RowsStay DEF IsolationInv, TenantsAreApart, ReadsAreOwn, table
<1> QED
  BY <1>1, <1>2

\* The step of findById: what it finds is the client's own.
LEMMA FindByIdStep ==
  ASSUME IsolationInv, NEW r \in Clients, FindById(r)
  PROVE  SessionsInv' /\ CreatesAreFresh' /\ TenantsAreApart'
<1>1. pc[r] = "working" /\ kind[r] # "create" /\ context[r] = claim[r]
  BY DEF FindById, Working, IsolationInv, SessionsInv, ContextIsOwn
<1>2. SessionsInv'
  <2>1. CASE Respond(r)
    BY <1>1, <2>1, EndAndAnswer DEF FindById, IsolationInv, InTransaction
  <2>2. CASE Goto(r, "dispatch") /\ UNCHANGED context
    <3>1. context' = [context EXCEPT ![r] = claim[r]]
      BY <1>1, <2>2 DEF IsolationInv, TypeOK
    <3> QED
      BY <1>1, <2>2, <3>1, EndStep DEF FindById, IsolationInv, InTransaction
  <2> QED
    BY <2>1, <2>2 DEF FindById
<1>3. CreatesAreFresh'
  <2>1. UNCHANGED rows
    BY DEF FindById, table
  <2>2. CASE Respond(r)
    BY <2>1, <2>2, FreshStays DEF IsolationInv, Respond, TypeOK
  <2>3. CASE kind' = [kind EXCEPT ![r] = "reserve"] /\ UNCHANGED arg
    BY <2>1, <2>3, FreshStays DEF IsolationInv, TypeOK
  <2> QED
    BY <2>2, <2>3 DEF FindById
<1>4. TenantsAreApart'
  <2>1. \A q \in Clients : found'[q] \subseteq Own(q)
    BY <1>1, ScopedIsOwn
       DEF FindById, IsolationInv, TenantsAreApart, ReadsAreOwn, TypeOK
  <2> QED
    BY <2>1, RowsStay DEF FindById, IsolationInv, table
<1> QED
  BY <1>2, <1>3, <1>4

\* The step that reads a page: its rows are the client's own.
LEMMA FindPageStep ==
  ASSUME IsolationInv, NEW r \in Clients, FindPage(r)
  PROVE  SessionsInv' /\ CreatesAreFresh' /\ TenantsAreApart'
<1>1. pc[r] = "working" /\ context[r] = claim[r]
  BY DEF FindPage, Working, IsolationInv, SessionsInv, ContextIsOwn
<1>2. SessionsInv'
  <2>1. ContextIsOwn'
    BY <1>1 DEF IsolationInv, SessionsInv, ContextIsOwn, FindPage, Goto, TypeOK, fixed
  <2>2. OneHolder' /\ PooledAreClean'
    BY DEF IsolationInv, SessionsInv, OneHolder, PooledAreClean, FindPage, session
  <2>3. \A q \in Clients : SessionOf(q)'
    BY <1>1
       DEF IsolationInv, SessionsInv, SessionOf, FindPage, Goto, TypeOK, session,
           InTransaction
  <2> QED
    BY <2>1, <2>2, <2>3 DEF SessionsInv
<1>3. CreatesAreFresh'
  BY FreshStays DEF IsolationInv, FindPage, table
<1>4. TenantsAreApart'
  <2>1. \A q \in Clients : found'[q] \subseteq Own(q)
    BY <1>1, ScopedIsOwn, WindowsInside
       DEF FindPage, IsolationInv, TenantsAreApart, ReadsAreOwn, TypeOK
  <2> QED
    BY <2>1, RowsStay DEF FindPage, IsolationInv, table
<1> QED
  BY <1>2, <1>3, <1>4

\* Initially no connection is taken, no row exists, and no request either.
LEMMA InitIsolated == Init => IsolationInv
<1> SUFFICES ASSUME Init PROVE IsolationInv
  OBVIOUS
<1>1. PICK d \in Deployments : pool = d.pool /\ policy = d.policy /\ claim = d.claim
  BY DEF Init
<1>2. pool \in SUBSET Connections /\ policy \in BOOLEAN /\ claim \in [Clients -> Principals]
  <2>1. d \in [pool : SUBSET Connections, policy : BOOLEAN, claim : [Clients -> Principals]]
    BY ConstantsAssumption
  <2> QED
    BY <1>1, <2>1
<1>3. TypeOK
  BY <1>2, NoWalkType DEF Init, TypeOK, Locations, Kinds, Principals
<1>4. SessionsInv
  BY DEF Init, SessionsInv, ContextIsOwn, OneHolder, SessionOf, PooledAreClean, InTransaction
<1>5. CreatesAreFresh /\ TenantsAreApart
  BY DEF Init, CreatesAreFresh, TenantsAreApart, ReadsAreOwn, WritesAreOwn
<1> QED
  BY <1>3, <1>4, <1>5 DEF IsolationInv

\* Every step keeps the tenants apart.
LEMMA IsolationStep == IsolationInv /\ [Next]_vars => IsolationInv'
<1> SUFFICES ASSUME IsolationInv, [Next]_vars PROVE IsolationInv'
  OBVIOUS
<1> DEFINE Kept == SessionsInv' /\ CreatesAreFresh' /\ TenantsAreApart'
<1>1. ASSUME NEW r \in Clients, NEW i \in Ids,
             AskForOne(r, "get", i) \/ AskForOne(r, "process", i)
      PROVE  Kept
  BY <1>1, ArriveStep DEF AskForOne, Kinds
<1>2. ASSUME NEW r \in Clients, NEW i \in Ids, AskToCreate(r, i) PROVE Kept
  BY <1>2, ArriveStep DEF AskToCreate, Kinds
<1>3. ASSUME NEW r \in Clients, AskForPage(r) PROVE Kept
  <2>1. PICK page : Arrive(r, "list", page)
    BY <1>3 DEF AskForPage
  <2> QED
    BY <2>1, ArriveStep DEF Kinds
<1>4. ASSUME NEW r \in Clients, RefuseToken(r) \/ RefuseRole(r) \/ ConnectTimesOut(r)
      PROVE  Kept
  <2>1. Reject(r) /\ UNCHANGED <<fixed, table, session, conn>> /\ pc[r] \notin InTransaction
    BY <1>4 DEF RefuseToken, RefuseRole, ConnectTimesOut, Waiting, InTransaction
  <2>2. SessionsInv'
    BY <2>1, AnswerOutside DEF IsolationInv, Reject
  <2> QED
    BY <2>1, <2>2, RejectStep
<1>5. ASSUME NEW r \in Clients, NEW c \in pool, Begin(r, c) PROVE Kept
  BY <1>5, BeginStep, QuietStep DEF Begin, IsolationInv
<1>6. ASSUME NEW r \in Clients, Authenticate(r) PROVE Kept
  BY <1>6, OutsideStep, QuietStep DEF Authenticate, IsolationInv, InTransaction
<1>7. ASSUME NEW r \in Clients, AnswerNoTenant(r) PROVE Kept
  <2>1. SessionsInv'
    BY <1>7, AnswerOutside DEF AnswerNoTenant, IsolationInv, InTransaction
  <2> QED
    BY <1>7, <2>1, QuietStep DEF AnswerNoTenant, Respond, IsolationInv, TypeOK
<1>8. ASSUME NEW r \in Clients, SetRole(r) \/ SetTenant(r) PROVE Kept
  BY <1>8, SettingStep, QuietStep DEF SetRole, SetTenant, IsolationInv
<1>9. ASSUME NEW r \in Clients, Fail(r) PROVE Kept
  BY <1>9, EndAndAnswer, RejectStep DEF Fail, Reject, IsolationInv
<1>10. ASSUME NEW r \in Clients, Create(r) PROVE Kept
  <2>1. SessionsInv'
    BY <1>10, EndAndAnswer DEF Create, Working, IsolationInv, InTransaction
  <2> QED
    BY <1>10, <2>1, CreateRows DEF IsolationInv
<1>11. ASSUME NEW r \in Clients, FindById(r) PROVE Kept
  BY <1>11, FindByIdStep
<1>12. ASSUME NEW r \in Clients, Reserve(r) \/ Settle(r) PROVE Kept
  <2>1. /\ pc[r] = "working" /\ Update(r) /\ EndTransaction(r)
        /\ UNCHANGED <<fixed, rows>> /\ (found' = found \/ Forget(r))
    BY <1>12 DEF Reserve, Settle, Working
  <2>2. SessionsInv'
    <3>1. CASE Reserve(r)
      <4>1. context' = [context EXCEPT ![r] = claim[r]]
        BY <2>1, <3>1 DEF Reserve, IsolationInv, SessionsInv, ContextIsOwn, TypeOK
      <4> QED
        BY <2>1, <3>1, <4>1, EndStep DEF Reserve, IsolationInv, InTransaction
    <3>2. CASE Settle(r)
      BY <2>1, <3>2, EndAndAnswer DEF Settle, IsolationInv, InTransaction
    <3> QED
      BY <1>12, <3>1, <3>2
  <2>3. CreatesAreFresh'
    BY <1>12, <2>1, FreshStays DEF Reserve, Settle, Respond, IsolationInv, TypeOK
  <2> QED
    BY <2>1, <2>2, <2>3, UpdateRows DEF IsolationInv
<1>13. ASSUME NEW r \in Clients, FindPage(r) PROVE Kept
  BY <1>13, FindPageStep
<1>14. ASSUME NEW r \in Clients, CountAndAnswer(r) PROVE Kept
  <2>1. SessionsInv'
    BY <1>14, EndAndAnswer DEF CountAndAnswer, IsolationInv, InTransaction
  <2>2. CreatesAreFresh'
    BY <1>14, FreshStays DEF CountAndAnswer, Respond, IsolationInv, TypeOK, table
  <2>3. TenantsAreApart'
    BY <1>14, RowsStay
       DEF CountAndAnswer, Forget, IsolationInv, TenantsAreApart, ReadsAreOwn, TypeOK, table
  <2> QED
    BY <2>1, <2>2, <2>3
<1>15. ASSUME UNCHANGED vars PROVE Kept
  <2>1. SessionsInv'
    BY <1>15
       DEF vars, fixed, session, request, IsolationInv, SessionsInv, ContextIsOwn,
           OneHolder, SessionOf, PooledAreClean
  <2> QED
    BY <1>15, <2>1, QuietStep DEF vars, request
<1>16. Kept
  BY <1>1, <1>2, <1>3, <1>4, <1>5, <1>6, <1>7, <1>8, <1>9, <1>10, <1>11, <1>12,
     <1>13, <1>14, <1>15
     DEF Next, Progress
<1>17. TypeOK'
  BY TypeStep DEF IsolationInv
<1> QED
  BY <1>16, <1>17 DEF IsolationInv

\* Contexts, connections and sessions belong to one request at a time, and
\* pooled connections are clean, for any number of tenants and connections.
THEOREM IsolationInvariant == Spec => []IsolationInv
  BY InitIsolated, IsolationStep, PTL DEF Spec

\* No request is shown another tenant's transactions or writes them, with the
\* policy of the migration or without it.
THEOREM TenantsStayApart == Spec => []TenantsAreApart
<1>1. IsolationInv => TenantsAreApart
  BY DEF IsolationInv
<1> QED
  BY <1>1, IsolationInvariant, PTL

\* Where the policy is in place it alone shows every request exactly the rows of
\* its tenant, whatever used its connection before.
THEOREM PolicyShowsOwn == Spec => []PolicyIsExact
<1>1. IsolationInv => PolicyIsExact
  <2> SUFFICES ASSUME IsolationInv, NEW r \in Clients, policy,
                      pc[r] \in {"working", "counting"}
               PROVE  Visible(conn[r]) = Own(r)
    BY DEF PolicyIsExact
  <2>1. role[conn[r]] = "rls_app" /\ setting[conn[r]] = claim[r]
    BY DEF IsolationInv, SessionsInv, SessionOf, ContextIsOwn
  <2>2. \A i \in Ids : rows[i] # NoTenant => rows[i] \in Tenants
    BY DEF IsolationInv, TypeOK
  <2> QED
    BY <2>1, <2>2 DEF Visible, Own, Confined, CurrentTenantId
<1> QED
  BY <1>1, IsolationInvariant, PTL

-----------------------------------------------------------------------------
(* Pages *)

\* No other transaction has the created_at of i
Untied(i) == \A j \in Ids \ {i} : CreatedAt[j] # CreatedAt[i]

\* The client's rows that come before i on its pages
Ahead(r, i) == {j \in Own(r) : Newer(j, i)}

\* What was there when the walk began and has not been on a page
Unseen(r) == {i \in walk[r].due \ walk[r].seen : Untied(i)}

\* A row that a walk has not shown lies behind its pages, however many rows
\* have been inserted since; also behind the page that has just been read, which
\* is then full.
WalkOf(r) ==
  /\ walk[r].due \subseteq Own(r)
  /\ \A i \in Unseen(r) : Cardinality(Ahead(r, i)) >= walk[r].page * Limit(r)
  /\ kind[r] = "list" => PageOf(arg[r]) = walk[r].page + 1
  /\ pc[r] = "counting" =>
       /\ kind[r] = "list"
       /\ \A i \in Unseen(r) \ found[r] :
            /\ Cardinality(found[r]) = Limit(r)
            /\ Cardinality(Ahead(r, i)) >= (walk[r].page + 1) * Limit(r)

WalkInv == \A r \in Clients : WalkOf(r)

\* Sets of rows are finite.
LEMMA RowsFinite ==
  ASSUME NEW S \in SUBSET Ids
  PROVE  IsFiniteSet(S) /\ Cardinality(S) \in Nat
<1>1. IsFiniteSet(Ids)
  BY ConstantsAssumption, FS_Interval DEF Ids
<1> QED
  BY <1>1, FS_Subset, FS_CardinalityType

\* Every page has room for a row.
LEMMA LimitType ==
  ASSUME NEW r \in Clients
  PROVE  Limit(r) \in Nat \ {0}
  BY ConstantsAssumption DEF Limit, Least, Most

\* A page whose rows end before i, and that starts no later than i's place, is
\* full, and i comes after it.
LEMMA BehindWindow ==
  ASSUME NEW S \in SUBSET Ids, NEW skip \in Nat, NEW take \in Nat,
         NEW W \in Windows(S, skip, take), NEW i \in S \ W, Untied(i),
         NEW A \in SUBSET S, \A j \in S : j \in A <=> Newer(j, i),
         Cardinality(A) >= skip
  PROVE  /\ Cardinality(W) = take
         /\ Cardinality(A) >= skip + take
<1>1. PICK Before \in SUBSET (S \ W) :
        /\ Cardinality(Before) = Least(skip, Cardinality(S))
        /\ Cardinality(W) = Least(take, Cardinality(S \ Before))
        /\ \A b \in Before, j \in S \ Before : ~ Newer(j, b)
        /\ \A w \in W, j \in S \ (Before \cup W) : ~ Newer(j, w)
  BY DEF Windows
<1>2. W \in SUBSET S
  BY WindowsInside
<1>3. /\ i \in Ids /\ i \notin A
      /\ \A j \in S : j # i => Newer(j, i) \/ Newer(i, j)
  BY ConstantsAssumption DEF Newer, Untied
<1>4. /\ \A T \in SUBSET S : IsFiniteSet(T) /\ Cardinality(T) \in Nat
      /\ A \in SUBSET S
  BY RowsFinite
<1>5. i \notin Before
  <2> SUFFICES ASSUME i \in Before PROVE FALSE
    OBVIOUS
  <2>1. A \cup {i} \in SUBSET Before
    BY <1>1 DEF Newer
  <2>2. Cardinality(A \cup {i}) = Cardinality(A) + 1
    BY <1>3, <1>4, FS_AddElement
  <2>3. Cardinality(A \cup {i}) <= Cardinality(Before)
    BY <1>1, <1>4, <2>1, FS_Subset
  <2>4. Cardinality(Before) <= skip
    BY <1>1, <1>4 DEF Least
  <2> QED
    BY <1>1, <1>4, <2>2, <2>3, <2>4
<1>6. Before \cup W \in SUBSET A
  <2>1. ASSUME NEW j \in Before \cup W PROVE Newer(j, i)
    BY <1>1, <1>2, <1>3, <1>5
  <2> QED
    BY <1>1, <1>2, <2>1
<1>7. Cardinality(Before) = skip
  <2>1. Before # S /\ Before \in SUBSET S /\ S \in SUBSET S
    BY <1>1, <1>5
  <2>2. Cardinality(Before) # Cardinality(S)
    BY <1>4, <2>1, FS_Subset
  <2> QED
    BY <1>1, <1>4, <2>1, <2>2 DEF Least
<1>8. Cardinality(W) = take
  <2>1. W # S \ Before /\ W \in SUBSET (S \ Before) /\ S \ Before \in SUBSET S
    BY <1>1, <1>2, <1>5
  <2>2. Cardinality(W) # Cardinality(S \ Before)
    BY <1>4, <2>1, FS_Subset
  <2> QED
    BY <1>1, <1>4, <2>1, <2>2 DEF Least
<1>9. Cardinality(Before \cup W) = skip + take
  <2>1. Before \cap W = {} /\ IsFiniteSet(Before) /\ IsFiniteSet(W)
    BY <1>1, <1>2, <1>4
  <2>2. Cardinality(Before \cap W) = 0
    BY <2>1, FS_EmptySet
  <2>3. Cardinality(Before \cup W) = Cardinality(Before) + Cardinality(W) - Cardinality(Before \cap W)
    BY <2>1, FS_Union
  <2> QED
    BY <1>7, <1>8, <2>2, <2>3
<1>10. Cardinality(Before \cup W) <= Cardinality(A)
  BY <1>4, <1>6, FS_Subset
<1> QED
  BY <1>4, <1>8, <1>9, <1>10

\* The offset of a page.
LEMMA SkipIs ==
  ASSUME NEW r \in Clients, NEW page \in Nat, NEW p \in Nat, PageOf(page) = p + 1
  PROVE  Skip(r, page) = p * Limit(r) /\ Skip(r, page) \in Nat
  BY LimitType DEF Skip

\* A page more is a Limit more.
LEMMA NextPage ==
  ASSUME NEW p \in Nat, NEW l \in Nat
  PROVE  /\ p * l \in Nat /\ (p + 1) * l \in Nat
         /\ p * l + l = (p + 1) * l
  OBVIOUS

\* Rounded up, the pages of more rows than p pages hold are more than p.
LEMMA PagesRoundUp ==
  ASSUME NEW l \in Nat \ {0}, NEW p \in Nat, NEW total \in Nat, total > p * l
  PROVE  p < (total + l - 1) \div l
<1> DEFINE q == (total + l - 1) \div l
<1>1. q \in Int /\ total + l - 1 < l * q + l
  OBVIOUS
<1> HIDE DEF q
<1>2. CASE q <= p
  <2>1. l * q <= p * l
    BY <1>1, <1>2
  <2>2. p * l \in Nat /\ l * q \in Int
    BY <1>1
  <2> QED
    BY <1>1, <2>1, <2>2
<1> QED
  BY <1>1, <1>2 DEF q

\* Rows are never deleted and keep their tenant.
LEMMA OwnGrows ==
  ASSUME IsolationInv, [Next]_vars, NEW r \in Clients
  PROVE  /\ Own(r) \subseteq Own(r)' /\ Own(r)' \in SUBSET Ids
         /\ \A i : Ahead(r, i) \subseteq Ahead(r, i)'
<1>1. UNCHANGED claim
  BY DEF Next, vars, fixed, AskForOne, AskToCreate, AskForPage, Arrive, RefuseToken,
     RefuseRole, ConnectTimesOut, Begin, Progress, Authenticate, AnswerNoTenant, SetRole,
     SetTenant, Fail, Create, FindById, Reserve, Settle, FindPage,
     CountAndAnswer
<1>2. \A i \in Ids : rows[i] # NoTenant => rows'[i] = rows[i]
  <2>1. CASE \E q \in Clients : Create(q)
    <3>1. PICK q \in Clients : Create(q)
      BY <2>1
    <3>2. rows[arg[q]] = NoTenant /\ rows' = [rows EXCEPT ![arg[q]] = claim[q]]
      BY <3>1 DEF Create, Working, IsolationInv, CreatesAreFresh
    <3> QED
      BY <3>2 DEF IsolationInv, TypeOK
  <2>2. CASE ~ \E q \in Clients : Create(q)
    <3>1. UNCHANGED rows
      BY <2>2 DEF Next, vars, table, AskForOne, AskToCreate, AskForPage, Arrive, RefuseToken,
         RefuseRole, ConnectTimesOut, Begin, Progress, Authenticate, AnswerNoTenant, SetRole,
         SetTenant, Fail, FindById, Reserve, Settle, FindPage,
     CountAndAnswer
    <3> QED
      BY <3>1
  <2> QED
    BY <2>1, <2>2
<1>3. Own(r) \subseteq Own(r)' /\ Own(r)' \in SUBSET Ids
  BY <1>1, <1>2 DEF Own
<1> QED
  BY <1>3 DEF Ahead, Newer

\* Rows that come before another do not become fewer.
LEMMA AheadGrows ==
  ASSUME IsolationInv, [Next]_vars, NEW r \in Clients, NEW i
  PROVE  /\ Cardinality(Ahead(r, i)) \in Nat /\ Cardinality(Ahead(r, i)') \in Nat
         /\ Cardinality(Ahead(r, i)) <= Cardinality(Ahead(r, i)')
<1>1. Ahead(r, i) \in SUBSET Ahead(r, i)' /\ Ahead(r, i)' \in SUBSET Ids
  BY OwnGrows DEF Ahead
<1>2. IsFiniteSet(Ahead(r, i)') /\ Cardinality(Ahead(r, i)') \in Nat
  BY <1>1, RowsFinite
<1> QED
  BY <1>1, <1>2, GrowsByNone

\* A client that neither reads a page nor starts another request keeps its walk.
LEMMA WalkKept ==
  ASSUME IsolationInv, [Next]_vars, NEW r \in Clients, WalkOf(r),
         walk'[r] = walk[r],
         kind'[r] = "list" => PageOf(arg'[r]) = walk[r].page + 1,
         pc'[r] = "counting" =>
           pc[r] = "counting" /\ found'[r] = found[r] /\ kind'[r] = "list"
  PROVE  WalkOf(r)'
<1>1. walk[r].due \subseteq Own(r)' /\ Unseen(r)' = Unseen(r)
  BY OwnGrows DEF WalkOf, Unseen, Untied
<1>2. walk[r].page * Limit(r) \in Nat /\ (walk[r].page + 1) * Limit(r) \in Nat
  BY LimitType, NextPage DEF IsolationInv, TypeOK
<1>3. \A i \in Unseen(r) : Cardinality(Ahead(r, i)') >= walk[r].page * Limit(r)
  <2> SUFFICES ASSUME NEW i \in Unseen(r)
               PROVE  Cardinality(Ahead(r, i)') >= walk[r].page * Limit(r)
    OBVIOUS
  <2>1. Cardinality(Ahead(r, i)) >= walk[r].page * Limit(r)
    BY DEF WalkOf
  <2> QED
    BY <1>2, <2>1, AheadGrows
<1>4. pc'[r] = "counting" =>
        \A i \in Unseen(r) \ found[r] :
          /\ Cardinality(found[r]) = Limit(r)
          /\ Cardinality(Ahead(r, i)') >= (walk[r].page + 1) * Limit(r)
  <2> SUFFICES ASSUME pc'[r] = "counting", NEW i \in Unseen(r) \ found[r]
               PROVE  /\ Cardinality(found[r]) = Limit(r)
                      /\ Cardinality(Ahead(r, i)') >= (walk[r].page + 1) * Limit(r)
    OBVIOUS
  <2>1. /\ Cardinality(found[r]) = Limit(r)
        /\ Cardinality(Ahead(r, i)) >= (walk[r].page + 1) * Limit(r)
    BY DEF WalkOf
  <2> QED
    BY <1>2, <2>1, AheadGrows
<1> QED
  BY <1>1, <1>3, <1>4 DEF WalkOf, Limit

\* A client that ends its walk, or has none, has missed nothing.
LEMMA WalkEnded ==
  ASSUME IsolationInv, IsolationInv', NEW r \in Clients, walk'[r] = NoWalk,
         kind'[r] # "list", pc'[r] # "counting"
  PROVE  WalkOf(r)'
  BY DEF WalkOf, Unseen, NoWalk

\* A walk begins before its first page, with what is there.
LEMMA WalkStarts ==
  ASSUME IsolationInv, [Next]_vars, NEW r \in Clients, walk[r] = NoWalk,
         walk' = [walk EXCEPT ![r].due = Own(r)],
         PageOf(arg'[r]) = 1, pc'[r] # "counting"
  PROVE  WalkOf(r)'
<1>1. walk'[r].due = Own(r) /\ walk'[r].page = 0
  BY DEF NoWalk, IsolationInv, TypeOK
<1>2. Own(r) \subseteq Own(r)' /\ \A i : Cardinality(Ahead(r, i)') \in Nat
  BY OwnGrows, AheadGrows
<1>3. 0 * Limit(r)' = 0
  BY LimitType DEF Limit
<1> QED
  BY <1>1, <1>2, <1>3 DEF WalkOf

\* Where the work is done, the repository's query selects the client's own rows.
LEMMA ScopedExact ==
  ASSUME IsolationInv, NEW r \in Clients, pc[r] \in {"working", "counting"}
  PROVE  Scoped(r) = Own(r)
<1>1. context[r] = claim[r] /\ setting[conn[r]] = claim[r]
  BY DEF IsolationInv, SessionsInv, SessionOf, ContextIsOwn
<1>2. \A i \in Ids : rows[i] # NoTenant => rows[i] \in Tenants
  BY DEF IsolationInv, TypeOK
<1> QED
  BY <1>1, <1>2 DEF Scoped, Visible, Own, CurrentTenantId

\* Reading a page: what was not seen before is on it or comes after it.
LEMMA PageStep ==
  ASSUME IsolationInv, [Next]_vars, NEW r \in Clients, WalkOf(r), FindPage(r)
  PROVE  WalkOf(r)'
<1> DEFINE p == walk[r].page
<1>1. /\ pc[r] = "working" /\ kind[r] = "list" /\ kind'[r] = "list"
      /\ UNCHANGED <<kind, arg, walk, rows, claim>>
  BY DEF FindPage, Working, table, fixed
<1>2. Own(r)' = Own(r) /\ Unseen(r)' = Unseen(r) /\ \A i : Ahead(r, i)' = Ahead(r, i)
  BY <1>1 DEF Own, Unseen, Untied, Ahead, Newer
<1>3. /\ p \in Nat /\ arg[r] \in Nat /\ Limit(r) \in Nat /\ Own(r) \in SUBSET Ids
      /\ PageOf(arg[r]) = p + 1
  BY <1>1, LimitType, RowSets DEF IsolationInv, TypeOK, WalkOf
<1>4. Skip(r, arg[r]) = p * Limit(r) /\ Skip(r, arg[r]) \in Nat
  BY <1>3, SkipIs
<1>5. found'[r] \in Windows(Own(r), Skip(r, arg[r]), Limit(r))
  BY <1>1, ScopedExact DEF FindPage, IsolationInv, TypeOK
<1>6. ASSUME NEW i \in Unseen(r) \ found'[r]
      PROVE  /\ Cardinality(found'[r]) = Limit(r)
             /\ Cardinality(Ahead(r, i)) >= (p + 1) * Limit(r)
  <2>1. i \in Own(r) \ found'[r] /\ Untied(i)
    BY DEF WalkOf, Unseen
  <2>2. Cardinality(Ahead(r, i)) >= Skip(r, arg[r])
    BY <1>4 DEF WalkOf
  <2>3. /\ Ahead(r, i) \in SUBSET Own(r)
        /\ \A j \in Own(r) : j \in Ahead(r, i) <=> Newer(j, i)
    BY DEF Ahead
  <2>4. /\ Cardinality(found'[r]) = Limit(r)
        /\ Cardinality(Ahead(r, i)) >= Skip(r, arg[r]) + Limit(r)
    BY <1>3, <1>4, <1>5, <2>1, <2>2, <2>3, BehindWindow
  <2> QED
    BY <1>3, <1>4, <2>4, NextPage
<1> QED
  BY <1>1, <1>2, <1>6 DEF WalkOf, Limit

\* A page after which something is missing says that there are more.
LEMMA MissingMeansMore ==
  ASSUME IsolationInv, NEW r \in Clients, WalkOf(r), pc[r] = "counting",
         NEW i \in Unseen(r) \ found[r]
  PROVE  MorePages(r)
<1> DEFINE p == walk[r].page
<1>1. /\ p \in Nat /\ Limit(r) \in Nat \ {0} /\ PageOf(arg[r]) = p + 1
      /\ Cardinality(found[r]) = Limit(r)
      /\ Cardinality(Ahead(r, i)) >= (p + 1) * Limit(r)
  BY LimitType DEF IsolationInv, TypeOK, WalkOf
<1>2. Total(r) = Cardinality(Own(r))
  BY <1>1, ScopedExact DEF Total
<1>3. i \in Own(r) /\ i \notin Ahead(r, i) /\ Own(r) \in SUBSET Ids
  BY ConstantsAssumption, RowSets DEF WalkOf, Unseen, Ahead, Newer
<1>4. /\ Ahead(r, i) \in SUBSET Own(r) /\ Ahead(r, i) # Own(r)
      /\ IsFiniteSet(Own(r)) /\ Cardinality(Own(r)) \in Nat
      /\ Cardinality(Ahead(r, i)) \in Nat
  BY <1>3, RowsFinite DEF Ahead
<1>5. /\ Cardinality(Ahead(r, i)) <= Cardinality(Own(r))
      /\ Cardinality(Ahead(r, i)) # Cardinality(Own(r))
  BY <1>4, FS_Subset
<1>6. (p + 1) * Limit(r) \in Nat
  BY <1>1, NextPage
<1>7. Cardinality(Own(r)) > (p + 1) * Limit(r)
  BY <1>1, <1>4, <1>5, <1>6
<1>8. p + 1 < (Cardinality(Own(r)) + Limit(r) - 1) \div Limit(r)
  BY <1>1, <1>4, <1>7, PagesRoundUp
<1> QED
  BY <1>1, <1>2, <1>8 DEF MorePages, TotalPages

\* The answer that carries a page takes the walk past it, or ends it.
LEMMA AnswerStep ==
  ASSUME IsolationInv, IsolationInv', [Next]_vars, NEW r \in Clients, WalkOf(r),
         CountAndAnswer(r)
  PROVE  WalkOf(r)'
<1> DEFINE p == walk[r].page
<1>1. /\ pc[r] = "counting" /\ kind'[r] = "none" /\ pc'[r] = "idle"
      /\ UNCHANGED <<rows, claim>>
  BY DEF CountAndAnswer, Respond, Goto, table, fixed, IsolationInv, TypeOK
<1>2. CASE ~ MorePages(r)
  BY <1>1, <1>2, WalkEnded DEF CountAndAnswer, EndWalk, IsolationInv, TypeOK
<1>3. CASE MorePages(r)
  <2>1. /\ walk'[r].due = walk[r].due /\ walk'[r].page = p + 1
        /\ walk'[r].seen = walk[r].seen \cup found[r]
    <3>1. PageOf(arg[r]) = p + 1
      BY <1>1 DEF WalkOf
    <3>2. walk'[r] = Received(r)
      BY <1>3 DEF CountAndAnswer, IsolationInv, TypeOK
    <3>3. walk[r] \in [due : SUBSET Ids, seen : SUBSET Ids, page : Nat]
      BY DEF IsolationInv, TypeOK
    <3> QED
      BY <3>1, <3>2, <3>3 DEF Received
  <2>2. Own(r)' = Own(r) /\ \A i : Ahead(r, i)' = Ahead(r, i)
    BY <1>1 DEF Own, Ahead, Newer
  <2>3. Unseen(r)' = Unseen(r) \ found[r]
    BY <2>1 DEF Unseen, Untied
  <2> QED
    BY <1>1, <2>1, <2>2, <2>3 DEF WalkOf, Limit
<1> QED
  BY <1>2, <1>3

\* Every step keeps every walk, with any number of clients that insert rows.
LEMMA WalkStep ==
  ASSUME IsolationInv, IsolationInv', WalkInv, [Next]_vars
  PROVE  WalkInv'
<1> SUFFICES ASSUME NEW r \in Clients PROVE WalkOf(r)'
  BY DEF WalkInv
<1>a. WalkOf(r)
  BY DEF WalkInv
<1> DEFINE Idle == /\ walk'[r] = walk[r] /\ kind'[r] = kind[r] /\ arg'[r] = arg[r]
                   /\ pc'[r] = pc[r] /\ found'[r] = found[r]
           Busy == /\ walk'[r] = walk[r] /\ kind'[r] = kind[r] /\ arg'[r] = arg[r]
                   /\ pc'[r] # "counting"
           Done == walk'[r] = walk[r] /\ kind'[r] # "list" /\ pc'[r] # "counting"
           Over == walk'[r] = NoWalk /\ kind'[r] # "list" /\ pc'[r] # "counting"
<1>b. Idle => WalkOf(r)'
  BY <1>a, WalkKept DEF WalkOf
<1>c. Busy => WalkOf(r)'
  BY <1>a, WalkKept DEF WalkOf
<1>d. Done \/ Over => WalkOf(r)'
  BY <1>a, WalkKept, WalkEnded
<1> HIDE DEF Idle, Busy, Done, Over
<1>e. ASSUME NEW q \in Clients, Reject(q) PROVE Idle \/ Done \/ Over
  BY <1>e DEF Reject, Respond, Goto, Forget, IsolationInv, TypeOK, Idle, Done, Over
<1>1. ASSUME NEW q \in Clients, NEW i \in Ids,
             AskForOne(q, "get", i) \/ AskForOne(q, "process", i) \/ AskToCreate(q, i)
      PROVE  Idle \/ Over
  BY <1>1
     DEF AskForOne, AskToCreate, Arrive, EndWalk, Goto, Forget, IsolationInv, TypeOK,
         Idle, Over
<1>2. ASSUME NEW q \in Clients, AskForPage(q) PROVE WalkOf(r)'
  <2>1. CASE q # r
    <3>1. Idle
      BY <1>2, <2>1 DEF AskForPage, Arrive, Goto, Forget, IsolationInv, TypeOK, Idle
    <3> QED
      BY <1>b, <3>1
  <2>2. CASE q = r
    <3>1. pc'[r] = "guards"
      BY <1>2, <2>2 DEF AskForPage, Arrive, Goto, IsolationInv, TypeOK
    <3>2. CASE walk[r] = NoWalk /\ walk' = [walk EXCEPT ![r].due = Own(r)]
               /\ \E page \in {0, 1} : Arrive(r, "list", page)
      <4>1. arg'[r] \in {0, 1}
        BY <3>2 DEF Arrive, IsolationInv, TypeOK
      <4>2. PageOf(arg'[r]) = 1
        BY <4>1 DEF PageOf, Most
      <4> QED
        BY <3>1, <3>2, <4>2, WalkStarts
    <3>3. CASE walk[r].page > 0 /\ Arrive(r, "list", walk[r].page + 1) /\ UNCHANGED walk
      <4>1. arg'[r] = walk[r].page + 1 /\ walk[r].page \in Nat
        BY <3>3 DEF Arrive, IsolationInv, TypeOK
      <4>2. PageOf(arg'[r]) = walk[r].page + 1
        BY <3>3, <4>1 DEF PageOf, Most
      <4> QED
        BY <1>a, <3>1, <3>3, <4>2, WalkKept
    <3> QED
      BY <1>2, <2>2, <3>2, <3>3 DEF AskForPage
  <2> QED
    BY <2>1, <2>2
<1>3. ASSUME NEW q \in Clients,
             RefuseToken(q) \/ RefuseRole(q) \/ ConnectTimesOut(q) \/ Fail(q)
      PROVE  Idle \/ Done \/ Over
  BY <1>3, <1>e DEF RefuseToken, RefuseRole, ConnectTimesOut, Fail
<1>4. ASSUME NEW q \in Clients,
             \/ \E c \in pool : Begin(q, c)
             \/ Authenticate(q) \/ SetRole(q) \/ SetTenant(q)
      PROVE  Idle \/ Busy
  BY <1>4
     DEF Begin, Authenticate, SetRole, SetTenant, AfterRole, Goto, IsolationInv, TypeOK,
         Idle, Busy
<1>5. ASSUME NEW q \in Clients, Create(q) \/ FindById(q) \/ Reserve(q) \/ Settle(q)
      PROVE  Idle \/ Done
  BY <1>5
     DEF Create, FindById, Reserve, Settle, Respond, Goto, Forget, Working, IsolationInv,
         TypeOK, Idle, Done
<1>6. ASSUME NEW q \in Clients, AnswerNoTenant(q) PROVE Idle \/ Over
  BY <1>6
     DEF AnswerNoTenant, Respond, Goto, EndWalk, IsolationInv, TypeOK, Idle, Over
<1>7. ASSUME NEW q \in Clients, FindPage(q) \/ CountAndAnswer(q) PROVE WalkOf(r)'
  <2>1. CASE q # r
    <3>1. Idle
      BY <1>7, <2>1
         DEF FindPage, CountAndAnswer, Respond, Goto, Forget, EndWalk, IsolationInv,
             TypeOK, Idle
    <3> QED
      BY <1>b, <3>1
  <2>2. CASE q = r
    BY <1>7, <1>a, <2>2, PageStep, AnswerStep
  <2> QED
    BY <2>1, <2>2
<1>8. ASSUME UNCHANGED vars PROVE Idle
  BY <1>8 DEF vars, request, Idle
<1> QED
  BY <1>1, <1>2, <1>3, <1>4, <1>5, <1>6, <1>7, <1>8, <1>b, <1>c, <1>d
     DEF Next, Progress

\* For any number of clients, transactions and page sizes: whoever walks to the
\* end has seen whatever was there when the walk began and has a created_at of
\* its own, in spite of the inserts that move rows between the pages.
THEOREM WalksAreComplete == Spec => WalkMissesNothing
<1> DEFINE Inv == IsolationInv /\ WalkInv
           Complete ==
             \A r \in Clients :
               CountAndAnswer(r) /\ walk'[r] = NoWalk =>
                 \A i \in walk[r].due \ (walk[r].seen \cup found[r]) :
                   \E j \in Ids \ {i} : CreatedAt[j] = CreatedAt[i]
<1>1. Init => Inv
  <2> SUFFICES ASSUME Init PROVE WalkInv
    BY InitIsolated
  <2> QED
    BY DEF Init, WalkInv, WalkOf, NoWalk, Unseen
<1>2. Inv /\ [Next]_vars => Inv'
  BY IsolationStep, WalkStep
<1>3. Inv /\ [Next]_vars => [Complete]_vars
  <2> SUFFICES ASSUME Inv, NEW r \in Clients, CountAndAnswer(r), walk'[r] = NoWalk,
                      NEW i \in walk[r].due \ (walk[r].seen \cup found[r]), Untied(i)
               PROVE  FALSE
    BY DEF Untied
  <2>1. pc[r] = "counting" /\ i \in Unseen(r) \ found[r] /\ WalkOf(r)
    BY DEF CountAndAnswer, Unseen, WalkInv
  <2>2. MorePages(r)
    BY <2>1, MissingMeansMore
  <2>3. walk'[r].page = PageOf(arg[r])
    <3>1. walk'[r] = Received(r)
      BY <2>2 DEF CountAndAnswer, IsolationInv, TypeOK
    <3>2. walk[r] \in [due : SUBSET Ids, seen : SUBSET Ids, page : Nat]
      BY DEF IsolationInv, TypeOK
    <3> QED
      BY <3>1, <3>2 DEF Received
  <2>4. PageOf(arg[r]) = walk[r].page + 1 /\ walk[r].page \in Nat
    BY <2>1 DEF WalkOf, IsolationInv, TypeOK
  <2> QED
    BY <2>3, <2>4 DEF NoWalk
<1> QED
  BY <1>1, <1>2, <1>3, PTL DEF Spec, WalkMissesNothing

=============================================================================
