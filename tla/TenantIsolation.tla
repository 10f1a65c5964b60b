--------------------------- MODULE TenantIsolation ---------------------------
(***************************************************************************)
(* The requests of several tenants from the middleware to the database and *)
(* back: the request context, the guards, the controller, the repository   *)
(* and executeInTenantContext, on a pool of connections that all tenants   *)
(* share. Two layers keep tenants apart: the repository's own filter and   *)
(* the policy of the migration, which binds only the role that each        *)
(* transaction puts on.                                                    *)
(*                                                                         *)
(* That the ambient context of a request follows it through its awaits is  *)
(* what AsyncLocalStorage does, and is taken for granted: context[r] is    *)
(* that of r's request and of no other.                                    *)
(*                                                                         *)
(* A client sends one request after another. It also walks through its     *)
(* transactions page by page, while others create more of them. An id      *)
(* stands for a transaction, CreatedAt for its created_at, which is drawn  *)
(* before the commit: rows may appear out of that order.                   *)
(***************************************************************************)
EXTENDS Integers, FiniteSets

CONSTANTS
  Clients,        \* each has one request at a time
  Connections,    \* connections to the database
  Tenants,        \* tenant ids, all of them UUIDs
  NotAUuid,       \* a tenant claim that is no UUID
  NoTenant,       \* no tenant: SQL NULL, a missing claim, no row
  NoConnection,
  Deployments,    \* what pool, policy and claim may be
  RowCount,       \* how many transactions are ever created
  CreatedAt,      \* CreatedAt[i]: the time of transaction i
  LimitOf,        \* the page size each client asks for
  MaxLimit        \* the largest page size granted: 100

Ids == 1 .. RowCount
Principals == Tenants \cup {NotAUuid, NoTenant}

ASSUME ConstantsAssumption ==
  /\ NotAUuid \notin Tenants
  /\ NoTenant \notin Tenants
  /\ NotAUuid # NoTenant
  /\ NoConnection \notin Connections
  /\ Deployments \subseteq
       [pool : SUBSET Connections, policy : BOOLEAN, claim : [Clients -> Principals]]
  /\ RowCount \in Nat
  /\ CreatedAt \in [Ids -> Nat]
  /\ LimitOf \in [Clients -> Int]
  /\ MaxLimit \in Nat \ {0}

VARIABLES
  pool,       \* the connections there are: never changes
  policy,     \* whether the migration's policy is in place: never changes
  claim,      \* the tenant in each client's token: never changes
  rows,       \* tenant_id of every transaction
  writers,    \* history: the claims of the requests that wrote it
  role,       \* per connection, the role in force
  setting,    \* per connection, app.current_tenant_id
  pc,         \* where the request of each client is
  kind,       \* what it asks for
  arg,        \* the id, or the page, it asks for
  context,    \* tenantId in its RequestContext
  conn,       \* the connection of its database transaction
  found,      \* the rows it has read
  walk        \* history: the client's walk through the pages

fixed   == <<pool, policy, claim>>
table   == <<rows, writers>>
session == <<role, setting>>
request == <<pc, kind, arg, context>>
vars == <<fixed, table, session, request, conn, found, walk>>

-----------------------------------------------------------------------------
(* What PostgreSQL shows *)

\* get_current_tenant_id(): NULL unless the setting parses as a UUID
CurrentTenantId(c) == IF setting[c] \in Tenants THEN setting[c] ELSE NoTenant

\* The policy binds rls_app; the role that connects is a superuser
Confined(c) == policy /\ role[c] = "rls_app"

\* The rows a statement on connection c can see, and UPDATE
Visible(c) ==
  {i \in Ids : rows[i] # NoTenant /\ (Confined(c) => rows[i] = CurrentTenantId(c))}

\* The existing rows of a client's tenant
Own(r) == {i \in Ids : rows[i] # NoTenant /\ rows[i] = claim[r]}

-----------------------------------------------------------------------------
(* findAll: page arithmetic *)

Least(a, b) == IF a <= b THEN a ELSE b
Most(a, b) == IF a >= b THEN a ELSE b

\* Math.max(1, page) and Math.min(100, Math.max(1, limit))
PageOf(page) == Most(1, page)
Limit(r) == Least(MaxLimit, Most(1, LimitOf[r]))

Skip(r, page) == (PageOf(page) - 1) * Limit(r)

\* Mutant: Math.floor(total / limit)
TotalPagesFloor(r, total) == total \div Limit(r)

\* Math.ceil(total / limit)
TotalPages(r, total) == (total + Limit(r) - 1) \div Limit(r)

Newer(i, j) == CreatedAt[i] > CreatedAt[j]

\* The results that ORDER BY created_at DESC, OFFSET skip, LIMIT take can have:
\* rows of one created_at come in any order
Windows(S, skip, take) ==
  {W \in SUBSET S : \E Before \in SUBSET (S \ W) :
     /\ Cardinality(Before) = Least(skip, Cardinality(S))
     /\ Cardinality(W) = Least(take, Cardinality(S \ Before))
     /\ \A b \in Before, i \in S \ Before : ~ Newer(i, b)
     /\ \A w \in W, i \in S \ (Before \cup W) : ~ Newer(i, w)}

-----------------------------------------------------------------------------

Superuser == "superuser"
Kinds == {"none", "create", "get", "process", "reserve", "settle", "list"}
Locations == {"idle", "guards", "dispatch", "role", "tenant", "working", "counting"}
InTransaction == {"role", "tenant", "working", "counting"}

NoWalk == [due |-> {}, seen |-> {}, page |-> 0]

Init ==
  /\ \E d \in Deployments : pool = d.pool /\ policy = d.policy /\ claim = d.claim
  /\ rows    = [i \in Ids |-> NoTenant]
  /\ writers = [i \in Ids |-> {}]
  /\ role    = [c \in Connections |-> Superuser]
  /\ setting = [c \in Connections |-> NoTenant]
  /\ pc      = [r \in Clients |-> "idle"]
  /\ kind    = [r \in Clients |-> "none"]
  /\ arg     = [r \in Clients |-> 0]
  /\ context = [r \in Clients |-> NoTenant]
  /\ conn    = [r \in Clients |-> NoConnection]
  /\ found   = [r \in Clients |-> {}]
  /\ walk    = [r \in Clients |-> NoWalk]

Goto(r, location) == pc' = [pc EXCEPT ![r] = location]

\* The answer is sent, and the request's context is gone
Respond(r) ==
  /\ Goto(r, "idle")
  /\ kind'    = [kind EXCEPT ![r] = "none"]
  /\ arg'     = [arg EXCEPT ![r] = 0]
  /\ context' = [context EXCEPT ![r] = NoTenant]

Forget(r) == found' = [found EXCEPT ![r] = {}]

-----------------------------------------------------------------------------
(* A request arrives *)

\* RequestContextMiddleware: a new context, with no tenant yet
Arrive(r, what, with) ==
  /\ pc[r] = "idle"
  /\ Goto(r, "guards")
  /\ kind'    = [kind EXCEPT ![r] = what]
  /\ arg'     = [arg EXCEPT ![r] = with]
  /\ context' = [context EXCEPT ![r] = NoTenant]
  /\ Forget(r)
  /\ UNCHANGED <<fixed, table, session, conn>>

EndWalk(r) == walk' = [walk EXCEPT ![r] = NoWalk]

\* GET /transactions/:id or PATCH /transactions/:id/process, with any id
AskForOne(r, what, i) == Arrive(r, what, i) /\ EndWalk(r)

\* POST /transactions: the id is one that nobody has drawn yet
AskToCreate(r, i) ==
  /\ rows[i] = NoTenant
  /\ \A q \in Clients : kind[q] = "create" => arg[q] # i
  /\ Arrive(r, "create", i)
  /\ EndWalk(r)

\* GET /transactions: the first page of a walk, asked for as page 0 or 1, or
\* the one after the last that was received
AskForPage(r) ==
  \/ /\ walk[r] = NoWalk
     /\ \E page \in {0, 1} : Arrive(r, "list", page)
     /\ walk' = [walk EXCEPT ![r].due = Own(r)]
  \/ /\ walk[r].page > 0
     /\ Arrive(r, "list", walk[r].page + 1)
     /\ UNCHANGED walk

\* An answer that is an error: the client may ask for the page again
Reject(r) ==
  /\ Respond(r)
  /\ Forget(r)
  /\ walk' = [walk EXCEPT ![r] = IF @.page = 0 THEN NoWalk ELSE @]

\* JwtAuthGuard: no token, or none that is valid
RefuseToken(r) ==
  /\ pc[r] = "guards"
  /\ Reject(r)
  /\ UNCHANGED <<fixed, table, session, conn>>

\* JwtStrategy.validate puts the tenant of the token into the context
Authenticate(r) ==
  /\ pc[r] = "guards"
  /\ Goto(r, "dispatch")
  /\ context' = [context EXCEPT ![r] = claim[r]]
  /\ UNCHANGED <<fixed, table, session, kind, arg, conn, found, walk>>

\* RolesGuard: only process asks for a role
RefuseRole(r) ==
  /\ pc[r] = "dispatch"
  /\ kind[r] = "process"
  /\ Reject(r)
  /\ UNCHANGED <<fixed, table, session, conn>>

\* findById and findAll read nothing without a tenant: a 404, or an empty page
AnswerNoTenant(r) ==
  /\ pc[r] = "dispatch"
  /\ kind[r] \in {"get", "process", "list"}
  /\ context[r] = NoTenant
  /\ Respond(r)
  /\ EndWalk(r)
  /\ UNCHANGED <<fixed, table, session, conn, found>>

-----------------------------------------------------------------------------
(* executeInTenantContext *)

Waiting(r) ==
  /\ pc[r] = "dispatch"
  /\ context[r] # NoTenant \/ kind[r] = "create"

\* The pool has no connection for the request within connectionTimeoutMillis
ConnectTimesOut(r) ==
  /\ Waiting(r)
  /\ Reject(r)
  /\ UNCHANGED <<fixed, table, session, conn>>

\* dataSource.transaction takes a connection of the pool, and BEGIN
Begin(r, c) ==
  /\ Waiting(r)
  /\ \A q \in Clients : conn[q] # c
  /\ conn' = [conn EXCEPT ![r] = c]
  /\ Goto(r, "role")
  /\ UNCHANGED <<fixed, table, session, kind, arg, context, found, walk>>

\* Mutant: queryInTenantContext does not set the tenant
AfterRoleForWrites(r) ==
  IF context[r] # NoTenant /\ kind[r] \in {"create", "reserve", "settle"}
  THEN "tenant" ELSE "working"

AfterRole(r) == IF context[r] # NoTenant THEN "tenant" ELSE "working"

\* SET LOCAL ROLE rls_app
SetRole(r) ==
  /\ pc[r] = "role"
  /\ role' = [role EXCEPT ![conn[r]] = "rls_app"]
  /\ Goto(r, AfterRole(r))
  /\ UNCHANGED <<fixed, table, setting, kind, arg, context, conn, found, walk>>

\* set_config of the tenant, local to the transaction, and of the user, which
\* no policy reads
SetTenant(r) ==
  /\ pc[r] = "tenant"
  /\ setting' = [setting EXCEPT ![conn[r]] = context[r]]
  /\ Goto(r, "working")
  /\ UNCHANGED <<fixed, table, role, kind, arg, context, conn, found, walk>>

\* Mutant: set_config is called with is_local = false
EndTransactionKeepsTenant(r) ==
  /\ role' = [role EXCEPT ![conn[r]] = Superuser]
  /\ conn' = [conn EXCEPT ![r] = NoConnection]
  /\ UNCHANGED setting

\* COMMIT or ROLLBACK: what was set LOCAL reverts, the connection is released
EndTransaction(r) ==
  /\ role'    = [role EXCEPT ![conn[r]] = Superuser]
  /\ setting' = [setting EXCEPT ![conn[r]] = NoTenant]
  /\ conn'    = [conn EXCEPT ![r] = NoConnection]

\* Mutant: the connection of a failed transaction is not released
FailLeaks(r) ==
  /\ pc[r] \in InTransaction
  /\ Reject(r)
  /\ UNCHANGED <<fixed, table, session, conn>>

\* A query fails, or the COMMIT: rolled back, and the client gets a 500
Fail(r) ==
  /\ pc[r] \in InTransaction
  /\ EndTransaction(r)
  /\ Reject(r)
  /\ UNCHANGED <<fixed, table>>

-----------------------------------------------------------------------------
(* The work of each transaction. Its last statement and COMMIT are one step:  *)
(* what a transaction has not committed nobody else sees.                     *)

Working(r, kinds) == pc[r] = "working" /\ kind[r] \in kinds

\* CreateTransactionHandler: tenant_id is the token's. The column takes only a
\* UUID, and the policy only that of the session.
Create(r) ==
  /\ Working(r, {"create"})
  /\ claim[r] \in Tenants
  /\ Confined(conn[r]) => claim[r] = CurrentTenantId(conn[r])
  /\ rows'    = [rows EXCEPT ![arg[r]] = claim[r]]
  /\ writers' = [writers EXCEPT ![arg[r]] = @ \cup {claim[r]}]
  /\ EndTransaction(r)
  /\ Respond(r)
  /\ UNCHANGED <<fixed, found, walk>>

\* Mutant: the repository trusts the policy alone
ScopedByPolicy(r) == Visible(conn[r])

\* The repository's own filter, where tenant_id = the context's tenant. A tenant
\* that is no UUID makes the query fail.
Scoped(r) == {i \in Visible(conn[r]) : rows[i] = context[r]}

\* findById. The answer of a GET, a 404 if nothing is found, and a 409 for a
\* transaction that is no longer pending need no other transaction.
FindById(r) ==
  /\ Working(r, {"get", "process"})
  /\ context[r] # NotAUuid
  /\ found' = [found EXCEPT ![r] = Scoped(r) \cap {arg[r]}]
  /\ EndTransaction(r)
  /\ \/ Respond(r)
     \/ /\ found'[r] # {} /\ kind[r] = "process"
        /\ kind' = [kind EXCEPT ![r] = "reserve"]
        /\ Goto(r, "dispatch")
        /\ UNCHANGED <<arg, context>>
  /\ UNCHANGED <<fixed, table, walk>>

\* A save of a processed transaction: UPDATE by id alone, of what it can see
Update(r) ==
  /\ found[r] \subseteq Visible(conn[r])
  /\ writers' =
       [i \in Ids |-> IF i \in found[r] THEN writers[i] \cup {claim[r]} ELSE writers[i]]

\* The transaction that saves it as PROCESSING. The payment gateway is called
\* when this one has ended, and the request holds no connection meanwhile.
Reserve(r) ==
  /\ Working(r, {"reserve"})
  /\ Update(r)
  /\ EndTransaction(r)
  /\ kind' = [kind EXCEPT ![r] = "settle"]
  /\ Goto(r, "dispatch")
  /\ UNCHANGED <<fixed, rows, arg, context, found, walk>>

\* The transaction that saves what came of it
Settle(r) ==
  /\ Working(r, {"settle"})
  /\ Update(r)
  /\ EndTransaction(r)
  /\ Respond(r)
  /\ Forget(r)
  /\ UNCHANGED <<fixed, rows, walk>>

\* findAll, the first statement of getManyAndCount: the page
FindPage(r) ==
  /\ Working(r, {"list"})
  /\ context[r] # NotAUuid
  /\ \E W \in Windows(Scoped(r), Skip(r, arg[r]), Limit(r)) :
       found' = [found EXCEPT ![r] = W]
  /\ Goto(r, "counting")
  /\ UNCHANGED <<fixed, table, session, kind, arg, context, conn, walk>>

\* Mutant: the total is the one that the first page was answered with (a cache)
TotalCached(r) == Cardinality(walk[r].due)

\* The total is counted by a second statement, and by then others may have
\* created rows; unless the page itself shows where the rows end
Total(r) ==
  LET skip == Skip(r, arg[r])
      size == Cardinality(found[r])
  IN  IF size = Limit(r) \/ (size = 0 /\ skip > 0) THEN Cardinality(Scoped(r))
      ELSE skip + size

\* The answer says that there are pages after this one
MorePages(r) == PageOf(arg[r]) < TotalPages(r, Total(r))

\* The walk, one page further
Received(r) ==
  [walk[r] EXCEPT !.seen = @ \cup found[r], !.page = PageOf(arg[r])]

\* COMMIT, and the answer
CountAndAnswer(r) ==
  /\ pc[r] = "counting"
  /\ IF MorePages(r)
       THEN walk' = [walk EXCEPT ![r] = Received(r)]
       ELSE EndWalk(r)
  /\ EndTransaction(r)
  /\ Respond(r)
  /\ Forget(r)
  /\ UNCHANGED <<fixed, table>>

-----------------------------------------------------------------------------

Progress(r) ==
  \/ Authenticate(r) \/ AnswerNoTenant(r)
  \/ SetRole(r) \/ SetTenant(r) \/ Fail(r)
  \/ Create(r) \/ FindById(r) \/ Reserve(r) \/ Settle(r)
  \/ FindPage(r) \/ CountAndAnswer(r)

Next ==
  \E r \in Clients :
    \/ \E i \in Ids : \/ \E what \in {"get", "process"} : AskForOne(r, what, i)
                      \/ AskToCreate(r, i)
    \/ AskForPage(r)
    \/ RefuseToken(r) \/ RefuseRole(r) \/ ConnectTimesOut(r)
    \/ \E c \in pool : Begin(r, c)
    \/ Progress(r)

Spec == Init /\ [][Next]_vars

\* A request is resumed after each await
FairSpec == Spec /\ \A r \in Clients : WF_vars(Progress(r))

-----------------------------------------------------------------------------
(* Properties *)

TypeOK ==
  /\ pool    \in SUBSET Connections
  /\ policy  \in BOOLEAN
  /\ claim   \in [Clients -> Principals]
  /\ rows    \in [Ids -> Tenants \cup {NoTenant}]
  /\ writers \in [Ids -> SUBSET Principals]
  /\ role    \in [Connections -> {Superuser, "rls_app"}]
  /\ setting \in [Connections -> Principals]
  /\ pc      \in [Clients -> Locations]
  /\ kind    \in [Clients -> Kinds]
  /\ arg     \in [Clients -> Nat]
  /\ context \in [Clients -> Principals]
  /\ conn    \in [Clients -> Connections \cup {NoConnection}]
  /\ found   \in [Clients -> SUBSET Ids]
  /\ walk    \in [Clients -> [due : SUBSET Ids, seen : SUBSET Ids, page : Nat]]

\* A connection returns to the pool without the role and the tenant of the
\* request that used it, however that ended.
PooledAreClean ==
  \A c \in Connections :
    (\A r \in Clients : conn[r] # c) => role[c] = Superuser /\ setting[c] = NoTenant

\* What is set on the connection of a request, at each await of its transaction
SessionOf(r) ==
  /\ pc[r] \in InTransaction <=> conn[r] # NoConnection
  /\ pc[r] = "role" => role[conn[r]] = Superuser /\ setting[conn[r]] = NoTenant
  /\ pc[r] = "tenant" => role[conn[r]] = "rls_app" /\ setting[conn[r]] = NoTenant
  /\ pc[r] \in {"working", "counting"} =>
       role[conn[r]] = "rls_app" /\ setting[conn[r]] = context[r]

\* The tenant in a request's context is that of its own token
ContextIsOwn ==
  \A r \in Clients :
    context[r] = IF pc[r] \in {"idle", "guards"} THEN NoTenant ELSE claim[r]

\* No two requests have one connection
OneHolder ==
  \A q, r \in Clients : conn[q] = conn[r] /\ conn[q] # NoConnection => q = r

\* Whatever a client is shown belongs to the tenant of its token
ReadsAreOwn == \A r \in Clients : found[r] \subseteq Own(r)

\* Only requests of a transaction's tenant have written it, and nobody without
WritesAreOwn == \A i \in Ids : writers[i] \subseteq {rows[i]} \ {NoTenant}

\* An id that a request is about to insert is nobody else's
CreatesAreFresh ==
  \A r \in Clients :
    kind[r] = "create" =>
      /\ arg[r] \in Ids
      /\ rows[arg[r]] = NoTenant
      /\ \A q \in Clients : kind[q] = "create" /\ arg[q] = arg[r] => q = r

\* Tenants are kept apart, with the policy or without it, whoever used the
\* connection before. The UPDATE names the id alone: where the policy is
\* missing, it rests on what was loaded.
TenantsAreApart == ReadsAreOwn /\ WritesAreOwn

\* Contexts, connections and what is set on them belong to one request at a
\* time, and pooled connections are clean
SessionsInv ==
  /\ ContextIsOwn
  /\ OneHolder
  /\ \A r \in Clients : SessionOf(r)
  /\ PooledAreClean

\* The inductive invariant behind the separation: what a request reads and
\* writes is its tenant's because its context and its session are its own.
IsolationInv == TypeOK /\ SessionsInv /\ CreatesAreFresh /\ TenantsAreApart

\* The other layer: where the policy is in place, it alone shows every request
\* exactly the rows of its tenant by the time the work starts.
PolicyIsExact ==
  \A r \in Clients :
    policy /\ pc[r] \in {"working", "counting"} => Visible(conn[r]) = Own(r)

\* A client that walks through the pages until the answer says there are no
\* more has seen every transaction that was there when it began, although
\* others created transactions meanwhile and rows moved to other pages; except
\* those that share their created_at with another.
WalkMissesNothing ==
  [][\A r \in Clients :
       CountAndAnswer(r) /\ walk'[r] = NoWalk =>
         \A i \in walk[r].due \ (walk[r].seen \cup found[r]) :
           \E j \in Ids \ {i} : CreatedAt[j] = CreatedAt[i]]_vars

\* Every connection is free again and again, however the requests that took it
\* ended: none keeps it while it waits for something else.
ConnectionsReturn == \A c \in Connections : []<>(\A r \in Clients : conn[r] # c)

=============================================================================
