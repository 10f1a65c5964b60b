---------------------------- MODULE ProblemFilter ----------------------------
(***************************************************************************)
(* Rfc7807ExceptionFilter: every exception that leaves a request handler   *)
(* becomes one problem, by the first of a chain that knows it: the user's  *)
(* mappers, problems thrown as such, Nest's HTTP exceptions, database      *)
(* errors, and a 500 for the rest. One filter serves all requests; catch   *)
(* is synchronous, so exceptions are handled one after another. What they  *)
(* share is what a mapper shares: the object it returns, if that is the    *)
(* same one each time, for the filter writes into the object it is given.  *)
(***************************************************************************)
EXTENDS DatabaseExceptionMapper

CONSTANTS
  Exceptions,         \* what handlers throw
  Urls,               \* request URLs
  NoUrl,              \* no instance
  Names,              \* the titles of problems and names of their types
  MapperCount,        \* options.mappers has this many elements
  Handles,            \* Handles[i]: the exceptions that mapper i knows
  Template,           \* Template[i]: the problem it returns
  Reuses,             \* the mappers that return the same object each time
  DatabaseErrors,     \* options.databaseErrors
  IncludeStackTrace,  \* options.includeStackTrace
  HasCallback,        \* options.onProblem is there
  HasTypeBase         \* options.typeBaseUri is there, and not about:blank

Mappers == 1 .. MapperCount

\* Where the text of a detail comes from
Details == {"none", "stated", "validation", "table", "masked", "raw"}

Types == [kind : {"blank", "based", "given"}, name : Names]

Problems ==
  [type : Types, title : Names, status : Nat, detail : Details, instance : Urls \cup {NoUrl},
   stackTrace : {"none", "shown"}, dbError : {"none", "raw"}]

\* A type that whoever throws a problem states, or none
StatedTypes == {Blank} \cup [kind : {"given"}, name : Names]

\* The standard members that the extensions of a problem exception overwrite:
\* per member no value or one. Also a detail or a stackTrace may be among them;
\* its text is then the thrower's own, and it counts as a stated detail.
Extensions ==
  [type : SUBSET StatedTypes, title : SUBSET Names, status : SUBSET Nat,
   instance : SUBSET (Urls \cup {NoUrl})]

NoExtensions == [type |-> {}, title |-> {}, status |-> {}, instance |-> {}]

\* class: "problem" (ProblemDetailException), "http" (HttpException), "error"
\* (any other Error), "object" or "value" (thrown, but no Error)
Shapes ==
  [class : {"problem", "http", "error", "object", "value"}, name : STRING,
   code : STRING, driver : STRING, marked : BOOLEAN,
   status : Nat, title : Names, type : StatedTypes, instance : Urls \cup {NoUrl},
   body : {"string", "message", "list", "other"},
   hasDetail : BOOLEAN, extensions : Extensions]

-----------------------------------------------------------------------------
HTTP_STATUS_TITLES == {
  [status |-> 400, title |-> "BadRequest"],
  [status |-> 401, title |-> "Unauthorized"],
  [status |-> 403, title |-> "Forbidden"],
  [status |-> 404, title |-> "NotFound"],
  [status |-> 405, title |-> "MethodNotAllowed"],
  [status |-> 409, title |-> "Conflict"],
  [status |-> 410, title |-> "Gone"],
  [status |-> 422, title |-> "UnprocessableEntity"],
  [status |-> 429, title |-> "TooManyRequests"],
  [status |-> 500, title |-> "InternalServerError"],
  [status |-> 501, title |-> "NotImplemented"],
  [status |-> 502, title |-> "BadGateway"],
  [status |-> 503, title |-> "ServiceUnavailable"],
  [status |-> 504, title |-> "GatewayTimeout"] }

\* The concrete problem exceptions: BadRequestProblem, UnauthorizedProblem, ...
ProblemExceptions == {
  [status |-> 400, title |-> "BadRequest"],
  [status |-> 401, title |-> "Unauthorized"],
  [status |-> 403, title |-> "Forbidden"],
  [status |-> 404, title |-> "NotFound"],
  [status |-> 409, title |-> "Conflict"],
  [status |-> 422, title |-> "UnprocessableEntity"],
  [status |-> 429, title |-> "TooManyRequests"],
  [status |-> 500, title |-> "InternalServerError"] }

ASSUME NamesAssumption ==
  /\ {"", "HTTPError", "InternalServerError"} \subseteq Names
  /\ {row.title : row \in PG} \subseteq Names
  /\ {row.title : row \in PRISMA} \subseteq Names
  /\ {row.title : row \in HTTP_STATUS_TITLES} \subseteq Names
  /\ {row.title : row \in ProblemExceptions} \subseteq Names

ASSUME OptionsAssumption ==
  /\ Production \in BOOLEAN
  /\ NoUrl \notin Urls
  /\ MapperCount \in Nat
  /\ Exceptions \subseteq Shapes
  /\ Handles \in [Mappers -> SUBSET Exceptions]
  /\ Template \in [Mappers -> Problems]
  /\ Reuses \subseteq Mappers

\* What mappers of the user return shows no stack, no driver message and no
\* message of an unknown error: the mappers are told when to mask.
ASSUME MappersMask ==
  \A i \in Mappers :
    /\ Template[i].stackTrace = "none"
    /\ Template[i].dbError = "none"
    /\ Template[i].detail # "raw"

VARIABLES
  object,    \* the problem that each mapper returns next
  last       \* the last exception that was handled, and how: at most one record

vars == <<object, last>>

Init ==
  /\ object = Template
  /\ last   = {}

-----------------------------------------------------------------------------
(* From an exception to a problem *)

\* HTTP_STATUS_TITLES[status] ?? `HTTP Error ${status}`: the number is left out
HttpTitle(status) ==
  IF \E row \in HTTP_STATUS_TITLES : row.status = status
  THEN (CHOOSE row \in HTTP_STATUS_TITLES : row.status = status).title
  ELSE "HTTPError"

\* An instance of a concrete problem exception
ProblemException(row, type, instance, hasDetail, extensions) ==
  [class |-> "problem", name |-> "", code |-> "", driver |-> "absent",
   marked |-> FALSE, status |-> row.status, title |-> row.title, type |-> type,
   instance |-> instance, body |-> "other",
   hasDetail |-> hasDetail, extensions |-> extensions]

\* {base}/{slug of the title}, or about:blank without a base
ResolveTypeUri(title) ==
  IF HasTypeBase THEN [kind |-> "based", name |-> title] ELSE Blank

\* Mutant: the base is left to whoever makes the problem
ApplyTypeBaseUriNever(problem) == problem

\* Only a type that is still about:blank is replaced
ApplyTypeBaseUri(problem) ==
  IF problem.type = Blank
  THEN [problem EXCEPT !.type = ResolveTypeUri(problem.title)]
  ELSE problem

\* A mapper's problem gets the URL as its instance if it has none, and a type
Finalize(problem, url) ==
  ApplyTypeBaseUri([problem EXCEPT !.instance = IF @ = NoUrl THEN url ELSE @])

\* The value of a member: the extension's, if it overwrites the exception's own
Extended(extension, own) ==
  IF extension = {} THEN own ELSE CHOOSE value \in extension : TRUE

\* toProblemDetail: the members of the exception, then its extensions over them
ToProblemDetail(e) ==
  Problem(Extended(e.extensions.type, e.type),
          Extended(e.extensions.title, e.title),
          Extended(e.extensions.status, e.status),
          IF e.hasDetail THEN "stated" ELSE "none",
          Extended(e.extensions.instance, e.instance), "none")

FromHttpException(e, url) ==
  Problem(ResolveTypeUri(HttpTitle(e.status)), HttpTitle(e.status), e.status,
          IF e.body \in {"string", "message"} THEN "stated"
          ELSE IF e.body = "list" THEN "validation"
          ELSE "none",
          url, "none")

\* Mutant: the message is masked for Errors only
FromUnknownErrorHalfMasked(e, url) ==
  Problem(ResolveTypeUri("InternalServerError"), "InternalServerError", 500,
          IF Production /\ e.class = "error" THEN "masked" ELSE "raw", url, "none")

\* Everything else is a 500, with a fixed detail in production
FromUnknownError(e, url) ==
  Problem(ResolveTypeUri("InternalServerError"), "InternalServerError", 500,
          IF Production THEN "masked" ELSE "raw", url, "none")

\* The mappers of the user that know e
Knowing(e) == {i \in Mappers : e \in Handles[i]}

\* The one that is asked first
FirstMapper(e) == CHOOSE i \in Knowing(e) : \A j \in Knowing(e) : i <= j

\* buildProblemDetail
BuildProblemDetail(e, url) ==
  LET database == IF DatabaseErrors THEN MapDatabaseError(e, url) ELSE {}
  IN  IF Knowing(e) # {}       THEN Finalize(object[FirstMapper(e)], url)
      ELSE IF e.class = "problem" THEN Finalize(ToProblemDetail(e), url)
      ELSE IF e.class = "http"    THEN FromHttpException(e, url)
      ELSE IF database # {}       THEN Finalize(CHOOSE p \in database : TRUE, url)
      ELSE FromUnknownError(e, url)

\* exception instanceof Error
IsError(e) == e.class \in {"problem", "http", "error"}

\* Never in production
WithStack(e, problem) ==
  IF IncludeStackTrace /\ ~ Production /\ IsError(e)
  THEN [problem EXCEPT !.stackTrace = "shown"]
  ELSE problem

-----------------------------------------------------------------------------
(* catch *)

\* What is told to onProblem, if anything
Reported(e, problem) == IF HasCallback /\ IsError(e) THEN {problem} ELSE {}

\* The object of a mapper that returns the same one each time keeps what the
\* filter wrote into it.
Remember(e, problem) ==
  object' = [i \in Mappers |->
               IF Knowing(e) # {} /\ i = FirstMapper(e) /\ i \in Reuses
               THEN problem ELSE object[i]]

\* The exception is answered, and reported before that
Catch(e, url) ==
  LET problem == WithStack(e, BuildProblemDetail(e, url))
  IN  /\ Remember(e, problem)
      /\ last' = {[exception |-> e, url |-> url, problem |-> problem,
                    reported |-> Reported(e, problem), answered |-> TRUE]}

\* onProblem throws: the filter sends nothing
CallbackThrows(e, url) ==
  LET problem == WithStack(e, BuildProblemDetail(e, url))
  IN  /\ Reported(e, problem) # {}
      /\ Remember(e, problem)
      /\ last' = {[exception |-> e, url |-> url, problem |-> problem,
                    reported |-> Reported(e, problem), answered |-> FALSE]}

Next == \E e \in Exceptions, url \in Urls : Catch(e, url) \/ CallbackThrows(e, url)

Spec == Init /\ [][Next]_vars

-----------------------------------------------------------------------------
(* Properties *)

Answers ==
  [exception : Exceptions, url : Urls, problem : Problems,
   reported : SUBSET Problems, answered : BOOLEAN]

TypeOK ==
  /\ object \in [Mappers -> Problems]
  /\ last \in SUBSET Answers

\* A problem that shows nothing of the inside of the service
Masked(problem) ==
  /\ problem.stackTrace = "none"
  /\ problem.dbError = "none"
  /\ problem.detail # "raw"

\* In production no answer shows a stack trace, a driver's message or the
\* message of an unknown error, whatever was thrown, by whichever link of the
\* chain it was answered, and whatever was written before into the object
\* that a mapper reuses.
NothingLeaksInProduction ==
  Production => \A a \in last : Masked(a.problem)

\* The inductive invariant behind it: reused objects stay masked as well.
MaskInv ==
  /\ TypeOK
  /\ NothingLeaksInProduction
  /\ Production => \A i \in Mappers : Masked(object[i])

\* The instance that whoever made the problem gave it, if any
GivenInstance(e) ==
  IF Knowing(e) # {} THEN Template[FirstMapper(e)].instance
  ELSE IF e.class = "problem" THEN Extended(e.extensions.instance, e.instance)
  ELSE NoUrl

\* What the mapping context promises to a mapper that omits the instance: the
\* instance of an answer is the URL of its own request, unless the exception or
\* its mapper gave it another, and never that of an earlier request.
InstanceIsOwn ==
  \A a \in last :
    a.problem.instance =
      IF GivenInstance(a.exception) = NoUrl THEN a.url
      ELSE GivenInstance(a.exception)

\* An exception that is neither mapped by the user nor thrown for the client
Unexpected(e) == Knowing(e) = {} /\ e.class \in {"error", "object", "value"}

\* A database error is never answered with a misleading 4xx: the answer to an
\* unexpected exception is 500, or the status that the tables hold for a code
\* it carries; and an error that a driver marked and that carries a known
\* code does get that status, in whichever order the shapes are tried.
DatabaseStatusesAreTrue ==
  \A a \in last :
    LET e    == a.exception
        rows == {row \in PG \cup PRISMA : row.code \in {e.code, e.driver}}
    IN  Unexpected(e) =>
          \/ a.problem.status \in {row.status : row \in rows}
          \/ /\ a.problem.status = 500
             /\ ~ DatabaseErrors \/ rows = {} \/ e.class = "value"
                  \/ ~ (LooksPrisma(e) \/ LooksPostgres(e))

\* An instance of one of the concrete problem exceptions, whose extensions
\* overwrite neither status nor title. One that overwrites them, or a class of
\* the application, is titled by whoever throws it.
Concrete(e) ==
  /\ \E row \in ProblemExceptions : e.status = row.status /\ e.title = row.title
  /\ e.extensions.status = {} /\ e.extensions.title = {}

\* Whichever table an answer's title comes from, that of the HTTP statuses,
\* of the problem exceptions, of PostgreSQL or of Prisma, one status has one
\* title, and so one type under the base URI.
OneTitlePerStatus ==
  \A a \in last :
    /\ Knowing(a.exception) = {}
    /\ a.exception.class = "problem" => Concrete(a.exception)
    => /\ a.problem.title = HttpTitle(a.problem.status)
       /\ a.problem.type.kind # "given" =>
            a.problem.type = ResolveTypeUri(HttpTitle(a.problem.status))

=============================================================================
