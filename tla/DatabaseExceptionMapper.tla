----------------------- MODULE DatabaseExceptionMapper -----------------------
(***************************************************************************)
(* The mapper that recognises errors of database drivers by their shape    *)
(* and turns the known ones into problems. An exception is a record: its   *)
(* class in the sense of JavaScript, the name of its constructor, its code *)
(* ("" if it has none), the code of the driver's error that it wraps       *)
(* ("absent" if it wraps none, "codeless" if that error has no code), and  *)
(* whether it is marked by PostgreSQL.                                     *)
(***************************************************************************)
EXTENDS Integers, FiniteSets

CONSTANTS
  PrismaShaped,    \* the codes that match P\d{4}
  FiveCharacters,  \* the codes that match [0-9A-Z]{5}
  Production       \* NODE_ENV === 'production'

\* SQLSTATE -> status and title; titles are written without spaces
PG == {
  [code |-> "23505", status |-> 409, title |-> "Conflict"],
  [code |-> "23503", status |-> 409, title |-> "Conflict"],
  [code |-> "23502", status |-> 422, title |-> "UnprocessableEntity"],
  [code |-> "23514", status |-> 422, title |-> "UnprocessableEntity"],
  [code |-> "23P01", status |-> 409, title |-> "Conflict"],
  [code |-> "22P02", status |-> 400, title |-> "BadRequest"],
  [code |-> "22001", status |-> 400, title |-> "BadRequest"],
  [code |-> "40001", status |-> 409, title |-> "Conflict"],
  [code |-> "40P01", status |-> 409, title |-> "Conflict"] }

\* Codes of Prisma's known request errors -> status and title
PRISMA == {
  [code |-> "P2002", status |-> 409, title |-> "Conflict"],
  [code |-> "P2003", status |-> 409, title |-> "Conflict"],
  [code |-> "P2025", status |-> 404, title |-> "NotFound"],
  [code |-> "P2000", status |-> 400, title |-> "BadRequest"],
  [code |-> "P2011", status |-> 422, title |-> "UnprocessableEntity"] }

ASSUME ShapesAssumption ==
  /\ {row.code : row \in PRISMA} \subseteq PrismaShaped
  /\ {row.code : row \in PG} \subseteq FiveCharacters \ PrismaShaped

\* The members of a problem that tell answers apart. A detail is known by
\* where its text comes from: "raw" is the message of an unknown error.
Problem(type, title, status, detail, instance, dbError) ==
  [type |-> type, title |-> title, status |-> status, detail |-> detail,
   instance |-> instance, stackTrace |-> "none", dbError |-> dbError]

\* type: about:blank, one made from the base URI and a title, or a given one
Blank == [kind |-> "blank", name |-> ""]

\* Mutant: a code that the table lacks is answered like its neighbours
BuildByClass(table, code, url) ==
  {Problem(Blank, "Conflict", 409, "table", url,
           IF Production THEN "none" ELSE "raw")}

\* A problem for a code of the table, nothing (null) for any other
Build(table, code, url) ==
  {Problem(Blank, row.title, row.status, "table", url,
           IF Production THEN "none" ELSE "raw") :
     row \in {x \in table : x.code = code}}

LooksPrisma(e) ==
  e.name = "PrismaClientKnownRequestError" \/ e.code \in PrismaShaped

LooksPostgres(e) ==
  e.name = "QueryFailedError" \/ e.driver # "absent" \/ e.marked

\* The driver's code if there is one, be it empty, or else the error's own
PgCode(e) ==
  IF e.driver \notin {"absent", "codeless"} THEN e.driver
  ELSE IF e.code \in FiveCharacters THEN e.code
  ELSE ""

\* What map returns: a set of one problem, or the empty set for null
MapDatabaseError(e, url) ==
  IF e.class = "value" THEN {}
  ELSE IF LooksPrisma(e) THEN Build(PRISMA, e.code, url)
  ELSE IF PgCode(e) # "" /\ LooksPostgres(e) THEN Build(PG, PgCode(e), url)
  ELSE {}

=============================================================================
