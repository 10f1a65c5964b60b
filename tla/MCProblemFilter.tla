--------------------------- MODULE MCProblemFilter ---------------------------
(***************************************************************************)
(* Instances of ProblemFilter for TLC: exceptions of every class, in the   *)
(* shapes in which Nest, TypeORM, pg, Prisma and Node throw them.          *)
(***************************************************************************)
EXTENDS ProblemFilter

\* Codes of errors in the instances, by the shapes that the mapper tells apart
MCPrismaShaped == {row.code : row \in PRISMA} \cup {"P2034", "P0001"}
MCFiveCharacters ==
  {row.code : row \in PG} \cup MCPrismaShaped \cup {"42P01", "EPIPE"}

\* An exception with nothing special about it
Plain(class) ==
  [class |-> class, name |-> "", code |-> "", driver |-> "absent",
   marked |-> FALSE, status |-> 0, title |-> "", type |-> Blank,
   instance |-> NoUrl, body |-> "other", hasDetail |-> FALSE,
   extensions |-> NoExtensions]

Http(status, body) == [Plain("http") EXCEPT !.status = status, !.body = body]

\* TypeORM copies the members of the driver's error onto its own
TypeOrm(code) ==
  [Plain("error") EXCEPT !.name = "QueryFailedError", !.code = code,
                         !.driver = code, !.marked = TRUE]

Pg(code) == [Plain("error") EXCEPT !.code = code, !.marked = TRUE]

Prisma(code) ==
  [Plain("error") EXCEPT !.name = "PrismaClientKnownRequestError", !.code = code]

MCNames ==
  {row.title : row \in PG \cup PRISMA \cup HTTP_STATUS_TITLES} \cup
  {"", "HTTPError", "urn:problem", "PaymentRequired", "AlreadyThere"}

Given == [kind |-> "given", name |-> "urn:problem"]

\* Extensions that name a standard member
WithInstance == [NoExtensions EXCEPT !.instance = {"/other"}]
WithType     == [NoExtensions EXCEPT !.type = {Given}]
Rewritten    == [NoExtensions EXCEPT !.status = {402}, !.title = {"PaymentRequired"},
                                     !.instance = {NoUrl}]

\* Problems thrown as such; the bootstrap's validation problem among them
Stated ==
  {ProblemException(row, Blank, NoUrl, TRUE, NoExtensions) : row \in ProblemExceptions}
  \cup UNION {
    {ProblemException(row, Blank, "/validation", TRUE, NoExtensions),
     ProblemException(row, Given, NoUrl, FALSE, NoExtensions),
     ProblemException(row, Blank, NoUrl, TRUE, WithInstance),
     ProblemException(row, Blank, NoUrl, TRUE, WithType),
     ProblemException(row, Blank, "/validation", TRUE, Rewritten)} :
       row \in {x \in ProblemExceptions : x.status = 400}}

FromNest ==
  {Http(status, "message") :
     status \in {400, 401, 403, 404, 405, 409, 410, 418, 422, 429, 500, 501,
                 502, 503, 504}} \cup
  {Http(400, "list"), Http(404, "string"), Http(500, "other")}

FromDatabase ==
  {TypeOrm(row.code) : row \in PG} \cup {Pg(row.code) : row \in PG} \cup
  {Prisma(row.code) : row \in PRISMA} \cup
  {TypeOrm("42P01"), Pg("P0001"), TypeOrm("P0001"), Prisma("P2034"), Prisma(""),
   [Plain("object") EXCEPT !.code = "P2025"],
   [Plain("error") EXCEPT !.name = "QueryFailedError", !.code = "23505"],
   [Plain("error") EXCEPT !.driver = "codeless", !.code = "23505"],
   [Plain("error") EXCEPT !.driver = ""]}

\* No database errors: network errors, plain errors, thrown strings, and an
\* error that carries a number like a SQLSTATE by chance
FromElsewhere ==
  {Plain("error"), Plain("object"), Plain("value"),
   [Plain("error") EXCEPT !.code = "EPIPE"],
   [Plain("error") EXCEPT !.code = "22001"]}

\* Errors of a third party, known only to the user's mappers
Foreign == [Plain("error") EXCEPT !.name = "StripeCardError"]
Alien   == [Plain("value") EXCEPT !.name = "alien"]

MCExceptions ==
  Stated \cup FromNest \cup FromDatabase \cup FromElsewhere \cup {Foreign, Alien}

MCUrls == {"/a", "/b", "/validation", "/other"}

\* Two mappers: one for foreign exceptions, and one that overrides the mapping
\* of a unique violation, and of a foreign exception if it were asked. Each
\* returns one constant problem; only the second one names its instance.
MCHandles == <<{Foreign, Alien}, {Foreign, TypeOrm("23505")}>>
MCTemplate == <<
  Problem(Blank, "PaymentRequired", 402, "none", NoUrl, "none"),
  Problem(Blank, "AlreadyThere", 409, "stated", "/other", "none") >>
MCReuses == {1, 2}

=============================================================================
