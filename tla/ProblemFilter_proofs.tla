------------------------- MODULE ProblemFilter_proofs -------------------------
(***************************************************************************)
(* Proofs about ProblemFilter, for any set of exceptions, any mappers of   *)
(* the user and any options.                                               *)
(***************************************************************************)
EXTENDS ProblemFilter, WellFoundedInduction, TLAPS

\* The mapper asked first exists, and knows the exception.
LEMMA FirstMapperType ==
  ASSUME NEW e, Knowing(e) # {}
  PROVE  FirstMapper(e) \in Knowing(e) /\ FirstMapper(e) \in Mappers
<1> DEFINE less == {ss \in Nat \X Nat : ss[1] < ss[2]}
<1>1. Knowing(e) \subseteq Nat /\ Knowing(e) \subseteq Mappers
  BY OptionsAssumption DEF Knowing, Mappers
<1>2. IsWellFoundedOn(less, Nat)
  BY NatLessThanWellFounded DEF OpToRel
<1>3. PICK i \in Knowing(e) : \A j \in Knowing(e) : ~ (<<j, i>> \in less)
  BY <1>1, <1>2, WFMin
<1>4. \A j \in Knowing(e) : i <= j
  <2> SUFFICES ASSUME NEW j \in Knowing(e) PROVE i <= j
    OBVIOUS
  <2>1. i \in Nat /\ j \in Nat /\ ~ (j < i)
    BY <1>1, <1>3
  <2> QED
    BY <2>1
<1> QED
  BY <1>1, <1>4 DEF FirstMapper

\* The types that the filter makes are types.
LEMMA TypesOfTypes ==
  /\ Blank \in Types
  /\ \A title \in Names : ResolveTypeUri(title) \in Types
<1>1. Blank \in Types
  BY NamesAssumption DEF Blank, Types
<1>2. ASSUME NEW title \in Names PROVE [kind |-> "based", name |-> title] \in Types
  BY DEF Types
<1> QED
  BY <1>1, <1>2 DEF ResolveTypeUri

\* Problem makes a problem of members of their kinds, and shows the detail and
\* the driver's message it is given, and no more.
LEMMA ProblemType ==
  ASSUME NEW type \in Types, NEW title \in Names, NEW status \in Nat,
         NEW detail \in Details, NEW instance \in Urls \cup {NoUrl},
         NEW dbError \in {"none", "raw"}
  PROVE  /\ Problem(type, title, status, detail, instance, dbError) \in Problems
         /\ detail # "raw" /\ dbError = "none" =>
              Masked(Problem(type, title, status, detail, instance, dbError))
<1>1. Problem(type, title, status, detail, instance, dbError) \in Problems
  BY DEF Problem, Problems
<1> QED
  BY <1>1 DEF Problem, Masked

\* The database mapper makes problems, masked ones in production.
LEMMA DatabaseProblemType ==
  ASSUME NEW e \in Exceptions, NEW url \in Urls, NEW p \in MapDatabaseError(e, url)
  PROVE  p \in Problems /\ (Production => Masked(p))
<1>1. PICK code : p \in Build(PG, code, url) \/ p \in Build(PRISMA, code, url)
  BY DEF MapDatabaseError
<1>2. \A row \in PG \cup PRISMA : row.title \in Names /\ row.status \in Nat
  <2>1. \A row \in PG \cup PRISMA : row.title \in Names
    BY NamesAssumption
  <2>2. \A row \in PG : row.status \in {400, 404, 409, 422}
    BY DEF PG
  <2>3. \A row \in PRISMA : row.status \in {400, 404, 409, 422}
    BY DEF PRISMA
  <2>4. {400, 404, 409, 422} \subseteq Nat
    OBVIOUS
  <2> QED
    BY <2>1, <2>2, <2>3, <2>4
<1>3. PICK row \in PG \cup PRISMA :
        p = Problem(Blank, row.title, row.status, "table", url,
                    IF Production THEN "none" ELSE "raw")
  <2>1. CASE p \in Build(PG, code, url)
    BY <2>1 DEF Build
  <2>2. CASE p \in Build(PRISMA, code, url)
    BY <2>2 DEF Build
  <2> QED
    BY <1>1, <2>1, <2>2
<1>4. row.title \in Names /\ row.status \in Nat
  BY <1>2
<1>5. "table" \in Details /\ "table" # "raw"
  BY DEF Details
<1>6. (IF Production THEN "none" ELSE "raw") \in {"none", "raw"}
  OBVIOUS
<1> QED
  BY <1>3, <1>4, <1>5, <1>6, TypesOfTypes, ProblemType

\* Finalisation makes a problem of a problem, and shows nothing new.
LEMMA FinalizeType ==
  ASSUME NEW p \in Problems, NEW url \in Urls
  PROVE  /\ Finalize(p, url) \in Problems
         /\ Masked(p) => Masked(Finalize(p, url))
<1> DEFINE named == [p EXCEPT !.instance = IF @ = NoUrl THEN url ELSE @]
           typed == [named EXCEPT !.type = ResolveTypeUri(named.title)]
<1>1. named \in Problems /\ (Masked(p) => Masked(named))
  BY DEF Problems, Masked
<1>3. Finalize(p, url) = ApplyTypeBaseUri(named)
  BY DEF Finalize
<1>4. ApplyTypeBaseUri(named) \in {named, typed}
  BY DEF ApplyTypeBaseUri
<1> HIDE DEF named
<1>5. ResolveTypeUri(named.title) \in Types
  BY <1>1, TypesOfTypes DEF Problems
<1>6. typed \in Problems /\ (Masked(named) => Masked(typed))
  BY <1>1, <1>5 DEF Problems, Masked
<1> QED
  BY <1>1, <1>3, <1>4, <1>6

\* An extension takes the place of a member by one of its kind.
LEMMA ExtendedType ==
  ASSUME NEW S, NEW extension \in SUBSET S, NEW own \in S
  PROVE  Extended(extension, own) \in S
  BY DEF Extended

\* What toProblemDetail returns is a masked problem, whatever its extensions
\* overwrite.
LEMMA ToProblemDetailType ==
  ASSUME NEW e \in Exceptions
  PROVE  ToProblemDetail(e) \in Problems /\ Masked(ToProblemDetail(e))
<1> DEFINE type     == Extended(e.extensions.type, e.type)
           title    == Extended(e.extensions.title, e.title)
           status   == Extended(e.extensions.status, e.status)
           detail   == IF e.hasDetail THEN "stated" ELSE "none"
           instance == Extended(e.extensions.instance, e.instance)
<1>1. /\ e.type \in StatedTypes /\ e.title \in Names /\ e.status \in Nat
      /\ e.instance \in Urls \cup {NoUrl} /\ e.extensions \in Extensions
  BY OptionsAssumption DEF Shapes
<1>2. /\ e.extensions.type \in SUBSET StatedTypes
      /\ e.extensions.title \in SUBSET Names
      /\ e.extensions.status \in SUBSET Nat
      /\ e.extensions.instance \in SUBSET (Urls \cup {NoUrl})
  BY <1>1 DEF Extensions
<1>3. StatedTypes \subseteq Types
  BY TypesOfTypes DEF StatedTypes, Types
<1>4. /\ type \in Types /\ title \in Names /\ status \in Nat
      /\ instance \in Urls \cup {NoUrl}
  BY <1>1, <1>2, <1>3, ExtendedType
<1>5. detail \in Details /\ detail # "raw"
  BY DEF Details
<1>6. ToProblemDetail(e) = Problem(type, title, status, detail, instance, "none")
  BY DEF ToProblemDetail
<1> HIDE DEF type, title, status, detail, instance
<1> QED
  BY <1>4, <1>5, <1>6, ProblemType

\* What an HTTP exception becomes is a masked problem.
LEMMA FromHttpExceptionType ==
  ASSUME NEW e \in Exceptions, NEW url \in Urls
  PROVE  /\ FromHttpException(e, url) \in Problems
         /\ Masked(FromHttpException(e, url))
<1> DEFINE title  == HttpTitle(e.status)
           detail == IF e.body \in {"string", "message"} THEN "stated"
                     ELSE IF e.body = "list" THEN "validation"
                     ELSE "none"
<1>1. e.status \in Nat
  BY OptionsAssumption DEF Shapes
<1>2. title \in Names
  <2>1. \A row \in HTTP_STATUS_TITLES : row.title \in Names
    BY NamesAssumption
  <2>2. "HTTPError" \in Names
    BY NamesAssumption
  <2> DEFINE found == CHOOSE row \in HTTP_STATUS_TITLES : row.status = e.status
  <2>3. ASSUME \E row \in HTTP_STATUS_TITLES : row.status = e.status
        PROVE  found \in HTTP_STATUS_TITLES
    BY <2>3
  <2> QED
    BY <2>1, <2>2, <2>3 DEF HttpTitle
<1>3. detail \in Details /\ detail # "raw"
  BY DEF Details
<1>4. FromHttpException(e, url) =
        Problem(ResolveTypeUri(title), title, e.status, detail, url, "none")
  BY DEF FromHttpException
<1> HIDE DEF title, detail
<1> QED
  BY <1>1, <1>2, <1>3, <1>4, TypesOfTypes, ProblemType

\* What an unknown error becomes is a problem, masked in production.
LEMMA FromUnknownErrorType ==
  ASSUME NEW e \in Exceptions, NEW url \in Urls
  PROVE  /\ FromUnknownError(e, url) \in Problems
         /\ Production => Masked(FromUnknownError(e, url))
<1> DEFINE title  == "InternalServerError"
           detail == IF Production THEN "masked" ELSE "raw"
<1>1. title \in Names
  BY NamesAssumption
<1>2. detail \in Details /\ (Production => detail # "raw")
  BY DEF Details
<1>3. FromUnknownError(e, url) =
        Problem(ResolveTypeUri(title), title, 500, detail, url, "none")
  BY DEF FromUnknownError
<1> HIDE DEF title, detail
<1> QED
  BY <1>1, <1>2, <1>3, TypesOfTypes, ProblemType

\* Whichever link of the chain answers, it answers with a problem: a masked one
\* in production, if the mappers' objects are.
LEMMA BuildType ==
  ASSUME NEW e \in Exceptions, NEW url \in Urls, object \in [Mappers -> Problems]
  PROVE  /\ BuildProblemDetail(e, url) \in Problems
         /\ Production /\ (\A i \in Mappers : Masked(object[i])) =>
              Masked(BuildProblemDetail(e, url))
<1> DEFINE database == IF DatabaseErrors THEN MapDatabaseError(e, url) ELSE {}
<1>1. CASE Knowing(e) # {}
  <2> DEFINE i == FirstMapper(e)
  <2>1. i \in Mappers /\ object[i] \in Problems
    BY <1>1, FirstMapperType
  <2>2. BuildProblemDetail(e, url) = Finalize(object[i], url)
    BY <1>1 DEF BuildProblemDetail
  <2> HIDE DEF i
  <2> QED
    BY <2>1, <2>2, FinalizeType
<1>2. CASE Knowing(e) = {} /\ e.class = "problem"
  <2>1. BuildProblemDetail(e, url) = Finalize(ToProblemDetail(e), url)
    BY <1>2 DEF BuildProblemDetail
  <2> QED
    BY <2>1, ToProblemDetailType, FinalizeType
<1>3. CASE Knowing(e) = {} /\ e.class = "http"
  <2>1. BuildProblemDetail(e, url) = FromHttpException(e, url)
    BY <1>3 DEF BuildProblemDetail
  <2> QED
    BY <2>1, FromHttpExceptionType
<1>4. CASE Knowing(e) = {} /\ e.class # "problem" /\ e.class # "http" /\ database # {}
  <2> DEFINE p == CHOOSE p \in database : TRUE
  <2>1. p \in MapDatabaseError(e, url)
    BY <1>4
  <2>2. BuildProblemDetail(e, url) = Finalize(p, url)
    BY <1>4 DEF BuildProblemDetail
  <2> HIDE DEF p
  <2>3. p \in Problems /\ (Production => Masked(p))
    BY <2>1, DatabaseProblemType
  <2> QED
    BY <2>2, <2>3, FinalizeType
<1>5. CASE Knowing(e) = {} /\ e.class # "problem" /\ e.class # "http" /\ database = {}
  <2>1. BuildProblemDetail(e, url) = FromUnknownError(e, url)
    BY <1>5 DEF BuildProblemDetail
  <2> QED
    BY <2>1, FromUnknownErrorType
<1> QED
  BY <1>1, <1>2, <1>3, <1>4, <1>5

\* A stack trace is added outside production only, and nothing else changes.
LEMMA WithStackType ==
  ASSUME NEW e, NEW p \in Problems
  PROVE  /\ WithStack(e, p) \in Problems
         /\ Production /\ Masked(p) => Masked(WithStack(e, p))
  BY DEF WithStack, Problems, Masked

\* What either step does: it handles an exception, and remembers the problem in
\* the object of a mapper that reuses it.
LEMMA StepShape ==
  ASSUME NEW e \in Exceptions, NEW url \in Urls,
         Catch(e, url) \/ CallbackThrows(e, url)
  PROVE  LET problem == WithStack(e, BuildProblemDetail(e, url))
         IN  /\ Remember(e, problem)
             /\ \E answered \in BOOLEAN :
                  last' = {[exception |-> e, url |-> url, problem |-> problem,
                            reported |-> Reported(e, problem), answered |-> answered]}
  BY DEF Catch, CallbackThrows

\* Every step keeps the types, and what is masked masked.
LEMMA MaskStep == MaskInv /\ [Next]_vars => MaskInv'
<1> SUFFICES ASSUME MaskInv, [Next]_vars PROVE MaskInv'
  OBVIOUS
<1>1. CASE UNCHANGED vars
  BY <1>1 DEF vars, MaskInv, TypeOK, NothingLeaksInProduction
<1>2. ASSUME NEW e \in Exceptions, NEW url \in Urls,
             Catch(e, url) \/ CallbackThrows(e, url)
      PROVE  MaskInv'
  <2> DEFINE built   == BuildProblemDetail(e, url)
             problem == WithStack(e, built)
  <2>1. built \in Problems /\ (Production => Masked(built))
    BY BuildType DEF MaskInv, TypeOK
  <2>2. problem \in Problems /\ (Production => Masked(problem))
    BY <2>1, WithStackType
  <2>3. /\ Remember(e, problem)
        /\ \E answered \in BOOLEAN :
             last' = {[exception |-> e, url |-> url, problem |-> problem,
                       reported |-> Reported(e, problem), answered |-> answered]}
    BY <1>2, StepShape
  <2> HIDE DEF problem
  <2>4. Reported(e, problem) \in SUBSET Problems
    BY <2>2 DEF Reported
  <2>5. object' \in [Mappers -> Problems]
    BY <2>2, <2>3 DEF Remember, MaskInv, TypeOK
  <2>6. last' \in SUBSET Answers
    BY <2>2, <2>3, <2>4 DEF Answers
  <2>7. \A a \in last' : a.problem = problem
    BY <2>3
  <2>8. NothingLeaksInProduction'
    BY <2>2, <2>7 DEF NothingLeaksInProduction
  <2>9. Production => \A i \in Mappers : Masked(object'[i])
    BY <2>2, <2>3 DEF Remember, MaskInv
  <2> QED
    BY <2>5, <2>6, <2>8, <2>9 DEF MaskInv, TypeOK
<1> QED
  BY <1>1, <1>2 DEF Next

\* The types are right, and in production so are the answers and the objects
\* that mappers reuse.
THEOREM MaskInvariant == Spec => []MaskInv
<1>1. Init => MaskInv
  BY OptionsAssumption, MappersMask
  DEF Init, MaskInv, TypeOK, NothingLeaksInProduction, Masked
<1> QED
  BY <1>1, MaskStep, PTL DEF Spec

\* In production nothing leaks, whatever is thrown and in whatever order, for
\* any mappers that mask and any options.
THEOREM ProductionIsMasked == Spec => []NothingLeaksInProduction
<1>1. MaskInv => NothingLeaksInProduction
  BY DEF MaskInv
<1> QED
  BY <1>1, MaskInvariant, PTL

-----------------------------------------------------------------------------
(* Statuses and titles *)

\* Finalisation fills in an instance and a type, and leaves the rest.
LEMMA FinalizeKeeps ==
  ASSUME NEW p \in Problems, NEW url \in Urls
  PROVE  /\ Finalize(p, url).status = p.status
         /\ Finalize(p, url).title = p.title
         /\ Finalize(p, url).type =
              IF p.type = Blank THEN ResolveTypeUri(p.title) ELSE p.type
<1> DEFINE named == [p EXCEPT !.instance = IF @ = NoUrl THEN url ELSE @]
<1>1. named \in Problems
  BY DEF Problems
<1>2. named.status = p.status /\ named.title = p.title /\ named.type = p.type
  BY DEF Problems
<1>3. Finalize(p, url) = ApplyTypeBaseUri(named)
  BY DEF Finalize
<1> HIDE DEF named
<1>4. CASE p.type = Blank
  <2>1. Finalize(p, url) = [named EXCEPT !.type = ResolveTypeUri(named.title)]
    BY <1>2, <1>3, <1>4 DEF ApplyTypeBaseUri
  <2> QED
    BY <1>1, <1>2, <1>4, <2>1 DEF Problems
<1>5. CASE p.type # Blank
  <2>1. Finalize(p, url) = named
    BY <1>2, <1>3, <1>5 DEF ApplyTypeBaseUri
  <2> QED
    BY <1>2, <1>5, <2>1
<1> QED
  BY <1>4, <1>5

\* A stack trace changes neither status nor title nor type.
LEMMA WithStackKeeps ==
  ASSUME NEW e, NEW p \in Problems
  PROVE  /\ WithStack(e, p).status = p.status
         /\ WithStack(e, p).title = p.title
         /\ WithStack(e, p).type = p.type
  BY DEF WithStack, Problems

LEMMA ProblemMembers ==
  ASSUME NEW type, NEW title, NEW status, NEW detail, NEW instance, NEW dbError
  PROVE  /\ Problem(type, title, status, detail, instance, dbError).status = status
         /\ Problem(type, title, status, detail, instance, dbError).title = title
         /\ Problem(type, title, status, detail, instance, dbError).type = type
  BY DEF Problem

\* A problem of the database mapper is a row of the table it was built from.
LEMMA BuildRow ==
  ASSUME NEW table, NEW code, NEW url, NEW p \in Build(table, code, url)
  PROVE  \E row \in table : /\ row.code = code
                            /\ p.status = row.status /\ p.title = row.title
                            /\ p.type = Blank
<1>1. PICK row \in table :
        /\ row.code = code
        /\ p = Problem(Blank, row.title, row.status, "table", url,
                       IF Production THEN "none" ELSE "raw")
  BY DEF Build
<1> QED
  BY <1>1, ProblemMembers

\* And every row with the code makes one.
LEMMA BuildsRow ==
  ASSUME NEW table, NEW code, NEW url, NEW row \in table, row.code = code
  PROVE  Build(table, code, url) # {}
  BY DEF Build

\* Where the answer to an exception that no mapper of the user knows comes from.
LEMMA UnmappedAnswer ==
  ASSUME NEW e \in Exceptions, NEW url \in Urls, Knowing(e) = {}
  PROVE  \/ /\ e.class = "problem"
            /\ BuildProblemDetail(e, url) = Finalize(ToProblemDetail(e), url)
         \/ /\ e.class = "http"
            /\ BuildProblemDetail(e, url) = FromHttpException(e, url)
         \/ /\ DatabaseErrors
            /\ \E p \in MapDatabaseError(e, url) :
                 BuildProblemDetail(e, url) = Finalize(p, url)
         \/ /\ DatabaseErrors => MapDatabaseError(e, url) = {}
            /\ BuildProblemDetail(e, url) = FromUnknownError(e, url)
<1> DEFINE database == IF DatabaseErrors THEN MapDatabaseError(e, url) ELSE {}
<1>1. CASE e.class = "problem" \/ e.class = "http"
  BY <1>1 DEF BuildProblemDetail
<1>2. CASE e.class # "problem" /\ e.class # "http" /\ database # {}
  <2> DEFINE p == CHOOSE p \in database : TRUE
  <2>1. DatabaseErrors /\ p \in MapDatabaseError(e, url)
    BY <1>2
  <2>2. BuildProblemDetail(e, url) = Finalize(p, url)
    BY <1>2 DEF BuildProblemDetail
  <2> HIDE DEF p
  <2> QED
    BY <2>1, <2>2
<1>3. CASE e.class # "problem" /\ e.class # "http" /\ database = {}
  <2>1. BuildProblemDetail(e, url) = FromUnknownError(e, url)
    BY <1>3 DEF BuildProblemDetail
  <2> QED
    BY <1>3, <2>1
<1> QED
  BY <1>1, <1>2, <1>3

\* What a property of the answers needs to hold of every answer: that it holds
\* of the answer to each exception.
LEMMA AnswerShape ==
  ASSUME MaskInv, NEW e \in Exceptions, NEW url \in Urls,
         Catch(e, url) \/ CallbackThrows(e, url)
  PROVE  LET built == BuildProblemDetail(e, url)
         IN  /\ built \in Problems
             /\ \A a \in last' :
                  /\ a.exception = e
                  /\ a.problem.status = built.status
                  /\ a.problem.title = built.title
                  /\ a.problem.type = built.type
<1> DEFINE built == BuildProblemDetail(e, url)
           problem == WithStack(e, built)
<1>1. built \in Problems
  BY BuildType DEF MaskInv, TypeOK
<1>2. /\ problem.status = built.status /\ problem.title = built.title
      /\ problem.type = built.type
  BY <1>1, WithStackKeeps
<1>3. \E answered \in BOOLEAN :
        last' = {[exception |-> e, url |-> url, problem |-> problem,
                  reported |-> Reported(e, problem), answered |-> answered]}
  BY StepShape
<1> HIDE DEF built, problem
<1>4. \A a \in last' : a.exception = e /\ a.problem = problem
  BY <1>3
<1> QED
  BY <1>1, <1>2, <1>4 DEF built

\* How drivers state their codes: TypeORM copies the code of the driver's error
\* onto its own, and Prisma's known errors carry no SQLSTATE.
DriversStateOneCode ==
  \A e \in Exceptions :
    /\ e.driver \notin {"absent", "codeless"} => e.code = e.driver
    /\ e.name = "PrismaClientKnownRequestError" =>
         \A row \in PG : row.code # e.code

\* No table has a row for an error without a code.
LEMMA CodesAreCodes ==
  \A row \in PG \cup PRISMA : row.code \notin {"absent", "codeless", ""}
<1>1. \A row \in PG : row.code \in
        {"23505", "23503", "23502", "23514", "23P01", "22P02", "22001", "40001", "40P01"}
  BY DEF PG
<1>2. \A row \in PRISMA : row.code \in {"P2002", "P2003", "P2025", "P2000", "P2011"}
  BY DEF PRISMA
<1> QED
  BY <1>1, <1>2

\* The rows that an exception's codes name
CodeRows(e) == {row \in PG \cup PRISMA : row.code \in {e.code, e.driver}}

\* What the mapper returns is the row of a code that the exception carries.
LEMMA MappedStatus ==
  ASSUME NEW e, NEW url, NEW p \in MapDatabaseError(e, url)
  PROVE  p.status \in {row.status : row \in CodeRows(e)}
<1>1. CASE p \in Build(PRISMA, e.code, url)
  <2>1. PICK row \in PRISMA : row.code = e.code /\ p.status = row.status
    BY <1>1, BuildRow
  <2> QED
    BY <2>1 DEF CodeRows
<1>2. CASE p \in Build(PG, PgCode(e), url) /\ PgCode(e) # ""
  <2>1. PICK code : code = PgCode(e)
    OBVIOUS
  <2>2. p \in Build(PG, code, url)
    BY <1>2, <2>1
  <2>3. PICK row \in PG : row.code = code /\ p.status = row.status
    BY <2>2, BuildRow
  <2>4. code = e.code \/ code = e.driver
    BY <1>2, <2>1 DEF PgCode
  <2> QED
    BY <2>3, <2>4 DEF CodeRows
<1> QED
  BY <1>1, <1>2 DEF MapDatabaseError

\* An error of a driver that carries a known code is mapped.
LEMMA KnownIsMapped ==
  ASSUME DriversStateOneCode, NEW e \in Exceptions, NEW url,
         e.class # "value", LooksPrisma(e) \/ LooksPostgres(e),
         NEW row \in CodeRows(e)
  PROVE  MapDatabaseError(e, url) # {}
<1>1. row.code = e.code
  <2>1. row \in PG \cup PRISMA /\ (row.code = e.code \/ row.code = e.driver)
    BY DEF CodeRows
  <2>2. row.code \notin {"absent", "codeless", ""}
    BY <2>1, CodesAreCodes
  <2> QED
    BY <2>1, <2>2 DEF DriversStateOneCode
<1>2. row \in PRISMA => e.code \in PrismaShaped
  BY <1>1, ShapesAssumption
<1>3. row \in PG => e.code \in FiveCharacters /\ e.code \notin PrismaShaped
  BY <1>1, ShapesAssumption
<1>4. row \in PG \/ row \in PRISMA
  BY DEF CodeRows
<1>5. CASE LooksPrisma(e)
  <2>1. row \in PRISMA
    BY <1>1, <1>3, <1>4, <1>5 DEF LooksPrisma, DriversStateOneCode
  <2>2. Build(PRISMA, e.code, url) # {}
    BY <1>1, <2>1, BuildsRow
  <2> QED
    BY <1>5, <2>2 DEF MapDatabaseError
<1>6. CASE ~ LooksPrisma(e)
  <2>1. row \in PG /\ LooksPostgres(e)
    BY <1>2, <1>4, <1>6 DEF LooksPrisma
  <2>2. e.code # ""
    BY <1>1, <2>1, CodesAreCodes
  <2>3. PgCode(e) = e.code
    BY <1>3, <2>1 DEF PgCode, DriversStateOneCode
  <2>4. Build(PG, PgCode(e), url) # {}
    BY <1>1, <2>1, <2>3, BuildsRow
  <2> QED
    BY <1>6, <2>1, <2>2, <2>3, <2>4 DEF MapDatabaseError
<1> QED
  BY <1>5, <1>6

\* An unexpected exception is answered with the status of a code it carries, or
\* with 500 if it carries none that the mapper may trust.
LEMMA UnexpectedStatus ==
  ASSUME DriversStateOneCode, MaskInv, NEW e \in Exceptions, NEW url \in Urls,
         Unexpected(e)
  PROVE  LET status == BuildProblemDetail(e, url).status
         IN  \/ status \in {row.status : row \in CodeRows(e)}
             \/ /\ status = 500
                /\ ~ DatabaseErrors \/ CodeRows(e) = {} \/ e.class = "value"
                     \/ ~ (LooksPrisma(e) \/ LooksPostgres(e))
<1>1. Knowing(e) = {} /\ e.class # "problem" /\ e.class # "http"
  BY DEF Unexpected
<1>2. CASE \E p \in MapDatabaseError(e, url) :
             BuildProblemDetail(e, url) = Finalize(p, url)
  <2>1. PICK p \in MapDatabaseError(e, url) :
          BuildProblemDetail(e, url) = Finalize(p, url)
    BY <1>2
  <2>2. p \in Problems
    BY DatabaseProblemType
  <2>3. BuildProblemDetail(e, url).status = p.status
    BY <2>1, <2>2, FinalizeKeeps
  <2> QED
    BY <2>3, MappedStatus
<1>3. CASE /\ DatabaseErrors => MapDatabaseError(e, url) = {}
           /\ BuildProblemDetail(e, url) = FromUnknownError(e, url)
  <2>1. BuildProblemDetail(e, url).status = 500
    BY <1>3, ProblemMembers DEF FromUnknownError
  <2>2. ~ DatabaseErrors \/ CodeRows(e) = {} \/ e.class = "value"
          \/ ~ (LooksPrisma(e) \/ LooksPostgres(e))
    BY <1>3, KnownIsMapped
  <2> QED
    BY <2>1, <2>2
<1> QED
  BY <1>1, <1>2, <1>3, UnmappedAnswer

\* For any exceptions whose drivers state one code: an unexpected one is never
\* answered with a misleading 4xx, and a database error with a known code gets
\* the status of that code.
THEOREM StatusesAreTrue ==
  ASSUME DriversStateOneCode
  PROVE  Spec => []DatabaseStatusesAreTrue
<1>1. Init => DatabaseStatusesAreTrue
  BY DEF Init, DatabaseStatusesAreTrue
<1>2. MaskInv /\ DatabaseStatusesAreTrue /\ [Next]_vars => DatabaseStatusesAreTrue'
  <2> SUFFICES ASSUME MaskInv, DatabaseStatusesAreTrue, [Next]_vars
               PROVE  DatabaseStatusesAreTrue'
    OBVIOUS
  <2>1. CASE UNCHANGED vars
    BY <2>1 DEF vars, DatabaseStatusesAreTrue
  <2>2. ASSUME NEW e \in Exceptions, NEW url \in Urls,
               Catch(e, url) \/ CallbackThrows(e, url)
        PROVE  DatabaseStatusesAreTrue'
    <3>1. \A a \in last' :
            a.exception = e /\ a.problem.status = BuildProblemDetail(e, url).status
      BY <2>2, AnswerShape
    <3>2. Unexpected(e) =>
            LET status == BuildProblemDetail(e, url).status
            IN  \/ status \in {row.status : row \in CodeRows(e)}
                \/ /\ status = 500
                   /\ ~ DatabaseErrors \/ CodeRows(e) = {} \/ e.class = "value"
                        \/ ~ (LooksPrisma(e) \/ LooksPostgres(e))
      BY UnexpectedStatus
    <3> QED
      BY <3>1, <3>2 DEF DatabaseStatusesAreTrue, CodeRows
  <2> QED
    BY <2>1, <2>2 DEF Next
<1> QED
  BY <1>1, <1>2, MaskInvariant, PTL DEF Spec

-------------------------------------------------------------------------------
(* One title per status *)

\* A status and the title that the table of HTTP statuses gives it
Titled(status, title) == title = HttpTitle(status)

\* The table of HTTP statuses has one row for each of its statuses.
LEMMA OneRowPerStatus ==
  \A row, other \in HTTP_STATUS_TITLES : row.status = other.status => row.title = other.title
  BY DEF HTTP_STATUS_TITLES

LEMMA RowsTitled == \A row \in HTTP_STATUS_TITLES : Titled(row.status, row.title)
<1> SUFFICES ASSUME NEW row \in HTTP_STATUS_TITLES
             PROVE  row.title = HttpTitle(row.status)
  BY DEF Titled
<1> DEFINE found == CHOOSE r \in HTTP_STATUS_TITLES : r.status = row.status
<1>1. found \in HTTP_STATUS_TITLES /\ found.status = row.status
  OBVIOUS
<1>2. HttpTitle(row.status) = found.title
  BY DEF HttpTitle
<1> HIDE DEF found
<1> QED
  BY <1>1, <1>2, OneRowPerStatus

\* The tables of PostgreSQL, of Prisma and of the problem exceptions agree with
\* that of the HTTP statuses.
LEMMA TablesTitled ==
  /\ \A row \in PG \cup PRISMA \cup ProblemExceptions : Titled(row.status, row.title)
  /\ Titled(500, "InternalServerError")
<1>1. /\ Titled(400, "BadRequest") /\ Titled(401, "Unauthorized")
      /\ Titled(403, "Forbidden") /\ Titled(404, "NotFound")
      /\ Titled(409, "Conflict") /\ Titled(422, "UnprocessableEntity")
      /\ Titled(429, "TooManyRequests") /\ Titled(500, "InternalServerError")
  <2> DEFINE R(s, t) == [status |-> s, title |-> t]
  <2>1. /\ R(400, "BadRequest") \in HTTP_STATUS_TITLES
        /\ R(401, "Unauthorized") \in HTTP_STATUS_TITLES
        /\ R(403, "Forbidden") \in HTTP_STATUS_TITLES
        /\ R(404, "NotFound") \in HTTP_STATUS_TITLES
        /\ R(409, "Conflict") \in HTTP_STATUS_TITLES
        /\ R(422, "UnprocessableEntity") \in HTTP_STATUS_TITLES
        /\ R(429, "TooManyRequests") \in HTTP_STATUS_TITLES
        /\ R(500, "InternalServerError") \in HTTP_STATUS_TITLES
    BY DEF HTTP_STATUS_TITLES
  <2>2. \A s, t : R(s, t) \in HTTP_STATUS_TITLES => Titled(s, t)
    BY RowsTitled
  <2> HIDE DEF R
  <2> QED
    BY <2>1, <2>2
<1>2. \A row \in PG : Titled(row.status, row.title)
  BY <1>1 DEF PG
<1>3. \A row \in PRISMA : Titled(row.status, row.title)
  BY <1>1 DEF PRISMA
<1>4. \A row \in ProblemExceptions : Titled(row.status, row.title)
  BY <1>1 DEF ProblemExceptions
<1> QED
  BY <1>1, <1>2, <1>3, <1>4

\* What is right of the title and the type of a problem
WellTitled(status, title, type) ==
  /\ Titled(status, title)
  /\ type.kind # "given" => type = ResolveTypeUri(title)

LEMMA FinalizedTitle ==
  ASSUME NEW p \in Problems, NEW url \in Urls, Titled(p.status, p.title),
         p.type = Blank \/ p.type.kind = "given",
         NEW q, q = Finalize(p, url)
  PROVE  WellTitled(q.status, q.title, q.type)
<1>1. /\ q.status = p.status /\ q.title = p.title
      /\ q.type = IF p.type = Blank THEN ResolveTypeUri(p.title) ELSE p.type
  BY FinalizeKeeps
<1>2. CASE p.type = Blank
  BY <1>1, <1>2 DEF WellTitled
<1>3. CASE p.type # Blank
  BY <1>1, <1>3 DEF WellTitled
<1> QED
  BY <1>2, <1>3

\* Whichever link of the chain answers, status and title belong together.
LEMMA AnswerTitled ==
  ASSUME NEW e \in Exceptions, NEW url \in Urls, Knowing(e) = {},
         e.class = "problem" => Concrete(e),
         NEW q, q = BuildProblemDetail(e, url)
  PROVE  WellTitled(q.status, q.title, q.type)
<1>1. CASE e.class = "problem" /\ q = Finalize(ToProblemDetail(e), url)
  <2>1. PICK p : p = ToProblemDetail(e)
    OBVIOUS
  <2>2. p \in Problems
    BY <2>1, ToProblemDetailType
  <2>3. /\ p.status = Extended(e.extensions.status, e.status)
        /\ p.title = Extended(e.extensions.title, e.title)
        /\ p.type = Extended(e.extensions.type, e.type)
    BY <2>1, ProblemMembers DEF ToProblemDetail
  <2>4. p.status = e.status /\ p.title = e.title /\ Titled(p.status, p.title)
    BY <1>1, <2>3, TablesTitled DEF Concrete, Extended
  <2>5. p.type \in StatedTypes
    <3>1. e.type \in StatedTypes /\ e.extensions.type \in SUBSET StatedTypes
      BY OptionsAssumption DEF Shapes, Extensions
    <3> QED
      BY <2>3, <3>1, ExtendedType
  <2>6. p.type = Blank \/ p.type.kind = "given"
    BY <2>5 DEF StatedTypes
  <2> QED
    BY <1>1, <2>1, <2>2, <2>4, <2>6, FinalizedTitle
<1>2. CASE q = FromHttpException(e, url)
  <2>1. /\ q.status = e.status /\ q.title = HttpTitle(e.status)
        /\ q.type = ResolveTypeUri(HttpTitle(e.status))
    BY <1>2, ProblemMembers DEF FromHttpException
  <2> QED
    BY <2>1 DEF WellTitled, Titled
<1>3. CASE \E p \in MapDatabaseError(e, url) : q = Finalize(p, url)
  <2>1. PICK p \in MapDatabaseError(e, url) : q = Finalize(p, url)
    BY <1>3
  <2>2. p \in Problems
    BY DatabaseProblemType
  <2>3. PICK code : p \in Build(PG, code, url) \/ p \in Build(PRISMA, code, url)
    BY <2>1 DEF MapDatabaseError
  <2>4. \E row \in PG \cup PRISMA :
          p.status = row.status /\ p.title = row.title /\ p.type = Blank
    <3>1. CASE p \in Build(PG, code, url)
      BY <3>1, BuildRow
    <3>2. CASE p \in Build(PRISMA, code, url)
      BY <3>2, BuildRow
    <3> QED
      BY <2>3, <3>1, <3>2
  <2>5. Titled(p.status, p.title) /\ p.type = Blank
    BY <2>4, TablesTitled
  <2> QED
    BY <2>1, <2>2, <2>5, FinalizedTitle
<1>4. CASE q = FromUnknownError(e, url)
  <2>1. /\ q.status = 500 /\ q.title = "InternalServerError"
        /\ q.type = ResolveTypeUri("InternalServerError")
    BY <1>4, ProblemMembers DEF FromUnknownError
  <2> QED
    BY <2>1, TablesTitled DEF WellTitled
<1> QED
  BY <1>1, <1>2, <1>3, <1>4, UnmappedAnswer

\* For any exceptions, mappers and options: one status has one title, whichever
\* table it comes from, and one type.
THEOREM TitlesAreOne == Spec => []OneTitlePerStatus
<1>1. Init => OneTitlePerStatus
  BY DEF Init, OneTitlePerStatus
<1>2. MaskInv /\ OneTitlePerStatus /\ [Next]_vars => OneTitlePerStatus'
  <2> SUFFICES ASSUME MaskInv, OneTitlePerStatus, [Next]_vars
               PROVE  OneTitlePerStatus'
    OBVIOUS
  <2>1. CASE UNCHANGED vars
    BY <2>1 DEF vars, OneTitlePerStatus
  <2>2. ASSUME NEW e \in Exceptions, NEW url \in Urls,
               Catch(e, url) \/ CallbackThrows(e, url)
        PROVE  OneTitlePerStatus'
    <3>1. PICK q : q = BuildProblemDetail(e, url)
      OBVIOUS
    <3>2. \A a \in last' :
            /\ a.exception = e /\ a.problem.status = q.status
            /\ a.problem.title = q.title /\ a.problem.type = q.type
      BY <2>2, <3>1, AnswerShape
    <3>3. Knowing(e) = {} /\ (e.class = "problem" => Concrete(e)) =>
            WellTitled(q.status, q.title, q.type)
      BY <3>1, AnswerTitled
    <3> QED
      BY <3>2, <3>3 DEF OneTitlePerStatus, WellTitled, Titled
  <2> QED
    BY <2>1, <2>2 DEF Next
<1> QED
  BY <1>1, <1>2, MaskInvariant, PTL DEF Spec

===============================================================================
