--------------------------- MODULE WebApplication ---------------------------
(***************************************************************************)
(* The web process around the handlers: startup and /health against a      *)
(* database that comes and goes, and the way of concurrent requests        *)
(* through ServerErrorMiddleware, RequestIdMiddleware, CORSMiddleware,     *)
(* ExceptionMiddleware and the dependencies of the endpoints.              *)
(*                                                                         *)
(* RequestIdMiddleware runs the rest of a request in a task of its own,    *)
(* with a copy of the context variables.  What happens in the endpoint of  *)
(* the job routes is abstracted to its transactions, its log lines and how *)
(* it ends; ResearchSubmission and ResearchStatus have the detail.         *)
(***************************************************************************)
EXTENDS ErrorResponses, FiniteSets

CONSTANTS
  Requests,
  ClientIds,      \* the X-Request-ID headers clients send
  Inputs,         \* the requests clients make
  Environments,   \* the values of ENVIRONMENT
  Exceptions,     \* what an endpoint without an except clause raises
  MaxRetries,     \* DATABASE_MAX_RETRIES
  PoolSize,       \* connections of the engine
  None

\* other: an endpoint that lets the exceptions of errors.py through.
Routes == {"page", "submit", "status", "health", "missing", "other"}

Origins == {"none", "allowed", "foreign"}

\* generate_request_id makes an id that nobody else has.
Generated == {<<"uuid", r>> : r \in Requests}

Ids == ClientIds \cup Generated

ASSUME InputsAssumption ==
  Inputs \subseteq [route : Routes, id : ClientIds \cup {None}, origin : Origins,
                    valid : BOOLEAN]
ASSUME IdsAssumption == NoId \notin Ids /\ None \notin Ids
ASSUME NoneAssumption ==
  None \notin [class : Classes, code : Int] \cup Answers(Ids \cup {NoId})
ASSUME ExceptionsAssumption ==
  Exceptions \subseteq [class : Classes, code : Int]
ASSUME MaxRetriesAssumption == MaxRetries \in Nat \ {0}

VARIABLES
  environment,   \* settings.ENVIRONMENT
  database,      \* up or down: whether it takes connections
  server,        \* the process, and the attempts of its startup
  pc,            \* request -> where it is
  input,         \* request -> what the client sent
  context,       \* request -> the request id in its outer and its inner task
  session,       \* request -> its database session
  raised,        \* request -> the exception on its way out, or None
  response,      \* request -> the answer, as far as it has come
  lines          \* the log lines of requests

vars == <<environment, database, server, pc, input, context, session, raised, response,
          lines>>

Stages == {"idle", "arrived", "routing", "endpoint", "exit", "rollback", "closing", "inner",
           "outside", "answered"}

Init ==
  /\ environment \in Environments
  /\ database \in {"up", "down"}
  /\ server = [phase |-> "connecting", attempt |-> 1]
  /\ pc = [r \in Requests |-> "idle"]
  /\ input \in [Requests -> Inputs]
  /\ context = [r \in Requests |-> [outer |-> NoId, inner |-> NoId]]
  /\ session = [r \in Requests |-> "none"]
  /\ raised = [r \in Requests |-> None]
  /\ response = [r \in Requests |-> None]
  /\ lines = {}

Moves(r, from, to) == pc[r] = from /\ pc' = [pc EXCEPT ![r] = to]

Route(r) == input[r].route

HasSession(r) == Route(r) \in {"submit", "status", "other"}

-----------------------------------------------------------------------------
(* The process.                                                            *)

\* Mutant: whoever asks, the process ends after the last attempt.
CheckExits(connects, attempt, max_retries, for_health_check) ==
  IF connects THEN "connected" ELSE IF attempt < max_retries THEN "retry" ELSE "exit"

\* One attempt of check_database_connection: what its caller gets, another attempt
\* after the sleep, or sys.exit(1).
CheckDatabase(connects, attempt, max_retries, for_health_check) ==
  IF connects THEN "connected"
  ELSE IF attempt < max_retries THEN "retry"
  ELSE IF for_health_check THEN "failed" ELSE "exit"

\* lifespan.  Its engine is new and has no connection that could be stale.
Connect ==
  LET check == CheckDatabase(database = "up", server.attempt, MaxRetries, FALSE) IN
  /\ server.phase = "connecting"
  /\ server' = CASE check = "connected" -> [server EXCEPT !.phase = "serving"]
                 [] check = "retry" -> [server EXCEPT !.attempt = @ + 1]
                 [] check = "exit" -> [server EXCEPT !.phase = "exited"]
  /\ UNCHANGED <<environment, database, pc, input, context, session, raised, response, lines>>

\* Mutant: the container stays down.
NoRestart == FALSE /\ UNCHANGED vars

\* restart: unless-stopped.
Restart ==
  /\ server.phase = "exited"
  /\ server' = [phase |-> "connecting", attempt |-> 1]
  /\ UNCHANGED <<environment, database, pc, input, context, session, raised, response, lines>>

DatabaseChanges ==
  /\ database' = IF database = "up" THEN "down" ELSE "up"
  /\ UNCHANGED <<environment, server, pc, input, context, session, raised, response, lines>>

-----------------------------------------------------------------------------
(* Into the middlewares.                                                   *)

\* The server runs each request in a task with a context of its own.
Arrive(r) ==
  /\ server.phase = "serving"
  /\ Moves(r, "idle", "arrived")
  /\ UNCHANGED <<environment, database, server, input, context, session, raised, response,
                 lines>>

\* set_request_id: the header, or an id of its own.
RequestId(r) == IF input[r].id # None THEN input[r].id ELSE <<"uuid", r>>

\* Mutant: the id is kept where every task reads it.
DispatchShared(r) ==
  /\ Moves(r, "arrived", "routing")
  /\ context' = [s \in Requests |-> [outer |-> RequestId(r), inner |-> RequestId(r)]]
  /\ UNCHANGED <<environment, database, server, input, session, raised, response, lines>>

\* dispatch up to call_next, whose task copies the context.
Dispatch(r) ==
  /\ Moves(r, "arrived", "routing")
  /\ context' = [context EXCEPT ![r] = [outer |-> RequestId(r), inner |-> RequestId(r)]]
  /\ UNCHANGED <<environment, database, server, input, session, raised, response, lines>>

\* The id that _human_format and build_log_context read when r logs a line.
Logs(r) == lines' = lines \cup {[of |-> r, id |-> context[r].inner]}

-----------------------------------------------------------------------------
(* Routes without a session.                                               *)

\* GET /research.
DashboardPage(r) ==
  /\ Route(r) = "page"
  /\ Moves(r, "routing", "inner")
  /\ response' = [response EXCEPT ![r] = Answer(200, "page", 200)]
  /\ UNCHANGED <<environment, database, server, input, context, session, raised, lines>>

\* The router knows no such path or method.
NoRoute(r) ==
  /\ Route(r) = "missing"
  /\ Moves(r, "routing", "inner")
  /\ \E status \in {404, 405} :
       raised' = [raised EXCEPT ![r] = RaisedWith("HTTPException", status)]
  /\ UNCHANGED <<environment, database, server, input, context, session, response, lines>>

\* The connections that transactions hold.
Holding == {r \in Requests : session[r] \in {"active", "failed"}}

ConnectionFree == Cardinality(Holding) < PoolSize

\* One attempt, and status 200 whatever the code of the answer.
Checks(r, connects) ==
  LET check == CheckDatabase(connects, 1, 1, TRUE) IN
  /\ Route(r) = "health"
  /\ Moves(r, "routing", "inner")
  /\ Logs(r)
  /\ response' = [response EXCEPT ![r] = Envelope(200, IF check = "connected" THEN 200 ELSE 503)]
  /\ server' = IF check = "exit" THEN [server EXCEPT !.phase = "exited"] ELSE server
  /\ UNCHANGED <<environment, database, input, context, session, raised>>

\* Mutant: it asks until the database answers.
HealthWaits(r) == ConnectionFree /\ database = "up" /\ Checks(r, TRUE)

\* GET /health.  Its attempt may fail with the database up: the pool times out
\* while others hold all connections, or hands out one that broke.
Health(r) ==
  \/ Checks(r, ConnectionFree /\ database = "up")
  \/ Checks(r, FALSE)

-----------------------------------------------------------------------------
(* Routes with a session.                                                  *)

\* get_db up to its yield.  The body is checked once the dependencies are
\* there: RequestValidationError is raised after they have left.
OpenSession(r) ==
  LET invalid == Route(r) = "submit" /\ ~input[r].valid IN
  /\ HasSession(r)
  /\ Moves(r, "routing", IF invalid THEN "exit" ELSE "endpoint")
  /\ session' = [session EXCEPT ![r] = "open"]
  /\ raised' = [raised EXCEPT ![r] = IF invalid THEN Raised("RequestValidationError") ELSE None]
  /\ UNCHANGED <<environment, database, server, input, context, response, lines>>

\* A statement begins a transaction, with a connection of the pool.
Execute(r) ==
  /\ pc[r] = "endpoint"
  /\ session[r] = "open"
  /\ ConnectionFree
  /\ database = "up"
  /\ session' = [session EXCEPT ![r] = "active"]
  /\ UNCHANGED <<environment, database, server, pc, input, context, raised, response, lines>>

\* The crud functions commit themselves.
CrudCommits(r) ==
  /\ Route(r) = "submit"
  /\ pc[r] = "endpoint"
  /\ session[r] = "active"
  /\ database = "up"
  /\ session' = [session EXCEPT ![r] = "open"]
  /\ UNCHANGED <<environment, database, server, pc, input, context, raised, response, lines>>

\* JobAcceptedResponse, after the log line of submit, or PollingStatusResponse.
Returns(r) ==
  /\ session[r] # "failed"
  /\ Moves(r, "endpoint", "exit")
  /\ \/ /\ Route(r) = "submit"
        /\ Logs(r)
        /\ response' = [response EXCEPT ![r] = Model(202)]
     \/ /\ Route(r) = "status"
        /\ response' = [response EXCEPT ![r] = Model(200)]
        /\ UNCHANGED lines
  /\ UNCHANGED <<environment, database, server, input, context, session, raised>>

\* except ResearchProblem.
ReturnsProblem(r) ==
  /\ Route(r) \in {"submit", "status"}
  /\ session[r] # "failed"
  /\ Moves(r, "endpoint", "exit")
  /\ \E status \in IF Route(r) = "submit" THEN {400, 404, 502, 503} ELSE {404} :
       response' = [response EXCEPT ![r] = Problem(status)]
  /\ UNCHANGED <<environment, database, server, input, context, session, raised, lines>>

\* except Exception.  A flush that fails leaves the transaction of submit to be
\* rolled back; a SELECT that fails may or may not.
ReturnsUnexpected(r) ==
  /\ Route(r) \in {"submit", "status"}
  /\ Moves(r, "endpoint", "exit")
  /\ response' = [response EXCEPT ![r] = UnexpectedProblem(context[r].inner)]
  /\ \/ UNCHANGED session
     \/ session' = [session EXCEPT ![r] = "failed"]
  /\ UNCHANGED <<environment, database, server, input, context, raised, lines>>

\* An endpoint without an except clause: its exception is thrown in at the yield
\* of get_db.
EndpointRaises(r) ==
  /\ Route(r) = "other"
  /\ Moves(r, "endpoint", "rollback")
  /\ \E exc \in Exceptions : raised' = [raised EXCEPT ![r] = exc]
  /\ UNCHANGED <<environment, database, server, input, context, session, response, lines>>

\* get_db after its yield, which runs before the answer is sent: an exception
\* of the commit takes the place of the endpoint's answer.  With nothing to
\* commit it works, with a transaction only while the connection lives.
Commit(r) ==
  /\ session[r] \in {"open", "active"}
  /\ session[r] = "active" => database = "up"
  /\ Moves(r, "exit", "closing")
  /\ session' = [session EXCEPT ![r] = "open"]
  /\ UNCHANGED <<environment, database, server, input, context, raised, response, lines>>

CommitRaises(r) ==
  /\ session[r] # "open"
  /\ Moves(r, "exit", "rollback")
  /\ raised' = [raised EXCEPT ![r] = Raised("DatabaseError")]
  /\ response' = [response EXCEPT ![r] = None]
  /\ UNCHANGED <<environment, database, server, input, context, session, lines>>

\* except Exception: the exception is raised again.
RollBack(r) ==
  /\ Moves(r, "rollback", "closing")
  /\ session' = [session EXCEPT ![r] = "open"]
  /\ UNCHANGED <<environment, database, server, input, context, raised, response, lines>>

\* Mutant: get_db without its finally clause and without async with.
RollBackRaisesBare(r) ==
  /\ session[r] # "open"
  /\ Moves(r, "rollback", "inner")
  /\ raised' = [raised EXCEPT ![r] = Raised("DatabaseError")]
  /\ UNCHANGED <<environment, database, server, input, context, session, response, lines>>

\* The rollback raises on a broken connection, and its exception takes the place
\* of the first.
RollBackRaises(r) ==
  /\ session[r] # "open"
  /\ Moves(r, "rollback", "closing")
  /\ raised' = [raised EXCEPT ![r] = Raised("DatabaseError")]
  /\ UNCHANGED <<environment, database, server, input, context, session, response, lines>>

\* finally: the connection goes back to the pool, whatever its state.
CloseSession(r) ==
  /\ Moves(r, "closing", "inner")
  /\ session' = [session EXCEPT ![r] = "closed"]
  /\ UNCHANGED <<environment, database, server, input, context, raised, response, lines>>

-----------------------------------------------------------------------------
(* Out of the middlewares.                                                 *)

\* CORSMiddleware adds its headers to what passes it.
WithCors(r, answer) == [answer EXCEPT !.cors = input[r].origin = "allowed"]

\* dispatch after call_next: the header, and clear_request_id.
Leaves(r, answer) ==
  /\ Moves(r, "inner", "answered")
  /\ context' = [context EXCEPT ![r].outer = NoId]
  /\ response' = [response EXCEPT ![r] = [WithCors(r, answer) EXCEPT !.id = context[r].outer]]

AnswerLeaves(r) ==
  /\ raised[r] = None
  /\ Leaves(r, response[r])
  /\ UNCHANGED <<environment, database, server, input, session, raised, lines>>

\* ExceptionMiddleware finds a handler.
ExceptionHandled(r) ==
  /\ raised[r] # None
  /\ Handles(environment, raised[r])
  /\ Leaves(r, HandlerAnswer(raised[r]))
  /\ raised' = [raised EXCEPT ![r] = None]
  /\ UNCHANGED <<environment, database, server, input, session, lines>>

\* An exception without a handler, or the one its handler raised, passes the
\* finally clause of dispatch.
ExceptionPasses(r) ==
  /\ raised[r] # None
  /\ ~Handles(environment, raised[r])
  /\ Moves(r, "inner", "outside")
  /\ raised' = [raised EXCEPT ![r] = IF HandlerOf[@.class] \in Registered
                                     THEN Raised("AttributeError") ELSE @]
  /\ context' = [context EXCEPT ![r].outer = NoId]
  /\ UNCHANGED <<environment, database, server, input, session, response, lines>>

\* ServerErrorMiddleware.
ServerErrors(r) ==
  /\ Moves(r, "outside", "answered")
  /\ response' = [response EXCEPT ![r] =
       ServerErrorAnswer(environment, input[r].origin = "allowed")]
  /\ raised' = [raised EXCEPT ![r] = None]
  /\ UNCHANGED <<environment, database, server, input, context, session, lines>>

-----------------------------------------------------------------------------
Handled(r) ==
  \/ Dispatch(r) \/ DashboardPage(r) \/ NoRoute(r) \/ Health(r) \/ OpenSession(r)
  \/ Returns(r) \/ ReturnsProblem(r) \/ ReturnsUnexpected(r) \/ EndpointRaises(r)
  \/ Commit(r) \/ CommitRaises(r) \/ RollBack(r) \/ RollBackRaises(r) \/ CloseSession(r)
  \/ AnswerLeaves(r) \/ ExceptionHandled(r) \/ ExceptionPasses(r) \/ ServerErrors(r)

Endpoint(r) == Execute(r) \/ CrudCommits(r)

Process == Connect \/ Restart

Next ==
  \/ Process \/ DatabaseChanges
  \/ \E r \in Requests : Arrive(r) \/ Handled(r) \/ Endpoint(r)

Spec == Init /\ [][Next]_vars

\* The event loop runs every task that can go on, and an endpoint ends: it has
\* no loop, and a call that waits is answered or fails.  For a free connection
\* the pool sees to that; a statement has no timeout (db.py:17), there it takes
\* a database or a network that answers or breaks the connection.
Fairness ==
  /\ WF_vars(Process)
  /\ \A r \in Requests : WF_vars(Handled(r))

FairSpec == Spec /\ Fairness

-----------------------------------------------------------------------------
(* Properties.                                                             *)

\* Whatever a request logs, answers in its header and names in its problem is
\* one id, the client's if it sent one, however requests interleave
\* (request_id_middleware.py:18).  Only an answer from outside of the middleware
\* has no header.
OneIdPerRequest ==
  /\ \A line \in lines : line.id = RequestId(line.of)
  /\ \A r \in Requests : pc[r] = "answered" =>
       /\ response[r].id \in {RequestId(r), NoId}
       /\ response[r].id = NoId => response[r].status = 500
       /\ response[r].problemId \in {response[r].id, NoId}

\* No answer leaves a transaction or a connection behind, whichever of the
\* endpoint, the commit and the rollback raise, one after the other (db.py:38).
SessionsEnd == \A r \in Requests : pc[r] = "answered" => session[r] \in {"none", "closed"}

\* Every answer has a status that can be sent, also for an exception with a code
\* that is none (exception_handler.py:17).
StatusIsHttp == \A r \in Requests : pc[r] = "answered" => response[r].status \in 200..599

\* A page of an allowed origin can read every answer, also the one that is made
\* outside of CORSMiddleware (exception_handler.py:159), in dev.  Elsewhere that
\* handler raises itself.
AllowedOriginsReadAnswers ==
  \A r \in Requests :
    environment = "dev" /\ pc[r] = "answered" /\ input[r].origin = "allowed"
      => response[r].cors

\* A database that goes away ends the process while it starts up and at no
\* other time, although /health asks with the function that calls sys.exit
\* (db.py:73) and fails also when the pool has no connection to give.
ServingSurvives == [][server.phase = "serving" => server'.phase = "serving"]_vars

\* Startup gives up after MaxRetries; restarted, it serves once the database
\* stays up.
ComesToServe == <>[](database = "up") => <>(server.phase = "serving")

\* Every request is answered, with the database up, down or flapping, and with
\* fewer connections than requests.
EveryRequestAnswered == \A r \in Requests : pc[r] = "arrived" ~> pc[r] = "answered"

\* research_router.py:89 and :110 declare the 500 of the job routes as
\* application/problem+json.
ServerErrorsAreProblems ==
  \A r \in Requests :
    pc[r] = "answered" /\ Route(r) \in {"submit", "status"} /\ response[r].status = 500
      => response[r].form = "problem"

TypeOK ==
  /\ environment \in Environments
  /\ database \in {"up", "down"}
  /\ server \in [phase : {"connecting", "serving", "exited"}, attempt : 1..MaxRetries]
  /\ pc \in [Requests -> Stages]
  /\ input \in [Requests -> Inputs]
  /\ context \in [Requests -> [outer : Ids \cup {NoId}, inner : Ids \cup {NoId}]]
  /\ session \in [Requests -> {"none", "open", "active", "failed", "closed"}]
  /\ raised \in [Requests -> [class : Classes, code : Int] \cup {None}]
  /\ response \in [Requests -> Answers(Ids \cup {NoId}) \cup {None}]
  /\ lines \subseteq [of : Requests, id : Ids \cup {NoId}]
=============================================================================
