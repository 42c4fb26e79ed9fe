------------------------ MODULE WebApplicationProofs ------------------------
(***************************************************************************)
(* For any number of requests, ids and connections: a request is one id in *)
(* its log lines, its header and its problem, and leaves no session open.  *)
(***************************************************************************)
EXTENDS WebApplication, TLAPS

AllIds == Ids \cup {NoId}

InMiddleware == {"routing", "endpoint", "exit", "rollback", "closing", "inner"}

\* Both tasks of a request hold its id from dispatch on until the middleware
\* clears the outer one.
ContextInv ==
  \A r \in Requests : pc[r] \in InMiddleware =>
    context[r] = [outer |-> RequestId(r), inner |-> RequestId(r)]

\* What is on its way out is an exception or an answer.
OutcomeInv ==
  \A r \in Requests :
    /\ pc[r] \in {"exit", "closing", "inner"} /\ raised[r] = None =>
         response[r] \in Answers(AllIds)
    /\ pc[r] = "rollback" => raised[r] # None

\* An answer on its way has no header yet, and no id but that of its request.
HeaderInv ==
  \A r \in Requests : pc[r] # "answered" /\ response[r] # None =>
    response[r].id = NoId /\ response[r].problemId \in {RequestId(r), NoId}

\* A session is there from the dependencies to their exit.
SessionInv ==
  \A r \in Requests : session[r] \notin {"none", "closed"} => pc[r] \in {"endpoint", "exit", "rollback", "closing"}

WebIInv ==
  /\ TypeOK /\ ContextInv /\ OutcomeInv /\ HeaderInv /\ SessionInv
  /\ OneIdPerRequest

USE DEF AllIds, InMiddleware

\* The id of a request is an id (set_request_id).
LEMMA RequestIdType ==
  ASSUME NEW r \in Requests, TypeOK
  PROVE  RequestId(r) \in Ids /\ RequestId(r) # NoId
<1>1. input[r] \in Inputs
  BY DEF TypeOK
<1>2. input[r].id \in ClientIds \cup {None}
  BY <1>1, InputsAssumption
<1>3. <<"uuid", r>> \in Generated
  BY DEF Generated
<1>4. RequestId(r) \in Ids
  BY <1>2, <1>3 DEF RequestId, Ids
<1> QED BY <1>4, IdsAssumption

\* A handler of ExceptionMiddleware makes an answer without ids.
LEMMA HandlerAnswerType ==
  ASSUME NEW exc \in [class : Classes, code : Int], NEW env, Handles(env, exc)
  PROVE  /\ HandlerAnswer(exc) \in Answers(AllIds)
         /\ HandlerAnswer(exc).id = NoId
         /\ HandlerAnswer(exc).problemId = NoId
<1> DEFINE h == HandlerOf[exc.class]
<1>1. h \in Registered
  BY DEF Handles, Registered
<1>2. exc.code \in Int /\ ExceptionCode(exc.code) \in Int
  BY DEF ExceptionCode
<1>3. \A s, c \in Int : /\ Envelope(s, c) \in Answers(AllIds)
                        /\ Envelope(s, c).id = NoId
                        /\ Envelope(s, c).problemId = NoId
  BY DEF Envelope, Answer, Answers, Forms
<1>4. \E s, c \in Int : HandlerAnswer(exc) = Envelope(s, c)
  <2>1. CASE h = "HTTPException"
    BY <2>1, <1>2 DEF HandlerAnswer
  <2>2. CASE h \in {"RequestValidationError", "ValidationError"}
    BY <2>2 DEF HandlerAnswer
  <2>3. CASE h \in {"PydanticUserError", "AssertionError"}
    BY <2>3 DEF HandlerAnswer
  <2>4. CASE h = "BaseExceptionMixin"
    BY <2>4, <1>2 DEF HandlerAnswer
  <2> QED BY <1>1, <2>1, <2>2, <2>3, <2>4 DEF Registered
<1> QED BY <1>3, <1>4

\* The invariant holds at first.
LEMMA WebInit == Init => WebIInv
<1> SUFFICES ASSUME Init PROVE WebIInv
  OBVIOUS
<1>1. TypeOK
  BY MaxRetriesAssumption DEF Init, TypeOK, Stages
<1>2. ContextInv /\ OutcomeInv /\ HeaderInv /\ SessionInv /\ OneIdPerRequest
  BY DEF Init, ContextInv, OutcomeInv, HeaderInv, SessionInv, OneIdPerRequest
<1> QED BY <1>1, <1>2 DEF WebIInv

\* An answer with the id of its request, or a 500 without any, is all that
\* OneIdPerRequest asks for.
LEMMA AnsweredKeepsId ==
  ASSUME NEW r \in Requests, NEW ans, WebIInv,
         pc' = [pc EXCEPT ![r] = "answered"],
         response' = [response EXCEPT ![r] = ans],
         UNCHANGED <<input, lines>>,
         \/ ans.id = RequestId(r) /\ ans.problemId \in {RequestId(r), NoId}
         \/ ans.id = NoId /\ ans.problemId = NoId /\ ans.status = 500
  PROVE  OneIdPerRequest'
<1>1. \A s : RequestId(s)' = RequestId(s)
  BY DEF RequestId
<1>2. \A line \in lines' : line.id = RequestId(line.of)'
  BY <1>1 DEF WebIInv, OneIdPerRequest
<1>3. RequestId(r) # NoId
  BY RequestIdType DEF WebIInv
<1>4. ASSUME NEW s \in Requests, pc'[s] = "answered"
      PROVE  /\ response'[s].id \in {RequestId(s), NoId}
             /\ response'[s].id = NoId => response'[s].status = 500
             /\ response'[s].problemId \in {response'[s].id, NoId}
  <2>1. CASE s = r
    <3>1. response'[s] = ans
      BY <2>1 DEF WebIInv, TypeOK
    <3> QED BY <2>1, <3>1, <1>3
  <2>2. CASE s # r
    BY <1>4, <2>2 DEF WebIInv, TypeOK, OneIdPerRequest
  <2> QED BY <2>1, <2>2
<1> QED BY <1>1, <1>2, <1>4 DEF OneIdPerRequest

-----------------------------------------------------------------------------
(* One lemma per action, or per group of actions that end the same way.    *)

\* Startup, restarts and the database concern no request.
LEMMA ProcessPreserves == WebIInv /\ (Process \/ DatabaseChanges) => WebIInv'
<1> SUFFICES ASSUME WebIInv, Process \/ DatabaseChanges PROVE WebIInv'
  OBVIOUS
<1>1. server' \in [phase : {"connecting", "serving", "exited"}, attempt : 1..MaxRetries]
  <2>1. CASE Connect
    <3>1. server.attempt \in 1..MaxRetries
      BY DEF WebIInv, TypeOK
    <3>2. server.attempt # MaxRetries => server.attempt + 1 \in 1..MaxRetries
      BY <3>1, MaxRetriesAssumption
    <3>3. server \in [phase : {"connecting", "serving", "exited"}, attempt : 1..MaxRetries]
      BY DEF WebIInv, TypeOK
    <3> DEFINE check == CheckDatabase(database = "up", server.attempt, MaxRetries, FALSE)
    <3>4. check \in {"connected", "retry", "exit"}
      BY DEF CheckDatabase
    <3>5. check = "retry" => server.attempt # MaxRetries
      BY <3>1, MaxRetriesAssumption DEF CheckDatabase
    <3>6. /\ check = "connected" => server' = [server EXCEPT !.phase = "serving"]
          /\ check = "retry" => server' = [server EXCEPT !.attempt = @ + 1]
          /\ check = "exit" => server' = [server EXCEPT !.phase = "exited"]
      BY <2>1 DEF Connect
    <3> HIDE DEF check
    <3> QED BY <3>2, <3>3, <3>4, <3>5, <3>6
  <2>2. CASE Restart
    BY <2>2, MaxRetriesAssumption DEF Restart
  <2>3. CASE DatabaseChanges
    BY <2>3 DEF WebIInv, TypeOK, DatabaseChanges
  <2> QED BY <2>1, <2>2, <2>3 DEF Process
<1>2. database' \in {"up", "down"}
  BY DEF WebIInv, TypeOK, Process, Connect, Restart, DatabaseChanges
<1>3. UNCHANGED <<environment, pc, input, context, session, raised, response, lines>>
  BY DEF Process, Connect, Restart, DatabaseChanges
<1>4. TypeOK'
  BY <1>1, <1>2, <1>3 DEF WebIInv, TypeOK
<1>5. ContextInv'
  BY <1>3 DEF WebIInv, ContextInv, RequestId
<1>6. OutcomeInv'
  BY <1>3 DEF WebIInv, OutcomeInv, RequestId
<1>7. HeaderInv' /\ SessionInv'
  BY <1>3 DEF WebIInv, HeaderInv, SessionInv, RequestId
<1>8. OneIdPerRequest'
  BY <1>3 DEF WebIInv, OneIdPerRequest, RequestId
<1> QED BY <1>4, <1>5, <1>6, <1>7, <1>8 DEF WebIInv

\* A request arrives with its context as it was.
LEMMA ArrivePreserves ==
  ASSUME NEW r \in Requests, WebIInv, Arrive(r)
  PROVE  WebIInv'
<1>1. TypeOK'
  BY DEF WebIInv, TypeOK, Arrive, Moves, Stages
<1>2. ContextInv'
  BY DEF WebIInv, TypeOK, Arrive, Moves, ContextInv, RequestId
<1>3. OutcomeInv'
  BY DEF WebIInv, TypeOK, Arrive, Moves, OutcomeInv
<1>4. HeaderInv'
  BY DEF WebIInv, TypeOK, Arrive, Moves, HeaderInv, RequestId
<1>5. SessionInv'
  BY DEF WebIInv, TypeOK, Arrive, Moves, SessionInv
<1>6. OneIdPerRequest'
  BY DEF WebIInv, TypeOK, Arrive, Moves, OneIdPerRequest, RequestId
<1> QED BY <1>1, <1>2, <1>3, <1>4, <1>5, <1>6 DEF WebIInv

\* Both tasks get the id of the request.
LEMMA DispatchPreserves ==
  ASSUME NEW r \in Requests, WebIInv, Dispatch(r)
  PROVE  WebIInv'
<1>1. RequestId(r) \in AllIds
  BY RequestIdType DEF WebIInv
<1>2. TypeOK'
  BY <1>1 DEF WebIInv, TypeOK, Dispatch, Moves, Stages
<1>3. ContextInv'
  BY DEF WebIInv, TypeOK, Dispatch, Moves, ContextInv, RequestId
<1>4. OutcomeInv'
  BY DEF WebIInv, TypeOK, Dispatch, Moves, OutcomeInv
<1>5. HeaderInv'
  BY DEF WebIInv, TypeOK, Dispatch, Moves, HeaderInv, RequestId
<1>6. SessionInv'
  BY DEF WebIInv, TypeOK, Dispatch, Moves, SessionInv
<1>7. OneIdPerRequest'
  BY DEF WebIInv, TypeOK, Dispatch, Moves, OneIdPerRequest, RequestId
<1> QED BY <1>2, <1>3, <1>4, <1>5, <1>6, <1>7 DEF WebIInv

\* The page is an answer without ids.
LEMMA DashboardPagePreserves ==
  ASSUME NEW r \in Requests, WebIInv, DashboardPage(r)
  PROVE  WebIInv'
<1>1. Answer(200, "page", 200) \in Answers(AllIds)
  BY DEF Answer, Answers, Forms
<1>2. TypeOK'
  BY <1>1 DEF WebIInv, TypeOK, DashboardPage, Moves, Answer, Stages
<1>3. ContextInv'
  BY DEF WebIInv, TypeOK, DashboardPage, Moves, Answer, ContextInv, RequestId
<1>4. OutcomeInv'
  BY <1>1 DEF WebIInv, TypeOK, DashboardPage, Moves, Answer, OutcomeInv
<1>5. HeaderInv'
  BY <1>1 DEF WebIInv, TypeOK, DashboardPage, Moves, Answer, HeaderInv, RequestId
<1>6. SessionInv'
  BY DEF WebIInv, TypeOK, DashboardPage, Moves, Answer, SessionInv
<1>7. OneIdPerRequest'
  BY DEF WebIInv, TypeOK, DashboardPage, Moves, Answer, OneIdPerRequest, RequestId
<1> QED BY <1>2, <1>3, <1>4, <1>5, <1>6, <1>7 DEF WebIInv

\* The router raises an HTTPException.
LEMMA NoRoutePreserves ==
  ASSUME NEW r \in Requests, WebIInv, NoRoute(r)
  PROVE  WebIInv'
<1>1. PICK status \in {404, 405} :
        raised' = [raised EXCEPT ![r] = RaisedWith("HTTPException", status)]
  BY DEF NoRoute
<1>2. RaisedWith("HTTPException", status) \in [class : Classes, code : Int]
  BY DEF RaisedWith, Classes, Registered
<1>3. raised'[r] # None
  BY <1>1, <1>2, NoneAssumption DEF WebIInv, TypeOK
<1>4. /\ pc' = [pc EXCEPT ![r] = "inner"]
      /\ UNCHANGED response
      /\ \A s \in Requests \ {r} : raised'[s] = raised[s]
  BY <1>1 DEF WebIInv, TypeOK, NoRoute, Moves
<1>5. pc \in [Requests -> Stages] /\ OutcomeInv
  BY DEF WebIInv, TypeOK
<1>6. TypeOK'
  BY <1>1, <1>2 DEF WebIInv, TypeOK, NoRoute, Moves, Stages
<1>7. ContextInv'
  BY DEF WebIInv, TypeOK, NoRoute, Moves, ContextInv, RequestId
<1>8. OutcomeInv'
  BY <1>3, <1>4, <1>5 DEF OutcomeInv
<1>9. HeaderInv'
  BY DEF WebIInv, TypeOK, NoRoute, Moves, HeaderInv, RequestId
<1>10. SessionInv'
  BY DEF WebIInv, TypeOK, NoRoute, Moves, SessionInv
<1>11. OneIdPerRequest'
  BY DEF WebIInv, TypeOK, NoRoute, Moves, OneIdPerRequest, RequestId
<1> QED BY <1>6, <1>7, <1>8, <1>9, <1>10, <1>11 DEF WebIInv

\* The for_health_check branch of check_database_connection: with it no attempt,
\* the last one included, ends the process.
LEMMA HealthCheckReturns ==
  ASSUME NEW connects \in BOOLEAN, NEW attempt \in Nat, NEW max_retries \in Nat
  PROVE  CheckDatabase(connects, attempt, max_retries, TRUE) # "exit"
BY DEF CheckDatabase

\* /health answers, and ends with the process as it was.
LEMMA HealthStep ==
  ASSUME NEW r \in Requests, Health(r)
  PROVE  /\ Moves(r, "routing", "inner") /\ Logs(r)
         /\ \E code \in {200, 503} : response' = [response EXCEPT ![r] = Envelope(200, code)]
         /\ UNCHANGED <<environment, database, server, input, context, session, raised>>
<1>1. PICK connects : connects \in BOOLEAN /\ Checks(r, connects)
  BY DEF Health
<1> DEFINE check == CheckDatabase(connects, 1, 1, TRUE)
<1>2. check # "exit"
  BY <1>1, HealthCheckReturns
<1>3. /\ Moves(r, "routing", "inner") /\ Logs(r)
      /\ response' = [response EXCEPT ![r] =
                        Envelope(200, IF check = "connected" THEN 200 ELSE 503)]
      /\ server' = IF check = "exit" THEN [server EXCEPT !.phase = "exited"] ELSE server
      /\ UNCHANGED <<environment, database, input, context, session, raised>>
  BY <1>1 DEF Checks
<1> HIDE DEF check
<1> QED BY <1>2, <1>3

\* The line that /health logs has the id of the inner task.
LEMMA HealthPreserves ==
  ASSUME NEW r \in Requests, WebIInv, Health(r)
  PROVE  WebIInv'
<1>0. PICK code \in {200, 503} : response' = [response EXCEPT ![r] = Envelope(200, code)]
  BY HealthStep
<1>13. /\ pc[r] = "routing" /\ pc' = [pc EXCEPT ![r] = "inner"]
       /\ UNCHANGED <<environment, database, server, input, context, session, raised>>
  BY HealthStep DEF Moves
<1> DEFINE ans == Envelope(200, code)
<1>1. ans \in Answers(AllIds) /\ ans.id = NoId /\ ans.problemId = NoId
  BY DEF Envelope, Answer, Answers, Forms
<1>2. response' = [response EXCEPT ![r] = ans]
  BY <1>0
<1>3. context[r].inner \in AllIds /\ context[r].inner = RequestId(r)
  BY HealthStep DEF WebIInv, TypeOK, ContextInv, Moves
<1>4. lines' = lines \cup {[of |-> r, id |-> RequestId(r)]}
  BY <1>3, HealthStep DEF Logs
<1>5. lines' \subseteq [of : Requests, id : AllIds]
  BY <1>3, <1>4 DEF WebIInv, TypeOK
<1>6. response' \in [Requests -> Answers(AllIds) \cup {None}]
  BY <1>1, <1>2 DEF WebIInv, TypeOK
<1> HIDE DEF ans
<1>7. TypeOK'
  BY <1>5, <1>6, <1>13 DEF WebIInv, TypeOK, Stages
<1>8. ContextInv'
  BY <1>13 DEF WebIInv, TypeOK, ContextInv, RequestId
<1>9. OutcomeInv'
  <2>1. pc' = [pc EXCEPT ![r] = "inner"] /\ UNCHANGED raised
    BY HealthStep DEF Moves
  <2>2. pc \in [Requests -> Stages] /\ OutcomeInv
        /\ response \in [Requests -> Answers(AllIds) \cup {None}]
    BY DEF WebIInv, TypeOK
  <2>3. response'[r] \in Answers(AllIds)
        /\ \A s \in Requests \ {r} : response'[s] = response[s]
    BY <1>1, <1>2, <2>2
  <2> QED BY <2>1, <2>2, <2>3 DEF OutcomeInv
<1>10. HeaderInv'
  BY <1>1, <1>2, <1>13 DEF WebIInv, TypeOK, HeaderInv, RequestId
<1>11. SessionInv'
  BY <1>13 DEF WebIInv, TypeOK, SessionInv
<1>12. OneIdPerRequest'
  <2>1. \A s \in Requests : pc'[s] = "answered" =>
          pc[s] = "answered" /\ response'[s] = response[s]
    BY <1>2, <1>13 DEF WebIInv, TypeOK
  <2>2. \A line \in lines' : line.id = RequestId(line.of)
    BY <1>4 DEF WebIInv, OneIdPerRequest
  <2>3. \A s : RequestId(s)' = RequestId(s)
    BY <1>13 DEF RequestId
  <2> QED BY <2>1, <2>2, <2>3 DEF WebIInv, OneIdPerRequest
<1> QED BY <1>7, <1>8, <1>9, <1>10, <1>11, <1>12 DEF WebIInv

\* The session is opened on the way to the endpoint or to the exit.
LEMMA OpenSessionPreserves ==
  ASSUME NEW r \in Requests, WebIInv, OpenSession(r)
  PROVE  WebIInv'
<1>1. Raised("RequestValidationError") \in [class : Classes, code : Int]
  BY DEF Raised, CodeOf, ClassCode, Classes, Registered
<1>2. Raised("RequestValidationError") # None
  BY <1>1, NoneAssumption
<1>3. TypeOK'
  BY <1>1 DEF WebIInv, TypeOK, OpenSession, Moves, Stages
<1>4. ContextInv'
  BY DEF WebIInv, TypeOK, OpenSession, Moves, ContextInv, RequestId
<1>5. OutcomeInv'
  BY <1>2 DEF WebIInv, TypeOK, OpenSession, Moves, OutcomeInv
<1>6. HeaderInv'
  BY DEF WebIInv, TypeOK, OpenSession, Moves, HeaderInv, RequestId
<1>7. SessionInv'
  BY DEF WebIInv, TypeOK, OpenSession, Moves, SessionInv
<1>8. OneIdPerRequest'
  BY DEF WebIInv, TypeOK, OpenSession, Moves, OneIdPerRequest, RequestId
<1> QED BY <1>3, <1>4, <1>5, <1>6, <1>7, <1>8 DEF WebIInv

\* A transaction begins in the endpoint.
LEMMA ExecutePreserves ==
  ASSUME NEW r \in Requests, WebIInv, Execute(r)
  PROVE  WebIInv'
<1>1. TypeOK'
  BY DEF WebIInv, TypeOK, Execute, Moves, Stages
<1>2. ContextInv'
  BY DEF WebIInv, TypeOK, Execute, Moves, ContextInv, RequestId
<1>3. OutcomeInv'
  BY DEF WebIInv, TypeOK, Execute, Moves, OutcomeInv
<1>4. HeaderInv'
  BY DEF WebIInv, TypeOK, Execute, Moves, HeaderInv, RequestId
<1>5. SessionInv'
  BY DEF WebIInv, TypeOK, Execute, Moves, SessionInv
<1>6. OneIdPerRequest'
  BY DEF WebIInv, TypeOK, Execute, Moves, OneIdPerRequest, RequestId
<1> QED BY <1>1, <1>2, <1>3, <1>4, <1>5, <1>6 DEF WebIInv

\* A transaction ends in the endpoint.
LEMMA CrudCommitsPreserves ==
  ASSUME NEW r \in Requests, WebIInv, CrudCommits(r)
  PROVE  WebIInv'
<1>1. TypeOK'
  BY DEF WebIInv, TypeOK, CrudCommits, Moves, Stages
<1>2. ContextInv'
  BY DEF WebIInv, TypeOK, CrudCommits, Moves, ContextInv, RequestId
<1>3. OutcomeInv'
  BY DEF WebIInv, TypeOK, CrudCommits, Moves, OutcomeInv
<1>4. HeaderInv'
  BY DEF WebIInv, TypeOK, CrudCommits, Moves, HeaderInv, RequestId
<1>5. SessionInv'
  BY DEF WebIInv, TypeOK, CrudCommits, Moves, SessionInv
<1>6. OneIdPerRequest'
  BY DEF WebIInv, TypeOK, CrudCommits, Moves, OneIdPerRequest, RequestId
<1> QED BY <1>1, <1>2, <1>3, <1>4, <1>5, <1>6 DEF WebIInv

\* The line that submit logs has the id of the inner task.
LEMMA ReturnsPreserves ==
  ASSUME NEW r \in Requests, WebIInv, Returns(r)
  PROVE  WebIInv'
<1>1. \A status \in {200, 202} : /\ Model(status) \in Answers(AllIds)
                                 /\ Model(status).id = NoId
                                 /\ Model(status).problemId = NoId
  BY DEF Model, Answer, Answers, Forms
<1>2. context[r].inner \in AllIds /\ context[r].inner = RequestId(r)
  BY DEF WebIInv, TypeOK, ContextInv, Returns, Moves
<1>3. lines' = lines \/ lines' = lines \cup {[of |-> r, id |-> RequestId(r)]}
  BY <1>2 DEF Returns, Logs
<1>4. lines' \subseteq [of : Requests, id : AllIds]
  BY <1>2, <1>3 DEF WebIInv, TypeOK
<1>5. PICK status \in {200, 202} : response' = [response EXCEPT ![r] = Model(status)]
  BY DEF Returns
<1>6. response' \in [Requests -> Answers(AllIds) \cup {None}]
  BY <1>1, <1>5 DEF WebIInv, TypeOK
<1>7. \A line \in lines' : line.id = RequestId(line.of)
  BY <1>3 DEF WebIInv, OneIdPerRequest
<1>8. TypeOK'
  BY <1>4, <1>6 DEF WebIInv, TypeOK, Returns, Moves, Stages
<1>9. ContextInv'
  BY DEF WebIInv, TypeOK, Returns, Moves, ContextInv, RequestId
<1>10. OutcomeInv'
  BY <1>1, <1>5 DEF WebIInv, TypeOK, Returns, Moves, OutcomeInv
<1>11. HeaderInv'
  BY <1>1, <1>5 DEF WebIInv, TypeOK, Returns, Moves, HeaderInv, RequestId
<1>12. SessionInv'
  BY DEF WebIInv, TypeOK, Returns, Moves, SessionInv
<1>13. OneIdPerRequest'
  BY <1>3, <1>7 DEF WebIInv, TypeOK, Returns, Moves, OneIdPerRequest, RequestId
<1> QED BY <1>8, <1>9, <1>10, <1>11, <1>12, <1>13 DEF WebIInv

\* A ResearchProblem becomes an answer without ids.
LEMMA ReturnsProblemPreserves ==
  ASSUME NEW r \in Requests, WebIInv, ReturnsProblem(r)
  PROVE  WebIInv'
<1>1. \A status \in {400, 404, 502, 503} :
        /\ Problem(status) \in Answers(AllIds)
        /\ Problem(status).id = NoId
        /\ Problem(status).problemId = NoId
  BY DEF Problem, Answer, Answers, Forms
<1>2. PICK status \in {400, 404, 502, 503} :
        response' = [response EXCEPT ![r] = Problem(status)]
  <2>1. CASE Route(r) = "submit"
    BY <2>1 DEF ReturnsProblem
  <2>2. CASE Route(r) # "submit"
    BY <2>2 DEF ReturnsProblem
  <2> QED BY <2>1, <2>2
<1>3. /\ Problem(status) \in Answers(AllIds)
      /\ Problem(status).id = NoId /\ Problem(status).problemId = NoId
  BY <1>1
<1>4. response' \in [Requests -> Answers(AllIds) \cup {None}]
  BY <1>3, <1>2 DEF WebIInv, TypeOK
<1>5. pc' = [pc EXCEPT ![r] = "exit"] /\ UNCHANGED raised
  BY DEF ReturnsProblem, Moves
<1>6. /\ pc \in [Requests -> Stages] /\ OutcomeInv
      /\ response \in [Requests -> Answers(AllIds) \cup {None}]
  BY DEF WebIInv, TypeOK
<1>7. /\ response'[r] \in Answers(AllIds)
      /\ \A s \in Requests \ {r} : response'[s] = response[s]
  BY <1>2, <1>3, <1>6
<1>8. TypeOK'
  <2>1. UNCHANGED <<environment, database, server, input, context, session, raised, lines>>
    BY DEF ReturnsProblem
  <2>2. pc' \in [Requests -> Stages]
    BY <1>5, <1>6 DEF Stages
  <2> QED BY <1>4, <2>1, <2>2 DEF WebIInv, TypeOK
<1>9. ContextInv'
  BY DEF WebIInv, TypeOK, ReturnsProblem, Moves, ContextInv, RequestId
<1>10. OutcomeInv'
  BY <1>5, <1>6, <1>7 DEF OutcomeInv
<1>11. HeaderInv'
  BY <1>2, <1>3 DEF WebIInv, TypeOK, ReturnsProblem, Moves, HeaderInv, RequestId
<1>12. SessionInv'
  BY DEF WebIInv, TypeOK, ReturnsProblem, Moves, SessionInv
<1>13. OneIdPerRequest'
  BY DEF WebIInv, TypeOK, ReturnsProblem, Moves, OneIdPerRequest, RequestId
<1> QED BY <1>8, <1>9, <1>10, <1>11, <1>12, <1>13 DEF WebIInv

\* The problem of an unexpected exception names the id of the inner task.
LEMMA ReturnsUnexpectedPreserves ==
  ASSUME NEW r \in Requests, WebIInv, ReturnsUnexpected(r)
  PROVE  WebIInv'
<1> DEFINE ans == UnexpectedProblem(context[r].inner)
<1>1. context[r].inner \in AllIds /\ context[r].inner = RequestId(r)
  BY DEF WebIInv, TypeOK, ContextInv, ReturnsUnexpected, Moves
<1>2. ans \in Answers(AllIds) /\ ans.id = NoId /\ ans.problemId = RequestId(r)
  <2>1. Problem(500) \in Answers(AllIds) /\ Problem(500).id = NoId
    BY DEF Problem, Answer, Answers, Forms
  <2> QED BY <1>1, <2>1 DEF UnexpectedProblem, Answers
<1>3. response' = [response EXCEPT ![r] = ans]
  BY DEF ReturnsUnexpected
<1> HIDE DEF ans
<1>4. response' \in [Requests -> Answers(AllIds) \cup {None}]
  BY <1>2, <1>3 DEF WebIInv, TypeOK
<1>5. TypeOK'
  BY <1>4 DEF WebIInv, TypeOK, ReturnsUnexpected, Moves, Stages
<1>6. ContextInv'
  BY DEF WebIInv, TypeOK, ReturnsUnexpected, Moves, ContextInv, RequestId
<1>7. OutcomeInv'
  BY <1>2, <1>3 DEF WebIInv, TypeOK, ReturnsUnexpected, Moves, OutcomeInv
<1>8. HeaderInv'
  BY <1>2, <1>3 DEF WebIInv, TypeOK, ReturnsUnexpected, Moves, HeaderInv, RequestId
<1>9. SessionInv'
  BY DEF WebIInv, TypeOK, ReturnsUnexpected, Moves, SessionInv
<1>10. OneIdPerRequest'
  BY DEF WebIInv, TypeOK, ReturnsUnexpected, Moves, OneIdPerRequest, RequestId
<1> QED BY <1>5, <1>6, <1>7, <1>8, <1>9, <1>10 DEF WebIInv

\* An endpoint raises an exception.
LEMMA EndpointRaisesPreserves ==
  ASSUME NEW r \in Requests, WebIInv, EndpointRaises(r)
  PROVE  WebIInv'
<1>1. PICK exc \in Exceptions : raised' = [raised EXCEPT ![r] = exc]
  BY DEF EndpointRaises
<1>2. exc \in [class : Classes, code : Int] /\ exc # None
  BY ExceptionsAssumption, NoneAssumption
<1>3. raised' \in [Requests -> [class : Classes, code : Int] \cup {None}]
  BY <1>1, <1>2 DEF WebIInv, TypeOK
<1>4. TypeOK'
  BY <1>3 DEF WebIInv, TypeOK, EndpointRaises, Moves, Stages
<1>5. ContextInv'
  BY DEF WebIInv, TypeOK, EndpointRaises, Moves, ContextInv, RequestId
<1>6. OutcomeInv'
  BY <1>1, <1>2 DEF WebIInv, TypeOK, EndpointRaises, Moves, OutcomeInv
<1>7. HeaderInv'
  BY DEF WebIInv, TypeOK, EndpointRaises, Moves, HeaderInv, RequestId
<1>8. SessionInv'
  BY DEF WebIInv, TypeOK, EndpointRaises, Moves, SessionInv
<1>9. OneIdPerRequest'
  BY DEF WebIInv, TypeOK, EndpointRaises, Moves, OneIdPerRequest, RequestId
<1> QED BY <1>4, <1>5, <1>6, <1>7, <1>8, <1>9 DEF WebIInv

\* What a failing statement raises is an exception.
LEMMA DatabaseErrorType ==
  /\ Raised("DatabaseError") \in [class : Classes, code : Int]
  /\ Raised("DatabaseError") # None
BY NoneAssumption DEF Raised, CodeOf, ClassCode, Classes, Base

\* The commit keeps the answer.
LEMMA CommitPreserves ==
  ASSUME NEW r \in Requests, WebIInv, Commit(r)
  PROVE  WebIInv'
<1>2. TypeOK'
  BY DEF WebIInv, TypeOK, Commit, Moves, Stages
<1>3. ContextInv'
  BY DEF WebIInv, TypeOK, Commit, Moves, ContextInv, RequestId
<1>4. OutcomeInv'
  BY DEF WebIInv, TypeOK, Commit, Moves, OutcomeInv
<1>5. HeaderInv'
  BY DEF WebIInv, TypeOK, Commit, Moves, HeaderInv, RequestId
<1>6. SessionInv'
  BY DEF WebIInv, TypeOK, Commit, Moves, SessionInv
<1>7. OneIdPerRequest'
  BY DEF WebIInv, TypeOK, Commit, Moves, OneIdPerRequest, RequestId
<1> QED BY <1>2, <1>3, <1>4, <1>5, <1>6, <1>7 DEF WebIInv

\* The exception of the commit takes the place of the answer.
LEMMA CommitRaisesPreserves ==
  ASSUME NEW r \in Requests, WebIInv, CommitRaises(r)
  PROVE  WebIInv'
<1>1. /\ Raised("DatabaseError") \in [class : Classes, code : Int]
      /\ Raised("DatabaseError") # None
  BY DatabaseErrorType
<1>2. TypeOK'
  BY <1>1 DEF WebIInv, TypeOK, CommitRaises, Moves, Stages
<1>3. ContextInv'
  BY DEF WebIInv, TypeOK, CommitRaises, Moves, ContextInv, RequestId
<1>4. OutcomeInv'
  BY <1>1 DEF WebIInv, TypeOK, CommitRaises, Moves, OutcomeInv
<1>5. HeaderInv'
  BY DEF WebIInv, TypeOK, CommitRaises, Moves, HeaderInv, RequestId
<1>6. SessionInv'
  BY DEF WebIInv, TypeOK, CommitRaises, Moves, SessionInv
<1>7. OneIdPerRequest'
  BY DEF WebIInv, TypeOK, CommitRaises, Moves, OneIdPerRequest, RequestId
<1> QED BY <1>2, <1>3, <1>4, <1>5, <1>6, <1>7 DEF WebIInv

\* The rollback keeps the exception.
LEMMA RollBackPreserves ==
  ASSUME NEW r \in Requests, WebIInv, RollBack(r)
  PROVE  WebIInv'
<1>2. TypeOK'
  BY DEF WebIInv, TypeOK, RollBack, Moves, Stages
<1>3. ContextInv'
  BY DEF WebIInv, TypeOK, RollBack, Moves, ContextInv, RequestId
<1>4. OutcomeInv'
  BY DEF WebIInv, TypeOK, RollBack, Moves, OutcomeInv
<1>5. HeaderInv'
  BY DEF WebIInv, TypeOK, RollBack, Moves, HeaderInv, RequestId
<1>6. SessionInv'
  BY DEF WebIInv, TypeOK, RollBack, Moves, SessionInv
<1>7. OneIdPerRequest'
  BY DEF WebIInv, TypeOK, RollBack, Moves, OneIdPerRequest, RequestId
<1> QED BY <1>2, <1>3, <1>4, <1>5, <1>6, <1>7 DEF WebIInv

\* An exception takes the place of another.
LEMMA RollBackRaisesPreserves ==
  ASSUME NEW r \in Requests, WebIInv, RollBackRaises(r)
  PROVE  WebIInv'
<1>1. /\ Raised("DatabaseError") \in [class : Classes, code : Int]
      /\ Raised("DatabaseError") # None
  BY DatabaseErrorType
<1>2. TypeOK'
  BY <1>1 DEF WebIInv, TypeOK, RollBackRaises, Moves, Stages
<1>3. ContextInv'
  BY DEF WebIInv, TypeOK, RollBackRaises, Moves, ContextInv, RequestId
<1>4. OutcomeInv'
  BY <1>1 DEF WebIInv, TypeOK, RollBackRaises, Moves, OutcomeInv
<1>5. HeaderInv'
  BY DEF WebIInv, TypeOK, RollBackRaises, Moves, HeaderInv, RequestId
<1>6. SessionInv'
  BY DEF WebIInv, TypeOK, RollBackRaises, Moves, SessionInv
<1>7. OneIdPerRequest'
  BY DEF WebIInv, TypeOK, RollBackRaises, Moves, OneIdPerRequest, RequestId
<1> QED BY <1>2, <1>3, <1>4, <1>5, <1>6, <1>7 DEF WebIInv

\* The session is closed before the request is out of its dependencies.
LEMMA CloseSessionPreserves ==
  ASSUME NEW r \in Requests, WebIInv, CloseSession(r)
  PROVE  WebIInv'
<1>2. TypeOK'
  BY DEF WebIInv, TypeOK, CloseSession, Moves, Stages
<1>3. ContextInv'
  BY DEF WebIInv, TypeOK, CloseSession, Moves, ContextInv, RequestId
<1>4. OutcomeInv'
  BY DEF WebIInv, TypeOK, CloseSession, Moves, OutcomeInv
<1>5. HeaderInv'
  BY DEF WebIInv, TypeOK, CloseSession, Moves, HeaderInv, RequestId
<1>6. SessionInv'
  BY DEF WebIInv, TypeOK, CloseSession, Moves, SessionInv
<1>7. OneIdPerRequest'
  BY DEF WebIInv, TypeOK, CloseSession, Moves, OneIdPerRequest, RequestId
<1> QED BY <1>2, <1>3, <1>4, <1>5, <1>6, <1>7 DEF WebIInv

\* The header is the id of the outer task.
LEMMA AnswerLeavesPreserves ==
  ASSUME NEW r \in Requests, WebIInv, AnswerLeaves(r)
  PROVE  WebIInv'
<1>1. response[r] \in Answers(AllIds)
  BY DEF WebIInv, OutcomeInv, AnswerLeaves, Leaves, Moves
<1>2. response[r].problemId \in {RequestId(r), NoId}
  BY <1>1, NoneAssumption DEF WebIInv, HeaderInv, AnswerLeaves, Leaves, Moves
<1>3. pc[r] = "inner"
  BY DEF AnswerLeaves, Leaves, Moves
<1>4. context[r].outer = RequestId(r)
  BY <1>3 DEF WebIInv, TypeOK, ContextInv
<1>5. RequestId(r) \in AllIds /\ RequestId(r) # NoId
  BY RequestIdType DEF WebIInv
<1>6. /\ pc' = [pc EXCEPT ![r] = "answered"]
      /\ UNCHANGED <<input, lines>>
  BY DEF AnswerLeaves, Leaves, Moves
<1> DEFINE ans == [WithCors(r, response[r]) EXCEPT !.id = context[r].outer]
<1>7. ans \in Answers(AllIds) /\ ans.id = RequestId(r) /\ ans.problemId \in {RequestId(r), NoId}
  BY <1>1, <1>2, <1>4, <1>5 DEF WithCors, Answers
<1>8. response' = [response EXCEPT ![r] = ans]
  BY DEF AnswerLeaves, Leaves
<1> HIDE DEF ans
<1>9. response' \in [Requests -> Answers(AllIds) \cup {None}]
  BY <1>7, <1>8 DEF WebIInv, TypeOK
<1>10. TypeOK'
  BY <1>9 DEF WebIInv, TypeOK, AnswerLeaves, Moves, Leaves, Stages
<1>11. ContextInv'
  BY DEF WebIInv, TypeOK, AnswerLeaves, Moves, Leaves, ContextInv, RequestId
<1>12. OutcomeInv'
  BY DEF WebIInv, TypeOK, AnswerLeaves, Moves, Leaves, OutcomeInv
<1>13. HeaderInv'
  BY DEF WebIInv, TypeOK, AnswerLeaves, Moves, Leaves, HeaderInv, RequestId
<1>14. SessionInv'
  BY DEF WebIInv, TypeOK, AnswerLeaves, Moves, Leaves, SessionInv
<1>15. OneIdPerRequest'
  BY <1>7, <1>6, <1>8, AnsweredKeepsId
<1> QED BY <1>10, <1>11, <1>12, <1>13, <1>14, <1>15 DEF WebIInv

\* A handler's answer gets the header like any other.
LEMMA ExceptionHandledPreserves ==
  ASSUME NEW r \in Requests, WebIInv, ExceptionHandled(r)
  PROVE  WebIInv'
<1>1. pc[r] = "inner" /\ Handles(environment, raised[r])
  BY DEF ExceptionHandled, Leaves, Moves
<1>2. raised[r] \in [class : Classes, code : Int]
  BY DEF WebIInv, TypeOK, ExceptionHandled
<1>3. /\ HandlerAnswer(raised[r]) \in Answers(AllIds)
      /\ HandlerAnswer(raised[r]).problemId = NoId
  BY <1>2, <1>1, HandlerAnswerType
<1>4. context[r].outer = RequestId(r)
  BY <1>1 DEF WebIInv, TypeOK, ContextInv
<1>5. RequestId(r) \in AllIds /\ RequestId(r) # NoId
  BY RequestIdType DEF WebIInv
<1>6. /\ pc' = [pc EXCEPT ![r] = "answered"]
      /\ UNCHANGED <<input, lines>>
  BY DEF ExceptionHandled, Leaves, Moves
<1> DEFINE ans == [WithCors(r, HandlerAnswer(raised[r])) EXCEPT !.id = context[r].outer]
<1>7. ans \in Answers(AllIds) /\ ans.id = RequestId(r) /\ ans.problemId \in {RequestId(r), NoId}
  BY <1>3, <1>4, <1>5 DEF WithCors, Answers
<1>8. response' = [response EXCEPT ![r] = ans]
  BY DEF ExceptionHandled, Leaves
<1> HIDE DEF ans
<1>9. response' \in [Requests -> Answers(AllIds) \cup {None}]
  BY <1>7, <1>8 DEF WebIInv, TypeOK
<1>10. TypeOK'
  BY <1>9 DEF WebIInv, TypeOK, ExceptionHandled, Moves, Leaves, Stages
<1>11. ContextInv'
  BY DEF WebIInv, TypeOK, ExceptionHandled, Moves, Leaves, ContextInv, RequestId
<1>12. OutcomeInv'
  BY DEF WebIInv, TypeOK, ExceptionHandled, Moves, Leaves, OutcomeInv
<1>13. HeaderInv'
  BY DEF WebIInv, TypeOK, ExceptionHandled, Moves, Leaves, HeaderInv, RequestId
<1>14. SessionInv'
  BY DEF WebIInv, TypeOK, ExceptionHandled, Moves, Leaves, SessionInv
<1>15. OneIdPerRequest'
  BY <1>7, <1>6, <1>8, AnsweredKeepsId
<1> QED BY <1>10, <1>11, <1>12, <1>13, <1>14, <1>15 DEF WebIInv

\* An exception passes the middleware, which clears the id.
LEMMA ExceptionPassesPreserves ==
  ASSUME NEW r \in Requests, WebIInv, ExceptionPasses(r)
  PROVE  WebIInv'
<1>1. Raised("AttributeError") \in [class : Classes, code : Int]
  BY DEF Raised, CodeOf, ClassCode, Classes, Base
<1>2. raised' \in [Requests -> [class : Classes, code : Int] \cup {None}]
  BY <1>1 DEF WebIInv, TypeOK, ExceptionPasses
<1>3. context' \in [Requests -> [outer : AllIds, inner : AllIds]]
  BY DEF WebIInv, TypeOK, ExceptionPasses
<1>4. pc' \in [Requests -> Stages]
  BY DEF WebIInv, TypeOK, ExceptionPasses, Moves, Stages
<1>5. UNCHANGED <<environment, database, server, input, session, response, lines>>
  BY DEF ExceptionPasses
<1>6. TypeOK'
  BY <1>2, <1>3, <1>4, <1>5 DEF WebIInv, TypeOK
<1>7. ContextInv'
  BY DEF WebIInv, TypeOK, ExceptionPasses, Moves, ContextInv, RequestId
<1>8. OutcomeInv'
  BY DEF WebIInv, TypeOK, ExceptionPasses, Moves, OutcomeInv
<1>9. HeaderInv'
  BY DEF WebIInv, TypeOK, ExceptionPasses, Moves, HeaderInv, RequestId
<1>10. SessionInv'
  BY DEF WebIInv, TypeOK, ExceptionPasses, Moves, SessionInv
<1>11. OneIdPerRequest'
  BY DEF WebIInv, TypeOK, ExceptionPasses, Moves, OneIdPerRequest, RequestId
<1> QED BY <1>6, <1>7, <1>8, <1>9, <1>10, <1>11 DEF WebIInv

\* The last answer has no ids.
LEMMA ServerErrorsPreserves ==
  ASSUME NEW r \in Requests, WebIInv, ServerErrors(r)
  PROVE  WebIInv'
<1> DEFINE allowed == input[r].origin = "allowed"
<1> DEFINE ans == ServerErrorAnswer(environment, allowed)
<1>1. allowed \in BOOLEAN
  OBVIOUS
<1>2. ans \in Answers(AllIds) /\ ans.id = NoId /\ ans.problemId = NoId /\ ans.status = 500
  <2> HIDE DEF allowed
  <2>1. /\ Envelope(500, 500) \in Answers(AllIds)
        /\ Envelope(500, 500).id = NoId /\ Envelope(500, 500).problemId = NoId
        /\ Envelope(500, 500).status = 500
    BY DEF Envelope, Answer, Answers, Forms
  <2>2. CASE environment = "dev"
    BY <1>1, <2>1, <2>2 DEF ServerErrorAnswer, Answers
  <2>3. CASE environment # "dev"
    BY <2>3 DEF ServerErrorAnswer, Answer, Answers, Forms
  <2> QED BY <2>2, <2>3
<1>3. response' = [response EXCEPT ![r] = ans]
  BY DEF ServerErrors
<1> HIDE DEF ans
<1>4. response' \in [Requests -> Answers(AllIds) \cup {None}]
  BY <1>2, <1>3 DEF WebIInv, TypeOK
<1>5. /\ pc' = [pc EXCEPT ![r] = "answered"]
      /\ UNCHANGED <<input, lines>>
  BY DEF ServerErrors, Moves
<1>6. TypeOK'
  BY <1>4 DEF WebIInv, TypeOK, ServerErrors, Moves, Stages
<1>7. ContextInv'
  BY DEF WebIInv, TypeOK, ServerErrors, Moves, ContextInv, RequestId
<1>8. OutcomeInv'
  BY DEF WebIInv, TypeOK, ServerErrors, Moves, OutcomeInv
<1>9. HeaderInv'
  BY DEF WebIInv, TypeOK, ServerErrors, Moves, HeaderInv, RequestId
<1>10. SessionInv'
  BY DEF WebIInv, TypeOK, ServerErrors, Moves, SessionInv
<1>11. OneIdPerRequest'
  BY <1>2, <1>5, <1>3, AnsweredKeepsId
<1> QED BY <1>6, <1>7, <1>8, <1>9, <1>10, <1>11 DEF WebIInv

-----------------------------------------------------------------------------
\* Every step keeps the invariant.
LEMMA WebNext == WebIInv /\ [Next]_vars => WebIInv'
<1> SUFFICES ASSUME WebIInv, [Next]_vars PROVE WebIInv'
  OBVIOUS
<1>1. CASE Process \/ DatabaseChanges
  BY <1>1, ProcessPreserves
<1>2. ASSUME NEW r \in Requests, Arrive(r) \/ Handled(r) \/ Endpoint(r)
      PROVE  WebIInv'
  BY <1>2, ArrivePreserves, DispatchPreserves, DashboardPagePreserves, NoRoutePreserves,
     HealthPreserves, OpenSessionPreserves, ExecutePreserves, CrudCommitsPreserves,
     ReturnsPreserves, ReturnsProblemPreserves, ReturnsUnexpectedPreserves,
     EndpointRaisesPreserves, CommitPreserves, CommitRaisesPreserves, RollBackPreserves,
     RollBackRaisesPreserves, CloseSessionPreserves, AnswerLeavesPreserves,
     ExceptionHandledPreserves, ExceptionPassesPreserves, ServerErrorsPreserves
     DEF Handled, Endpoint
<1>3. CASE UNCHANGED vars
  <2>1. TypeOK'
    BY <1>3 DEF vars, WebIInv, TypeOK
  <2>2. ContextInv' /\ OutcomeInv' /\ SessionInv'
    BY <1>3 DEF vars, WebIInv, ContextInv, OutcomeInv, SessionInv, RequestId
  <2>3. HeaderInv'
    BY <1>3 DEF vars, WebIInv, HeaderInv, RequestId
  <2>4. OneIdPerRequest'
    BY <1>3 DEF vars, WebIInv, OneIdPerRequest, RequestId
  <2> QED BY <2>1, <2>2, <2>3, <2>4 DEF WebIInv
<1> QED BY <1>1, <1>2, <1>3 DEF Next

\* The inductive invariant holds in every reachable state, for any number of
\* requests, ids and connections, and any exception an endpoint may raise.
THEOREM WebInvariance == Spec => []WebIInv
<1>1. Init => WebIInv
  BY WebInit
<1>2. WebIInv /\ [Next]_vars => WebIInv'
  BY WebNext
<1> QED BY <1>1, <1>2, PTL DEF Spec

\* A request is one id in its log lines, its header and its problem, however
\* requests interleave (RequestIdMiddleware.dispatch).
THEOREM OneId == Spec => []OneIdPerRequest
<1>1. WebIInv => OneIdPerRequest
  BY DEF WebIInv
<1> QED BY <1>1, WebInvariance, PTL

\* No answer leaves a session open, whatever fails (get_db).
THEOREM NoSessionLeft == Spec => []SessionsEnd
<1>1. WebIInv => SessionsEnd
  BY DEF WebIInv, TypeOK, SessionInv, SessionsEnd
<1> QED BY <1>1, WebInvariance, PTL

\* A step that answers no request keeps what answered requests may read.
LEMMA ReadableKept ==
  ASSUME AllowedOriginsReadAnswers,
         UNCHANGED <<environment, input>>,
         \A r \in Requests : pc'[r] = "answered" =>
           pc[r] = "answered" /\ response'[r] = response[r]
  PROVE  AllowedOriginsReadAnswers'
BY DEF AllowedOriginsReadAnswers

\* An answer for r that the page may read, or that is not made in dev.
LEMMA ReadableAnswered ==
  ASSUME WebIInv, AllowedOriginsReadAnswers,
         NEW r \in Requests, NEW ans,
         response' = [response EXCEPT ![r] = ans],
         pc' = [pc EXCEPT ![r] = "answered"],
         UNCHANGED <<environment, input>>,
         environment = "dev" /\ input[r].origin = "allowed" => ans.cors
  PROVE  AllowedOriginsReadAnswers'
<1> SUFFICES ASSUME NEW s \in Requests, environment = "dev",
                    pc'[s] = "answered", input[s].origin = "allowed"
             PROVE  response'[s].cors
  BY DEF AllowedOriginsReadAnswers
<1>1. CASE s = r
  <2>1. response'[s] = ans
    BY <1>1 DEF WebIInv, TypeOK
  <2> QED BY <1>1, <2>1
<1>2. CASE s # r
  <2>1. pc[s] = "answered" /\ response'[s] = response[s]
    BY <1>2 DEF WebIInv, TypeOK
  <2> QED BY <2>1 DEF AllowedOriginsReadAnswers
<1> QED BY <1>1, <1>2

\* What leaves by CORSMiddleware has its headers.
LEMMA CorsAdded ==
  ASSUME NEW r \in Requests, NEW answer \in Answers(AllIds), NEW id \in AllIds
  PROVE  [WithCors(r, answer) EXCEPT !.id = id].cors = (input[r].origin = "allowed")
BY DEF WithCors, Answers

\* Every answer of dev has the headers, whoever makes it.
LEMMA ReadableNext ==
  WebIInv /\ AllowedOriginsReadAnswers /\ [Next]_vars => AllowedOriginsReadAnswers'
<1> SUFFICES ASSUME WebIInv, AllowedOriginsReadAnswers, [Next]_vars
             PROVE  AllowedOriginsReadAnswers'
  OBVIOUS
<1>1. CASE Process \/ DatabaseChanges \/ UNCHANGED vars
  <2>1. UNCHANGED <<environment, input, pc, response>>
    BY <1>1 DEF Process, Connect, Restart, DatabaseChanges, vars
  <2> QED BY <2>1, ReadableKept
<1>2. ASSUME NEW r \in Requests, \/ Arrive(r) \/ Endpoint(r) \/ Dispatch(r)
                                 \/ DashboardPage(r) \/ NoRoute(r) \/ Health(r)
                                 \/ OpenSession(r) \/ Returns(r) \/ ReturnsProblem(r)
                                 \/ ReturnsUnexpected(r) \/ EndpointRaises(r)
                                 \/ Commit(r) \/ CommitRaises(r) \/ RollBack(r)
                                 \/ RollBackRaises(r) \/ CloseSession(r)
                                 \/ ExceptionPasses(r)
      PROVE  AllowedOriginsReadAnswers'
  <2>1. UNCHANGED <<environment, input>>
    BY <1>2, HealthStep
       DEF Arrive, Endpoint, Execute, CrudCommits, Dispatch, DashboardPage, NoRoute,
                OpenSession, Returns, ReturnsProblem, ReturnsUnexpected,
                EndpointRaises, Commit, CommitRaises, RollBack, RollBackRaises, CloseSession,
                ExceptionPasses
  <2>2. /\ pc[r] # "answered"
        /\ \E to \in Stages \ {"answered"} : pc' = [pc EXCEPT ![r] = to]
        /\ \A s \in Requests \ {r} : response'[s] = response[s]
    <3>1. CASE Endpoint(r)
      <4>1. pc' = [pc EXCEPT ![r] = "endpoint"] /\ pc[r] = "endpoint" /\ UNCHANGED response
        BY <3>1 DEF Endpoint, Execute, CrudCommits, WebIInv, TypeOK
      <4> QED BY <4>1 DEF Stages
    <3>2. CASE Arrive(r) \/ Dispatch(r) \/ NoRoute(r) \/ EndpointRaises(r) \/ ExceptionPasses(r)
      BY <3>2 DEF Arrive, Dispatch, NoRoute, EndpointRaises, ExceptionPasses, Moves, Stages
    <3>3. CASE OpenSession(r)
      BY <3>3 DEF OpenSession, Moves, Stages
    <3>7. CASE Health(r)
      BY <3>7, HealthStep DEF Moves, Stages, WebIInv, TypeOK
    <3>4. CASE \/ DashboardPage(r) \/ Commit(r) \/ CommitRaises(r)
               \/ RollBack(r) \/ RollBackRaises(r) \/ CloseSession(r)
      BY <3>4 DEF DashboardPage, Commit, CommitRaises, RollBack, RollBackRaises,
                  CloseSession, Moves, Stages, WebIInv, TypeOK
    <3>5. CASE Returns(r)
      BY <3>5 DEF Returns, Moves, Stages, WebIInv, TypeOK
    <3>6. CASE ReturnsProblem(r) \/ ReturnsUnexpected(r)
      BY <3>6 DEF ReturnsProblem, ReturnsUnexpected, Moves, Stages, WebIInv, TypeOK
    <3> QED BY <1>2, <3>1, <3>2, <3>3, <3>4, <3>5, <3>6, <3>7
  <2>3. \A s \in Requests : pc'[s] = "answered" =>
          pc[s] = "answered" /\ response'[s] = response[s]
    BY <2>2 DEF WebIInv, TypeOK
  <2> QED BY <2>1, <2>3, ReadableKept
<1>3. ASSUME NEW r \in Requests, AnswerLeaves(r)
      PROVE  AllowedOriginsReadAnswers'
  <2>1. response[r] \in Answers(AllIds) /\ context[r].outer \in AllIds
    BY <1>3 DEF WebIInv, TypeOK, OutcomeInv, AnswerLeaves, Leaves, Moves
  <2>2. [WithCors(r, response[r]) EXCEPT !.id = context[r].outer].cors
          = (input[r].origin = "allowed")
    BY <2>1, CorsAdded
  <2> QED BY <1>3, <2>2, ReadableAnswered DEF AnswerLeaves, Leaves, Moves
<1>4. ASSUME NEW r \in Requests, ExceptionHandled(r)
      PROVE  AllowedOriginsReadAnswers'
  <2>1. raised[r] \in [class : Classes, code : Int] /\ context[r].outer \in AllIds
    BY <1>4 DEF WebIInv, TypeOK, ExceptionHandled
  <2>2. HandlerAnswer(raised[r]) \in Answers(AllIds)
    BY <1>4, <2>1, HandlerAnswerType DEF ExceptionHandled
  <2>3. [WithCors(r, HandlerAnswer(raised[r])) EXCEPT !.id = context[r].outer].cors
          = (input[r].origin = "allowed")
    BY <2>1, <2>2, CorsAdded
  <2> QED BY <1>4, <2>3, ReadableAnswered DEF ExceptionHandled, Leaves, Moves
<1>5. ASSUME NEW r \in Requests, ServerErrors(r)
      PROVE  AllowedOriginsReadAnswers'
  <2>1. environment = "dev" /\ input[r].origin = "allowed"
          => ServerErrorAnswer(environment, input[r].origin = "allowed").cors
    BY DEF ServerErrorAnswer, Envelope, Answer
  <2> QED BY <1>5, <2>1, ReadableAnswered DEF ServerErrors, Moves
<1> QED BY <1>1, <1>2, <1>3, <1>4, <1>5 DEF Next, Handled

\* In dev a page of an allowed origin can read every answer, also the one made
\* outside of CORSMiddleware (cors_custom_code_500_exception_handler).
THEOREM AnswersReadable == Spec => []AllowedOriginsReadAnswers
<1>1. Init => AllowedOriginsReadAnswers
  BY DEF Init, AllowedOriginsReadAnswers
<1> QED BY <1>1, ReadableNext, WebInvariance, PTL DEF Spec

\* Nothing that happens to the database or in a request ends a serving process
\* (check_database_connection, called by lifespan and by /health).
THEOREM ServingProcessSurvives == Spec => ServingSurvives
<1>1. ASSUME [Next]_vars, server.phase = "serving"
      PROVE  server'.phase = "serving"
  <2>1. CASE Process
    BY <1>1, <2>1 DEF Process, Connect, Restart
  <2>2. ASSUME NEW r \in Requests, Health(r)
        PROVE  UNCHANGED server
    BY <2>2, HealthStep
  <2>3. ASSUME ~Process, \A r \in Requests : ~Health(r)
        PROVE  UNCHANGED server
    BY <1>1, <2>3
       DEF Next, vars, DatabaseChanges, Arrive, Handled, Endpoint,
           Dispatch, DashboardPage, NoRoute, OpenSession, Execute, CrudCommits,
           Returns, ReturnsProblem, ReturnsUnexpected, EndpointRaises, Commit, CommitRaises,
           RollBack, RollBackRaises, CloseSession, AnswerLeaves, ExceptionHandled,
           ExceptionPasses, ServerErrors
  <2> QED BY <1>1, <2>1, <2>2, <2>3
<1>2. [Next]_vars => [server.phase = "serving" => server'.phase = "serving"]_vars
  BY <1>1
<1> QED BY <1>2, PTL DEF Spec, ServingSurvives

-----------------------------------------------------------------------------
(* The status of an answer.                                                *)

\* The handlers take the code of an HTTPException for a status as it is, and any
\* code of another exception that uvicorn knows as a status.
Sendable(exc) ==
  /\ HandlerOf[exc.class] = "HTTPException" => exc.code \in 200..599
  /\ HandlerOf[exc.class] = "BaseExceptionMixin" => exc.code \notin 100..199

IsHttp(answer) == answer.status \in 200..599

\* Every exception on its way out can be answered, and every answer sent.
StatusInv ==
  \A r \in Requests :
    /\ raised[r] # None => Sendable(raised[r])
    /\ response[r] # None \/ pc[r] = "answered" => IsHttp(response[r])

\* A step of one request, which keeps its exception and its answer or sets them.
LEMMA StatusKept ==
  ASSUME WebIInv, StatusInv, NEW r \in Requests,
         \A s \in Requests \ {r} : /\ raised'[s] = raised[s] /\ response'[s] = response[s]
                                   /\ pc'[s] = pc[s],
         raised'[r] \in {None, raised[r]} \/ Sendable(raised'[r]),
         response'[r] \in {None, response[r]} \/ IsHttp(response'[r]),
         pc'[r] = "answered" => IsHttp(response'[r])
  PROVE  StatusInv'
BY DEF StatusInv, IsHttp, Sendable

\* The exceptions that the application raises itself have a code of HTTP.
LEMMA RaisedSendable ==
  /\ \A class \in {"RequestValidationError", "DatabaseError", "AttributeError"} :
       Sendable(Raised(class))
  /\ \A status \in {404, 405} : Sendable(RaisedWith("HTTPException", status))
<1>1. \A class \in {"RequestValidationError", "DatabaseError", "AttributeError"} :
        Raised(class).code = 500
  BY DEF Raised, CodeOf, ClassCode
<1>2. \A status \in {404, 405} : RaisedWith("HTTPException", status).code = status
  BY DEF RaisedWith
<1> QED BY <1>1, <1>2 DEF Sendable

\* The answers made by the routes are those of HTTP.
LEMMA AnswersHttp ==
  /\ IsHttp(Answer(200, "page", 200)) /\ \A code : IsHttp(Envelope(200, code))
  /\ \A status \in {200, 202} : IsHttp(Model(status))
  /\ \A status \in {400, 404, 502, 503} : IsHttp(Problem(status))
  /\ \A id : IsHttp(UnexpectedProblem(id))
  /\ \A env, allowed : IsHttp(ServerErrorAnswer(env, allowed))
BY DEF IsHttp, Answer, Envelope, Model, Problem, UnexpectedProblem, ServerErrorAnswer

\* What the middlewares add leaves the status alone.
LEMMA StatusAdded ==
  ASSUME NEW r \in Requests, NEW answer \in Answers(AllIds), NEW id \in AllIds, IsHttp(answer)
  PROVE  IsHttp([WithCors(r, answer) EXCEPT !.id = id])
BY DEF WithCors, Answers, IsHttp

\* _get_exception_code, and the codes that are taken as they are.
LEMMA HandlerStatus ==
  ASSUME NEW exc \in [class : Classes, code : Int], NEW env, Handles(env, exc), Sendable(exc)
  PROVE  IsHttp(HandlerAnswer(exc))
<1> DEFINE h == HandlerOf[exc.class]
<1>1. h \in Registered
  BY DEF Handles, Registered
<1>2. \A s \in 200..599, c \in Int : IsHttp(Envelope(s, c))
  BY DEF Envelope, Answer, IsHttp
<1>3. CASE h = "HTTPException"
  BY <1>2, <1>3 DEF HandlerAnswer, Sendable
<1>4. CASE h \in {"RequestValidationError", "ValidationError"}
  BY <1>2, <1>4 DEF HandlerAnswer
<1>5. CASE h \in {"PydanticUserError", "AssertionError"}
  BY <1>2, <1>5 DEF HandlerAnswer
<1>6. CASE h = "BaseExceptionMixin"
  <2>1. HandlerAnswer(exc) = Envelope(ExceptionCode(exc.code), exc.code)
    BY <1>6 DEF HandlerAnswer
  <2>2. ExceptionCode(exc.code) \in 200..599
    BY <1>6 DEF ExceptionCode, KnownStatus, Sendable
  <2> QED BY <1>2, <2>1, <2>2
<1> QED BY <1>1, <1>3, <1>4, <1>5, <1>6 DEF Registered

LEMMA StatusNext ==
  ASSUME \A exc \in Exceptions : Sendable(exc), WebIInv, StatusInv, [Next]_vars
  PROVE  StatusInv'
<1>0. /\ pc \in [Requests -> Stages] /\ raised \in [Requests -> [class : Classes, code : Int] \cup {None}]
      /\ response \in [Requests -> Answers(AllIds) \cup {None}]
      /\ context \in [Requests -> [outer : AllIds, inner : AllIds]]
  BY DEF WebIInv, TypeOK
<1>1. CASE Process \/ DatabaseChanges \/ UNCHANGED vars
  <2>1. UNCHANGED <<pc, raised, response>>
    BY <1>1 DEF Process, Connect, Restart, DatabaseChanges, vars
  <2> QED BY <2>1 DEF StatusInv, Sendable, IsHttp
<1>2. ASSUME NEW r \in Requests, Arrive(r) \/ Endpoint(r) \/ Dispatch(r)
      PROVE  StatusInv'
  <2>1. /\ UNCHANGED <<raised, response>>
        /\ pc' = pc \/ \E to \in {"arrived", "routing"} : pc' = [pc EXCEPT ![r] = to]
    BY <1>2 DEF Arrive, Endpoint, Execute, CrudCommits, Dispatch, Moves
  <2>2. \A s \in Requests : pc'[s] = "answered" => pc[s] = "answered"
    BY <1>0, <2>1
  <2> QED BY <2>1, <2>2 DEF StatusInv, Sendable, IsHttp
<1>3. ASSUME NEW r \in Requests, NoRoute(r) \/ OpenSession(r) \/ EndpointRaises(r)
      PROVE  StatusInv'
  <2>1. /\ UNCHANGED response
        /\ \E to \in {"inner", "exit", "endpoint", "rollback"} : pc' = [pc EXCEPT ![r] = to]
        /\ \E exc : raised' = [raised EXCEPT ![r] = exc] /\ (exc = None \/ Sendable(exc))
    <3>1. CASE NoRoute(r)
      <4>1. PICK status \in {404, 405} :
              raised' = [raised EXCEPT ![r] = RaisedWith("HTTPException", status)]
        BY <3>1 DEF NoRoute
      <4>2. UNCHANGED response /\ pc' = [pc EXCEPT ![r] = "inner"]
        BY <3>1 DEF NoRoute, Moves
      <4>3. Sendable(RaisedWith("HTTPException", status))
        BY RaisedSendable
      <4> QED BY <4>1, <4>2, <4>3
    <3>2. CASE OpenSession(r)
      <4>1. \/ raised' = [raised EXCEPT ![r] = Raised("RequestValidationError")]
            \/ raised' = [raised EXCEPT ![r] = None]
        BY <3>2 DEF OpenSession
      <4>2. UNCHANGED response /\ \E to \in {"exit", "endpoint"} : pc' = [pc EXCEPT ![r] = to]
        BY <3>2 DEF OpenSession, Moves
      <4> QED BY <4>1, <4>2, RaisedSendable
    <3>3. CASE EndpointRaises(r)
      <4>1. PICK exc \in Exceptions : raised' = [raised EXCEPT ![r] = exc]
        BY <3>3 DEF EndpointRaises
      <4>2. UNCHANGED response /\ pc' = [pc EXCEPT ![r] = "rollback"]
        BY <3>3 DEF EndpointRaises, Moves
      <4>3. Sendable(exc)
        OBVIOUS
      <4> QED BY <4>1, <4>2, <4>3
    <3> QED BY <1>3, <3>1, <3>2, <3>3
  <2>2. PICK to \in {"inner", "exit", "endpoint", "rollback"} : pc' = [pc EXCEPT ![r] = to]
    BY <2>1
  <2>3. PICK exc : raised' = [raised EXCEPT ![r] = exc] /\ (exc = None \/ Sendable(exc))
    BY <2>1
  <2> QED BY <1>0, <2>1, <2>2, <2>3, StatusKept
<1>4. ASSUME NEW r \in Requests, \/ DashboardPage(r) \/ Health(r) \/ Returns(r)
                                 \/ ReturnsProblem(r) \/ ReturnsUnexpected(r)
      PROVE  StatusInv'
  <2>1. /\ UNCHANGED raised
        /\ \E to \in {"inner", "exit"} : pc' = [pc EXCEPT ![r] = to]
        /\ \E answer : response' = [response EXCEPT ![r] = answer] /\ IsHttp(answer)
    <3>1. CASE DashboardPage(r)
      BY <3>1, AnswersHttp DEF DashboardPage, Moves
    <3>5. CASE Health(r)
      BY <3>5, AnswersHttp, HealthStep DEF Moves
    <3>2. CASE Returns(r)
      BY <3>2, AnswersHttp DEF Returns, Moves
    <3>3. CASE ReturnsUnexpected(r)
      BY <3>3, AnswersHttp DEF ReturnsUnexpected, Moves
    <3>4. CASE ReturnsProblem(r)
      <4>1. \E status \in {400, 404, 502, 503} :
              response' = [response EXCEPT ![r] = Problem(status)]
        <5>1. CASE Route(r) = "submit"
          BY <3>4, <5>1 DEF ReturnsProblem
        <5>2. CASE Route(r) # "submit"
          BY <3>4, <5>2 DEF ReturnsProblem
        <5> QED BY <5>1, <5>2
      <4>2. UNCHANGED raised /\ pc' = [pc EXCEPT ![r] = "exit"]
        BY <3>4 DEF ReturnsProblem, Moves
      <4>3. PICK status \in {400, 404, 502, 503} :
              response' = [response EXCEPT ![r] = Problem(status)]
        BY <4>1
      <4>4. IsHttp(Problem(status))
        BY AnswersHttp
      <4> QED BY <4>2, <4>3, <4>4
    <3> QED BY <1>4, <3>1, <3>2, <3>3, <3>4, <3>5
  <2>2. PICK to \in {"inner", "exit"} : pc' = [pc EXCEPT ![r] = to]
    BY <2>1
  <2>3. PICK answer : response' = [response EXCEPT ![r] = answer] /\ IsHttp(answer)
    BY <2>1
  <2> QED BY <1>0, <2>1, <2>2, <2>3, StatusKept
<1>5. ASSUME NEW r \in Requests, \/ Commit(r) \/ CommitRaises(r) \/ RollBack(r)
                                 \/ RollBackRaises(r) \/ CloseSession(r)
      PROVE  StatusInv'
  <2>1. /\ \E to \in {"rollback", "closing", "inner"} : pc' = [pc EXCEPT ![r] = to]
        /\ \/ raised' = [raised EXCEPT ![r] = Raised("DatabaseError")]
           \/ UNCHANGED raised
        /\ \/ response' = [response EXCEPT ![r] = None]
           \/ UNCHANGED response
    BY <1>5 DEF Commit, CommitRaises, RollBack, RollBackRaises, CloseSession, Moves
  <2> QED BY <1>0, <2>1, RaisedSendable, StatusKept
<1>6. ASSUME NEW r \in Requests, ExceptionPasses(r)
      PROVE  StatusInv'
  <2>1. /\ pc' = [pc EXCEPT ![r] = "outside"] /\ UNCHANGED response
        /\ \/ raised' = [raised EXCEPT ![r] = Raised("AttributeError")]
           \/ raised' = [raised EXCEPT ![r] = @]
    BY <1>6 DEF ExceptionPasses, Moves
  <2> QED BY <1>0, <2>1, RaisedSendable, StatusKept
<1>7. ASSUME NEW r \in Requests, AnswerLeaves(r)
      PROVE  StatusInv'
  <2>1. response[r] \in Answers(AllIds) /\ context[r].outer \in AllIds
    BY <1>0, <1>7 DEF WebIInv, OutcomeInv, AnswerLeaves, Leaves, Moves
  <2>2. IsHttp(response[r])
    BY <2>1, NoneAssumption DEF StatusInv
  <2> DEFINE answer == [WithCors(r, response[r]) EXCEPT !.id = context[r].outer]
  <2>3. IsHttp(answer)
    BY <2>1, <2>2, StatusAdded
  <2>4. /\ pc' = [pc EXCEPT ![r] = "answered"] /\ UNCHANGED raised
        /\ response' = [response EXCEPT ![r] = answer]
    BY <1>7 DEF AnswerLeaves, Leaves, Moves
  <2> HIDE DEF answer
  <2> QED BY <1>0, <2>3, <2>4, StatusKept
<1>8. ASSUME NEW r \in Requests, ExceptionHandled(r)
      PROVE  StatusInv'
  <2>1. raised[r] \in [class : Classes, code : Int] /\ context[r].outer \in AllIds
    BY <1>0, <1>8 DEF ExceptionHandled
  <2>2. HandlerAnswer(raised[r]) \in Answers(AllIds)
    BY <1>8, <2>1, HandlerAnswerType DEF ExceptionHandled
  <2>3. Sendable(raised[r]) /\ Handles(environment, raised[r])
    BY <1>8 DEF StatusInv, ExceptionHandled
  <2>4. IsHttp(HandlerAnswer(raised[r]))
    BY <2>1, <2>3, HandlerStatus
  <2> DEFINE answer == [WithCors(r, HandlerAnswer(raised[r])) EXCEPT !.id = context[r].outer]
  <2>5. IsHttp(answer)
    BY <2>1, <2>2, <2>4, StatusAdded
  <2>6. /\ pc' = [pc EXCEPT ![r] = "answered"] /\ raised' = [raised EXCEPT ![r] = None]
        /\ response' = [response EXCEPT ![r] = answer]
    BY <1>8 DEF ExceptionHandled, Leaves, Moves
  <2> HIDE DEF answer
  <2> QED BY <1>0, <2>5, <2>6, StatusKept
<1>9. ASSUME NEW r \in Requests, ServerErrors(r)
      PROVE  StatusInv'
  <2> DEFINE answer == ServerErrorAnswer(environment, input[r].origin = "allowed")
  <2>1. /\ pc' = [pc EXCEPT ![r] = "answered"] /\ raised' = [raised EXCEPT ![r] = None]
        /\ response' = [response EXCEPT ![r] = answer]
    BY <1>9 DEF ServerErrors, Moves
  <2>2. IsHttp(answer)
    BY AnswersHttp
  <2> HIDE DEF answer
  <2> QED BY <1>0, <2>1, <2>2, StatusKept
<1> QED BY <1>1, <1>2, <1>3, <1>4, <1>5, <1>6, <1>7, <1>8, <1>9 DEF Next, Handled

\* Every answer has a status that can be sent, for any exceptions whose codes
\* are those of final answers: an HTTPError is raised with a status, and the
\* classes of errors.py have one of 400 to 502 or a code beyond those of HTTP.
THEOREM AnswersHaveStatus ==
  ASSUME \A exc \in Exceptions : Sendable(exc)
  PROVE  Spec => []StatusIsHttp
<1>1. Init => StatusInv
  BY DEF Init, StatusInv
<1>2. WebIInv /\ StatusInv /\ [Next]_vars => StatusInv'
  BY StatusNext
<1>3. StatusInv => StatusIsHttp
  BY DEF StatusInv, StatusIsHttp, IsHttp
<1> QED BY <1>1, <1>2, <1>3, WebInvariance, PTL DEF Spec
=============================================================================
