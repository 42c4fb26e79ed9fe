--------------------------- MODULE ErrorResponses ---------------------------
(***************************************************************************)
(* The exception classes of common/exception and what the handlers         *)
(* installed by register_exception answer to them.  A body is abstracted   *)
(* to its form and its code; messages and data are left out.               *)
(***************************************************************************)
EXTENDS Integers

CONSTANTS NoId        \* what stands for the request id outside of a request

\* The base class, for the classes the handlers tell apart.  ResearchProblem is
\* caught by the job routes and has no handler of its own.
Base ==
  [HTTPError          |-> "HTTPException",
   TokenError         |-> "HTTPError",
   CustomError        |-> "BaseExceptionMixin",
   RequestError       |-> "BaseExceptionMixin",
   ForbiddenError     |-> "BaseExceptionMixin",
   NotFoundError      |-> "BaseExceptionMixin",
   ServerError        |-> "BaseExceptionMixin",
   GatewayError       |-> "BaseExceptionMixin",
   AuthorizationError |-> "BaseExceptionMixin",
   DebugError         |-> "BaseExceptionMixin",
   ProcessingError    |-> "DebugError",
   StorageError       |-> "ServerError",
   EntityCreationError |-> "StorageError",
   ResearchProblem    |-> "Exception",
   DatabaseError      |-> "Exception",
   AttributeError     |-> "Exception"]

\* The classes with a handler in ExceptionMiddleware.  The handlers of Exception
\* and 500 belong to ServerErrorMiddleware.
Registered == {"HTTPException", "RequestValidationError", "ValidationError",
               "PydanticUserError", "AssertionError", "BaseExceptionMixin"}

Classes == DOMAIN Base \cup Registered \cup {"Exception"}

\* The first class with a handler on the way to the root.
HandlerOf[class \in Classes] ==
  IF class \in DOMAIN Base THEN HandlerOf[Base[class]] ELSE class

\* The class attribute code, inherited ones included.
ClassCode ==
  [RequestError        |-> 400,
   ForbiddenError      |-> 403,
   NotFoundError       |-> 404,
   ServerError         |-> 500,
   StorageError        |-> 500,
   EntityCreationError |-> 500,
   DebugError          |-> 500,
   ProcessingError     |-> 500,
   GatewayError        |-> 502,
   AuthorizationError  |-> 401,
   TokenError          |-> 401]

\* A class without one is answered by a status of its handler.
CodeOf(class) == IF class \in DOMAIN ClassCode THEN ClassCode[class] ELSE 500

\* HTTPException, HTTPError and CustomError are given their code by whoever
\* raises them.
Raised(class) == [class |-> class, code |-> CodeOf(class)]

RaisedWith(class, code) == [class |-> class, code |-> code]

-----------------------------------------------------------------------------
(* Answers.  id is the X-Request-ID header, problemId the request_id of a  *)
(* problem, cors whether Access-Control-Allow-Origin names the origin.     *)

Forms == {"page", "model", "envelope", "problem", "text"}

Answers(ids) == [status : Int, form : Forms, code : Int, id : ids,
                 problemId : ids, cors : BOOLEAN]

Answer(status, form, code) ==
  [status |-> status, form |-> form, code |-> code, id |-> NoId,
   problemId |-> NoId, cors |-> FALSE]

\* MsgSpecJSONResponse(status_code, {"code", "msg", "data"}).
Envelope(status, code) == Answer(status, "envelope", code)

Model(status) == Answer(status, "model", status)

\* _problem_response, and _unexpected_problem with its request_id.
Problem(status) == Answer(status, "problem", status)

UnexpectedProblem(id) == [Problem(500) EXCEPT !.problemId = id]

\* STATUS_PHRASES of uvicorn.
KnownStatus == 100..599

\* Mutant: the code is taken for a status as it is.
ExceptionCodePlain(code) == code

\* _get_exception_code.
ExceptionCode(code) == IF code \in KnownStatus THEN code ELSE 400

\* Whether ExceptionMiddleware's handler returns.  Outside dev it calls
\* model_dump on the coroutine response_base.fail(...) and raises itself.
Handles(env, exc) ==
  \/ HandlerOf[exc.class] \in Registered \ {"AssertionError"}
  \/ HandlerOf[exc.class] = "AssertionError" /\ env = "dev"

HandlerAnswer(exc) ==
  LET handler == HandlerOf[exc.class] IN
  CASE handler = "HTTPException" -> Envelope(exc.code, exc.code)
    [] handler \in {"RequestValidationError", "ValidationError"} -> Envelope(422, 422)
    [] handler \in {"PydanticUserError", "AssertionError"} -> Envelope(500, 500)
    [] handler = "BaseExceptionMixin" -> Envelope(ExceptionCode(exc.code), exc.code)

\* Mutant: the answer leaves without the headers that CORSMiddleware would add.
ServerErrorBare(env, allowed) ==
  IF env = "dev" THEN Envelope(500, 500)
  ELSE Answer(500, "text", 500)

\* cors_custom_code_500_exception_handler, which replaces the handler of
\* Exception.  When it raises (outside dev, response_base.fail again), the
\* server answers in plain text.  A BaseExceptionMixin never comes so far.
ServerErrorAnswer(env, allowed) ==
  IF env = "dev" THEN [Envelope(500, 500) EXCEPT !.cors = allowed]
  ELSE Answer(500, "text", 500)
=============================================================================
