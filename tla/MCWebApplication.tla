-------------------------- MODULE MCWebApplication --------------------------
(***************************************************************************)
(* The web application on small instances.                                 *)
(***************************************************************************)
EXTENDS WebApplication

CONSTANTS r1, r2, c1

TwoRequests == {r1, r2}

Input(route, id, origin) == [route |-> route, id |-> id, origin |-> origin, valid |-> TRUE]

\* Each route, with and without an id and an origin.
EveryRoute ==
  {Input("page", None, "none"), Input("health", c1, "none"),
   Input("missing", None, "allowed"), Input("submit", c1, "allowed"),
   [Input("submit", None, "none") EXCEPT !.valid = FALSE],
   Input("status", None, "foreign"), Input("other", None, "allowed")}

JobRoutes == {Input("submit", None, "allowed"), Input("status", c1, "none")}

\* One exception for each way through the handlers, an HTTP code and one that
\* is none for CustomError.
EveryException ==
  {Raised(class) : class \in {"TokenError", "EntityCreationError", "ProcessingError",
                              "ValidationError", "PydanticUserError", "AssertionError",
                              "ResearchProblem"}}
  \cup {RaisedWith("CustomError", code) : code \in {409, 40001}}
  \cup {RaisedWith("HTTPError", 403)}
=============================================================================
