--------------------------- MODULE ResearchStatus ---------------------------
(***************************************************************************)
(* The status endpoint get_research_job_status of research_router.py, read *)
(* by the clients of the jobs while the system of ResearchJobs runs.  A    *)
(* query reads Redis and then, in another step, the report in PostgreSQL.  *)
(***************************************************************************)
EXTENDS ResearchJobs

VARIABLES query,   \* the GET in progress for each job
          answer   \* the last answer the client of each job received

\* PollingStatusResponse, and the problem job-not-found.
Answers == [status : Statuses \cup {"not_found"}, error : BOOLEAN, fallback : BOOLEAN,
            instant : BOOLEAN, report : Reports \cup {None}]

Idle == [pc |-> "idle", snapshot |-> None]

StatusTypeOK ==
  /\ query \in [Jobs -> [pc : {"idle", "load"}, snapshot : Snapshots \cup {None}]]
  /\ answer \in [Jobs -> Answers \cup {None}]

statusVars == <<vars, query, answer>>

StatusInit ==
  /\ Init
  /\ query = [j \in Jobs |-> Idle]
  /\ answer = [j \in Jobs |-> None]

NotFound ==
  [status |-> "not_found", error |-> FALSE, fallback |-> FALSE,
   instant |-> FALSE, report |-> None]

\* The response built from a snapshot and the report attached to it.
FromSnapshot(s, attached) ==
  [status |-> s.status, error |-> s.error, fallback |-> s.fallback,
   instant |-> s.instant, report |-> attached]

\* The snapshot made up for a report whose own snapshot has expired.
SnapshotOf(saved) ==
  [Snapshot("completed", TRUE) EXCEPT !.fallback = FallbackFlag(saved.reason)]

Reply(j, response) ==
  /\ answer' = [answer EXCEPT ![j] = response]
  /\ query' = [query EXCEPT ![j] = Idle]

\* The client of an accepted job polls: get_state, and the answer at once
\* unless the report is needed.
ReadState(j) ==
  /\ Accepted(j)
  /\ query[j].pc = "idle"
  /\ IF snap[j] = None \/ ShownAs(j, "completed")
     THEN /\ query' = [query EXCEPT ![j] = [pc |-> "load", snapshot |-> snap[j]]]
          /\ UNCHANGED answer
     ELSE Reply(j, FromSnapshot(snap[j], None))

\* _load_report, and the answer.
LoadAndReply(j) ==
  LET s == query[j].snapshot IN
  /\ query[j].pc = "load"
  /\ Reply(j, CASE s # None -> FromSnapshot(s, report[j])
                [] s = None /\ report[j] # None -> FromSnapshot(SnapshotOf(report[j]), report[j])
                [] OTHER -> NotFound)

\* A query that raises is answered 500 and tells the client nothing.
QueryRaises(j) ==
  /\ "raise" \in Faults
  /\ query[j].pc = "load"
  /\ query' = [query EXCEPT ![j] = Idle]
  /\ UNCHANGED answer

StatusStep(j) == ReadState(j) \/ LoadAndReply(j) \/ QueryRaises(j)

StatusNext ==
  \/ Next /\ UNCHANGED <<query, answer>>
  \/ \E j \in Jobs : StatusStep(j) /\ UNCHANGED vars

StatusSpec == StatusInit /\ [][StatusNext]_statusVars

\* A client that goes on asking is answered again and again, though some of its
\* queries may raise.
ClientFairness ==
  \A j \in Jobs : /\ WF_statusVars(ReadState(j) /\ UNCHANGED vars)
                  /\ SF_statusVars(LoadAndReply(j) /\ UNCHANGED vars)

StatusFairSpec == StatusSpec /\ Fairness /\ ClientFairness

-----------------------------------------------------------------------------
Told(j, status) == answer[j] # None /\ answer[j].status = status

\* The report is present in an answer exactly when its status is completed,
\* although snapshot and report are read at two moments between which workers
\* may redo the job and the snapshot may expire (data-model.md:36).
CompletedAnswerHasReport ==
  \A j \in Jobs : answer[j] # None => (Told(j, "completed") <=> answer[j].report # None)

\* While no key expires, a client that was shown the insights of a commit is never
\* shown that commit without them, or with others, whatever attempts follow: a
\* worker that raises after it showed the job completed hands it to another
\* attempt, which finds the insights in the cache.
ShownInsightsStay ==
  [][\A j \in Jobs :
       /\ Told(j, "completed") /\ answer[j].report.insights # None
       /\ Told(j, "completed")'
       /\ answer'[j].report.commit = answer[j].report.commit
       => answer'[j].report = answer[j].report]_statusVars

\* While no key expires, a client that was told failed is never told anything
\* better: it has stopped polling by then.
FailedAnswerIsFinal ==
  [][\A j \in Jobs : Told(j, "failed") =>
        answer'[j].status \in {"failed", "not_found"}]_statusVars

\* With one worker that never dies, a client that goes on asking is told how its
\* job ended: completed, or failed when the attempts are used up.
ClientsLearnTheEnd ==
  \A j \in Jobs : Accepted(j) ~> Told(j, "completed") \/ Told(j, "failed")

\* specs/001-github-repo-research/tasks.md:61: "return 404 Problem for
\* unknown job_id"; the problem itself says "No research job exists for"
\* the id.
NotFoundMeansUnknown == \A j \in Jobs : Told(j, "not_found") => record[j] = None
=============================================================================
