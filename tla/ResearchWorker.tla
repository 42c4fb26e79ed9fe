--------------------------- MODULE ResearchWorker ---------------------------
(***************************************************************************)
(* The worker processes: run_worker of sqs_worker.py around                *)
(* execute_research_pipeline of pipeline.py.  Every awaited call is an     *)
(* action, and an update_job_status or save_final_report is two: its       *)
(* SELECT (Load...) and its COMMIT.                                        *)
(***************************************************************************)
EXTENDS ResearchQueue

CONSTANT Workers

VARIABLE worker

\* The steps of execute_research_pipeline, inside the try block of run_worker.
PipelinePcs == {"peek", "show_processing", "load_processing", "mark_processing",
                "fetch", "show_preparing", "load_preparing", "mark_preparing",
                "lookup", "show_running", "analyze", "store_insights",
                "load_report", "save_report", "load_completed", "mark_completed",
                "show_completed"}

\* The steps of the except block and the else block.
HandlerPcs == {"load_failed", "mark_failed", "show_failed", "release", "ack"}

\* The SELECT of update_job_status and the COMMIT that follows it.
MarkAfter == [load_processing |-> "mark_processing", load_preparing |-> "mark_preparing",
              load_completed |-> "mark_completed", load_failed |-> "mark_failed"]

WorkerStates ==
  [pc : {"poll"} \cup PipelinePcs \cup HandlerPcs,
   job : Jobs \cup {None},                    \* the message in hand
   receive : 0..MaxReceives,                  \* its receive_count and handle
   instant : BOOLEAN,                         \* existing_state.instant_data
   loaded : Rows \cup Reports \cup {None},    \* what the last SELECT returned
   commit : Commits \cup {None},              \* raw_context
   insights : Commits \cup {None},            \* ai_insights
   reason : Reasons]                          \* ai_fallback_reason

Polling == [pc |-> "poll", job |-> None, receive |-> 0, instant |-> FALSE,
            loaded |-> None, commit |-> None, insights |-> None, reason |-> "none"]

WorkerTypeOK == worker \in [Workers -> WorkerStates]

WorkerInit == worker = [w \in Workers |-> Polling]

workerVars == <<worker, backends, message>>

Holds(w, j) == worker[w].pc # "poll" /\ worker[w].job = j

\* Worker w goes on to the next call; what it read for the call just made
\* (existing_state, a loaded row) is not used again.
Goto(w, from, to) ==
  /\ worker[w].pc = from
  /\ worker' = [worker EXCEPT ![w].pc = to, ![w].loaded = None, ![w].instant = FALSE]

\* Worker w is done with the pipeline: only the message in hand matters.
Leave(w, to) ==
  worker' = [worker EXCEPT ![w] = [Polling EXCEPT !.pc = to, !.job = worker[w].job,
                                                  !.receive = worker[w].receive]]

-----------------------------------------------------------------------------
(* run_worker: the poll.                                                   *)

WorkerReceive(w, j) ==
  /\ worker[w].pc = "poll"
  /\ Receive(j)
  /\ worker' = [worker EXCEPT ![w] = [Polling EXCEPT !.pc = "peek", !.job = j,
                                        !.receive = message[j].receives + 1]]
  /\ UNCHANGED backends

WorkerRedrive(w, j) ==
  /\ worker[w].pc = "poll"
  /\ Redrive(j)
  /\ UNCHANGED <<worker, backends>>

-----------------------------------------------------------------------------
(* execute_research_pipeline.                                              *)

Peek(w) ==
  LET state == snap[worker[w].job] IN
  /\ worker[w].pc = "peek"
  /\ worker' = [worker EXCEPT ![w].pc = "show_processing",
                              ![w].instant = (state # None /\ state.instant)]
  /\ UNCHANGED <<backends, message>>

\* A processing snapshot.
ShowProgress(w, from, to, instant) ==
  /\ Goto(w, from, to)
  /\ SetState(worker[w].job, Snapshot("processing", instant))
  /\ UNCHANGED <<record, report, aiCache, head, message>>

\* Mutant: the first progress snapshot forgets the existing instant data.
ShowProcessingBare(w) ==
  \/ ShowProgress(w, "show_processing", "load_processing", FALSE)
  \/ ShowProgress(w, "show_preparing", "load_preparing", TRUE)
  \/ ShowProgress(w, "show_running", "analyze", TRUE)

\* "Fetching GitHub data" keeps the instant data of the existing state;
\* "Preparing AI analysis" and "Running AI analysis" carry what was fetched.
ShowProcessing(w) ==
  \/ ShowProgress(w, "show_processing", "load_processing", worker[w].instant)
  \/ ShowProgress(w, "show_preparing", "load_preparing", TRUE)
  \/ ShowProgress(w, "show_running", "analyze", TRUE)

LoadRow(w) ==
  /\ worker[w].pc \in DOMAIN MarkAfter
  /\ worker' = [worker EXCEPT ![w].pc = MarkAfter[worker[w].pc],
                              ![w].loaded = record[worker[w].job]]
  /\ UNCHANGED <<backends, message>>

\* The second half of update_job_status.
CommitRow(w, wanted) ==
  /\ UpdateRow(worker[w].job, worker[w].loaded, wanted)
  /\ UNCHANGED <<report, snap, aiCache, head, message>>

MarkProcessing(w) ==
  /\ Goto(w, "mark_processing", "fetch")
  /\ CommitRow(w, [worker[w].loaded EXCEPT !.status = "processing", !.error = FALSE])

Fetch(w) ==
  /\ worker[w].pc = "fetch"
  /\ worker' = [worker EXCEPT ![w].pc = "show_preparing", ![w].commit = head]
  /\ UNCHANGED <<backends, message>>

\* Mutant: an update_job_status that forgets commit_sha.
MarkPreparingKeyOnly(w) ==
  /\ Goto(w, "mark_preparing", "lookup")
  /\ CommitRow(w, [worker[w].loaded EXCEPT !.key = worker[w].commit])

MarkPreparing(w) ==
  /\ Goto(w, "mark_preparing", "lookup")
  /\ CommitRow(w, [worker[w].loaded EXCEPT !.commit = worker[w].commit,
                                              !.key = worker[w].commit])

\* Mutant: cached insights are taken for a finished job.
LookupShortcut(w) ==
  LET cached == aiCache[worker[w].commit] IN
  /\ worker[w].pc = "lookup"
  /\ worker' = [worker EXCEPT ![w].pc = IF cached = None THEN "show_running" ELSE "load_completed",
                              ![w].insights = cached]
  /\ UNCHANGED <<backends, message>>

\* Mutant: every attempt runs the analysis anew.
LookupIgnored(w) ==
  /\ worker[w].pc = "lookup"
  /\ worker' = [worker EXCEPT ![w].pc = "show_running"]
  /\ UNCHANGED <<backends, message>>

Lookup(w) ==
  LET cached == aiCache[worker[w].commit] IN
  /\ worker[w].pc = "lookup"
  /\ worker' = [worker EXCEPT ![w].pc = IF cached = None THEN "show_running" ELSE "load_report",
                              ![w].insights = cached]
  /\ UNCHANGED <<backends, message>>

\* Mutant: the prompt is built from another fetch than the report.
AnalyzeRefetched(w) ==
  /\ worker[w].pc = "analyze"
  /\ worker' = [worker EXCEPT ![w].pc = "store_insights", ![w].insights = head]
  /\ UNCHANGED <<backends, message>>

AnalyzeSucceeds(w) ==
  /\ worker[w].pc = "analyze"
  /\ worker' = [worker EXCEPT ![w].pc = "store_insights", ![w].insights = worker[w].commit]
  /\ UNCHANGED <<backends, message>>

\* LLMUnavailableError or ContentPolicyError: the pipeline goes on without
\* insights.  The reason is str(exc), which is "" for an exception raised
\* without a message.
AnalyzeFallsBack(w) ==
  /\ worker[w].pc = "analyze"
  /\ \E reason \in {"empty", "text"} :
       worker' = [worker EXCEPT ![w].pc = "load_report", ![w].reason = reason]
  /\ UNCHANGED <<backends, message>>

StoreInsights(w) ==
  /\ Goto(w, "store_insights", "load_report")
  /\ SetInsights(worker[w].commit, worker[w].insights)
  /\ UNCHANGED <<record, report, snap, head, message>>

LoadReport(w) ==
  /\ worker[w].pc = "load_report"
  /\ worker' = [worker EXCEPT ![w].pc = "save_report", ![w].loaded = report[worker[w].job]]
  /\ UNCHANGED <<backends, message>>

\* bool(ai_fallback_reason)
FallbackFlag(reason) == reason = "text"

SaveReport(w) ==
  /\ Goto(w, "save_report", "load_completed")
  /\ StoreReport(worker[w].job, worker[w].loaded,
                 [commit |-> worker[w].commit, insights |-> worker[w].insights,
                  fallback |-> FallbackFlag(worker[w].reason), reason |-> worker[w].reason])
  /\ UNCHANGED <<record, snap, aiCache, head, message>>

MarkCompleted(w) ==
  /\ Goto(w, "mark_completed", "show_completed")
  /\ CommitRow(w, [worker[w].loaded EXCEPT !.status = "completed", !.error = FALSE,
                                              !.key = worker[w].commit])

\* Mutant: the completed snapshot never tells of the fallback.
ShowCompletedPlain(w) ==
  /\ worker[w].pc = "show_completed"
  /\ Leave(w, "ack")
  /\ SetState(worker[w].job, Snapshot("completed", TRUE))
  /\ UNCHANGED <<record, report, aiCache, head, message>>

ShowCompleted(w) ==
  /\ worker[w].pc = "show_completed"
  /\ Leave(w, "ack")
  /\ SetState(worker[w].job, [Snapshot("completed", TRUE)
                                EXCEPT !.fallback = FallbackFlag(worker[w].reason)])
  /\ UNCHANGED <<record, report, aiCache, head, message>>

-----------------------------------------------------------------------------
(* run_worker: what follows the pipeline.                                  *)

\* Mutants: the except block falls through to delete; its bound is one
\* attempt early; its bound is one attempt late.
OnExceptionAcks(w) ==
  IF worker[w].receive >= MaxReceives THEN "load_failed" ELSE "ack"
OnExceptionEarly(w) ==
  IF worker[w].receive + 1 >= MaxReceives THEN "load_failed" ELSE "release"
OnExceptionLate(w) ==
  IF worker[w].receive > MaxReceives THEN "load_failed" ELSE "release"

\* The except block: only the last attempt marks the job failed.
OnException(w) ==
  IF worker[w].receive >= MaxReceives THEN "load_failed" ELSE "release"

Catch(w) ==
  /\ Leave(w, OnException(w))
  /\ UNCHANGED <<backends, message>>

\* A call of the pipeline raises: GitHub, Redis, PostgreSQL, or the prompt
\* builder.  A call that took effect and raises all the same is the raise of the
\* next point; at "ack" it is the set_state of the completed snapshot, or the end
\* of the session after it.
Raise(w) ==
  /\ "raise" \in Faults
  /\ worker[w].pc \in PipelinePcs \cup {"ack"}
  /\ Catch(w)

\* The IntegrityError of a second INSERT into final_research_report_records.
RaiseIntegrityError(w) ==
  /\ worker[w].pc = "save_report"
  /\ InsertRefused(worker[w].job, worker[w].loaded)
  /\ Catch(w)

\* Mutant: the row is marked failed without its error message.
MarkFailedSilently(w) ==
  /\ Goto(w, "mark_failed", "show_failed")
  /\ CommitRow(w, [worker[w].loaded EXCEPT !.status = "failed"])

\* Mutant: the error message is stored and the status is not.
MarkFailedErrorOnly(w) ==
  /\ Goto(w, "mark_failed", "show_failed")
  /\ CommitRow(w, [worker[w].loaded EXCEPT !.error = TRUE])

MarkFailed(w) ==
  /\ Goto(w, "mark_failed", "show_failed")
  /\ CommitRow(w, [worker[w].loaded EXCEPT !.status = "failed", !.error = TRUE])

\* Mutant: the failure is stored in the row only.
ShowFailedInRow(w) ==
  /\ Goto(w, "show_failed", "release")
  /\ UNCHANGED <<backends, message>>

\* The snapshot of a failed job carries no instant data.
ShowFailed(w) ==
  /\ Goto(w, "show_failed", "release")
  /\ SetState(worker[w].job, Snapshot("failed", FALSE))
  /\ UNCHANGED <<record, report, aiCache, head, message>>

\* An error reported by SQS for a stale handle kills the process, which
\* restarts polling: the same state as after a call that did nothing.
Release(w) ==
  /\ worker[w].pc = "release"
  /\ worker' = [worker EXCEPT ![w] = Polling]
  /\ MakeVisible(worker[w].job, worker[w].receive)
  /\ UNCHANGED backends

Ack(w) ==
  /\ worker[w].pc = "ack"
  /\ worker' = [worker EXCEPT ![w] = Polling]
  /\ Delete(worker[w].job, worker[w].receive)
  /\ UNCHANGED backends

\* The process is killed, or a call of the except or else block raises; the
\* container restarts (restart: unless-stopped) with nothing in memory.
Crash(w) ==
  /\ "crash" \in Faults
  /\ worker[w].pc # "poll"
  /\ worker' = [worker EXCEPT ![w] = Polling]
  /\ UNCHANGED <<backends, message>>

\* Mutant: a visibility timeout shorter than the pipeline.
VisibilityTimeoutShort(j) ==
  /\ Reappear(j)
  /\ UNCHANGED <<worker, backends>>

\* The visibility timeout of message j runs out.  Without "late" it is long
\* enough for the worker that holds the last delivery.
VisibilityTimeout(j) ==
  /\ \/ "late" \in Faults
     \/ \A w \in Workers : Holds(w, j) => worker[w].receive # message[j].receives
  /\ Reappear(j)
  /\ UNCHANGED <<worker, backends>>

\* What a worker does by itself once it holds a message.
PipelineStep(w) ==
  \/ Peek(w)
  \/ ShowProcessing(w)
  \/ LoadRow(w)
  \/ MarkProcessing(w)
  \/ Fetch(w)
  \/ MarkPreparing(w)
  \/ Lookup(w)
  \/ AnalyzeSucceeds(w)
  \/ AnalyzeFallsBack(w)
  \/ StoreInsights(w)
  \/ LoadReport(w)
  \/ SaveReport(w)
  \/ RaiseIntegrityError(w)
  \/ MarkCompleted(w)
  \/ ShowCompleted(w)
  \/ MarkFailed(w)
  \/ ShowFailed(w)
  \/ Release(w)
  \/ Ack(w)

PollStep(w) == \E j \in Jobs : WorkerReceive(w, j) \/ WorkerRedrive(w, j)
=============================================================================
