# A TLA+ model of the GitHub repository research tool

The program researches a public GitHub repository: a web page posts its URL, the
API stores a job and queues it, a worker fetches the repository from GitHub, asks
an LLM for insights and stores a report, and the page polls until it can show it.
These modules model that life of a job, from the click to the report and through
crashes, redeliveries, raising calls and expiring keys, and the web process it runs
in: middlewares, request ids, sessions, error answers, a database that comes and
goes. TLC checks them on small instances and TLAPS proves the safety properties for
every instance.

## 1. The system

### Components and their state

| Component | Source | State | Operations | Module |
|---|---|---|---|---|
| Submission | `service/orchestration.py`, `POST` of `research_router.py` | the request's local variables | `submit` | `ResearchSubmission` |
| Worker | `worker/sqs_worker.py`, `service/pipeline.py` | the message being handled, the pipeline's local variables | `run_worker`, `execute_research_pipeline` | `ResearchWorker` |
| Queue | `adapters/sqs_adapter.py` | SQS messages, their receive counts, the DLQ | `send`, `receive`, `delete`, `change_visibility`, redrive | `ResearchQueue` |
| Tables | `model/research.py`, `crud/crud_research.py` | `research_job_records`, `final_research_report_records` | `create_job_record`, `update_job_status`, `save_final_report` | `ResearchBackends` |
| State and insight cache | `adapters/redis_adapter.py` | `research:job:*`, `research:ai:*` with expiry | `set_state`, `get_state`, `set_cached_ai_result`, `get_cached_ai_result` | `ResearchBackends` |
| LLM adapter | `adapters/llm_adapter.py` | none | `analyze` | `RepositoryContext`; its outcomes in `ResearchWorker` |
| GitHub adapter | `adapters/github_adapter.py` | none | `fetch_repository_context` | `GitHubAnswer`, `RepositoryContext`; a read of the head commit in `ResearchWorker` |
| Status endpoint | `GET` of `research_router.py` | a snapshot between two awaits | `get_research_job_status`, `_load_report` | `ResearchStatus` |
| Dashboard page | `templates/research.html` | global variables, timers, fetches, DOM sections | the page's callbacks | `Dashboard` |
| Context sanitizer | `service/context_sanitizer.py` | none | `build_prompt_payload` | `PromptPayload`, `RepositoryContext` |
| URL validator | `service/url_validator.py` | none | `parse_github_repository_url` | `RepositoryTarget`, `RepositoryContext` |
| Report renderer | `service/report_renderer.py` | none | `build_research_report`, `build_markdown_report` | `RepositoryContext` |
| Web application | `core/registrar.py`, `middleware/request_id_middleware.py`, `utils/request_id.py`, `dependencies.py` | the process, the context variables of each task | startup, `/health`, `dispatch`, the dependencies of an endpoint | `WebApplication` |
| Database access | `database/db.py` | sessions, connections of the pool | `get_db`, `check_database_connection`; `init_db` is not modelled | `WebApplication` |
| Exceptions, error answers | `common/exception/`, `common/response/` | none | the handlers of `register_exception` | `ErrorResponses`, `WebApplication` |
| Redis client | `database/redis.py` | none | `get_json`, `set_json`; `delete_prefix` is not modelled | `ResearchBackends`, `RepositoryContext` |
| Logging | `common/log.py` | none | the request id of a line | `WebApplication` |
| Authentication, permissions | `common/security/`, `jwt_auth_middleware.py`, `socketio/` | `token:*` keys | - | not modelled: section 5 |
| Pagination, trees, server information | `common/pagination.py`, `utils/` | none | functions without a caller | not modelled |
| Everything else | `core/conf.py`, the middlewares nothing registers, `scripts/`, `alembic/`, `.specify/` | - | settings, formatting, tooling | not modelled |

Requests and workers are separate processes. They share PostgreSQL, Redis and the
queue and nothing else; each `await` of `submit` and of the pipeline is a point
where anything else in the system may run. Each crud function commits by itself,
so that a job passes through states in which row, report, snapshot and message
disagree. The page talks to the API only. Inside the web process, requests are tasks of
one event loop that share the connections of the pool and nothing else: the session
of `get_db` and the request id belong to one request each.

### What is hard

* SQS delivers at least once. A message comes back when its visibility timeout
  (120 s) ends, whether its worker died or is only slow; then two workers run one
  job at once.
* A worker may die at any await, also between the completed row and the delete of
  its message; a failure handler may itself raise, which ends the process.
* The same count of receives is compared in two places: the worker's
  `RESEARCH_MAX_QUEUE_ATTEMPTS` and the queue's `maxReceiveCount`.
* `submit` fetches the repository, and the pipeline fetches it again, later, at
  every attempt; the insight cache is shared by all jobs of a commit.
* SQLAlchemy writes the columns that changed, so that a row mixes the writes of
  overlapping sessions.
* Redis keys expire under a job that is still running.
* The page has one set of global variables, five kinds of timers, two of them
  without a handle, and fetches that are never aborted.
* The prompt is cut twice, with margins and floors that depend on each other; the
  URL is parsed twice, and loses a suffix each time.
* Insights are cached by commit, with the warnings of a prompt that a later delivery
  does not build; a repository without a commit has the key "unknown".
* An answer passes `get_db`, four middlewares and two sets of handlers on its way out.
  The commit of `get_db` and a handler may raise in place of the answer; an
  exception that no inner handler takes leaves the middlewares that add headers.
* The request id is a context variable, set in one task and copied into another.
* One function tests the database at startup, where it ends the process, and for
  `/health`, where it must not: a flag decides.
* The call that shows a job completed may raise after it took effect, so that a job
  that clients have read as completed is tried again, or called failed.

What makes each component correct: submission and queue lose no accepted job;
workers finish each job once, in agreement everywhere it is stored; the status
endpoint gives answers that hang together and take back no insights and no failure; the page shows the
job the user asked for, in one view, and stops in the end; request and worker research
the same repository, the prompt stays within its budget, and a report says what was
cut from it; the web process answers every request once, under its own id, gives back
each connection and outlives its database.

## 2. The modules

    ResearchBackends          rows, reports, snapshots, insight cache, GitHub head
      +- ResearchQueue        one message per job: unsent, ready, flight, acked, dead
          +- ResearchSubmission   submit, one step per await
          +- ResearchWorker       run_worker and the pipeline, one step per await
              (both) ResearchJobs composition, properties, refinement of JobLedger
                       +- ResearchJobsProofs   theorems
                       |    +- JobLedgerProofs   it implements JobLedger
                       |    +- ExclusiveProofs   theorems without "late"
                       |         +- RetryProofs  over attempts, without "ttl", "crash" or "push" too
                       +- ResearchStatus       the status endpoint over running jobs
                            +- ResearchStatusProofs  theorems, over RetryProofs
    JobLedger                 what a client is promised: at-least-once work
    Dashboard                 the page, with the server reduced to its answers
      +- DashboardProofs      theorems
    RepositoryTarget          a URL and the target parsed out of it
    PromptPayload             lengths of a prompt and of its cuts
      +- GitHubAnswer         GitHub's answer and the context made of it
      (both) RepositoryContext    one job's data from its URL to its report
               +- RepositoryContextProofs  theorems
    ErrorResponses            exception classes, their handlers and their answers
      +- WebApplication       process, middlewares, sessions, request ids
          +- WebApplicationProofs  theorems
    MC*                       instances for TLC

**Correspondence.** `submission[j]` is the request of job `j`: its program
counter names the awaited call it is about to make, the other fields are the
local variables the rest of `submit` uses. `worker[w]` is a worker process in the
same manner. One action is one awaited call with the assignments around it; `Raise`
and `Catch` are the worker's `except` block and the `SubmitSendRaises`,
`SubmitMarkFailed`, `SubmitShowFailed` and `SubmitAbandon` actions that of
`submit`. A call that raises after it took effect is the call followed by a raise
at the next point; for the last call of the pipeline, the `set_state` that shows the
job completed, and for the end of the session after it, that point is `ack`, where
`Raise` is enabled too (what `delete` raises is not caught and is a `Crash`). `Crash` covers both a killed process and an exception that
leaves `run_worker`: `restart: unless-stopped` brings the worker back with
nothing in memory.

**Data.** All jobs research one repository (jobs of different repositories share
only worker processes). A commit stands for all that is read from GitHub at that
commit, and insights are represented by the commit they were computed from, which
lets the properties compare them. Messages, times and texts are left out, except
that the reason of a fallback is none, empty or text, since the code tests its
truth. Receives are counted up to `MaxReceives` (`RESEARCH_MAX_QUEUE_ATTEMPTS`).

**The data of a job.** `RepositoryContext` follows one job: URL, target, context,
cache, prompt, insights, report; `Again` is another delivery of its message (or the
job of another client with the same URL), up to `MaxPasses`, with the cache kept
unless its key expires. A URL is its site and the segments of its path; a
segment is a stem with a number of `.git` suffixes, which is all that the parser
looks at. `stage` names the next statement or awaited call. README and tree are
their lengths in characters after redaction, stripping and the filter of blocked
entries; the 15 characters of the suffix, the margins 64 and 32 and the floors 256
and 128 are the code's. A branch named `{readme}` puts the README into the header
too, and other braces make `format` raise: `FormatRaises`. `GitHubAnswer` has the
fields of the GraphQL answer that matter here, each of which may be null or missing:
branch, commit, the two READMEs (one of them may be binary, and the upper-case one is
read only if there is no other), the tree and the lists the report has sections for. A
commit names its contents, so that equal commits have equal texts, and a repository
without one is empty. Of insights the limitations are kept (those that the LLM gives,
`"own"`, and the cuts), and as a history that the code does not have, the texts they were
made from. A report is its insights, its fallback fields and its headings, of which
`### Findings` and `## Recommendations`, which depend on lists inside the insights, are
left out as wording.

**The web process.** `pc[r]` is how far request `r` has come through
ServerErrorMiddleware, RequestIdMiddleware, CORSMiddleware, ExceptionMiddleware, the
dependencies and the endpoint, and back. `context[r]` has the request id in the two
tasks of a request: BaseHTTPMiddleware runs what is inside of it in a task of its own,
with a copy of the context. `session[r]` is open, in a transaction (`active`, which
holds a connection), in one that failed, or closed. FastAPI 0.115, which the lock file
names, runs the exit of `get_db` before the answer is sent, so that a commit that
raises takes its place (`Commit`, `CommitRaises`); the rollback after it may raise as
well (`RollBackRaises`), and `finally` closes the session (`CloseSession`).
`CheckDatabase` is one attempt of `check_database_connection` with all its parameters;
startup calls it with as many tries as are configured (`Connect`), `/health` with one and
`for_health_check` (`Health`), where it fails also when the pool times out while other
requests hold all connections. The endpoint of the job routes is reduced
to its transactions and to how it ends; `ResearchSubmission` and `ResearchStatus` have
the rest. The route `other` is an endpoint without an except clause, which lets the
exceptions of `errors.py` through: the repository has the classes and their handlers and,
so far, no such endpoint. An answer is its status, the form and the code of its body, its
ids, and whether it has the headers of CORS.

**Faults** is a constant set that names what may go wrong in an instance:
`raise`, `crash`, `late` (the visibility timeout ends under a worker that still
works), `ttl` (a key expires), `push` (the branch moves); in `Dashboard` `error`
(the server answers a problem), `network` (a fetch throws), `slow` (a fetch, GET or
POST, is in flight when the user starts over or the deadline passes). `Dashboard` chooses one of
the sets in `FaultSets` at first and keeps it. In `WebApplication` the database goes up
and down at any time.

**The page.** Every callback runs to its next `await`; what follows is another
action over the globals as they are by then. Time is the order of timers: a timer
fires after the pending timers that were set before it and are not longer.
Handles are numbers, so that a stale handle in a variable is a stale handle in the
model. Of the header, name and counts are always replaced (`meta`); the optional parts
(license, topics, languages, the archived badge, the commit chart, ...) are set when the
repository has them and never cleared, and one of them, `badge`, stands for all: `Badged`
are the jobs whose repository has it.

## 3. What TLC checks

| Run | Instance | Shows |
|---|---|---|
| `jobs_overlap` | 1 job, 2 workers, 1 commit, 3 receives; raise, crash, late | `TypeOK`, `CompletedHasReport`, `NoJobLost`, `FailedOnlyAfterLastAttempt` survive any overlap, and every step keeps the ledger (`KeepsLedger`) |
| `jobs_exclusive` | 1 job, 2 workers, 2 commits, 2 receives; raise, crash, ttl, push | with a timeout no pipeline outruns, one worker at a time has a job (`ExclusiveProcessing`) and row, report, snapshot and cache agree |
| `jobs_shared` | 2 jobs of a commit, 1 worker, 2 receives; crash, late; fair | `InstantDataKept`, `ReportNotDowngraded` although jobs and attempts share the insight cache; no message stays in the queue for ever (`KeepsLiveLedger`) |
| `status_settle` | 1 job, 1 worker, 2 commits, 2 receives; raise, late, push; fair | every accepted job ends completed or failed everywhere (`JobsSettle`), and a dead letter is marked failed (`DeadMeansFailed`), when no worker dies; a client that goes on asking learns the end (`ClientsLearnTheEnd`), is not shown a report without the insights it was shown before (`ShownInsightsStay`), and is told nothing better once told failed (`FailedAnswerIsFinal`) |
| `status_expiry` | 1 job, 2 workers, 1 commit, 2 receives; raise, crash, late, ttl | `CompletedAnswerHasReport`, also for answers made up after the snapshot expired and with two deliveries between the two reads |
| `dashboard` | 2 submissions; error and network, or network, or slow; fair | with fetches answered before the user acts (`FetchesAreFast`) `OnePollLoop`, `PollsUntilDeadline`; without problems as well (`NoLateReturn`) `PageIsCurrent`, `CopiesShownReport`, `OneView`, `ReportStays`; in all three there are no more polls than submissions (`PollsDoNotMultiply`) and the terminal is left in the end (`LoadingEnds`) |
| `repository_context` | paths of up to 3 segments with up to 2 suffixes; budget of 1000 characters; README and tree at each boundary; 2 deliveries | `WorkerAgreesOnTarget`; `PromptFitsBudget`, `CutsInOrder`; `CutsAreReported` and `InsightsAreOfTheContext` also for insights from the cache |
| `web_application` | 2 requests of 7 inputs, 1 connection, 2 attempts at startup; dev and prod; database up and down; fair | `OneIdPerRequest`, `SessionsEnd`, `StatusIsHttp`, `AllowedOriginsReadAnswers`; `ServingSurvives`, `ComesToServe`, `EveryRequestAnswered` |

**Bounds.** Two workers are enough for every overlap of two deliveries; a third
receive lets a delivery that was overtaken come back. Two commits give a push
between any two fetches, and two jobs a sharing of the cache. `MaxTimers` is 6: no
reachable state of the page in these instances has more than five handles in use
or held, and the reachable states are the same for 5 to 8. `Submit` of the page is
bounded by the number of jobs; two are enough for a timer or an answer of one analysis
to come in the next, and section 4 proves the safety properties for any number. The lengths of `repository_context` are those next to
each floor, to a floor with its suffix, and to the budget with what fits beside it: a
header of 586 leaves exactly the room that both floors need, one of 587 does not. Two
deliveries let the second find what the first cached, of the same or of another commit.
`web_application` has fewer connections than requests, so that one may wait for the
other, a client's id that two requests may share, and an exception for each way through
the handlers, with the code 40001 that is no status.
`CHECK_DEADLOCK FALSE` is said everywhere because
the systems may stop: all jobs done, all submissions made.

**Symmetry** over workers, commits and jobs is used in safety runs only.

**Fairness.** `ResearchJobs`: weak fairness of polling, of each pipeline step and
of the end of a visibility timeout. The containers are restarted, `run_worker`
loops for ever, every call has a client timeout, and time passes. Requests,
faults, expiry and pushes are not fair. `JobsSettle` does not need the faults to
stop: the receive bound ends them. `ClientsLearnTheEnd` is about a client that polls
again after each answer; its queries may raise, so that the answer is strongly fair.
`Dashboard`: fetches are answered in the end
and each pending timer is fired; strongly, because a deadline that is due may find
a fetch in flight each time. `WebApplication`: startup and restart are weakly fair,
since `restart: unless-stopped` and the retry loop go on by themselves; each request is
weakly fair, since the event loop runs every task that can go on, and one that waits for
a connection gets it or the timeout of the pool. This says more of statements than the
code does: the engine is made without a statement timeout (`db.py:17`), so that a
database that takes a statement and never answers, without breaking the connection,
holds a request for as long. The database is under no obligation: `ComesToServe` assumes in its premise that it stays up.

**Limits of what holds.** Each of these was found by TLC when a fault was added
to its run, and is a property of the code, not of the model:

* With `late` and two workers, `CompletedRowMatchesReport`, `StatusPageAgrees`,
  `ErrorIffFailed`, `AckedMeansDone`, `InstantDataKept`, `DeadMeansFailed` and
  `ReportNotDowngraded` fail: two pipelines write row, report and snapshot in any
  order. With three receives and a push `InsightsMatchCommit` fails too.
  `docker-compose.yaml` runs one worker, and the README invites more.
* A client that was told completed may be told processing, or failed, next. It takes a
  crash before the message is deleted, or a `set_state` that shows the job completed and
  raises, or a session that raises as it ends: the except block releases the job, and
  with the last receive marks it failed with its report saved. With `ttl` it takes no
  more than the snapshot of a job that is retried with its report saved: the endpoint
  answers completed from the report, and processing again after the next write. Between
  the two reads of a query the next attempt may replace the report, so that an answer may
  have the fallback flag of one attempt and the report of another. What does survive is
  `ShownInsightsStay`, since the next attempt finds the insights in the cache, and
  `FailedAnswerIsFinal`, since a job fails with its last receive.
* `jobs_shared` has no `raise`, which makes the instance too large: its failure handler
  is entered in `jobs_overlap`, `jobs_exclusive`, `status_settle` and `status_expiry`
  only, and the theorems cover raising calls for `InstantDataKept` and
  `ReportNotDowngraded`.
* `ErrorIffFailed` and `CompletedRowMatchesReport` are claimed without overlap, where two
  sessions on one row follow each other; with `late` and two workers their writes mix and
  both fail (above).
* `PromptFitsBudget` needs `HasRoom`: with a budget that does not hold the header, 271
  characters of README and 143 of tree, the floors win and the prompt exceeds it. The
  default of 32000 tokens is far from it. When the README is not longer than its
  floor, the warning is given although nothing is lost.
* `WorkerAgreesOnTarget` needs the look-up of the request: of `x.git.git` the request
  makes `x.git` and the worker `x`. It holds because GitHub has no `x.git`.
* With `slow` and two submissions, all of the page's properties but `LoadingEnds` and
  `PollsDoNotMultiply` fail: the answer to an old fetch carries on in the new job, and an answer that comes
  after the deadline goes on polling without one, although the comment at
  `research.html:576` calls it a "hard deadline". Two POSTs in flight at once start
  two poll loops.
* `AllowedOriginsReadAnswers` fails outside dev: the handler that adds the headers
  raises (see `doc_server_error`).
* `/health` answers status 200 when the database is down, with 503 in its body (`Health`).
* With `error` the return to the search, which has no handle, takes away results
  that the static timer showed just before: `OneView` and `ReportStays` fail. With
  three submissions the return of the first analysis ends the second one early, whose
  results are then rendered in the third: `PageIsCurrent` fails too.
* `PageIsCurrent` says that what the repository on screen has is its own: name and
  counts, each badge it has data for, the AI sections beside a summary of insights. What
  it has not is left as the last repository had it: its license and topics, and its AI
  sections (`doc_static_sections`). Nothing written says otherwise of the badges.
* `StatusIsHttp` would fail for an exception of the application with a code 1xx:
  `STATUS_PHRASES` of uvicorn knows these numbers, so that the handler takes them for
  a status of an answer, which they are not. `errors.py` has no such code.

### Where documents and code differ

Each has a run whose property states what the document says, and that TLC
violates.

| Run | Document | Code |
|---|---|---|
| `doc_dead_letter` | a dead letter is marked failed (`README.md:62`) | not when the worker dies on the last receive |
| `doc_not_found` | 404 when the id is absent from both Redis and DB (`tasks.md:100`) | 404 too for a job whose snapshot expired before its report, with its row there |
| `doc_static_sections` | "AI sections stay hidden" (`research.html:1038`) | those of an earlier job are not hidden |
| `doc_server_error` | a 500 of the job routes is `application/problem+json` (`research_router.py:89`, `:110`) | one that the commit of `get_db` raises in place of the endpoint's problem is plain text outside dev: the handler itself calls `response_base.fail` without awaiting it and raises (`exception_handler.py:177`) |

Three more differences were met while modelling and have no run of their own:
job states are "a simple, linear flow" (`data-model.md:114`), but a redelivery takes
a completed job back to processing (`MarkProcessing`); `ai_fallback` is true if the
AI stage failed (`data-model.md:37`), but not when the exception has no text
(`FallbackFlag`); "insights will appear here automatically" (`research.html:1045`) is
still said after the deadline has stopped the polls (`DeadlineFires`).

## 4. What is proved

`ResearchJobsProofs` proves, for all sets of jobs, workers and commits, every
`MaxReceives` and every set of faults, from the assumptions of the modules alone
(`Faults` are of the named kinds, `None` is no other value, `MaxReceives` is a
positive number):

| Theorem | Property |
|---|---|
| `TypeCorrect` | `Spec => []TypeOK` |
| `CompletedJobsHaveReports` | `Spec => []CompletedHasReport` |
| `AcceptedJobsAreNotLost` | `Spec => []NoJobLost` |
| `FailureIsFinal` | `Spec => []FailedOnlyAfterLastAttempt` |
| `Invariance` | `Spec => []IInv`, from which the others follow |

None of the three properties is inductive: whether a row may be completed depends
on what the worker at `mark_completed` knows, and that on what it did before.
`IInv` therefore says, for each control state, what a request (`RequestInv`) and a
worker (`HandlingInv`) may rely on: a worker past `save_report` has a report; one
in the failure handler has the last receive; its receive is no larger than the
message's count; a request before `send` has an unsent message. The second half of
the argument is that nobody takes such knowledge back, however workers overlap:
`Grows` (rows and reports stay, a message stays sent, its count does not shrink) is
shown for each step, and `HandlingKept` and `RequestKept` carry the knowledge of
every other process over it. There is one lemma per action, over lemmas that say
what each operator on tables, keys and program counters does; `NextPreserves`
collects them. TLC checked `IInv` on the instance of `jobs_overlap` first.

`JobLedgerProofs` proves that the job system implements its abstract specification:
`LedgerKept` is `Spec => KeepsLedger`, from the same assumptions, with overlapping
workers and all faults. The ledger sees of a job its client's answer, its work item and
whether it has a report; `SameEntry` says that a step leaves these alone. One lemma per
action of the ledger turns a change of one entry into that action (`Opens`, `Answers`,
`Produces`, `Ends`), and each step of the system then either changes nothing the ledger
sees or is one of them. It rests on `IInv` where the ledger has a guard: a request that
answers 202 without a message has its report, an `ack` has one too, and who saves a
report has a message that was sent or a client that waits.

`ExclusiveProofs` proves what an overlap of two workers would break, each theorem under
the assumption `"late" \notin Faults` and for all other faults: `OneWorkerPerJob`
(`ExclusiveProcessing`), `InsightsAreOfTheCommit` (`InsightsMatchCommit`),
`RowMatchesReport` (`CompletedRowMatchesReport`), `PageAgrees` (`StatusPageAgrees`),
`ErrorsMeanFailed` (`ErrorIffFailed`) and `DeletedMeansDone` (`AckedMeansDone`), from
`Agreement`. The inductive `AgreeInv` says that who holds a message has its last delivery
and that it is in flight (`HasDelivery`), so that a poll or a timeout cannot hand it to
another; and what a worker at each stage knows of report and snapshot (`KnowsReport`)
and, once the client has been told accepted, of the row (`KnowsRow`). That knowledge is
what makes an UPDATE of the changed columns exact: what was loaded is what is stored
(`ExactUpdate`, `ExactStore`). Before the client is told, a request whose `send` raised
may write the row beside a worker; nothing is claimed of the row then (`UndoCloses`).
TLC checked `AgreeInv` on the instance of `jobs_exclusive` first.

`RetryProofs` adds what an attempt leaves to the next one and to the dead-letter queue.
`InstantDataStay` (`InstantDataKept`) assumes neither `late` nor `ttl`,
`DeadLettersAreFailed` (`DeadMeansFailed`) neither `late` nor `crash`, and `AnalysesStay`
(`ReportNotDowngraded`) neither `late`, `ttl` nor `push`. The second is what
`README.md:62` says, and `doc_dead_letter` shows that it needs its assumption. All
rest on `AgreeInv`. `SnapshotInv` (lemma `SnapshotsStay`) says that a snapshot without
instant data is that of a last attempt that is over, so that no later attempt can look
at it; `FailureInv` that a message in flight has its worker, and that from the mark of
the last attempt on the row of an accepted job is failed. `Attempted` says what a step of
an attempt may do to row, snapshot and message, so that both are shown for such steps at
once. `CachedInv` says that a report with insights is exactly the one that any further
attempt makes from the cache, and that an attempt which found no insights there, or
goes on without, has no such report to replace; TLC checked it first, with two jobs that
share the cache, two workers, crashes and raising calls. What a step must leave of
report and cache for this is `Keeps`, which is the property itself: it is shown of
every step together with `CachedInv`.

`ResearchStatusProofs` adds the endpoint. `CompletedAnswersHaveReports` is
`StatusSpec => []CompletedAnswerHasReport` for all faults, from `StatusInvariance`: a
query that has read a completed snapshot relies on the report being there when it loads
it, so `StatusIInv` joins to `IInv` what a query knows (`QueryInv`), and `ReportsStay`
shows that no step of the job system takes that away, the expiry of the snapshot and the
redone job included. The other properties of the endpoint relate its answers to each other, and need more of
the workers (`SystemRuns` carries over what the modules above prove):

* `InsightsShownStay` (`ShownInsightsStay`), without `late`, `ttl` and `push`, workers
  that die and calls that raise after they took effect included: the insights a client was
  shown are those of the saved report (`ShownInv`), which the attempts that follow leave
  as it is (`Keeps`, over `CachedInv`), and a query answers completed with the saved
  report only (`LoadShows`).
* `FailedAnswersAreFinal` (`FailedAnswerIsFinal`), without `late` and `ttl`, workers that
  die included: a failed snapshot is that of the last receive, after which the message is
  not delivered again (`FailedKept`, over `SnapshotInv`).

`RepositoryContextProofs` proves, for all names, paths, lengths, commits and every
budget and number of deliveries, `WorkersAgreeOnTarget`, `PromptsFitBudget`,
`CutsAreOrderly` (`CutsInOrder`), `CutsReported` (`CutsAreReported`) and
`InsightsOfTheContext` (`InsightsAreOfTheContext`) from `ContextInvariance`. A cut makes
room for its suffix or ends at its floor (`CutReadmeStep`, `CutTreeStep`); `ContextIInv`
says which of the two it was (`Whole`, `ReadmeCut`, `TreeCut`), since whether the tree
is cut depends on how the README was. `ParseCanonical` is the fact that parsing a
canonical URL again takes nothing off but another suffix. For the cache, `InsightsInv`
says of each entry that it names its cuts and is about every context of its commit;
that this is kept rests on `OneContent`: by `AnswerAssumption` two contexts of one
commit have the same texts, and those of no commit have none.

`WebApplicationProofs` proves, for any number of requests, ids, inputs, exceptions and
connections, `OneId` (`OneIdPerRequest`), `NoSessionLeft` (`SessionsEnd`) and
`ServingProcessSurvives` (`ServingSurvives`): the attempt that `/health` makes is its last
one, and `check_database_connection` returns from it whatever the database and the pool
do (`HealthCheckReturns`). `WebIInv` joins to `OneIdPerRequest` what
each stage knows: both tasks hold the request's id until the middleware clears its own
(`ContextInv`), there is an exception or an answer on the way out (`OutcomeInv`), an
answer under way names no other request (`HeaderInv`), and a session is there between
the dependencies and their exit only (`SessionInv`). There is one lemma per action.
`AnswersReadable` is `Spec => []AllowedOriginsReadAnswers`: an answer is made inside of
CORSMiddleware, which adds its headers on the way out, or by the handler outside of it,
which does so itself (`ReadableNext`). `AnswersHaveStatus` is `Spec => []StatusIsHttp`
under a premise on the exceptions of an instance, `Sendable`: the codes of Starlette's
`HTTPException` are 200 to 599 and those of the application's own classes are none of
100 to 199, any other number included, such as 40001. `StatusInv` says that what is on
its way out of the endpoint is such an exception or an answer with such a status.

`DashboardProofs` proves the safety properties of the page, for any number of
submissions, all choices of faults and every `MaxTimers`: `OnePollLoopHolds`,
`PollsUntilDeadlineHolds`, `PageIsCurrentHolds`, `CopiesShownReportHolds`,
`OneViewHolds` and the action property `ReportStaysHolds`, and `PageTypes` (`TypeOK` with
counters of fetches that are not bounded). All follow from `PageInvariance`, which says
that `PageIInv` is kept: it joins to `TypeOK` that a report to be rendered is there
(`RenderInv`); with fast fetches, that the three handles name the timers there are, that
the one poll, set or in flight, is for the current job and has its deadline, and that
nothing else runs beside a POST (`LoopInv`); and, if also no return to the search can
come late, what may still come in each view (`PhaseInv`). The conditions on the faults
are those of the properties, and part of what is proved: `OnePollLoopHolds` and
`PollsUntilDeadlineHolds` are about fetches that are answered before the user starts over
or the deadline passes (`FetchesAreFast`), the other four about such fetches from a server
that answers no problem (`NoLateReturn`); section 3 says what happens otherwise. The lemmas at its beginning say
what `setTimeout` and `clearTimeout` do to the set of timers, whose order changes when
one goes (`Same`, `Remain`).

Model-checked only: liveness (`JobsSettle`, `ClientsLearnTheEnd`, `KeepsLiveLedger`,
`LoadingEnds`, `ComesToServe`, `EveryRequestAnswered`: fairness and ENABLED are beyond the
prover here), and what holds with `late` when there is one worker only: `jobs_shared` and
`status_settle` check `InstantDataKept`, `ReportNotDowngraded`, `DeadMeansFailed`,
`ShownInsightsStay` and `FailedAnswerIsFinal` with it, the theorems exclude `late` and
have any number of workers; and `PollsDoNotMultiply`, which counts over a set and sums over
a function, by folds that the prover cannot unfold. Every other property of a passing run has its theorem.

## 5. Not modelled

* Bodies that do not validate in `receive`: only `send` writes bodies, from the model
  that `receive` validates them with.
* Texts: prompts, reports, pages, messages of problems, and what redaction does to them.
  The properties are about lengths, headings, statuses and ids.
* `init_db` and the scripts around it, migrations, settings, sinks of the log.
* Authentication and permissions (`common/security/`, `jwt_auth_middleware.py`,
  `socketio/`) and `opera_log_middleware.py`: they import `app.admin` and `app.task`, which
  are not in the repository, so that they cannot be loaded and what they would do
  depends on code nobody can read. `access_middleware.py` and `state_middleware.py` can be
  loaded, but `register_middleware` does not install them.
* `pagination.py`, `build_tree.py`, `server_info.py`, `redis_info.py` and `delete_prefix`: no
  caller in the application.

## 6. Plan

Done, in this order because a lost or wrongly finished job matters most: the job
system with its abstract ledger, its invariants, the proof that it implements the
ledger, and those of the agreement of its stores, of its retries and of the report they
leave; the status endpoint and the proofs of its answers; the page and its proof; the
data of a job from URL to report, with GitHub's answer and the insight cache, and its
proof; the web process with its error answers and its proof. What would add most now:

1. A composition of `Dashboard` with `ResearchStatus` in place of its reduced
   server, for one job.
2. Proofs for a single worker with `late`: its deliveries follow each other, so that
   `AgreeInv` should hold without `HasDelivery`, with a worker that is alone in its place.
3. `TokenStore`, once the packages that the authentication imports are there: access
   and refresh tokens over Redis keys, prefix deletion, concurrent renewals.
