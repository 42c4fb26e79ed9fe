---------------------------- MODULE ResearchJobs ----------------------------
(***************************************************************************)
(* The whole job system: requests (ResearchSubmission) and workers         *)
(* (ResearchWorker) over PostgreSQL, Redis, GitHub (ResearchBackends) and  *)
(* the queue (ResearchQueue), and the properties of a job's life.          *)
(***************************************************************************)
EXTENDS ResearchSubmission, ResearchWorker

vars == <<submission, worker, backends, message>>

Init ==
  /\ BackendsInit
  /\ QueueInit
  /\ SubmissionInit
  /\ WorkerInit

Environment ==
  \/ \E j \in Jobs : ExpireState(j)
  \/ \E c \in Commits : ExpireInsights(c)
  \/ \E c \in Commits : Push(c)

Next ==
  \/ \E j \in Jobs : SubmissionStep(j) /\ UNCHANGED worker
  \/ \E w \in Workers : PollStep(w) /\ UNCHANGED submission
  \/ \E w \in Workers : PipelineStep(w) /\ UNCHANGED submission
  \/ \E w \in Workers : Raise(w) /\ UNCHANGED submission
  \/ \E w \in Workers : Crash(w) /\ UNCHANGED submission
  \/ \E j \in Jobs : VisibilityTimeout(j) /\ UNCHANGED submission
  \/ Environment /\ UNCHANGED <<submission, worker, message>>

Spec == Init /\ [][Next]_vars

\* The containers are kept running and the pollers polling, a pipeline whose
\* calls answer goes on, and time passes for a message in flight.  Nothing is
\* assumed of requests, faults or the environment.
Fairness ==
  /\ \A w \in Workers : WF_vars(PollStep(w) /\ UNCHANGED submission)
  /\ \A w \in Workers : WF_vars(PipelineStep(w) /\ UNCHANGED submission)
  /\ \A j \in Jobs : WF_vars(VisibilityTimeout(j) /\ UNCHANGED submission)

FairSpec == Spec /\ Fairness

-----------------------------------------------------------------------------
TypeOK ==
  /\ BackendsTypeOK
  /\ QueueTypeOK
  /\ SubmissionTypeOK
  /\ WorkerTypeOK

Accepted(j) == submission[j].pc = "accepted"
RowIs(j, status) == record[j] # None /\ record[j].status = status
ShownAs(j, status) == snap[j] # None /\ snap[j].status = status

-----------------------------------------------------------------------------
(* What holds whatever workers overlap, crash or are redelivered.          *)

\* A job that the row or the status page calls completed has a report: the
\* status endpoint of research_router.py loads it and the page renders it.
CompletedHasReport ==
  \A j \in Jobs : RowIs(j, "completed") \/ ShownAs(j, "completed") => report[j] # None

\* A job id handed to a client stands for work that is not lost: until the
\* report exists, the message is queued, in flight or in the DLQ.  submit
\* returns after send, and run_worker deletes after the pipeline.
NoJobLost ==
  \A j \in Jobs : Accepted(j) /\ report[j] = None =>
                    message[j].place \in {"ready", "flight", "dead"}

\* An accepted job is called failed only when the queue will not deliver it
\* again: the worker's bound agrees with the redrive policy of the queue.
FailedOnlyAfterLastAttempt ==
  \A j \in Jobs : Accepted(j) /\ (RowIs(j, "failed") \/ ShownAs(j, "failed")) =>
                    message[j].receives = MaxReceives

-----------------------------------------------------------------------------
(* What holds as long as two deliveries of a message are not worked on at  *)
(* once: one worker, or a visibility timeout that no pipeline outruns.     *)

\* The visibility timeout keeps a message with the worker that received it,
\* across the failure handling and the crashes of run_worker.
ExclusiveProcessing ==
  \A j \in Jobs : \A v, w \in Workers : Holds(v, j) /\ Holds(w, j) => v = w

\* The insights of a report, cached or fresh, were computed from the commit
\* the report is about, though the branch moves between the fetch of submit,
\* the fetch of the pipeline and a retry.
InsightsMatchCommit ==
  /\ \A c \in Commits : aiCache[c] \in {None, c}
  /\ \A j \in Jobs : report[j] # None => report[j].insights \in {None, report[j].commit}

\* The commit_sha and ai_cache_key of a completed row are those of the report
\* it stands for, although each attempt fetches anew.
CompletedRowMatchesReport ==
  \A j \in Jobs : Accepted(j) /\ RowIs(j, "completed") =>
                    record[j].commit = report[j].commit /\ record[j].key = report[j].commit

\* The status page takes ai_fallback from the snapshot and the insights from
\* the report: the two agree.
StatusPageAgrees ==
  \A j \in Jobs : ShownAs(j, "completed") => snap[j].fallback = report[j].fallback

\* The row of an accepted job carries an error exactly when it is failed,
\* although SQLAlchemy writes only the columns that changed under it.
ErrorIffFailed ==
  \A j \in Jobs : Accepted(j) => record[j].error = RowIs(j, "failed")

\* Once the message is deleted the job is completed for every reader: the
\* else block of run_worker deletes last.
AckedMeansDone ==
  \A j \in Jobs : Accepted(j) /\ message[j].place = "acked" =>
                    RowIs(j, "completed") /\ (snap[j] = None \/ ShownAs(j, "completed"))

\* While no key expires, the instant data shown to the client from the first
\* poll on stays through retries, until the job fails for good.
InstantDataKept ==
  \A j \in Jobs : snap[j] # None => snap[j].instant \/ ShownAs(j, "failed")

\* While no key expires and nobody pushes, an analysis that was saved is never
\* replaced by a fallback when the message is redelivered: the insights are
\* cached before the report is saved.
ReportNotDowngraded ==
  [][\A j \in Jobs : report[j] # None /\ report[j].insights # None =>
                        report'[j] = report[j]]_vars

\* With workers that do not die, a message in the DLQ has a failed job:
\* "after max attempts it goes to the DLQ and the job is marked failed".
DeadMeansFailed ==
  \A j \in Jobs : Accepted(j) /\ message[j].place = "dead" => RowIs(j, "failed")

-----------------------------------------------------------------------------
(* Liveness, under FairSpec.                                               *)

\* With workers that do not die, an accepted job ends completed or failed in
\* the row and on the status page alike, and stays so.
Ended(j, status) == RowIs(j, status) /\ ShownAs(j, status)
JobsSettle ==
  \A j \in Jobs : Accepted(j) ~> [](Ended(j, "completed") \/ Ended(j, "failed"))

-----------------------------------------------------------------------------
(* The ledger of JobLedger that this system keeps.                         *)

ClientAnswer(j) ==
  IF submission[j].pc \in {"accepted", "refused"} THEN submission[j].pc ELSE "waiting"

WorkItem(j) ==
  CASE message[j].place = "unsent" -> "none"
    [] message[j].place \in {"ready", "flight"} -> "open"
    [] message[j].place = "acked" -> "closed"
    [] OTHER -> "buried"

Ledger == INSTANCE JobLedger WITH
  client <- [j \in Jobs |-> ClientAnswer(j)],
  work <- [j \in Jobs |-> WorkItem(j)],
  reported <- [j \in Jobs |-> report[j] # None]

\* Every step keeps the ledger: work is closed only with a report, and a
\* client is told accepted only with work or a report behind it.
KeepsLedger == Ledger!LedgerSpec

\* Moreover, for ever repeated crashes, raising calls and early redeliveries,
\* no message stays in the queue for ever: it is acked or dead-lettered.
KeepsLiveLedger == Ledger!LiveLedgerSpec

-----------------------------------------------------------------------------
(* What a document of the repository says and the code does not do.        *)

\* README.md:62: "after max attempts it goes to the DLQ and the job is marked
\* failed".
DeadLetterMarkedFailed == DeadMeansFailed
=============================================================================
