-------------------------- MODULE ExclusiveProofs --------------------------
(***************************************************************************)
(* Proofs about ResearchJobs as long as no visibility timeout runs out     *)
(* under a worker ("late" is no fault), for every set of jobs, workers and *)
(* commits, every bound on receives and every other fault: one worker at a *)
(* time handles a job, and row, report, snapshot and cache agree.          *)
(***************************************************************************)
EXTENDS ResearchJobsProofs

\* The pipeline has replaced the snapshot of an earlier attempt.
ShownPcs == PipelinePcs \ {"peek", "show_processing"}

\* The pipeline has looked for insights, and has not saved its report.
InsightPcs == {"show_running", "analyze", "store_insights", "load_report", "save_report"}

\* The report is the one of this attempt.
ReportedPcs == {"load_completed", "mark_completed", "show_completed"}

\* The row is processing; the row has the commit of this attempt.
WorkingPcs == {"fetch"} \cup (FetchedPcs \ {"show_completed"})
PreparedPcs == {"lookup", "show_running", "analyze", "store_insights", "load_report",
                "save_report", "load_completed", "mark_completed"}

\* The delivery in hand is the last one of a message in flight.
HasDelivery(w, j) ==
  message[j].place = "flight" /\ worker[w].receive = message[j].receives

\* What worker w knows of insights, report and snapshot of job j.
KnowsReport(w, j) ==
  /\ worker[w].pc \in InsightPcs => worker[w].insights \in {None, worker[w].commit}
  /\ worker[w].pc = "save_report" => worker[w].loaded = report[j]
  /\ worker[w].pc \in ShownPcs => ~ShownAs(j, "completed")
  /\ worker[w].pc \in ReportedPcs =>
       /\ report[j].commit = worker[w].commit
       /\ report[j].fallback = FallbackFlag(worker[w].reason)

\* What it knows of the row, which nobody else writes once the job is accepted.
KnowsRow(w, j) ==
  /\ worker[w].pc \in MarkPcs => worker[w].loaded = record[j]
  /\ worker[w].pc \in WorkingPcs => RowIs(j, "processing")
  /\ worker[w].pc \in PreparedPcs =>
       record[j].commit = worker[w].commit /\ record[j].key = worker[w].commit
  /\ worker[w].pc \in {"show_completed", "ack"} => RowIs(j, "completed")
  /\ worker[w].pc = "ack" => snap[j] = None \/ ShownAs(j, "completed")

AttemptInv(w, j) ==
  HasDelivery(w, j) /\ KnowsReport(w, j) /\ (Accepted(j) => KnowsRow(w, j))

\* The row of a request that has not failed yet.
RequestedRow(j) ==
  [status |-> IF submission[j].pc = "show_completed" THEN "completed" ELSE "pending",
   error |-> FALSE, commit |-> submission[j].commit, key |-> submission[j].commit]

RequestAgrees(j) ==
  /\ submission[j].pc \in BeforeSend \ {"fetch", "create"} => record[j] = RequestedRow(j)
  /\ submission[j].pc \in BeforeSend => ~ShownAs(j, "completed")
  /\ submission[j].pc = "save" => submission[j].insights \in {None, submission[j].commit}
  /\ submission[j].pc \in {"complete", "show_completed"} =>
       report[j].commit = submission[j].commit /\ ~report[j].fallback

\* The stores agree on job j.
JobAgrees(j) ==
  /\ report[j] # None => report[j].insights \in {None, report[j].commit}
  /\ ShownAs(j, "completed") => snap[j].fallback = report[j].fallback
  /\ Accepted(j) =>
       /\ RowIs(j, "completed") =>
            record[j].commit = report[j].commit /\ record[j].key = report[j].commit
       /\ record[j].error = RowIs(j, "failed")
       /\ message[j].place = "acked" =>
            RowIs(j, "completed") /\ (snap[j] = None \/ ShownAs(j, "completed"))

CacheAgrees == \A c \in Commits : aiCache[c] \in {None, c}

AgreeInv ==
  /\ \A w \in Workers, j \in Jobs : Holds(w, j) => AttemptInv(w, j)
  /\ \A j \in Jobs : RequestAgrees(j) /\ JobAgrees(j)
  /\ CacheAgrees
  /\ ExclusiveProcessing

-----------------------------------------------------------------------------
(* What a step leaves alone.                                               *)

\* One worker handles a job, and its request is over or has failed.
LEMMA Sole ==
  ASSUME IInv, AgreeInv, NEW w \in Workers, NEW j \in Jobs, Holds(w, j)
  PROVE  /\ AttemptInv(w, j) /\ JobAgrees(j) /\ RequestAgrees(j)
         /\ submission[j].pc \notin BeforeSend
         /\ \A v \in Workers \ {w} : ~Holds(v, j)
<1>1. AttemptInv(w, j) /\ JobAgrees(j) /\ RequestAgrees(j)
  BY DEF AgreeInv
<1>2. submission[j].pc \notin BeforeSend
  BY <1>1 DEF IInv, RequestInv, AttemptInv, HasDelivery
<1> QED BY <1>1, <1>2 DEF AgreeInv, ExclusiveProcessing

\* No worker handles a job that its request has not sent.
LEMMA Unheld ==
  ASSUME IInv, AgreeInv, NEW j \in Jobs, message[j].place # "flight"
  PROVE  \A w \in Workers : ~Holds(w, j)
BY DEF AgreeInv, AttemptInv, HasDelivery

\* A worker and a job that a step does not touch.
LEMMA AttemptKept ==
  ASSUME NEW w \in Workers, NEW j \in Jobs, AttemptInv(w, j), worker'[w] = worker[w],
         record'[j] = record[j], report'[j] = report[j], snap'[j] = snap[j],
         message'[j] = message[j], Accepted(j)' => Accepted(j)
  PROVE  AttemptInv(w, j)'
<1>1. HasDelivery(w, j)'
  BY DEF AttemptInv, HasDelivery
<1>2. KnowsReport(w, j)'
  BY DEF AttemptInv, KnowsReport, ShownAs
<1>3. Accepted(j)' => KnowsRow(w, j)'
  BY DEF AttemptInv, KnowsRow, ShownAs, RowIs
<1> QED BY <1>1, <1>2, <1>3 DEF AttemptInv

\* A job and a request that a step does not touch.
LEMMA AgreesKept ==
  ASSUME NEW j \in Jobs, JobAgrees(j), RequestAgrees(j), submission'[j] = submission[j],
         record'[j] = record[j], report'[j] = report[j], snap'[j] = snap[j],
         message'[j] = message[j]
  PROVE  JobAgrees(j)' /\ RequestAgrees(j)'
<1>1. JobAgrees(j)'
  BY DEF JobAgrees, Accepted, RowIs, ShownAs
<1>2. RequestAgrees(j)'
  BY DEF RequestAgrees, RequestedRow, ShownAs
<1> QED BY <1>1, <1>2

\* A worker touches its own job only.
LEMMA AttemptCloses ==
  ASSUME IInv, AgreeInv, NEW w \in Workers, NEW j \in Jobs, Holds(w, j),
         UNCHANGED submission,
         worker'[w].pc = "poll" \/ (worker'[w].job = j /\ AttemptInv(w, j)'),
         JobAgrees(j)', CacheAgrees',
         \A v \in Workers \ {w} : worker'[v] = worker[v],
         \A i \in Jobs \ {j} : /\ record'[i] = record[i] /\ report'[i] = report[i]
                               /\ snap'[i] = snap[i] /\ message'[i] = message[i]
  PROVE  AgreeInv'
<1>1. /\ submission[j].pc \notin BeforeSend
      /\ \A v \in Workers \ {w} : ~Holds(v, j)
  BY Sole
<1>2. ASSUME NEW v \in Workers, NEW i \in Jobs, Holds(v, i)'
      PROVE  AttemptInv(v, i)' /\ (v # w => Holds(v, i) /\ i # j) /\ (v = w => i = j)
  <2>1. CASE v = w
    BY <1>2, <2>1 DEF Holds
  <2>2. CASE v # w
    <3>1. worker'[v] = worker[v] /\ Holds(v, i) /\ i # j
      BY <1>1, <1>2, <2>2 DEF Holds
    <3>2. AttemptInv(v, i) /\ Accepted(i)' = Accepted(i)
      BY <3>1 DEF AgreeInv, Accepted
    <3> QED BY <2>2, <3>1, <3>2, AttemptKept
  <2> QED BY <2>1, <2>2
<1>3. ASSUME NEW i \in Jobs PROVE JobAgrees(i)' /\ RequestAgrees(i)'
  <2>1. CASE i = j
    BY <1>1, <2>1 DEF RequestAgrees, BeforeSend
  <2>2. CASE i # j
    BY <2>2, AgreesKept DEF AgreeInv
  <2> QED BY <2>1, <2>2
<1>4. ExclusiveProcessing'
  BY <1>2 DEF ExclusiveProcessing, AgreeInv
<1> QED BY <1>2, <1>3, <1>4 DEF AgreeInv

\* A request touches its own job only, and no worker moves.
LEMMA RequestCloses ==
  ASSUME AgreeInv, NEW j \in Jobs, UNCHANGED <<worker, aiCache>>,
         \A w \in Workers : Holds(w, j) => AttemptInv(w, j)',
         JobAgrees(j)', RequestAgrees(j)',
         \A i \in Jobs \ {j} :
           /\ submission'[i] = submission[i] /\ record'[i] = record[i]
           /\ report'[i] = report[i] /\ snap'[i] = snap[i] /\ message'[i] = message[i]
  PROVE  AgreeInv'
<1>1. \A w \in Workers, i \in Jobs : Holds(w, i)' <=> Holds(w, i)
  BY DEF Holds
<1>2. ASSUME NEW w \in Workers, NEW i \in Jobs, Holds(w, i)'
      PROVE  AttemptInv(w, i)'
  <2>1. CASE i = j
    BY <1>1, <1>2, <2>1
  <2>2. CASE i # j
    BY <1>1, <1>2, <2>2, AttemptKept DEF AgreeInv, Accepted
  <2> QED BY <2>1, <2>2
<1>3. ASSUME NEW i \in Jobs PROVE JobAgrees(i)' /\ RequestAgrees(i)'
  BY AgreesKept DEF AgreeInv
<1>4. ExclusiveProcessing' /\ CacheAgrees'
  BY <1>1 DEF AgreeInv, ExclusiveProcessing, CacheAgrees
<1> QED BY <1>2, <1>3, <1>4 DEF AgreeInv

-----------------------------------------------------------------------------
\* At first there is nothing to agree on.
LEMMA InitAgrees == Init => AgreeInv
<1> SUFFICES ASSUME Init PROVE AgreeInv
  OBVIOUS
<1> USE DEF Init, BackendsInit, QueueInit, SubmissionInit, WorkerInit
<1>1. \A w \in Workers, j \in Jobs : ~Holds(w, j)
  BY DEF Holds, Polling
<1>2. \A j \in Jobs : JobAgrees(j)
  BY DEF JobAgrees, Accepted, ShownAs, NewRequest
<1>3. \A j \in Jobs : RequestAgrees(j)
  BY DEF RequestAgrees, ShownAs, NewRequest
<1> QED BY <1>1, <1>2, <1>3 DEF AgreeInv, CacheAgrees, ExclusiveProcessing

-----------------------------------------------------------------------------
(* The steps of a worker that read, raise or die.                          *)

\* A worker that holds a message: its types, its job and what it knows.
LEMMA InHand ==
  ASSUME IInv, AgreeInv, NEW w \in Workers, worker[w].pc # "poll"
  PROVE  /\ WorkerTypeOK /\ worker[w] \in WorkerStates /\ BackendsTypeOK
         /\ \E j \in Jobs : /\ j = worker[w].job /\ Holds(w, j) /\ HandlingInv(w)
                            /\ record[j] \in Rows
                            /\ AttemptInv(w, j) /\ JobAgrees(j)
<1>1. /\ TypeOK /\ worker[w].job \in Jobs /\ HandlingInv(w) /\ worker[w] \in WorkerStates
      /\ record[worker[w].job] \in Rows
  BY Handling
<1>2. PICK j \in Jobs : j = worker[w].job
  BY <1>1
<1>3. Holds(w, j)
  BY <1>2 DEF Holds
<1>4. AttemptInv(w, j) /\ JobAgrees(j)
  BY <1>3, Sole
<1> QED BY <1>1, <1>2, <1>3, <1>4 DEF TypeOK

\* A step that writes nothing needs to account for its worker only.
LEMMA ReadCloses ==
  ASSUME IInv, AgreeInv, NEW w \in Workers, NEW j \in Jobs, Holds(w, j),
         UNCHANGED <<submission, backends, message>>,
         worker'[w].job = j, worker'[w].receive = worker[w].receive,
         \A v \in Workers \ {w} : worker'[v] = worker[v],
         KnowsReport(w, j)', Accepted(j) => KnowsRow(w, j)'
  PROVE  AgreeInv'
<1>1. AttemptInv(w, j) /\ JobAgrees(j) /\ RequestAgrees(j)
  BY Sole
<1>2. AttemptInv(w, j)'
  BY <1>1 DEF AttemptInv, HasDelivery, Accepted
<1>3. JobAgrees(j)' /\ CacheAgrees'
  BY <1>1, AgreesKept DEF backends, CacheAgrees, AgreeInv
<1> QED BY <1>2, <1>3, AttemptCloses DEF backends

\* Peek and Fetch: nothing is known yet of what they read.
LEMMA PeekAgrees ==
  ASSUME IInv, AgreeInv, NEW w \in Workers, Peek(w), UNCHANGED submission
  PROVE  AgreeInv'
<1>1. worker[w].pc = "peek" /\ UNCHANGED <<backends, message>>
  BY DEF Peek
<1>2. PICK j \in Jobs : j = worker[w].job /\ Holds(w, j) /\ AttemptInv(w, j)
  BY <1>1, InHand
<1>3. /\ worker'[w].pc = "show_processing" /\ worker'[w].job = j
      /\ worker'[w].receive = worker[w].receive
      /\ \A v \in Workers \ {w} : worker'[v] = worker[v]
  BY <1>1, <1>2, InHand DEF Peek, WorkerTypeOK, WorkerStates
<1>4. KnowsReport(w, j)' /\ KnowsRow(w, j)'
  BY <1>3 DEF KnowsReport, KnowsRow, InsightPcs, ShownPcs, ReportedPcs, MarkPcs, WorkingPcs,
              FetchedPcs, PreparedPcs
<1> QED BY <1>1, <1>2, <1>3, <1>4, ReadCloses

\* The attempt has a commit; the row is still processing.
LEMMA FetchAgrees ==
  ASSUME IInv, AgreeInv, NEW w \in Workers, Fetch(w), UNCHANGED submission
  PROVE  AgreeInv'
<1>1. worker[w].pc = "fetch" /\ UNCHANGED <<backends, message>>
  BY DEF Fetch
<1>2. PICK j \in Jobs : j = worker[w].job /\ Holds(w, j) /\ AttemptInv(w, j)
  BY <1>1, InHand
<1>3. /\ worker'[w].pc = "show_preparing" /\ worker'[w].job = j
      /\ worker'[w].receive = worker[w].receive
      /\ \A v \in Workers \ {w} : worker'[v] = worker[v]
  BY <1>1, <1>2, InHand DEF Fetch, WorkerTypeOK, WorkerStates
<1>4. KnowsReport(w, j)'
  BY <1>1, <1>2, <1>3 DEF AttemptInv, KnowsReport, InsightPcs, ShownPcs, ReportedPcs,
                          PipelinePcs, ShownAs, backends
<1>5. Accepted(j) => KnowsRow(w, j)'
  BY <1>1, <1>2, <1>3 DEF AttemptInv, KnowsRow, MarkPcs, WorkingPcs, FetchedPcs, PreparedPcs,
                          RowIs, backends
<1> QED BY <1>1, <1>2, <1>3, <1>4, <1>5, ReadCloses

\* update_job_status holds the row as it is.
LEMMA LoadRowAgrees ==
  ASSUME IInv, AgreeInv, NEW w \in Workers, LoadRow(w), UNCHANGED submission
  PROVE  AgreeInv'
<1> DEFINE mark == MarkAfter[worker[w].pc]
<1>1. /\ worker[w].pc \in {"load_processing", "load_preparing", "load_completed", "load_failed"}
      /\ UNCHANGED <<backends, message>>
  BY DEF LoadRow, MarkAfter
<1>2. PICK j \in Jobs : j = worker[w].job /\ Holds(w, j) /\ AttemptInv(w, j)
  BY <1>1, InHand
<1>3. /\ worker[w].pc = "load_processing" => mark = "mark_processing"
      /\ worker[w].pc = "load_preparing" => mark = "mark_preparing"
      /\ worker[w].pc = "load_completed" => mark = "mark_completed"
      /\ worker[w].pc = "load_failed" => mark = "mark_failed"
  BY DEF MarkAfter
<1> HIDE DEF mark
<1>4. worker[w].pc # "poll"
  BY <1>1
<1>5. /\ worker'[w].pc = mark /\ worker'[w].job = j /\ worker'[w].loaded = record[j]
      /\ worker'[w].receive = worker[w].receive /\ worker'[w].commit = worker[w].commit
      /\ worker'[w].reason = worker[w].reason
      /\ \A v \in Workers \ {w} : worker'[v] = worker[v]
  BY <1>2, <1>4, InHand DEF LoadRow, WorkerTypeOK, WorkerStates, mark
<1>6. KnowsReport(w, j)'
  BY <1>1, <1>2, <1>3, <1>5 DEF AttemptInv, KnowsReport, InsightPcs, ShownPcs, ReportedPcs,
                                PipelinePcs, ShownAs, backends
<1>7. Accepted(j) => KnowsRow(w, j)'
  BY <1>1, <1>2, <1>3, <1>5 DEF AttemptInv, KnowsRow, MarkPcs, WorkingPcs, FetchedPcs,
                                PreparedPcs, RowIs, backends
<1> QED BY <1>1, <1>2, <1>5, <1>6, <1>7, ReadCloses

\* The insights found are those of the commit, since the cache agrees.
LEMMA LookupAgrees ==
  ASSUME IInv, AgreeInv, NEW w \in Workers, Lookup(w), UNCHANGED submission
  PROVE  AgreeInv'
<1> DEFINE cached == aiCache[worker[w].commit]
           next == IF cached = None THEN "show_running" ELSE "load_report"
<1>1. worker[w].pc = "lookup" /\ UNCHANGED <<backends, message>>
  BY DEF Lookup
<1>2. PICK j \in Jobs : j = worker[w].job /\ Holds(w, j) /\ AttemptInv(w, j)
                        /\ worker[w].commit \in Commits
  BY <1>1, InHand DEF HandlingInv, FetchedPcs
<1>3. cached \in {None, worker[w].commit} /\ next \in {"show_running", "load_report"}
  BY <1>2 DEF AgreeInv, CacheAgrees
<1>4. worker' = [worker EXCEPT ![w].pc = next, ![w].insights = cached]
  BY DEF Lookup
<1> HIDE DEF cached, next
<1>5. /\ worker'[w].pc = next /\ worker'[w].job = j /\ worker'[w].insights = cached
      /\ worker'[w].receive = worker[w].receive /\ worker'[w].commit = worker[w].commit
      /\ \A v \in Workers \ {w} : worker'[v] = worker[v]
  BY <1>1, <1>2, <1>4, InHand DEF WorkerTypeOK, WorkerStates
<1>6. KnowsReport(w, j)'
  BY <1>1, <1>2, <1>3, <1>5 DEF AttemptInv, KnowsReport, InsightPcs, ShownPcs, ReportedPcs,
                                PipelinePcs, ShownAs, backends
<1>7. Accepted(j) => KnowsRow(w, j)'
  BY <1>1, <1>2, <1>3, <1>5 DEF AttemptInv, KnowsRow, MarkPcs, WorkingPcs, FetchedPcs,
                                PreparedPcs, RowIs, backends
<1> QED BY <1>1, <1>2, <1>5, <1>6, <1>7, ReadCloses

\* Fresh insights are those of the commit; a fallback keeps what was found.
LEMMA AnalyzeAgrees ==
  ASSUME IInv, AgreeInv, NEW w \in Workers, AnalyzeSucceeds(w) \/ AnalyzeFallsBack(w),
         UNCHANGED submission
  PROVE  AgreeInv'
<1>1. worker[w].pc = "analyze" /\ UNCHANGED <<backends, message>>
  BY DEF AnalyzeSucceeds, AnalyzeFallsBack
<1>2. PICK j \in Jobs : j = worker[w].job /\ Holds(w, j) /\ AttemptInv(w, j)
  BY <1>1, InHand
<1>a. WorkerTypeOK /\ worker[w] \in WorkerStates
  BY <1>1, InHand
<1>3. /\ worker'[w].pc \in {"store_insights", "load_report"} /\ worker'[w].job = j
      /\ worker'[w].insights \in {worker[w].insights, worker[w].commit}
      /\ worker'[w].receive = worker[w].receive /\ worker'[w].commit = worker[w].commit
      /\ \A v \in Workers \ {w} : worker'[v] = worker[v]
  <2>1. CASE AnalyzeSucceeds(w)
    BY <1>2, <1>a, <2>1 DEF AnalyzeSucceeds, WorkerTypeOK, WorkerStates
  <2>2. CASE AnalyzeFallsBack(w)
    BY <1>2, <1>a, <2>2 DEF AnalyzeFallsBack, WorkerTypeOK, WorkerStates
  <2> QED BY <2>1, <2>2
<1>4. KnowsReport(w, j)'
  BY <1>1, <1>2, <1>3 DEF AttemptInv, KnowsReport, InsightPcs, ShownPcs, ReportedPcs,
                          PipelinePcs, ShownAs, backends
<1>5. Accepted(j) => KnowsRow(w, j)'
  BY <1>1, <1>2, <1>3 DEF AttemptInv, KnowsRow, MarkPcs, WorkingPcs, FetchedPcs,
                          PreparedPcs, RowIs, backends
<1> QED BY <1>1, <1>2, <1>3, <1>4, <1>5, ReadCloses

\* save_final_report holds the report as it is.
LEMMA LoadReportAgrees ==
  ASSUME IInv, AgreeInv, NEW w \in Workers, LoadReport(w), UNCHANGED submission
  PROVE  AgreeInv'
<1>1. worker[w].pc = "load_report" /\ UNCHANGED <<backends, message>>
  BY DEF LoadReport
<1>2. PICK j \in Jobs : j = worker[w].job /\ Holds(w, j) /\ AttemptInv(w, j)
  BY <1>1, InHand
<1>3. /\ worker'[w].pc = "save_report" /\ worker'[w].job = j
      /\ worker'[w].loaded = report[j] /\ worker'[w].insights = worker[w].insights
      /\ worker'[w].receive = worker[w].receive /\ worker'[w].commit = worker[w].commit
      /\ \A v \in Workers \ {w} : worker'[v] = worker[v]
  BY <1>1, <1>2, InHand DEF LoadReport, WorkerTypeOK, WorkerStates
<1>4. KnowsReport(w, j)'
  BY <1>1, <1>2, <1>3 DEF AttemptInv, KnowsReport, InsightPcs, ShownPcs, ReportedPcs,
                          PipelinePcs, ShownAs, backends
<1>5. Accepted(j) => KnowsRow(w, j)'
  BY <1>1, <1>2, <1>3 DEF AttemptInv, KnowsRow, MarkPcs, WorkingPcs, FetchedPcs,
                          PreparedPcs, RowIs, backends
<1> QED BY <1>1, <1>2, <1>3, <1>4, <1>5, ReadCloses

\* Raise, RaiseIntegrityError: the except block knows its delivery only.
LEMMA CatchAgrees ==
  ASSUME IInv, AgreeInv, NEW w \in Workers, worker[w].pc # "poll", Catch(w),
         UNCHANGED submission
  PROVE  AgreeInv'
<1>1. Leave(w, OnException(w)) /\ UNCHANGED <<backends, message>>
  BY DEF Catch
<1>2. PICK j \in Jobs : j = worker[w].job /\ Holds(w, j) /\ AttemptInv(w, j)
  BY InHand
<1>3. OnException(w) \in {"load_failed", "release"} /\ OnException(w) \in HandlerPcs
  BY DEF OnException, HandlerPcs
<1>4. PICK to \in HandlerPcs : to = OnException(w)
  BY <1>3
<1>5. /\ worker'[w].pc = to /\ worker'[w].job = j
      /\ worker'[w].receive = worker[w].receive
      /\ \A v \in Workers \ {w} : worker'[v] = worker[v]
  BY <1>1, <1>2, <1>4, InHand, LeaveEffect
<1>6. KnowsReport(w, j)' /\ KnowsRow(w, j)'
  BY <1>3, <1>4, <1>5 DEF KnowsReport, KnowsRow, InsightPcs, ShownPcs, ReportedPcs, MarkPcs,
                          WorkingPcs, FetchedPcs, PreparedPcs, PipelinePcs
<1> QED BY <1>1, <1>2, <1>5, <1>6, ReadCloses

\* A worker that dies leaves the stores as they are.
LEMMA CrashAgrees ==
  ASSUME IInv, AgreeInv, NEW w \in Workers, Crash(w), UNCHANGED submission
  PROVE  AgreeInv'
<1>1. /\ worker[w].pc # "poll" /\ worker' = [worker EXCEPT ![w] = Polling]
      /\ UNCHANGED <<backends, message>>
  BY DEF Crash
<1>2. PICK j \in Jobs : j = worker[w].job /\ Holds(w, j) /\ JobAgrees(j)
  BY <1>1, InHand
<1>3. worker'[w].pc = "poll" /\ \A v \in Workers \ {w} : worker'[v] = worker[v]
  BY <1>1, InHand DEF WorkerTypeOK, Polling
<1>4. JobAgrees(j)' /\ CacheAgrees'
  BY <1>1, <1>2, AgreesKept DEF backends, CacheAgrees, AgreeInv
<1> QED BY <1>1, <1>2, <1>3, <1>4, AttemptCloses DEF backends

-----------------------------------------------------------------------------
(* The steps of a worker that write.                                       *)

\* A snapshot is written: the report and the row stay.
LEMMA ShowCloses ==
  ASSUME IInv, AgreeInv, NEW w \in Workers, NEW j \in Jobs, Holds(w, j),
         NEW s \in Snapshots, SetState(j, s),
         UNCHANGED <<submission, record, report, aiCache, message>>,
         worker'[w].job = j, worker'[w].receive = worker[w].receive,
         \A v \in Workers \ {w} : worker'[v] = worker[v],
         KnowsReport(w, j)', Accepted(j) => KnowsRow(w, j)',
         s.status = "completed" =>
           s.fallback = report[j].fallback /\ (Accepted(j) => RowIs(j, "completed"))
  PROVE  AgreeInv'
<1>1. AttemptInv(w, j) /\ JobAgrees(j)
  BY Sole
<1>2. /\ snap'[j] = s /\ \A i \in Jobs \ {j} : snap'[i] = snap[i]
  BY SetStateEffect DEF IInv, TypeOK, BackendsTypeOK
<1>3. AttemptInv(w, j)'
  BY <1>1 DEF AttemptInv, HasDelivery, Accepted
<1>4. JobAgrees(j)'
  BY <1>1, <1>2 DEF JobAgrees, AttemptInv, HasDelivery, Accepted, RowIs, ShownAs
<1>5. CacheAgrees'
  BY DEF CacheAgrees, AgreeInv
<1> QED BY <1>2, <1>3, <1>4, <1>5, AttemptCloses

\* Progress is shown: the snapshot is not completed any more.
LEMMA ShowProcessingAgrees ==
  ASSUME IInv, AgreeInv, NEW w \in Workers, ShowProcessing(w), UNCHANGED submission
  PROVE  AgreeInv'
<1>1. PICK from \in {"show_processing", "show_preparing", "show_running"},
           to \in {"load_processing", "load_preparing", "analyze"},
           instant \in {worker[w].instant, TRUE} :
        /\ ShowProgress(w, from, to, instant)
        /\ \/ from = "show_processing" /\ to = "load_processing"
           \/ from = "show_preparing" /\ to = "load_preparing"
           \/ from = "show_running" /\ to = "analyze"
  BY DEF ShowProcessing
<1> DEFINE s == Snapshot("processing", instant)
<1>2. /\ Goto(w, from, to) /\ SetState(worker[w].job, s) /\ worker[w].pc = from
      /\ UNCHANGED <<record, report, aiCache, head, message>>
  BY <1>1 DEF ShowProgress, Goto
<1>3. worker[w].pc # "poll"
  BY <1>1, <1>2
<1>4. PICK j \in Jobs : j = worker[w].job /\ Holds(w, j) /\ AttemptInv(w, j)
  BY <1>3, InHand
<1>5. s \in Snapshots /\ s.status = "processing"
  BY <1>3, InHand DEF Snapshot, Snapshots, Statuses, WorkerStates
<1> HIDE DEF s
<1>6. to \in PipelinePcs
  BY <1>1 DEF PipelinePcs
<1>7. /\ worker'[w].pc = to /\ worker'[w].job = j /\ worker'[w].insights = worker[w].insights
      /\ worker'[w].receive = worker[w].receive /\ worker'[w].commit = worker[w].commit
      /\ \A v \in Workers \ {w} : worker'[v] = worker[v]
  BY <1>2, <1>3, <1>4, <1>6, InHand, GotoEffect
<1>8. snap'[j] = s
  BY <1>2, <1>4, <1>5, SetStateEffect DEF IInv, TypeOK, BackendsTypeOK
<1>9. KnowsReport(w, j)'
  BY <1>1, <1>2, <1>4, <1>5, <1>7, <1>8
     DEF AttemptInv, KnowsReport, InsightPcs, ReportedPcs, ShownAs
<1>10. Accepted(j) => KnowsRow(w, j)'
  BY <1>1, <1>2, <1>4, <1>7
     DEF AttemptInv, KnowsRow, MarkPcs, WorkingPcs, FetchedPcs, PreparedPcs, RowIs
<1> QED BY <1>2, <1>4, <1>5, <1>7, <1>9, <1>10, ShowCloses

\* The completed snapshot has the fallback of the report.
LEMMA ShowCompletedAgrees ==
  ASSUME IInv, AgreeInv, NEW w \in Workers, ShowCompleted(w), UNCHANGED submission
  PROVE  AgreeInv'
<1> DEFINE s == [Snapshot("completed", TRUE) EXCEPT !.fallback = FallbackFlag(worker[w].reason)]
<1>1. /\ worker[w].pc = "show_completed" /\ Leave(w, "ack") /\ SetState(worker[w].job, s)
      /\ UNCHANGED <<record, report, aiCache, head, message>>
  BY DEF ShowCompleted
<1>2. PICK j \in Jobs : j = worker[w].job /\ Holds(w, j) /\ AttemptInv(w, j)
  BY <1>1, InHand
<1>3. s \in Snapshots /\ s.status = "completed" /\ s.fallback = FallbackFlag(worker[w].reason)
  BY DEF Snapshot, Snapshots, Statuses, FallbackFlag
<1> HIDE DEF s
<1>4. /\ worker'[w].pc = "ack" /\ worker'[w].job = j
      /\ worker'[w].receive = worker[w].receive
      /\ \A v \in Workers \ {w} : worker'[v] = worker[v]
  BY <1>1, <1>2, InHand, LeaveEffect DEF HandlerPcs
<1>5. /\ s.fallback = report[j].fallback
      /\ Accepted(j) => RowIs(j, "completed")
  BY <1>1, <1>2, <1>3 DEF AttemptInv, KnowsReport, KnowsRow, ReportedPcs
<1>6. snap'[j] = s /\ s # None
  BY <1>1, <1>2, <1>3, SetStateEffect, NoneAssumption DEF IInv, TypeOK, BackendsTypeOK
<1>7. KnowsReport(w, j)'
  BY <1>4 DEF KnowsReport, InsightPcs, ReportedPcs, ShownPcs, PipelinePcs
<1>8. Accepted(j) => KnowsRow(w, j)'
  BY <1>1, <1>3, <1>4, <1>5, <1>6
     DEF KnowsRow, MarkPcs, WorkingPcs, FetchedPcs, PreparedPcs, RowIs, ShownAs
<1> QED BY <1>1, <1>2, <1>3, <1>4, <1>5, <1>7, <1>8, ShowCloses

\* The failed snapshot ends an attempt that failed.
LEMMA ShowFailedAgrees ==
  ASSUME IInv, AgreeInv, NEW w \in Workers, ShowFailed(w), UNCHANGED submission
  PROVE  AgreeInv'
<1> DEFINE s == Snapshot("failed", FALSE)
<1>1. /\ Goto(w, "show_failed", "release") /\ SetState(worker[w].job, s)
      /\ UNCHANGED <<record, report, aiCache, head, message>> /\ worker[w].pc = "show_failed"
  BY DEF ShowFailed, Goto
<1>2. PICK j \in Jobs : j = worker[w].job /\ Holds(w, j)
  BY <1>1, InHand
<1>3. s \in Snapshots /\ s.status = "failed"
  BY DEF Snapshot, Snapshots, Statuses
<1> HIDE DEF s
<1>4. /\ worker'[w].pc = "release" /\ worker'[w].job = j
      /\ worker'[w].receive = worker[w].receive
      /\ \A v \in Workers \ {w} : worker'[v] = worker[v]
  BY <1>1, <1>2, InHand, GotoEffect DEF HandlerPcs
<1>5. KnowsReport(w, j)' /\ KnowsRow(w, j)'
  BY <1>4 DEF KnowsReport, KnowsRow, InsightPcs, ReportedPcs, ShownPcs, PipelinePcs, MarkPcs,
              WorkingPcs, FetchedPcs, PreparedPcs
<1> QED BY <1>1, <1>2, <1>3, <1>4, <1>5, ShowCloses

\* A commit over the row that was loaded stores what is wanted.
LEMMA ExactUpdate ==
  ASSUME NEW j \in Jobs, record \in [Jobs -> Rows \cup {None}],
         NEW wanted \in Rows, record[j] \in Rows, UpdateRow(j, record[j], wanted)
  PROVE  record'[j] = wanted
<1>1. FlushRow(record[j], record[j], wanted) = wanted
  BY DEF FlushRow, Column, Rows
<1> QED BY <1>1 DEF UpdateRow

\* A row is committed: the report and the snapshot stay.  What is wanted of the
\* row matters for an accepted job only, whose row nobody else has written.
LEMMA CommitCloses ==
  ASSUME IInv, AgreeInv, NEW w \in Workers, worker[w].pc \in MarkPcs, UNCHANGED submission,
         NEW j \in Jobs, j = worker[w].job, NEW wanted \in Rows, CommitRow(w, wanted),
         NEW to \in PipelinePcs \cup HandlerPcs, Goto(w, worker[w].pc, to),
         to \notin MarkPcs \cup InsightPcs \cup {"ack"},
         to \in ShownPcs => worker[w].pc \in ShownPcs \cup {"mark_processing"},
         to \in ReportedPcs => worker[w].pc \in ReportedPcs,
         Accepted(j) =>
           /\ to \in WorkingPcs => wanted.status = "processing"
           /\ to \in PreparedPcs => wanted.commit = worker[w].commit /\ wanted.key = worker[w].commit
           /\ to = "show_completed" => wanted.status = "completed"
           /\ wanted.error = (wanted.status = "failed")
           /\ wanted.status = "completed" =>
                wanted.commit = report[j].commit /\ wanted.key = report[j].commit
  PROVE  AgreeInv'
<1>1. worker[w].pc # "poll" /\ "mark_processing" \in ShownPcs
  BY DEF MarkPcs, ShownPcs, PipelinePcs
<1>2. /\ Holds(w, j) /\ AttemptInv(w, j) /\ JobAgrees(j) /\ record[j] \in Rows
      /\ HandlingInv(w) /\ WorkerTypeOK /\ BackendsTypeOK
  BY <1>1, InHand
<1>3. /\ UpdateRow(j, worker[w].loaded, wanted)
      /\ UNCHANGED <<report, snap, aiCache, head, message>>
  BY DEF CommitRow
<1>4. worker[w].loaded \in Rows
  BY <1>1, <1>2 DEF HandlingInv
<1>5. \A i \in Jobs \ {j} : record'[i] = record[i]
  BY <1>2, <1>3, <1>4, UpdateRowEffect DEF BackendsTypeOK
<1>6. Accepted(j) => record'[j] = wanted
  BY <1>2, <1>3, ExactUpdate DEF AttemptInv, KnowsRow, BackendsTypeOK
<1>7. /\ worker'[w].pc = to /\ worker'[w].job = j
      /\ worker'[w].receive = worker[w].receive /\ worker'[w].commit = worker[w].commit
      /\ worker'[w].reason = worker[w].reason
      /\ \A v \in Workers \ {w} : worker'[v] = worker[v]
  BY <1>2, GotoEffect
<1>8. wanted # None
  BY NoneAssumption
<1>9. KnowsReport(w, j)'
  BY <1>1, <1>2, <1>3, <1>7 DEF AttemptInv, KnowsReport, ShownAs, InsightPcs
<1>10. Accepted(j) => KnowsRow(w, j)'
  BY <1>2, <1>6, <1>7, <1>8 DEF KnowsRow, RowIs
<1>11. AttemptInv(w, j)'
  BY <1>2, <1>3, <1>7, <1>9, <1>10 DEF AttemptInv, HasDelivery, Accepted
<1>12. JobAgrees(j)'
  BY <1>2, <1>3, <1>6, <1>8
     DEF JobAgrees, AttemptInv, HasDelivery, Accepted, RowIs, ShownAs
<1>13. CacheAgrees'
  BY <1>3 DEF CacheAgrees, AgreeInv
<1> QED BY <1>2, <1>3, <1>5, <1>7, <1>11, <1>12, <1>13, AttemptCloses

\* The row is processing, with the error of an earlier attempt removed.
LEMMA MarkProcessingAgrees ==
  ASSUME IInv, AgreeInv, NEW w \in Workers, MarkProcessing(w), UNCHANGED submission
  PROVE  AgreeInv'
<1> DEFINE wanted == [worker[w].loaded EXCEPT !.status = "processing", !.error = FALSE]
<1>1. /\ Goto(w, worker[w].pc, "fetch") /\ CommitRow(w, wanted)
      /\ worker[w].pc = "mark_processing"
  BY DEF MarkProcessing, Goto
<1>2. PICK j \in Jobs : j = worker[w].job /\ HandlingInv(w)
  BY <1>1, InHand
<1>3. worker[w].loaded \in Rows
  BY <1>1, <1>2 DEF HandlingInv, MarkPcs
<1>4. wanted \in Rows /\ wanted.status = "processing" /\ wanted.error = FALSE
  BY <1>3 DEF Rows, Statuses
<1> HIDE DEF wanted
<1>5. /\ "fetch" \in PipelinePcs \cup HandlerPcs
      /\ "fetch" \notin MarkPcs \cup InsightPcs \cup {"ack"} \cup ReportedPcs \cup PreparedPcs
      /\ worker[w].pc \in MarkPcs
  BY <1>1 DEF PipelinePcs, MarkPcs, InsightPcs, ReportedPcs, PreparedPcs
<1> QED BY <1>1, <1>2, <1>4, <1>5, CommitCloses

\* The row gets the commit of this attempt and stays processing.
LEMMA MarkPreparingAgrees ==
  ASSUME IInv, AgreeInv, NEW w \in Workers, MarkPreparing(w), UNCHANGED submission
  PROVE  AgreeInv'
<1> DEFINE wanted == [worker[w].loaded EXCEPT !.commit = worker[w].commit,
                                              !.key = worker[w].commit]
<1>1. /\ Goto(w, worker[w].pc, "lookup") /\ CommitRow(w, wanted)
      /\ worker[w].pc = "mark_preparing"
  BY DEF MarkPreparing, Goto
<1>2. PICK j \in Jobs : j = worker[w].job /\ HandlingInv(w) /\ AttemptInv(w, j) /\ JobAgrees(j)
  BY <1>1, InHand
<1>3. worker[w].loaded \in Rows /\ worker[w].commit \in Commits
  BY <1>1, <1>2 DEF HandlingInv, MarkPcs, FetchedPcs
<1>4. /\ wanted \in Rows /\ wanted.status = worker[w].loaded.status
      /\ wanted.error = worker[w].loaded.error
      /\ wanted.commit = worker[w].commit /\ wanted.key = worker[w].commit
  BY <1>3 DEF Rows
<1> HIDE DEF wanted
<1>5. Accepted(j) => wanted.status = "processing" /\ wanted.error = FALSE
  BY <1>1, <1>2, <1>4 DEF AttemptInv, KnowsRow, JobAgrees, MarkPcs, WorkingPcs, FetchedPcs,
                          RowIs
<1>6. /\ "lookup" \in PipelinePcs \cup HandlerPcs
      /\ "lookup" \notin MarkPcs \cup InsightPcs \cup {"ack"} \cup ReportedPcs
      /\ worker[w].pc \in MarkPcs \cap ShownPcs
  BY <1>1 DEF PipelinePcs, MarkPcs, InsightPcs, ReportedPcs, ShownPcs
<1> QED BY <1>1, <1>2, <1>4, <1>5, <1>6, CommitCloses

\* The row is completed, with commit and key of the report.
LEMMA MarkCompletedAgrees ==
  ASSUME IInv, AgreeInv, NEW w \in Workers, MarkCompleted(w), UNCHANGED submission
  PROVE  AgreeInv'
<1> DEFINE wanted == [worker[w].loaded EXCEPT !.status = "completed", !.error = FALSE,
                                              !.key = worker[w].commit]
<1>1. /\ Goto(w, worker[w].pc, "show_completed") /\ CommitRow(w, wanted)
      /\ worker[w].pc = "mark_completed"
  BY DEF MarkCompleted, Goto
<1>2. PICK j \in Jobs : j = worker[w].job /\ HandlingInv(w) /\ AttemptInv(w, j)
  BY <1>1, InHand
<1>3. worker[w].loaded \in Rows /\ worker[w].commit \in Commits
  BY <1>1, <1>2 DEF HandlingInv, MarkPcs, FetchedPcs
<1>4. /\ wanted \in Rows /\ wanted.status = "completed" /\ wanted.error = FALSE
      /\ wanted.commit = worker[w].loaded.commit /\ wanted.key = worker[w].commit
  BY <1>3 DEF Rows, Statuses
<1> HIDE DEF wanted
<1>5. Accepted(j) => wanted.commit = report[j].commit /\ wanted.key = report[j].commit
  BY <1>1, <1>2, <1>4 DEF AttemptInv, KnowsRow, KnowsReport, MarkPcs, PreparedPcs, ReportedPcs
<1>6. /\ "show_completed" \in PipelinePcs \cup HandlerPcs
      /\ "show_completed" \notin MarkPcs \cup InsightPcs \cup {"ack"} \cup WorkingPcs \cup PreparedPcs
      /\ worker[w].pc \in MarkPcs \cap ShownPcs \cap ReportedPcs
  BY <1>1 DEF PipelinePcs, MarkPcs, InsightPcs, ReportedPcs, ShownPcs, WorkingPcs, PreparedPcs
<1> QED BY <1>1, <1>2, <1>4, <1>5, <1>6, CommitCloses

\* The row is failed and has an error.
LEMMA MarkFailedAgrees ==
  ASSUME IInv, AgreeInv, NEW w \in Workers, MarkFailed(w), UNCHANGED submission
  PROVE  AgreeInv'
<1> DEFINE wanted == [worker[w].loaded EXCEPT !.status = "failed", !.error = TRUE]
<1>1. /\ Goto(w, worker[w].pc, "show_failed") /\ CommitRow(w, wanted)
      /\ worker[w].pc = "mark_failed"
  BY DEF MarkFailed, Goto
<1>2. PICK j \in Jobs : j = worker[w].job /\ HandlingInv(w)
  BY <1>1, InHand
<1>3. worker[w].loaded \in Rows
  BY <1>1, <1>2 DEF HandlingInv, MarkPcs
<1>4. wanted \in Rows /\ wanted.status = "failed" /\ wanted.error = TRUE
  BY <1>3 DEF Rows, Statuses
<1> HIDE DEF wanted
<1>5. /\ "show_failed" \in PipelinePcs \cup HandlerPcs
      /\ "show_failed" \notin MarkPcs \cup InsightPcs \cup {"ack"} \cup ReportedPcs
                              \cup PreparedPcs \cup WorkingPcs \cup ShownPcs
      /\ worker[w].pc \in MarkPcs
  BY <1>1 DEF PipelinePcs, HandlerPcs, MarkPcs, InsightPcs, ReportedPcs, PreparedPcs,
              WorkingPcs, FetchedPcs, ShownPcs
<1> QED BY <1>1, <1>2, <1>4, <1>5, CommitCloses

\* The cache gets insights of its commit.
LEMMA StoreInsightsAgrees ==
  ASSUME IInv, AgreeInv, NEW w \in Workers, StoreInsights(w), UNCHANGED submission
  PROVE  AgreeInv'
<1>1. /\ Goto(w, "store_insights", "load_report") /\ worker[w].pc = "store_insights"
      /\ aiCache' = [aiCache EXCEPT ![worker[w].commit] = worker[w].insights]
      /\ UNCHANGED <<record, report, snap, message>>
  BY DEF StoreInsights, SetInsights, Goto
<1>2. PICK j \in Jobs : j = worker[w].job /\ Holds(w, j) /\ AttemptInv(w, j) /\ JobAgrees(j)
  BY <1>1, InHand
<1>3. worker[w].insights \in {None, worker[w].commit}
  BY <1>1, <1>2 DEF AttemptInv, KnowsReport, InsightPcs
<1>4. CacheAgrees'
  BY <1>1, <1>3, InHand DEF CacheAgrees, AgreeInv, BackendsTypeOK
<1>5. /\ worker'[w].pc = "load_report" /\ worker'[w].job = j
      /\ worker'[w].insights = worker[w].insights
      /\ worker'[w].receive = worker[w].receive /\ worker'[w].commit = worker[w].commit
      /\ \A v \in Workers \ {w} : worker'[v] = worker[v]
  BY <1>1, <1>2, InHand, GotoEffect DEF PipelinePcs
<1>6. KnowsReport(w, j)'
  BY <1>1, <1>2, <1>3, <1>5 DEF AttemptInv, KnowsReport, InsightPcs, ShownPcs, ReportedPcs,
                                PipelinePcs, ShownAs
<1>7. Accepted(j) => KnowsRow(w, j)'
  BY <1>1, <1>2, <1>5 DEF AttemptInv, KnowsRow, MarkPcs, WorkingPcs, FetchedPcs,
                          PreparedPcs, RowIs
<1>8. AttemptInv(w, j)'
  BY <1>1, <1>2, <1>5, <1>6, <1>7 DEF AttemptInv, HasDelivery, Accepted
<1>9. JobAgrees(j)'
  BY <1>1, <1>2, AgreesKept DEF AgreeInv
<1> QED BY <1>1, <1>2, <1>4, <1>5, <1>8, <1>9, AttemptCloses

\* A report stored over the one that was loaded is the one wanted.
LEMMA ExactStore ==
  ASSUME NEW j \in Jobs, report \in [Jobs -> Reports \cup {None}],
         NEW wanted \in Reports, StoreReport(j, report[j], wanted)
  PROVE  /\ report'[j] = wanted
         /\ \A i \in Jobs \ {j} : report'[i] = report[i]
<1>1. report[j] # None => FlushReport(report[j], report[j], wanted) = wanted
  BY DEF FlushReport, Column, Reports
<1> QED BY <1>1 DEF StoreReport

\* The report is the one of this attempt: nobody has stored one since the SELECT.
LEMMA SaveReportAgrees ==
  ASSUME IInv, AgreeInv, NEW w \in Workers, SaveReport(w), UNCHANGED submission
  PROVE  AgreeInv'
<1> DEFINE wanted == [commit |-> worker[w].commit, insights |-> worker[w].insights,
                      fallback |-> FallbackFlag(worker[w].reason),
                      reason |-> worker[w].reason]
<1>1. /\ Goto(w, "save_report", "load_completed") /\ worker[w].pc = "save_report"
      /\ StoreReport(worker[w].job, worker[w].loaded, wanted)
      /\ UNCHANGED <<record, snap, aiCache, head, message>>
  BY DEF SaveReport, Goto
<1>2. PICK j \in Jobs : /\ j = worker[w].job /\ Holds(w, j) /\ HandlingInv(w)
                        /\ AttemptInv(w, j) /\ JobAgrees(j)
  BY <1>1, InHand
<1>3. /\ worker[w].loaded = report[j]
      /\ worker[w].insights \in {None, worker[w].commit}
      /\ ~ShownAs(j, "completed") /\ (Accepted(j) => RowIs(j, "processing"))
  BY <1>1, <1>2 DEF AttemptInv, KnowsReport, KnowsRow, InsightPcs, ShownPcs, PipelinePcs,
                    WorkingPcs, FetchedPcs
<1>4. /\ wanted \in Reports /\ wanted.commit = worker[w].commit
      /\ wanted.insights = worker[w].insights
      /\ wanted.fallback = FallbackFlag(worker[w].reason)
  BY <1>1, <1>2, InHand DEF Reports, FallbackFlag, HandlingInv, FetchedPcs, WorkerStates
<1> HIDE DEF wanted
<1>5. report'[j] = wanted /\ \A i \in Jobs \ {j} : report'[i] = report[i]
  BY <1>1, <1>2, <1>3, <1>4, ExactStore, InHand DEF BackendsTypeOK
<1>6. /\ worker'[w].pc = "load_completed" /\ worker'[w].job = j
      /\ worker'[w].receive = worker[w].receive /\ worker'[w].commit = worker[w].commit
      /\ worker'[w].reason = worker[w].reason
      /\ \A v \in Workers \ {w} : worker'[v] = worker[v]
  BY <1>1, <1>2, InHand, GotoEffect DEF PipelinePcs
<1>7. KnowsReport(w, j)'
  BY <1>1, <1>3, <1>4, <1>5, <1>6 DEF KnowsReport, InsightPcs, ShownAs
<1>8. Accepted(j) => KnowsRow(w, j)'
  BY <1>1, <1>2, <1>6 DEF AttemptInv, KnowsRow, MarkPcs, WorkingPcs, FetchedPcs,
                          PreparedPcs, RowIs
<1>9. AttemptInv(w, j)'
  BY <1>1, <1>2, <1>6, <1>7, <1>8 DEF AttemptInv, HasDelivery, Accepted
<1>10. JobAgrees(j)'
  BY <1>1, <1>2, <1>3, <1>4, <1>5
     DEF JobAgrees, AttemptInv, HasDelivery, Accepted, RowIs, ShownAs
<1>11. CacheAgrees'
  BY <1>1 DEF CacheAgrees, AgreeInv
<1> QED BY <1>1, <1>2, <1>5, <1>6, <1>9, <1>10, <1>11, AttemptCloses

\* Release and Ack: the worker lets go of its message.
LEMMA HandBackAgrees ==
  ASSUME IInv, AgreeInv, NEW w \in Workers, worker[w].pc # "poll",
         NEW place \in {"ready", "acked"},
         place = "acked" => worker[w].pc = "ack",
         worker' = [worker EXCEPT ![w] = Polling],
         Move(worker[w].job, place) \/ UNCHANGED message,
         UNCHANGED <<submission, backends>>
  PROVE  AgreeInv'
<1>1. PICK j \in Jobs : j = worker[w].job /\ Holds(w, j) /\ AttemptInv(w, j) /\ JobAgrees(j)
  BY InHand
<1>2. worker'[w].pc = "poll" /\ \A v \in Workers \ {w} : worker'[v] = worker[v]
  BY InHand DEF WorkerTypeOK, Polling
<1>3. /\ message'[j].place \in {message[j].place, place}
      /\ \A i \in Jobs \ {j} : message'[i] = message[i]
  BY <1>1 DEF Move, IInv, TypeOK, QueueTypeOK
<1>4. JobAgrees(j)'
  BY <1>1, <1>3 DEF JobAgrees, AttemptInv, KnowsRow, HasDelivery, Accepted, RowIs, ShownAs,
                    backends
<1>5. CacheAgrees'
  BY DEF CacheAgrees, AgreeInv, backends
<1> QED BY <1>1, <1>2, <1>3, <1>4, <1>5, AttemptCloses DEF backends

\* A message is made visible again, or deleted by the attempt that completed it.
LEMMA ReleaseAgrees ==
  ASSUME IInv, AgreeInv, NEW w \in Workers, Release(w) \/ Ack(w), UNCHANGED submission
  PROVE  AgreeInv'
<1>1. /\ worker[w].pc # "poll" /\ worker' = [worker EXCEPT ![w] = Polling]
      /\ UNCHANGED <<submission, backends>>
  BY DEF Release, Ack
<1>2. CASE Release(w)
  <2>1. Move(worker[w].job, "ready") \/ UNCHANGED message
    BY <1>2 DEF Release, MakeVisible
  <2> QED BY <1>1, <2>1, HandBackAgrees
<1>3. CASE Ack(w)
  <2>1. worker[w].pc = "ack" /\ (Move(worker[w].job, "acked") \/ UNCHANGED message)
    BY <1>3 DEF Ack, Delete
  <2> QED BY <1>1, <2>1, HandBackAgrees
<1> QED BY <1>2, <1>3

\* Every step of a worker with a message in hand.
LEMMA PipelineStepAgrees ==
  ASSUME IInv, AgreeInv, NEW w \in Workers, PipelineStep(w), UNCHANGED submission
  PROVE  AgreeInv'
<1>1. CASE Peek(w) \/ ShowProcessing(w) \/ LoadRow(w) \/ MarkProcessing(w) \/ Fetch(w)
  BY <1>1, PeekAgrees, ShowProcessingAgrees, LoadRowAgrees, MarkProcessingAgrees, FetchAgrees
<1>2. CASE \/ MarkPreparing(w) \/ Lookup(w) \/ AnalyzeSucceeds(w) \/ AnalyzeFallsBack(w)
           \/ StoreInsights(w)
  BY <1>2, MarkPreparingAgrees, LookupAgrees, AnalyzeAgrees, StoreInsightsAgrees
<1>3. CASE LoadReport(w) \/ SaveReport(w) \/ MarkCompleted(w) \/ ShowCompleted(w)
  BY <1>3, LoadReportAgrees, SaveReportAgrees, MarkCompletedAgrees, ShowCompletedAgrees
<1>4. CASE RaiseIntegrityError(w)
  BY <1>4, CatchAgrees DEF RaiseIntegrityError
<1>5. CASE MarkFailed(w) \/ ShowFailed(w) \/ Release(w) \/ Ack(w)
  BY <1>5, MarkFailedAgrees, ShowFailedAgrees, ReleaseAgrees
<1> QED BY <1>1, <1>2, <1>3, <1>4, <1>5 DEF PipelineStep

-----------------------------------------------------------------------------
(* The steps of the queue and of the environment.                          *)

\* The receiver of a message holds its last delivery, and nobody else holds it.
LEMMA WorkerReceiveAgrees ==
  ASSUME IInv, AgreeInv, NEW w \in Workers, NEW j \in Jobs, WorkerReceive(w, j),
         UNCHANGED submission
  PROVE  AgreeInv'
<1>1. /\ message[j].place = "ready" /\ UNCHANGED <<record, report, snap, aiCache, head>>
      /\ JobAgrees(j) /\ RequestAgrees(j)
  BY DEF WorkerReceive, Receive, backends, AgreeInv
<1>2. \A v \in Workers : ~Holds(v, j)
  BY <1>1, Unheld
<1>3. /\ message'[j].place = "flight" /\ message'[j].receives = message[j].receives + 1
      /\ \A i \in Jobs \ {j} : message'[i] = message[i]
  BY DEF WorkerReceive, Receive, IInv, TypeOK, QueueTypeOK
<1>4. /\ worker'[w].pc = "peek" /\ worker'[w].job = j
      /\ worker'[w].receive = message[j].receives + 1
      /\ \A v \in Workers \ {w} : worker'[v] = worker[v]
  BY DEF WorkerReceive, IInv, TypeOK, WorkerTypeOK, Polling
<1>5. AttemptInv(w, j)'
  BY <1>3, <1>4
     DEF AttemptInv, HasDelivery, KnowsReport, KnowsRow, InsightPcs, ReportedPcs, ShownPcs,
         MarkPcs, WorkingPcs, FetchedPcs, PreparedPcs
<1>6. ASSUME NEW v \in Workers, NEW i \in Jobs, Holds(v, i)'
      PROVE  AttemptInv(v, i)' /\ (v # w => Holds(v, i) /\ i # j) /\ (v = w => i = j)
  <2>1. CASE v = w
    BY <1>4, <1>5, <1>6, <2>1 DEF Holds
  <2>2. CASE v # w
    <3>1. worker'[v] = worker[v] /\ Holds(v, i) /\ i # j
      BY <1>2, <1>4, <1>6, <2>2 DEF Holds
    <3>2. AttemptInv(v, i) /\ Accepted(i)' = Accepted(i)
      BY <3>1 DEF AgreeInv, Accepted
    <3> QED BY <1>1, <1>3, <2>2, <3>1, <3>2, AttemptKept
  <2> QED BY <2>1, <2>2
<1>7. ASSUME NEW i \in Jobs PROVE JobAgrees(i)' /\ RequestAgrees(i)'
  <2>1. CASE i = j
    <3>1. JobAgrees(j)'
      BY <1>1, <1>3 DEF JobAgrees, Accepted, RowIs, ShownAs
    <3>2. RequestAgrees(j)'
      BY <1>1 DEF RequestAgrees, RequestedRow, ShownAs
    <3> QED BY <2>1, <3>1, <3>2
  <2>2. CASE i # j
    BY <1>1, <1>3, <2>2, AgreesKept DEF AgreeInv
  <2> QED BY <2>1, <2>2
<1>8. ExclusiveProcessing' /\ CacheAgrees'
  BY <1>1, <1>6 DEF ExclusiveProcessing, AgreeInv, CacheAgrees
<1> QED BY <1>6, <1>7, <1>8 DEF AgreeInv

\* A message that nobody works on moves.
LEMMA UnheldMoves ==
  ASSUME IInv, AgreeInv, NEW j \in Jobs, \A w \in Workers : ~Holds(w, j),
         NEW place \in {"ready", "dead"}, Move(j, place),
         UNCHANGED <<submission, worker, backends>>
  PROVE  AgreeInv'
<1>1. message'[j].place = place /\ \A i \in Jobs \ {j} : message'[i] = message[i]
  BY DEF Move, IInv, TypeOK, QueueTypeOK
<1>2. JobAgrees(j) /\ RequestAgrees(j)
  BY DEF AgreeInv
<1>3. JobAgrees(j)'
  BY <1>1, <1>2 DEF JobAgrees, Accepted, RowIs, ShownAs, backends
<1>4. RequestAgrees(j)'
  BY <1>2 DEF RequestAgrees, RequestedRow, ShownAs, backends
<1> QED BY <1>1, <1>3, <1>4, RequestCloses DEF backends

\* Redrive takes a message that is ready, and a visibility timeout that no
\* pipeline outruns one that its worker has given up.
LEMMA QueueAgrees ==
  ASSUME IInv, AgreeInv, "late" \notin Faults, NEW j \in Jobs, UNCHANGED submission,
         (\E w \in Workers : WorkerRedrive(w, j)) \/ VisibilityTimeout(j)
  PROVE  AgreeInv'
<1>1. CASE \E w \in Workers : WorkerRedrive(w, j)
  <2>1. message[j].place = "ready" /\ Move(j, "dead") /\ UNCHANGED <<worker, backends>>
    BY <1>1 DEF WorkerRedrive, Redrive
  <2> QED BY <2>1, Unheld, UnheldMoves
<1>2. CASE VisibilityTimeout(j)
  <2>1. /\ \A w \in Workers : Holds(w, j) => worker[w].receive # message[j].receives
        /\ Move(j, "ready") /\ UNCHANGED <<worker, backends>>
    BY <1>2 DEF VisibilityTimeout, Reappear
  <2>2. \A w \in Workers : ~Holds(w, j)
    BY <2>1 DEF AgreeInv, AttemptInv, HasDelivery
  <2> QED BY <2>1, <2>2, UnheldMoves
<1> QED BY <1>1, <1>2

\* The snapshot of a job expires: nothing is claimed of an absent one.
LEMMA ExpireStateAgrees ==
  ASSUME IInv, AgreeInv, NEW j \in Jobs, ExpireState(j), UNCHANGED <<submission, worker, message>>
  PROVE  AgreeInv'
<1>1. UNCHANGED <<record, report, aiCache>>
  BY DEF ExpireState
<1>2. snap'[j] = None /\ \A i \in Jobs \ {j} : snap'[i] = snap[i]
  BY SetStateEffect DEF ExpireState, IInv, TypeOK, BackendsTypeOK
<1>3. JobAgrees(j) /\ RequestAgrees(j)
  BY DEF AgreeInv
<1>4. JobAgrees(j)'
  BY <1>1, <1>2, <1>3 DEF JobAgrees, Accepted, RowIs, ShownAs
<1>5. RequestAgrees(j)'
  BY <1>1, <1>2, <1>3 DEF RequestAgrees, RequestedRow, ShownAs
<1>6. ASSUME NEW w \in Workers, Holds(w, j) PROVE AttemptInv(w, j)'
  <2>1. AttemptInv(w, j)
    BY <1>6 DEF AgreeInv
  <2>2. HasDelivery(w, j)' /\ KnowsReport(w, j)'
    BY <1>1, <1>2, <2>1 DEF AttemptInv, HasDelivery, KnowsReport, ShownAs
  <2>3. Accepted(j)' => KnowsRow(w, j)'
    BY <1>1, <1>2, <2>1 DEF AttemptInv, Accepted, KnowsRow, RowIs
  <2> QED BY <2>2, <2>3 DEF AttemptInv
<1> QED BY <1>1, <1>2, <1>4, <1>5, <1>6, RequestCloses

\* ExpireInsights, Push and a stutter: cached insights go, or nothing that is
\* agreed on changes.
LEMMA NothingDisagrees ==
  ASSUME AgreeInv, UNCHANGED <<submission, worker, message, record, report, snap>>,
         \A c \in Commits : aiCache'[c] \in {None, aiCache[c]}
  PROVE  AgreeInv'
<1>1. \A w \in Workers, j \in Jobs : Holds(w, j)' <=> Holds(w, j)
  BY DEF Holds
<1>2. ASSUME NEW w \in Workers, NEW j \in Jobs, Holds(w, j)' PROVE AttemptInv(w, j)'
  BY <1>1, <1>2, AttemptKept DEF AgreeInv, Accepted
<1>3. ASSUME NEW j \in Jobs PROVE JobAgrees(j)' /\ RequestAgrees(j)'
  BY AgreesKept DEF AgreeInv
<1>4. CacheAgrees' /\ ExclusiveProcessing'
  BY <1>1 DEF AgreeInv, CacheAgrees, ExclusiveProcessing
<1> QED BY <1>2, <1>3, <1>4 DEF AgreeInv

\* Expiring keys and pushes.
LEMMA EnvironmentAgrees ==
  ASSUME IInv, AgreeInv, Environment, UNCHANGED <<submission, worker, message>>
  PROVE  AgreeInv'
<1>1. CASE \E j \in Jobs : ExpireState(j)
  BY <1>1, ExpireStateAgrees
<1>2. CASE \E c \in Commits : ExpireInsights(c)
  BY <1>2, NothingDisagrees DEF ExpireInsights, SetInsights, IInv, TypeOK, BackendsTypeOK
<1>3. CASE \E c \in Commits : Push(c)
  BY <1>3, NothingDisagrees DEF Push
<1> QED BY <1>1, <1>2, <1>3 DEF Environment

-----------------------------------------------------------------------------
(* The steps of a request.                                                 *)

\* Until a request has sent its message no worker knows the job.
LEMMA FreshCloses ==
  ASSUME IInv, AgreeInv, NEW j \in Jobs, submission[j].pc \in BeforeSend,
         UNCHANGED <<worker, aiCache>>, JobAgrees(j)', RequestAgrees(j)',
         \A i \in Jobs \ {j} :
           /\ submission'[i] = submission[i] /\ record'[i] = record[i]
           /\ report'[i] = report[i] /\ snap'[i] = snap[i] /\ message'[i] = message[i]
  PROVE  AgreeInv'
<1>1. message[j].place = "unsent"
  BY DEF IInv, RequestInv
<1>2. \A w \in Workers : ~Holds(w, j)
  BY <1>1, Unheld
<1> QED BY <1>2, RequestCloses

\* A request that is giving up writes beside a worker that may hold the job:
\* nothing is claimed of the row of a job that no client knows.
LEMMA UndoCloses ==
  ASSUME AgreeInv, NEW j \in Jobs, submission'[j].pc \in UndoPcs,
         UNCHANGED <<worker, message, report, aiCache>>,
         ShownAs(j, "completed")' => snap'[j] = snap[j],
         \A i \in Jobs \ {j} : /\ submission'[i] = submission[i]
                               /\ record'[i] = record[i] /\ snap'[i] = snap[i]
  PROVE  AgreeInv'
<1>1. ~Accepted(j)' /\ submission'[j].pc \notin BeforeSend
  BY DEF Accepted, UndoPcs, BeforeSend
<1>2. ASSUME NEW w \in Workers, Holds(w, j) PROVE AttemptInv(w, j)'
  <2>1. AttemptInv(w, j)
    BY <1>2 DEF AgreeInv
  <2>2. HasDelivery(w, j)' /\ KnowsReport(w, j)'
    BY <2>1 DEF AttemptInv, HasDelivery, KnowsReport, ShownAs
  <2> QED BY <1>1, <2>2 DEF AttemptInv
<1>3. JobAgrees(j) /\ RequestAgrees(j)
  BY DEF AgreeInv
<1>4. JobAgrees(j)'
  BY <1>1, <1>3 DEF JobAgrees, ShownAs
<1>5. RequestAgrees(j)'
  BY <1>1 DEF RequestAgrees, BeforeSend
<1> QED BY <1>2, <1>4, <1>5, RequestCloses

\* A request before its send: its types, and what it has written agrees.
LEMMA Requesting ==
  ASSUME IInv, AgreeInv, NEW j \in Jobs, submission[j].pc \in BeforeSend
  PROVE  /\ BackendsTypeOK /\ QueueTypeOK /\ SubmissionTypeOK
         /\ submission[j].pc # "fetch" => submission[j].commit \in Commits
         /\ RequestAgrees(j) /\ JobAgrees(j) /\ ~Accepted(j) /\ ~ShownAs(j, "completed")
         /\ message[j].place = "unsent"
<1>1. TypeOK /\ RequestInv(j) /\ RequestAgrees(j) /\ JobAgrees(j)
  BY DEF IInv, AgreeInv
<1>2. ~Accepted(j)
  BY DEF Accepted, BeforeSend
<1> QED BY <1>1, <1>2 DEF TypeOK, RequestInv, RequestAgrees

\* The row of a request that looked for insights is the one it has written.
LEMMA RowWritten ==
  ASSUME IInv, AgreeInv, NEW j \in Jobs,
         submission[j].pc \in {"complete", "show_completed", "send"}
  PROVE  /\ record[j].status = IF submission[j].pc = "show_completed" THEN "completed"
                                                                    ELSE "pending"
         /\ record[j].error = FALSE /\ record[j].commit = submission[j].commit
         /\ record[j].key = submission[j].commit /\ record[j] \in Rows
<1>1. submission[j].pc \in BeforeSend \ {"fetch", "create"}
  BY DEF BeforeSend
<1>2. RequestAgrees(j) /\ submission[j].commit \in Commits
  BY <1>1, Requesting
<1>3. record[j] = RequestedRow(j)
  BY <1>1, <1>2 DEF RequestAgrees
<1> QED BY <1>2, <1>3 DEF RequestedRow, Rows, Statuses

\* The branch head becomes the commit of the request.
LEMMA SubmitFetchAgrees ==
  ASSUME IInv, AgreeInv, NEW j \in Jobs, SubmitFetch(j), UNCHANGED worker
  PROVE  AgreeInv'
<1>1. submission[j].pc = "fetch" /\ UNCHANGED <<record, report, snap, aiCache, message>>
  BY DEF SubmitFetch, backends
<1>2. submission[j].pc \in BeforeSend
  BY <1>1 DEF BeforeSend
<1>3. submission'[j].pc = "create" /\ \A i \in Jobs \ {j} : submission'[i] = submission[i]
  BY <1>2, Requesting DEF SubmitFetch, SubmissionTypeOK
<1>4. JobAgrees(j)' /\ RequestAgrees(j)'
  BY <1>1, <1>2, <1>3, Requesting DEF JobAgrees, RequestAgrees, Accepted, ShownAs
<1> QED BY <1>1, <1>2, <1>3, <1>4, FreshCloses

\* The row is inserted.
LEMMA SubmitCreateAgrees ==
  ASSUME IInv, AgreeInv, NEW j \in Jobs, SubmitCreate(j), UNCHANGED worker
  PROVE  AgreeInv'
<1>1. /\ SubmitGoto(j, "create", "seed") /\ submission[j].pc = "create"
      /\ CreateRow(j, submission[j].commit)
      /\ UNCHANGED <<report, snap, aiCache, message>>
  BY DEF SubmitCreate, SubmitGoto
<1>2. submission[j].pc \in BeforeSend
  BY <1>1 DEF BeforeSend
<1>3. /\ submission'[j].pc = "seed" /\ submission'[j].commit = submission[j].commit
      /\ \A i \in Jobs \ {j} : submission'[i] = submission[i]
  BY <1>1, <1>2, Requesting, SubmitGotoEffect DEF SubmissionPcs
<1>4. /\ record'[j] = [status |-> "pending", error |-> FALSE, commit |-> submission[j].commit,
                       key |-> submission[j].commit]
      /\ \A i \in Jobs \ {j} : record'[i] = record[i]
  BY <1>1, <1>2, Requesting DEF CreateRow, BackendsTypeOK
<1>5. JobAgrees(j)'
  BY <1>1, <1>2, <1>3, Requesting DEF JobAgrees, Accepted, ShownAs
<1>6. RequestAgrees(j)'
  BY <1>1, <1>2, <1>3, <1>4, Requesting DEF RequestAgrees, RequestedRow, ShownAs
<1> QED BY <1>1, <1>2, <1>3, <1>4, <1>5, <1>6, FreshCloses

\* The pending snapshot is written.
LEMMA SubmitSeedAgrees ==
  ASSUME IInv, AgreeInv, NEW j \in Jobs, SubmitSeed(j), UNCHANGED worker
  PROVE  AgreeInv'
<1> DEFINE s == Snapshot("pending", TRUE)
<1>1. /\ SubmitGoto(j, "seed", "lookup") /\ submission[j].pc = "seed" /\ SetState(j, s)
      /\ UNCHANGED <<record, report, aiCache, message>>
  BY DEF SubmitSeed, SubmitGoto
<1>2. submission[j].pc \in BeforeSend
  BY <1>1 DEF BeforeSend
<1>3. /\ submission'[j].pc = "lookup" /\ submission'[j].commit = submission[j].commit
      /\ \A i \in Jobs \ {j} : submission'[i] = submission[i]
  BY <1>1, <1>2, Requesting, SubmitGotoEffect DEF SubmissionPcs
<1>4. s \in Snapshots /\ s.status = "pending"
  BY DEF Snapshot, Snapshots, Statuses
<1> HIDE DEF s
<1>5. snap'[j] = s /\ \A i \in Jobs \ {j} : snap'[i] = snap[i]
  BY <1>1, <1>2, <1>4, Requesting, SetStateEffect DEF BackendsTypeOK
<1>6. JobAgrees(j)'
  BY <1>1, <1>2, <1>3, <1>4, <1>5, Requesting DEF JobAgrees, Accepted, ShownAs
<1>7. RequestAgrees(j)'
  BY <1>1, <1>2, <1>3, <1>4, <1>5, Requesting
     DEF RequestAgrees, RequestedRow, ShownAs, BeforeSend
<1> QED BY <1>1, <1>2, <1>3, <1>5, <1>6, <1>7, FreshCloses

\* The insights found are those of the commit, since the cache agrees.
LEMMA SubmitLookupAgrees ==
  ASSUME IInv, AgreeInv, NEW j \in Jobs, SubmitLookup(j), UNCHANGED worker
  PROVE  AgreeInv'
<1> DEFINE cached == aiCache[submission[j].commit]
           next == IF cached = None THEN "send" ELSE "save"
<1>1. /\ submission[j].pc = "lookup" /\ UNCHANGED <<record, report, snap, aiCache, message>>
      /\ submission' = [submission EXCEPT ![j].pc = next, ![j].insights = cached]
  BY DEF SubmitLookup, backends
<1>2. submission[j].pc \in BeforeSend
  BY <1>1 DEF BeforeSend
<1>3. cached \in {None, submission[j].commit} /\ next \in {"send", "save"}
  BY <1>1, <1>2, Requesting DEF AgreeInv, CacheAgrees
<1> HIDE DEF cached, next
<1>4. /\ submission'[j].pc = next /\ submission'[j].commit = submission[j].commit
      /\ submission'[j].insights = cached
      /\ \A i \in Jobs \ {j} : submission'[i] = submission[i]
  BY <1>1, <1>2, Requesting DEF SubmissionTypeOK
<1>5. JobAgrees(j)'
  BY <1>1, <1>2, <1>3, <1>4, Requesting DEF JobAgrees, Accepted, ShownAs
<1>6. RequestAgrees(j)'
  BY <1>1, <1>2, <1>3, <1>4, Requesting DEF RequestAgrees, RequestedRow, ShownAs, BeforeSend
<1> QED BY <1>1, <1>2, <1>4, <1>5, <1>6, FreshCloses

\* The report of the cache hit is stored.
LEMMA SubmitSaveAgrees ==
  ASSUME IInv, AgreeInv, NEW j \in Jobs, SubmitSave(j), UNCHANGED worker
  PROVE  AgreeInv'
<1> DEFINE wanted == [commit |-> submission[j].commit, insights |-> submission[j].insights,
                      fallback |-> FALSE, reason |-> "none"]
<1>1. /\ SubmitGoto(j, "save", "complete") /\ submission[j].pc = "save"
      /\ StoreReport(j, report[j], wanted)
      /\ UNCHANGED <<record, snap, aiCache, message>>
  BY DEF SubmitSave, SubmitGoto
<1>2. submission[j].pc \in BeforeSend
  BY <1>1 DEF BeforeSend
<1>3. /\ submission'[j].pc = "complete" /\ submission'[j].commit = submission[j].commit
      /\ \A i \in Jobs \ {j} : submission'[i] = submission[i]
  BY <1>1, <1>2, Requesting, SubmitGotoEffect DEF SubmissionPcs
<1>4. submission[j].insights \in {None, submission[j].commit}
  BY <1>1, <1>2, Requesting DEF RequestAgrees
<1>5. /\ wanted \in Reports /\ wanted.commit = submission[j].commit /\ ~wanted.fallback
      /\ wanted.insights \in {None, wanted.commit}
  BY <1>1, <1>2, <1>4, Requesting DEF Reports, Reasons
<1> HIDE DEF wanted
<1>6. report'[j] = wanted /\ \A i \in Jobs \ {j} : report'[i] = report[i]
  BY <1>1, <1>2, <1>5, Requesting, ExactStore DEF BackendsTypeOK
<1>7. JobAgrees(j)'
  BY <1>1, <1>2, <1>3, <1>5, <1>6, Requesting DEF JobAgrees, Accepted, ShownAs
<1>8. RequestAgrees(j)'
  BY <1>1, <1>2, <1>3, <1>5, <1>6, Requesting
     DEF RequestAgrees, RequestedRow, ShownAs, BeforeSend
<1> QED BY <1>1, <1>2, <1>3, <1>6, <1>7, <1>8, FreshCloses

\* A row is its four columns.
LEMMA SameRow ==
  ASSUME NEW row \in Rows
  PROVE  row = [status |-> row.status, error |-> row.error, commit |-> row.commit,
                key |-> row.key]
BY DEF Rows

\* The row is completed over the one that was inserted.
LEMMA SubmitCompleteAgrees ==
  ASSUME IInv, AgreeInv, NEW j \in Jobs, SubmitComplete(j), UNCHANGED worker
  PROVE  AgreeInv'
<1> DEFINE wanted == [record[j] EXCEPT !.status = "completed"]
<1>1. /\ SubmitGoto(j, "complete", "show_completed") /\ submission[j].pc = "complete"
      /\ UpdateRow(j, record[j], wanted)
      /\ UNCHANGED <<report, snap, aiCache, message>>
  BY DEF SubmitComplete, SubmitGoto
<1>2. submission[j].pc \in BeforeSend
  BY <1>1 DEF BeforeSend
<1>3. /\ submission'[j].pc = "show_completed" /\ submission'[j].commit = submission[j].commit
      /\ \A i \in Jobs \ {j} : submission'[i] = submission[i]
  BY <1>1, <1>2, Requesting, SubmitGotoEffect DEF SubmissionPcs
<1>4. /\ record[j].error = FALSE /\ record[j].commit = submission[j].commit
      /\ record[j].key = submission[j].commit /\ record[j] \in Rows
  BY <1>1, RowWritten
<1>5. /\ wanted \in Rows /\ wanted.status = "completed" /\ wanted.error = FALSE
      /\ wanted.commit = submission[j].commit /\ wanted.key = submission[j].commit
  BY <1>4 DEF Rows, Statuses
<1> HIDE DEF wanted
<1>6. record'[j] = wanted
  BY <1>1, <1>2, <1>4, <1>5, Requesting, ExactUpdate DEF BackendsTypeOK
<1>7. \A i \in Jobs \ {j} : record'[i] = record[i]
  BY <1>1, <1>2, <1>4, <1>5, Requesting, UpdateRowEffect DEF BackendsTypeOK
<1>8. JobAgrees(j)'
  BY <1>1, <1>2, <1>3, Requesting DEF JobAgrees, Accepted, ShownAs
<1>9. RequestAgrees(j)'
  <2>1. record'[j] = RequestedRow(j)'
    BY <1>3, <1>5, <1>6, SameRow DEF RequestedRow
  <2> QED BY <1>1, <1>2, <1>3, <2>1, Requesting DEF RequestAgrees, ShownAs, BeforeSend
<1> QED BY <1>1, <1>2, <1>3, <1>7, <1>8, <1>9, FreshCloses

\* The client gets its job id with row, report and snapshot in agreement.
LEMMA SubmitShowCompletedAgrees ==
  ASSUME IInv, AgreeInv, NEW j \in Jobs, SubmitShowCompleted(j), UNCHANGED worker
  PROVE  AgreeInv'
<1> DEFINE s == Snapshot("completed", TRUE)
<1>1. /\ submission[j].pc = "show_completed" /\ Respond(j, "accepted") /\ SetState(j, s)
      /\ UNCHANGED <<record, report, aiCache, message>>
  BY DEF SubmitShowCompleted
<1>2. submission[j].pc \in BeforeSend
  BY <1>1 DEF BeforeSend
<1>3. submission'[j].pc = "accepted" /\ \A i \in Jobs \ {j} : submission'[i] = submission[i]
  BY <1>1, <1>2, Requesting, RespondEffect DEF SubmissionPcs
<1>4. s \in Snapshots /\ s.fallback = FALSE
  BY DEF Snapshot, Snapshots, Statuses
<1> HIDE DEF s
<1>5. snap'[j] = s /\ \A i \in Jobs \ {j} : snap'[i] = snap[i]
  BY <1>1, <1>2, <1>4, Requesting, SetStateEffect DEF BackendsTypeOK
<1>6. /\ report[j].commit = submission[j].commit /\ report[j].fallback = FALSE
      /\ record[j].commit = submission[j].commit /\ record[j].key = submission[j].commit
      /\ record[j].error = FALSE /\ record[j].status = "completed"
  <2>1. report[j] \in Reports
    BY <1>1, <1>2, Requesting DEF IInv, RequestInv, BackendsTypeOK
  <2>2. report[j].commit = submission[j].commit /\ ~report[j].fallback
    BY <1>1, <1>2, Requesting DEF RequestAgrees
  <2> QED BY <1>1, <2>1, <2>2, RowWritten DEF Reports
<1>7. JobAgrees(j)'
  BY <1>1, <1>2, <1>4, <1>5, <1>6, Requesting DEF JobAgrees, RowIs, ShownAs
<1>8. RequestAgrees(j)'
  BY <1>3 DEF RequestAgrees, BeforeSend
<1> QED BY <1>1, <1>2, <1>3, <1>5, <1>7, <1>8, FreshCloses

\* The message of a pending job is sent, or may have been when send raises.
LEMMA SubmitSendAgrees ==
  ASSUME IInv, AgreeInv, NEW j \in Jobs, SubmitSend(j) \/ SubmitSendRaises(j),
         UNCHANGED worker
  PROVE  AgreeInv'
<1>1. /\ submission[j].pc = "send" /\ UNCHANGED <<record, report, snap, aiCache>>
      /\ Move(j, "ready") \/ UNCHANGED message
  BY DEF SubmitSend, SubmitSendRaises, SubmitGoto, Send, backends
<1>2. submission[j].pc \in BeforeSend
  BY <1>1 DEF BeforeSend
<1>3. /\ submission'[j].pc \in {"accepted", "load_failed"}
      /\ \A i \in Jobs \ {j} : submission'[i] = submission[i]
  <2>1. CASE SubmitSend(j)
    BY <1>2, <2>1, Requesting, RespondEffect DEF SubmitSend, SubmissionPcs
  <2>2. CASE SubmitSendRaises(j)
    BY <1>2, <2>2, Requesting, SubmitGotoEffect DEF SubmitSendRaises, SubmissionPcs
  <2> QED BY <2>1, <2>2
<1>4. /\ message'[j].place \in {"ready", "unsent"}
      /\ \A i \in Jobs \ {j} : message'[i] = message[i]
  BY <1>1, <1>2, Requesting DEF Move, QueueTypeOK
<1>5. record[j].status = "pending" /\ record[j].error = FALSE
  BY <1>1, RowWritten
<1>6. JobAgrees(j)'
  BY <1>1, <1>2, <1>3, <1>4, <1>5, Requesting DEF JobAgrees, RowIs, ShownAs
<1>7. RequestAgrees(j)'
  BY <1>3 DEF RequestAgrees, BeforeSend
<1> QED BY <1>1, <1>2, <1>3, <1>4, <1>6, <1>7, FreshCloses

\* The row of a refused job is loaded.
LEMMA SubmitLoadFailedAgrees ==
  ASSUME IInv, AgreeInv, NEW j \in Jobs, SubmitLoadFailed(j), UNCHANGED worker
  PROVE  AgreeInv'
<1>1. UNCHANGED <<record, report, snap, aiCache, message>>
  BY DEF SubmitLoadFailed, backends
<1>2. /\ submission'[j].pc = "mark_failed"
      /\ \A i \in Jobs \ {j} : submission'[i] = submission[i]
  BY DEF SubmitLoadFailed, IInv, TypeOK, SubmissionTypeOK
<1> QED BY <1>1, <1>2, UndoCloses DEF UndoPcs

\* It is marked failed, whatever a worker has written since.
LEMMA SubmitMarkFailedAgrees ==
  ASSUME IInv, AgreeInv, NEW j \in Jobs, SubmitMarkFailed(j), UNCHANGED worker
  PROVE  AgreeInv'
<1>1. /\ SubmitGoto(j, "mark_failed", "show_failed")
      /\ UNCHANGED <<report, snap, aiCache, message>>
      /\ \A i \in Jobs \ {j} : record'[i] = record[i]
  BY DEF SubmitMarkFailed, UpdateRow, IInv, TypeOK, BackendsTypeOK
<1>2. /\ submission'[j].pc = "show_failed"
      /\ \A i \in Jobs \ {j} : submission'[i] = submission[i]
  BY <1>1, SubmitGotoEffect DEF SubmissionPcs, IInv, TypeOK
<1> QED BY <1>1, <1>2, UndoCloses DEF UndoPcs

\* The failed snapshot is written.
LEMMA SubmitShowFailedAgrees ==
  ASSUME IInv, AgreeInv, NEW j \in Jobs, SubmitShowFailed(j), UNCHANGED worker
  PROVE  AgreeInv'
<1> DEFINE s == Snapshot("failed", TRUE)
<1>1. /\ Respond(j, "refused") /\ SetState(j, s)
      /\ UNCHANGED <<record, report, aiCache, message>>
  BY DEF SubmitShowFailed
<1>2. submission'[j].pc = "refused" /\ \A i \in Jobs \ {j} : submission'[i] = submission[i]
  BY <1>1, RespondEffect DEF SubmissionPcs, IInv, TypeOK
<1>3. s \in Snapshots /\ s.status = "failed"
  BY DEF Snapshot, Snapshots, Statuses
<1> HIDE DEF s
<1>4. snap'[j] = s /\ \A i \in Jobs \ {j} : snap'[i] = snap[i]
  BY <1>1, <1>3, SetStateEffect DEF IInv, TypeOK, BackendsTypeOK
<1>5. ~ShownAs(j, "completed")'
  BY <1>3, <1>4 DEF ShownAs
<1> QED BY <1>1, <1>2, <1>4, <1>5, UndoCloses DEF UndoPcs

\* Another call raises or the process dies: what was written stays.
LEMMA SubmitAbandonAgrees ==
  ASSUME IInv, AgreeInv, NEW j \in Jobs, SubmitAbandon(j), UNCHANGED worker
  PROVE  AgreeInv'
<1>1. UNCHANGED <<record, report, snap, aiCache, message>> /\ Respond(j, "refused")
  BY DEF SubmitAbandon, backends
<1>2. submission'[j].pc = "refused" /\ \A i \in Jobs \ {j} : submission'[i] = submission[i]
  BY <1>1, RespondEffect DEF SubmissionPcs, IInv, TypeOK
<1> QED BY <1>1, <1>2, UndoCloses DEF UndoPcs

\* Every step of a request.
LEMMA SubmissionStepAgrees ==
  ASSUME IInv, AgreeInv, NEW j \in Jobs, SubmissionStep(j), UNCHANGED worker
  PROVE  AgreeInv'
<1>1. CASE SubmitFetch(j) \/ SubmitCreate(j) \/ SubmitSeed(j) \/ SubmitLookup(j)
  BY <1>1, SubmitFetchAgrees, SubmitCreateAgrees, SubmitSeedAgrees, SubmitLookupAgrees
<1>2. CASE SubmitSave(j) \/ SubmitComplete(j) \/ SubmitShowCompleted(j)
  BY <1>2, SubmitSaveAgrees, SubmitCompleteAgrees, SubmitShowCompletedAgrees
<1>3. CASE SubmitSend(j) \/ SubmitSendRaises(j)
  BY <1>3, SubmitSendAgrees
<1>4. CASE SubmitLoadFailed(j) \/ SubmitMarkFailed(j) \/ SubmitShowFailed(j) \/ SubmitAbandon(j)
  BY <1>4, SubmitLoadFailedAgrees, SubmitMarkFailedAgrees, SubmitShowFailedAgrees,
     SubmitAbandonAgrees
<1> QED BY <1>1, <1>2, <1>3, <1>4 DEF SubmissionStep

-----------------------------------------------------------------------------
\* Every step of the system.
LEMMA NextAgrees ==
  ASSUME "late" \notin Faults, IInv, AgreeInv, [Next]_vars
  PROVE  AgreeInv'
<1>1. CASE \E j \in Jobs : SubmissionStep(j) /\ UNCHANGED worker
  BY <1>1, SubmissionStepAgrees
<1>2. CASE \E w \in Workers : PollStep(w) /\ UNCHANGED submission
  BY <1>2, WorkerReceiveAgrees, QueueAgrees DEF PollStep
<1>3. CASE \E w \in Workers : PipelineStep(w) /\ UNCHANGED submission
  BY <1>3, PipelineStepAgrees
<1>4. CASE \E w \in Workers : Raise(w) /\ UNCHANGED submission
  BY <1>4, CatchAgrees DEF Raise, PipelinePcs
<1>5. CASE \E w \in Workers : Crash(w) /\ UNCHANGED submission
  BY <1>5, CrashAgrees
<1>6. CASE \E j \in Jobs : VisibilityTimeout(j) /\ UNCHANGED submission
  BY <1>6, QueueAgrees
<1>7. CASE Environment /\ UNCHANGED <<submission, worker, message>>
  BY <1>7, EnvironmentAgrees
<1>8. CASE UNCHANGED vars
  BY <1>8, NothingDisagrees DEF vars, backends
<1> QED BY <1>1, <1>2, <1>3, <1>4, <1>5, <1>6, <1>7, <1>8 DEF Next

-----------------------------------------------------------------------------
\* With a visibility timeout that no pipeline outruns, what each holder of a
\* message knows stays true of the stores in every state of every behaviour.
THEOREM Agreement == ASSUME "late" \notin Faults PROVE Spec => []AgreeInv
<1>1. Init => AgreeInv
  BY InitAgrees
<1>2. IInv /\ AgreeInv /\ [Next]_vars => AgreeInv'
  BY NextAgrees
<1> QED BY <1>1, <1>2, Invariance, PTL DEF Spec

\* One worker at a time handles a job, across crashes and raising calls.
THEOREM OneWorkerPerJob == ASSUME "late" \notin Faults PROVE Spec => []ExclusiveProcessing
<1>1. AgreeInv => ExclusiveProcessing
  BY DEF AgreeInv
<1> QED BY <1>1, Agreement, PTL

\* The insights of a report, cached or fresh, are those of its commit.
THEOREM InsightsAreOfTheCommit == ASSUME "late" \notin Faults PROVE Spec => []InsightsMatchCommit
<1>1. AgreeInv => InsightsMatchCommit
  BY DEF AgreeInv, CacheAgrees, JobAgrees, InsightsMatchCommit
<1> QED BY <1>1, Agreement, PTL

\* A completed row has the commit and the cache key of its report.
THEOREM RowMatchesReport == ASSUME "late" \notin Faults PROVE Spec => []CompletedRowMatchesReport
<1>1. AgreeInv => CompletedRowMatchesReport
  BY DEF AgreeInv, JobAgrees, CompletedRowMatchesReport
<1> QED BY <1>1, Agreement, PTL

\* The ai_fallback of a completed snapshot is that of the report.
THEOREM PageAgrees == ASSUME "late" \notin Faults PROVE Spec => []StatusPageAgrees
<1>1. AgreeInv => StatusPageAgrees
  BY DEF AgreeInv, JobAgrees, StatusPageAgrees
<1> QED BY <1>1, Agreement, PTL

\* The row of an accepted job has an error exactly when it is failed.
THEOREM ErrorsMeanFailed == ASSUME "late" \notin Faults PROVE Spec => []ErrorIffFailed
<1>1. AgreeInv => ErrorIffFailed
  BY DEF AgreeInv, JobAgrees, ErrorIffFailed
<1> QED BY <1>1, Agreement, PTL

\* A deleted message is that of a job completed for every reader.
THEOREM DeletedMeansDone == ASSUME "late" \notin Faults PROVE Spec => []AckedMeansDone
<1>1. AgreeInv => AckedMeansDone
  BY DEF AgreeInv, JobAgrees, AckedMeansDone
<1> QED BY <1>1, Agreement, PTL
=============================================================================
