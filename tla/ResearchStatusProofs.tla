------------------------ MODULE ResearchStatusProofs ------------------------
(***************************************************************************)
(* Proofs about ResearchStatus, over the invariant of the job system: for  *)
(* every set of jobs, workers and commits.  That completed answers have    *)
(* reports needs nothing else; that shown insights stay and that failed    *)
(* answers are final names the faults it excludes, that of overlapping     *)
(* workers first.                                                          *)
(***************************************************************************)
EXTENDS ResearchStatus, RetryProofs

\* What the endpoint knows between its two reads, and what the last answer
\* said.
QueryInv(j) ==
  /\ query[j].pc = "load" /\ query[j].snapshot # None =>
       query[j].snapshot.status = "completed" /\ report[j] # None
  /\ answer[j] # None => (Told(j, "completed") <=> answer[j].report # None)

StatusIInv ==
  /\ IInv
  /\ StatusTypeOK
  /\ \A j \in Jobs : QueryInv(j)

-----------------------------------------------------------------------------
\* No step of the job system takes a report away: submit and save_final_report
\* are the only writers, and both leave one.
LEMMA ReportsStay ==
  ASSUME IInv, IInv', [Next]_vars, NEW j \in Jobs, report[j] # None
  PROVE  report'[j] # None
<1> USE DEF backends
<1>1. CASE \E i \in Jobs : SubmitSave(i)
  <2>1. PICK i \in Jobs : SubmitSave(i)
    BY <1>1
  <2>2. submission'[i].pc = "complete"
    BY <2>1, SubmitGotoEffect DEF SubmitSave, IInv, TypeOK, SubmissionPcs
  <2>3. report'[i] # None
    BY <2>2 DEF IInv, RequestInv
  <2>4. i # j => report'[j] = report[j]
    BY <2>1, Types DEF SubmitSave, StoreReport, IInv
  <2> QED BY <2>3, <2>4
<1>2. CASE \E w \in Workers : SaveReport(w)
  <2>1. PICK w \in Workers : SaveReport(w)
    BY <1>2
  <2>2. /\ worker[w].pc = "save_report" /\ worker[w].job \in Jobs
        /\ Goto(w, "save_report", "load_completed")
    BY <2>1 DEF SaveReport, Goto, IInv, HandlingInv
  <2>3. worker'[w].pc = "load_completed" /\ worker'[w].job = worker[w].job
    BY <2>2, Types DEF Goto, IInv, WorkerTypeOK, WorkerStates
  <2>4. report'[worker[w].job] # None
    BY <2>3 DEF IInv, HandlingInv
  <2>5. worker[w].job # j => report'[j] = report[j]
    BY <2>1, <2>2, Types DEF SaveReport, StoreReport, IInv
  <2> QED BY <2>4, <2>5
<1>3. CASE \E i \in Jobs : SubmissionStep(i) /\ ~SubmitSave(i)
  BY <1>3 DEF SubmissionStep, SubmitFetch, SubmitCreate, SubmitSeed, SubmitLookup,
     SubmitComplete, SubmitShowCompleted, SubmitSend, SubmitSendRaises,
     SubmitLoadFailed, SubmitMarkFailed, SubmitShowFailed, SubmitAbandon
<1>4. CASE \E w \in Workers : PipelineStep(w) /\ ~SaveReport(w)
  <2>1. PICK w \in Workers : PipelineStep(w) /\ ~SaveReport(w)
    BY <1>4
  <2>2. CASE \/ Peek(w) \/ ShowProcessing(w) \/ LoadRow(w) \/ MarkProcessing(w)
             \/ Fetch(w) \/ MarkPreparing(w) \/ Lookup(w)
    BY <2>2 DEF Peek, ShowProcessing, ShowProgress, LoadRow, MarkProcessing, Fetch,
       MarkPreparing, CommitRow, Lookup
  <2>3. CASE \/ AnalyzeSucceeds(w) \/ AnalyzeFallsBack(w) \/ StoreInsights(w)
             \/ LoadReport(w) \/ RaiseIntegrityError(w) \/ MarkCompleted(w)
    BY <2>3 DEF AnalyzeSucceeds, AnalyzeFallsBack, StoreInsights, LoadReport,
       RaiseIntegrityError, Catch, MarkCompleted, CommitRow
  <2>4. CASE \/ ShowCompleted(w) \/ MarkFailed(w) \/ ShowFailed(w) \/ Release(w) \/ Ack(w)
    BY <2>4 DEF ShowCompleted, MarkFailed, CommitRow, ShowFailed, Release, Ack
  <2> QED BY <2>1, <2>2, <2>3, <2>4 DEF PipelineStep
<1>5. CASE \/ \E w \in Workers : PollStep(w) \/ Raise(w) \/ Crash(w)
           \/ \E i \in Jobs : VisibilityTimeout(i)
           \/ Environment
           \/ UNCHANGED vars
  BY <1>5 DEF PollStep, WorkerReceive, WorkerRedrive, Raise, Catch, Crash,
     VisibilityTimeout, Environment, ExpireState, ExpireInsights, Push, vars
<1> QED BY <1>1, <1>2, <1>3, <1>4, <1>5 DEF Next

\* Before the first query nothing is known and nothing was answered.
LEMMA StatusInitEstablishes == StatusInit => StatusIInv
<1> SUFFICES ASSUME StatusInit PROVE StatusIInv
  OBVIOUS
<1>1. IInv
  BY InitEstablishes DEF StatusInit
<1>2. StatusTypeOK
  BY DEF StatusInit, StatusTypeOK, Idle
<1>3. \A j \in Jobs : QueryInv(j)
  BY DEF StatusInit, QueryInv, Idle
<1> QED BY <1>1, <1>2, <1>3 DEF StatusIInv

\* While the job system moves, a query keeps the snapshot it read and the
\* report it will load stays.
LEMMA SystemStep ==
  ASSUME StatusIInv, [Next]_vars, UNCHANGED <<query, answer>>
  PROVE  StatusIInv'
<1>1. IInv'
  BY NextPreserves DEF StatusIInv
<1>2. StatusTypeOK'
  BY DEF StatusIInv, StatusTypeOK
<1>3. ASSUME NEW j \in Jobs PROVE QueryInv(j)'
  <2>1. report[j] # None => report'[j] # None
    BY <1>1, ReportsStay DEF StatusIInv
  <2>2. QueryInv(j)
    BY DEF StatusIInv
  <2> QED BY <2>1, <2>2 DEF QueryInv, Told
<1> QED BY <1>1, <1>2, <1>3 DEF StatusIInv

\* An answer from a snapshot has the types of PollingStatusResponse.
LEMMA FromSnapshotType ==
  ASSUME NEW s \in Snapshots, NEW attached \in Reports \cup {None}
  PROVE  /\ FromSnapshot(s, attached) \in Answers
         /\ FromSnapshot(s, attached).status = s.status
         /\ FromSnapshot(s, attached).report = attached
BY DEF FromSnapshot, Answers, Snapshots

\* Reply gives one client its answer and ends its query.
LEMMA ReplyStep ==
  ASSUME StatusIInv, UNCHANGED vars, NEW j \in Jobs, NEW response \in Answers,
         Reply(j, response), response.status = "completed" <=> response.report # None
  PROVE  StatusIInv'
<1>1. IInv'
  BY CacheAndHeadStep, Types DEF StatusIInv, IInv, vars, backends
<1>2. /\ answer' = [answer EXCEPT ![j] = response]
      /\ query' = [query EXCEPT ![j] = Idle]
  BY DEF Reply
<1>3. StatusTypeOK'
  BY <1>2 DEF StatusIInv, StatusTypeOK, Idle
<1>4. ASSUME NEW i \in Jobs PROVE QueryInv(i)'
  <2>1. QueryInv(i) /\ UNCHANGED report
    BY DEF StatusIInv, vars, backends
  <2>2. CASE i = j
    BY <1>2, <2>2 DEF QueryInv, Told, Idle, StatusIInv, StatusTypeOK
  <2>3. CASE i # j
    BY <1>2, <2>1, <2>3 DEF QueryInv, Told, StatusIInv, StatusTypeOK
  <2> QED BY <2>2, <2>3
<1> QED BY <1>1, <1>3, <1>4 DEF StatusIInv

\* The first read: a completed snapshot has its report behind it, and any
\* other is answered without one.
LEMMA ReadStateStep ==
  ASSUME StatusIInv, UNCHANGED vars, NEW j \in Jobs, ReadState(j)
  PROVE  StatusIInv'
<1>1. snap[j] \in Snapshots \cup {None} /\ JobInv(j) /\ None \in Reports \cup {None}
  BY Types DEF StatusIInv, IInv
<1>2. CASE snap[j] = None \/ ShownAs(j, "completed")
  <2>1. /\ query' = [query EXCEPT ![j] = [pc |-> "load", snapshot |-> snap[j]]]
        /\ UNCHANGED answer
    BY <1>2 DEF ReadState
  <2>2. IInv'
    BY CacheAndHeadStep, Types DEF StatusIInv, IInv, vars, backends
  <2>3. StatusTypeOK'
    BY <1>1, <2>1 DEF StatusIInv, StatusTypeOK
  <2>4. ASSUME NEW i \in Jobs PROVE QueryInv(i)'
    <3>1. QueryInv(i) /\ UNCHANGED report
      BY DEF StatusIInv, vars, backends
    <3>2. CASE i = j
      BY <1>1, <1>2, <2>1, <3>1, <3>2
         DEF QueryInv, Told, JobInv, ShownAs, StatusIInv, StatusTypeOK
    <3>3. CASE i # j
      BY <2>1, <3>1, <3>3 DEF QueryInv, Told, StatusIInv, StatusTypeOK
    <3> QED BY <3>2, <3>3
  <2> QED BY <2>2, <2>3, <2>4 DEF StatusIInv
<1>3. CASE ~(snap[j] = None \/ ShownAs(j, "completed"))
  <2>1. /\ snap[j] \in Snapshots /\ snap[j].status # "completed"
        /\ Reply(j, FromSnapshot(snap[j], None))
    BY <1>1, <1>3 DEF ReadState, ShownAs
  <2> QED BY <1>1, <2>1, FromSnapshotType, ReplyStep
<1> QED BY <1>2, <1>3

\* The second read: the report is there whenever the answer is completed.
LEMMA LoadAndReplyStep ==
  ASSUME StatusIInv, UNCHANGED vars, NEW j \in Jobs, LoadAndReply(j)
  PROVE  StatusIInv'
<1> DEFINE s == query[j].snapshot
<1>1. /\ query[j].pc = "load" /\ s \in Snapshots \cup {None}
      /\ report[j] \in Reports \cup {None} /\ QueryInv(j)
  BY Types DEF LoadAndReply, StatusIInv, IInv, StatusTypeOK
<1>2. CASE s # None
  <2>1. /\ s \in Snapshots /\ Reply(j, FromSnapshot(s, report[j]))
        /\ s.status = "completed" /\ report[j] # None
    BY <1>1, <1>2 DEF LoadAndReply, QueryInv
  <2> QED BY <1>1, <2>1, FromSnapshotType, ReplyStep
<1>3. CASE s = None /\ report[j] # None
  <2>1. Reply(j, FromSnapshot(SnapshotOf(report[j]), report[j])) /\ report[j] \in Reports
    BY <1>1, <1>3 DEF LoadAndReply
  <2>2. SnapshotOf(report[j]) \in Snapshots /\ SnapshotOf(report[j]).status = "completed"
    BY DEF SnapshotOf, Snapshot, Snapshots, Statuses, FallbackFlag
  <2> QED BY <1>3, <2>1, <2>2, FromSnapshotType, ReplyStep
<1>4. CASE s = None /\ report[j] = None
  <2>1. Reply(j, NotFound)
    BY <1>1, <1>4 DEF LoadAndReply
  <2>2. /\ NotFound \in Answers /\ NotFound.status # "completed" /\ NotFound.report = None
    BY DEF NotFound, Answers
  <2> QED BY <2>1, <2>2, ReplyStep
<1> QED BY <1>2, <1>3, <1>4

\* A query that raises is forgotten.
LEMMA QueryRaisesStep ==
  ASSUME StatusIInv, UNCHANGED vars, NEW j \in Jobs, QueryRaises(j)
  PROVE  StatusIInv'
<1>1. IInv'
  BY CacheAndHeadStep, Types DEF StatusIInv, IInv, vars, backends
<1>2. StatusTypeOK'
  BY DEF QueryRaises, StatusIInv, StatusTypeOK, Idle
<1>3. \A i \in Jobs : QueryInv(i)'
  BY DEF QueryRaises, QueryInv, Told, Idle, StatusIInv, StatusTypeOK, vars, backends
<1> QED BY <1>1, <1>2, <1>3 DEF StatusIInv

\* Every step of the endpoint and of the job system keeps the invariant.
LEMMA StatusNextPreserves ==
  ASSUME StatusIInv, [StatusNext]_statusVars
  PROVE  StatusIInv'
<1>1. CASE Next /\ UNCHANGED <<query, answer>>
  BY <1>1, SystemStep
<1>2. CASE \E j \in Jobs : StatusStep(j) /\ UNCHANGED vars
  BY <1>2, ReadStateStep, LoadAndReplyStep, QueryRaisesStep DEF StatusStep
<1>3. CASE UNCHANGED statusVars
  BY <1>3, SystemStep DEF statusVars
<1> QED BY <1>1, <1>2, <1>3 DEF StatusNext

-----------------------------------------------------------------------------
\* What a query knows and what a client was told hold in every behaviour.
THEOREM StatusInvariance == StatusSpec => []StatusIInv
<1>1. StatusInit => StatusIInv
  BY StatusInitEstablishes
<1>2. StatusIInv /\ [StatusNext]_statusVars => StatusIInv'
  BY StatusNextPreserves
<1> QED BY <1>1, <1>2, PTL DEF StatusSpec

\* An answer is completed exactly when it carries a report, although snapshot
\* and report are read at two moments (get_research_job_status).
THEOREM CompletedAnswersHaveReports == StatusSpec => []CompletedAnswerHasReport
<1>1. StatusIInv => CompletedAnswerHasReport
  BY DEF StatusIInv, QueryInv, CompletedAnswerHasReport
<1> QED BY <1>1, StatusInvariance, PTL

-----------------------------------------------------------------------------
(* What one step leaves alone.                                             *)

\* The system under the endpoint is that of ResearchJobs.
LEMMA SystemRuns == StatusSpec => Spec
<1>1. StatusInit => Init
  BY DEF StatusInit
<1>2. [StatusNext]_statusVars => [Next]_vars
  BY DEF StatusNext, statusVars
<1> QED BY <1>1, <1>2, PTL DEF StatusSpec, Spec

\* A request leaves the other jobs alone, and one that is answered its own.
LEMMA RequestLeaves ==
  ASSUME IInv, NEW i \in Jobs, SubmissionStep(i), NEW j \in Jobs, i # j \/ Accepted(j)
  PROVE  /\ i # j /\ submission'[j] = submission[j] /\ report'[j] = report[j]
         /\ snap'[j] = snap[j] /\ message'[j] = message[j]
<1>1. TypeOK
  BY DEF IInv
<1>2. submission[i].pc # "accepted"
  BY DEF SubmissionStep, SubmitFetch, SubmitCreate, SubmitSeed, SubmitLookup, SubmitSave,
         SubmitComplete, SubmitShowCompleted, SubmitSend, SubmitSendRaises,
         SubmitLoadFailed, SubmitMarkFailed, SubmitShowFailed, SubmitAbandon, SubmitGoto
<1>3. i # j
  BY <1>2 DEF Accepted
<1> USE <1>1, <1>3 DEF TypeOK, BackendsTypeOK, SubmissionTypeOK, QueueTypeOK, backends
<1>4. CASE SubmitFetch(i) \/ SubmitCreate(i) \/ SubmitSeed(i) \/ SubmitLookup(i)
  BY <1>4 DEF SubmitFetch, SubmitCreate, SubmitSeed, SubmitLookup, SubmitGoto, SetState
<1>5. CASE SubmitSave(i) \/ SubmitComplete(i) \/ SubmitShowCompleted(i)
  BY <1>5 DEF SubmitSave, SubmitComplete, SubmitShowCompleted, SubmitGoto, Respond, SetState,
              StoreReport
<1>6. CASE SubmitSend(i) \/ SubmitSendRaises(i) \/ SubmitAbandon(i)
  BY <1>6 DEF SubmitSend, SubmitSendRaises, SubmitAbandon, SubmitGoto, Respond, Send, Move
<1>7. CASE SubmitLoadFailed(i) \/ SubmitMarkFailed(i) \/ SubmitShowFailed(i)
  BY <1>7 DEF SubmitLoadFailed, SubmitMarkFailed, SubmitShowFailed, SubmitGoto, Respond, SetState
<1> QED BY <1>4, <1>5, <1>6, <1>7 DEF SubmissionStep

\* A worker leaves every job alone but the one it holds.
LEMMA WorkerLeaves ==
  ASSUME IInv, AgreeInv, NEW w \in Workers, PipelineStep(w) \/ Raise(w) \/ Crash(w),
         NEW j \in Jobs, ~Holds(w, j)
  PROVE  /\ report'[j] = report[j] /\ snap'[j] = snap[j] /\ message'[j] = message[j]
         /\ \A v \in Workers \ {w} : worker'[v] = worker[v]
<1>1. CASE Release(w) \/ Ack(w) \/ Crash(w)
  <2>1. worker[w].pc # "poll" /\ worker' = [worker EXCEPT ![w] = Polling] /\ UNCHANGED backends
    BY <1>1 DEF Release, Ack, Crash
  <2>2. worker[w].job \in Jobs /\ worker[w].job # j
    BY <2>1 DEF IInv, HandlingInv, Holds
  <2>3. message'[j] = message[j]
    BY <1>1, <2>2 DEF Release, Ack, Crash, MakeVisible, Delete, Move, IInv, TypeOK, QueueTypeOK
  <2> QED BY <2>1, <2>3 DEF backends, IInv, TypeOK, WorkerTypeOK
<1>2. CASE (PipelineStep(w) \/ Raise(w)) /\ ~Release(w) /\ ~Ack(w)
  <2>1. PICK i \in Jobs : i = worker[w].job /\ Holds(w, i) /\ Attempted(w, i)
    BY <1>2, StepAttempted
  <2>2. i # j
    BY <2>1
  <2>3. report'[j] = report[j]
    <3>1. CASE SaveReport(w)
      BY <2>1, <2>2, <3>1 DEF SaveReport, StoreReport, IInv, TypeOK, BackendsTypeOK
    <3>2. CASE ~SaveReport(w)
      BY <1>2, <3>2 DEF PipelineStep, Raise, Peek, ShowProcessing, ShowProgress, LoadRow,
         MarkProcessing, Fetch, MarkPreparing, CommitRow, Lookup, AnalyzeSucceeds,
         AnalyzeFallsBack, StoreInsights, LoadReport, RaiseIntegrityError, Catch,
         MarkCompleted, ShowCompleted, MarkFailed, ShowFailed, backends
    <3> QED BY <3>1, <3>2
  <2> QED BY <2>1, <2>2, <2>3 DEF Attempted
<1> QED BY <1>1, <1>2

\* A message that is received or redriven was visible.
LEMMA PollLeaves ==
  ASSUME IInv, NEW w \in Workers, PollStep(w)
  PROVE  /\ worker[w].pc = "poll" /\ UNCHANGED backends
         /\ \A v \in Workers \ {w} : worker'[v] = worker[v]
         /\ \A j \in Jobs : message[j].place # "ready" => message'[j] = message[j]
BY DEF PollStep, WorkerReceive, WorkerRedrive, Receive, Redrive, Move, IInv, TypeOK,
       WorkerTypeOK, QueueTypeOK

\* A snapshot is written by the request of its job or by a worker that has it.
LEMMA ShownBy ==
  ASSUME IInv, AgreeInv, [Next]_vars, NEW j \in Jobs, snap'[j] # snap[j], snap'[j] # None
  PROVE  \/ SubmissionStep(j) /\ UNCHANGED worker
         \/ \E w \in Workers :
              /\ worker[w].job = j /\ UNCHANGED submission
              /\ ShowProcessing(w) \/ ShowFailed(w) \/ ShowCompleted(w)
<1>1. CASE \E i \in Jobs : SubmissionStep(i) /\ UNCHANGED worker
  BY <1>1, RequestLeaves
<1>2. \A w \in Workers : ~PollStep(w) /\ ~Crash(w)
  BY PollLeaves DEF Crash, backends
<1>3. ~(Environment \/ UNCHANGED vars \/ \E i \in Jobs : VisibilityTimeout(i))
  BY DEF Environment, ExpireState, ExpireInsights, Push, SetState, IInv, TypeOK,
         BackendsTypeOK, VisibilityTimeout, vars, backends
<1>4. CASE \E w \in Workers : (PipelineStep(w) \/ Raise(w)) /\ UNCHANGED submission
  <2>1. PICK w \in Workers : (PipelineStep(w) \/ Raise(w)) /\ UNCHANGED submission
    BY <1>4
  <2>2. worker[w].job = j
    BY <2>1, WorkerLeaves DEF Holds
  <2>3. ShowProcessing(w) \/ ShowFailed(w) \/ ShowCompleted(w)
    BY <2>1 DEF PipelineStep, Raise, Peek, LoadRow, MarkProcessing, Fetch,
       MarkPreparing, CommitRow, Lookup, AnalyzeSucceeds, AnalyzeFallsBack, StoreInsights,
       LoadReport, SaveReport, RaiseIntegrityError, Catch, MarkCompleted, MarkFailed,
       Release, Ack, backends
  <2> QED BY <2>1, <2>2, <2>3
<1> QED BY <1>1, <1>2, <1>3, <1>4 DEF Next

\* What a worker writes of a snapshot.
LEMMA WorkerShows ==
  ASSUME IInv, NEW w \in Workers, NEW j \in Jobs, worker[w].job = j
  PROVE  /\ ShowProcessing(w) => snap'[j].status = "processing"
         /\ ShowFailed(w) => snap'[j].status = "failed" /\ ~snap'[j].instant
         /\ ShowCompleted(w) => snap'[j].status = "completed"
<1>1. snap \in [Jobs -> Snapshots \cup {None}]
  BY DEF IInv, TypeOK, BackendsTypeOK
<1>2. ASSUME ShowProcessing(w) PROVE snap'[j].status = "processing"
  <2>1. PICK instant : SetState(j, Snapshot("processing", instant))
    BY <1>2 DEF ShowProcessing, ShowProgress
  <2>2. snap'[j] = Snapshot("processing", instant)
    BY <1>1, <2>1 DEF SetState
  <2> QED BY <2>2 DEF Snapshot
<1>3. ASSUME ShowFailed(w) PROVE snap'[j].status = "failed" /\ ~snap'[j].instant
  <2>1. snap'[j] = Snapshot("failed", FALSE)
    BY <1>1, <1>3 DEF ShowFailed, SetState
  <2> QED BY <2>1 DEF Snapshot
<1>4. ASSUME ShowCompleted(w) PROVE snap'[j].status = "completed"
  <2> DEFINE s == Snapshot("completed", TRUE)
  <2>1. snap'[j] = [s EXCEPT !.fallback = FallbackFlag(worker[w].reason)]
    BY <1>1, <1>4 DEF ShowCompleted, SetState
  <2>2. s \in Snapshots /\ s.status = "completed"
    BY DEF Snapshot, Snapshots, Statuses
  <2> QED BY <2>1, <2>2 DEF Snapshots
<1> QED BY <1>2, <1>3, <1>4

-----------------------------------------------------------------------------
(* Answers that stay.                                                      *)

\* A query writes the answer of its own client.
LEMMA QueryLeaves ==
  ASSUME StatusTypeOK, NEW i \in Jobs, StatusStep(i)
  PROVE  \A j \in Jobs \ {i} : query'[j] = query[j] /\ answer'[j] = answer[j]
BY DEF StatusTypeOK, StatusStep, ReadState, LoadAndReply, QueryRaises, Reply

\* The insights that a client was shown are those of the report that is saved.
ShownInv ==
  \A j \in Jobs : Told(j, "completed") /\ answer[j].report.insights # None =>
    report[j] = answer[j].report

\* The second read answers with the report that is saved, or with a problem.
LEMMA LoadShows ==
  ASSUME StatusTypeOK, NEW j \in Jobs, LoadAndReply(j)
  PROVE  answer'[j].report = report[j] \/ answer'[j].status = "not_found"
<1> DEFINE s == query[j].snapshot
<1>1. answer \in [Jobs -> Answers \cup {None}]
  BY DEF StatusTypeOK
<1>2. CASE s # None
  <2>1. answer'[j] = FromSnapshot(s, report[j])
    BY <1>1, <1>2 DEF LoadAndReply, Reply
  <2> QED BY <2>1 DEF FromSnapshot
<1>3. CASE s = None /\ report[j] # None
  <2>1. answer'[j] = FromSnapshot(SnapshotOf(report[j]), report[j])
    BY <1>1, <1>3 DEF LoadAndReply, Reply
  <2> QED BY <2>1 DEF FromSnapshot
<1>4. CASE s = None /\ report[j] = None
  <2>1. answer'[j] = NotFound
    BY <1>1, <1>4 DEF LoadAndReply, Reply
  <2> QED BY <2>1 DEF NotFound
<1> QED BY <1>2, <1>3, <1>4

\* Every step, while nobody pushes and no key expires: the analysis that a client
\* was shown is kept by the attempts that follow, and the next query finds it.
LEMMA ShownStep ==
  ASSUME {"late", "ttl", "push"} \cap Faults = {}, StatusIInv, AgreeInv, CachedInv,
         ShownInv, [StatusNext]_statusVars
  PROVE  /\ ShownInv'
         /\ \A j \in Jobs :
              /\ Told(j, "completed") /\ answer[j].report.insights # None
              /\ Told(j, "completed")'
              => answer'[j].report = answer[j].report
<1> SUFFICES ASSUME NEW j \in Jobs
             PROVE  /\ Told(j, "completed")' /\ answer'[j].report.insights # None =>
                         report'[j] = answer'[j].report
                    /\ /\ Told(j, "completed") /\ answer[j].report.insights # None
                       /\ Told(j, "completed")'
                       => answer'[j].report = answer[j].report
  BY DEF ShownInv
<1>1. Told(j, "completed") /\ answer[j].report.insights # None => report[j] = answer[j].report
  BY DEF ShownInv
<1>2. Told(j, "completed") => answer[j].report # None
  BY DEF StatusIInv, QueryInv, Told
<1>3. CASE [Next]_vars /\ UNCHANGED <<query, answer>>
  <2>1. Keeps
    BY <1>3, NextKeepsCached DEF StatusIInv
  <2>2. report[j] # None /\ report[j].insights # None => report'[j] = report[j]
    BY <2>1 DEF Keeps, Analysed
  <2> QED BY <1>1, <1>2, <1>3, <2>2 DEF Told
<1>4. CASE \E i \in Jobs : StatusStep(i) /\ UNCHANGED vars
  <2>1. PICK i \in Jobs : StatusStep(i) /\ UNCHANGED vars
    BY <1>4
  <2>2. UNCHANGED report /\ StatusTypeOK
    BY <2>1 DEF vars, backends, StatusIInv
  <2>3. CASE answer'[j] = answer[j]
    BY <1>1, <2>2, <2>3 DEF Told
  <2>4. CASE answer'[j] # answer[j] /\ ReadState(j)
    <3>1. /\ snap[j] # None /\ ~ShownAs(j, "completed")
          /\ answer'[j] = FromSnapshot(snap[j], None)
      BY <2>2, <2>4 DEF ReadState, Reply, StatusTypeOK
    <3>2. ~Told(j, "completed")'
      BY <3>1 DEF Told, FromSnapshot, ShownAs
    <3> QED BY <3>2
  <2>5. CASE LoadAndReply(j)
    <3>1. answer'[j].report = report[j] \/ answer'[j].status = "not_found"
      BY <2>2, <2>5, LoadShows
    <3> QED BY <1>1, <2>2, <3>1 DEF Told
  <2>6. CASE QueryRaises(j)
    BY <2>3, <2>6 DEF QueryRaises
  <2> QED BY <2>1, <2>2, <2>3, <2>4, <2>5, <2>6, QueryLeaves DEF StatusStep
<1> QED BY <1>3, <1>4 DEF StatusNext, statusVars

\* A client that was shown insights is never shown the report without them, or
\* another one, although calls may raise after they took effect, the completing
\* set_state among them, and workers may die: a later attempt makes the same
\* report from the cache.
THEOREM InsightsShownStay ==
  ASSUME {"late", "ttl", "push"} \cap Faults = {} PROVE StatusSpec => ShownInsightsStay
<1>1. StatusInit => ShownInv
  BY DEF StatusInit, ShownInv, Told
<1>2. StatusIInv /\ AgreeInv /\ CachedInv /\ ShownInv /\ [StatusNext]_statusVars
      => /\ ShownInv'
         /\ \A j \in Jobs :
              /\ Told(j, "completed") /\ answer[j].report.insights # None
              /\ Told(j, "completed")'
              /\ answer'[j].report.commit = answer[j].report.commit
              => answer'[j].report = answer[j].report
  <2> SUFFICES ASSUME StatusIInv, AgreeInv, CachedInv, ShownInv, [StatusNext]_statusVars
               PROVE  /\ ShownInv'
                      /\ \A j \in Jobs :
                           /\ Told(j, "completed") /\ answer[j].report.insights # None
                           /\ Told(j, "completed")'
                           => answer'[j].report = answer[j].report
    OBVIOUS
  <2> QED BY ShownStep
<1>3. Spec => []AgreeInv
  BY Agreement
<1>4. Spec => []CachedInv
  BY CacheServes
<1> QED BY <1>1, <1>2, <1>3, <1>4, SystemRuns, StatusInvariance, PTL
       DEF StatusSpec, ShownInsightsStay

\* A client is shown failed only when the last attempt is over, which leaves
\* the snapshot without instant data, and asks no more than that.
FailedKept(j) ==
  /\ submission[j].pc \in BeforeSend => ~ShownAs(j, "failed")
  /\ Accepted(j) /\ ShownAs(j, "failed") => ~snap[j].instant
  /\ Told(j, "failed") => Accepted(j) /\ ShownAs(j, "failed") /\ query[j].pc = "idle"

FailedKeptInv == \A j \in Jobs : FailedKept(j)

\* The snapshot that the last attempt has left is the last one.
LEMMA FailureStays ==
  ASSUME {"late", "ttl"} \cap Faults = {}, IInv, AgreeInv, SnapshotInv, [Next]_vars,
         NEW j \in Jobs, Accepted(j), snap[j] # None, ~snap[j].instant
  PROVE  Accepted(j)' /\ snap'[j] = snap[j]
<1>1. \A i \in Jobs : ~SubmissionStep(i) \/ submission'[j] = submission[j]
  BY RequestLeaves
<1>2. Accepted(j)'
  BY <1>1 DEF Next, Accepted, vars
<1>3. ASSUME snap'[j] # snap[j] PROVE FALSE
  <2>1. snap'[j] # None
    <3>1. CASE Environment
      BY <1>3, <3>1 DEF Environment, ExpireState, ExpireInsights, Push
    <3>2. CASE ~Environment
      <4>1. SnapshotInv'
        BY NextKeepsSnapshot
      <4> QED BY <1>2, <4>1 DEF SnapshotInv, SnapshotKept, Accepted
    <3> QED BY <3>1, <3>2
  <2>2. ~SubmissionStep(j)
    BY RequestLeaves
  <2>3. PICK w \in Workers :
          worker[w].job = j /\ (ShowProcessing(w) \/ ShowFailed(w) \/ ShowCompleted(w))
    BY <1>3, <2>1, <2>2, ShownBy
  <2>4. worker[w].pc \notin {"poll", "release"}
    BY <2>3 DEF ShowProcessing, ShowProgress, ShowFailed, ShowCompleted, Goto
  <2> QED BY <2>3, <2>4 DEF SnapshotInv, SnapshotKept, Holds
<1> QED BY <1>2, <1>3

\* A step of the system: a failure is shown to an accepted job by the worker of
\* its last attempt alone, and is not taken back.
LEMMA FailureShown ==
  ASSUME {"late", "ttl"} \cap Faults = {}, IInv, AgreeInv, SnapshotInv, FailedKeptInv,
         [Next]_vars, UNCHANGED <<query, answer>>
  PROVE  FailedKeptInv'
<1> SUFFICES ASSUME NEW j \in Jobs PROVE FailedKept(j)'
  BY DEF FailedKeptInv
<1>1. FailedKept(j) /\ RequestInv(j) /\ TypeOK
  BY DEF FailedKeptInv, IInv
<1>2. snap[j] \in Snapshots \cup {None}
  BY <1>1 DEF TypeOK, BackendsTypeOK
<1>3. Told(j, "failed")' =>
        Accepted(j)' /\ ShownAs(j, "failed")' /\ query'[j].pc = "idle"
  <2>1. Told(j, "failed") => Accepted(j)' /\ snap'[j] = snap[j]
    BY <1>1, FailureStays DEF FailedKept, ShownAs
  <2> QED BY <1>1, <2>1 DEF FailedKept, Told, ShownAs
<1>4. CASE SubmissionStep(j)
  <2>1. CASE SubmitFetch(j) \/ SubmitCreate(j) \/ SubmitLookup(j) \/ SubmitSave(j)
             \/ SubmitComplete(j) \/ SubmitSend(j)
    <3>1. UNCHANGED snap /\ submission[j].pc \in BeforeSend
      BY <2>1 DEF SubmitFetch, SubmitCreate, SubmitLookup, SubmitSave, SubmitComplete,
                  SubmitSend, SubmitGoto, BeforeSend, backends
    <3> QED BY <1>1, <1>3, <3>1 DEF FailedKept, ShownAs
  <2>2. CASE SubmitSeed(j) \/ SubmitShowCompleted(j)
    <3>1. PICK status \in {"pending", "completed"} : SetState(j, Snapshot(status, TRUE))
      BY <2>2 DEF SubmitSeed, SubmitShowCompleted
    <3>2. snap'[j] = Snapshot(status, TRUE)
      BY <1>1, <3>1 DEF SetState, TypeOK, BackendsTypeOK
    <3>3. snap'[j].status # "failed"
      BY <3>2 DEF Snapshot
    <3> QED BY <1>3, <3>3 DEF FailedKept, ShownAs
  <2>3. CASE SubmitSendRaises(j) \/ SubmitLoadFailed(j) \/ SubmitMarkFailed(j)
             \/ SubmitShowFailed(j) \/ SubmitAbandon(j)
    <3>1. submission'[j].pc \in UndoPcs
      BY <1>1, <2>3 DEF SubmitSendRaises, SubmitLoadFailed, SubmitMarkFailed,
         SubmitShowFailed, SubmitAbandon, SubmitGoto, Respond, NewRequest, UndoPcs, TypeOK,
         SubmissionTypeOK
    <3> QED BY <1>3, <3>1 DEF FailedKept, Accepted, UndoPcs, BeforeSend
  <2> QED BY <1>4, <2>1, <2>2, <2>3 DEF SubmissionStep
<1>5. CASE ~SubmissionStep(j)
  <2>1. submission'[j] = submission[j]
    <3>1. \A i \in Jobs : SubmissionStep(i) => submission'[j] = submission[j]
      BY <1>5, RequestLeaves
    <3> QED BY <3>1 DEF Next, vars
  <2>2. CASE snap'[j] = snap[j]
    BY <1>1, <1>3, <2>1, <2>2 DEF FailedKept, Accepted, ShownAs
  <2>3. CASE snap'[j] = None
    BY <1>3, <2>3 DEF FailedKept, ShownAs
  <2>4. CASE snap'[j] # snap[j] /\ snap'[j] # None
    <3>1. PICK w \in Workers :
            worker[w].job = j /\ (ShowProcessing(w) \/ ShowFailed(w) \/ ShowCompleted(w))
      BY <1>5, <2>4, ShownBy
    <3>2. snap'[j].status # "failed" \/ ~snap'[j].instant
      BY <3>1, WorkerShows
    <3>3. message[j].place # "unsent"
      BY <3>1 DEF IInv, HandlingInv, ShowProcessing, ShowProgress, ShowFailed, ShowCompleted, Goto
    <3>4. submission'[j].pc \notin BeforeSend
      BY <1>1, <2>1, <3>3 DEF RequestInv
    <3> QED BY <1>3, <3>2, <3>4 DEF FailedKept, ShownAs
  <2> QED BY <2>2, <2>3, <2>4
<1> QED BY <1>4, <1>5

\* A client that was told failed is told so again, by the first read.
LEMMA FailedStep ==
  ASSUME {"late", "ttl"} \cap Faults = {}, StatusIInv, AgreeInv, SnapshotInv,
         FailedKeptInv, [StatusNext]_statusVars
  PROVE  /\ FailedKeptInv'
         /\ \A j \in Jobs : Told(j, "failed") => answer'[j].status \in {"failed", "not_found"}
<1>1. CASE [Next]_vars /\ UNCHANGED <<query, answer>>
  BY <1>1, FailureShown DEF StatusIInv, Told
<1>2. CASE \E i \in Jobs : StatusStep(i) /\ UNCHANGED vars
  <2>1. PICK i \in Jobs : StatusStep(i) /\ UNCHANGED vars
    BY <1>2
  <2>2. /\ query \in [Jobs -> [pc : {"idle", "load"}, snapshot : Snapshots \cup {None}]]
        /\ answer \in [Jobs -> Answers \cup {None}] /\ StatusTypeOK
    BY DEF StatusIInv, StatusTypeOK
  <2>3. ASSUME NEW j \in Jobs
        PROVE  /\ submission'[j].pc = submission[j].pc /\ Accepted(j)' = Accepted(j)
               /\ ShownAs(j, "failed")' = ShownAs(j, "failed") /\ snap'[j] = snap[j]
               /\ FailedKept(j)
    BY <2>1 DEF Accepted, ShownAs, vars, backends, FailedKeptInv
  <2>4. ASSUME NEW j \in Jobs, query'[j] = query[j], answer'[j] = answer[j]
        PROVE  /\ FailedKept(j)'
               /\ Told(j, "failed") => answer'[j].status \in {"failed", "not_found"}
    BY <2>3, <2>4 DEF FailedKept, Told
  <2>5. ASSUME NEW j \in Jobs, j # i
        PROVE  query'[j] = query[j] /\ answer'[j] = answer[j]
    BY <2>1, <2>2, <2>5, QueryLeaves
  <2>6. CASE ReadState(i)
    <3>1. CASE snap[i] = None \/ ShownAs(i, "completed")
      <4>1. answer'[i] = answer[i] /\ ~ShownAs(i, "failed")
        BY <2>2, <2>6, <3>1 DEF ReadState, ShownAs
      <4>2. ~Told(i, "failed") /\ ~Told(i, "failed")'
        BY <2>3, <4>1 DEF FailedKept, Told
      <4> QED BY <2>3, <2>4, <2>5, <4>2 DEF FailedKept, FailedKeptInv
    <3>2. CASE ~(snap[i] = None \/ ShownAs(i, "completed"))
      <4>1. /\ Accepted(i) /\ snap[i] # None /\ query'[i].pc = "idle"
            /\ answer'[i] = FromSnapshot(snap[i], None)
        BY <2>2, <2>6, <3>2 DEF ReadState, Reply, Idle
      <4>2. answer'[i].status = snap[i].status
        BY <4>1 DEF FromSnapshot
      <4>3. FailedKept(i)' /\ (Told(i, "failed") => answer'[i].status = "failed")
        BY <2>3, <4>1, <4>2 DEF FailedKept, Told, ShownAs
      <4> QED BY <2>4, <2>5, <4>3 DEF FailedKeptInv
    <3> QED BY <3>1, <3>2
  <2>7. CASE LoadAndReply(i)
    <3>1. query[i].pc = "load" /\ ~Told(i, "failed")
      BY <2>3, <2>7 DEF LoadAndReply, FailedKept
    <3>2. answer'[i].status \in {"completed", "not_found"}
      <4> DEFINE s == query[i].snapshot
      <4>1. CASE s # None
        <5>1. answer'[i] = FromSnapshot(s, report[i])
          BY <2>2, <2>7, <4>1 DEF LoadAndReply, Reply
        <5>2. s.status = "completed"
          BY <3>1, <4>1 DEF StatusIInv, QueryInv
        <5> QED BY <5>1, <5>2 DEF FromSnapshot
      <4>2. CASE s = None /\ report[i] # None
        <5>1. answer'[i] = FromSnapshot(SnapshotOf(report[i]), report[i])
          BY <2>2, <2>7, <4>2 DEF LoadAndReply, Reply
        <5>2. SnapshotOf(report[i]).status = "completed"
          BY DEF SnapshotOf, Snapshot
        <5> QED BY <5>1, <5>2 DEF FromSnapshot
      <4>3. CASE s = None /\ report[i] = None
        <5>1. answer'[i] = NotFound
          BY <2>2, <2>7, <4>3 DEF LoadAndReply, Reply
        <5> QED BY <5>1 DEF NotFound
      <4> QED BY <4>1, <4>2, <4>3
    <3>3. FailedKept(i)'
      BY <2>3, <3>2 DEF FailedKept, Told
    <3> QED BY <2>4, <2>5, <3>1, <3>3 DEF FailedKeptInv
  <2>8. CASE QueryRaises(i)
    <3>1. query[i].pc = "load" /\ answer'[i] = answer[i]
      BY <2>8 DEF QueryRaises
    <3>2. ~Told(i, "failed") /\ ~Told(i, "failed")'
      BY <2>3, <3>1 DEF FailedKept, Told
    <3> QED BY <2>3, <2>4, <2>5, <3>2 DEF FailedKept, FailedKeptInv
  <2> QED BY <2>1, <2>6, <2>7, <2>8 DEF StatusStep
<1> QED BY <1>1, <1>2 DEF StatusNext, statusVars

\* A client that was told failed is never told anything better, although
\* workers may die and jobs are retried: only the last attempt tells.
THEOREM FailedAnswersAreFinal ==
  ASSUME {"late", "ttl"} \cap Faults = {} PROVE StatusSpec => FailedAnswerIsFinal
<1>1. StatusInit => FailedKeptInv
  <2> SUFFICES ASSUME StatusInit, NEW j \in Jobs PROVE FailedKept(j)
    BY DEF FailedKeptInv
  <2> QED BY DEF StatusInit, Init, BackendsInit, FailedKept, ShownAs, Told
<1>2. StatusIInv /\ AgreeInv /\ SnapshotInv /\ FailedKeptInv /\ [StatusNext]_statusVars
      => /\ FailedKeptInv'
         /\ \A j \in Jobs : Told(j, "failed") => answer'[j].status \in {"failed", "not_found"}
  BY FailedStep
<1>3. Spec => []AgreeInv
  BY Agreement
<1>4. Spec => []SnapshotInv
  BY SnapshotsStay
<1> QED BY <1>1, <1>2, <1>3, <1>4, SystemRuns, StatusInvariance, PTL
       DEF StatusSpec, FailedAnswerIsFinal
=============================================================================
