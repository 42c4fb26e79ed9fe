-------------------------- MODULE JobLedgerProofs ---------------------------
(***************************************************************************)
(* The job system implements the ledger of at-least-once work, for every   *)
(* set of jobs, workers and commits, every bound on receives and every set *)
(* of faults: each step is one step of the ledger or none.                 *)
(***************************************************************************)
EXTENDS ResearchJobsProofs

Reported(j) == report[j] # None

\* What the ledger sees of a job is left as it was.
SameEntry(j) ==
  /\ ClientAnswer(j)' = ClientAnswer(j)
  /\ WorkItem(j)' = WorkItem(j)
  /\ Reported(j)' = Reported(j)

OthersSame(j) == \A i \in Jobs \ {j} : SameEntry(i)

-----------------------------------------------------------------------------
(* A step that changes one entry is a step of the ledger.                  *)

\* Nothing the ledger sees has changed.
LEMMA Stutters ==
  ASSUME \A j \in Jobs : SameEntry(j)
  PROVE  UNCHANGED Ledger!ledger
BY DEF SameEntry, Reported, Ledger!ledger

\* The entry of one job as a function update.
LEMMA EntryUpdate ==
  ASSUME NEW j \in Jobs, OthersSame(j)
  PROVE  /\ [i \in Jobs |-> ClientAnswer(i)]' =
              [[i \in Jobs |-> ClientAnswer(i)] EXCEPT ![j] = ClientAnswer(j)']
         /\ [i \in Jobs |-> WorkItem(i)]' =
              [[i \in Jobs |-> WorkItem(i)] EXCEPT ![j] = WorkItem(j)']
         /\ [i \in Jobs |-> report[i] # None]' =
              [[i \in Jobs |-> report[i] # None] EXCEPT ![j] = report'[j] # None]
BY DEF OthersSame, SameEntry, Reported

\* The ledger's variables for a job whose client answer stays.
LEMMA EntryKept ==
  ASSUME NEW j \in Jobs, OthersSame(j)
  PROVE  /\ ClientAnswer(j)' = ClientAnswer(j) =>
              [i \in Jobs |-> ClientAnswer(i)]' = [i \in Jobs |-> ClientAnswer(i)]
         /\ WorkItem(j)' = WorkItem(j) =>
              [i \in Jobs |-> WorkItem(i)]' = [i \in Jobs |-> WorkItem(i)]
         /\ Reported(j)' = Reported(j) =>
              [i \in Jobs |-> report[i] # None]' = [i \in Jobs |-> report[i] # None]
BY DEF OthersSame, SameEntry, Reported

\* send: the work item appears, with or without an answer to the client.
LEMMA Opens ==
  ASSUME NEW j \in Jobs, OthersSame(j), ClientAnswer(j) = "waiting",
         WorkItem(j) = "none", WorkItem(j)' = "open", Reported(j)' = Reported(j),
         ClientAnswer(j)' \in {"waiting", "accepted"}
  PROVE  Ledger!Open(j)
BY EntryUpdate, EntryKept DEF Ledger!Open, Ledger!Reply

\* submit answers with a report in the table, or with a problem.
LEMMA Answers ==
  ASSUME NEW j \in Jobs, OthersSame(j), ClientAnswer(j) = "waiting",
         WorkItem(j)' = WorkItem(j), Reported(j)' = Reported(j)
  PROVE  /\ ClientAnswer(j)' = "accepted" /\ Reported(j) => Ledger!AcceptReported(j)
         /\ ClientAnswer(j)' = "refused" => Ledger!Refuse(j)
BY EntryUpdate, EntryKept
   DEF Ledger!AcceptReported, Ledger!Refuse, Ledger!Reply, Reported

\* A report is saved while the client waits or the work item is there.
LEMMA Produces ==
  ASSUME NEW j \in Jobs, OthersSame(j), ClientAnswer(j)' = ClientAnswer(j),
         WorkItem(j)' = WorkItem(j), Reported(j)',
         ClientAnswer(j) = "waiting" \/ WorkItem(j) # "none"
  PROVE  Ledger!Produce(j)
BY EntryUpdate, EntryKept DEF Ledger!Produce, Reported

\* The message is deleted with a report there, or dead-lettered.
LEMMA Ends ==
  ASSUME NEW j \in Jobs, OthersSame(j), ClientAnswer(j)' = ClientAnswer(j),
         WorkItem(j) = "open", Reported(j)' = Reported(j)
  PROVE  /\ WorkItem(j)' = "closed" /\ Reported(j) => Ledger!Close(j)
         /\ WorkItem(j)' = "buried" => Ledger!Bury(j)
BY EntryUpdate, EntryKept DEF Ledger!Close, Ledger!Bury, Reported

\* The empty system is the empty ledger.
LEMMA InitMaps == Init => Ledger!LedgerInit
<1> SUFFICES ASSUME Init PROVE Ledger!LedgerInit
  OBVIOUS
<1>1. \A j \in Jobs : submission[j].pc = "fetch" /\ message[j].place = "unsent" /\ report[j] = None
  BY DEF Init, BackendsInit, QueueInit, SubmissionInit, NewRequest
<1>2. \A j \in Jobs : ClientAnswer(j) = "waiting" /\ WorkItem(j) = "none"
  BY <1>1 DEF ClientAnswer, WorkItem
<1>3. [j \in Jobs |-> report[j] # None] = [j \in Jobs |-> FALSE]
  BY <1>1
<1> QED BY <1>2, <1>3 DEF Ledger!LedgerInit

-----------------------------------------------------------------------------
(* The steps of a request.                                                 *)

Answered == {"accepted", "refused"}

\* A job of which request, message and report stay has the same entry.
LEMMA Untouched ==
  ASSUME NEW i \in Jobs, submission'[i] = submission[i], message'[i] = message[i],
         report'[i] = report[i]
  PROVE  SameEntry(i)
BY DEF SameEntry, ClientAnswer, WorkItem, Reported

\* A request that goes on to its next call.
LEMMA RequestGoesOn ==
  ASSUME NEW j \in Jobs, submission[j].pc \notin Answered, submission'[j].pc \notin Answered,
         \A i \in Jobs \ {j} : submission'[i] = submission[i],
         UNCHANGED <<report, message>>
  PROVE  UNCHANGED Ledger!ledger
<1>1. SameEntry(j)
  BY DEF SameEntry, ClientAnswer, WorkItem, Reported, Answered
<1>2. OthersSame(j)
  BY Untouched DEF OthersSame
<1> QED BY <1>1, <1>2, Stutters DEF OthersSame

\* The calls of submit that neither send nor answer nor save.
LEMMA SubmitCallMaps ==
  ASSUME IInv, NEW j \in Jobs,
         \/ SubmitFetch(j) \/ SubmitCreate(j) \/ SubmitSeed(j) \/ SubmitLookup(j)
         \/ SubmitComplete(j) \/ SubmitLoadFailed(j) \/ SubmitMarkFailed(j)
  PROVE  UNCHANGED Ledger!ledger
<1>1. SubmissionTypeOK
  BY DEF IInv, TypeOK
<1>2. UNCHANGED <<report, message>>
  BY DEF SubmitFetch, SubmitCreate, SubmitSeed, SubmitLookup, SubmitComplete,
         SubmitLoadFailed, SubmitMarkFailed, backends
<1>3. submission[j].pc \notin Answered
  BY DEF SubmitFetch, SubmitCreate, SubmitSeed, SubmitLookup, SubmitComplete,
         SubmitLoadFailed, SubmitMarkFailed, SubmitGoto, Answered
<1>4. /\ submission'[j].pc \notin Answered
      /\ \A i \in Jobs \ {j} : submission'[i] = submission[i]
  <2>1. CASE SubmitFetch(j) \/ SubmitLookup(j) \/ SubmitLoadFailed(j)
    BY <1>1, <2>1 DEF SubmissionTypeOK, SubmitFetch, SubmitLookup, SubmitLoadFailed, Answered
  <2>2. CASE SubmitCreate(j) \/ SubmitSeed(j) \/ SubmitComplete(j) \/ SubmitMarkFailed(j)
    BY <1>1, <2>2 DEF SubmissionTypeOK, SubmitCreate, SubmitSeed, SubmitComplete,
                      SubmitMarkFailed, SubmitGoto, Answered
  <2> QED BY <2>1, <2>2
<1> QED BY <1>2, <1>3, <1>4, RequestGoesOn

\* submit saves a report made of cached insights.
LEMMA SubmitSaveMaps ==
  ASSUME IInv, NEW j \in Jobs, SubmitSave(j)
  PROVE  Ledger!Produce(j)
<1>1. /\ SubmissionTypeOK /\ report \in [Jobs -> Reports \cup {None}] /\ IInv
      /\ submission[j].commit \in Commits /\ submission[j].insights \in Commits \cup {None}
  BY DEF IInv, TypeOK, BackendsTypeOK, RequestInv, SubmitSave, SubmitGoto, BeforeSend,
         SubmissionTypeOK
<1>2. /\ submission[j].pc = "save" /\ submission'[j].pc = "complete"
      /\ \A i \in Jobs \ {j} : submission'[i] = submission[i]
      /\ message' = message
  BY <1>1, SubmitGotoEffect DEF SubmitSave, SubmissionPcs
<1>3. report'[j] \in Reports /\ \A i \in Jobs \ {j} : report'[i] = report[i]
  BY <1>1, StoreReportEffect DEF SubmitSave, Reports, Reasons
<1>4. OthersSame(j)
  BY <1>2, <1>3, Untouched DEF OthersSame
<1>5. Reported(j)'
  BY <1>3, NoneAssumption DEF Reported
<1> QED BY <1>2, <1>4, <1>5, Produces DEF ClientAnswer, WorkItem

\* The client gets its job id for a report, or a problem.
LEMMA SubmitAnswerMaps ==
  ASSUME IInv, NEW j \in Jobs,
         SubmitShowCompleted(j) \/ SubmitShowFailed(j) \/ SubmitAbandon(j)
  PROVE  Ledger!AcceptReported(j) \/ Ledger!Refuse(j)
<1>1. SubmissionTypeOK /\ RequestInv(j)
  BY DEF IInv, TypeOK
<1>2. /\ UNCHANGED <<report, message>>
      /\ submission[j].pc \notin Answered
  BY DEF SubmitShowCompleted, SubmitShowFailed, SubmitAbandon, backends, Answered
<1>3. \/ Respond(j, "accepted") /\ report[j] # None
      \/ Respond(j, "refused")
  BY <1>1 DEF SubmitShowCompleted, SubmitShowFailed, SubmitAbandon, RequestInv
<1>4. \A i \in Jobs \ {j} : submission'[i] = submission[i]
  BY <1>1, <1>3, RespondEffect DEF SubmissionPcs
<1>5. OthersSame(j)
  BY <1>2, <1>4, Untouched DEF OthersSame
<1>6. /\ ClientAnswer(j) = "waiting"
      /\ WorkItem(j)' = WorkItem(j) /\ Reported(j)' = Reported(j)
  BY <1>2 DEF ClientAnswer, WorkItem, Reported, Answered
<1>7. CASE Respond(j, "accepted") /\ report[j] # None
  BY <1>1, <1>5, <1>6, <1>7, Answers, RespondEffect DEF ClientAnswer, Reported, SubmissionPcs
<1>8. CASE Respond(j, "refused")
  BY <1>1, <1>5, <1>6, <1>8, Answers, RespondEffect DEF ClientAnswer, SubmissionPcs
<1> QED BY <1>3, <1>7, <1>8

\* send returns, or raises with the message in the queue or not.
LEMMA SubmitSendMaps ==
  ASSUME IInv, NEW j \in Jobs, SubmitSend(j) \/ SubmitSendRaises(j)
  PROVE  Ledger!Open(j) \/ UNCHANGED Ledger!ledger
<1>1. SubmissionTypeOK /\ QueueTypeOK /\ submission[j].pc = "send"
  BY DEF IInv, TypeOK, SubmitSend, SubmitSendRaises, SubmitGoto
<1>2. report' = report /\ ClientAnswer(j) = "waiting"
  BY <1>1 DEF SubmitSend, SubmitSendRaises, backends, ClientAnswer
<1>3. /\ submission'[j].pc \in {"accepted", "load_failed"}
      /\ \A i \in Jobs \ {j} : submission'[i] = submission[i]
  BY <1>1, RespondEffect, SubmitGotoEffect DEF SubmitSend, SubmitSendRaises, SubmissionPcs
<1>4. CASE Send(j)
  <2>1. /\ message[j].place = "unsent" /\ message'[j].place = "ready"
        /\ \A i \in Jobs \ {j} : message'[i] = message[i]
    BY <1>1, <1>4, MoveEffect DEF Send, Places
  <2>2. OthersSame(j)
    BY <1>2, <1>3, <2>1, Untouched DEF OthersSame
  <2>3. WorkItem(j) = "none" /\ WorkItem(j)' = "open" /\ Reported(j)' = Reported(j)
    BY <1>2, <2>1 DEF WorkItem, Reported
  <2>4. ClientAnswer(j)' \in {"waiting", "accepted"}
    BY <1>3 DEF ClientAnswer
  <2> QED BY <1>2, <2>2, <2>3, <2>4, Opens
<1>5. CASE ~Send(j)
  <2>1. message' = message /\ submission'[j].pc = "load_failed"
    BY <1>1, <1>5, SubmitGotoEffect DEF SubmitSend, SubmitSendRaises, SubmissionPcs
  <2> QED BY <1>1, <1>2, <1>3, <2>1, RequestGoesOn DEF Answered
<1> QED BY <1>4, <1>5

-----------------------------------------------------------------------------
(* The steps of a worker, of the queue and of the environment.             *)

\* A message that moves between ready and flight, and nothing else.
LEMMA MessageMoves ==
  ASSUME QueueTypeOK, NEW j \in Jobs, UNCHANGED <<submission, report>>,
         message[j].place \in {"ready", "flight"}, message'[j].place \in {"ready", "flight"},
         \A i \in Jobs \ {j} : message'[i] = message[i]
  PROVE  UNCHANGED Ledger!ledger
<1>1. SameEntry(j)
  BY DEF SameEntry, ClientAnswer, WorkItem, Reported
<1>2. OthersSame(j)
  BY Untouched DEF OthersSame
<1> QED BY <1>1, <1>2, Stutters DEF OthersSame

\* Everything that leaves requests, messages and reports alone.
LEMMA OutOfSight ==
  ASSUME UNCHANGED <<submission, message, report>>
  PROVE  UNCHANGED Ledger!ledger
BY Untouched, Stutters

\* The calls of a worker that neither save a report nor touch the queue.
LEMMA WorkerCallMaps ==
  ASSUME NEW w \in Workers, UNCHANGED submission,
         \/ Peek(w) \/ ShowProcessing(w) \/ LoadRow(w) \/ MarkProcessing(w) \/ Fetch(w)
         \/ MarkPreparing(w) \/ Lookup(w) \/ AnalyzeSucceeds(w) \/ AnalyzeFallsBack(w)
         \/ StoreInsights(w) \/ LoadReport(w) \/ RaiseIntegrityError(w) \/ MarkCompleted(w)
         \/ ShowCompleted(w) \/ MarkFailed(w) \/ ShowFailed(w) \/ Raise(w) \/ Crash(w)
  PROVE  UNCHANGED Ledger!ledger
<1>1. CASE \/ Peek(w) \/ LoadRow(w) \/ Fetch(w) \/ Lookup(w) \/ AnalyzeSucceeds(w)
           \/ AnalyzeFallsBack(w) \/ LoadReport(w) \/ Crash(w)
  BY <1>1, OutOfSight DEF Peek, LoadRow, Fetch, Lookup, AnalyzeSucceeds, AnalyzeFallsBack,
                          LoadReport, Crash, backends
<1>2. CASE RaiseIntegrityError(w) \/ Raise(w)
  BY <1>2, OutOfSight DEF RaiseIntegrityError, Raise, Catch, backends
<1>3. CASE \/ ShowProcessing(w) \/ StoreInsights(w) \/ ShowCompleted(w) \/ ShowFailed(w)
  BY <1>3, OutOfSight DEF ShowProcessing, ShowProgress, StoreInsights, ShowCompleted, ShowFailed
<1>4. CASE \/ MarkProcessing(w) \/ MarkPreparing(w) \/ MarkCompleted(w) \/ MarkFailed(w)
  BY <1>4, OutOfSight DEF MarkProcessing, MarkPreparing, MarkCompleted, MarkFailed, CommitRow
<1> QED BY <1>1, <1>2, <1>3, <1>4

\* save_final_report, by a worker whose message has been sent.
LEMMA SaveReportMaps ==
  ASSUME IInv, NEW w \in Workers, SaveReport(w), UNCHANGED submission
  PROVE  \E j \in Jobs : Ledger!Produce(j)
<1> DEFINE wanted == [commit |-> worker[w].commit, insights |-> worker[w].insights,
                      fallback |-> FallbackFlag(worker[w].reason),
                      reason |-> worker[w].reason]
<1>1. /\ worker[w].pc = "save_report"
      /\ StoreReport(worker[w].job, worker[w].loaded, wanted)
      /\ UNCHANGED message
  BY DEF SaveReport, Goto
<1>2. /\ TypeOK /\ worker[w].job \in Jobs
      /\ worker[w].loaded \in Reports \cup {None}
      /\ worker[w].loaded # None => report[worker[w].job] # None
      /\ worker[w].commit \in Commits /\ worker[w].insights \in Commits \cup {None}
      /\ worker[w].reason \in Reasons
      /\ message[worker[w].job].place # "unsent"
  BY <1>1, Handling DEF HandlingInv, FetchedPcs, WorkerStates
<1>3. wanted \in Reports
  BY <1>2 DEF Reports, FallbackFlag
<1> HIDE DEF wanted
<1>4. PICK j \in Jobs : j = worker[w].job
  BY <1>2
<1>5. report'[j] \in Reports /\ \A i \in Jobs \ {j} : report'[i] = report[i]
  BY <1>1, <1>2, <1>3, <1>4, StoreReportEffect DEF TypeOK, BackendsTypeOK
<1>6. OthersSame(j) /\ Reported(j)'
  BY <1>1, <1>5, Untouched, NoneAssumption DEF OthersSame, Reported
<1>7. /\ ClientAnswer(j)' = ClientAnswer(j)
      /\ WorkItem(j)' = WorkItem(j) /\ WorkItem(j) # "none"
  BY <1>1, <1>2, <1>4 DEF ClientAnswer, WorkItem
<1> QED BY <1>6, <1>7, Produces

\* A message is received, comes back, or is dead-lettered.
LEMMA QueueMaps ==
  ASSUME IInv, NEW j \in Jobs, UNCHANGED submission,
         \/ \E w \in Workers : WorkerReceive(w, j) \/ WorkerRedrive(w, j)
         \/ VisibilityTimeout(j)
  PROVE  Ledger!Bury(j) \/ UNCHANGED Ledger!ledger
<1>1. QueueTypeOK
  BY DEF IInv, TypeOK
<1>2. UNCHANGED report
  BY DEF WorkerReceive, WorkerRedrive, VisibilityTimeout, backends
<1>3. CASE Receive(j) \/ Reappear(j)
  <2>1. /\ message[j].place \in {"ready", "flight"} /\ message'[j].place \in {"ready", "flight"}
        /\ \A i \in Jobs \ {j} : message'[i] = message[i]
    BY <1>1, <1>3 DEF Receive, Reappear, Move, QueueTypeOK
  <2> QED BY <1>1, <1>2, <2>1, MessageMoves
<1>4. CASE Redrive(j)
  <2>1. /\ message[j].place = "ready" /\ message'[j].place = "dead"
        /\ \A i \in Jobs \ {j} : message'[i] = message[i]
    BY <1>1, <1>4, MoveEffect DEF Redrive, Places
  <2>2. OthersSame(j)
    BY <1>2, <2>1, Untouched DEF OthersSame
  <2>3. /\ WorkItem(j) = "open" /\ WorkItem(j)' = "buried"
        /\ ClientAnswer(j)' = ClientAnswer(j) /\ Reported(j)' = Reported(j)
    BY <1>2, <2>1 DEF WorkItem, ClientAnswer, Reported
  <2> QED BY <2>2, <2>3, Ends
<1> QED BY <1>3, <1>4 DEF WorkerReceive, WorkerRedrive, VisibilityTimeout

\* change_visibility, also with a stale handle.
LEMMA ReleaseMaps ==
  ASSUME IInv, NEW w \in Workers, Release(w), UNCHANGED submission
  PROVE  UNCHANGED Ledger!ledger
<1>1. QueueTypeOK /\ worker[w].job \in Jobs
  BY Handling DEF IInv, TypeOK, HandlingInv, Release
<1>2. UNCHANGED report /\ MakeVisible(worker[w].job, worker[w].receive)
  BY DEF Release, backends
<1>3. PICK j \in Jobs : j = worker[w].job
  BY <1>1
<1>4. CASE message' = message
  BY <1>2, <1>4, OutOfSight
<1>5. CASE message[j].place = "flight" /\ Move(j, "ready")
  <2>1. message'[j].place = "ready" /\ \A i \in Jobs \ {j} : message'[i] = message[i]
    BY <1>1, <1>5, MoveEffect DEF Places
  <2> QED BY <1>1, <1>2, <1>5, <2>1, MessageMoves
<1> QED BY <1>2, <1>3, <1>4, <1>5 DEF MakeVisible

\* delete, also with a stale handle: it follows a pipeline that saved a report.
LEMMA AckMaps ==
  ASSUME IInv, NEW w \in Workers, Ack(w), UNCHANGED submission
  PROVE  (\E j \in Jobs : Ledger!Close(j)) \/ UNCHANGED Ledger!ledger
<1>1. QueueTypeOK /\ worker[w].job \in Jobs /\ report[worker[w].job] # None
  BY Handling DEF IInv, TypeOK, HandlingInv, Ack
<1>2. UNCHANGED report /\ Delete(worker[w].job, worker[w].receive)
  BY DEF Ack, backends
<1>3. PICK j \in Jobs : j = worker[w].job
  BY <1>1
<1>4. CASE message' = message
  BY <1>2, <1>4, OutOfSight
<1>5. CASE InQueue(j) /\ Move(j, "acked")
  <2>1. message'[j].place = "acked" /\ \A i \in Jobs \ {j} : message'[i] = message[i]
    BY <1>1, <1>5, MoveEffect DEF Places
  <2>2. OthersSame(j)
    BY <1>2, <2>1, Untouched DEF OthersSame
  <2>3. /\ WorkItem(j) = "open" /\ WorkItem(j)' = "closed"
        /\ ClientAnswer(j)' = ClientAnswer(j)
        /\ Reported(j) /\ Reported(j)' = Reported(j)
    BY <1>1, <1>2, <1>3, <1>5, <2>1 DEF WorkItem, ClientAnswer, Reported, InQueue
  <2> QED BY <2>2, <2>3, Ends
<1> QED BY <1>2, <1>3, <1>4, <1>5 DEF Delete

-----------------------------------------------------------------------------
\* Every step of the system is a step of the ledger or none.
LEMMA NextMaps ==
  ASSUME IInv, [Next]_vars
  PROVE  Ledger!LedgerNext \/ UNCHANGED Ledger!ledger
<1> USE DEF Ledger!LedgerNext
<1>1. ASSUME NEW j \in Jobs, SubmissionStep(j), UNCHANGED worker
      PROVE  Ledger!LedgerNext \/ UNCHANGED Ledger!ledger
  BY <1>1, SubmitCallMaps, SubmitSaveMaps, SubmitAnswerMaps, SubmitSendMaps DEF SubmissionStep
<1>2. ASSUME NEW w \in Workers, PollStep(w), UNCHANGED submission
      PROVE  Ledger!LedgerNext \/ UNCHANGED Ledger!ledger
  BY <1>2, QueueMaps DEF PollStep
<1>3. ASSUME NEW w \in Workers, PipelineStep(w), UNCHANGED submission
      PROVE  Ledger!LedgerNext \/ UNCHANGED Ledger!ledger
  BY <1>3, WorkerCallMaps, SaveReportMaps, ReleaseMaps, AckMaps DEF PipelineStep
<1>4. ASSUME NEW w \in Workers, Raise(w) \/ Crash(w), UNCHANGED submission
      PROVE  Ledger!LedgerNext \/ UNCHANGED Ledger!ledger
  BY <1>4, WorkerCallMaps
<1>5. ASSUME NEW j \in Jobs, VisibilityTimeout(j), UNCHANGED submission
      PROVE  Ledger!LedgerNext \/ UNCHANGED Ledger!ledger
  BY <1>5, QueueMaps
<1>6. CASE Environment /\ UNCHANGED <<submission, worker, message>>
  BY <1>6, OutOfSight DEF Environment, ExpireState, ExpireInsights, Push
<1>7. CASE UNCHANGED vars
  BY <1>7, OutOfSight DEF vars, backends
<1> QED BY <1>1, <1>2, <1>3, <1>4, <1>5, <1>6, <1>7 DEF Next

\* However requests, deliveries, crashes, raising calls and expiring keys
\* interleave, the system keeps the ledger: a client is told accepted only with
\* work or a report behind it, and work is closed only with a report.
THEOREM LedgerKept == Spec => KeepsLedger
<1>1. Init => Ledger!LedgerInit
  BY InitMaps
<1>2. IInv /\ [Next]_vars => [Ledger!LedgerNext]_(Ledger!ledger)
  BY NextMaps
<1> QED BY <1>1, <1>2, Invariance, PTL DEF Spec, KeepsLedger, Ledger!LedgerSpec
=============================================================================
