---------------------------- MODULE RetryProofs -----------------------------
(***************************************************************************)
(* Proofs about what one attempt of a job leaves to the next and to the    *)
(* dead-letter queue, as long as no visibility timeout runs out under a    *)
(* worker: the instant data while no key expires, the failure of the last  *)
(* attempt while no worker dies, and a report with insights while neither  *)
(* a key expires nor the branch moves.                                     *)
(***************************************************************************)
EXTENDS ExclusiveProofs

\* Once the request has seeded the snapshot there is one, and it carries the
\* instant data unless the last attempt has failed and is over.
SnapshotKept(j) ==
  /\ submission[j].pc \notin {"fetch", "create", "seed", "refused"} => snap[j] # None
  /\ message[j].place # "unsent" => snap[j] # None
  /\ snap[j] # None /\ ~snap[j].instant =>
       /\ ShownAs(j, "failed")
       /\ message[j].receives = MaxReceives
       /\ \A w \in Workers : Holds(w, j) => worker[w].pc = "release"
  /\ \A w \in Workers : Holds(w, j) /\ worker[w].pc = "show_processing" => worker[w].instant

\* A message received for the last time has a failed job when its worker hands
\* it back and from then on, and a message in flight has its worker.
FailureKept(j) ==
  /\ message[j].place = "unsent" => message[j].receives = 0
  /\ message[j].place = "flight" => \E w \in Workers : Holds(w, j)
  /\ message[j].place = "dead" => message[j].receives = MaxReceives
  /\ Accepted(j) /\ message[j].place \in {"ready", "dead"}
       /\ message[j].receives = MaxReceives => RowIs(j, "failed")
  /\ \A w \in Workers :
       Holds(w, j) /\ Accepted(j)
         /\ (\/ worker[w].pc = "show_failed"
             \/ worker[w].pc = "release" /\ worker[w].receive = MaxReceives)
       => RowIs(j, "failed")

SnapshotInv == \A j \in Jobs : SnapshotKept(j)
FailureInv == \A j \in Jobs : FailureKept(j)

\* The attempt of worker w at job j goes on: what it writes of row and snapshot.
Attempted(w, j) ==
  /\ worker[w].pc # "release" /\ worker'[w].pc # "poll"
  /\ worker'[w].job = j /\ worker'[w].receive = worker[w].receive
  /\ \A v \in Workers \ {w} : worker'[v] = worker[v]
  /\ \A i \in Jobs \ {j} : record'[i] = record[i] /\ snap'[i] = snap[i]
  /\ UNCHANGED message
  /\ worker'[w].pc = "show_processing" => worker'[w].instant = (snap[j] # None /\ snap[j].instant)
  /\ \/ snap'[j] = snap[j] /\ worker[w].pc # "show_failed"
     \/ worker[w].pc # "show_failed" /\ snap'[j] # None
          /\ (worker[w].pc = "show_processing" => snap'[j].instant = worker[w].instant)
          /\ (worker[w].pc # "show_processing" => snap'[j].instant)
     \/ worker[w].pc = "show_failed" /\ worker'[w].pc = "release" /\ ShownAs(j, "failed")'
  /\ worker'[w].pc = "show_failed" /\ Accepted(j) => RowIs(j, "failed")'
  /\ worker'[w].pc = "release" =>
       \/ worker[w].pc = "show_failed" /\ record'[j] = record[j]
       \/ worker[w].receive < MaxReceives

-----------------------------------------------------------------------------
(* The steps of an attempt.                                                *)

\* The steps that only read.
LEMMA ReadsAttempted ==
  ASSUME IInv, AgreeInv, NEW w \in Workers, NEW j \in Jobs, j = worker[w].job,
         \/ Peek(w) \/ LoadRow(w) \/ Fetch(w) \/ Lookup(w)
         \/ AnalyzeSucceeds(w) \/ AnalyzeFallsBack(w) \/ LoadReport(w)
  PROVE  Attempted(w, j)
<1>1. /\ worker \in [Workers -> WorkerStates] /\ worker[w] \in WorkerStates
      /\ worker[w].pc \notin {"poll", "show_failed", "release"} /\ UNCHANGED <<record, snap, message>>
  BY DEF IInv, TypeOK, WorkerTypeOK, Peek, LoadRow, Fetch, Lookup, AnalyzeSucceeds,
         AnalyzeFallsBack, LoadReport, backends, MarkAfter
<1>2. CASE Peek(w)
  BY <1>1, <1>2 DEF Peek, Attempted, WorkerStates
<1>3. CASE LoadRow(w)
  <2>1. MarkAfter[worker[w].pc] \in MarkPcs
    BY <1>3 DEF LoadRow, MarkAfter, MarkPcs
  <2> QED BY <1>1, <1>3, <2>1 DEF LoadRow, Attempted, WorkerStates, MarkPcs
<1>4. CASE Fetch(w)
  BY <1>1, <1>4 DEF Fetch, Attempted, WorkerStates
<1>5. CASE Lookup(w)
  BY <1>1, <1>5 DEF Lookup, Attempted, WorkerStates
<1>6. CASE AnalyzeSucceeds(w)
  BY <1>1, <1>6 DEF AnalyzeSucceeds, Attempted, WorkerStates
<1>7. CASE AnalyzeFallsBack(w)
  BY <1>1, <1>7 DEF AnalyzeFallsBack, Attempted, WorkerStates
<1>8. CASE LoadReport(w)
  BY <1>1, <1>8 DEF LoadReport, Attempted, WorkerStates
<1> QED BY <1>2, <1>3, <1>4, <1>5, <1>6, <1>7, <1>8

\* StoreInsights and SaveReport write neither the row nor the snapshot.
LEMMA StoresAttempted ==
  ASSUME IInv, NEW w \in Workers, NEW j \in Jobs, j = worker[w].job,
         StoreInsights(w) \/ SaveReport(w)
  PROVE  Attempted(w, j)
<1>1. PICK from \in {"store_insights", "save_report"}, to \in {"load_report", "load_completed"} :
        Goto(w, from, to)
  BY DEF StoreInsights, SaveReport
<1>2. UNCHANGED <<record, snap, message>>
  BY DEF StoreInsights, SaveReport
<1>3. to \in PipelinePcs /\ WorkerTypeOK
  BY DEF PipelinePcs, IInv, TypeOK
<1> QED BY <1>1, <1>2, <1>3, GotoEffect DEF Attempted

\* The progress snapshots keep the instant data, the completed one has them.
LEMMA ShowsAttempted ==
  ASSUME IInv, NEW w \in Workers, NEW j \in Jobs, j = worker[w].job,
         ShowProcessing(w) \/ ShowCompleted(w)
  PROVE  Attempted(w, j)
<1>1. WorkerTypeOK /\ worker[w] \in WorkerStates /\ snap \in [Jobs -> Snapshots \cup {None}]
  BY DEF IInv, TypeOK, WorkerTypeOK, BackendsTypeOK
<1>2. CASE ShowProcessing(w)
  <2>1. PICK from \in {"show_processing", "show_preparing", "show_running"},
             to \in {"load_processing", "load_preparing", "analyze"}, instant \in BOOLEAN :
          /\ ShowProgress(w, from, to, instant)
          /\ from = "show_processing" => instant = worker[w].instant
          /\ from # "show_processing" => instant
    BY <1>1, <1>2 DEF ShowProcessing, WorkerStates
  <2> DEFINE s == Snapshot("processing", instant)
  <2>2. /\ Goto(w, from, to) /\ SetState(j, s) /\ UNCHANGED <<record, message>>
    BY <2>1 DEF ShowProgress
  <2>3. s \in Snapshots /\ s.instant = instant
    BY DEF Snapshot, Snapshots, Statuses
  <2> HIDE DEF s
  <2>4. snap'[j] = s /\ \A i \in Jobs \ {j} : snap'[i] = snap[i]
    BY <1>1, <2>2, <2>3, SetStateEffect
  <2>5. to \in PipelinePcs /\ worker[w].pc = from
    BY <2>2 DEF PipelinePcs, Goto
  <2>6. /\ worker'[w].pc = to /\ worker'[w].job = j /\ worker'[w].receive = worker[w].receive
        /\ \A v \in Workers \ {w} : worker'[v] = worker[v]
    BY <1>1, <2>2, <2>5, GotoEffect
  <2>7. s # None
    BY <2>3, NoneAssumption
  <2> QED BY <2>1, <2>2, <2>3, <2>4, <2>5, <2>6, <2>7 DEF Attempted
<1>3. CASE ShowCompleted(w)
  <2> DEFINE s == [Snapshot("completed", TRUE) EXCEPT !.fallback = FallbackFlag(worker[w].reason)]
  <2>1. /\ worker[w].pc = "show_completed" /\ Leave(w, "ack") /\ SetState(j, s)
        /\ UNCHANGED <<record, message>>
    BY <1>3 DEF ShowCompleted
  <2>2. s \in Snapshots /\ s.instant /\ s # None
    BY NoneAssumption DEF Snapshot, Snapshots, Statuses, FallbackFlag
  <2> HIDE DEF s
  <2>3. snap'[j] = s /\ \A i \in Jobs \ {j} : snap'[i] = snap[i]
    BY <1>1, <2>1, <2>2, SetStateEffect
  <2>4. "ack" \in HandlerPcs
    BY DEF HandlerPcs
  <2> QED BY <1>1, <2>1, <2>2, <2>3, <2>4, LeaveEffect DEF Attempted
<1> QED BY <1>2, <1>3

\* A row that is not marked failed.
LEMMA MarksAttempted ==
  ASSUME IInv, NEW w \in Workers, NEW j \in Jobs, j = worker[w].job,
         MarkProcessing(w) \/ MarkPreparing(w) \/ MarkCompleted(w)
  PROVE  Attempted(w, j)
<1>1. PICK to \in {"fetch", "lookup", "show_completed"} :
        /\ Goto(w, worker[w].pc, to)
        /\ worker[w].pc \in {"mark_processing", "mark_preparing", "mark_completed"}
  BY DEF MarkProcessing, MarkPreparing, MarkCompleted, Goto
<1>2. UNCHANGED <<snap, message>> /\ \A i \in Jobs \ {j} : record'[i] = record[i]
  BY DEF MarkProcessing, MarkPreparing, MarkCompleted, CommitRow, UpdateRow, IInv, TypeOK,
         BackendsTypeOK
<1>3. to \in PipelinePcs /\ WorkerTypeOK
  BY DEF PipelinePcs, IInv, TypeOK
<1> QED BY <1>1, <1>2, <1>3, GotoEffect DEF Attempted

\* The row of an accepted job is failed before its snapshot is.
LEMMA MarkFailedAttempted ==
  ASSUME IInv, AgreeInv, NEW w \in Workers, NEW j \in Jobs, j = worker[w].job, MarkFailed(w)
  PROVE  Attempted(w, j)
<1> DEFINE wanted == [worker[w].loaded EXCEPT !.status = "failed", !.error = TRUE]
<1>1. /\ worker[w].pc = "mark_failed" /\ Goto(w, "mark_failed", "show_failed")
      /\ UpdateRow(j, worker[w].loaded, wanted) /\ UNCHANGED <<snap, message>>
  BY DEF MarkFailed, CommitRow, Goto
<1>2. /\ Holds(w, j) /\ AttemptInv(w, j) /\ record[j] \in Rows /\ HandlingInv(w)
      /\ WorkerTypeOK /\ BackendsTypeOK
  BY <1>1, InHand
<1>3. worker[w].loaded \in Rows
  BY <1>1, <1>2 DEF HandlingInv, MarkPcs
<1>4. wanted \in Rows /\ wanted.status = "failed" /\ wanted # None
  BY <1>3, NoneAssumption DEF Rows, Statuses
<1> HIDE DEF wanted
<1>5. \A i \in Jobs \ {j} : record'[i] = record[i]
  BY <1>1, <1>2, <1>3, <1>4, UpdateRowEffect DEF BackendsTypeOK
<1>6. ASSUME Accepted(j) PROVE record'[j] = wanted
  <2>1. worker[w].loaded = record[j]
    BY <1>1, <1>2, <1>6 DEF AttemptInv, KnowsRow, MarkPcs
  <2> QED BY <1>1, <1>2, <1>4, <2>1, ExactUpdate DEF BackendsTypeOK
<1>7. Accepted(j) => RowIs(j, "failed")'
  BY <1>4, <1>6 DEF RowIs
<1>8. "show_failed" \in HandlerPcs
  BY DEF HandlerPcs
<1> QED BY <1>1, <1>2, <1>5, <1>7, <1>8, GotoEffect DEF Attempted

\* The failed snapshot ends the attempt, which hands its message back.
LEMMA ShowFailedAttempted ==
  ASSUME IInv, NEW w \in Workers, NEW j \in Jobs, j = worker[w].job, ShowFailed(w)
  PROVE  Attempted(w, j)
<1> DEFINE s == Snapshot("failed", FALSE)
<1>1. /\ worker[w].pc = "show_failed" /\ Goto(w, "show_failed", "release") /\ SetState(j, s)
      /\ UNCHANGED <<record, message>>
  BY DEF ShowFailed, Goto
<1>2. s \in Snapshots /\ s.status = "failed"
  BY DEF Snapshot, Snapshots, Statuses
<1> HIDE DEF s
<1>3. snap'[j] = s /\ \A i \in Jobs \ {j} : snap'[i] = snap[i]
  BY <1>1, <1>2, SetStateEffect DEF IInv, TypeOK, BackendsTypeOK
<1>4. ShownAs(j, "failed")' /\ "release" \in HandlerPcs /\ WorkerTypeOK
  BY <1>2, <1>3, NoneAssumption DEF ShownAs, HandlerPcs, IInv, TypeOK
<1> QED BY <1>1, <1>3, <1>4, GotoEffect DEF Attempted

\* The except block hands a message back that was not received for the last time.
LEMMA CatchAttempted ==
  ASSUME IInv, NEW w \in Workers, NEW j \in Jobs, j = worker[w].job,
         Raise(w) \/ RaiseIntegrityError(w)
  PROVE  Attempted(w, j)
<1>1. /\ worker[w].pc \in PipelinePcs \cup {"ack"} /\ Leave(w, OnException(w))
      /\ UNCHANGED <<record, snap, message>>
  BY DEF Raise, RaiseIntegrityError, Catch, PipelinePcs, backends
<1>2. /\ OnException(w) \in {"load_failed", "release"}
      /\ OnException(w) = "release" => worker[w].receive < MaxReceives
  BY MaxReceivesAssumption DEF OnException, IInv, TypeOK, WorkerTypeOK, WorkerStates
<1>3. PICK to \in HandlerPcs : to = OnException(w)
  BY <1>2 DEF HandlerPcs
<1>4. worker[w].pc \notin {"show_failed", "release"} /\ WorkerTypeOK
  BY <1>1 DEF PipelinePcs, IInv, TypeOK
<1>5. /\ worker'[w].pc = to /\ worker'[w].job = j /\ worker'[w].receive = worker[w].receive
      /\ \A v \in Workers \ {w} : worker'[v] = worker[v]
  BY <1>1, <1>3, <1>4, LeaveEffect
<1> QED BY <1>1, <1>2, <1>3, <1>4, <1>5 DEF Attempted, HandlerPcs

\* Every step of a worker with a message, but for those that give it away.
LEMMA StepAttempted ==
  ASSUME IInv, AgreeInv, NEW w \in Workers, PipelineStep(w) \/ Raise(w),
         ~Release(w), ~Ack(w)
  PROVE  \E j \in Jobs : /\ j = worker[w].job /\ Holds(w, j) /\ AttemptInv(w, j)
                         /\ HandlingInv(w) /\ Attempted(w, j)
<1>1. worker[w].pc # "poll"
  BY DEF PipelineStep, Raise, PipelinePcs, Peek, ShowProcessing, ShowProgress, LoadRow, Goto,
         MarkProcessing, Fetch, MarkPreparing, Lookup, AnalyzeSucceeds, AnalyzeFallsBack,
         StoreInsights, LoadReport, SaveReport, RaiseIntegrityError, MarkCompleted,
         ShowCompleted, MarkFailed, ShowFailed, MarkAfter
<1>2. PICK j \in Jobs : j = worker[w].job /\ Holds(w, j) /\ AttemptInv(w, j) /\ HandlingInv(w)
  BY <1>1, InHand
<1>3. CASE \/ Peek(w) \/ LoadRow(w) \/ Fetch(w) \/ Lookup(w)
           \/ AnalyzeSucceeds(w) \/ AnalyzeFallsBack(w) \/ LoadReport(w)
  BY <1>2, <1>3, ReadsAttempted
<1>4. CASE StoreInsights(w) \/ SaveReport(w) \/ ShowProcessing(w) \/ ShowCompleted(w)
  BY <1>2, <1>4, StoresAttempted, ShowsAttempted
<1>5. CASE MarkProcessing(w) \/ MarkPreparing(w) \/ MarkCompleted(w) \/ MarkFailed(w)
  BY <1>2, <1>5, MarksAttempted, MarkFailedAttempted
<1>6. CASE ShowFailed(w) \/ Raise(w) \/ RaiseIntegrityError(w)
  BY <1>2, <1>6, ShowFailedAttempted, CatchAttempted
<1> QED BY <1>3, <1>4, <1>5, <1>6 DEF PipelineStep

-----------------------------------------------------------------------------
(* The instant data.                                                       *)

\* Nobody has come to hold job j.
NoNewHolder(j) ==
  \A v \in Workers : Holds(v, j)' => Holds(v, j) /\ worker'[v] = worker[v]

\* A job whose snapshot stays, or gets the instant data.
LEMMA SnapshotCloses ==
  ASSUME NEW j \in Jobs, SnapshotKept(j), NoNewHolder(j),
         message'[j].receives = message[j].receives,
         snap'[j] = snap[j] \/ (snap'[j] # None /\ snap'[j].instant),
         \/ snap'[j] # None
         \/ /\ submission'[j].pc \in {"fetch", "create", "seed", "refused"}
            /\ message'[j].place = "unsent"
  PROVE  SnapshotKept(j)'
<1>1. CASE snap'[j] = snap[j]
  BY <1>1 DEF SnapshotKept, NoNewHolder, ShownAs
<1>2. CASE snap'[j] # None /\ snap'[j].instant
  BY <1>2 DEF SnapshotKept, NoNewHolder
<1> QED BY <1>1, <1>2

\* The other jobs of a step.
LEMMA SnapshotOfOthers ==
  ASSUME NEW j \in Jobs, SnapshotKept(j), NoNewHolder(j), submission'[j] = submission[j],
         snap'[j] = snap[j], message'[j] = message[j]
  PROVE  SnapshotKept(j)'
BY DEF SnapshotKept, NoNewHolder, ShownAs

\* A step of an attempt: what the first look at the snapshot found is written
\* back, and only the last attempt shows a failure without the data.
LEMMA AttemptKeepsSnapshot ==
  ASSUME IInv, AgreeInv, SnapshotInv, NEW w \in Workers, UNCHANGED submission,
         PipelineStep(w) \/ Raise(w), ~Release(w), ~Ack(w)
  PROVE  SnapshotInv'
<1>1. PICK j \in Jobs : /\ j = worker[w].job /\ Holds(w, j) /\ AttemptInv(w, j)
                        /\ HandlingInv(w) /\ Attempted(w, j)
  BY StepAttempted
<1>2. \A v \in Workers \ {w} : ~Holds(v, j)
  BY <1>1, Sole
<1>3. /\ worker'[w].pc # "poll" /\ worker'[w].job = j
      /\ \A v \in Workers \ {w} : worker'[v] = worker[v]
      /\ \A i \in Jobs \ {j} : snap'[i] = snap[i]
      /\ UNCHANGED message
  BY <1>1 DEF Attempted
<1>4. ASSUME NEW i \in Jobs, i # j PROVE SnapshotKept(i)'
  <2>1. NoNewHolder(i)
    BY <1>3, <1>4 DEF NoNewHolder, Holds
  <2> QED BY <1>3, <1>4, <2>1, SnapshotOfOthers DEF SnapshotInv
<1>5. \A v \in Workers : Holds(v, j)' => v = w
  BY <1>2, <1>3 DEF Holds
<1>6. SnapshotKept(j) /\ message[j].place = "flight"
  BY <1>1 DEF SnapshotInv, AttemptInv, HasDelivery
<1>7. worker[w].pc = "show_failed" => message[j].receives = MaxReceives
  BY <1>1 DEF HandlingInv, AttemptInv, HasDelivery
<1>8. snap[j] # None
  BY <1>6 DEF SnapshotKept
<1>9. worker'[w].pc = "show_processing" => worker'[w].instant
  BY <1>1, <1>6, <1>8 DEF SnapshotKept, Attempted
<1>10. SnapshotKept(j)'
  <2>1. CASE snap'[j] = snap[j] /\ worker[w].pc # "show_failed"
    BY <1>1, <1>3, <1>5, <1>6, <1>8, <1>9, <2>1 DEF SnapshotKept, Attempted, ShownAs, Holds
  <2>2. CASE worker[w].pc # "show_failed" /\ snap'[j] # None /\ snap'[j].instant
    BY <1>5, <1>9, <2>2 DEF SnapshotKept
  <2>3. CASE worker[w].pc = "show_failed" /\ worker'[w].pc = "release" /\ ShownAs(j, "failed")'
    BY <1>3, <1>5, <1>6, <1>7, <2>3 DEF SnapshotKept, ShownAs
  <2>4. worker[w].pc = "show_processing" => worker[w].instant
    BY <1>1, <1>6 DEF SnapshotKept
  <2> QED BY <1>1, <2>1, <2>2, <2>3, <2>4 DEF Attempted
<1> QED BY <1>4, <1>10 DEF SnapshotInv

\* Release, Ack, Crash, Redrive, VisibilityTimeout: no worker comes to hold a
\* message, and no snapshot is written.
LEMMA LettingGoKeepsSnapshot ==
  ASSUME IInv, SnapshotInv, UNCHANGED <<submission, backends>>,
         \/ \E w \in Workers : Release(w) \/ Ack(w) \/ Crash(w)
         \/ \E w \in Workers, j \in Jobs : WorkerRedrive(w, j)
         \/ \E j \in Jobs : VisibilityTimeout(j)
  PROVE  SnapshotInv'
<1>1. \A v \in Workers : worker'[v].pc = "poll" \/ worker'[v] = worker[v]
  BY DEF Release, Ack, Crash, WorkerRedrive, VisibilityTimeout, IInv, TypeOK, WorkerTypeOK,
         Polling
<1>2. \A j \in Jobs : NoNewHolder(j)
  BY <1>1 DEF NoNewHolder, Holds
<1>3. \/ UNCHANGED message
      \/ \E i \in Jobs, place \in {"ready", "acked", "dead"} :
           message[i].place # "unsent" /\ Move(i, place)
  <2>1. CASE \E w \in Workers : Release(w) \/ Ack(w) \/ Crash(w)
    <3>1. PICK w \in Workers : Release(w) \/ Ack(w) \/ Crash(w)
      BY <2>1
    <3>2. worker[w].pc # "poll"
      BY <3>1 DEF Release, Ack, Crash
    <3>3. worker[w].job \in Jobs
      BY <3>2 DEF IInv, HandlingInv
    <3> QED BY <3>1, <3>3 DEF Release, Ack, Crash, MakeVisible, Delete, InQueue
  <2>2. CASE \E w \in Workers, j \in Jobs : WorkerRedrive(w, j)
    BY <2>2 DEF WorkerRedrive, Redrive
  <2>3. CASE \E j \in Jobs : VisibilityTimeout(j)
    BY <2>3 DEF VisibilityTimeout, Reappear
  <2> QED BY <2>1, <2>2, <2>3
<1>4. \A j \in Jobs : /\ message'[j].receives = message[j].receives
                      /\ message'[j].place = "unsent" <=> message[j].place = "unsent"
  BY <1>3 DEF Move, IInv, TypeOK, QueueTypeOK
<1>5. ASSUME NEW j \in Jobs PROVE SnapshotKept(j)'
  <2>1. SnapshotKept(j) /\ snap'[j] = snap[j] /\ submission'[j] = submission[j]
    BY DEF SnapshotInv, backends
  <2>2. \/ snap'[j] # None
        \/ /\ submission'[j].pc \in {"fetch", "create", "seed", "refused"}
           /\ message'[j].place = "unsent"
    BY <1>4, <2>1 DEF SnapshotKept
  <2> QED BY <1>2, <1>4, <2>1, <2>2, SnapshotCloses
<1> QED BY <1>5 DEF SnapshotInv

\* A message that is received again has instant data to carry on.
LEMMA ReceiveKeepsSnapshot ==
  ASSUME IInv, SnapshotInv, UNCHANGED submission, NEW w \in Workers, NEW j \in Jobs,
         WorkerReceive(w, j)
  PROVE  SnapshotInv'
<1>1. /\ message[j].place = "ready" /\ message[j].receives # MaxReceives
      /\ UNCHANGED snap /\ \A i \in Jobs \ {j} : message'[i] = message[i]
  BY MaxReceivesAssumption DEF WorkerReceive, Receive, backends, IInv, TypeOK, QueueTypeOK
<1>2. /\ worker'[w].pc = "peek" /\ worker'[w].job = j
      /\ \A v \in Workers \ {w} : worker'[v] = worker[v]
  BY DEF WorkerReceive, IInv, TypeOK, WorkerTypeOK, Polling
<1>3. ASSUME NEW i \in Jobs, i # j PROVE SnapshotKept(i)'
  <2>1. NoNewHolder(i)
    BY <1>2, <1>3 DEF NoNewHolder, Holds
  <2> QED BY <1>1, <1>3, <2>1, SnapshotOfOthers DEF SnapshotInv
<1>4. snap[j] # None /\ snap[j].instant
  BY <1>1 DEF SnapshotInv, SnapshotKept
<1>5. \A v \in Workers : Holds(v, j)' /\ worker'[v].pc = "show_processing" => worker'[v].instant
  BY <1>2 DEF SnapshotInv, SnapshotKept, Holds
<1>6. SnapshotKept(j)'
  BY <1>1, <1>4, <1>5 DEF SnapshotKept
<1> QED BY <1>3, <1>6 DEF SnapshotInv

\* What a request writes of the snapshot has the instant data.
LEMMA RequestKeepsSnapshot ==
  ASSUME IInv, SnapshotInv, UNCHANGED worker, NEW j \in Jobs, SubmissionStep(j)
  PROVE  SnapshotInv'
<1>1. /\ SubmissionTypeOK /\ snap \in [Jobs -> Snapshots \cup {None}] /\ QueueTypeOK
      /\ RequestInv(j) /\ SnapshotKept(j)
  BY DEF IInv, TypeOK, BackendsTypeOK, SnapshotInv
<1>2. /\ \A i \in Jobs \ {j} : /\ submission'[i] = submission[i] /\ snap'[i] = snap[i]
                               /\ message'[i] = message[i]
      /\ message'[j].receives = message[j].receives
  BY <1>1 DEF SubmissionStep, SubmitFetch, SubmitCreate, SubmitSeed, SubmitLookup, SubmitSave,
              SubmitComplete, SubmitShowCompleted, SubmitSend, SubmitSendRaises,
              SubmitLoadFailed, SubmitMarkFailed, SubmitShowFailed, SubmitAbandon,
              SubmitGoto, Respond, SetState, Send, Move, backends, SubmissionTypeOK, QueueTypeOK
<1>3. \A i \in Jobs : NoNewHolder(i)
  BY DEF NoNewHolder, Holds
<1>4. ASSUME SubmitSeed(j) \/ SubmitShowCompleted(j) \/ SubmitShowFailed(j)
      PROVE  SnapshotKept(j)'
  <2>1. PICK status \in Statuses : SetState(j, Snapshot(status, TRUE))
    BY <1>4 DEF SubmitSeed, SubmitShowCompleted, SubmitShowFailed, Statuses
  <2> DEFINE s == Snapshot(status, TRUE)
  <2>2. s \in Snapshots /\ s.instant
    BY DEF Snapshot, Snapshots
  <2> HIDE DEF s
  <2>3. snap'[j] = s /\ s # None
    BY <1>1, <2>1, <2>2, SetStateEffect, NoneAssumption DEF s
  <2> QED BY <1>1, <1>2, <1>3, <2>2, <2>3, SnapshotCloses
<1>5. ASSUME ~(SubmitSeed(j) \/ SubmitShowCompleted(j) \/ SubmitShowFailed(j))
      PROVE  SnapshotKept(j)'
  <2>1. snap'[j] = snap[j]
    BY <1>5 DEF SubmissionStep, SubmitFetch, SubmitCreate, SubmitLookup, SubmitSave,
                SubmitComplete, SubmitSend, SubmitSendRaises, SubmitLoadFailed,
                SubmitMarkFailed, SubmitAbandon, backends
  <2>2. CASE SubmitFetch(j) \/ SubmitCreate(j)
    <3>1. /\ submission'[j].pc \in {"create", "seed"} /\ UNCHANGED message
          /\ submission[j].pc \in BeforeSend
      BY <1>1, <2>2 DEF SubmitFetch, SubmitCreate, SubmitGoto, SubmissionTypeOK, BeforeSend
    <3>2. message'[j].place = "unsent"
      BY <1>1, <3>1 DEF RequestInv
    <3> QED BY <1>1, <1>2, <1>3, <2>1, <3>1, <3>2, SnapshotCloses
  <2>3. CASE SubmitAbandon(j)
    <3>1. submission'[j].pc = "refused" /\ UNCHANGED message
      BY <1>1, <2>3 DEF SubmitAbandon, Respond, SubmissionTypeOK, NewRequest
    <3>2. \/ snap'[j] # None
          \/ message'[j].place = "unsent"
      BY <1>1, <2>1, <3>1 DEF SnapshotKept
    <3> QED BY <1>1, <1>2, <1>3, <2>1, <3>1, <3>2, SnapshotCloses
  <2>4. CASE ~(SubmitFetch(j) \/ SubmitCreate(j) \/ SubmitAbandon(j))
    <3>1. submission[j].pc \notin {"fetch", "create", "seed", "refused"}
      BY <1>5, <2>4 DEF SubmissionStep, SubmitLookup, SubmitSave, SubmitComplete, SubmitSend,
                        SubmitSendRaises, SubmitLoadFailed, SubmitMarkFailed, SubmitGoto
    <3>2. snap'[j] # None
      BY <1>1, <2>1, <3>1 DEF SnapshotKept
    <3> QED BY <1>1, <1>2, <1>3, <2>1, <3>2, SnapshotCloses
  <2> QED BY <2>2, <2>3, <2>4
<1>6. ASSUME NEW i \in Jobs, i # j PROVE SnapshotKept(i)'
  BY <1>2, <1>3, <1>6, SnapshotOfOthers DEF SnapshotInv
<1> QED BY <1>4, <1>5, <1>6 DEF SnapshotInv

\* Every step, while no key expires.
LEMMA NextKeepsSnapshot ==
  ASSUME {"late", "ttl"} \cap Faults = {}, IInv, AgreeInv, SnapshotInv, [Next]_vars
  PROVE  SnapshotInv'
<1>1. CASE \E j \in Jobs : SubmissionStep(j) /\ UNCHANGED worker
  BY <1>1, RequestKeepsSnapshot
<1>2. CASE \E w \in Workers : PollStep(w) /\ UNCHANGED submission
  BY <1>2, ReceiveKeepsSnapshot, LettingGoKeepsSnapshot DEF PollStep, WorkerRedrive
<1>3. CASE \E w \in Workers : (PipelineStep(w) \/ Raise(w)) /\ UNCHANGED submission
  BY <1>3, AttemptKeepsSnapshot, LettingGoKeepsSnapshot DEF Release, Ack
<1>4. CASE \E w \in Workers : Crash(w) /\ UNCHANGED submission
  BY <1>4, LettingGoKeepsSnapshot DEF Crash
<1>5. CASE \E j \in Jobs : VisibilityTimeout(j) /\ UNCHANGED submission
  BY <1>5, LettingGoKeepsSnapshot DEF VisibilityTimeout
<1>6. CASE (Environment /\ UNCHANGED <<submission, worker, message>>) \/ UNCHANGED vars
  <2>1. UNCHANGED <<submission, worker, message, snap>>
    BY <1>6 DEF Environment, ExpireState, ExpireInsights, Push, vars, backends
  <2>2. \A j \in Jobs : NoNewHolder(j)
    BY <2>1 DEF NoNewHolder, Holds
  <2> QED BY <2>1, <2>2, SnapshotOfOthers DEF SnapshotInv
<1> QED BY <1>1, <1>2, <1>3, <1>4, <1>5, <1>6 DEF Next

\* What each attempt finds of the snapshot, in every behaviour.
LEMMA SnapshotsStay ==
  ASSUME {"late", "ttl"} \cap Faults = {} PROVE Spec => []SnapshotInv
<1>1. Init => SnapshotInv
  <2> SUFFICES ASSUME Init, NEW j \in Jobs PROVE SnapshotKept(j)
    BY DEF SnapshotInv
  <2> QED BY DEF Init, BackendsInit, QueueInit, SubmissionInit, WorkerInit, NewRequest,
              SnapshotKept, Holds, Polling
<1>2. IInv /\ AgreeInv /\ SnapshotInv /\ [Next]_vars => SnapshotInv'
  BY NextKeepsSnapshot
<1>3. Spec => []AgreeInv
  BY Agreement
<1> QED BY <1>1, <1>2, <1>3, Invariance, PTL DEF Spec

\* The instant data are shown from the first poll on, through retries and
\* crashes, until the job fails for good.
THEOREM InstantDataStay ==
  ASSUME {"late", "ttl"} \cap Faults = {} PROVE Spec => []InstantDataKept
<1>1. SnapshotInv => InstantDataKept
  BY DEF SnapshotInv, SnapshotKept, InstantDataKept
<1> QED BY <1>1, SnapshotsStay, PTL

-----------------------------------------------------------------------------
(* The failure of the last attempt.                                        *)

\* The other jobs of a step.
LEMMA FailureOfOthers ==
  ASSUME NEW j \in Jobs, FailureKept(j), submission'[j] = submission[j],
         record'[j] = record[j], message'[j] = message[j],
         \A v \in Workers : /\ Holds(v, j)' <=> Holds(v, j)
                            /\ Holds(v, j) => worker'[v] = worker[v]
  PROVE  FailureKept(j)'
BY DEF FailureKept, Accepted, RowIs

\* A step of an attempt: its message stays in flight, and the last one marks
\* the row before it shows the failure.
LEMMA AttemptKeepsFailure ==
  ASSUME IInv, AgreeInv, FailureInv, NEW w \in Workers, UNCHANGED submission,
         PipelineStep(w) \/ Raise(w), ~Release(w), ~Ack(w)
  PROVE  FailureInv'
<1>1. PICK j \in Jobs : /\ j = worker[w].job /\ Holds(w, j) /\ AttemptInv(w, j)
                        /\ HandlingInv(w) /\ Attempted(w, j)
  BY StepAttempted
<1>2. \A v \in Workers \ {w} : ~Holds(v, j)
  BY <1>1, Sole
<1>3. /\ worker'[w].pc # "poll" /\ worker'[w].job = j /\ worker'[w].receive = worker[w].receive
      /\ \A v \in Workers \ {w} : worker'[v] = worker[v]
      /\ \A i \in Jobs \ {j} : record'[i] = record[i]
      /\ UNCHANGED message
  BY <1>1 DEF Attempted
<1>4. ASSUME NEW i \in Jobs, i # j PROVE FailureKept(i)'
  <2>1. \A v \in Workers : /\ Holds(v, i)' <=> Holds(v, i)
                           /\ Holds(v, i) => worker'[v] = worker[v]
    BY <1>1, <1>3, <1>4 DEF Holds
  <2> QED BY <1>3, <1>4, <2>1, FailureOfOthers DEF FailureInv
<1>5. \A v \in Workers : Holds(v, j)' => v = w
  BY <1>2, <1>3 DEF Holds
<1>6. FailureKept(j) /\ message[j].place = "flight" /\ Holds(w, j)'
  BY <1>1, <1>3 DEF FailureInv, AttemptInv, HasDelivery, Holds
<1>7. Accepted(j) /\ worker'[w].pc = "show_failed" => RowIs(j, "failed")'
  BY <1>1 DEF Attempted
<1>8. ASSUME Accepted(j), worker'[w].pc = "release", worker'[w].receive = MaxReceives
      PROVE  RowIs(j, "failed")'
  <2>1. worker[w].receive \in Nat
    BY MaxReceivesAssumption DEF IInv, TypeOK, WorkerTypeOK, WorkerStates
  <2>2. worker[w].pc = "show_failed" /\ record'[j] = record[j]
    BY <1>1, <1>3, <1>8, <2>1, MaxReceivesAssumption DEF Attempted
  <2> QED BY <1>1, <1>6, <1>8, <2>2 DEF FailureKept, RowIs
<1>9. FailureKept(j)'
  BY <1>3, <1>5, <1>6, <1>7, <1>8 DEF FailureKept, Accepted
<1> QED BY <1>4, <1>9 DEF FailureInv

\* The worker gives its message away: with its last receive the row is failed.
LEMMA HandBackKeepsFailure ==
  ASSUME IInv, AgreeInv, FailureInv, NEW w \in Workers, Release(w) \/ Ack(w),
         UNCHANGED submission
  PROVE  FailureInv'
<1>1. /\ worker[w].pc \in {"release", "ack"} /\ worker' = [worker EXCEPT ![w] = Polling]
      /\ UNCHANGED backends
  BY DEF Release, Ack
<1>2. PICK j \in Jobs : j = worker[w].job /\ Holds(w, j) /\ AttemptInv(w, j)
  BY <1>1, InHand
<1>3. Current(j, worker[w].receive) /\ message[j].place = "flight"
  BY <1>2 DEF Current, InQueue, AttemptInv, HasDelivery
<1>4. \/ worker[w].pc = "release" /\ Move(j, "ready")
      \/ worker[w].pc = "ack" /\ Move(j, "acked")
  BY <1>2, <1>3 DEF Release, Ack, MakeVisible, Delete
<1>5. /\ message'[j].receives = message[j].receives
      /\ message'[j].place = IF worker[w].pc = "ack" THEN "acked" ELSE "ready"
      /\ \A i \in Jobs \ {j} : message'[i] = message[i]
  BY <1>4 DEF Move, IInv, TypeOK, QueueTypeOK
<1>6. worker'[w].pc = "poll" /\ \A v \in Workers \ {w} : worker'[v] = worker[v]
  BY <1>1 DEF IInv, TypeOK, WorkerTypeOK, Polling
<1>7. ASSUME NEW i \in Jobs, i # j PROVE FailureKept(i)'
  <2>1. \A v \in Workers : /\ Holds(v, i)' <=> Holds(v, i)
                           /\ Holds(v, i) => worker'[v] = worker[v]
    BY <1>2, <1>6, <1>7 DEF Holds
  <2> QED BY <1>1, <1>5, <1>7, <2>1, FailureOfOthers DEF FailureInv, backends
<1>8. \A v \in Workers : ~Holds(v, j)'
  <2>1. \A v \in Workers \ {w} : ~Holds(v, j)
    BY <1>2, Sole
  <2> QED BY <1>6, <2>1 DEF Holds
<1>9. Accepted(j) /\ worker[w].pc = "release" /\ message[j].receives = MaxReceives =>
        RowIs(j, "failed")
  BY <1>2 DEF FailureInv, FailureKept, AttemptInv, HasDelivery
<1>10. FailureKept(j)'
  BY <1>1, <1>5, <1>8, <1>9 DEF FailureKept, Accepted, RowIs, backends
<1> QED BY <1>7, <1>10 DEF FailureInv

\* receive and redrive: a message is buried after its last receive only, and no
\* timeout runs out, since a message in flight has its worker.
LEMMA QueueKeepsFailure ==
  ASSUME "late" \notin Faults, IInv, AgreeInv, FailureInv, NEW j \in Jobs, UNCHANGED submission,
         (\E w \in Workers : WorkerReceive(w, j) \/ WorkerRedrive(w, j)) \/ VisibilityTimeout(j)
  PROVE  FailureInv'
<1>1. FailureKept(j) /\ QueueTypeOK /\ WorkerTypeOK /\ message[j].receives \in 0..MaxReceives
  BY DEF FailureInv, IInv, TypeOK, QueueTypeOK
<1>2. ASSUME NEW w \in Workers, WorkerReceive(w, j) PROVE FailureInv'
  <2>1. /\ message[j].place = "ready" /\ UNCHANGED record
        /\ message'[j].place = "flight"
        /\ \A i \in Jobs \ {j} : message'[i] = message[i]
    BY <1>1, <1>2 DEF WorkerReceive, Receive, QueueTypeOK, backends
  <2>2. /\ worker[w].pc = "poll" /\ worker'[w].pc = "peek" /\ worker'[w].job = j
        /\ \A v \in Workers \ {w} : worker'[v] = worker[v]
    BY <1>1, <1>2 DEF WorkerReceive, WorkerTypeOK, Polling
  <2>3. ASSUME NEW i \in Jobs, i # j PROVE FailureKept(i)'
    <3>1. \A v \in Workers : /\ Holds(v, i)' <=> Holds(v, i)
                             /\ Holds(v, i) => worker'[v] = worker[v]
      BY <2>2, <2>3 DEF Holds
    <3> QED BY <2>1, <2>3, <3>1, FailureOfOthers DEF FailureInv
  <2>4. Holds(w, j)' /\ \A v \in Workers : Holds(v, j)' => v = w
    <3>1. \A v \in Workers : ~Holds(v, j)
      BY <2>1, Unheld
    <3> QED BY <2>2, <3>1 DEF Holds
  <2>5. FailureKept(j)'
    BY <2>1, <2>2, <2>4 DEF FailureKept
  <2> QED BY <2>3, <2>5 DEF FailureInv
<1>3. ASSUME NEW w \in Workers, WorkerRedrive(w, j) PROVE FailureInv'
  <2>1. /\ message[j].place = "ready" /\ message[j].receives = MaxReceives
        /\ Move(j, "dead") /\ UNCHANGED <<worker, record>>
    BY <1>1, <1>3, MaxReceivesAssumption DEF WorkerRedrive, Redrive, backends
  <2>2. /\ message'[j].place = "dead" /\ message'[j].receives = MaxReceives
        /\ \A i \in Jobs \ {j} : message'[i] = message[i]
    BY <1>1, <2>1 DEF Move, QueueTypeOK
  <2>3. \A v \in Workers, i \in Jobs : Holds(v, i)' <=> Holds(v, i)
    BY <2>1 DEF Holds
  <2>4. FailureKept(j)'
    BY <1>1, <2>1, <2>2, <2>3 DEF FailureKept, Accepted, RowIs
  <2>5. ASSUME NEW i \in Jobs, i # j PROVE FailureKept(i)'
    BY <2>1, <2>2, <2>3, <2>5, FailureOfOthers DEF FailureInv
  <2> QED BY <2>4, <2>5 DEF FailureInv
<1>4. ASSUME VisibilityTimeout(j) PROVE FailureInv'
  <2>1. /\ message[j].place = "flight"
        /\ \A w \in Workers : Holds(w, j) => worker[w].receive # message[j].receives
    BY <1>4 DEF VisibilityTimeout, Reappear
  <2> QED BY <1>1, <2>1 DEF FailureKept, AgreeInv, AttemptInv, HasDelivery
<1> QED BY <1>2, <1>3, <1>4

\* A client is told accepted before the first receive.
LEMMA RequestKeepsFailure ==
  ASSUME IInv, FailureInv, UNCHANGED worker, NEW j \in Jobs, SubmissionStep(j)
  PROVE  FailureInv'
<1>1. /\ SubmissionTypeOK /\ record \in [Jobs -> Rows \cup {None}] /\ QueueTypeOK
      /\ RequestInv(j) /\ FailureKept(j)
  BY DEF IInv, TypeOK, BackendsTypeOK, FailureInv
<1>2. /\ \A i \in Jobs \ {j} : /\ submission'[i] = submission[i] /\ record'[i] = record[i]
                               /\ message'[i] = message[i]
      /\ \/ message'[j] = message[j]
         \/ /\ message[j].place = "unsent" /\ message'[j].place = "ready"
            /\ message'[j].receives = message[j].receives
  BY <1>1 DEF SubmissionStep, SubmitFetch, SubmitCreate, SubmitSeed, SubmitLookup, SubmitSave,
              SubmitComplete, SubmitShowCompleted, SubmitSend, SubmitSendRaises,
              SubmitLoadFailed, SubmitMarkFailed, SubmitShowFailed, SubmitAbandon,
              SubmitGoto, Respond, CreateRow, UpdateRow, Send, Move, backends,
              SubmissionTypeOK, QueueTypeOK
<1>3. \A v \in Workers, i \in Jobs : Holds(v, i)' <=> Holds(v, i)
  BY DEF Holds
<1>4. Accepted(j)' => message[j].place = "unsent"
  BY <1>1 DEF SubmissionStep, SubmitFetch, SubmitCreate, SubmitSeed, SubmitLookup, SubmitSave,
              SubmitComplete, SubmitShowCompleted, SubmitSend, SubmitSendRaises,
              SubmitLoadFailed, SubmitMarkFailed, SubmitShowFailed, SubmitAbandon,
              SubmitGoto, Respond, NewRequest, Accepted, SubmissionTypeOK, RequestInv, BeforeSend
<1>5. \A v \in Workers : Holds(v, j) => message[j].place # "unsent"
  BY DEF Holds, IInv, HandlingInv
<1>6. FailureKept(j)'
  BY <1>1, <1>2, <1>3, <1>4, <1>5, MaxReceivesAssumption DEF FailureKept
<1>7. ASSUME NEW i \in Jobs, i # j PROVE FailureKept(i)'
  BY <1>2, <1>3, <1>7, FailureOfOthers DEF FailureInv
<1> QED BY <1>6, <1>7 DEF FailureInv

\* Every step, while no worker dies.
LEMMA NextKeepsFailure ==
  ASSUME {"late", "crash"} \cap Faults = {}, IInv, AgreeInv, FailureInv, [Next]_vars
  PROVE  FailureInv'
<1>1. CASE \E j \in Jobs : SubmissionStep(j) /\ UNCHANGED worker
  BY <1>1, RequestKeepsFailure
<1>2. CASE \E w \in Workers : PollStep(w) /\ UNCHANGED submission
  BY <1>2, QueueKeepsFailure DEF PollStep
<1>3. CASE \E w \in Workers : (PipelineStep(w) \/ Raise(w)) /\ UNCHANGED submission
  BY <1>3, AttemptKeepsFailure, HandBackKeepsFailure
<1>4. CASE \E w \in Workers : Crash(w) /\ UNCHANGED submission
  BY <1>4 DEF Crash
<1>5. CASE \E j \in Jobs : VisibilityTimeout(j) /\ UNCHANGED submission
  BY <1>5, QueueKeepsFailure
<1>6. CASE (Environment /\ UNCHANGED <<submission, worker, message>>) \/ UNCHANGED vars
  <2>1. UNCHANGED <<submission, worker, message, record>>
    BY <1>6 DEF Environment, ExpireState, ExpireInsights, Push, vars, backends
  <2>2. \A v \in Workers, j \in Jobs : Holds(v, j)' <=> Holds(v, j)
    BY <2>1 DEF Holds
  <2> QED BY <2>1, <2>2, FailureOfOthers DEF FailureInv
<1> QED BY <1>1, <1>2, <1>3, <1>4, <1>5, <1>6 DEF Next

\* While no worker dies, a message in the dead-letter queue has a failed job
\* (README.md:62): run_worker marks the row before it hands back the last
\* delivery.
THEOREM DeadLettersAreFailed ==
  ASSUME {"late", "crash"} \cap Faults = {} PROVE Spec => []DeadMeansFailed
<1>1. Init => FailureInv
  <2> SUFFICES ASSUME Init, NEW j \in Jobs PROVE FailureKept(j)
    BY DEF FailureInv
  <2> QED BY DEF Init, BackendsInit, QueueInit, SubmissionInit, WorkerInit, NewRequest,
              FailureKept, Accepted, Holds, Polling
<1>2. IInv /\ AgreeInv /\ FailureInv /\ [Next]_vars => FailureInv'
  BY NextKeepsFailure
<1>3. FailureInv => DeadMeansFailed
  BY DEF FailureInv, FailureKept, DeadMeansFailed
<1>4. Spec => []AgreeInv
  BY Agreement
<1> QED BY <1>1, <1>2, <1>3, <1>4, Invariance, PTL DEF Spec

-----------------------------------------------------------------------------
(* The report, while nobody pushes and no key expires.                     *)

\* The pipeline has not looked for insights.
EarlyPcs == {"peek", "show_processing", "load_processing", "mark_processing", "fetch",
             "show_preparing", "load_preparing", "mark_preparing", "lookup"}

\* The pipeline found none and has not stored any.
AnalysisPcs == {"show_running", "analyze", "store_insights"}

Analysed(j) == report[j] # None /\ report[j].insights # None

\* A report with insights is the one that every later attempt makes from the
\* cache.
ReportCached(j) ==
  Analysed(j) =>
    /\ report[j] = [commit |-> head, insights |-> head, fallback |-> FALSE, reason |-> "none"]
    /\ aiCache[head] # None

RequestCached(j) ==
  /\ submission[j].pc \in BeforeSend \ {"fetch"} => submission[j].commit = head
  /\ submission[j].pc \in {"fetch", "create", "seed", "lookup", "save"} => report[j] = None
  /\ submission[j].pc = "save" => aiCache[head] # None /\ submission[j].insights = head

\* An attempt makes a report with the insights of the cache, or the job has
\* none with insights yet.
WorkerCached(w, j) ==
  /\ worker[w].pc \in FetchedPcs => worker[w].commit = head
  /\ worker[w].pc \in EarlyPcs \cup AnalysisPcs => worker[w].reason = "none"
  /\ worker[w].pc \in EarlyPcs \cup {"show_running", "analyze"} => worker[w].insights = None
  /\ worker[w].pc = "store_insights" => worker[w].insights = head
  /\ worker[w].pc \in AnalysisPcs => ~Analysed(j)
  /\ worker[w].pc \in {"load_report", "save_report"} =>
       \/ worker[w].insights = head /\ worker[w].reason = "none" /\ aiCache[head] # None
       \/ worker[w].insights = None /\ ~Analysed(j)

CachedInv ==
  /\ \A j \in Jobs : ReportCached(j) /\ RequestCached(j)
  /\ \A w \in Workers, j \in Jobs : Holds(w, j) => WorkerCached(w, j)

\* What a step leaves of the report and the cache.
Keeps ==
  /\ head' = head
  /\ aiCache[head] # None => aiCache'[head] # None
  /\ \A j \in Jobs : Analysed(j) => report'[j] = report[j]

\* The jobs that a step does not touch.
LEMMA OthersCached ==
  ASSUME CachedInv, Keeps, NEW j \in Jobs, submission'[j] = submission[j],
         report'[j] = report[j]
  PROVE  /\ ReportCached(j)' /\ RequestCached(j)'
         /\ \A v \in Workers : Holds(v, j) /\ worker'[v] = worker[v] => WorkerCached(v, j)'
<1>1. ReportCached(j) /\ RequestCached(j)
  BY DEF CachedInv
<1>2. ReportCached(j)'
  BY <1>1 DEF ReportCached, Analysed, Keeps
<1>3. RequestCached(j)'
  BY <1>1 DEF RequestCached, Keeps
<1>4. ASSUME NEW v \in Workers, Holds(v, j), worker'[v] = worker[v] PROVE WorkerCached(v, j)'
  BY <1>4 DEF CachedInv, WorkerCached, Analysed, Keeps
<1> QED BY <1>2, <1>3, <1>4

\* A worker touches its own job only.
LEMMA WorkerCachedCloses ==
  ASSUME IInv, AgreeInv, CachedInv, UNCHANGED submission, NEW w \in Workers, NEW j \in Jobs,
         Holds(w, j), Keeps, ReportCached(j)', worker'[w].job = j, WorkerCached(w, j)',
         \A v \in Workers \ {w} : worker'[v] = worker[v],
         \A i \in Jobs \ {j} : report'[i] = report[i]
  PROVE  CachedInv'
<1>1. submission[j].pc \notin BeforeSend /\ \A v \in Workers \ {w} : ~Holds(v, j)
  BY Sole
<1>2. RequestCached(j)'
  BY <1>1 DEF RequestCached, BeforeSend
<1>3. ASSUME NEW i \in Jobs PROVE ReportCached(i)' /\ RequestCached(i)'
  BY <1>2, <1>3, OthersCached
<1>4. ASSUME NEW v \in Workers, NEW i \in Jobs, Holds(v, i)' PROVE WorkerCached(v, i)'
  <2>1. CASE v = w
    BY <1>4, <2>1 DEF Holds
  <2>2. CASE v # w
    <3>1. worker'[v] = worker[v] /\ Holds(v, i) /\ i # j
      BY <1>1, <1>4, <2>2 DEF Holds
    <3> QED BY <3>1, OthersCached
  <2> QED BY <2>1, <2>2
<1> QED BY <1>3, <1>4 DEF CachedInv

\* A call that leaves report and cache alone accounts for its worker only.
LEMMA QuietCached ==
  ASSUME IInv, AgreeInv, CachedInv, UNCHANGED <<submission, report, aiCache, head>>,
         NEW w \in Workers, NEW j \in Jobs, Holds(w, j),
         worker'[w].job = j, WorkerCached(w, j)',
         \A v \in Workers \ {w} : worker'[v] = worker[v]
  PROVE  CachedInv' /\ Keeps
<1>1. Keeps
  BY DEF Keeps
<1>2. ReportCached(j)'
  BY DEF CachedInv, ReportCached, Analysed
<1> QED BY <1>1, <1>2, WorkerCachedCloses

\* A call between two lookups of the pipeline keeps what the attempt found.
LEMMA CallCached ==
  ASSUME IInv, AgreeInv, CachedInv, UNCHANGED <<submission, report, aiCache, head>>,
         NEW w \in Workers, NEW j \in Jobs, Holds(w, j), WorkerCached(w, j),
         worker'[w].job = j, worker'[w].insights = worker[w].insights,
         worker'[w].reason = worker[w].reason,
         \A v \in Workers \ {w} : worker'[v] = worker[v],
         LET from == worker[w].pc
             to == worker'[w].pc IN
         /\ to \in FetchedPcs => worker'[w].commit = head
         /\ to \in EarlyPcs => from \in EarlyPcs
         /\ to = "analyze" => from = "show_running"
         /\ to = "save_report" => from = "load_report"
         /\ to \notin {"show_running", "store_insights", "load_report"}
  PROVE  CachedInv' /\ Keeps
<1>1. Analysed(j)' <=> Analysed(j)
  BY DEF Analysed
<1>2. WorkerCached(w, j)'
  BY <1>1 DEF WorkerCached, AnalysisPcs
<1> QED BY <1>2, QuietCached

\* The except block and the else block know nothing of the report.
LEMMA HandlerCached ==
  ASSUME IInv, AgreeInv, CachedInv, UNCHANGED <<submission, report, aiCache, head>>,
         NEW w \in Workers, NEW j \in Jobs, Holds(w, j),
         worker'[w].job = j, worker'[w].pc \in HandlerPcs,
         \A v \in Workers \ {w} : worker'[v] = worker[v]
  PROVE  CachedInv' /\ Keeps
<1>1. WorkerCached(w, j)'
  BY DEF WorkerCached, HandlerPcs, FetchedPcs, EarlyPcs, AnalysisPcs
<1> QED BY <1>1, QuietCached

\* A worker that holds a message: what its attempt found.
LEMMA InHandCached ==
  ASSUME IInv, AgreeInv, CachedInv, NEW w \in Workers, worker[w].pc # "poll"
  PROVE  /\ WorkerTypeOK /\ worker[w] \in WorkerStates /\ BackendsTypeOK
         /\ \E j \in Jobs : /\ j = worker[w].job /\ Holds(w, j) /\ AttemptInv(w, j)
                            /\ WorkerCached(w, j) /\ ReportCached(j)
<1>1. WorkerTypeOK /\ worker[w] \in WorkerStates /\ BackendsTypeOK
  BY InHand
<1>2. PICK j \in Jobs : j = worker[w].job /\ Holds(w, j) /\ AttemptInv(w, j)
  BY InHand
<1>3. WorkerCached(w, j) /\ ReportCached(j)
  BY <1>2 DEF CachedInv
<1> QED BY <1>1, <1>2, <1>3

-----------------------------------------------------------------------------
(* The steps of an attempt and the report.                                 *)

\* Peek, LoadRow, Fetch and LoadReport.
LEMMA ReadsCached ==
  ASSUME IInv, AgreeInv, CachedInv, NEW w \in Workers, UNCHANGED submission,
         Peek(w) \/ LoadRow(w) \/ Fetch(w) \/ LoadReport(w)
  PROVE  CachedInv' /\ Keeps
<1>1. worker[w].pc # "poll" /\ UNCHANGED <<report, aiCache, head>>
  BY DEF Peek, LoadRow, Fetch, LoadReport, MarkAfter, backends
<1>2. WorkerTypeOK /\ worker[w] \in WorkerStates
  BY <1>1, InHandCached
<1>3. PICK j \in Jobs : j = worker[w].job /\ Holds(w, j) /\ WorkerCached(w, j)
  BY <1>1, InHandCached
<1> USE DEF FetchedPcs, EarlyPcs, WorkerCached
<1>4. CASE Peek(w)
  <2>1. /\ worker[w].pc = "peek" /\ worker'[w].pc = "show_processing" /\ worker'[w].job = j
        /\ worker'[w].insights = worker[w].insights /\ worker'[w].reason = worker[w].reason
        /\ \A v \in Workers \ {w} : worker'[v] = worker[v]
    BY <1>2, <1>3, <1>4 DEF Peek, WorkerTypeOK, WorkerStates
  <2> QED BY <1>1, <1>3, <2>1, CallCached
<1>5. CASE LoadRow(w)
  <2>1. /\ worker'[w].pc = MarkAfter[worker[w].pc] /\ worker'[w].job = j
        /\ worker'[w].insights = worker[w].insights /\ worker'[w].reason = worker[w].reason
        /\ worker'[w].commit = worker[w].commit
        /\ \A v \in Workers \ {w} : worker'[v] = worker[v]
    BY <1>2, <1>3, <1>5 DEF LoadRow, WorkerTypeOK, WorkerStates
  <2>2. \/ worker[w].pc = "load_processing" /\ worker'[w].pc = "mark_processing"
        \/ worker[w].pc = "load_preparing" /\ worker'[w].pc = "mark_preparing"
        \/ worker[w].pc = "load_completed" /\ worker'[w].pc = "mark_completed"
        \/ worker[w].pc = "load_failed" /\ worker'[w].pc = "mark_failed"
    BY <1>5, <2>1 DEF LoadRow, MarkAfter
  <2> QED BY <1>1, <1>3, <2>1, <2>2, CallCached
<1>6. CASE Fetch(w)
  <2>1. /\ worker[w].pc = "fetch" /\ worker'[w].pc = "show_preparing" /\ worker'[w].job = j
        /\ worker'[w].insights = worker[w].insights /\ worker'[w].reason = worker[w].reason
        /\ worker'[w].commit = head
        /\ \A v \in Workers \ {w} : worker'[v] = worker[v]
    BY <1>2, <1>3, <1>6 DEF Fetch, WorkerTypeOK, WorkerStates
  <2> QED BY <1>1, <1>3, <2>1, CallCached
<1>7. CASE LoadReport(w)
  <2>1. /\ worker[w].pc = "load_report" /\ worker'[w].pc = "save_report" /\ worker'[w].job = j
        /\ worker'[w].insights = worker[w].insights /\ worker'[w].reason = worker[w].reason
        /\ worker'[w].commit = worker[w].commit
        /\ \A v \in Workers \ {w} : worker'[v] = worker[v]
    BY <1>2, <1>3, <1>7 DEF LoadReport, WorkerTypeOK, WorkerStates
  <2> QED BY <1>1, <1>3, <2>1, CallCached
<1> QED BY <1>4, <1>5, <1>6, <1>7

\* The calls that write the row or the snapshot.
LEMMA WritesCached ==
  ASSUME IInv, AgreeInv, CachedInv, NEW w \in Workers, UNCHANGED submission,
         \/ ShowProcessing(w) \/ MarkProcessing(w) \/ MarkPreparing(w)
         \/ MarkCompleted(w) \/ MarkFailed(w) \/ ShowFailed(w)
  PROVE  CachedInv' /\ Keeps
<1>1. PICK from, to \in PipelinePcs \cup HandlerPcs :
        /\ Goto(w, from, to)
        /\ \/ from \in {"show_processing", "mark_processing"} /\ to \in {"load_processing", "fetch"}
           \/ from = "show_preparing" /\ to = "load_preparing"
           \/ from = "mark_preparing" /\ to = "lookup"
           \/ from = "show_running" /\ to = "analyze"
           \/ from = "mark_completed" /\ to = "show_completed"
           \/ from \in {"mark_failed", "show_failed"} /\ to \in {"show_failed", "release"}
  BY DEF ShowProcessing, ShowProgress, MarkProcessing, MarkPreparing, MarkCompleted, MarkFailed,
         ShowFailed, PipelinePcs, HandlerPcs
<1>2. worker[w].pc # "poll" /\ UNCHANGED <<report, aiCache, head>>
  BY <1>1 DEF Goto, ShowProcessing, ShowProgress, MarkProcessing, MarkPreparing, MarkCompleted,
              MarkFailed, ShowFailed, CommitRow
<1>3. PICK j \in Jobs : j = worker[w].job /\ Holds(w, j) /\ WorkerCached(w, j)
  BY <1>2, InHandCached
<1>4. /\ worker[w].pc = from /\ worker'[w].pc = to /\ worker'[w].job = j
      /\ worker'[w].insights = worker[w].insights /\ worker'[w].reason = worker[w].reason
      /\ worker'[w].commit = worker[w].commit
      /\ \A v \in Workers \ {w} : worker'[v] = worker[v]
  BY <1>1, <1>3, GotoEffect DEF IInv, TypeOK
<1>5. /\ to \in FetchedPcs => worker[w].commit = head
      /\ to \in EarlyPcs => from \in EarlyPcs
      /\ to = "analyze" => from = "show_running"
      /\ to \notin {"save_report", "show_running", "store_insights", "load_report"}
  BY <1>1, <1>3, <1>4 DEF WorkerCached, FetchedPcs, EarlyPcs
<1> QED BY <1>2, <1>3, <1>4, <1>5, CallCached

\* ShowCompleted, Raise and RaiseIntegrityError end the pipeline.
LEMMA LeavesCached ==
  ASSUME IInv, AgreeInv, CachedInv, NEW w \in Workers, UNCHANGED submission,
         ShowCompleted(w) \/ Raise(w) \/ RaiseIntegrityError(w)
  PROVE  CachedInv' /\ Keeps
<1>1. PICK to \in {"ack", "load_failed", "release"} : Leave(w, to)
  BY DEF ShowCompleted, Raise, RaiseIntegrityError, Catch, OnException
<1>2. worker[w].pc # "poll" /\ UNCHANGED <<report, aiCache, head>>
  BY DEF ShowCompleted, Raise, RaiseIntegrityError, Catch, PipelinePcs, backends
<1>3. PICK j \in Jobs : j = worker[w].job /\ Holds(w, j)
  BY <1>2, InHandCached
<1>4. to \in HandlerPcs
  BY DEF HandlerPcs
<1>5. /\ worker'[w].pc = to /\ worker'[w].job = j
      /\ \A v \in Workers \ {w} : worker'[v] = worker[v]
  BY <1>1, <1>3, <1>4, LeaveEffect DEF IInv, TypeOK
<1> QED BY <1>2, <1>3, <1>4, <1>5, HandlerCached

\* Without insights in the cache there are none in the report.
LEMMA LookupCached ==
  ASSUME IInv, AgreeInv, CachedInv, NEW w \in Workers, UNCHANGED submission, Lookup(w)
  PROVE  CachedInv' /\ Keeps
<1>1. worker[w].pc = "lookup" /\ UNCHANGED <<report, aiCache, head>>
  BY DEF Lookup, backends
<1>2. PICK j \in Jobs : /\ j = worker[w].job /\ Holds(w, j) /\ WorkerCached(w, j)
                        /\ ReportCached(j)
  BY <1>1, InHandCached
<1>3. worker[w].commit = head /\ worker[w].reason = "none"
  BY <1>1, <1>2 DEF WorkerCached, FetchedPcs, EarlyPcs
<1>4. aiCache[head] \in {None, head}
  BY DEF AgreeInv, CacheAgrees, IInv, TypeOK, BackendsTypeOK
<1>5. /\ worker'[w].pc = IF aiCache[head] = None THEN "show_running" ELSE "load_report"
      /\ worker'[w].insights = aiCache[head] /\ worker'[w].job = j
      /\ worker'[w].commit = head /\ worker'[w].reason = "none"
      /\ \A v \in Workers \ {w} : worker'[v] = worker[v]
  BY <1>1, <1>2, <1>3, InHandCached DEF Lookup, WorkerTypeOK, WorkerStates
<1>6. aiCache[head] = None => ~Analysed(j)
  BY <1>2 DEF ReportCached
<1>7. WorkerCached(w, j)'
  BY <1>1, <1>4, <1>5, <1>6 DEF WorkerCached, Analysed, EarlyPcs, AnalysisPcs
<1> QED BY <1>1, <1>2, <1>5, <1>7, QuietCached

\* An analysis that succeeds or falls back.
LEMMA AnalyzeCached ==
  ASSUME IInv, AgreeInv, CachedInv, NEW w \in Workers, UNCHANGED submission,
         AnalyzeSucceeds(w) \/ AnalyzeFallsBack(w)
  PROVE  CachedInv' /\ Keeps
<1>1. worker[w].pc = "analyze" /\ UNCHANGED <<report, aiCache, head>>
  BY DEF AnalyzeSucceeds, AnalyzeFallsBack, backends
<1>2. PICK j \in Jobs : j = worker[w].job /\ Holds(w, j) /\ WorkerCached(w, j)
  BY <1>1, InHandCached
<1>3. /\ worker[w].commit = head /\ worker[w].insights = None /\ worker[w].reason = "none"
      /\ ~Analysed(j)
  BY <1>1, <1>2 DEF WorkerCached, FetchedPcs, AnalysisPcs
<1>4. WorkerTypeOK /\ worker[w] \in WorkerStates
  BY <1>1, InHandCached
<1>5. /\ \/ /\ worker'[w].pc = "store_insights" /\ worker'[w].insights = head
            /\ worker'[w].reason = "none"
         \/ worker'[w].pc = "load_report" /\ worker'[w].insights = None
      /\ worker'[w].job = j /\ worker'[w].commit = head
      /\ \A v \in Workers \ {w} : worker'[v] = worker[v]
  <2>1. CASE AnalyzeSucceeds(w)
    BY <1>2, <1>3, <1>4, <2>1 DEF AnalyzeSucceeds, WorkerTypeOK, WorkerStates
  <2>2. CASE AnalyzeFallsBack(w)
    BY <1>2, <1>3, <1>4, <2>2 DEF AnalyzeFallsBack, WorkerTypeOK, WorkerStates
  <2> QED BY <2>1, <2>2
<1>6. ~Analysed(j)'
  BY <1>1, <1>3 DEF Analysed
<1>7. WorkerCached(w, j)'
  BY <1>1, <1>5, <1>6 DEF WorkerCached, EarlyPcs, AnalysisPcs
<1> QED BY <1>1, <1>2, <1>5, <1>7, QuietCached

\* The insights are in the cache before they are in the report.
LEMMA StoreInsightsCached ==
  ASSUME IInv, AgreeInv, CachedInv, NEW w \in Workers, UNCHANGED submission, StoreInsights(w)
  PROVE  CachedInv' /\ Keeps
<1>1. /\ worker[w].pc = "store_insights" /\ Goto(w, "store_insights", "load_report")
      /\ aiCache' = [aiCache EXCEPT ![worker[w].commit] = worker[w].insights]
      /\ UNCHANGED <<report, head>>
  BY DEF StoreInsights, SetInsights, Goto
<1>2. PICK j \in Jobs : /\ j = worker[w].job /\ Holds(w, j) /\ WorkerCached(w, j)
                        /\ ReportCached(j)
  BY <1>1, InHandCached
<1>3. /\ worker[w].commit = head /\ worker[w].insights = head /\ worker[w].reason = "none"
  BY <1>1, <1>2 DEF WorkerCached, FetchedPcs, AnalysisPcs
<1>4. aiCache'[head] = head /\ head \in Commits /\ head # None
  BY <1>1, <1>3, NoneAssumption DEF IInv, TypeOK, BackendsTypeOK
<1>5. Keeps /\ ReportCached(j)'
  BY <1>1, <1>2, <1>4 DEF Keeps, ReportCached, Analysed
<1>6. "load_report" \in PipelinePcs
  BY DEF PipelinePcs
<1>7. /\ worker'[w].pc = "load_report" /\ worker'[w].job = j /\ worker'[w].commit = head
      /\ worker'[w].insights = head /\ worker'[w].reason = "none"
      /\ \A v \in Workers \ {w} : worker'[v] = worker[v]
  BY <1>1, <1>2, <1>3, <1>6, GotoEffect DEF IInv, TypeOK
<1>8. WorkerCached(w, j)'
  BY <1>1, <1>4, <1>7 DEF WorkerCached, EarlyPcs, AnalysisPcs
<1> QED BY <1>1, <1>2, <1>5, <1>7, <1>8, WorkerCachedCloses

\* The report saved is the one made from the cache, or there was none with
\* insights.
LEMMA SaveReportCached ==
  ASSUME IInv, AgreeInv, CachedInv, NEW w \in Workers, UNCHANGED submission, SaveReport(w)
  PROVE  CachedInv' /\ Keeps
<1> DEFINE wanted == [commit |-> worker[w].commit, insights |-> worker[w].insights,
                      fallback |-> FallbackFlag(worker[w].reason), reason |-> worker[w].reason]
<1>1. /\ worker[w].pc = "save_report" /\ Goto(w, "save_report", "load_completed")
      /\ StoreReport(worker[w].job, worker[w].loaded, wanted)
      /\ UNCHANGED <<aiCache, head>>
  BY DEF SaveReport, Goto
<1>2. PICK j \in Jobs : /\ j = worker[w].job /\ Holds(w, j) /\ AttemptInv(w, j)
                        /\ WorkerCached(w, j) /\ ReportCached(j)
  BY <1>1, InHandCached
<1>3. worker[w].loaded = report[j]
  BY <1>1, <1>2 DEF AttemptInv, KnowsReport
<1>4. worker[w].commit = head /\ head \in Commits /\ head # None
  BY <1>1, <1>2, NoneAssumption DEF WorkerCached, FetchedPcs, IInv, TypeOK, BackendsTypeOK
<1>5. \/ worker[w].insights = head /\ worker[w].reason = "none" /\ aiCache[head] # None
      \/ worker[w].insights = None /\ ~Analysed(j)
  BY <1>1, <1>2 DEF WorkerCached
<1>6. wanted \in Reports /\ wanted.insights = worker[w].insights
  BY <1>1, <1>4, <1>5, InHandCached DEF Reports, FallbackFlag, WorkerStates
<1>7. worker[w].reason = "none" /\ worker[w].insights = head =>
        wanted = [commit |-> head, insights |-> head, fallback |-> FALSE, reason |-> "none"]
  BY <1>4 DEF FallbackFlag
<1> HIDE DEF wanted
<1>8. report'[j] = wanted /\ \A i \in Jobs \ {j} : report'[i] = report[i]
  BY <1>1, <1>2, <1>3, <1>6, ExactStore DEF IInv, TypeOK, BackendsTypeOK
<1>9. Keeps
  BY <1>1, <1>2, <1>5, <1>7, <1>8 DEF Keeps, ReportCached
<1>10. ReportCached(j)'
  BY <1>1, <1>5, <1>6, <1>7, <1>8 DEF ReportCached, Analysed
<1>11. "load_completed" \in PipelinePcs
  BY DEF PipelinePcs
<1>12. /\ worker'[w].pc = "load_completed" /\ worker'[w].job = j /\ worker'[w].commit = head
       /\ \A v \in Workers \ {w} : worker'[v] = worker[v]
  BY <1>1, <1>2, <1>4, <1>11, GotoEffect DEF IInv, TypeOK
<1>13. WorkerCached(w, j)'
  BY <1>1, <1>12 DEF WorkerCached, EarlyPcs, AnalysisPcs
<1> QED BY <1>2, <1>8, <1>9, <1>10, <1>12, <1>13, WorkerCachedCloses

-----------------------------------------------------------------------------
(* The other steps and the report.                                         *)

\* A step that leaves report, cache and requests alone, after which nobody
\* holds a message but those who did and those who start an attempt.
LEMMA NewcomersCached ==
  ASSUME CachedInv, UNCHANGED <<submission, report, aiCache, head>>,
         \A v \in Workers, j \in Jobs : Holds(v, j)' =>
           \/ Holds(v, j) /\ worker'[v] = worker[v]
           \/ worker'[v].pc = "peek" /\ worker'[v].insights = None /\ worker'[v].reason = "none"
  PROVE  CachedInv' /\ Keeps
<1>1. Keeps
  BY DEF Keeps
<1>2. ASSUME NEW j \in Jobs PROVE ReportCached(j)' /\ RequestCached(j)'
  BY <1>1, <1>2, OthersCached
<1>3. ASSUME NEW v \in Workers, NEW j \in Jobs, Holds(v, j)' PROVE WorkerCached(v, j)'
  <2>1. CASE Holds(v, j) /\ worker'[v] = worker[v]
    BY <1>1, <2>1, OthersCached
  <2>2. CASE worker'[v].pc = "peek" /\ worker'[v].insights = None /\ worker'[v].reason = "none"
    BY <2>2 DEF WorkerCached, FetchedPcs, EarlyPcs, AnalysisPcs
  <2> QED BY <1>3, <2>1, <2>2
<1> QED BY <1>1, <1>2, <1>3 DEF CachedInv

\* The poll, the end of an attempt, a crash, a timeout, and a key of another
\* kind that expires.
LEMMA QueueCached ==
  ASSUME IInv, CachedInv, UNCHANGED submission,
         \/ \E w \in Workers : PollStep(w) \/ Release(w) \/ Ack(w) \/ Crash(w)
         \/ \E j \in Jobs : VisibilityTimeout(j)
         \/ UNCHANGED vars
  PROVE  CachedInv' /\ Keeps
<1>1. WorkerTypeOK
  BY DEF IInv, TypeOK
<1>2. UNCHANGED <<report, aiCache, head>>
  BY DEF PollStep, WorkerReceive, WorkerRedrive, Release, Ack, Crash, VisibilityTimeout, vars,
         backends
<1>3. \A v \in Workers :
        \/ worker'[v] = worker[v]
        \/ worker'[v].pc = "poll"
        \/ worker'[v].pc = "peek" /\ worker'[v].insights = None /\ worker'[v].reason = "none"
  <2>1. CASE \E w \in Workers, j \in Jobs : WorkerReceive(w, j)
    BY <1>1, <2>1 DEF WorkerReceive, Polling, WorkerTypeOK
  <2>2. CASE \E w \in Workers : Release(w) \/ Ack(w) \/ Crash(w)
    BY <1>1, <2>2 DEF Release, Ack, Crash, Polling, WorkerTypeOK
  <2>3. CASE UNCHANGED worker
    BY <2>3
  <2> QED BY <2>1, <2>2, <2>3 DEF PollStep, WorkerRedrive, VisibilityTimeout, vars
<1>4. \A v \in Workers, j \in Jobs : Holds(v, j)' =>
        \/ Holds(v, j) /\ worker'[v] = worker[v]
        \/ worker'[v].pc = "peek" /\ worker'[v].insights = None /\ worker'[v].reason = "none"
  BY <1>3 DEF Holds
<1> QED BY <1>2, <1>4, NewcomersCached

\* A request saves its report before anybody else knows the job.
LEMMA RequestStepCached ==
  ASSUME IInv, AgreeInv, CachedInv, UNCHANGED worker, NEW j \in Jobs, SubmissionStep(j)
  PROVE  CachedInv' /\ Keeps
<1>1. /\ SubmissionTypeOK /\ report \in [Jobs -> Reports \cup {None}] /\ head \in Commits
      /\ RequestInv(j) /\ ReportCached(j) /\ RequestCached(j) /\ RequestAgrees(j)
  BY DEF IInv, TypeOK, BackendsTypeOK, CachedInv, AgreeInv
<1>2. /\ UNCHANGED <<aiCache, head>>
      /\ \A i \in Jobs \ {j} : submission'[i] = submission[i]
  BY <1>1 DEF SubmissionStep, SubmitFetch, SubmitCreate, SubmitSeed, SubmitLookup, SubmitSave,
              SubmitComplete, SubmitShowCompleted, SubmitSend, SubmitSendRaises,
              SubmitLoadFailed, SubmitMarkFailed, SubmitShowFailed, SubmitAbandon,
              SubmitGoto, Respond, backends, SubmissionTypeOK
<1>3. ASSUME SubmitSave(j)
      PROVE  /\ ReportCached(j)' /\ RequestCached(j)'
             /\ report[j] = None /\ \A i \in Jobs \ {j} : report'[i] = report[i]
  <2> DEFINE wanted == [commit |-> submission[j].commit, insights |-> submission[j].insights,
                        fallback |-> FALSE, reason |-> "none"]
  <2>1. /\ submission[j].pc = "save" /\ SubmitGoto(j, "save", "complete")
        /\ StoreReport(j, report[j], wanted)
    BY <1>3 DEF SubmitSave, SubmitGoto
  <2>2. /\ submission[j].commit = head /\ submission[j].insights = head
        /\ report[j] = None /\ aiCache[head] # None
    BY <1>1, <2>1 DEF RequestCached, BeforeSend
  <2>3. /\ wanted = [commit |-> head, insights |-> head, fallback |-> FALSE, reason |-> "none"]
        /\ wanted \in Reports
    BY <1>1, <2>2 DEF Reports, Reasons
  <2> HIDE DEF wanted
  <2>4. report'[j] = wanted /\ \A i \in Jobs \ {j} : report'[i] = report[i]
    BY <1>1, <2>1, <2>3, ExactStore
  <2>5. submission'[j].pc = "complete" /\ submission'[j].commit = submission[j].commit
    BY <1>1, <2>1, SubmitGotoEffect DEF SubmissionPcs
  <2>6. ReportCached(j)'
    BY <1>2, <2>2, <2>3, <2>4 DEF ReportCached
  <2>7. RequestCached(j)'
    BY <1>2, <2>2, <2>5 DEF RequestCached
  <2> QED BY <2>2, <2>4, <2>6, <2>7
<1>4. ASSUME ~SubmitSave(j)
      PROVE  ReportCached(j)' /\ RequestCached(j)' /\ UNCHANGED report
  <2>1. UNCHANGED report
    BY <1>4 DEF SubmissionStep, SubmitFetch, SubmitCreate, SubmitSeed, SubmitLookup,
                SubmitComplete, SubmitShowCompleted, SubmitSend, SubmitSendRaises,
                SubmitLoadFailed, SubmitMarkFailed, SubmitShowFailed, SubmitAbandon, backends
  <2>2. ReportCached(j)'
    BY <1>1, <1>2, <2>1 DEF ReportCached, Analysed
  <2>3. CASE SubmitFetch(j)
    <3>1. submission[j].pc = "fetch" /\ submission'[j].pc = "create" /\ submission'[j].commit = head
      BY <1>1, <2>3 DEF SubmitFetch, SubmissionTypeOK
    <3> QED BY <1>1, <1>2, <2>1, <2>2, <3>1 DEF RequestCached
  <2>4. CASE SubmitLookup(j)
    <3>1. /\ submission[j].pc = "lookup" /\ submission'[j].commit = submission[j].commit
          /\ submission'[j].pc =
               IF aiCache[submission[j].commit] = None THEN "send" ELSE "save"
          /\ submission'[j].insights = aiCache[submission[j].commit]
      BY <1>1, <2>4 DEF SubmitLookup, SubmissionTypeOK
    <3>2. submission[j].commit = head
      BY <1>1, <3>1 DEF RequestCached, BeforeSend
    <3>3. aiCache[head] \in {None, head}
      BY <1>1 DEF AgreeInv, CacheAgrees
    <3> QED BY <1>1, <1>2, <2>1, <2>2, <3>1, <3>2, <3>3 DEF RequestCached
  <2>5. CASE ~(SubmitFetch(j) \/ SubmitLookup(j))
    <3>1. CASE SubmitCreate(j) \/ SubmitSeed(j) \/ SubmitComplete(j)
      <4>1. PICK from, to \in SubmissionPcs :
              /\ SubmitGoto(j, from, to)
              /\ \/ from = "create" /\ to = "seed"
                 \/ from = "seed" /\ to = "lookup"
                 \/ from = "complete" /\ to = "show_completed"
        BY <3>1 DEF SubmitCreate, SubmitSeed, SubmitComplete, SubmissionPcs
      <4>2. /\ submission[j].pc = from /\ submission'[j].pc = to
            /\ submission'[j].commit = submission[j].commit
        BY <1>1, <4>1, SubmitGotoEffect
      <4> QED BY <1>1, <1>2, <2>1, <2>2, <4>1, <4>2 DEF RequestCached, BeforeSend
    <3>2. CASE ~(SubmitCreate(j) \/ SubmitSeed(j) \/ SubmitComplete(j))
      <4>1. PICK to \in {"accepted", "load_failed", "mark_failed", "show_failed", "refused"} :
              \/ SubmitGoto(j, submission[j].pc, to) \/ Respond(j, to)
              \/ SubmitLoadFailed(j) /\ to = "mark_failed"
        BY <1>4, <2>5, <3>2
           DEF SubmissionStep, SubmitShowCompleted, SubmitSend, SubmitSendRaises,
               SubmitMarkFailed, SubmitShowFailed, SubmitAbandon, SubmitGoto
      <4>2. submission'[j].pc = to
        BY <1>1, <4>1 DEF SubmitGoto, Respond, NewRequest, SubmitLoadFailed, SubmissionTypeOK
      <4> QED BY <2>1, <2>2, <4>1, <4>2 DEF RequestCached, BeforeSend
    <3> QED BY <3>1, <3>2
  <2> QED BY <2>1, <2>2, <2>3, <2>4, <2>5
<1>5. /\ ReportCached(j)' /\ RequestCached(j)' /\ Keeps
      /\ \A i \in Jobs \ {j} : report'[i] = report[i]
      /\ UNCHANGED report \/ submission[j].pc = "save"
  BY <1>2, <1>3, <1>4 DEF Keeps, Analysed, SubmitSave, SubmitGoto
<1>6. ASSUME NEW i \in Jobs PROVE ReportCached(i)' /\ RequestCached(i)'
  BY <1>2, <1>5, <1>6, OthersCached
<1>7. ASSUME NEW v \in Workers, NEW i \in Jobs, Holds(v, i)' PROVE WorkerCached(v, i)'
  <2>1. Holds(v, i) /\ worker'[v] = worker[v]
    BY <1>7 DEF Holds
  <2>2. submission[i].pc \notin BeforeSend
    BY <2>1, Sole
  <2>3. report'[i] = report[i]
    BY <1>5, <2>2 DEF BeforeSend
  <2>4. WorkerCached(v, i)
    BY <2>1 DEF CachedInv
  <2> QED BY <1>5, <2>1, <2>3, <2>4 DEF WorkerCached, Analysed, Keeps
<1> QED BY <1>5, <1>6, <1>7 DEF CachedInv

\* Every step, while nobody pushes and no key expires.
LEMMA NextKeepsCached ==
  ASSUME {"late", "ttl", "push"} \cap Faults = {}, IInv, AgreeInv, CachedInv, [Next]_vars
  PROVE  CachedInv' /\ Keeps
<1>1. CASE \E j \in Jobs : SubmissionStep(j) /\ UNCHANGED worker
  BY <1>1, RequestStepCached
<1>2. CASE \E w \in Workers : PipelineStep(w) /\ UNCHANGED submission
  <2>1. PICK w \in Workers : PipelineStep(w) /\ UNCHANGED submission
    BY <1>2
  <2>2. CASE Peek(w) \/ LoadRow(w) \/ Fetch(w) \/ LoadReport(w)
    BY <2>1, <2>2, ReadsCached
  <2>3. CASE \/ ShowProcessing(w) \/ MarkProcessing(w) \/ MarkPreparing(w)
             \/ MarkCompleted(w) \/ MarkFailed(w) \/ ShowFailed(w)
    BY <2>1, <2>3, WritesCached
  <2>4. CASE Lookup(w) \/ AnalyzeSucceeds(w) \/ AnalyzeFallsBack(w)
    BY <2>1, <2>4, LookupCached, AnalyzeCached
  <2>5. CASE StoreInsights(w) \/ SaveReport(w)
    BY <2>1, <2>5, StoreInsightsCached, SaveReportCached
  <2>6. CASE ShowCompleted(w) \/ RaiseIntegrityError(w)
    BY <2>1, <2>6, LeavesCached
  <2>7. CASE Release(w) \/ Ack(w)
    BY <2>1, <2>7, QueueCached
  <2> QED BY <2>1, <2>2, <2>3, <2>4, <2>5, <2>6, <2>7 DEF PipelineStep
<1>3. CASE \E w \in Workers : Raise(w) /\ UNCHANGED submission
  BY <1>3, LeavesCached
<1>4. CASE \/ \E w \in Workers : (PollStep(w) \/ Crash(w)) /\ UNCHANGED submission
           \/ \E j \in Jobs : VisibilityTimeout(j) /\ UNCHANGED submission
           \/ UNCHANGED vars
  BY <1>4, QueueCached DEF vars
<1>5. CASE Environment /\ UNCHANGED <<submission, worker, message>>
  BY <1>5 DEF Environment, ExpireState, ExpireInsights, Push
<1> QED BY <1>1, <1>2, <1>3, <1>4, <1>5 DEF Next

\* The cache serves every attempt in every such behaviour.
LEMMA CacheServes ==
  ASSUME {"late", "ttl", "push"} \cap Faults = {} PROVE Spec => []CachedInv
<1>1. Init => CachedInv
  <2> SUFFICES ASSUME Init PROVE CachedInv
    OBVIOUS
  <2>1. \A j \in Jobs : ReportCached(j) /\ RequestCached(j)
    BY DEF Init, BackendsInit, SubmissionInit, NewRequest, ReportCached, RequestCached, Analysed,
           BeforeSend
  <2>2. \A w \in Workers, j \in Jobs : ~Holds(w, j)
    BY DEF Init, WorkerInit, Polling, Holds
  <2> QED BY <2>1, <2>2 DEF CachedInv
<1>2. IInv /\ AgreeInv /\ CachedInv /\ [Next]_vars => CachedInv'
  BY NextKeepsCached
<1>3. Spec => []AgreeInv
  BY Agreement
<1> QED BY <1>1, <1>2, <1>3, Invariance, PTL DEF Spec

\* A report with the insights of an analysis is never replaced by a fallback,
\* nor changed at all: each later attempt finds the insights in the cache.
THEOREM AnalysesStay ==
  ASSUME {"late", "ttl", "push"} \cap Faults = {} PROVE Spec => ReportNotDowngraded
<1>1. IInv /\ AgreeInv /\ CachedInv /\ [Next]_vars
      => \A j \in Jobs : report[j] # None /\ report[j].insights # None =>
                           report'[j] = report[j]
  BY NextKeepsCached DEF Keeps, Analysed
<1>2. Spec => []AgreeInv
  BY Agreement
<1>3. Spec => []CachedInv
  BY CacheServes
<1> QED BY <1>1, <1>2, <1>3, Invariance, PTL DEF Spec, ReportNotDowngraded
=============================================================================
