-------------------------- MODULE ResearchJobsProofs ------------------------
(***************************************************************************)
(* Proofs about ResearchJobs, for every set of jobs, workers and commits,  *)
(* every bound on receives and every set of faults.                        *)
(***************************************************************************)
EXTENDS ResearchJobs, TLAPS

\* The request has given up on the job.
UndoPcs == {"load_failed", "mark_failed", "show_failed", "refused"}

\* The request has not yet tried to send.
BeforeSend == {"fetch", "create", "seed", "lookup", "save", "complete",
               "show_completed", "send"}

\* The pipeline has its raw_context.
FetchedPcs == {"show_preparing", "load_preparing", "mark_preparing", "lookup",
               "show_running", "analyze", "store_insights", "load_report",
               "save_report", "load_completed", "mark_completed", "show_completed"}

MarkPcs == {"mark_processing", "mark_preparing", "mark_completed", "mark_failed"}

\* What a request knows at each of its calls.
RequestInv(j) ==
  /\ submission[j].pc \in BeforeSend \ {"fetch"} => submission[j].commit \in Commits
  /\ submission[j].pc \notin {"fetch", "create", "refused"} => record[j] # None
  /\ submission[j].pc = "mark_failed" => submission[j].loaded \in Rows
  /\ submission[j].pc \in BeforeSend => message[j].place = "unsent"
  /\ submission[j].pc \in {"complete", "show_completed"} => report[j] # None

\* What is true of a job in the stores and the queue.
JobInv(j) ==
  /\ message[j].place # "unsent" => record[j] # None
  /\ RowIs(j, "completed") \/ ShownAs(j, "completed") => report[j] # None
  /\ submission[j].pc = "accepted" /\ report[j] = None =>
       message[j].place \in {"ready", "flight", "dead"}
  /\ submission[j].pc \notin UndoPcs /\ (RowIs(j, "failed") \/ ShownAs(j, "failed")) =>
       message[j].receives = MaxReceives

\* What a worker knows at each of its calls.
HandlingInv(w) ==
  worker[w].pc # "poll" =>
    /\ worker[w].job \in Jobs
    /\ message[worker[w].job].place # "unsent"
    /\ worker[w].receive <= message[worker[w].job].receives
    /\ worker[w].pc \in FetchedPcs => worker[w].commit \in Commits
    /\ worker[w].pc \in MarkPcs => worker[w].loaded \in Rows
    /\ worker[w].pc = "save_report" =>
         /\ worker[w].loaded \in Reports \cup {None}
         /\ worker[w].loaded # None => report[worker[w].job] # None
    /\ worker[w].pc \in {"load_completed", "mark_completed", "show_completed", "ack"} =>
         report[worker[w].job] # None
    /\ worker[w].pc \in {"load_failed", "mark_failed", "show_failed"} =>
         worker[w].receive = MaxReceives

IInv ==
  /\ TypeOK
  /\ \A j \in Jobs : RequestInv(j) /\ JobInv(j)
  /\ \A w \in Workers : HandlingInv(w)

\* Nothing a worker relies on is taken back: rows and reports stay, a message
\* once sent stays sent, and its receive count does not go down.
Grows ==
  \A j \in Jobs :
    /\ record[j] # None => record'[j] # None
    /\ report[j] # None => report'[j] # None
    /\ message[j].place # "unsent" => message'[j].place # "unsent"
    /\ message[j].receives <= message'[j].receives

-----------------------------------------------------------------------------
(* What the operators that write a table, a key or a program counter do.   *)

\* SubmitGoto moves the request of one job and nothing else.
LEMMA SubmitGotoEffect ==
  ASSUME SubmissionTypeOK, NEW j \in Jobs, NEW from, NEW to \in SubmissionPcs,
         SubmitGoto(j, from, to)
  PROVE  /\ SubmissionTypeOK'
         /\ submission[j].pc = from
         /\ submission'[j].pc = to
         /\ submission'[j].commit = submission[j].commit
         /\ submission'[j].loaded = submission[j].loaded
         /\ submission'[j].insights = submission[j].insights
         /\ \A i \in Jobs \ {j} : submission'[i] = submission[i]
BY DEF SubmissionTypeOK, SubmitGoto

\* Respond ends the request of one job and nothing else.
LEMMA RespondEffect ==
  ASSUME SubmissionTypeOK, NEW j \in Jobs, NEW to \in SubmissionPcs, Respond(j, to)
  PROVE  /\ SubmissionTypeOK'
         /\ submission'[j].pc = to
         /\ \A i \in Jobs \ {j} : submission'[i] = submission[i]
BY DEF SubmissionTypeOK, Respond, NewRequest

\* A worker that takes a new state leaves the other workers as they are.
LEMMA WorkerWriteEffect ==
  ASSUME WorkerTypeOK, NEW w \in Workers, NEW new \in WorkerStates,
         worker' = [worker EXCEPT ![w] = new]
  PROVE  /\ WorkerTypeOK'
         /\ worker'[w] = new
         /\ \A v \in Workers \ {w} : worker'[v] = worker[v]
BY DEF WorkerTypeOK

\* Goto moves one worker and drops what it had loaded.
LEMMA GotoEffect ==
  ASSUME WorkerTypeOK, NEW w \in Workers, NEW from,
         NEW to \in {"poll"} \cup PipelinePcs \cup HandlerPcs, Goto(w, from, to)
  PROVE  /\ WorkerTypeOK'
         /\ worker[w].pc = from
         /\ worker'[w].pc = to
         /\ worker'[w].job = worker[w].job
         /\ worker'[w].receive = worker[w].receive
         /\ worker'[w].commit = worker[w].commit
         /\ worker'[w].insights = worker[w].insights
         /\ worker'[w].reason = worker[w].reason
         /\ \A v \in Workers \ {w} : worker'[v] = worker[v]
<1> DEFINE new == [worker[w] EXCEPT !.pc = to, !.loaded = None, !.instant = FALSE]
<1>1. worker[w] \in WorkerStates
  BY DEF WorkerTypeOK
<1>2. new \in WorkerStates
  BY <1>1 DEF WorkerStates
<1>3. /\ new.pc = to /\ new.job = worker[w].job /\ new.receive = worker[w].receive
      /\ new.commit = worker[w].commit /\ new.insights = worker[w].insights
      /\ new.reason = worker[w].reason
  BY <1>1 DEF WorkerStates
<1>4. worker[w].pc = from /\ worker' = [worker EXCEPT ![w] = new]
  BY <1>1 DEF Goto, WorkerStates, WorkerTypeOK
<1> HIDE DEF new
<1> QED BY <1>2, <1>3, <1>4 DEF WorkerTypeOK

\* Leave keeps of one worker only the message in hand.
LEMMA LeaveEffect ==
  ASSUME WorkerTypeOK, NEW w \in Workers,
         NEW to \in {"poll"} \cup PipelinePcs \cup HandlerPcs, Leave(w, to)
  PROVE  /\ WorkerTypeOK'
         /\ worker'[w].pc = to
         /\ worker'[w].job = worker[w].job
         /\ worker'[w].receive = worker[w].receive
         /\ \A v \in Workers \ {w} : worker'[v] = worker[v]
<1> DEFINE new == [Polling EXCEPT !.pc = to, !.job = worker[w].job,
                                  !.receive = worker[w].receive]
<1>1. worker[w].job \in Jobs \cup {None} /\ worker[w].receive \in 0..MaxReceives
  BY DEF WorkerTypeOK, WorkerStates
<1>2. new \in WorkerStates
  BY <1>1 DEF WorkerStates, Polling, Reasons
<1>3. new.pc = to /\ new.job = worker[w].job /\ new.receive = worker[w].receive
  BY DEF Polling
<1>4. worker' = [worker EXCEPT ![w] = new]
  BY DEF Leave
<1> HIDE DEF new
<1> QED BY <1>2, <1>3, <1>4 DEF WorkerTypeOK

\* CreateRow inserts a pending row for one job.
LEMMA CreateRowEffect ==
  ASSUME record \in [Jobs -> Rows \cup {None}], NEW j \in Jobs, NEW c \in Commits,
         CreateRow(j, c)
  PROVE  /\ record' \in [Jobs -> Rows \cup {None}]
         /\ record'[j] \in Rows
         /\ record'[j].status = "pending"
         /\ \A i \in Jobs \ {j} : record'[i] = record[i]
BY DEF CreateRow, Rows, Statuses

\* UpdateRow keeps one row a row; its status becomes the wanted one or stays
\* as it was, and stays when the caller did not assign it.
LEMMA UpdateRowEffect ==
  ASSUME record \in [Jobs -> Rows \cup {None}], NEW j \in Jobs, record[j] \in Rows,
         NEW loaded \in Rows, NEW wanted \in Rows, UpdateRow(j, loaded, wanted)
  PROVE  /\ record' \in [Jobs -> Rows \cup {None}]
         /\ record'[j] \in Rows
         /\ record'[j].status \in {record[j].status, wanted.status}
         /\ wanted.status = loaded.status => record'[j].status = record[j].status
         /\ \A i \in Jobs \ {j} : record'[i] = record[i]
<1> DEFINE row == FlushRow(record[j], loaded, wanted)
<1>1. row \in Rows
  BY DEF FlushRow, Column, Rows
<1>2. /\ row.status \in {record[j].status, wanted.status}
      /\ wanted.status = loaded.status => row.status = record[j].status
  BY DEF FlushRow, Column
<1>3. record' = [record EXCEPT ![j] = row]
  BY DEF UpdateRow
<1> HIDE DEF row
<1> QED BY <1>1, <1>2, <1>3

\* StoreReport leaves a report for one job.
LEMMA StoreReportEffect ==
  ASSUME report \in [Jobs -> Reports \cup {None}], NEW j \in Jobs,
         NEW loaded \in Reports \cup {None}, NEW wanted \in Reports,
         loaded # None => report[j] # None, StoreReport(j, loaded, wanted)
  PROVE  /\ report' \in [Jobs -> Reports \cup {None}]
         /\ report'[j] \in Reports
         /\ \A i \in Jobs \ {j} : report'[i] = report[i]
<1> DEFINE new == IF loaded = None THEN wanted ELSE FlushReport(report[j], loaded, wanted)
<1>1. new \in Reports
  BY DEF FlushReport, Column, Reports
<1>2. report' = [report EXCEPT ![j] = new]
  BY DEF StoreReport
<1> HIDE DEF new
<1> QED BY <1>1, <1>2

\* SetState replaces the snapshot of one job.
LEMMA SetStateEffect ==
  ASSUME snap \in [Jobs -> Snapshots \cup {None}], NEW j \in Jobs,
         NEW s \in Snapshots \cup {None}, SetState(j, s)
  PROVE  /\ snap' \in [Jobs -> Snapshots \cup {None}]
         /\ snap'[j] = s
         /\ \A i \in Jobs \ {j} : snap'[i] = snap[i]
BY DEF SetState

\* Move changes where one message is and not how often it was received.
LEMMA MoveEffect ==
  ASSUME QueueTypeOK, NEW j \in Jobs, NEW place \in Places, Move(j, place)
  PROVE  /\ QueueTypeOK'
         /\ message'[j].place = place
         /\ message'[j].receives = message[j].receives
         /\ \A i \in Jobs \ {j} : message'[i] = message[i]
BY DEF QueueTypeOK, Move

-----------------------------------------------------------------------------
(* What a step leaves alone.                                               *)

\* A worker that does not move keeps what it knows.
LEMMA HandlingKept ==
  ASSUME NEW w \in Workers, HandlingInv(w), worker'[w] = worker[w], Grows, QueueTypeOK,
         QueueTypeOK', WorkerTypeOK
  PROVE  HandlingInv(w)'
<1> SUFFICES ASSUME worker[w].pc # "poll" PROVE HandlingInv(w)'
  BY DEF HandlingInv
<1>1. worker[w].job \in Jobs
  BY DEF HandlingInv
<1>2. /\ message[worker[w].job].receives \in Nat
      /\ message'[worker[w].job].receives \in Nat
      /\ worker[w].receive \in Nat
  BY <1>1, MaxReceivesAssumption DEF QueueTypeOK, WorkerTypeOK, WorkerStates
<1> QED BY <1>1, <1>2 DEF HandlingInv, Grows

\* A request that does not move keeps what it knows while its message is not
\* sent behind its back.
LEMMA RequestKept ==
  ASSUME NEW j \in Jobs, RequestInv(j), submission'[j] = submission[j], Grows,
         message[j].place = "unsent" => message'[j].place = "unsent"
  PROVE  RequestInv(j)'
BY DEF RequestInv, Grows

\* A job that a step does not touch stays as it is.
LEMMA JobKept ==
  ASSUME NEW j \in Jobs, JobInv(j), submission'[j] = submission[j],
         record'[j] = record[j], report'[j] = report[j], snap'[j] = snap[j],
         message'[j] = message[j]
  PROVE  JobInv(j)'
BY DEF JobInv, RowIs, ShownAs

\* The types of the variables, one by one.
LEMMA Types ==
  TypeOK <=> /\ record \in [Jobs -> Rows \cup {None}]
             /\ report \in [Jobs -> Reports \cup {None}]
             /\ snap \in [Jobs -> Snapshots \cup {None}]
             /\ aiCache \in [Commits -> Commits \cup {None}]
             /\ head \in Commits
             /\ QueueTypeOK
             /\ SubmissionTypeOK
             /\ WorkerTypeOK
BY DEF TypeOK, BackendsTypeOK

-----------------------------------------------------------------------------
\* The state before the first request satisfies the invariant: the tables, the
\* keys and the queue are empty and every worker polls.
LEMMA InitEstablishes == Init => IInv
<1> SUFFICES ASSUME Init PROVE IInv
  OBVIOUS
<1> USE DEF Init, BackendsInit, QueueInit, SubmissionInit, WorkerInit
<1>1. QueueTypeOK
  BY MaxReceivesAssumption DEF QueueTypeOK, Places
<1>2. SubmissionTypeOK
  BY DEF SubmissionTypeOK, NewRequest, SubmissionPcs
<1>3. WorkerTypeOK
  BY MaxReceivesAssumption DEF WorkerTypeOK, WorkerStates, Polling, Reasons
<1>4. TypeOK
  BY <1>1, <1>2, <1>3, Types
<1>5. \A j \in Jobs : RequestInv(j) /\ JobInv(j)
  BY DEF RequestInv, JobInv, NewRequest, RowIs, ShownAs, BeforeSend
<1>6. \A w \in Workers : HandlingInv(w)
  BY DEF HandlingInv, Polling
<1> QED BY <1>4, <1>5, <1>6 DEF IInv

-----------------------------------------------------------------------------
(* The steps of a request.                                                 *)

\* A request touches its own job only.
LEMMA RequestStepCloses ==
  ASSUME IInv, NEW j \in Jobs, UNCHANGED worker, TypeOK', Grows,
         RequestInv(j)', JobInv(j)',
         \A i \in Jobs \ {j} :
           /\ submission'[i] = submission[i] /\ record'[i] = record[i]
           /\ report'[i] = report[i] /\ snap'[i] = snap[i] /\ message'[i] = message[i]
  PROVE  IInv'
<1>1. ASSUME NEW i \in Jobs, i # j PROVE RequestInv(i)' /\ JobInv(i)'
  BY <1>1, RequestKept, JobKept DEF IInv
<1>2. \A w \in Workers : HandlingInv(w)'
  BY HandlingKept DEF IInv, TypeOK
<1> QED BY <1>1, <1>2 DEF IInv

\* A request that reads, or waits for a call that leaves nothing.
LEMMA RequestReadCloses ==
  ASSUME IInv, NEW j \in Jobs, UNCHANGED <<worker, backends, message>>, SubmissionTypeOK',
         \A i \in Jobs \ {j} : submission'[i] = submission[i],
         RequestInv(j)', JobInv(j)'
  PROVE  IInv'
<1>1. TypeOK'
  BY DEF IInv, TypeOK, BackendsTypeOK, QueueTypeOK, WorkerTypeOK, backends
<1>2. Grows
  BY MaxReceivesAssumption DEF IInv, TypeOK, Grows, backends, QueueTypeOK
<1> QED BY <1>1, <1>2, RequestStepCloses DEF backends

\* submit keeps the invariant when it fetches the repository: nothing is written.
LEMMA SubmitFetchStep ==
  ASSUME IInv, NEW j \in Jobs, SubmitFetch(j), UNCHANGED worker
  PROVE  IInv'
<1>1. TypeOK /\ RequestInv(j) /\ JobInv(j)
  BY DEF IInv
<1>a. head \in Commits /\ "create" \in SubmissionPcs
  BY <1>1 DEF TypeOK, BackendsTypeOK, SubmissionPcs
<1>b. submission' = [submission EXCEPT ![j].pc = "create", ![j].commit = head]
  BY DEF SubmitFetch
<1>2. /\ SubmissionTypeOK' /\ submission'[j].pc = "create" /\ submission'[j].commit \in Commits
      /\ \A i \in Jobs \ {j} : submission'[i] = submission[i]
  BY <1>1, <1>a, <1>b DEF TypeOK, SubmissionTypeOK
<1>3. RequestInv(j)' /\ JobInv(j)'
  BY <1>1, <1>2 DEF SubmitFetch, backends, RequestInv, JobInv, RowIs, ShownAs, BeforeSend, UndoPcs
<1> QED BY <1>2, <1>3, RequestReadCloses DEF SubmitFetch

\* submit keeps the invariant when it inserts the pending row.
LEMMA SubmitCreateStep ==
  ASSUME IInv, NEW j \in Jobs, SubmitCreate(j), UNCHANGED worker
  PROVE  IInv'
<1>1. /\ SubmitGoto(j, "create", "seed") /\ CreateRow(j, submission[j].commit)
      /\ UNCHANGED <<report, snap, aiCache, head, message, worker>>
  BY DEF SubmitCreate
<1>2. TypeOK /\ RequestInv(j) /\ JobInv(j)
  BY DEF IInv
<1>3. /\ SubmissionTypeOK' /\ submission[j].pc = "create" /\ submission'[j].pc = "seed"
      /\ submission'[j].commit = submission[j].commit
      /\ \A i \in Jobs \ {j} : submission'[i] = submission[i]
  BY <1>1, <1>2, SubmitGotoEffect DEF SubmissionPcs, TypeOK
<1>4. submission[j].commit \in Commits /\ message[j].place = "unsent"
  BY <1>2, <1>3 DEF RequestInv, BeforeSend
<1>5. /\ record' \in [Jobs -> Rows \cup {None}] /\ record'[j] \in Rows
      /\ record'[j].status = "pending" /\ \A i \in Jobs \ {j} : record'[i] = record[i]
  BY <1>1, <1>2, <1>4, CreateRowEffect DEF TypeOK, BackendsTypeOK
<1>6. record'[j] # None
  BY <1>5, NoneAssumption
<1>7. Grows
  BY <1>1, <1>2, <1>5, <1>6, MaxReceivesAssumption DEF Grows, QueueTypeOK, TypeOK
<1>8. TypeOK'
  BY <1>1, <1>2, <1>3, <1>5 DEF TypeOK, BackendsTypeOK, QueueTypeOK, WorkerTypeOK
<1>9. RequestInv(j)' /\ JobInv(j)'
  BY <1>1, <1>2, <1>3, <1>4, <1>5, <1>6
     DEF RequestInv, JobInv, RowIs, ShownAs, BeforeSend, UndoPcs
<1> QED BY <1>1, <1>3, <1>5, <1>7, <1>8, <1>9, RequestStepCloses

\* submit keeps the invariant when it writes the pending snapshot.
LEMMA SubmitSeedStep ==
  ASSUME IInv, NEW j \in Jobs, SubmitSeed(j), UNCHANGED worker
  PROVE  IInv'
<1> DEFINE s == Snapshot("pending", TRUE)
<1>1. /\ SubmitGoto(j, "seed", "lookup") /\ SetState(j, s)
      /\ UNCHANGED <<record, report, aiCache, head, message, worker>>
  BY DEF SubmitSeed
<1>2. TypeOK /\ RequestInv(j) /\ JobInv(j)
  BY DEF IInv
<1>3. /\ SubmissionTypeOK' /\ submission[j].pc = "seed" /\ submission'[j].pc = "lookup"
      /\ submission'[j].commit = submission[j].commit
      /\ \A i \in Jobs \ {j} : submission'[i] = submission[i]
  BY <1>1, <1>2, SubmitGotoEffect DEF SubmissionPcs, TypeOK
<1>4. s \in Snapshots /\ s.status = "pending"
  BY DEF Snapshot, Snapshots, Statuses
<1> HIDE DEF s
<1>5. /\ snap' \in [Jobs -> Snapshots \cup {None}] /\ snap'[j] = s
      /\ \A i \in Jobs \ {j} : snap'[i] = snap[i]
  BY <1>1, <1>2, <1>4, SetStateEffect DEF TypeOK, BackendsTypeOK
<1>6. Grows
  BY <1>1, <1>2, MaxReceivesAssumption DEF Grows, QueueTypeOK, TypeOK
<1>7. TypeOK'
  BY <1>1, <1>2, <1>3, <1>5 DEF TypeOK, BackendsTypeOK, QueueTypeOK, WorkerTypeOK
<1>8. RequestInv(j)' /\ JobInv(j)'
  BY <1>1, <1>2, <1>3, <1>4, <1>5 DEF RequestInv, JobInv, RowIs, ShownAs, BeforeSend, UndoPcs
<1> QED BY <1>1, <1>3, <1>5, <1>6, <1>7, <1>8, RequestStepCloses

\* submit keeps the invariant when it looks up the cached insights: it goes on
\* to save only with what it found.
LEMMA SubmitLookupStep ==
  ASSUME IInv, NEW j \in Jobs, SubmitLookup(j), UNCHANGED worker
  PROVE  IInv'
<1> DEFINE cached == aiCache[submission[j].commit]
<1>1. TypeOK /\ RequestInv(j) /\ JobInv(j) /\ submission[j].pc = "lookup"
  BY DEF IInv, SubmitLookup
<1>2. submission[j].commit \in Commits /\ cached \in Commits \cup {None}
  BY <1>1 DEF RequestInv, BeforeSend, TypeOK, BackendsTypeOK
<1> DEFINE next == IF cached = None THEN "send" ELSE "save"
<1>a. next \in {"send", "save"} /\ next \in SubmissionPcs
  BY DEF SubmissionPcs
<1> HIDE DEF cached, next
<1>3. submission' = [submission EXCEPT ![j].pc = next, ![j].insights = cached]
  BY DEF SubmitLookup, cached, next
<1>4. /\ SubmissionTypeOK' /\ submission'[j].pc \in {"send", "save"}
      /\ submission'[j].commit = submission[j].commit
      /\ \A i \in Jobs \ {j} : submission'[i] = submission[i]
  BY <1>1, <1>2, <1>a, <1>3 DEF TypeOK, SubmissionTypeOK
<1>5. RequestInv(j)' /\ JobInv(j)'
  <2>1. UNCHANGED <<backends, message>>
    BY DEF SubmitLookup
  <2> QED BY <1>1, <1>2, <1>4, <2>1
          DEF backends, RequestInv, JobInv, RowIs, ShownAs, BeforeSend, UndoPcs
<1> QED BY <1>4, <1>5, RequestReadCloses DEF SubmitLookup

\* submit keeps the invariant when it saves the report made from the cache.
LEMMA SubmitSaveStep ==
  ASSUME IInv, NEW j \in Jobs, SubmitSave(j), UNCHANGED worker
  PROVE  IInv'
<1> DEFINE wanted == [commit |-> submission[j].commit, insights |-> submission[j].insights,
                      fallback |-> FALSE, reason |-> "none"]
<1>1. /\ SubmitGoto(j, "save", "complete") /\ StoreReport(j, report[j], wanted)
      /\ UNCHANGED <<record, snap, aiCache, head, message, worker>>
  BY DEF SubmitSave
<1>2. TypeOK /\ RequestInv(j) /\ JobInv(j)
  BY DEF IInv
<1>3. /\ SubmissionTypeOK' /\ submission[j].pc = "save" /\ submission'[j].pc = "complete"
      /\ submission'[j].commit = submission[j].commit
      /\ \A i \in Jobs \ {j} : submission'[i] = submission[i]
  BY <1>1, <1>2, SubmitGotoEffect DEF SubmissionPcs, TypeOK
<1>4. /\ submission[j].commit \in Commits /\ submission[j].insights \in Commits \cup {None}
      /\ report[j] \in Reports \cup {None}
  BY <1>2, <1>3 DEF RequestInv, BeforeSend, TypeOK, BackendsTypeOK, SubmissionTypeOK
<1>5. wanted \in Reports
  BY <1>4 DEF Reports, Reasons
<1> HIDE DEF wanted
<1>6. /\ report' \in [Jobs -> Reports \cup {None}] /\ report'[j] \in Reports
      /\ \A i \in Jobs \ {j} : report'[i] = report[i]
  BY <1>1, <1>2, <1>4, <1>5, StoreReportEffect DEF TypeOK, BackendsTypeOK
<1>7. report'[j] # None
  BY <1>6, NoneAssumption
<1>8. Grows
  BY <1>1, <1>2, <1>6, <1>7, MaxReceivesAssumption DEF Grows, QueueTypeOK, TypeOK
<1>9. TypeOK'
  BY <1>1, <1>2, <1>3, <1>6 DEF TypeOK, BackendsTypeOK, QueueTypeOK, WorkerTypeOK
<1>10. RequestInv(j)' /\ JobInv(j)'
  BY <1>1, <1>2, <1>3, <1>7 DEF RequestInv, JobInv, RowIs, ShownAs, BeforeSend, UndoPcs
<1> QED BY <1>1, <1>3, <1>6, <1>8, <1>9, <1>10, RequestStepCloses

\* submit keeps the invariant when it marks the row completed: the report was
\* saved before.
LEMMA SubmitCompleteStep ==
  ASSUME IInv, NEW j \in Jobs, SubmitComplete(j), UNCHANGED worker
  PROVE  IInv'
<1> DEFINE wanted == [record[j] EXCEPT !.status = "completed"]
<1>1. /\ SubmitGoto(j, "complete", "show_completed") /\ UpdateRow(j, record[j], wanted)
      /\ UNCHANGED <<report, snap, aiCache, head, message, worker>>
  BY DEF SubmitComplete
<1>2. TypeOK /\ RequestInv(j) /\ JobInv(j)
  BY DEF IInv
<1>3. /\ SubmissionTypeOK' /\ submission[j].pc = "complete"
      /\ submission'[j].pc = "show_completed"
      /\ submission'[j].commit = submission[j].commit
      /\ \A i \in Jobs \ {j} : submission'[i] = submission[i]
  BY <1>1, <1>2, SubmitGotoEffect DEF SubmissionPcs, TypeOK
<1>4. record[j] \in Rows /\ report[j] # None
  BY <1>2, <1>3 DEF RequestInv, TypeOK, BackendsTypeOK
<1>5. wanted \in Rows /\ wanted.status = "completed"
  BY <1>4 DEF Rows, Statuses
<1> HIDE DEF wanted
<1>6. /\ record' \in [Jobs -> Rows \cup {None}] /\ record'[j] \in Rows
      /\ record'[j].status \in {record[j].status, "completed"}
      /\ \A i \in Jobs \ {j} : record'[i] = record[i]
  BY <1>1, <1>2, <1>4, <1>5, UpdateRowEffect DEF TypeOK, BackendsTypeOK
<1>7. record'[j] # None /\ record[j] # None
  BY <1>4, <1>6, NoneAssumption
<1>8. Grows
  BY <1>1, <1>2, <1>6, <1>7, MaxReceivesAssumption DEF Grows, QueueTypeOK, TypeOK
<1>9. TypeOK'
  BY <1>1, <1>2, <1>3, <1>6 DEF TypeOK, BackendsTypeOK, QueueTypeOK, WorkerTypeOK
<1>10. RequestInv(j)' /\ JobInv(j)'
  BY <1>1, <1>2, <1>3, <1>4, <1>6, <1>7 DEF RequestInv, JobInv, RowIs, ShownAs, BeforeSend, UndoPcs
<1> QED BY <1>1, <1>3, <1>6, <1>8, <1>9, <1>10, RequestStepCloses

\* submit keeps the invariant when it shows completed and answers 202 without
\* a message: the report is there.
LEMMA SubmitShowCompletedStep ==
  ASSUME IInv, NEW j \in Jobs, SubmitShowCompleted(j), UNCHANGED worker
  PROVE  IInv'
<1> DEFINE s == Snapshot("completed", TRUE)
<1>1. /\ submission[j].pc = "show_completed" /\ Respond(j, "accepted") /\ SetState(j, s)
      /\ UNCHANGED <<record, report, aiCache, head, message, worker>>
  BY DEF SubmitShowCompleted
<1>2. TypeOK /\ RequestInv(j) /\ JobInv(j)
  BY DEF IInv
<1>3. /\ SubmissionTypeOK' /\ submission'[j].pc = "accepted"
      /\ \A i \in Jobs \ {j} : submission'[i] = submission[i]
  BY <1>1, <1>2, RespondEffect DEF SubmissionPcs, TypeOK
<1>4. s \in Snapshots /\ s.status = "completed"
  BY DEF Snapshot, Snapshots, Statuses
<1> HIDE DEF s
<1>5. /\ snap' \in [Jobs -> Snapshots \cup {None}] /\ snap'[j] = s
      /\ \A i \in Jobs \ {j} : snap'[i] = snap[i]
  BY <1>1, <1>2, <1>4, SetStateEffect DEF TypeOK, BackendsTypeOK
<1>6. Grows
  BY <1>1, <1>2, MaxReceivesAssumption DEF Grows, QueueTypeOK, TypeOK
<1>7. TypeOK'
  BY <1>1, <1>2, <1>3, <1>5 DEF TypeOK, BackendsTypeOK, QueueTypeOK, WorkerTypeOK
<1>8. RequestInv(j)' /\ JobInv(j)'
  BY <1>1, <1>2, <1>3, <1>4, <1>5 DEF RequestInv, JobInv, RowIs, ShownAs, BeforeSend, UndoPcs
<1> QED BY <1>1, <1>3, <1>5, <1>6, <1>7, <1>8, RequestStepCloses

\* submit keeps the invariant when it sends the message and answers 202.
LEMMA SubmitSendStep ==
  ASSUME IInv, NEW j \in Jobs, SubmitSend(j), UNCHANGED worker
  PROVE  IInv'
<1>1. /\ submission[j].pc = "send" /\ Respond(j, "accepted") /\ Move(j, "ready")
      /\ UNCHANGED <<record, report, snap, aiCache, head, worker>>
  BY DEF SubmitSend, Send, backends
<1>2. TypeOK /\ RequestInv(j) /\ JobInv(j)
  BY DEF IInv
<1>3. /\ SubmissionTypeOK' /\ submission'[j].pc = "accepted"
      /\ \A i \in Jobs \ {j} : submission'[i] = submission[i]
  BY <1>1, <1>2, RespondEffect DEF SubmissionPcs, TypeOK
<1>4. /\ QueueTypeOK' /\ message'[j].place = "ready"
      /\ message'[j].receives = message[j].receives
      /\ \A i \in Jobs \ {j} : message'[i] = message[i]
  BY <1>1, <1>2, MoveEffect DEF Places, TypeOK
<1>5. Grows
  BY <1>1, <1>2, <1>4, MaxReceivesAssumption DEF Grows, QueueTypeOK, TypeOK
<1>6. TypeOK'
  BY <1>1, <1>2, <1>3, <1>4 DEF TypeOK, BackendsTypeOK, WorkerTypeOK
<1>7. RequestInv(j)' /\ JobInv(j)'
  BY <1>1, <1>2, <1>3, <1>4 DEF RequestInv, JobInv, RowIs, ShownAs, BeforeSend, UndoPcs
<1> QED BY <1>1, <1>3, <1>4, <1>5, <1>6, <1>7, RequestStepCloses

\* submit keeps the invariant when send raises, whether or not the message
\* reached the queue: the client will be refused.
LEMMA SubmitSendRaisesStep ==
  ASSUME IInv, NEW j \in Jobs, SubmitSendRaises(j), UNCHANGED worker
  PROVE  IInv'
<1>1. /\ SubmitGoto(j, "send", "load_failed")
      /\ Move(j, "ready") \/ UNCHANGED message
      /\ UNCHANGED <<record, report, snap, aiCache, head, worker>>
  BY DEF SubmitSendRaises, Send, backends
<1>2. TypeOK /\ RequestInv(j) /\ JobInv(j)
  BY DEF IInv
<1>3. /\ SubmissionTypeOK' /\ submission[j].pc = "send" /\ submission'[j].pc = "load_failed"
      /\ \A i \in Jobs \ {j} : submission'[i] = submission[i]
  BY <1>2, SubmitGotoEffect DEF SubmitSendRaises, SubmissionPcs, TypeOK
<1>4. /\ QueueTypeOK' /\ message'[j].place \in {"ready", message[j].place}
      /\ message'[j].receives = message[j].receives
      /\ \A i \in Jobs \ {j} : message'[i] = message[i]
  BY <1>1, <1>2, MoveEffect DEF Places, TypeOK, QueueTypeOK
<1>5. Grows
  BY <1>1, <1>2, <1>4, MaxReceivesAssumption DEF SubmitSendRaises, backends, Grows, QueueTypeOK, TypeOK
<1>6. TypeOK'
  BY <1>2, <1>3, <1>4 DEF SubmitSendRaises, backends, TypeOK, BackendsTypeOK, WorkerTypeOK
<1>7. RequestInv(j)' /\ JobInv(j)'
  BY <1>2, <1>3, <1>4 DEF SubmitSendRaises, backends, RequestInv, JobInv, RowIs, ShownAs, BeforeSend, UndoPcs
<1> QED BY <1>3, <1>4, <1>5, <1>6, <1>7, RequestStepCloses DEF SubmitSendRaises, backends

\* submit keeps the invariant when it loads the row it will mark failed.
LEMMA SubmitLoadFailedStep ==
  ASSUME IInv, NEW j \in Jobs, SubmitLoadFailed(j), UNCHANGED worker
  PROVE  IInv'
<1>1. TypeOK /\ RequestInv(j) /\ JobInv(j) /\ submission[j].pc = "load_failed"
  BY DEF IInv, SubmitLoadFailed
<1>2. record[j] \in Rows /\ record[j] # None
  BY <1>1 DEF RequestInv, TypeOK, BackendsTypeOK
<1>a. "mark_failed" \in SubmissionPcs
  BY DEF SubmissionPcs
<1>b. submission' = [submission EXCEPT ![j].pc = "mark_failed", ![j].loaded = record[j]]
  BY DEF SubmitLoadFailed
<1>3. /\ SubmissionTypeOK' /\ submission'[j].pc = "mark_failed"
      /\ submission'[j].loaded = record[j]
      /\ \A i \in Jobs \ {j} : submission'[i] = submission[i]
  BY <1>1, <1>2, <1>a, <1>b DEF TypeOK, SubmissionTypeOK
<1>4. UNCHANGED <<record, report, snap, message>>
  BY DEF SubmitLoadFailed, backends
<1>5. RequestInv(j)' /\ JobInv(j)'
  BY <1>1, <1>2, <1>3, <1>4 DEF RequestInv, JobInv, RowIs, ShownAs, BeforeSend, UndoPcs
<1> QED BY <1>3, <1>5, RequestReadCloses DEF SubmitLoadFailed

\* submit keeps the invariant when it marks the row of a refused job failed,
\* whatever a worker has written since the row was loaded.
LEMMA SubmitMarkFailedStep ==
  ASSUME IInv, NEW j \in Jobs, SubmitMarkFailed(j), UNCHANGED worker
  PROVE  IInv'
<1> DEFINE loaded == submission[j].loaded
           wanted == [loaded EXCEPT !.status = "failed", !.error = TRUE]
<1>1. /\ SubmitGoto(j, "mark_failed", "show_failed") /\ UpdateRow(j, loaded, wanted)
      /\ UNCHANGED <<report, snap, aiCache, head, message, worker>>
  BY DEF SubmitMarkFailed
<1>2. TypeOK /\ RequestInv(j) /\ JobInv(j)
  BY DEF IInv
<1>3. /\ SubmissionTypeOK' /\ submission[j].pc = "mark_failed"
      /\ submission'[j].pc = "show_failed"
      /\ \A i \in Jobs \ {j} : submission'[i] = submission[i]
  BY <1>1, <1>2, SubmitGotoEffect DEF SubmissionPcs, TypeOK
<1>4. record[j] \in Rows /\ loaded \in Rows
  BY <1>2, <1>3 DEF RequestInv, TypeOK, BackendsTypeOK
<1>5. wanted \in Rows /\ wanted.status = "failed"
  BY <1>4 DEF Rows, Statuses
<1> HIDE DEF loaded, wanted
<1>6. /\ record' \in [Jobs -> Rows \cup {None}] /\ record'[j] \in Rows
      /\ record'[j].status \in {record[j].status, "failed"}
      /\ \A i \in Jobs \ {j} : record'[i] = record[i]
  BY <1>1, <1>2, <1>4, <1>5, UpdateRowEffect DEF TypeOK, BackendsTypeOK
<1>7. record'[j] # None /\ record[j] # None
  BY <1>4, <1>6, NoneAssumption
<1>8. Grows
  BY <1>1, <1>2, <1>6, <1>7, MaxReceivesAssumption DEF Grows, QueueTypeOK, TypeOK
<1>9. TypeOK'
  BY <1>1, <1>2, <1>3, <1>6 DEF TypeOK, BackendsTypeOK, QueueTypeOK, WorkerTypeOK
<1>10. RequestInv(j)' /\ JobInv(j)'
  BY <1>1, <1>2, <1>3, <1>6, <1>7 DEF RequestInv, JobInv, RowIs, ShownAs, BeforeSend, UndoPcs
<1> QED BY <1>1, <1>3, <1>6, <1>8, <1>9, <1>10, RequestStepCloses

\* submit keeps the invariant when it shows failed and refuses the client.
LEMMA SubmitShowFailedStep ==
  ASSUME IInv, NEW j \in Jobs, SubmitShowFailed(j), UNCHANGED worker
  PROVE  IInv'
<1> DEFINE s == Snapshot("failed", TRUE)
<1>1. /\ submission[j].pc = "show_failed" /\ Respond(j, "refused") /\ SetState(j, s)
      /\ UNCHANGED <<record, report, aiCache, head, message, worker>>
  BY DEF SubmitShowFailed
<1>2. TypeOK /\ RequestInv(j) /\ JobInv(j)
  BY DEF IInv
<1>3. /\ SubmissionTypeOK' /\ submission'[j].pc = "refused"
      /\ \A i \in Jobs \ {j} : submission'[i] = submission[i]
  BY <1>1, <1>2, RespondEffect DEF SubmissionPcs, TypeOK
<1>4. s \in Snapshots /\ s.status = "failed"
  BY DEF Snapshot, Snapshots, Statuses
<1> HIDE DEF s
<1>5. /\ snap' \in [Jobs -> Snapshots \cup {None}] /\ snap'[j] = s
      /\ \A i \in Jobs \ {j} : snap'[i] = snap[i]
  BY <1>1, <1>2, <1>4, SetStateEffect DEF TypeOK, BackendsTypeOK
<1>6. Grows
  BY <1>1, <1>2, MaxReceivesAssumption DEF Grows, QueueTypeOK, TypeOK
<1>7. TypeOK'
  BY <1>1, <1>2, <1>3, <1>5 DEF TypeOK, BackendsTypeOK, QueueTypeOK, WorkerTypeOK
<1>8. RequestInv(j)' /\ JobInv(j)'
  BY <1>1, <1>2, <1>3, <1>4, <1>5 DEF RequestInv, JobInv, RowIs, ShownAs, BeforeSend, UndoPcs
<1> QED BY <1>1, <1>3, <1>5, <1>6, <1>7, <1>8, RequestStepCloses

\* submit keeps the invariant when another call raises or the process dies.
LEMMA SubmitAbandonStep ==
  ASSUME IInv, NEW j \in Jobs, SubmitAbandon(j), UNCHANGED worker
  PROVE  IInv'
<1>1. TypeOK /\ RequestInv(j) /\ JobInv(j)
  BY DEF IInv
<1>2. /\ SubmissionTypeOK' /\ submission'[j].pc = "refused"
      /\ \A i \in Jobs \ {j} : submission'[i] = submission[i]
  BY <1>1, RespondEffect DEF SubmitAbandon, SubmissionPcs, TypeOK
<1>3. UNCHANGED <<record, report, snap, message>>
  BY DEF SubmitAbandon, backends
<1>4. RequestInv(j)' /\ JobInv(j)'
  BY <1>1, <1>2, <1>3 DEF RequestInv, JobInv, RowIs, ShownAs, BeforeSend, UndoPcs
<1> QED BY <1>2, <1>4, RequestReadCloses DEF SubmitAbandon

\* Every step of a request keeps the invariant.
LEMMA SubmissionStepPreserves ==
  ASSUME IInv, NEW j \in Jobs, SubmissionStep(j), UNCHANGED worker
  PROVE  IInv'
BY SubmitFetchStep, SubmitCreateStep, SubmitSeedStep, SubmitLookupStep, SubmitSaveStep,
   SubmitCompleteStep, SubmitShowCompletedStep, SubmitSendStep, SubmitSendRaisesStep,
   SubmitLoadFailedStep, SubmitMarkFailedStep, SubmitShowFailedStep, SubmitAbandonStep
   DEF SubmissionStep

-----------------------------------------------------------------------------
(* The steps of a worker.                                                  *)

\* A worker keeps the other workers and the requests as they are.
LEMMA WorkerStepCloses ==
  ASSUME IInv, NEW w \in Workers, UNCHANGED submission, TypeOK', Grows,
         \A j \in Jobs : message[j].place = "unsent" => message'[j].place = "unsent",
         \A j \in Jobs : JobInv(j)',
         \A v \in Workers \ {w} : worker'[v] = worker[v],
         HandlingInv(w)'
  PROVE  IInv'
<1>1. \A j \in Jobs : RequestInv(j)'
  BY RequestKept DEF IInv
<1>2. ASSUME NEW v \in Workers, v # w PROVE HandlingInv(v)'
  BY <1>2, HandlingKept DEF IInv, TypeOK
<1> QED BY <1>1, <1>2 DEF IInv

\* A worker that reads, raises or dies leaves the stores as they are.
LEMMA WorkerReadCloses ==
  ASSUME IInv, NEW w \in Workers, UNCHANGED <<submission, backends, message>>,
         WorkerTypeOK', \A v \in Workers \ {w} : worker'[v] = worker[v], HandlingInv(w)'
  PROVE  IInv'
<1>1. TypeOK'
  BY DEF IInv, TypeOK, BackendsTypeOK, QueueTypeOK, SubmissionTypeOK, backends
<1>2. Grows
  BY MaxReceivesAssumption DEF IInv, TypeOK, Grows, backends, QueueTypeOK
<1>3. \A j \in Jobs : JobInv(j)'
  BY JobKept DEF IInv, backends
<1> QED BY <1>1, <1>2, <1>3, WorkerStepCloses

\* What IInv says of a worker that holds a message.
LEMMA Handling ==
  ASSUME IInv, NEW w \in Workers, worker[w].pc # "poll"
  PROVE  /\ TypeOK /\ HandlingInv(w) /\ worker[w] \in WorkerStates
         /\ worker[w].job \in Jobs
         /\ JobInv(worker[w].job)
         /\ record[worker[w].job] \in Rows
         /\ message[worker[w].job] \in [place : Places, receives : 0..MaxReceives]
<1>1. worker[w].job \in Jobs /\ message[worker[w].job].place # "unsent"
  BY DEF IInv, HandlingInv
<1> QED BY <1>1 DEF IInv, TypeOK, BackendsTypeOK, QueueTypeOK, WorkerTypeOK, JobInv

\* A worker shows a snapshot: completed only with a report, failed only on
\* the last attempt.
LEMMA ShowEffect ==
  ASSUME IInv, NEW j \in Jobs, NEW s \in Snapshots, SetState(j, s),
         UNCHANGED <<record, report, aiCache, head, message, submission>>,
         s.status = "completed" => report[j] # None,
         s.status = "failed" => message[j].receives = MaxReceives
  PROVE  /\ BackendsTypeOK' /\ QueueTypeOK' /\ SubmissionTypeOK' /\ Grows
         /\ \A i \in Jobs : JobInv(i)'
<1>1. /\ snap' \in [Jobs -> Snapshots \cup {None}] /\ snap'[j] = s
      /\ \A i \in Jobs \ {j} : snap'[i] = snap[i]
  BY SetStateEffect DEF IInv, TypeOK, BackendsTypeOK
<1>2. BackendsTypeOK' /\ QueueTypeOK' /\ SubmissionTypeOK'
  BY <1>1 DEF IInv, TypeOK, BackendsTypeOK, QueueTypeOK, SubmissionTypeOK
<1>3. Grows
  BY MaxReceivesAssumption DEF IInv, TypeOK, Grows, QueueTypeOK
<1>4. JobInv(j)'
  BY <1>1 DEF IInv, JobInv, RowIs, ShownAs
<1>5. ASSUME NEW i \in Jobs, i # j PROVE JobInv(i)'
  BY <1>1, <1>5, JobKept DEF IInv
<1> QED BY <1>2, <1>3, <1>4, <1>5

\* A worker commits a row: completed only with a report, failed only on the
\* last attempt.
LEMMA CommitRowEffect ==
  ASSUME IInv, NEW w \in Workers, worker[w].pc \in MarkPcs,
         NEW j, j = worker[w].job, NEW wanted \in Rows,
         CommitRow(w, wanted), UNCHANGED submission,
         wanted.status = "completed" /\ wanted.status # worker[w].loaded.status =>
           report[j] # None,
         wanted.status = "failed" /\ wanted.status # worker[w].loaded.status =>
           message[j].receives = MaxReceives
  PROVE  /\ BackendsTypeOK' /\ QueueTypeOK' /\ SubmissionTypeOK' /\ Grows
         /\ UNCHANGED <<report, message>>
         /\ \A i \in Jobs : JobInv(i)'
<1> DEFINE loaded == worker[w].loaded
<1>1. worker[w].pc # "poll"
  BY DEF MarkPcs
<1>2. /\ TypeOK /\ j \in Jobs /\ JobInv(j) /\ record[j] \in Rows /\ loaded \in Rows
  BY <1>1, Handling DEF HandlingInv
<1>3. UpdateRow(j, loaded, wanted) /\ UNCHANGED <<report, snap, aiCache, head, message>>
  BY DEF CommitRow
<1>a. /\ wanted.status = "completed" /\ wanted.status # loaded.status => report[j] # None
      /\ wanted.status = "failed" /\ wanted.status # loaded.status =>
           message[j].receives = MaxReceives
  OBVIOUS
<1> HIDE DEF loaded
<1>4. /\ record' \in [Jobs -> Rows \cup {None}] /\ record'[j] \in Rows
      /\ record'[j].status \in {record[j].status, wanted.status}
      /\ wanted.status = loaded.status => record'[j].status = record[j].status
      /\ \A i \in Jobs \ {j} : record'[i] = record[i]
  BY <1>2, <1>3, UpdateRowEffect DEF TypeOK, BackendsTypeOK
<1>5. record[j] # None /\ record'[j] # None
  BY <1>2, <1>4, NoneAssumption
<1>6. BackendsTypeOK' /\ QueueTypeOK' /\ SubmissionTypeOK'
  BY <1>2, <1>3, <1>4 DEF TypeOK, BackendsTypeOK, QueueTypeOK, SubmissionTypeOK
<1>7. Grows
  BY <1>2, <1>3, <1>4, <1>5, MaxReceivesAssumption DEF TypeOK, Grows, QueueTypeOK
<1>8. JobInv(j)'
  BY <1>2, <1>3, <1>a, <1>4, <1>5 DEF JobInv, RowIs, ShownAs
<1>9. ASSUME NEW i \in Jobs, i # j PROVE JobInv(i)'
  BY <1>3, <1>4, <1>9, JobKept DEF IInv
<1> QED BY <1>3, <1>6, <1>7, <1>8, <1>9

\* The pipeline keeps the invariant when it reads the snapshot.
LEMMA PeekStep ==
  ASSUME IInv, NEW w \in Workers, Peek(w), UNCHANGED submission
  PROVE  IInv'
<1> DEFINE instant == LET state == snap[worker[w].job] IN state # None /\ state.instant
<1>a. "show_processing" \in PipelinePcs
  BY DEF PipelinePcs
<1>1. /\ worker[w].pc = "peek" /\ UNCHANGED <<backends, message>>
      /\ worker' = [worker EXCEPT ![w].pc = "show_processing", ![w].instant = instant]
  BY DEF Peek
<1>2. TypeOK /\ HandlingInv(w) /\ worker[w].job \in Jobs
  BY <1>1, Handling
<1>3. instant \in BOOLEAN
  BY <1>2 DEF TypeOK, BackendsTypeOK, Snapshots
<1> HIDE DEF instant
<1>4. /\ WorkerTypeOK' /\ worker'[w].pc = "show_processing"
      /\ worker'[w].job = worker[w].job /\ worker'[w].receive = worker[w].receive
      /\ \A v \in Workers \ {w} : worker'[v] = worker[v]
  <2> DEFINE new == [worker[w] EXCEPT !.pc = "show_processing", !.instant = instant]
  <2>1. worker[w] \in WorkerStates
    BY <1>2 DEF TypeOK, WorkerTypeOK
  <2>2. new \in WorkerStates
    BY <2>1, <1>a, <1>3 DEF WorkerStates
  <2>3. /\ new.job = worker[w].job /\ new.receive = worker[w].receive
        /\ new.pc = "show_processing"
    BY <2>1 DEF WorkerStates
  <2>4. worker' = [worker EXCEPT ![w] = new]
    BY <2>1, <1>1, <1>2 DEF TypeOK, WorkerTypeOK, WorkerStates
  <2> HIDE DEF new
  <2> QED BY <1>2, <2>2, <2>3, <2>4, WorkerWriteEffect DEF TypeOK
<1>5. HandlingInv(w)'
  BY <1>1, <1>2, <1>4 DEF HandlingInv, FetchedPcs, MarkPcs, backends
<1> QED BY <1>1, <1>4, <1>5, WorkerReadCloses

\* update_job_status keeps the invariant at its SELECT, which finds a row: the
\* row was committed before the message was sent.
LEMMA LoadRowStep ==
  ASSUME IInv, NEW w \in Workers, LoadRow(w), UNCHANGED submission
  PROVE  IInv'
<1> DEFINE mark == MarkAfter[worker[w].pc]
           row == record[worker[w].job]
<1>1. /\ worker[w].pc \in {"load_processing", "load_preparing", "load_completed", "load_failed"}
      /\ UNCHANGED <<backends, message>>
      /\ worker' = [worker EXCEPT ![w].pc = mark, ![w].loaded = row]
  BY DEF LoadRow, MarkAfter
<1>2. TypeOK /\ HandlingInv(w) /\ row \in Rows /\ worker[w].job \in Jobs
  BY <1>1, Handling
<1>3. /\ worker[w].pc = "load_processing" => mark = "mark_processing"
      /\ worker[w].pc = "load_preparing" => mark = "mark_preparing"
      /\ worker[w].pc = "load_completed" => mark = "mark_completed"
      /\ worker[w].pc = "load_failed" => mark = "mark_failed"
  BY DEF MarkAfter
<1> HIDE DEF mark, row
<1>4. mark \in PipelinePcs \cup HandlerPcs
  BY <1>1, <1>3 DEF PipelinePcs, HandlerPcs
<1>5. /\ WorkerTypeOK' /\ worker'[w].pc = mark /\ worker'[w].loaded = row
      /\ worker'[w].job = worker[w].job /\ worker'[w].receive = worker[w].receive
      /\ worker'[w].commit = worker[w].commit
      /\ \A v \in Workers \ {w} : worker'[v] = worker[v]
  <2> DEFINE new == [worker[w] EXCEPT !.pc = mark, !.loaded = row]
  <2>1. worker[w] \in WorkerStates
    BY <1>2 DEF TypeOK, WorkerTypeOK
  <2>2. new \in WorkerStates
    BY <2>1, <1>2, <1>4 DEF WorkerStates
  <2>3. /\ new.job = worker[w].job /\ new.receive = worker[w].receive
        /\ new.pc = mark
        /\ new.loaded = row
        /\ new.commit = worker[w].commit
    BY <2>1 DEF WorkerStates
  <2>4. worker' = [worker EXCEPT ![w] = new]
    BY <2>1, <1>1, <1>2 DEF TypeOK, WorkerTypeOK, WorkerStates
  <2> HIDE DEF new
  <2> QED BY <1>2, <2>2, <2>3, <2>4, WorkerWriteEffect DEF TypeOK
<1>6. HandlingInv(w)'
  BY <1>1, <1>2, <1>3, <1>5 DEF HandlingInv, FetchedPcs, MarkPcs, backends
<1> QED BY <1>1, <1>5, <1>6, WorkerReadCloses

\* The pipeline keeps the invariant when it fetches the repository.
LEMMA FetchStep ==
  ASSUME IInv, NEW w \in Workers, Fetch(w), UNCHANGED submission
  PROVE  IInv'
<1>a. "show_preparing" \in PipelinePcs
  BY DEF PipelinePcs
<1>1. /\ worker[w].pc = "fetch" /\ UNCHANGED <<backends, message>>
      /\ worker' = [worker EXCEPT ![w].pc = "show_preparing", ![w].commit = head]
  BY DEF Fetch
<1>2. TypeOK /\ HandlingInv(w) /\ head \in Commits
  BY <1>1, Handling DEF TypeOK, BackendsTypeOK
<1>3. /\ WorkerTypeOK' /\ worker'[w].pc = "show_preparing" /\ worker'[w].commit = head
      /\ worker'[w].job = worker[w].job /\ worker'[w].receive = worker[w].receive
      /\ \A v \in Workers \ {w} : worker'[v] = worker[v]
  <2> DEFINE new == [worker[w] EXCEPT !.pc = "show_preparing", !.commit = head]
  <2>1. worker[w] \in WorkerStates
    BY <1>2 DEF TypeOK, WorkerTypeOK
  <2>2. new \in WorkerStates
    BY <2>1, <1>a, <1>2 DEF WorkerStates
  <2>3. /\ new.job = worker[w].job /\ new.receive = worker[w].receive
        /\ new.pc = "show_preparing"
        /\ new.commit = head
    BY <2>1 DEF WorkerStates
  <2>4. worker' = [worker EXCEPT ![w] = new]
    BY <2>1, <1>1, <1>2 DEF TypeOK, WorkerTypeOK, WorkerStates
  <2> HIDE DEF new
  <2> QED BY <1>2, <2>2, <2>3, <2>4, WorkerWriteEffect DEF TypeOK
<1>4. HandlingInv(w)'
  BY <1>1, <1>2, <1>3 DEF HandlingInv, MarkPcs, backends
<1> QED BY <1>1, <1>3, <1>4, WorkerReadCloses

\* The pipeline keeps the invariant when it looks up cached insights.
LEMMA LookupStep ==
  ASSUME IInv, NEW w \in Workers, Lookup(w), UNCHANGED submission
  PROVE  IInv'
<1> DEFINE cached == aiCache[worker[w].commit]
           next == IF cached = None THEN "show_running" ELSE "load_report"
<1>1. /\ worker[w].pc = "lookup" /\ UNCHANGED <<backends, message>>
      /\ worker' = [worker EXCEPT ![w].pc = next, ![w].insights = cached]
  BY DEF Lookup
<1>2. TypeOK /\ HandlingInv(w) /\ worker[w].commit \in Commits
  BY <1>1, Handling DEF HandlingInv, FetchedPcs
<1>3. /\ cached \in Commits \cup {None}
      /\ next \in {"show_running", "load_report"}
      /\ next \in PipelinePcs
  BY <1>2 DEF TypeOK, BackendsTypeOK, PipelinePcs
<1> HIDE DEF cached, next
<1>4. /\ WorkerTypeOK' /\ worker'[w].pc = next /\ worker'[w].commit = worker[w].commit
      /\ worker'[w].job = worker[w].job /\ worker'[w].receive = worker[w].receive
      /\ \A v \in Workers \ {w} : worker'[v] = worker[v]
  <2> DEFINE new == [worker[w] EXCEPT !.pc = next, !.insights = cached]
  <2>1. worker[w] \in WorkerStates
    BY <1>2 DEF TypeOK, WorkerTypeOK
  <2>2. new \in WorkerStates
    BY <2>1, <1>3 DEF WorkerStates
  <2>3. /\ new.job = worker[w].job /\ new.receive = worker[w].receive
        /\ new.pc = next
        /\ new.commit = worker[w].commit
    BY <2>1 DEF WorkerStates
  <2>4. worker' = [worker EXCEPT ![w] = new]
    BY <2>1, <1>1, <1>2 DEF TypeOK, WorkerTypeOK, WorkerStates
  <2> HIDE DEF new
  <2> QED BY <1>2, <2>2, <2>3, <2>4, WorkerWriteEffect DEF TypeOK
<1>5. HandlingInv(w)'
  BY <1>1, <1>2, <1>3, <1>4 DEF HandlingInv, MarkPcs, backends
<1> QED BY <1>1, <1>4, <1>5, WorkerReadCloses

\* The pipeline keeps the invariant whether the analysis answers or falls back.
LEMMA AnalyzeStep ==
  ASSUME IInv, NEW w \in Workers, AnalyzeSucceeds(w) \/ AnalyzeFallsBack(w),
         UNCHANGED submission
  PROVE  IInv'
<1>1. worker[w].pc = "analyze" /\ UNCHANGED <<backends, message>>
  BY DEF AnalyzeSucceeds, AnalyzeFallsBack
<1>2. TypeOK /\ HandlingInv(w) /\ worker[w].commit \in Commits
  BY <1>1, Handling DEF HandlingInv, FetchedPcs
<1>3. /\ WorkerTypeOK' /\ worker'[w].pc \in {"store_insights", "load_report"}
      /\ worker'[w].commit = worker[w].commit
      /\ worker'[w].job = worker[w].job /\ worker'[w].receive = worker[w].receive
      /\ \A v \in Workers \ {w} : worker'[v] = worker[v]
  <2>a. "store_insights" \in PipelinePcs /\ "load_report" \in PipelinePcs
    BY DEF PipelinePcs
  <2>1. CASE AnalyzeSucceeds(w)
    <3> DEFINE new == [worker[w] EXCEPT !.pc = "store_insights", !.insights = worker[w].commit]
    <3>1. worker[w] \in WorkerStates
      BY <1>2 DEF TypeOK, WorkerTypeOK
    <3>2. new \in WorkerStates
      BY <3>1, <2>a, <1>2 DEF WorkerStates
    <3>3. /\ new.job = worker[w].job /\ new.receive = worker[w].receive
          /\ new.pc = "store_insights"
          /\ new.commit = worker[w].commit
      BY <3>1 DEF WorkerStates
    <3>4. worker' = [worker EXCEPT ![w] = new]
      BY <3>1, <2>1, <1>2 DEF AnalyzeSucceeds, TypeOK, WorkerTypeOK, WorkerStates
    <3> HIDE DEF new
    <3> QED BY <1>2, <3>2, <3>3, <3>4, WorkerWriteEffect DEF TypeOK
  <2>2. CASE AnalyzeFallsBack(w)
    <3>a. PICK reason \in {"empty", "text"} :
            worker' = [worker EXCEPT ![w].pc = "load_report", ![w].reason = reason]
      BY <2>2 DEF AnalyzeFallsBack
    <3>b. reason \in Reasons
      BY DEF Reasons
    <3> DEFINE new == [worker[w] EXCEPT !.pc = "load_report", !.reason = reason]
    <3>1. worker[w] \in WorkerStates
      BY <1>2 DEF TypeOK, WorkerTypeOK
    <3>2. new \in WorkerStates
      BY <3>1, <2>a, <3>b DEF WorkerStates
    <3>3. /\ new.job = worker[w].job /\ new.receive = worker[w].receive
          /\ new.pc = "load_report"
          /\ new.commit = worker[w].commit
      BY <3>1 DEF WorkerStates
    <3>4. worker' = [worker EXCEPT ![w] = new]
      BY <3>1, <3>a, <1>2 DEF TypeOK, WorkerTypeOK, WorkerStates
    <3> HIDE DEF new
    <3> QED BY <1>2, <3>2, <3>3, <3>4, WorkerWriteEffect DEF TypeOK
  <2> QED BY <2>1, <2>2
<1>4. HandlingInv(w)'
  BY <1>1, <1>2, <1>3 DEF HandlingInv, MarkPcs, backends
<1> QED BY <1>1, <1>3, <1>4, WorkerReadCloses

\* save_final_report keeps the invariant at its SELECT: a report it finds is not
\* removed before the COMMIT.
LEMMA LoadReportStep ==
  ASSUME IInv, NEW w \in Workers, LoadReport(w), UNCHANGED submission
  PROVE  IInv'
<1> DEFINE row == report[worker[w].job]
<1>a. "save_report" \in PipelinePcs
  BY DEF PipelinePcs
<1>1. /\ worker[w].pc = "load_report" /\ UNCHANGED <<backends, message>>
      /\ worker' = [worker EXCEPT ![w].pc = "save_report", ![w].loaded = row]
  BY DEF LoadReport
<1>2. /\ TypeOK /\ HandlingInv(w) /\ worker[w].commit \in Commits
      /\ row \in Reports \cup {None}
  BY <1>1, Handling DEF HandlingInv, FetchedPcs, TypeOK, BackendsTypeOK
<1>3. UNCHANGED <<record, report, message>>
  BY <1>1 DEF backends
<1>4. worker[w].job \in Jobs /\ row = report[worker[w].job]
  BY <1>1, Handling
<1> HIDE DEF row
<1>5. /\ WorkerTypeOK' /\ worker'[w].pc = "save_report" /\ worker'[w].loaded = row
      /\ worker'[w].commit = worker[w].commit
      /\ worker'[w].job = worker[w].job /\ worker'[w].receive = worker[w].receive
      /\ \A v \in Workers \ {w} : worker'[v] = worker[v]
  <2> DEFINE new == [worker[w] EXCEPT !.pc = "save_report", !.loaded = row]
  <2>1. worker[w] \in WorkerStates
    BY <1>2 DEF TypeOK, WorkerTypeOK
  <2>2. new \in WorkerStates
    BY <2>1, <1>a, <1>2 DEF WorkerStates
  <2>3. /\ new.job = worker[w].job /\ new.receive = worker[w].receive
        /\ new.pc = "save_report"
        /\ new.loaded = row
        /\ new.commit = worker[w].commit
    BY <2>1 DEF WorkerStates
  <2>4. worker' = [worker EXCEPT ![w] = new]
    BY <2>1, <1>1, <1>2 DEF TypeOK, WorkerTypeOK, WorkerStates
  <2> HIDE DEF new
  <2> QED BY <1>2, <2>2, <2>3, <2>4, WorkerWriteEffect DEF TypeOK
<1>6. HandlingInv(w)'
  BY <1>1, <1>2, <1>3, <1>4, <1>5 DEF HandlingInv, MarkPcs
<1> QED BY <1>1, <1>5, <1>6, WorkerReadCloses

\* The pipeline keeps the invariant when it shows progress.
LEMMA ShowProcessingStep ==
  ASSUME IInv, NEW w \in Workers, ShowProcessing(w), UNCHANGED submission
  PROVE  IInv'
<1>1. PICK from \in {"show_processing", "show_preparing", "show_running"},
           to \in {"load_processing", "load_preparing", "analyze"},
           instant \in {worker[w].instant, TRUE} :
        /\ ShowProgress(w, from, to, instant)
        /\ from = "show_processing" => to = "load_processing"
  BY DEF ShowProcessing
<1> DEFINE s == Snapshot("processing", instant)
<1>2. /\ Goto(w, from, to) /\ SetState(worker[w].job, s)
      /\ UNCHANGED <<record, report, aiCache, head, message>>
      /\ worker[w].pc = from
  BY <1>1 DEF ShowProgress, Goto
<1>3. /\ TypeOK /\ HandlingInv(w) /\ worker[w].job \in Jobs /\ instant \in BOOLEAN
  BY <1>1, <1>2, Handling DEF WorkerStates
<1>4. s \in Snapshots /\ s.status = "processing"
  BY <1>3 DEF Snapshot, Snapshots, Statuses
<1> HIDE DEF s
<1>5. PICK j \in Jobs : j = worker[w].job
  BY <1>3
<1>6. /\ BackendsTypeOK' /\ QueueTypeOK' /\ SubmissionTypeOK' /\ Grows
      /\ \A i \in Jobs : JobInv(i)'
  BY <1>2, <1>4, <1>5, ShowEffect
<1>7. to \in PipelinePcs
  BY <1>1 DEF PipelinePcs
<1>8. /\ WorkerTypeOK' /\ worker'[w].pc = to /\ worker'[w].job = worker[w].job
      /\ worker'[w].receive = worker[w].receive /\ worker'[w].commit = worker[w].commit
      /\ \A v \in Workers \ {w} : worker'[v] = worker[v]
  BY <1>2, <1>3, <1>7, GotoEffect DEF TypeOK
<1>9. HandlingInv(w)'
  BY <1>1, <1>2, <1>3, <1>8 DEF HandlingInv, FetchedPcs, MarkPcs
<1>10. TypeOK'
  BY <1>6, <1>8 DEF TypeOK
<1> QED BY <1>2, <1>6, <1>8, <1>9, <1>10, WorkerStepCloses

\* The pipeline keeps the invariant when it shows completed: its report is saved.
LEMMA ShowCompletedStep ==
  ASSUME IInv, NEW w \in Workers, ShowCompleted(w), UNCHANGED submission
  PROVE  IInv'
<1> DEFINE s == [Snapshot("completed", TRUE) EXCEPT !.fallback = FallbackFlag(worker[w].reason)]
<1>1. /\ worker[w].pc = "show_completed" /\ Leave(w, "ack") /\ SetState(worker[w].job, s)
      /\ UNCHANGED <<record, report, aiCache, head, message>>
  BY DEF ShowCompleted
<1>2. TypeOK /\ HandlingInv(w) /\ worker[w].job \in Jobs /\ report[worker[w].job] # None
  BY <1>1, Handling DEF HandlingInv
<1>3. s \in Snapshots /\ s.status = "completed"
  BY DEF Snapshot, Snapshots, Statuses, FallbackFlag
<1> HIDE DEF s
<1>4. PICK j \in Jobs : j = worker[w].job
  BY <1>2
<1>5. /\ BackendsTypeOK' /\ QueueTypeOK' /\ SubmissionTypeOK' /\ Grows
      /\ \A i \in Jobs : JobInv(i)'
  BY <1>1, <1>2, <1>3, <1>4, ShowEffect
<1>6. "ack" \in HandlerPcs
  BY DEF HandlerPcs
<1>7. /\ WorkerTypeOK' /\ worker'[w].pc = "ack" /\ worker'[w].job = worker[w].job
      /\ worker'[w].receive = worker[w].receive
      /\ \A v \in Workers \ {w} : worker'[v] = worker[v]
  BY <1>1, <1>2, <1>6, LeaveEffect DEF TypeOK
<1>8. HandlingInv(w)'
  BY <1>1, <1>2, <1>7 DEF HandlingInv, FetchedPcs, MarkPcs
<1>9. TypeOK'
  BY <1>5, <1>7 DEF TypeOK
<1> QED BY <1>1, <1>5, <1>7, <1>8, <1>9, WorkerStepCloses

\* run_worker keeps the invariant when it shows failed: this is the last attempt.
LEMMA ShowFailedStep ==
  ASSUME IInv, NEW w \in Workers, ShowFailed(w), UNCHANGED submission
  PROVE  IInv'
<1> DEFINE s == Snapshot("failed", FALSE)
<1>1. /\ Goto(w, "show_failed", "release") /\ SetState(worker[w].job, s)
      /\ UNCHANGED <<record, report, aiCache, head, message>>
      /\ worker[w].pc = "show_failed"
  BY DEF ShowFailed, Goto
<1>2. /\ TypeOK /\ HandlingInv(w) /\ worker[w].job \in Jobs
      /\ message[worker[w].job].receives = MaxReceives
  BY <1>1, Handling, MaxReceivesAssumption DEF HandlingInv
<1>3. s \in Snapshots /\ s.status = "failed"
  BY DEF Snapshot, Snapshots, Statuses
<1> HIDE DEF s
<1>4. PICK j \in Jobs : j = worker[w].job
  BY <1>2
<1>5. /\ BackendsTypeOK' /\ QueueTypeOK' /\ SubmissionTypeOK' /\ Grows
      /\ \A i \in Jobs : JobInv(i)'
  BY <1>1, <1>2, <1>3, <1>4, ShowEffect
<1>6. "release" \in HandlerPcs
  BY DEF HandlerPcs
<1>7. /\ WorkerTypeOK' /\ worker'[w].pc = "release" /\ worker'[w].job = worker[w].job
      /\ worker'[w].receive = worker[w].receive
      /\ \A v \in Workers \ {w} : worker'[v] = worker[v]
  BY <1>1, <1>2, <1>6, GotoEffect DEF TypeOK
<1>8. HandlingInv(w)'
  BY <1>1, <1>2, <1>7 DEF HandlingInv, FetchedPcs, MarkPcs
<1>9. TypeOK'
  BY <1>5, <1>7 DEF TypeOK
<1> QED BY <1>1, <1>5, <1>7, <1>8, <1>9, WorkerStepCloses

\* The pipeline keeps the invariant when it marks the row processing, which may
\* be the row of a job another delivery has completed.
LEMMA MarkProcessingStep ==
  ASSUME IInv, NEW w \in Workers, MarkProcessing(w), UNCHANGED submission
  PROVE  IInv'
<1> DEFINE wanted == [worker[w].loaded EXCEPT !.status = "processing", !.error = FALSE]
<1>1. /\ Goto(w, "mark_processing", "fetch") /\ CommitRow(w, wanted)
      /\ worker[w].pc = "mark_processing"
  BY DEF MarkProcessing, Goto
<1>2. TypeOK /\ HandlingInv(w) /\ worker[w].job \in Jobs /\ worker[w].loaded \in Rows
  BY <1>1, Handling DEF HandlingInv, MarkPcs
<1>3. wanted \in Rows /\ wanted.status = "processing"
  BY <1>2 DEF Rows, Statuses
<1> HIDE DEF wanted
<1>4. PICK j \in Jobs : j = worker[w].job
  BY <1>2
<1>5. /\ BackendsTypeOK' /\ QueueTypeOK' /\ SubmissionTypeOK' /\ Grows
      /\ UNCHANGED <<report, message>> /\ \A i \in Jobs : JobInv(i)'
  BY <1>1, <1>3, <1>4, CommitRowEffect DEF MarkPcs
<1>6. "fetch" \in PipelinePcs
  BY DEF PipelinePcs
<1>7. /\ WorkerTypeOK' /\ worker'[w].pc = "fetch" /\ worker'[w].job = worker[w].job
      /\ worker'[w].receive = worker[w].receive /\ worker'[w].commit = worker[w].commit
      /\ \A v \in Workers \ {w} : worker'[v] = worker[v]
  BY <1>1, <1>2, <1>6, GotoEffect DEF TypeOK
<1>8. HandlingInv(w)'
  BY <1>1, <1>2, <1>5, <1>7 DEF HandlingInv, FetchedPcs, MarkPcs
<1>9. TypeOK'
  BY <1>5, <1>7 DEF TypeOK
<1> QED BY <1>5, <1>7, <1>8, <1>9, WorkerStepCloses

\* The pipeline keeps the invariant when it writes commit_sha and ai_cache_key:
\* the status column is not assigned and keeps what is stored.
LEMMA MarkPreparingStep ==
  ASSUME IInv, NEW w \in Workers, MarkPreparing(w), UNCHANGED submission
  PROVE  IInv'
<1> DEFINE wanted == [worker[w].loaded EXCEPT !.commit = worker[w].commit,
                                              !.key = worker[w].commit]
<1>1. /\ Goto(w, "mark_preparing", "lookup") /\ CommitRow(w, wanted)
      /\ worker[w].pc = "mark_preparing"
  BY DEF MarkPreparing, Goto
<1>2. /\ TypeOK /\ HandlingInv(w) /\ worker[w].job \in Jobs /\ worker[w].loaded \in Rows
      /\ worker[w].commit \in Commits
  BY <1>1, Handling DEF HandlingInv, MarkPcs, FetchedPcs
<1>3. wanted \in Rows /\ wanted.status = worker[w].loaded.status
  BY <1>2 DEF Rows, Statuses
<1> HIDE DEF wanted
<1>4. PICK j \in Jobs : j = worker[w].job
  BY <1>2
<1>5. /\ BackendsTypeOK' /\ QueueTypeOK' /\ SubmissionTypeOK' /\ Grows
      /\ UNCHANGED <<report, message>> /\ \A i \in Jobs : JobInv(i)'
  BY <1>1, <1>3, <1>4, CommitRowEffect DEF MarkPcs
<1>6. "lookup" \in PipelinePcs
  BY DEF PipelinePcs
<1>7. /\ WorkerTypeOK' /\ worker'[w].pc = "lookup" /\ worker'[w].job = worker[w].job
      /\ worker'[w].receive = worker[w].receive /\ worker'[w].commit = worker[w].commit
      /\ \A v \in Workers \ {w} : worker'[v] = worker[v]
  BY <1>1, <1>2, <1>6, GotoEffect DEF TypeOK
<1>8. HandlingInv(w)'
  BY <1>1, <1>2, <1>5, <1>7 DEF HandlingInv, FetchedPcs, MarkPcs
<1>9. TypeOK'
  BY <1>5, <1>7 DEF TypeOK
<1> QED BY <1>5, <1>7, <1>8, <1>9, WorkerStepCloses

\* The pipeline keeps the invariant when it marks the row completed: its report
\* is saved.
LEMMA MarkCompletedStep ==
  ASSUME IInv, NEW w \in Workers, MarkCompleted(w), UNCHANGED submission
  PROVE  IInv'
<1> DEFINE wanted == [worker[w].loaded EXCEPT !.status = "completed", !.error = FALSE,
                                              !.key = worker[w].commit]
<1>1. /\ Goto(w, "mark_completed", "show_completed") /\ CommitRow(w, wanted)
      /\ worker[w].pc = "mark_completed"
  BY DEF MarkCompleted, Goto
<1>2. /\ TypeOK /\ HandlingInv(w) /\ worker[w].job \in Jobs /\ worker[w].loaded \in Rows
      /\ worker[w].commit \in Commits /\ report[worker[w].job] # None
  BY <1>1, Handling DEF HandlingInv, MarkPcs, FetchedPcs
<1>3. wanted \in Rows /\ wanted.status = "completed"
  BY <1>2 DEF Rows, Statuses
<1> HIDE DEF wanted
<1>4. PICK j \in Jobs : j = worker[w].job
  BY <1>2
<1>5. /\ BackendsTypeOK' /\ QueueTypeOK' /\ SubmissionTypeOK' /\ Grows
      /\ UNCHANGED <<report, message>> /\ \A i \in Jobs : JobInv(i)'
  BY <1>1, <1>2, <1>3, <1>4, CommitRowEffect DEF MarkPcs
<1>6. "show_completed" \in PipelinePcs
  BY DEF PipelinePcs
<1>7. /\ WorkerTypeOK' /\ worker'[w].pc = "show_completed" /\ worker'[w].job = worker[w].job
      /\ worker'[w].receive = worker[w].receive /\ worker'[w].commit = worker[w].commit
      /\ \A v \in Workers \ {w} : worker'[v] = worker[v]
  BY <1>1, <1>2, <1>6, GotoEffect DEF TypeOK
<1>8. HandlingInv(w)'
  BY <1>1, <1>2, <1>5, <1>7 DEF HandlingInv, FetchedPcs, MarkPcs
<1>9. TypeOK'
  BY <1>5, <1>7 DEF TypeOK
<1> QED BY <1>5, <1>7, <1>8, <1>9, WorkerStepCloses

\* run_worker keeps the invariant when it marks the row failed: this is the last
\* attempt.
LEMMA MarkFailedStep ==
  ASSUME IInv, NEW w \in Workers, MarkFailed(w), UNCHANGED submission
  PROVE  IInv'
<1> DEFINE wanted == [worker[w].loaded EXCEPT !.status = "failed", !.error = TRUE]
<1>1. /\ Goto(w, "mark_failed", "show_failed") /\ CommitRow(w, wanted)
      /\ worker[w].pc = "mark_failed"
  BY DEF MarkFailed, Goto
<1>2. /\ TypeOK /\ HandlingInv(w) /\ worker[w].job \in Jobs /\ worker[w].loaded \in Rows
      /\ worker[w].receive = MaxReceives
  BY <1>1, Handling DEF HandlingInv, MarkPcs
<1>3. wanted \in Rows /\ wanted.status = "failed"
  BY <1>2 DEF Rows, Statuses
<1> HIDE DEF wanted
<1>4. PICK j \in Jobs : j = worker[w].job
  BY <1>2
<1>5. message[j].receives = MaxReceives
  BY <1>1, <1>2, <1>4, MaxReceivesAssumption DEF HandlingInv, TypeOK, QueueTypeOK
<1>6. /\ BackendsTypeOK' /\ QueueTypeOK' /\ SubmissionTypeOK' /\ Grows
      /\ UNCHANGED <<report, message>> /\ \A i \in Jobs : JobInv(i)'
  BY <1>1, <1>3, <1>4, <1>5, CommitRowEffect DEF MarkPcs
<1>7. "show_failed" \in HandlerPcs
  BY DEF HandlerPcs
<1>8. /\ WorkerTypeOK' /\ worker'[w].pc = "show_failed" /\ worker'[w].job = worker[w].job
      /\ worker'[w].receive = worker[w].receive
      /\ \A v \in Workers \ {w} : worker'[v] = worker[v]
  BY <1>1, <1>2, <1>7, GotoEffect DEF TypeOK
<1>9. HandlingInv(w)'
  BY <1>1, <1>2, <1>6, <1>8 DEF HandlingInv, FetchedPcs, MarkPcs
<1>10. TypeOK'
  BY <1>6, <1>8 DEF TypeOK
<1> QED BY <1>6, <1>8, <1>9, <1>10, WorkerStepCloses

\* The pipeline keeps the invariant when it caches the insights.
LEMMA StoreInsightsStep ==
  ASSUME IInv, NEW w \in Workers, StoreInsights(w), UNCHANGED submission
  PROVE  IInv'
<1>1. /\ Goto(w, "store_insights", "load_report") /\ worker[w].pc = "store_insights"
      /\ aiCache' = [aiCache EXCEPT ![worker[w].commit] = worker[w].insights]
      /\ UNCHANGED <<record, report, snap, head, message>>
  BY DEF StoreInsights, SetInsights, Goto
<1>2. /\ TypeOK /\ HandlingInv(w) /\ worker[w].insights \in Commits \cup {None}
  BY <1>1, Handling DEF WorkerStates
<1>3. BackendsTypeOK' /\ QueueTypeOK' /\ SubmissionTypeOK'
  BY <1>1, <1>2 DEF TypeOK, BackendsTypeOK, QueueTypeOK, SubmissionTypeOK
<1>4. Grows
  BY <1>1, <1>2, MaxReceivesAssumption DEF TypeOK, Grows, QueueTypeOK
<1>5. \A i \in Jobs : JobInv(i)'
  BY <1>1, JobKept DEF IInv
<1>6. "load_report" \in PipelinePcs
  BY DEF PipelinePcs
<1>7. /\ WorkerTypeOK' /\ worker'[w].pc = "load_report" /\ worker'[w].job = worker[w].job
      /\ worker'[w].receive = worker[w].receive /\ worker'[w].commit = worker[w].commit
      /\ \A v \in Workers \ {w} : worker'[v] = worker[v]
  BY <1>1, <1>2, <1>6, GotoEffect DEF TypeOK
<1>8. HandlingInv(w)'
  BY <1>1, <1>2, <1>7 DEF HandlingInv, FetchedPcs, MarkPcs
<1>9. TypeOK'
  BY <1>3, <1>7 DEF TypeOK
<1> QED BY <1>1, <1>4, <1>5, <1>7, <1>8, <1>9, WorkerStepCloses

\* save_final_report keeps the invariant at its COMMIT, as an INSERT or an UPDATE.
LEMMA SaveReportStep ==
  ASSUME IInv, NEW w \in Workers, SaveReport(w), UNCHANGED submission
  PROVE  IInv'
<1> DEFINE wanted == [commit |-> worker[w].commit, insights |-> worker[w].insights,
                      fallback |-> FallbackFlag(worker[w].reason),
                      reason |-> worker[w].reason]
<1>1. /\ Goto(w, "save_report", "load_completed") /\ worker[w].pc = "save_report"
      /\ StoreReport(worker[w].job, worker[w].loaded, wanted)
      /\ UNCHANGED <<record, snap, aiCache, head, message>>
  BY DEF SaveReport, Goto
<1>2. /\ TypeOK /\ HandlingInv(w) /\ worker[w].job \in Jobs
      /\ worker[w].loaded \in Reports \cup {None}
      /\ worker[w].loaded # None => report[worker[w].job] # None
      /\ worker[w].commit \in Commits /\ worker[w].insights \in Commits \cup {None}
      /\ worker[w].reason \in Reasons
  BY <1>1, Handling DEF HandlingInv, FetchedPcs, WorkerStates
<1>3. wanted \in Reports
  BY <1>2 DEF Reports, FallbackFlag
<1> HIDE DEF wanted
<1>4. PICK j \in Jobs : j = worker[w].job
  BY <1>2
<1>5. /\ report' \in [Jobs -> Reports \cup {None}] /\ report'[j] \in Reports
      /\ \A i \in Jobs \ {j} : report'[i] = report[i]
  BY <1>1, <1>2, <1>3, <1>4, StoreReportEffect DEF TypeOK, BackendsTypeOK
<1>6. report'[j] # None
  BY <1>5, NoneAssumption
<1>7. BackendsTypeOK' /\ QueueTypeOK' /\ SubmissionTypeOK'
  BY <1>1, <1>2, <1>5 DEF TypeOK, BackendsTypeOK, QueueTypeOK, SubmissionTypeOK
<1>8. Grows
  BY <1>1, <1>2, <1>5, <1>6, MaxReceivesAssumption DEF TypeOK, Grows, QueueTypeOK
<1>9. ASSUME NEW i \in Jobs PROVE JobInv(i)'
  <2>1. CASE i = j
    BY <2>1, <1>1, <1>6 DEF IInv, JobInv, RowIs, ShownAs
  <2>2. CASE i # j
    BY <2>2, <1>1, <1>5, JobKept DEF IInv
  <2> QED BY <2>1, <2>2
<1>10. "load_completed" \in PipelinePcs
  BY DEF PipelinePcs
<1>11. /\ WorkerTypeOK' /\ worker'[w].pc = "load_completed" /\ worker'[w].job = worker[w].job
       /\ worker'[w].receive = worker[w].receive /\ worker'[w].commit = worker[w].commit
       /\ \A v \in Workers \ {w} : worker'[v] = worker[v]
  BY <1>1, <1>2, <1>10, GotoEffect DEF TypeOK
<1>12. HandlingInv(w)'
  BY <1>1, <1>2, <1>4, <1>6, <1>11 DEF HandlingInv, FetchedPcs, MarkPcs
<1>13. TypeOK'
  BY <1>7, <1>11 DEF TypeOK
<1> QED BY <1>1, <1>8, <1>9, <1>11, <1>12, <1>13, WorkerStepCloses

\* Raise, RaiseIntegrityError: the job is marked failed on the last attempt.
LEMMA CatchStep ==
  ASSUME IInv, NEW w \in Workers, worker[w].pc # "poll", Catch(w), UNCHANGED submission
  PROVE  IInv'
<1>1. Leave(w, OnException(w)) /\ UNCHANGED <<backends, message>>
  BY DEF Catch
<1>2. /\ TypeOK /\ HandlingInv(w) /\ worker[w].job \in Jobs
      /\ worker[w].receive \in 0..MaxReceives
  BY Handling DEF WorkerStates
<1>3. /\ OnException(w) \in {"load_failed", "release"}
      /\ OnException(w) = "load_failed" => worker[w].receive = MaxReceives
  BY <1>2, MaxReceivesAssumption DEF OnException
<1>4. OnException(w) \in HandlerPcs
  BY <1>3 DEF HandlerPcs
<1>5. PICK to \in {"load_failed", "release"} : to = OnException(w)
  BY <1>3
<1>6. /\ WorkerTypeOK' /\ worker'[w].pc = to
      /\ worker'[w].job = worker[w].job /\ worker'[w].receive = worker[w].receive
      /\ \A v \in Workers \ {w} : worker'[v] = worker[v]
  BY <1>1, <1>2, <1>4, <1>5, LeaveEffect DEF TypeOK
<1>7. HandlingInv(w)'
  BY <1>1, <1>2, <1>3, <1>5, <1>6 DEF HandlingInv, FetchedPcs, MarkPcs, backends
<1> QED BY <1>1, <1>6, <1>7, WorkerReadCloses

\* A worker that is back at the poll relies on nothing.
LEMMA PollingEffect ==
  ASSUME WorkerTypeOK, NEW w \in Workers, worker' = [worker EXCEPT ![w] = Polling]
  PROVE  /\ WorkerTypeOK' /\ HandlingInv(w)'
         /\ \A v \in Workers \ {w} : worker'[v] = worker[v]
<1>1. Polling \in WorkerStates /\ Polling.pc = "poll"
  BY MaxReceivesAssumption DEF Polling, WorkerStates, Reasons
<1> QED BY <1>1 DEF WorkerTypeOK, HandlingInv

\* A worker that dies keeps the invariant: it forgets what it had read.
LEMMA CrashStep ==
  ASSUME IInv, NEW w \in Workers, Crash(w), UNCHANGED submission
  PROVE  IInv'
BY PollingEffect, WorkerReadCloses DEF Crash, IInv, TypeOK

-----------------------------------------------------------------------------
(* The steps of the queue.                                                 *)

\* A message that was sent changes place; it is acked only with a report.
LEMMA PlaceEffect ==
  ASSUME IInv, NEW j \in Jobs, NEW place \in Places \ {"unsent"}, Move(j, place),
         message[j].place # "unsent", place = "acked" => report[j] # None,
         UNCHANGED <<submission, backends>>
  PROVE  /\ BackendsTypeOK' /\ QueueTypeOK' /\ SubmissionTypeOK' /\ Grows
         /\ \A i \in Jobs : message[i].place = "unsent" => message'[i].place = "unsent"
         /\ \A i \in Jobs : JobInv(i)'
<1>1. /\ QueueTypeOK' /\ message'[j].place = place
      /\ message'[j].receives = message[j].receives
      /\ \A i \in Jobs \ {j} : message'[i] = message[i]
  BY MoveEffect DEF IInv, TypeOK
<1>2. BackendsTypeOK' /\ SubmissionTypeOK'
  BY DEF IInv, TypeOK, BackendsTypeOK, SubmissionTypeOK, backends
<1>3. Grows
  BY <1>1, MaxReceivesAssumption DEF IInv, TypeOK, Grows, QueueTypeOK, backends
<1>4. JobInv(j)'
  BY <1>1 DEF IInv, JobInv, RowIs, ShownAs, Places, backends
<1>5. ASSUME NEW i \in Jobs, i # j PROVE JobInv(i)'
  BY <1>1, <1>5, JobKept DEF IInv, backends
<1> QED BY <1>1, <1>2, <1>3, <1>4, <1>5

\* A step that leaves the workers and the requests alone.
LEMMA QueueStepCloses ==
  ASSUME IInv, UNCHANGED <<submission, worker>>, TypeOK', Grows,
         \A j \in Jobs : message[j].place = "unsent" => message'[j].place = "unsent",
         \A j \in Jobs : JobInv(j)'
  PROVE  IInv'
<1>1. \A j \in Jobs : RequestInv(j)'
  BY RequestKept DEF IInv
<1>2. \A w \in Workers : HandlingInv(w)'
  BY HandlingKept DEF IInv, TypeOK
<1> QED BY <1>1, <1>2 DEF IInv

\* receive keeps the invariant: the receive count stays within the redrive bound
\* and comes to the worker with the message.
LEMMA WorkerReceiveStep ==
  ASSUME IInv, NEW w \in Workers, NEW j \in Jobs, WorkerReceive(w, j), UNCHANGED submission
  PROVE  IInv'
<1> DEFINE n == message[j].receives + 1
           new == [Polling EXCEPT !.pc = "peek", !.job = j, !.receive = n]
<1>1. /\ message[j].place = "ready" /\ message[j].receives < MaxReceives
      /\ message' = [message EXCEPT ![j] = [place |-> "flight", receives |-> n]]
      /\ worker' = [worker EXCEPT ![w] = new]
      /\ UNCHANGED backends
  BY DEF WorkerReceive, Receive
<1>2. TypeOK /\ message[j].receives \in 0..MaxReceives
  BY DEF IInv, TypeOK, QueueTypeOK
<1>3. n \in 0..MaxReceives /\ message[j].receives <= n
  BY <1>1, <1>2, MaxReceivesAssumption
<1> HIDE DEF n
<1>4. new \in WorkerStates /\ new.pc = "peek" /\ new.job = j /\ new.receive = n
  BY <1>3, MaxReceivesAssumption DEF Polling, WorkerStates, PipelinePcs, Reasons
<1> HIDE DEF new
<1>5. /\ WorkerTypeOK' /\ worker'[w] = new /\ \A v \in Workers \ {w} : worker'[v] = worker[v]
  BY <1>1, <1>2, <1>4 DEF TypeOK, WorkerTypeOK
<1>6. /\ QueueTypeOK' /\ message'[j].place = "flight" /\ message'[j].receives = n
      /\ \A i \in Jobs \ {j} : message'[i] = message[i]
  BY <1>1, <1>2, <1>3 DEF TypeOK, QueueTypeOK, Places
<1>7. TypeOK'
  BY <1>1, <1>2, <1>5, <1>6 DEF TypeOK, BackendsTypeOK, SubmissionTypeOK, backends
<1>8. Grows
  BY <1>1, <1>2, <1>3, <1>6, MaxReceivesAssumption DEF TypeOK, Grows, QueueTypeOK, backends
<1>9. ASSUME NEW i \in Jobs PROVE JobInv(i)'
  <2>1. CASE i = j
    BY <2>1, <1>1, <1>2, <1>3, <1>6, MaxReceivesAssumption
       DEF IInv, JobInv, RowIs, ShownAs, backends
  <2>2. CASE i # j
    BY <2>2, <1>1, <1>6, JobKept DEF IInv, backends
  <2> QED BY <2>1, <2>2
<1>10. HandlingInv(w)'
  BY <1>3, <1>4, <1>5, <1>6, MaxReceivesAssumption DEF HandlingInv, FetchedPcs, MarkPcs
<1> QED BY <1>1, <1>5, <1>6, <1>7, <1>8, <1>9, <1>10, WorkerStepCloses

\* The redrive policy keeps the invariant when it buries a message.
LEMMA WorkerRedriveStep ==
  ASSUME IInv, NEW w \in Workers, NEW j \in Jobs, WorkerRedrive(w, j), UNCHANGED submission
  PROVE  IInv'
<1>1. message[j].place = "ready" /\ Move(j, "dead") /\ UNCHANGED <<worker, backends>>
  BY DEF WorkerRedrive, Redrive
<1>2. /\ BackendsTypeOK' /\ QueueTypeOK' /\ SubmissionTypeOK' /\ Grows
      /\ \A i \in Jobs : message[i].place = "unsent" => message'[i].place = "unsent"
      /\ \A i \in Jobs : JobInv(i)'
  BY <1>1, PlaceEffect DEF Places
<1>3. TypeOK'
  BY <1>1, <1>2 DEF TypeOK, WorkerTypeOK, IInv
<1> QED BY <1>1, <1>2, <1>3, QueueStepCloses

\* The visibility timeout keeps the invariant, whoever works on the message.
LEMMA VisibilityTimeoutStep ==
  ASSUME IInv, NEW j \in Jobs, VisibilityTimeout(j), UNCHANGED submission
  PROVE  IInv'
<1>1. message[j].place = "flight" /\ Move(j, "ready") /\ UNCHANGED <<worker, backends>>
  BY DEF VisibilityTimeout, Reappear
<1>2. /\ BackendsTypeOK' /\ QueueTypeOK' /\ SubmissionTypeOK' /\ Grows
      /\ \A i \in Jobs : message[i].place = "unsent" => message'[i].place = "unsent"
      /\ \A i \in Jobs : JobInv(i)'
  BY <1>1, PlaceEffect DEF Places
<1>3. TypeOK'
  BY <1>1, <1>2 DEF TypeOK, WorkerTypeOK, IInv
<1> QED BY <1>1, <1>2, <1>3, QueueStepCloses

\* Release and Ack: the worker returns to the poll, and its call moved the
\* message to the place given or did nothing.
LEMMA HandBackStep ==
  ASSUME IInv, NEW w \in Workers, worker[w].pc # "poll",
         NEW place \in Places \ {"unsent"},
         place = "acked" => report[worker[w].job] # None,
         worker' = [worker EXCEPT ![w] = Polling],
         Move(worker[w].job, place) \/ UNCHANGED message,
         UNCHANGED <<submission, backends>>
  PROVE  IInv'
<1>1. TypeOK /\ HandlingInv(w) /\ worker[w].job \in Jobs
  BY Handling
<1>2. /\ WorkerTypeOK' /\ HandlingInv(w)'
      /\ \A v \in Workers \ {w} : worker'[v] = worker[v]
  BY <1>1, PollingEffect DEF TypeOK
<1>3. CASE UNCHANGED message
  BY <1>2, <1>3, WorkerReadCloses
<1>4. CASE Move(worker[w].job, place)
  <2>1. PICK j \in Jobs : j = worker[w].job
    BY <1>1
  <2>2. /\ BackendsTypeOK' /\ QueueTypeOK' /\ SubmissionTypeOK' /\ Grows
        /\ \A i \in Jobs : message[i].place = "unsent" => message'[i].place = "unsent"
        /\ \A i \in Jobs : JobInv(i)'
    BY <1>1, <1>4, <2>1, PlaceEffect DEF HandlingInv
  <2>3. TypeOK'
    BY <1>2, <2>2 DEF TypeOK
  <2> QED BY <1>2, <2>2, <2>3, WorkerStepCloses
<1> QED BY <1>3, <1>4

\* change_visibility keeps the invariant, also with a stale handle.
LEMMA ReleaseStep ==
  ASSUME IInv, NEW w \in Workers, Release(w), UNCHANGED submission
  PROVE  IInv'
<1>1. /\ worker[w].pc # "poll" /\ worker' = [worker EXCEPT ![w] = Polling]
      /\ Move(worker[w].job, "ready") \/ UNCHANGED message
      /\ UNCHANGED backends
  BY DEF Release, MakeVisible
<1>2. "ready" \in Places \ {"unsent"} /\ "ready" # "acked"
  BY DEF Places
<1>3. UNCHANGED <<submission, backends>>
  BY <1>1
<1> QED BY <1>1, <1>2, <1>3, HandBackStep

\* delete keeps the invariant, also with a stale handle: it follows a pipeline
\* that saved the report.
LEMMA AckStep ==
  ASSUME IInv, NEW w \in Workers, Ack(w), UNCHANGED submission
  PROVE  IInv'
<1>1. /\ worker[w].pc = "ack" /\ worker' = [worker EXCEPT ![w] = Polling]
      /\ Move(worker[w].job, "acked") \/ UNCHANGED message
      /\ UNCHANGED backends
  BY DEF Ack, Delete
<1>2. report[worker[w].job] # None
  BY <1>1, Handling DEF HandlingInv
<1> QED BY <1>1, <1>2, HandBackStep DEF Places

-----------------------------------------------------------------------------
(* The steps of the environment.                                           *)

\* The expiry of a snapshot keeps the invariant.
LEMMA ExpireStateStep ==
  ASSUME IInv, NEW j \in Jobs, ExpireState(j), UNCHANGED <<submission, worker, message>>
  PROVE  IInv'
<1>1. SetState(j, None) /\ UNCHANGED <<record, report, aiCache, head>>
  BY DEF ExpireState
<1>2. /\ snap' \in [Jobs -> Snapshots \cup {None}] /\ snap'[j] = None
      /\ \A i \in Jobs \ {j} : snap'[i] = snap[i]
  BY <1>1, SetStateEffect DEF IInv, TypeOK, BackendsTypeOK
<1>3. TypeOK'
  BY <1>1, <1>2 DEF IInv, TypeOK, BackendsTypeOK, QueueTypeOK, SubmissionTypeOK, WorkerTypeOK
<1>4. Grows
  BY <1>1, MaxReceivesAssumption DEF IInv, TypeOK, Grows, QueueTypeOK
<1>5. ASSUME NEW i \in Jobs PROVE JobInv(i)'
  <2>1. CASE i = j
    BY <2>1, <1>1, <1>2 DEF IInv, JobInv, RowIs, ShownAs
  <2>2. CASE i # j
    BY <2>2, <1>1, <1>2, JobKept DEF IInv
  <2> QED BY <2>1, <2>2
<1> QED BY <1>3, <1>4, <1>5, QueueStepCloses

\* ExpireInsights and Push: no job, request or worker is touched.
LEMMA CacheAndHeadStep ==
  ASSUME IInv, UNCHANGED <<submission, worker, message, record, report, snap>>,
         aiCache' \in [Commits -> Commits \cup {None}], head' \in Commits
  PROVE  IInv'
<1>1. TypeOK'
  BY DEF IInv, TypeOK, BackendsTypeOK, QueueTypeOK, SubmissionTypeOK, WorkerTypeOK
<1>2. Grows
  BY MaxReceivesAssumption DEF IInv, TypeOK, Grows, QueueTypeOK
<1>3. \A i \in Jobs : JobInv(i)'
  BY JobKept DEF IInv
<1> QED BY <1>1, <1>2, <1>3, QueueStepCloses

\* Expiring keys and pushes keep the invariant.
LEMMA EnvironmentStep ==
  ASSUME IInv, Environment, UNCHANGED <<submission, worker, message>>
  PROVE  IInv'
<1>1. CASE \E j \in Jobs : ExpireState(j)
  BY <1>1, ExpireStateStep
<1>2. CASE \E c \in Commits : ExpireInsights(c)
  BY <1>2, CacheAndHeadStep
     DEF ExpireInsights, SetInsights, IInv, TypeOK, BackendsTypeOK
<1>3. CASE \E c \in Commits : Push(c)
  BY <1>3, CacheAndHeadStep DEF Push, IInv, TypeOK, BackendsTypeOK
<1> QED BY <1>1, <1>2, <1>3 DEF Environment

-----------------------------------------------------------------------------
\* Every step of a worker that holds a message keeps the invariant.
LEMMA PipelineStepPreserves ==
  ASSUME IInv, NEW w \in Workers, PipelineStep(w), UNCHANGED submission
  PROVE  IInv'
<1>1. CASE \/ Peek(w) \/ ShowProcessing(w) \/ LoadRow(w) \/ MarkProcessing(w) \/ Fetch(w)
  BY <1>1, PeekStep, ShowProcessingStep, LoadRowStep, MarkProcessingStep, FetchStep
<1>2. CASE \/ MarkPreparing(w) \/ Lookup(w) \/ AnalyzeSucceeds(w) \/ AnalyzeFallsBack(w)
           \/ StoreInsights(w)
  BY <1>2, MarkPreparingStep, LookupStep, AnalyzeStep, StoreInsightsStep
<1>3. CASE \/ LoadReport(w) \/ SaveReport(w) \/ MarkCompleted(w) \/ ShowCompleted(w)
  BY <1>3, LoadReportStep, SaveReportStep, MarkCompletedStep, ShowCompletedStep
<1>4. CASE RaiseIntegrityError(w)
  BY <1>4, CatchStep DEF RaiseIntegrityError
<1>5. CASE \/ MarkFailed(w) \/ ShowFailed(w) \/ Release(w) \/ Ack(w)
  BY <1>5, MarkFailedStep, ShowFailedStep, ReleaseStep, AckStep
<1> QED BY <1>1, <1>2, <1>3, <1>4, <1>5 DEF PipelineStep

\* Every step of the system keeps the invariant.
LEMMA NextPreserves ==
  ASSUME IInv, [Next]_vars
  PROVE  IInv'
<1>1. CASE \E j \in Jobs : SubmissionStep(j) /\ UNCHANGED worker
  BY <1>1, SubmissionStepPreserves
<1>2. CASE \E w \in Workers : PollStep(w) /\ UNCHANGED submission
  BY <1>2, WorkerReceiveStep, WorkerRedriveStep DEF PollStep
<1>3. CASE \E w \in Workers : PipelineStep(w) /\ UNCHANGED submission
  BY <1>3, PipelineStepPreserves
<1>4. CASE \E w \in Workers : Raise(w) /\ UNCHANGED submission
  BY <1>4, CatchStep DEF Raise, PipelinePcs
<1>5. CASE \E w \in Workers : Crash(w) /\ UNCHANGED submission
  BY <1>5, CrashStep
<1>6. CASE \E j \in Jobs : VisibilityTimeout(j) /\ UNCHANGED submission
  BY <1>6, VisibilityTimeoutStep
<1>7. CASE Environment /\ UNCHANGED <<submission, worker, message>>
  BY <1>7, EnvironmentStep
<1>8. CASE UNCHANGED vars
  BY <1>8, CacheAndHeadStep DEF vars, backends, IInv, TypeOK, BackendsTypeOK
<1> QED BY <1>1, <1>2, <1>3, <1>4, <1>5, <1>6, <1>7, <1>8 DEF Next

-----------------------------------------------------------------------------
\* The inductive invariant holds in every state of every behaviour.
THEOREM Invariance == Spec => []IInv
<1>1. Init => IInv
  BY InitEstablishes
<1>2. IInv /\ [Next]_vars => IInv'
  BY NextPreserves
<1> QED BY <1>1, <1>2, PTL DEF Spec

\* Every variable keeps its type: no step writes a row, report or snapshot
\* that the table or key could not hold, and no receive exceeds the bound.
THEOREM TypeCorrect == Spec => []TypeOK
<1>1. IInv => TypeOK
  BY DEF IInv
<1> QED BY <1>1, Invariance, PTL

\* A completed job has a report, for any number of overlapping workers.
THEOREM CompletedJobsHaveReports == Spec => []CompletedHasReport
<1>1. IInv => CompletedHasReport
  BY DEF IInv, JobInv, CompletedHasReport
<1> QED BY <1>1, Invariance, PTL

\* An accepted job without a report is in the queue, in flight or in the DLQ.
THEOREM AcceptedJobsAreNotLost == Spec => []NoJobLost
<1>1. IInv => NoJobLost
  BY DEF IInv, JobInv, NoJobLost, Accepted
<1> QED BY <1>1, Invariance, PTL

\* An accepted job is failed only when no delivery of its message is left.
THEOREM FailureIsFinal == Spec => []FailedOnlyAfterLastAttempt
<1>1. IInv => FailedOnlyAfterLastAttempt
  BY DEF IInv, JobInv, FailedOnlyAfterLastAttempt, Accepted, UndoPcs
<1> QED BY <1>1, Invariance, PTL
=============================================================================
