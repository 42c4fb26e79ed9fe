------------------------- MODULE ResearchSubmission -------------------------
(***************************************************************************)
(* ResearchOrchestrationService.submit, one request per job: every awaited *)
(* call is an action.  Until the message is sent or the response leaves    *)
(* nobody else knows the job id, so that the SELECT and the COMMIT of a    *)
(* crud call may be one action there; after a send that raised they are    *)
(* two, because a worker may hold the job.                                 *)
(***************************************************************************)
EXTENDS ResearchQueue

VARIABLE submission

SubmissionPcs == {"fetch", "create", "seed", "lookup",
                  "save", "complete", "show_completed",
                  "send", "load_failed", "mark_failed", "show_failed",
                  "accepted", "refused"}

SubmissionTypeOK ==
  submission \in [Jobs -> [pc : SubmissionPcs, commit : Commits \cup {None},
                           insights : Commits \cup {None}, loaded : Rows \cup {None}]]

NewRequest == [pc |-> "fetch", commit |-> None, insights |-> None, loaded |-> None]

SubmissionInit == submission = [j \in Jobs |-> NewRequest]

submitVars == <<submission, backends, message>>

\* The request for job j goes from one call to the next.
SubmitGoto(j, from, to) ==
  /\ submission[j].pc = from
  /\ submission' = [submission EXCEPT ![j].pc = to]

\* The request ends: 202 with the job id, or a problem response.
Respond(j, response) ==
  submission' = [submission EXCEPT ![j] = [NewRequest EXCEPT !.pc = response]]

SubmitFetch(j) ==
  /\ submission[j].pc = "fetch"
  /\ submission' = [submission EXCEPT ![j].pc = "create", ![j].commit = head]
  /\ UNCHANGED <<backends, message>>

SubmitCreate(j) ==
  /\ SubmitGoto(j, "create", "seed")
  /\ CreateRow(j, submission[j].commit)
  /\ UNCHANGED <<report, snap, aiCache, head, message>>

SubmitSeed(j) ==
  /\ SubmitGoto(j, "seed", "lookup")
  /\ SetState(j, Snapshot("pending", TRUE))
  /\ UNCHANGED <<record, report, aiCache, head, message>>

SubmitLookup(j) ==
  LET cached == aiCache[submission[j].commit] IN
  /\ submission[j].pc = "lookup"
  /\ submission' = [submission EXCEPT ![j].pc = IF cached = None THEN "send" ELSE "save",
                                      ![j].insights = cached]
  /\ UNCHANGED <<backends, message>>

SubmitSave(j) ==
  /\ SubmitGoto(j, "save", "complete")
  /\ StoreReport(j, report[j], [commit |-> submission[j].commit,
                                insights |-> submission[j].insights,
                                fallback |-> FALSE, reason |-> "none"])
  /\ UNCHANGED <<record, snap, aiCache, head, message>>

SubmitComplete(j) ==
  /\ SubmitGoto(j, "complete", "show_completed")
  /\ UpdateRow(j, record[j], [record[j] EXCEPT !.status = "completed"])
  /\ UNCHANGED <<report, snap, aiCache, head, message>>

SubmitShowCompleted(j) ==
  /\ submission[j].pc = "show_completed"
  /\ Respond(j, "accepted")
  /\ SetState(j, Snapshot("completed", TRUE))
  /\ UNCHANGED <<record, report, aiCache, head, message>>

SubmitSend(j) ==
  /\ submission[j].pc = "send"
  /\ Respond(j, "accepted")
  /\ Send(j)
  /\ UNCHANGED backends

\* Mutant: the exception of send is logged and the client gets its job id.
SubmitSendIgnored(j) ==
  /\ "raise" \in Faults
  /\ submission[j].pc = "send"
  /\ Respond(j, "accepted")
  /\ Send(j) \/ UNCHANGED message
  /\ UNCHANGED backends

\* send raises: the message may or may not have reached the queue.
SubmitSendRaises(j) ==
  /\ "raise" \in Faults
  /\ SubmitGoto(j, "send", "load_failed")
  /\ Send(j) \/ UNCHANGED message
  /\ UNCHANGED backends

SubmitLoadFailed(j) ==
  /\ submission[j].pc = "load_failed"
  /\ submission' = [submission EXCEPT ![j].pc = "mark_failed", ![j].loaded = record[j]]
  /\ UNCHANGED <<backends, message>>

SubmitMarkFailed(j) ==
  LET loaded == submission[j].loaded IN
  /\ SubmitGoto(j, "mark_failed", "show_failed")
  /\ UpdateRow(j, loaded, [loaded EXCEPT !.status = "failed", !.error = TRUE])
  /\ UNCHANGED <<report, snap, aiCache, head, message>>

SubmitShowFailed(j) ==
  /\ submission[j].pc = "show_failed"
  /\ Respond(j, "refused")
  /\ SetState(j, Snapshot("failed", TRUE))
  /\ UNCHANGED <<record, report, aiCache, head, message>>

\* Any call raises outside the try block of send, or the API process dies:
\* the client gets no job id and what was written stays.
SubmitAbandon(j) ==
  /\ {"raise", "crash"} \cap Faults # {}
  /\ submission[j].pc \notin {"accepted", "refused"}
  /\ Respond(j, "refused")
  /\ UNCHANGED <<backends, message>>

SubmissionStep(j) ==
  \/ SubmitFetch(j)
  \/ SubmitCreate(j)
  \/ SubmitSeed(j)
  \/ SubmitLookup(j)
  \/ SubmitSave(j)
  \/ SubmitComplete(j)
  \/ SubmitShowCompleted(j)
  \/ SubmitSend(j)
  \/ SubmitSendRaises(j)
  \/ SubmitLoadFailed(j)
  \/ SubmitMarkFailed(j)
  \/ SubmitShowFailed(j)
  \/ SubmitAbandon(j)
=============================================================================
