------------------------------ MODULE JobLedger -----------------------------
(***************************************************************************)
(* What the job system promises to a client, without saying how: a ledger  *)
(* of at-least-once work.  A request is accepted or refused; the work of a *)
(* job is opened when its message exists, and is closed only after the     *)
(* report was produced, or buried in the dead-letter queue.                *)
(***************************************************************************)
CONSTANT Jobs

VARIABLES client,    \* what the submitter of the job was told
          work,      \* the job's work item
          reported   \* whether the report exists

ledger == <<client, work, reported>>

LedgerTypeOK ==
  /\ client \in [Jobs -> {"waiting", "accepted", "refused"}]
  /\ work \in [Jobs -> {"none", "open", "closed", "buried"}]
  /\ reported \in [Jobs -> BOOLEAN]

LedgerInit ==
  /\ client = [j \in Jobs |-> "waiting"]
  /\ work = [j \in Jobs |-> "none"]
  /\ reported = [j \in Jobs |-> FALSE]

Reply(j, answer) ==
  /\ client[j] = "waiting"
  /\ client' = [client EXCEPT ![j] = answer]

\* The work item appears; the client may be told in the same step.
Open(j) ==
  /\ client[j] = "waiting"
  /\ work[j] = "none"
  /\ work' = [work EXCEPT ![j] = "open"]
  /\ Reply(j, "accepted") \/ UNCHANGED client
  /\ UNCHANGED reported

\* Without a work item only a job that already has its report is accepted.
AcceptReported(j) ==
  /\ reported[j]
  /\ Reply(j, "accepted")
  /\ UNCHANGED <<work, reported>>

Refuse(j) ==
  /\ Reply(j, "refused")
  /\ UNCHANGED <<work, reported>>

\* By a worker, or by the request itself while its client waits.
Produce(j) ==
  /\ client[j] = "waiting" \/ work[j] # "none"
  /\ reported' = [reported EXCEPT ![j] = TRUE]
  /\ UNCHANGED <<client, work>>

Close(j) ==
  /\ work[j] = "open"
  /\ reported[j]
  /\ work' = [work EXCEPT ![j] = "closed"]
  /\ UNCHANGED <<client, reported>>

Bury(j) ==
  /\ work[j] = "open"
  /\ work' = [work EXCEPT ![j] = "buried"]
  /\ UNCHANGED <<client, reported>>

LedgerNext ==
  \E j \in Jobs : \/ Open(j)
                  \/ AcceptReported(j)
                  \/ Refuse(j)
                  \/ Produce(j)
                  \/ Close(j)
                  \/ Bury(j)

LedgerSpec == LedgerInit /\ [][LedgerNext]_ledger

\* Open work does not stay open for ever.
LedgerFairness == \A j \in Jobs : WF_ledger(Close(j) \/ Bury(j))

LiveLedgerSpec == LedgerSpec /\ LedgerFairness
=============================================================================
