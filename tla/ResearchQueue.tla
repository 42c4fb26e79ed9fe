--------------------------- MODULE ResearchQueue ----------------------------
(***************************************************************************)
(* The SQS queue and its dead-letter queue behind sqs_adapter.py.          *)
(*                                                                         *)
(* submit sends at most one message per job, so a job names its message.   *)
(* The receipt handle of a delivery is represented by the receive count    *)
(* that came with it (ApproximateReceiveCount): a later delivery has a     *)
(* larger one, and makes the earlier handles stale.                        *)
(***************************************************************************)
EXTENDS ResearchBackends

CONSTANT MaxReceives  \* RESEARCH_MAX_QUEUE_ATTEMPTS: the worker's bound on
                      \* attempts and the redrive policy's maxReceiveCount

ASSUME MaxReceivesAssumption == MaxReceives \in Nat \ {0}

VARIABLE message

Places == {"unsent", "ready", "flight", "acked", "dead"}

QueueTypeOK == message \in [Jobs -> [place : Places, receives : 0..MaxReceives]]

QueueInit == message = [j \in Jobs |-> [place |-> "unsent", receives |-> 0]]

InQueue(j) == message[j].place \in {"ready", "flight"}

\* Whether the handle is the one of the last delivery of a message that is
\* still in the queue.
Current(j, handle) == InQueue(j) /\ message[j].receives = handle

Move(j, place) == message' = [message EXCEPT ![j].place = place]

Send(j) == message[j].place = "unsent" /\ Move(j, "ready")

\* Mutant: a queue without a redrive policy delivers for ever.
UnboundedReceive(j) ==
  /\ message[j].place = "ready"
  /\ message' = [message EXCEPT ![j] = [place |-> "flight", receives |-> @.receives + 1]]

Receive(j) ==
  /\ message[j].place = "ready"
  /\ message[j].receives < MaxReceives
  /\ message' = [message EXCEPT ![j] = [place |-> "flight", receives |-> @.receives + 1]]

\* Mutant: the redrive policy allows one receive more than the worker.
LateRedrive(j) ==
  /\ message[j].place = "ready"
  /\ message[j].receives > MaxReceives
  /\ Move(j, "dead")

\* A poll that finds a message received maxReceiveCount times moves it to
\* the dead-letter queue instead of delivering it.
Redrive(j) ==
  /\ message[j].place = "ready"
  /\ message[j].receives >= MaxReceives
  /\ Move(j, "dead")

\* SQS promises nothing about a stale handle: the call may remove the
\* message, do nothing, or report an error.
Delete(j, handle) ==
  \/ InQueue(j) /\ Move(j, "acked")
  \/ ~Current(j, handle) /\ UNCHANGED message

\* change_visibility(handle, 0) makes a message in flight visible at once;
\* with a stale handle or on a visible message it may do nothing.
MakeVisible(j, handle) ==
  \/ message[j].place = "flight" /\ Move(j, "ready")
  \/ ~(Current(j, handle) /\ message[j].place = "flight") /\ UNCHANGED message

\* The visibility timeout of a message in flight runs out.
Reappear(j) == message[j].place = "flight" /\ Move(j, "ready")
=============================================================================
