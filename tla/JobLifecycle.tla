---------------------------- MODULE JobLifecycle ----------------------------
(***************************************************************************)
(* What the job pipeline promises (app/routers/agent.py and                *)
(* app/agent/consumer.py), with no queue, consumers or polling: a job is   *)
(* queued, runs once, and ends done or in error; its answer grows only     *)
(* while it runs; a reader sees the answer grow, and is told of the        *)
(* outcome together with the last of the answer.                           *)
(***************************************************************************)
EXTENDS Naturals

CONSTANTS Job, Unknown, Reader

VARIABLES
  status,  \* status[j]: the status of job j
  answer,  \* answer[j]: how many tokens there are
  view     \* view[r]: what reader r was sent

lifeVars == <<status, answer, view>>

Outcome == {"done", "error"}

Init ==
  /\ status = [j \in Job |-> "absent"]
  /\ answer = [j \in Job |-> 0]
  /\ view = [r \in Reader |-> [job |-> Unknown, sent |-> 0, event |-> "none"]]

-----------------------------------------------------------------------------
(* Jobs.                                                                   *)

MovesOn(j, from, to) ==
  /\ status[j] \in from
  /\ status' = [status EXCEPT ![j] = to]
  /\ UNCHANGED <<answer, view>>

Submit(j) == MovesOn(j, {"absent"}, "queued")

Begin(j) == MovesOn(j, {"queued"}, "running")

Finish(j) == MovesOn(j, {"running"}, "done")

\* A failure to record the outcome is one too.
Fail(j) == MovesOn(j, {"queued", "running", "done"}, "error")

Produce(j) ==
  /\ status[j] = "running"
  /\ answer' = [answer EXCEPT ![j] = @ + 1]
  /\ UNCHANGED <<status, view>>

-----------------------------------------------------------------------------
(* Readers.                                                                *)

Sees(r, j, n, e) ==
  /\ view' = [view EXCEPT ![r] = [job |-> j, sent |-> n, event |-> e]]
  /\ UNCHANGED <<status, answer>>

Open(r, j) == view[r].job = Unknown /\ status[j] # "absent" /\ Sees(r, j, 0, "none")

Reading(r, j) == view[r].job = j /\ view[r].event = "none"

Read(r, j) == Reading(r, j) /\ Sees(r, j, answer[j], "none")

\* Nobody is told of an error that did not happen.
End(r, j) ==
  /\ Reading(r, j)
  /\ status[j] \in Outcome
  /\ \E e \in Outcome :
       (e = "error" => status[j] = "error") /\ Sees(r, j, answer[j], e)

TimeOut(r, j) == Reading(r, j) /\ Sees(r, j, view[r].sent, "timeout")

Next ==
  \E j \in Job :
    \/ Submit(j) \/ Begin(j) \/ Finish(j) \/ Fail(j) \/ Produce(j)
    \/ \E r \in Reader : Open(r, j) \/ Read(r, j) \/ End(r, j) \/ TimeOut(r, j)

Spec == Init /\ [][Next]_lifeVars

=============================================================================
