----------------------------- MODULE AgentJobs -----------------------------
(***************************************************************************)
(* The agent's job pipeline (M4): POST /agent/query writes a job record    *)
(* and publishes a message, a consumer process takes batches of messages   *)
(* from the stream, runs the graph and records the outcome, and GET        *)
(* /agent/stream forwards the tokens the graph pushes.                     *)
(*                                                                         *)
(* Every Redis command is one step.  The stream is external: XREADGROUP    *)
(* with ">" hands each message to one consumer, once, and nothing reclaims *)
(* a message that was handed out and not acknowledged.                     *)
(*                                                                         *)
(* Abstracted: the text of tokens and answers (the i-th token of a job is  *)
(* the number i, so a list of tokens is its length) and the nodes of the   *)
(* graph other than the pushing of tokens.                                 *)
(***************************************************************************)
EXTENDS Naturals, Sequences, FiniteSets

CONSTANTS
  Job,        \* the job ids handed out by POST /agent/query
  Unknown,    \* the id of messages that carry none
  Consumer,   \* consumer processes of the agent's group
  Stream,     \* GET /agent/stream requests
  BatchSize,  \* messages per XREADGROUP
  MaxTokens,  \* bound: tokens of one answer
  MaxEvents,  \* bound: knowledge base events published
  MaxErrors,  \* bound: Redis commands that raise
  Faults      \* what the environment may do

ASSUME UnknownAssumption == Unknown \notin Job
ASSUME BoundAssumption ==
  /\ BatchSize \in Nat \ {0}
  /\ MaxTokens \in Nat /\ MaxEvents \in Nat /\ MaxErrors \in Nat
ASSUME FaultAssumption == Faults \subseteq {"graph_error", "cancel", "crash"}

VARIABLES
  record,     \* record[j]: the status field of agent:job:j
  tokens,     \* tokens[j]: the length of agent:job:j:tokens
  ttl,        \* the keys that have a TTL
  log,        \* the stream: the job id of every message
  cursor,     \* how many messages the agent's group has handed out
  pel,        \* the messages handed out and not acknowledged
  enq,        \* enq[j]: where the request that creates j is
  worker,     \* worker[k]: where consumer k is
  cancelled,  \* the consumers whose lifespan has called cancel()
  errors,     \* how many Redis commands have raised
  sse         \* sse[s]: where stream request s is

queueVars == <<log, cursor, pel>>
jobVars == <<record, tokens, ttl>>
vars == <<jobVars, queueVars, enq, worker, cancelled, errors, sse>>

JobId == Job \cup {Unknown}

Status == {"absent", "queued", "running", "done", "error"}

Terminal == {"done", "error"}

-----------------------------------------------------------------------------
(* Variants the code might have had, used only to show that the properties *)
(* depend on the code they are about.                                      *)

PublishFirst == [new |-> "publish", publish |-> "hset", hset |-> "expire",
                 expire |-> "sent"]

SkipDrain(sent, available) == sent

DropRest(k) == <<>>

ExpireOnStart(k) == worker[k].status = "running"

NextMessageAlways(batch) ==
  [pc |-> "hset", batch |-> batch, status |-> "running", exit |-> "next"]

-----------------------------------------------------------------------------
(* Local states.                                                           *)

WorkerPC == {"poll", "hset", "expireJob", "expireTokens", "graph", "ack",
             "sleep", "stopped"}

\* exit: what follows the acknowledgement - the next message of the batch, or
\* the exception or cancellation that is on its way out of _process_message.
WorkerState == [pc : WorkerPC, batch : Seq(Nat \ {0}), status : Status,
                exit : {"next", "raise", "cancel"}]

IdleWorker == [pc |-> "poll", batch |-> <<>>, status |-> "absent", exit |-> "next"]

SsePC == {"idle", "tokens", "status", "drain", "end"}

SseState == [pc : SsePC, job : JobId, sent : Nat, status : Status,
             event : {"none", "done", "error", "timeout"}]

IdleSse == [pc |-> "idle", job |-> Unknown, sent |-> 0, status |-> "absent",
            event |-> "none"]

WorkerAt(k, label) == worker[k].pc = label

\* The message in hand is the first of the batch.
Current(k) == worker[k].batch[1]

Id(k) == log[Current(k)]

InHand(k) == worker[k].pc \in {"hset", "expireJob", "expireTokens", "graph", "ack"}

Init ==
  /\ record = [j \in JobId |-> "absent"]
  /\ tokens = [j \in JobId |-> 0]
  /\ ttl = {}
  /\ log = <<>>
  /\ cursor = 0
  /\ pel = {}
  /\ enq = [j \in Job |-> "new"]
  /\ worker = [k \in Consumer |-> IdleWorker]
  /\ cancelled = {}
  /\ errors = 0
  /\ sse = [s \in Stream |-> IdleSse]

-----------------------------------------------------------------------------
(* POST /agent/query, and the publishers of knowledge base events.         *)

\* The record is written, and given a TTL, before the message is published.
EnqueueOrder == [new |-> "hset", hset |-> "expire", expire |-> "publish",
                 publish |-> "sent"]

Enqueue(j) ==
  LET next == EnqueueOrder[enq[j]] IN
  /\ enq[j] # "sent"
  /\ enq' = [enq EXCEPT ![j] = next]
  /\ record' = IF next = "hset" THEN [record EXCEPT ![j] = "queued"] ELSE record
  /\ ttl' = IF next = "expire" THEN ttl \cup {<<"job", j>>} ELSE ttl
  /\ log' = IF next = "publish" THEN Append(log, j) ELSE log
  /\ UNCHANGED <<tokens, cursor, pel, worker, cancelled, errors, sse>>

\* kb_updated and kb_deleted go to the same stream, with no job_id.
PublishEvent ==
  /\ Cardinality({i \in DOMAIN log : log[i] = Unknown}) < MaxEvents
  /\ log' = Append(log, Unknown)
  /\ UNCHANGED <<jobVars, cursor, pel, enq, worker, cancelled, errors, sse>>

-----------------------------------------------------------------------------
(* The consumer loop.                                                      *)

\* Where the next message of the batch, or the next poll, begins.
NextMessage(batch) ==
  [pc |-> IF batch = <<>> THEN "poll" ELSE "hset", batch |-> batch,
   status |-> IF batch = <<>> THEN "absent" ELSE "running", exit |-> "next"]

BatchEnd(n) == IF cursor + BatchSize < n THEN cursor + BatchSize ELSE n

Fetched == {i \in DOMAIN log : cursor < i /\ i <= BatchEnd(Len(log))}

Poll(k) ==
  /\ WorkerAt(k, "poll")
  /\ Fetched # {}
  /\ cursor' = cursor + Cardinality(Fetched)
  /\ pel' = pel \cup Fetched
  /\ worker' = [worker EXCEPT
       ![k] = NextMessage([i \in 1 .. Cardinality(Fetched) |-> cursor + i])]
  /\ UNCHANGED <<jobVars, log, enq, cancelled, errors, sse>>

SetStatus(k) ==
  /\ WorkerAt(k, "hset")
  /\ record' = [record EXCEPT ![Id(k)] = worker[k].status]
  /\ worker' = [worker EXCEPT ![k].pc = "expireJob"]
  /\ UNCHANGED <<tokens, ttl, queueVars, enq, cancelled, errors, sse>>

ExpireJob(k) ==
  /\ WorkerAt(k, "expireJob")
  /\ ttl' = ttl \cup {<<"job", Id(k)>>}
  /\ worker' = [worker EXCEPT ![k].pc = "expireTokens"]
  /\ UNCHANGED <<record, tokens, queueVars, enq, cancelled, errors, sse>>

\* _set_job_status gives the token list its TTL at every status.
ExpiresTokens(k) == TRUE

\* EXPIRE of a list nobody has pushed to does nothing.
ExpireTokens(k) ==
  /\ WorkerAt(k, "expireTokens")
  /\ ttl' = IF ExpiresTokens(k) /\ tokens[Id(k)] > 0
              THEN ttl \cup {<<"tokens", Id(k)>>} ELSE ttl
  /\ worker' = [worker EXCEPT
       ![k].pc = IF worker[k].status = "running" THEN "graph" ELSE "ack"]
  /\ UNCHANGED <<record, tokens, queueVars, enq, cancelled, errors, sse>>

PushToken(k) ==
  /\ WorkerAt(k, "graph")
  /\ tokens[Id(k)] < MaxTokens
  /\ tokens' = [tokens EXCEPT ![Id(k)] = @ + 1]
  /\ UNCHANGED <<record, ttl, queueVars, enq, worker, cancelled, errors, sse>>

FinishGraph(k) ==
  /\ WorkerAt(k, "graph")
  /\ worker' = [worker EXCEPT ![k].pc = "hset", ![k].status = "done"]
  /\ UNCHANGED <<jobVars, queueVars, enq, cancelled, errors, sse>>

\* The cancellation of the task ends the loop.
AfterCancel == "stopped"

\* The loop goes through the whole batch.
Rest(k) == Tail(worker[k].batch)

Ack(k) ==
  /\ WorkerAt(k, "ack")
  /\ pel' = pel \ {Current(k)}
  /\ worker' = [worker EXCEPT ![k] =
       CASE worker[k].exit = "next"   -> NextMessage(Rest(k))
         [] worker[k].exit = "raise"  -> [IdleWorker EXCEPT !.pc = "sleep"]
         [] worker[k].exit = "cancel" -> [IdleWorker EXCEPT !.pc = AfterCancel]]
  /\ UNCHANGED <<jobVars, log, cursor, enq, cancelled, errors, sse>>

Wake(k) ==
  /\ WorkerAt(k, "sleep")
  /\ worker' = [worker EXCEPT ![k] = IdleWorker]
  /\ UNCHANGED <<jobVars, queueVars, enq, cancelled, errors, sse>>

-----------------------------------------------------------------------------
(* Exceptions, cancellations and crashes.                                  *)

\* The handler of _process_message records the error.
Handled(w) == [w EXCEPT !.pc = "hset", !.status = "error"]

\* An exception in the try block is recorded as an error; one in that handler is
\* on its way out when the finally block acknowledges the message; one from the
\* acknowledgement, or from the poll, drops the batch and reaches the loop.
Raised(w) ==
  CASE w.pc \in {"poll", "ack"} -> [IdleWorker EXCEPT !.pc = "sleep"]
    [] w.pc \in {"hset", "expireJob", "expireTokens", "graph"} ->
         IF w.status = "error"
           THEN [w EXCEPT !.pc = "ack", !.exit = "raise"]
           ELSE Handled(w)

\* A node of the graph raises: the LLM, the retriever, a parse.
GraphFails(k) ==
  /\ "graph_error" \in Faults
  /\ WorkerAt(k, "graph")
  /\ worker' = [worker EXCEPT ![k] = Raised(worker[k])]
  /\ UNCHANGED <<jobVars, queueVars, enq, cancelled, errors, sse>>

\* An XREADGROUP or XACK that is cut off may still have been executed.  For the
\* other commands that is a step followed by a failure.
CutOff(k) ==
  \/ UNCHANGED <<cursor, pel>>
  \/ WorkerAt(k, "ack") /\ pel' = pel \ {Current(k)} /\ UNCHANGED cursor
  \/ /\ WorkerAt(k, "poll")
     /\ cursor' = cursor + Cardinality(Fetched)
     /\ pel' = pel \cup Fetched

\* A Redis command raises.
RedisFails(k) ==
  /\ errors < MaxErrors
  /\ errors' = errors + 1
  /\ ~WorkerAt(k, "sleep") /\ ~WorkerAt(k, "stopped")
  /\ worker' = [worker EXCEPT ![k] = Raised(worker[k])]
  /\ CutOff(k)
  /\ UNCHANGED <<jobVars, log, enq, cancelled, sse>>

\* The lifespan cancels the consumer task, once.  Inside the try block the
\* finally block still acknowledges; elsewhere the loop ends at once.
Cancel(k) ==
  /\ "cancel" \in Faults
  /\ k \notin cancelled /\ ~WorkerAt(k, "stopped")
  /\ cancelled' = cancelled \cup {k}
  /\ worker' = [worker EXCEPT ![k] =
       IF InHand(k) /\ ~WorkerAt(k, "ack")
         THEN [@ EXCEPT !.pc = "ack", !.exit = "cancel"]
         ELSE [IdleWorker EXCEPT !.pc = "stopped"]]
  /\ CutOff(k)
  /\ UNCHANGED <<jobVars, log, enq, errors, sse>>

\* The process dies, or has stopped, and another one takes its place.
Restart(k) ==
  /\ "crash" \in Faults \/ WorkerAt(k, "stopped")
  /\ worker' = [worker EXCEPT ![k] = IdleWorker]
  /\ cancelled' = cancelled \ {k}
  /\ CutOff(k)
  /\ UNCHANGED <<jobVars, log, enq, errors, sse>>

-----------------------------------------------------------------------------
(* GET /agent/stream.                                                      *)

OpenStream(s, j) ==
  /\ sse[s].pc = "idle"
  /\ record[j] # "absent"
  /\ sse' = [sse EXCEPT ![s].pc = "tokens", ![s].job = j]
  /\ UNCHANGED <<jobVars, queueVars, enq, worker, cancelled, errors>>

ForwardTokens(s) ==
  /\ sse[s].pc = "tokens"
  /\ sse' = [sse EXCEPT ![s].pc = "status", ![s].sent = tokens[sse[s].job]]
  /\ UNCHANGED <<jobVars, queueVars, enq, worker, cancelled, errors>>

ReadStatus(s) ==
  LET status == record[sse[s].job] IN
  /\ sse[s].pc = "status"
  /\ sse' = [sse EXCEPT ![s].status = status,
                        ![s].pc = IF status \in Terminal THEN "drain" ELSE "tokens"]
  /\ UNCHANGED <<jobVars, queueVars, enq, worker, cancelled, errors>>

\* Tokens pushed between the two reads are sent before the last event.
Drained(sent, available) == available

Drain(s) ==
  /\ sse[s].pc = "drain"
  /\ sse' = [sse EXCEPT ![s].pc = "end", ![s].event = sse[s].status,
                        ![s].sent = Drained(@, tokens[sse[s].job])]
  /\ UNCHANGED <<jobVars, queueVars, enq, worker, cancelled, errors>>

\* The 60 s deadline is tested before each round of reads.
Deadline(s) ==
  /\ sse[s].pc = "tokens"
  /\ sse' = [sse EXCEPT ![s].pc = "end", ![s].event = "timeout"]
  /\ UNCHANGED <<jobVars, queueVars, enq, worker, cancelled, errors>>

-----------------------------------------------------------------------------
(* The specification.                                                      *)

WorkerStep(k) ==
  \/ Poll(k) \/ SetStatus(k) \/ ExpireJob(k) \/ ExpireTokens(k)
  \/ PushToken(k) \/ FinishGraph(k) \/ Ack(k) \/ Wake(k)

Next ==
  \/ \E j \in Job : Enqueue(j)
  \/ PublishEvent
  \/ \E k \in Consumer :
       WorkerStep(k) \/ GraphFails(k) \/ RedisFails(k) \/ Cancel(k) \/ Restart(k)
  \/ \E s \in Stream :
       \/ ForwardTokens(s) \/ ReadStatus(s) \/ Drain(s) \/ Deadline(s)
       \/ \E j \in Job : OpenStream(s, j)

Spec == Init /\ [][Next]_vars

\* The event loop resumes a consumer whose command has been answered, and the
\* graph produces finitely many tokens.
Fairness == \A k \in Consumer : WF_vars(WorkerStep(k))

FairSpec == Spec /\ Fairness

-----------------------------------------------------------------------------
(* Properties.                                                             *)

\* Every variable keeps its type; a consumer has a message in hand exactly while
\* it has a batch, and only messages that were handed out (consumer.py 81-92).
TypeOK ==
  /\ record \in [JobId -> Status]
  /\ tokens \in [JobId -> Nat]
  /\ ttl \subseteq {"job", "tokens"} \X JobId
  /\ log \in Seq(JobId)
  /\ cursor \in 0 .. Len(log)
  /\ pel \subseteq 1 .. cursor
  /\ enq \in [Job -> {"new", "hset", "expire", "publish", "sent"}]
  /\ worker \in [Consumer -> WorkerState]
  /\ \A k \in Consumer :
       /\ InHand(k) <=> worker[k].batch # <<>>
       /\ \A i \in DOMAIN worker[k].batch : worker[k].batch[i] <= cursor
  /\ cancelled \subseteq Consumer
  /\ errors \in 0 .. MaxErrors
  /\ sse \in [Stream -> SseState]

\* An acknowledged job has its outcome, and neither its record nor the tokens
\* pushed after the first EXPIRE stay in Redis for ever, whether or not the graph
\* failed (consumer.py 30-33, 66-77).
AckedIsSettled ==
  \A i \in 1 .. cursor : i \notin pel /\ log[i] \in Job =>
    /\ record[log[i]] \in Terminal
    /\ <<"job", log[i]>> \in ttl
    /\ tokens[log[i]] > 0 => <<"tokens", log[i]>> \in ttl

\* Every published job ends as done or error (consumer.py 3-5, 97).
EveryJobEnds == \A j \in Job : enq[j] = "sent" ~> record[j] \in Terminal

\* "It is cancelled (and exits cleanly) when the FastAPI lifespan shuts down"
\* (consumer.py 4-5): a consumer that is cancelled stops, wherever in the loop or
\* in a message the cancellation strikes, and whatever command fails meanwhile;
\* the lifespan awaits the task before it disconnects the clients (__init__.py
\* 109-119).
ShutdownEnds ==
  \A k \in Consumer : k \in cancelled ~> WorkerAt(k, "stopped") \/ k \notin cancelled

-----------------------------------------------------------------------------
(* The pipeline implements the life of a job as its requester sees it.     *)

Lifecycle ==
  INSTANCE JobLifecycle
    WITH Reader <- Stream,
         status <- [j \in Job |-> record[j]],
         answer <- [j \in Job |-> tokens[j]],
         view   <- [s \in Stream |->
                     [job |-> sse[s].job, sent |-> sse[s].sent, event |-> sse[s].event]]

\* A job is queued, runs once and ends; tokens come only while it runs; a reader is
\* told of the outcome with the last token, and of an error only when there was one:
\* whatever consumers fail, are cancelled, crash or lose the reply of a command while
\* they hold its message, and although the tokens, the status and the last tokens are
\* read in three commands while the graph pushes (routers/agent.py 38-111,
\* consumer.py 24-97, nodes.py 258-261).
ImplementsLifecycle == Lifecycle!Spec

=============================================================================
