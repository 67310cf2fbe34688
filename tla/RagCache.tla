------------------------------ MODULE RagCache ------------------------------
(***************************************************************************)
(* The RAG cache of app/cache (M3): entries stored in Redis, the pending   *)
(* review queue, the per-entry Redis lock, the agent workers that create   *)
(* entries and write answers back, and the HTTP requests that review and   *)
(* delete them.                                                            *)
(*                                                                         *)
(* Every Redis command is one atomic step; two commands of one coroutine   *)
(* are two steps, because the coroutine awaits between them.  Workers and  *)
(* requests may live in several server processes.                          *)
(*                                                                         *)
(* Abstracted: the text of queries, chunks and answers; TTLs, which only   *)
(* say that a key may vanish; the hit and miss counters.  approval_count   *)
(* and approved_by are always written together from one read, so one set   *)
(* of reviewers stands for both.                                           *)
(***************************************************************************)
EXTENDS Naturals, FiniteSets

CONSTANTS
  Hash,         \* query hashes, the keys of the cache
  Reviewer,     \* reviewer ids sent by approve requests
  Worker,       \* agent jobs running get_or_retrieve and save_answer
  Client,       \* HTTP requests in flight on /cache
  None,         \* no client, no hash, no reviewer
  Threshold,    \* settings.cache_auto_approve_threshold
  QueueCap,     \* settings.cache_max_pending_reviews
  ListLimit,    \* the limit parameter of GET /cache/review
  AutoApprove,  \* settings.cache_auto_approve
  Ops,          \* the operations clients issue
  Faults        \* what the environment may do

ASSUME NoneAssumption == None \notin Hash \cup Reviewer \cup Client
ASSUME ThresholdAssumption == Threshold \in Nat \ {0}
ASSUME CapAssumption == QueueCap \in Nat \ {0} /\ ListLimit \in Nat \ {0}
ASSUME FiniteAssumption == IsFiniteSet(Hash)
ASSUME SwitchAssumption ==
  /\ AutoApprove \in BOOLEAN
  /\ Ops \subseteq {"approve", "reject", "delete", "list"}
  /\ Faults \subseteq {"crash", "error", "expiry", "slow_holder"}

VARIABLES
  entry,  \* entry[h]: the value of key rag_cache:h
  queue,  \* the members of the sorted set review:pending
  lock,   \* lock[h]: the client whose token is in rag_cache_lock:h
  job,    \* job[w]: where worker w is, and what it has read
  req     \* req[c]: where request c is, and what it has read

vars == <<entry, queue, lock, job, req>>

-----------------------------------------------------------------------------
(* Variants the code might have had.  The specification uses none of them; *)
(* they show that each property below depends on the code it is about.     *)

UnknownStatus == {"auto_approved", "pending_review"}

HasRoomButOne == Cardinality(queue) + 1 < QueueCap

StaleIfPresent(h) == entry[h].status # "absent"

EnoughButOne(by) == Cardinality(by) + 1 >= Threshold

SavableIfPresent(e) == e.status # "absent"

LockAlwaysFree(h) == TRUE

OwnsAnyLock(c, h) == TRUE

NoLockTimeout(h) == FALSE

AnyTransition(current, new) == TRUE

-----------------------------------------------------------------------------
(* Entries and their status.                                               *)

Status == {"pending_review", "approved", "rejected"}

\* A missing key is the entry whose status is "absent".
Entry == [status : Status \cup {"absent"},
          approvedBy : SUBSET Reviewer,
          answered : BOOLEAN]

NoEntry == [status |-> "absent", approvedBy |-> {}, answered |-> FALSE]

Exists(h) == entry[h].status # "absent"

ValidTransition(current, new) ==
  \/ current = new
  \/ current = "pending_review" /\ new \in {"approved", "rejected"}

Enough(by) == Cardinality(by) >= Threshold

-----------------------------------------------------------------------------
(* Local state of workers and requests.                                    *)

JobPC == {"idle", "lookup", "create", "enqueue", "answer", "save"}

JobState == [pc : JobPC, hash : Hash \cup {None}, copy : Entry]

IdleJob == [pc |-> "idle", hash |-> None, copy |-> NoEntry]

ReqPC == {"idle", "lock", "check", "dequeue", "reread", "ttl", "write",
          "cleanup", "release", "fetch", "sweep", "forget"}

ReqState == [pc : ReqPC,
             op : {"none", "approve", "reject", "delete", "list"},
             hash : Hash \cup {None},
             who : Reviewer \cup {None},
             copy : Entry,
             batch : SUBSET Hash]

IdleReq == [pc |-> "idle", op |-> "none", hash |-> None, who |-> None,
            copy |-> NoEntry, batch |-> {}]

\* The request is between acquire_lock and release_lock.
Critical(c, h) ==
  /\ req[c].hash = h
  /\ req[c].pc \in {"check", "dequeue", "reread", "ttl", "write",
                    "cleanup", "release"}

JobAt(w, label) == job[w].pc = label

ReqAt(c, label) == req[c].pc = label

JobGoto(w, label) == job' = [job EXCEPT ![w].pc = label]

ReqGoto(c, label) == req' = [req EXCEPT ![c].pc = label]

\* The request keeps e, to write it later.
Hold(c, label, e) == req' = [req EXCEPT ![c].pc = label, ![c].copy = e]

JobDone(w) == job' = [job EXCEPT ![w] = IdleJob]

ReqDone(c) == req' = [req EXCEPT ![c] = IdleReq]

Init ==
  /\ entry = [h \in Hash |-> NoEntry]
  /\ queue = {}
  /\ lock = [h \in Hash |-> None]
  /\ job = [w \in Worker |-> IdleJob]
  /\ req = [c \in Client |-> IdleReq]

-----------------------------------------------------------------------------
(* Workers: get_or_retrieve, then save_answer at the end of generate.      *)

\* A job reaches the retrieval node with the hash of its query.
StartJob(w, h) ==
  /\ JobAt(w, "idle")
  /\ job' = [job EXCEPT ![w].pc = "lookup", ![w].hash = h]
  /\ UNCHANGED <<entry, queue, lock, req>>

\* A chunk cache hit skips save_answer; an entry that is pending or rejected
\* is left alone; no entry means one will be created.
Lookup(w) ==
  /\ JobAt(w, "lookup")
  /\ LET e == entry[job[w].hash] IN
       \/ e.status = "approved" /\ JobDone(w)
       \/ e.status = "absent" /\ JobGoto(w, "create")
       \/ e.status \in {"pending_review", "rejected"} /\ JobGoto(w, "answer")
  /\ UNCHANGED <<entry, queue, lock, req>>

\* _decide_status: the quality gate may go either way when auto-approval is on.
Decision == IF AutoApprove THEN {"approved", "pending_review"}
                           ELSE {"pending_review"}

\* SETEX, whatever the key holds by now.
Create(w) ==
  /\ JobAt(w, "create")
  /\ \E s \in Decision :
       /\ entry' = [entry EXCEPT ![job[w].hash] = [NoEntry EXCEPT !.status = s]]
       /\ JobGoto(w, IF s = "pending_review" THEN "enqueue" ELSE "answer")
  /\ UNCHANGED <<queue, lock, req>>

\* The capacity test of the Lua script, which runs before the ZADD NX.
HasRoom == Cardinality(queue) < QueueCap

Enqueue(w) ==
  /\ JobAt(w, "enqueue")
  /\ queue' = IF HasRoom THEN queue \cup {job[w].hash} ELSE queue
  /\ JobGoto(w, "answer")
  /\ UNCHANGED <<entry, lock, req>>

Savable(e) == e.status = "approved"

ReadForAnswer(w) ==
  /\ JobAt(w, "answer")
  /\ LET e == entry[job[w].hash] IN
       \/ ~Savable(e) /\ JobDone(w)
       \/ /\ Savable(e)
          /\ job' = [job EXCEPT ![w].pc = "save",
                               ![w].copy = [e EXCEPT !.answered = TRUE]]
  /\ UNCHANGED <<entry, queue, lock, req>>

\* A key that has vanished has no TTL, and is written back with a fresh one.
SaveAnswer(w) ==
  /\ JobAt(w, "save")
  /\ entry' = [entry EXCEPT ![job[w].hash] = job[w].copy]
  /\ JobDone(w)
  /\ UNCHANGED <<queue, lock, req>>

\* An exception fails the job, a cancellation or a crash drops it.
AbandonJob(w) ==
  /\ Faults \cap {"crash", "error"} # {}
  /\ ~JobAt(w, "idle")
  /\ JobDone(w)
  /\ UNCHANGED <<entry, queue, lock, req>>

-----------------------------------------------------------------------------
(* Approve and reject requests, under the entry's lock.                    *)

\* The router answers 404 when the entry does not exist; a rejection does not
\* say who rejects.
StartReview(c, h, r, op) ==
  /\ op \in Ops \cap {"approve", "reject"}
  /\ ReqAt(c, "idle")
  /\ Exists(h)
  /\ req' = [req EXCEPT ![c] = [IdleReq EXCEPT !.pc = "lock", !.op = op,
                                              !.hash = h,
                                              !.who = IF op = "approve" THEN r ELSE None]]
  /\ UNCHANGED <<entry, queue, lock, job>>

\* SET key token NX.
LockFree(h) == lock[h] = None

AcquireLock(c) ==
  LET h == req[c].hash IN
  /\ ReqAt(c, "lock")
  /\ \/ LockFree(h) /\ lock' = [lock EXCEPT ![h] = c] /\ ReqGoto(c, "check")
     \/ ~LockFree(h) /\ ReqDone(c) /\ UNCHANGED lock
  /\ UNCHANGED <<entry, queue, job>>

Endorse(c, e) ==
  LET by == e.approvedBy \cup {req[c].who}
      s  == IF Enough(by) THEN "approved" ELSE "pending_review" IN
  Hold(c, IF Enough(by) THEN "dequeue" ELSE "reread",
       [status |-> s, approvedBy |-> by, answered |-> FALSE])

ApproveCheck(c) ==
  LET e == entry[req[c].hash] IN
  /\ ReqAt(c, "check") /\ req[c].op = "approve"
  /\ \/ e.status = "absent" /\ ReqGoto(c, "release")
     \/ e.status = "approved" /\ ReqGoto(c, "cleanup")
     \/ /\ e.status \in {"pending_review", "rejected"}
        /\ IF req[c].who \in e.approvedBy THEN ReqGoto(c, "release")
                                          ELSE Endorse(c, e)
  /\ UNCHANGED <<entry, queue, lock, job>>

RejectCheck(c) ==
  LET e == entry[req[c].hash] IN
  /\ ReqAt(c, "check") /\ req[c].op = "reject"
  /\ \/ e.status \in {"absent", "rejected"} /\ ReqGoto(c, "release")
     \/ e.status = "approved" /\ ReqGoto(c, "cleanup")
     \/ /\ e.status = "pending_review"
        /\ Hold(c, "reread", [NoEntry EXCEPT !.status = "rejected"])
  /\ UNCHANGED <<entry, queue, lock, job>>

\* remove_from_queue before the status update of the deciding approval.
Dequeue(c) ==
  /\ ReqAt(c, "dequeue")
  /\ queue' = queue \ {req[c].hash}
  /\ ReqGoto(c, "reread")
  /\ UNCHANGED <<entry, lock, job>>

\* update_status_under_lock returns False: nobody looks at the result.
UpdateSkipped(c) ==
  ReqGoto(c, IF req[c].op = "approve" THEN "release" ELSE "cleanup")

\* validate_transition raises: approve swallows it, reject lets it through.
UpdateRefused(c) ==
  ReqGoto(c, IF req[c].op = "approve" THEN "cleanup" ELSE "release")

\* What update_status_under_lock will write over the entry it has just read.
Updated(c, e) ==
  [e EXCEPT !.status = req[c].copy.status,
            !.approvedBy = IF req[c].op = "approve" THEN req[c].copy.approvedBy
                                                    ELSE e.approvedBy]

Reread(c) ==
  LET e == entry[req[c].hash] IN
  /\ ReqAt(c, "reread")
  /\ \/ e.status = "absent" /\ UpdateSkipped(c)
     \/ /\ e.status # "absent"
        /\ IF ValidTransition(e.status, req[c].copy.status)
             THEN Hold(c, "ttl", Updated(c, e))
             ELSE UpdateRefused(c)
  /\ UNCHANGED <<entry, queue, lock, job>>

CheckTtl(c) ==
  /\ ReqAt(c, "ttl")
  /\ IF Exists(req[c].hash) THEN ReqGoto(c, "write") ELSE UpdateSkipped(c)
  /\ UNCHANGED <<entry, queue, lock, job>>

WriteStatus(c) ==
  /\ ReqAt(c, "write")
  /\ entry' = [entry EXCEPT ![req[c].hash] = req[c].copy]
  /\ ReqGoto(c, IF req[c].op = "approve" THEN "release" ELSE "cleanup")
  /\ UNCHANGED <<queue, lock, job>>

Cleanup(c) ==
  /\ ReqAt(c, "cleanup")
  /\ queue' = queue \ {req[c].hash}
  /\ ReqGoto(c, "release")
  /\ UNCHANGED <<entry, lock, job>>

\* The token check of the release script.
OwnsLock(c, h) == lock[h] = c

ReleaseLock(c) ==
  LET h == req[c].hash IN
  /\ ReqAt(c, "release")
  /\ lock' = IF OwnsLock(c, h) THEN [lock EXCEPT ![h] = None] ELSE lock
  /\ ReqDone(c)
  /\ UNCHANGED <<entry, queue, job>>

-----------------------------------------------------------------------------
(* Deleting an entry and listing the queue, without the lock.              *)

\* DEL of a missing key is answered 404 and changes nothing.
Delete(c, h) ==
  /\ "delete" \in Ops
  /\ ReqAt(c, "idle")
  /\ Exists(h)
  /\ entry' = [entry EXCEPT ![h] = NoEntry]
  /\ req' = [req EXCEPT ![c] = [IdleReq EXCEPT !.pc = "forget", !.op = "delete",
                                              !.hash = h]]
  /\ UNCHANGED <<queue, lock, job>>

Forget(c) ==
  /\ ReqAt(c, "forget")
  /\ queue' = queue \ {req[c].hash}
  /\ ReqDone(c)
  /\ UNCHANGED <<entry, lock, job>>

\* The newest members of the queue, up to the limit.
Page == {S \in SUBSET queue :
           IF Cardinality(queue) <= ListLimit THEN S = queue
                                              ELSE Cardinality(S) = ListLimit}

List(c) ==
  /\ "list" \in Ops
  /\ ReqAt(c, "idle")
  /\ \E S \in Page :
       req' = [req EXCEPT ![c] = [IdleReq EXCEPT !.pc = "fetch", !.op = "list",
                                                !.batch = S]]
  /\ UNCHANGED <<entry, queue, lock, job>>

\* Hashes whose entry is gone are skipped, not swept.
Stale(h) == Exists(h) /\ entry[h].status # "pending_review"

Fetch(c) ==
  /\ ReqAt(c, "fetch")
  /\ req' = [req EXCEPT ![c].pc = "sweep",
                        ![c].batch = {h \in req[c].batch : Stale(h)}]
  /\ UNCHANGED <<entry, queue, lock, job>>

Sweep(c) ==
  /\ ReqAt(c, "sweep")
  /\ \/ /\ req[c].batch = {}
        /\ ReqDone(c)
        /\ UNCHANGED queue
     \/ \E h \in req[c].batch :
          /\ queue' = queue \ {h}
          /\ req' = [req EXCEPT ![c].batch = req[c].batch \ {h}]
  /\ UNCHANGED <<entry, lock, job>>

-----------------------------------------------------------------------------
(* The environment.                                                        *)

\* Redis drops the key of an entry at the end of its TTL.
Expire(h) ==
  /\ "expiry" \in Faults
  /\ Exists(h)
  /\ entry' = [entry EXCEPT ![h] = NoEntry]
  /\ UNCHANGED <<queue, lock, job, req>>

\* A lock outlives its request by at most its 10 s TTL.  It expires under a
\* live holder only if the holder takes longer than that.
LockTimeout(h) ==
  /\ lock[h] # None
  /\ \/ ~Critical(lock[h], h)
     \/ "slow_holder" \in Faults

LockExpire(h) ==
  /\ LockTimeout(h)
  /\ lock' = [lock EXCEPT ![h] = None]
  /\ UNCHANGED <<entry, queue, job, req>>

\* A Redis call raises.  Inside the try block the finally block follows.
RequestFails(c) ==
  /\ "error" \in Faults
  /\ ~ReqAt(c, "idle")
  /\ IF Critical(c, req[c].hash) /\ ~ReqAt(c, "release")
       THEN ReqGoto(c, "release")
       ELSE ReqDone(c)
  /\ UNCHANGED <<entry, queue, lock, job>>

\* The server process dies.
Crash(c) ==
  /\ "crash" \in Faults
  /\ ~ReqAt(c, "idle")
  /\ ReqDone(c)
  /\ UNCHANGED <<entry, queue, lock, job>>

-----------------------------------------------------------------------------
(* The specification.                                                      *)

JobStep(w) ==
  \/ Lookup(w) \/ Create(w) \/ Enqueue(w) \/ ReadForAnswer(w) \/ SaveAnswer(w)

\* The steps of a request once it has started.
ClientStep(c) ==
  \/ AcquireLock(c) \/ ApproveCheck(c) \/ RejectCheck(c) \/ Dequeue(c)
  \/ Reread(c) \/ CheckTtl(c) \/ WriteStatus(c) \/ Cleanup(c) \/ ReleaseLock(c)
  \/ Forget(c) \/ Fetch(c) \/ Sweep(c)

Next ==
  \/ \E w \in Worker : JobStep(w) \/ AbandonJob(w) \/ \E h \in Hash : StartJob(w, h)
  \/ \E c \in Client :
       \/ ClientStep(c) \/ List(c) \/ RequestFails(c) \/ Crash(c)
       \/ \E h \in Hash :
            \/ Delete(c, h)
            \/ \E r \in Reviewer, op \in {"approve", "reject"} : StartReview(c, h, r, op)
  \/ \E h \in Hash : Expire(h) \/ LockExpire(h)

Spec == Init /\ [][Next]_vars

\* The event loop resumes every request, and Redis expires every key.
Fairness ==
  /\ \A c \in Client : WF_vars(ClientStep(c))
  /\ \A h \in Hash : WF_vars(LockExpire(h))

FairSpec == Spec /\ Fairness

-----------------------------------------------------------------------------
(* Properties.                                                             *)

\* Every variable keeps its type; a job or request in the middle of its work names
\* a hash, a reviewer and a status to write (service.py, review.py).
TypeOK ==
  /\ entry \in [Hash -> Entry]
  /\ queue \subseteq Hash
  /\ lock \in [Hash -> Client \cup {None}]
  /\ job \in [Worker -> JobState]
  /\ \A w \in Worker : job[w].pc # "idle" => job[w].hash \in Hash
  /\ req \in [Client -> ReqState]
  /\ \A c \in Client :
       /\ req[c].pc \notin {"idle", "fetch", "sweep"} => req[c].hash \in Hash
       /\ req[c].op = "approve" => req[c].who \in Reviewer
       /\ req[c].pc \in {"dequeue", "reread", "ttl", "write"} =>
            req[c].copy.status \in Status

\* The pending queue never grows past cache_max_pending_reviews, however the
\* jobs that enqueue and the requests that dequeue interleave (review.py 14-19).
QueueBounded == Cardinality(queue) <= QueueCap

VerdictOf(e) ==
  /\ Cardinality(e.approvedBy) >= Threshold => e.status = "approved"
  /\ ~AutoApprove /\ e.status = "approved" => Cardinality(e.approvedBy) >= Threshold

Published(e) == e.answered => e.status = "approved"

\* An entry with enough distinct approvals is approved, and without automatic
\* approval no other entry is; an answer is kept only in an approved entry, the
\* only kind the semantic lookup serves.  Both hold of every copy on its way to
\* Redis too: whatever is written back late, by a second writer, under a lock
\* that expired, over whatever the key has become, is consistent in itself
\* (review.py 86-98, service.py 145-151, store.py 83-96).
CopiesSound ==
  /\ \A h \in Hash : VerdictOf(entry[h]) /\ Published(entry[h])
  /\ \A w \in Worker : VerdictOf(job[w].copy) /\ Published(job[w].copy)
  /\ \A c \in Client :
       /\ VerdictOf(req[c].copy) /\ Published(req[c].copy)
       /\ ReqAt(c, "dequeue") => req[c].op = "approve"
       /\ ReqAt(c, "reread") /\ req[c].op # "approve" =>
            req[c].copy.status = "rejected"

\* A request between acquire_lock and release_lock holds the lock in Redis, so
\* "Caller MUST hold the lock" (store.py 78) is met at every read and write of
\* update_status_under_lock.  It needs holders that finish within the TTL.
MutualExclusion ==
  \A c \in Client, h \in Hash : Critical(c, h) => lock[h] = c

\* Every lock is given up: by its holder, also when a call in the critical
\* section raises, or by its TTL after a crash (review.py 105-106, 129-130).
LockReleased ==
  \A h \in Hash : lock[h] # None ~> lock[h] = None

\* "APPROVED is terminal - once approved a cache entry cannot be rejected"
\* (schemas.py 16-17): while its key lives an approved entry stays approved.
ApprovedTerminal ==
  [][\A h \in Hash : entry[h].status = "approved" => entry'[h].status = "approved"]_vars

-----------------------------------------------------------------------------
(* With one worker, and keys that outlive the review, the entries implement *)
(* the review life cycle.                                                   *)

Lifecycle ==
  INSTANCE ReviewLifecycle
    WITH verdict <- [h \in Hash |-> [status |-> entry[h].status,
                                    approvedBy |-> entry[h].approvedBy]]

\* Entries go from pending to approved or rejected once, approvals are only
\* added, one reviewer at a time and none lost, although every approval reads,
\* re-reads and writes the entry in separate steps (review.py 67-106).
ImplementsLifecycle == Lifecycle!Spec

=============================================================================
