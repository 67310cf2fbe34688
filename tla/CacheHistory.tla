---------------------------- MODULE CacheHistory ----------------------------
(***************************************************************************)
(* RagCache with two history variables, which no step of the cache reads:  *)
(* the requests whose lock has run out while they held it, and the entries *)
(* that the code has let slip out of the review queue.  With them the      *)
(* properties below are stated under every fault, any number of workers,   *)
(* deletions and a queue at its cap, and name the cases they except.       *)
(***************************************************************************)
EXTENDS RagCache

VARIABLES
  late,     \* the requests whose lock expired before they released it
  unlisted  \* the entries that may wait for a review outside the queue

allVars == <<entry, queue, lock, job, req, late, unlisted>>

-----------------------------------------------------------------------------
Pending(h) == entry[h].status = "pending_review"

\* The request has taken h off the queue and will store the approval next.
Deciding(c, h) ==
  /\ req[c].hash = h
  /\ req[c].op = "approve"
  /\ req[c].pc \in {"reread", "ttl", "write"}
  /\ req[c].copy.status = "approved"

\* The request has seen h decided or gone, and will take it off the queue.
Removing(c, h) ==
  \/ req[c].hash = h /\ req[c].pc \in {"cleanup", "forget"}
  \/ req[c].pc = "sweep" /\ h \in req[c].batch

\* The queue was full, or the job failed before it could enqueue
\* (review.py 50-54, service.py 90-92).
NeverListed(h) ==
  \E w \in Worker :
    /\ JobAt(w, "enqueue") /\ job[w].hash = h
    /\ ~JobAt(w, "enqueue")'
    /\ h \notin queue'
    /\ Cardinality(queue) >= QueueCap \/ AbandonJob(w)

\* The deciding approval failed between ZREM and SETEX (review.py 88-97).
ApprovalLost(h) ==
  /\ \E c \in Client : Deciding(c, h) /\ ~Deciding(c, h)'
  /\ Pending(h)'

\* The entry became pending again while a request was about to remove its hash,
\* or under the late write of an approval (service.py 90, store.py 96).
BackTooSoon(h) ==
  /\ ~Pending(h) /\ Pending(h)'
  /\ \E c \in Client : Removing(c, h) \/ WriteStatus(c)

Slips(h) == NeverListed(h) \/ ApprovalLost(h) \/ BackTooSoon(h)

HistoryInit == Init /\ late = {} /\ unlisted = {}

\* A request is late until it ends.  A hash stays unlisted until it waits in the
\* queue again or waits no longer, and nobody is about to remove it.
Remember ==
  /\ late' = {c \in Client :
                /\ ~ReqAt(c, "idle")'
                /\ c \in late \/ \E h \in Hash : Critical(c, h) /\ lock[h] = c /\ LockExpire(h)}
  /\ unlisted' = {h \in Hash :
                    /\ h \in unlisted \/ Slips(h)
                    /\ \/ Pending(h)' /\ h \notin queue'
                       \/ \E c \in Client : Removing(c, h)'}

\* The steps of Next, each remembered.
HistoryNext ==
  \/ \E w \in Worker :
       \/ JobStep(w) /\ Remember
       \/ AbandonJob(w) /\ Remember
       \/ \E h \in Hash : StartJob(w, h) /\ Remember
  \/ \E c \in Client :
       \/ ClientStep(c) /\ Remember
       \/ List(c) /\ Remember
       \/ RequestFails(c) /\ Remember
       \/ Crash(c) /\ Remember
       \/ \E h \in Hash :
            \/ Delete(c, h) /\ Remember
            \/ \E r \in Reviewer, op \in {"approve", "reject"} :
                 StartReview(c, h, r, op) /\ Remember
  \/ \E h \in Hash :
       \/ Expire(h) /\ Remember
       \/ LockExpire(h) /\ Remember

HistorySpec == HistoryInit /\ [][HistoryNext]_allVars

FairHistorySpec == HistorySpec /\ Fairness

-----------------------------------------------------------------------------
(* Properties.                                                             *)

\* A request that has not itself outlived the 10 s of its lock holds it in Redis at
\* every read and write of its critical section, also when other requests have
\* outlived theirs and come back to write and to release: it never loses the
\* lock to the release of a request that held it before (redis.py 31-37,
\* 100-106, store.py 78).
HolderKeepsLock ==
  \A c \in Client, h \in Hash : Critical(c, h) /\ c \notin late => lock[h] = c

\* Nobody is about to enqueue, or to decide, entry h.
Settled(h) ==
  /\ \A w \in Worker : job[w].hash = h => ~JobAt(w, "enqueue")
  /\ \A c \in Client : ~Critical(c, h)

\* Every entry that waits for a review is in the queue the reviewers are shown,
\* although the deciding approval leaves the queue before the entry is updated,
\* a listing sweeps hashes it has read earlier, and entries are deleted, expire
\* and are stored again by several jobs (review.py 88-98, service.py 89-92,
\* routers/cache.py 56-62).  The entries that the code does let slip are named:
\* NeverListed, ApprovalLost and BackTooSoon, each at one place of the code.
PendingIsReviewable ==
  \A h \in Hash : Pending(h) /\ Settled(h) => h \in queue \cup unlisted

=============================================================================
