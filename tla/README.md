# A verification of doc-agent

doc-agent (`src/`) is a question-answering service over uploaded documents: a
FastAPI application that keeps documents in PostgreSQL and Milvus, answers
questions with an agent graph, caches retrieval results and answers in Redis
behind a human review, and remembers conversations.  Every request handler and
background task is an asyncio coroutine, several server processes may share the
stores, and none of the stores share a transaction: most of what can go wrong
lies between two awaits.

This directory models the parts where that matters in TLA+, checks them on small
instances with TLC, and proves the main safety properties with TLAPS for every
value of the constants.

    tlc -workers 2 -config RagCacheHostile.cfg MCCacheHistory
    tlapm RagCacheProofs.tla

`PROJECT.json` lists the components, the runs, the mutants that show that each
property depends on the code, the source lines of every definition, the hazards
and the theorems.

## 1. The system

| Part | Code | State | Operations |
|---|---|---|---|
| Knowledge base (M1) | `knowledge_base/`, `routers/knowledge_base.py` | `documents`, `chunks_metadata` (PostgreSQL), the Milvus collection | upload, background ingest (parse, clean, chunk, deduplicate, embed, store), status, delete |
| Retrieval (M2) | `retrieval/` | none | vector and BM25 search, rank fusion, reranking, routing |
| RAG cache (M3) | `cache/`, `routers/cache.py` | entries `rag_cache:<hash>`, the sorted set `review:pending`, locks `rag_cache_lock:<hash>`, counters | look up or retrieve, save an answer, approve, reject, delete, list |
| Agent (M4) | `agent/`, `routers/agent.py`, `clients/mq.py` | `agent:job:<id>`, `agent:job:<id>:tokens`, the Redis stream and its group | enqueue, consume, run the graph, stream the answer |
| Memory (M5) | `memory/` | recent turns (Redis), summaries and static facts (PostgreSQL, Milvus) | append, compact, clear, add and delete facts |
| Consistency (M6) | `consistency/` | a second consumer group of the same stream | on a knowledge base event, delete the cache entries of that version |
| Clients, lifespan, middleware | `clients/`, `__init__.py`, `middleware/`, `core/` | connections, rate limit counters, background tasks | connect, lock, publish, consume, count |

How they interact:

- `POST /agent/query` writes a job record and publishes to the stream; the agent's
  consumer runs the graph, whose retrieval node calls `get_or_retrieve` of the
  cache and whose generate node pushes tokens and calls `save_answer`; the SSE
  endpoint polls the token list and the job's status.
- Reviewers call the cache router, which works on the same entries as the agent's
  jobs; only approve and reject take the entry's lock.
- An ingest and a deletion publish `kb_updated` and `kb_deleted` to the *same*
  stream.  The consistency group invalidates on them.  The agent's group gets them
  as well and runs each as a job with the id `unknown` and an empty query.
- The lifespan starts both consumers as tasks and cancels each of them once.

What is hard, and the properties that answer it:

- **Stale copies.** A coroutine reads an entry, awaits, and writes it back: the
  jobs without a lock, the reviews under one that may expire.
  (`CopiesSound`, `HolderKeepsLock`, `AnswerFitsEntry`, `ApprovedTerminal`)
- **Lost updates** between two reviewers. (`MutualExclusion`, `ImplementsLifecycle` of
  `RagCache`)
- **Two pieces of state in separate commands**: the entry and its place in the
  queue, the job's record and its message, PostgreSQL and Milvus, a status and the
  event that announces it. (`PendingIsReviewable`, `ImplementsLifecycle` of
  `AgentJobs`, `IndexedInBothStores`, `IndexedIsFindable`, `DeletedLeavesNothing`, `IndexedIsTold`,
  `FactStoresAgree`)
- **Failures in the middle**: an exception, a cancellation or a crash at any await.
  (`LockReleased`, `AckedIsSettled`, `ShutdownEnds`)
- **Startup and shutdown broken off** at any call, over several starts and in several
  processes. (`StoppedIsClosed`, `TasksHaveClients`, `ServingIsReady`)
- **Polling a moving target**: the token stream. (`ImplementsLifecycle` of `AgentJobs`)
- **A set that changes while it is scanned**: entries are written, expire and are
  removed by others between the rounds of an invalidation. (`AckedIsSwept`)
- **Retrieve, be overtaken, store**: passages are retrieved before an event and stored
  after the invalidation it caused. (`OlderPassagesGone`)
- **Read, think, delete**: a list of turns is read, summarised by an LLM that takes
  seconds, and deleted, while other requests append, trim and summarise.
  (`NothingLost`, `SummaryGrows`)
- **Whatever the LLM replies**: the ranking of passages may repeat, invent or leave out
  indices, and one of two searches may fail. (`FusionSound`, `SearchComplete`,
  `PromptSound`)
- **Index arithmetic**: windows over a text. (`NothingSkipped`, `WindowsAdvance`)
- **Counters with a TTL**, over crashes. (`WindowRespected`, `NobodyLockedOut`)
- **Progress**: jobs, ingests, locks, invalidations, compactions. (`EveryJobEnds`,
  `IndexedIsTold`, `LaterEventsHandled`, `FullListFolded`)

## 2. The modules

| Module | Models | Used by |
|---|---|---|
| `RagCache` | entries, queue, locks, jobs and requests of M3 | `MCRagCache`, `CacheHistory` |
| `ReviewLifecycle` | abstract: what the review of an entry promises | `RagCache` (refinement) |
| `CacheHistory` | `RagCache` with what is remembered of its past, for the properties of queue and lock | `MCCacheHistory`, `RagCacheProofs` |
| `MCRagCache`, `MCCacheHistory` | symmetry for the runs of the two | |
| `RagCacheProofs` | theorems about `RagCache` and `CacheHistory` | |
| `AgentJobs` | the job pipeline of M4, over the stream of `clients/mq.py` | `AgentJobsProofs` |
| `JobLifecycle` | abstract: what the pipeline promises whoever asks a question | `AgentJobs` (refinement) |
| `AgentJobsProofs` | theorems about `AgentJobs` | |
| `KnowledgeBase` | upload, ingest and deletion of M1 over two stores | `KnowledgeBaseProofs` |
| `KnowledgeBaseProofs` | theorems about `KnowledgeBase` | |
| `Consistency` | the invalidation of cached entries by M6 | `Invalidation` |
| `Invalidation` | `Consistency` with the jobs and reviews of M3 that fill the cache | `ConsistencyProofs` |
| `ConsistencyProofs` | theorems about `Consistency` and `Invalidation` | |
| `Memory` | the turns and the summary of a session of M5 | `MemoryProofs` |
| `MemoryProofs` | theorems about `Memory` | |
| `StaticFacts` | adding and deleting the static facts of M5 | `MCQuery` |
| `Chunker` | how M1 cuts a section into chunks | `MCQuery` |
| `Retrieval` | the searches, fusion and reranking of M2, as functions | `AgentGraph` |
| `AgentGraph` | the nodes of the agent graph (M4) over M2 and entries of M3 | `MCQuery`, `AgentGraphProofs` |
| `AgentGraphProofs` | theorems about `Retrieval` and `AgentGraph` | |
| `MCQuery` | instances of `AgentGraph`, `Chunker` and `StaticFacts`, side by side | `QueryProofs` |
| `QueryProofs` | theorems about `Chunker`, `StaticFacts` and the three of `MCQuery` together | |
| `Lifespan` | startup and shutdown of the application, beside other processes | `Server` |
| `RateLimit` | the counters of the rate limits | `Server` |
| `Server` | `Lifespan` and `RateLimit` in one process | `MCServer`, `ServerProofs` |
| `MCServer` | the clients of the application, for the run of `Server` | |
| `ServerProofs` | theorems about `Lifespan`, `RateLimit` and `Server` | |

In all of them one Redis command, one PostgreSQL transaction, one Milvus call is
one step, and two of them are two steps with anything in between.  A program
counter (`pc`) says which call a coroutine makes next; the record it sits in holds
what the coroutine has read and will use later.  What the environment may do
(errors, crashes, expiry, cancellations) is a set `Faults`, so that a run says
which faults it looks at.  The definitions near the top of a module that no other
definition uses are variants the code might have had, for the mutants.

### RagCache

| Variable | Code |
|---|---|
| `entry[h]` | the value of `rag_cache:<h>`: status, reviewers, whether it has an answer.  `approval_count` and `approved_by` are always written together from one read, so the set of reviewers stands for both |
| `queue` | the members of `review:pending` |
| `lock[h]` | whose token is in `rag_cache_lock:<h>` |
| `job[w]` | a run of the agent graph: `get_or_retrieve`, then `save_answer` |
| `req[c]` | an HTTP request of `routers/cache.py` |

A job is `Lookup`, `Create` (a plain SETEX, whatever the key holds by now),
`Enqueue` (the Lua script), `ReadForAnswer`, `SaveAnswer`.  A review is
`AcquireLock`, `ApproveCheck` or `RejectCheck`, `Dequeue`, then
`update_status_under_lock` in three steps (`Reread`, `CheckTtl`, `WriteStatus`),
`Cleanup` and `ReleaseLock`.  `Delete`/`Forget` and `List`/`Fetch`/`Sweep` take no
lock.  `Expire`, `LockExpire`, `RequestFails`, `Crash` and `AbandonJob` are the
environment.  Whether the quality gate approves is a choice (`Decision`).

### CacheHistory

Two history variables, which no step of the cache reads. `late` are the requests whose
lock has run out while they held it. `unlisted` are the entries that may be pending
outside the queue: `Slips` names the three places of the code where that happens,
`NeverListed` (the queue was full, or the job failed before the script), `ApprovalLost`
(the deciding approval failed between ZREM and SETEX) and `BackTooSoon` (the entry
became pending again while a request was about to remove its hash, or under the late
write of an approval). A hash stays `unlisted` until it is in the queue again or no
longer pending, and nobody is about to remove it.

### AgentJobs

`log`, `cursor` and `pel` are the stream, how far the agent's group has read it and
its pending entries list; they are modelled from how `clients/mq.py` uses Redis
(`XREADGROUP` with `>` only, `XACK`, no claiming). `record`, `tokens` and `ttl` are
the keys of the jobs. `worker[k]` is `run_consumer`: `Poll` takes a batch, each
message goes through `SetStatus`, `ExpireJob`, `ExpireTokens`, the graph (`PushToken`,
`FinishGraph`), the same three for the outcome, and `Ack`. `Raised` says where an
exception goes from each point: the handler, the `finally` block with its
acknowledgement, or the loop with its pause. `Cancel` is the lifespan. `sse[s]` is the
SSE endpoint. A token is its position in the answer, so a list of tokens is its
length.

`JobLifecycle` is what is left of this for whoever asks a question: `status` and
`answer` of a job and the `view` of a reader, with no messages, consumers or polls. The
refinement mapping takes `record` and `tokens` of the jobs (not of the events, which
run under the id `unknown`) and of `sse[s]` the job, what was sent and the last event.

### KnowledgeBase

`status` and `rows` are the two tables (rows go with their document by cascade, and
`content_hash` is unique), `vectors` is the collection.  `ingest[d]` is the background
task: one action per transaction or call of `UpdateCoordinator.ingest`, `AfterError` and
`RecordFailure` for its `except` block.  `request[r]` is a deletion: `StartDelete`,
`DeleteDocument`, the query and the delete of `delete_by_doc_id`, and the
event.  It may begin and go on while the ingest runs; the field `row` of the task
remembers whether the row of the document was deleted under it (`Cut`).  A chunk is
its content hash.

### Consistency

`keys` are the entries of the cache; of their values only `born` is kept, how many
messages there were when the entry was last written.  `log`, `cursor` and `pel` are
the stream as the consistency group sees it.  `sweeper[c]` is
`ConsistencyService._loop`: `Poll` takes a batch; each message is swept
(`BeginSweep`, then `Scan` and `Unlink` in turn) or skipped (`Skip`), and
acknowledged (`Ack`).  An exception anywhere (`Fail`) leaves `run_once`; `Wake` is
the end of the back-off.  `Stop` and `Start` are the lifespan, or a crash.  SCAN is
modelled by what Redis guarantees and no more: a page may be empty or repeat keys,
keys that come and go may or may not be returned, and the cursor is 0 only after
every key that was there throughout (`left`) has been.  `partial` are the messages
whose sweep was logged as incomplete.

### Invalidation

Extends `Consistency`: its `Write` becomes the last step of a writer. `held[w]` is what
a coroutine of M3 is about to store: passages it has retrieved (`Retrieve`), or the
value of an entry it has read (`ReadEntry`, in `save_answer` or a review); `Store` is
the SETEX, `GiveUp` a refused transition, an exception or a crash. How the copy of a
review is made and checked is in `RagCache`; here only the date of its passages
matters. `found[k]` is that date for the entry k, counted in messages published.
`exposed` is a history variable: for which messages and keys a writer held older
passages between the first SCAN and the acknowledgement.

### Memory

A turn is its position in the order of the RPUSHes.  The list loses turns at its old
end (LTRIM) or altogether (DEL, TTL), so it is always `oldest .. appended`.
`summary` is the set of turns the session's row was made from, directly or through
the summary before it.  `request[w]` is an append, `Push`, `Trim`, `Count`, `SetTtl`,
that goes on to a compaction if it found the list `Full`, or `POST
/memory/summarize`, which begins with it: `GetTurns`, `GetPrevious`, `Save`, `Clear`.
`ClearFails` is the retry loop; `Fails` is an exception of any other call, which ends
the request.  `excuses` is a history variable: whether a turn was pushed while a list
that had been read was waiting to be deleted, and whether the list expired.

### StaticFacts

`facts` are the rows of `memory_static_facts`, `memory` the entities of the Milvus
collection, both by fact id, which is fresh for every request. `adding[f]` is `POST
/memory/static`: `EmbedFact`, `InsertFact` (which does nothing if the content is
there), `MemoryInsert`. `removing[r]` is the DELETE: `DeleteFact`, `MemoryDelete`.
`forgotten` is a history variable: the facts deleted with success after they were
added with success.

### Retrieval and AgentGraph

`Retrieval` has no state: `RankedLists` are the lists of the searches that did not
raise, `RrfFuse` their fusion, `LLMRerank` the reranker for any list of indices the
LLM replies. The scores of the fusion are integers in the same order as the code's
fractions. `Sorted` is what Python's `sorted` does with an order that leaves no two
elements equal; `RrfFuse` breaks ties by who was named first, as a stable sort of an
insertion-ordered dict does.

`AgentGraph` runs one job after another, as the consumer does. `state` is the
`AgentState`, as far as nodes read it; `node` is the node, or the call of it, that
comes next: `cache_lookup`, `retrieval` with the calls of `get_or_retrieve` and of the
retriever (`search`, `llm_rerank`, `create`, `enqueue`), `rerank`, `generate` with
those of `save_answer`. `AfterLookup` and `AfterRetrieval` are the conditional edges.
An entry has the passages it holds and the passages its answer was generated from.
`Generate` cuts the context to `_MAX_CONTEXT_CHARS`: `ContextRoom` passages are certain
to fit (with chunks of 512 characters and two between them, 23 into 12 000), and of a
longer list as many as happen to be short enough (`Fitting`). Entries change meanwhile:
`Review` (how many approvals it takes is in `RagCache`), `Expire`, `OtherStores`, the
SETEX of another worker that read the key a while ago, with passages of its own or a
copy, and `OtherSaves`, another job's answer. `search.own` is a history field: this job
stored the passages that its key holds, or those in the copy it is writing back.

### Chunker

A text is a function from positions to four classes of characters, a chunk the set of
positions it is made of. `Start` takes any stripped section, size and overlap; `Cut`
is one turn of the `while` loop: `WindowEnd` is the search for the end of a sentence
in the second half of the window, `NextPos` the step back by the overlap.

### Lifespan, RateLimit, Server

`phase` and `next` say at which call of `_lifespan` the process is; `connected`,
`open` and `refused` are the clients, `tasks` the two background tasks, and
`collection[i]` what Milvus has of a collection. The phase is "down" when there is no
process, and any number of starts follow each other; `collection`, and `cut`, the
collections whose making was broken off, outlive them. `peer[p]` is the start of
another process, as far as it touches the collections: it looks for one, makes it, goes
on to the next, and may fail anywhere. A call that is broken off may have been
executed (`BreakOff`). `count`, `ttl` and `admitted`
are the counters in Redis, how long they live, and how many requests were let through
on their strength. `Server` takes requests only between startup and shutdown, and its
counters outlive it.

## 3. The runs

| Run | Checks | Shows |
|---|---|---|
| `cache_hostile` | `TypeOK`, `CopiesSound`, `HolderKeepsLock`, `PendingIsReviewable` | under every fault, including a lock that expires under its holder: what is stored together agrees, whoever has not outlived its own lock keeps it, and every pending entry is in the queue once its writers have settled, but for the three ways of slipping that are named |
| `cache_lifecycle` | `MutualExclusion`, `LockReleased`, `ImplementsLifecycle` | with one job at a time the entries implement `ReviewLifecycle`, and locks are exclusive and given up |
| `cache_terminal` | `ApprovedTerminal` - violated | with two jobs an approved entry becomes pending again |
| `jobs_run` | `AckedIsSettled`, `EveryJobEnds` | without Redis errors every job ends, and an acknowledged one is settled |
| `jobs_faults` | `TypeOK`, `ImplementsLifecycle` | under every fault the pipeline implements `JobLifecycle`: no job is run twice, streams are complete |
| `jobs_shutdown` | `ShutdownEnds` - violated | an acknowledgement that raises swallows the cancellation, and the shutdown hangs |
| `kb_run` | `TypeOK`, `IndexedInBothStores`, `DeletedLeavesNothing`, `IndexedIsFindable`, `IndexedIsTold` | the two stores agree, whatever fails and whenever documents are deleted, but where a deletion cut an ingest |
| `invalidation_run` | `FillTypeOK`, `AckedIsSwept`, `OlderPassagesGone`, `LaterEventsHandled` | with a namespace that matches, an acknowledged event has removed every older entry, older passages come back only through writers that held them during the sweep, and errors do not end the service |
| `consistency_noop` | `AckedIsSwept` - violated | with the configured namespace an event removes nothing |
| `memory_run` | `TypeOK`, `NothingLost`, `SummaryGrows`, `FullListFolded` | overlapping appends and compactions lose no turn but where the code has no provision |
| `query_run` | `QueryTypeOK`, `FusionSound`, `SearchComplete`, `PromptSound`, `AnswerFitsEntry`, `NothingSkipped`, `WindowsAdvance`, `FactStoresAgree` | from text to chunks, from chunks to an answer, and the facts: nothing is lost, invented or answered from other passages than those reviewed, but where the code has no provision |
| `server_run` | `StoppedIsClosed`, `TasksHaveClients`, `ServingIsReady`, `ServerTypeOK`, `WindowRespected`, `NobodyLockedOut` | starts and stops leave nothing open, and serve nothing unready but what another process is making or a start that was broken off has left; limits hold over restarts, and a client that waits gets through |

Bounds, and why they are enough for the question each run asks:

- *cache_hostile*: one hash (entries meet only in the queue); two jobs, so that the entry
  is created again while a request of its first life is under way; two requests of any
  kind, so that an approval, a listing or a deletion is overtaken by another; two
  reviewers with threshold two, so that an approval may be refused, counting or
  deciding. What one hash cannot show, a queue full of others and a listing whose page is
  not the whole queue, is left to the theorem `Reviewable`.
- *cache_lifecycle*: one job, because with two the refinement fails: that is
  `cache_terminal`.  Keys do not expire, because an entry that vanishes has no
  counterpart in the abstract life cycle.  Automatic approval is on, so that entries are
  created in either status.  The history variables are there too (`FairHistorySpec`); the
  refinement and the fairness are stated over the variables of `RagCache`.
- *jobs_run*: two jobs and an event in batches of two over two consumers, so
  that a batch may be split either way and the event be in front or behind.
- *jobs_faults*: one job with two tokens, so that the stream's reads may fall
  before, between and after; one Redis error, `MaxErrors = 1`; two consumers,
  so that a restarted one meets a live one.
- *jobs_shutdown*: the smallest instance, one job, one consumer, one error.
- *kb_run*: two documents, one of one content and one of two (`Text`), in any roles,
  with one deletion at a time: equal and overlapping documents; the failure or deletion
  of one before, while and after the other deduplicates against it.
- *invalidation_run*: one entry, and batches of two messages, so that a sweep is
  followed by another one in the same batch; a page that may be empty or hold the
  entry, so that a sweep takes several rounds, and two rounds, so that it may also be
  cut short; two consumers, so that sweeps remove each other's keys; two troubles, so
  that both consumers may be lost, or one twice; one writer, which may store what is
  older than the event under way, the one before, or both. Entries do not interact but
  through the page of a SCAN; with two entries or two writers the run takes longer than
  it is worth, and the theorems are about any number. `MaxMessages` and `MaxTroubles`
  only limit the environment.
- *consistency_noop*: the smallest instance, one message and one entry.
- *memory_run*: two requests, so that two compactions overlap, or one and an append;
  a threshold of two under a cap of four, which leaves room for one failure
  (`NothingLost` says that much), while the second one makes LTRIM drop turns and
  exhausts two tries of the clearing; five turns, so that the list exceeds its cap.
  `MaxAppended` and `MaxFailures` only limit the environment.  The LLM's window is
  the cap, as in the defaults (20 and 20): with a larger window `SummaryGrows` would
  not hold, because a list could be read before and after an LTRIM.
- *query_run*: the three modules share no variable, so each moves only while the other
  two are in their initial states, and nothing is lost. Four passages in lists of up
  to two, so that the two searches may share none, one or both, and the cut to two
  candidates drops two of four; a `top_k` of one, which cuts the candidates, and of
  three, which takes them all; replies of up to two indices, out of range, repeated or
  missing, here and in the rerank node, so that a list of two passages may grow to four
  and meet a context with room for three (23 with the defaults, which it takes a reply
  of two dozen repeats to exceed). Other workers store up to one passage (`MaxOther`):
  what matters is whether they are the job's own. The hash is one: entries of different
  hashes do not meet in the graph. Sections of up to six characters under every size
  up to five and every overlap: up to two full windows, and a sentence may end in the
  first half, in the middle and in the second half of one. Three facts of one content,
  two deletions: facts of different contents do not meet. Passages are symmetric.
  `MaxReply`, `MaxOther`, `MaxLength` and `MaxSize` are bounds of the model only.
- *server_run*: two of the six clients and both collections. Clients are all treated
  alike but for what their connect opens before it fails (`HalfOpen`) and which task needs
  them: one is half open and used by both tasks, the one before it neither; the theorems
  are about any list. One other
  process, so that each may find what the other has half made. Limits of two and one and
  a window of two ticks, so that a client exhausts one before the other and both windows
  may end at different times. One caller, because counters do not interact.
- The bounds on the length of an answer (`MaxTokens`), events (`MaxEvents`) and
  errors (`MaxErrors`) only limit how often the environment acts.

`CHECK_DEADLOCK FALSE` stands where the modelled work is finite and the program
then waits for requests.

Fairness. `LockReleased` assumes that a request that has started takes its next step
(the event loop resumes it; the Redis client raises rather than waits for ever) and
that Redis expires keys. `EveryJobEnds` and `ShutdownEnds` assume the same of a
consumer whose command has been answered, and that a graph ends: answers are finite.
`IndexedIsTold` assumes it of ingest tasks. `LaterEventsHandled` assumes it of the
consistency consumers, whose sweeps end because `max_iterations` bounds them, and
nothing of the writers.
`FullListFolded` assumes it of memory requests, and speaks of a list found full after
the last failure. `NobodyLockedOut` assumes that time passes, and nothing of servers
or clients: Redis expires keys without them. Nothing is assumed of faults, requests,
cancellations or new uploads.

## 4. The proofs

`RagCacheProofs` is about any number of hashes, reviewers, jobs and requests, any
threshold and capacity, and any set of faults:

| Theorem | Says |
|---|---|
| `Typing` | `[]TypeOK` |
| `Soundness` | `[]CopiesSound` |
| `Bound` | `[]QueueBounded`: the queue never exceeds `cache_max_pending_reviews` |
| `Exclusion` | `[]MutualExclusion`, when no holder outlives its lock |
| `Holding` | `[]HolderKeepsLock`, whatever has expired and whoever comes back late |
| `Implements` | `ImplementsLifecycle`, under `Orderly` |
| `Reviewable` | `[]PendingIsReviewable`, unconditionally |

That stored entries are sound is not inductive: an entry is overwritten by a copy some
coroutine read long before, over whatever the key has become. What is inductive is
`CopiesSound`, which says it of every entry and every copy on its way back,
together with what each `pc` says about the copy (a copy at `dequeue` belongs to an
approval, the copy of a rejection at `reread` is the rejected one). The proof of the
one step where a copy and a fresh read are merged, `Reread`, is the heart of it: the
merged entry takes the reviewers of the copy and the answer of the read, and is sound
because a transition that `ValidTransition` lets through never ends in a status that
disagrees with either. The assumptions used are those declared in `RagCache`:
`NoneAssumption`, `ThresholdAssumption`, `CapAssumption`, `FiniteAssumption` and
`SwitchAssumption`.

`Implements` is the refinement of `ReviewLifecycle`, for any numbers of hashes,
reviewers and requests. Its condition, `Orderly`, is that of the run `cache_lifecycle`:
one job at a time (with two, an approved entry becomes pending again), entries that
neither expire nor are deleted (they have no counterpart in the life cycle), and locks
that outlive their holders; requests may fail and processes crash anywhere. The
inductive invariant, `LifeInv`, says what a coroutine may rely on between reading an
entry and writing it back: the copy of an approval is the stored entry with one
reviewer more (`Reviewing`), because no one else holds the lock, and the copy a job
saves an answer in has the reviewers and the status of the stored one (`Saving`),
because an approved entry no longer changes. With it every write of an entry is one
step of the life cycle, and every other step a stutter (`LifecycleStep`).

`Holding` and `Reviewable` are about `CacheHistory`, and so need no condition: what the
code does not provide for is in the history. `Holding` rests on the token that
`_RELEASE_LOCK_SCRIPT` compares: only the expiry of its own lock takes it from a request,
which is then late. The invariant of `Reviewable` says of a pending entry that it is in
the queue or unlisted, or a job is about to put it there, or a request has taken it off
and will approve it; and of one who is about to remove a hash that the entry is
decided or gone, or has slipped. Each step that removes a hash, stores an entry, or gives
up half way is then either covered by the one or by the other.

`AgentJobsProofs` is about any number of jobs, consumers and streams, any batch size
and length of answers, and every fault where nothing else is said:

| Theorem | Says |
|---|---|
| `Typing` | `[]TypeOK` |
| `OneRunPerJob` | `[]JobsInv`: one message for each job, held by one consumer at a time |
| `Forward` | `StatusForward`: the status of a job only moves on |
| `StreamComplete` | `[]EndedStreamComplete`: a stream that ends with an outcome has sent every token |
| `Implements` | `ImplementsLifecycle` |
| `Settled` | `[]AckedIsSettled`, if no Redis command raises and nobody is cancelled |

`JobsInv` is the chain that a status going back would have to break: a record is
written before its one message is published (`PublishedOnce`), a message is in the
batch of one consumer and there once (`HeldOnce`), what nobody has begun is still
`queued` (`WaitingIsQueued`), and what the holder of a message writes next comes after
the status the record has (`HeadInStage`). A message that is interrupted is in no
batch and is never handed out again, so it needs no clause. `Forward` then looks at
each write; `StreamComplete` adds what a stream knows at its last read: the job has
ended (`StreamInv`), and by `Forward`'s argument pushes nothing any more.

`Implements` is the refinement of `JobLifecycle`. The same chain gives each write of a
status its abstract step (`ConsumerLife`): the holder of a message at `hset` with
`running` finds `queued`, and so on; the one write of `queued` is the first
(`EnqueueLife`). For readers it takes `ReadersInv` besides `StreamInv`: a reader that
goes to its last read with an error has seen one, which stays one (`ErrorStays`); it may
still be told `done` of a job that has gone on to `error`, which is why `End` in
`JobLifecycle` allows that and not the reverse.

`AckedIsSettled` does not hold when Redis raises in the handler's own status write, or
when a consumer is cancelled: the message is acknowledged all the same (section 5). The
two conditions of `Settled` exclude these and nothing else; graphs fail and consumers
crash. `HeadSettled` says what is written by the time a message is acknowledged.

`KnowledgeBaseProofs` is about any number of documents, contents and deletions:

| Theorem | Says |
|---|---|
| `Typing` | `[]TypeOK`, with the uniqueness of contents and the foreign key |
| `BothStores` | `[]IndexedInBothStores` |
| `NothingLeft` | `[]DeletedLeavesNothing` |
| `Findable` | `[]IndexedIsFindable` |

The three say nothing of a document whose row was deleted during its ingest (`Cut`):
of such a document the code does leave vectors behind, or rows without them (section
5).

The inductive invariant, `StoresInv`, says where rows and vectors of a document stand
at each step of its ingest (`RowsInv`), how far a deletion has got (`DeleteInv`), and
what an announcement promises (`GoneInv`). Each step is either local to one document
(`LocalTo`: the others and all deletions keep their part) or only takes away
(`OnlyTakes`), so that what remains to be shown of a step concerns the document or the
deletion it belongs to.

`Findable` adds `FindInv`: what an ingest left out because it was stored has a
`Source` in another document, one that holds the row or has been lost, and what it
found new has a vector once the status says so. That a source stays a source
(`SourceStays`) is what deduplication rests on: a row goes only with its document.

`ConsistencyProofs` is about any number of entries, versions, messages, consumers,
writers and rounds, any batch size and any failures:

| Theorem | Says |
|---|---|
| `Typing` | `[]TypeOK`: a consumer within a batch holds only messages handed out |
| `Swept` | `[]AckedIsSwept`, if the namespace swept is the one written to |
| `FillImplements` | `FillSpec => Spec`: what is proved of `Consistency` holds of `Invalidation` |
| `FillTyping` | `[]FillTypeOK`: no sweep goes on past its last round |
| `Refreshed` | `[]OlderPassagesGone`, under the same condition |

`AckedIsSwept` says nothing of a sweep under way.  The inductive invariant adds what
each consumer still owes (`Owed`): before a SCAN every outdated entry is among
the keys the iteration has not returned, before the UNLINK among those or on the
page, and before the acknowledgement there is none.  It rests on `StepsAreCalm`: no
step changes a message, and none makes an entry older, because a write is dated by
the messages there are by then.

For `OlderPassagesGone` that last argument fails: a write may well bring older
passages, whenever a writer holds some. `FillInv` says of every consumer between its
first SCAN and the acknowledgement that the keys for which some writer holds older
passages are `exposed` (`Covered`), and that the entries with older passages that are
not exposed are still owed to the iteration, or on its page (`Owed`, the same
operator as for `Swept`, and the same lemma, `SweepProgress`, for the steps of the
sweep). After the acknowledgement nobody has older passages of a key that is not
exposed, and so nobody can bring them back: what is retrieved later is newer, and what
is read from an entry is as new as the entry (`PassagesStay`).

`MemoryProofs` is about any number of requests and failures, any cap, threshold and
number of tries, and a window no smaller than the cap:

| Theorem | Says |
|---|---|
| `Typing` | `[]TypeOK`, with the bound on the length of the list |
| `Kept` | `[]NothingLost` |
| `Remembered` | `SummaryGrows`, if the window of the LLM is the cap |

`NothingLost` needs to know why LTRIM never bites: what the list holds beyond the
threshold is accounted for (`Within`) by requests that will still fold it or have yet
to measure it (`Pending`), and by failures. And it needs what a compaction holds
before it deletes (`ReadAll`): at `previous` the whole list, at `save` together with
the summary it read every turn, at `clear` every turn is in the summary. `KeptInv` is
their conjunction, under the condition of `NothingLost`. A push is the only step that
could break `ReadAll` of another request, and then there is an excuse.

`Remembered` needs an LLM that is shown as many turns as the cap allows, as with the
defaults. While no turn is pushed, all compactions at work then read the same turns
(`GrowInv`): an LTRIM takes away only turns outside every window. So whichever saves
first, the next one's previous summary and window together hold what it replaces
(`Covers`). With a larger window that is false: one compaction reads the list before an
LTRIM and one after it, and TLC finds the second save dropping the turn between them.

`QueryProofs` is about sections of any length and every size and overlap, and any number
of facts, contents and requests:

| Theorem | Says |
|---|---|
| `ChunkerTyping` | `[]ChunkerTypeOK`: positions stay within the section |
| `AllTextKept` | `[]NothingSkipped` |
| `Advances` | `WindowsAdvance`: windows end one after another if the overlap is at most half of the size |
| `LoopMovesOn` | a turn of the loop moves on or is the last, whatever the overlap |
| `FactsTyping` | `[]FactsTypeOK` |
| `StoresAgree` | `[]FactStoresAgree` |
| `PartsBehave` | `QuerySpec` implies the specifications of its three parts |
| `QueryTyping` | `[]QueryTypeOK` |
| `QueryKeepsPromises` | all other properties of the run `query_run`, of `QuerySpec` |

`NothingSkipped` is inductive with `end <= pos + overlap` (`ChunkerInv`): a window
starts no later than the last one ended, and strip takes only blanks off a window.
`FactsInv` adds to `FactStoresAgree` what a deletion under way knows of its fact: it has
begun, and at the vector its row is gone for good, because an id is inserted once.
`PartsBehave` is why the run may put the three together: a step of one leaves the
variables of the others alone, so each sees a step of its own or a stutter.

`AgentGraphProofs` is about any finite set of passages, any limits, results of the
searches and replies of the LLM, any number of hashes, and every failure, review and
expiry, and whatever other workers store; of `RrfK` it uses what `RetrievalAssumption` says:

| Theorem | Says |
|---|---|
| `GraphTyping` | `[]TypeOK` |
| `PromptKept` | `[]PromptSound` |
| `AnswerFits` | `AnswerFitsEntry` |
| `SearchGivesAll` | `SearchComplete` |
| `FusionKeepsRanks` | `[]FusionSound` |

`GraphInv` says what each node may rely on: the candidates are the cut of the fusion
(`CandidatesInv`), the list the rerank node works on has the passages of the retrieval
and the answer those the context had room for (`PromptInv`), and an entry this job has
created holds its passages for as long as `search.own` says so, and so does the copy it
writes back (`EntryInv`).

`FusionKeepsRanks` needs what sorting and scoring compute. `Places` and `SortedLists`
are about any strict order of a finite set: `Sorted` is a bijection, and whoever comes
before whom in the order does in the list. The fused list is one such (`Fused`), and the
reranked one is made of two (`RerankedKeeps`). Sums and products over finite sets are
folds, whose recursive definition no theorem of the library unfolds; `FoldExists` shows
by induction over the subsets of a finite set that there is a function that satisfies
the recursion, after which the sum of one or two shares and the divisibility of
`ScoreUnit` by each of its factors follow. The induction is over a set (`InductionSet`)
and not over an operator, which is what the provers can instantiate. What remains is
arithmetic: two shares are worth more than one because `RrfK + 2 > SearchTopK`, and a
better rank more than a worse one because `ScoreUnit` leaves no remainder.

`ServerProofs` is about any list of clients and collections, any other processes,
callers, limits and windows, and every failure, crash and restart:

| Theorem | Says |
|---|---|
| `ServerTyping` | `[]ServerTypeOK`: every counter has a TTL |
| `Closed` | `[]StoppedIsClosed` |
| `ClientsOutliveTasks` | `[]TasksHaveClients` |
| `Ready` | `[]ServingIsReady` |
| `LimitHolds` | `[]WindowRespected` |

`ServerInv` says of each phase which clients are open (all of them while tasks run,
those up to `next` during startup and shutdown, but for the ones that refused) and how
far each collection has got. What a start, of this process or another, has done at a
collection stands (`MakerInv`), because nobody takes a collection back; and a collection
is half made only while somebody is at it, or after its making was broken off
(`CollectionInv`). Of each counter it says that no more requests were let
through than it counts.

Only model-checked: liveness (`LockReleased`, `EveryJobEnds`, `IndexedIsTold`,
 `LaterEventsHandled`, `FullListFolded`, `NobodyLockedOut`), which is
beyond the prover. Every invariant and every action property of a passing run is
proved, and so are both refinements. Some theorems have a condition besides the
declared assumptions (`Exclusion`, `RagCacheProofs!Implements`, `Settled`,
`Remembered`, `Swept`, `Refreshed`); it is met by the run that checks the property, and
the text above says what the code does without it.

## 5. What the code does that one may not expect

Checked by a run, and contradicted by a document, a comment or a log message of the
repository (`findings` of `PROJECT.json` has the quotes):

- an approved entry can become pending, and then rejected (`cache_terminal`);
- a knowledge base event removes no entry of the cache: the pattern is made from
  `cache_rag_namespace`, `rag`, and the entries are kept under `rag_cache`
  (`consistency_noop`);
- a Redis error in the acknowledgement of a consumer that is being cancelled takes the
  place of the cancellation: the loop goes on, and the shutdown, which cancels once,
  hangs (`jobs_shutdown`).

Met while modelling, with no run of its own (where a property excepts the case, it is
named):

- Deleting a document during its ingest leaves the vectors that are inserted
  afterwards in Milvus, although the deletion was announced (`knowledge_base/store.py`
  194); deleted before its first step, the document comes back, is indexed, and may
  then lose its vectors to the deletion (`DeletedLeavesNothing`,
  `IndexedInBothStores`, `IndexedIsFindable`).
- A reviewer who approves a rejected entry is told that it is approved: `approve`
  takes the refused transition for an approval by someone else (`cache/review.py`
  99-103).
- `save_answer` creates an entry again that was deleted, or expired, between its
  read and its write, with its answer (`cache/service.py` 147-155).
- The hash of an expired entry stays in the pending queue and takes a place there
  (`routers/cache.py` 57-58) until the same query is cached and reviewed again.
- A deletion concurrent with the re-creation of the entry, or a failure between
  leaving the queue and the status update, leaves a pending entry that is in no
  queue (`routers/cache.py` 113, `cache/review.py` 90-94), and so does a full queue;
  with two jobs on one hash it takes no failure: the second SETEX may come while the
  request that has seen the entry decided is about to remove its hash
  (`PendingIsReviewable`).
- After a second Redis error, in the handler's own status write, a job is
  acknowledged and stays `running` until its record expires (`agent/consumer.py` 75).
- Knowledge base events are run by the agent's consumer as jobs named `unknown`
  (`agent/consumer.py` 38).
- A document whose vectors could not be stored keeps its rows, and later uploads of
  the same text are deduplicated against them and indexed without vectors
  (`knowledge_base/update.py` 75-76, `dedup.py`); the same happens after the
  document others were deduplicated against is deleted.
- A deletion whose Milvus call fails cannot be repeated: the row is gone, so the
  answer is 404 and the vectors stay (`knowledge_base/store.py` 189-194).
- The messages of a batch that an error interrupts are never processed, although
  `agent/consumer.py` 97 logs that it will retry: `consume` asks for `>` only
  (`clients/mq.py` 107) and nothing claims what is pending.  This holds for the jobs
  of the agent and for the invalidations of M6 alike.
- A version with a dot in it is rejected by `_VERSION_RE` (`consistency/consumer.py`
  10), so events of such a version invalidate nothing.
- A job that retrieved before an event may store its passages after the sweep, and a
  review may write back an entry that the sweep removed: they are served until the entry
  expires. It takes a writer that held them during the sweep (`consistency/invalidator.py`
  26; `OlderPassagesGone`).
- The reader of a job may be told `done` although the job ends as `error`: a Redis error
  in an EXPIRE after the status was written sends the finished job to the error handler
  (`agent/consumer.py` 66-75, `routers/agent.py` 96-104).
- A job cancelled at shutdown is acknowledged and stays `running`; no later consumer
  takes it up (`agent/consumer.py` 67-77).
- Turns pushed while a compaction waits for the LLM are deleted with the list,
  and are in no summary (`memory/service.py` 72-80).
- When compactions keep failing, LTRIM drops turns that are in no summary
  (`memory/recent.py` 17).
- `_MAX_INPUT_TURNS` is a constant and the cap is configured: with a cap above 20,
  turns the LLM has not seen are deleted (`memory/summary.py` 97). With a cap below
  20 a summary may forget a turn it had: two compactions, one of which read the list
  before an LTRIM, overwrite each other (`SummaryGrows`).
- The list of turns belongs to a session, the summary to a user and a session: with
  two users in one session, the turns go into the summary of the one whose request
  found the list full.
- Adding a fact that exists already inserts no row but a second vector, under an id
  that no row has and that can be neither listed nor deleted
  (`memory/static_knowledge.py` 32-52). A fact whose vector fails to be inserted keeps
  its row (`FactStoresAgree`).
- An answer may be saved with an entry that holds other passages than it was generated
  from: a job that misses on a pending entry retrieves for itself, and saves its
  answer if the entry has been approved by then (`cache/service.py` 136-143); and of two
  jobs that both miss, the second SETEX replaces the passages of the first, which saves
  its answer with them after an approval (`cache/service.py` 90; `AnswerFitsEntry`). An entry whose job fails before `save_answer`, or is approved
  only after it, never gets an answer of that job.
- Retrieved passages carry no embeddings, so the quality score is 0 and nothing is
  approved automatically under the default threshold (`core/config.py` 81).
- A cache hit is served whatever `top_k` the question asks for (`cache/service.py`
  59-65).
- The rewriter promises the same key for the same raw question, but the graph passes
  it what the LLM has made of the question (`agent/nodes.py` 110-148).
- The ranking of the LLM reranker may repeat an index; its passage then takes several
  places of the result and crowds out others (`retrieval/reranker.py` 61-67;
  `SearchComplete` counts such places). The rerank node cuts nothing, but repeats make
  the context longer, and its cut to 12 000 characters then takes passages off the end
  (`agent/nodes.py` 179-189, 229-234; `PromptSound`).
- A startup broken off between creating a Milvus collection and loading it leaves one
  without an index that later starts take for complete; and a second process that starts
  while the first is making a collection finds it created, and serves before it is indexed and loaded, with nothing broken off
  (`clients/milvus.py` 75-76; `ServingIsReady`).
- A failure of startup after the connect loop (`__init__.py` 70-105) disconnects
  nothing and leaves the consistency task running until the process ends; so does a
  failure of `ensure_group` for the connection that was just opened (`clients/mq.py`
  64-94).

## 6. Not modelled

- Text and numbers: parsing, cleaning, query normalisation, the words of prompts,
  embeddings, similarity scores. Where their outcome matters it is a
  nondeterministic choice.
- Reads without effect: status and metrics endpoints, the semantic cache lookup, the
  hit and miss counters.
- `update_status` and `invalidate_all` of the cache store, which nothing calls.
- Configuration, logging, headers, health, the static frontend, the semaphores of the
  LLM client: no state, or none that other parts depend on.
- Several users of one session. That the LLM keeps in a summary what it is given is
  assumed.
- The ingest lock: its key contains the fresh document id, so it is never contended.
- The expiry of job records, 1 h after their last status.

## 7. Plan

Done: all modules, runs and theorems above. What would come next:

1. The hazards that no property covers: the deletion that cannot be repeated
   (`knowledge_base/store.py` 194); turns the LLM is not shown (`memory/summary.py` 97);
   the cancelled job that nobody takes up (`agent/consumer.py` 69).
2. `AckedIsSettled` and `EveryJobEnds` with Redis errors, and the jobs they lose named as
   `CacheHistory` names the entries.
3. A finer `Invalidation`, in which the writers are the jobs and requests of `RagCache`
   rather than any coroutine that reads and then writes.
