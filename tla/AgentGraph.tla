----------------------------- MODULE AgentGraph -----------------------------
(***************************************************************************)
(* One agent job at a time as the graph of app/agent/graph.py runs it:     *)
(* each node of nodes.py with the calls it makes, the hybrid retriever     *)
(* behind the retrieval node, and the cache entries it reads and writes.   *)
(* Meanwhile reviewers decide on entries, entries expire, and the jobs of  *)
(* other workers store theirs.  The consumer processes its jobs in turn,   *)
(* so a next question follows every one.                                   *)
(*                                                                         *)
(* What RagCache models is abstracted here: how many approvals an entry    *)
(* needs, the pending queue, the locks, the order of other workers' reads  *)
(* and writes.  Here an entry has the passages it holds, and an answer the *)
(* passages it was generated from.  Prompts, tokens, scores and embeddings *)
(* are left out, of a context's length all but how many passages fit.      *)
(***************************************************************************)
EXTENDS Retrieval

CONSTANTS
  Hash,         \* hashes of normalized queries
  None,         \* no hash
  TopK,         \* the top_k jobs ask for
  AutoApprove,  \* settings.cache_auto_approve
  ContextRoom,  \* so many passages fit into _MAX_CONTEXT_CHARS, however long
  MaxReply,     \* bound: indices in a ranking the LLM returns
  MaxOther,     \* bound: passages other workers store with an entry
  Faults        \* what the environment may do

ASSUME GraphAssumption ==
  /\ None \notin Hash
  /\ TopK \subseteq Nat \ {0}
  /\ AutoApprove \in BOOLEAN
  /\ {ContextRoom, MaxReply, MaxOther} \subseteq Nat
  /\ Faults \subseteq {"error", "expiry"}

VARIABLES
  node,    \* the node the job is in, or the call of it that comes next
  state,   \* the AgentState of the job, as far as nodes read it
  search,  \* what the retriever and the cache service hold between two calls
  entry    \* entry[h]: the cache entry of hash h

vars == <<node, state, search, entry>>

-----------------------------------------------------------------------------
(* Variants the code might have had, used only to show that the properties *)
(* depend on the code they are about.                                      *)

RankedOnly(chunks, reranked) == reranked

-----------------------------------------------------------------------------

Answer == [text : BOOLEAN, from : SUBSET Passage]

NoAnswer == [text |-> FALSE, from |-> {}]

\* At most FinalTopK passages, and an LLM may repeat some.
Chunks == UNION {[1 .. n -> Passage] : n \in 0 .. FinalTopK}

Entry == [status : {"absent", "pending_review", "approved", "rejected"},
          chunks : Chunks, answer : Answer]

NoEntry == [status |-> "absent", chunks |-> <<>>, answer |-> NoAnswer]

\* rewritten_query is known by its hash; reranked_chunks may be longer than chunks.
AgentState == [topK : TopK \cup {0}, embedded : BOOLEAN, cacheHit : BOOLEAN,
               chunkCacheHit : BOOLEAN, hash : Hash \cup {None}, chunks : Chunks,
               reranked : Seq(Passage), answer : Answer]

\* own is a history: this job stored the passages under its hash, or what it read of
\* them to write back.
NoSearch == [seen |-> "absent", lists |-> <<>>, candidates |-> <<>>, copy |-> NoEntry,
             own |-> FALSE]

Node == {"idle", "cache_lookup", "stream_cached", "retrieve_memory", "query_rewrite",
         "retrieval", "search", "llm_rerank", "create", "enqueue", "entity_extraction",
         "rerank", "generate", "save_answer", "write_answer", "cache_write",
         "done", "failed"}

At(label) == node = label

InitialState(k) ==
  [topK |-> k, embedded |-> FALSE, cacheHit |-> FALSE, chunkCacheHit |-> FALSE,
   hash |-> None, chunks |-> <<>>, reranked |-> <<>>, answer |-> NoAnswer]

Init ==
  /\ node = "idle"
  /\ state = InitialState(0)
  /\ search = NoSearch
  /\ entry = [h \in Hash |-> NoEntry]

-----------------------------------------------------------------------------
(* The nodes.                                                              *)

\* The consumer takes the next job.
StartJob ==
  /\ node \in {"idle", "done", "failed"}
  /\ node' = "cache_lookup"
  /\ \E k \in TopK : state' = InitialState(k)
  /\ search' = NoSearch
  /\ UNCHANGED entry

AfterLookup(cacheHit, user) ==
  IF cacheHit THEN "stream_cached"
  ELSE IF user THEN "retrieve_memory" ELSE "query_rewrite"

\* An approved entry with an embedding whose answer is not empty; entries get the
\* two together.
Servable(h) == entry[h].status = "approved" /\ entry[h].answer.text

\* The best match of the scan, if any is similar enough; an embedding that fails
\* is a miss.
CacheLookup ==
  /\ At("cache_lookup")
  /\ \/ /\ "error" \in Faults
        /\ state' = state
     \/ state' = [state EXCEPT !.embedded = TRUE]
     \/ \E h \in Hash :
          /\ Servable(h)
          /\ state' = [state EXCEPT !.embedded = TRUE, !.cacheHit = TRUE, !.hash = h,
                                    !.answer = entry[h].answer]
  /\ \E user \in BOOLEAN : node' = AfterLookup(state'.cacheHit, user)
  /\ UNCHANGED <<search, entry>>

StreamCached ==
  /\ At("stream_cached")
  /\ node' = "cache_write"
  /\ UNCHANGED <<state, search, entry>>

\* Fails without consequence.
RetrieveMemory ==
  /\ At("retrieve_memory")
  /\ node' = "query_rewrite"
  /\ UNCHANGED <<state, search, entry>>

\* The LLM rewrites a question freely, so its hash may be any.
QueryRewrite ==
  /\ At("query_rewrite")
  /\ \E h \in Hash : state' = [state EXCEPT !.hash = h]
  /\ node' = "retrieval"
  /\ UNCHANGED <<search, entry>>

AfterRetrieval(chunkCacheHit) ==
  IF chunkCacheHit THEN "generate" ELSE "entity_extraction"

\* get_or_retrieve: an approved entry is served as it is, whatever top_k is.
LookupEntry ==
  LET e == entry[state.hash] IN
  /\ At("retrieval")
  /\ IF e.status = "approved"
       THEN /\ state' = [state EXCEPT !.chunks = e.chunks, !.chunkCacheHit = TRUE]
            /\ node' = AfterRetrieval(TRUE)
            /\ UNCHANGED search
       ELSE /\ node' = "search"
            /\ search' = [search EXCEPT !.seen = e.status]
            /\ UNCHANGED state
  /\ UNCHANGED entry

\* Both searches run; one that raises is left out, and both raising fails the job.
SearchFailures == {{}} \cup IF "error" \in Faults THEN {{1}, {2}} ELSE {}

SearchLists ==
  {RankedLists(o[1], o[2]) : o \in (Bm25Results \X VectorResults) \X SearchFailures}

SearchResults ==
  {[lists |-> l, candidates |-> FirstN(RrfFuse(l), RerankTopN)] : l \in SearchLists}

Search ==
  /\ At("search")
  /\ \E r \in SearchResults :
       search' = [search EXCEPT !.lists = r.lists, !.candidates = r.candidates]
  /\ node' = "llm_rerank"
  /\ UNCHANGED <<state, entry>>

\* A reply that is no ranking, or none, names nothing.
Replies(chunks) == UNION {[1 .. n -> 0 .. Len(chunks)] : n \in 0 .. MaxReply}

RerankCandidates ==
  LET n == Min({state.topK, FinalTopK}) IN
  /\ At("llm_rerank")
  /\ \E indices \in Replies(search.candidates) :
       state' = [state EXCEPT !.chunks = LLMRerank(search.candidates, indices, n)]
  /\ node' = IF search.seen = "absent" THEN "create" ELSE AfterRetrieval(FALSE)
  /\ search' = [search EXCEPT !.lists = <<>>, !.candidates = <<>>]
  /\ UNCHANGED entry

\* Approved at once only if that is configured and something was found, depending
\* on the quality threshold.
DecideStatus(chunks) ==
  IF AutoApprove /\ chunks # <<>> THEN {"approved", "pending_review"}
                                  ELSE {"pending_review"}

Create ==
  /\ At("create")
  /\ \E s \in DecideStatus(state.chunks) :
       entry' = [entry EXCEPT ![state.hash] =
                   [status |-> s, chunks |-> state.chunks, answer |-> NoAnswer]]
  /\ search' = [search EXCEPT !.own = TRUE]
  /\ node' = "enqueue"
  /\ UNCHANGED state

\* Lists a pending entry for review, or counts an approved one.
Enqueue ==
  /\ At("enqueue")
  /\ node' = AfterRetrieval(FALSE)
  /\ UNCHANGED <<state, search, entry>>

EntityExtraction ==
  /\ At("entity_extraction")
  /\ state' = [state EXCEPT !.reranked = state.chunks]
  /\ node' = "rerank"
  /\ UNCHANGED <<search, entry>>

\* The same ranking, with nothing cut.
Rerank ==
  /\ At("rerank")
  /\ \E indices \in Replies(state.reranked) :
       state' = [state EXCEPT !.reranked = Reranked(state.reranked, indices)]
  /\ node' = "generate"
  /\ UNCHANGED <<search, entry>>

EffectiveChunks(chunks, reranked) == IF reranked # <<>> THEN reranked ELSE chunks

\* How many passages the cut to _MAX_CONTEXT_CHARS leaves whole: all that are
\* certain to fit, and of the others as many as are short enough.
Fitting(passages) ==
  IF Len(passages) <= ContextRoom THEN {Len(passages)} ELSE ContextRoom .. Len(passages)

\* The LLM may stream no text at all.  A passage cut in the middle does not count.
Generate ==
  LET context == EffectiveChunks(state.chunks, state.reranked) IN
  /\ At("generate")
  /\ \E text \in BOOLEAN, n \in Fitting(context) :
       state' = [state EXCEPT !.answer =
                   [text |-> text, from |-> ToSet(FirstN(context, n))]]
  /\ node' = IF state.embedded /\ state.hash # None /\ ~state.chunkCacheHit
               THEN "save_answer" ELSE "cache_write"
  /\ UNCHANGED <<search, entry>>

Savable(e) == e.status = "approved"

SaveAnswer ==
  /\ At("save_answer")
  /\ IF Savable(entry[state.hash])
       THEN /\ node' = "write_answer"
            /\ search' = [search EXCEPT !.copy = entry[state.hash]]
       ELSE /\ node' = "cache_write"
            /\ UNCHANGED search
  /\ UNCHANGED <<state, entry>>

\* The copy read before is written back, also over what happened meanwhile.
WriteAnswer ==
  /\ At("write_answer")
  /\ entry' = [entry EXCEPT ![state.hash] = [search.copy EXCEPT !.answer = state.answer]]
  /\ node' = "cache_write"
  /\ UNCHANGED <<state, search>>

\* A failing save_answer is logged only.
SaveFails ==
  /\ "error" \in Faults
  /\ node \in {"save_answer", "write_answer"}
  /\ node' = "cache_write"
  /\ UNCHANGED <<state, search, entry>>

\* The state of a job that has ended is dropped.
EndJob(label) ==
  /\ node' = label
  /\ state' = InitialState(0)
  /\ search' = NoSearch
  /\ UNCHANGED entry

\* The key of the answer is read by nobody.
CacheWrite == At("cache_write") /\ EndJob("done")

\* A call without an except clause raises, and the job ends with status error.
NodeRaises ==
  /\ "error" \in Faults
  /\ node \in {"cache_lookup", "stream_cached", "query_rewrite", "retrieval", "search",
               "create", "enqueue", "rerank", "generate", "cache_write"}
  /\ EndJob("failed")

-----------------------------------------------------------------------------
(* What happens to entries meanwhile.                                      *)

Review(h) ==
  /\ entry[h].status = "pending_review"
  /\ \E verdict \in {"approved", "rejected"} :
       entry' = [entry EXCEPT ![h].status = verdict]
  /\ UNCHANGED <<node, state, search>>

\* A job between the two halves of save_answer has its copy already.
Becomes(h, e) ==
  LET kept == h # state.hash \/ At("write_answer") \/ e.chunks = entry[h].chunks IN
  /\ entry' = [entry EXCEPT ![h] = e]
  /\ search' = [search EXCEPT !.own = @ /\ kept]
  /\ UNCHANGED <<node, state>>

\* The TTL ends, or the entry is deleted or invalidated.
Expire(h) ==
  /\ "expiry" \in Faults
  /\ entry[h] # NoEntry
  /\ Becomes(h, NoEntry)

OtherChunks == {c \in Chunks : Len(c) <= MaxOther}

Answered(e) == [e EXCEPT !.status = "approved",
                         !.answer = [text |-> TRUE, from |-> ToSet(e.chunks)]]

\* What a worker stores that read the key a while ago: the entry of another
\* retrieval, or a copy with a verdict or with an answer.
OtherEntries ==
  LET undecided == [status : {"pending_review", "approved", "rejected"},
                    chunks : OtherChunks, answer : {NoAnswer}]
  IN undecided \cup {Answered(e) : e \in undecided}

\* SETEX compares nothing, so what was stored before is lost.
OtherStores(h) == \E e \in OtherEntries : Becomes(h, e)

\* Another job saves its answer with the entry as it stands.
OtherSaves(h) == Savable(entry[h]) /\ Becomes(h, Answered(entry[h]))

-----------------------------------------------------------------------------
(* The specification.                                                      *)

JobStep ==
  \/ CacheLookup \/ StreamCached \/ RetrieveMemory \/ QueryRewrite \/ LookupEntry
  \/ Search \/ RerankCandidates \/ Create \/ Enqueue \/ EntityExtraction \/ Rerank
  \/ Generate \/ SaveAnswer \/ WriteAnswer \/ SaveFails \/ CacheWrite \/ NodeRaises

Meanwhile(h) == Review(h) \/ Expire(h) \/ OtherStores(h) \/ OtherSaves(h)

Next == StartJob \/ JobStep \/ \E h \in Hash : Meanwhile(h)

Spec == Init /\ [][Next]_vars

-----------------------------------------------------------------------------
(* Properties.                                                             *)

\* Every variable keeps its type, and an answer is kept only with an approved entry
\* (nodes.py, state.py, cache/schemas.py).
TypeOK ==
  /\ node \in Node
  /\ state \in AgentState
  /\ search.lists \in Seq(VectorResults) /\ search.copy \in Entry
  /\ search.candidates \in Seq(Passage) /\ search.own \in BOOLEAN
  /\ entry \in [Hash -> Entry]
  /\ \A h \in Hash : entry[h].answer # NoAnswer => entry[h].status = "approved"

\* p comes before q in s, or q is cut off.
Precedes(s, p, q) ==
  LET place(x) == SelectInSeq(s, LAMBDA y : y = x)
  IN place(p) # 0 /\ (place(q) = 0 \/ place(p) < place(q))

Outranks(lists, p, q) ==
  LET ps == Ranks(lists, p) qs == Ranks(lists, q) IN
  \/ Cardinality(ps) > 1 /\ Cardinality(qs) = 1
  \/ \E a \in ps, b \in qs :
       ps = {a} /\ qs = {b} /\ a[1] = b[1] /\ a[2] < b[2]

\* The fusion keeps what the searches agree on: the candidates are different
\* passages, one found twice comes before one found once, two found once by the
\* same search keep its order, and the cut drops only the last, also when one of
\* the searches failed (rrf.py 20-30, hybrid.py 39-67).
FusionSound ==
  At("llm_rerank") =>
    LET cand == search.candidates found == Found(search.lists) IN
    /\ IsInjective(cand) /\ ToSet(cand) \subseteq found
    /\ Len(cand) = Min({RerankTopN, Cardinality(found)})
    /\ \A p, q \in found :
         Outranks(search.lists, p, q) /\ Contains(cand, q) => Precedes(cand, p, q)

\* Whatever the LLM replies to the reranker, only passages that were found are
\* returned, at most as many as were asked for, and no candidate is left out of a
\* result that has room.  An index the LLM repeats fills places of its own
\* (reranker.py 55-77, hybrid.py 58-75).
SearchComplete ==
  [][RerankCandidates =>
       LET found == Found(search.lists)
           candidates == Min({RerankTopN, Cardinality(found)})
           n == Min({state.topK, FinalTopK})
           result == state'.chunks
       IN /\ ToSet(result) \subseteq found
          /\ Len(result) \in Min({n, candidates}) .. n
          /\ Len(result) < n => Cardinality(ToSet(result)) = candidates]_vars

\* Between retrieval, or the cached passages, and the prompt no passage is added,
\* whatever the LLM replies to the rerank node, and none gets lost unless the cut of
\* the context meets more passages than are certain to fit.  Those are as many as an
\* LLM makes of them that repeats an index, and the lost ones are the last in its
\* order (nodes.py 151-191, 224-234; graph.py 59-60).
PromptSound ==
  node \in {"save_answer", "write_answer", "cache_write"} /\ ~state.cacheHit =>
    LET context == EffectiveChunks(state.chunks, state.reranked)
        lost == ToSet(state.chunks) \ state.answer.from
    IN /\ state.answer.from \subseteq ToSet(state.chunks)
       /\ lost # {} => Len(context) > ContextRoom
       /\ lost \cap ToSet(FirstN(context, ContextRoom)) = {}

\* A job that created the entry saves an answer made from the passages the entry
\* shows to reviewers, all of them unless the context was cut, whoever has decided
\* on it since and saved answers with it.  Not promised is this once another job's
\* SETEX has replaced those passages, or when the entry was there already, pending
\* or rejected, and has been approved since (service.py 59-90, 136-153;
\* nodes.py 224-234, 267-269).
AnswerFitsEntry ==
  [][WriteAnswer /\ search.own =>
       LET shown == ToSet(entry'[state.hash].chunks) IN
       /\ state.answer.from \subseteq shown
       /\ \/ state.answer.from = shown
          \/ Len(EffectiveChunks(state.chunks, state.reranked)) > ContextRoom]_vars

=============================================================================
