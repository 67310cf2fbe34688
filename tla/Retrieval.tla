----------------------------- MODULE Retrieval -----------------------------
(***************************************************************************)
(* The hybrid retriever of app/retrieval (M2) as functions of what its two *)
(* searches and the LLM answer: reciprocal rank fusion of the ranked       *)
(* lists, the cut to the candidates, and their reranking.                  *)
(*                                                                         *)
(* A passage stands for its content hash, which is what the fusion         *)
(* compares.  A fused score is kept as an integer, the sum of              *)
(* ScoreUnit \div (RrfK + rank), which orders passages as the sum of the   *)
(* fractions does; the rounding of the code's floats is left out.          *)
(***************************************************************************)
EXTENDS Naturals, FiniteSets, FiniteSetsExt, Sequences, SequencesExt

CONSTANTS
  Passage,     \* content hashes of indexed chunks
  SearchTopK,  \* settings.bm25_top_k and vector_top_k
  RrfK,        \* settings.rrf_k
  RerankTopN,  \* settings.rerank_top_n
  FinalTopK    \* settings.final_top_k

\* With the defaults, 20 and 60: what both searches found once outranks what one
\* of them found.  Nothing in the code enforces it.
ASSUME RetrievalAssumption ==
  /\ IsFiniteSet(Passage)
  /\ {SearchTopK, RrfK, RerankTopN, FinalTopK} \subseteq Nat \ {0}
  /\ RrfK + 2 > SearchTopK

-----------------------------------------------------------------------------
(* Variants the code might have had, used only to show that the properties *)
(* depend on the code they are about.                                      *)

LastScore(lists, p) ==
  LET l == SelectLastInSeq(lists, LAMBDA list : Contains(list, p))
      r == SelectLastInSeq(lists[l], LAMBDA q : q = p)
  IN SearchTopK - r

MentionedOnly(chunks, indices) ==
  LET valid == SelectSeq(indices, LAMBDA i : i \in DOMAIN chunks)
  IN [i \in DOMAIN valid |-> chunks[valid[i]]]

NoCut(s, n) == s

-----------------------------------------------------------------------------

\* A full-text search ranks rows, whose contents differ; a vector search ranks
\* vectors, and several may have one content.
VectorResults == UNION {[1 .. n -> Passage] : n \in 0 .. SearchTopK}

Bm25Results == {s \in VectorResults : IsInjective(s)}

FirstN(s, n) == SubSeq(s, 1, Min({n, Len(s)}))

\* The lists of the searches that did not raise, of which there is one.
RankedLists(lists, failed) ==
  IF failed = {} THEN lists ELSE <<lists[IF 1 \in failed THEN 2 ELSE 1]>>

Found(lists) == UNION {ToSet(lists[i]) : i \in DOMAIN lists}

\* Where p is ranked, as pairs of a list and a rank.
Ranks(lists, p) ==
  {o \in (DOMAIN lists) \X (1 .. SearchTopK) :
     o[2] <= Len(lists[o[1]]) /\ lists[o[1]][o[2]] = p}

ScoreUnit == ProductSet(RrfK + 1 .. RrfK + SearchTopK)

Score(lists, p) ==
  SumFunction([o \in Ranks(lists, p) |-> ScoreUnit \div (RrfK + o[2])])

\* The elements of S in the order of the pairs of R.
Sorted(S, R) ==
  [n \in 1 .. Cardinality(S) |->
     CHOOSE x \in S : Cardinality({y \in S : <<y, x>> \in R}) = n - 1]

\* Higher scores first, and among equals the one the lists name first.
RrfFuse(lists) ==
  LET first(p) == Min({o[1] * SearchTopK + o[2] : o \in Ranks(lists, p)})
      before(p, q) == \/ Score(lists, p) > Score(lists, q)
                      \/ Score(lists, p) = Score(lists, q) /\ first(p) < first(q)
  IN Sorted(Found(lists), {o \in Found(lists) \X Found(lists) : before(o[1], o[2])})

InOrder(V) == Sorted(V, {o \in V \X V : o[1] < o[2]})

\* The passages the LLM names in its order, a repeated one repeatedly, then those
\* it does not name.
Reranked(chunks, indices) ==
  LET valid == {k \in DOMAIN indices : indices[k] \in DOMAIN chunks}
      unnamed == DOMAIN chunks \ {indices[k] : k \in valid}
      order == [n \in 1 .. Cardinality(valid) |-> indices[InOrder(valid)[n]]]
               \o InOrder(unnamed)
  IN [i \in DOMAIN order |-> chunks[order[i]]]

\* Of fewer than two passages the LLM is not asked.
LLMRerank(chunks, indices, n) ==
  IF Len(chunks) < 2 THEN FirstN(chunks, n) ELSE FirstN(Reranked(chunks, indices), n)

=============================================================================
