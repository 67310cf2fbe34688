---------------------------- MODULE QueryProofs ----------------------------
(***************************************************************************)
(* Proofs about Chunker, for sections of any length and every chunk_size   *)
(* and chunk_overlap the constructor accepts; about StaticFacts, for any   *)
(* number of requests; and that what is proved of the three parts that     *)
(* MCQuery puts together holds of the whole.                               *)
(***************************************************************************)
EXTENDS MCQuery, AgentGraphProofs

-----------------------------------------------------------------------------
(* Chunks.                                                                 *)

\* While windows are cut, the last one ended before the end of the section and at
\* most an overlap after the beginning of the next one.
ChunkerInv ==
  /\ ChunkerTypeOK
  /\ NothingSkipped
  /\ phase = "idle" => length = 0 /\ pos = 0 /\ end = 0 /\ chunks = <<>>
  /\ phase = "cutting" => end < length /\ end <= pos + overlap

-----------------------------------------------------------------------------
(* One window.                                                             *)

LEMMA Half ==
  ASSUME NEW s \in Nat
  PROVE  s \div 2 \in Nat /\ \A o \in Nat : 2 * o <= s => o <= s \div 2
OBVIOUS

\* A window ends after it begins, within the section, and unless it is the last
\* one more than half of the size after its beginning.
LEMMA WindowIsLong ==
  ASSUME ChunkerTypeOK, NEW p \in Nat, p < length, NEW e \in 1 .. length,
         WindowEnd(p, e)
  PROVE  p < e /\ (e = length \/ e > p + (size \div 2) \/ e = p + size)
<1> DEFINE limit == Earlier(p + size, length)
<1>1. size \div 2 \in Nat /\ size \in Nat \ {0} /\ length \in Nat
  BY Half DEF ChunkerTypeOK
<1>2. limit \in {p + size, length} /\ limit > p /\ limit <= length
  BY <1>1 DEF Earlier
<1>3. CASE e = limit
  BY <1>1, <1>2, <1>3
<1>4. CASE InSecondHalf(p, e - 1)
  <2>1. e - 1 > p + (size \div 2)
    BY <1>4 DEF InSecondHalf
  <2> QED
    BY <1>1, <2>1
<1> QED
  BY <1>3, <1>4 DEF WindowEnd

\* The next window begins after the last one, not after its end, and at most an
\* overlap before it.
LEMMA NextPosSound ==
  ASSUME NEW p \in Nat, NEW e \in Nat, p < e, overlap \in Nat
  PROVE  /\ NextPos(p, e) \in p + 1 .. e
         /\ e <= NextPos(p, e) + overlap
BY DEF NextPos

\* Stripping takes away only blanks.
LEMMA ContentSound ==
  ASSUME NEW a \in Nat, NEW b \in Nat
  PROVE  /\ Content(a, b) \subseteq a .. b - 1
         /\ \A i \in a .. b - 1 : ~Blank(i) => i \in Content(a, b)
BY DEF Content

-----------------------------------------------------------------------------
(* The invariant.                                                          *)

LEMMA ChunkerInitInv == ChunkerInit => ChunkerInv
<1> SUFFICES ASSUME ChunkerInit PROVE ChunkerInv
  OBVIOUS
<1>1. text \in [0 .. length - 1 -> Char]
  BY DEF ChunkerInit
<1>2. chunks \in Seq(SUBSET (0 .. length - 1))
  BY DEF ChunkerInit
<1> QED
  BY <1>1, <1>2, ChunkerAssumption
  DEF ChunkerInit, ChunkerInv, ChunkerTypeOK, NothingSkipped

LEMMA StartInv == ASSUME ChunkerInv, Start PROVE ChunkerInv'
<1>1. PICK n \in 0 .. MaxLength, s \in 1 .. MaxSize :
        \E t \in [0 .. n - 1 -> Char], o \in 0 .. s - 1 :
          /\ phase' = IF n = 0 THEN "cut" ELSE "cutting"
          /\ text' = t /\ length' = n
          /\ size' = s /\ overlap' = o
  BY DEF Start
<1>2. pos' = 0 /\ end' = 0 /\ chunks' = <<>>
  BY DEF Start, ChunkerInv
<1> QED
  BY <1>1, <1>2, ChunkerAssumption
  DEF ChunkerInv, ChunkerTypeOK, NothingSkipped, Start

\* What cutting the window that ends at e does.
CutTo(e) ==
  /\ WindowEnd(pos, e)
  /\ end' = e
  /\ chunks' = IF Content(pos, e) = {} THEN chunks
                 ELSE Append(chunks, Content(pos, e))
  /\ IF e >= length
       THEN phase' = "cut" /\ UNCHANGED pos
       ELSE phase' = (IF NextPos(pos, e) < length THEN "cutting" ELSE "cut")
            /\ pos' = NextPos(pos, e)

\* Every chunk stays, and the new window's content is in one.
LEMMA ChunksGrow ==
  ASSUME ChunkerInv, NEW e \in 1 .. length, phase = "cutting", CutTo(e)
  PROVE  /\ chunks' \in Seq(SUBSET (0 .. length - 1))
         /\ \A c \in DOMAIN chunks : c \in DOMAIN chunks' /\ chunks'[c] = chunks[c]
         /\ \A i \in Content(pos, e) : \E c \in DOMAIN chunks' : i \in chunks'[c]
<1> DEFINE content == Content(pos, e)
<1>1. pos \in Nat /\ e \in Nat /\ length \in Nat /\ e <= length
  BY DEF ChunkerInv, ChunkerTypeOK
<1>2. content \in SUBSET (0 .. length - 1)
  BY <1>1, ContentSound
<1>3. chunks \in Seq(SUBSET (0 .. length - 1))
  BY DEF ChunkerInv, ChunkerTypeOK
<1>4. chunks' = IF content = {} THEN chunks ELSE Append(chunks, content)
  BY DEF CutTo
<1> HIDE DEF content
<1>5. CASE content = {}
  BY <1>3, <1>4, <1>5 DEF content
<1>6. CASE content # {}
  <2>1. chunks' = Append(chunks, content)
    BY <1>4, <1>6
  <2>2. /\ Len(chunks') = Len(chunks) + 1
        /\ chunks'[Len(chunks) + 1] = content
        /\ \A c \in 1 .. Len(chunks) : chunks'[c] = chunks[c]
        /\ chunks' \in Seq(SUBSET (0 .. length - 1))
    BY <1>2, <1>3, <2>1
  <2>3. Len(chunks) \in Nat /\ DOMAIN chunks = 1 .. Len(chunks)
        /\ DOMAIN chunks' = 1 .. Len(chunks')
    BY <1>3, <2>2
  <2>4. Len(chunks) + 1 \in DOMAIN chunks'
    BY <2>2, <2>3
  <2> QED
    BY <2>2, <2>3, <2>4 DEF content
<1> QED
  BY <1>5, <1>6

LEMMA CutInv == ASSUME ChunkerInv, Cut PROVE ChunkerInv'
<1>1. PICK e \in 1 .. length : CutTo(e)
  BY DEF Cut, CutTo
<1>2. phase = "cutting" /\ UNCHANGED inputVars
  BY DEF Cut
<1>3. /\ length \in Nat /\ pos \in Nat /\ pos < length /\ end \in Nat
      /\ size \in Nat \ {0} /\ overlap \in Nat /\ overlap < size
      /\ pos <= end /\ end < length /\ end <= pos + overlap
  BY <1>2 DEF ChunkerInv, ChunkerTypeOK
<1>4. pos < e
  BY <1>1, <1>3, WindowIsLong DEF CutTo, ChunkerInv
<1>5. /\ e = length => phase' = "cut" /\ pos' = pos
      /\ e < length => /\ phase' = "cutting" /\ pos' \in pos + 1 .. e
                       /\ e <= pos' + overlap
  <2>1. CASE e = length
    BY <1>1, <1>3, <2>1 DEF CutTo
  <2>2. CASE e < length
    <3>1. /\ NextPos(pos, e) \in pos + 1 .. e
          /\ e <= NextPos(pos, e) + overlap
      BY <1>3, <1>4, NextPosSound
    <3>2. NextPos(pos, e) < length
      BY <1>3, <2>2, <3>1
    <3>3. ~(e >= length)
      BY <1>3, <2>2
    <3>4. phase' = "cutting" /\ pos' = NextPos(pos, e)
      BY <1>1, <3>2, <3>3 DEF CutTo
    <3> QED
      BY <1>3, <2>2, <3>1, <3>4
  <2> QED
    BY <1>3, <2>1, <2>2
<1>6. end' = e
  BY <1>1 DEF CutTo
<1>7. ChunkerTypeOK'
  <2>1. (chunks \in Seq(SUBSET (0 .. length - 1)))'
    BY <1>1, <1>2, ChunksGrow DEF inputVars
  <2>2. (pos \in 0 .. length /\ end \in 0 .. length)'
    BY <1>2, <1>3, <1>4, <1>5, <1>6 DEF inputVars
  <2>3. (phase \in {"idle", "cutting", "cut"}
         /\ (phase = "cutting" => pos < length /\ pos <= end))'
    BY <1>2, <1>3, <1>5, <1>6 DEF inputVars
  <2> QED
    BY <1>2, <2>1, <2>2, <2>3 DEF ChunkerInv, ChunkerTypeOK, inputVars
<1>8. NothingSkipped'
  <2>1. SUFFICES ASSUME NEW i \in 0 .. length - 1, ~Blank(i), i < e \/ phase' = "cut"
                 PROVE  \E c \in DOMAIN chunks' : i \in chunks'[c]
    BY <1>2, <1>6 DEF NothingSkipped, Blank, inputVars
  <2>2. i < e
    BY <1>3, <1>5, <2>1
  <2>3. CASE i < end
    <3>1. PICK c \in DOMAIN chunks : i \in chunks[c]
      BY <2>1, <2>3 DEF ChunkerInv, NothingSkipped
    <3> QED
      BY <1>1, <1>2, <3>1, ChunksGrow
  <2>4. CASE i >= end
    <3>1. i \in pos .. e - 1
      BY <1>3, <2>2, <2>4
    <3>2. i \in Content(pos, e)
      BY <1>3, <2>1, <3>1, ContentSound
    <3> QED
      BY <1>1, <1>2, <3>2, ChunksGrow
  <2> QED
    BY <1>3, <2>3, <2>4
<1>9. (phase = "idle" => length = 0 /\ pos = 0 /\ end = 0 /\ chunks = <<>>)'
  BY <1>3, <1>5
<1>10. (phase = "cutting" => end < length /\ end <= pos + overlap)'
  BY <1>2, <1>3, <1>5, <1>6 DEF inputVars
<1> QED
  BY <1>7, <1>8, <1>9, <1>10 DEF ChunkerInv

LEMMA ChunkerStutterInv ==
  ASSUME ChunkerInv, UNCHANGED chunkerVars PROVE ChunkerInv'
BY DEF ChunkerInv, ChunkerTypeOK, NothingSkipped, Blank, chunkerVars, inputVars

\* The invariant holds in every state, for every bound.
THEOREM ChunkerInvHolds == ChunkerSpec => []ChunkerInv
<1>1. ChunkerInv /\ [ChunkerNext]_chunkerVars => ChunkerInv'
  BY StartInv, CutInv, ChunkerStutterInv DEF ChunkerNext
<1> QED
  BY <1>1, ChunkerInitInv, PTL DEF ChunkerSpec

-----------------------------------------------------------------------------
(* The theorems.                                                           *)

\* Every variable keeps its type and every window begins within the section
\* (chunker.py 24-67).
THEOREM ChunkerTyping == ChunkerSpec => []ChunkerTypeOK
<1>1. ChunkerInv => ChunkerTypeOK
  BY DEF ChunkerInv
<1> QED
  BY <1>1, ChunkerInvHolds, PTL

\* No character that is not blank is lost, for every text, size and overlap
\* (chunker.py 35-67).
THEOREM AllTextKept == ChunkerSpec => []NothingSkipped
<1>1. ChunkerInv => NothingSkipped
  BY DEF ChunkerInv
<1> QED
  BY <1>1, ChunkerInvHolds, PTL

LEMMA CutAdvances ==
  ASSUME ChunkerInv, Cut PROVE /\ 2 * overlap <= size => end' > end
                               /\ pos' > pos \/ phase' = "cut"
<1>1. PICK e \in 1 .. length : CutTo(e)
  BY DEF Cut, CutTo
<1>2. phase = "cutting"
  BY DEF Cut
<1>3. /\ length \in Nat /\ pos \in Nat /\ pos < length /\ end \in Nat
      /\ size \in Nat \ {0} /\ overlap \in Nat /\ overlap < size
      /\ end < length /\ end <= pos + overlap
  BY <1>2 DEF ChunkerInv, ChunkerTypeOK
<1>4. /\ pos < e
      /\ e = length \/ e > pos + (size \div 2) \/ e = pos + size
  BY <1>1, <1>3, WindowIsLong DEF CutTo, ChunkerInv
<1>5. 2 * overlap <= size => overlap <= size \div 2
  BY <1>3, Half
<1>6. end' = e
  BY <1>1 DEF CutTo
<1>7. 2 * overlap <= size => e > end
  <2>1. size \div 2 \in Nat
    BY <1>3, Half
  <2> QED
    BY <1>3, <1>4, <1>5, <2>1
<1>8. pos' > pos \/ phase' = "cut"
  <2>1. NextPos(pos, e) > pos
    BY <1>3, <1>4, NextPosSound
  <2> QED
    BY <1>1, <2>1 DEF CutTo
<1> QED
  BY <1>6, <1>7, <1>8

\* A window never ends where or before the last one did when the overlap is at
\* most half of the size (chunker.py 38-45, 64-65).
THEOREM Advances == ChunkerSpec => WindowsAdvance
<1>1. ChunkerInv /\ [ChunkerNext]_chunkerVars
        => [Cut /\ 2 * overlap <= size => end' > end]_chunkerVars
  BY CutAdvances
<1> QED
  BY <1>1, ChunkerInvHolds, PTL DEF ChunkerSpec, WindowsAdvance

\* The loop ends: each turn of it moves on or is the last, whatever the overlap
\* (chunker.py 61-65).
THEOREM LoopMovesOn ==
  ChunkerSpec => [][Cut => pos' > pos \/ phase' = "cut"]_chunkerVars
<1>1. ChunkerInv /\ [ChunkerNext]_chunkerVars
        => [Cut => pos' > pos \/ phase' = "cut"]_chunkerVars
  BY CutAdvances
<1> QED
  BY <1>1, ChunkerInvHolds, PTL DEF ChunkerSpec

-----------------------------------------------------------------------------
(* Static facts.                                                           *)

\* The request has come to the row of f, or past it.
Begun(f) == adding[f].pc \in {"vector", "added", "failed"}

\* A row comes from a request that has passed it, a deletion that is at the vector
\* has removed the row, and a fact that was deleted whole had been added.
FactsInv ==
  /\ FactsTypeOK
  /\ FactStoresAgree
  /\ \A f \in facts : Begun(f)
  /\ \A f \in forgotten : AddAt(f, "added")
  /\ \A r \in Remover : removing[r].pc # "idle" =>
       /\ Begun(removing[r].fact)
       /\ removing[r].whole => AddAt(removing[r].fact, "added")
       /\ removing[r].pc = "vector" => removing[r].fact \notin facts

-----------------------------------------------------------------------------
(* Requests.                                                               *)

LEMMA AddGoes ==
  ASSUME adding \in [Fact -> Adding], NEW f \in Fact, NEW label \in AddPC,
         AddGoto(f, label)
  PROVE  /\ adding' \in [Fact -> Adding]
         /\ adding'[f].pc = label
         /\ \A g \in Fact \ {f} : adding'[g] = adding[g]
         /\ \A g \in Fact : adding'[g].text = adding[g].text
<1> DEFINE a == [adding[f] EXCEPT !.pc = label]
<1>1. a \in Adding /\ a.pc = label /\ a.text = adding[f].text
  BY DEF Adding
<1>2. adding' = [adding EXCEPT ![f] = a]
  BY DEF AddGoto
<1> HIDE DEF a
<1> QED
  BY <1>1, <1>2

LEMMA NotRemovingType == NotRemoving \in Removing /\ NotRemoving.pc = "idle"
BY DEF NotRemoving, Removing, RemovePC

-----------------------------------------------------------------------------
(* The invariant.                                                          *)

LEMMA FactsInitInv == FactsInit => FactsInv
<1> SUFFICES ASSUME FactsInit PROVE FactsInv
  OBVIOUS
<1>1. [pc |-> "none", text |-> Nothing] \in Adding
  BY DEF Adding, AddPC
<1> QED
  BY <1>1, NotRemovingType
  DEF FactsInit, FactsInv, FactsTypeOK, FactStoresAgree

\* Nothing of a request to add a fact is undone.
LEMMA AddStep ==
  ASSUME FactsInv, NEW f \in Fact,
         (\E x \in Text : AddFact(f, x))
           \/ EmbedFact(f) \/ InsertFact(f) \/ MemoryInsert(f) \/ AddFails(f)
  PROVE  FactsInv'
<1> USE DEF FactsInv, FactsTypeOK, FactStoresAgree, Begun, AddAt
<1>1. ASSUME NEW x \in Text, AddFact(f, x) PROVE FactsInv'
  <2> DEFINE a == [pc |-> "embed", text |-> x]
  <2>1. a \in Adding /\ a.pc = "embed"
    BY DEF Adding, AddPC
  <2>2. adding' = [adding EXCEPT ![f] = a] /\ adding[f].pc = "none"
    BY <1>1 DEF AddFact
  <2> HIDE DEF a
  <2> QED
    BY <1>1, <2>1, <2>2 DEF AddFact
<1>2. CASE EmbedFact(f)
  <2>1. AddGoto(f, "row") /\ "row" \in AddPC
    BY <1>2 DEF EmbedFact, AddPC
  <2> QED
    BY <1>2, <2>1, AddGoes DEF EmbedFact
<1>3. CASE InsertFact(f)
  <2>1. AddGoto(f, "vector") /\ "vector" \in AddPC
    BY <1>3 DEF InsertFact, AddPC
  <2>2. \/ facts' = facts
        \/ facts' = facts \cup {f} /\ \A g \in facts : adding[g].text # adding[f].text
    BY <1>3 DEF InsertFact
  <2>3. f \notin facts /\ f \notin forgotten
        /\ \A r \in Remover : removing[r].pc # "idle" => removing[r].fact # f
    BY <1>3 DEF InsertFact
  <2> QED
    BY <1>3, <2>1, <2>2, <2>3, AddGoes DEF InsertFact
<1>4. CASE MemoryInsert(f)
  <2>1. AddGoto(f, "added") /\ "added" \in AddPC
    BY <1>4 DEF MemoryInsert, AddPC
  <2>2. memory' = memory \cup {f} /\ adding[f].pc = "vector"
    BY <1>4 DEF MemoryInsert, NewVectors
  <2> QED
    BY <1>4, <2>1, <2>2, AddGoes DEF MemoryInsert
<1>5. CASE AddFails(f)
  <2>1. AddGoto(f, "failed") /\ "failed" \in AddPC
    BY <1>5 DEF AddFails, AddPC
  <2>2. adding[f].pc \in {"embed", "row", "vector"} /\ memory' \in {memory, memory \cup {f}}
    BY <1>5 DEF AddFails, NewVectors
  <2> QED
    BY <1>5, <2>1, <2>2, AddGoes DEF AddFails
<1> QED
  BY <1>1, <1>2, <1>3, <1>4, <1>5

\* A deletion takes the row before the vector, so no row is left without one.
LEMMA RemoveStep ==
  ASSUME FactsInv, NEW r \in Remover,
         (\E f \in Fact : RemoveFact(r, f)) \/ DeleteFact(r) \/ MemoryDelete(r) \/ RemoveFails(r)
  PROVE  FactsInv'
<1> USE DEF FactsInv, FactsTypeOK, FactStoresAgree, Begun, AddAt
<1>1. ASSUME NEW f \in Fact, RemoveFact(r, f) PROVE FactsInv'
  <2> DEFINE q == [pc |-> "row", fact |-> f, whole |-> adding[f].pc = "added"]
  <2>1. q \in Removing /\ q.pc = "row" /\ q.fact = f /\ (q.whole => adding[f].pc = "added")
    BY DEF Removing, RemovePC
  <2>2. removing' = [removing EXCEPT ![r] = q] /\ Begun(f)
    BY <1>1 DEF RemoveFact
  <2> HIDE DEF q
  <2> QED
    BY <1>1, <2>1, <2>2 DEF RemoveFact
<1>2. CASE DeleteFact(r)
  <2> DEFINE g == removing[r].fact
             q == IF g \in facts THEN [removing[r] EXCEPT !.pc = "vector"] ELSE NotRemoving
  <2>1. q \in Removing
        /\ (q.pc # "idle" => q.pc = "vector" /\ q.fact = g /\ q.whole = removing[r].whole)
    BY NotRemovingType DEF Removing, RemovePC
  <2>2. removing' = [removing EXCEPT ![r] = q] /\ facts' = facts \ {g}
        /\ g \in Fact /\ removing[r].pc = "row"
    BY <1>2 DEF DeleteFact
  <2> HIDE DEF q
  <2> QED
    BY <1>2, <2>1, <2>2 DEF DeleteFact
<1>3. CASE MemoryDelete(r)
  <2> DEFINE g == removing[r].fact
  <2>1. removing' = [removing EXCEPT ![r] = NotRemoving] /\ memory' = memory \ {g}
        /\ g \in Fact \ facts /\ removing[r].pc = "vector"
        /\ forgotten' \in {forgotten, forgotten \cup {g}}
        /\ (removing[r].whole \/ forgotten' = forgotten)
    BY <1>3 DEF MemoryDelete
  <2> QED
    BY <1>3, <2>1, NotRemovingType DEF MemoryDelete
<1>4. CASE RemoveFails(r)
  BY <1>4, NotRemovingType DEF RemoveFails
<1> QED
  BY <1>1, <1>2, <1>3, <1>4

THEOREM FactsInvHolds == FactsSpec => []FactsInv
<1>1. FactsInv /\ [FactsNext]_factVars => FactsInv'
  <2> SUFFICES ASSUME FactsInv, [FactsNext]_factVars PROVE FactsInv'
    OBVIOUS
  <2>1. CASE UNCHANGED factVars
    BY <2>1 DEF FactsInv, FactsTypeOK, FactStoresAgree, Begun, AddAt, factVars
  <2>2. CASE FactsNext
    <3>1. ASSUME NEW f \in Fact,
                 (\E x \in Text : AddFact(f, x))
                   \/ EmbedFact(f) \/ InsertFact(f) \/ MemoryInsert(f) \/ AddFails(f)
          PROVE  FactsInv'
      BY <3>1, AddStep
    <3>2. ASSUME NEW r \in Remover,
                 (\E f \in Fact : RemoveFact(r, f)) \/ DeleteFact(r) \/ MemoryDelete(r)
                   \/ RemoveFails(r)
          PROVE  FactsInv'
      BY <3>2, RemoveStep
    <3> QED
      BY <2>2, <3>1, <3>2 DEF FactsNext
  <2> QED
    BY <2>1, <2>2
<1> QED
  BY <1>1, FactsInitInv, PTL DEF FactsSpec

-----------------------------------------------------------------------------

\* The rows have different contents, whatever requests overlap and fail
\* (static_knowledge.py 20-61, m5_schema.sql).
THEOREM FactsTyping == FactsSpec => []FactsTypeOK
<1>1. FactsInv => FactsTypeOK
  BY DEF FactsInv
<1> QED
  BY <1>1, FactsInvHolds, PTL

\* A listed fact that was added with success can be found, and one that was deleted
\* with success is gone from both stores, for any number of requests that overlap
\* and fail (static_knowledge.py 30-54, 115-124).
THEOREM StoresAgree == FactsSpec => []FactStoresAgree
<1>1. FactsInv => FactStoresAgree
  BY DEF FactsInv
<1> QED
  BY <1>1, FactsInvHolds, PTL

-----------------------------------------------------------------------------
(* The three parts together.                                               *)

\* The parts share no variable: a behaviour of the whole is one of each part.
THEOREM PartsBehave == QuerySpec => Spec /\ ChunkerSpec /\ FactsSpec
<1>1. QueryInit => Init /\ ChunkerInit /\ FactsInit
  BY DEF QueryInit
<1>2. [QueryNext]_queryVars => [Next]_vars /\ [ChunkerNext]_chunkerVars /\ [FactsNext]_factVars
  BY DEF QueryNext, queryVars
<1> QED
  BY <1>1, <1>2, PTL DEF QuerySpec, Spec, ChunkerSpec, FactsSpec

\* Every variable of the three keeps its type (MCQuery.QueryTypeOK).
THEOREM QueryTyping == QuerySpec => []QueryTypeOK
BY PartsBehave, GraphTyping, ChunkerTyping, FactsTyping, PTL DEF QueryTypeOK

\* What the parts promise they promise together: no text is lost when a section is cut,
\* no passage between retrieval and prompt but to the cut of the context, and an answer
\* fits the entry it is saved with, but for what AnswerFitsEntry names (the properties
\* of QueryRun.cfg).
THEOREM QueryKeepsPromises ==
  QuerySpec => /\ [](FusionSound /\ PromptSound /\ NothingSkipped /\ FactStoresAgree)
               /\ SearchComplete /\ AnswerFitsEntry /\ WindowsAdvance
BY PartsBehave, FusionKeepsRanks, PromptKept, AllTextKept, StoresAgree, SearchGivesAll,
   AnswerFits, Advances, PTL

=============================================================================
