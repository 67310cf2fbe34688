---------------------------- MODULE StaticFacts ----------------------------
(***************************************************************************)
(* The static facts of app/memory/static_knowledge.py (M5): a fact is      *)
(* embedded, inserted into PostgreSQL unless its content is there already, *)
(* and inserted into Milvus under its own id; it is deleted from the two   *)
(* in the same order.  The two stores share no transaction.                *)
(*                                                                         *)
(* Every transaction and every call is one step.  A fact id is a fresh     *)
(* UUID, so there is one for every request to add a fact; who owns it and  *)
(* what it says is part of the request.  Users are left out: a request     *)
(* with another user's id finds no row.                                    *)
(***************************************************************************)
EXTENDS Naturals

CONSTANTS
  Fact,        \* fact ids, one for each request to add one
  Text,        \* contents
  Remover,     \* DELETE requests in flight
  Nothing,     \* no fact, no content
  FactFaults   \* what the environment may do

ASSUME FactsAssumption ==
  /\ Nothing \notin Fact \cup Text
  /\ FactFaults \subseteq {"error"}

VARIABLES
  facts,     \* the rows of memory_static_facts, by fact id
  memory,    \* the entities of the Milvus memory collection, by fact id
  adding,    \* adding[f]: where the request that adds f is
  removing,  \* removing[r]: where the DELETE request r is
  forgotten  \* facts added, and then deleted, with success

factVars == <<facts, memory, adding, removing, forgotten>>

-----------------------------------------------------------------------------
(* Variants the code might have had, used only to show that the properties *)
(* depend on the code they are about.                                      *)

VectorUnlessKnown(f) ==
  IF \E g \in memory : adding[g].text = adding[f].text THEN {} ELSE {f}

-----------------------------------------------------------------------------

AddPC == {"none", "embed", "row", "vector", "added", "failed"}

RemovePC == {"idle", "row", "vector"}

Adding == [pc : AddPC, text : Text \cup {Nothing}]

Removing == [pc : RemovePC, fact : Fact \cup {Nothing}, whole : BOOLEAN]

AddAt(f, label) == adding[f].pc = label

AddGoto(f, label) == adding' = [adding EXCEPT ![f].pc = label]

NotRemoving == [pc |-> "idle", fact |-> Nothing, whole |-> FALSE]

FactsInit ==
  /\ facts = {} /\ memory = {}
  /\ adding = [f \in Fact |-> [pc |-> "none", text |-> Nothing]]
  /\ removing = [r \in Remover |-> NotRemoving]
  /\ forgotten = {}

-----------------------------------------------------------------------------
(* POST /memory/static.                                                    *)

AddFact(f, x) ==
  /\ AddAt(f, "none")
  /\ adding' = [adding EXCEPT ![f] = [pc |-> "embed", text |-> x]]
  /\ UNCHANGED <<facts, memory, removing, forgotten>>

EmbedFact(f) ==
  /\ AddAt(f, "embed")
  /\ AddGoto(f, "row")
  /\ UNCHANGED <<facts, memory, removing, forgotten>>

\* ON CONFLICT (content_hash) DO NOTHING, whoever owns the other row.
InsertFact(f) ==
  /\ AddAt(f, "row")
  /\ facts' = IF \E g \in facts : adding[g].text = adding[f].text
                THEN facts ELSE facts \cup {f}
  /\ AddGoto(f, "vector")
  /\ UNCHANGED <<memory, removing, forgotten>>

\* With or without a row.
NewVectors(f) == {f}

MemoryInsert(f) ==
  /\ AddAt(f, "vector")
  /\ memory' = memory \cup NewVectors(f)
  /\ AddGoto(f, "added")
  /\ UNCHANGED <<facts, removing, forgotten>>

\* Answered 500.  A call whose reply is lost has been executed: a step, and then
\* a failure.
AddFails(f) ==
  /\ "error" \in FactFaults
  /\ adding[f].pc \in {"embed", "row", "vector"}
  /\ AddGoto(f, "failed")
  /\ \/ UNCHANGED memory
     \/ AddAt(f, "vector") /\ memory' = memory \cup NewVectors(f)
  /\ UNCHANGED <<facts, removing, forgotten>>

-----------------------------------------------------------------------------
(* DELETE /memory/static/{fact_id}.                                        *)

\* The id is known from the answer, or from a listing.  whole: the fact has been
\* added.
RemoveFact(r, f) ==
  /\ removing[r].pc = "idle"
  /\ f \in facts \/ AddAt(f, "added")
  /\ removing' = [removing EXCEPT ![r] =
                    [pc |-> "row", fact |-> f, whole |-> AddAt(f, "added")]]
  /\ UNCHANGED <<facts, memory, adding, forgotten>>

\* Answered 404 if there is no row.
DeleteFact(r) ==
  LET f == removing[r].fact IN
  /\ removing[r].pc = "row"
  /\ facts' = facts \ {f}
  /\ removing' = [removing EXCEPT ![r] =
                    IF f \in facts THEN [@ EXCEPT !.pc = "vector"] ELSE NotRemoving]
  /\ UNCHANGED <<memory, adding, forgotten>>

MemoryDelete(r) ==
  LET f == removing[r].fact IN
  /\ removing[r].pc = "vector"
  /\ memory' = memory \ {f}
  /\ forgotten' = IF removing[r].whole THEN forgotten \cup {f} ELSE forgotten
  /\ removing' = [removing EXCEPT ![r] = NotRemoving]
  /\ UNCHANGED <<facts, adding>>

\* A transaction that raises is rolled back.
RemoveFails(r) ==
  /\ "error" \in FactFaults
  /\ removing[r].pc # "idle"
  /\ removing' = [removing EXCEPT ![r] = NotRemoving]
  /\ UNCHANGED <<facts, memory, adding, forgotten>>
-----------------------------------------------------------------------------
(* The specification.                                                      *)

FactsNext ==
  \/ \E f \in Fact :
       \/ \E x \in Text : AddFact(f, x)
       \/ EmbedFact(f) \/ InsertFact(f) \/ MemoryInsert(f) \/ AddFails(f)
  \/ \E r \in Remover :
       \/ \E f \in Fact : RemoveFact(r, f)
       \/ DeleteFact(r) \/ MemoryDelete(r) \/ RemoveFails(r)

FactsSpec == FactsInit /\ [][FactsNext]_factVars

-----------------------------------------------------------------------------
(* Properties.                                                             *)

\* Every variable keeps its type, and no two rows have the same content, whoever
\* adds it when (static_knowledge.py 20-61, m5_schema.sql).
FactsTypeOK ==
  /\ facts \subseteq Fact /\ memory \subseteq Fact /\ forgotten \subseteq Fact
  /\ adding \in [Fact -> Adding]
  /\ removing \in [Remover -> Removing]
  /\ \A r \in Remover : removing[r].pc # "idle" => removing[r].fact \in Fact
  /\ \A f, g \in facts : adding[f].text = adding[g].text => f = g

\* A fact that was added with success and is listed can be found by search, however
\* its addition and others' deletions of the same content overlap; and one that was
\* added and then deleted with success is neither listed nor found
\* (static_knowledge.py 30-54, 115-124).
FactStoresAgree ==
  \A f \in Fact :
    /\ f \in facts /\ AddAt(f, "added") => f \in memory
    /\ f \in forgotten => f \notin facts \cup memory

=============================================================================
