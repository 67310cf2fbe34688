---------------------------- MODULE Invalidation ----------------------------
(***************************************************************************)
(* The invalidation of the RAG cache by the consistency service (M6) while *)
(* jobs and reviews of M3 fill it: an entry is written by a coroutine that *)
(* has retrieved its passages, or read the entry, some time before.        *)
(*                                                                         *)
(* Passages are dated by the number of messages published when they were   *)
(* retrieved: the ingest and the deletion publish an event after they have *)
(* changed the stores, so passages retrieved later already show it.        *)
(***************************************************************************)
EXTENDS Consistency

CONSTANTS
  Writer   \* jobs and requests that store entries

VARIABLES
  found,   \* found[k]: the date of the passages of entry k
  held,    \* held[w]: what writer w is about to store
  exposed  \* history: messages and entries, when a writer held older passages of the
           \* entry while the message was swept for

fillVars == <<found, held, exposed>>
allVars == <<vars, fillVars>>

-----------------------------------------------------------------------------

Copy == [keys : {{k} : k \in Key} \cup {{}}, date : Nat]

Nothing == [keys |-> {}, date |-> 0]

FillInit ==
  /\ Init
  /\ found = [k \in Key |-> 0]
  /\ held = [w \in Writer |-> Nothing]
  /\ exposed = {}

\* Consumer c is between the first SCAN and the acknowledgement of message i.
Sweeping(c, i) == sweeper[c].pc \in {"scan", "unlink", "ack"} /\ sweeper[c].next = i

\* Writer w holds passages of entry k that were retrieved before message i.
HoldsOlder(w, i, k) == k \in held[w].keys /\ held[w].date < i

Exposure ==
  {e \in (1 .. cursor) \X Key : \E c \in Sweeper, w \in Writer :
     Sweeping(c, e[1]) /\ HoldsOlder(w, e[1], e[2])}

-----------------------------------------------------------------------------
(* The writers.                                                            *)

Hold(w, k, date) ==
  /\ held[w] = Nothing
  /\ held' = [held EXCEPT ![w] = [keys |-> {k}, date |-> date]]
  /\ UNCHANGED <<vars, found>>

\* A variant the code might have had, used only to show that a property depends on it.
KeepCopy(w, k) == Hold(w, k, found[k])

\* A job that has found no entry retrieves passages, to create one with.
Retrieve(w, k) == Hold(w, k, Len(log))

\* save_answer, or the update of the status, reads the entry it will write back.
ReadEntry(w, k) == k \in keys /\ Hold(w, k, found[k])

\* SETEX, whatever has become of the key by now.
Store(w) ==
  \E k \in held[w].keys :
    /\ Write(k)
    /\ found' = [found EXCEPT ![k] = held[w].date]
    /\ held' = [held EXCEPT ![w] = Nothing]

\* A transition that is refused, an exception or the end of the process.
GiveUp(w) ==
  /\ held[w] # Nothing
  /\ held' = [held EXCEPT ![w] = Nothing]
  /\ UNCHANGED <<vars, found>>

WriterStep(w) ==
  \/ \E k \in Key : Retrieve(w, k) \/ ReadEntry(w, k)
  \/ Store(w)
  \/ GiveUp(w)

-----------------------------------------------------------------------------
(* The specification.                                                      *)

ServiceStep ==
  /\ \/ \E k \in Key : Expire(k)
     \/ \E m \in Message : Publish(m)
     \/ \E c \in Sweeper : SweeperStep(c) \/ Fail(c) \/ Stop(c) \/ Start(c)
  /\ UNCHANGED <<found, held>>

FillNext ==
  /\ ServiceStep \/ \E w \in Writer : WriterStep(w)
  /\ exposed' = exposed \cup Exposure'

FillSpec == FillInit /\ [][FillNext]_allVars

\* The fairness of the consumers; jobs and requests may keep what they hold for ever.
FillFairSpec == FillSpec /\ Fairness

-----------------------------------------------------------------------------
(* Properties.                                                             *)

\* Every variable keeps its type: nothing is dated later than the last event, only
\* messages that were handed out are swept for, and no sweep makes more than
\* max_iterations rounds (consumer.py 24-45, invalidator.py 31-46).
FillTypeOK ==
  /\ TypeOK
  /\ found \in [Key -> Nat]
  /\ held \in [Writer -> Copy]
  /\ \A k \in Key : found[k] <= Len(log)
  /\ \A w \in Writer : held[w].date <= Len(log)
  /\ exposed \subseteq (1 .. cursor) \X Key

\* Once a knowledge base event is acknowledged, no passages that were retrieved before
\* it are served or about to be stored under a key of its version, unless the sweep was
\* logged as cut short, or somebody held such passages for that key while it was under
\* way: however late a job stores what it has retrieved, and although entries that are
\* read, swept and written back come again (invalidator.py 26-51, consumer.py 27-44,
\* service.py 72-90 and 136-153).
OlderPassagesGone ==
  \A i \in 1 .. cursor, k \in Key :
    /\ i \notin pel \cup partial /\ Relevant(log[i])
    /\ k[1] = log[i].version /\ <<i, k>> \notin exposed
    =>
      /\ k \in keys => found[k] >= i
      /\ \A w \in Writer : ~HoldsOlder(w, i, k)

=============================================================================
