------------------------------ MODULE Lifespan ------------------------------
(***************************************************************************)
(* The lifespan of the application, app/__init__.py: clients are connected *)
(* one after another, the Milvus collections are made if they are missing, *)
(* two tasks are started, and everything is stopped and closed in reverse. *)
(* A start may fail at every call, and the process may die at any time;    *)
(* the collections stay.  Other processes of the application start and     *)
(* end meanwhile, of which only the making of the collections, which all   *)
(* share, is modelled.                                                     *)
(***************************************************************************)
EXTENDS Naturals, Sequences

CONSTANTS
  Clients,      \* the clients in the order in which they are connected
  HalfOpen,     \* those whose connect makes a call after it has opened the client
  Collections,  \* the Milvus collections in the order in which they are made
  Needs,        \* Needs[t]: the clients task t uses
  Peer,         \* other server processes
  LifeFaults    \* what the environment may do

Task == {"consistency", "consumer"}

ClientNames == {Clients[i] : i \in DOMAIN Clients}

IsList(s) == s \in Seq({s[i] : i \in DOMAIN s}) /\ Len(s) > 0

ASSUME LifespanAssumption ==
  /\ IsList(Clients) /\ IsList(Collections)
  /\ HalfOpen \subseteq ClientNames
  /\ \A i, j \in DOMAIN Clients : Clients[i] = Clients[j] => i = j
  /\ Needs \in [Task -> SUBSET ClientNames]
  /\ LifeFaults \subseteq {"error", "crash"}

VARIABLES
  phase,       \* where the lifespan is; "down" when there is no process
  next,        \* the index of the client or collection it is at
  connected,   \* how many clients have been connected
  open,        \* the clients with an open connection
  refused,     \* the clients whose disconnect raised
  tasks,       \* the tasks that run
  collection,  \* collection[i]: what Milvus has of Collections[i]
  cut,         \* the collections whose making was broken off
  peer         \* peer[p]: where the start of p is, and at which collection

ownVars == <<phase, next, connected, open, refused, tasks>>

lifeVars == <<ownVars, collection, cut, peer>>

-----------------------------------------------------------------------------
(* Variants the code might have had, used only to show that the properties *)
(* depend on the code they are about.                                      *)

GiveUp(i) == 0

ForgetConsumer == "stop_consistency"

FirstOnly(i) == FALSE

-----------------------------------------------------------------------------

Phase == {"down", "connect", "undo", "consistency", "ensure", "create", "index", "load",
          "consumer", "serving", "stop_consumer", "stop_consistency", "disconnect",
          "aborted"}

Making == {"create", "index", "load"}

PeerStart == [at : {"away", "ensure"} \cup Making, next : Nat]

Away == [at |-> "away", next |-> 0]

LifeInit ==
  /\ phase = "down" /\ next = 0 /\ connected = 0
  /\ open = {} /\ refused = {} /\ tasks = {}
  /\ collection = [i \in DOMAIN Collections |-> "absent"]
  /\ cut = {}
  /\ peer = [p \in Peer |-> Away]

Goto(label, i) == phase' = label /\ next' = i

Boot ==
  /\ phase = "down"
  /\ Goto("connect", 1)
  /\ connected' = 0 /\ open' = {} /\ refused' = {} /\ tasks' = {}
  /\ UNCHANGED <<collection, cut>>

-----------------------------------------------------------------------------
(* Startup.                                                                *)

ConnectClient ==
  /\ phase = "connect"
  /\ open' = open \cup {Clients[next]}
  /\ connected' = next
  /\ IF next < Len(Clients) THEN Goto("connect", next + 1) ELSE Goto("consistency", 0)
  /\ UNCHANGED <<refused, tasks, collection, cut>>

\* The client that fails is not in the list: what it has opened stays open.
ConnectFails ==
  /\ "error" \in LifeFaults
  /\ phase = "connect"
  /\ open' \in {open} \cup {open \cup {c} : c \in {Clients[next]} \cap HalfOpen}
  /\ Goto("undo", connected)
  /\ UNCHANGED <<connected, refused, tasks, collection, cut>>

StartConsistency ==
  /\ phase = "consistency"
  /\ tasks' = tasks \cup {"consistency"}
  /\ Goto("ensure", 1)
  /\ UNCHANGED <<connected, open, refused, collection, cut>>

Another(i) == i < Len(Collections)

AfterEnsure(i) == IF Another(i) THEN Goto("ensure", i + 1) ELSE Goto("consumer", 0)

Found(i) == collection[i] # "absent"

\* A collection that is there is taken as it is, also when another process is still
\* making it.
HasCollection ==
  /\ phase = "ensure"
  /\ IF Found(next) THEN AfterEnsure(next) ELSE Goto("create", next)
  /\ UNCHANGED <<connected, open, refused, tasks, collection, cut>>

\* What Milvus has been told already changes nothing.
Make(label, i) ==
  LET before == [create |-> "absent", index |-> "created", load |-> "indexed"]
      after == [create |-> "created", index |-> "indexed", load |-> "loaded"]
  IN collection' = [collection EXCEPT
                      ![i] = IF @ = before[label] THEN after[label] ELSE @]

MakeStep(label) ==
  /\ phase = label
  /\ Make(label, next)
  /\ UNCHANGED <<connected, open, refused, tasks, cut>>

CreateCollection == MakeStep("create") /\ Goto("index", next)

CreateIndex == MakeStep("index") /\ Goto("load", next)

LoadCollection == MakeStep("load") /\ AfterEnsure(next)

StartConsumer ==
  /\ phase = "consumer"
  /\ tasks' = tasks \cup {"consumer"}
  /\ Goto("serving", 0)
  /\ UNCHANGED <<connected, open, refused, collection, cut>>

\* The call that is broken off may have been executed.
BreakOff(label, i) ==
  /\ \/ UNCHANGED collection
     \/ label \in Making /\ Make(label, i)
  /\ cut' = IF label \in Making /\ collection'[i] \in {"created", "indexed"}
              THEN cut \cup {i} ELSE cut

\* What raises after the connect loop is not caught: nothing is disconnected.
StartFails ==
  /\ "error" \in LifeFaults
  /\ phase \in {"ensure", "create", "index", "load"}
  /\ Goto("aborted", 0)
  /\ BreakOff(phase, next)
  /\ UNCHANGED <<connected, open, refused, tasks>>

-----------------------------------------------------------------------------
(* Shutdown, and the end of the process.                                   *)

FirstStop == "stop_consumer"

Shutdown ==
  /\ phase = "serving"
  /\ Goto(FirstStop, 0)
  /\ UNCHANGED <<connected, open, refused, tasks, collection, cut>>

StopConsumer ==
  /\ phase = "stop_consumer"
  /\ tasks' = tasks \ {"consumer"}
  /\ Goto("stop_consistency", 0)
  /\ UNCHANGED <<connected, open, refused, collection, cut>>

StopConsistency ==
  /\ phase = "stop_consistency"
  /\ tasks' = tasks \ {"consistency"}
  /\ Goto("disconnect", connected)
  /\ UNCHANGED <<connected, open, refused, collection, cut>>

Disconnecting == phase \in {"undo", "disconnect"} /\ next > 0

DisconnectClient ==
  /\ Disconnecting
  /\ open' = open \ {Clients[next]}
  /\ Goto(phase, next - 1)
  /\ UNCHANGED <<connected, refused, tasks, collection, cut>>

AfterRefusal(i) == i - 1

\* Logged, and the next client is disconnected.
DisconnectFails ==
  /\ "error" \in LifeFaults
  /\ Disconnecting
  /\ refused' = refused \cup {Clients[next]}
  /\ Goto(phase, AfterRefusal(next))
  /\ UNCHANGED <<connected, open, tasks, collection, cut>>

LifespanEnds ==
  /\ phase \in {"undo", "disconnect"} /\ next = 0
  /\ Goto("down", 0)
  /\ UNCHANGED <<connected, open, refused, tasks, collection, cut>>

\* The process dies, or exits after a start that failed: the operating system
\* closes what is open.
ProcessEnds ==
  /\ phase = "aborted" \/ ("crash" \in LifeFaults /\ phase # "down")
  /\ Goto("down", 0)
  /\ BreakOff(phase, next)
  /\ connected' = 0 /\ open' = {} /\ refused' = {} /\ tasks' = {}

-----------------------------------------------------------------------------
(* The start of another process, as far as it touches the collections.     *)

PeerGoto(p, label, i) == peer' = [peer EXCEPT ![p] = [at |-> label, next |-> i]]

PeerAfter(p, i) ==
  IF Another(i) THEN PeerGoto(p, "ensure", i + 1) ELSE peer' = [peer EXCEPT ![p] = Away]

PeerBoots(p) ==
  /\ peer[p] = Away
  /\ PeerGoto(p, "ensure", 1)
  /\ UNCHANGED <<collection, cut>>

PeerHasCollection(p) ==
  LET i == peer[p].next IN
  /\ peer[p].at = "ensure"
  /\ IF Found(i) THEN PeerAfter(p, i) ELSE PeerGoto(p, "create", i)
  /\ UNCHANGED <<collection, cut>>

PeerMakes(p) ==
  LET i == peer[p].next IN
  /\ peer[p].at \in Making
  /\ Make(peer[p].at, i)
  /\ CASE peer[p].at = "create" -> PeerGoto(p, "index", i)
       [] peer[p].at = "index"  -> PeerGoto(p, "load", i)
       [] peer[p].at = "load"   -> PeerAfter(p, i)
  /\ UNCHANGED cut

\* It raises, or dies.
PeerFails(p) ==
  /\ LifeFaults # {}
  /\ peer[p] # Away
  /\ peer' = [peer EXCEPT ![p] = Away]
  /\ BreakOff(peer[p].at, peer[p].next)

PeerStep(p) == PeerBoots(p) \/ PeerHasCollection(p) \/ PeerMakes(p) \/ PeerFails(p)

OwnStep ==
  \/ Boot \/ ConnectClient \/ ConnectFails \/ StartConsistency \/ HasCollection
  \/ CreateCollection \/ CreateIndex \/ LoadCollection \/ StartConsumer \/ StartFails
  \/ Shutdown \/ StopConsumer \/ StopConsistency \/ DisconnectClient \/ DisconnectFails
  \/ LifespanEnds \/ ProcessEnds

LifeNext ==
  \/ OwnStep /\ UNCHANGED peer
  \/ (\E p \in Peer : PeerStep(p)) /\ UNCHANGED ownVars

-----------------------------------------------------------------------------
(* Properties.                                                             *)

\* Every variable keeps its type (__init__.py 40-119).
LifeTypeOK ==
  /\ phase \in Phase
  /\ next \in 0 .. Len(Clients) + Len(Collections)
  /\ connected \in 0 .. Len(Clients)
  /\ open \subseteq ClientNames /\ refused \subseteq ClientNames
  /\ tasks \subseteq Task
  /\ collection \in [DOMAIN Collections -> {"absent", "created", "indexed", "loaded"}]
  /\ cut \subseteq DOMAIN Collections
  /\ peer \in [Peer -> PeerStart]

\* When a start has failed to connect a client, or a shutdown is over, every client
\* that was connected is closed, unless its own disconnect raised: one that raises
\* does not keep the others open (__init__.py 57-68, 115-119).
StoppedIsClosed ==
  phase = "down" =>
    \A i \in 1 .. connected : Clients[i] \in open => Clients[i] \in refused

\* A task never runs on a client that has been closed: the tasks are started after
\* the last connect and have ended before the first disconnect (__init__.py 70-119).
TasksHaveClients == \A t \in tasks : Needs[t] \subseteq open

\* p has created collection i, or found it created since it looked, and has not
\* loaded it.
HalfMade(p, i) == peer[p].at \in {"index", "load"} /\ peer[p].next = i

\* A server takes requests only when both Milvus collections can be searched, but for
\* two cases: another process that is starting has created a collection and not
\* loaded it yet, or an earlier start was broken off between the two.  In both an
\* existing collection is taken as it is (milvus.py 71-100, 171-196;
\* __init__.py 78-79).
ServingIsReady ==
  phase = "serving" =>
    \A i \in DOMAIN Collections :
      collection[i] = "loaded" \/ i \in cut \/ \E p \in Peer : HalfMade(p, i)

=============================================================================
