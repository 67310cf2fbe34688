---------------------------- MODULE Consistency ----------------------------
(***************************************************************************)
(* The consistency service of app/consistency (M6): a consumer group of    *)
(* its own reads the stream on which knowledge base events are published,  *)
(* and for each event removes the entries of that version from the RAG     *)
(* cache with SCAN and UNLINK.                                             *)
(*                                                                         *)
(* Every Redis command is one step.  SCAN is external: a call returns any  *)
(* keys that match, perhaps none, and the iteration ends only when every   *)
(* key that was there all the time has been returned.                      *)
(*                                                                         *)
(* Abstracted: the value of an entry, of which only the time of its last   *)
(* write is kept, counted in messages published; the pauses.               *)
(***************************************************************************)
EXTENDS Naturals, Sequences

CONSTANTS
  Hash,           \* query hashes
  Version,        \* knowledge base versions
  Accepted,       \* the versions that match _VERSION_RE
  Namespace,      \* settings.cache_rag_namespace
  Sweeper,        \* consumer processes of the consistency group
  BatchSize,      \* messages per XREADGROUP
  MaxRounds,      \* settings.cache_invalidation_max_iterations
  MaxMessages,    \* bound: messages published
  MaxTroubles     \* bound: commands that raise, and processes that end

ASSUME VersionAssumption == Accepted \subseteq Version
ASSUME BoundAssumption ==
  /\ BatchSize \in Nat \ {0} /\ MaxRounds \in Nat \ {0}
  /\ MaxMessages \in Nat /\ MaxTroubles \in Nat

VARIABLES
  keys,      \* the entries in Redis, as pairs of version and hash
  born,      \* born[k]: how many messages there were when k was last written
  log,       \* the stream
  cursor,    \* how many messages the group has handed out
  pel,       \* the messages handed out and not acknowledged
  partial,   \* the messages whose sweep was logged as exceeding max_iterations
  sweeper,   \* sweeper[c]: where consumer c is
  troubles   \* how many commands have raised and processes have ended

cacheVars == <<keys, born>>
streamVars == <<log, cursor, pel>>
vars == <<cacheVars, streamVars, partial, sweeper, troubles>>

-----------------------------------------------------------------------------
(* Variants the code might have had, used only to show that the properties *)
(* depend on the code they are about.                                      *)

DoneOnEmptyPage(more, page) == ~more \/ page = {}

NeverWakes(c) == FALSE

OneRoundMore(c) == sweeper[c].rounds > MaxRounds

-----------------------------------------------------------------------------

Key == Version \X Hash

\* "kb" stands for kb_updated and kb_deleted, "other" for the jobs of the agent,
\* which are published to the same stream.
Message == [event : {"kb", "other"}, version : Version]

\* The name under which RagCacheStore keeps its entries.
EntrySpace == "rag_cache"

\* The entries that the pattern {version}:{namespace}:* matches.
Matching(v) == {k \in keys : k[1] = v /\ Namespace = EntrySpace}

SweeperPC == {"poll", "event", "scan", "unlink", "ack", "sleep", "stopped"}

\* next .. last are the messages of the batch still to be processed.  left are the
\* keys that were there when the sweep began and have not been returned, page what
\* the last SCAN returned, more whether its cursor was not 0.
SweeperState == [pc : SweeperPC, next : Nat, last : Nat, left : SUBSET Key,
                 page : SUBSET Key, more : BOOLEAN, rounds : Nat]

IdleSweeper == [pc |-> "poll", next |-> 1, last |-> 0, left |-> {}, page |-> {},
                more |-> FALSE, rounds |-> 0]

SweeperAt(c, label) == sweeper[c].pc = label

InHand(c) == log[sweeper[c].next]

Init ==
  /\ keys = {}
  /\ born = [k \in Key |-> 0]
  /\ log = <<>>
  /\ cursor = 0
  /\ pel = {}
  /\ partial = {}
  /\ sweeper = [c \in Sweeper |-> IdleSweeper]
  /\ troubles = 0

-----------------------------------------------------------------------------
(* The cache and the publishers.                                           *)

\* A job or a review stores an entry.
Write(k) ==
  /\ keys' = keys \cup {k}
  /\ born' = [born EXCEPT ![k] = Len(log)]
  /\ UNCHANGED <<streamVars, partial, sweeper, troubles>>

\* A key that has gone is no longer owed to a SCAN, even if it comes back.
Forgotten(gone) == [c \in Sweeper |-> [sweeper[c] EXCEPT !.left = @ \ gone]]

Expire(k) ==
  /\ k \in keys
  /\ keys' = keys \ {k}
  /\ sweeper' = Forgotten({k})
  /\ UNCHANGED <<born, streamVars, partial, troubles>>

Publish(m) ==
  /\ Len(log) < MaxMessages
  /\ log' = Append(log, m)
  /\ UNCHANGED <<cacheVars, cursor, pel, partial, sweeper, troubles>>

-----------------------------------------------------------------------------
(* run_once.                                                               *)

BatchEnd(n) == IF cursor + BatchSize < n THEN cursor + BatchSize ELSE n

Poll(c) ==
  LET end == BatchEnd(Len(log)) IN
  /\ SweeperAt(c, "poll")
  /\ cursor < end
  /\ cursor' = end
  /\ pel' = pel \cup (cursor + 1 .. end)
  /\ sweeper' = [sweeper EXCEPT ![c].pc = "event", ![c].next = cursor + 1, ![c].last = end]
  /\ UNCHANGED <<cacheVars, log, partial, troubles>>

\* Events with an accepted version are swept, everything else is acknowledged.
Relevant(m) == m.event = "kb" /\ m.version \in Accepted

BeginSweep(c) ==
  /\ SweeperAt(c, "event")
  /\ Relevant(InHand(c))
  /\ sweeper' = [sweeper EXCEPT ![c].pc = "scan", ![c].rounds = 0,
                               ![c].left = Matching(InHand(c).version)]
  /\ UNCHANGED <<cacheVars, streamVars, partial, troubles>>

Skip(c) ==
  /\ SweeperAt(c, "event")
  /\ ~Relevant(InHand(c))
  /\ sweeper' = [sweeper EXCEPT ![c].pc = "ack"]
  /\ UNCHANGED <<cacheVars, streamVars, partial, troubles>>

\* The cursor is 0 only if all that was there has been returned.
Scan(c) ==
  /\ SweeperAt(c, "scan")
  /\ \E page \in SUBSET Matching(InHand(c).version), more \in BOOLEAN :
       /\ sweeper[c].left \subseteq page \/ more
       /\ sweeper' = [sweeper EXCEPT ![c].pc = "unlink", ![c].rounds = @ + 1,
                                    ![c].left = @ \ page, ![c].page = page,
                                    ![c].more = more]
  /\ UNCHANGED <<cacheVars, streamVars, partial, troubles>>

\* A round ends the sweep when the cursor is 0.
LastRound(more, page) == ~more

\* The range of the loop is used up.
Exhausted(c) == sweeper[c].rounds >= MaxRounds

\* What a round removes.
Unlinked(c) == sweeper[c].page

\* An empty page is not unlinked, which removes nothing either.  After the last
\* round allowed the sweep is abandoned with a log entry, and acknowledged.
Unlink(c) ==
  LET last == LastRound(sweeper[c].more, sweeper[c].page)
      over == ~last /\ Exhausted(c) IN
  /\ SweeperAt(c, "unlink")
  /\ keys' = keys \ Unlinked(c)
  /\ sweeper' = [Forgotten(Unlinked(c)) EXCEPT
                   ![c].pc = IF last \/ over THEN "ack" ELSE "scan", ![c].page = {}]
  /\ partial' = IF over THEN partial \cup {sweeper[c].next} ELSE partial
  /\ UNCHANGED <<born, streamVars, troubles>>

NextMessage(w) ==
  IF w.next < w.last THEN [w EXCEPT !.pc = "event", !.next = @ + 1] ELSE IdleSweeper

Ack(c) ==
  /\ SweeperAt(c, "ack")
  /\ pel' = pel \ {sweeper[c].next}
  /\ sweeper' = [sweeper EXCEPT ![c] = NextMessage(@)]
  /\ UNCHANGED <<cacheVars, log, cursor, partial, troubles>>

Wake(c) ==
  /\ SweeperAt(c, "sleep")
  /\ sweeper' = [sweeper EXCEPT ![c] = IdleSweeper]
  /\ UNCHANGED <<cacheVars, streamVars, partial, troubles>>

-----------------------------------------------------------------------------
(* Exceptions, shutdown and crashes.                                       *)

\* The command that fails may have been executed; an UNLINK or XACK that was is a
\* step and then a failure.
Fetched ==
  \/ UNCHANGED <<cursor, pel>>
  \/ /\ cursor < BatchEnd(Len(log))
     /\ cursor' = BatchEnd(Len(log))
     /\ pel' = pel \cup (cursor + 1 .. BatchEnd(Len(log)))

Interrupted(c, label) ==
  /\ troubles < MaxTroubles
  /\ troubles' = troubles + 1
  /\ sweeper' = [sweeper EXCEPT ![c] = [IdleSweeper EXCEPT !.pc = label]]
  /\ \/ SweeperAt(c, "poll") /\ Fetched
     \/ SweeperAt(c, "ack") /\ pel' = pel \ {sweeper[c].next} /\ UNCHANGED cursor
     \/ UNCHANGED <<cursor, pel>>
  /\ UNCHANGED <<cacheVars, log, partial>>

\* A Redis command raises: the rest of the batch is lost, the loop logs the error
\* and pauses.
Fail(c) ==
  /\ sweeper[c].pc \in {"poll", "scan", "unlink", "ack"}
  /\ Interrupted(c, "sleep")

\* stop() cancels the task, or the process dies.
Stop(c) == ~SweeperAt(c, "stopped") /\ Interrupted(c, "stopped")

\* The next process with the same consumer name.
Start(c) ==
  /\ SweeperAt(c, "stopped")
  /\ sweeper' = [sweeper EXCEPT ![c] = IdleSweeper]
  /\ UNCHANGED <<cacheVars, streamVars, partial, troubles>>

-----------------------------------------------------------------------------
(* The specification.                                                      *)

SweeperStep(c) ==
  \/ Poll(c) \/ BeginSweep(c) \/ Skip(c) \/ Scan(c) \/ Unlink(c) \/ Ack(c) \/ Wake(c)

Next ==
  \/ \E k \in Key : Write(k) \/ Expire(k)
  \/ \E m \in Message : Publish(m)
  \/ \E c \in Sweeper : SweeperStep(c) \/ Fail(c) \/ Stop(c) \/ Start(c)

Spec == Init /\ [][Next]_vars

\* The event loop resumes a consumer whose command has been answered; max_iterations
\* bounds every sweep.
Fairness == \A c \in Sweeper : WF_vars(SweeperStep(c))

FairSpec == Spec /\ Fairness

-----------------------------------------------------------------------------
(* Properties.                                                             *)

\* Every variable keeps its type; a consumer in the middle of a batch holds only
\* messages that were handed out, and no sweep makes more than max_iterations rounds
\* (consumer.py 24-45, invalidator.py 31-46).
TypeOK ==
  /\ keys \subseteq Key
  /\ born \in [Key -> Nat]
  /\ log \in Seq(Message)
  /\ cursor \in 0 .. Len(log)
  /\ pel \subseteq 1 .. cursor
  /\ partial \subseteq 1 .. cursor
  /\ sweeper \in [Sweeper -> SweeperState]
  /\ \A c \in Sweeper :
       /\ sweeper[c].pc \in {"event", "scan", "unlink", "ack"} =>
            1 <= sweeper[c].next /\ sweeper[c].next <= sweeper[c].last /\ sweeper[c].last <= cursor
       /\ sweeper[c].rounds <= MaxRounds
       /\ sweeper[c].pc = "scan" => sweeper[c].rounds < MaxRounds
  /\ troubles \in 0 .. MaxTroubles

\* The entries of version v that were last written before message i.
Outdated(i, v) == {k \in keys : k[1] = v /\ born[k] < i}

\* Once a knowledge base event is acknowledged, no entry written before it was
\* published is served any more, unless the log says that the sweep was cut short:
\* although SCAN may return empty or repeated pages while jobs write entries,
\* other sweeps remove them, and any command may fail (invalidator.py 26-51,
\* consumer.py 27-44, store.py 126-127).
AckedIsSwept ==
  \A i \in 1 .. cursor :
    i \notin pel \cup partial /\ Relevant(log[i]) => Outdated(i, log[i].version) = {}

\* An error does not end the service: a message that no consumer has fetched before
\* the last trouble is processed and acknowledged, if only one consumer is left
\* (service.py 27-45).
LaterEventsHandled ==
  \A i \in 1 .. MaxMessages :
    /\ i \in DOMAIN log /\ cursor < i
    /\ troubles = MaxTroubles /\ \E c \in Sweeper : ~SweeperAt(c, "stopped")
    ~> i <= cursor /\ i \notin pel

=============================================================================
