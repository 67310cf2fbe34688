------------------------- MODULE ConsistencyProofs -------------------------
(***************************************************************************)
(* Theorems about Consistency and Invalidation, for any number of entries, *)
(* versions, messages, consumers and writers of entries, any batch size    *)
(* and any failures.                                                       *)
(***************************************************************************)
EXTENDS Invalidation, TLAPS

-----------------------------------------------------------------------------
(* Types.                                                                  *)

LEMMA IdleType ==
  IdleSweeper \in SweeperState /\ IdleSweeper.pc = "poll" /\ IdleSweeper.rounds = 0
BY DEF IdleSweeper, SweeperState, SweeperPC

\* A consumer that holds messages holds some that were handed out, and sweeps for one in
\* no more rounds than it may.
InRange(c) ==
  /\ sweeper[c].pc \in {"event", "scan", "unlink", "ack"} =>
       1 <= sweeper[c].next /\ sweeper[c].next <= sweeper[c].last /\ sweeper[c].last <= cursor
  /\ sweeper[c].rounds <= MaxRounds
  /\ sweeper[c].pc = "scan" => sweeper[c].rounds < MaxRounds

\* Taking keys off what a SCAN owes changes nothing else of a consumer.
LEMMA ForgottenKeeps ==
  ASSUME sweeper \in [Sweeper -> SweeperState], NEW gone
  PROVE  /\ Forgotten(gone) \in [Sweeper -> SweeperState]
         /\ \A c \in Sweeper :
              LET w == Forgotten(gone)[c] IN
              /\ w.left = sweeper[c].left \ gone
              /\ w.pc = sweeper[c].pc /\ w.next = sweeper[c].next
              /\ w.last = sweeper[c].last /\ w.page = sweeper[c].page
              /\ w.more = sweeper[c].more /\ w.rounds = sweeper[c].rounds
BY DEF Forgotten, SweeperState

\* The message in hand.
LEMMA InHandType ==
  ASSUME TypeOK, NEW c \in Sweeper,
         sweeper[c].pc \in {"event", "scan", "unlink", "ack"}
  PROVE  /\ sweeper[c] \in SweeperState
         /\ sweeper[c].next \in 1 .. cursor
         /\ sweeper[c].next \in DOMAIN log /\ InHand(c) \in Message
<1>1. sweeper[c] \in SweeperState /\ cursor \in Nat /\ cursor <= Len(log)
  BY DEF TypeOK
<1>2. sweeper[c].next \in Nat /\ sweeper[c].last \in Nat
  BY <1>1 DEF SweeperState
<1>3. sweeper[c].next \in 1 .. cursor
  BY <1>1, <1>2 DEF TypeOK
<1> QED
  BY <1>1, <1>3 DEF TypeOK, InHand

\* A consumer that starts afresh, under whatever label, holds nothing.
LEMMA AfreshType ==
  ASSUME NEW label \in {"poll", "sleep", "stopped"}
  PROVE  /\ [IdleSweeper EXCEPT !.pc = label] \in SweeperState
         /\ [IdleSweeper EXCEPT !.pc = label].pc = label
         /\ [IdleSweeper EXCEPT !.pc = label].rounds = 0
BY DEF IdleSweeper, SweeperState, SweeperPC

\* A consumer that takes a batch, a page or the next message.
LEMMA TakingType ==
  ASSUME NEW w \in SweeperState, NEW a \in Nat, NEW b \in Nat,
         NEW page \in SUBSET Key, NEW more \in BOOLEAN
  PROVE  /\ [w EXCEPT !.pc = "event", !.next = a, !.last = b] \in SweeperState
         /\ [w EXCEPT !.pc = "event", !.next = a] \in SweeperState
         /\ [w EXCEPT !.pc = "unlink", !.rounds = a, !.left = w.left \ page,
                      !.page = page, !.more = more] \in SweeperState
  <1>1. /\ w.pc \in SweeperPC /\ w.next \in Nat /\ w.last \in Nat /\ w.rounds \in Nat
        /\ w.left \subseteq Key /\ w.page \subseteq Key /\ w.more \in BOOLEAN
    BY DEF SweeperState
  <1>2. w.left \ page \in SUBSET Key
    BY <1>1
  <1>3. [w EXCEPT !.pc = "event", !.next = a, !.last = b] \in SweeperState
    BY DEF SweeperState, SweeperPC
  <1>4. [w EXCEPT !.pc = "event", !.next = a] \in SweeperState
    BY DEF SweeperState, SweeperPC
  <1>5. [w EXCEPT !.pc = "unlink", !.rounds = a, !.left = w.left \ page,
                  !.page = page, !.more = more] \in SweeperState
    BY <1>2 DEF SweeperState, SweeperPC
  <1> QED
    BY <1>3, <1>4, <1>5

LEMMA TypeStarts == Init => TypeOK
<1>1. Init => /\ keys \subseteq Key /\ born \in [Key -> Nat] /\ log \in Seq(Message)
              /\ cursor \in 0 .. Len(log) /\ pel \subseteq 1 .. cursor
              /\ partial \subseteq 1 .. cursor /\ troubles \in 0 .. MaxTroubles
  BY BoundAssumption DEF Init
<1>2. Init => /\ sweeper \in [Sweeper -> SweeperState]
              /\ \A c \in Sweeper : sweeper[c].pc = "poll" /\ sweeper[c].rounds = 0
  BY IdleType DEF Init
<1> QED
  BY <1>1, <1>2, BoundAssumption DEF TypeOK

LEMMA TypeStays == TypeOK /\ [Next]_vars => TypeOK'
<1> SUFFICES ASSUME TypeOK, [Next]_vars
             PROVE  TypeOK'
  OBVIOUS
<1>0. /\ keys \subseteq Key /\ born \in [Key -> Nat] /\ log \in Seq(Message)
      /\ cursor \in 0 .. Len(log) /\ pel \subseteq 1 .. cursor
      /\ partial \subseteq 1 .. cursor /\ sweeper \in [Sweeper -> SweeperState]
      /\ troubles \in 0 .. MaxTroubles /\ Len(log) \in Nat /\ cursor \in Nat
      /\ \A c \in Sweeper : InRange(c)
  BY DEF TypeOK, InRange
<1>1. ASSUME NEW k \in Key, Write(k)
      PROVE  TypeOK'
  BY <1>0, <1>1 DEF Write, streamVars, TypeOK, InRange
<1>2. ASSUME NEW k \in Key, Expire(k)
      PROVE  TypeOK'
  <2>1. sweeper' = Forgotten({k}) /\ UNCHANGED <<born, log, cursor, pel, partial, troubles>>
        /\ keys' = keys \ {k}
    BY <1>2 DEF Expire, streamVars
  <2>2. /\ sweeper' \in [Sweeper -> SweeperState]
        /\ \A c \in Sweeper : /\ sweeper'[c].pc = sweeper[c].pc
                               /\ sweeper'[c].next = sweeper[c].next
                               /\ sweeper'[c].last = sweeper[c].last
                               /\ sweeper'[c].rounds = sweeper[c].rounds
    BY <1>0, <2>1, ForgottenKeeps
  <2> QED
    BY <1>0, <2>1, <2>2 DEF TypeOK, InRange
<1>3. ASSUME NEW m \in Message, Publish(m)
      PROVE  TypeOK'
  <2>1. log' \in Seq(Message) /\ Len(log') = Len(log) + 1
    BY <1>0, <1>3 DEF Publish
  <2> QED
    BY <1>0, <1>3, <2>1 DEF Publish, cacheVars, TypeOK, InRange
<1>4. ASSUME NEW c \in Sweeper, SweeperStep(c) \/ Fail(c) \/ Stop(c) \/ Start(c)
      PROVE  TypeOK'
  <2> DEFINE end == BatchEnd(Len(log))
  <2>0. /\ sweeper[c] \in SweeperState
        /\ end \in Nat /\ end <= Len(log)
    BY <1>0, BoundAssumption DEF BatchEnd
  <2> HIDE DEF end
  <2>1. CASE Poll(c)
    <3> DEFINE task == [sweeper[c] EXCEPT !.pc = "event", !.next = cursor + 1, !.last = end]
    <3>1. /\ task \in SweeperState /\ task.next = cursor + 1 /\ task.last = end
          /\ task.pc = "event" /\ task.rounds = sweeper[c].rounds
      <4>1. cursor + 1 \in Nat
        BY <1>0
      <4>2. task \in SweeperState
        BY <2>0, <4>1, TakingType
      <4> QED
        BY <2>0, <4>2 DEF SweeperState
    <3>2. /\ sweeper' = [sweeper EXCEPT ![c] = task] /\ cursor < end /\ cursor' = end
          /\ pel' = pel \cup (cursor + 1 .. end)
          /\ UNCHANGED <<keys, born, log, partial, troubles>>
      BY <2>1 DEF Poll, cacheVars, end
    <3> HIDE DEF task
    <3>3. \A d \in Sweeper : InRange(d)'
      <4> SUFFICES ASSUME NEW d \in Sweeper
                   PROVE  InRange(d)'
        OBVIOUS
      <4>1. CASE d = c
        BY <1>0, <2>0, <3>1, <3>2, <4>1 DEF InRange
      <4>2. CASE d # c
        <5>1. sweeper'[d] = sweeper[d] /\ sweeper[d].last \in Nat
          BY <1>0, <3>2, <4>2 DEF SweeperState
        <5> QED
          BY <1>0, <2>0, <3>2, <5>1 DEF InRange
      <4> QED
        BY <4>1, <4>2
    <3>4. sweeper' \in [Sweeper -> SweeperState]
      BY <1>0, <3>1, <3>2
    <3>5. /\ keys' \subseteq Key /\ born' \in [Key -> Nat] /\ log' \in Seq(Message)
          /\ cursor' \in 0 .. Len(log') /\ pel' \subseteq 1 .. cursor'
          /\ partial' \subseteq 1 .. cursor' /\ troubles' \in 0 .. MaxTroubles
      BY <1>0, <2>0, <3>2
    <3> QED
      BY <3>3, <3>4, <3>5 DEF TypeOK, InRange
  <2>2. CASE BeginSweep(c)
    <3> DEFINE task == [sweeper[c] EXCEPT !.pc = "scan", !.rounds = 0,
                                         !.left = Matching(InHand(c).version)]
    <3>1. Matching(InHand(c).version) \subseteq Key
      BY <1>0 DEF Matching
    <3>2. /\ task \in SweeperState /\ task.rounds = 0
          /\ task.next = sweeper[c].next /\ task.last = sweeper[c].last
      BY <2>0, <3>1 DEF SweeperState, SweeperPC
    <3>3. /\ sweeper' = [sweeper EXCEPT ![c] = task] /\ sweeper[c].pc = "event"
          /\ UNCHANGED <<keys, born, log, cursor, pel, partial, troubles>>
      BY <2>2 DEF BeginSweep, SweeperAt, cacheVars, streamVars
    <3> HIDE DEF task
    <3>4. \A d \in Sweeper : InRange(d)'
      BY <1>0, <3>2, <3>3, BoundAssumption DEF InRange
    <3> QED
      BY <1>0, <3>2, <3>3, <3>4 DEF TypeOK, InRange
  <2>3. CASE Skip(c)
    <3> DEFINE task == [sweeper[c] EXCEPT !.pc = "ack"]
    <3>1. /\ task \in SweeperState /\ task.pc = "ack" /\ task.rounds = sweeper[c].rounds
          /\ task.next = sweeper[c].next /\ task.last = sweeper[c].last
      BY <2>0 DEF SweeperState, SweeperPC
    <3>2. /\ sweeper' = [sweeper EXCEPT ![c] = task] /\ sweeper[c].pc = "event"
          /\ UNCHANGED <<keys, born, log, cursor, pel, partial, troubles>>
      BY <2>3 DEF Skip, SweeperAt, cacheVars, streamVars
    <3> HIDE DEF task
    <3> QED
      BY <1>0, <3>1, <3>2 DEF TypeOK, InRange
  <2>4. CASE Scan(c)
    <3>1. PICK page \in SUBSET Matching(InHand(c).version), more \in BOOLEAN :
            sweeper' = [sweeper EXCEPT ![c].pc = "unlink", ![c].rounds = @ + 1,
                          ![c].left = @ \ page, ![c].page = page, ![c].more = more]
      BY <2>4 DEF Scan
    <3> DEFINE task == [sweeper[c] EXCEPT !.pc = "unlink", !.rounds = @ + 1,
                          !.left = @ \ page, !.page = page, !.more = more]
    <3>2. page \subseteq Key
      BY <1>0 DEF Matching
    <3>3. /\ task \in SweeperState /\ task.pc = "unlink"
          /\ task.rounds = sweeper[c].rounds + 1 /\ sweeper[c].rounds \in Nat
          /\ task.next = sweeper[c].next /\ task.last = sweeper[c].last
      <4>1. sweeper[c].rounds + 1 \in Nat
        BY <2>0 DEF SweeperState
      <4>2. task \in SweeperState
        BY <2>0, <3>2, <4>1, TakingType
      <4> QED
        BY <2>0, <4>2 DEF SweeperState
    <3>4. /\ sweeper' = [sweeper EXCEPT ![c] = task] /\ sweeper[c].pc = "scan"
          /\ UNCHANGED <<keys, born, log, cursor, pel, partial, troubles>>
      BY <2>4, <3>1 DEF Scan, SweeperAt, cacheVars, streamVars
    <3> HIDE DEF task
    <3> QED
      BY <1>0, <3>3, <3>4, BoundAssumption DEF TypeOK, InRange
  <2>5. CASE Unlink(c)
    <3>1. PICK label \in {"ack", "scan"} :
            /\ sweeper' = [Forgotten(Unlinked(c)) EXCEPT ![c].pc = label, ![c].page = {}]
            /\ label = "scan" => ~Exhausted(c)
      BY <2>5 DEF Unlink
    <3> DEFINE was == Forgotten(Unlinked(c))
               task == [was[c] EXCEPT !.pc = label, !.page = {}]
    <3>2. /\ was \in [Sweeper -> SweeperState]
          /\ \A d \in Sweeper : /\ was[d].pc = sweeper[d].pc
                                 /\ was[d].next = sweeper[d].next
                                 /\ was[d].last = sweeper[d].last
                                 /\ was[d].rounds = sweeper[d].rounds
      BY <1>0, ForgottenKeeps
    <3> HIDE DEF was
    <3>3. /\ task \in SweeperState /\ task.pc = label /\ task.rounds = sweeper[c].rounds
          /\ task.next = sweeper[c].next /\ task.last = sweeper[c].last
      BY <3>2 DEF SweeperState, SweeperPC
    <3>4. sweeper' = [was EXCEPT ![c] = task]
      BY <3>1 DEF was
    <3>5. /\ sweeper[c].pc = "unlink" /\ keys' \subseteq keys
          /\ partial' = partial \/ partial' = partial \cup {sweeper[c].next}
          /\ UNCHANGED <<born, log, cursor, pel, troubles>>
      BY <2>5 DEF Unlink, SweeperAt, streamVars
    <3>6. sweeper[c].next \in 1 .. cursor
      BY <3>5, InHandType
    <3> HIDE DEF task
    <3>7. \A d \in Sweeper : InRange(d)'
      <4>1. label = "scan" => sweeper[c].rounds < MaxRounds
        BY <2>0, <3>1, BoundAssumption DEF Exhausted, SweeperState
      <4> QED
        BY <1>0, <3>2, <3>3, <3>4, <3>5, <4>1 DEF InRange
    <3> QED
      BY <1>0, <3>2, <3>3, <3>4, <3>5, <3>6, <3>7 DEF TypeOK, InRange
  <2>6. CASE Ack(c)
    <3> DEFINE task == NextMessage(sweeper[c])
    <3>1. /\ sweeper' = [sweeper EXCEPT ![c] = task] /\ sweeper[c].pc = "ack"
          /\ pel' \subseteq pel /\ UNCHANGED <<keys, born, log, cursor, partial, troubles>>
      BY <2>6 DEF Ack, SweeperAt, cacheVars
    <3>2. /\ task \in SweeperState
          /\ \/ task.pc = "poll" /\ task.rounds = 0
             \/ /\ sweeper[c].next < sweeper[c].last
                /\ task.pc = "event" /\ task.rounds = sweeper[c].rounds
                /\ task.next = sweeper[c].next + 1 /\ task.last = sweeper[c].last
      <4>1. sweeper[c].next + 1 \in Nat
        BY <2>0 DEF SweeperState
      <4>2. CASE sweeper[c].next < sweeper[c].last
        <5>1. task = [sweeper[c] EXCEPT !.pc = "event", !.next = sweeper[c].next + 1]
          BY <4>2 DEF NextMessage
        <5>2. task \in SweeperState
          BY <2>0, <4>1, <5>1, TakingType
        <5> QED
          BY <2>0, <4>2, <5>1, <5>2 DEF SweeperState
      <4>3. CASE ~(sweeper[c].next < sweeper[c].last)
        BY <4>3, IdleType DEF NextMessage
      <4> QED
        BY <4>2, <4>3
    <3> HIDE DEF task
    <3>3. sweeper[c].next \in Nat /\ sweeper[c].last \in Nat
      BY <2>0 DEF SweeperState
    <3>4. \A d \in Sweeper : InRange(d)'
      BY <1>0, <3>1, <3>2, <3>3, BoundAssumption DEF InRange
    <3> QED
      BY <1>0, <3>1, <3>2, <3>4 DEF TypeOK, InRange
  <2>7. CASE Wake(c) \/ Start(c)
    <3>1. /\ sweeper' = [sweeper EXCEPT ![c] = IdleSweeper]
          /\ UNCHANGED <<keys, born, log, cursor, pel, partial, troubles>>
      BY <2>7 DEF Wake, Start, cacheVars, streamVars
    <3> QED
      BY <1>0, <3>1, IdleType, BoundAssumption DEF TypeOK, InRange
  <2>8. CASE Fail(c) \/ Stop(c)
    <3>1. PICK label \in {"sleep", "stopped"} : Interrupted(c, label)
      BY <2>8 DEF Fail, Stop
    <3> DEFINE task == [IdleSweeper EXCEPT !.pc = label]
    <3>2. task \in SweeperState /\ task.pc = label /\ task.rounds = 0
      BY AfreshType
    <3>3. /\ sweeper' = [sweeper EXCEPT ![c] = task] /\ troubles < MaxTroubles
          /\ troubles' = troubles + 1 /\ UNCHANGED <<keys, born, log, partial>>
          /\ \/ pel' \subseteq pel /\ cursor' = cursor
             \/ cursor < end /\ cursor' = end /\ pel' = pel \cup (cursor + 1 .. end)
      BY <3>1 DEF Interrupted, Fetched, cacheVars, end
    <3> HIDE DEF task
    <3>4. \A d \in Sweeper : InRange(d)'
      <4> SUFFICES ASSUME NEW d \in Sweeper
                   PROVE  InRange(d)'
        OBVIOUS
      <4>1. CASE d = c
        BY <1>0, <3>2, <3>3, <4>1, BoundAssumption DEF InRange
      <4>2. CASE d # c
        <5>1. sweeper'[d] = sweeper[d] /\ sweeper[d].last \in Nat
          BY <1>0, <3>3, <4>2 DEF SweeperState
        <5> QED
          BY <1>0, <2>0, <3>3, <5>1 DEF InRange
      <4> QED
        BY <4>1, <4>2
    <3>5. sweeper' \in [Sweeper -> SweeperState]
      BY <1>0, <3>2, <3>3
    <3>6. /\ cursor' \in 0 .. Len(log') /\ pel' \subseteq 1 .. cursor'
          /\ partial' \subseteq 1 .. cursor' /\ troubles' \in 0 .. MaxTroubles
      <4>1. troubles' \in 0 .. MaxTroubles
        BY <1>0, <3>3, BoundAssumption
      <4>2. /\ cursor' \in Nat /\ cursor <= cursor' /\ cursor' <= Len(log)
            /\ pel' \subseteq pel \cup (cursor + 1 .. cursor')
        BY <1>0, <2>0, <3>3
      <4> QED
        BY <1>0, <3>3, <4>1, <4>2
    <3> QED
      BY <1>0, <3>3, <3>4, <3>5, <3>6 DEF TypeOK, InRange
  <2> QED
    BY <1>4, <2>1, <2>2, <2>3, <2>4, <2>5, <2>6, <2>7, <2>8 DEF SweeperStep
<1>5. CASE UNCHANGED vars
  BY <1>0, <1>5 DEF vars, cacheVars, streamVars, TypeOK, InRange
<1> QED
  BY <1>1, <1>2, <1>3, <1>4, <1>5 DEF Next

\* Every operation keeps every variable within its type (Consistency.TypeOK).
THEOREM Typing == Spec => []TypeOK
BY TypeStarts, TypeStays, PTL DEF Spec

-----------------------------------------------------------------------------
(* What a sweep has still to do.                                           *)

Working(c) == sweeper[c].pc \in {"scan", "unlink", "ack"}

\* Until the sweep of consumer c ends, every entry in old is owed by the SCAN or on the
\* page about to be unlinked.
Owed(c, old) ==
  LET w == sweeper[c] IN
  /\ w.pc = "scan" => old \subseteq w.left
  /\ w.pc = "unlink" => old \subseteq w.left \cup w.page /\ (w.more \/ w.left = {})
  /\ w.pc = "ack" => w.next \in partial \/ ~Relevant(InHand(c)) \/ old = {}

LEMMA LogGrows ==
  ASSUME TypeOK, [Next]_vars
  PROVE  \A i \in 1 .. cursor : log'[i] = log[i]
<1>1. /\ log \in Seq(Message) /\ Len(log) \in Nat /\ cursor \in Nat /\ cursor <= Len(log)
  BY DEF TypeOK
<1>2. log' = log \/ \E m \in Message : log' = Append(log, m)
  BY DEF Next, Write, Expire, Publish, SweeperStep, Poll, BeginSweep, Skip, Scan, Unlink, Ack,
         Wake, Fail, Stop, Start, Interrupted, vars, streamVars
<1> QED
  BY <1>1, <1>2

\* An entry still owed after a step was owed before it, or the sweep has only begun; a
\* consumer that sweeps does so for the message it had in hand before.
LEMMA SweepProgress ==
  ASSUME Namespace = EntrySpace, TypeOK, [Next]_vars, NEW c \in Sweeper, Working(c)'
  PROVE  /\ sweeper[c].pc \in {"event", "scan", "unlink", "ack"}
         /\ sweeper'[c].next = sweeper[c].next /\ InHand(c)' = InHand(c)
         /\ \A old, new :
              /\ new \subseteq old /\ new \subseteq keys'
              /\ \A k \in new : k[1] = InHand(c).version
              /\ Working(c) => Owed(c, old)
              => Owed(c, new)'
<1>0. /\ sweeper \in [Sweeper -> SweeperState] /\ sweeper[c] \in SweeperState
      /\ \A i \in 1 .. cursor : log'[i] = log[i]
  BY LogGrows DEF TypeOK
<1> DEFINE Goal ==
      /\ sweeper[c].pc \in {"event", "scan", "unlink", "ack"}
      /\ sweeper'[c].next = sweeper[c].next /\ InHand(c)' = InHand(c)
      /\ \A old, new :
           /\ new \subseteq old /\ new \subseteq keys'
           /\ \A k \in new : k[1] = InHand(c).version
           /\ Working(c) => Owed(c, old)
           => Owed(c, new)'
\* The message in hand stays what it is.
<1>1. ASSUME sweeper'[c].next = sweeper[c].next,
             sweeper[c].pc \in {"event", "scan", "unlink", "ack"}
      PROVE  InHand(c)' = InHand(c)
  BY <1>0, <1>1, InHandType DEF InHand
\* A step that leaves c where it is and drops from its SCAN only what has gone.
<1>2. ASSUME NEW gone, keys' \cap gone = {}, partial \subseteq partial',
             /\ sweeper'[c].pc = sweeper[c].pc /\ sweeper'[c].next = sweeper[c].next
             /\ sweeper'[c].page = sweeper[c].page /\ sweeper'[c].more = sweeper[c].more
             /\ sweeper'[c].left = sweeper[c].left \ gone
      PROVE  Goal
  <2>1. Working(c) /\ InHand(c)' = InHand(c)
    BY <1>1, <1>2 DEF Working
  <2>2. ASSUME NEW old, NEW new, new \subseteq old, new \subseteq keys', Owed(c, old)
        PROVE  Owed(c, new)'
    <3>1. new \cap gone = {}
      BY <1>2, <2>2
    <3>2. sweeper'[c].pc = "scan" => new \subseteq sweeper'[c].left
      BY <1>2, <2>2, <3>1 DEF Owed
    <3>3. sweeper'[c].pc = "unlink" =>
            /\ new \subseteq sweeper'[c].left \cup sweeper'[c].page
            /\ sweeper'[c].more \/ sweeper'[c].left = {}
      BY <1>2, <2>2, <3>1 DEF Owed
    <3>4. sweeper'[c].pc = "ack" =>
            sweeper'[c].next \in partial' \/ ~Relevant(InHand(c))' \/ new = {}
      BY <1>2, <2>1, <2>2 DEF Owed, Relevant
    <3> QED
      BY <3>2, <3>3, <3>4 DEF Owed
  <2> QED
    BY <1>2, <2>1, <2>2 DEF Working
\* A step that leaves c alone.
<1>3. ASSUME partial \subseteq partial', sweeper'[c] = sweeper[c]
      PROVE  Goal
  <2>1. sweeper'[c].left = sweeper[c].left \ {} /\ keys' \cap {} = {}
    BY <1>3
  <2> QED
    BY <1>2, <1>3, <2>1
<1>4. ASSUME NEW k \in Key, Write(k) \/ Expire(k)
      PROVE  Goal
  <2>1. CASE Write(k)
    BY <1>3, <2>1 DEF Write
  <2>2. CASE Expire(k)
    <3>1. sweeper' = Forgotten({k}) /\ keys' = keys \ {k} /\ partial' = partial
      BY <2>2 DEF Expire
    <3>2. /\ keys' \cap {k} = {} /\ sweeper'[c].left = sweeper[c].left \ {k}
          /\ sweeper'[c].pc = sweeper[c].pc /\ sweeper'[c].next = sweeper[c].next
          /\ sweeper'[c].page = sweeper[c].page /\ sweeper'[c].more = sweeper[c].more
      BY <1>0, <3>1, ForgottenKeeps
    <3> QED
      BY <1>2, <3>1, <3>2
  <2> QED
    BY <1>4, <2>1, <2>2
<1>5. ASSUME NEW m \in Message, Publish(m)
      PROVE  Goal
  BY <1>3, <1>5 DEF Publish
<1>6. ASSUME NEW d \in Sweeper, SweeperStep(d) \/ Fail(d) \/ Stop(d) \/ Start(d)
      PROVE  Goal
  <2>1. CASE Unlink(d)
    <3> DEFINE last == LastRound(sweeper[d].more, sweeper[d].page)
               over == ~last /\ Exhausted(d)
               was == Forgotten(Unlinked(d))
    <3>1. /\ sweeper[d].pc = "unlink" /\ keys' = keys \ sweeper[d].page
          /\ sweeper' = [was EXCEPT ![d].pc = IF last \/ over THEN "ack" ELSE "scan",
                                    ![d].page = {}]
          /\ partial' = IF over THEN partial \cup {sweeper[d].next} ELSE partial
      BY <2>1 DEF Unlink, SweeperAt, Unlinked
    <3>2. /\ was \in [Sweeper -> SweeperState]
          /\ \A e \in Sweeper :
               /\ was[e].left = sweeper[e].left \ sweeper[d].page
               /\ was[e].pc = sweeper[e].pc /\ was[e].next = sweeper[e].next
               /\ was[e].page = sweeper[e].page /\ was[e].more = sweeper[e].more
      BY <1>0, ForgottenKeeps DEF Unlinked
    <3> HIDE DEF was, over
    <3>3. CASE d # c
      <4>1. sweeper'[c] = was[c]
        BY <3>1, <3>2, <3>3
      <4>2. keys' \cap sweeper[d].page = {} /\ partial \subseteq partial'
        BY <3>1
      <4> QED
        BY <1>2, <3>2, <4>1, <4>2
    <3>4. CASE d = c
      <4>1. /\ sweeper'[c].pc = IF last \/ over THEN "ack" ELSE "scan"
            /\ sweeper'[c].next = sweeper[c].next
            /\ sweeper'[c].left = sweeper[c].left \ sweeper[c].page
        BY <3>1, <3>2, <3>4 DEF SweeperState
      <4>2. InHand(c)' = InHand(c)
        BY <1>1, <3>1, <3>4, <4>1
      <4>3. ASSUME NEW old, NEW new, new \subseteq old, new \subseteq keys', Owed(c, old)
            PROVE  Owed(c, new)'
        <5>1. new \subseteq sweeper'[c].left
          BY <3>1, <3>4, <4>1, <4>3 DEF Owed
        <5>2. last => new = {}
          BY <3>1, <3>4, <4>1, <4>3, <5>1 DEF Owed, LastRound
        <5>3. over => sweeper'[c].next \in partial'
          BY <3>1, <3>4, <4>1
        <5> QED
          BY <4>1, <5>1, <5>2, <5>3 DEF Owed
      <4> QED
        BY <3>1, <3>4, <4>1, <4>2, <4>3 DEF Working
    <3> QED
      BY <3>3, <3>4
  <2>2. CASE ~Unlink(d) /\ d # c
    <3>1. partial' = partial /\ sweeper'[c] = sweeper[c]
      BY <1>0, <1>6, <2>2 DEF SweeperStep, Poll, BeginSweep, Skip, Scan, Ack, Wake, Fail, Stop,
                              Start, Interrupted
    <3> QED
      BY <1>3, <3>1
  <2>3. CASE BeginSweep(c)
    <3>1. /\ sweeper[c].pc = "event" /\ keys' = keys
          /\ sweeper'[c].pc = "scan" /\ sweeper'[c].next = sweeper[c].next
          /\ sweeper'[c].left = Matching(InHand(c).version)
      BY <1>0, <2>3 DEF BeginSweep, SweeperAt, cacheVars, SweeperState
    <3>2. ASSUME NEW new, new \subseteq keys', \A k \in new : k[1] = InHand(c).version
          PROVE  new \subseteq sweeper'[c].left
      BY <3>1, <3>2 DEF Matching
    <3> QED
      BY <1>1, <3>1, <3>2 DEF Owed
  <2>4. CASE Skip(c)
    <3>1. /\ sweeper[c].pc = "event" /\ ~Relevant(InHand(c))
          /\ sweeper'[c].pc = "ack" /\ sweeper'[c].next = sweeper[c].next
      BY <1>0, <2>4 DEF Skip, SweeperAt, SweeperState
    <3>2. InHand(c)' = InHand(c)
      BY <1>1, <3>1
    <3> QED
      BY <3>1, <3>2 DEF Owed, Relevant
  <2>5. CASE Scan(c)
    <3>1. PICK page \in SUBSET Matching(InHand(c).version), more \in BOOLEAN :
            /\ sweeper[c].left \subseteq page \/ more
            /\ sweeper' = [sweeper EXCEPT ![c].pc = "unlink", ![c].rounds = @ + 1,
                            ![c].left = @ \ page, ![c].page = page, ![c].more = more]
      BY <2>5 DEF Scan
    <3>2. sweeper[c].pc = "scan"
      BY <2>5 DEF Scan, SweeperAt
    <3>3. /\ sweeper'[c].pc = "unlink" /\ sweeper'[c].next = sweeper[c].next
          /\ sweeper'[c].left = sweeper[c].left \ page /\ sweeper'[c].page = page
          /\ sweeper'[c].more = more
      BY <1>0, <3>1 DEF SweeperState
    <3>4. ASSUME NEW old, NEW new, new \subseteq old, Owed(c, old)
          PROVE  Owed(c, new)'
      BY <3>1, <3>2, <3>3, <3>4 DEF Owed
    <3> QED
      BY <1>1, <3>2, <3>3, <3>4 DEF Working
  <2>6. CASE Poll(c) \/ Ack(c) \/ Wake(c) \/ Fail(c) \/ Stop(c) \/ Start(c)
    <3>1. \/ sweeper'[c].pc = "event" \/ sweeper'[c] = IdleSweeper
          \/ \E label \in {"sleep", "stopped"} : sweeper'[c] = [IdleSweeper EXCEPT !.pc = label]
      <4>1. CASE Poll(c) \/ Wake(c) \/ Start(c)
        BY <1>0, <4>1 DEF Poll, Wake, Start, SweeperState
      <4>2. CASE Ack(c)
        <5>1. sweeper'[c] = NextMessage(sweeper[c])
          BY <1>0, <4>2 DEF Ack
        <5> QED
          BY <1>0, <5>1 DEF NextMessage, SweeperState
      <4>3. CASE Fail(c) \/ Stop(c)
        BY <1>0, <4>3 DEF Fail, Stop, Interrupted
      <4> QED
        BY <2>6, <4>1, <4>2, <4>3
    <3> QED
      BY <3>1, AfreshType, IdleType DEF Working
  <2> QED
    BY <1>6, <2>1, <2>2, <2>3, <2>4, <2>5, <2>6 DEF SweeperStep
<1>7. CASE UNCHANGED vars
  BY <1>3, <1>7 DEF vars
<1> QED
  BY <1>4, <1>5, <1>6, <1>7 DEF Next

\* A message is acknowledged only by the consumer whose sweep for it has ended; a sweep
\* cut short stays recorded.
LEMMA AckedOnlyThen ==
  ASSUME TypeOK, TypeOK', [Next]_vars, NEW i \in 1 .. cursor', i \notin pel' \cup partial'
  PROVE  /\ i \in 1 .. cursor /\ i \notin partial
         /\ i \in pel => \E c \in Sweeper : sweeper[c].pc = "ack" /\ sweeper[c].next = i
<1>0. cursor \in Nat /\ cursor' \in Nat /\ pel \subseteq 1 .. cursor
  BY DEF TypeOK
\* A step that hands out messages, or leaves the group as it is.
<1>1. ASSUME partial \subseteq partial',
             \/ UNCHANGED <<cursor, pel>>
             \/ cursor < cursor' /\ pel' = pel \cup (cursor + 1 .. cursor')
      PROVE  i \in 1 .. cursor /\ i \notin partial /\ i \notin pel
  BY <1>0, <1>1
<1>2. ASSUME NEW c \in Sweeper, partial' = partial, cursor' = cursor, sweeper[c].pc = "ack",
             pel' = pel \ {sweeper[c].next}
      PROVE  /\ i \in 1 .. cursor /\ i \notin partial
             /\ i \in pel => \E d \in Sweeper : sweeper[d].pc = "ack" /\ sweeper[d].next = i
  BY <1>0, <1>2
<1>3. CASE UNCHANGED <<cursor, pel, partial>>
  BY <1>1, <1>3
<1>4. ASSUME NEW c \in Sweeper, SweeperStep(c) \/ Fail(c) \/ Stop(c) \/ Start(c)
      PROVE  \/ /\ partial \subseteq partial'
                /\ \/ UNCHANGED <<cursor, pel>>
                   \/ cursor < cursor' /\ pel' = pel \cup (cursor + 1 .. cursor')
             \/ /\ partial' = partial /\ cursor' = cursor /\ sweeper[c].pc = "ack"
                /\ pel' = pel \ {sweeper[c].next}
  <2>1. CASE Poll(c)
    BY <2>1 DEF Poll
  <2>2. CASE BeginSweep(c) \/ Skip(c) \/ Scan(c) \/ Unlink(c) \/ Wake(c) \/ Start(c)
    BY <2>2 DEF BeginSweep, Skip, Scan, Unlink, Wake, Start, streamVars
  <2>3. CASE Ack(c)
    BY <2>3 DEF Ack, SweeperAt
  <2>4. CASE Fail(c) \/ Stop(c)
    <3>1. PICK label \in {"sleep", "stopped"} : Interrupted(c, label)
      BY <2>4 DEF Fail, Stop
    <3>2. Fetched => \/ UNCHANGED <<cursor, pel>>
                     \/ cursor < cursor' /\ pel' = pel \cup (cursor + 1 .. cursor')
      BY DEF Fetched
    <3> QED
      BY <3>1, <3>2 DEF Interrupted, SweeperAt
  <2> QED
    BY <1>4, <2>1, <2>2, <2>3, <2>4 DEF SweeperStep
<1>5. CASE (\E k \in Key : Write(k) \/ Expire(k)) \/ \E m \in Message : Publish(m)
  BY <1>3, <1>5 DEF Write, Expire, Publish, streamVars
<1>6. CASE UNCHANGED vars
  BY <1>3, <1>6 DEF vars, streamVars
<1> QED
  BY <1>1, <1>2, <1>4, <1>5, <1>6 DEF Next

-----------------------------------------------------------------------------
(* No entry survives the sweep that its event asked for.                   *)

SweepInv ==
  /\ TypeOK /\ AckedIsSwept
  /\ \A c \in Sweeper :
       Working(c) => Owed(c, Outdated(sweeper[c].next, InHand(c).version))

\* No step makes an entry older, or changes a message.
Calm ==
  \A i \in 1 .. cursor :
    log'[i] = log[i] /\ \A v : Outdated(i, v)' \subseteq Outdated(i, v)

LEMMA StepsAreCalm ==
  ASSUME TypeOK, [Next]_vars
  PROVE  Calm
<1>0. /\ keys \subseteq Key /\ born \in [Key -> Nat] /\ log \in Seq(Message)
      /\ cursor \in Nat /\ cursor <= Len(log) /\ Len(log) \in Nat
  BY DEF TypeOK
<1>1. ASSUME keys' \subseteq keys, UNCHANGED <<born, log>>
      PROVE  Calm
  BY <1>1 DEF Calm, Outdated
<1>2. ASSUME NEW k \in Key, Write(k)
      PROVE  Calm
  <2>1. keys' = keys \cup {k} /\ log' = log /\ born' = [born EXCEPT ![k] = Len(log)]
    BY <1>2 DEF Write, streamVars
  <2>2. ASSUME NEW i \in 1 .. cursor, NEW v, NEW x \in Outdated(i, v)'
        PROVE  x \in Outdated(i, v)
    <3>1. x \in keys' /\ x[1] = v /\ born'[x] < i
      BY <2>2 DEF Outdated
    <3>2. x \in Key /\ i <= Len(log)
      BY <1>0, <2>1, <3>1
    <3>3. x # k
      BY <1>0, <2>1, <3>1, <3>2
    <3> QED
      BY <1>0, <2>1, <3>1, <3>2, <3>3 DEF Outdated
  <2> QED
    BY <2>1, <2>2 DEF Calm
<1>3. ASSUME NEW k \in Key, Expire(k)
      PROVE  Calm
  BY <1>1, <1>3 DEF Expire, streamVars
<1>4. ASSUME NEW m \in Message, Publish(m)
      PROVE  Calm
  <2>1. log' = Append(log, m) /\ keys' = keys /\ born' = born
    BY <1>4 DEF Publish, cacheVars
  <2>2. \A i \in 1 .. cursor : log'[i] = log[i]
    BY <1>0, <2>1
  <2> QED
    BY <2>1, <2>2 DEF Calm, Outdated
<1>5. ASSUME NEW c \in Sweeper, SweeperStep(c) \/ Fail(c) \/ Stop(c) \/ Start(c)
      PROVE  Calm
  <2>1. keys' \subseteq keys /\ UNCHANGED <<born, log>>
    BY <1>5 DEF SweeperStep, Poll, BeginSweep, Skip, Scan, Unlink, Ack, Wake, Fail, Stop,
                Start, Interrupted, cacheVars, streamVars
  <2> QED
    BY <1>1, <2>1
<1>6. CASE UNCHANGED vars
  BY <1>1, <1>6 DEF vars, cacheVars, streamVars
<1> QED
  BY <1>2, <1>3, <1>4, <1>5, <1>6 DEF Next

LEMMA SweepStart == Init => SweepInv
<1>1. Init => TypeOK
  BY TypeStarts
<1>2. Init => AckedIsSwept
  BY DEF Init, AckedIsSwept
<1>3. Init => \A c \in Sweeper : ~Working(c)
  BY IdleType DEF Init, Working
<1> QED
  BY <1>1, <1>2, <1>3 DEF SweepInv

LEMMA SweepStays ==
  ASSUME Namespace = EntrySpace, SweepInv, [Next]_vars
  PROVE  SweepInv'
<1>0. TypeOK /\ TypeOK' /\ Calm /\ cursor \in Nat
  BY StepsAreCalm, TypeStays DEF SweepInv, TypeOK
<1>1. ASSUME NEW c \in Sweeper, Working(c)'
      PROVE  Owed(c, Outdated(sweeper[c].next, InHand(c).version))'
  <2>1. PICK i, v : i = sweeper[c].next /\ v = InHand(c).version
    OBVIOUS
  <2>2. /\ sweeper[c].pc \in {"event", "scan", "unlink", "ack"}
        /\ sweeper'[c].next = i /\ InHand(c)'.version = v
    BY <1>0, <1>1, <2>1, SweepProgress
  <2>3. i \in 1 .. cursor
    BY <1>0, <2>1, <2>2, InHandType
  <2>4. PICK old, new : old = Outdated(i, v) /\ new = Outdated(i, v)'
    OBVIOUS
  <2>5. /\ new \subseteq old /\ new \subseteq keys' /\ \A k \in new : k[1] = v
        /\ Working(c) => Owed(c, old)
    BY <1>0, <2>1, <2>3, <2>4 DEF SweepInv, Calm, Outdated
  <2>6. Owed(c, new)'
    BY <1>0, <1>1, <2>1, <2>5, SweepProgress
  <2>7. new = Outdated(sweeper[c].next, InHand(c).version)'
    BY <2>2, <2>4 DEF Outdated
  <2> QED
    BY <2>6, <2>7 DEF Owed
<1>2. AckedIsSwept'
  <2> SUFFICES ASSUME NEW i \in 1 .. cursor', i \notin pel' \cup partial', Relevant(log'[i])
               PROVE  Outdated(i, log[i].version)' = {}
    BY DEF AckedIsSwept, Relevant
  <2>1. /\ i \in 1 .. cursor /\ i \notin partial
        /\ i \in pel => \E c \in Sweeper : sweeper[c].pc = "ack" /\ sweeper[c].next = i
    BY <1>0, AckedOnlyThen
  <2>2. PICK v : v = log[i].version
    OBVIOUS
  <2>3. log'[i] = log[i] /\ Outdated(i, v)' \subseteq Outdated(i, v)
    BY <1>0, <2>1 DEF Calm
  <2>4. Outdated(i, v) = {}
    BY <2>1, <2>2, <2>3 DEF SweepInv, AckedIsSwept, Working, Owed, InHand
  <2> QED
    BY <2>2, <2>3, <2>4 DEF Outdated
<1> QED
  BY <1>0, <1>1, <1>2 DEF SweepInv

\* If the namespace that is swept is the one the store writes to, no entry older than
\* an acknowledged event is ever left, unless its sweep was logged as cut short
\* (Consistency.AckedIsSwept; invalidator.py 26-51, consumer.py 27-44).
THEOREM Swept ==
  ASSUME Namespace = EntrySpace
  PROVE  Spec => []AckedIsSwept
<1>1. SweepInv => AckedIsSwept
  BY DEF SweepInv
<1>2. SweepInv /\ [Next]_vars => SweepInv'
  BY SweepStays
<1> QED
  BY <1>1, <1>2, SweepStart, PTL DEF Spec

-----------------------------------------------------------------------------
(* No older passages come back after the sweep.                            *)

\* The entries of version v with passages from before message i, other than those that
\* somebody held such passages for while the message was swept for.
Older(i, v) == {k \in keys : k[1] = v /\ found[k] < i /\ <<i, k>> \notin exposed}

\* Nobody else is about to store such passages under a key of version v.
Covered(i, v) ==
  \A w \in Writer, k \in Key : k[1] = v /\ HoldsOlder(w, i, k) => <<i, k>> \in exposed

FillInv ==
  /\ TypeOK /\ FillTypeOK /\ OlderPassagesGone
  /\ \A c \in Sweeper :
       Working(c) => /\ Covered(sweeper[c].next, InHand(c).version)
                     /\ Owed(c, Older(sweeper[c].next, InHand(c).version))

\* The consistency service sees the writers only as writes to the cache.
LEMMA FillIsNext == FillTypeOK /\ [FillNext]_allVars => [Next]_vars
<1> SUFFICES ASSUME FillTypeOK, [FillNext]_allVars
             PROVE  [Next]_vars
  OBVIOUS
<1>1. CASE ServiceStep
  BY <1>1 DEF ServiceStep, Next
<1>2. ASSUME NEW w \in Writer, WriterStep(w)
      PROVE  [Next]_vars
  <2>1. held[w].keys \subseteq Key
    BY DEF FillTypeOK, Copy
  <2>2. CASE Store(w)
    BY <2>1, <2>2 DEF Store, Next
  <2>3. CASE ~Store(w)
    BY <1>2, <2>3 DEF WriterStep, Retrieve, ReadEntry, Hold, GiveUp
  <2> QED
    BY <2>2, <2>3
<1>3. CASE UNCHANGED allVars
  BY <1>3 DEF allVars
<1> QED
  BY <1>1, <1>2, <1>3 DEF FillNext

LEMMA FillTypeStarts == FillInit => FillTypeOK
<1>1. FillInit => \A w \in Writer : held[w] = Nothing
  BY DEF FillInit
<1>2. Nothing \in Copy /\ Nothing.date = 0
  BY DEF Nothing, Copy
<1> QED
  BY <1>1, <1>2, TypeStarts DEF FillInit, Init, FillTypeOK

\* What each step does to the passages.
LEMMA FillSteps ==
  ASSUME TypeOK, FillTypeOK, FillNext
  PROVE  \/ UNCHANGED <<found, held>> /\ keys' \subseteq keys
         \/ \E w \in Writer, k \in Key, date \in Nat :
              /\ date = Len(log) \/ (k \in keys /\ date = found[k])
              /\ held' = [held EXCEPT ![w] = [keys |-> {k}, date |-> date]]
              /\ UNCHANGED <<keys, found, log>>
         \/ \E w \in Writer : \E k \in held[w].keys :
              /\ keys' = keys \cup {k} /\ log' = log
              /\ found' = [found EXCEPT ![k] = held[w].date]
              /\ held' = [held EXCEPT ![w] = Nothing]
         \/ \E w \in Writer :
              held' = [held EXCEPT ![w] = Nothing] /\ UNCHANGED <<keys, found, log>>
<1>0. found \in [Key -> Nat] /\ Len(log) \in Nat
  BY DEF TypeOK, FillTypeOK
<1>1. CASE ServiceStep
  BY <1>1 DEF ServiceStep, Expire, Publish, SweeperStep, Poll, BeginSweep, Skip, Scan, Unlink,
              Ack, Wake, Fail, Stop, Start, Interrupted, cacheVars
<1>2. ASSUME NEW w \in Writer, WriterStep(w)
      PROVE  \/ \E k \in Key, date \in Nat :
                  /\ date = Len(log) \/ (k \in keys /\ date = found[k])
                  /\ held' = [held EXCEPT ![w] = [keys |-> {k}, date |-> date]]
                  /\ UNCHANGED <<keys, found, log>>
             \/ \E k \in held[w].keys :
                  /\ keys' = keys \cup {k} /\ log' = log
                  /\ found' = [found EXCEPT ![k] = held[w].date]
                  /\ held' = [held EXCEPT ![w] = Nothing]
             \/ held' = [held EXCEPT ![w] = Nothing] /\ UNCHANGED <<keys, found, log>>
  <2>1. ASSUME NEW k \in Key, Retrieve(w, k) \/ ReadEntry(w, k)
        PROVE  \E date \in Nat :
                 /\ date = Len(log) \/ (k \in keys /\ date = found[k])
                 /\ held' = [held EXCEPT ![w] = [keys |-> {k}, date |-> date]]
                 /\ UNCHANGED <<keys, found, log>>
    <3>1. ASSUME NEW date \in Nat, date = Len(log) \/ (k \in keys /\ date = found[k]),
                 Hold(w, k, date)
          PROVE  /\ held' = [held EXCEPT ![w] = [keys |-> {k}, date |-> date]]
                 /\ UNCHANGED <<keys, found, log>>
      BY <3>1 DEF Hold, vars, cacheVars, streamVars
    <3>2. CASE Retrieve(w, k)
      BY <1>0, <3>1, <3>2 DEF Retrieve
    <3>3. CASE ReadEntry(w, k)
      <4>1. found[k] \in Nat /\ k \in keys /\ Hold(w, k, found[k])
        BY <1>0, <3>3 DEF ReadEntry
      <4> QED
        BY <3>1, <4>1
    <3> QED
      BY <2>1, <3>2, <3>3
  <2>2. CASE Store(w)
    BY <2>2 DEF Store, Write, streamVars
  <2>3. CASE GiveUp(w)
    BY <2>3 DEF GiveUp, vars, cacheVars, streamVars
  <2> QED
    BY <1>2, <2>1, <2>2, <2>3 DEF WriterStep
<1> QED
  BY <1>1, <1>2 DEF FillNext

LEMMA FillTypeStays ==
  ASSUME TypeOK, TypeOK', FillTypeOK, [FillNext]_allVars
  PROVE  FillTypeOK'
<1>0. /\ found \in [Key -> Nat] /\ held \in [Writer -> Copy] /\ cursor \in Nat /\ cursor' \in Nat
      /\ Len(log) \in Nat /\ Len(log') \in Nat
      /\ \A k \in Key : found[k] <= Len(log)
      /\ \A w \in Writer : held[w].date \in Nat /\ held[w].date <= Len(log)
                           /\ held[w].keys \subseteq Key
      /\ Nothing \in Copy /\ Nothing.date = 0 /\ Nothing.date <= Len(log)
  <2>1. /\ found \in [Key -> Nat] /\ held \in [Writer -> Copy] /\ cursor \in Nat
        /\ cursor' \in Nat /\ Len(log) \in Nat /\ Len(log') \in Nat
        /\ \A k \in Key : found[k] <= Len(log)
        /\ \A w \in Writer : held[w].date <= Len(log)
    BY DEF TypeOK, FillTypeOK
  <2>2. \A copy \in Copy : copy.date \in Nat /\ copy.keys \subseteq Key
    BY DEF Copy
  <2>3. Nothing \in Copy /\ Nothing.date = 0
    BY DEF Nothing, Copy
  <2> QED
    BY <2>1, <2>2, <2>3
<1>1. Len(log) <= Len(log') /\ cursor <= cursor'
  <2>1. log' = log \/ \E m \in Message : log' = Append(log, m)
    BY FillIsNext DEF Next, Write, Expire, Publish, SweeperStep, Poll, BeginSweep, Skip, Scan,
         Unlink, Ack, Wake, Fail, Stop, Start, Interrupted, vars, streamVars
  <2>2. cursor' = cursor \/ cursor < cursor'
    BY FillIsNext DEF Next, Write, Expire, Publish, SweeperStep, Poll, BeginSweep, Skip, Scan,
         Unlink, Ack, Wake, Fail, Stop, Start, Interrupted, Fetched, vars, streamVars
  <2> QED
    BY <1>0, <2>1, <2>2 DEF TypeOK
<1>2. exposed' \subseteq (1 .. cursor') \X Key
  <2>1. exposed' = exposed \/ exposed' = exposed \cup Exposure'
    BY DEF FillNext, allVars, fillVars
  <2>2. Exposure' \subseteq (1 .. cursor') \X Key
    BY DEF Exposure
  <2> QED
    BY <1>0, <1>1, <2>1, <2>2 DEF FillTypeOK
<1>3. CASE UNCHANGED <<found, held>>
  BY <1>0, <1>1, <1>2, <1>3 DEF FillTypeOK
<1>4. ASSUME NEW w \in Writer, NEW copy \in Copy, copy.date <= Len(log),
             held' = [held EXCEPT ![w] = copy]
      PROVE  held' \in [Writer -> Copy] /\ \A u \in Writer : held'[u].date <= Len(log')
  <2>1. held' \in [Writer -> Copy] /\ copy.date \in Nat
    BY <1>0, <1>4 DEF Copy
  <2>2. ASSUME NEW u \in Writer
        PROVE  held'[u].date <= Len(log')
    <3>1. held'[u] = copy \/ held'[u] = held[u]
      BY <1>0, <1>4
    <3> QED
      BY <1>0, <1>1, <1>4, <2>1, <3>1
  <2> QED
    BY <2>1, <2>2
<1>5. ASSUME NEW w \in Writer, NEW k \in Key, NEW date \in Nat,
             date = Len(log) \/ (k \in keys /\ date = found[k]),
             held' = [held EXCEPT ![w] = [keys |-> {k}, date |-> date]], found' = found
      PROVE  FillTypeOK'
  <2>1. /\ [keys |-> {k}, date |-> date] \in Copy
        /\ [keys |-> {k}, date |-> date].date <= Len(log)
    BY <1>0, <1>5 DEF Copy
  <2> QED
    BY <1>0, <1>1, <1>2, <1>4, <1>5, <2>1 DEF FillTypeOK
<1>6. ASSUME NEW w \in Writer, NEW k \in held[w].keys,
             found' = [found EXCEPT ![k] = held[w].date], held' = [held EXCEPT ![w] = Nothing]
      PROVE  FillTypeOK'
  <2>1. found' \in [Key -> Nat] /\ \A x \in Key : found'[x] <= Len(log')
    BY <1>0, <1>1, <1>6
  <2>2. held' \in [Writer -> Copy] /\ \A u \in Writer : held'[u].date <= Len(log')
    BY <1>0, <1>4, <1>6
  <2> QED
    BY <1>2, <2>1, <2>2 DEF FillTypeOK
<1>7. ASSUME NEW w \in Writer, held' = [held EXCEPT ![w] = Nothing], found' = found
      PROVE  FillTypeOK'
  <2>1. held' \in [Writer -> Copy] /\ \A u \in Writer : held'[u].date <= Len(log')
    BY <1>0, <1>4, <1>7
  <2> QED
    BY <1>0, <1>1, <1>2, <1>7, <2>1 DEF FillTypeOK
<1>8. CASE UNCHANGED allVars
  BY <1>3, <1>8 DEF allVars, fillVars
<1> QED
  BY <1>3, <1>5, <1>6, <1>7, <1>8, FillSteps

\* If every writer that holds older passages has been noted, a step makes no entry
\* older; and if no entry has older passages, nobody takes some up.
LEMMA PassagesStay ==
  ASSUME TypeOK, FillTypeOK, [FillNext]_allVars, NEW i \in 1 .. cursor, NEW v, Covered(i, v)
  PROVE  /\ exposed \subseteq exposed'
         /\ Older(i, v)' \subseteq Older(i, v)
         /\ Older(i, v) = {} => Covered(i, v)'
<1>0. /\ found \in [Key -> Nat] /\ held \in [Writer -> Copy] /\ keys \subseteq Key
      /\ i \in Nat /\ i <= Len(log) /\ Len(log) \in Nat
      /\ \A w \in Writer : held[w].keys \subseteq Key /\ held[w].date \in Nat
      /\ Nothing.keys = {}
  <2>1. \A copy \in Copy : copy.date \in Nat /\ copy.keys \subseteq Key
    BY DEF Copy
  <2> QED
    BY <2>1 DEF TypeOK, FillTypeOK, Nothing
<1>1. exposed \subseteq exposed'
  BY DEF FillNext, allVars, fillVars
<1> DEFINE Goal == Older(i, v)' \subseteq Older(i, v) /\ (Older(i, v) = {} => Covered(i, v)')
<1>2. ASSUME keys' \subseteq keys, found' = found
      PROVE  Older(i, v)' \subseteq Older(i, v)
  BY <1>1, <1>2 DEF Older
<1>3. ASSUME NEW w \in Writer, \A u \in Writer \ {w} : held'[u] = held[u],
             Older(i, v) = {},
             \A k \in Key : k[1] = v /\ HoldsOlder(w, i, k)' => <<i, k>> \in exposed'
      PROVE  Covered(i, v)'
  BY <1>1, <1>3 DEF Covered, HoldsOlder
<1>4. CASE UNCHANGED <<found, held>> /\ keys' \subseteq keys
  BY <1>1, <1>2, <1>4 DEF Covered, HoldsOlder
<1>5. ASSUME NEW w \in Writer, NEW k \in Key, NEW date \in Nat,
             date = Len(log) \/ (k \in keys /\ date = found[k]),
             held' = [held EXCEPT ![w] = [keys |-> {k}, date |-> date]],
             UNCHANGED <<keys, found, log>>
      PROVE  Goal
  <2>1. held'[w].keys = {k} /\ held'[w].date = date
    BY <1>0, <1>5
  <2>2. ASSUME Older(i, v) = {}, NEW x \in Key, x[1] = v, HoldsOlder(w, i, x)'
        PROVE  <<i, x>> \in exposed'
    <3>1. x = k /\ date < i
      BY <2>1, <2>2 DEF HoldsOlder
    <3>2. k \in keys /\ found[k] < i /\ k[1] = v
      BY <1>0, <1>5, <2>2, <3>1
    <3> QED
      BY <1>1, <2>2, <3>1, <3>2 DEF Older
  <2>3. \A u \in Writer \ {w} : held'[u] = held[u]
    BY <1>0, <1>5
  <2> QED
    BY <1>2, <1>3, <1>5, <2>2, <2>3
<1>6. ASSUME NEW w \in Writer, NEW k \in held[w].keys,
             keys' = keys \cup {k}, log' = log,
             found' = [found EXCEPT ![k] = held[w].date], held' = [held EXCEPT ![w] = Nothing]
      PROVE  Goal
  <2>1. k \in Key /\ held'[w].keys = {} /\ \A u \in Writer \ {w} : held'[u] = held[u]
    BY <1>0, <1>6
  <2>2. ASSUME NEW x \in Older(i, v)'
        PROVE  x \in Older(i, v)
    <3>1. x \in keys' /\ x[1] = v /\ found'[x] < i /\ <<i, x>> \notin exposed
      BY <1>1, <2>2 DEF Older
    <3>2. x # k
      BY <1>0, <1>6, <2>1, <3>1 DEF Covered, HoldsOlder
    <3>3. found'[x] = found[x] /\ x \in keys
      BY <1>0, <1>6, <3>1, <3>2
    <3> QED
      BY <3>1, <3>3 DEF Older
  <2> QED
    BY <1>3, <2>1, <2>2 DEF HoldsOlder
<1>7. ASSUME NEW w \in Writer, held' = [held EXCEPT ![w] = Nothing], UNCHANGED <<keys, found, log>>
      PROVE  Goal
  <2>1. held'[w].keys = {} /\ \A u \in Writer \ {w} : held'[u] = held[u]
    BY <1>0, <1>7
  <2> QED
    BY <1>2, <1>3, <1>7, <2>1 DEF HoldsOlder
<1>8. CASE UNCHANGED allVars
  BY <1>4, <1>8 DEF allVars, vars, cacheVars, fillVars
<1> QED
  BY <1>1, <1>4, <1>5, <1>6, <1>7, <1>8, FillSteps

\* OlderPassagesGone in the terms of the invariant.
AllGone ==
  \A i \in 1 .. cursor : i \notin pel \cup partial /\ Relevant(log[i]) =>
     Older(i, log[i].version) = {} /\ Covered(i, log[i].version)

LEMMA GoneMeans ==
  TypeOK /\ FillTypeOK => (OlderPassagesGone <=> AllGone)
<1> SUFFICES ASSUME TypeOK, FillTypeOK
             PROVE  OlderPassagesGone <=> AllGone
  OBVIOUS
<1>1. keys \subseteq Key /\ found \in [Key -> Nat] /\ cursor \in Nat
  BY DEF TypeOK, FillTypeOK
<1>2. ASSUME NEW i \in 1 .. cursor, NEW v
      PROVE  Older(i, v) = {} /\ Covered(i, v) <=>
               \A k \in Key : k[1] = v /\ <<i, k>> \notin exposed =>
                  /\ k \in keys => ~(found[k] < i)
                  /\ \A w \in Writer : ~HoldsOlder(w, i, k)
  BY <1>1 DEF Older, Covered
<1>3. ASSUME NEW i \in 1 .. cursor
      PROVE  (i \notin pel \cup partial /\ Relevant(log[i]) =>
                Older(i, log[i].version) = {} /\ Covered(i, log[i].version)) <=>
             \A k \in Key :
               /\ i \notin pel \cup partial /\ Relevant(log[i])
               /\ k[1] = log[i].version /\ <<i, k>> \notin exposed
               =>
                 /\ k \in keys => ~(found[k] < i)
                 /\ \A w \in Writer : ~HoldsOlder(w, i, k)
  <2>1. PICK v : v = log[i].version
    OBVIOUS
  <2> QED
    BY <1>2, <2>1
<1>4. ASSUME NEW i \in 1 .. cursor, NEW k \in keys
      PROVE  ~(found[k] < i) <=> found[k] >= i
  BY <1>1
<1> QED
  BY <1>1, <1>3, <1>4 DEF OlderPassagesGone, AllGone

LEMMA FillInvStays ==
  ASSUME Namespace = EntrySpace, FillInv, [FillNext]_allVars
  PROVE  FillInv'
<1>0. /\ TypeOK /\ TypeOK' /\ FillTypeOK /\ FillTypeOK' /\ [Next]_vars /\ cursor \in Nat
      /\ \A i \in 1 .. cursor : log'[i] = log[i]
  <2>1. TypeOK /\ FillTypeOK /\ [Next]_vars
    BY FillIsNext DEF FillInv
  <2>2. TypeOK' /\ FillTypeOK'
    BY <2>1, TypeStays, FillTypeStays
  <2>3. cursor \in Nat
    BY <2>1 DEF TypeOK
  <2>4. \A i \in 1 .. cursor : log'[i] = log[i]
    BY <2>1, LogGrows
  <2> QED
    BY <2>1, <2>2, <2>3, <2>4
<1>1. ASSUME NEW c \in Sweeper, Working(c)'
      PROVE  (/\ Covered(sweeper[c].next, InHand(c).version)
              /\ Owed(c, Older(sweeper[c].next, InHand(c).version)))'
  <2>1. PICK i, v : i = sweeper[c].next /\ v = InHand(c).version
    OBVIOUS
  <2>2. /\ sweeper[c].pc \in {"event", "scan", "unlink", "ack"}
        /\ sweeper'[c].next = i /\ InHand(c)'.version = v
    BY <1>0, <1>1, <2>1, SweepProgress
  <2>3. i \in 1 .. cursor /\ i \in 1 .. cursor'
    <3>1. i \in 1 .. cursor
      BY <1>0, <2>1, <2>2, InHandType
    <3>2. /\ sweeper'[c].next <= sweeper'[c].last /\ sweeper'[c].last <= cursor'
          /\ sweeper'[c] \in SweeperState /\ cursor' \in Nat
      BY <1>0, <1>1 DEF Working, TypeOK
    <3> QED
      BY <2>2, <3>1, <3>2 DEF SweeperState
  \* Whoever holds older passages meanwhile is noted.
  <2>4. Covered(i, v)'
    <3>1. CASE FillNext
      <4>1. ASSUME NEW w \in Writer, NEW k \in Key, HoldsOlder(w, i, k)'
            PROVE  <<i, k>> \in Exposure'
        BY <1>1, <2>2, <2>3, <4>1 DEF Exposure, Sweeping, Working
      <4> QED
        BY <3>1, <4>1 DEF FillNext, Covered
    <3>2. CASE UNCHANGED allVars
      BY <1>1, <2>1, <3>2 DEF FillInv, Working, Covered, HoldsOlder, InHand, allVars, fillVars,
                              vars, streamVars
    <3> QED
      BY <3>1, <3>2
  <2>5. PICK now : now = Older(i, v)'
    OBVIOUS
  <2>6. now \subseteq keys' /\ \A k \in now : k[1] = v
    BY <2>5 DEF Older
  <2>7. CASE Working(c)
    <3>1. PICK old : old = Older(i, v)
      OBVIOUS
    <3>2. Covered(i, v) /\ Owed(c, old)
      BY <2>1, <2>7, <3>1 DEF FillInv
    <3>3. now \subseteq old
      BY <1>0, <2>3, <2>5, <3>1, <3>2, PassagesStay DEF FillInv
    <3>4. Owed(c, now)'
      BY <1>0, <1>1, <2>1, <2>6, <3>2, <3>3, SweepProgress
    <3> QED
      BY <2>2, <2>4, <2>5, <3>4 DEF Owed
  <2>8. CASE ~Working(c)
    <3>1. Owed(c, now)'
      BY <1>0, <1>1, <2>1, <2>6, <2>8, SweepProgress
    <3> QED
      BY <2>2, <2>4, <2>5, <3>1 DEF Owed
  <2> QED
    BY <2>7, <2>8
<1>2. OlderPassagesGone'
  <2>1. ASSUME NEW i \in 1 .. cursor', i \notin pel' \cup partial', Relevant(log'[i])
        PROVE  (Older(i, log[i].version) = {} /\ Covered(i, log[i].version))'
    <3>1. /\ i \in 1 .. cursor /\ i \notin partial
          /\ i \in pel => \E c \in Sweeper : sweeper[c].pc = "ack" /\ sweeper[c].next = i
      BY <1>0, <2>1, AckedOnlyThen
    <3>2. PICK v : v = log[i].version
      OBVIOUS
    <3>3. log'[i] = log[i] /\ Relevant(log[i])
      BY <1>0, <2>1, <3>1
    <3>4. Older(i, v) = {} /\ Covered(i, v)
      <4>1. CASE i \in pel
        BY <3>1, <3>2, <3>3, <4>1 DEF FillInv, Working, Owed, InHand
      <4>2. CASE i \notin pel
        BY <1>0, <3>1, <3>2, <3>3, <4>2, GoneMeans DEF FillInv, AllGone
      <4> QED
        BY <4>1, <4>2
    <3>5. Older(i, v)' \subseteq Older(i, v) /\ Covered(i, v)'
      BY <1>0, <3>1, <3>4, PassagesStay DEF FillInv
    <3> QED
      BY <3>2, <3>3, <3>4, <3>5 DEF Older, Covered
  <2>2. AllGone'
    BY <2>1 DEF AllGone, Relevant
  <2>3. TypeOK' /\ FillTypeOK' => (OlderPassagesGone' <=> AllGone')
    BY GoneMeans, PTL
  <2> QED
    BY <1>0, <2>2, <2>3
<1> QED
  BY <1>0, <1>1, <1>2 DEF FillInv

LEMMA FillInvStarts == FillInit => FillInv
<1> SUFFICES ASSUME FillInit
             PROVE  FillInv
  OBVIOUS
<1>1. TypeOK /\ FillTypeOK
  BY FillTypeStarts DEF FillTypeOK
<1>2. cursor = 0 /\ \A c \in Sweeper : ~Working(c)
  BY IdleType DEF FillInit, Init, Working
<1>3. OlderPassagesGone
  BY <1>2 DEF OlderPassagesGone
<1> QED
  BY <1>1, <1>2, <1>3 DEF FillInv

\* No step, of the service or of a writer, leaves the types or dates passages later than
\* the last event (Invalidation.FillTypeOK).
THEOREM FillTyping == FillSpec => []FillTypeOK
<1>1. FillTypeOK /\ [FillNext]_allVars => FillTypeOK'
  <2>1. FillTypeOK => TypeOK
    BY DEF FillTypeOK
  <2> QED
    BY <2>1, FillIsNext, TypeStays, FillTypeStays
<1> QED
  BY <1>1, FillTypeStarts, PTL DEF FillSpec

\* Jobs and reviews write to the cache as Consistency lets anybody do, so that all that
\* is proved of Consistency holds for them (service.py 72-90 and 136-153).
THEOREM FillImplements == FillSpec => Spec
<1>1. FillInit => Init
  BY DEF FillInit
<1>2. FillTypeOK /\ [FillNext]_allVars => [Next]_vars
  BY FillIsNext
<1> QED
  BY <1>1, <1>2, FillTyping, PTL DEF FillSpec, Spec

\* If the namespace that is swept is the one the store writes to, an acknowledged event
\* leaves no older passages under a key of its version, and nobody about to store some,
\* but for keys that somebody held such passages for during the sweep
\* (Invalidation.OlderPassagesGone; invalidator.py 26-51, service.py 72-90, 136-153).
THEOREM Refreshed ==
  ASSUME Namespace = EntrySpace
  PROVE  FillSpec => []OlderPassagesGone
<1>1. FillInv => OlderPassagesGone
  BY DEF FillInv
<1>2. FillInv /\ [FillNext]_allVars => FillInv'
  BY FillInvStays
<1> QED
  BY <1>1, <1>2, FillInvStarts, PTL DEF FillSpec

=============================================================================
