-------------------------- MODULE AgentJobsProofs --------------------------
(***************************************************************************)
(* Theorems about AgentJobs, for any number of jobs, consumers and stream  *)
(* requests, any batch size, and, unless a theorem says otherwise, under   *)
(* every fault.                                                            *)
(***************************************************************************)
EXTENDS AgentJobs, FiniteSetTheorems, TLAPS

-----------------------------------------------------------------------------
(* What a consumer's step does to its record and to the stream.            *)

Busy == {"hset", "expireJob", "expireTokens", "graph", "ack"}

\* What TypeOK says of one consumer when c messages have been handed out.
WorkerOK(w, c) ==
  /\ w \in WorkerState
  /\ w.pc \in Busy <=> w.batch # <<>>
  /\ \A i \in DOMAIN w.batch : w.batch[i] <= c

\* TypeOK with names for its sets.
LEMMA TypeParts ==
  TypeOK <=>
    /\ record \in [JobId -> Status] /\ tokens \in [JobId -> Nat]
    /\ ttl \subseteq {"job", "tokens"} \X JobId /\ log \in Seq(JobId)
    /\ cursor \in 0 .. Len(log) /\ pel \subseteq 1 .. cursor
    /\ enq \in [Job -> {"new", "hset", "expire", "publish", "sent"}]
    /\ worker \in [Consumer -> WorkerState]
    /\ \A k \in Consumer : WorkerOK(worker[k], cursor)
    /\ cancelled \subseteq Consumer /\ errors \in 0 .. MaxErrors
    /\ sse \in [Stream -> SseState]
BY DEF TypeOK, WorkerOK, InHand, Busy

\* XREADGROUP hands out the messages after the cursor, without a gap, and no more
\* than there are.
LEMMA Handout ==
  ASSUME log \in Seq(JobId), cursor \in 0 .. Len(log)
  PROVE  /\ Cardinality(Fetched) \in Nat
         /\ Fetched = cursor + 1 .. cursor + Cardinality(Fetched)
         /\ cursor + Cardinality(Fetched) \in cursor .. Len(log)
         /\ Fetched # {} => Cardinality(Fetched) > 0
<1> DEFINE e == BatchEnd(Len(log))
<1>1. Len(log) \in Nat /\ cursor \in Nat /\ DOMAIN log = 1 .. Len(log)
  OBVIOUS
<1>2. e \in cursor .. Len(log)
  BY <1>1, BoundAssumption DEF BatchEnd
<1>3. Fetched = cursor + 1 .. e
  BY <1>1, <1>2 DEF Fetched
<1> HIDE DEF e
<1>4. Cardinality(Fetched) = e - cursor
  <2>1. cursor + 1 \in Int /\ e \in Int
    BY <1>1, <1>2
  <2>2. Cardinality(Fetched) = IF cursor + 1 > e THEN 0 ELSE e - (cursor + 1) + 1
    BY <1>3, <2>1, FS_Interval
  <2> QED
    BY <1>1, <1>2, <2>2
<1>5. cursor + Cardinality(Fetched) = e
  BY <1>1, <1>2, <1>4
<1> QED
  BY <1>1, <1>2, <1>3, <1>4, <1>5

Exit == {"next", "raise", "cancel"}

\* Consumer k is at p with batch b, status s and exit x, and the others stay.
Moves(k, p, b, s, x) ==
  /\ worker' \in [Consumer -> WorkerState]
  /\ worker'[k].pc = p /\ worker'[k].batch = b
  /\ worker'[k].status = s /\ worker'[k].exit = x
  /\ \A l \in Consumer \ {k} : worker'[l] = worker[l]

\* The consumers stay well typed when one moves and the cursor only moves on.
LEMMA WorkersTyped ==
  ASSUME \A l \in Consumer : WorkerOK(worker[l], cursor),
         cursor \in Nat, cursor' \in Nat, cursor <= cursor',
         NEW k \in Consumer, NEW p, NEW b, NEW s, NEW x, Moves(k, p, b, s, x),
         p \in Busy <=> b # <<>>, \A i \in DOMAIN b : b[i] <= cursor'
  PROVE  \A l \in Consumer : WorkerOK(worker'[l], cursor')
<1>1. WorkerOK(worker'[k], cursor')
  BY DEF Moves, WorkerOK
<1>2. ASSUME NEW l \in Consumer \ {k} PROVE WorkerOK(worker'[l], cursor')
  <2>1. \A i \in DOMAIN worker[l].batch : worker[l].batch[i] \in Nat
    BY DEF WorkerOK, WorkerState
  <2> QED
    BY <2>1 DEF Moves, WorkerOK
<1> QED
  BY <1>1, <1>2

-----------------------------------------------------------------------------
(* The four ways in which a consumer and its batch move on.                *)

ConsumerStep(k) ==
  WorkerStep(k) \/ GraphFails(k) \/ RedisFails(k) \/ Cancel(k) \/ Restart(k)

\* The message stays in hand.
Kept(k) ==
  /\ InHand(k)
  /\ \E p \in Busy, s \in Status, x \in Exit : Moves(k, p, worker[k].batch, s, x)
  /\ UNCHANGED <<cursor, pel>>

Begin(batch) == IF batch = <<>> THEN "poll" ELSE "hset"

\* The message is acknowledged, and the next one follows.
Advanced(k) ==
  /\ WorkerAt(k, "ack")
  /\ Moves(k, Begin(Rest(k)), Rest(k), IF Rest(k) = <<>> THEN "absent" ELSE "running", "next")
  /\ pel' = pel \ {Current(k)}
  /\ UNCHANGED cursor

\* The batch, if there is one, is given up.
Dropped(k) ==
  /\ \E p \in {"poll", "sleep", "stopped"} : Moves(k, p, <<>>, "absent", "next")
  /\ CutOff(k)

\* The messages after the cursor.
Handed(n) == [i \in 1 .. n |-> cursor + i]

\* A batch is handed out.
Taken(k) ==
  LET n == Cardinality(Fetched) IN
  /\ WorkerAt(k, "poll") /\ n > 0
  /\ Moves(k, "hset", Handed(n), "running", "next")
  /\ cursor' = cursor + n
  /\ pel' = pel \cup Fetched

\* Where an exception takes a message that is being processed.
Failing(k) ==
  IF worker[k].status = "error"
    THEN Moves(k, "ack", worker[k].batch, worker[k].status, "raise")
    ELSE Moves(k, "hset", worker[k].batch, "error", worker[k].exit)

\* The steps with a message in hand, and where they take it.
LEMMA StepsInHand ==
  ASSUME worker \in [Consumer -> WorkerState], NEW k \in Consumer
  PROVE  LET w == worker[k] IN
         /\ SetStatus(k) => Moves(k, "expireJob", w.batch, w.status, w.exit)
         /\ ExpireJob(k) => Moves(k, "expireTokens", w.batch, w.status, w.exit)
         /\ ExpireTokens(k) =>
              Moves(k, IF w.status = "running" THEN "graph" ELSE "ack",
                    w.batch, w.status, w.exit)
         /\ FinishGraph(k) => Moves(k, "hset", w.batch, "done", w.exit)
         /\ GraphFails(k) => Failing(k)
         /\ RedisFails(k) /\ InHand(k) /\ ~WorkerAt(k, "ack") => Failing(k)
         /\ Cancel(k) /\ InHand(k) /\ ~WorkerAt(k, "ack") =>
              Moves(k, "ack", w.batch, w.status, "cancel")
<1> DEFINE w == worker[k]
<1>1. ASSUME SetStatus(k)
      PROVE Moves(k, "expireJob", w.batch, w.status, w.exit)
  BY <1>1 DEF SetStatus, Moves, WorkerState, WorkerPC
<1>2. ASSUME ExpireJob(k)
      PROVE Moves(k, "expireTokens", w.batch, w.status, w.exit)
  BY <1>2 DEF ExpireJob, Moves, WorkerState, WorkerPC
<1>3. ASSUME ExpireTokens(k)
      PROVE Moves(k, IF w.status = "running" THEN "graph" ELSE "ack",
                  w.batch, w.status, w.exit)
  BY <1>3 DEF ExpireTokens, Moves, WorkerState, WorkerPC
<1>4. ASSUME FinishGraph(k)
      PROVE Moves(k, "hset", w.batch, "done", w.exit)
  BY <1>4 DEF FinishGraph, Moves, WorkerState, WorkerPC, Status
<1>5. ASSUME w.pc \in {"hset", "expireJob", "expireTokens", "graph"},
             worker' = [worker EXCEPT ![k] = Raised(worker[k])]
      PROVE Failing(k)
  <2>1. CASE w.status = "error"
    <3>1. worker' = [worker EXCEPT ![k].pc = "ack", ![k].exit = "raise"]
      BY <1>5, <2>1 DEF Raised
    <3> QED
      BY <2>1, <3>1 DEF Failing, Moves, WorkerState, WorkerPC
  <2>2. CASE w.status # "error"
    <3>1. worker' = [worker EXCEPT ![k].pc = "hset", ![k].status = "error"]
      BY <1>5, <2>2 DEF Raised, Handled
    <3> QED
      BY <2>2, <3>1 DEF Failing, Moves, WorkerState, WorkerPC, Status
  <2> QED
    BY <2>1, <2>2
<1>6. GraphFails(k) => Failing(k)
  BY <1>5 DEF GraphFails, WorkerAt
<1>7. RedisFails(k) /\ InHand(k) /\ ~WorkerAt(k, "ack") => Failing(k)
  BY <1>5 DEF RedisFails, InHand, WorkerAt
<1>8. ASSUME Cancel(k), InHand(k), ~WorkerAt(k, "ack")
      PROVE Moves(k, "ack", w.batch, w.status, "cancel")
  BY <1>8 DEF Cancel, Moves, WorkerState, WorkerPC, WorkerAt
<1> QED
  BY <1>1, <1>2, <1>3, <1>4, <1>6, <1>7, <1>8

\* The steps that end in the loop.
LEMMA StepsToLoop ==
  ASSUME worker \in [Consumer -> WorkerState], NEW k \in Consumer,
         \/ Wake(k) \/ Restart(k)
         \/ Ack(k) /\ worker[k].exit # "next"
         \/ (RedisFails(k) \/ Cancel(k)) /\ (InHand(k) => WorkerAt(k, "ack"))
  PROVE  Dropped(k)
<1>1. worker[k] \in WorkerState
  OBVIOUS
<1> DEFINE Idle(p) == [IdleWorker EXCEPT !.pc = p]
<1>2. ASSUME NEW p \in {"poll", "sleep", "stopped"}, worker' = [worker EXCEPT ![k] = Idle(p)]
      PROVE Moves(k, p, <<>>, "absent", "next")
  <2>1. Idle(p) = [pc |-> p, batch |-> <<>>, status |-> "absent", exit |-> "next"]
    BY DEF IdleWorker
  <2> HIDE DEF Idle
  <2>2. Idle(p) \in WorkerState
    BY <2>1 DEF WorkerState, WorkerPC, Status
  <2> QED
    BY <1>2, <2>1, <2>2 DEF Moves
<1>3. ASSUME worker' = [worker EXCEPT ![k] = IdleWorker]
      PROVE Moves(k, "poll", <<>>, "absent", "next")
  BY <1>3 DEF Moves, IdleWorker, WorkerState, WorkerPC, Status
<1>4. CASE Wake(k)
  BY <1>3, <1>4 DEF Wake, Dropped, CutOff, queueVars
<1>5. CASE Restart(k)
  BY <1>3, <1>5 DEF Restart, Dropped
<1>6. CASE Ack(k) /\ worker[k].exit # "next"
  <2>1. worker[k].exit \in {"raise", "cancel"}
    BY <1>1, <1>6 DEF WorkerState
  <2>2. CutOff(k)
    BY <1>6 DEF Ack, CutOff
  <2>3. \E p \in {"poll", "sleep", "stopped"} : worker' = [worker EXCEPT ![k] = Idle(p)]
    BY <1>6, <2>1 DEF Ack, AfterCancel
  <2> QED
    BY <1>2, <2>2, <2>3 DEF Dropped
<1>7. CASE RedisFails(k) /\ (InHand(k) => WorkerAt(k, "ack"))
  <2>1. worker[k].pc \in {"poll", "ack"}
    BY <1>1, <1>7 DEF RedisFails, InHand, WorkerAt, WorkerState, WorkerPC
  <2> QED
    BY <1>2, <1>7, <2>1 DEF RedisFails, Raised, Dropped
<1>8. CASE Cancel(k) /\ (InHand(k) => WorkerAt(k, "ack"))
  BY <1>2, <1>8 DEF Cancel, Dropped
<1> QED
  BY <1>4, <1>5, <1>6, <1>7, <1>8

\* A batch begins with its first message, and without one the next poll follows.
LEMMA NextMoves ==
  ASSUME worker \in [Consumer -> WorkerState], NEW k \in Consumer,
         NEW b \in Seq(Nat \ {0}), worker' = [worker EXCEPT ![k] = NextMessage(b)]
  PROVE  Moves(k, Begin(b), b, IF b = <<>> THEN "absent" ELSE "running", "next")
BY DEF NextMessage, Begin, Moves, WorkerState, WorkerPC, Status

\* Every step of a consumer is one of the four, or pushes a token.
LEMMA Movement ==
  ASSUME TypeOK, NEW k \in Consumer, ConsumerStep(k)
  PROVE  /\ \/ PushToken(k) \/ Kept(k) \/ Advanced(k) \/ Dropped(k) \/ Taken(k)
         /\ UNCHANGED <<log, enq, sse>>
<1> DEFINE w == worker[k]
<1>0. worker \in [Consumer -> WorkerState] /\ w \in WorkerState /\ WorkerOK(w, cursor)
  BY TypeParts
<1>1. UNCHANGED <<log, enq, sse>>
  BY DEF ConsumerStep, WorkerStep, Poll, SetStatus, ExpireJob, ExpireTokens, PushToken,
    FinishGraph, Ack, Wake, GraphFails, RedisFails, Cancel, Restart, queueVars
<1> SUFFICES PushToken(k) \/ Kept(k) \/ Advanced(k) \/ Dropped(k) \/ Taken(k)
  BY <1>1
<1>2. ASSUME NEW p \in Busy, NEW s \in Status, NEW x \in Exit, Moves(k, p, w.batch, s, x),
             InHand(k), UNCHANGED <<cursor, pel>>
      PROVE Kept(k)
  BY <1>2 DEF Kept
<1>3. w.status \in Status /\ w.exit \in Exit
  BY <1>0 DEF WorkerState, Exit
<1>4. CASE SetStatus(k) \/ ExpireJob(k) \/ ExpireTokens(k)
  <2>1. InHand(k) /\ UNCHANGED <<cursor, pel>>
    BY <1>4 DEF SetStatus, ExpireJob, ExpireTokens, InHand, WorkerAt, queueVars
  <2>2. PICK p \in Busy : Moves(k, p, w.batch, w.status, w.exit)
    BY <1>0, <1>4, StepsInHand DEF Busy
  <2> QED
    BY <1>2, <1>3, <2>1, <2>2
<1>5. CASE FinishGraph(k)
  <2>1. InHand(k) /\ UNCHANGED <<cursor, pel>>
    BY <1>5 DEF FinishGraph, InHand, WorkerAt, queueVars
  <2>2. Moves(k, "hset", w.batch, "done", w.exit)
    BY <1>0, <1>5, StepsInHand
  <2> QED
    BY <1>2, <1>3, <2>1, <2>2 DEF Busy, Status
<1>6. CASE GraphFails(k) \/ (RedisFails(k) /\ InHand(k) /\ ~WorkerAt(k, "ack"))
  <2>1. InHand(k) /\ UNCHANGED <<cursor, pel>>
    BY <1>6 DEF GraphFails, RedisFails, CutOff, InHand, WorkerAt, queueVars
  <2>2. Failing(k)
    BY <1>0, <1>6, StepsInHand
  <2>3. PICK p \in {"ack", "hset"}, s \in {w.status, "error"}, x \in {w.exit, "raise"} :
          Moves(k, p, w.batch, s, x)
    BY <2>2 DEF Failing
  <2>4. p \in Busy /\ s \in Status /\ x \in Exit
    BY <1>3 DEF Busy, Status, Exit
  <2> QED
    BY <1>2, <2>1, <2>3, <2>4
<1>7. CASE Cancel(k) /\ InHand(k) /\ ~WorkerAt(k, "ack")
  <2>1. UNCHANGED <<cursor, pel>>
    BY <1>7 DEF Cancel, CutOff, InHand, WorkerAt
  <2>2. Moves(k, "ack", w.batch, w.status, "cancel")
    BY <1>0, <1>7, StepsInHand
  <2> QED
    BY <1>2, <1>3, <1>7, <2>1, <2>2 DEF Busy, Exit
<1>8. CASE Ack(k) /\ w.exit = "next"
  <2>1. w.batch # <<>> /\ w.batch \in Seq(Nat \ {0})
    BY <1>0, <1>8 DEF Ack, WorkerAt, WorkerOK, Busy, WorkerState
  <2>2. Rest(k) \in Seq(Nat \ {0})
    BY <2>1 DEF Rest
  <2>3. worker' = [worker EXCEPT ![k] = NextMessage(Rest(k))]
    BY <1>8 DEF Ack
  <2> QED
    BY <1>0, <1>8, <2>2, <2>3, NextMoves DEF Ack, Advanced
<1>9. CASE Poll(k)
  <2> DEFINE n == Cardinality(Fetched)
  <2>1. n \in Nat \ {0}
    BY <1>9, Handout, TypeParts DEF Poll
  <2> HIDE DEF n
  <2>2. cursor \in Nat
    BY TypeParts
  <2>3. Handed(n) \in Seq(Nat \ {0}) /\ Handed(n) # <<>>
    BY <2>1, <2>2 DEF Handed
  <2>4. worker' = [worker EXCEPT ![k] = NextMessage(Handed(n))]
    BY <1>9 DEF Poll, Handed, n
  <2>5. Moves(k, "hset", Handed(n), "running", "next")
    BY <1>0, <2>3, <2>4, NextMoves DEF Moves, Begin
  <2> QED
    BY <1>9, <2>1, <2>5 DEF Poll, Taken, n
<1>10. CASE \/ Wake(k) \/ Restart(k)
            \/ Ack(k) /\ w.exit # "next"
            \/ (RedisFails(k) \/ Cancel(k)) /\ (InHand(k) => WorkerAt(k, "ack"))
  BY <1>0, <1>10, StepsToLoop
<1>11. CASE Ack(k)
  BY <1>8, <1>10, <1>11
<1>12. CASE RedisFails(k) \/ Cancel(k)
  BY <1>6, <1>7, <1>10, <1>12
<1> QED
  BY <1>4, <1>5, <1>6, <1>9, <1>10, <1>11, <1>12 DEF ConsumerStep, WorkerStep

-----------------------------------------------------------------------------
(* Types.                                                                  *)

\* A command that is cut off moves the cursor to a message there is, if at all.
LEMMA CutOffTyped ==
  ASSUME log \in Seq(JobId), cursor \in 0 .. Len(log), pel \subseteq 1 .. cursor,
         NEW k \in Consumer, CutOff(k)
  PROVE  cursor' \in cursor .. Len(log) /\ pel' \subseteq 1 .. cursor'
<1>1. Len(log) \in Nat /\ cursor \in Nat
  OBVIOUS
<1>2. CASE UNCHANGED cursor /\ pel' \subseteq pel
  BY <1>1, <1>2
<1>3. CASE cursor' = cursor + Cardinality(Fetched) /\ pel' = pel \cup Fetched
  <2> DEFINE n == Cardinality(Fetched)
  <2>0. /\ n \in Nat /\ Fetched = cursor + 1 .. cursor + n
        /\ cursor + n \in cursor .. Len(log)
    BY Handout
  <2> HIDE DEF n
  <2>1. cursor' = cursor + n /\ pel' = pel \cup (cursor + 1 .. cursor + n)
    BY <1>3, <2>0 DEF n
  <2>2. pel' \subseteq 1 .. cursor + n
    BY <1>1, <2>0, <2>1
  <2> QED
    BY <2>0, <2>1, <2>2
<1> QED
  BY <1>2, <1>3 DEF CutOff

\* However a consumer moves on, what it holds has been handed out.
LEMMA MovementTyped ==
  ASSUME TypeOK, NEW k \in Consumer, UNCHANGED log,
         PushToken(k) \/ Kept(k) \/ Advanced(k) \/ Dropped(k) \/ Taken(k)
  PROVE  /\ cursor' \in cursor .. Len(log) /\ pel' \subseteq 1 .. cursor'
         /\ worker' \in [Consumer -> WorkerState]
         /\ \A l \in Consumer : WorkerOK(worker'[l], cursor')
<1> DEFINE w == worker[k]
<1>1. /\ log \in Seq(JobId) /\ cursor \in 0 .. Len(log) /\ pel \subseteq 1 .. cursor
      /\ Len(log) \in Nat /\ cursor \in Nat
      /\ worker \in [Consumer -> WorkerState] /\ \A l \in Consumer : WorkerOK(worker[l], cursor)
  BY TypeParts
<1>2. w \in WorkerState /\ w.batch \in Seq(Nat \ {0})
  BY <1>1 DEF WorkerState
<1>3. InHand(k) <=> w.pc \in Busy
  BY DEF InHand, Busy
<1>4. CASE PushToken(k)
  BY <1>1, <1>4 DEF PushToken, queueVars
<1>5. CASE Kept(k)
  <2>1. PICK p \in Busy, s \in Status, x \in Exit : Moves(k, p, w.batch, s, x)
    BY <1>5 DEF Kept
  <2>2. w.batch # <<>> /\ \A i \in DOMAIN w.batch : w.batch[i] <= cursor
    BY <1>1, <1>3, <1>5 DEF Kept, WorkerOK
  <2>3. \A l \in Consumer : WorkerOK(worker'[l], cursor')
    BY <1>1, <1>5, <2>1, <2>2, WorkersTyped DEF Kept
  <2> QED
    BY <1>1, <1>5, <2>1, <2>3 DEF Kept, Moves
<1>6. CASE Advanced(k)
  <2>1. w.batch # <<>> /\ \A i \in DOMAIN w.batch : w.batch[i] <= cursor
    BY <1>1, <1>6 DEF Advanced, WorkerAt, WorkerOK, Busy
  <2>2. Rest(k) \in Seq(Nat \ {0}) /\ \A i \in DOMAIN Rest(k) : Rest(k)[i] <= cursor
    BY <1>2, <2>1 DEF Rest
  <2>3. Begin(Rest(k)) \in Busy <=> Rest(k) # <<>>
    BY DEF Begin, Busy
  <2>4. PICK p, s : /\ Moves(k, p, Rest(k), s, "next")
                    /\ p \in Busy <=> Rest(k) # <<>>
    BY <1>6, <2>3 DEF Advanced
  <2>5. cursor' = cursor /\ pel' \subseteq pel
    BY <1>6 DEF Advanced
  <2>6. \A l \in Consumer : WorkerOK(worker'[l], cursor')
    BY <1>1, <2>2, <2>4, <2>5, WorkersTyped
  <2> QED
    BY <1>1, <2>4, <2>5, <2>6 DEF Moves
<1>7. CASE Dropped(k)
  <2>1. cursor' \in cursor .. Len(log) /\ pel' \subseteq 1 .. cursor'
    BY <1>1, <1>7, CutOffTyped DEF Dropped
  <2>2. PICK p \in {"poll", "sleep", "stopped"} : Moves(k, p, <<>>, "absent", "next")
    BY <1>7 DEF Dropped
  <2>3. p \notin Busy /\ DOMAIN <<>> = {} /\ cursor' \in Nat /\ cursor <= cursor'
    BY <1>1, <2>1 DEF Busy
  <2>4. \A l \in Consumer : WorkerOK(worker'[l], cursor')
    BY <1>1, <2>2, <2>3, WorkersTyped
  <2> QED
    BY <2>1, <2>2, <2>4 DEF Moves
<1>8. CASE Taken(k)
  <2> DEFINE n == Cardinality(Fetched)
  <2>1. /\ n \in Nat \ {0} /\ Fetched = cursor + 1 .. cursor + n
        /\ cursor + n \in cursor .. Len(log)
    BY <1>1, <1>8, Handout DEF Taken
  <2>2. /\ Moves(k, "hset", Handed(n), "running", "next")
        /\ cursor' = cursor + n /\ pel' = pel \cup Fetched
    BY <1>8 DEF Taken
  <2> HIDE DEF n
  <2>3. Handed(n) # <<>> /\ \A i \in DOMAIN Handed(n) : Handed(n)[i] <= cursor'
    BY <1>1, <2>1, <2>2 DEF Handed
  <2>4. \A l \in Consumer : WorkerOK(worker'[l], cursor')
    BY <1>1, <2>1, <2>2, <2>3, WorkersTyped DEF Busy
  <2> QED
    BY <1>1, <2>1, <2>2, <2>4 DEF Moves
<1> QED
  BY <1>4, <1>5, <1>6, <1>7, <1>8

\* The message in hand was handed out, so there is one.
LEMMA HeadTyped ==
  ASSUME TypeOK, NEW k \in Consumer, InHand(k)
  PROVE  /\ worker[k].batch \in Seq(Nat \ {0}) /\ Len(worker[k].batch) \in Nat \ {0}
         /\ Current(k) \in 1 .. cursor /\ Current(k) \in 1 .. Len(log)
         /\ Id(k) \in JobId
<1>1. /\ worker[k] \in WorkerState /\ worker[k].batch # <<>>
      /\ \A i \in DOMAIN worker[k].batch : worker[k].batch[i] <= cursor
      /\ log \in Seq(JobId) /\ cursor \in 0 .. Len(log)
  BY DEF TypeOK
<1>2. worker[k].batch \in Seq(Nat \ {0})
  BY <1>1 DEF WorkerState
<1>3. Len(worker[k].batch) \in Nat \ {0} /\ 1 \in DOMAIN worker[k].batch
  BY <1>1, <1>2
<1>4. Current(k) \in Nat \ {0} /\ Current(k) <= cursor
  BY <1>1, <1>2, <1>3 DEF Current
<1>5. Current(k) \in 1 .. cursor /\ Current(k) \in 1 .. Len(log)
  BY <1>1, <1>4
<1>6. log[Current(k)] \in JobId
  BY <1>1, <1>5
<1> QED
  BY <1>2, <1>3, <1>5, <1>6 DEF Id

\* A consumer's commands keep the types of the job records.
LEMMA RecordsTyped ==
  ASSUME TypeOK, NEW k \in Consumer, ConsumerStep(k)
  PROVE  /\ record' \in [JobId -> Status] /\ tokens' \in [JobId -> Nat]
         /\ ttl' \subseteq {"job", "tokens"} \X JobId
         /\ cancelled' \subseteq Consumer /\ errors' \in 0 .. MaxErrors
<1>1. /\ record \in [JobId -> Status] /\ tokens \in [JobId -> Nat]
      /\ ttl \subseteq {"job", "tokens"} \X JobId
      /\ cancelled \subseteq Consumer /\ errors \in 0 .. MaxErrors
      /\ worker[k] \in WorkerState
  BY DEF TypeOK
<1>2. MaxErrors \in Nat
  BY BoundAssumption
<1>3. InHand(k) => Id(k) \in JobId
  BY HeadTyped
<1>4. CASE SetStatus(k) \/ PushToken(k)
  <2>1. Id(k) \in JobId
    BY <1>3, <1>4 DEF SetStatus, PushToken, WorkerAt, InHand
  <2>2. worker[k].status \in Status
    BY <1>1 DEF WorkerState
  <2>3. tokens[Id(k)] + 1 \in Nat
    BY <1>1, <2>1
  <2> QED
    BY <1>1, <1>4, <2>1, <2>2, <2>3 DEF SetStatus, PushToken
<1>5. CASE ExpireJob(k) \/ ExpireTokens(k)
  <2>1. Id(k) \in JobId
    BY <1>3, <1>5 DEF ExpireJob, ExpireTokens, WorkerAt, InHand
  <2>2. ttl' \subseteq ttl \cup {<<"job", Id(k)>>, <<"tokens", Id(k)>>}
    BY <1>5 DEF ExpireJob, ExpireTokens
  <2> QED
    BY <1>1, <1>5, <2>1, <2>2 DEF ExpireJob, ExpireTokens
<1>6. CASE \/ Poll(k) \/ FinishGraph(k) \/ Ack(k) \/ Wake(k)
           \/ GraphFails(k) \/ RedisFails(k) \/ Cancel(k) \/ Restart(k)
  <2>1. UNCHANGED <<record, tokens, ttl>>
    BY <1>6 DEF Poll, FinishGraph, Ack, Wake, GraphFails, RedisFails, Cancel, Restart, jobVars
  <2>2. cancelled' \subseteq Consumer
    BY <1>1, <1>6 DEF Poll, FinishGraph, Ack, Wake, GraphFails, RedisFails, Cancel, Restart
  <2>3. errors' = errors \/ (errors < MaxErrors /\ errors' = errors + 1)
    BY <1>6 DEF Poll, FinishGraph, Ack, Wake, GraphFails, RedisFails, Cancel, Restart
  <2> QED
    BY <1>1, <1>2, <2>1, <2>2, <2>3
<1> QED
  BY <1>4, <1>5, <1>6 DEF ConsumerStep, WorkerStep

\* The steps of the stream requests.
StreamStep(s) ==
  \/ ForwardTokens(s) \/ ReadStatus(s) \/ Drain(s) \/ Deadline(s)
  \/ \E j \in Job : OpenStream(s, j)

\* A stream request goes to its last read with an outcome.  TypeOK needs it: the
\* last event is the status read before.
OutcomeSeen == \A s \in Stream : sse[s].pc = "drain" => sse[s].status \in Terminal

LEMMA StreamsTyped ==
  ASSUME TypeOK, OutcomeSeen, NEW s \in Stream, StreamStep(s)
  PROVE  /\ UNCHANGED <<jobVars, queueVars, enq, worker, cancelled, errors>>
         /\ sse' \in [Stream -> SseState] /\ OutcomeSeen'
<1>1. /\ sse \in [Stream -> SseState] /\ sse[s] \in SseState
      /\ record \in [JobId -> Status] /\ tokens \in [JobId -> Nat]
  BY DEF TypeOK
<1>2. sse[s].job \in JobId
  BY <1>1 DEF SseState
<1>3. tokens[sse[s].job] \in Nat /\ record[sse[s].job] \in Status
  BY <1>1, <1>2
<1>4. UNCHANGED <<jobVars, queueVars, enq, worker, cancelled, errors>>
  BY DEF StreamStep, ForwardTokens, ReadStatus, Drain, Deadline, OpenStream
<1> SUFFICES sse' \in [Stream -> SseState] /\ OutcomeSeen'
  BY <1>4
<1>5. CASE ForwardTokens(s)
  BY <1>1, <1>3, <1>5 DEF ForwardTokens, SseState, SsePC, OutcomeSeen
<1>6. CASE ReadStatus(s)
  BY <1>1, <1>3, <1>6 DEF ReadStatus, SseState, SsePC, OutcomeSeen
<1>7. CASE Drain(s)
  BY <1>1, <1>3, <1>7 DEF Drain, Drained, SseState, SsePC, OutcomeSeen, Terminal
<1>8. CASE Deadline(s)
  BY <1>1, <1>8 DEF Deadline, SseState, SsePC, OutcomeSeen
<1>9. ASSUME NEW j \in Job, OpenStream(s, j)
      PROVE  sse' \in [Stream -> SseState] /\ OutcomeSeen'
  BY <1>1, <1>9 DEF OpenStream, SseState, SsePC, JobId, OutcomeSeen
<1> QED
  BY <1>5, <1>6, <1>7, <1>8, <1>9 DEF StreamStep

\* Hence every step keeps the types.
LEMMA TypeStep ==
  ASSUME TypeOK, OutcomeSeen, [Next]_vars
  PROVE  TypeOK' /\ OutcomeSeen'
<1>1. ASSUME NEW j \in Job, Enqueue(j) PROVE TypeOK' /\ OutcomeSeen'
  <2> DEFINE next == EnqueueOrder[enq[j]]
  <2>1. enq[j] \in {"new", "hset", "expire", "publish"}
    BY <1>1 DEF Enqueue, TypeOK
  <2>2. next \in {"hset", "expire", "publish", "sent"}
    BY <2>1 DEF EnqueueOrder
  <2>3. enq' = [enq EXCEPT ![j] = next]
    BY <1>1 DEF Enqueue
  <2>4. /\ record' = record \/ record' = [record EXCEPT ![j] = "queued"]
        /\ ttl' \subseteq ttl \cup {<<"job", j>>}
        /\ log' = log \/ log' = Append(log, j)
        /\ UNCHANGED <<tokens, cursor, pel, worker, cancelled, errors, sse>>
    BY <1>1 DEF Enqueue
  <2>5. j \in JobId
    BY DEF JobId
  <2> HIDE DEF next
  <2>6. /\ record' \in [JobId -> Status] /\ ttl' \subseteq {"job", "tokens"} \X JobId
        /\ enq' \in [Job -> {"new", "hset", "expire", "publish", "sent"}]
    BY <2>2, <2>3, <2>4, <2>5 DEF TypeOK, Status
  <2>7. log' \in Seq(JobId) /\ cursor \in 0 .. Len(log')
    <3>1. log \in Seq(JobId) /\ cursor \in 0 .. Len(log)
      BY DEF TypeOK
    <3>2. Append(log, j) \in Seq(JobId) /\ Len(Append(log, j)) = Len(log) + 1
      BY <2>5, <3>1
    <3> QED
      BY <2>4, <3>1, <3>2
  <2>8. TypeOK'
    BY <2>4, <2>6, <2>7, TypeParts DEF TypeOK, InHand
  <2> QED
    BY <2>4, <2>8 DEF OutcomeSeen
<1>2. CASE PublishEvent
  <2>1. /\ log' = Append(log, Unknown) /\ Unknown \in JobId
        /\ UNCHANGED <<jobVars, cursor, pel, enq, worker, cancelled, errors, sse>>
    BY <1>2 DEF PublishEvent, JobId
  <2>2. log' \in Seq(JobId) /\ cursor \in 0 .. Len(log')
    BY <2>1 DEF TypeOK
  <2>3. TypeOK'
    BY <2>1, <2>2 DEF TypeOK, InHand, jobVars
  <2> QED
    BY <2>1, <2>3 DEF OutcomeSeen
<1>3. ASSUME NEW k \in Consumer, ConsumerStep(k) PROVE TypeOK' /\ OutcomeSeen'
  <2>1. UNCHANGED <<log, enq, sse>>
    BY <1>3, Movement
  <2>2. /\ cursor' \in cursor .. Len(log) /\ pel' \subseteq 1 .. cursor'
        /\ worker' \in [Consumer -> WorkerState]
        /\ \A l \in Consumer : WorkerOK(worker'[l], cursor')
    BY <1>3, <2>1, Movement, MovementTyped
  <2>3. /\ log' \in Seq(JobId) /\ cursor' \in 0 .. Len(log')
        /\ enq' \in [Job -> {"new", "hset", "expire", "publish", "sent"}]
        /\ sse' \in [Stream -> SseState]
    BY <2>1, <2>2 DEF TypeOK
  <2>4. TypeOK'
    BY <1>3, <2>2, <2>3, RecordsTyped DEF TypeOK, WorkerOK, InHand, Busy
  <2> QED
    BY <2>1, <2>4 DEF OutcomeSeen
<1>4. ASSUME NEW s \in Stream, StreamStep(s) PROVE TypeOK' /\ OutcomeSeen'
  <2>1. /\ UNCHANGED <<jobVars, queueVars, enq, worker, cancelled, errors>>
        /\ sse' \in [Stream -> SseState] /\ OutcomeSeen'
    BY <1>4, StreamsTyped
  <2> QED
    BY <2>1 DEF TypeOK, jobVars, queueVars, InHand
<1>5. CASE UNCHANGED vars
  BY <1>5 DEF vars, jobVars, queueVars, TypeOK, InHand, OutcomeSeen
<1> QED
  BY <1>1, <1>2, <1>3, <1>4, <1>5 DEF Next, ConsumerStep, StreamStep

\* Nothing is published, in hand or streamed at the start.
LEMMA TypeStarts == Init => TypeOK /\ OutcomeSeen
<1> SUFFICES ASSUME Init PROVE TypeOK /\ OutcomeSeen
  OBVIOUS
<1>1. IdleWorker \in WorkerState /\ IdleWorker.pc = "poll" /\ IdleWorker.batch = <<>>
  BY DEF IdleWorker, WorkerState, WorkerPC, Status
<1>2. IdleSse \in SseState /\ IdleSse.pc = "idle"
  BY DEF IdleSse, SseState, SsePC, JobId, Status
<1>3. \A k \in Consumer : WorkerOK(worker[k], cursor)
  BY <1>1 DEF Init, WorkerOK, Busy
<1>4. log \in Seq(JobId) /\ cursor \in 0 .. Len(log) /\ pel \subseteq 1 .. cursor
  BY DEF Init
<1>5. MaxErrors \in Nat
  BY BoundAssumption
<1> QED
  BY <1>1, <1>2, <1>3, <1>4, <1>5, TypeParts DEF Init, Status, OutcomeSeen

\* Every variable keeps its type, and a consumer has a message in hand exactly while
\* it has a batch, whatever fails, is cancelled or dies (consumer.py).
THEOREM Typing == Spec => []TypeOK
<1>1. TypeOK /\ OutcomeSeen /\ [Next]_vars => TypeOK' /\ OutcomeSeen'
  BY TypeStep
<1> QED
  BY <1>1, TypeStarts, PTL DEF Spec

-----------------------------------------------------------------------------
(* One message for each job, and one consumer at a time for each message.  *)

\* A job has one message at most, published after its record was written and given
\* its TTL.
PublishedOnce ==
  /\ \A a, b \in 1 .. Len(log) : log[a] = log[b] /\ log[a] \in Job => a = b
  /\ \A a \in 1 .. Len(log) : log[a] \in Job => enq[log[a]] \in {"publish", "sent"}
  /\ \A j \in Job :
       /\ enq[j] = "new" => record[j] = "absent"
       /\ enq[j] \in {"hset", "expire"} => record[j] = "queued"
       /\ enq[j] \in {"expire", "publish", "sent"} => <<"job", j>> \in ttl

\* What a consumer holds is not acknowledged, and nobody else holds it.
HeldOnce ==
  /\ \A k \in Consumer : \A a \in 1 .. Len(worker[k].batch) : worker[k].batch[a] \in pel
  /\ \A k, l \in Consumer :
       \A a \in 1 .. Len(worker[k].batch), b \in 1 .. Len(worker[l].batch) :
         worker[k].batch[a] = worker[l].batch[b] => k = l /\ a = b

\* Messages that no consumer has begun: not handed out yet, or behind the first of
\* a batch.
Waiting(i) ==
  \/ cursor < i
  \/ \E k \in Consumer : \E a \in 2 .. Len(worker[k].batch) : worker[k].batch[a] = i

\* A job that nobody has begun is queued.
WaitingIsQueued ==
  \A i \in 1 .. Len(log) : Waiting(i) /\ log[i] \in Job => record[log[i]] = "queued"

\* The status that a consumer writes next comes after the one the record has.
Stage(w, status) ==
  /\ w.pc = "hset" =>
       \/ w.status = "running" /\ status = "queued"
       \/ w.status = "done" /\ status = "running"
       \/ w.status = "error" /\ status \in {"queued", "running", "done"}
  /\ w.pc \in {"expireJob", "expireTokens"} =>
       w.status \in {"running", "done", "error"} /\ status = w.status
  /\ w.pc = "graph" => w.status = "running" /\ status = "running"

HeadInStage ==
  \A k \in Consumer : InHand(k) /\ Id(k) \in Job => Stage(worker[k], record[Id(k)])

JobsInv == PublishedOnce /\ HeldOnce /\ WaitingIsQueued /\ HeadInStage

\* The batches before and after a consumer's step.
LEMMA Batches ==
  ASSUME TypeOK, NEW k \in Consumer, ConsumerStep(k)
  PROVE  /\ UNCHANGED <<log, enq, sse>>
         /\ \A l \in Consumer : /\ worker[l].batch \in Seq(Nat \ {0})
                                /\ \A a \in 1 .. Len(worker[l].batch) :
                                     worker[l].batch[a] \in 1 .. cursor
         /\ \A l \in Consumer \ {k} : worker'[l] = worker[l]
         /\ \/ UNCHANGED <<cursor, pel>> /\ worker'[k].batch = worker[k].batch
            \/ /\ WorkerAt(k, "ack") /\ worker'[k].batch = Rest(k)
               /\ pel' = pel \ {Current(k)} /\ UNCHANGED cursor
            \/ /\ worker'[k].batch = <<>> /\ cursor <= cursor'
               /\ \/ pel \subseteq pel'
                  \/ WorkerAt(k, "ack") /\ pel \ {Current(k)} \subseteq pel'
            \/ /\ Fetched = cursor + 1 .. cursor + Cardinality(Fetched)
               /\ Cardinality(Fetched) \in Nat \ {0}
               /\ worker'[k].batch = Handed(Cardinality(Fetched))
               /\ cursor' = cursor + Cardinality(Fetched)
               /\ pel' = pel \cup Fetched
<1>1. UNCHANGED <<log, enq, sse>>
  BY Movement
<1>2. PushToken(k) \/ Kept(k) \/ Advanced(k) \/ Dropped(k) \/ Taken(k)
  BY Movement
<1>3. /\ worker \in [Consumer -> WorkerState] /\ \A l \in Consumer : WorkerOK(worker[l], cursor)
      /\ log \in Seq(JobId) /\ cursor \in 0 .. Len(log)
  BY TypeParts
<1>4. ASSUME NEW l \in Consumer
      PROVE  /\ worker[l].batch \in Seq(Nat \ {0})
             /\ \A a \in 1 .. Len(worker[l].batch) : worker[l].batch[a] \in 1 .. cursor
  <2>1. worker[l].batch \in Seq(Nat \ {0})
    BY <1>3 DEF WorkerState
  <2>2. \A a \in 1 .. Len(worker[l].batch) :
          worker[l].batch[a] \in Nat \ {0} /\ worker[l].batch[a] <= cursor
    BY <1>3, <2>1 DEF WorkerOK
  <2> QED
    BY <1>3, <2>1, <2>2
<1>5. CASE PushToken(k)
  BY <1>1, <1>4, <1>5 DEF PushToken, queueVars
<1>6. CASE Kept(k)
  BY <1>1, <1>4, <1>6 DEF Kept, Moves
<1>7. CASE Advanced(k)
  BY <1>1, <1>4, <1>7 DEF Advanced, Moves
<1>8. CASE Dropped(k)
  <2>1. cursor' \in cursor .. Len(log)
    BY <1>1, <1>2, MovementTyped
  <2>2. cursor <= cursor'
    BY <1>3, <2>1
  <2> QED
    BY <1>1, <1>4, <1>8, <2>2 DEF Dropped, CutOff, Moves
<1>9. CASE Taken(k)
  BY <1>1, <1>3, <1>4, <1>9, Handout DEF Taken, Moves
<1> QED
  BY <1>2, <1>5, <1>6, <1>7, <1>8, <1>9
\* A consumer changes no record but that of the job in hand, and takes no TTL away.
LEMMA RecordChange ==
  ASSUME NEW k \in Consumer, ConsumerStep(k)
  PROVE  /\ ttl \subseteq ttl'
         /\ record' # record => SetStatus(k)
         /\ tokens' # tokens => PushToken(k)
<1>1. CASE SetStatus(k) \/ ExpireJob(k) \/ ExpireTokens(k) \/ PushToken(k)
  BY <1>1 DEF SetStatus, ExpireJob, ExpireTokens, PushToken
<1>2. CASE \/ Poll(k) \/ FinishGraph(k) \/ Ack(k) \/ Wake(k)
           \/ GraphFails(k) \/ RedisFails(k) \/ Cancel(k) \/ Restart(k)
  BY <1>2 DEF Poll, FinishGraph, Ack, Wake, GraphFails, RedisFails, Cancel, Restart, jobVars
<1> QED
  BY <1>1, <1>2 DEF ConsumerStep, WorkerStep

\* Two consumers hold different messages, hence different jobs.
LEMMA HeadsDiffer ==
  ASSUME TypeOK, PublishedOnce, HeldOnce, NEW k \in Consumer, NEW l \in Consumer,
         k # l, InHand(k), InHand(l)
  PROVE  /\ Current(k) # Current(l)
         /\ Id(l) \in Job => Id(k) # Id(l)
<1>1. /\ Current(k) \in 1 .. Len(log) /\ Current(l) \in 1 .. Len(log)
      /\ Len(worker[k].batch) \in Nat \ {0} /\ Len(worker[l].batch) \in Nat \ {0}
  <2>1. ASSUME NEW m \in Consumer, InHand(m)
        PROVE  Current(m) \in 1 .. Len(log) /\ Len(worker[m].batch) \in Nat \ {0}
    <3>1. worker[m].batch \in Seq(Nat \ {0}) /\ worker[m].batch # <<>>
      BY <2>1 DEF TypeOK, WorkerState
    <3>2. Current(m) \in 1 .. Len(log)
      BY <2>1, HeadTyped
    <3> QED
      BY <3>1, <3>2
  <2> QED
    BY <2>1
<1>2. Current(k) # Current(l)
  BY <1>1 DEF HeldOnce, Current
<1> QED
  BY <1>1, <1>2 DEF PublishedOnce, Id

\* The batches B share no message, and hold only messages of p.
Disjoint(B, p) ==
  /\ \A l \in Consumer : \A a \in 1 .. Len(B[l]) : B[l][a] \in p
  /\ \A l, m \in Consumer : \A a \in 1 .. Len(B[l]), b \in 1 .. Len(B[m]) :
       B[l][a] = B[m][b] => l = m /\ a = b

\* They stay disjoint when one of them becomes a part of itself, without what was
\* acknowledged, or the messages after the cursor.
LEMMA DisjointStep ==
  ASSUME NEW k \in Consumer, NEW B, NEW C, NEW p, NEW q, NEW c \in Nat, Disjoint(B, p),
         \A l \in Consumer : Len(B[l]) \in Nat /\ Len(C[l]) \in Nat,
         \A l \in Consumer : \A a \in 1 .. Len(B[l]) : B[l][a] \in 1 .. c,
         \A l \in Consumer \ {k} : C[l] = B[l],
         \/ \E d \in Nat :
              /\ \A a \in 1 .. Len(C[k]) :
                   a + d \in 1 .. Len(B[k]) /\ C[k][a] = B[k][a + d]
              /\ p \subseteq q \/ (d = 1 /\ Len(B[k]) > 0 /\ p \ {B[k][1]} \subseteq q)
         \/ /\ \A a \in 1 .. Len(C[k]) : C[k][a] = c + a /\ c + a \in q
            /\ p \subseteq q
  PROVE  Disjoint(C, q)
<1>1. ASSUME NEW d \in Nat,
             \A a \in 1 .. Len(C[k]) :
               a + d \in 1 .. Len(B[k]) /\ C[k][a] = B[k][a + d],
             p \subseteq q \/ (d = 1 /\ Len(B[k]) > 0 /\ p \ {B[k][1]} \subseteq q)
      PROVE  Disjoint(C, q)
  <2>1. ASSUME NEW l \in Consumer \ {k}, NEW a \in 1 .. Len(C[l]) PROVE C[l][a] \in q
    <3>1. C[l] = B[l] /\ C[l][a] \in p
      BY <2>1 DEF Disjoint
    <3>2. CASE Len(B[k]) > 0
      <4>1. 1 \in 1 .. Len(B[k])
        BY <3>2
      <4>2. C[l][a] # B[k][1]
        BY <3>1, <4>1 DEF Disjoint
      <4> QED
        BY <1>1, <3>1, <4>2
    <3> QED
      BY <1>1, <3>1, <3>2
  <2>2. ASSUME NEW a \in 1 .. Len(C[k]) PROVE C[k][a] \in q
    <3>1. a + d \in 1 .. Len(B[k]) /\ C[k][a] = B[k][a + d] /\ C[k][a] \in p /\ a \in Nat \ {0}
      BY <1>1 DEF Disjoint
    <3>2. CASE d = 1 /\ Len(B[k]) > 0
      <4>1. 1 \in 1 .. Len(B[k]) /\ a + d # 1
        BY <3>1, <3>2
      <4>2. C[k][a] # B[k][1]
        BY <3>1, <4>1 DEF Disjoint
      <4> QED
        BY <1>1, <3>1, <4>2
    <3> QED
      BY <1>1, <3>1, <3>2
  <2>3. ASSUME NEW l \in Consumer, NEW m \in Consumer,
               NEW a \in 1 .. Len(C[l]), NEW b \in 1 .. Len(C[m]), C[l][a] = C[m][b]
        PROVE  l = m /\ a = b
    <3>1. CASE l = k /\ m = k
      <4>1. a + d = b + d /\ a \in Nat /\ b \in Nat
        BY <1>1, <2>3, <3>1 DEF Disjoint
      <4> QED
        BY <3>1, <4>1
    <3>2. CASE l # k /\ m # k
      <4>1. B[l][a] = B[m][b] /\ a \in 1 .. Len(B[l]) /\ b \in 1 .. Len(B[m])
        BY <2>3, <3>2
      <4> QED
        BY <4>1 DEF Disjoint
    <3>3. CASE l = k /\ m # k
      <4>1. B[k][a + d] = B[m][b] /\ a + d \in 1 .. Len(B[k]) /\ b \in 1 .. Len(B[m])
        BY <1>1, <2>3, <3>3
      <4>2. \A i \in 1 .. Len(B[k]), j \in 1 .. Len(B[m]) : B[k][i] # B[m][j]
        BY <3>3 DEF Disjoint
      <4> QED
        BY <4>1, <4>2
    <3>4. CASE l # k /\ m = k
      <4>1. B[l][a] = B[k][b + d] /\ b + d \in 1 .. Len(B[k]) /\ a \in 1 .. Len(B[l])
        BY <1>1, <2>3, <3>4
      <4> QED
        BY <3>4, <4>1 DEF Disjoint
    <3> QED
      BY <3>1, <3>2, <3>3, <3>4
  <2> QED
    BY <2>1, <2>2, <2>3 DEF Disjoint
<1>2. ASSUME \A a \in 1 .. Len(C[k]) : C[k][a] = c + a /\ c + a \in q, p \subseteq q
      PROVE  Disjoint(C, q)
  <2>1. ASSUME NEW l \in Consumer, NEW a \in 1 .. Len(C[l]) PROVE C[l][a] \in q
    BY <1>2 DEF Disjoint
  <2>2. ASSUME NEW l \in Consumer \ {k}, NEW a \in 1 .. Len(C[l]), NEW b \in 1 .. Len(C[k])
        PROVE  C[l][a] # C[k][b]
    <3>1. C[l][a] \in 1 .. c /\ C[k][b] = c + b /\ b \in Nat \ {0}
      BY <1>2
    <3> QED
      BY <3>1
  <2>3. ASSUME NEW a \in 1 .. Len(C[k]), NEW b \in 1 .. Len(C[k]), C[k][a] = C[k][b]
        PROVE  a = b
    <3>1. c + a = c + b /\ a \in Nat /\ b \in Nat
      BY <1>2, <2>3
    <3> QED
      BY <3>1
  <2>4. ASSUME NEW l \in Consumer, NEW m \in Consumer,
               NEW a \in 1 .. Len(C[l]), NEW b \in 1 .. Len(C[m]), C[l][a] = C[m][b]
        PROVE  l = m /\ a = b
    <3>1. CASE l # k /\ m # k
      BY <2>4, <3>1 DEF Disjoint
    <3> QED
      BY <2>2, <2>3, <2>4, <3>1
  <2> QED
    BY <2>1, <2>4 DEF Disjoint
<1> QED
  BY <1>1, <1>2

\* A consumer's step leaves each message with one holder at most.
LEMMA HeldStep ==
  ASSUME TypeOK, HeldOnce, NEW k \in Consumer, ConsumerStep(k)
  PROVE  HeldOnce'
<1> DEFINE B == [l \in Consumer |-> worker[l].batch]
           C == [l \in Consumer |-> worker'[l].batch]
<1>1. (HeldOnce <=> Disjoint(B, pel)) /\ (HeldOnce' <=> Disjoint(C, pel'))
  BY DEF HeldOnce, Disjoint
<1>2. /\ \A l \in Consumer : B[l] \in Seq(Nat \ {0})
      /\ \A l \in Consumer : \A a \in 1 .. Len(B[l]) : B[l][a] \in 1 .. cursor
      /\ \A l \in Consumer \ {k} : C[l] = B[l]
      /\ cursor \in Nat
  BY Batches DEF TypeOK
<1>3. C[k] \in Seq(Nat \ {0})
  <2>1. worker' \in [Consumer -> WorkerState]
    BY Movement, MovementTyped
  <2> QED
    BY <2>1 DEF WorkerState
<1>4. worker[k].batch = B[k] /\ worker'[k].batch = C[k]
  OBVIOUS
<1>5. WorkerAt(k, "ack") => B[k] # <<>>
  BY DEF TypeOK, InHand, WorkerAt
<1> HIDE DEF B, C
<1>6. /\ \A l \in Consumer : Len(B[l]) \in Nat /\ Len(C[l]) \in Nat
      /\ B[k] # <<>> => Len(B[k]) > 0
  <2>1. \A l \in Consumer : C[l] \in Seq(Nat \ {0})
    BY <1>2, <1>3
  <2> QED
    BY <1>2, <2>1
<1> DEFINE Shift(d) == \A a \in 1 .. Len(C[k]) :
                         a + d \in 1 .. Len(B[k]) /\ C[k][a] = B[k][a + d]
<1>7. ASSUME NEW d \in Nat, Shift(d),
             pel \subseteq pel' \/ (d = 1 /\ Len(B[k]) > 0 /\ pel \ {B[k][1]} \subseteq pel')
      PROVE  HeldOnce'
  <2> HIDE DEF Shift
  <2>1. Disjoint(B, pel)
    BY <1>1
  <2> USE DEF Shift
  <2>2. Disjoint(C, pel')
    BY <1>2, <1>6, <1>7, <2>1, DisjointStep
  <2> QED
    BY <1>1, <2>2
<1>8. CASE UNCHANGED <<cursor, pel>> /\ C[k] = B[k]
  <2>1. Shift(0)
    BY <1>6, <1>8
  <2> HIDE DEF Shift
  <2> QED
    BY <1>7, <1>8, <2>1
<1>9. CASE WorkerAt(k, "ack") /\ C[k] = Rest(k) /\ pel' = pel \ {Current(k)}
  <2>1. B[k] # <<>> /\ C[k] = Tail(B[k]) /\ Current(k) = B[k][1] /\ Len(B[k]) > 0
    BY <1>4, <1>5, <1>6, <1>9 DEF Rest, Current
  <2>2. Shift(1)
    BY <1>2, <2>1
  <2> HIDE DEF Shift
  <2> QED
    BY <1>7, <1>9, <2>1, <2>2
<1>10. CASE /\ C[k] = <<>>
            /\ \/ pel \subseteq pel'
               \/ WorkerAt(k, "ack") /\ pel \ {Current(k)} \subseteq pel'
  <2>1. Shift(1)
    BY <1>10
  <2>2. WorkerAt(k, "ack") => Len(B[k]) > 0 /\ Current(k) = B[k][1]
    BY <1>4, <1>5, <1>6 DEF Current
  <2> HIDE DEF Shift
  <2> QED
    BY <1>7, <1>10, <2>1, <2>2
<1>11. CASE /\ Fetched = cursor + 1 .. cursor + Cardinality(Fetched)
            /\ Cardinality(Fetched) \in Nat \ {0}
            /\ C[k] = Handed(Cardinality(Fetched))
            /\ pel' = pel \cup Fetched
  <2> DEFINE n == Cardinality(Fetched)
  <2>1. n \in Nat \ {0} /\ C[k] = Handed(n) /\ pel' = pel \cup (cursor + 1 .. cursor + n)
    BY <1>11
  <2> HIDE DEF n
  <2>2. Len(C[k]) = n /\ \A a \in 1 .. n : C[k][a] = cursor + a
    BY <2>1 DEF Handed
  <2>3. \A a \in 1 .. Len(C[k]) : C[k][a] = cursor + a /\ cursor + a \in pel'
    BY <1>2, <2>1, <2>2
  <2>4. Disjoint(B, pel) /\ pel \subseteq pel'
    BY <1>1, <2>1
  <2>5. Disjoint(C, pel')
    BY <1>2, <1>6, <2>3, <2>4, DisjointStep
  <2> QED
    BY <1>1, <2>5
<1>12. LET b == worker'[k].batch IN
       \/ UNCHANGED <<cursor, pel>> /\ b = worker[k].batch
       \/ WorkerAt(k, "ack") /\ b = Rest(k) /\ pel' = pel \ {Current(k)}
       \/ /\ b = <<>>
          /\ \/ pel \subseteq pel'
             \/ WorkerAt(k, "ack") /\ pel \ {Current(k)} \subseteq pel'
       \/ /\ Fetched = cursor + 1 .. cursor + Cardinality(Fetched)
          /\ Cardinality(Fetched) \in Nat \ {0}
          /\ b = Handed(Cardinality(Fetched))
          /\ pel' = pel \cup Fetched
  BY Batches
<1> QED
  BY <1>4, <1>8, <1>9, <1>10, <1>11, <1>12

\* No message becomes waiting by it, and the one in hand is not.
LEMMA WaitingStep ==
  ASSUME TypeOK, HeldOnce, NEW k \in Consumer, ConsumerStep(k), NEW i \in Nat
  PROVE  /\ Waiting(i)' => Waiting(i)
         /\ InHand(k) /\ Waiting(i) => i # Current(k)
<1> DEFINE B(l) == worker[l].batch
           C(l) == worker'[l].batch
<1>1. /\ \A l \in Consumer : /\ B(l) \in Seq(Nat \ {0})
                             /\ \A a \in 1 .. Len(B(l)) : B(l)[a] \in 1 .. cursor
      /\ \A l \in Consumer \ {k} : C(l) = B(l)
      /\ cursor \in Nat
  BY Batches DEF TypeOK
<1>2. ASSUME InHand(k), Waiting(i) PROVE i # Current(k)
  <2>1. Current(k) = B(k)[1] /\ Current(k) \in 1 .. cursor /\ B(k) # <<>>
    BY <1>2, HeadTyped DEF Current, TypeOK
  <2>2. 1 \in 1 .. Len(B(k))
    BY <1>1, <2>1
  <2>3. CASE cursor < i
    BY <1>1, <2>1, <2>3
  <2>4. ASSUME NEW l \in Consumer, NEW a \in 2 .. Len(B(l)), B(l)[a] = i
        PROVE  i # Current(k)
    <3>1. a \in 1 .. Len(B(l)) /\ a # 1
      BY <1>1
    <3> QED
      BY <2>1, <2>2, <2>4, <3>1 DEF HeldOnce
  <2> QED
    BY <1>2, <2>3, <2>4 DEF Waiting
<1>3. ASSUME \/ cursor' = cursor /\ C(k) = B(k)
             \/ cursor' = cursor /\ C(k) = Tail(B(k)) /\ B(k) # <<>>
             \/ cursor <= cursor' /\ cursor' \in Nat /\ C(k) = <<>>
             \/ \E n \in Nat : cursor' = cursor + n /\ C(k) = Handed(n),
             Waiting(i)'
      PROVE  Waiting(i)
  <2>1. cursor' < i \/ \E l \in Consumer : \E a \in 2 .. Len(C(l)) : C(l)[a] = i
    BY <1>3 DEF Waiting
  <2>2. CASE cursor' < i
    BY <1>1, <1>3, <2>2 DEF Waiting
  <2>3. ASSUME NEW l \in Consumer \ {k}, NEW a \in 2 .. Len(C(l)), C(l)[a] = i
        PROVE  Waiting(i)
    BY <1>1, <2>3 DEF Waiting
  <2>4. ASSUME NEW a \in 2 .. Len(C(k)), C(k)[a] = i
        PROVE  Waiting(i)
    <3>1. CASE C(k) = B(k)
      BY <2>4, <3>1 DEF Waiting
    <3>2. CASE C(k) = Tail(B(k)) /\ B(k) # <<>>
      <4>0. C(k) = Tail(B(k)) /\ B(k) # <<>> /\ B(k) \in Seq(Nat \ {0})
        BY <1>1, <3>2
      <4>1. a + 1 \in 2 .. Len(B(k)) /\ B(k)[a + 1] = C(k)[a]
        <5> HIDE DEF B, C
        <5> QED
          BY <2>4, <4>0
      <4> QED
        BY <2>4, <4>1 DEF Waiting
    <3>3. CASE C(k) = <<>>
      BY <2>4, <3>3
    <3>4. ASSUME NEW n \in Nat, C(k) = Handed(n) PROVE Waiting(i)
      <4>1. C(k)[a] = cursor + a /\ a \in Nat \ {0}
        <5> HIDE DEF C
        <5> QED
          BY <2>4, <3>4 DEF Handed
      <4> QED
        BY <1>1, <2>4, <4>1 DEF Waiting
    <3> QED
      BY <1>3, <3>1, <3>2, <3>3, <3>4
  <2> QED
    BY <2>1, <2>2, <2>3, <2>4
<1>4. WorkerAt(k, "ack") => B(k) # <<>>
  BY DEF TypeOK, InHand, WorkerAt
<1>5. cursor' \in Nat
  <2>1. cursor' \in cursor .. Len(log) /\ Len(log) \in Nat
    BY Movement, MovementTyped DEF TypeOK
  <2> QED
    BY <1>1, <2>1
<1>6. \/ cursor' = cursor /\ C(k) = B(k)
      \/ cursor' = cursor /\ C(k) = Tail(B(k)) /\ B(k) # <<>>
      \/ cursor <= cursor' /\ cursor' \in Nat /\ C(k) = <<>>
      \/ \E n \in Nat : cursor' = cursor + n /\ C(k) = Handed(n)
  BY <1>4, <1>5, Batches DEF Rest
<1> QED
  BY <1>2, <1>3, <1>6
\* A job that a consumer writes is not one that waits.
LEMMA WaitingQueuedStep ==
  ASSUME TypeOK, JobsInv, NEW k \in Consumer, ConsumerStep(k)
  PROVE  WaitingIsQueued'
<1>1. UNCHANGED log /\ log \in Seq(JobId) /\ Len(log) \in Nat
  BY Batches DEF TypeOK
<1>2. ASSUME NEW i \in 1 .. Len(log), Waiting(i)', log[i] \in Job
      PROVE  record'[log[i]] = "queued"
  <2>1. Waiting(i) /\ (InHand(k) => i # Current(k))
    BY <1>1, <1>2, WaitingStep DEF JobsInv
  <2>2. record[log[i]] = "queued"
    BY <1>2, <2>1 DEF JobsInv, WaitingIsQueued
  <2>3. CASE SetStatus(k)
    <3>1. InHand(k)
      BY <2>3 DEF SetStatus, InHand, WorkerAt
    <3>2. Id(k) # log[i]
      BY <1>2, <2>1, <3>1, HeadTyped DEF JobsInv, PublishedOnce, Id
    <3> QED
      BY <2>2, <2>3, <3>2 DEF SetStatus, TypeOK, JobId
  <2>4. CASE record' = record
    BY <2>2, <2>4
  <2> QED
    BY <2>3, <2>4, RecordChange
<1>3. WaitingIsQueued' <=> \A i \in 1 .. Len(log') :
                             Waiting(i)' /\ log'[i] \in Job => record'[log'[i]] = "queued"
  BY DEF WaitingIsQueued
<1> QED
  BY <1>1, <1>2, <1>3

\* The job of the first message of a new or shortened batch is queued.
LEMMA NextIsQueued ==
  ASSUME TypeOK, JobsInv, NEW k \in Consumer, Ack(k) \/ Poll(k), InHand(k)', Id(k)' \in Job
  PROVE  /\ worker'[k].pc = "hset" /\ worker'[k].status = "running"
         /\ record'[Id(k)'] = "queued"
<1>1. /\ worker \in [Consumer -> WorkerState] /\ log \in Seq(JobId) /\ cursor \in 0 .. Len(log)
      /\ Len(log) \in Nat /\ worker[k].batch \in Seq(Nat \ {0})
      /\ \A i \in DOMAIN worker[k].batch : worker[k].batch[i] <= cursor
  BY DEF TypeOK, WorkerState
<1>2. log' = log /\ record' = record /\ Id(k)' = log[worker'[k].batch[1]]
  BY DEF Ack, Poll, jobVars, Id, Current
<1>3. ASSUME NEW b \in Seq(Nat \ {0}), worker' = [worker EXCEPT ![k] = NextMessage(b)],
             b # <<>> => b[1] \in 1 .. Len(log) /\ Waiting(b[1])
      PROVE  /\ worker'[k].pc = "hset" /\ worker'[k].status = "running"
             /\ record'[Id(k)'] = "queued"
  <2>1. Moves(k, Begin(b), b, IF b = <<>> THEN "absent" ELSE "running", "next")
    BY <1>1, <1>3, NextMoves
  <2>2. b # <<>> /\ worker'[k].batch = b
    BY <2>1 DEF Moves, Begin, InHand
  <2>3. record[log[b[1]]] = "queued"
    BY <1>2, <1>3, <2>2 DEF JobsInv, WaitingIsQueued
  <2> QED
    BY <1>2, <2>1, <2>2, <2>3 DEF Moves, Begin
<1>4. CASE Ack(k)
  <2>1. worker[k].exit = "next"
    <3>1. ASSUME worker[k].exit # "next" PROVE FALSE
      BY <1>1, <1>4, <3>1, StepsToLoop DEF Dropped, Moves, InHand
    <3> QED
      BY <3>1
  <2>2. worker[k].batch # <<>> /\ worker' = [worker EXCEPT ![k] = NextMessage(Rest(k))]
    BY <1>4, <2>1 DEF Ack, TypeOK, InHand, WorkerAt
  <2> DEFINE b == worker[k].batch
             t == Rest(k)
  <2>3. t = Tail(b) /\ b \in Seq(Nat \ {0}) /\ b # <<>>
    BY <1>1, <2>2 DEF Rest
  <2>4. ASSUME t # <<>> PROVE t[1] \in 1 .. Len(log) /\ Waiting(t[1])
    <3>1. t[1] = b[2] /\ 2 \in 2 .. Len(b) /\ 2 \in DOMAIN b
      <4> HIDE DEF b, t
      <4> QED
        BY <2>3, <2>4
    <3>2. b[2] \in Nat \ {0} /\ b[2] <= cursor
      BY <1>1, <3>1
    <3>3. Waiting(b[2])
      BY <3>1 DEF Waiting
    <3>4. b[2] \in 1 .. Len(log)
      <4> HIDE DEF b
      <4> QED
        BY <1>1, <3>2
    <3> QED
      BY <3>1, <3>3, <3>4
  <2>5. t \in Seq(Nat \ {0})
    BY <2>3
  <2> QED
    BY <1>3, <2>2, <2>4, <2>5
<1>5. CASE Poll(k)
  <2> DEFINE n == Cardinality(Fetched)
  <2>1. n \in Nat \ {0} /\ cursor + n \in cursor .. Len(log)
    BY <1>1, <1>5, Handout DEF Poll
  <2>2. worker' = [worker EXCEPT ![k] = NextMessage(Handed(n))]
    BY <1>5 DEF Poll, Handed
  <2> HIDE DEF n
  <2>3. Handed(n) \in Seq(Nat \ {0}) /\ Handed(n)[1] = cursor + 1
    BY <1>1, <2>1 DEF Handed
  <2>4. cursor + 1 \in 1 .. Len(log) /\ Waiting(cursor + 1)
    BY <1>1, <2>1 DEF Waiting
  <2> QED
    BY <1>3, <2>2, <2>3, <2>4
<1> QED
  BY <1>4, <1>5

\* The steps that keep the message keep its stage.
LEMMA KeptStage ==
  ASSUME TypeOK, JobsInv, NEW k \in Consumer, InHand(k), Id(k) \in Job,
         \/ SetStatus(k) \/ ExpireJob(k) \/ ExpireTokens(k) \/ PushToken(k)
         \/ FinishGraph(k) \/ GraphFails(k)
         \/ RedisFails(k) /\ ~WorkerAt(k, "ack")
         \/ Cancel(k) /\ ~WorkerAt(k, "ack")
  PROVE  Stage(worker'[k], record'[Id(k)])
<1> DEFINE w == worker[k]
           r == record[Id(k)]
<1>1. /\ worker \in [Consumer -> WorkerState] /\ w \in WorkerState
      /\ record \in [JobId -> Status] /\ Id(k) \in JobId
  BY DEF TypeOK, JobId
<1>2. Stage(w, r)
  BY DEF JobsInv, HeadInStage
<1>3. CASE SetStatus(k)
  <2>1. record'[Id(k)] = w.status /\ w.pc = "hset"
    BY <1>1, <1>3 DEF SetStatus, WorkerAt
  <2>2. Moves(k, "expireJob", w.batch, w.status, w.exit)
    BY <1>1, <1>3, StepsInHand
  <2> QED
    BY <1>2, <2>1, <2>2 DEF Stage, Moves
<1>4. CASE ExpireJob(k) \/ ExpireTokens(k) \/ FinishGraph(k) \/ PushToken(k)
  <2>1. record' = record
    BY <1>4 DEF ExpireJob, ExpireTokens, FinishGraph, PushToken, jobVars
  <2>2. CASE ExpireJob(k)
    <3>1. Moves(k, "expireTokens", w.batch, w.status, w.exit) /\ w.pc = "expireJob"
      BY <1>1, <2>2, StepsInHand DEF ExpireJob, WorkerAt
    <3> QED
      BY <1>2, <2>1, <3>1 DEF Stage, Moves
  <2>3. CASE ExpireTokens(k)
    <3>1. /\ Moves(k, IF w.status = "running" THEN "graph" ELSE "ack",
                   w.batch, w.status, w.exit)
          /\ w.pc = "expireTokens"
      BY <1>1, <2>3, StepsInHand DEF ExpireTokens, WorkerAt
    <3> QED
      BY <1>2, <2>1, <3>1 DEF Stage, Moves
  <2>4. CASE FinishGraph(k)
    <3>1. Moves(k, "hset", w.batch, "done", w.exit) /\ w.pc = "graph"
      BY <1>1, <2>4, StepsInHand DEF FinishGraph, WorkerAt
    <3> QED
      BY <1>2, <2>1, <3>1 DEF Stage, Moves
  <2>5. CASE PushToken(k)
    BY <1>2, <2>1, <2>5 DEF PushToken
  <2> QED
    BY <1>4, <2>2, <2>3, <2>4, <2>5
<1>5. CASE GraphFails(k) \/ (RedisFails(k) /\ ~WorkerAt(k, "ack"))
  <2>1. record' = record /\ Failing(k)
    BY <1>1, <1>5, StepsInHand DEF GraphFails, RedisFails, jobVars
  <2>2. w.pc \in {"hset", "expireJob", "expireTokens", "graph"}
    BY <1>5 DEF InHand, GraphFails, WorkerAt
  <2>3. CASE w.status = "error"
    BY <2>1, <2>3 DEF Failing, Moves, Stage
  <2>4. CASE w.status # "error"
    <3>1. worker'[k].pc = "hset" /\ worker'[k].status = "error"
      BY <2>1, <2>4 DEF Failing, Moves
    <3>2. r \in {"queued", "running", "done"}
      BY <1>2, <2>2, <2>4 DEF Stage
    <3> QED
      BY <2>1, <3>1, <3>2 DEF Stage
  <2> QED
    BY <2>3, <2>4
<1>6. CASE Cancel(k) /\ ~WorkerAt(k, "ack")
  BY <1>1, <1>6, StepsInHand DEF Moves, Stage
<1> QED
  BY <1>3, <1>4, <1>5, <1>6
\* So every consumer stays in its stage: the others' jobs are not written.
LEMMA StageStep ==
  ASSUME TypeOK, JobsInv, NEW k \in Consumer, ConsumerStep(k)
  PROVE  HeadInStage'
<1>0. /\ worker \in [Consumer -> WorkerState] /\ record \in [JobId -> Status] /\ log' = log
      /\ \A l \in Consumer \ {k} : worker'[l] = worker[l]
  BY Batches DEF TypeOK
<1>1. ASSUME NEW l \in Consumer \ {k}, InHand(l)', Id(l)' \in Job
      PROVE  Stage(worker'[l], record'[Id(l)'])
  <2>1. InHand(l) /\ Id(l)' = Id(l) /\ Id(l) \in Job
    BY <1>0, <1>1 DEF InHand, Id, Current
  <2>2. Stage(worker[l], record[Id(l)])
    BY <2>1 DEF JobsInv, HeadInStage
  <2>3. CASE SetStatus(k)
    <3>1. InHand(k)
      BY <2>3 DEF SetStatus, InHand, WorkerAt
    <3>2. Id(k) # Id(l)
      BY <2>1, <3>1, HeadsDiffer DEF JobsInv
    <3>3. record'[Id(l)] = record[Id(l)]
      BY <1>0, <2>1, <2>3, <3>2 DEF SetStatus, JobId
    <3> QED
      BY <1>0, <2>1, <2>2, <3>3
  <2>4. CASE record' = record
    BY <1>0, <2>1, <2>2, <2>4
  <2> QED
    BY <2>3, <2>4, RecordChange
<1>2. ASSUME InHand(k)', Id(k)' \in Job
      PROVE  Stage(worker'[k], record'[Id(k)'])
  <2>1. CASE Ack(k) \/ Poll(k)
    BY <1>2, <2>1, NextIsQueued DEF Stage
  <2>2. CASE \/ SetStatus(k) \/ ExpireJob(k) \/ ExpireTokens(k) \/ PushToken(k)
             \/ FinishGraph(k) \/ GraphFails(k)
             \/ RedisFails(k) /\ InHand(k) /\ ~WorkerAt(k, "ack")
             \/ Cancel(k) /\ InHand(k) /\ ~WorkerAt(k, "ack")
    <3>1. InHand(k)
      BY <2>2 DEF SetStatus, ExpireJob, ExpireTokens, PushToken, FinishGraph, GraphFails,
        InHand, WorkerAt
    <3>2. worker'[k].batch = worker[k].batch
      <4>1. CASE PushToken(k)
        BY <4>1 DEF PushToken
      <4>2. CASE ~PushToken(k)
        BY <1>0, <2>2, <4>2, StepsInHand DEF Moves, Failing
      <4> QED
        BY <4>1, <4>2
    <3>3. Id(k)' = Id(k)
      BY <1>0, <3>2 DEF Id, Current
    <3> QED
      BY <1>2, <2>2, <3>1, <3>3, KeptStage
  <2>3. CASE \/ Wake(k) \/ Restart(k)
             \/ (RedisFails(k) \/ Cancel(k)) /\ (InHand(k) => WorkerAt(k, "ack"))
    <3>1. Dropped(k)
      BY <1>0, <2>3, StepsToLoop
    <3> QED
      BY <1>2, <3>1 DEF Dropped, Moves, InHand
  <2> QED
    BY <2>1, <2>2, <2>3 DEF ConsumerStep, WorkerStep
<1>3. HeadInStage' <=> \A l \in Consumer : InHand(l)' /\ Id(l)' \in Job =>
                         Stage(worker'[l], record'[Id(l)'])
  BY DEF HeadInStage
<1> QED
  BY <1>1, <1>2, <1>3

LEMMA ConsumerKeepsJobs ==
  ASSUME TypeOK, JobsInv, NEW k \in Consumer, ConsumerStep(k)
  PROVE  JobsInv'
<1>1. HeldOnce' /\ WaitingIsQueued' /\ HeadInStage'
  BY HeldStep, WaitingQueuedStep, StageStep DEF JobsInv
<1>2. UNCHANGED <<log, enq>> /\ ttl \subseteq ttl'
  BY Batches, RecordChange
<1>3. ASSUME NEW j \in Job, enq[j] \in {"new", "hset", "expire"} PROVE record'[j] = record[j]
  <2>1. CASE SetStatus(k)
    <3>1. InHand(k)
      BY <2>1 DEF SetStatus, InHand, WorkerAt
    <3>2. Id(k) # j
      BY <1>3, <3>1, HeadTyped DEF JobsInv, PublishedOnce, Id
    <3> QED
      BY <2>1, <3>2 DEF SetStatus, TypeOK, JobId
  <2> QED
    BY <2>1, RecordChange
<1>4. PublishedOnce'
  BY <1>2, <1>3 DEF JobsInv, PublishedOnce
<1> QED
  BY <1>1, <1>4 DEF JobsInv

\* A message is published, for a job whose record is ready, or without a job.
LEMMA PublishKeepsJobs ==
  ASSUME TypeOK, JobsInv, NEW x \in JobId, log' = Append(log, x),
         \/ x = Unknown /\ enq' = enq
         \/ x \in Job /\ enq[x] = "expire" /\ enq' = [enq EXCEPT ![x] = "publish"],
         UNCHANGED <<record, ttl, cursor, pel, worker>>
  PROVE  JobsInv'
<1> DEFINE n == Len(log)
<1>0. /\ n \in Nat /\ cursor \in 0 .. n /\ log \in Seq(JobId)
      /\ enq \in [Job -> {"new", "hset", "expire", "publish", "sent"}]
  BY DEF TypeOK
<1>1. /\ Len(log') = n + 1 /\ log'[n + 1] = x
      /\ \A i \in 1 .. n : log'[i] = log[i]
  BY <1>0
<1> HIDE DEF n
<1>2. \A i \in 1 .. n + 1 : i \in 1 .. n \/ i = n + 1
  BY <1>0
<1>3. \A i \in 1 .. n : log[i] \in Job => log[i] # x
  BY UnknownAssumption DEF JobsInv, PublishedOnce, n
<1>4. \A j \in Job : enq'[j] # enq[j] => j = x /\ enq[j] = "expire" /\ enq'[j] = "publish"
  BY <1>0
<1>5. x \in Job => enq'[x] = "publish" /\ record[x] = "queued" /\ <<"job", x>> \in ttl
  BY <1>0, UnknownAssumption DEF JobsInv, PublishedOnce
<1>6. PublishedOnce'
  <2>1. ASSUME NEW a \in 1 .. n + 1, NEW b \in 1 .. n + 1, log'[a] = log'[b], log'[a] \in Job
        PROVE  a = b
    BY <1>1, <1>2, <1>3, <2>1 DEF JobsInv, PublishedOnce, n
  <2>2. ASSUME NEW a \in 1 .. n + 1, log'[a] \in Job PROVE enq'[log'[a]] \in {"publish", "sent"}
    BY <1>1, <1>2, <1>4, <1>5, <2>2 DEF JobsInv, PublishedOnce, n
  <2>3. ASSUME NEW j \in Job
        PROVE  /\ enq'[j] = "new" => record'[j] = "absent"
               /\ enq'[j] \in {"hset", "expire"} => record'[j] = "queued"
               /\ enq'[j] \in {"expire", "publish", "sent"} => <<"job", j>> \in ttl'
    <3>1. CASE enq'[j] = enq[j]
      BY <3>1 DEF JobsInv, PublishedOnce
    <3>2. CASE enq'[j] # enq[j]
      BY <1>4, <1>5, <3>2
    <3> QED
      BY <3>1, <3>2
  <2> QED
    BY <1>1, <2>1, <2>2, <2>3 DEF PublishedOnce
<1>7. HeldOnce'
  BY DEF JobsInv, HeldOnce
<1>8. WaitingIsQueued'
  <2>1. \A i : Waiting(i)' <=> Waiting(i)
    BY DEF Waiting
  <2>2. ASSUME NEW i \in 1 .. n + 1, Waiting(i), log'[i] \in Job
        PROVE  record'[log'[i]] = "queued"
    BY <1>1, <1>2, <1>5, <2>2 DEF JobsInv, WaitingIsQueued, n
  <2> QED
    BY <1>1, <2>1, <2>2 DEF WaitingIsQueued
<1>9. HeadInStage'
  <2>1. ASSUME NEW k \in Consumer, InHand(k) PROVE Id(k)' = Id(k)
    BY <1>1, <2>1, HeadTyped DEF Id, Current, n
  <2> QED
    BY <2>1 DEF JobsInv, HeadInStage, InHand
<1> QED
  BY <1>6, <1>7, <1>8, <1>9 DEF JobsInv

LEMMA EnqueueKeepsJobs ==
  ASSUME TypeOK, JobsInv, NEW j \in Job, Enqueue(j)
  PROVE  JobsInv'
<1>0. /\ enq \in [Job -> {"new", "hset", "expire", "publish", "sent"}]
      /\ record \in [JobId -> Status] /\ j \in JobId
  BY DEF TypeOK, JobId
<1>1. UNCHANGED <<cursor, pel, worker>> /\ enq[j] \in {"new", "hset", "expire", "publish"}
  BY <1>0 DEF Enqueue
<1>2. CASE enq[j] = "expire"
  <2>1. log' = Append(log, j) /\ enq' = [enq EXCEPT ![j] = "publish"]
        /\ UNCHANGED <<record, ttl>>
    BY <1>2 DEF Enqueue, EnqueueOrder
  <2> QED
    BY <1>0, <1>1, <1>2, <2>1, PublishKeepsJobs
<1>3. CASE enq[j] # "expire"
  <2> DEFINE next == EnqueueOrder[enq[j]]
  <2>0. /\ enq[j] = "new" => next = "hset"
        /\ enq[j] = "hset" => next = "expire"
        /\ enq[j] = "publish" => next = "sent"
    BY DEF EnqueueOrder
  <2> HIDE DEF next
  <2>1. /\ log' = log /\ ttl \subseteq ttl'
        /\ enq' = [enq EXCEPT ![j] = next]
        /\ enq[j] = "new" => record' = [record EXCEPT ![j] = "queued"]
        /\ enq[j] # "new" => record' = record
        /\ enq[j] = "hset" => <<"job", j>> \in ttl'
    BY <1>1, <1>3, <2>0 DEF Enqueue, next
  <2>2. /\ \A i \in Job \ {j} : record'[i] = record[i] /\ enq'[i] = enq[i]
        /\ enq[j] = "new" => record'[j] = "queued" /\ enq'[j] = "hset"
        /\ enq[j] = "hset" => record'[j] = record[j] /\ enq'[j] = "expire"
        /\ enq[j] = "publish" => record'[j] = record[j] /\ enq'[j] = "sent"
    BY <1>0, <1>1, <1>3, <2>0, <2>1 DEF JobId
  <2>3. PublishedOnce'
    <3>1. ASSUME NEW i \in Job
          PROVE  /\ enq'[i] = "new" => record'[i] = "absent"
                 /\ enq'[i] \in {"hset", "expire"} => record'[i] = "queued"
                 /\ enq'[i] \in {"expire", "publish", "sent"} => <<"job", i>> \in ttl'
      BY <1>1, <1>3, <2>1, <2>2 DEF JobsInv, PublishedOnce
    <3>2. \A a \in 1 .. Len(log) : log[a] \in Job => enq'[log[a]] \in {"publish", "sent"}
      BY <1>1, <1>3, <2>2 DEF JobsInv, PublishedOnce
    <3> QED
      BY <2>1, <3>1, <3>2 DEF JobsInv, PublishedOnce
  <2>4. \A a \in 1 .. Len(log) : log[a] \in Job => record'[log[a]] = record[log[a]]
    BY <1>1, <1>3, <2>2 DEF JobsInv, PublishedOnce
  <2>5. HeldOnce'
    BY <1>1 DEF JobsInv, HeldOnce
  <2>6. WaitingIsQueued'
    BY <1>1, <2>1, <2>4 DEF JobsInv, WaitingIsQueued, Waiting
  <2>7. HeadInStage'
    <3>1. ASSUME NEW k \in Consumer, InHand(k), Id(k) \in Job
          PROVE  record'[Id(k)] = record[Id(k)]
      BY <2>4, <3>1, HeadTyped DEF Id
    <3> QED
      BY <1>1, <2>1, <3>1 DEF JobsInv, HeadInStage, InHand, Id, Current
  <2> QED
    BY <2>3, <2>5, <2>6, <2>7 DEF JobsInv
<1> QED
  BY <1>2, <1>3

LEMMA JobsStep ==
  ASSUME TypeOK, JobsInv, [Next]_vars
  PROVE  JobsInv'
<1>1. CASE UNCHANGED <<record, ttl, log, cursor, pel, enq, worker>>
  BY <1>1 DEF JobsInv, PublishedOnce, HeldOnce, WaitingIsQueued, Waiting, HeadInStage,
    InHand, Id, Current
<1>2. ASSUME NEW j \in Job, Enqueue(j) PROVE JobsInv'
  BY <1>2, EnqueueKeepsJobs
<1>3. CASE PublishEvent
  BY <1>3, PublishKeepsJobs DEF PublishEvent, jobVars, JobId
<1>4. ASSUME NEW k \in Consumer, ConsumerStep(k) PROVE JobsInv'
  BY <1>4, ConsumerKeepsJobs
<1>5. ASSUME NEW s \in Stream, StreamStep(s) PROVE JobsInv'
  BY <1>1, <1>5 DEF StreamStep, ForwardTokens, ReadStatus, Drain, Deadline, OpenStream,
    jobVars, queueVars
<1>6. CASE UNCHANGED vars
  BY <1>1, <1>6 DEF vars, jobVars, queueVars
<1> QED
  BY <1>2, <1>3, <1>4, <1>5, <1>6 DEF Next, ConsumerStep, StreamStep

LEMMA JobsStart == Init => JobsInv
<1> SUFFICES ASSUME Init PROVE JobsInv
  OBVIOUS
<1>1. /\ Len(log) = 0 /\ \A j \in Job : enq[j] = "new" /\ record[j] = "absent"
      /\ \A k \in Consumer : ~InHand(k) /\ Len(worker[k].batch) = 0
  BY DEF Init, IdleWorker, InHand, JobId
<1> QED
  BY <1>1 DEF JobsInv, PublishedOnce, HeldOnce, WaitingIsQueued, HeadInStage

\* One message for each job, held by one consumer at a time, whose next write comes
\* after the status the job has: what the order of the writes of POST /agent/query,
\* the consumer group and _process_message keep together (routers/agent.py 47-49,
\* consumer.py 43-92).
THEOREM OneRunPerJob == Spec => [](TypeOK /\ JobsInv)
<1>1. TypeOK /\ OutcomeSeen /\ JobsInv /\ [Next]_vars => TypeOK' /\ OutcomeSeen' /\ JobsInv'
  BY TypeStep, JobsStep
<1> QED
  BY <1>1, TypeStarts, JobsStart, PTL DEF Spec

-----------------------------------------------------------------------------
(* The status of a job only moves on.                                      *)

\* The order of the statuses of a job.  A Redis error between the two EXPIREs
\* that follow "done" still sends the job to "error".
Rank == [absent |-> 0, queued |-> 1, running |-> 2, done |-> 3, error |-> 4]

\* The status of a job only moves on: the record is queued before any consumer
\* can see the message, and no job is run again, also when consumers are
\* cancelled, crash, or lose the reply of a command while they hold its message
\* (routers/agent.py 47-49, consumer.py 43-75).
StatusForward ==
  [][\A j \in Job : record'[j] # record[j] => Rank[record[j]] < Rank[record'[j]]]_vars

LEMMA ForwardStep ==
  ASSUME TypeOK, JobsInv, [Next]_vars, NEW j \in Job, record'[j] # record[j]
  PROVE  Rank[record[j]] < Rank[record'[j]]
<1>0. record \in [JobId -> Status] /\ enq \in [Job -> {"new", "hset", "expire", "publish", "sent"}]
  BY DEF TypeOK
<1>1. ASSUME NEW i \in Job, Enqueue(i) PROVE Rank[record[j]] < Rank[record'[j]]
  <2>1. record' # record /\ EnqueueOrder[enq[i]] = "hset"
    BY <1>1 DEF Enqueue
  <2>2. record' = [record EXCEPT ![i] = "queued"] /\ enq[i] # "sent"
    BY <1>1, <2>1 DEF Enqueue
  <2>3. enq[i] = "new"
    BY <1>0, <2>1, <2>2 DEF EnqueueOrder
  <2>4. j = i /\ record[j] = "absent" /\ record'[j] = "queued"
    BY <1>0, <2>2, <2>3 DEF JobsInv, PublishedOnce, JobId
  <2> QED
    BY <2>4 DEF Rank
<1>2. ASSUME NEW k \in Consumer, ConsumerStep(k) PROVE Rank[record[j]] < Rank[record'[j]]
  <2>1. SetStatus(k)
    BY <1>2, RecordChange
  <2>2. InHand(k) /\ worker[k].pc = "hset"
    BY <2>1 DEF SetStatus, InHand, WorkerAt
  <2>3. j = Id(k) /\ record'[j] = worker[k].status
    BY <1>0, <2>1 DEF SetStatus, JobId
  <2>4. Stage(worker[k], record[j])
    BY <2>2, <2>3 DEF JobsInv, HeadInStage
  <2> QED
    BY <2>2, <2>3, <2>4 DEF Stage, Rank
<1>3. ASSUME PublishEvent \/ (\E s \in Stream : StreamStep(s)) \/ UNCHANGED vars
      PROVE  FALSE
  BY <1>3 DEF PublishEvent, StreamStep, ForwardTokens, ReadStatus, Drain, Deadline,
    OpenStream, vars, jobVars
<1> QED
  BY <1>1, <1>2, <1>3 DEF Next, ConsumerStep, StreamStep

\* The record is queued before any consumer can see the message, and no job is run
\* again, also when consumers are cancelled, crash, or lose the reply of a command
\* while they hold its message (routers/agent.py 47-49, consumer.py 43-75).
THEOREM Forward == Spec => StatusForward
<1>1. TypeOK /\ JobsInv /\ [Next]_vars =>
        [\A j \in Job : record'[j] # record[j] => Rank[record[j]] < Rank[record'[j]]]_vars
  BY ForwardStep
<1> QED
  BY <1>1, OneRunPerJob, PTL DEF Spec, StatusForward

\* An outcome stays an outcome, and no token follows it.
LEMMA OutcomeStays ==
  ASSUME TypeOK, OutcomeSeen, JobsInv, [Next]_vars, NEW j \in Job, record[j] \in Terminal
  PROVE  record'[j] \in Terminal /\ tokens'[j] = tokens[j]
<1>1. record'[j] \in Terminal
  <2>1. record'[j] \in Status
    BY TypeStep DEF TypeOK, JobId
  <2>2. CASE record'[j] # record[j]
    <3>1. Rank[record[j]] < Rank[record'[j]]
      BY <2>2, ForwardStep
    <3> QED
      BY <2>1, <3>1 DEF Rank, Terminal, Status
  <2> QED
    BY <2>2
<1>2. ASSUME NEW k \in Consumer, ConsumerStep(k) PROVE tokens'[j] = tokens[j]
  <2>1. CASE PushToken(k)
    <3>1. InHand(k) /\ worker[k].pc = "graph"
      BY <2>1 DEF PushToken, InHand, WorkerAt
    <3>2. Id(k) \in Job => record[Id(k)] = "running"
      BY <3>1 DEF JobsInv, HeadInStage, Stage
    <3>3. Id(k) # j
      BY <3>2 DEF Terminal
    <3> QED
      BY <2>1, <3>3 DEF PushToken, TypeOK, JobId
  <2> QED
    BY <1>2, <2>1, RecordChange
<1>3. ASSUME \/ \E i \in Job : Enqueue(i)
             \/ PublishEvent \/ (\E s \in Stream : StreamStep(s)) \/ UNCHANGED vars
      PROVE  tokens' = tokens
  BY <1>3 DEF Enqueue, PublishEvent, StreamStep, ForwardTokens, ReadStatus, Drain, Deadline,
    OpenStream, vars, jobVars
<1> QED
  BY <1>1, <1>2, <1>3 DEF Next, ConsumerStep, StreamStep

-----------------------------------------------------------------------------
(* A stream that ends with the outcome has sent the whole answer.          *)

\* A stream goes to its last read when its job has ended, so that the tokens it
\* then sends are the last; of the request r, when rec are the records and tok the
\* tokens.
StreamOK(r, rec, tok) ==
  /\ r.pc # "idle" => r.job \in Job
  /\ r.pc = "drain" => rec[r.job] \in Terminal
  /\ r.event \in Terminal =>
       /\ r.pc = "end" /\ rec[r.job] \in Terminal /\ r.sent = tok[r.job]

StreamInv == \A s \in Stream : StreamOK(sse[s], record, tokens)

LEMMA StreamInvStep ==
  ASSUME TypeOK, OutcomeSeen, JobsInv, StreamInv, [Next]_vars
  PROVE  StreamInv'
<1>0. StreamInv' <=> \A s \in Stream : StreamOK(sse'[s], record', tokens')
  BY DEF StreamInv, StreamOK
<1>1. ASSUME NEW s \in Stream, sse'[s] = sse[s] PROVE StreamOK(sse'[s], record', tokens')
  <2>1. StreamOK(sse[s], record, tokens)
    BY DEF StreamInv
  <2>2. sse[s].pc # "idle" /\ record[sse[s].job] \in Terminal =>
          record'[sse[s].job] \in Terminal /\ tokens'[sse[s].job] = tokens[sse[s].job]
    BY <2>1, OutcomeStays DEF StreamOK
  <2> QED
    BY <1>1, <2>1, <2>2 DEF StreamOK
<1>2. ASSUME UNCHANGED sse PROVE StreamInv'
  BY <1>0, <1>1, <1>2
<1>3. ASSUME NEW s \in Stream, StreamStep(s) PROVE StreamInv'
  <2>1. /\ sse \in [Stream -> SseState] /\ UNCHANGED <<record, tokens>>
        /\ StreamOK(sse[s], record, tokens)
    BY <1>3, StreamsTyped DEF StreamInv, TypeOK, jobVars
  <2>2. \A t \in Stream \ {s} : sse'[t] = sse[t]
    BY <1>3, <2>1 DEF StreamStep, ForwardTokens, ReadStatus, Drain, Deadline, OpenStream
  <2>3. sse[s] \in SseState
    BY <2>1
  <2>4. ASSUME sse'[s].job = sse[s].job, sse'[s].event = sse[s].event, sse[s].pc # "idle",
               sse[s].pc # "end", sse'[s].pc # "end",
               sse'[s].pc = "drain" => record[sse[s].job] \in Terminal
        PROVE  StreamOK(sse'[s], record', tokens')
    BY <2>1, <2>4 DEF StreamOK
  <2>5. ASSUME ForwardTokens(s) PROVE StreamOK(sse'[s], record', tokens')
    <3>1. /\ sse'[s].job = sse[s].job /\ sse'[s].event = sse[s].event
          /\ sse'[s].pc = "status" /\ sse[s].pc = "tokens"
      BY <2>1, <2>3, <2>5 DEF ForwardTokens, SseState
    <3> QED
      BY <2>4, <3>1
  <2>6. ASSUME ReadStatus(s) PROVE StreamOK(sse'[s], record', tokens')
    <3>1. /\ sse'[s].job = sse[s].job /\ sse'[s].event = sse[s].event /\ sse[s].pc = "status"
          /\ sse'[s].pc = IF record[sse[s].job] \in Terminal THEN "drain" ELSE "tokens"
      BY <2>1, <2>3, <2>6 DEF ReadStatus, SseState
    <3> QED
      BY <2>4, <3>1
  <2>7. ASSUME Drain(s) PROVE StreamOK(sse'[s], record', tokens')
    <3>1. /\ sse'[s].job = sse[s].job /\ sse'[s].sent = tokens[sse[s].job] /\ sse'[s].pc = "end"
          /\ sse[s].pc = "drain"
      BY <2>1, <2>3, <2>7 DEF Drain, Drained, SseState
    <3> QED
      BY <2>1, <3>1 DEF StreamOK
  <2>8. ASSUME Deadline(s) PROVE StreamOK(sse'[s], record', tokens')
    <3>1. /\ sse'[s].job = sse[s].job /\ sse'[s].event = "timeout"
          /\ sse'[s].pc = "end" /\ sse[s].pc = "tokens"
      BY <2>1, <2>3, <2>8 DEF Deadline, SseState
    <3> QED
      BY <2>1, <3>1 DEF StreamOK, Terminal
  <2>9. ASSUME NEW j \in Job, OpenStream(s, j) PROVE StreamOK(sse'[s], record', tokens')
    <3>1. /\ sse'[s].job = j /\ sse'[s].event = sse[s].event
          /\ sse'[s].pc = "tokens" /\ sse[s].pc = "idle"
      BY <2>1, <2>3, <2>9 DEF OpenStream, SseState
    <3> QED
      BY <2>1, <3>1 DEF StreamOK
  <2>10. StreamOK(sse'[s], record', tokens')
    BY <1>3, <2>5, <2>6, <2>7, <2>8, <2>9 DEF StreamStep
  <2> QED
    BY <1>0, <1>1, <2>2, <2>10
<1>4. ASSUME \/ \E i \in Job : Enqueue(i)
             \/ PublishEvent \/ (\E k \in Consumer : ConsumerStep(k)) \/ UNCHANGED vars
      PROVE  UNCHANGED sse
  BY <1>4, Batches DEF Enqueue, PublishEvent, vars
<1> QED
  BY <1>2, <1>3, <1>4 DEF Next, ConsumerStep, StreamStep

\* A stream that ends with done or error has forwarded every token of the answer,
\* although tokens, the status and the last tokens are read in three commands
\* while the graph pushes (routers/agent.py 90-109, nodes.py 258-261).
EndedStreamComplete ==
  \A s \in Stream :
    sse[s].event \in Terminal => sse[s].sent = tokens[sse[s].job]

\* That is so for answers of any length, and under every fault.
THEOREM StreamComplete == Spec => []EndedStreamComplete
<1>1. Init => StreamInv
  BY DEF Init, StreamInv, StreamOK, IdleSse, Terminal
<1>2. TypeOK /\ OutcomeSeen /\ JobsInv /\ StreamInv /\ [Next]_vars =>
        TypeOK' /\ OutcomeSeen' /\ JobsInv' /\ StreamInv'
  BY TypeStep, JobsStep, StreamInvStep
<1>3. StreamInv => EndedStreamComplete
  BY DEF StreamInv, StreamOK, EndedStreamComplete
<1> QED
  BY <1>1, <1>2, <1>3, TypeStarts, JobsStart, PTL DEF Spec

-----------------------------------------------------------------------------
(* An acknowledged message has its outcome.                                *)

\* Every step of a consumer leaves the pending list as a command that was cut off
\* might have.
LEMMA Pending ==
  ASSUME NEW k \in Consumer, ConsumerStep(k)
  PROVE  CutOff(k)
<1>1. CASE \/ SetStatus(k) \/ ExpireJob(k) \/ ExpireTokens(k) \/ PushToken(k)
           \/ FinishGraph(k) \/ Wake(k) \/ GraphFails(k)
  BY <1>1 DEF SetStatus, ExpireJob, ExpireTokens, PushToken, FinishGraph, Wake, GraphFails,
    CutOff, queueVars
<1>2. CASE Poll(k) \/ Ack(k) \/ RedisFails(k) \/ Cancel(k) \/ Restart(k)
  BY <1>2 DEF Poll, Ack, RedisFails, Cancel, Restart, CutOff
<1> QED
  BY <1>1, <1>2 DEF ConsumerStep, WorkerStep

\* So what is acknowledged now was acknowledged before, or was in hand.
LEMMA AckedBefore ==
  ASSUME TypeOK, NEW k \in Consumer, ConsumerStep(k), NEW i \in 1 .. cursor', i \notin pel'
  PROVE  /\ i \in 1 .. cursor
         /\ i \in pel => WorkerAt(k, "ack") /\ i = Current(k)
<1>0. cursor \in Nat /\ log \in Seq(JobId) /\ cursor \in 0 .. Len(log)
  BY DEF TypeOK
<1>1. CASE UNCHANGED cursor /\ (pel' = pel \/ (WorkerAt(k, "ack") /\ pel' = pel \ {Current(k)}))
  BY <1>1
<1>2. CASE cursor' = cursor + Cardinality(Fetched) /\ pel' = pel \cup Fetched
  <2> DEFINE n == Cardinality(Fetched)
  <2>1. n \in Nat /\ Fetched = cursor + 1 .. cursor + n
    BY <1>0, Handout
  <2> HIDE DEF n
  <2>2. i \in 1 .. cursor + n /\ i \notin cursor + 1 .. cursor + n /\ i \notin pel
    BY <1>2, <2>1 DEF n
  <2> QED
    BY <1>0, <2>1, <2>2
<1> QED
  BY <1>1, <1>2, Pending DEF CutOff

\* The outcome of a job is there, and its keys have their TTLs, when rec are the
\* records, tok the tokens and keys the keys with a TTL.
JobSettled(j, rec, tok, keys) ==
  /\ rec[j] \in Terminal
  /\ <<"job", j>> \in keys
  /\ tok[j] > 0 => <<"tokens", j>> \in keys

\* A message is acknowledged after its outcome was written.
HeadSettled ==
  \A k \in Consumer : WorkerAt(k, "ack") /\ Id(k) \in Job => JobSettled(Id(k), record, tokens, ttl)

LEMMA SettledStays ==
  ASSUME TypeOK, OutcomeSeen, JobsInv, [Next]_vars,
         NEW j \in Job, JobSettled(j, record, tokens, ttl)
  PROVE  JobSettled(j, record', tokens', ttl')
<1>1. record'[j] \in Terminal /\ tokens'[j] = tokens[j]
  BY OutcomeStays DEF JobSettled
<1>2. ttl \subseteq ttl'
  <2>1. CASE \/ \E i \in Job : Enqueue(i)
             \/ PublishEvent \/ (\E s \in Stream : StreamStep(s)) \/ UNCHANGED vars
    BY <2>1 DEF Enqueue, PublishEvent, StreamStep, ForwardTokens, ReadStatus, Drain, Deadline,
      OpenStream, vars, jobVars
  <2> QED
    BY <2>1, RecordChange DEF Next, ConsumerStep, StreamStep
<1> QED
  BY <1>1, <1>2 DEF JobSettled

\* Only the EXPIRE that follows an outcome leads to the acknowledgement, when no
\* command raises and nothing is cancelled.
LEMMA AckAfterOutcome ==
  ASSUME MaxErrors = 0, "cancel" \notin Faults, TypeOK, JobsInv,
         NEW k \in Consumer, ConsumerStep(k), WorkerAt(k, "ack")', Id(k)' \in Job
  PROVE  Id(k)' = Id(k) /\ JobSettled(Id(k), record', tokens', ttl')
<1> DEFINE w == worker[k]
<1>0. /\ worker \in [Consumer -> WorkerState] /\ w \in WorkerState /\ errors \in 0 .. MaxErrors
      /\ log' = log
  BY Batches DEF TypeOK
<1>1. worker'[k].pc = "ack"
  BY DEF WorkerAt
<1>2. ~RedisFails(k) /\ ~Cancel(k)
  BY <1>0 DEF RedisFails, Cancel
<1>3. ~(SetStatus(k) \/ ExpireJob(k) \/ FinishGraph(k) \/ PushToken(k))
  <2>1. ~(SetStatus(k) \/ ExpireJob(k) \/ FinishGraph(k))
    BY <1>0, <1>1, StepsInHand DEF Moves
  <2>2. ~PushToken(k)
    BY <1>1 DEF PushToken, WorkerAt
  <2> QED
    BY <2>1, <2>2
<1>4. ~(Wake(k) \/ Restart(k) \/ (Ack(k) /\ w.exit # "next"))
  BY <1>0, <1>1, StepsToLoop DEF Dropped, Moves
<1>5. ~(Poll(k) \/ (Ack(k) /\ w.exit = "next"))
  <2>1. ASSUME NEW b, worker' = [worker EXCEPT ![k] = NextMessage(b)] PROVE FALSE
    BY <1>0, <1>1, <2>1 DEF NextMessage
  <2> QED
    BY <2>1 DEF Poll, Ack
<1>6. ~GraphFails(k) \/ Id(k) \notin Job
  <2>1. ASSUME GraphFails(k), Id(k) \in Job PROVE FALSE
    <3>1. InHand(k) /\ w.pc = "graph" /\ Failing(k)
      BY <1>0, <2>1, StepsInHand DEF GraphFails, WorkerAt, InHand
    <3>2. w.status = "running"
      BY <2>1, <3>1 DEF JobsInv, HeadInStage, Stage
    <3> QED
      BY <1>1, <3>1, <3>2 DEF Failing, Moves
  <2> QED
    BY <2>1
<1>7. ExpireTokens(k) \/ GraphFails(k)
  BY <1>2, <1>3, <1>4, <1>5 DEF ConsumerStep, WorkerStep
<1>8. worker'[k].batch = w.batch
  BY <1>0, <1>7, StepsInHand DEF Moves, Failing
<1>9. Id(k)' = Id(k) /\ Id(k) \in Job
  BY <1>0, <1>8 DEF Id, Current
<1>10. ExpireTokens(k)
  BY <1>6, <1>7, <1>9
<1>11. InHand(k) /\ w.pc = "expireTokens" /\ w.status # "running"
  <2>1. Moves(k, IF w.status = "running" THEN "graph" ELSE "ack", w.batch, w.status, w.exit)
    BY <1>0, <1>10, StepsInHand
  <2> QED
    BY <1>1, <1>10, <2>1 DEF Moves, ExpireTokens, WorkerAt, InHand
<1>12. record[Id(k)] \in Terminal
  BY <1>9, <1>11 DEF JobsInv, HeadInStage, Stage, Terminal
<1>13. <<"job", Id(k)>> \in ttl
  BY <1>9, <1>11, HeadTyped DEF JobsInv, PublishedOnce, Id
<1> QED
  BY <1>9, <1>10, <1>12, <1>13 DEF ExpireTokens, ExpiresTokens, JobSettled

LEMMA SettledStep ==
  ASSUME MaxErrors = 0, "cancel" \notin Faults, TypeOK, OutcomeSeen, JobsInv,
         HeadSettled, AckedIsSettled, [Next]_vars
  PROVE  HeadSettled' /\ AckedIsSettled'
<1>0. /\ log \in Seq(JobId) /\ cursor \in 0 .. Len(log) /\ Len(log) \in Nat
      /\ AckedIsSettled <=> \A i \in 1 .. cursor : i \notin pel /\ log[i] \in Job =>
                              JobSettled(log[i], record, tokens, ttl)
      /\ AckedIsSettled' <=> \A i \in 1 .. cursor' : i \notin pel' /\ log'[i] \in Job =>
                               JobSettled(log'[i], record', tokens', ttl')
  BY DEF TypeOK, AckedIsSettled, JobSettled
<1>1. \A j \in Job : JobSettled(j, record, tokens, ttl) => JobSettled(j, record', tokens', ttl')
  BY SettledStays
<1>2. ASSUME \A i \in 1 .. Len(log) : log'[i] = log[i], UNCHANGED <<cursor, pel, worker>>
      PROVE  HeadSettled' /\ AckedIsSettled'
  <2>1. AckedIsSettled'
    <3>1. \A i \in 1 .. cursor : i \in 1 .. Len(log)
      BY <1>0
    <3> QED
      BY <1>0, <1>1, <1>2, <3>1
  <2>2. ASSUME NEW k \in Consumer, WorkerAt(k, "ack")', Id(k)' \in Job
        PROVE  JobSettled(Id(k)', record', tokens', ttl')
    <3>1. WorkerAt(k, "ack") /\ InHand(k)
      BY <1>2, <2>2 DEF WorkerAt, InHand
    <3>2. Id(k)' = Id(k)
      BY <1>2, <3>1, HeadTyped DEF Id, Current
    <3> QED
      BY <1>1, <2>2, <3>1, <3>2 DEF HeadSettled
  <2> QED
    BY <2>1, <2>2 DEF HeadSettled
<1>3. ASSUME \/ \E j \in Job : Enqueue(j)
             \/ PublishEvent \/ (\E s \in Stream : StreamStep(s)) \/ UNCHANGED vars
      PROVE  HeadSettled' /\ AckedIsSettled'
  <2>1. UNCHANGED <<cursor, pel, worker>> /\ \E x : log' = log \/ log' = Append(log, x)
    BY <1>3 DEF Enqueue, PublishEvent, StreamStep, ForwardTokens, ReadStatus, Drain, Deadline,
      OpenStream, vars, queueVars
  <2> QED
    BY <1>0, <1>2, <2>1
<1>4. ASSUME NEW k \in Consumer, ConsumerStep(k)
      PROVE  HeadSettled' /\ AckedIsSettled'
  <2>1. log' = log /\ \A l \in Consumer \ {k} : worker'[l] = worker[l]
    BY <1>4, Batches
  <2>2. ASSUME NEW i \in 1 .. cursor', i \notin pel', log'[i] \in Job
        PROVE  JobSettled(log'[i], record', tokens', ttl')
    <3>1. i \in 1 .. cursor /\ (i \in pel => WorkerAt(k, "ack") /\ i = Current(k))
      BY <1>4, <2>2, AckedBefore
    <3>2. CASE i \notin pel
      BY <1>0, <1>1, <2>1, <2>2, <3>1, <3>2
    <3>3. CASE i \in pel
      BY <1>1, <2>1, <2>2, <3>1, <3>3 DEF HeadSettled, Id
    <3> QED
      BY <3>2, <3>3
  <2>3. ASSUME NEW l \in Consumer, WorkerAt(l, "ack")', Id(l)' \in Job
        PROVE  JobSettled(Id(l)', record', tokens', ttl')
    <3>1. CASE l = k
      BY <1>4, <2>3, <3>1, AckAfterOutcome
    <3>2. CASE l # k
      <4>1. WorkerAt(l, "ack") /\ Id(l)' = Id(l)
        BY <2>1, <2>3, <3>2 DEF WorkerAt, Id, Current
      <4> QED
        BY <1>1, <2>3, <4>1 DEF HeadSettled
    <3> QED
      BY <3>1, <3>2
  <2> QED
    BY <1>0, <2>2, <2>3 DEF HeadSettled
<1> QED
  BY <1>3, <1>4 DEF Next, ConsumerStep, StreamStep

\* An acknowledged job has its outcome, and neither its record nor the tokens
\* pushed after the first EXPIRE stay in Redis for ever, whether or not the graph
\* failed and whether or not consumers crash (consumer.py 30-33, 66-77).  No Redis
\* command raises and no consumer is cancelled: either may skip the writes.
THEOREM Settled ==
  ASSUME MaxErrors = 0, "cancel" \notin Faults
  PROVE  Spec => []AckedIsSettled
<1>1. Init => HeadSettled /\ AckedIsSettled
  BY DEF Init, HeadSettled, AckedIsSettled, WorkerAt, IdleWorker
<1>2. TypeOK /\ OutcomeSeen /\ JobsInv /\ HeadSettled /\ AckedIsSettled /\ [Next]_vars =>
        TypeOK' /\ OutcomeSeen' /\ JobsInv' /\ HeadSettled' /\ AckedIsSettled'
  BY TypeStep, JobsStep, SettledStep
<1> QED
  BY <1>1, <1>2, TypeStarts, JobsStart, PTL DEF Spec

-----------------------------------------------------------------------------
(* The pipeline implements the life of a job.                              *)

\* A request reads for a job until it ends, and has seen an error only where there is
\* one; of the request r, when rec are the records.
ReaderOK(r, rec) ==
  /\ r.pc = "idle" => r.job = Unknown /\ r.sent = 0
  /\ r.pc # "end" => r.event = "none"
  /\ r.pc = "drain" /\ r.status = "error" => rec[r.job] = "error"

ReadersInv == \A s \in Stream : ReaderOK(sse[s], record)

\* What a step of a request does to the request.
LEMMA StreamMoves ==
  ASSUME TypeOK, OutcomeSeen, NEW s \in Stream, StreamStep(s)
  PROVE  LET r == sse[s] q == sse'[s] IN
         /\ sse' = [sse EXCEPT ![s] = q]
         /\ UNCHANGED <<record, tokens>>
         /\ \/ /\ r.pc = "idle" /\ q.pc = "tokens" /\ q.event = r.event /\ q.sent = r.sent
               /\ \E j \in Job : q.job = j /\ record[j] # "absent"
            \/ /\ r.pc = "tokens" /\ q.pc = "status" /\ q.event = r.event /\ q.job = r.job
               /\ q.sent = tokens[r.job]
            \/ /\ r.pc = "status" /\ q.pc \in {"drain", "tokens"} /\ q.event = r.event
               /\ q.job = r.job /\ q.sent = r.sent /\ q.status = record[r.job]
            \/ /\ r.pc = "drain" /\ q.pc = "end" /\ q.event = r.status /\ q.job = r.job
               /\ q.sent = tokens[r.job]
            \/ /\ r.pc = "tokens" /\ q.pc = "end" /\ q.event = "timeout" /\ q.job = r.job
               /\ q.sent = r.sent
<1>1. sse \in [Stream -> SseState] /\ sse[s] \in SseState
  BY DEF TypeOK
<1>2. UNCHANGED <<record, tokens>>
  BY StreamsTyped DEF jobVars
<1>3. sse' = [sse EXCEPT ![s] = sse'[s]]
  BY <1>1 DEF StreamStep, ForwardTokens, ReadStatus, Drain, Deadline, OpenStream
<1>4. CASE ForwardTokens(s)
  BY <1>1, <1>2, <1>3, <1>4 DEF ForwardTokens, SseState
<1>5. CASE ReadStatus(s)
  BY <1>1, <1>2, <1>3, <1>5 DEF ReadStatus, SseState
<1>6. CASE Drain(s)
  BY <1>1, <1>2, <1>3, <1>6 DEF Drain, Drained, SseState
<1>7. CASE Deadline(s)
  BY <1>1, <1>2, <1>3, <1>7 DEF Deadline, SseState
<1>8. ASSUME NEW j \in Job, OpenStream(s, j)
      PROVE  /\ sse[s].pc = "idle" /\ sse'[s].pc = "tokens" /\ sse'[s].event = sse[s].event
             /\ sse'[s].sent = sse[s].sent /\ sse'[s].job = j /\ record[j] # "absent"
  BY <1>1, <1>8 DEF OpenStream, SseState
<1> QED
  BY <1>2, <1>3, <1>4, <1>5, <1>6, <1>7, <1>8 DEF StreamStep

\* An error stays one.
LEMMA ErrorStays ==
  ASSUME TypeOK, OutcomeSeen, JobsInv, [Next]_vars, NEW j \in Job, record[j] = "error"
  PROVE  record'[j] = "error"
<1>1. record'[j] \in Status
  BY TypeStep DEF TypeOK, JobId
<1>2. CASE record'[j] # record[j]
  <2>1. Rank[record[j]] < Rank[record'[j]]
    BY <1>2, ForwardStep
  <2> QED
    BY <1>1, <2>1 DEF Rank, Status
<1> QED
  BY <1>2

LEMMA OthersKeepStreams ==
  ASSUME TypeOK,
         \/ \E i \in Job : Enqueue(i)
         \/ PublishEvent \/ (\E k \in Consumer : ConsumerStep(k)) \/ UNCHANGED vars
  PROVE  UNCHANGED sse
BY Batches DEF Enqueue, PublishEvent, vars

LEMMA ReadersStep ==
  ASSUME TypeOK, OutcomeSeen, JobsInv, StreamInv, ReadersInv, [Next]_vars
  PROVE  ReadersInv'
<1>0. ReadersInv' <=> \A s \in Stream : ReaderOK(sse'[s], record')
  BY DEF ReadersInv, ReaderOK
<1>1. ASSUME NEW s \in Stream, sse'[s] = sse[s] PROVE ReaderOK(sse'[s], record')
  <2>1. ReaderOK(sse[s], record) /\ StreamOK(sse[s], record, tokens)
    BY DEF ReadersInv, StreamInv
  <2> QED
    BY <1>1, <2>1, ErrorStays DEF ReaderOK, StreamOK
<1>2. ASSUME NEW s \in Stream, StreamStep(s) PROVE ReadersInv'
  <2>1. ReaderOK(sse[s], record) /\ sse \in [Stream -> SseState]
    BY DEF ReadersInv, TypeOK
  <2>2. ReaderOK(sse'[s], record')
    BY <1>2, <2>1, StreamMoves DEF ReaderOK
  <2>3. \A t \in Stream \ {s} : sse'[t] = sse[t]
    BY <1>2, <2>1, StreamMoves
  <2> QED
    BY <1>0, <1>1, <2>2, <2>3
<1>3. ASSUME UNCHANGED sse PROVE ReadersInv'
  BY <1>0, <1>1, <1>3
<1> QED
  BY <1>2, <1>3, OthersKeepStreams DEF Next, ConsumerStep, StreamStep

\* What the requester is shown of the records, the tokens and the requests.
StatusView == [j \in Job |-> record[j]]
AnswerView == [j \in Job |-> tokens[j]]
ReaderView ==
  [s \in Stream |-> [job |-> sse[s].job, sent |-> sse[s].sent, event |-> sse[s].event]]

\* A write of a job's status, as the requester sees it.
LEMMA StatusMoves ==
  ASSUME NEW j \in Job, NEW from, NEW to, record \in [JobId -> Status], record[j] \in from,
         record' = [record EXCEPT ![j] = to], UNCHANGED <<tokens, sse>>
  PROVE  Lifecycle!MovesOn(j, from, to)
<1>1. StatusView' = [StatusView EXCEPT ![j] = to]
  BY DEF StatusView, JobId
<1>2. StatusView[j] \in from
  BY DEF StatusView
<1>3. AnswerView' = AnswerView /\ ReaderView' = ReaderView
  BY DEF AnswerView, ReaderView
<1> QED
  BY <1>1, <1>2, <1>3 DEF Lifecycle!MovesOn, StatusView, AnswerView, ReaderView

\* Every step of the pipeline is a step of the life of a job, or nothing.
LEMMA EnqueueLife ==
  ASSUME TypeOK, JobsInv, NEW j \in Job, Enqueue(j)
  PROVE  \/ UNCHANGED <<StatusView, AnswerView, ReaderView>>
         \/ Lifecycle!Next
<1>1. /\ record \in [JobId -> Status]
      /\ enq \in [Job -> {"new", "hset", "expire", "publish", "sent"}]
      /\ UNCHANGED <<tokens, sse>>
  BY DEF TypeOK, Enqueue
<1>2. CASE EnqueueOrder[enq[j]] = "hset"
  <2>1. enq[j] = "new" /\ record' = [record EXCEPT ![j] = "queued"]
    BY <1>1, <1>2 DEF Enqueue, EnqueueOrder
  <2>2. record[j] \in {"absent"}
    BY <2>1 DEF JobsInv, PublishedOnce
  <2>3. Lifecycle!MovesOn(j, {"absent"}, "queued")
    BY <1>1, <2>1, <2>2, StatusMoves
  <2> QED
    BY <2>3 DEF Lifecycle!Next, Lifecycle!Submit
<1>3. CASE EnqueueOrder[enq[j]] # "hset"
  BY <1>1, <1>3 DEF Enqueue, StatusView, AnswerView, ReaderView
<1> QED
  BY <1>2, <1>3

LEMMA ConsumerLife ==
  ASSUME TypeOK, JobsInv, NEW k \in Consumer, ConsumerStep(k)
  PROVE  \/ UNCHANGED <<StatusView, AnswerView, ReaderView>>
         \/ Lifecycle!Next
<1>1. /\ record \in [JobId -> Status] /\ tokens \in [JobId -> Nat]
      /\ UNCHANGED sse
  BY OthersKeepStreams DEF TypeOK
<1>2. CASE SetStatus(k)
  <2>1. InHand(k) /\ worker[k].pc = "hset"
    BY <1>2 DEF SetStatus, InHand, WorkerAt
  <2>2. record' = [record EXCEPT ![Id(k)] = worker[k].status] /\ UNCHANGED tokens
    BY <1>2 DEF SetStatus
  <2>3. ASSUME NEW j \in Job, j = Id(k)
        PROVE  Lifecycle!Next
    <3>1. \/ record[j] \in {"queued"} /\ worker[k].status = "running"
          \/ record[j] \in {"running"} /\ worker[k].status = "done"
          \/ record[j] \in {"queued", "running", "done"} /\ worker[k].status = "error"
      BY <2>1, <2>3 DEF JobsInv, HeadInStage, Stage
    <3>2. \/ Lifecycle!MovesOn(j, {"queued"}, "running")
          \/ Lifecycle!MovesOn(j, {"running"}, "done")
          \/ Lifecycle!MovesOn(j, {"queued", "running", "done"}, "error")
      BY <1>1, <2>2, <2>3, <3>1, StatusMoves
    <3> QED
      BY <3>2 DEF Lifecycle!Next, Lifecycle!Begin, Lifecycle!Finish, Lifecycle!Fail
  <2>4. CASE Id(k) \notin Job
    BY <1>1, <2>2, <2>4 DEF StatusView, AnswerView, ReaderView
  <2> QED
    BY <2>3, <2>4
<1>3. CASE PushToken(k)
  <2>1. InHand(k) /\ worker[k].pc = "graph"
    BY <1>3 DEF PushToken, InHand, WorkerAt
  <2>2. tokens' = [tokens EXCEPT ![Id(k)] = @ + 1] /\ UNCHANGED record
    BY <1>3 DEF PushToken
  <2>3. ASSUME NEW j \in Job, j = Id(k)
        PROVE  Lifecycle!Next
    <3>1. StatusView[j] = "running"
      BY <2>1, <2>3 DEF JobsInv, HeadInStage, Stage, StatusView
    <3>2. AnswerView' = [AnswerView EXCEPT ![j] = @ + 1]
      BY <1>1, <2>2, <2>3 DEF AnswerView, JobId
    <3>3. StatusView' = StatusView /\ ReaderView' = ReaderView
      BY <1>1, <2>2 DEF StatusView, ReaderView
    <3>4. Lifecycle!Produce(j)
      BY <3>1, <3>2, <3>3 DEF Lifecycle!Produce, StatusView, AnswerView, ReaderView
    <3> QED
      BY <3>4 DEF Lifecycle!Next
  <2>4. CASE Id(k) \notin Job
    BY <1>1, <2>2, <2>4 DEF StatusView, AnswerView, ReaderView
  <2> QED
    BY <2>3, <2>4
<1>4. CASE UNCHANGED <<record, tokens>>
  BY <1>1, <1>4 DEF StatusView, AnswerView, ReaderView
<1> QED
  BY <1>2, <1>3, <1>4, RecordChange

LEMMA StreamLife ==
  ASSUME TypeOK, OutcomeSeen, StreamInv, ReadersInv, NEW s \in Stream, StreamStep(s)
  PROVE  \/ UNCHANGED <<StatusView, AnswerView, ReaderView>>
         \/ Lifecycle!Next
<1> DEFINE r == sse[s]
           q == sse'[s]
           View(x) == [job |-> x.job, sent |-> x.sent, event |-> x.event]
<1>1. /\ sse \in [Stream -> SseState] /\ sse' = [sse EXCEPT ![s] = q]
      /\ UNCHANGED <<record, tokens>>
      /\ ReaderOK(r, record) /\ StreamOK(r, record, tokens)
  BY StreamMoves DEF TypeOK, ReadersInv, StreamInv
<1>2. StatusView' = StatusView /\ AnswerView' = AnswerView
  BY <1>1 DEF StatusView, AnswerView
<1>3. /\ ReaderView' = [ReaderView EXCEPT ![s] = View(q)]
      /\ ReaderView[s] = View(r)
  BY <1>1 DEF ReaderView
<1>4. ASSUME NEW j, NEW n, NEW e, q.job = j, q.sent = n, q.event = e
      PROVE  Lifecycle!Sees(s, j, n, e)
  <2>1. ReaderView' = [ReaderView EXCEPT ![s] = [job |-> j, sent |-> n, event |-> e]]
    BY <1>3, <1>4
  <2> QED
    BY <1>2, <2>1 DEF Lifecycle!Sees, StatusView, AnswerView, ReaderView
<1>5. CASE r.pc = "idle"
  <2>1. PICK j \in Job : q.job = j /\ record[j] # "absent"
    BY <1>5, StreamMoves
  <2>2. q.sent = 0 /\ q.event = "none" /\ ReaderView[s].job = Unknown
    BY <1>1, <1>3, <1>5, StreamMoves DEF ReaderOK
  <2>3. Lifecycle!Open(s, j)
    BY <1>4, <2>1, <2>2 DEF Lifecycle!Open, ReaderView
  <2> QED
    BY <2>3 DEF Lifecycle!Next
<1>6. CASE r.pc # "idle"
  <2>1. PICK j \in Job : j = r.job
    BY <1>1, <1>6 DEF StreamOK
  <2>2. r.pc # "end" => r.event = "none" /\ Lifecycle!Reading(s, j)
    BY <1>1, <1>3, <2>1 DEF Lifecycle!Reading, ReaderOK, ReaderView
  <2>3. CASE r.pc = "tokens" /\ q.pc = "status"
    <3>1. q.job = j /\ q.event = "none" /\ q.sent = tokens[j]
      BY <2>1, <2>2, <2>3, StreamMoves
    <3>2. Lifecycle!Sees(s, j, tokens[j], "none")
      BY <1>4, <3>1
    <3>3. Lifecycle!Read(s, j)
      BY <2>2, <2>3, <3>2 DEF Lifecycle!Read
    <3> QED
      BY <3>3 DEF Lifecycle!Next
  <2>4. CASE r.pc = "status"
    <3>1. q.job = r.job /\ q.event = r.event /\ q.sent = r.sent
      BY <2>4, StreamMoves
    <3>2. ReaderView' = ReaderView
      BY <1>1, <3>1 DEF ReaderView
    <3> QED
      BY <1>2, <3>2
  <2>5. CASE r.pc = "drain"
    <3>1. q.job = j /\ q.event = r.status /\ q.sent = tokens[j]
      BY <2>1, <2>5, StreamMoves
    <3>2. r.status \in Terminal /\ record[j] \in Terminal
          /\ (r.status = "error" => record[j] = "error")
      BY <1>1, <2>1, <2>5 DEF StreamOK, ReaderOK, OutcomeSeen
    <3>3. PICK e \in Terminal : e = r.status
      BY <3>2
    <3>4. Lifecycle!Sees(s, j, tokens[j], e)
      BY <1>4, <3>1, <3>3
    <3>5. Lifecycle!End(s, j)
      BY <2>2, <2>5, <3>2, <3>3, <3>4 DEF Lifecycle!End, Lifecycle!Outcome, Terminal
    <3> QED
      BY <3>5 DEF Lifecycle!Next
  <2>6. CASE r.pc = "tokens" /\ q.pc = "end"
    <3>1. q.job = j /\ q.event = "timeout" /\ q.sent = r.sent
      BY <2>1, <2>6, StreamMoves
    <3>2. Lifecycle!Sees(s, j, ReaderView[s].sent, "timeout")
      BY <1>3, <1>4, <3>1
    <3>3. Lifecycle!TimeOut(s, j)
      BY <2>2, <2>6, <3>2 DEF Lifecycle!TimeOut, ReaderView
    <3> QED
      BY <3>3 DEF Lifecycle!Next
  <2> QED
    BY <1>6, <2>3, <2>4, <2>5, <2>6, StreamMoves
<1> QED
  BY <1>5, <1>6

LEMMA LifeStep ==
  ASSUME TypeOK, OutcomeSeen, JobsInv, StreamInv, ReadersInv, [Next]_vars
  PROVE  \/ UNCHANGED <<StatusView, AnswerView, ReaderView>>
         \/ Lifecycle!Next
<1>1. CASE PublishEvent \/ UNCHANGED vars
  BY <1>1 DEF PublishEvent, vars, jobVars, StatusView, AnswerView, ReaderView
<1> QED
  BY <1>1, EnqueueLife, ConsumerLife, StreamLife DEF Next, ConsumerStep, StreamStep

\* The pipeline implements the life of a job as its requester sees it: a job is
\* queued, runs once and ends, its answer grows only while it runs, and a reader is told
\* of the outcome with the last token, whatever consumers fail, are cancelled or die in
\* between (routers/agent.py 38-111, consumer.py 24-97).
THEOREM Implements == Spec => ImplementsLifecycle
<1>1. Init => Lifecycle!Init /\ ReadersInv
  <2>1. Init => /\ StatusView = [j \in Job |-> "absent"]
                /\ AnswerView = [j \in Job |-> 0]
                /\ ReaderView = [s \in Stream |-> [job |-> Unknown, sent |-> 0, event |-> "none"]]
    BY DEF Init, StatusView, AnswerView, ReaderView, JobId, IdleSse
  <2>2. Init => ReadersInv
    BY DEF Init, ReadersInv, ReaderOK, IdleSse
  <2> QED
    BY <2>1, <2>2 DEF Lifecycle!Init, StatusView, AnswerView, ReaderView
<1>2. Init => StreamInv
  BY DEF Init, StreamInv, StreamOK, IdleSse, Terminal
<1>3. TypeOK /\ OutcomeSeen /\ JobsInv /\ StreamInv /\ ReadersInv /\ [Next]_vars =>
        TypeOK' /\ OutcomeSeen' /\ JobsInv' /\ StreamInv' /\ ReadersInv'
  BY TypeStep, JobsStep, StreamInvStep, ReadersStep
<1>4. TypeOK /\ OutcomeSeen /\ JobsInv /\ StreamInv /\ ReadersInv /\ [Next]_vars =>
        [Lifecycle!Next]_(Lifecycle!lifeVars)
  BY LifeStep DEF Lifecycle!lifeVars, StatusView, AnswerView, ReaderView
<1> QED
  BY <1>1, <1>2, <1>3, <1>4, TypeStarts, JobsStart, PTL
  DEF Spec, ImplementsLifecycle, Lifecycle!Spec

=============================================================================
