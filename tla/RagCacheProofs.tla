--------------------------- MODULE RagCacheProofs ---------------------------
(***************************************************************************)
(* Proofs about RagCache and CacheHistory, for every number of hashes,     *)
(* reviewers, workers and clients, every threshold and capacity.           *)
(***************************************************************************)
EXTENDS CacheHistory, FiniteSetTheorems, TLAPS

-----------------------------------------------------------------------------
(* What the helpers that move jobs and requests do to their records.       *)

\* A missing key is a value an entry can have.
LEMMA NoEntryType == NoEntry \in Entry
BY DEF NoEntry, Entry, Status

\* The states of a job between queries, and of a request slot between requests.
LEMMA IdleTypes == IdleJob \in JobState /\ IdleReq \in ReqState
BY NoEntryType DEF IdleJob, JobState, JobPC, IdleReq, ReqState, ReqPC

\* A job that only moves on keeps its hash and its copy.
LEMMA JobMoves ==
  ASSUME job \in [Worker -> JobState], NEW w \in Worker, NEW p \in JobPC,
         JobGoto(w, p)
  PROVE  /\ job' \in [Worker -> JobState]
         /\ job'[w].pc = p /\ job'[w].hash = job[w].hash /\ job'[w].copy = job[w].copy
         /\ \A v \in Worker \ {w} : job'[v] = job[v]
<1>1. job[w] \in JobState
  OBVIOUS
<1>2. [job[w] EXCEPT !.pc = p] \in JobState
  BY <1>1 DEF JobState
<1>3. job' = [job EXCEPT ![w] = [job[w] EXCEPT !.pc = p]]
  BY DEF JobGoto
<1>4. job'[w] = [job[w] EXCEPT !.pc = p]
  BY <1>3
<1>5. job'[w].pc = p /\ job'[w].hash = job[w].hash /\ job'[w].copy = job[w].copy
  BY <1>1, <1>4 DEF JobState
<1> QED
  BY <1>2, <1>3, <1>5

\* A job that ends forgets everything.
LEMMA JobEnds ==
  ASSUME job \in [Worker -> JobState], NEW w \in Worker, JobDone(w)
  PROVE  /\ job' \in [Worker -> JobState]
         /\ job'[w] = IdleJob
         /\ \A v \in Worker \ {w} : job'[v] = job[v]
BY IdleTypes DEF JobDone

\* A request that only moves on keeps what it has read.
LEMMA ReqMoves ==
  ASSUME req \in [Client -> ReqState], NEW c \in Client, NEW p \in ReqPC,
         ReqGoto(c, p)
  PROVE  /\ req' \in [Client -> ReqState]
         /\ req'[c].pc = p /\ req'[c].op = req[c].op /\ req'[c].hash = req[c].hash
         /\ req'[c].who = req[c].who /\ req'[c].copy = req[c].copy
         /\ \A d \in Client \ {c} : req'[d] = req[d]
<1>1. req[c] \in ReqState
  OBVIOUS
<1>2. [req[c] EXCEPT !.pc = p] \in ReqState
  BY <1>1 DEF ReqState
<1>3. req' = [req EXCEPT ![c] = [req[c] EXCEPT !.pc = p]]
  BY DEF ReqGoto
<1>4. req'[c] = [req[c] EXCEPT !.pc = p]
  BY <1>3
<1>5. /\ req'[c].pc = p /\ req'[c].op = req[c].op /\ req'[c].hash = req[c].hash
      /\ req'[c].who = req[c].who /\ req'[c].copy = req[c].copy
  BY <1>1, <1>4 DEF ReqState
<1> QED
  BY <1>2, <1>3, <1>5

\* A request that holds an entry is otherwise the same.
LEMMA ReqHolds ==
  ASSUME req \in [Client -> ReqState], NEW c \in Client, NEW p \in ReqPC,
         NEW e \in Entry, Hold(c, p, e)
  PROVE  /\ req' \in [Client -> ReqState]
         /\ req'[c].pc = p /\ req'[c].op = req[c].op /\ req'[c].hash = req[c].hash
         /\ req'[c].who = req[c].who /\ req'[c].copy = e
         /\ \A d \in Client \ {c} : req'[d] = req[d]
<1> DEFINE q == [req[c] EXCEPT !.pc = p, !.copy = e]
<1>1. req[c] \in ReqState
  OBVIOUS
<1>2. q \in ReqState
  BY <1>1 DEF ReqState
<1>3. req' = [req EXCEPT ![c] = q]
  BY DEF Hold
<1>4. req'[c] = q
  BY <1>3
<1>5. /\ q.pc = p /\ q.op = req[c].op /\ q.hash = req[c].hash
      /\ q.who = req[c].who /\ q.copy = e
  BY <1>1 DEF ReqState
<1> QED
  BY <1>2, <1>3, <1>4, <1>5

\* Neither turns a request into another.
LEMMA SameRequest ==
  ASSUME req \in [Client -> ReqState], NEW c \in Client, NEW p, NEW e,
         ReqGoto(c, p) \/ Hold(c, p, e)
  PROVE  /\ req'[c].hash = req[c].hash /\ req'[c].pc = p
         /\ \A d \in Client \ {c} : req'[d] = req[d]
<1>1. req[c] \in ReqState
  OBVIOUS
<1>2. CASE ReqGoto(c, p)
  BY <1>1, <1>2 DEF ReqGoto, ReqState
<1>3. CASE Hold(c, p, e)
  BY <1>1, <1>3 DEF Hold, ReqState
<1> QED
  BY <1>2, <1>3

\* A request that ends forgets everything.
LEMMA ReqEnds ==
  ASSUME req \in [Client -> ReqState], NEW c \in Client, ReqDone(c)
  PROVE  /\ req' \in [Client -> ReqState]
         /\ req'[c] = IdleReq
         /\ \A d \in Client \ {c} : req'[d] = req[d]
BY IdleTypes DEF ReqDone

-----------------------------------------------------------------------------
(* Typing.                                                                 *)

\* Nothing is cached, queued or locked at the start.
LEMMA TypeInit == Init => TypeOK
<1>1. IdleJob.pc = "idle" /\ IdleReq.pc = "idle" /\ IdleReq.op = "none"
  BY DEF IdleJob, IdleReq
<1> QED
  BY <1>1, NoEntryType, IdleTypes DEF Init, TypeOK

\* get_or_retrieve and save_answer keep the types.
LEMMA JobStepTyped ==
  ASSUME TypeOK, NEW w \in Worker, JobStep(w)
  PROVE  TypeOK'
<1>1. job[w] \in JobState
  BY DEF TypeOK
<1>2. CASE Lookup(w)
  <2>1. CASE JobDone(w)
    BY <1>2, <2>1, JobEnds DEF Lookup, TypeOK, IdleJob
  <2>2. CASE JobGoto(w, "create") \/ JobGoto(w, "answer")
    BY <1>2, <2>2, JobMoves DEF Lookup, TypeOK, JobAt, JobPC
  <2> QED
    BY <1>2, <2>1, <2>2 DEF Lookup
<1>3. CASE Create(w)
  <2>1. PICK s \in Decision :
          /\ entry' = [entry EXCEPT ![job[w].hash] = [NoEntry EXCEPT !.status = s]]
          /\ JobGoto(w, IF s = "pending_review" THEN "enqueue" ELSE "answer")
    BY <1>3 DEF Create
  <2>2. [NoEntry EXCEPT !.status = s] \in Entry
    BY DEF NoEntry, Entry, Decision, Status
  <2>3. entry' \in [Hash -> Entry]
    BY <2>1, <2>2 DEF TypeOK
  <2>4. CASE s = "pending_review"
    BY <1>3, <2>1, <2>3, <2>4, JobMoves DEF Create, TypeOK, JobAt, JobPC
  <2>5. CASE s # "pending_review"
    BY <1>3, <2>1, <2>3, <2>5, JobMoves DEF Create, TypeOK, JobAt, JobPC
  <2> QED
    BY <2>4, <2>5
<1>4. CASE Enqueue(w)
  BY <1>4, JobMoves DEF Enqueue, TypeOK, JobAt, JobPC
<1>5. CASE ReadForAnswer(w)
  <2> DEFINE e == entry[job[w].hash]
  <2>1. CASE JobDone(w)
    BY <1>5, <2>1, JobEnds DEF ReadForAnswer, TypeOK, IdleJob
  <2>2. CASE job' = [job EXCEPT ![w].pc = "save", ![w].copy = [e EXCEPT !.answered = TRUE]]
    <3>1. job[w].hash \in Hash /\ e \in Entry
      BY <1>5, <1>1 DEF ReadForAnswer, TypeOK, JobAt
    <3>2. [e EXCEPT !.answered = TRUE] \in Entry
      BY <3>1 DEF Entry
    <3>3. [job[w] EXCEPT !.pc = "save", !.copy = [e EXCEPT !.answered = TRUE]] \in JobState
      BY <1>1, <3>2 DEF JobState, JobPC
    <3>4. [job[w] EXCEPT !.pc = "save", !.copy = [e EXCEPT !.answered = TRUE]].hash = job[w].hash
      BY <1>1 DEF JobState
    <3> QED
      BY <1>5, <2>2, <3>1, <3>3, <3>4 DEF ReadForAnswer, TypeOK
  <2> QED
    BY <1>5, <2>1, <2>2 DEF ReadForAnswer
<1>6. CASE SaveAnswer(w)
  BY <1>1, <1>6, JobEnds DEF SaveAnswer, TypeOK, JobState, JobAt, IdleJob
<1> QED
  BY <1>2, <1>3, <1>4, <1>5, <1>6 DEF JobStep

\* The steps of approve, reject, delete and list requests keep the types.
LEMMA ClientStepTyped ==
  ASSUME TypeOK, NEW c \in Client, ClientStep(c)
  PROVE  TypeOK'
<1> DEFINE h == req[c].hash
<1> DEFINE e == entry[h]
<1>1. req[c] \in ReqState
  BY DEF TypeOK
<1>2. CASE AcquireLock(c)
  <2>1. h \in Hash
    BY <1>2 DEF AcquireLock, ReqAt, TypeOK
  <2>2. CASE lock' = [lock EXCEPT ![h] = c] /\ ReqGoto(c, "check")
    BY <1>2, <2>1, <2>2, ReqMoves DEF AcquireLock, TypeOK, ReqPC
  <2>3. CASE ReqDone(c) /\ UNCHANGED lock
    BY <1>2, <2>3, ReqEnds DEF AcquireLock, TypeOK, IdleReq
  <2> QED
    BY <1>2, <2>2, <2>3 DEF AcquireLock
<1>3. CASE ApproveCheck(c)
  <2>1. h \in Hash /\ e \in Entry /\ req[c].who \in Reviewer
    BY <1>3 DEF ApproveCheck, ReqAt, TypeOK
  <2>2. ASSUME NEW p \in {"release", "cleanup"}, ReqGoto(c, p)
        PROVE TypeOK'
    BY <1>3, <2>1, <2>2, ReqMoves DEF ApproveCheck, TypeOK, ReqPC
  <2>3. CASE Endorse(c, e)
    <3> DEFINE by == e.approvedBy \cup {req[c].who}
    <3>1. by \in SUBSET Reviewer
      BY <2>1 DEF Entry
    <3>2. PICK p \in {"dequeue", "reread"}, s \in {"approved", "pending_review"} :
            Hold(c, p, [status |-> s, approvedBy |-> by, answered |-> FALSE])
      BY <2>3 DEF Endorse
    <3>3. [status |-> s, approvedBy |-> by, answered |-> FALSE] \in Entry
      BY <3>1 DEF Entry, Status
    <3> HIDE DEF by
    <3> QED
      BY <1>3, <2>1, <3>2, <3>3, ReqHolds DEF ApproveCheck, TypeOK, ReqPC, Status
  <2> QED
    BY <1>3, <2>2, <2>3 DEF ApproveCheck, Status
<1>4. CASE RejectCheck(c)
  <2>1. CASE ReqGoto(c, "release") \/ ReqGoto(c, "cleanup")
    BY <1>4, <2>1, ReqMoves DEF RejectCheck, ReqAt, TypeOK, ReqPC
  <2>2. CASE Hold(c, "reread", [NoEntry EXCEPT !.status = "rejected"])
    <3> DEFINE x == [NoEntry EXCEPT !.status = "rejected"]
    <3>1. x \in Entry /\ x.status \in Status
      BY DEF NoEntry, Entry, Status
    <3> HIDE DEF x
    <3>2. Hold(c, "reread", x)
      BY <2>2 DEF x
    <3> QED
      BY <1>4, <3>1, <3>2, ReqHolds DEF RejectCheck, ReqAt, TypeOK, ReqPC
  <2> QED
    BY <1>4, <2>1, <2>2 DEF RejectCheck
<1>5. CASE Dequeue(c)
  BY <1>5, ReqMoves DEF Dequeue, ReqAt, TypeOK, ReqPC
<1>6. CASE Reread(c)
  <2>1. h \in Hash /\ e \in Entry /\ req[c].copy.status \in Status
    BY <1>6 DEF Reread, ReqAt, TypeOK
  <2>3. ASSUME NEW p \in {"release", "cleanup"}, ReqGoto(c, p)
        PROVE TypeOK'
    BY <1>6, <2>1, <2>3, ReqMoves DEF Reread, TypeOK, ReqPC
  <2>4. CASE Hold(c, "ttl", Updated(c, e))
    <3>1. Updated(c, e) \in Entry /\ Updated(c, e).status \in Status
      BY <1>1, <2>1 DEF Updated, Entry, ReqState, Status
    <3> QED
      BY <1>6, <2>1, <2>4, <3>1, ReqHolds DEF Reread, TypeOK, ReqPC
  <2> QED
    BY <1>6, <2>1, <2>3, <2>4 DEF Reread, UpdateSkipped, UpdateRefused, Status
<1>7. CASE CheckTtl(c)
  <2>1. h \in Hash /\ req[c].copy.status \in Status
    BY <1>7 DEF CheckTtl, ReqAt, TypeOK
  <2>2. ASSUME NEW p \in {"write", "release", "cleanup"}, ReqGoto(c, p)
        PROVE TypeOK'
    BY <1>7, <2>1, <2>2, ReqMoves DEF CheckTtl, TypeOK, ReqPC
  <2> QED
    BY <1>7, <2>2 DEF CheckTtl, UpdateSkipped
<1>8. CASE WriteStatus(c)
  <2>1. /\ h \in Hash /\ req[c].copy \in Entry /\ req[c].copy.status \in Status
        /\ entry' \in [Hash -> Entry]
    BY <1>1, <1>8 DEF WriteStatus, ReqAt, TypeOK, ReqState
  <2>2. CASE ReqGoto(c, "release")
    BY <1>8, <2>1, <2>2, ReqMoves DEF WriteStatus, TypeOK, ReqPC
  <2>3. CASE ReqGoto(c, "cleanup")
    BY <1>8, <2>1, <2>3, ReqMoves DEF WriteStatus, TypeOK, ReqPC
  <2> QED
    BY <1>8, <2>2, <2>3 DEF WriteStatus
<1>9. CASE Cleanup(c)
  BY <1>9, ReqMoves DEF Cleanup, ReqAt, TypeOK, ReqPC
<1>10. CASE ReleaseLock(c) \/ Forget(c)
  BY <1>10, ReqEnds DEF ReleaseLock, Forget, TypeOK, IdleReq
<1>11. CASE Fetch(c) \/ Sweep(c)
  <2>1. CASE ReqDone(c)
    BY <1>11, <2>1, ReqEnds DEF Fetch, Sweep, TypeOK, IdleReq
  <2>2. CASE Fetch(c)
    BY <1>1, <2>2 DEF Fetch, ReqAt, TypeOK, ReqState, ReqPC
  <2>3. CASE \E g \in req[c].batch :
               /\ queue' = queue \ {g}
               /\ req' = [req EXCEPT ![c].batch = req[c].batch \ {g}]
    BY <1>1, <1>11, <2>2, <2>3 DEF Fetch, Sweep, ReqAt, TypeOK, ReqState
  <2> QED
    BY <1>11, <2>1, <2>2, <2>3 DEF Sweep
<1> QED
  BY <1>2, <1>3, <1>4, <1>5, <1>6, <1>7, <1>8, <1>9, <1>10, <1>11 DEF ClientStep

\* So do the steps that start a request or end it early.
LEMMA OtherStepTyped ==
  ASSUME TypeOK, NEW c \in Client,
         \/ List(c) \/ RequestFails(c) \/ Crash(c)
         \/ \E h \in Hash : Delete(c, h)
         \/ \E h \in Hash, r \in Reviewer, op \in {"approve", "reject"} :
              StartReview(c, h, r, op)
  PROVE  TypeOK'
<1>1. CASE List(c)
  <2>1. PICK S \in SUBSET queue :
          req' = [req EXCEPT ![c] = [IdleReq EXCEPT !.pc = "fetch", !.op = "list",
                                                    !.batch = S]]
    BY <1>1 DEF List, Page
  <2>2. /\ [IdleReq EXCEPT !.pc = "fetch", !.op = "list", !.batch = S] \in ReqState
        /\ [IdleReq EXCEPT !.pc = "fetch", !.op = "list", !.batch = S].pc = "fetch"
        /\ [IdleReq EXCEPT !.pc = "fetch", !.op = "list", !.batch = S].op = "list"
    BY NoEntryType DEF IdleReq, ReqState, ReqPC, TypeOK
  <2> QED
    BY <1>1, <2>1, <2>2 DEF List, TypeOK
<1>2. CASE RequestFails(c)
  <2>1. CASE ReqGoto(c, "release") /\ Critical(c, req[c].hash)
    BY <1>2, <2>1, ReqMoves DEF RequestFails, Critical, TypeOK, ReqPC
  <2>2. CASE ReqDone(c)
    BY <1>2, <2>2, ReqEnds DEF RequestFails, TypeOK, IdleReq
  <2> QED
    BY <1>2, <2>1, <2>2 DEF RequestFails
<1>3. CASE Crash(c)
  BY <1>3, ReqEnds DEF Crash, TypeOK, IdleReq
<1>4. ASSUME NEW h \in Hash, Delete(c, h) PROVE TypeOK'
  <2> DEFINE q == [IdleReq EXCEPT !.pc = "forget", !.op = "delete", !.hash = h]
  <2>1. q \in ReqState /\ q.pc = "forget" /\ q.op = "delete" /\ q.hash = h
    BY NoEntryType DEF IdleReq, ReqState, ReqPC
  <2>2. req' = [req EXCEPT ![c] = q] /\ entry' \in [Hash -> Entry]
    BY <1>4, NoEntryType DEF Delete, TypeOK
  <2> HIDE DEF q
  <2>3. req' \in [Client -> ReqState] /\ UNCHANGED <<queue, lock, job>>
    BY <1>4, <2>1, <2>2 DEF Delete, TypeOK
  <2>4. req'[c] = q /\ \A d \in Client \ {c} : req'[d] = req[d]
    BY <2>2 DEF TypeOK
  <2> QED
    BY <2>1, <2>2, <2>3, <2>4 DEF TypeOK
<1>5. ASSUME NEW h \in Hash, NEW r \in Reviewer, NEW op \in {"approve", "reject"},
             StartReview(c, h, r, op)
      PROVE TypeOK'
  <2> DEFINE q ==
        [IdleReq EXCEPT !.pc = "lock", !.op = op, !.hash = h,
                        !.who = IF op = "approve" THEN r ELSE None]
  <2>1. q \in ReqState /\ q.pc = "lock" /\ q.hash = h /\ (q.op = "approve" => q.who \in Reviewer)
    BY NoEntryType DEF IdleReq, ReqState, ReqPC
  <2>2. req' = [req EXCEPT ![c] = q]
    BY <1>5 DEF StartReview
  <2> HIDE DEF q
  <2> QED
    BY ZenonT(60), <1>5, <2>1, <2>2 DEF StartReview, TypeOK
<1> QED
  BY <1>1, <1>2, <1>3, <1>4, <1>5

\* Hence every step keeps them.
LEMMA TypeStep ==
  ASSUME TypeOK, [Next]_vars
  PROVE  TypeOK'
<1>1. ASSUME NEW w \in Worker, AbandonJob(w) PROVE TypeOK'
  BY <1>1, JobEnds DEF AbandonJob, TypeOK, IdleJob
<1>2. ASSUME NEW w \in Worker, NEW h \in Hash, StartJob(w, h) PROVE TypeOK'
  <2>1. job[w] \in JobState
    BY DEF TypeOK
  <2>2. /\ [job[w] EXCEPT !.pc = "lookup", !.hash = h] \in JobState
        /\ [job[w] EXCEPT !.pc = "lookup", !.hash = h].hash = h
    BY <2>1 DEF JobState, JobPC
  <2> QED
    BY <1>2, <2>2 DEF StartJob, TypeOK
<1>3. ASSUME NEW h \in Hash, Expire(h) \/ LockExpire(h) PROVE TypeOK'
  BY <1>3, NoEntryType DEF Expire, LockExpire, TypeOK
<1>4. CASE UNCHANGED vars
  BY <1>4 DEF vars, TypeOK
<1> QED
  BY <1>1, <1>2, <1>3, <1>4, JobStepTyped, ClientStepTyped, OtherStepTyped DEF Next

\* Every variable keeps its type, and a job or request in the middle of its work
\* names a hash, a reviewer and a status to write (service.py, review.py).
THEOREM Typing == Spec => []TypeOK
<1>1. TypeOK /\ [Next]_vars => TypeOK'
  BY TypeStep
<1> QED
  BY <1>1, TypeInit, PTL DEF Spec

-----------------------------------------------------------------------------
(* What is stored, and what is on its way to the store, is sound.          *)

\* An entry without approvals is sound when it is not approved by hand.
LEMMA NoApprovals ==
  ASSUME NEW e \in Entry, e.approvedBy = {}, ~e.answered,
         e.status = "approved" => AutoApprove
  PROVE  VerdictOf(e) /\ Published(e)
BY FS_EmptySet, ThresholdAssumption DEF VerdictOf, Published

\* A missing entry is sound.
LEMMA NoEntrySound == VerdictOf(NoEntry) /\ Published(NoEntry)
BY NoEntryType, NoApprovals DEF NoEntry

\* Idle jobs and requests hold no copy.
LEMMA IdleSound ==
  /\ IdleJob.copy = NoEntry /\ IdleReq.copy = NoEntry /\ IdleReq.pc = "idle"
BY DEF IdleJob, IdleReq

\* Nothing is stored or held at the start.
LEMMA SoundInit == Init => CopiesSound
BY NoEntrySound, IdleSound DEF Init, CopiesSound, ReqAt

\* A job stores what it has just built, or a copy of an approved entry.
LEMMA SoundJobStep ==
  ASSUME TypeOK, CopiesSound, NEW w \in Worker, JobStep(w)
  PROVE  CopiesSound'
<1> USE DEF VerdictOf, Published
<1>1. CASE Lookup(w) \/ Enqueue(w)
  <2>1. CASE JobDone(w)
    BY <1>1, <2>1, JobEnds, NoEntrySound, IdleSound
    DEF Lookup, Enqueue, TypeOK, CopiesSound, ReqAt
  <2>2. ASSUME NEW p \in JobPC, JobGoto(w, p) PROVE CopiesSound'
    BY <1>1, <2>2, JobMoves DEF Lookup, Enqueue, TypeOK, CopiesSound, ReqAt
  <2> QED
    BY <1>1, <2>1, <2>2 DEF Lookup, Enqueue, JobPC
<1>2. CASE Create(w)
  <2>1. PICK s \in Decision, p \in JobPC :
          /\ entry' = [entry EXCEPT ![job[w].hash] = [NoEntry EXCEPT !.status = s]]
          /\ JobGoto(w, p)
    BY <1>2 DEF Create, JobPC
  <2> DEFINE x == [NoEntry EXCEPT !.status = s]
  <2>2. /\ x \in Entry /\ x.approvedBy = {} /\ ~x.answered
        /\ x.status = "approved" => AutoApprove
    BY DEF NoEntry, Entry, Decision, Status
  <2>3. VerdictOf(x) /\ Published(x)
    BY <2>2, NoApprovals
  <2> HIDE DEF x
  <2>4. entry' = [entry EXCEPT ![job[w].hash] = x]
    BY <2>1 DEF x
  <2>5. \A g \in Hash : VerdictOf(entry'[g]) /\ Published(entry'[g])
    BY <2>3, <2>4 DEF TypeOK, CopiesSound
  <2>6. \A v \in Worker : job'[v].copy = job[v].copy
    BY <2>1, JobMoves DEF TypeOK
  <2> QED
    BY <1>2, <2>5, <2>6 DEF Create, CopiesSound, ReqAt
<1>3. CASE ReadForAnswer(w)
  <2> DEFINE e == entry[job[w].hash]
  <2> DEFINE x == [e EXCEPT !.answered = TRUE]
  <2>1. CASE JobDone(w)
    BY <1>3, <2>1, JobEnds, NoEntrySound, IdleSound
    DEF ReadForAnswer, TypeOK, CopiesSound, ReqAt
  <2>2. CASE Savable(e) /\ job' = [job EXCEPT ![w].pc = "save", ![w].copy = x]
    <3>1. job[w].hash \in Hash /\ e \in Entry
      BY <1>3 DEF ReadForAnswer, TypeOK, JobAt
    <3>2. x.approvedBy = e.approvedBy /\ x.status = e.status /\ e.status = "approved"
      BY <2>2, <3>1 DEF Entry, Savable
    <3>3. VerdictOf(x) /\ Published(x)
      BY <3>1, <3>2 DEF CopiesSound
    <3>4. job'[w].copy = x /\ \A v \in Worker \ {w} : job'[v] = job[v]
      BY <2>2 DEF TypeOK, JobState
    <3> HIDE DEF x
    <3> QED
      BY <1>3, <3>3, <3>4 DEF ReadForAnswer, CopiesSound, ReqAt
  <2> QED
    BY <1>3, <2>1, <2>2 DEF ReadForAnswer
<1>4. CASE SaveAnswer(w)
  BY <1>4, JobEnds, NoEntrySound, IdleSound DEF SaveAnswer, TypeOK, CopiesSound, ReqAt
<1> QED
  BY <1>1, <1>2, <1>3, <1>4 DEF JobStep

\* The heart of the argument: what an approval holds is decided by the
\* approvals it holds, and what a rejection re-reads is never approved.
LEMMA SoundClientStep ==
  ASSUME TypeOK, CopiesSound, NEW c \in Client, ClientStep(c)
  PROVE  CopiesSound'
<1> DEFINE h == req[c].hash
<1> DEFINE e == entry[h]
<1> USE DEF VerdictOf, Published
<1>1. ASSUME NEW p \in ReqPC \ {"dequeue", "reread"}, UNCHANGED <<entry, job>>,
             ReqGoto(c, p) \/ ReqDone(c)
      PROVE CopiesSound'
  <2>1. CASE ReqGoto(c, p)
    BY <1>1, <2>1, ReqMoves DEF TypeOK, CopiesSound, ReqAt
  <2>2. CASE ReqDone(c)
    BY <1>1, <2>2, ReqEnds, NoEntrySound, IdleSound DEF TypeOK, CopiesSound, ReqAt
  <2> QED
    BY <1>1, <2>1, <2>2
<1>2. CASE AcquireLock(c) \/ Cleanup(c) \/ ReleaseLock(c) \/ Forget(c)
  BY <1>1, <1>2 DEF AcquireLock, Cleanup, ReleaseLock, Forget, ReqPC
<1>3. CASE ApproveCheck(c)
  <2>1. h \in Hash /\ e \in Entry /\ req[c].op = "approve"
    BY <1>3 DEF ApproveCheck, ReqAt, TypeOK
  <2>2. CASE Endorse(c, e)
    <3> DEFINE by == e.approvedBy \cup {req[c].who}
    <3>1. PICK p \in {"dequeue", "reread"}, s \in {"approved", "pending_review"} :
            /\ Hold(c, p, [status |-> s, approvedBy |-> by, answered |-> FALSE])
            /\ s = "approved" <=> Enough(by)
      BY <2>2 DEF Endorse
    <3> DEFINE x == [status |-> s, approvedBy |-> by, answered |-> FALSE]
    <3>2. x \in Entry
      BY <1>3, <2>1 DEF ApproveCheck, ReqAt, TypeOK, Entry, Status
    <3>3. VerdictOf(x) /\ Published(x)
      BY <3>1 DEF Enough
    <3> HIDE DEF x
    <3>4. Hold(c, p, x)
      BY <3>1 DEF x
    <3>5. /\ req'[c].pc = p /\ req'[c].copy = x /\ req'[c].op = req[c].op
          /\ \A d \in Client \ {c} : req'[d] = req[d]
      BY <3>1, <3>2, <3>4, ReqHolds DEF TypeOK, ReqPC
    <3> QED
      BY <1>3, <2>1, <3>1, <3>2, <3>3, <3>5 DEF ApproveCheck, CopiesSound, ReqAt
  <2> QED
    BY <1>1, <1>3, <2>1, <2>2 DEF ApproveCheck, ReqPC, Status
<1>4. CASE RejectCheck(c)
  <2>1. CASE Hold(c, "reread", [NoEntry EXCEPT !.status = "rejected"])
    <3> DEFINE x == [NoEntry EXCEPT !.status = "rejected"]
    <3>1. x \in Entry /\ x.approvedBy = {} /\ ~x.answered /\ x.status = "rejected"
      BY DEF NoEntry, Entry, Status
    <3>2. VerdictOf(x) /\ Published(x)
      BY <3>1, NoApprovals
    <3> HIDE DEF x
    <3>3. Hold(c, "reread", x)
      BY <2>1 DEF x
    <3>4. /\ req'[c].pc = "reread" /\ req'[c].copy = x
          /\ \A d \in Client \ {c} : req'[d] = req[d]
      BY <3>1, <3>3, ReqHolds DEF TypeOK, ReqPC
    <3> QED
      BY <1>4, <3>1, <3>2, <3>4 DEF RejectCheck, CopiesSound, ReqAt
  <2> QED
    BY <1>1, <1>4, <2>1 DEF RejectCheck, ReqPC
<1>5. CASE Dequeue(c)
  BY <1>5, ReqMoves DEF Dequeue, TypeOK, CopiesSound, ReqAt, ReqPC
<1>6. CASE Reread(c)
  <2>1. h \in Hash /\ e \in Entry /\ req[c] \in ReqState /\ req[c].copy.status \in Status
    BY <1>6 DEF Reread, ReqAt, TypeOK
  <2>2. CASE Hold(c, "ttl", Updated(c, e)) /\ ValidTransition(e.status, req[c].copy.status)
    <3> DEFINE x == Updated(c, e)
    <3>0. VerdictOf(e) /\ VerdictOf(req[c].copy)
      BY <2>1 DEF CopiesSound
    <3>1. x \in Entry /\ x.status = req[c].copy.status /\ x.answered = e.answered
      BY <2>1 DEF Updated, Entry, ReqState
    <3>2. x.approvedBy = IF req[c].op = "approve" THEN req[c].copy.approvedBy
                                                  ELSE e.approvedBy
      BY <2>1 DEF Updated, Entry
    <3>3. Published(x)
      BY <2>1, <2>2, <3>1 DEF ValidTransition, CopiesSound
    <3> HIDE DEF x, e, h
    <3>4. ASSUME req[c].op = "approve" PROVE VerdictOf(x)
      BY <3>0, <3>1, <3>2, <3>3, <3>4
    <3>5. ASSUME req[c].op # "approve" PROVE VerdictOf(x)
      <4>1. req[c].copy.status = "rejected"
        BY <1>6, <3>5 DEF Reread, CopiesSound
      <4>2. e.status # "approved"
        BY <2>2, <4>1 DEF ValidTransition
      <4> QED
        BY <3>0, <3>1, <3>2, <3>3, <3>5, <4>1, <4>2
    <3>6. VerdictOf(x) /\ Published(x)
      BY <3>3, <3>4, <3>5
    <3>7. /\ req'[c].pc = "ttl" /\ req'[c].copy = x
          /\ \A d \in Client \ {c} : req'[d] = req[d]
      BY <2>2, <3>1, ReqHolds DEF TypeOK, ReqPC, x
    <3> QED
      BY <1>6, <3>1, <3>6, <3>7 DEF Reread, CopiesSound, ReqAt
  <2> QED
    BY <1>1, <1>6, <2>1, <2>2 DEF Reread, UpdateSkipped, UpdateRefused, ReqPC, Status
<1>7. CASE CheckTtl(c)
  <2>1. req[c].copy.status \in Status
    BY <1>7 DEF CheckTtl, ReqAt, TypeOK
  <2> QED
    BY <1>1, <1>7, <2>1 DEF CheckTtl, UpdateSkipped, ReqPC
<1>8. CASE WriteStatus(c)
  <2>1. entry' = [entry EXCEPT ![h] = req[c].copy] /\ req[c].copy.status \in Status
    BY <1>8 DEF WriteStatus, ReqAt, TypeOK
  <2>2. CASE ReqGoto(c, "release")
    BY <1>8, <2>1, <2>2, ReqMoves DEF WriteStatus, TypeOK, CopiesSound, ReqAt, ReqPC
  <2>3. CASE ReqGoto(c, "cleanup")
    BY <1>8, <2>1, <2>3, ReqMoves DEF WriteStatus, TypeOK, CopiesSound, ReqAt, ReqPC
  <2> QED
    BY <1>8, <2>2, <2>3 DEF WriteStatus
<1>9. CASE Fetch(c) \/ Sweep(c)
  <2>1. CASE ReqDone(c)
    BY <1>1, <1>9, <2>1 DEF Fetch, Sweep, ReqPC
  <2>2. ASSUME NEW B, req' = [req EXCEPT ![c].batch = B], ReqAt(c, "sweep")
        PROVE /\ req'[c].copy = req[c].copy /\ req'[c].pc = "sweep"
              /\ \A d \in Client \ {c} : req'[d] = req[d]
    BY <2>2 DEF TypeOK, ReqAt, ReqState
  <2>3. ASSUME NEW B, req' = [req EXCEPT ![c].pc = "sweep", ![c].batch = B]
        PROVE /\ req'[c].copy = req[c].copy /\ req'[c].pc = "sweep"
              /\ \A d \in Client \ {c} : req'[d] = req[d]
    BY <2>3 DEF TypeOK, ReqState
  <2>4. CASE UNCHANGED req
    BY <1>9, <2>4 DEF Fetch, Sweep, CopiesSound, ReqAt
  <2> QED
    BY <1>9, <2>1, <2>2, <2>3 DEF Fetch, Sweep, CopiesSound, ReqAt
<1> QED
  BY <1>2, <1>3, <1>4, <1>5, <1>6, <1>7, <1>8, <1>9 DEF ClientStep

\* Starting a request, or ending it early, holds nothing and stores nothing.
LEMMA SoundOtherStep ==
  ASSUME TypeOK, CopiesSound, NEW c \in Client,
         \/ List(c) \/ RequestFails(c) \/ Crash(c)
         \/ \E h \in Hash : Delete(c, h)
         \/ \E h \in Hash, r \in Reviewer, op \in {"approve", "reject"} :
              StartReview(c, h, r, op)
  PROVE  CopiesSound'
<1> USE DEF VerdictOf, Published
<1> DEFINE Fresh(q) == q.copy = NoEntry /\ q.pc \notin {"dequeue", "reread"}
<1>1. ASSUME UNCHANGED job, \A h \in Hash : entry'[h] \in {entry[h], NoEntry},
             NEW q, Fresh(q), req' = [req EXCEPT ![c] = q]
      PROVE CopiesSound'
  <2>1. req'[c] = q /\ \A d \in Client \ {c} : req'[d] = req[d]
    BY <1>1 DEF TypeOK
  <2> QED
    BY <1>1, <2>1, NoEntrySound DEF CopiesSound, ReqAt
<1>2. Fresh(IdleReq)
  BY DEF IdleReq
<1>3. CASE RequestFails(c)
  <2>1. CASE ReqGoto(c, "release")
    BY <1>3, <2>1, ReqMoves DEF RequestFails, TypeOK, CopiesSound, ReqAt, ReqPC
  <2>2. CASE ReqDone(c)
    BY <1>1, <1>2, <1>3, <2>2 DEF RequestFails, ReqDone
  <2> QED
    BY <1>3, <2>1, <2>2 DEF RequestFails
<1>4. CASE Crash(c)
  BY <1>1, <1>2, <1>4 DEF Crash, ReqDone
<1>5. CASE List(c)
  <2>1. PICK S : req' = [req EXCEPT ![c] = [IdleReq EXCEPT !.pc = "fetch", !.op = "list",
                                                           !.batch = S]]
    BY <1>5 DEF List
  <2> DEFINE q == [IdleReq EXCEPT !.pc = "fetch", !.op = "list", !.batch = S]
  <2>2. Fresh(q)
    BY DEF IdleReq
  <2> HIDE DEF q, Fresh
  <2>3. req' = [req EXCEPT ![c] = q]
    BY <2>1 DEF q
  <2> QED
    BY <1>1, <1>5, <2>2, <2>3 DEF List
<1>6. ASSUME NEW h \in Hash, Delete(c, h) PROVE CopiesSound'
  <2> DEFINE q == [IdleReq EXCEPT !.pc = "forget", !.op = "delete", !.hash = h]
  <2>1. Fresh(q)
    BY DEF IdleReq
  <2> HIDE DEF q, Fresh
  <2>2. req' = [req EXCEPT ![c] = q]
    BY <1>6 DEF Delete, q
  <2> QED
    BY <1>1, <1>6, <2>1, <2>2 DEF Delete, TypeOK
<1>7. ASSUME NEW h \in Hash, NEW r \in Reviewer, NEW op \in {"approve", "reject"},
             StartReview(c, h, r, op)
      PROVE CopiesSound'
  <2> DEFINE q ==
        [IdleReq EXCEPT !.pc = "lock", !.op = op, !.hash = h,
                        !.who = IF op = "approve" THEN r ELSE None]
  <2>1. Fresh(q)
    BY DEF IdleReq
  <2> HIDE DEF q, Fresh
  <2>2. req' = [req EXCEPT ![c] = q]
    BY <1>7 DEF StartReview, q
  <2> QED
    BY <1>1, <1>7, <2>1, <2>2 DEF StartReview
<1> QED
  BY <1>3, <1>4, <1>5, <1>6, <1>7

\* Hence every step keeps what is stored, and what is held, sound.
LEMMA SoundStep ==
  ASSUME TypeOK, CopiesSound, [Next]_vars
  PROVE  CopiesSound'
<1> USE DEF VerdictOf, Published
<1>1. ASSUME NEW w \in Worker, AbandonJob(w) PROVE CopiesSound'
  BY <1>1, JobEnds, NoEntrySound, IdleSound DEF AbandonJob, TypeOK, CopiesSound, ReqAt
<1>2. ASSUME NEW w \in Worker, NEW h \in Hash, StartJob(w, h) PROVE CopiesSound'
  <2>1. \A v \in Worker : job'[v].copy = job[v].copy
    BY <1>2 DEF StartJob, TypeOK, JobState
  <2> QED
    BY <1>2, <2>1 DEF StartJob, CopiesSound, ReqAt
<1>3. ASSUME NEW h \in Hash, Expire(h) \/ LockExpire(h) PROVE CopiesSound'
  BY <1>3, NoEntrySound DEF Expire, LockExpire, TypeOK, CopiesSound, ReqAt
<1>4. CASE UNCHANGED vars
  BY <1>4 DEF vars, CopiesSound, ReqAt
<1> QED
  BY <1>1, <1>2, <1>3, <1>4, SoundJobStep, SoundClientStep, SoundOtherStep DEF Next

\* Whatever interleaves, crashes, expires or outlives its lock, every entry and
\* every copy still to be written agrees with its own approvals and answer.
THEOREM Soundness == Spec => []CopiesSound
<1>1. TypeOK /\ CopiesSound /\ [Next]_vars => CopiesSound'
  BY SoundStep
<1> QED
  BY <1>1, SoundInit, Typing, PTL DEF Spec

-----------------------------------------------------------------------------
(* The bound of the pending queue.                                         *)

\* Only enqueue adds to the queue, one member, and only below the capacity.
LEMMA BoundStep ==
  ASSUME TypeOK, QueueBounded, [Next]_vars
  PROVE  QueueBounded'
<1>1. IsFiniteSet(queue) /\ Cardinality(queue) \in Nat
  BY FiniteAssumption, FS_Subset, FS_CardinalityType DEF TypeOK
<1>2. ASSUME queue' \subseteq queue PROVE QueueBounded'
  BY <1>1, <1>2, FS_Subset, FS_CardinalityType, CapAssumption DEF QueueBounded
<1>3. ASSUME NEW h \in Hash, HasRoom, queue' = queue \cup {h} PROVE QueueBounded'
  <2>1. IsFiniteSet(queue')
    BY <1>1, <1>3, FS_AddElement
  <2>2. Cardinality(queue') \in Nat
    BY <2>1, FS_CardinalityType
  <2>3. Cardinality(queue') = Cardinality(queue) \/ Cardinality(queue') = Cardinality(queue) + 1
    BY <1>1, <1>3, FS_AddElement
  <2> QED
    BY <1>1, <1>3, <2>2, <2>3, CapAssumption DEF HasRoom, QueueBounded
<1>4. ASSUME NEW w \in Worker, JobStep(w) PROVE QueueBounded'
  <2>1. CASE Enqueue(w)
    <3>1. job[w].hash \in Hash
      BY <2>1 DEF Enqueue, JobAt, TypeOK
    <3> QED
      BY <1>2, <1>3, <2>1, <3>1 DEF Enqueue
  <2> QED
    BY <1>2, <1>4, <2>1 DEF JobStep, Lookup, Create, ReadForAnswer, SaveAnswer
<1>5. ASSUME NEW c \in Client, ClientStep(c) PROVE queue' \subseteq queue
  BY <1>5 DEF ClientStep, AcquireLock, ApproveCheck, RejectCheck, Dequeue, Reread,
    CheckTtl, WriteStatus, Cleanup, ReleaseLock, Forget, Fetch, Sweep
<1>6. \/ \E w \in Worker : JobStep(w)
      \/ \E c \in Client : ClientStep(c)
      \/ UNCHANGED queue
  BY DEF Next, AbandonJob, StartJob, List, RequestFails, Crash, Delete, StartReview,
    Expire, LockExpire, vars
<1> QED
  BY <1>2, <1>4, <1>5, <1>6

\* The capacity check and the ZADD are one script, so no interleaving of jobs
\* overfills the queue.
THEOREM Bound == Spec => []QueueBounded
<1>1. Init => QueueBounded
  BY FS_EmptySet, CapAssumption DEF Init, QueueBounded
<1>2. TypeOK /\ QueueBounded /\ [Next]_vars => QueueBounded'
  BY BoundStep
<1> QED
  BY <1>1, <1>2, Typing, PTL DEF Spec

-----------------------------------------------------------------------------
(* The lock.                                                               *)

\* Only SET NX lets a request into its critical section, and only its own release
\* or the TTL takes the lock away from it: what holds of one request and one
\* lock goes on holding, whatever the others do.
LEMMA LockKept ==
  ASSUME TypeOK, [Next]_vars, NEW c \in Client, NEW h \in Hash,
         Critical(c, h) => lock[h] = c,
         Critical(c, h)',
         ~(Critical(c, h) /\ LockExpire(h))
  PROVE  lock'[h] = c
<1>0. req \in [Client -> ReqState] /\ lock \in [Hash -> Client \cup {None}]
  BY DEF TypeOK
<1>1. ASSUME Critical(c, h), lock[h] = c => lock'[h] = c
      PROVE  lock'[h] = c
  BY <1>1
<1>2. ASSUME req'[c] = req[c]
      PROVE  Critical(c, h)
  BY <1>2 DEF Critical
<1>3. ASSUME NEW d \in Client, ClientStep(d) PROVE lock'[h] = c
  <2>1. CASE AcquireLock(d)
    <3>1. CASE LockFree(req[d].hash) /\ lock' = [lock EXCEPT ![req[d].hash] = d]
               /\ ReqGoto(d, "check")
      <4>1. /\ req'[d].hash = req[d].hash
            /\ \A b \in Client \ {d} : req'[b] = req[b]
        BY <1>0, <3>1, ReqMoves DEF ReqPC
      <4>2. CASE d = c
        BY <1>0, <3>1, <4>1, <4>2 DEF Critical
      <4>3. CASE d # c
        <5>1. Critical(c, h) /\ lock[h] = c
          BY <1>2, <4>1, <4>3
        <5> QED
          BY <1>0, <3>1, <5>1, NoneAssumption DEF LockFree
      <4> QED
        BY <4>2, <4>3
    <3>2. CASE ReqDone(d) /\ UNCHANGED lock
      BY <1>0, <1>1, <1>2, <3>2, ReqEnds DEF Critical, IdleReq
    <3> QED
      BY <2>1, <3>1, <3>2 DEF AcquireLock
  <2>2. CASE ReleaseLock(d)
    <3>1. /\ req'[d] = IdleReq
          /\ \A b \in Client \ {d} : req'[b] = req[b]
      BY <1>0, <2>2, ReqEnds DEF ReleaseLock
    <3>2. lock[h] # d => lock'[h] = lock[h]
      BY <1>0, <2>2 DEF ReleaseLock, OwnsLock
    <3>3. d # c
      BY <3>1 DEF Critical, IdleReq
    <3> QED
      BY <1>1, <1>2, <3>1, <3>2, <3>3
  <2>3. CASE \/ ApproveCheck(d) \/ RejectCheck(d) \/ Dequeue(d) \/ Reread(d)
             \/ CheckTtl(d) \/ WriteStatus(d) \/ Cleanup(d)
    <3>1. PICK p, e : ReqGoto(d, p) \/ Hold(d, p, e)
      BY <2>3 DEF ApproveCheck, RejectCheck, Endorse, Dequeue, Reread, UpdateSkipped,
        UpdateRefused, CheckTtl, WriteStatus, Cleanup
    <3>2. Critical(d, req[d].hash) /\ UNCHANGED lock
      BY <2>3 DEF ApproveCheck, RejectCheck, Dequeue, Reread, CheckTtl, WriteStatus,
        Cleanup, ReqAt, Critical
    <3>3. /\ req'[d].hash = req[d].hash
          /\ \A b \in Client \ {d} : req'[b] = req[b]
      BY <1>0, <3>1, SameRequest
    <3> QED
      BY <1>1, <1>2, <3>2, <3>3 DEF Critical
  <2>4. CASE Forget(d) \/ Fetch(d) \/ Sweep(d)
    <3>1. UNCHANGED lock /\ \A b \in Client \ {d} : req'[b] = req[b]
      BY <2>4 DEF Forget, Fetch, Sweep, ReqDone, TypeOK
    <3>2. req'[d].pc \in {"idle", "sweep"}
      BY <2>4 DEF Forget, Fetch, Sweep, ReqAt, ReqDone, IdleReq, TypeOK, ReqState
    <3> QED
      BY <1>1, <1>2, <3>1, <3>2 DEF Critical
  <2> QED
    BY <1>3, <2>1, <2>2, <2>3, <2>4 DEF ClientStep
<1>4. ASSUME NEW d \in Client,
             \/ List(d) \/ RequestFails(d) \/ Crash(d)
             \/ \E g \in Hash : Delete(d, g)
             \/ \E g \in Hash, r \in Reviewer, op \in {"approve", "reject"} :
                  StartReview(d, g, r, op)
      PROVE lock'[h] = c
  <2>1. UNCHANGED lock
    BY <1>4 DEF List, RequestFails, Crash, Delete, StartReview
  <2>2. CASE ReqGoto(d, "release") /\ Critical(d, req[d].hash)
    BY <1>0, <1>1, <1>2, <2>1, <2>2, SameRequest DEF Critical
  <2>3. CASE ReqDone(d)
    BY <1>0, <1>1, <1>2, <2>1, <2>3, ReqEnds DEF Critical, IdleReq
  <2>4. ASSUME NEW q, req' = [req EXCEPT ![d] = q], q.pc \in {"lock", "fetch", "forget"}
        PROVE lock'[h] = c
    BY <1>0, <1>1, <1>2, <2>1, <2>4 DEF Critical
  <2>5. CASE List(d)
    <3>1. PICK S : req' = [req EXCEPT ![d] = [IdleReq EXCEPT !.pc = "fetch", !.op = "list",
                                                             !.batch = S]]
      BY <2>5 DEF List
    <3> DEFINE q == [IdleReq EXCEPT !.pc = "fetch", !.op = "list", !.batch = S]
    <3>2. q.pc = "fetch"
      BY DEF IdleReq
    <3> HIDE DEF q
    <3> QED
      BY <2>4, <3>1, <3>2 DEF q
  <2>6. ASSUME NEW g \in Hash, Delete(d, g) PROVE lock'[h] = c
    <3> DEFINE q == [IdleReq EXCEPT !.pc = "forget", !.op = "delete", !.hash = g]
    <3>1. q.pc = "forget"
      BY DEF IdleReq
    <3>2. req' = [req EXCEPT ![d] = q]
      BY <2>6 DEF Delete
    <3> HIDE DEF q
    <3> QED
      BY <2>4, <3>1, <3>2
  <2>7. ASSUME NEW g \in Hash, NEW r \in Reviewer, NEW op \in {"approve", "reject"},
               StartReview(d, g, r, op)
        PROVE lock'[h] = c
    <3> DEFINE q ==
          [IdleReq EXCEPT !.pc = "lock", !.op = op, !.hash = g,
                          !.who = IF op = "approve" THEN r ELSE None]
    <3>1. q.pc = "lock"
      BY DEF IdleReq
    <3>2. req' = [req EXCEPT ![d] = q]
      BY <2>7 DEF StartReview
    <3> HIDE DEF q
    <3> QED
      BY <2>4, <3>1, <3>2
  <2> QED
    BY <1>4, <2>2, <2>3, <2>5, <2>6, <2>7 DEF RequestFails, Crash
<1>5. ASSUME NEW g \in Hash, LockExpire(g) PROVE lock'[h] = c
  <2>1. UNCHANGED req /\ Critical(c, h) /\ g # h
    BY <1>2, <1>5 DEF LockExpire
  <2> QED
    BY <1>0, <1>1, <1>5, <2>1 DEF LockExpire
<1>6. CASE UNCHANGED <<lock, req>>
  BY <1>1, <1>2, <1>6
<1>7. \/ \E w \in Worker : JobStep(w) \/ AbandonJob(w) \/ \E g \in Hash : StartJob(w, g)
      \/ \E g \in Hash : Expire(g)
      \/ UNCHANGED vars
      => UNCHANGED <<lock, req>>
  BY DEF JobStep, Lookup, Create, Enqueue, ReadForAnswer, SaveAnswer, AbandonJob,
    StartJob, Expire, vars
<1> QED
  BY <1>3, <1>4, <1>5, <1>6, <1>7 DEF Next

\* Provided requests finish within the TTL of the lock, a request in the critical
\* section holds it, so there is one at a time for each entry.
THEOREM Exclusion ==
  ASSUME "slow_holder" \notin Faults
  PROVE  Spec => []MutualExclusion
<1>1. Init => MutualExclusion
  BY IdleSound DEF Init, MutualExclusion, Critical
<1>2. ASSUME TypeOK, MutualExclusion, [Next]_vars PROVE MutualExclusion'
  <2> SUFFICES ASSUME NEW c \in Client, NEW h \in Hash, Critical(c, h)'
               PROVE  lock'[h] = c
    BY DEF MutualExclusion
  <2>1. Critical(c, h) => lock[h] = c
    BY <1>2 DEF MutualExclusion
  <2>2. ~(Critical(c, h) /\ LockExpire(h))
    BY <2>1 DEF LockExpire, LockTimeout
  <2> QED
    BY <1>2, <2>1, <2>2, LockKept
<1> QED
  BY <1>1, <1>2, Typing, PTL DEF Spec

LEMMA HistoryStep == HistoryNext => Next /\ Remember
BY DEF HistoryNext, Next

\* The history variables change nothing: with them the cache does what it does
\* without.
LEMMA HistoryIsSpec == HistorySpec => Spec
<1>1. HistoryInit => Init
  BY DEF HistoryInit
<1>2. [HistoryNext]_allVars => [Next]_vars
  BY HistoryStep DEF allVars, vars
<1> QED
  BY <1>1, <1>2, PTL DEF HistorySpec, Spec

\* Under every fault, a request that has not outlived its own lock holds it: the
\* late release of a former holder takes it from nobody.
THEOREM Holding == HistorySpec => []HolderKeepsLock
<1>1. HistoryInit => HolderKeepsLock
  BY IdleSound DEF HistoryInit, Init, HolderKeepsLock, Critical
<1>2. ASSUME TypeOK, HolderKeepsLock, [HistoryNext]_allVars PROVE HolderKeepsLock'
  <2>1. CASE UNCHANGED allVars
    BY <1>2, <2>1 DEF allVars, HolderKeepsLock, Critical
  <2>2. CASE HistoryNext
    <3> SUFFICES ASSUME NEW c \in Client, NEW h \in Hash, Critical(c, h)', c \notin late'
                 PROVE  lock'[h] = c
      BY DEF HolderKeepsLock
    <3>1. ~ReqAt(c, "idle")'
      BY DEF Critical, ReqAt
    <3>2. /\ c \notin late
          /\ ~(Critical(c, h) /\ lock[h] = c /\ LockExpire(h))
      BY <2>2, <3>1, HistoryStep DEF Remember
    <3>3. Critical(c, h) => lock[h] = c
      BY <1>2, <3>2 DEF HolderKeepsLock
    <3> QED
      BY <1>2, <2>2, <3>2, <3>3, LockKept, HistoryStep
  <2> QED
    BY <1>2, <2>1, <2>2
<1>3. HistorySpec => []TypeOK
  BY HistoryIsSpec, Typing, PTL
<1> QED
  BY <1>1, <1>2, <1>3, PTL DEF HistorySpec

-----------------------------------------------------------------------------
(* The entries implement the review life cycle, when one job at a time     *)
(* creates entries, keys outlive the review and requests finish within the *)
(* TTL of the lock.                                                        *)

Orderly ==
  /\ \A v, w \in Worker : v = w
  /\ "expiry" \notin Faults /\ "slow_holder" \notin Faults
  /\ "delete" \notin Ops

Final(s) == s \in {"approved", "rejected"}

\* What a review that holds the lock of entry e relies on: its copy is e with one
\* more approval, or with a rejection, and what it is about to write is allowed.
Reviewing(r, e) ==
  /\ r.pc # "forget"
  /\ r.pc \in {"lock", "check", "dequeue", "reread", "ttl", "write", "cleanup"} =>
       r.op \in {"approve", "reject"}
  /\ r.op = "approve" /\ r.pc \in {"dequeue", "reread", "ttl", "write"} =>
       /\ e.status \in {"pending_review", "rejected"}
       /\ r.who \notin e.approvedBy
       /\ r.copy.approvedBy = e.approvedBy \cup {r.who}
       /\ r.copy.status = IF Enough(r.copy.approvedBy) THEN "approved" ELSE "pending_review"
  /\ r.op = "reject" /\ r.pc \in {"reread", "ttl", "write"} =>
       e.status = "pending_review" /\ r.copy.status = "rejected"
  /\ r.pc \in {"ttl", "write"} =>
       /\ e.status = "pending_review"
       /\ r.op = "reject" => r.copy.approvedBy = e.approvedBy
  /\ r.pc = "dequeue" => r.op = "approve" /\ r.copy.status = "approved"
  /\ r.pc = "cleanup" => Final(e.status)

\* What a job that creates entry e, or saves an answer in it, relies on.
Saving(j, e) ==
  /\ j.pc = "create" => e.status = "absent"
  /\ j.pc = "save" => /\ e.status = "approved" /\ j.copy.status = "approved"
                      /\ j.copy.approvedBy = e.approvedBy

LifeInv ==
  /\ \A h \in Hash : entry[h].status = "absent" => entry[h].approvedBy = {}
  /\ \A w \in Worker : Saving(job[w], entry[job[w].hash])
  /\ \A c \in Client : Reviewing(req[c], entry[req[c].hash])
  /\ \A c \in Client : ReqAt(c, "sweep") => \A h \in req[c].batch : Final(entry[h].status)

\* A job creates an entry that nobody has.
LEMMA CreateEffect ==
  ASSUME TypeOK, LifeInv, NEW w \in Worker, Create(w)
  PROVE  LET h == job[w].hash IN
         /\ h \in Hash
         /\ entry[h].status = "absent" /\ entry[h].approvedBy = {}
         /\ entry'[h].status \in Decision /\ entry'[h].approvedBy = {}
         /\ \A g \in Hash \ {h} : entry'[g] = entry[g]
<1>1. job[w].hash \in Hash /\ job[w].pc = "create"
  BY DEF Create, JobAt, TypeOK
<1>2. PICK s \in Decision : entry' = [entry EXCEPT ![job[w].hash] = [NoEntry EXCEPT !.status = s]]
  BY DEF Create
<1>3. [NoEntry EXCEPT !.status = s].status = s /\ [NoEntry EXCEPT !.status = s].approvedBy = {}
  BY DEF NoEntry
<1> QED
  BY <1>1, <1>2, <1>3 DEF TypeOK, LifeInv, Saving

\* An answer is saved in an approved entry, and changes nothing else.
LEMMA SaveEffect ==
  ASSUME TypeOK, LifeInv, NEW w \in Worker, SaveAnswer(w)
  PROVE  LET h == job[w].hash IN
         /\ h \in Hash
         /\ entry[h].status = "approved" /\ entry'[h].status = "approved"
         /\ entry'[h].approvedBy = entry[h].approvedBy
         /\ \A g \in Hash \ {h} : entry'[g] = entry[g]
<1>1. job[w].hash \in Hash /\ job[w].pc = "save"
  BY DEF SaveAnswer, JobAt, TypeOK
<1> QED
  BY <1>1 DEF SaveAnswer, TypeOK, LifeInv, Saving

\* A review adds its approval to a pending entry, or rejects it.
LEMMA WriteEffect ==
  ASSUME TypeOK, LifeInv, NEW c \in Client, WriteStatus(c)
  PROVE  LET h == req[c].hash IN
         /\ h \in Hash
         /\ entry[h].status = "pending_review"
         /\ \/ /\ req[c].op = "approve"
               /\ req[c].who \in Reviewer \ entry[h].approvedBy
               /\ entry'[h].approvedBy = entry[h].approvedBy \cup {req[c].who}
               /\ entry'[h].status = IF Enough(entry'[h].approvedBy) THEN "approved"
                                                                     ELSE "pending_review"
            \/ /\ req[c].op = "reject"
               /\ entry'[h].approvedBy = entry[h].approvedBy
               /\ entry'[h].status = "rejected"
         /\ \A g \in Hash \ {h} : entry'[g] = entry[g]
<1>1. req[c].hash \in Hash /\ req[c].pc = "write" /\ (req[c].op = "approve" => req[c].who \in Reviewer)
  BY DEF WriteStatus, ReqAt, TypeOK
<1>2. Reviewing(req[c], entry[req[c].hash])
  BY DEF LifeInv
<1>3. /\ entry'[req[c].hash] = req[c].copy
      /\ \A g \in Hash \ {req[c].hash} : entry'[g] = entry[g]
  BY <1>1 DEF WriteStatus, TypeOK
<1> QED
  BY <1>1, <1>2, <1>3 DEF Reviewing

\* Nobody else writes an entry.
LEMMA Writers ==
  ASSUME Orderly, [Next]_vars
  PROVE  \/ entry' = entry
         \/ \E w \in Worker : Create(w) \/ SaveAnswer(w)
         \/ \E c \in Client : WriteStatus(c)
<1>1. ASSUME NEW w \in Worker, JobStep(w) PROVE entry' = entry \/ Create(w) \/ SaveAnswer(w)
  BY <1>1 DEF JobStep, Lookup, Enqueue, ReadForAnswer
<1>2. ASSUME NEW c \in Client, ClientStep(c) PROVE entry' = entry \/ WriteStatus(c)
  BY <1>2 DEF ClientStep, AcquireLock, ApproveCheck, RejectCheck, Dequeue, Reread,
    CheckTtl, Cleanup, ReleaseLock, Forget, Fetch, Sweep
<1>3. \/ \E w \in Worker : JobStep(w)
      \/ \E c \in Client : ClientStep(c)
      \/ entry' = entry
  BY DEF Orderly, Next, AbandonJob, StartJob, List, RequestFails, Crash, Delete, StartReview,
    Expire, LockExpire, vars
<1> QED
  BY <1>1, <1>2, <1>3

\* How an entry may change.
Evolves(e, f) ==
  \/ e = f
  \/ /\ e.status = "absent" /\ e.approvedBy = {}
     /\ f.status \in Decision /\ f.approvedBy = {}
  \/ e.status = "approved" /\ f.status = "approved" /\ f.approvedBy = e.approvedBy
  \/ e.status = "pending_review" /\ f.status \in Status

LEMMA EntryEvolves ==
  ASSUME Orderly, TypeOK, LifeInv, [Next]_vars, NEW h \in Hash
  PROVE  /\ Evolves(entry[h], entry'[h])
         /\ entry[h].status = "pending_review" /\ entry'[h] # entry[h] =>
              \E c \in Client : WriteStatus(c) /\ req[c].hash = h
         /\ entry[h].status = "absent" /\ entry'[h] # entry[h] =>
              \E w \in Worker : Create(w) /\ job[w].hash = h
<1>1. ASSUME NEW w \in Worker, Create(w)
      PROVE  /\ Evolves(entry[h], entry'[h])
             /\ entry'[h] # entry[h] => job[w].hash = h /\ entry[h].status = "absent"
  BY <1>1, CreateEffect DEF Evolves
<1>2. ASSUME NEW w \in Worker, SaveAnswer(w)
      PROVE  /\ Evolves(entry[h], entry'[h])
             /\ entry'[h] # entry[h] => entry[h].status = "approved"
  BY <1>2, SaveEffect DEF Evolves
<1>3. ASSUME NEW c \in Client, WriteStatus(c)
      PROVE  /\ Evolves(entry[h], entry'[h])
             /\ entry'[h] # entry[h] => req[c].hash = h /\ entry[h].status = "pending_review"
  BY <1>3, WriteEffect DEF Evolves, Status
<1> QED
  BY <1>1, <1>2, <1>3, Writers DEF Evolves
LEMMA FinalStays ==
  ASSUME Orderly, TypeOK, LifeInv, [Next]_vars, NEW h \in Hash, Final(entry[h].status)
  PROVE  Final(entry'[h].status)
BY EntryEvolves DEF Evolves, Final

\* What a request relies on holds while others step: they do not have its lock.
LEMMA OthersKept ==
  ASSUME Orderly, TypeOK, MutualExclusion, LifeInv, [Next]_vars,
         NEW d \in Client, req'[d] = req[d]
  PROVE  Reviewing(req'[d], entry'[req'[d].hash])
<1> DEFINE h == req[d].hash
<1>0. Reviewing(req[d], entry[h]) /\ req[d] \in ReqState
  BY DEF LifeInv, TypeOK
<1>1. CASE req[d].pc \in {"dequeue", "reread", "ttl", "write", "cleanup"}
  <2>1. h \in Hash /\ Critical(d, h)
    BY <1>1 DEF TypeOK, Critical
  <2>2. ASSUME NEW c \in Client, WriteStatus(c), req[c].hash = h PROVE FALSE
    <3>1. Critical(c, h) /\ req[c].pc = "write"
      BY <2>2 DEF WriteStatus, ReqAt, Critical
    <3>2. c = d
      BY <2>1, <3>1 DEF MutualExclusion
    <3>3. req'[c].pc \in {"release", "cleanup"}
      BY <2>2, ReqMoves DEF WriteStatus, TypeOK, ReqPC
    <3> QED
      BY <3>1, <3>2, <3>3
  <2>3. entry'[h] = entry[h] \/ (entry[h].status = "approved" /\ entry'[h].status = "approved")
    <3>1. entry[h].status # "absent"
      BY <1>0, <1>1 DEF Reviewing, Final
    <3> QED
      BY <2>1, <2>2, <3>1, EntryEvolves DEF Evolves
  <2>4. CASE entry'[h] = entry[h]
    BY <1>0, <2>4
  <2>5. CASE entry[h].status = "approved" /\ entry'[h].status = "approved"
    BY <1>0, <1>1, <2>5 DEF Reviewing, Final
  <2> QED
    BY <2>3, <2>4, <2>5
<1>2. CASE req[d].pc \notin {"dequeue", "reread", "ttl", "write", "cleanup"}
  BY <1>0, <1>2 DEF Reviewing
<1> QED
  BY <1>1, <1>2

\* The steps of a review, from the check to the release.
LEMMA ReviewStep ==
  ASSUME Orderly, TypeOK, LifeInv, NEW c \in Client,
         \/ ApproveCheck(c) \/ RejectCheck(c) \/ Dequeue(c) \/ Reread(c)
         \/ CheckTtl(c) \/ WriteStatus(c) \/ Cleanup(c)
  PROVE  Reviewing(req'[c], entry'[req'[c].hash]) /\ req'[c].pc # "sweep"
<1> DEFINE h == req[c].hash
           e == entry[h]
           r == req[c]
           q == req'[c]
           G == Reviewing(req'[c], entry'[req'[c].hash]) /\ req'[c].pc # "sweep"
<1>0. /\ req \in [Client -> ReqState] /\ r \in ReqState /\ Reviewing(r, e)
      /\ entry \in [Hash -> Entry]
  BY DEF LifeInv, TypeOK
<1>1. h \in Hash /\ e \in Entry /\ r.op \in {"approve", "reject"} /\ r.copy \in Entry
  BY <1>0 DEF ApproveCheck, RejectCheck, Dequeue, Reread, CheckTtl, WriteStatus, Cleanup,
    ReqAt, TypeOK, Reviewing, ReqState
<1>2. ASSUME ReqGoto(c, "release") PROVE G
  BY <1>0, <1>2, ReqMoves DEF Reviewing, ReqPC
<1>3. ASSUME ReqGoto(c, "cleanup"), Final(entry'[h].status) PROVE G
  <2>1. q.pc = "cleanup" /\ q.op = r.op /\ q.hash = h
    BY <1>0, <1>3, ReqMoves DEF ReqPC
  <2> QED
    BY <1>1, <1>3, <2>1 DEF Reviewing
<1>4. ASSUME NEW p \in ReqPC \ {"sweep"}, NEW x \in Entry, Hold(c, p, x), UNCHANGED entry,
             Reviewing([r EXCEPT !.pc = p, !.copy = x], e)
      PROVE G
  <2>1. q.pc = p /\ q.op = r.op /\ q.hash = h /\ q.who = r.who /\ q.copy = x
    BY <1>0, <1>4, ReqHolds
  <2> DEFINE y == [r EXCEPT !.pc = p, !.copy = x]
  <2>2. y.pc = p /\ y.op = r.op /\ y.hash = h /\ y.who = r.who /\ y.copy = x
    BY <1>0 DEF ReqState
  <2>3. Reviewing(y, e)
    BY <1>4
  <2> HIDE DEF y
  <2> QED
    BY <1>4, <2>1, <2>2, <2>3 DEF Reviewing
<1>5. ASSUME NEW p \in ReqPC \ {"sweep"}, ReqGoto(c, p), UNCHANGED entry,
             Reviewing([r EXCEPT !.pc = p], e)
      PROVE G
  <2>1. q.pc = p /\ q.op = r.op /\ q.hash = h /\ q.who = r.who /\ q.copy = r.copy
    BY <1>0, <1>5, ReqMoves
  <2> DEFINE y == [r EXCEPT !.pc = p]
  <2>2. y.pc = p /\ y.op = r.op /\ y.hash = h /\ y.who = r.who /\ y.copy = r.copy
    BY <1>0 DEF ReqState
  <2>3. Reviewing(y, e)
    BY <1>5
  <2> HIDE DEF y
  <2> QED
    BY <1>5, <2>1, <2>2, <2>3 DEF Reviewing
<1> SUFFICES G
  OBVIOUS
<1> HIDE DEF G
<1>6. CASE ApproveCheck(c)
  <2>1. UNCHANGED entry /\ r.op = "approve" /\ r.pc = "check"
    BY <1>6 DEF ApproveCheck, ReqAt
  <2>2. CASE e.status = "approved" /\ ReqGoto(c, "cleanup")
    BY <1>3, <2>1, <2>2 DEF Final
  <2>3. CASE /\ e.status \in {"pending_review", "rejected"}
             /\ r.who \notin e.approvedBy /\ Endorse(c, e)
    <3> DEFINE by == e.approvedBy \cup {r.who}
               s == IF Enough(by) THEN "approved" ELSE "pending_review"
               p == IF Enough(by) THEN "dequeue" ELSE "reread"
               x == [status |-> s, approvedBy |-> by, answered |-> FALSE]
    <3>1. Hold(c, p, x)
      BY <2>3 DEF Endorse
    <3>2. by \in SUBSET Reviewer
      BY <1>1, <2>1 DEF Entry, TypeOK
    <3> HIDE DEF by
    <3>3. s \in {"approved", "pending_review"} /\ p \in {"dequeue", "reread"}
          /\ (p = "dequeue" => s = "approved")
      OBVIOUS
    <3> HIDE DEF p
    <3>4. x \in Entry /\ x.status = s /\ x.approvedBy = by
      BY <3>2 DEF Entry, Status
    <3> HIDE DEF x
    <3> DEFINE y == [r EXCEPT !.pc = p, !.copy = x]
    <3>5. y.pc = p /\ y.op = "approve" /\ y.who = r.who /\ y.copy = x
      BY <1>0, <2>1 DEF ReqState
    <3> HIDE DEF y
    <3>6. Reviewing(y, e)
      BY <2>3, <3>3, <3>4, <3>5 DEF Reviewing, by
    <3> QED
      BY <1>4, <2>1, <3>1, <3>3, <3>4, <3>6 DEF ReqPC, y
  <2> QED
    BY <1>2, <1>6, <2>2, <2>3 DEF ApproveCheck
<1>7. CASE RejectCheck(c)
  <2>1. UNCHANGED entry /\ r.op = "reject" /\ r.pc = "check"
    BY <1>7 DEF RejectCheck, ReqAt
  <2>2. CASE e.status = "approved" /\ ReqGoto(c, "cleanup")
    BY <1>3, <2>1, <2>2 DEF Final
  <2>3. CASE e.status = "pending_review" /\ Hold(c, "reread", [NoEntry EXCEPT !.status = "rejected"])
    <3> DEFINE x == [NoEntry EXCEPT !.status = "rejected"]
    <3>1. Hold(c, "reread", x)
      BY <2>3
    <3>2. x \in Entry /\ x.status = "rejected"
      BY DEF NoEntry, Entry, Status
    <3> HIDE DEF x
    <3> DEFINE y == [r EXCEPT !.pc = "reread", !.copy = x]
    <3>3. y.pc = "reread" /\ y.op = "reject" /\ y.copy = x
      BY <1>0, <2>1 DEF ReqState
    <3> HIDE DEF y
    <3>4. Reviewing(y, e)
      BY <2>3, <3>2, <3>3 DEF Reviewing
    <3> QED
      BY <1>4, <2>1, <3>1, <3>2, <3>4 DEF ReqPC, y
  <2> QED
    BY <1>2, <1>7, <2>2, <2>3 DEF RejectCheck
<1>8. CASE Dequeue(c)
  <2>1. UNCHANGED entry /\ r.pc = "dequeue" /\ ReqGoto(c, "reread")
    BY <1>8 DEF Dequeue, ReqAt
  <2> DEFINE y == [r EXCEPT !.pc = "reread"]
  <2>2. y.pc = "reread" /\ y.op = r.op /\ y.who = r.who /\ y.copy = r.copy
    BY <1>0 DEF ReqState
  <2> HIDE DEF y
  <2>3. Reviewing(y, e)
    BY <1>0, <2>1, <2>2 DEF Reviewing
  <2> QED
    BY <1>5, <2>1, <2>3 DEF ReqPC, y
<1>9. CASE Reread(c)
  <2>1. UNCHANGED entry /\ r.pc = "reread" /\ e.status # "absent"
    BY <1>0, <1>1, <1>9 DEF Reread, ReqAt, Reviewing
  <2>2. CASE ValidTransition(e.status, r.copy.status) /\ Hold(c, "ttl", Updated(c, e))
    <3> DEFINE x == Updated(c, e)
    <3>1. /\ x \in Entry /\ x.status = r.copy.status
          /\ x.approvedBy = IF r.op = "approve" THEN r.copy.approvedBy ELSE e.approvedBy
      BY <1>1 DEF Updated, Entry
    <3> HIDE DEF x
    <3> DEFINE y == [r EXCEPT !.pc = "ttl", !.copy = x]
    <3>2. y.pc = "ttl" /\ y.op = r.op /\ y.who = r.who /\ y.copy = x
      BY <1>0 DEF ReqState
    <3> HIDE DEF y
    <3>3. e.status = "pending_review"
      BY <1>0, <1>1, <2>1, <2>2 DEF Reviewing, ValidTransition
    <3>4. Reviewing(y, e)
      <4>1. CASE r.op = "approve"
        BY <1>0, <2>1, <3>1, <3>2, <3>3, <4>1 DEF Reviewing
      <4>2. CASE r.op = "reject"
        BY <1>0, <2>1, <3>1, <3>2, <3>3, <4>2 DEF Reviewing
      <4> QED
        BY <1>1, <4>1, <4>2
    <3> QED
      BY <1>4, <2>1, <2>2, <3>1, <3>4 DEF ReqPC, x, y
  <2>3. CASE ~ValidTransition(e.status, r.copy.status) /\ UpdateRefused(c)
    <3>1. r.op = "approve" => Final(e.status)
      BY <1>0, <2>1, <2>3 DEF Reviewing, ValidTransition, Final
    <3> QED
      BY <1>1, <1>2, <1>3, <2>1, <2>3, <3>1 DEF UpdateRefused
  <2> QED
    BY <1>9, <2>1, <2>2, <2>3 DEF Reread
<1>10. CASE CheckTtl(c)
  <2>1. UNCHANGED entry /\ r.pc = "ttl" /\ ReqGoto(c, "write")
    BY <1>0, <1>10 DEF CheckTtl, ReqAt, Reviewing, Exists
  <2> DEFINE y == [r EXCEPT !.pc = "write"]
  <2>2. y.pc = "write" /\ y.op = r.op /\ y.who = r.who /\ y.copy = r.copy
    BY <1>0 DEF ReqState
  <2> HIDE DEF y
  <2>3. Reviewing(y, e)
    BY <1>0, <2>1, <2>2 DEF Reviewing
  <2> QED
    BY <1>5, <2>1, <2>3 DEF ReqPC, y
<1>11. CASE WriteStatus(c)
  <2>1. r.op # "approve" => Final(entry'[h].status)
    BY <1>1, <1>11, WriteEffect DEF Final
  <2> QED
    BY <1>1, <1>2, <1>3, <1>11, <2>1 DEF WriteStatus
<1>12. CASE Cleanup(c)
  BY <1>2, <1>12 DEF Cleanup
<1> QED
  BY <1>6, <1>7, <1>8, <1>9, <1>10, <1>11, <1>12
\* The requests: what the stepping one relies on next, and the others still do.
LEMMA RequestsStep ==
  ASSUME Orderly, TypeOK, MutualExclusion, LifeInv, [Next]_vars
  PROVE  /\ \A d \in Client : Reviewing(req'[d], entry'[req'[d].hash])
         /\ \A d \in Client : req'[d].pc = "sweep" =>
              \A h \in req'[d].batch : Final(entry'[h].status)
<1> DEFINE G(d) == /\ Reviewing(req'[d], entry'[req'[d].hash])
                   /\ req'[d].pc = "sweep" =>
                        \A h \in req'[d].batch : Final(entry'[h].status)
<1>0. /\ req \in [Client -> ReqState] /\ entry \in [Hash -> Entry]
      /\ \A d \in Client : req[d].batch \subseteq Hash
  BY DEF TypeOK, ReqState
<1>1. ASSUME NEW d \in Client, req'[d] = req[d] PROVE G(d)
  <2>1. Reviewing(req'[d], entry'[req'[d].hash])
    BY <1>1, OthersKept
  <2>2. req'[d].pc = "sweep" => \A h \in req'[d].batch : Final(entry'[h].status)
    BY <1>0, <1>1, FinalStays DEF LifeInv, ReqAt
  <2> QED
    BY <2>1, <2>2
<1>2. ASSUME NEW d \in Client,
             \/ req'[d].pc \in {"idle", "fetch", "release"}
             \/ req'[d].pc \in {"lock", "check"} /\ req'[d].op \in {"approve", "reject"}
      PROVE  G(d)
  BY <1>2 DEF Reviewing
<1>3. ASSUME NEW c \in Client, ReqDone(c), NEW d \in Client PROVE G(d)
  <2>1. req'[c] = IdleReq /\ (d # c => req'[d] = req[d])
    BY <1>0, <1>3, ReqEnds
  <2> HIDE DEF G
  <2> QED
    BY <1>1, <1>2, <2>1 DEF IdleReq
<1>4. ASSUME NEW c \in Client, ClientStep(c), NEW d \in Client PROVE G(d)
  <2>1. CASE AcquireLock(c)
    <3>1. CASE ReqGoto(c, "check")
      <4>1. /\ req'[c].pc = "check" /\ req'[c].op = req[c].op
            /\ d # c => req'[d] = req[d]
        BY <1>0, <3>1, ReqMoves DEF ReqPC
      <4>2. req[c].op \in {"approve", "reject"}
        BY <2>1 DEF AcquireLock, ReqAt, LifeInv, Reviewing
      <4> HIDE DEF G
      <4> QED
        BY <1>1, <1>2, <4>1, <4>2
    <3> HIDE DEF G
    <3> QED
      BY <1>3, <2>1, <3>1 DEF AcquireLock
  <2>2. CASE ReleaseLock(c) \/ Forget(c)
    <3> HIDE DEF G
    <3> QED
      BY <1>3, <2>2 DEF ReleaseLock, Forget
  <2>3. CASE \/ ApproveCheck(c) \/ RejectCheck(c) \/ Dequeue(c) \/ Reread(c)
             \/ CheckTtl(c) \/ WriteStatus(c) \/ Cleanup(c)
    <3>1. PICK p, x : ReqGoto(c, p) \/ Hold(c, p, x)
      BY <2>3 DEF ApproveCheck, RejectCheck, Endorse, Dequeue, Reread, UpdateSkipped,
        UpdateRefused, CheckTtl, WriteStatus, Cleanup
    <3>2. d # c => req'[d] = req[d]
      BY <1>0, <3>1, SameRequest
    <3>3. G(c)
      BY <2>3, ReviewStep
    <3> HIDE DEF G
    <3> QED
      BY <1>1, <3>2, <3>3
  <2>4. CASE Fetch(c)
    <3>1. /\ req'[c].pc = "sweep" /\ req'[c].batch = {h \in req[c].batch : Stale(h)}
          /\ d # c => req'[d] = req[d]
          /\ entry' = entry
      BY <1>0, <2>4 DEF Fetch, ReqState
    <3>2. ASSUME NEW h \in req'[c].batch PROVE Final(entry'[h].status)
      BY <1>0, <3>1 DEF Stale, Exists, Final, Entry, Status
    <3>3. G(c)
      BY <3>1, <3>2 DEF Reviewing
    <3> HIDE DEF G
    <3> QED
      BY <1>1, <3>1, <3>3
  <2>5. CASE Sweep(c)
    <3>1. CASE ReqDone(c)
      <4> HIDE DEF G
      <4> QED
        BY <1>3, <3>1
    <3>2. ASSUME NEW h \in req[c].batch,
                 req' = [req EXCEPT ![c].batch = req[c].batch \ {h}]
          PROVE  G(d)
      <4>1. /\ req'[c].pc = "sweep" /\ req'[c].batch \subseteq req[c].batch
            /\ d # c => req'[d] = req[d]
            /\ entry' = entry
        BY <1>0, <2>5, <3>2 DEF Sweep, ReqState, ReqAt
      <4>2. G(c)
        BY <2>5, <4>1 DEF Reviewing, LifeInv, Sweep
      <4> HIDE DEF G
      <4> QED
        BY <1>1, <4>1, <4>2
    <3> HIDE DEF G
    <3> QED
      BY <2>5, <3>1, <3>2 DEF Sweep
  <2> QED
    BY <1>4, <2>1, <2>2, <2>3, <2>4, <2>5 DEF ClientStep
<1>5. ASSUME NEW c \in Client, NEW q, req' = [req EXCEPT ![c] = q],
             \/ q.pc = "fetch"
             \/ q.pc = "lock" /\ q.op \in {"approve", "reject"},
             NEW d \in Client
      PROVE  G(d)
  <2>1. req'[c] = q /\ (d # c => req'[d] = req[d])
    BY <1>0, <1>5
  <2> HIDE DEF G
  <2> QED
    BY <1>1, <1>2, <1>5, <2>1
<1>6. ASSUME NEW c \in Client,
             \/ List(c) \/ RequestFails(c) \/ Crash(c)
             \/ \E h \in Hash, r \in Reviewer, op \in {"approve", "reject"} :
                  StartReview(c, h, r, op),
             NEW d \in Client
      PROVE  G(d)
  <2>1. CASE ReqGoto(c, "release")
    <3>1. req'[c].pc = "release" /\ (d # c => req'[d] = req[d])
      BY <1>0, <2>1, ReqMoves DEF ReqPC
    <3> HIDE DEF G
    <3> QED
      BY <1>1, <1>2, <3>1
  <2>2. CASE List(c)
    <3>1. PICK S : req' = [req EXCEPT ![c] = [IdleReq EXCEPT !.pc = "fetch", !.op = "list",
                                                             !.batch = S]]
      BY <2>2 DEF List
    <3> DEFINE q == [IdleReq EXCEPT !.pc = "fetch", !.op = "list", !.batch = S]
    <3>2. q.pc = "fetch"
      BY DEF IdleReq
    <3> HIDE DEF q, G
    <3> QED
      BY <1>5, <3>1, <3>2 DEF q
  <2>3. ASSUME NEW h \in Hash, NEW r \in Reviewer, NEW op \in {"approve", "reject"},
               StartReview(c, h, r, op)
        PROVE  G(d)
    <3> DEFINE q ==
          [IdleReq EXCEPT !.pc = "lock", !.op = op, !.hash = h,
                          !.who = IF op = "approve" THEN r ELSE None]
    <3>1. q.pc = "lock" /\ q.op = op
      BY DEF IdleReq
    <3>2. req' = [req EXCEPT ![c] = q]
      BY <2>3 DEF StartReview
    <3> HIDE DEF q, G
    <3> QED
      BY <1>5, <3>1, <3>2
  <2> HIDE DEF G
  <2> QED
    BY <1>3, <1>6, <2>1, <2>2, <2>3 DEF RequestFails, Crash
<1>7. ASSUME UNCHANGED req, NEW d \in Client PROVE G(d)
  <2> HIDE DEF G
  <2> QED
    BY <1>1, <1>7
<1>8. \/ \E c \in Client : ClientStep(c)
      \/ \E c \in Client :
           \/ List(c) \/ RequestFails(c) \/ Crash(c)
           \/ \E h \in Hash, r \in Reviewer, op \in {"approve", "reject"} :
                StartReview(c, h, r, op)
      \/ UNCHANGED req
  BY DEF Orderly, Next, Delete, JobStep, Lookup, Create, Enqueue, ReadForAnswer, SaveAnswer,
    AbandonJob, StartJob, Expire, LockExpire, vars
<1>9. \A d \in Client : G(d)
  <2> HIDE DEF G
  <2> QED
    BY <1>4, <1>6, <1>7, <1>8
<1> QED
  BY <1>9

\* The job: nobody else creates an entry, or takes an approval back.
LEMMA JobsStep ==
  ASSUME Orderly, TypeOK, LifeInv, [Next]_vars, NEW w \in Worker
  PROVE  Saving(job'[w], entry'[job'[w].hash])
<1>0. job \in [Worker -> JobState] /\ job[w] \in JobState /\ entry \in [Hash -> Entry]
      /\ Saving(job[w], entry[job[w].hash])
  BY DEF TypeOK, LifeInv
<1>1. CASE job' = job
  <2>1. CASE job[w].pc \in {"create", "save"}
    <3>1. job[w].hash \in Hash
      BY <2>1 DEF TypeOK
    <3>2. ASSUME NEW v \in Worker PROVE ~Create(v)
      <4>1. ASSUME Create(v) PROVE FALSE
        <5>1. PICK p \in {"enqueue", "answer"} : JobGoto(v, p)
          BY <4>1 DEF Create
        <5>2. job'[v].pc = p /\ job[v].pc = "create"
          BY <1>0, <4>1, <5>1, JobMoves DEF JobPC, Create, JobAt
        <5> QED
          BY <1>1, <5>2
      <4> QED
        BY <4>1
    <3>3. \/ entry'[job[w].hash] = entry[job[w].hash]
          \/ /\ entry[job[w].hash].status = "approved"
             /\ entry'[job[w].hash].status = "approved"
             /\ entry'[job[w].hash].approvedBy = entry[job[w].hash].approvedBy
      BY <1>0, <2>1, <3>1, <3>2, EntryEvolves DEF Evolves, Saving
    <3> QED
      BY <1>0, <1>1, <3>3 DEF Saving
  <2>2. CASE job[w].pc \notin {"create", "save"}
    BY <1>1, <2>2 DEF Saving
  <2> QED
    BY <2>1, <2>2
<1>2. CASE JobDone(w)
  BY <1>0, <1>2, JobEnds DEF IdleJob, Saving
<1>3. ASSUME NEW p \in JobPC \ {"create", "save"}, JobGoto(w, p)
      PROVE  Saving(job'[w], entry'[job'[w].hash])
  BY <1>0, <1>3, JobMoves DEF Saving
<1>4. CASE Lookup(w)
  <2>1. CASE entry[job[w].hash].status = "absent" /\ JobGoto(w, "create")
    BY <1>0, <1>4, <2>1, JobMoves DEF Lookup, Saving, JobPC
  <2> QED
    BY <1>2, <1>3, <1>4, <2>1 DEF Lookup, JobPC
<1>5. CASE Create(w) \/ Enqueue(w)
  BY <1>3, <1>5 DEF Create, Enqueue, JobPC
<1>6. CASE ReadForAnswer(w)
  <2> DEFINE e == entry[job[w].hash]
             x == [e EXCEPT !.answered = TRUE]
  <2>1. CASE Savable(e) /\ job' = [job EXCEPT ![w].pc = "save", ![w].copy = x]
    <3>1. job[w].hash \in Hash /\ e \in Entry
      BY <1>0, <1>6 DEF ReadForAnswer, TypeOK, JobAt
    <3>2. x.approvedBy = e.approvedBy /\ x.status = "approved" /\ e.status = "approved"
      BY <2>1, <3>1 DEF Entry, Savable
    <3> HIDE DEF x
    <3>3. job'[w].copy = x /\ job'[w].hash = job[w].hash /\ job'[w].pc = "save"
      BY <1>0, <2>1 DEF JobState
    <3> QED
      BY <1>6, <3>2, <3>3 DEF ReadForAnswer, Saving
  <2> QED
    BY <1>2, <1>6, <2>1 DEF ReadForAnswer
<1>7. CASE SaveAnswer(w) \/ AbandonJob(w)
  BY <1>2, <1>7 DEF SaveAnswer, AbandonJob
<1>8. ASSUME NEW h \in Hash, StartJob(w, h) PROVE Saving(job'[w], entry'[job'[w].hash])
  <2>1. job'[w].pc = "lookup"
    BY <1>0, <1>8 DEF StartJob, JobState
  <2> QED
    BY <2>1 DEF Saving
<1>9. \/ \E v \in Worker : JobStep(v) \/ AbandonJob(v) \/ \E h \in Hash : StartJob(v, h)
      \/ job' = job
  BY DEF Next, ClientStep, AcquireLock, ApproveCheck, RejectCheck, Dequeue, Reread,
    CheckTtl, WriteStatus, Cleanup, ReleaseLock, Forget, Fetch, Sweep,
    List, RequestFails, Crash, Delete, StartReview, Expire, LockExpire, vars
<1> QED
  BY <1>1, <1>4, <1>5, <1>6, <1>7, <1>8, <1>9 DEF Orderly, JobStep

LEMMA LifeStep ==
  ASSUME Orderly, TypeOK, MutualExclusion, LifeInv, [Next]_vars
  PROVE  LifeInv'
<1>1. ASSUME NEW h \in Hash, entry'[h].status = "absent" PROVE entry'[h].approvedBy = {}
  <2>1. Evolves(entry[h], entry'[h])
    BY EntryEvolves
  <2>2. entry[h] = entry'[h]
    BY <1>1, <2>1 DEF Evolves, Decision, Status
  <2> QED
    BY <1>1, <2>2 DEF LifeInv
<1>2. \A w \in Worker : Saving(job'[w], entry'[job'[w].hash])
  BY JobsStep
<1> QED
  BY <1>1, <1>2, RequestsStep DEF LifeInv, ReqAt

LEMMA LifeInit == Init => LifeInv
BY DEF Init, LifeInv, Saving, Reviewing, ReqAt, IdleJob, IdleReq, NoEntry

\* The verdict of an entry, as the life cycle sees it.
Verdict(e) == [status |-> e.status, approvedBy |-> e.approvedBy]

VerdictSet == [status : Status \cup {"absent"}, approvedBy : SUBSET Reviewer]

\* The two modules count reviewers alike.
LEMMA SameCardinality == \A S : Lifecycle!Cardinality(S) = Cardinality(S)
BY DEF Lifecycle!Cardinality, Cardinality

\* A write of an entry creates it, endorses it or rejects it, in the life cycle.
LEMMA LifecycleStep ==
  ASSUME Orderly, TypeOK, LifeInv, [Next]_vars
  PROVE  \/ \A h \in Hash : Verdict(entry'[h]) = Verdict(entry[h])
         \/ Lifecycle!Next
<1> DEFINE V == [h \in Hash |-> [status |-> entry[h].status,
                                 approvedBy |-> entry[h].approvedBy]]
           W == [h \in Hash |-> [status |-> entry'[h].status,
                                 approvedBy |-> entry'[h].approvedBy]]
<1>1. ASSUME NEW h \in Hash, \A g \in Hash \ {h} : entry'[g] = entry[g]
      PROVE  W = [V EXCEPT ![h] = [status |-> entry'[h].status,
                                   approvedBy |-> entry'[h].approvedBy]]
  BY <1>1
<1>2. V \in [Hash -> VerdictSet]
  BY DEF TypeOK, Entry, VerdictSet
<1>3. ASSUME NEW h \in Hash, NEW s \in Status
      PROVE  [V EXCEPT ![h].status = s] =
               [V EXCEPT ![h] = [status |-> s, approvedBy |-> entry[h].approvedBy]]
  <2>1. V[h].approvedBy = entry[h].approvedBy
    OBVIOUS
  <2>2. V[h] \in VerdictSet /\ s \in Status \cup {"absent"}
    BY <1>2, <1>3
  <2> HIDE DEF V
  <2>3. [V[h] EXCEPT !.status = s] = [status |-> s, approvedBy |-> V[h].approvedBy]
    BY <2>2 DEF VerdictSet
  <2>4. [V EXCEPT ![h].status = s] = [V EXCEPT ![h] = [V[h] EXCEPT !.status = s]]
    OBVIOUS
  <2> QED
    BY <2>1, <2>3, <2>4
<1>4. ASSUME NEW w \in Worker, Create(w) PROVE Lifecycle!Next
  <2>1. PICK h \in Hash : h = job[w].hash
    BY <1>4, CreateEffect
  <2>2. /\ entry[h].status = "absent" /\ entry[h].approvedBy = {}
        /\ entry'[h].status \in Decision /\ entry'[h].approvedBy = {}
        /\ \A g \in Hash \ {h} : entry'[g] = entry[g]
    BY <1>4, <2>1, CreateEffect
  <2>3. PICK s \in Decision : s = entry'[h].status
    BY <2>2
  <2>4. s \in Status
    BY DEF Decision, Status
  <2>5. V[h] = Lifecycle!Missing
    BY <2>2 DEF Lifecycle!Missing
  <2>6. W = [V EXCEPT ![h].status = s]
    <3>1. W = [V EXCEPT ![h] = [status |-> s, approvedBy |-> {}]]
      BY <1>1, <2>2, <2>3
    <3> HIDE DEF V, W
    <3>2. [V EXCEPT ![h].status = s] =
            [V EXCEPT ![h] = [status |-> s, approvedBy |-> entry[h].approvedBy]]
      BY <1>3, <2>4
    <3> QED
      BY <2>2, <3>1, <3>2
  <2>7. Lifecycle!Create(h)
    BY ONLY <2>3, <2>5, <2>6 DEF Lifecycle!Create, Decision
  <2> QED
    BY <2>7 DEF Lifecycle!Next
<1>5. ASSUME NEW c \in Client, WriteStatus(c) PROVE Lifecycle!Next
  <2>1. PICK h \in Hash : h = req[c].hash
    BY <1>5, WriteEffect
  <2>2. /\ entry[h].status = "pending_review"
        /\ \A g \in Hash \ {h} : entry'[g] = entry[g]
    BY <1>5, <2>1, WriteEffect
  <2>3. ASSUME NEW r \in Reviewer \ entry[h].approvedBy,
               entry'[h].approvedBy = entry[h].approvedBy \cup {r},
               entry'[h].status = IF Enough(entry'[h].approvedBy) THEN "approved"
                                                                  ELSE "pending_review"
        PROVE  Lifecycle!Next
    <3>1. W = [V EXCEPT ![h] =
                 [status |-> IF Cardinality(V[h].approvedBy \cup {r}) >= Threshold
                               THEN "approved" ELSE "pending_review",
                  approvedBy |-> V[h].approvedBy \cup {r}]]
      BY <1>1, <2>2, <2>3 DEF Enough
    <3>2. V[h].status = "pending_review" /\ r \notin V[h].approvedBy
      BY <2>2
    <3>3. Lifecycle!Endorse(h, r)
      BY ONLY <3>1, <3>2, SameCardinality DEF Lifecycle!Endorse
    <3> QED
      BY <3>3 DEF Lifecycle!Next
  <2>4. ASSUME entry'[h].approvedBy = entry[h].approvedBy, entry'[h].status = "rejected"
        PROVE  Lifecycle!Next
    <3>1. V[h].status = "pending_review"
      BY <2>2
    <3>2. W = [V EXCEPT ![h].status = "rejected"]
      <4>1. W = [V EXCEPT ![h] = [status |-> "rejected", approvedBy |-> entry[h].approvedBy]]
        BY <1>1, <2>2, <2>4
      <4>2. "rejected" \in Status
        BY DEF Status
      <4>3. [V EXCEPT ![h].status = "rejected"] =
              [V EXCEPT ![h] = [status |-> "rejected", approvedBy |-> entry[h].approvedBy]]
        BY <1>3, <4>2
      <4> HIDE DEF V, W
      <4> QED
        BY <4>1, <4>3
    <3>3. Lifecycle!Reject(h)
      BY ONLY <3>1, <3>2 DEF Lifecycle!Reject
    <3> QED
      BY <3>3 DEF Lifecycle!Next
  <2> QED
    BY <1>5, <2>1, <2>3, <2>4, WriteEffect
<1>6. ASSUME NEW w \in Worker, SaveAnswer(w), NEW h \in Hash
      PROVE  Verdict(entry'[h]) = Verdict(entry[h])
  BY <1>6, SaveEffect DEF Verdict
<1> QED
  BY <1>4, <1>5, <1>6, Writers

\* Entries go from pending to approved or rejected once, approvals are only added,
\* one reviewer at a time and none lost, although every approval reads, re-reads and
\* writes the entry in separate steps (review.py 67-106): each step of the cache is a
\* step of the review life cycle, or none.
THEOREM Implements ==
  ASSUME Orderly
  PROVE  Spec => ImplementsLifecycle
<1>1. Init => Lifecycle!Init
  BY DEF Init, Lifecycle!Init, Lifecycle!Missing, NoEntry
<1>2. TypeOK /\ MutualExclusion /\ LifeInv /\ [Next]_vars =>
        [Lifecycle!Next]_[h \in Hash |-> [status |-> entry[h].status,
                                          approvedBy |-> entry[h].approvedBy]]
  <2>1. ASSUME TypeOK, LifeInv, [Next]_vars,
               \A h \in Hash : Verdict(entry'[h]) = Verdict(entry[h])
        PROVE  [h \in Hash |-> [status |-> entry'[h].status,
                                approvedBy |-> entry'[h].approvedBy]]
               = [h \in Hash |-> [status |-> entry[h].status,
                                  approvedBy |-> entry[h].approvedBy]]
    BY <2>1 DEF Verdict
  <2> QED
    BY <2>1, LifecycleStep
<1>3. TypeOK /\ MutualExclusion /\ LifeInv /\ [Next]_vars => LifeInv'
  BY LifeStep
<1>4. Spec => []MutualExclusion
  BY Exclusion DEF Orderly
<1> QED
  BY <1>1, <1>2, <1>3, <1>4, LifeInit, Typing, PTL
  DEF Spec, ImplementsLifecycle, Lifecycle!Spec

-----------------------------------------------------------------------------
(* Every entry that waits for a review is in the pending queue, or is one  *)
(* of those that the code lets slip.                                       *)

\* A job writes its answer to an approved entry only; a review that dequeues is going
\* to approve, and one that rejects writes a rejection.
SavesApproved(j) == j.pc = "save" => j.copy.status = "approved"

WritesDecision(r) ==
  /\ r.pc = "dequeue" => r.op = "approve" /\ r.copy.status = "approved"
  /\ r.pc \in {"reread", "ttl", "write"} /\ r.op # "approve" => r.copy.status = "rejected"

DecidedInv ==
  /\ \A w \in Worker : SavesApproved(job[w])
  /\ \A c \in Client : WritesDecision(req[c])

\* The job has created h pending, and will put it on the queue.
Queueing(w, h) == JobAt(w, "enqueue") /\ job[w].hash = h

\* A pending entry is on the queue or on its way to it or off it, and no request is
\* about to remove it that has not seen it in another state before.
QueueInv ==
  \A h \in Hash : Pending(h) =>
    /\ \/ h \in queue \cup unlisted
       \/ \E w \in Worker : Queueing(w, h)
       \/ \E c \in Client : Deciding(c, h)
    /\ (\E c \in Client : Removing(c, h)) => h \in unlisted

\* A request that stands elsewhere writes nothing.
LEMMA WritesNothing ==
  ASSUME NEW r, r.pc \notin {"dequeue", "reread", "ttl", "write"}
  PROVE  WritesDecision(r)
BY DEF WritesDecision

\* Approving and rejecting prepare what they are about to write.
LEMMA DecidedClient ==
  ASSUME TypeOK, NEW c \in Client, WritesDecision(req[c]), ClientStep(c)
  PROVE  /\ WritesDecision(req'[c])
         /\ \A d \in Client \ {c} : req'[d] = req[d]
         /\ UNCHANGED job
<1> DEFINE h == req[c].hash
<1> DEFINE e == entry[h]
<1>0. req \in [Client -> ReqState]
  BY DEF TypeOK
<1>1. ASSUME NEW p \in ReqPC \ {"dequeue", "reread", "ttl", "write"}, ReqGoto(c, p)
      PROVE  WritesDecision(req'[c]) /\ \A d \in Client \ {c} : req'[d] = req[d]
  BY <1>0, <1>1, ReqMoves, WritesNothing
<1>2. ASSUME ReqDone(c)
      PROVE  WritesDecision(req'[c]) /\ \A d \in Client \ {c} : req'[d] = req[d]
  BY <1>0, <1>2, ReqEnds, WritesNothing DEF IdleReq
<1>3. CASE AcquireLock(c)
  BY <1>1, <1>2, <1>3 DEF AcquireLock, ReqPC
<1>4. CASE ApproveCheck(c)
  <2>1. h \in Hash /\ e \in Entry /\ req[c].who \in Reviewer
    BY <1>4 DEF ApproveCheck, ReqAt, TypeOK
  <2>2. CASE Endorse(c, e)
    <3> DEFINE by == e.approvedBy \cup {req[c].who}
               s == IF Enough(by) THEN "approved" ELSE "pending_review"
               x == [status |-> s, approvedBy |-> by, answered |-> FALSE]
               p == IF Enough(by) THEN "dequeue" ELSE "reread"
    <3>1. x \in Entry /\ x.status = s
      BY <2>1 DEF Entry, Status
    <3>2. p \in ReqPC /\ (p = "dequeue" => s = "approved") /\ p \in {"dequeue", "reread"}
      BY DEF ReqPC
    <3>3. Hold(c, p, x)
      BY <2>2 DEF Endorse
    <3> HIDE DEF x, p, s
    <3>4. /\ req'[c].pc = p /\ req'[c].op = "approve" /\ req'[c].copy = x
          /\ \A d \in Client \ {c} : req'[d] = req[d]
      BY <1>0, <1>4, <3>1, <3>2, <3>3, ReqHolds DEF ApproveCheck
    <3> QED
      BY <1>4, <3>1, <3>2, <3>4 DEF WritesDecision, ApproveCheck
  <2> QED
    BY <1>1, <1>4, <2>2 DEF ApproveCheck, ReqPC
<1>5. CASE RejectCheck(c)
  <2>1. CASE Hold(c, "reread", [NoEntry EXCEPT !.status = "rejected"])
    <3> DEFINE x == [NoEntry EXCEPT !.status = "rejected"]
    <3>1. x \in Entry /\ x.status = "rejected"
      BY DEF NoEntry, Entry, Status
    <3> HIDE DEF x
    <3>2. Hold(c, "reread", x)
      BY <2>1 DEF x
    <3>3. /\ req'[c].pc = "reread" /\ req'[c].copy = x
          /\ \A d \in Client \ {c} : req'[d] = req[d]
      BY <1>0, <3>1, <3>2, ReqHolds DEF ReqPC
    <3> QED
      BY <1>5, <3>1, <3>3 DEF WritesDecision, RejectCheck
  <2> QED
    BY <1>1, <1>5, <2>1 DEF RejectCheck, ReqPC
<1>6. CASE Dequeue(c)
  BY <1>0, <1>6, ReqMoves DEF Dequeue, ReqAt, WritesDecision, ReqPC
<1>7. CASE Reread(c)
  <2>1. h \in Hash /\ e \in Entry /\ req[c].copy.status \in Status
    BY <1>7 DEF Reread, ReqAt, TypeOK
  <2>2. CASE Hold(c, "ttl", Updated(c, e))
    <3> DEFINE x == Updated(c, e)
    <3>1. x \in Entry /\ x.status = req[c].copy.status
      BY <1>0, <2>1 DEF Updated, Entry, ReqState, Status
    <3> HIDE DEF x
    <3>2. Hold(c, "ttl", x)
      BY <2>2 DEF x
    <3>3. /\ req'[c].pc = "ttl" /\ req'[c].op = req[c].op /\ req'[c].copy = x
          /\ \A d \in Client \ {c} : req'[d] = req[d]
      BY <1>0, <3>1, <3>2, ReqHolds DEF ReqPC
    <3> QED
      BY <1>7, <3>1, <3>3 DEF WritesDecision, Reread, ReqAt
  <2> QED
    BY <1>1, <1>7, <2>2 DEF Reread, UpdateSkipped, UpdateRefused, ReqPC
<1>8. CASE CheckTtl(c)
  <2>1. CASE ReqGoto(c, "write")
    BY <1>0, <1>8, <2>1, ReqMoves DEF CheckTtl, ReqAt, WritesDecision, ReqPC
  <2> QED
    BY <1>1, <1>8, <2>1 DEF CheckTtl, UpdateSkipped, ReqPC
<1>9. CASE WriteStatus(c) \/ Cleanup(c)
  BY <1>1, <1>9 DEF WriteStatus, Cleanup, ReqPC
<1>10. CASE ReleaseLock(c) \/ Forget(c)
  BY <1>2, <1>10 DEF ReleaseLock, Forget
<1>11. CASE Fetch(c) \/ Sweep(c)
  <2>1. CASE ReqDone(c)
    BY <1>2, <1>11, <2>1 DEF Fetch, Sweep
  <2>2. CASE ~ReqDone(c)
    <3>1. req'[c].pc = "sweep" /\ \A d \in Client \ {c} : req'[d] = req[d]
      BY <1>0, <1>11, <2>2 DEF Fetch, Sweep, ReqAt, ReqState
    <3> QED
      BY <1>11, <3>1, WritesNothing DEF Fetch, Sweep
  <2> QED
    BY <2>1, <2>2
<1>12. UNCHANGED job
  BY DEF ClientStep, AcquireLock, ApproveCheck, RejectCheck, Dequeue, Reread, CheckTtl,
    WriteStatus, Cleanup, ReleaseLock, Forget, Fetch, Sweep
<1> QED
  BY <1>3, <1>4, <1>5, <1>6, <1>7, <1>8, <1>9, <1>10, <1>11, <1>12 DEF ClientStep

\* The steps that start a request or end it early leave it with nothing to write, and
\* none of them makes it about to remove an entry that is pending.
LEMMA OtherRequest ==
  ASSUME TypeOK, NEW c \in Client,
         \/ List(c) \/ RequestFails(c) \/ Crash(c)
         \/ \E h \in Hash : Delete(c, h)
         \/ \E h \in Hash, r \in Reviewer, op \in {"approve", "reject"} :
              StartReview(c, h, r, op)
  PROVE  /\ req'[c].pc \in {"idle", "release", "lock", "fetch", "forget"}
         /\ req'[c].pc = "forget" => entry'[req'[c].hash] = NoEntry
         /\ \A d \in Client \ {c} : req'[d] = req[d]
         /\ UNCHANGED <<job, queue>>
         /\ \A h \in Hash : entry'[h] = entry[h] \/ entry'[h] = NoEntry
<1>0. req \in [Client -> ReqState] /\ entry \in [Hash -> Entry]
  BY DEF TypeOK
<1>1. CASE ReqGoto(c, "release") /\ UNCHANGED <<entry, queue, job>>
  BY <1>0, <1>1, ReqMoves DEF ReqPC
<1>2. CASE ReqDone(c) /\ UNCHANGED <<entry, queue, job>>
  BY <1>0, <1>2, ReqEnds DEF IdleReq
<1>3. CASE List(c)
  <2>1. PICK S : req' = [req EXCEPT ![c] = [IdleReq EXCEPT !.pc = "fetch", !.op = "list",
                                                           !.batch = S]]
    BY <1>3 DEF List
  <2> DEFINE q == [IdleReq EXCEPT !.pc = "fetch", !.op = "list", !.batch = S]
  <2>2. q.pc = "fetch"
    BY DEF IdleReq
  <2>3. req' = [req EXCEPT ![c] = q]
    BY <2>1
  <2> HIDE DEF q
  <2> QED
    BY <1>0, <1>3, <2>2, <2>3 DEF List
<1>4. ASSUME NEW h \in Hash, Delete(c, h)
      PROVE  /\ req'[c].pc = "forget" /\ entry'[req'[c].hash] = NoEntry
             /\ \A d \in Client \ {c} : req'[d] = req[d]
             /\ UNCHANGED <<job, queue>>
             /\ \A g \in Hash : entry'[g] = entry[g] \/ entry'[g] = NoEntry
  <2> DEFINE q == [IdleReq EXCEPT !.pc = "forget", !.op = "delete", !.hash = h]
  <2>1. q.pc = "forget" /\ q.hash = h
    BY DEF IdleReq
  <2>2. req' = [req EXCEPT ![c] = q]
    BY <1>4 DEF Delete
  <2> HIDE DEF q
  <2> QED
    BY <1>0, <1>4, <2>1, <2>2 DEF Delete
<1>5. ASSUME NEW h \in Hash, NEW r \in Reviewer, NEW op \in {"approve", "reject"},
             StartReview(c, h, r, op)
      PROVE  /\ req'[c].pc = "lock"
             /\ \A d \in Client \ {c} : req'[d] = req[d]
             /\ UNCHANGED <<entry, queue, job>>
  <2> DEFINE q ==
        [IdleReq EXCEPT !.pc = "lock", !.op = op, !.hash = h,
                        !.who = IF op = "approve" THEN r ELSE None]
  <2>1. q.pc = "lock"
    BY DEF IdleReq
  <2>2. req' = [req EXCEPT ![c] = q]
    BY <1>5 DEF StartReview
  <2> HIDE DEF q
  <2> QED
    BY <1>0, <1>5, <2>1, <2>2 DEF StartReview
<1> QED
  BY <1>1, <1>2, <1>3, <1>4, <1>5 DEF RequestFails, Crash

LEMMA DecidedStep ==
  ASSUME TypeOK, DecidedInv, [Next]_vars
  PROVE  DecidedInv'
<1>0. job \in [Worker -> JobState]
  BY DEF TypeOK
<1>1. ASSUME NEW c \in Client, ClientStep(c) PROVE DecidedInv'
  BY <1>1, DecidedClient DEF DecidedInv
<1>2. ASSUME NEW c \in Client,
             \/ List(c) \/ RequestFails(c) \/ Crash(c)
             \/ \E h \in Hash : Delete(c, h)
             \/ \E h \in Hash, r \in Reviewer, op \in {"approve", "reject"} :
                  StartReview(c, h, r, op)
      PROVE  DecidedInv'
  <2>1. /\ req'[c].pc \notin {"dequeue", "reread", "ttl", "write"}
        /\ \A d \in Client \ {c} : req'[d] = req[d]
        /\ UNCHANGED job
    BY <1>2, OtherRequest
  <2> QED
    BY <2>1, WritesNothing DEF DecidedInv
<1>3. ASSUME NEW w \in Worker, JobStep(w) \/ AbandonJob(w) \/ \E h \in Hash : StartJob(w, h)
      PROVE  DecidedInv'
  <2>1. UNCHANGED req
    BY <1>3 DEF JobStep, Lookup, Create, Enqueue, ReadForAnswer, SaveAnswer, AbandonJob,
      StartJob
  <2>2. CASE JobDone(w)
    BY <1>0, <2>1, <2>2, JobEnds DEF DecidedInv, SavesApproved, IdleJob
  <2>3. ASSUME NEW p \in JobPC \ {"save"}, JobGoto(w, p) PROVE DecidedInv'
    BY <1>0, <2>1, <2>3, JobMoves DEF DecidedInv, SavesApproved
  <2>4. CASE ReadForAnswer(w) /\ ~JobDone(w)
    <3> DEFINE e == entry[job[w].hash]
               x == [e EXCEPT !.answered = TRUE]
    <3>1. job[w].hash \in Hash /\ e \in Entry
      BY <2>4 DEF ReadForAnswer, JobAt, TypeOK
    <3>2. x.status = "approved"
      BY <2>4, <3>1 DEF ReadForAnswer, Savable, Entry
    <3>3. job' = [job EXCEPT ![w].pc = "save", ![w].copy = x]
      BY <2>4 DEF ReadForAnswer
    <3> HIDE DEF x
    <3>4. job'[w].copy = x /\ \A v \in Worker \ {w} : job'[v] = job[v]
      BY <1>0, <3>3 DEF JobState
    <3> QED
      BY <2>1, <3>2, <3>4 DEF DecidedInv, SavesApproved
  <2>5. ASSUME NEW h \in Hash, StartJob(w, h) PROVE DecidedInv'
    BY <1>0, <2>1, <2>5 DEF StartJob, DecidedInv, SavesApproved, JobState
  <2> QED
    BY <1>3, <2>2, <2>3, <2>4, <2>5 DEF JobStep, Lookup, Create, Enqueue, ReadForAnswer,
      SaveAnswer, AbandonJob, JobPC
<1>4. CASE UNCHANGED <<job, req>>
  BY <1>4 DEF DecidedInv
<1> QED
  BY <1>1, <1>2, <1>3, <1>4 DEF Next, Expire, LockExpire, vars

\* An entry becomes pending when a job creates it, and goes on to enqueue it, or when
\* an approval writes late.
LEMMA BecomesPending ==
  ASSUME TypeOK, DecidedInv, [Next]_vars, NEW h \in Hash, ~Pending(h), Pending(h)'
  PROVE  \/ UNCHANGED req /\ \E w \in Worker : Queueing(w, h)'
         \/ \E c \in Client : WriteStatus(c)
<1>0. /\ entry \in [Hash -> Entry] /\ job \in [Worker -> JobState]
  BY DEF TypeOK
<1>1. entry'[h] # entry[h] /\ entry'[h] # NoEntry
  BY DEF Pending, NoEntry
<1>2. ASSUME NEW w \in Worker, Create(w)
      PROVE  UNCHANGED req /\ Queueing(w, h)'
  <2>1. PICK s \in Decision :
          /\ entry' = [entry EXCEPT ![job[w].hash] = [NoEntry EXCEPT !.status = s]]
          /\ JobGoto(w, IF s = "pending_review" THEN "enqueue" ELSE "answer")
    BY <1>2 DEF Create
  <2>2. job[w].hash = h /\ entry'[h] = [NoEntry EXCEPT !.status = s]
    BY <1>0, <1>1, <2>1
  <2>3. s = "pending_review"
    BY <2>2 DEF Pending, NoEntry
  <2>4. JobGoto(w, "enqueue")
    BY <2>1, <2>3
  <2> QED
    BY <1>0, <1>2, <2>2, <2>4, JobMoves DEF Create, Queueing, JobAt, JobPC
<1>3. ASSUME NEW w \in Worker, SaveAnswer(w) PROVE FALSE
  BY <1>0, <1>1, <1>3 DEF SaveAnswer, DecidedInv, SavesApproved, JobAt, Pending
<1>4. ASSUME NEW c \in Client,
             \/ List(c) \/ RequestFails(c) \/ Crash(c)
             \/ \E g \in Hash : Delete(c, g)
             \/ \E g \in Hash, r \in Reviewer, op \in {"approve", "reject"} :
                  StartReview(c, g, r, op)
      PROVE  FALSE
  BY <1>1, <1>4, OtherRequest
<1>5. ASSUME NEW g \in Hash, Expire(g) PROVE FALSE
  BY <1>0, <1>1, <1>5 DEF Expire
<1>6. ASSUME NEW c \in Client, ClientStep(c) PROVE WriteStatus(c)
  BY <1>1, <1>6 DEF ClientStep, AcquireLock, ApproveCheck, RejectCheck, Dequeue, Reread,
    CheckTtl, Cleanup, ReleaseLock, Forget, Fetch, Sweep
<1>7. ASSUME NEW w \in Worker, JobStep(w) PROVE Create(w) \/ SaveAnswer(w)
  BY <1>1, <1>7 DEF JobStep, Lookup, Enqueue, ReadForAnswer
<1>8. ~UNCHANGED entry
  BY <1>1
<1> QED
  BY <1>2, <1>3, <1>4, <1>5, <1>6, <1>7, <1>8 DEF Next, AbandonJob, StartJob, LockExpire, vars

\* A hash leaves the queue by a removal, or for an approval that follows.
LEMMA LeavesQueue ==
  ASSUME TypeOK, DecidedInv, [Next]_vars, NEW h \in queue, h \notin queue'
  PROVE  \/ \E c \in Client : Removing(c, h)
         \/ \E c \in Client : Deciding(c, h)'
<1>0. req \in [Client -> ReqState] /\ \A c \in Client : WritesDecision(req[c])
  BY DEF TypeOK, DecidedInv
<1>1. ASSUME NEW c \in Client, Dequeue(c) PROVE Deciding(c, h)'
  <2>1. req[c].hash = h /\ req[c].pc = "dequeue" /\ ReqGoto(c, "reread")
    BY <1>1 DEF Dequeue, ReqAt
  <2>2. req[c].op = "approve" /\ req[c].copy.status = "approved"
    BY <1>0, <2>1 DEF WritesDecision
  <2> QED
    BY <1>0, <2>1, <2>2, ReqMoves DEF Deciding, ReqPC
<1>2. ASSUME NEW c \in Client, Cleanup(c) \/ Forget(c) \/ Sweep(c) PROVE Removing(c, h)
  BY <1>2 DEF Cleanup, Forget, Sweep, ReqAt, Removing
<1>3. ASSUME NEW c \in Client, ClientStep(c)
      PROVE  Dequeue(c) \/ Cleanup(c) \/ Sweep(c) \/ Forget(c)
  BY <1>3 DEF ClientStep, AcquireLock, ApproveCheck, RejectCheck, Reread, CheckTtl,
    WriteStatus, ReleaseLock, Fetch
<1>4. \E c \in Client : ClientStep(c)
  BY DEF Next, JobStep, Lookup, Create, Enqueue, ReadForAnswer, SaveAnswer, AbandonJob,
    StartJob, List, RequestFails, Crash, Delete, StartReview, Expire, LockExpire, vars
<1> QED
  BY <1>1, <1>2, <1>3, <1>4

\* No request sets out to remove the hash of an entry that it finds pending.
LEMMA NeverRemovesPending ==
  ASSUME TypeOK, DecidedInv, [Next]_vars, NEW c \in Client, NEW h \in Hash,
         Removing(c, h)', Pending(h)'
  PROVE  Removing(c, h)
<1>0. /\ req \in [Client -> ReqState] /\ entry \in [Hash -> Entry]
      /\ WritesDecision(req[c])
  BY DEF TypeOK, DecidedInv
<1>1. CASE req'[c] = req[c]
  BY <1>1 DEF Removing
<1>2. ASSUME NEW d \in Client,
             \/ List(d) \/ RequestFails(d) \/ Crash(d)
             \/ \E g \in Hash : Delete(d, g)
             \/ \E g \in Hash, r \in Reviewer, op \in {"approve", "reject"} :
                  StartReview(d, g, r, op)
      PROVE  Removing(c, h)
  <2>1. /\ req'[d].pc \in {"idle", "release", "lock", "fetch", "forget"}
        /\ req'[d].pc = "forget" => entry'[req'[d].hash] = NoEntry
        /\ \A b \in Client \ {d} : req'[b] = req[b]
    BY <1>2, OtherRequest
  <2>2. d # c
    BY <2>1 DEF Removing, Pending, NoEntry
  <2> QED
    BY <1>1, <2>1, <2>2
<1>3. ASSUME NEW d \in Client \ {c}, ClientStep(d) PROVE Removing(c, h)
  <2>1. req'[c] = req[c]
    BY <1>3, DecidedClient DEF DecidedInv
  <2> QED
    BY <1>1, <2>1
<1>4. CASE ClientStep(c)
  <2> DEFINE g == req[c].hash
  <2> DEFINE e == entry[g]
  <2>1. ASSUME NEW p \in ReqPC \ {"forget", "sweep"}, ReqGoto(c, p), UNCHANGED entry
        PROVE  (p = "cleanup" /\ g = h /\ Pending(g)) \/ Removing(c, h)
    BY <1>0, <2>1, ReqMoves DEF Removing, Pending
  <2>2. ASSUME NEW p \in {"dequeue", "reread", "ttl"}, NEW x, Hold(c, p, x) PROVE FALSE
    BY <1>0, <2>2, SameRequest DEF Removing
  <2>3. ASSUME ReqDone(c) PROVE FALSE
    BY <1>0, <2>3, ReqEnds DEF Removing, IdleReq
  <2>4. CASE AcquireLock(c)
    BY <2>1, <2>3, <2>4 DEF AcquireLock, ReqPC
  <2>5. CASE ApproveCheck(c)
    <3>1. ASSUME Endorse(c, e) PROVE FALSE
      BY <2>2, <3>1 DEF Endorse
    <3> QED
      BY <2>1, <2>5, <3>1 DEF ApproveCheck, ReqPC, Pending
  <2>6. CASE RejectCheck(c)
    BY <2>1, <2>2, <2>6 DEF RejectCheck, ReqPC, Pending
  <2>7. CASE Dequeue(c)
    BY <2>1, <2>7 DEF Dequeue, ReqPC
  <2>8. CASE Reread(c)
    <3>1. req[c].copy.status \in Status
      BY <2>8 DEF Reread, ReqAt, TypeOK
    <3> QED
      BY <2>1, <2>2, <2>8, <3>1
      DEF Reread, UpdateSkipped, UpdateRefused, ValidTransition, Status, ReqPC, Pending
  <2>9. CASE CheckTtl(c)
    BY <2>1, <2>9 DEF CheckTtl, UpdateSkipped, Exists, ReqPC, Pending
  <2>10. CASE WriteStatus(c)
    <3>1. /\ g \in Hash /\ entry' = [entry EXCEPT ![g] = req[c].copy]
          /\ req[c].pc = "write"
      BY <2>10 DEF WriteStatus, ReqAt, TypeOK
    <3>2. CASE req[c].op = "approve"
      BY <1>0, <2>10, <3>2, ReqMoves DEF WriteStatus, Removing, ReqPC
    <3>3. CASE req[c].op # "approve"
      <4>1. entry'[g].status = "rejected"
        BY <1>0, <3>1, <3>3 DEF WritesDecision
      <4>2. req'[c].hash = g /\ req'[c].pc = "cleanup"
        BY <1>0, <2>10, <3>3, ReqMoves DEF WriteStatus, ReqPC
      <4> QED
        BY <4>1, <4>2 DEF Removing, Pending
    <3> QED
      BY <3>2, <3>3
  <2>11. CASE Cleanup(c)
    BY <2>1, <2>11 DEF Cleanup, ReqPC
  <2>12. CASE ReleaseLock(c) \/ Forget(c)
    BY <2>3, <2>12 DEF ReleaseLock, Forget
  <2>13. CASE Fetch(c)
    <3>1. req'[c].pc = "sweep" /\ req'[c].batch = {b \in req[c].batch : Stale(b)}
      BY <1>0, <2>13 DEF Fetch, ReqState
    <3> QED
      BY <2>13, <3>1 DEF Fetch, Removing, Stale, Pending
  <2>14. CASE Sweep(c)
    <3>1. ASSUME NEW b, req' = [req EXCEPT ![c].batch = req[c].batch \ {b}]
          PROVE  Removing(c, h)
      <4>1. /\ req'[c].pc = req[c].pc
            /\ req'[c].batch = req[c].batch \ {b}
        BY <1>0, <3>1 DEF ReqState
      <4> QED
        BY <2>14, <4>1 DEF Removing, Sweep, ReqAt
    <3> QED
      BY <2>3, <2>14, <3>1 DEF Sweep
  <2> QED
    BY <1>4, <2>4, <2>5, <2>6, <2>7, <2>8, <2>9, <2>10, <2>11, <2>12, <2>13, <2>14
    DEF ClientStep
<1>5. CASE UNCHANGED req
  BY <1>1, <1>5
<1>6. \/ \E w \in Worker : JobStep(w) \/ AbandonJob(w) \/ \E g \in Hash : StartJob(w, g)
      \/ \E g \in Hash : Expire(g) \/ LockExpire(g)
      \/ UNCHANGED vars
      => UNCHANGED req
  BY DEF JobStep, Lookup, Create, Enqueue, ReadForAnswer, SaveAnswer, AbandonJob,
    StartJob, Expire, LockExpire, vars
<1> QED
  BY <1>2, <1>3, <1>4, <1>5, <1>6 DEF Next

\* A job that is about to enqueue does so, or fails, or finds the queue full.
LEMMA Enqueues ==
  ASSUME TypeOK, [Next]_vars, NEW w \in Worker, NEW h \in Hash, Queueing(w, h)
  PROVE  Queueing(w, h)' \/ h \in queue' \/ NeverListed(h)
<1>0. job \in [Worker -> JobState]
  BY DEF TypeOK
<1>1. CASE Enqueue(w)
  <2>1. CASE HasRoom
    BY <1>1, <2>1 DEF Enqueue, Queueing
  <2>2. CASE ~HasRoom
    <3>1. Cardinality(queue) \in Nat
      BY FiniteAssumption, FS_Subset, FS_CardinalityType DEF TypeOK
    <3>2. Cardinality(queue) >= QueueCap
      BY <2>2, <3>1, CapAssumption DEF HasRoom
    <3>3. ~JobAt(w, "enqueue")'
      BY <1>0, <1>1, JobMoves DEF Enqueue, JobAt, JobPC
    <3> QED
      BY <3>2, <3>3 DEF NeverListed, Queueing
  <2> QED
    BY <2>1, <2>2
<1>2. CASE AbandonJob(w)
  <2>1. ~JobAt(w, "enqueue")'
    BY <1>0, <1>2, JobEnds DEF AbandonJob, JobAt, IdleJob
  <2> QED
    BY <1>2, <2>1 DEF NeverListed, Queueing
<1>3. CASE job'[w] = job[w]
  BY <1>3 DEF Queueing, JobAt
<1>4. ASSUME NEW v \in Worker \ {w},
             JobStep(v) \/ AbandonJob(v) \/ \E g \in Hash : StartJob(v, g)
      PROVE  job'[w] = job[w]
  <2>1. \/ JobDone(v) \/ \E p : JobGoto(v, p)
        \/ \E x : job' = [job EXCEPT ![v] = x]
    BY <1>4 DEF JobStep, Lookup, Create, Enqueue, ReadForAnswer, SaveAnswer, AbandonJob,
      StartJob
  <2> QED
    BY <1>0, <2>1 DEF JobDone, JobGoto
<1>5. ~(Lookup(w) \/ Create(w) \/ ReadForAnswer(w) \/ SaveAnswer(w)) /\ \A g \in Hash : ~StartJob(w, g)
  BY DEF Lookup, Create, ReadForAnswer, SaveAnswer, StartJob, JobAt, Queueing
<1>6. ASSUME NEW c \in Client, ClientStep(c) PROVE UNCHANGED job
  BY <1>6 DEF ClientStep, AcquireLock, ApproveCheck, RejectCheck, Dequeue, Reread,
    CheckTtl, WriteStatus, Cleanup, ReleaseLock, Forget, Fetch, Sweep
<1> QED
  BY <1>1, <1>2, <1>3, <1>4, <1>5, <1>6 DEF Next, JobStep, List, RequestFails, Crash,
    Delete, StartReview, Expire, LockExpire, vars

LEMMA QueueStep ==
  ASSUME TypeOK, DecidedInv, QueueInv, [HistoryNext]_allVars
  PROVE  QueueInv'
<1>1. CASE UNCHANGED allVars
  BY <1>1 DEF QueueInv, allVars, Pending, Queueing, Deciding, Removing, JobAt
<1>2. CASE HistoryNext
  <2> SUFFICES ASSUME NEW h \in Hash, Pending(h)'
               PROVE  /\ \/ h \in (queue \cup unlisted)'
                         \/ \E w \in Worker : Queueing(w, h)'
                         \/ \E c \in Client : Deciding(c, h)'
                      /\ \A c \in Client : Removing(c, h)' => h \in unlisted'
    BY DEF QueueInv
  <2>1. ASSUME h \in unlisted \/ Slips(h),
               h \notin queue' \/ \E c \in Client : Removing(c, h)'
        PROVE  h \in unlisted'
    BY <1>2, <2>1, HistoryStep DEF Remember
  <2>2. [Next]_vars
    BY <1>2, HistoryStep
  <2>3. ASSUME ~Pending(h), NEW c \in Client, Removing(c, h) \/ WriteStatus(c) PROVE Slips(h)
    BY <2>3 DEF Slips, BackTooSoon
  <2>4. ASSUME NEW c \in Client, Removing(c, h)' PROVE h \in unlisted'
    <3>1. Removing(c, h)
      BY <2>2, <2>4, NeverRemovesPending
    <3>2. h \in unlisted \/ Slips(h)
      BY <2>3, <3>1 DEF QueueInv
    <3> QED
      BY <2>1, <2>4, <3>2
  <2>5. \/ h \in (queue \cup unlisted)'
        \/ \E w \in Worker : Queueing(w, h)'
        \/ \E c \in Client : Deciding(c, h)'
    <3>1. CASE h \in queue'
      BY <3>1
    <3>2. CASE ~Pending(h)
      BY <2>1, <2>2, <2>3, <3>1, <3>2, BecomesPending
    <3>3. CASE Pending(h) /\ h \notin queue'
      <4>1. CASE h \in unlisted
        BY <2>1, <3>3, <4>1
      <4>2. CASE h \in queue
        <5>1. ASSUME NEW c \in Client, Removing(c, h) PROVE h \in unlisted'
          BY <2>1, <3>3, <5>1 DEF QueueInv
        <5> QED
          BY <2>2, <3>3, <4>2, <5>1, LeavesQueue
      <4>3. ASSUME NEW w \in Worker, Queueing(w, h)
            PROVE  Queueing(w, h)' \/ h \in unlisted'
        BY <2>1, <2>2, <3>3, <4>3, Enqueues DEF Slips
      <4>4. ASSUME NEW c \in Client, Deciding(c, h)
            PROVE  Deciding(c, h)' \/ h \in unlisted'
        BY <2>1, <3>3, <4>4 DEF Slips, ApprovalLost
      <4> QED
        BY <3>3, <4>1, <4>2, <4>3, <4>4 DEF QueueInv
    <3> QED
      BY <3>1, <3>2, <3>3
  <2> QED
    BY <2>4, <2>5
<1> QED
  BY <1>1, <1>2

\* Every entry that waits for a review is in the queue the reviewers are shown, or has
\* slipped in one of the ways that CacheHistory names; for any number of workers,
\* requests and entries, and under every fault (review.py 88-98, service.py 89-92,
\* routers/cache.py 56-62).
THEOREM Reviewable == HistorySpec => []PendingIsReviewable
<1>1. HistoryInit => DecidedInv /\ QueueInv
  <2>1. IdleJob.pc = "idle" /\ IdleReq.pc = "idle" /\ NoEntry.status = "absent"
    BY DEF IdleJob, IdleReq, NoEntry
  <2> QED
    BY <2>1 DEF HistoryInit, Init, DecidedInv, SavesApproved, WritesDecision, QueueInv, Pending
<1>2. TypeOK /\ DecidedInv /\ [HistoryNext]_allVars => DecidedInv'
  <2>1. [HistoryNext]_allVars => [Next]_vars
    BY HistoryStep DEF allVars, vars
  <2> QED
    BY <2>1, DecidedStep
<1>3. TypeOK /\ DecidedInv /\ QueueInv /\ [HistoryNext]_allVars => QueueInv'
  BY QueueStep
<1>4. QueueInv => PendingIsReviewable
  BY DEF QueueInv, Queueing, Deciding, PendingIsReviewable, Settled, JobAt, Critical
<1>5. HistorySpec => []TypeOK
  BY HistoryIsSpec, Typing, PTL
<1> QED
  BY <1>1, <1>2, <1>3, <1>4, <1>5, PTL DEF HistorySpec

=============================================================================
