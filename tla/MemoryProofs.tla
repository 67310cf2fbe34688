---------------------------- MODULE MemoryProofs ----------------------------
(***************************************************************************)
(* Theorems about Memory, for any number of requests, any threshold, cap   *)
(* and window, and any failures.                                           *)
(***************************************************************************)
EXTENDS Memory, FiniteSetTheorems, TLAPS

-----------------------------------------------------------------------------
(* Requests.                                                               *)

LEMMA IdleType == Idle \in Request /\ Idle.pc = "idle"
BY MemoryAssumption DEF Idle, Request, RequestPC

\* Going on to another call forgets what was read.
LEMMA GoesTo ==
  ASSUME request \in [Writer -> Request], NEW w \in Writer, NEW label \in RequestPC,
         Goto(w, label)
  PROVE  /\ request' \in [Writer -> Request]
         /\ request'[w].pc = label
         /\ \A v \in Writer \ {w} : request'[v] = request[v]
<1> DEFINE r == [Idle EXCEPT !.pc = label]
<1>1. r \in Request /\ r.pc = label
  BY IdleType DEF Idle, Request
<1>2. request' = [request EXCEPT ![w] = r]
  BY DEF Goto
<1> HIDE DEF r
<1> QED
  BY <1>1, <1>2

LEMMA Ends ==
  ASSUME request \in [Writer -> Request], NEW w \in Writer, Done(w)
  PROVE  /\ request' \in [Writer -> Request]
         /\ request'[w].pc = "idle"
         /\ \A v \in Writer \ {w} : request'[v] = request[v]
BY IdleType DEF Done

\* What was read of the turns so far is still among them when there are more.
LEMMA RequestGrows ==
  ASSUME appended \in Nat, appended' \in Nat, appended <= appended'
  PROVE  Request \subseteq Request'
<1>1. 1 .. appended \subseteq 1 .. appended'
  OBVIOUS
<1> QED
  BY <1>1 DEF Request

\* What LTRIM leaves, and what the LLM is shown.
LEMMA CutType ==
  ASSUME NEW n \in Nat, NEW first \in 1 .. n + 1
  PROVE  /\ Trimmed(n, first) \in first .. n + 1
         /\ n + 1 - Trimmed(n, first) <= MaxTurns
         /\ Shown(n, first) \in first .. n + 1
         /\ n + 1 - first <= MaxTurns => Trimmed(n, first) = first /\ Shown(n, first) = first
BY MemoryAssumption DEF Trimmed, Shown

-----------------------------------------------------------------------------
(* Counting requests.                                                      *)

Trimming == {w \in Writer : RequestAt(w, "trim")}

LEMMA Counting ==
  ASSUME IsFiniteSet(Writer), NEW S, S \subseteq Writer
  PROVE  /\ IsFiniteSet(S) /\ Cardinality(S) \in Nat
         /\ Cardinality(S) <= Cardinality(Writer) /\ Cardinality(Writer) \in Nat
         /\ \A w \in S : Cardinality(S) = Cardinality(S \ {w}) + 1
BY FS_Subset, FS_CardinalityType, FS_RemoveElement

LEMMA Longer ==
  ASSUME NEW n \in Nat, NEW first \in Nat, NEW more \in Nat, NEW most \in Nat,
         NEW extra \in Nat, n + 1 - first <= most
  PROVE  n + 1 - first <= most + more + extra
OBVIOUS

\* Of two sets that differ in one element at most, one has at most one more.
LEMMA CountsOneMore ==
  ASSUME IsFiniteSet(Writer), NEW S, S \subseteq Writer, NEW T, T \subseteq Writer,
         NEW w \in Writer, S \ {w} = T \ {w}
  PROVE  /\ w \in T => Cardinality(S) <= Cardinality(T)
         /\ w \in T /\ w \notin S => Cardinality(T) = Cardinality(S) + 1
         /\ Cardinality(S) <= Cardinality(T) + 1
<1>1. S \ {w} \subseteq Writer
  OBVIOUS
<1>2. CASE w \in S /\ w \in T
  <2>1. S = T
    BY <1>2
  <2> QED
    BY <1>2, <2>1, Counting
<1>3. CASE w \in S /\ w \notin T
  <2>1. S \ {w} = T
    BY <1>3
  <2> QED
    BY <1>3, <2>1, Counting
<1>4. CASE w \notin S /\ w \in T
  <2>1. T \ {w} = S
    BY <1>4
  <2> QED
    BY <1>4, <2>1, Counting
<1>5. CASE w \notin S /\ w \notin T
  <2>1. S = T
    BY <1>5
  <2> QED
    BY <1>5, <2>1, Counting
<1> QED
  BY <1>2, <1>3, <1>4, <1>5

\* A step of one request changes the count of those at one point by one at most.
LEMMA OthersStay ==
  ASSUME NEW w \in Writer, \A v \in Writer \ {w} : request'[v] = request[v]
  PROVE  /\ Trimming' \ {w} = Trimming \ {w}
         /\ Trimming \subseteq Writer /\ Trimming' \subseteq Writer
         /\ w \in Trimming <=> request[w].pc = "trim"
         /\ w \in Trimming' <=> request'[w].pc = "trim"
BY DEF Trimming, RequestAt

-----------------------------------------------------------------------------
(* Types.                                                                  *)

\* The parts of TypeOK, with names for its sets.
LEMMA TypeParts ==
  TypeOK <=>
    /\ appended \in 0 .. MaxAppended /\ oldest \in 1 .. appended + 1
    /\ summary \subseteq 1 .. appended /\ request \in [Writer -> Request]
    /\ failures \in 0 .. MaxFailures /\ excuses \subseteq {"disturbed", "expired"}
    /\ appended + 1 - oldest <= MaxTurns + failures + Cardinality(Trimming)
BY DEF TypeOK, Trimming

LEMMA TypeStarts == ASSUME IsFiniteSet(Writer) PROVE Init => TypeOK
<1> SUFFICES ASSUME Init PROVE TypeOK
  OBVIOUS
<1>1. Cardinality(Trimming) \in Nat
  BY Counting DEF Trimming
<1>2. request \in [Writer -> Request]
  BY IdleType DEF Init
<1> QED
  BY <1>1, <1>2, TypeParts, MemoryAssumption DEF Init

LEMMA TypeStays ==
  ASSUME IsFiniteSet(Writer), TypeOK, [Next]_vars
  PROVE  TypeOK'
<1>0. /\ appended \in 0 .. MaxAppended /\ oldest \in 1 .. appended + 1
      /\ summary \subseteq 1 .. appended /\ request \in [Writer -> Request]
      /\ failures \in 0 .. MaxFailures /\ excuses \subseteq {"disturbed", "expired"}
      /\ appended + 1 - oldest <= MaxTurns + failures + Cardinality(Trimming)
      /\ appended \in Nat /\ failures \in Nat /\ oldest \in Nat
      /\ Cardinality(Trimming) \in Nat /\ MaxTurns \in Nat
      /\ MaxAppended \in Nat /\ MaxFailures \in Nat
  BY TypeParts, MemoryAssumption, Counting DEF Trimming
<1>1. TypeOK' <=>
        /\ appended' \in 0 .. MaxAppended /\ oldest' \in 1 .. appended' + 1
        /\ summary' \subseteq 1 .. appended' /\ request' \in [Writer -> Request']
        /\ failures' \in 0 .. MaxFailures /\ excuses' \subseteq {"disturbed", "expired"}
        /\ appended' + 1 - oldest' <= MaxTurns + failures' + Cardinality(Trimming')
  BY DEF TypeOK, Trimming
\* A step that adds no turn and, if it is one of a request at "trim", cuts the list or
\* fails.
<1>2. ASSUME NEW w \in Writer, request' \in [Writer -> Request],
             \A v \in Writer \ {w} : request'[v] = request[v],
             appended' = appended, oldest' \in oldest .. appended + 1,
             summary' \subseteq 1 .. appended, failures' \in 0 .. MaxFailures,
             failures <= failures', UNCHANGED excuses,
             \/ request[w].pc # "trim"
             \/ failures' = failures + 1
             \/ appended + 1 - oldest' <= MaxTurns
      PROVE  TypeOK'
  <2>1. Request' = Request
    BY <1>2 DEF Request
  <2>2. Cardinality(Trimming') \in Nat
    BY Counting DEF Trimming
  <2>3. Cardinality(Trimming) <= Cardinality(Trimming') + 1
    BY <1>2, OthersStay, CountsOneMore
  <2>4. request[w].pc # "trim" => Cardinality(Trimming) <= Cardinality(Trimming')
    <3>1. CASE w \in Trimming'
      BY <1>2, <3>1, OthersStay, CountsOneMore
    <3>2. CASE w \notin Trimming' /\ request[w].pc # "trim"
      <4>1. Trimming' \ {w} = Trimming \ {w} /\ w \notin Trimming
        BY <1>2, <3>2, OthersStay
      <4>2. Trimming' = Trimming
        BY <4>1, <3>2
      <4> QED
        BY <4>2, <2>2
    <3> QED
      BY <3>1, <3>2
  <2>5. appended' + 1 - oldest' <= MaxTurns + failures' + Cardinality(Trimming')
    <3>1. appended' = appended /\ failures' \in Nat /\ failures <= failures'
      BY <1>0, <1>2
    <3>2. oldest' \in Nat /\ oldest <= oldest'
      BY <1>0, <1>2
    <3>3. CASE request[w].pc # "trim"
      BY <1>0, <3>1, <3>2, <3>3, <2>2, <2>4
    <3>4. CASE failures' = failures + 1
      BY <1>0, <3>1, <3>2, <3>4, <2>2, <2>3
    <3>5. CASE appended + 1 - oldest' <= MaxTurns
      BY <1>0, <3>1, <3>2, <3>5, <2>2, Longer
    <3> QED
      BY <1>2, <3>3, <3>4, <3>5
  <2>6. oldest' \in 1 .. appended' + 1
    BY <1>0, <1>2
  <2> QED
    BY <1>0, <1>1, <1>2, <2>1, <2>5, <2>6
<1>3. ASSUME NEW w \in Writer, Push(w)
      PROVE  TypeOK'
  <2>1. /\ request' \in [Writer -> Request] /\ request'[w].pc = "trim"
        /\ \A v \in Writer \ {w} : request'[v] = request[v]
    BY <1>0, <1>3, GoesTo DEF Push, RequestPC
  <2>2. /\ appended' = appended + 1 /\ appended < MaxAppended /\ request[w].pc = "idle"
        /\ UNCHANGED <<oldest, summary, failures>>
        /\ excuses' = excuses \/ excuses' = excuses \cup {"disturbed"}
    BY <1>3 DEF Push, RequestAt
  <2>3. Request \subseteq Request'
    BY <1>0, <2>2, RequestGrows
  <2>4. Cardinality(Trimming') = Cardinality(Trimming) + 1
    BY <2>1, <2>2, OthersStay, CountsOneMore
  <2>5. request' \in [Writer -> Request']
    BY <2>1, <2>3
  <2>6. /\ appended' \in 0 .. MaxAppended /\ oldest' \in 1 .. appended' + 1
        /\ appended' + 1 - oldest' <= MaxTurns + failures' + Cardinality(Trimming')
    BY <1>0, <2>2, <2>4
  <2>7. summary' \subseteq 1 .. appended' /\ excuses' \subseteq {"disturbed", "expired"}
    <3>1. 1 .. appended \subseteq 1 .. appended + 1
      BY <1>0
    <3> QED
      BY <1>0, <2>2, <3>1
  <2> QED
    BY <1>0, <1>1, <2>2, <2>5, <2>6, <2>7
<1>4. ASSUME NEW w \in Writer, Summarize(w)
      PROVE  TypeOK'
  BY <1>0, <1>2, <1>4, GoesTo DEF Summarize, RequestPC, RequestAt, listVars
<1>5. ASSUME NEW w \in Writer, RequestStep(w)
      PROVE  TypeOK'
  <2>1. CASE Trim(w)
    <3>1. /\ request' \in [Writer -> Request]
          /\ \A v \in Writer \ {w} : request'[v] = request[v]
      BY <1>0, <2>1, GoesTo DEF Trim, RequestPC
    <3>2. /\ oldest' = Trimmed(appended, oldest)
          /\ UNCHANGED <<appended, summary, failures, excuses>>
      BY <2>1 DEF Trim
    <3>3. oldest' \in oldest .. appended + 1 /\ appended + 1 - oldest' <= MaxTurns
      BY <1>0, <3>2, CutType
    <3> QED
      BY <1>0, <1>2, <3>1, <3>2, <3>3
  <2>2. CASE Count(w)
    <3> DEFINE r == [request[w] EXCEPT !.pc = "expire", !.count = appended + 1 - oldest]
    <3>1. appended + 1 - oldest \in Nat
      BY <1>0
    <3>2. r \in Request
      BY <1>0, <3>1 DEF Request, RequestPC
    <3>3. request' = [request EXCEPT ![w] = r]
      BY <2>2 DEF Count
    <3> HIDE DEF r
    <3>4. /\ request' \in [Writer -> Request]
          /\ \A v \in Writer \ {w} : request'[v] = request[v]
      BY <1>0, <3>2, <3>3
    <3>5. UNCHANGED <<appended, oldest, summary, failures, excuses>> /\ request[w].pc # "trim"
      BY <2>2 DEF Count, RequestAt, listVars
    <3> QED
      BY <1>0, <1>2, <3>4, <3>5
  <2>3. CASE SetTtl(w)
    BY <1>0, <1>2, <2>3, GoesTo, Ends DEF SetTtl, RequestPC, RequestAt, listVars
  <2>4. CASE GetTurns(w)
    <3> DEFINE shown == Shown(appended, oldest) .. appended
               r == [request[w] EXCEPT !.pc = "previous", !.window = shown]
    <3>1. shown \in SUBSET (1 .. appended)
      BY <1>0, CutType
    <3>2. request' = [request EXCEPT ![w] = r]
      BY <2>4 DEF GetTurns
    <3> HIDE DEF shown
    <3>3. r \in Request
      BY <1>0, <3>1 DEF Request, RequestPC
    <3> HIDE DEF r
    <3>4. /\ request' \in [Writer -> Request]
          /\ \A v \in Writer \ {w} : request'[v] = request[v]
      BY <1>0, <3>2, <3>3
    <3>5. UNCHANGED <<appended, oldest, summary, failures, excuses>> /\ request[w].pc # "trim"
      BY <2>4 DEF GetTurns, RequestAt, listVars
    <3> QED
      BY <1>0, <1>2, <3>4, <3>5
  <2>5. CASE GetPrevious(w)
    <3> DEFINE r == [request[w] EXCEPT !.pc = "save", !.previous = summary]
    <3>1. r \in Request
      BY <1>0 DEF Request, RequestPC
    <3>2. \/ request' = [request EXCEPT ![w] = r]
          \/ Goto(w, "clear")
          \/ Done(w)
      BY <2>5 DEF GetPrevious
    <3> HIDE DEF r
    <3>3. /\ request' \in [Writer -> Request]
          /\ \A v \in Writer \ {w} : request'[v] = request[v]
      BY <1>0, <3>1, <3>2, GoesTo, Ends DEF RequestPC
    <3> QED
      BY <1>0, <1>2, <2>5, <3>3 DEF GetPrevious, RequestAt, listVars
  <2>6. CASE Save(w)
    <3>1. request[w] \in Request /\ Goto(w, "clear")
      BY <1>0, <2>6 DEF Save, AfterSave
    <3>2. summary' \subseteq 1 .. appended
      BY <2>6, <3>1 DEF Save, Compacted, Request
    <3> QED
      BY <1>0, <1>2, <2>6, <3>1, <3>2, GoesTo DEF Save, RequestPC, RequestAt, listVars
  <2>7. CASE Clear(w)
    BY <1>0, <1>2, <2>7, Ends DEF Clear, RequestAt
  <2> QED
    BY <1>5, <2>1, <2>2, <2>3, <2>4, <2>5, <2>6, <2>7 DEF RequestStep
<1>6. ASSUME NEW w \in Writer, ClearFails(w)
      PROVE  TypeOK'
  <2> DEFINE r == [request[w] EXCEPT !.attempt = @ + 1]
  <2>1. CASE LastAttempt(request[w].attempt)
    BY <1>0, <1>2, <1>6, <2>1, Ends DEF ClearFails
  <2>2. CASE ~LastAttempt(request[w].attempt)
    <3>1. request[w].attempt + 1 \in 1 .. ClearRetries
      BY <1>0, <2>2, MemoryAssumption DEF LastAttempt, Request
    <3>2. r \in Request
      BY <1>0, <3>1 DEF Request
    <3>3. request' = [request EXCEPT ![w] = r]
      BY <1>6, <2>2 DEF ClearFails
    <3> HIDE DEF r
    <3> QED
      BY <1>0, <1>2, <1>6, <3>2, <3>3 DEF ClearFails
  <2> QED
    BY <2>1, <2>2
<1>7. ASSUME NEW w \in Writer, Fails(w)
      PROVE  TypeOK'
  BY <1>0, <1>2, <1>7, Ends DEF Fails, listVars
<1>8. CASE Expire
  <2>1. /\ oldest' = appended + 1 /\ excuses' = excuses \cup {"expired"}
        /\ UNCHANGED <<appended, summary, request, failures>>
    BY <1>8 DEF Expire
  <2>2. Request' = Request /\ Trimming' = Trimming
    BY <2>1 DEF Request, Trimming, RequestAt
  <2>3. oldest' \in 1 .. appended' + 1
    BY <1>0, <2>1
  <2>4. appended' + 1 - oldest' <= MaxTurns + failures' + Cardinality(Trimming')
    BY <1>0, <2>1, <2>2
  <2> QED
    BY <1>0, <1>1, <2>1, <2>2, <2>3, <2>4
<1>9. CASE UNCHANGED vars
  BY <1>9 DEF vars, listVars, TypeOK, Request, RequestAt
<1> QED
  BY <1>3, <1>4, <1>5, <1>6, <1>7, <1>8, <1>9 DEF Next

\* Every operation keeps every variable within its type, and the list within its cap
\* and the turns whose LTRIM is outstanding (Memory.TypeOK, recent.py 16-17).
THEOREM Typing ==
  ASSUME IsFiniteSet(Writer)
  PROVE  Spec => []TypeOK
<1>1. TypeOK /\ [Next]_vars => TypeOK'
  BY TypeStays
<1> QED
  BY <1>1, TypeStarts, PTL DEF Spec

-----------------------------------------------------------------------------
(* No turn is lost.                                                        *)

\* The requests that may still fold the list, or find that it is short.
Pending ==
  {w \in Writer : \/ request[w].pc \in {"trim", "count", "turns", "previous", "save", "clear"}
                  \/ RequestAt(w, "expire") /\ Full(request[w].count)}

\* The condition of NothingLost.
Quiet == excuses = {} /\ Threshold + failures + Cardinality(Writer) <= MaxTurns + 1

\* What the list has beyond the turns that trigger a compaction, there is a request
\* or a failure to account for.
Within == appended + 2 - oldest <= Threshold + failures + Cardinality(Pending)

Intact == 1 .. appended \subseteq Recent \cup summary

\* A compaction holds what it is going to delete.
ReadAll(w) ==
  /\ RequestAt(w, "previous") => Recent \subseteq request[w].window
  /\ RequestAt(w, "save") => 1 .. appended \subseteq request[w].previous \cup request[w].window
  /\ RequestAt(w, "clear") => 1 .. appended \subseteq summary

KeptInv == Quiet => Within /\ Intact /\ \A w \in Writer : ReadAll(w)

LEMMA KeptStarts == ASSUME IsFiniteSet(Writer) PROVE Init => KeptInv
<1> SUFFICES ASSUME Init PROVE Within /\ Intact /\ \A w \in Writer : ReadAll(w)
  BY DEF KeptInv
<1>1. Cardinality(Pending) \in Nat
  BY Counting DEF Pending
<1>2. Within
  BY <1>1, MemoryAssumption DEF Within, Init
<1>3. Intact
  BY DEF Intact, Init
<1>4. \A w \in Writer : ReadAll(w)
  BY DEF ReadAll, RequestAt, Init, Idle
<1> QED
  BY <1>2, <1>3, <1>4

LEMMA KeptImplies == TypeOK /\ KeptInv => NothingLost
BY DEF KeptInv, Quiet, Intact, NothingLost

\* Without excuses now there were none before.
LEMMA QuietBefore ==
  ASSUME IsFiniteSet(Writer), failures \in Nat, failures' \in Nat, failures <= failures',
         excuses \subseteq excuses', Quiet'
  PROVE  Quiet
<1>1. Cardinality(Writer) \in Nat
  BY FS_CardinalityType
<1>2. excuses = {}
  BY DEF Quiet
<1>3. Threshold + failures' + Cardinality(Writer) <= MaxTurns + 1
  BY DEF Quiet
<1> QED
  BY <1>1, <1>2, <1>3, MemoryAssumption DEF Quiet

\* The room between the threshold and the cap is enough for LTRIM to leave everything.
LEMMA Short ==
  ASSUME IsFiniteSet(Writer), TypeOK, Quiet, Within
  PROVE  appended + 1 - oldest <= MaxTurns
<1>1. Cardinality(Pending) \in Nat /\ Cardinality(Pending) <= Cardinality(Writer)
  BY Counting DEF Pending
<1>2. Cardinality(Writer) \in Nat
  BY FS_CardinalityType
<1>3. appended \in Nat /\ oldest \in Nat /\ failures \in Nat
  BY MemoryAssumption DEF TypeOK
<1> QED
  BY <1>1, <1>2, <1>3, MemoryAssumption DEF Quiet, Within

LEMMA Account ==
  ASSUME NEW n \in Nat, NEW first \in Nat, NEW later \in Nat, NEW limit \in Nat,
         NEW few \in Nat, NEW more \in Nat, NEW before \in Nat, NEW after \in Nat,
         n + 2 - first <= limit + few + before, first <= later, few <= more,
         before <= after + 1, more = few + 1 \/ before <= after
  PROVE  n + 2 - later <= limit + more + after
OBVIOUS

LEMMA OthersPend ==
  ASSUME NEW w \in Writer, \A v \in Writer \ {w} : request'[v] = request[v]
  PROVE  /\ Pending' \ {w} = Pending \ {w}
         /\ Pending \subseteq Writer /\ Pending' \subseteq Writer
BY DEF Pending, RequestAt

\* Whoever shortens the list, fails, or stays in charge of it keeps the account.
LEMMA WithinStays ==
  ASSUME IsFiniteSet(Writer), TypeOK, TypeOK', Within, NEW w \in Writer,
         \A v \in Writer \ {w} : request'[v] = request[v],
         appended' = appended, oldest <= oldest', failures <= failures',
         \/ appended + 1 - oldest' < Threshold
         \/ failures' = failures + 1
         \/ w \notin Pending
         \/ w \in Pending'
  PROVE  Within'
<1> DEFINE n == Cardinality(Pending)
           m == Cardinality(Pending')
<1>1. n \in Nat /\ m \in Nat
  BY Counting, OthersPend
<1>2. n <= m + 1 /\ (w \notin Pending \/ w \in Pending' => n <= m)
  <2>1. n <= m + 1 /\ (w \in Pending' => n <= m)
    BY OthersPend, CountsOneMore
  <2>2. CASE w \notin Pending /\ w \notin Pending'
    <3>1. Pending' = Pending
      BY <2>2, OthersPend
    <3> QED
      BY <1>1, <2>1, <3>1
  <2> QED
    BY <2>1, <2>2
<1>3. /\ appended \in Nat /\ oldest \in Nat /\ oldest' \in Nat
      /\ failures \in Nat /\ failures' \in Nat /\ Threshold \in Nat
  BY MemoryAssumption DEF TypeOK
<1>4. appended + 2 - oldest <= Threshold + failures + n
  BY DEF Within
<1>5. Within' <=> appended + 2 - oldest' <= Threshold + failures' + m
  BY DEF Within
<1> HIDE DEF n, m
<1>6. CASE appended + 1 - oldest' < Threshold
  BY <1>1, <1>3, <1>5, <1>6
<1>7. CASE failures' = failures + 1
  BY <1>1, <1>2, <1>3, <1>4, <1>5, <1>7, Account
<1>8. CASE w \notin Pending \/ w \in Pending'
  BY <1>1, <1>2, <1>3, <1>4, <1>5, <1>8, Account
<1> QED
  BY <1>6, <1>7, <1>8

\* What one request must see to when it appends nothing.
LEMMA StepKeeps ==
  ASSUME IsFiniteSet(Writer), TypeOK, TypeOK', KeptInv, NEW w \in Writer,
         \A v \in Writer \ {w} : request'[v] = request[v],
         appended' = appended, oldest <= oldest', failures <= failures',
         excuses \subseteq excuses',
         Quiet => /\ \/ appended + 1 - oldest' < Threshold
                     \/ failures' = failures + 1
                     \/ w \notin Pending
                     \/ w \in Pending'
                  /\ summary \subseteq summary' \/ 1 .. appended \subseteq summary'
                  /\ 1 .. appended \subseteq oldest' .. appended \cup summary'
                  /\ ReadAll(w)'
  PROVE  KeptInv'
<1> SUFFICES ASSUME Quiet' PROVE Within' /\ Intact' /\ \A v \in Writer : ReadAll(v)'
  BY DEF KeptInv
<1>1. /\ appended \in Nat /\ oldest \in Nat /\ oldest' \in Nat
      /\ failures \in Nat /\ failures' \in Nat
  BY MemoryAssumption DEF TypeOK
<1>2. Quiet
  BY <1>1, QuietBefore
<1>3. Within /\ Intact /\ \A v \in Writer : ReadAll(v)
  BY <1>2 DEF KeptInv
<1>4. Within'
  BY <1>2, <1>3, WithinStays
<1>5. Intact'
  BY <1>2 DEF Intact, Recent
<1>6. ASSUME NEW v \in Writer \ {w}
      PROVE  ReadAll(v)'
  <2>1. ReadAll(v) /\ request'[v] = request[v]
    BY <1>3, <1>6
  <2>2. Recent' \subseteq Recent
    BY <1>1 DEF Recent
  <2>3. summary \subseteq summary' \/ 1 .. appended \subseteq summary'
    BY <1>2
  <2> QED
    BY <2>1, <2>2, <2>3 DEF ReadAll, RequestAt
<1> QED
  BY <1>2, <1>4, <1>5, <1>6

\* A turn that is appended has a request to account for it, and finds no list that has
\* been read.
LEMMA PushKeeps ==
  ASSUME IsFiniteSet(Writer), TypeOK, TypeOK', KeptInv, NEW w \in Writer, Push(w)
  PROVE  KeptInv'
<1> SUFFICES ASSUME Quiet' PROVE Within' /\ Intact' /\ \A v \in Writer : ReadAll(v)'
  BY DEF KeptInv
<1>1. /\ appended' = appended + 1 /\ request[w].pc = "idle"
      /\ UNCHANGED <<oldest, summary, failures>> /\ excuses \subseteq excuses'
      /\ \A v \in Writer : Compacting(v) => "disturbed" \in excuses'
  BY DEF Push, RequestAt
<1>2. /\ request'[w].pc = "trim"
      /\ \A v \in Writer \ {w} : request'[v] = request[v]
  BY GoesTo DEF Push, RequestPC, TypeOK
<1>3. /\ appended \in Nat /\ oldest \in Nat /\ oldest <= appended + 1 /\ failures \in Nat
      /\ Threshold \in Nat
  BY MemoryAssumption DEF TypeOK
<1>4. Within /\ Intact
  BY <1>1, <1>3, QuietBefore DEF KeptInv
<1>5. Within'
  <2>1. w \notin Pending /\ w \in Pending'
    BY <1>1, <1>2 DEF Pending, RequestAt
  <2>2. Cardinality(Pending') = Cardinality(Pending) + 1 /\ Cardinality(Pending) \in Nat
    BY <1>2, <2>1, OthersPend, CountsOneMore, Counting
  <2>3. Within' <=> (appended + 1) + 2 - oldest <= Threshold + failures + Cardinality(Pending')
    BY <1>1 DEF Within
  <2> QED
    BY <1>3, <1>4, <2>2, <2>3 DEF Within
<1>6. Intact'
  <2>1. 1 .. appended + 1 \subseteq oldest .. appended + 1 \cup summary
    BY <1>3, <1>4 DEF Intact, Recent
  <2> QED
    BY <1>1, <2>1 DEF Intact, Recent
<1>7. \A v \in Writer : ReadAll(v)'
  <2>1. \A v \in Writer : ~Compacting(v)
    BY <1>1 DEF Quiet
  <2> QED
    BY <1>2, <2>1 DEF ReadAll, RequestAt, Compacting
<1> QED
  BY <1>5, <1>6, <1>7

LEMMA StepKept ==
  ASSUME IsFiniteSet(Writer), TypeOK, TypeOK', KeptInv, NEW w \in Writer, RequestStep(w)
  PROVE  KeptInv'
<1>1. /\ appended \in Nat /\ oldest \in Nat /\ oldest <= appended + 1 /\ failures \in Nat
      /\ Threshold \in Nat \ {0} /\ request \in [Writer -> Request]
  BY MemoryAssumption DEF TypeOK
<1>2. Quiet => /\ Within /\ ReadAll(w) /\ appended + 1 - oldest <= MaxTurns
               /\ 1 .. appended \subseteq oldest .. appended \cup summary
  BY Short DEF KeptInv, Intact, Recent
<1>3. CASE Trim(w)
  <2>1. /\ request'[w].pc = "count"
        /\ \A v \in Writer \ {w} : request'[v] = request[v]
    BY <1>1, <1>3, GoesTo DEF Trim, RequestPC
  <2>2. oldest' = Trimmed(appended, oldest) /\ UNCHANGED <<appended, summary, failures, excuses>>
    BY <1>3 DEF Trim
  <2>3. oldest \in 1 .. appended + 1
    BY DEF TypeOK
  <2>4. oldest <= oldest' /\ (Quiet => oldest' = oldest)
    BY <1>1, <1>2, <2>2, <2>3, CutType
  <2>5. w \in Pending' /\ ReadAll(w)'
    BY <2>1 DEF Pending, ReadAll, RequestAt
  <2>6. Quiet => 1 .. appended \subseteq oldest' .. appended \cup summary'
    BY <1>2, <2>2, <2>4
  <2>7. failures <= failures' /\ excuses \subseteq excuses' /\ summary \subseteq summary'
    BY <1>1, <2>2
  <2> QED
    BY <2>1, <2>2, <2>4, <2>5, <2>6, <2>7, StepKeeps
<1>4. CASE Count(w)
  <2> DEFINE length == appended + 1 - oldest
  <2>1. /\ request[w].pc = "count" /\ UNCHANGED <<appended, oldest, summary, failures, excuses>>
        /\ request' = [request EXCEPT ![w].pc = "expire", ![w].count = length]
    BY <1>4 DEF Count, RequestAt, listVars
  <2> HIDE DEF length
  <2>2. /\ request'[w].pc = "expire" /\ request'[w].count = length
        /\ \A v \in Writer \ {w} : request'[v] = request[v]
    BY <1>1, <2>1 DEF Request
  <2>3. appended + 1 - oldest' < Threshold \/ w \in Pending'
    BY <1>1, <2>1, <2>2 DEF Pending, RequestAt, Full, length
  <2>4. ReadAll(w)'
    BY <2>2 DEF ReadAll, RequestAt
  <2> QED
    BY <1>1, <1>2, <2>1, <2>2, <2>3, <2>4, StepKeeps
<1>5. CASE SetTtl(w)
  <2>1. /\ request[w].pc = "expire" /\ UNCHANGED <<appended, oldest, summary, failures, excuses>>
        /\ IF Full(request[w].count) THEN Goto(w, "turns") ELSE Done(w)
    BY <1>5 DEF SetTtl, RequestAt, listVars
  <2>2. /\ request'[w].pc = IF Full(request[w].count) THEN "turns" ELSE "idle"
        /\ \A v \in Writer \ {w} : request'[v] = request[v]
    BY <1>1, <2>1, GoesTo, Ends DEF RequestPC
  <2>3. w \notin Pending \/ w \in Pending'
    BY <2>1, <2>2 DEF Pending, RequestAt
  <2>4. ReadAll(w)'
    BY <2>2 DEF ReadAll, RequestAt
  <2> QED
    BY <1>1, <1>2, <2>1, <2>2, <2>3, <2>4, StepKeeps
<1>6. CASE GetTurns(w)
  <2> DEFINE shown == Shown(appended, oldest) .. appended
             r == [request[w] EXCEPT !.pc = "previous", !.window = shown]
  <2>1. UNCHANGED <<appended, oldest, summary, failures, excuses>>
    BY <1>6 DEF GetTurns, listVars
  <2>2. request' = [request EXCEPT ![w] = r]
    BY <1>6 DEF GetTurns
  <2>3. oldest \in 1 .. appended + 1
    BY DEF TypeOK
  <2>4. Quiet => shown = oldest .. appended
    BY <1>1, <1>2, <2>3, CutType
  <2> HIDE DEF shown
  <2>5. r.pc = "previous" /\ r.window = shown
    BY <1>1 DEF Request
  <2> HIDE DEF r
  <2>6. request'[w] = r /\ \A v \in Writer \ {w} : request'[v] = request[v]
    BY <1>1, <2>2
  <2>7. w \in Pending' /\ (Quiet => ReadAll(w)')
    BY <2>1, <2>4, <2>5, <2>6 DEF Pending, ReadAll, RequestAt, Recent
  <2> QED
    BY <1>1, <1>2, <2>1, <2>6, <2>7, StepKeeps
<1>7. CASE GetPrevious(w)
  <2>1. /\ request[w].pc = "previous"
        /\ UNCHANGED <<appended, oldest, summary, failures, excuses>>
    BY <1>7 DEF GetPrevious, RequestAt, listVars
  <2>2. Quiet => oldest .. appended \subseteq request[w].window
    BY <1>2, <2>1 DEF ReadAll, RequestAt, Recent
  <2>3. CASE request[w].window # {}
    <3> DEFINE r == [request[w] EXCEPT !.pc = "save", !.previous = summary]
    <3>1. request' = [request EXCEPT ![w] = r]
      BY <1>7, <2>3 DEF GetPrevious
    <3>2. r.pc = "save" /\ r.previous = summary /\ r.window = request[w].window
      BY <1>1 DEF Request
    <3> HIDE DEF r
    <3>3. request'[w] = r /\ \A v \in Writer \ {w} : request'[v] = request[v]
      BY <1>1, <3>1
    <3>4. w \in Pending' /\ (Quiet => ReadAll(w)')
      BY <1>2, <2>1, <2>2, <3>2, <3>3 DEF Pending, ReadAll, RequestAt
    <3> QED
      BY <1>1, <1>2, <2>1, <3>3, <3>4, StepKeeps
  <2>4. CASE request[w].window = {} /\ summary # {}
    <3>1. Goto(w, "clear")
      BY <1>7, <2>4 DEF GetPrevious
    <3>2. /\ request'[w].pc = "clear"
          /\ \A v \in Writer \ {w} : request'[v] = request[v]
      BY <1>1, <3>1, GoesTo DEF RequestPC
    <3>3. w \in Pending' /\ (Quiet => ReadAll(w)')
      BY <1>2, <2>1, <2>2, <2>4, <3>2 DEF Pending, ReadAll, RequestAt
    <3> QED
      BY <1>1, <1>2, <2>1, <3>2, <3>3, StepKeeps
  <2>5. CASE request[w].window = {} /\ summary = {}
    <3>1. Done(w)
      BY <1>7, <2>5 DEF GetPrevious
    <3>2. /\ request'[w].pc = "idle"
          /\ \A v \in Writer \ {w} : request'[v] = request[v]
      BY <1>1, <3>1, Ends
    <3>3. Quiet => appended + 1 - oldest' < Threshold
      <4>1. Quiet => oldest .. appended = {}
        BY <2>2, <2>5
      <4> QED
        BY <1>1, <2>1, <4>1
    <3>4. ReadAll(w)'
      BY <3>2 DEF ReadAll, RequestAt
    <3> QED
      BY <1>1, <1>2, <2>1, <3>2, <3>3, <3>4, StepKeeps
  <2> QED
    BY <2>3, <2>4, <2>5
<1>8. CASE Save(w)
  <2>1. /\ request[w].pc = "save" /\ UNCHANGED <<appended, oldest, failures, excuses>>
        /\ summary' = request[w].previous \cup request[w].window
        /\ Goto(w, "clear")
    BY <1>8 DEF Save, RequestAt, AfterSave, Compacted, listVars
  <2>2. /\ request'[w].pc = "clear"
        /\ \A v \in Writer \ {w} : request'[v] = request[v]
    BY <1>1, <2>1, GoesTo DEF RequestPC
  <2>3. Quiet => 1 .. appended \subseteq summary'
    BY <1>2, <2>1 DEF ReadAll, RequestAt
  <2>4. w \in Pending' /\ (Quiet => ReadAll(w)')
    BY <2>1, <2>2, <2>3 DEF Pending, ReadAll, RequestAt
  <2> QED
    BY <1>1, <1>2, <2>1, <2>2, <2>3, <2>4, StepKeeps
<1>9. CASE Clear(w)
  <2>1. /\ request[w].pc = "clear" /\ oldest' = appended + 1
        /\ UNCHANGED <<appended, summary, failures, excuses>>
    BY <1>9 DEF Clear, RequestAt
  <2>2. /\ request'[w].pc = "idle"
        /\ \A v \in Writer \ {w} : request'[v] = request[v]
    BY <1>1, <1>9, Ends DEF Clear
  <2>3. Quiet => 1 .. appended \subseteq summary'
    BY <1>2, <2>1 DEF ReadAll, RequestAt
  <2>4. appended + 1 - oldest' < Threshold /\ oldest <= oldest' /\ ReadAll(w)'
    BY <1>1, <2>1, <2>2 DEF ReadAll, RequestAt
  <2> QED
    BY <1>1, <1>2, <2>1, <2>2, <2>3, <2>4, StepKeeps
<1> QED
  BY <1>3, <1>4, <1>5, <1>6, <1>7, <1>8, <1>9 DEF RequestStep

LEMMA KeptStays ==
  ASSUME IsFiniteSet(Writer), TypeOK, TypeOK', KeptInv, [Next]_vars
  PROVE  KeptInv'
<1>1. /\ appended \in Nat /\ oldest \in Nat /\ oldest <= appended + 1 /\ failures \in Nat
      /\ Threshold \in Nat \ {0} /\ request \in [Writer -> Request]
  BY MemoryAssumption DEF TypeOK
<1>2. Quiet => /\ Within /\ \A w \in Writer : ReadAll(w)
               /\ 1 .. appended \subseteq oldest .. appended \cup summary
  BY DEF KeptInv, Intact, Recent
<1>3. ASSUME NEW w \in Writer, Summarize(w)
      PROVE  KeptInv'
  <2>1. /\ request[w].pc = "idle" /\ UNCHANGED <<appended, oldest, summary, failures, excuses>>
        /\ Goto(w, "turns")
    BY <1>3 DEF Summarize, RequestAt, listVars
  <2>2. /\ request'[w].pc = "turns"
        /\ \A v \in Writer \ {w} : request'[v] = request[v]
    BY <1>1, <2>1, GoesTo DEF RequestPC
  <2>3. w \in Pending' /\ ReadAll(w)'
    BY <2>2 DEF Pending, ReadAll, RequestAt
  <2> QED
    BY <1>1, <1>2, <2>1, <2>2, <2>3, StepKeeps
<1>4. ASSUME NEW w \in Writer, ClearFails(w)
      PROVE  KeptInv'
  <2>1. /\ request[w].pc = "clear" /\ UNCHANGED <<appended, summary, excuses>>
        /\ failures' = failures + 1 /\ oldest' \in {oldest, appended + 1}
    BY <1>4 DEF ClearFails, RequestAt
  <2>2. /\ request'[w].pc \in {"idle", "clear"}
        /\ \A v \in Writer \ {w} : request'[v] = request[v]
    <3>1. CASE LastAttempt(request[w].attempt)
      BY <1>1, <1>4, <3>1, Ends DEF ClearFails
    <3>2. CASE ~LastAttempt(request[w].attempt)
      <4> DEFINE r == [request[w] EXCEPT !.attempt = @ + 1]
      <4>1. request' = [request EXCEPT ![w] = r]
        BY <1>4, <3>2 DEF ClearFails
      <4>2. r.pc = "clear"
        BY <1>1, <2>1 DEF Request
      <4> HIDE DEF r
      <4> QED
        BY <1>1, <4>1, <4>2
    <3> QED
      BY <3>1, <3>2
  <2>3. Quiet => 1 .. appended \subseteq summary
    BY <1>2, <2>1 DEF ReadAll, RequestAt
  <2>4. oldest <= oldest' /\ failures <= failures'
    BY <1>1, <2>1
  <2>5. Quiet => ReadAll(w)'
    BY <2>1, <2>2, <2>3 DEF ReadAll, RequestAt
  <2> QED
    BY <1>1, <1>2, <2>1, <2>2, <2>3, <2>4, <2>5, StepKeeps
<1>5. ASSUME NEW w \in Writer, Fails(w)
      PROVE  KeptInv'
  <2>1. /\ UNCHANGED <<appended, oldest, summary, excuses>>
        /\ failures' = failures + 1 /\ Done(w)
    BY <1>5 DEF Fails, listVars
  <2>2. /\ request'[w].pc = "idle"
        /\ \A v \in Writer \ {w} : request'[v] = request[v]
    BY <1>1, <2>1, Ends
  <2>3. ReadAll(w)' /\ failures <= failures' /\ oldest <= oldest'
    BY <1>1, <2>1, <2>2 DEF ReadAll, RequestAt
  <2> QED
    BY <1>1, <1>2, <2>1, <2>2, <2>3, StepKeeps
<1>6. CASE Expire
  BY <1>6 DEF Expire, KeptInv, Quiet
<1>7. CASE UNCHANGED vars
  BY <1>7 DEF vars, listVars, KeptInv, Quiet, Within, Pending, Intact, Recent, ReadAll, RequestAt
<1> QED
  BY <1>3, <1>4, <1>5, <1>6, <1>7, PushKeeps, StepKept DEF Next

\* Whatever requests overlap, every turn is in the list or in the summary, as long as
\* none was pushed while a list that had been read was waiting to be deleted, the list
\* did not expire, and there is room between the threshold and the cap for the requests
\* and the failures (Memory.NothingLost, service.py 64-81, recent.py 16-18).
THEOREM Kept ==
  ASSUME IsFiniteSet(Writer)
  PROVE  Spec => []NothingLost
<1>1. TypeOK /\ KeptInv /\ [Next]_vars => TypeOK' /\ KeptInv'
  BY TypeStays, KeptStays
<1>2. Init => TypeOK /\ KeptInv
  BY TypeStarts, KeptStarts
<1>3. TypeOK /\ KeptInv => NothingLost
  BY KeptImplies
<1> QED
  BY <1>1, <1>2, <1>3, PTL DEF Spec
-----------------------------------------------------------------------------
(* The summary never forgets, if the LLM is shown as many turns as a list  *)
(* may have.                                                               *)

Reading(w) == request[w].pc \in {"previous", "save"}

\* What a compaction would read now.
Window == Shown(appended, oldest) .. appended

SameWindow(v, w) == v.window = {} \/ w.window = {} \/ v.window = w.window

\* A compaction that is about to store its summary has read what is stored now, or what
\* another one read as well.
Covers(r, stored) ==
  /\ r.window # {}
  /\ r.previous \subseteq stored
  /\ stored \subseteq r.previous \cup r.window

\* While no turn is pushed, all compactions read the same turns or none.
GrowInv ==
  "disturbed" \notin excuses =>
    /\ \A w \in Writer : Reading(w) => oldest = appended + 1 \/ request[w].window = Window
    /\ \A w \in Writer : RequestAt(w, "save") => Covers(request[w], summary)
    /\ \A v, w \in Writer : Reading(v) /\ Reading(w) => SameWindow(request[v], request[w])

LEMMA GrowStarts == Init => GrowInv
BY DEF Init, GrowInv, Reading, RequestAt, Idle

\* LTRIM takes away no turn that the LLM would be shown.
LEMMA TrimShows ==
  ASSUME MaxInput = MaxTurns, NEW n \in Nat, NEW first \in 1 .. n + 1
  PROVE  /\ Shown(n, Trimmed(n, first)) .. n = Shown(n, first) .. n
         /\ Shown(n, n + 1) .. n = {}
         /\ first = n + 1 => Trimmed(n, first) = n + 1
BY MemoryAssumption DEF Trimmed, Shown

\* What a step must see to that changes no compaction's reading, and no summary.
LEMMA QuietGrows ==
  ASSUME TypeOK, GrowInv, excuses \subseteq excuses',
         UNCHANGED <<appended, summary>>,
         \/ oldest' = appended + 1
         \/ Window' = Window /\ (oldest = appended + 1 => oldest' = oldest),
         \A w \in Writer : Reading(w)' => request'[w] = request[w]
  PROVE  GrowInv'
<1> SUFFICES ASSUME "disturbed" \notin excuses' PROVE GrowInv'
  BY DEF GrowInv
<1>1. /\ \A w \in Writer : Reading(w) => oldest = appended + 1 \/ request[w].window = Window
      /\ \A w \in Writer : RequestAt(w, "save") => Covers(request[w], summary)
      /\ \A v, w \in Writer : Reading(v) /\ Reading(w) => SameWindow(request[v], request[w])
  BY DEF GrowInv
<1>2. \A w \in Writer : Reading(w)' => Reading(w) /\ (RequestAt(w, "save")' => RequestAt(w, "save"))
  BY DEF Reading, RequestAt
<1>3. ASSUME NEW w \in Writer, Reading(w)'
      PROVE  (oldest = appended + 1 \/ request[w].window = Window)'
  BY <1>1, <1>2, <1>3
<1>4. ASSUME NEW w \in Writer, RequestAt(w, "save")' PROVE Covers(request'[w], summary')
  <2>1. Reading(w)'
    BY <1>4 DEF Reading, RequestAt
  <2> QED
    BY <1>1, <1>2, <1>4, <2>1
<1>5. ASSUME NEW v \in Writer, NEW w \in Writer, Reading(v)', Reading(w)'
      PROVE  SameWindow(request'[v], request'[w])
  BY <1>1, <1>2, <1>5
<1> QED
  BY <1>3, <1>4, <1>5 DEF GrowInv, Covers, SameWindow

\* The steps of a compaction that read or write what the others rely on.
LEMMA CompactionGrows ==
  ASSUME TypeOK, GrowInv, NEW w \in Writer, GetTurns(w) \/ GetPrevious(w) \/ Save(w)
  PROVE  GrowInv'
<1> SUFFICES ASSUME "disturbed" \notin excuses PROVE GrowInv'
  BY DEF GrowInv, GetTurns, GetPrevious, Save
<1>1. /\ \A v \in Writer : Reading(v) => oldest = appended + 1 \/ request[v].window = Window
      /\ \A v \in Writer : RequestAt(v, "save") => Covers(request[v], summary)
      /\ \A u, v \in Writer : Reading(u) /\ Reading(v) => SameWindow(request[u], request[v])
  BY DEF GrowInv
<1>2. /\ appended \in Nat /\ oldest \in 1 .. appended + 1 /\ request \in [Writer -> Request]
      /\ Shown(appended, appended + 1) .. appended = {}
  BY MemoryAssumption DEF TypeOK, Shown
<1>3. UNCHANGED <<appended, oldest, excuses>>
  BY DEF GetTurns, GetPrevious, Save, listVars
<1>4. CASE GetTurns(w)
  <2> DEFINE r == [request[w] EXCEPT !.pc = "previous", !.window = Window]
  <2>1. request' = [request EXCEPT ![w] = r] /\ UNCHANGED summary
    BY <1>4 DEF GetTurns, Window
  <2>2. r.pc = "previous" /\ r.window = Window
    BY <1>2 DEF Request
  <2> HIDE DEF r
  <2>3. request'[w] = r /\ \A v \in Writer \ {w} : request'[v] = request[v]
    BY <1>2, <2>1
  <2>4. \A v \in Writer : Reading(v) => request[v].window = {} \/ r.window = {}
                                          \/ request[v].window = r.window
    BY <1>1, <1>2, <2>2 DEF Window
  <2>5. Window' = Window /\ summary' = summary
    BY <1>3, <2>1 DEF Window
  <2>6. \A v \in Writer \ {w} : Reading(v)' => Reading(v)
    BY <2>3 DEF Reading
  <2>7. ASSUME NEW v \in Writer, RequestAt(v, "save")' PROVE Covers(request'[v], summary')
    <3>1. v # w /\ RequestAt(v, "save") /\ request'[v] = request[v]
      BY <2>2, <2>3, <2>7 DEF RequestAt
    <3> QED
      BY <1>1, <2>5, <3>1
  <2>8. ASSUME NEW v \in Writer, Reading(v)'
        PROVE  (oldest = appended + 1 \/ request[v].window = Window)'
    <3>1. CASE v = w
      BY <2>2, <2>3, <2>5, <3>1
    <3>2. CASE v # w
      BY <1>1, <1>3, <2>3, <2>5, <2>6, <2>8, <3>2
    <3> QED
      BY <3>1, <3>2
  <2>9. ASSUME NEW u \in Writer, NEW v \in Writer, Reading(u)', Reading(v)'
        PROVE  SameWindow(request'[u], request'[v])
    BY <1>1, <2>2, <2>3, <2>4, <2>6, <2>9 DEF SameWindow
  <2> QED
    BY <2>7, <2>8, <2>9 DEF GrowInv, Covers, SameWindow
<1>5. CASE GetPrevious(w)
  <2>1. CASE /\ request[w].window # {}
             /\ request' = [request EXCEPT ![w].pc = "save", ![w].previous = summary]
    <3> DEFINE r == [request[w] EXCEPT !.pc = "save", !.previous = summary]
    <3>1. request' = [request EXCEPT ![w] = r] /\ UNCHANGED summary
      BY <1>5, <2>1 DEF GetPrevious
    <3>2. r.pc = "save" /\ r.window = request[w].window /\ r.previous = summary
      BY <1>2 DEF Request
    <3> HIDE DEF r
    <3>3. request'[w] = r /\ \A v \in Writer \ {w} : request'[v] = request[v]
      BY <1>2, <3>1
    <3>4. Reading(w)
      BY <1>5 DEF GetPrevious, Reading, RequestAt
    <3>5. Covers(r, summary)
      BY <2>1, <3>2 DEF Covers
    <3>6. \A v \in Writer : Reading(v)' => Reading(v) /\ request'[v].window = request[v].window
      BY <3>2, <3>3, <3>4 DEF Reading
    <3>7. \A v \in Writer : RequestAt(v, "save")' => Covers(request'[v], summary')
      BY <1>1, <3>1, <3>3, <3>5 DEF RequestAt
    <3> QED
      BY <1>1, <1>3, <3>6, <3>7 DEF GrowInv, Covers, SameWindow, Window
  <2>2. CASE Goto(w, "clear") \/ Done(w)
    <3>1. /\ request'[w].pc \in {"clear", "idle"}
          /\ \A v \in Writer \ {w} : request'[v] = request[v]
      BY <1>2, <2>2, GoesTo, Ends DEF RequestPC
    <3>2. UNCHANGED summary
      BY <1>5 DEF GetPrevious
    <3> QED
      BY <1>1, <1>3, <3>1, <3>2
      DEF GrowInv, Reading, RequestAt, Covers, SameWindow, Window
  <2> QED
    BY <1>5, <2>1, <2>2 DEF GetPrevious
<1>6. CASE Save(w)
  <2>1. /\ request[w].pc = "save"
        /\ summary' = request[w].previous \cup request[w].window
        /\ Goto(w, "clear")
    BY <1>6 DEF Save, RequestAt, Compacted, AfterSave
  <2>2. /\ request'[w].pc = "clear"
        /\ \A v \in Writer \ {w} : request'[v] = request[v]
    BY <1>2, <2>1, GoesTo DEF RequestPC
  <2>3. Covers(request[w], summary)
    BY <1>1, <2>1 DEF RequestAt
  <2>4. ASSUME NEW v \in Writer, RequestAt(v, "save") PROVE Covers(request[v], summary')
    <3>1. Covers(request[v], summary) /\ request[v].window = request[w].window
      BY <1>1, <2>1, <2>3, <2>4 DEF Reading, RequestAt, SameWindow, Covers
    <3> QED
      BY <2>1, <2>3, <3>1 DEF Covers
  <2> QED
    BY <1>1, <1>3, <2>2, <2>4
    DEF GrowInv, Reading, RequestAt, Covers, SameWindow, Window
<1> QED
  BY <1>4, <1>5, <1>6

LEMMA GrowStays ==
  ASSUME MaxInput = MaxTurns, TypeOK, GrowInv, [Next]_vars
  PROVE  GrowInv'
<1>1. /\ appended \in Nat /\ oldest \in 1 .. appended + 1 /\ request \in [Writer -> Request]
  BY MemoryAssumption DEF TypeOK
<1>2. ASSUME NEW w \in Writer, excuses' = excuses, UNCHANGED <<appended, summary>>,
             oldest' \in {oldest, appended + 1, Trimmed(appended, oldest)},
             ~Reading(w)',
             \A v \in Writer \ {w} : request'[v] = request[v]
      PROVE  GrowInv'
  <2>1. \/ oldest' = appended + 1
        \/ Window' = Window /\ (oldest = appended + 1 => oldest' = oldest)
    BY <1>1, <1>2, TrimShows DEF Window
  <2>2. \A v \in Writer : Reading(v)' => request'[v] = request[v]
    BY <1>2
  <2> QED
    BY <1>2, <2>1, <2>2, QuietGrows
<1>3. ASSUME NEW w \in Writer, NEW label \in RequestPC, Goto(w, label),
             label \notin {"previous", "save"}
      PROVE  ~Reading(w)' /\ \A v \in Writer \ {w} : request'[v] = request[v]
  BY <1>1, <1>3, GoesTo DEF Reading
<1>4. ASSUME NEW w \in Writer, Done(w)
      PROVE  ~Reading(w)' /\ \A v \in Writer \ {w} : request'[v] = request[v]
  BY <1>1, <1>4, Ends DEF Reading
<1>5. ASSUME NEW w \in Writer, Push(w) PROVE GrowInv'
  <2>1. ~Reading(w)' /\ \A v \in Writer \ {w} : request'[v] = request[v]
    BY <1>3, <1>5 DEF Push, RequestPC
  <2>2. \A v \in Writer : Compacting(v) => "disturbed" \in excuses'
    BY <1>5 DEF Push
  <2>3. "disturbed" \notin excuses' => \A v \in Writer : ~Reading(v)'
    BY <2>1, <2>2 DEF Reading, Compacting
  <2> QED
    BY <2>3 DEF GrowInv, Reading, RequestAt
<1>6. ASSUME NEW w \in Writer, Trim(w) \/ SetTtl(w) \/ Clear(w) \/ Summarize(w) \/ Fails(w)
      PROVE  GrowInv'
  <2>1. ~Reading(w)' /\ \A v \in Writer \ {w} : request'[v] = request[v]
    BY <1>3, <1>4, <1>6 DEF Trim, SetTtl, Clear, Summarize, Fails, RequestPC
  <2> QED
    BY <1>2, <1>6, <2>1 DEF Trim, SetTtl, Clear, Summarize, Fails, listVars
<1>7. ASSUME NEW w \in Writer, Count(w) PROVE GrowInv'
  <2> DEFINE r == [request[w] EXCEPT !.pc = "expire", !.count = appended + 1 - oldest]
  <2>1. request' = [request EXCEPT ![w] = r]
    BY <1>7 DEF Count
  <2>2. r.pc = "expire"
    BY <1>1 DEF Request
  <2> HIDE DEF r
  <2>3. ~Reading(w)' /\ \A v \in Writer \ {w} : request'[v] = request[v]
    BY <1>1, <2>1, <2>2 DEF Reading
  <2> QED
    BY <1>2, <1>7, <2>3 DEF Count, listVars
<1>8. ASSUME NEW w \in Writer, ClearFails(w) PROVE GrowInv'
  <2>1. ~Reading(w)' /\ \A v \in Writer \ {w} : request'[v] = request[v]
    <3>1. CASE Done(w)
      BY <1>4, <3>1
    <3>2. CASE request' = [request EXCEPT ![w].attempt = @ + 1]
      <4> DEFINE r == [request[w] EXCEPT !.attempt = @ + 1]
      <4>1. request' = [request EXCEPT ![w] = r]
        BY <3>2
      <4>2. r.pc = "clear"
        BY <1>1, <1>8 DEF Request, ClearFails, RequestAt
      <4> HIDE DEF r
      <4> QED
        BY <1>1, <4>1, <4>2 DEF Reading
    <3> QED
      BY <1>8, <3>1, <3>2 DEF ClearFails
  <2> QED
    BY <1>2, <1>8, <2>1 DEF ClearFails
<1>9. CASE Expire
  BY <1>9, QuietGrows DEF Expire
<1>10. CASE UNCHANGED vars
  BY <1>10, QuietGrows DEF vars, listVars, Window
<1> QED
  BY <1>5, <1>6, <1>7, <1>8, <1>9, <1>10, CompactionGrows DEF Next, RequestStep

\* Unless a turn is pushed while a list that was read waits to be deleted, the summary
\* never forgets a turn, although a compaction overwrites it on the strength of one it
\* read before calling the LLM. The LLM must be shown as many turns as the list may
\* have, as it is with the defaults, 20 and 20 (Memory.SummaryGrows, summary.py 61-136).
THEOREM Remembered ==
  ASSUME IsFiniteSet(Writer), MaxInput = MaxTurns
  PROVE  Spec => SummaryGrows
<1>1. TypeOK /\ GrowInv /\ [Next]_vars => GrowInv'
  BY GrowStays
<1>2. TypeOK /\ GrowInv /\ [Next]_vars =>
        ["disturbed" \notin excuses' => summary \subseteq summary']_vars
  <2>1. ASSUME GrowInv, [Next]_vars, "disturbed" \notin excuses'
        PROVE  summary \subseteq summary'
    <3>1. ASSUME NEW w \in Writer, Save(w) PROVE summary \subseteq summary'
      BY <2>1, <3>1 DEF Save, Compacted, GrowInv, Covers
    <3>2. (\E w \in Writer : Save(w)) \/ summary' = summary
      BY <2>1 DEF Next, RequestStep, Push, Summarize, Trim, Count, SetTtl, GetTurns,
        GetPrevious, Clear, ClearFails, Fails, Expire, vars
    <3> QED
      BY <3>1, <3>2
  <2> QED
    BY <2>1
<1> QED
  BY <1>1, <1>2, GrowStarts, Typing, PTL DEF Spec, SummaryGrows

=============================================================================
