---------------------------- MODULE ServerProofs ----------------------------
(***************************************************************************)
(* Proofs about Server, for any clients, tasks, collections, processes     *)
(* beside it, callers, limits, windows and faults.                         *)
(***************************************************************************)
EXTENDS Server, TLAPS

\* One counter of one caller: it has a TTL if there is one, and lets through no more
\* than it counts.
CounterInv(g, c) ==
  /\ count[g][c] \in 0 .. Limit[g] + 1
  /\ ttl[g][c] \in 0 .. Window
  /\ count[g][c] > 0 <=> ttl[g][c] > 0
  /\ admitted[g][c] \in 0 .. Limit[g]
  /\ admitted[g][c] <= count[g][c]

RateInv ==
  /\ asking \subseteq Caller
  /\ count \in [Guard -> [Caller -> Nat]]
  /\ ttl \in [Guard -> [Caller -> Nat]]
  /\ admitted \in [Guard -> [Caller -> Nat]]
  /\ \A g \in Guard, c \in Caller : CounterInv(g, c)

-----------------------------------------------------------------------------
(* The rate limits.                                                        *)

LEMMA LimitFact == /\ \A g \in Guard : Limit[g] \in Nat \ {0}
                   /\ Window \in Nat \ {0}
BY RateAssumption

LEMMA RateInitInv == RateInit => RateInv
BY LimitFact DEF RateInit, RateInv, None0, CounterInv

\* Counting changes one counter only.
LEMMA IncrementSound ==
  ASSUME RateInv, NEW g \in Guard, NEW c \in Caller, IncrementWithTtl(g, c)
  PROVE  /\ count' \in [Guard -> [Caller -> Nat]]
         /\ ttl' \in [Guard -> [Caller -> Nat]]
         /\ count'[g][c] = Counted(g, c)
         /\ ttl'[g][c] = IF StartsWindow(Counted(g, c)) THEN Window ELSE ttl[g][c]
         /\ \A h \in Guard, d \in Caller :
              h # g \/ d # c => count'[h][d] = count[h][d] /\ ttl'[h][d] = ttl[h][d]
<1>1. Counted(g, c) \in Nat
  BY DEF RateInv, Counted
<1>2. Window \in Nat
  BY LimitFact
<1> QED
  BY <1>1, <1>2 DEF RateInv, IncrementWithTtl

\* Counting a request keeps the counter sound, and one that is let through is within
\* the limit.
LEMMA CounterAfter ==
  ASSUME RateInv, NEW g \in Guard, NEW c \in Caller, IncrementWithTtl(g, c)
  PROVE  /\ count'[g][c] \in 0 .. Limit[g] + 1 /\ ttl'[g][c] \in 0 .. Window
         /\ count'[g][c] > 0 /\ ttl'[g][c] > 0
         /\ admitted[g][c] <= count'[g][c]
         /\ ~Refuses(g, Counted(g, c)) => /\ admitted[g][c] + 1 <= Limit[g]
                                          /\ admitted[g][c] + 1 <= count'[g][c]
<1> DEFINE n == count[g][c]
           t == ttl[g][c]
           a == admitted[g][c]
           m == IF n > Limit[g] THEN n ELSE n + 1
           u == IF m = 1 THEN Window ELSE t
<1>1. n \in Nat /\ t \in Nat /\ a \in Nat
  BY DEF RateInv
<1>2. Limit[g] \in Nat \ {0} /\ Window \in Nat \ {0}
  BY LimitFact
<1>3. n <= Limit[g] + 1 /\ t <= Window /\ (n > 0 <=> t > 0) /\ a <= Limit[g] /\ a <= n
  BY <1>1, <1>2 DEF RateInv, CounterInv
<1>4. m = Counted(g, c) /\ u = IF StartsWindow(Counted(g, c)) THEN Window ELSE t
  BY DEF Counted, StartsWindow
<1>5. count'[g][c] = m /\ ttl'[g][c] = u
  BY <1>4, IncrementSound
<1>6. m = (IF n > Limit[g] THEN n ELSE n + 1) /\ u = (IF m = 1 THEN Window ELSE t)
  OBVIOUS
<1> HIDE DEF n, t, a, m, u
<1>7. /\ m \in 0 .. Limit[g] + 1 /\ u \in 0 .. Window /\ m > 0 /\ u > 0
      /\ a <= m
      /\ ~(m > Limit[g]) => a + 1 <= Limit[g] /\ a + 1 <= m
  BY <1>1, <1>2, <1>3, <1>6
<1> QED
  BY <1>4, <1>5, <1>7 DEF a, Refuses

\* A counted request that is not let through.
LEMMA CountOnlyInv ==
  ASSUME RateInv, NEW g \in Guard, NEW c \in Caller, IncrementWithTtl(g, c),
         UNCHANGED admitted, asking' \subseteq Caller
  PROVE  RateInv'
<1>1. ASSUME NEW h \in Guard, NEW d \in Caller PROVE CounterInv(h, d)'
  <2>1. CASE h = g /\ d = c
    BY <2>1, CounterAfter DEF RateInv, CounterInv
  <2>2. CASE h # g \/ d # c
    BY <2>2, IncrementSound DEF RateInv, CounterInv
  <2> QED
    BY <2>1, <2>2
<1> QED
  BY <1>1, IncrementSound DEF RateInv

\* A counted request that is.
LEMMA CountAndAdmitInv ==
  ASSUME RateInv, NEW g \in Guard, NEW c \in Caller, IncrementWithTtl(g, c),
         ~Refuses(g, Counted(g, c)), Admit(g, c), asking' \subseteq Caller
  PROVE  RateInv'
<1>1. /\ admitted' \in [Guard -> [Caller -> Nat]]
      /\ admitted'[g][c] = admitted[g][c] + 1
      /\ \A h \in Guard, d \in Caller :
           h # g \/ d # c => admitted'[h][d] = admitted[h][d]
  BY DEF RateInv, Admit
<1>2. ASSUME NEW h \in Guard, NEW d \in Caller PROVE CounterInv(h, d)'
  <2>1. CASE h = g /\ d = c
    <3>1. admitted'[g][c] \in 0 .. Limit[g]
      <4>1. admitted[g][c] \in Nat /\ Limit[g] \in Nat
        BY LimitFact DEF RateInv
      <4> QED
        BY <1>1, <4>1, CounterAfter
    <3> QED
      BY <1>1, <2>1, <3>1, CounterAfter DEF CounterInv
  <2>2. CASE h # g \/ d # c
    BY <1>1, <2>2, IncrementSound DEF RateInv, CounterInv
  <2> QED
    BY <2>1, <2>2
<1> QED
  BY <1>1, <1>2, IncrementSound DEF RateInv

LEMMA RequestInv ==
  ASSUME RateInv, NEW c \in Caller, RequestStep(c) PROVE RateInv'
<1>1. asking' \subseteq Caller
  BY DEF RateInv, RequestStep, Dispatch, DispatchUnchecked, CheckRoute, CheckRouteFails
<1>2. "middleware" \in Guard /\ "route" \in Guard
  BY DEF Guard
<1>3. CASE UNCHANGED <<count, ttl, admitted>>
  BY <1>1, <1>3 DEF RateInv, CounterInv
<1>4. CASE Dispatch(c)
  BY <1>1, <1>2, <1>4, CountOnlyInv, CountAndAdmitInv DEF Dispatch
<1>5. CASE CheckRoute(c)
  BY <1>1, <1>2, <1>5, CountOnlyInv, CountAndAdmitInv DEF CheckRoute
<1>6. CASE DispatchUnchecked(c)
  BY <1>1, <1>2, <1>3, <1>6, CountOnlyInv DEF DispatchUnchecked
<1>7. CASE CheckRouteFails(c)
  BY <1>1, <1>2, <1>3, <1>7, CountOnlyInv DEF CheckRouteFails
<1> QED
  BY <1>4, <1>5, <1>6, <1>7 DEF RequestStep

LEMMA TickInv == ASSUME RateInv, Tick PROVE RateInv'
<1> DEFINE fresh(f) == [g \in Guard |-> [c \in Caller |->
                          IF ttl[g][c] = 1 THEN 0 ELSE f[g][c]]]
<1>1. /\ ttl' = [g \in Guard |-> [c \in Caller |->
                   IF ttl[g][c] = 0 THEN 0 ELSE ttl[g][c] - 1]]
      /\ count' = fresh(count) /\ admitted' = fresh(admitted)
      /\ asking' = asking
  BY DEF Tick
<1>2. ASSUME NEW g \in Guard, NEW c \in Caller
      PROVE  /\ CounterInv(g, c)'
             /\ ttl'[g][c] \in Nat /\ count'[g][c] \in Nat /\ admitted'[g][c] \in Nat
  <2>1. /\ ttl'[g][c] = IF ttl[g][c] = 0 THEN 0 ELSE ttl[g][c] - 1
        /\ count'[g][c] = IF ttl[g][c] = 1 THEN 0 ELSE count[g][c]
        /\ admitted'[g][c] = IF ttl[g][c] = 1 THEN 0 ELSE admitted[g][c]
    BY <1>1
  <2>2. ttl[g][c] \in Nat /\ count[g][c] \in Nat /\ admitted[g][c] \in Nat
        /\ CounterInv(g, c) /\ Limit[g] \in Nat /\ Window \in Nat
    BY LimitFact DEF RateInv
  <2> QED
    BY <2>1, <2>2 DEF CounterInv
<1>3. /\ ttl' \in [Guard -> [Caller -> Nat]] /\ count' \in [Guard -> [Caller -> Nat]]
      /\ admitted' \in [Guard -> [Caller -> Nat]]
  BY <1>1, <1>2
<1> QED
  BY <1>1, <1>2, <1>3 DEF RateInv

-----------------------------------------------------------------------------
(* The lifespan.                                                           *)

Starting == phase \in {"ensure", "create", "index", "load"}

\* Phases in which every client is connected.
Up == Starting \/ phase \in {"consistency", "consumer", "serving", "stop_consumer",
                             "stop_consistency", "aborted"}

Stopping == phase \in {"undo", "disconnect"}

\* What is open, and which tasks run, in each phase.
ClientInv ==
  /\ phase = "connect" => /\ next \in DOMAIN Clients /\ connected = next - 1
                          /\ \A i \in 1 .. connected : Clients[i] \in open
  /\ phase = "connect" \/ Stopping \/ phase = "down" => tasks = {}
  /\ Up => open = ClientNames /\ connected = Len(Clients)
  /\ phase = "stop_consistency" => "consumer" \notin tasks
  /\ Stopping => /\ next <= connected
                 /\ \A i \in next + 1 .. connected :
                      Clients[i] \in open => Clients[i] \in refused
  /\ StoppedIsClosed

Stage == {"absent", "created", "indexed", "loaded"}

\* What a start has done at collection n stands, whoever did it.
MakerInv(at, n) ==
  /\ at \in Making \cup {"ensure"} => n \in DOMAIN Collections
  /\ at = "index" => collection[n] # "absent"
  /\ at = "load" => collection[n] \in {"indexed", "loaded"}

\* A collection is half made only while its making goes on, unless that was broken
\* off, and every collection the start has passed exists.
CollectionInv ==
  /\ MakerInv(phase, next)
  /\ \A p \in Peer : MakerInv(peer[p].at, peer[p].next)
  /\ \A i \in DOMAIN Collections :
       /\ collection[i] \in {"created", "indexed"} =>
            \/ i \in cut
            \/ phase \in {"index", "load"} /\ i = next
            \/ \E p \in Peer : HalfMade(p, i)
       /\ collection[i] = "absent" =>
            /\ phase \notin {"consumer", "serving"}
            /\ Starting => next <= i

LifeInv == LifeTypeOK /\ ClientInv /\ CollectionInv

LEMMA ListFact ==
  /\ Len(Clients) \in Nat \ {0} /\ Len(Collections) \in Nat \ {0}
  /\ DOMAIN Clients = 1 .. Len(Clients) /\ DOMAIN Collections = 1 .. Len(Collections)
  /\ \A i \in 1 .. Len(Clients) : Clients[i] \in ClientNames
BY LifespanAssumption DEF ClientNames, IsList

LEMMA LifeInitInv == LifeInit => LifeInv
BY ListFact
DEF LifeInit, LifeInv, LifeTypeOK, ClientInv, CollectionInv, StoppedIsClosed, Phase,
    Starting, Making, Up, Stopping, MakerInv, PeerStart, Away

\* What a making step, whoever makes it, does to the collections.
LEMMA MakeSound ==
  ASSUME collection \in [DOMAIN Collections -> Stage], NEW label \in Making,
         NEW i \in DOMAIN Collections, MakerInv(label, i), Make(label, i)
  PROVE  /\ collection' \in [DOMAIN Collections -> Stage]
         /\ collection'[i] # "absent"
         /\ label = "index" => collection'[i] \in {"indexed", "loaded"}
         /\ label = "load" => collection'[i] = "loaded"
         /\ \A j \in DOMAIN Collections :
              /\ j # i => collection'[j] = collection[j]
              /\ collection[j] # "absent" => collection'[j] # "absent"
              /\ collection[j] \in {"indexed", "loaded"} =>
                   collection'[j] \in {"indexed", "loaded"}
<1>1. CASE label = "create"
  <2>1. collection' = [collection EXCEPT ![i] = IF @ = "absent" THEN "created" ELSE @]
    BY <1>1 DEF Make
  <2> QED
    BY <1>1, <2>1 DEF Stage
<1>2. CASE label = "index"
  <2>1. collection' = [collection EXCEPT ![i] = IF @ = "created" THEN "indexed" ELSE @]
    BY <1>2 DEF Make
  <2> QED
    BY <1>2, <2>1 DEF Stage, MakerInv
<1>3. CASE label = "load"
  <2>1. collection' = [collection EXCEPT ![i] = IF @ = "indexed" THEN "loaded" ELSE @]
    BY <1>3 DEF Make
  <2> QED
    BY <1>3, <2>1 DEF Stage, MakerInv
<1> QED
  BY <1>1, <1>2, <1>3 DEF Making

\* What is left of a start that was broken off.
LEMMA BreakSound ==
  ASSUME collection \in [DOMAIN Collections -> Stage], cut \subseteq DOMAIN Collections,
         NEW label, NEW i, MakerInv(label, i), BreakOff(label, i)
  PROVE  /\ collection' \in [DOMAIN Collections -> Stage]
         /\ cut \subseteq cut' /\ cut' \subseteq DOMAIN Collections
         /\ label \notin Making => collection' = collection
         /\ label \in Making /\ collection'[i] \in {"created", "indexed"} => i \in cut'
         /\ \A j \in DOMAIN Collections :
              /\ j # i => collection'[j] = collection[j]
              /\ collection[j] # "absent" => collection'[j] # "absent"
              /\ collection[j] \in {"indexed", "loaded"} =>
                   collection'[j] \in {"indexed", "loaded"}
<1>1. label \in Making => i \in DOMAIN Collections
  BY DEF MakerInv
<1>2. CASE UNCHANGED collection
  BY <1>1, <1>2 DEF BreakOff
<1>3. CASE label \in Making /\ Make(label, i)
  BY <1>1, <1>3, MakeSound DEF BreakOff
<1> QED
  BY <1>2, <1>3 DEF BreakOff

\* The client to be disconnected has been connected.
LEMMA DisconnectFact ==
  ASSUME LifeInv, Disconnecting
  PROVE  /\ next \in 1 .. connected /\ connected \in 0 .. Len(Clients)
         /\ next \in 1 .. Len(Clients) /\ Clients[next] \in ClientNames
<1>1. Stopping /\ next > 0
  BY DEF Disconnecting, Stopping
<1>2. next <= connected
  BY <1>1 DEF LifeInv, ClientInv
<1>3. next \in Nat /\ connected \in 0 .. Len(Clients)
  BY ListFact DEF LifeInv, LifeTypeOK
<1>4. next \in 1 .. Len(Clients)
  BY <1>1, <1>2, <1>3, ListFact
<1> QED
  BY <1>1, <1>2, <1>3, <1>4, ListFact

LEMMA OwnTypeInv == ASSUME LifeInv, OwnStep, UNCHANGED peer PROVE LifeTypeOK'
<1> USE DEF LifeInv, LifeTypeOK, Phase, Goto
<1>1. CASE Boot \/ Shutdown \/ LifespanEnds
  BY <1>1, ListFact DEF Boot, Shutdown, FirstStop, LifespanEnds
<1>2. CASE ConnectClient
  <2>1. Clients[next] \in ClientNames /\ next \in 1 .. Len(Clients)
    BY <1>2, ListFact DEF ConnectClient, ClientInv
  <2> QED
    BY <1>2, <2>1, ListFact DEF ConnectClient
<1>3. CASE ConnectFails
  BY <1>3, ListFact DEF ConnectFails, ClientInv
<1>4. CASE StartConsistency \/ StartConsumer
  <2>1. tasks' \subseteq Task
    BY <1>4 DEF StartConsistency, StartConsumer, Task
  <2> QED
    BY <1>4, <2>1, ListFact DEF StartConsistency, StartConsumer
<1>5. CASE HasCollection
  BY <1>5, ListFact DEF HasCollection, AfterEnsure, Another, CollectionInv, MakerInv
<1>6. CASE CreateCollection \/ CreateIndex \/ LoadCollection
  <2>1. phase \in Making /\ MakerInv(phase, next) /\ Make(phase, next)
    BY <1>6 DEF CreateCollection, CreateIndex, LoadCollection, MakeStep, CollectionInv, Making
  <2>2. collection' \in [DOMAIN Collections -> Stage] /\ next \in DOMAIN Collections
    BY <2>1, MakeSound DEF Stage, MakerInv
  <2> QED
    BY <1>6, <2>2, ListFact
    DEF CreateCollection, CreateIndex, LoadCollection, MakeStep, AfterEnsure, Another, Stage
<1>7. CASE StartFails
  <2>1. MakerInv(phase, next) /\ BreakOff(phase, next)
    BY <1>7 DEF StartFails, CollectionInv
  <2>2. collection' \in [DOMAIN Collections -> Stage] /\ cut' \subseteq DOMAIN Collections
    BY <2>1, BreakSound DEF Stage
  <2> QED
    BY <1>7, <2>2, ListFact DEF StartFails, Stage
<1>8. CASE StopConsumer \/ StopConsistency
  BY <1>8, ListFact DEF StopConsumer, StopConsistency
<1>9. CASE DisconnectClient \/ DisconnectFails
  <2>1. next \in 1 .. Len(Clients) /\ Clients[next] \in ClientNames
    BY <1>9, DisconnectFact DEF DisconnectClient, DisconnectFails
  <2> QED
    BY <1>9, <2>1, ListFact
    DEF DisconnectClient, DisconnectFails, Disconnecting, AfterRefusal
<1>10. CASE ProcessEnds
  <2>1. MakerInv(phase, next) /\ BreakOff(phase, next)
    BY <1>10 DEF ProcessEnds, CollectionInv
  <2>2. collection' \in [DOMAIN Collections -> Stage] /\ cut' \subseteq DOMAIN Collections
    BY <2>1, BreakSound DEF Stage
  <2> QED
    BY <1>10, <2>2, ListFact DEF ProcessEnds, Stage
<1> QED
  BY <1>1, <1>2, <1>3, <1>4, <1>5, <1>6, <1>7, <1>8, <1>9, <1>10 DEF OwnStep

LEMMA OwnClientInv == ASSUME LifeInv, OwnStep PROVE ClientInv'
<1>1. DisconnectClient \/ DisconnectFails => next \in 1 .. connected /\ connected \in Nat
  BY DisconnectFact, ListFact DEF DisconnectClient, DisconnectFails
<1> USE DEF LifeInv, LifeTypeOK, Goto, ClientInv, Up, Starting, Stopping, StoppedIsClosed
<1>2. CASE Boot
  BY <1>2, ListFact DEF Boot
<1>3. CASE Shutdown
  BY <1>3, ListFact DEF Shutdown, FirstStop
<1>4. CASE LifespanEnds
  <2>1. /\ phase' = "down" /\ tasks' = {} /\ connected' = connected
        /\ open' = open /\ refused' = refused
    BY <1>4 DEF LifespanEnds
  <2>2. \A i \in 0 + 1 .. connected : Clients[i] \in open => Clients[i] \in refused
    BY <1>4 DEF LifespanEnds
  <2>3. StoppedIsClosed'
    BY <2>1, <2>2
  <2> QED
    BY <2>1, <2>3
<1>5. CASE ConnectClient
  <2>1. /\ next \in 1 .. Len(Clients) /\ connected' = next /\ tasks' = {}
        /\ open' = open \cup {Clients[next]} /\ Len(Clients) \in Nat
    BY <1>5, ListFact DEF ConnectClient
  <2>2. \A i \in 1 .. connected' : Clients[i] \in open'
    BY <1>5, <2>1 DEF ConnectClient
  <2>3. CASE next < Len(Clients)
    <3>1. phase' = "connect" /\ next' = next + 1
      BY <1>5, <2>3 DEF ConnectClient
    <3>2. next' \in DOMAIN Clients /\ connected' = next' - 1
      <4>1. next + 1 \in 1 .. Len(Clients) /\ next = (next + 1) - 1
        BY <2>1, <2>3
      <4>2. DOMAIN Clients = 1 .. Len(Clients)
        BY ListFact
      <4> QED
        BY <2>1, <3>1, <4>1, <4>2
    <3> QED
      BY <2>1, <2>2, <3>1, <3>2
  <2>4. CASE ~(next < Len(Clients))
    <3>1. phase' = "consistency" /\ connected' = Len(Clients)
      BY <1>5, <2>1, <2>4 DEF ConnectClient
    <3>2. open' = ClientNames
      <4>1. open' \subseteq ClientNames
        BY <2>1, ListFact
      <4>2. \A x \in ClientNames : x \in open'
        BY <2>2, <3>1, ListFact DEF ClientNames
      <4> QED
        BY <4>1, <4>2
    <3> QED
      BY <2>1, <3>1, <3>2
  <2> QED
    BY <2>3, <2>4
<1>6. CASE ConnectFails
  BY <1>6, ListFact DEF ConnectFails
<1>7. CASE StartConsistency \/ StartConsumer
  BY <1>7, ListFact DEF StartConsistency, StartConsumer
<1>8. CASE HasCollection
  BY <1>8, ListFact DEF HasCollection, AfterEnsure
<1>9. CASE CreateCollection \/ CreateIndex \/ LoadCollection
  BY <1>9, ListFact DEF CreateCollection, CreateIndex, LoadCollection, MakeStep, AfterEnsure
<1>10. CASE StartFails
  BY <1>10, ListFact DEF StartFails
<1>11. CASE StopConsumer
  BY <1>11, ListFact DEF StopConsumer
<1>12. CASE StopConsistency
  <2>1. /\ phase' = "disconnect" /\ next' = connected /\ connected' = connected
        /\ connected \in Nat
    BY <1>12, ListFact DEF StopConsistency
  <2>2. tasks' = {}
    BY <1>12 DEF StopConsistency, Task
  <2>3. \A i \in next' + 1 .. connected' : FALSE
    BY <2>1
  <2> QED
    BY <2>1, <2>2, <2>3
<1>13. CASE DisconnectClient \/ DisconnectFails
  <2>1. /\ phase' = phase /\ Stopping /\ next' = next - 1 /\ connected' = connected
        /\ tasks' = {}
    BY <1>13 DEF DisconnectClient, DisconnectFails, Disconnecting, AfterRefusal
  <2>5. next \in 1 .. connected /\ connected \in Nat
    BY <1>13, <1>1
  <2>2. open' \subseteq open /\ refused \subseteq refused'
    BY <1>13 DEF DisconnectClient, DisconnectFails
  <2>3. Clients[next] \in open' => Clients[next] \in refused'
    BY <1>13 DEF DisconnectClient, DisconnectFails
  <2>4. ASSUME NEW i \in next' + 1 .. connected'
        PROVE  Clients[i] \in open' => Clients[i] \in refused'
    <3>1. CASE i = next
      BY <2>3, <3>1
    <3>2. CASE i # next
      <4>1. i \in next + 1 .. connected
        BY <2>1, <2>5, <3>2
      <4> QED
        BY <2>1, <2>2, <4>1
    <3> QED
      BY <3>1, <3>2
  <2> QED
    BY <2>1, <2>4
<1>14. CASE ProcessEnds
  BY <1>14, ListFact DEF ProcessEnds
<1> QED
  BY <1>2, <1>3, <1>4, <1>5, <1>6, <1>7, <1>8,
     <1>9, <1>10, <1>11, <1>12, <1>13, <1>14 DEF OwnStep

\* What this process does to the collections.
LEMMA OwnCollectionInv == ASSUME LifeInv, OwnStep, UNCHANGED peer PROVE CollectionInv'
<1> USE DEF LifeInv, LifeTypeOK, Goto, CollectionInv, Starting, MakerInv, HalfMade
<1>1. CASE Boot \/ Shutdown \/ LifespanEnds
  BY <1>1, ListFact DEF Boot, Shutdown, FirstStop, LifespanEnds, Making
<1>2. CASE ConnectClient \/ ConnectFails
  BY <1>2, ListFact DEF ConnectClient, ConnectFails, Making
<1>3. CASE StartConsistency \/ StartConsumer
  BY <1>3, ListFact DEF StartConsistency, StartConsumer, Making
<1>4. CASE HasCollection
  BY <1>4, ListFact DEF HasCollection, AfterEnsure, Another, Found, Making
<1>5. CASE CreateCollection \/ CreateIndex \/ LoadCollection
  <2>1. /\ phase \in Making /\ MakerInv(phase, next) /\ Make(phase, next)
        /\ next \in DOMAIN Collections
    BY <1>5 DEF CreateCollection, CreateIndex, LoadCollection, MakeStep, Making
  <2>2. /\ collection'[next] # "absent"
        /\ phase = "index" => collection'[next] \in {"indexed", "loaded"}
        /\ phase = "load" => collection'[next] = "loaded"
        /\ \A j \in DOMAIN Collections :
             /\ j # next => collection'[j] = collection[j]
             /\ collection[j] # "absent" => collection'[j] # "absent"
             /\ collection[j] \in {"indexed", "loaded"} =>
                  collection'[j] \in {"indexed", "loaded"}
    BY <2>1, MakeSound DEF Stage
  <2>3. CASE phase = "create"
    <3>1. phase' = "index" /\ next' = next /\ cut' = cut
      BY <1>5, <2>3 DEF CreateCollection, CreateIndex, LoadCollection, MakeStep
    <3> QED
      BY <2>1, <2>2, <2>3, <3>1 DEF Making
  <2>4. CASE phase = "index"
    <3>1. phase' = "load" /\ next' = next /\ cut' = cut
      BY <1>5, <2>4 DEF CreateCollection, CreateIndex, LoadCollection, MakeStep
    <3> QED
      BY <2>1, <2>2, <2>4, <3>1 DEF Making
  <2>5. CASE phase = "load"
    <3>1. cut' = cut /\ AfterEnsure(next)
      BY <1>5, <2>5 DEF CreateCollection, CreateIndex, LoadCollection, MakeStep
    <3> QED
      BY <2>1, <2>2, <2>5, <3>1, ListFact DEF AfterEnsure, Another, Making
  <2> QED
    BY <2>1, <2>3, <2>4, <2>5 DEF Making
<1>6. CASE StartFails \/ ProcessEnds
  <2>1. /\ MakerInv(phase, next) /\ BreakOff(phase, next)
        /\ phase' \in {"aborted", "down"} /\ peer' = peer
    BY <1>6 DEF StartFails, ProcessEnds
  <2>2. /\ cut \subseteq cut'
        /\ phase \notin Making => collection' = collection
        /\ phase \in Making /\ collection'[next] \in {"created", "indexed"} => next \in cut'
        /\ \A j \in DOMAIN Collections :
             /\ j # next => collection'[j] = collection[j]
             /\ collection[j] # "absent" => collection'[j] # "absent"
             /\ collection[j] \in {"indexed", "loaded"} =>
                  collection'[j] \in {"indexed", "loaded"}
    BY <2>1, BreakSound DEF Stage
  <2> QED
    BY <2>1, <2>2 DEF Making
<1>7. CASE StopConsumer \/ StopConsistency
  BY <1>7, ListFact DEF StopConsumer, StopConsistency, Making
<1>8. CASE DisconnectClient \/ DisconnectFails
  BY <1>8, ListFact DEF DisconnectClient, DisconnectFails, Disconnecting, Making
<1> QED
  BY <1>1, <1>2, <1>3, <1>4, <1>5, <1>6, <1>7, <1>8 DEF OwnStep

-----------------------------------------------------------------------------
(* Other processes.                                                        *)

LEMMA PeerFields ==
  ASSUME LifeInv, NEW p \in Peer
  PROVE  /\ peer \in [Peer -> PeerStart] /\ peer[p].next \in Nat
         /\ peer[p].at \in {"away", "ensure", "create", "index", "load"}
         /\ MakerInv(peer[p].at, peer[p].next)
BY DEF LifeInv, LifeTypeOK, CollectionInv, PeerStart, Making

\* Where p goes: on with the same collection, to the next one, or away.
LEMMA PeerGoes ==
  ASSUME LifeInv, NEW p \in Peer, NEW at \in Making \cup {"away", "ensure"}, NEW n \in Nat,
         peer' = [peer EXCEPT ![p] = [at |-> at, next |-> n]]
  PROVE  /\ peer' \in [Peer -> PeerStart]
         /\ peer'[p].at = at /\ peer'[p].next = n
         /\ \A q \in Peer : q # p => peer'[q] = peer[q]
BY DEF LifeInv, LifeTypeOK, PeerStart

\* What p leaves of the collections, when it has not left one half made, keeps what
\* holds of them.
LEMMA PeerEffect ==
  ASSUME LifeInv, NEW p \in Peer, NEW at \in Making \cup {"away", "ensure"}, NEW n \in Nat,
         peer' = [peer EXCEPT ![p] = [at |-> at, next |-> n]], UNCHANGED ownVars,
         collection' \in [DOMAIN Collections -> Stage],
         cut \subseteq cut', cut' \subseteq DOMAIN Collections,
         MakerInv(at, n)',
         \A j \in DOMAIN Collections :
           /\ collection[j] # "absent" => collection'[j] # "absent"
           /\ collection[j] \in {"indexed", "loaded"} =>
                collection'[j] \in {"indexed", "loaded"},
         \A j \in DOMAIN Collections : collection'[j] \in {"created", "indexed"} =>
           \/ j \in cut'
           \/ at \in {"index", "load"} /\ j = n
           \/ collection'[j] = collection[j] /\ ~HalfMade(p, j)
  PROVE  LifeInv'
<1>1. /\ peer' \in [Peer -> PeerStart]
      /\ peer'[p].at = at /\ peer'[p].next = n
      /\ \A q \in Peer : q # p => peer'[q] = peer[q]
  BY PeerGoes
<1>2. /\ phase' = phase /\ next' = next /\ connected' = connected /\ open' = open
      /\ refused' = refused /\ tasks' = tasks
  BY DEF ownVars
<1>3. LifeTypeOK'
  BY <1>1, <1>2 DEF LifeInv, LifeTypeOK, Stage
<1>4. ClientInv'
  BY <1>2 DEF LifeInv, ClientInv, Up, Starting, Stopping, StoppedIsClosed
<1>5. MakerInv(phase, next)'
  BY <1>2 DEF LifeInv, CollectionInv, MakerInv, Making
<1>6. ASSUME NEW q \in Peer PROVE MakerInv(peer[q].at, peer[q].next)'
  <2>1. CASE q = p
    BY <1>1, <2>1 DEF MakerInv
  <2>2. CASE q # p
    BY <1>1, <2>2, PeerFields DEF MakerInv, Making
  <2> QED
    BY <2>1, <2>2
<1>7. ASSUME NEW j \in DOMAIN Collections, collection'[j] \in {"created", "indexed"}
      PROVE  \/ j \in cut'
             \/ phase' \in {"index", "load"} /\ j = next'
             \/ \E q \in Peer : HalfMade(q, j)'
  <2>1. CASE j \in cut'
    BY <2>1
  <2>2. CASE at \in {"index", "load"} /\ j = n
    BY <1>1, <2>2 DEF HalfMade
  <2>3. CASE collection'[j] = collection[j] /\ ~HalfMade(p, j)
    <3>1. \/ j \in cut
          \/ phase \in {"index", "load"} /\ j = next
          \/ \E q \in Peer : HalfMade(q, j)
      BY <1>7, <2>3 DEF LifeInv, CollectionInv
    <3>2. CASE \E q \in Peer : HalfMade(q, j)
      <4>1. PICK q \in Peer : HalfMade(q, j)
        BY <3>2
      <4>2. peer'[q] = peer[q]
        BY <1>1, <2>3, <4>1
      <4>3. HalfMade(q, j)'
        BY <4>1, <4>2 DEF HalfMade
      <4> QED
        BY <4>3
    <3> QED
      BY <1>2, <3>1, <3>2
  <2> QED
    BY <1>7, <2>1, <2>2, <2>3
<1>8. CollectionInv'
  BY <1>2, <1>5, <1>6, <1>7 DEF LifeInv, CollectionInv, Starting
<1> QED
  BY <1>3, <1>4, <1>8 DEF LifeInv

\* After a collection p is at the next one, or away.
LEMMA PeerAfterGoes ==
  ASSUME NEW p \in Peer, NEW i \in DOMAIN Collections, PeerAfter(p, i)
  PROVE  \E at \in {"away", "ensure"}, n \in Nat :
           /\ peer' = [peer EXCEPT ![p] = [at |-> at, next |-> n]]
           /\ at = "ensure" => n \in DOMAIN Collections
<1>1. CASE Another(i)
  <2>1. i + 1 \in Nat /\ i + 1 \in DOMAIN Collections
    BY <1>1, ListFact DEF Another
  <2>2. peer' = [peer EXCEPT ![p] = [at |-> "ensure", next |-> i + 1]]
    BY <1>1 DEF PeerAfter, PeerGoto
  <2> QED
    BY <2>1, <2>2
<1>2. CASE ~Another(i)
  BY <1>2 DEF PeerAfter, Away
<1> QED
  BY <1>1, <1>2

LEMMA PeerInv ==
  ASSUME LifeInv, NEW p \in Peer, PeerStep(p), UNCHANGED ownVars
  PROVE  LifeInv'
<1>0. PICK label, i : label = peer[p].at /\ i = peer[p].next
  OBVIOUS
<1>1. /\ collection \in [DOMAIN Collections -> Stage] /\ cut \subseteq DOMAIN Collections
      /\ MakerInv(label, i) /\ i \in Nat
      /\ label \in {"away", "ensure", "create", "index", "load"}
  BY <1>0, PeerFields DEF LifeInv, LifeTypeOK, Stage
<1>2. CASE PeerBoots(p)
  <2>1. /\ peer' = [peer EXCEPT ![p] = [at |-> "ensure", next |-> 1]]
        /\ label = "away" /\ UNCHANGED <<collection, cut>>
    BY <1>0, <1>2 DEF PeerBoots, PeerGoto, Away
  <2>2. MakerInv("ensure", 1)'
    BY ListFact DEF MakerInv
  <2>3. \A j \in DOMAIN Collections : ~HalfMade(p, j)
    BY <1>0, <2>1 DEF HalfMade
  <2> QED
    BY <1>1, <2>1, <2>2, <2>3, PeerEffect
<1>3. CASE PeerHasCollection(p)
  <2>1. label = "ensure" /\ UNCHANGED <<collection, cut>> /\ i \in DOMAIN Collections
    BY <1>0, <1>1, <1>3 DEF PeerHasCollection, MakerInv
  <2>2. \A j \in DOMAIN Collections : ~HalfMade(p, j)
    BY <1>0, <2>1 DEF HalfMade
  <2>3. CASE Found(i)
    <3>1. PICK at \in {"away", "ensure"}, n \in Nat :
            /\ peer' = [peer EXCEPT ![p] = [at |-> at, next |-> n]]
            /\ at = "ensure" => n \in DOMAIN Collections
      BY <1>0, <1>3, <2>1, <2>3, PeerAfterGoes DEF PeerHasCollection
    <3>2. MakerInv(at, n)'
      BY <3>1 DEF MakerInv, Making
    <3> QED
      BY <1>1, <2>1, <2>2, <3>1, <3>2, PeerEffect
  <2>4. CASE ~Found(i)
    <3>1. peer' = [peer EXCEPT ![p] = [at |-> "create", next |-> i]]
      BY <1>0, <1>3, <2>4 DEF PeerHasCollection, PeerGoto
    <3>2. MakerInv("create", i)' /\ "create" \in Making
      BY <2>1 DEF MakerInv, Making
    <3> QED
      BY <1>1, <2>1, <2>2, <3>1, <3>2, PeerEffect
  <2> QED
    BY <2>3, <2>4
<1>4. CASE PeerMakes(p)
  <2>1. /\ label \in Making /\ Make(label, i) /\ UNCHANGED cut
        /\ i \in DOMAIN Collections
    BY <1>0, <1>1, <1>4 DEF PeerMakes, MakerInv
  <2>2. /\ collection' \in [DOMAIN Collections -> Stage]
        /\ collection'[i] # "absent"
        /\ label = "index" => collection'[i] \in {"indexed", "loaded"}
        /\ label = "load" => collection'[i] = "loaded"
        /\ \A j \in DOMAIN Collections :
             /\ j # i => collection'[j] = collection[j]
             /\ collection[j] # "absent" => collection'[j] # "absent"
             /\ collection[j] \in {"indexed", "loaded"} =>
                  collection'[j] \in {"indexed", "loaded"}
    BY <1>1, <2>1, MakeSound
  <2>3. \A j \in DOMAIN Collections : j # i => ~HalfMade(p, j)
    BY <1>0 DEF HalfMade
  <2>4. CASE label = "create"
    <3>1. peer' = [peer EXCEPT ![p] = [at |-> "index", next |-> i]]
      BY <1>0, <1>4, <2>4 DEF PeerMakes, PeerGoto
    <3>2. MakerInv("index", i)' /\ "index" \in Making
      BY <2>1, <2>2 DEF MakerInv, Making
    <3> QED
      BY <1>1, <2>1, <2>2, <2>3, <3>1, <3>2, PeerEffect
  <2>5. CASE label = "index"
    <3>1. peer' = [peer EXCEPT ![p] = [at |-> "load", next |-> i]]
      BY <1>0, <1>4, <2>5 DEF PeerMakes, PeerGoto
    <3>2. MakerInv("load", i)' /\ "load" \in Making
      BY <2>1, <2>2, <2>5 DEF MakerInv, Making
    <3> QED
      BY <1>1, <2>1, <2>2, <2>3, <3>1, <3>2, PeerEffect
  <2>6. CASE label = "load"
    <3>1. PeerAfter(p, i)
      BY <1>0, <1>4, <2>6 DEF PeerMakes
    <3>2. PICK at \in {"away", "ensure"}, n \in Nat :
            /\ peer' = [peer EXCEPT ![p] = [at |-> at, next |-> n]]
            /\ at = "ensure" => n \in DOMAIN Collections
      BY <2>1, <3>1, PeerAfterGoes
    <3>3. MakerInv(at, n)'
      BY <3>2 DEF MakerInv, Making
    <3> QED
      BY <1>1, <2>1, <2>2, <2>3, <2>6, <3>2, <3>3, PeerEffect
  <2> QED
    BY <2>1, <2>4, <2>5, <2>6 DEF Making
<1>5. CASE PeerFails(p)
  <2>1. peer' = [peer EXCEPT ![p] = [at |-> "away", next |-> 0]] /\ BreakOff(label, i)
    BY <1>0, <1>5 DEF PeerFails, Away
  <2>2. /\ collection' \in [DOMAIN Collections -> Stage]
        /\ cut \subseteq cut' /\ cut' \subseteq DOMAIN Collections
        /\ label \notin Making => collection' = collection
        /\ label \in Making /\ collection'[i] \in {"created", "indexed"} => i \in cut'
        /\ \A j \in DOMAIN Collections :
             /\ j # i => collection'[j] = collection[j]
             /\ collection[j] # "absent" => collection'[j] # "absent"
             /\ collection[j] \in {"indexed", "loaded"} =>
                  collection'[j] \in {"indexed", "loaded"}
    BY <1>1, <2>1, BreakSound
  <2>3. MakerInv("away", 0)'
    BY DEF MakerInv, Making
  <2>4. \A j \in DOMAIN Collections : HalfMade(p, j) => j = i /\ label \in Making
    BY <1>0 DEF HalfMade, Making
  <2>5. \A j \in DOMAIN Collections : collection'[j] \in {"created", "indexed"} =>
          j \in cut' \/ (collection'[j] = collection[j] /\ ~HalfMade(p, j))
    BY <1>1, <2>2, <2>4
  <2>6. "away" \in Making \cup {"away", "ensure"} /\ 0 \in Nat
    OBVIOUS
  <2> QED
    BY <2>1, <2>2, <2>3, <2>5, <2>6, PeerEffect
<1> QED
  BY <1>2, <1>3, <1>4, <1>5 DEF PeerStep

LEMMA LifeStepInv == ASSUME LifeInv, LifeNext PROVE LifeInv'
<1>1. CASE OwnStep /\ UNCHANGED peer
  BY <1>1, OwnTypeInv, OwnClientInv, OwnCollectionInv DEF LifeInv
<1>2. CASE (\E p \in Peer : PeerStep(p)) /\ UNCHANGED ownVars
  BY <1>2, PeerInv
<1> QED
  BY <1>1, <1>2 DEF LifeNext

-----------------------------------------------------------------------------
(* The server.                                                             *)

ServerInv == LifeInv /\ RateInv

LEMMA LifeStutterInv == ASSUME LifeInv, UNCHANGED lifeVars PROVE LifeInv'
BY DEF LifeInv, LifeTypeOK, ClientInv, CollectionInv, StoppedIsClosed, Up, Starting,
       Stopping, Making, MakerInv, HalfMade, lifeVars, ownVars

LEMMA RateStutterInv ==
  ASSUME RateInv, UNCHANGED <<count, ttl, admitted>>, asking' \subseteq Caller
  PROVE  RateInv'
BY DEF RateInv, CounterInv

LEMMA ServerStepInv == ServerInv /\ [ServerNext]_serverVars => ServerInv'
<1> SUFFICES ASSUME ServerInv, [ServerNext]_serverVars PROVE ServerInv'
  OBVIOUS
<1>1. CASE Serve
  BY <1>1, RequestInv, LifeStutterInv DEF Serve, ServerInv
<1>2. CASE Live
  <2>1. asking' \subseteq Caller
    BY <1>2 DEF Live, ServerInv, RateInv
  <2> QED
    BY <1>2, <2>1, LifeStepInv, RateStutterInv DEF Live, ServerInv
<1>3. CASE Pass
  BY <1>3, TickInv, LifeStutterInv DEF Pass, ServerInv
<1>4. CASE UNCHANGED serverVars
  BY <1>4, LifeStutterInv, RateStutterInv DEF serverVars, rateVars, ServerInv, RateInv
<1> QED
  BY <1>1, <1>2, <1>3, <1>4 DEF ServerNext

\* The invariant holds in every state of the server.
THEOREM ServerInvHolds == ServerSpec => []ServerInv
<1>1. ServerInit => ServerInv
  BY LifeInitInv, RateInitInv DEF ServerInit, ServerInv
<1> QED
  BY <1>1, ServerStepInv, PTL DEF ServerSpec

\* Every variable keeps its type, and every counter has a TTL (redis.py 23-29;
\* __init__.py 40-119).
THEOREM ServerTyping == ServerSpec => []ServerTypeOK
<1>1. ServerInv => ServerTypeOK
  BY DEF ServerInv, ServerTypeOK, LifeInv, RateInv, RateTypeOK, CounterInv
<1> QED
  BY <1>1, ServerInvHolds, PTL

\* A stopped server has closed every client whose disconnect did not raise
\* (__init__.py 57-68, 115-119).
THEOREM Closed == ServerSpec => []StoppedIsClosed
<1>1. ServerInv => StoppedIsClosed
  BY DEF ServerInv, LifeInv, ClientInv
<1> QED
  BY <1>1, ServerInvHolds, PTL

\* The tasks run only while every client they use is open, for every list of clients
\* and every need (__init__.py 70-119).
THEOREM ClientsOutliveTasks == ServerSpec => []TasksHaveClients
<1>1. ServerInv => TasksHaveClients
  <2> SUFFICES ASSUME ServerInv, NEW t \in tasks PROVE Needs[t] \subseteq open
    BY DEF TasksHaveClients
  <2>1. t \in Task /\ Needs[t] \subseteq ClientNames
    BY LifespanAssumption DEF ServerInv, LifeInv, LifeTypeOK
  <2>2. open = ClientNames
    BY DEF ServerInv, LifeInv, LifeTypeOK, Phase, ClientInv, Up, Starting, Stopping
  <2> QED
    BY <2>1, <2>2
<1> QED
  BY <1>1, ServerInvHolds, PTL

\* What is served can be searched, unless the making of a collection was broken off or
\* is under way in another process, for any number of processes that start and fail
\* (milvus.py 71-100, 171-196; __init__.py 78-79).
THEOREM Ready == ServerSpec => []ServingIsReady
<1>1. ServerInv => ServingIsReady
  BY DEF ServerInv, LifeInv, LifeTypeOK, CollectionInv, ServingIsReady
<1> QED
  BY <1>1, ServerInvHolds, PTL

\* No window of any length lets through more than the limit (redis.py 23-29,
\* core/rate_limit.py 9-29, middleware/rate_limit.py 27-35).
THEOREM LimitHolds == ServerSpec => []WindowRespected
<1>1. ServerInv => WindowRespected
  BY LimitFact DEF ServerInv, RateInv, CounterInv, WindowRespected
<1> QED
  BY <1>1, ServerInvHolds, PTL

=============================================================================
