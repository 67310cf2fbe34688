------------------------ MODULE KnowledgeBaseProofs ------------------------
(***************************************************************************)
(* Theorems about KnowledgeBase, for any number of documents, contents and *)
(* requests, every failure, and deletions at any time.                     *)
(***************************************************************************)
EXTENDS KnowledgeBase, TLAPS

\* Where the rows and vectors of a document stand at each step of its ingest.
\* IndexedInBothStores is not inductive by itself: it needs to know that rows
\* come after the filter, that their vectors follow before the status does, and
\* that a deletion takes the document and its rows before it takes vectors.
RowsInv(d) ==
  /\ IngestAt(d, "none") => status[d] = "absent"
  /\ ingest[d].pc \in {"none", "upsert", "processing", "dedup", "embed", "rows"} =>
       \A x \in Content : <<d, x>> \notin rows
  /\ IngestAt(d, "vectors") =>
       \A x \in Content : <<d, x>> \in rows => x \in ingest[d].new
  /\ /\ ingest[d].pc \in {"indexed", "publish", "done"} \/ status[d] = "indexed"
     /\ ~Cut(d)
     => \A x \in Content : <<d, x>> \in rows => <<d, x>> \in vectors
  /\ status[d] = "indexed" => IngestAt(d, "publish") \/ IngestAt(d, "fail") \/ Ended(d)

\* How far a deletion has got.  Unless the row went while the ingest was under
\* way, the deletion has the document to itself from then on.
DeleteInv(r) ==
  LET d == request[r].doc IN
  /\ ~RequestAt(r, "idle") => ~IngestAt(d, "none")
  /\ request[r].pc \in {"query", "vectors", "publish"} /\ ~Cut(d) =>
       Ended(d) /\ status[d] = "absent"
  /\ RequestAt(r, "vectors") /\ ~Cut(d) =>
       \A x \in Content : <<d, x>> \in vectors => x \in request[r].found
  /\ RequestAt(r, "publish") /\ ~Cut(d) => \A x \in Content : <<d, x>> \notin vectors

\* A document whose deletion was announced does not come back.
GoneInv(d) ==
  <<"kb_deleted", d>> \in told /\ ~Cut(d) =>
    /\ Ended(d)
    /\ status[d] = "absent"
    /\ \A x \in Content : <<d, x>> \notin vectors

StoresInv ==
  /\ TypeOK
  /\ \A d \in Doc : RowsInv(d) /\ GoneInv(d)
  /\ \A r \in Request : DeleteInv(r)

-----------------------------------------------------------------------------
(* What the helpers do to the records of tasks and requests.               *)

\* A task that only moves on keeps what it has read.
LEMMA TaskMoves ==
  ASSUME ingest \in [Doc -> IngestState], NEW d \in Doc, NEW p \in IngestPC,
         IngestGoto(d, p)
  PROVE  /\ ingest' \in [Doc -> IngestState]
         /\ ingest'[d].pc = p /\ ingest'[d].text = ingest[d].text
         /\ ingest'[d].new = ingest[d].new /\ ingest'[d].row = ingest[d].row
         /\ \A e \in Doc \ {d} : ingest'[e] = ingest[e]
<1> DEFINE task == [ingest[d] EXCEPT !.pc = p]
<1>1. ingest[d] \in IngestState
  OBVIOUS
<1>2. /\ task \in IngestState /\ task.pc = p
      /\ task.text = ingest[d].text /\ task.new = ingest[d].new
      /\ task.row = ingest[d].row
  BY <1>1 DEF IngestState
<1>3. ingest' = [ingest EXCEPT ![d] = task]
  BY DEF IngestGoto
<1> QED
  BY <1>2, <1>3

\* A deletion of the row is recorded of a document whose ingest is under way, and
\* changes nothing else of its task.
LEMMA DeletionCuts ==
  ASSUME ingest \in [Doc -> IngestState], NEW d \in Doc,
         ingest' = [ingest EXCEPT ![d].row = IF Running(d) THEN "cut" ELSE @]
  PROVE  /\ ingest' \in [Doc -> IngestState]
         /\ \A e \in Doc \ {d} : ingest'[e] = ingest[e]
         /\ ingest'[d].pc = ingest[d].pc /\ ingest'[d].new = ingest[d].new
         /\ ingest'[d].text = ingest[d].text
         /\ Cut(d)' <=> Cut(d) \/ Running(d)
<1> DEFINE task == [ingest[d] EXCEPT !.row = IF Running(d) THEN "cut" ELSE ingest[d].row]
<1>1. ingest[d] \in IngestState
  OBVIOUS
<1>2. /\ task \in IngestState /\ task.pc = ingest[d].pc /\ task.new = ingest[d].new
      /\ task.text = ingest[d].text
      /\ task.row = "cut" <=> ingest[d].row = "cut" \/ Running(d)
  BY <1>1 DEF IngestState
<1>3. ingest' = [ingest EXCEPT ![d] = task]
  OBVIOUS
<1>4. ingest'[d] = task
  BY <1>3
<1> HIDE DEF task
<1> QED
  BY <1>2, <1>3, <1>4 DEF Cut

\* A row that is gone stays gone, and only d changes its status.
LEMMA StatusMoves ==
  ASSUME status \in [Doc -> Status], NEW d \in Doc, NEW s \in Status \ {"absent"},
         status' = WithStatus(d, s)
  PROVE  /\ status' \in [Doc -> Status]
         /\ \A e \in Doc : status'[e] = "absent" <=> status[e] = "absent"
         /\ \A e \in Doc \ {d} : status'[e] = status[e]
         /\ status[d] # "absent" => status'[d] = s
BY DEF WithStatus, Status

-----------------------------------------------------------------------------
(* Types.                                                                  *)

\* The parts of TypeOK about tasks, requests and events, and about the stores.
TaskTypes ==
  /\ ingest \in [Doc -> IngestState]
  /\ request \in [Request -> RequestState]
  /\ \A r \in Request : RequestAt(r, "idle") \/ request[r].doc \in Doc
  /\ told \subseteq {"kb_updated", "kb_deleted"} \X Doc

StoreTypes ==
  /\ status \in [Doc -> Status]
  /\ rows \subseteq Doc \X Content
  /\ \A c \in rows : status[c[1]] # "absent"
  /\ \A c, e \in rows : c[2] = e[2] => c = e
  /\ vectors \subseteq Doc \X Content

\* A step of an ingest, or its failure, keeps the types.
LEMMA IngestTypes ==
  ASSUME StoreTypes, TaskTypes, NEW d \in Doc,
         IngestStep(d) \/ IngestFails(d) \/ IngestStops(d)
  PROVE  StoreTypes' /\ TaskTypes'
<1>1. CASE UpsertDocument(d)
  BY <1>1, TaskMoves, "processing" \in IngestPC
  DEF UpsertDocument, StoreTypes, TaskTypes, Status, RequestAt, IngestPC
<1>2. CASE StartProcessing(d)
  BY <1>2, TaskMoves, StatusMoves
  DEF StartProcessing, StoreTypes, TaskTypes, Status, RequestAt, IngestPC
<1>3. CASE FilterNew(d)
  <2> DEFINE task == [ingest[d] EXCEPT !.pc = "embed",
                                       !.new = {x \in ingest[d].text : ~Stored(x)}]
  <2>1. task \in IngestState
    BY DEF TaskTypes, IngestState, IngestPC
  <2>2. ingest' = [ingest EXCEPT ![d] = task]
    BY <1>3 DEF FilterNew
  <2> QED
    BY <1>3, <2>1, <2>2 DEF FilterNew, StoreTypes, TaskTypes, stores, RequestAt
<1>4. CASE Embed(d)
  BY <1>4, TaskMoves DEF Embed, StoreTypes, TaskTypes, stores, RequestAt, IngestPC
<1>5. CASE SaveChunksMeta(d)
  <2> DEFINE inserted == {x \in ingest[d].new : ~Stored(x)}
             added == {<<d, x>> : x \in inserted}
  <2>1. TaskTypes'
    BY <1>5, TaskMoves DEF SaveChunksMeta, TaskTypes, RequestAt, IngestPC
  <2>2. inserted \subseteq Content
    BY DEF TaskTypes, IngestState
  <2> UNCHANGED <<status, vectors>>
    BY <1>5 DEF SaveChunksMeta
  <2>3. CASE UNCHANGED rows
    BY <2>1, <2>3 DEF StoreTypes
  <2>4. CASE rows' = rows \cup added /\ (inserted = {} \/ status[d] # "absent")
    <3>1. added \subseteq Doc \X Content /\ \A c \in added : c[1] = d /\ c = <<d, c[2]>>
      BY <2>2
    <3>2. \A c \in rows' : status[c[1]] # "absent"
      BY <2>4, <3>1 DEF StoreTypes
    <3>3. \A c \in added, e \in rows : c[2] # e[2]
      <4>1. \A e \in rows : e[1] \in Doc /\ e = <<e[1], e[2]>>
        BY DEF StoreTypes
      <4>2. \A e \in rows : Stored(e[2])
        BY <4>1 DEF Stored
      <4> QED
        BY <4>2
    <3>4. \A c, e \in rows' : c[2] = e[2] => c = e
      BY <2>4, <3>1, <3>3 DEF StoreTypes
    <3> QED
      BY <2>1, <2>4, <3>1, <3>2, <3>4 DEF StoreTypes
  <2> QED
    BY <1>5, <2>1, <2>3, <2>4 DEF SaveChunksMeta
<1>6. CASE SaveVectors(d)
  BY <1>6, TaskMoves
  DEF SaveVectors, Embedded, StoreTypes, TaskTypes, RequestAt, IngestPC, IngestState
<1>7. CASE MarkIndexed(d)
  BY <1>7, TaskMoves, StatusMoves
  DEF MarkIndexed, StoreTypes, TaskTypes, Status, RequestAt, IngestPC
<1>8. CASE PublishUpdated(d)
  BY <1>8, TaskMoves DEF PublishUpdated, StoreTypes, TaskTypes, stores, RequestAt, IngestPC
<1>9. CASE RecordFailure(d)
  BY <1>9, TaskMoves, StatusMoves
  DEF RecordFailure, FailedStatus, StoreTypes, TaskTypes, Status, RequestAt, IngestPC
<1>10. CASE IngestFails(d)
  BY <1>10, TaskMoves
  DEF IngestFails, AfterError, StoreTypes, TaskTypes, stores, RequestAt, IngestPC
<1>11. CASE IngestStops(d)
  BY <1>11, TaskMoves DEF IngestStops, StoreTypes, TaskTypes, stores, RequestAt, IngestPC
<1> QED
  BY <1>1, <1>2, <1>3, <1>4, <1>5, <1>6, <1>7, <1>8, <1>9, <1>10, <1>11 DEF IngestStep

\* A step of a deletion, or its failure, keeps the types.
LEMMA DeleteTypes ==
  ASSUME StoreTypes, TaskTypes, NEW r \in Request,
         DeleteStep(r) \/ DeleteFails(r)
  PROVE  StoreTypes' /\ TaskTypes'
<1>1. CASE DeleteDocument(r)
  <2>1. request[r].doc \in Doc
    BY <1>1 DEF DeleteDocument, TaskTypes, RequestAt
  <2>2. StoreTypes'
    BY <1>1, <2>1 DEF DeleteDocument, StoreTypes, Status
  <2>3. ingest' \in [Doc -> IngestState]
    BY <1>1, <2>1, DeletionCuts DEF DeleteDocument, TaskTypes
  <2>4. TaskTypes'
    BY <1>1, <2>1, <2>3 DEF DeleteDocument, TaskTypes, RequestAt, RequestState, RequestPC
  <2> QED
    BY <2>2, <2>4
<1>2. CASE QueryVectors(r)
  <2> DEFINE found == VectorsOf(request[r].doc)
             asked == [request[r] EXCEPT
                         !.pc = IF found = {} THEN "publish" ELSE "vectors",
                         !.found = found]
  <2>1. found \in SUBSET Content /\ request[r].doc \in Doc
    BY <1>2 DEF VectorsOf, QueryVectors, TaskTypes, RequestAt
  <2>2. asked \in RequestState /\ asked.doc = request[r].doc
    BY <2>1 DEF TaskTypes, RequestState, RequestPC
  <2>3. request' = [request EXCEPT ![r] = asked]
    BY <1>2 DEF QueryVectors
  <2>4. TaskTypes'
    BY <1>2, <2>1, <2>2, <2>3 DEF QueryVectors, TaskTypes, RequestAt
  <2> QED
    BY <1>2, <2>4 DEF QueryVectors, StoreTypes, stores
<1>3. CASE DeleteVectors(r)
  BY <1>3 DEF DeleteVectors, StoreTypes, TaskTypes, RequestAt, RequestState, RequestPC
<1>4. CASE PublishDeleted(r)
  BY <1>4
  DEF PublishDeleted, IdleRequest, StoreTypes, TaskTypes, stores, RequestAt, RequestState, RequestPC
<1>5. CASE DeleteFails(r)
  BY <1>5
  DEF DeleteFails, IdleRequest, StoreTypes, TaskTypes, stores, RequestAt, RequestState, RequestPC
<1> QED
  BY <1>1, <1>2, <1>3, <1>4, <1>5 DEF DeleteStep

LEMMA TypeStep ==
  ASSUME TypeOK, [Next]_vars
  PROVE  TypeOK'
<1>0. /\ TypeOK <=> StoreTypes /\ TaskTypes
      /\ TypeOK' <=> StoreTypes' /\ TaskTypes'
  BY DEF TypeOK, StoreTypes, TaskTypes
<1>1. ASSUME NEW d \in Doc, NEW text \in Text, Upload(d, text)
      PROVE  TypeOK'
  <2> DEFINE task == [ingest[d] EXCEPT !.pc = "upsert", !.text = text]
  <2>1. task \in IngestState
    <3>1. text \in SUBSET Content /\ ingest[d] \in IngestState
      BY <1>0, TextAssumption DEF TaskTypes
    <3> QED
      BY <3>1 DEF IngestState, IngestPC
  <2>2. ingest' = [ingest EXCEPT ![d] = task]
    BY <1>1 DEF Upload
  <2>3. TaskTypes'
    BY <1>0, <1>1, <2>1, <2>2 DEF Upload, TaskTypes, RequestAt
  <2> QED
    BY <1>0, <1>1, <2>3 DEF Upload, StoreTypes, Status
<1>2. ASSUME NEW r \in Request, NEW d \in Doc, StartDelete(r, d)
      PROVE  TypeOK'
  <2> DEFINE asked == [IdleRequest EXCEPT !.pc = "rows", !.doc = d]
  <2>1. asked \in RequestState /\ asked.doc = d
    BY DEF IdleRequest, RequestState, RequestPC
  <2>2. TaskTypes'
    BY <1>0, <1>2, <2>1 DEF StartDelete, TaskTypes, stores, RequestAt
  <2> QED
    BY <1>0, <1>2, <2>2 DEF StartDelete, StoreTypes, stores
<1>3. CASE UNCHANGED vars
  BY <1>3 DEF vars, stores, TypeOK, RequestAt
<1>4. ASSUME NEW d \in Doc, IngestStep(d) \/ IngestFails(d) \/ IngestStops(d)
      PROVE  TypeOK'
  BY <1>0, <1>4, IngestTypes
<1>5. ASSUME NEW r \in Request, DeleteStep(r) \/ DeleteFails(r)
      PROVE  TypeOK'
  BY <1>0, <1>5, DeleteTypes
<1> QED
  BY <1>1, <1>2, <1>3, <1>4, <1>5 DEF Next

\* Every variable keeps its type, a chunk has a row only with its document and
\* no two rows have one content, whatever fails and whenever documents are
\* deleted (store.py 25-34, 114-142, 186-193).
THEOREM Typing == Spec => []TypeOK
<1>1. Init => TypeOK
  BY DEF Init, TypeOK, IdleRequest, Status, IngestState, IngestPC, RequestState,
         RequestPC, RequestAt
<1>2. TypeOK /\ [Next]_vars => TypeOK'
  BY TypeStep
<1> QED
  BY <1>1, <1>2, PTL DEF Spec

-----------------------------------------------------------------------------
(* The two stores.                                                         *)

\* A step of the ingest of d leaves the other documents and all requests alone.
LocalTo(d) ==
  /\ ~Ended(d)
  /\ ~IngestAt(d, "none")' /\ (Cut(d)' <=> Cut(d))
  /\ request' = request
  /\ \A e \in Doc : <<"kb_deleted", e>> \in told' => <<"kb_deleted", e>> \in told
  /\ \A e \in Doc \ {d} :
       /\ ingest'[e] = ingest[e] /\ status'[e] = status[e]
       /\ \A x \in Content : <<e, x>> \in rows' <=> <<e, x>> \in rows
       /\ \A x \in Content : <<e, x>> \in vectors' <=> <<e, x>> \in vectors

LEMMA IngestLocal ==
  ASSUME StoresInv, NEW d \in Doc,
         \/ IngestStep(d) \/ IngestFails(d) \/ IngestStops(d)
         \/ \E text \in Text : Upload(d, text)
  PROVE  LocalTo(d)
<1> TypeOK
  BY DEF StoresInv
<1>1. ~Ended(d) /\ request' = request
  BY DEF IngestStep, Upload, UpsertDocument, StartProcessing, FilterNew, Embed,
         SaveChunksMeta, SaveVectors, MarkIndexed, PublishUpdated, RecordFailure,
         IngestFails, IngestStops, Running, Ended, IngestAt
<1>2. \A e \in Doc : <<"kb_deleted", e>> \in told' => <<"kb_deleted", e>> \in told
  BY DEF IngestStep, Upload, UpsertDocument, StartProcessing, FilterNew, Embed,
         SaveChunksMeta, SaveVectors, MarkIndexed, PublishUpdated, RecordFailure,
         IngestFails, IngestStops
<1>3. \A e \in Doc \ {d} : ingest'[e] = ingest[e]
  BY DEF TypeOK, IngestStep, Upload, UpsertDocument, StartProcessing, FilterNew,
         Embed, SaveChunksMeta, SaveVectors, MarkIndexed, PublishUpdated,
         RecordFailure, IngestFails, IngestStops, IngestGoto
<1>4. \A e \in Doc \ {d} : status'[e] = status[e]
  BY DEF TypeOK, IngestStep, Upload, UpsertDocument, StartProcessing, FilterNew,
         Embed, SaveChunksMeta, SaveVectors, MarkIndexed, PublishUpdated,
         RecordFailure, IngestFails, IngestStops, stores, WithStatus, FailedStatus
<1>5. \A e \in Doc \ {d}, x \in Content : <<e, x>> \in rows' <=> <<e, x>> \in rows
  BY DEF IngestStep, Upload, UpsertDocument, StartProcessing, FilterNew,
         Embed, SaveChunksMeta, SaveVectors, MarkIndexed, PublishUpdated,
         RecordFailure, IngestFails, IngestStops, stores
<1>6. \A e \in Doc \ {d}, x \in Content : <<e, x>> \in vectors' <=> <<e, x>> \in vectors
  BY DEF IngestStep, Upload, UpsertDocument, StartProcessing, FilterNew,
         Embed, SaveChunksMeta, SaveVectors, MarkIndexed, PublishUpdated,
         RecordFailure, IngestFails, IngestStops, stores
<1>7. ~IngestAt(d, "none")' /\ (Cut(d)' <=> Cut(d))
  BY DEF TypeOK, IngestState, IngestStep, Upload, UpsertDocument, StartProcessing,
         FilterNew, Embed, SaveChunksMeta, SaveVectors, MarkIndexed, PublishUpdated,
         RecordFailure, IngestFails, AfterError, IngestStops, IngestGoto, IngestAt, Cut
<1> QED
  BY <1>1, <1>2, <1>3, <1>4, <1>5, <1>6, <1>7 DEF LocalTo

\* So only the rows and vectors of d itself need to be looked at.
LEMMA OthersKeep ==
  ASSUME StoresInv, NEW d \in Doc, LocalTo(d)
  PROVE  /\ \A e \in Doc \ {d} : RowsInv(e)'
         /\ \A e \in Doc : GoneInv(e)'
         /\ \A r \in Request : DeleteInv(r)'
<1>1. \A e \in Doc \ {d} : RowsInv(e)'
  BY DEF StoresInv, LocalTo, RowsInv, IngestAt, Ended, Cut
<1>2. \A e \in Doc : GoneInv(e)'
  BY DEF StoresInv, LocalTo, GoneInv, IngestAt, Ended, Cut
<1>3. ASSUME NEW r \in Request PROVE DeleteInv(r)'
  <2>1. CASE RequestAt(r, "idle")
    BY <2>1 DEF LocalTo, DeleteInv, RequestAt
  <2>2. CASE ~RequestAt(r, "idle")
    <3>1. request[r].doc \in Doc /\ DeleteInv(r)
      BY <2>2 DEF StoresInv, TypeOK
    <3>2. CASE request[r].doc = d
      BY <2>2, <3>1, <3>2 DEF LocalTo, DeleteInv, RequestAt
    <3>3. CASE request[r].doc \in Doc \ {d}
      BY <2>2, <3>1, <3>3 DEF LocalTo, DeleteInv, RequestAt, IngestAt, Ended, Cut
    <3> QED
      BY <3>1, <3>2, <3>3
  <2> QED
    BY <2>1, <2>2
<1> QED
  BY <1>1, <1>2, <1>3

\* Rows come after the filter and before their vectors, and these before the
\* status that says so.
LEMMA IngestKeepsRows ==
  ASSUME StoresInv, NEW d \in Doc,
         IngestStep(d) \/ IngestFails(d) \/ IngestStops(d)
  PROVE  RowsInv(d)'
<1> TypeOK /\ RowsInv(d)
  BY DEF StoresInv
<1> status \in [Doc -> Status] /\ ingest \in [Doc -> IngestState]
  BY DEF TypeOK
<1>0. {"processing", "dedup", "rows", "vectors", "indexed", "publish", "done",
       "fail", "failed", "stopped"} \subseteq IngestPC
  BY DEF IngestPC
<1>1. CASE UpsertDocument(d)
  BY <1>1, TaskMoves, <1>0
  DEF UpsertDocument, RowsInv, IngestAt, Ended, Cut, Status
<1>2. CASE StartProcessing(d)
  BY <1>2, TaskMoves, StatusMoves, <1>0
  DEF StartProcessing, RowsInv, IngestAt, Ended, Cut, Status, IngestPC
<1>3. CASE FilterNew(d)
  BY <1>3 DEF FilterNew, stores, RowsInv, IngestAt, Ended, Cut, IngestState
<1>4. CASE Embed(d)
  BY <1>4, TaskMoves, <1>0 DEF Embed, stores, RowsInv, IngestAt, Ended, Cut
<1>5. CASE SaveChunksMeta(d)
  BY <1>5, TaskMoves, <1>0
  DEF SaveChunksMeta, RowsInv, IngestAt, Ended, Cut
<1>6. CASE SaveVectors(d)
  BY <1>6, TaskMoves, <1>0
  DEF SaveVectors, Embedded, RowsInv, IngestAt, Ended, Cut
<1>7. CASE MarkIndexed(d)
  BY <1>7, TaskMoves, StatusMoves, <1>0
  DEF MarkIndexed, RowsInv, IngestAt, Ended, Cut, Status, IngestPC
<1>8. CASE PublishUpdated(d)
  BY <1>8, TaskMoves, <1>0 DEF PublishUpdated, stores, RowsInv, IngestAt, Ended, Cut
<1>9. CASE RecordFailure(d)
  BY <1>9, TaskMoves, StatusMoves, <1>0
  DEF RecordFailure, FailedStatus, RowsInv, IngestAt, Ended, Cut, Status, IngestPC
<1>10. CASE IngestFails(d)
  BY <1>10, TaskMoves, <1>0
  DEF IngestFails, AfterError, Running, stores, RowsInv, IngestAt, Ended, Cut
<1>11. CASE IngestStops(d)
  BY <1>11, TaskMoves, <1>0
  DEF IngestStops, Running, stores, RowsInv, IngestAt, Ended, Cut
<1> QED
  BY <1>1, <1>2, <1>3, <1>4, <1>5, <1>6, <1>7, <1>8, <1>9, <1>10, <1>11 DEF IngestStep

\* A step of a deletion only takes away, and vectors only of documents whose row
\* is gone.
OnlyTakes(r) ==
  /\ \A e \in Doc :
       /\ ingest'[e].pc = ingest[e].pc /\ ingest'[e].new = ingest[e].new
       /\ ingest'[e].text = ingest[e].text
       /\ Cut(e) => Cut(e)'
  /\ \A q \in Request \ {r} : request'[q] = request[q]
  /\ \A e \in Doc : status'[e] \in {status[e], "absent"}
  /\ rows' \subseteq rows /\ vectors' \subseteq vectors
  /\ \A e \in Doc, x \in Content :
       <<e, x>> \in vectors /\ status[e] # "absent" /\ ~Cut(e) => <<e, x>> \in vectors'

LEMMA DeleteOnlyTakes ==
  ASSUME StoresInv, NEW r \in Request,
         \/ DeleteStep(r) \/ DeleteFails(r)
         \/ \E d \in Doc : StartDelete(r, d)
  PROVE  OnlyTakes(r)
<1> TypeOK /\ DeleteInv(r)
  BY DEF StoresInv
<1>1. CASE DeleteDocument(r)
  <2>1. PICK d \in Doc : d = request[r].doc
    BY <1>1 DEF DeleteDocument, TypeOK, RequestAt
  <2>2. ingest' = [ingest EXCEPT ![d].row = IF Running(d) THEN "cut" ELSE @]
    BY <1>1, <2>1 DEF DeleteDocument
  <2>3. ASSUME NEW e \in Doc
        PROVE  /\ ingest'[e].pc = ingest[e].pc /\ ingest'[e].new = ingest[e].new
               /\ ingest'[e].text = ingest[e].text
               /\ Cut(e) => Cut(e)'
    <3>1. CASE e = d
      BY <2>2, <3>1, DeletionCuts DEF TypeOK
    <3>2. CASE e \in Doc \ {d}
      BY <2>2, <3>2, DeletionCuts DEF TypeOK, Cut
    <3> QED
      BY <3>1, <3>2
  <2> QED
    BY <1>1, <2>3 DEF DeleteDocument, OnlyTakes, TypeOK
<1>2. CASE QueryVectors(r)
  BY <1>2 DEF QueryVectors, OnlyTakes, TypeOK, stores, Cut
<1>3. CASE DeleteVectors(r)
  BY <1>3 DEF DeleteVectors, OnlyTakes, TypeOK, DeleteInv, RequestAt, Cut
<1>4. CASE PublishDeleted(r)
  BY <1>4 DEF PublishDeleted, OnlyTakes, TypeOK, stores, Cut
<1>5. CASE DeleteFails(r)
  BY <1>5 DEF DeleteFails, OnlyTakes, TypeOK, stores, Cut
<1>6. CASE \E d \in Doc : StartDelete(r, d)
  BY <1>6 DEF StartDelete, OnlyTakes, TypeOK, stores, Cut
<1> QED
  BY <1>1, <1>2, <1>3, <1>4, <1>5, <1>6 DEF DeleteStep

\* How far the deletion itself has got.
LEMMA DeleteProceeds ==
  ASSUME StoresInv, NEW r \in Request,
         \/ DeleteStep(r) \/ DeleteFails(r)
         \/ \E d \in Doc : StartDelete(r, d)
  PROVE  DeleteInv(r)'
<1> TypeOK /\ DeleteInv(r)
  BY DEF StoresInv
<1> request \in [Request -> RequestState]
  BY DEF TypeOK
<1>1. CASE DeleteDocument(r)
  <2>1. PICK d \in Doc : d = request[r].doc
    BY <1>1 DEF DeleteDocument, TypeOK, RequestAt
  <2>2. ingest'[d].pc = ingest[d].pc /\ (Cut(d)' <=> Cut(d) \/ Running(d))
    <3>1. ingest' = [ingest EXCEPT ![d].row = IF Running(d) THEN "cut" ELSE @]
      BY <1>1, <2>1 DEF DeleteDocument
    <3> QED
      BY <3>1, DeletionCuts DEF TypeOK
  <2>3. request'[r].doc = d /\ request'[r].pc = "query" /\ status'[d] = "absent"
    BY <1>1, <2>1 DEF DeleteDocument, TypeOK, RequestState
  <2>4. ~IngestAt(d, "none")
    BY <1>1, <2>1 DEF DeleteDocument, DeleteInv, RequestAt
  <2>5. ingest'[d].row # "cut" => Ended(d) /\ ingest[d].row # "cut"
    BY <2>2, <2>4 DEF Running, Cut
  <2> QED
    BY <2>2, <2>3, <2>4, <2>5 DEF DeleteInv, RequestAt, IngestAt, Ended, Cut
<1>2. CASE QueryVectors(r)
  <2> DEFINE found == VectorsOf(request[r].doc)
             asked == [request[r] EXCEPT
                         !.pc = IF found = {} THEN "publish" ELSE "vectors",
                         !.found = found]
  <2>1. request'[r] = asked /\ UNCHANGED <<stores, ingest>>
    BY <1>2 DEF QueryVectors
  <2>2. /\ asked.doc = request[r].doc /\ asked.found = found
        /\ asked.pc = IF found = {} THEN "publish" ELSE "vectors"
    BY DEF RequestState
  <2>3. \A x \in Content : <<request[r].doc, x>> \in vectors => x \in found
    BY DEF VectorsOf
  <2> QED
    BY <1>2, <2>1, <2>2, <2>3 DEF QueryVectors, DeleteInv, RequestAt, IngestAt, Ended, Cut, stores
<1>3. CASE DeleteVectors(r)
  BY <1>3 DEF DeleteVectors, DeleteInv, RequestAt, IngestAt, Ended, Cut, RequestState
<1>4. CASE PublishDeleted(r)
  BY <1>4 DEF PublishDeleted, IdleRequest, DeleteInv, RequestAt
<1>5. CASE DeleteFails(r)
  BY <1>5 DEF DeleteFails, IdleRequest, DeleteInv, RequestAt
<1>6. ASSUME NEW d \in Doc, StartDelete(r, d) PROVE DeleteInv(r)'
  <2>1. /\ request'[r].doc = d /\ request'[r].pc = "rows"
        /\ ingest' = ingest /\ ~IngestAt(d, "none")
    BY <1>6 DEF StartDelete, IdleRequest, StoresInv, RowsInv
  <2> QED
    BY <2>1 DEF DeleteInv, RequestAt, IngestAt, Cut
<1> QED
  BY <1>1, <1>2, <1>3, <1>4, <1>5, <1>6 DEF DeleteStep

\* What an announcement of a deletion promises holds when it is made, and stays.
LEMMA DeleteKeeps ==
  ASSUME StoresInv, NEW r \in Request, OnlyTakes(r),
         \/ DeleteStep(r) \/ DeleteFails(r)
         \/ \E d \in Doc : StartDelete(r, d)
  PROVE  /\ \A e \in Doc : RowsInv(e)' /\ GoneInv(e)'
         /\ \A q \in Request \ {r} : DeleteInv(q)'
<1> TypeOK
  BY DEF StoresInv
<1>1. ASSUME NEW e \in Doc PROVE RowsInv(e)'
  <2>1. \A x \in Content : <<e, x>> \in rows => status[e] # "absent"
    BY DEF TypeOK
  <2>2. /\ ingest'[e].pc = ingest[e].pc /\ ingest'[e].new = ingest[e].new
        /\ Cut(e) => Cut(e)'
        /\ status'[e] \in {status[e], "absent"}
    BY DEF OnlyTakes
  <2>3. \A x \in Content :
          /\ <<e, x>> \in rows' => <<e, x>> \in rows
          /\ <<e, x>> \in vectors /\ status[e] # "absent" /\ ~Cut(e) => <<e, x>> \in vectors'
    BY DEF OnlyTakes
  <2>4. RowsInv(e)
    BY DEF StoresInv
  <2> QED
    BY <2>1, <2>2, <2>3, <2>4 DEF RowsInv, IngestAt, Ended, Cut
<1>2. ASSUME NEW e \in Doc PROVE GoneInv(e)'
  <2>1. CASE <<"kb_deleted", e>> \in told
    BY <2>1 DEF StoresInv, GoneInv, OnlyTakes, Ended, Cut
  <2>2. CASE PublishDeleted(r) /\ e = request[r].doc
    BY <2>2 DEF PublishDeleted, StoresInv, GoneInv, DeleteInv, OnlyTakes, RequestAt, Ended, Cut
  <2>3. CASE <<"kb_deleted", e>> \notin told'
    BY <2>3 DEF GoneInv
  <2>4. \/ UNCHANGED told
        \/ PublishDeleted(r) /\ told' = told \cup {<<"kb_deleted", request[r].doc>>}
    BY DEF DeleteStep, DeleteDocument, QueryVectors, DeleteVectors, PublishDeleted,
           DeleteFails, StartDelete
  <2> QED
    BY <2>1, <2>2, <2>3, <2>4
<1>3. ASSUME NEW q \in Request \ {r} PROVE DeleteInv(q)'
  <2>1. RequestAt(q, "idle") \/ request[q].doc \in Doc
    BY DEF TypeOK
  <2> QED
    BY <2>1 DEF StoresInv, DeleteInv, OnlyTakes, RequestAt, IngestAt, Ended, Cut
<1> QED
  BY <1>1, <1>2, <1>3

LEMMA StoresStep ==
  ASSUME StoresInv, [Next]_vars
  PROVE  StoresInv'
<1>0. TypeOK'
  BY TypeStep DEF StoresInv
<1>1. ASSUME NEW d \in Doc, NEW text \in Text, Upload(d, text)
      PROVE  StoresInv'
  <2>1. LocalTo(d)
    BY <1>1, IngestLocal
  <2>2. RowsInv(d)'
    BY <1>1 DEF Upload, StoresInv, TypeOK, RowsInv, IngestAt, Ended, Cut, IngestState
  <2> QED
    BY <1>0, <2>1, <2>2, OthersKeep DEF StoresInv
<1>2. ASSUME NEW d \in Doc, IngestStep(d) \/ IngestFails(d) \/ IngestStops(d)
      PROVE  StoresInv'
  <2>1. LocalTo(d)
    BY <1>2, IngestLocal
  <2> QED
    BY <1>0, <1>2, <2>1, OthersKeep, IngestKeepsRows DEF StoresInv
<1>3. ASSUME NEW r \in Request,
             \/ DeleteStep(r) \/ DeleteFails(r)
             \/ \E d \in Doc : StartDelete(r, d)
      PROVE  StoresInv'
  <2>1. OnlyTakes(r)
    BY <1>3, DeleteOnlyTakes
  <2>2. DeleteInv(r)'
    BY <1>3, DeleteProceeds
  <2> QED
    BY <1>0, <1>3, <2>1, <2>2, DeleteKeeps DEF StoresInv
<1>4. CASE UNCHANGED vars
  BY <1>0, <1>4
  DEF vars, stores, StoresInv, RowsInv, DeleteInv, GoneInv, IngestAt, RequestAt, Ended, Cut
<1> QED
  BY <1>1, <1>2, <1>3, <1>4 DEF Next

LEMMA StoresStart == Init => StoresInv
<1>1. Init => TypeOK
  BY DEF Init, TypeOK, IdleRequest, Status, IngestState, IngestPC, RequestState,
         RequestPC, RequestAt
<1> QED
  BY <1>1
  DEF Init, StoresInv, RowsInv, DeleteInv, GoneInv, IngestAt, RequestAt, Ended, IdleRequest

LEMMA StoresAlways == Spec => []StoresInv
BY StoresStart, StoresStep, PTL DEF Spec

\* What PostgreSQL has of an indexed document Milvus has too, after any failures,
\* unless the document was deleted while it was ingested (update.py 75-77).
THEOREM BothStores == Spec => []IndexedInBothStores
<1>1. StoresInv => IndexedInBothStores
  BY DEF StoresInv, RowsInv, IndexedInBothStores
<1> QED
  BY <1>1, StoresAlways, PTL

\* With the same exception a deletion that was announced has emptied both stores
\* (service.py 118-127, milvus.py 115-131).
THEOREM NothingLeft == Spec => []DeletedLeavesNothing
<1>1. StoresInv => DeletedLeavesNothing
  <2> SUFFICES ASSUME StoresInv, NEW d \in Doc, <<"kb_deleted", d>> \in told,
                      ~Cut(d)
               PROVE  /\ status[d] = "absent"
                      /\ \A x \in Content : <<d, x>> \notin rows \cup vectors
    BY DEF DeletedLeavesNothing
  <2>1. status[d] = "absent" /\ \A x \in Content : <<d, x>> \notin vectors
    BY DEF StoresInv, GoneInv
  <2>2. \A x \in Content : <<d, x>> \notin rows
    BY <2>1 DEF StoresInv, TypeOK
  <2> QED
    BY <2>1, <2>2
<1> QED
  BY <1>1, StoresAlways, PTL

-----------------------------------------------------------------------------
(* Vector search.                                                          *)

\* Document e is, or was until it was lost, one that content x can be
\* deduplicated against.
Source(e, x) ==
  x \in ingest[e].text /\ ~IngestAt(e, "none") /\ (<<e, x>> \in rows \/ Lost(e))

\* What an ingest found stored has a source elsewhere, and what it found new has
\* its vector by the time the status says so.
FindInv(d) ==
  /\ IngestAt(d, "none") => ingest[d].new = {}
  /\ ingest[d].new \subseteq ingest[d].text
  /\ \A x \in Content : <<d, x>> \in rows => x \in ingest[d].text
  /\ \/ ingest[d].pc \in {"embed", "rows", "vectors", "indexed", "publish", "done"}
     \/ status[d] = "indexed"
     => \A x \in ingest[d].text \ ingest[d].new : \E e \in Doc \ {d} : Source(e, x)
  /\ /\ ingest[d].pc \in {"indexed", "publish", "done"} \/ status[d] = "indexed"
     /\ status[d] # "absent" /\ ~Cut(d)
     => \A x \in ingest[d].new : <<d, x>> \in vectors

SearchInv == StoresInv /\ \A d \in Doc : FindInv(d)

\* A source stays one: its row goes only with the document, which is then lost.
LEMMA SourceStays ==
  ASSUME StoresInv, [Next]_vars, NEW e \in Doc, NEW x \in Content, Source(e, x)
  PROVE  Source(e, x)'
<1> TypeOK /\ ingest \in [Doc -> IngestState] /\ status \in [Doc -> Status]
  BY DEF StoresInv, TypeOK
<1>1. ASSUME NEW d \in Doc,
             \/ IngestStep(d) \/ IngestFails(d) \/ IngestStops(d)
             \/ \E text \in Text : Upload(d, text)
      PROVE  Source(e, x)'
  <2>1. LocalTo(d)
    BY <1>1, IngestLocal
  <2>2. CASE e # d
    BY <2>1, <2>2 DEF LocalTo, Source, Lost, Ended, IngestAt, Cut
  <2>3. CASE e = d
    <3>1. ~ \E text \in Text : Upload(d, text)
      BY <2>3 DEF Upload, Source
    <3>2. rows \subseteq rows'
      BY <1>1, <3>1 DEF IngestStep, UpsertDocument, StartProcessing, FilterNew, Embed,
           SaveChunksMeta, SaveVectors, MarkIndexed, PublishUpdated, RecordFailure,
           IngestFails, IngestStops, stores
    <3>3. ingest'[d].text = ingest[d].text
      BY <1>1, <3>1 DEF IngestStep, UpsertDocument, StartProcessing, FilterNew, Embed,
           SaveChunksMeta, SaveVectors, MarkIndexed, PublishUpdated, RecordFailure,
           IngestFails, AfterError, IngestStops, IngestGoto, IngestState
    <3> QED
      BY <2>1, <2>3, <3>2, <3>3 DEF LocalTo, Source, Lost, Cut
  <2> QED
    BY <2>2, <2>3
<1>2. ASSUME NEW r \in Request, DeleteDocument(r)
      PROVE  Source(e, x)'
  <2>1. PICK d \in Doc : d = request[r].doc
    BY <1>2 DEF DeleteDocument, TypeOK, RequestAt
  <2>2. ingest' = [ingest EXCEPT ![d].row = IF Running(d) THEN "cut" ELSE @]
    BY <1>2, <2>1 DEF DeleteDocument
  <2>3. CASE e = d
    <3>1. status'[d] = "absent"
      BY <1>2, <2>1 DEF DeleteDocument
    <3>2. ingest'[d].pc = ingest[d].pc /\ ingest'[d].text = ingest[d].text
      BY <2>2 DEF IngestState
    <3>3. Cut(d)' \/ Ended(d)
      BY <2>2, <2>3, DeletionCuts DEF Running, Source
    <3> QED
      BY <2>3, <3>1, <3>2, <3>3 DEF Source, Lost, Ended, IngestAt
  <2>4. CASE e # d
    <3>1. ingest'[e] = ingest[e] /\ status'[e] = status[e]
      BY <1>2, <2>1, <2>2, <2>4 DEF DeleteDocument
    <3>2. <<e, x>> \in rows => <<e, x>> \in rows'
      BY <1>2, <2>1, <2>4 DEF DeleteDocument
    <3> QED
      BY <3>1, <3>2 DEF Source, Lost, Ended, IngestAt, Cut
  <2> QED
    BY <2>3, <2>4
<1>3. ASSUME UNCHANGED <<status, rows, ingest>>
      PROVE  Source(e, x)'
  BY <1>3 DEF Source, Lost, Ended, IngestAt, Cut
<1>4. ASSUME NEW r \in Request,
             \/ QueryVectors(r) \/ DeleteVectors(r) \/ PublishDeleted(r) \/ DeleteFails(r)
             \/ \E d \in Doc : StartDelete(r, d)
      PROVE  UNCHANGED <<status, rows, ingest>>
  BY <1>4 DEF QueryVectors, DeleteVectors, PublishDeleted, DeleteFails, StartDelete, stores
<1> QED
  BY <1>1, <1>2, <1>3, <1>4 DEF Next, DeleteStep, vars, stores

\* The steps of the ingest of d itself.
LEMMA IngestFinds ==
  ASSUME SearchInv, NEW d \in Doc,
         \A e \in Doc, x \in Content : Source(e, x) => Source(e, x)',
         IngestStep(d) \/ IngestFails(d) \/ IngestStops(d)
  PROVE  FindInv(d)'
<1> TypeOK /\ RowsInv(d) /\ FindInv(d)
  BY DEF SearchInv, StoresInv
<1> status \in [Doc -> Status] /\ ingest \in [Doc -> IngestState]
  BY DEF TypeOK
<1>0. {"processing", "dedup", "rows", "vectors", "indexed", "publish", "done",
       "fail", "failed", "stopped"} \subseteq IngestPC
  BY DEF IngestPC
<1>a. \A x \in Content :
        (\E e \in Doc \ {d} : Source(e, x)) => \E e \in Doc \ {d} : Source(e, x)'
  OBVIOUS
<1>b. ingest[d].text \subseteq Content /\ ingest[d].new \subseteq Content
  BY DEF IngestState
<1>1. CASE UpsertDocument(d)
  BY <1>1, TaskMoves, <1>0 DEF UpsertDocument, FindInv, IngestAt
<1>2. CASE StartProcessing(d)
  BY <1>2, TaskMoves, StatusMoves, <1>0 DEF StartProcessing, FindInv, IngestAt, IngestPC, Status
<1>3. CASE FilterNew(d)
  <2>1. /\ ingest'[d].pc = "embed" /\ ingest'[d].text = ingest[d].text
        /\ ingest'[d].new = {x \in ingest[d].text : ~Stored(x)}
        /\ rows' = rows /\ status' = status /\ vectors' = vectors
    BY <1>3 DEF FilterNew, IngestState, stores
  <2>2. ASSUME NEW x \in ingest[d].text, Stored(x)
        PROVE  \E e \in Doc \ {d} : Source(e, x)'
    <3>1. PICK e \in Doc : <<e, x>> \in rows
      BY <2>2 DEF Stored
    <3>2. x \in Content
      BY DEF IngestState
    <3>3. e # d /\ ~IngestAt(e, "none") /\ x \in ingest[e].text
      BY <1>3, <3>1, <3>2 DEF FilterNew, SearchInv, StoresInv, RowsInv, FindInv, IngestAt
    <3> QED
      BY <3>1, <3>2, <3>3 DEF Source
  <2>3. status[d] # "indexed"
    BY <1>3 DEF FilterNew, RowsInv, IngestAt, Ended
  <2> QED
    BY <2>1, <2>2, <2>3 DEF FindInv, IngestAt
<1>4. CASE Embed(d)
  <2>1. status[d] # "indexed"
    BY <1>4 DEF Embed, RowsInv, IngestAt, Ended
  <2> QED
    BY <1>4, <2>1, <1>a, <1>b, TaskMoves, <1>0 DEF Embed, stores, FindInv, IngestAt
<1>5. CASE SaveChunksMeta(d)
  <2>1. status[d] # "indexed" /\ status' = status
    BY <1>5 DEF SaveChunksMeta, RowsInv, IngestAt, Ended
  <2>2. \A x \in Content : <<d, x>> \in rows' => <<d, x>> \in rows \/ x \in ingest[d].new
    BY <1>5 DEF SaveChunksMeta
  <2>3. ingest'[d].pc \in {"vectors", "fail"} /\ IngestAt(d, "rows")
        /\ ingest'[d].text = ingest[d].text /\ ingest'[d].new = ingest[d].new
    BY <1>5, TaskMoves, <1>0 DEF SaveChunksMeta
  <2> QED
    BY <2>1, <2>2, <2>3, <1>a, <1>b DEF FindInv, IngestAt
<1>6. CASE SaveVectors(d)
  <2>1. status[d] # "indexed"
    BY <1>6 DEF SaveVectors, RowsInv, IngestAt, Ended
  <2> QED
    BY <1>6, <2>1, <1>a, <1>b, TaskMoves, <1>0
    DEF SaveVectors, Embedded, FindInv, IngestAt
<1>7. CASE MarkIndexed(d)
  <2>1. /\ ingest'[d].pc = "publish" /\ IngestAt(d, "indexed")
        /\ ingest'[d].text = ingest[d].text /\ ingest'[d].new = ingest[d].new
        /\ ingest'[d].row = ingest[d].row
        /\ status'[d] = "absent" <=> status[d] = "absent"
        /\ rows' = rows /\ vectors' = vectors
    BY <1>7, TaskMoves, StatusMoves, <1>0 DEF MarkIndexed, Status
  <2> QED
    BY <2>1, <1>a, <1>b DEF FindInv, IngestAt, Cut
<1>8. CASE PublishUpdated(d)
  BY <1>8, <1>a, <1>b, TaskMoves, <1>0 DEF PublishUpdated, stores, FindInv, IngestAt, Cut
<1>9. CASE RecordFailure(d)
  <2>1. /\ ingest'[d].pc = "failed"
        /\ ingest'[d].text = ingest[d].text /\ ingest'[d].new = ingest[d].new
        /\ status'[d] # "indexed"
        /\ rows' = rows /\ vectors' = vectors
    BY <1>9, TaskMoves, StatusMoves, <1>0 DEF RecordFailure, FailedStatus, WithStatus, Status
  <2> QED
    BY <2>1 DEF FindInv, IngestAt
<1>10. CASE IngestFails(d)
  BY <1>10, <1>a, <1>b, TaskMoves, <1>0
  DEF IngestFails, AfterError, stores, FindInv, IngestAt, Cut
<1>11. CASE IngestStops(d)
  BY <1>11, <1>a, <1>b, TaskMoves, <1>0 DEF IngestStops, stores, FindInv, IngestAt, Cut
<1> QED
  BY <1>1, <1>2, <1>3, <1>4, <1>5, <1>6, <1>7, <1>8, <1>9, <1>10, <1>11 DEF IngestStep

LEMMA SearchStep ==
  ASSUME SearchInv, [Next]_vars
  PROVE  SearchInv'
<1> StoresInv /\ TypeOK
  BY DEF SearchInv, StoresInv
<1>0. StoresInv'
  BY StoresStep
<1>1. \A e \in Doc, x \in Content : Source(e, x) => Source(e, x)'
  BY SourceStays
<1>2. ASSUME NEW e \in Doc,
             ingest'[e].pc = ingest[e].pc, ingest'[e].text = ingest[e].text,
             ingest'[e].new = ingest[e].new, Cut(e) => Cut(e)',
             status'[e] \in {status[e], "absent"},
             \A x \in Content : <<e, x>> \in rows' => <<e, x>> \in rows,
             \A x \in Content :
               <<e, x>> \in vectors /\ status[e] # "absent" /\ ~Cut(e) => <<e, x>> \in vectors'
      PROVE  FindInv(e)'
  <2>1. FindInv(e) /\ ingest[e].text \subseteq Content /\ ingest[e].new \subseteq Content
    BY DEF SearchInv, TypeOK, IngestState
  <2>2. \A x \in Content :
          (\E f \in Doc \ {e} : Source(f, x)) => \E f \in Doc \ {e} : Source(f, x)'
    BY <1>1
  <2>3. ASSUME Cut(e)' PROVE FindInv(e)'
    BY <1>2, <2>1, <2>2, <2>3 DEF FindInv, IngestAt
  <2>4. ASSUME ~Cut(e)' PROVE FindInv(e)'
    BY <1>2, <2>1, <2>2, <2>4 DEF FindInv, IngestAt
  <2> QED
    BY <2>3, <2>4
<1>3. ASSUME NEW d \in Doc, LocalTo(d), NEW e \in Doc \ {d}
      PROVE  FindInv(e)'
  BY <1>2, <1>3 DEF LocalTo, Cut
<1>4. ASSUME NEW d \in Doc, IngestStep(d) \/ IngestFails(d) \/ IngestStops(d)
      PROVE  SearchInv'
  <2>1. LocalTo(d)
    BY <1>4, IngestLocal
  <2>2. FindInv(d)'
    BY <1>1, <1>4, IngestFinds
  <2> QED
    BY <1>0, <1>3, <2>1, <2>2 DEF SearchInv
<1>5. ASSUME NEW d \in Doc, NEW text \in Text, Upload(d, text)
      PROVE  SearchInv'
  <2>1. LocalTo(d)
    BY <1>5, IngestLocal
  <2>2. /\ ingest'[d].pc = "upsert" /\ ingest'[d].text = text
        /\ ingest'[d].new = ingest[d].new /\ ingest[d].new = {}
        /\ status'[d] = "pending" /\ rows' = rows
    BY <1>5 DEF Upload, SearchInv, FindInv, TypeOK, IngestState
  <2>3. \A x \in Content : <<d, x>> \notin rows
    BY <1>5 DEF Upload, StoresInv, RowsInv, IngestAt
  <2>4. FindInv(d)'
    BY <2>2, <2>3 DEF FindInv, IngestAt
  <2> QED
    BY <1>0, <1>3, <2>1, <2>4 DEF SearchInv
<1>6. ASSUME NEW r \in Request,
             \/ DeleteStep(r) \/ DeleteFails(r)
             \/ \E d \in Doc : StartDelete(r, d)
      PROVE  SearchInv'
  <2>1. OnlyTakes(r)
    BY <1>6, DeleteOnlyTakes
  <2>2. ASSUME NEW e \in Doc PROVE FindInv(e)'
    <3>1. /\ ingest'[e].pc = ingest[e].pc /\ ingest'[e].text = ingest[e].text
          /\ ingest'[e].new = ingest[e].new /\ (Cut(e) => Cut(e)')
          /\ status'[e] \in {status[e], "absent"}
      BY <2>1 DEF OnlyTakes
    <3>2. \A x \in Content : <<e, x>> \in rows' => <<e, x>> \in rows
      BY <2>1 DEF OnlyTakes
    <3>3. \A x \in Content :
            <<e, x>> \in vectors /\ status[e] # "absent" /\ ~Cut(e) => <<e, x>> \in vectors'
      BY <2>1 DEF OnlyTakes
    <3> QED
      BY <1>2, <3>1, <3>2, <3>3
  <2> QED
    BY <1>0, <2>2 DEF SearchInv
<1>7. CASE UNCHANGED vars
  <2>1. ASSUME NEW e \in Doc PROVE FindInv(e)'
    BY <1>2, <1>7 DEF vars, stores, Cut
  <2> QED
    BY <1>0, <2>1 DEF SearchInv
<1> QED
  BY <1>4, <1>5, <1>6, <1>7 DEF Next

\* Once every ingest of a content has ended, an indexed document with it is found
\* by its own vector or that of the document it was deduplicated against, unless
\* that one was lost or this one cut (update.py 71-77, dedup.py 8-20).
THEOREM Findable == Spec => []IndexedIsFindable
<1>1. Init => SearchInv
  <2>1. Init => StoresInv
    BY StoresStart
  <2> QED
    BY <2>1 DEF Init, SearchInv, FindInv, IngestAt
<1>2. SearchInv /\ [Next]_vars => SearchInv'
  BY SearchStep
<1>3. SearchInv => IndexedIsFindable
  <2> SUFFICES ASSUME SearchInv, NEW d \in Doc, status[d] = "indexed", ~Cut(d),
                      NEW x \in ingest[d].text,
                      \A e \in Doc : <<e, x>> \notin vectors
               PROVE  \E e \in Doc \ {d} : x \in ingest[e].text /\ (Running(e) \/ Lost(e))
    BY DEF IndexedIsFindable
  <2>1. x \in Content /\ FindInv(d)
    BY DEF SearchInv, StoresInv, TypeOK, IngestState
  <2>2. x \notin ingest[d].new
    BY <2>1 DEF FindInv
  <2>3. PICK e \in Doc \ {d} : Source(e, x)
    BY <2>1, <2>2 DEF FindInv
  <2>4. RowsInv(e) /\ <<e, x>> \notin vectors
    BY DEF SearchInv, StoresInv
  <2>5. ~Running(e) /\ ~Lost(e) => FALSE
    BY <2>1, <2>3, <2>4 DEF Source, RowsInv, Running, Lost, Ended, IngestAt
  <2> QED
    BY <2>3, <2>5 DEF Source
<1> QED
  BY <1>1, <1>2, <1>3, PTL DEF Spec

=============================================================================
