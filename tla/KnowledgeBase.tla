--------------------------- MODULE KnowledgeBase ---------------------------
(***************************************************************************)
(* The knowledge base of app/knowledge_base (M1): a document is uploaded,  *)
(* ingested by a background task that writes PostgreSQL and then Milvus,   *)
(* and deleted from both.  The two stores share no transaction.            *)
(*                                                                         *)
(* Every transaction and every Milvus call is one step.  Document ids are  *)
(* fresh, so the lock of an ingest is never contended: it only adds a call *)
(* that may raise.                                                         *)
(*                                                                         *)
(* Abstracted: parsing, cleaning and chunking, whose outcome is the set of *)
(* chunk contents of the upload (equal chunks of one document are one),    *)
(* the embeddings, the chunk counts and the temporary file.                *)
(***************************************************************************)
EXTENDS Naturals

CONSTANTS
  Doc,      \* document ids, one for each upload
  Content,  \* content hashes of chunks
  Text,     \* documents that may be uploaded, as sets of such hashes
  Request,  \* DELETE requests in flight
  None,     \* no document
  Faults    \* what the environment may do

ASSUME NoneAssumption == None \notin Doc
ASSUME TextAssumption == Text \subseteq SUBSET Content
ASSUME FaultAssumption == Faults \subseteq {"error", "crash"}

VARIABLES
  status,   \* status[d]: of the row of d in documents
  rows,     \* the rows of chunks_metadata, as pairs of document and content
  vectors,  \* the entities of the Milvus collection, as such pairs
  ingest,   \* ingest[d]: where the task that ingests d is
  request,  \* request[r]: where the DELETE request r is
  told      \* the events published, as pairs of event and document

stores == <<status, rows, vectors>>
vars == <<stores, ingest, request, told>>

-----------------------------------------------------------------------------
(* Variants the code might have had, used only to show that the properties *)
(* depend on the code they are about.                                      *)

VectorsOfRows(d) == {x \in Content : <<d, x>> \in vectors \cap rows}

StillNew(d) == {x \in ingest[d].new : \A e \in Doc : <<e, x>> \notin rows}

TolerateMilvus(label) == IF label = "vectors" THEN "indexed" ELSE "fail"

TolerateStream(label) == IF label = "publish" THEN "done" ELSE "fail"

NeverStored(x) == FALSE

-----------------------------------------------------------------------------

Status == {"absent", "pending", "processing", "indexed", "failed"}

\* "stopped": the task died, or could not record its failure.
IngestPC == {"none", "upsert", "processing", "dedup", "embed", "rows", "vectors",
             "indexed", "publish", "fail", "done", "failed", "stopped"}

\* row is a history variable: "cut" once the row of the document was deleted while
\* its ingest was under way.
IngestState ==
  [pc : IngestPC, text : SUBSET Content, new : SUBSET Content, row : {"kept", "cut"}]

RequestPC == {"idle", "rows", "query", "vectors", "publish"}

RequestState == [pc : RequestPC, doc : Doc \cup {None}, found : SUBSET Content]

IdleRequest == [pc |-> "idle", doc |-> None, found |-> {}]

IngestAt(d, label) == ingest[d].pc = label

IngestGoto(d, label) == ingest' = [ingest EXCEPT ![d].pc = label]

Ended(d) == ingest[d].pc \in {"done", "failed", "stopped"}

Running(d) == ~IngestAt(d, "none") /\ ~Ended(d)

Cut(d) == ingest[d].row = "cut"

RequestAt(r, label) == request[r].pc = label

Stored(x) == \E d \in Doc : <<d, x>> \in rows

Init ==
  /\ status = [d \in Doc |-> "absent"]
  /\ rows = {}
  /\ vectors = {}
  /\ ingest = [d \in Doc |-> [pc |-> "none", text |-> {}, new |-> {}, row |-> "kept"]]
  /\ request = [r \in Request |-> IdleRequest]
  /\ told = {}

-----------------------------------------------------------------------------
(* Upload and ingest.                                                      *)

\* prepare_upload creates the row; the background task starts afterwards.
Upload(d, text) ==
  /\ IngestAt(d, "none")
  /\ status' = [status EXCEPT ![d] = "pending"]
  /\ ingest' = [ingest EXCEPT ![d].pc = "upsert", ![d].text = text]
  /\ UNCHANGED <<rows, vectors, request, told>>

\* Inserts the row again if it has been deleted meanwhile.
UpsertDocument(d) ==
  /\ IngestAt(d, "upsert")
  /\ status' = [status EXCEPT ![d] = "pending"]
  /\ IngestGoto(d, "processing")
  /\ UNCHANGED <<rows, vectors, request, told>>

\* UPDATE ... WHERE doc_id: a row that is gone stays gone.
WithStatus(d, s) == IF status[d] = "absent" THEN status ELSE [status EXCEPT ![d] = s]

StartProcessing(d) ==
  /\ IngestAt(d, "processing")
  /\ status' = WithStatus(d, "processing")
  /\ IngestGoto(d, "dedup")
  /\ UNCHANGED <<rows, vectors, request, told>>

FilterNew(d) ==
  /\ IngestAt(d, "dedup")
  /\ ingest' = [ingest EXCEPT ![d].pc = "embed",
                             ![d].new = {x \in ingest[d].text : ~Stored(x)}]
  /\ UNCHANGED <<stores, request, told>>

Embed(d) ==
  /\ IngestAt(d, "embed")
  /\ IngestGoto(d, "rows")
  /\ UNCHANGED <<stores, request, told>>

\* ON CONFLICT (content_hash) DO NOTHING: a content that another document has
\* stored since the filter gets no second row.  The foreign key needs the
\* document, unless there is nothing to insert.
SaveChunksMeta(d) ==
  LET inserted == {x \in ingest[d].new : ~Stored(x)} IN
  /\ IngestAt(d, "rows")
  /\ \/ /\ inserted # {} /\ status[d] = "absent"
        /\ IngestGoto(d, "fail")
        /\ UNCHANGED rows
     \/ /\ inserted = {} \/ status[d] # "absent"
        /\ rows' = rows \cup {<<d, x>> : x \in inserted}
        /\ IngestGoto(d, "vectors")
  /\ UNCHANGED <<status, vectors, request, told>>

\* Every chunk that passed the filter, with or without a row.
Embedded(d) == ingest[d].new

SaveVectors(d) ==
  /\ IngestAt(d, "vectors")
  /\ vectors' = vectors \cup {<<d, x>> : x \in Embedded(d)}
  /\ IngestGoto(d, "indexed")
  /\ UNCHANGED <<status, rows, request, told>>

MarkIndexed(d) ==
  /\ IngestAt(d, "indexed")
  /\ status' = WithStatus(d, "indexed")
  /\ IngestGoto(d, "publish")
  /\ UNCHANGED <<rows, vectors, request, told>>

PublishUpdated(d) ==
  /\ IngestAt(d, "publish")
  /\ told' = told \cup {<<"kb_updated", d>>}
  /\ IngestGoto(d, "done")
  /\ UNCHANGED <<stores, request>>

-----------------------------------------------------------------------------
(* Failures of an ingest.                                                  *)

\* Whatever raises, the except block follows.
AfterError(label) == "fail"

\* A call raises; a publish whose reply is lost has still been executed, for
\* the other calls that is a step and then a failure.
IngestFails(d) ==
  /\ "error" \in Faults
  /\ Running(d) /\ ~IngestAt(d, "fail")
  /\ IngestGoto(d, AfterError(ingest[d].pc))
  /\ \/ UNCHANGED told
     \/ IngestAt(d, "publish") /\ told' = told \cup {<<"kb_updated", d>>}
  /\ UNCHANGED <<stores, request>>

FailedStatus(d) == WithStatus(d, "failed")

RecordFailure(d) ==
  /\ IngestAt(d, "fail")
  /\ status' = FailedStatus(d)
  /\ IngestGoto(d, "failed")
  /\ UNCHANGED <<rows, vectors, request, told>>

\* The process dies; acquire_lock raises, before the try block; or the status
\* update of the except block raises too.
IngestStops(d) ==
  /\ \/ "crash" \in Faults /\ Running(d)
     \/ "error" \in Faults /\ ingest[d].pc \in {"upsert", "fail"}
  /\ IngestGoto(d, "stopped")
  /\ UNCHANGED <<stores, request, told>>

-----------------------------------------------------------------------------
(* DELETE /knowledge-base/documents/{doc_id}.                              *)

\* A document that is not there is answered 404; one that is still being ingested
\* is deleted like any other.
StartDelete(r, d) ==
  /\ RequestAt(r, "idle")
  /\ status[d] # "absent"
  /\ request' = [request EXCEPT ![r] = [IdleRequest EXCEPT !.pc = "rows", !.doc = d]]
  /\ UNCHANGED <<stores, ingest, told>>

\* The rows of the chunks go with the document, by cascade.
DeleteDocument(r) ==
  LET d == request[r].doc IN
  /\ RequestAt(r, "rows")
  /\ status' = [status EXCEPT ![d] = "absent"]
  /\ rows' = {c \in rows : c[1] # d}
  /\ ingest' = [ingest EXCEPT ![d].row = IF Running(d) THEN "cut" ELSE @]
  /\ request' = [request EXCEPT ![r].pc = "query"]
  /\ UNCHANGED <<vectors, told>>

VectorsOf(d) == {x \in Content : <<d, x>> \in vectors}

QueryVectors(r) ==
  LET found == VectorsOf(request[r].doc) IN
  /\ RequestAt(r, "query")
  /\ request' = [request EXCEPT ![r].pc = IF found = {} THEN "publish" ELSE "vectors",
                               ![r].found = found]
  /\ UNCHANGED <<stores, ingest, told>>

DeleteVectors(r) ==
  /\ RequestAt(r, "vectors")
  /\ vectors' = vectors \ {<<request[r].doc, x>> : x \in request[r].found}
  /\ request' = [request EXCEPT ![r].pc = "publish"]
  /\ UNCHANGED <<status, rows, ingest, told>>

PublishDeleted(r) ==
  /\ RequestAt(r, "publish")
  /\ told' = told \cup {<<"kb_deleted", request[r].doc>>}
  /\ request' = [request EXCEPT ![r] = IdleRequest]
  /\ UNCHANGED <<stores, ingest>>

DeleteFails(r) ==
  /\ Faults \cap {"error", "crash"} # {}
  /\ ~RequestAt(r, "idle")
  /\ request' = [request EXCEPT ![r] = IdleRequest]
  /\ UNCHANGED <<stores, ingest, told>>

-----------------------------------------------------------------------------
(* The specification.                                                      *)

IngestStep(d) ==
  \/ UpsertDocument(d) \/ StartProcessing(d) \/ FilterNew(d) \/ Embed(d)
  \/ SaveChunksMeta(d) \/ SaveVectors(d) \/ MarkIndexed(d) \/ PublishUpdated(d)
  \/ RecordFailure(d)

DeleteStep(r) ==
  \/ DeleteDocument(r) \/ QueryVectors(r) \/ DeleteVectors(r) \/ PublishDeleted(r)

Next ==
  \/ \E d \in Doc :
       \/ \E text \in Text : Upload(d, text)
       \/ IngestStep(d) \/ IngestFails(d) \/ IngestStops(d)
  \/ \E r \in Request :
       \/ \E d \in Doc : StartDelete(r, d)
       \/ DeleteStep(r) \/ DeleteFails(r)

Spec == Init /\ [][Next]_vars

\* The event loop runs every background task on.
Fairness == \A d \in Doc : WF_vars(IngestStep(d))

FairSpec == Spec /\ Fairness

-----------------------------------------------------------------------------
(* Properties.                                                             *)

\* Every variable keeps its type; a chunk has a row only while its document has
\* one, and no two rows have the same content (store.py 25-34, 114-142, 186-193).
TypeOK ==
  /\ status \in [Doc -> Status]
  /\ rows \subseteq Doc \X Content
  /\ \A c \in rows : status[c[1]] # "absent"
  /\ \A c, e \in rows : c[2] = e[2] => c = e
  /\ vectors \subseteq Doc \X Content
  /\ ingest \in [Doc -> IngestState]
  /\ request \in [Request -> RequestState]
  /\ \A r \in Request : RequestAt(r, "idle") \/ request[r].doc \in Doc
  /\ told \subseteq {"kb_updated", "kb_deleted"} \X Doc

\* What PostgreSQL has of an indexed document Milvus has too, whatever failed and
\* whoever stored or deleted the same content at the same time: the two indexes
\* the hybrid retriever fuses agree (update.py 75-77, 92-97).  Only a document
\* deleted during its ingest may come back with rows whose vectors are removed.
IndexedInBothStores ==
  \A d \in Doc : status[d] = "indexed" /\ ~Cut(d) => \A x \in Content :
    <<d, x>> \in rows => <<d, x>> \in vectors

\* Document d is lost as a source: it failed, it stopped, or it was deleted.
Lost(d) ==
  \/ Cut(d)
  \/ Ended(d) /\ (~IngestAt(d, "done") \/ status[d] = "absent")

\* Once every ingest of a content has ended, an indexed document with that content
\* can be found by vector search, by its own copy or the one it was deduplicated
\* against, unless that other document failed or was deleted, or this one was
\* while its ingest was under way (update.py 71-77, dedup.py 8-20).
IndexedIsFindable ==
  \A d \in Doc : status[d] = "indexed" /\ ~Cut(d) => \A x \in ingest[d].text :
    \/ \E e \in Doc : <<e, x>> \in vectors
    \/ \E e \in Doc \ {d} : x \in ingest[e].text /\ (Running(e) \/ Lost(e))

\* An indexed document has been announced to the caches, or its task died: an
\* announcement that fails turns the status to failed (update.py 77-83, 92-97).
IndexedIsTold ==
  \A d \in Doc :
    status[d] = "indexed" ~>
      <<"kb_updated", d>> \in told \/ status[d] # "indexed" \/ IngestAt(d, "stopped")

\* Nothing works on document d.
Quiet(d) ==
  /\ ~Running(d)
  /\ \A r \in Request : request[r].doc # d

\* Once a deletion is announced and nothing works on the document any more, it
\* has left both stores: "Delete a document and its vectors from Milvus"
\* (docs/API.md 45; service.py 118-127, milvus.py 115-131).  The exception is a
\* document whose row went while its ingest was under way: the vectors that follow
\* stay.
DeletedLeavesNothing ==
  \A d \in Doc : <<"kb_deleted", d>> \in told /\ Quiet(d) /\ ~Cut(d) =>
    /\ status[d] = "absent"
    /\ \A x \in Content : <<d, x>> \notin rows \cup vectors

=============================================================================
