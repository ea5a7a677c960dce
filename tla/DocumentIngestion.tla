-------------------------- MODULE DocumentIngestion --------------------------
(***************************************************************************)
(* How an uploaded PDF becomes chunks and vectors: the upload request, the *)
(* embedding scheduler of every worker, the manual scheduler run, and      *)
(* deletion (DocumentService in services.py, DocumentRepository,           *)
(* S3Service, api/documents.py, _embedding_scheduler_loop in main.py).     *)
(*                                                                         *)
(* Whoever embeds documents - a scheduler, a manual run, or the upload of  *)
(* a document, which has the name of the document - is an agent: it has a  *)
(* database session of its own and works through a list of documents it    *)
(* read earlier.  An agent is cut where it awaits; the calls to the        *)
(* embedding API do not await.  All chunks of a document are written in    *)
(* one transaction, so only the number of complete copies is kept.         *)
(***************************************************************************)
EXTENDS Naturals, FiniteSets, FiniteSetsExt

CONSTANTS
    Docs,        \* documents
    Earlier,     \* those stored before, whose chunks are missing
    Extracts,    \* what the PDFs may contain: functions from Docs to Contents
    Loops,       \* the scheduler tasks
    Manual,      \* POST /documents/scheduler/run requests
    Deletions,   \* DELETE /documents/{id} requests
    Workers,     \* server processes
    At,          \* At[a]: the worker that agent a runs in
    Limit,       \* how many documents one SELECT returns: 200, 100 by hand
    MaxFaults,   \* bound on failing calls and crashes
    None

Runners == Loops \cup Manual
Uploads == Docs \ Earlier
Agents  == Runners \cup Uploads

\* "poison" is text PostgreSQL rejects: pypdf may return NUL characters.
Contents == {"text", "blank", "poison"}

ASSUME IngestionAssumption ==
    /\ Earlier \subseteq Docs
    /\ Extracts \subseteq [Docs -> Contents]
    /\ At \in [Agents -> Workers]
    /\ Limit \in Nat \ {0}
    /\ MaxFaults \in Nat
    /\ None \notin Docs \cup Agents
    /\ Docs \cap Runners = {} /\ Loops \cap Manual = {}

VARIABLES
    row,       \* row[d]: the row of d in documents
    content,   \* content[d]: what _extract_pdf_chunks finds in the PDF of d
    object,    \* object[d]: S3 has the PDF of d
    copies,    \* copies[d]: complete sets of chunks and vectors of d
    ready,     \* ready[w]: _embeddings_table_ready of worker w
    columns,   \* the legacy columns of embeddings are still there
    old,       \* old[k]: where the vectors of legacy column k are
    pc,        \* pc[a]: where agent a stands
    todo,      \* todo[a]: the documents a still has to look at
    cur,       \* cur[a]: the document a works on
    expired,   \* expired[a]: a rollback expired the objects of a's session
    removal,   \* removal[x]: what deletion x has loaded
    faults,    \* failing calls and crashes that are left
    cause      \* events that may explain what should not be

agent  == <<pc, todo, cur, expired>>
legacy == <<columns, old>>
stored == <<row, content, object, copies>>
vars   == <<stored, ready, legacy, agent, removal, faults, cause>>

----------------------------------------------------------------------------
Legacy  == {"vec", "json"}
Steps   == {"idle", "insert", "next", "download", "prepare", "store", "ended"}
Removal == [doc : Docs \cup {None}, seen : Nat]
Nothing == [doc |-> None, seen |-> 0]
Cause   == [kind : {"overlap", "orphan"}, of : Docs]
           \cup [kind : {"undone"}, of : Legacy]

Blame(kind, of) == [kind |-> kind, of |-> of]

\* Mutant of Pending: the SELECT does not look for chunks.
PendingAll == {d \in Docs : row[d] = "stored"}

\* get_documents_without_chunks
Pending == {d \in Docs : row[d] = "stored" /\ copies[d] = 0}

\* The documents an agent will embed, or is embedding.
Holds(a) == IF pc[a] \in {"idle", "ended", "insert"} THEN {}
            ELSE todo[a] \cup ({cur[a]} \ {None})

Fault == faults > 0 /\ faults' = faults - 1

----------------------------------------------------------------------------
Init ==
    /\ row = [d \in Docs |-> IF d \in Earlier THEN "stored" ELSE "none"]
    /\ content \in Extracts
    /\ object = [d \in Docs |-> d \in Earlier]
    /\ copies = [d \in Docs |-> 0]
    /\ ready = [w \in Workers |-> FALSE]
    /\ columns = TRUE     \* else everything is as after the drop
    /\ old = [k \in Legacy |-> "column"]
    /\ pc = [a \in Agents |-> "idle"]
    /\ todo = [a \in Agents |-> {}]
    /\ cur = [a \in Agents |-> None]
    /\ expired = [a \in Agents |-> FALSE]
    /\ removal = [x \in Deletions |-> Nothing]
    /\ faults = MaxFaults
    /\ cause = {}

----------------------------------------------------------------------------
(* The end of a request or of a tick, with its session; a scheduler sleeps *)
(* and comes back.  An exception ends both in the same way: the client     *)
(* reads 500 although its document may be stored, and the rest of a tick   *)
(* is not looked at.                                                       *)

Rest(a) == IF a \in Loops THEN "idle" ELSE "ended"

Closes(a) ==
    /\ pc' = [pc EXCEPT ![a] = Rest(a)]
    /\ todo' = [todo EXCEPT ![a] = {}]
    /\ cur' = [cur EXCEPT ![a] = None]
    /\ expired' = [expired EXCEPT ![a] = FALSE]

\* Mutant of Returns: a document that cannot be embedded ends the loop.
ReturnsAtOnce(a) == Closes(a)

\* A runner goes on with its list, an upload answers.
Returns(a) ==
    IF a \in Uploads THEN Closes(a)
    ELSE /\ pc' = [pc EXCEPT ![a] = "next"]
         /\ cur' = [cur EXCEPT ![a] = None]
         /\ UNCHANGED <<todo, expired>>

Moves(a, to) == pc' = [pc EXCEPT ![a] = to] /\ UNCHANGED <<todo, cur, expired>>

----------------------------------------------------------------------------
(* Uploads.                                                                *)

\* Mutant of UploadPuts: the row is inserted although nothing was put.
UploadSkipsPut(d) ==
    /\ pc[d] = "idle"
    /\ Moves(d, "insert")
    /\ UNCHANGED <<stored, ready, legacy, removal, faults, cause>>

UploadPuts(d) ==
    /\ pc[d] = "idle"
    /\ object' = [object EXCEPT ![d] = TRUE]
    /\ Moves(d, "insert")
    /\ UNCHANGED <<row, content, copies, ready, legacy, removal, faults, cause>>

UploadPutFails(d) ==
    /\ pc[d] = "idle"
    /\ Fault
    /\ Closes(d)
    /\ UNCHANGED <<stored, ready, legacy, removal, cause>>

\* S3 has stored the object, but its answer is lost: 500, and no row.
UploadPutUnheard(d) ==
    /\ pc[d] = "idle"
    /\ Fault
    /\ object' = [object EXCEPT ![d] = TRUE]
    /\ cause' = cause \cup {Blame("orphan", d)}
    /\ Closes(d)
    /\ UNCHANGED <<row, content, copies, ready, legacy, removal>>

\* Mutant of Entry: a step that no handler knows.
EntryUnknown(a) == IF ready[At[a]] THEN "embed" ELSE "prepare"

\* Where _process_document_embeddings begins, or goes on, in a worker.
Entry(a) == IF ready[At[a]] THEN "store" ELSE "prepare"

UploadInserts(d) ==
    /\ pc[d] = "insert"
    /\ row' = [row EXCEPT ![d] = "stored"]
    /\ IF content[d] = "blank"
       THEN Closes(d)
       ELSE /\ pc' = [pc EXCEPT ![d] = Entry(d)]
            /\ cur' = [cur EXCEPT ![d] = d]
            /\ UNCHANGED <<todo, expired>>
    /\ UNCHANGED <<content, object, copies, ready, legacy, removal, faults, cause>>

\* The company does not exist ("unknown", unless the form names one), or the
\* database fails: the object stays in S3.
UploadInsertFails(d) ==
    /\ pc[d] = "insert"
    /\ Closes(d)
    /\ cause' = cause \cup {Blame("orphan", d)}
    /\ UNCHANGED <<stored, ready, legacy, removal, faults>>

----------------------------------------------------------------------------
(* process_pending_documents.                                              *)

\* What the SELECT may return: it has a LIMIT and no ORDER BY.
Listed(list) == list \in kSubset(Min({Limit, Cardinality(Pending)}), Pending)

RunnerScans(r) ==
    /\ pc[r] = "idle"
    /\ \E list \in SUBSET Pending :
          /\ Listed(list)
          /\ todo' = [todo EXCEPT ![r] = list]
          /\ pc' = [pc EXCEPT ![r] = IF list = {} THEN Rest(r) ELSE "next"]
          /\ cause' = cause \cup {Blame("overlap", d) : d \in
                {d \in list : \E a \in Agents : d \in Holds(a)}}
    /\ UNCHANGED <<stored, ready, legacy, cur, expired, removal, faults>>

\* The loop variable of an expired session cannot be read: file_url raises,
\* and so does the handler that prints document.id.
RunnerTakes(r) ==
    /\ pc[r] = "next"
    /\ todo[r] # {} /\ ~expired[r]
    /\ \E d \in todo[r] :
          /\ todo' = [todo EXCEPT ![r] = todo[r] \ {d}]
          /\ cur' = [cur EXCEPT ![r] = d]
    /\ pc' = [pc EXCEPT ![r] = "download"]
    /\ UNCHANGED <<stored, ready, legacy, expired, removal, faults, cause>>

RunnerFinishes(r) ==
    /\ pc[r] = "next"
    /\ todo[r] = {} \/ expired[r]
    /\ Closes(r)
    /\ UNCHANGED <<stored, ready, legacy, removal, faults, cause>>

RunnerDownloads(r) ==
    /\ pc[r] = "download" /\ object[cur[r]]
    /\ IF content[cur[r]] = "blank"
       THEN Returns(r)
       ELSE Moves(r, Entry(r))
    /\ UNCHANGED <<stored, ready, legacy, removal, faults, cause>>

RunnerDownloadFails(r) ==
    /\ pc[r] = "download"
    /\ Fault
    /\ Returns(r)
    /\ UNCHANGED <<stored, ready, legacy, removal, cause>>

----------------------------------------------------------------------------
(* _process_document_embeddings.                                           *)

Dropped == [k \in Legacy |-> IF old[k] = "column" THEN "lost" ELSE old[k]]

\* _ensure_embeddings_table: both columns are dropped in one transaction,
\* without a look at what is still only in them.
Prepares(a) ==
    /\ pc[a] = "prepare"
    /\ columns' = FALSE
    /\ old' = Dropped
    /\ ready' = [ready EXCEPT ![At[a]] = TRUE]
    /\ Moves(a, "store")
    /\ cause' = cause \cup {Blame("undone", k) : k \in {k \in Legacy : old[k] = "column"}}
    /\ UNCHANGED <<stored, removal, faults>>

PreparationFails(a) ==
    /\ pc[a] = "prepare"
    /\ Fault
    /\ expired' = [expired EXCEPT ![a] = TRUE]
    /\ pc' = [pc EXCEPT ![a] = "store"]
    /\ UNCHANGED <<stored, ready, legacy, todo, cur, removal, cause>>

\* The API fails, or returns another number of vectors.
EmbeddingFails(a) ==
    /\ pc[a] = "store"
    /\ Fault
    /\ Returns(a)
    /\ UNCHANGED <<stored, ready, legacy, removal, cause>>

\* Mutant of Storable: no foreign key.
StorableAnyway(a) == ~expired[a] /\ content[cur[a]] # "poison"

\* An expired document.id cannot be read; a chunk has a foreign key, and the
\* server checks its text.
Storable(a) == ~expired[a] /\ row[cur[a]] = "stored" /\ content[cur[a]] # "poison"

Stores(a) ==
    /\ pc[a] = "store"
    /\ Storable(a)
    /\ copies' = [copies EXCEPT ![cur[a]] = @ + 1]
    /\ Returns(a)
    /\ UNCHANGED <<row, content, object, ready, legacy, removal, faults, cause>>

\* The flush fails and rolls back: everything the session loaded expires,
\* and the handler that prints document.id raises as well.
StoreFails(a) ==
    /\ pc[a] = "store"
    /\ IF Storable(a) THEN Fault ELSE UNCHANGED faults
    /\ Closes(a)
    /\ UNCHANGED <<stored, ready, legacy, removal, cause>>

----------------------------------------------------------------------------
(* DocumentRepository.delete.                                              *)

DeleteLooks(x) ==
    /\ removal[x] = Nothing
    /\ \E d \in Docs :
          /\ row[d] = "stored"
          /\ removal' = [removal EXCEPT ![x] = [doc |-> d, seen |-> copies[d]]]
    /\ UNCHANGED <<stored, ready, legacy, agent, faults, cause>>

\* Only the chunks that were loaded are deleted: others break the foreign
\* key, and the request fails.  The object stays in S3.
Removable(x) == copies[removal[x].doc] = removal[x].seen

\* Mutant of DeleteCommits: the chunks go in a transaction of their own.
DeleteCommitsApart(x) ==
    /\ removal[x].doc # None
    /\ LET d == removal[x].doc
           done == row[d] = "stored" /\ Removable(x) IN
       /\ row' = IF done THEN [row EXCEPT ![d] = "deleted"] ELSE row
       /\ copies' = [copies EXCEPT ![d] = 0]
       /\ cause' = IF done THEN cause \cup {Blame("orphan", d)} ELSE cause
    /\ removal' = [removal EXCEPT ![x] = [doc |-> None, seen |-> 1]]
    /\ UNCHANGED <<content, object, ready, legacy, agent, faults>>

DeleteCommits(x) ==
    /\ removal[x].doc # None
    /\ LET d == removal[x].doc
           done == row[d] = "stored" /\ Removable(x) IN
       /\ row' = IF done THEN [row EXCEPT ![d] = "deleted"] ELSE row
       /\ copies' = IF done THEN [copies EXCEPT ![d] = 0] ELSE copies
       /\ cause' = IF done THEN cause \cup {Blame("orphan", d)} ELSE cause
    /\ removal' = [removal EXCEPT ![x] = [doc |-> None, seen |-> 1]]
    /\ UNCHANGED <<content, object, ready, legacy, agent, faults>>

----------------------------------------------------------------------------
\* A worker dies; its schedulers start again, its requests do not.
Crash(w) ==
    LET here == {a \in Agents : At[a] = w /\ pc[a] # "idle"} IN
    /\ Fault
    /\ here # {}
    /\ pc' = [a \in Agents |-> IF a \in here THEN Rest(a) ELSE pc[a]]
    /\ todo' = [a \in Agents |-> IF a \in here THEN {} ELSE todo[a]]
    /\ cur' = [a \in Agents |-> IF a \in here THEN None ELSE cur[a]]
    /\ expired' = [a \in Agents |-> a \notin here /\ expired[a]]
    /\ ready' = [ready EXCEPT ![w] = FALSE]
    /\ cause' = cause \cup {Blame("orphan", d) : d \in {d \in here \cap Uploads : pc[d] = "insert"}}
    /\ UNCHANGED <<stored, legacy, removal>>

----------------------------------------------------------------------------
UploadStep(d) == UploadInserts(d) \/ UploadInsertFails(d)
RunnerStep(r) == RunnerScans(r) \/ RunnerTakes(r) \/ RunnerFinishes(r)
                 \/ RunnerDownloads(r) \/ RunnerDownloadFails(r)
EmbedStep(a)  == Prepares(a) \/ PreparationFails(a)
                 \/ EmbeddingFails(a) \/ Stores(a) \/ StoreFails(a)

\* Everything but crashes.
Ingestion ==
    \/ \E d \in Uploads : UploadPuts(d) \/ UploadPutFails(d) \/ UploadPutUnheard(d)
                         \/ UploadStep(d)
    \/ \E r \in Runners : RunnerStep(r)
    \/ \E a \in Agents : EmbedStep(a)
    \/ \E x \in Deletions : DeleteLooks(x) \/ DeleteCommits(x)

\* The event loop resumes what has been started, and every scheduler comes
\* back from its sleep; nobody is obliged to upload, delete or run by hand.
IngestionFairness ==
    /\ \A d \in Uploads : WF_vars(UploadStep(d))
    /\ \A r \in Loops : WF_vars(RunnerStep(r))
    /\ \A r \in Manual : WF_vars(pc[r] # "idle" /\ RunnerStep(r))
    /\ \A a \in Agents : WF_vars(EmbedStep(a))

----------------------------------------------------------------------------
IngestionTypeOK ==
    /\ row \in [Docs -> {"none", "stored", "deleted"}]
    /\ content \in [Docs -> Contents]
    /\ object \in [Docs -> BOOLEAN]
    /\ copies \in [Docs -> Nat]
    /\ ready \in [Workers -> BOOLEAN]
    /\ columns \in BOOLEAN
    /\ old \in [Legacy -> {"column", "native", "lost"}]
    /\ pc \in [Agents -> Steps]
    /\ todo \in [Agents -> SUBSET Docs]
    /\ cur \in [Agents -> Docs \cup {None}]
    /\ expired \in [Agents -> BOOLEAN]
    /\ removal \in [Deletions -> Removal]
    /\ faults \in 0 .. MaxFaults
    /\ cause \subseteq Cause

\* Every row points to an object in S3, and an object without a row belongs
\* to an upload under way, or its upload or a deletion left it behind.
\* (upload_document puts before it inserts; delete never deletes the object.)
EveryOrphanHasACause ==
    \A d \in Docs :
        /\ row[d] = "stored" => object[d]
        /\ object[d] /\ row[d] # "stored" =>
              (d \in Uploads /\ pc[d] = "insert") \/ Blame("orphan", d) \in cause

\* A document has two sets of chunks only if it was listed as pending while
\* another agent already held it.  (Nothing claims a document, and the list
\* is not looked at again before the chunks are written.)
EveryCopyHasACause ==
    \A d \in Docs : copies[d] > 1 => Blame("overlap", d) \in cause

\* A deleted document does not come back, and neither do its chunks,
\* although an agent holds it, and embeds it, for as long as it likes.
\* (Only the foreign key of rag_chunks stops _process_document_embeddings.)
DeletedStaysDeleted ==
    [][\A d \in Docs : row[d] = "deleted" => row'[d] = "deleted" /\ copies'[d] = 0]_vars

\* A document is listed once its PDF is kept, found only while it is listed, and
\* both until somebody deletes it, whatever crashes, fails or overlaps.
\* (DocumentService, as DocumentLifecycle describes it.)
DL == INSTANCE DocumentLifecycle WITH
          kept   <- {d \in Docs : object[d]},
          listed <- {d \in Docs : row[d] = "stored"},
          found  <- {d \in Docs : copies[d] > 0},
          gone   <- {d \in Docs : row[d] = "deleted"}
ImplementsDocumentLifecycle == DL!Spec

Waiting(d) == d \in Pending /\ content[d] = "text"
Poisoned   == \E r \in Runners : pc[r] = "store" /\ content[cur[r]] = "poison"

\* The schedulers embed every document that has text (or it is deleted) as long as
\* the LIMIT of their SELECT lets them see all pending ones, and unless documents
\* whose text the database rejects cut their ticks short again and again: documents
\* without text, which stay pending, failing calls and crashes do not keep the
\* others out.  (process_pending_documents: the loop goes on after an error.)
PendingIsEmbedded ==
    \A d \in Docs : []<>~Waiting(d) \/ []<>Poisoned

\* "Embedding scheduler: pending documents are embedded every 30 minutes"
\* (README.md:99): no document that has text stays pending for ever.
EveryPendingIsEmbedded ==
    \A d \in Docs : []<>~Waiting(d)
============================================================================
