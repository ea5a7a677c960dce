--------------------------- MODULE IngestionProofs ---------------------------
(***************************************************************************)
(* Proofs about DocumentIngestion and LegacyVectors, for any number of     *)
(* documents, schedulers, manual runs, deletions, workers, questions and   *)
(* faults.                                                                 *)
(***************************************************************************)
EXTENDS LegacyVectors, TLAPS

USE IngestionAssumption DEF IngestionAssumption, Runners, Uploads, Agents

----------------------------------------------------------------------------
(* Types                                                                   *)

\* What the other invariants need to know of the types.
Shapes ==
    /\ row \in [Docs -> {"none", "stored", "deleted"}]
    /\ DOMAIN object = Docs /\ copies \in [Docs -> Nat]
    /\ DOMAIN pc = Agents /\ DOMAIN cur = Agents /\ todo \in [Agents -> SUBSET Docs]
    /\ DOMAIN old = Legacy /\ DOMAIN setup = Chats

LEMMA TypesGiveShapes == TypeOK => Shapes
  BY DEF TypeOK, IngestionTypeOK, Shapes

\* The part of the agents.
AgentsOK ==
    /\ pc \in [Agents -> Steps]
    /\ todo \in [Agents -> SUBSET Docs]
    /\ cur \in [Agents -> Docs \cup {None}]
    /\ expired \in [Agents -> BOOLEAN]

LEMMA TypesInitial == LInit => TypeOK
  <1> SUFFICES ASSUME LInit PROVE TypeOK
    OBVIOUS
  <1>1. content \in [Docs -> Contents]
    BY DEF LInit, Init
  <1>2. AgentsOK
    BY DEF LInit, Init, AgentsOK, Steps
  <1>3. removal \in [Deletions -> Removal]
    BY DEF LInit, Init, Removal, Nothing
  <1>4. faults \in 0 .. MaxFaults /\ cause \subseteq Cause
    BY DEF LInit, Init
  <1>5. QED
    BY <1>1, <1>2, <1>3, <1>4 DEF LInit, Init, AgentsOK, TypeOK, IngestionTypeOK

LEMMA FaultIsCounted ==
    ASSUME faults \in 0 .. MaxFaults, Fault
    PROVE  faults' \in 0 .. MaxFaults
  BY DEF Fault

LEMMA BlamesAreCauses ==
    ASSUME NEW of
    PROVE  /\ of \in Docs => Blame("overlap", of) \in Cause /\ Blame("orphan", of) \in Cause
           /\ of \in Legacy => Blame("undone", of) \in Cause
  BY DEF Blame, Cause

LEMMA ClosesTypes ==
    ASSUME AgentsOK, NEW a \in Agents, Closes(a)
    PROVE  AgentsOK'
  BY DEF Closes, Rest, Steps, AgentsOK

LEMMA ReturnsTypes ==
    ASSUME AgentsOK, NEW a \in Agents, Returns(a)
    PROVE  AgentsOK'
  BY ClosesTypes DEF Returns, Steps, AgentsOK

LEMMA MovesTypes ==
    ASSUME AgentsOK, NEW a \in Agents, NEW to \in Steps, Moves(a, to)
    PROVE  AgentsOK'
  BY DEF Moves, AgentsOK

\* Every step of the agents, by what it does to them and to the rest.
LEMMA UploadTypes ==
    ASSUME IngestionTypeOK, NEW d \in Uploads,
           UploadPuts(d) \/ UploadPutFails(d) \/ UploadPutUnheard(d)
           \/ UploadInserts(d) \/ UploadInsertFails(d)
    PROVE  IngestionTypeOK'
  <1>1. AgentsOK /\ d \in Docs /\ d \in Agents
    BY DEF IngestionTypeOK, AgentsOK
  <1>2. CASE UploadPuts(d)
    <2>1. AgentsOK'
      BY <1>1, <1>2, MovesTypes DEF UploadPuts, Steps
    <2>2. QED
      BY <1>2, <2>1 DEF UploadPuts, legacy, AgentsOK, IngestionTypeOK
  <1>3. CASE UploadPutFails(d)
    BY <1>1, <1>3, ClosesTypes, FaultIsCounted
       DEF UploadPutFails, stored, legacy, AgentsOK, IngestionTypeOK
  <1>6. CASE UploadPutUnheard(d)
    <2>1. AgentsOK' /\ faults' \in 0 .. MaxFaults
      BY <1>1, <1>6, ClosesTypes, FaultIsCounted DEF UploadPutUnheard, IngestionTypeOK
    <2>2. cause' \subseteq Cause /\ object' \in [Docs -> BOOLEAN]
      BY <1>1, <1>6, BlamesAreCauses DEF UploadPutUnheard, IngestionTypeOK
    <2>3. QED
      BY <1>6, <2>1, <2>2 DEF UploadPutUnheard, legacy, AgentsOK, IngestionTypeOK
  <1>4. CASE UploadInserts(d)
    <2>1. AgentsOK'
      <3>1. CASE Closes(d)
        BY <1>1, <3>1, ClosesTypes
      <3>2. CASE /\ pc' = [pc EXCEPT ![d] = Entry(d)]
                 /\ cur' = [cur EXCEPT ![d] = d] /\ UNCHANGED <<todo, expired>>
        BY <1>1, <3>2 DEF Entry, Steps, AgentsOK
      <3>3. QED
        BY <1>4, <3>1, <3>2 DEF UploadInserts
    <2>2. row' \in [Docs -> {"none", "stored", "deleted"}]
      BY <1>1, <1>4 DEF UploadInserts, IngestionTypeOK
    <2>3. QED
      BY <1>4, <2>1, <2>2 DEF UploadInserts, legacy, AgentsOK, IngestionTypeOK
  <1>5. CASE UploadInsertFails(d)
    <2>1. cause' \subseteq Cause
      BY <1>1, <1>5, BlamesAreCauses DEF UploadInsertFails, IngestionTypeOK
    <2>2. QED
      BY <1>1, <1>5, <2>1, ClosesTypes
         DEF UploadInsertFails, stored, legacy, AgentsOK, IngestionTypeOK
  <1>7. QED
    BY <1>2, <1>3, <1>4, <1>5, <1>6

LEMMA RunnerTypes ==
    ASSUME IngestionTypeOK, NEW r \in Runners, RunnerStep(r)
    PROVE  IngestionTypeOK'
  <1>1. AgentsOK /\ r \in Agents
    BY DEF IngestionTypeOK, AgentsOK
  <1>2. CASE RunnerScans(r)
    <2>1. PICK list \in SUBSET Pending :
              /\ todo' = [todo EXCEPT ![r] = list]
              /\ pc' = [pc EXCEPT ![r] = IF list = {} THEN Rest(r) ELSE "next"]
              /\ cause' = cause \cup {Blame("overlap", d) : d \in
                    {d \in list : \E a \in Agents : d \in Holds(a)}}
      BY <1>2 DEF RunnerScans
    <2>2. list \subseteq Docs
      BY DEF Pending
    <2>3. AgentsOK'
      BY <1>1, <1>2, <2>1, <2>2 DEF RunnerScans, Rest, Steps, AgentsOK
    <2>4. cause' \subseteq Cause
      BY <2>1, <2>2, BlamesAreCauses DEF IngestionTypeOK
    <2>5. QED
      BY <1>2, <2>3, <2>4 DEF RunnerScans, stored, legacy, AgentsOK, IngestionTypeOK
  <1>3. CASE RunnerTakes(r)
    <2>1. PICK d \in todo[r] : /\ todo' = [todo EXCEPT ![r] = todo[r] \ {d}]
                               /\ cur' = [cur EXCEPT ![r] = d]
      BY <1>3 DEF RunnerTakes
    <2>2. AgentsOK'
      BY <1>1, <1>3, <2>1 DEF RunnerTakes, Steps, AgentsOK
    <2>3. QED
      BY <1>3, <2>2 DEF RunnerTakes, stored, legacy, AgentsOK, IngestionTypeOK
  <1>4. CASE RunnerFinishes(r)
    BY <1>1, <1>4, ClosesTypes DEF RunnerFinishes, stored, legacy, AgentsOK, IngestionTypeOK
  <1>5. CASE RunnerDownloads(r)
    <2>1. Entry(r) \in Steps
      BY DEF Entry, Steps
    <2>2. AgentsOK'
      BY <1>1, <1>5, <2>1, ReturnsTypes, MovesTypes DEF RunnerDownloads
    <2>3. QED
      BY <1>5, <2>2 DEF RunnerDownloads, stored, legacy, AgentsOK, IngestionTypeOK
  <1>6. CASE RunnerDownloadFails(r)
    BY <1>1, <1>6, ReturnsTypes, FaultIsCounted
       DEF RunnerDownloadFails, stored, legacy, AgentsOK, IngestionTypeOK
  <1>7. QED
    BY <1>2, <1>3, <1>4, <1>5, <1>6 DEF RunnerStep

LEMMA DroppedTypes ==
    ASSUME old \in [Legacy -> {"column", "native", "lost"}]
    PROVE  Dropped \in [Legacy -> {"column", "native", "lost"}]
  BY DEF Dropped

LEMMA EmbedTypes ==
    ASSUME IngestionTypeOK, NEW a \in Agents, EmbedStep(a)
    PROVE  IngestionTypeOK'
  <1>1. AgentsOK
    BY DEF IngestionTypeOK, AgentsOK
  <1>2. CASE Prepares(a)
    <2>1. AgentsOK'
      BY <1>1, <1>2, MovesTypes DEF Prepares, Steps
    <2>2. cause' \subseteq Cause
      BY <1>2, BlamesAreCauses DEF Prepares, IngestionTypeOK
    <2>3. old' \in [Legacy -> {"column", "native", "lost"}] /\ ready' \in [Workers -> BOOLEAN]
      BY <1>2, DroppedTypes DEF Prepares, IngestionTypeOK
    <2>4. QED
      BY <1>2, <2>1, <2>2, <2>3 DEF Prepares, stored, AgentsOK, IngestionTypeOK
  <1>3. CASE PreparationFails(a)
    <2>1. AgentsOK'
      BY <1>1, <1>3 DEF PreparationFails, Steps, AgentsOK
    <2>2. QED
      BY <1>3, <2>1, FaultIsCounted
         DEF PreparationFails, stored, legacy, AgentsOK, IngestionTypeOK
  <1>4. CASE EmbeddingFails(a)
    BY <1>1, <1>4, ReturnsTypes, FaultIsCounted
       DEF EmbeddingFails, stored, legacy, AgentsOK, IngestionTypeOK
  <1>5. CASE Stores(a)
    <2>1. copies' = [copies EXCEPT ![cur[a]] = copies[cur[a]] + 1] /\ copies \in [Docs -> Nat]
      BY <1>5 DEF Stores, IngestionTypeOK
    <2>2. copies' \in [Docs -> Nat]
      <3>1. CASE cur[a] \in Docs
        BY <2>1, <3>1
      <3>2. CASE cur[a] \notin Docs
        <4>1. copies' = copies
          BY <2>1, <3>2
        <4>2. QED
          BY <2>1, <4>1
      <3>3. QED
        BY <3>1, <3>2
    <2>3. AgentsOK'
      BY <1>1, <1>5, ReturnsTypes DEF Stores
    <2>4. QED
      BY <1>5, <2>2, <2>3 DEF Stores, legacy, AgentsOK, IngestionTypeOK
  <1>6. CASE StoreFails(a)
    <2>1. faults' \in 0 .. MaxFaults
      BY <1>6, FaultIsCounted DEF StoreFails, IngestionTypeOK
    <2>2. QED
      BY <1>1, <1>6, <2>1, ClosesTypes
         DEF StoreFails, stored, legacy, AgentsOK, IngestionTypeOK
  <1>7. QED
    BY <1>2, <1>3, <1>4, <1>5, <1>6 DEF EmbedStep

LEMMA DeletionTypes ==
    ASSUME IngestionTypeOK, NEW x \in Deletions, DeleteLooks(x) \/ DeleteCommits(x)
    PROVE  IngestionTypeOK'
  <1>1. CASE DeleteLooks(x)
    <2>1. PICK d \in Docs : removal' = [removal EXCEPT ![x] = [doc |-> d, seen |-> copies[d]]]
      BY <1>1 DEF DeleteLooks
    <2>2. [doc |-> d, seen |-> copies[d]] \in Removal
      BY DEF Removal, IngestionTypeOK
    <2>3. removal' \in [Deletions -> Removal]
      BY <2>1, <2>2 DEF IngestionTypeOK
    <2>4. QED
      BY <1>1, <2>3 DEF DeleteLooks, stored, legacy, agent, IngestionTypeOK
  <1>2. CASE DeleteCommits(x)
    <2>1. removal[x].doc \in Docs
      BY <1>2 DEF DeleteCommits, Removal, IngestionTypeOK
    <2>2. [doc |-> None, seen |-> 1] \in Removal
      BY DEF Removal
    <2>3. removal' \in [Deletions -> Removal]
      BY <1>2, <2>2 DEF DeleteCommits, IngestionTypeOK
    <2>4. /\ row' \in [Docs -> {"none", "stored", "deleted"}]
          /\ copies' \in [Docs -> Nat] /\ cause' \subseteq Cause
      BY <1>2, <2>1, BlamesAreCauses DEF DeleteCommits, IngestionTypeOK
    <2>5. QED
      BY <1>2, <2>3, <2>4 DEF DeleteCommits, legacy, agent, IngestionTypeOK
  <1>3. QED
    BY <1>1, <1>2

LEMMA CrashTypes ==
    ASSUME TypeOK, NEW w \in Workers, WorkerCrash(w)
    PROVE  TypeOK'
  <1>1. Crash(w)
    BY DEF WorkerCrash
  <1>2. AgentsOK'
    BY <1>1 DEF Crash, Rest, Steps, AgentsOK, TypeOK, IngestionTypeOK
  <1>3. cause' \subseteq Cause
    BY <1>1, BlamesAreCauses DEF Crash, TypeOK, IngestionTypeOK
  <1>4. faults' \in 0 .. MaxFaults /\ ready' \in [Workers -> BOOLEAN]
    BY <1>1, FaultIsCounted DEF Crash, TypeOK, IngestionTypeOK
  <1>5. UNCHANGED <<stored, legacy, removal>>
    BY <1>1 DEF Crash
  <1>6. /\ setup' \in [Chats -> {"idle", "vec", "json", "index", "drop", "ended"}]
        /\ vectorReady' \in [Workers -> BOOLEAN]
    BY DEF WorkerCrash, TypeOK
  <1>7. QED
    BY <1>2, <1>3, <1>4, <1>5, <1>6 DEF stored, legacy, AgentsOK, TypeOK, IngestionTypeOK

\* The set-up of a chat request.
LEMMA SetupTypes ==
    ASSUME TypeOK, NEW c \in Chats, Setup(c)
    PROVE  TypeOK'
  <1>1. UNCHANGED <<stored, ready, agent, removal>>
    BY DEF Setup, SetupBegins, Backfills, BackfillFails, Indexes, IndexFails, DropsColumns,
           DropFails, Finishes, ChatGoes, untouched, vars
  <1>2. PICK to \in {"vec", "json", "index", "drop", "ended"} : ChatGoes(c, to)
    BY DEF Setup, SetupBegins, Backfills, BackfillFails, Indexes, IndexFails, DropsColumns,
           DropFails, Finishes, After
  <1>3. setup' \in [Chats -> {"idle", "vec", "json", "index", "drop", "ended"}]
    BY <1>2 DEF ChatGoes, TypeOK
  <1>4. vectorReady' \in [Workers -> BOOLEAN]
    BY LegacyAssumption
       DEF LegacyAssumption, Setup, SetupBegins, Backfills, BackfillFails, Indexes, IndexFails,
           DropsColumns, DropFails, Finishes, TypeOK
  <1>5. faults' \in 0 .. MaxFaults
    BY FaultIsCounted
       DEF Setup, SetupBegins, Backfills, BackfillFails, Indexes, IndexFails, DropsColumns,
           DropFails, vars, TypeOK, IngestionTypeOK
  <1>6. cause' \subseteq Cause
    BY BlamesAreCauses
       DEF Setup, SetupBegins, Backfills, BackfillFails, Indexes, IndexFails, DropsColumns,
           DropFails, vars, TypeOK, IngestionTypeOK
  <1>7. columns' \in BOOLEAN /\ old' \in [Legacy -> {"column", "native", "lost"}]
    <2> USE DEF TypeOK, IngestionTypeOK
    <2>1. ASSUME NEW k \in Legacy, Backfills(c, k)
          PROVE  columns' \in BOOLEAN /\ old' \in [Legacy -> {"column", "native", "lost"}]
      BY <2>1 DEF Backfills
    <2>2. CASE DropsColumns(c)
      BY <2>2, DroppedTypes DEF DropsColumns
    <2>3. CASE ~DropsColumns(c) /\ ~ \E k \in Legacy : Backfills(c, k)
      BY <2>3
         DEF Setup, SetupBegins, BackfillFails, Indexes, IndexFails, DropFails, vars, legacy
    <2>4. QED
      BY <2>1, <2>2, <2>3
  <1>8. QED
    BY <1>1, <1>3, <1>4, <1>5, <1>6, <1>7 DEF stored, agent, TypeOK, IngestionTypeOK

LEMMA TypesInductive ==
    ASSUME TypeOK, [LNext]_legacyVars
    PROVE  TypeOK'
  <1>1. CASE Ingestion /\ UNCHANGED <<setup, vectorReady>>
    BY <1>1, UploadTypes, RunnerTypes, EmbedTypes, DeletionTypes
       DEF Ingestion, UploadStep, TypeOK
  <1>2. ASSUME NEW w \in Workers, WorkerCrash(w) PROVE TypeOK'
    BY <1>2, CrashTypes
  <1>3. ASSUME NEW c \in Chats, Setup(c) PROVE TypeOK'
    BY <1>3, SetupTypes
  <1>4. CASE UNCHANGED legacyVars
    BY <1>4 DEF legacyVars, vars, stored, legacy, agent, TypeOK, IngestionTypeOK
  <1>5. QED
    BY <1>1, <1>2, <1>3, <1>4 DEF LNext

\* The set-up of a chat request leaves the documents alone.
LEMMA SetupLeavesDocuments ==
    ASSUME NEW c \in Chats, Setup(c)
    PROVE  UNCHANGED <<row, content, object, copies, ready, agent, removal>>
           /\ cause \subseteq cause'
  BY DEF Setup, SetupBegins, Backfills, BackfillFails, Indexes, IndexFails, DropsColumns,
         DropFails, Finishes, ChatGoes, untouched, stored, vars

----------------------------------------------------------------------------
(* Rows and objects                                                        *)

\* EveryOrphanHasACause and what it takes: an upload that has not inserted its
\* row has none, and has put the object if it is about to.  A document that is
\* not stored has no chunks.
DocInv ==
    /\ EveryOrphanHasACause
    /\ \A d \in Uploads : pc[d] \in {"idle", "insert"} => row[d] = "none"
    /\ \A d \in Uploads : pc[d] = "insert" => object[d]
    /\ \A d \in Docs : row[d] # "stored" => copies[d] = 0

LEMMA DocInitial == LInit => DocInv
  <1> SUFFICES ASSUME LInit PROVE DocInv
    OBVIOUS
  <1>1. \A d \in Docs : /\ copies[d] = 0
                        /\ d \in Earlier => row[d] = "stored"
                        /\ d \notin Earlier => row[d] = "none"
    BY DEF LInit, Init
  <1>3. \A d \in Docs : object[d] <=> d \in Earlier
    BY DEF LInit, Init
  <1>2. \A a \in Agents : pc[a] = "idle"
    BY DEF LInit, Init
  <1>4. QED
    BY <1>1, <1>2, <1>3 DEF DocInv, EveryOrphanHasACause

\* Steps that neither put, insert, store nor delete, and do not take an upload
\* back to where it was.
LEMMA DocFrame ==
    ASSUME Shapes, DocInv, UNCHANGED <<row, object, copies>>, cause \subseteq cause',
           \A d \in Uploads : \/ pc'[d] = pc[d]
                              \/ pc'[d] \notin {"idle", "insert"} /\ pc[d] # "insert"
    PROVE  DocInv'
  BY DEF DocInv, EveryOrphanHasACause

LEMMA DocInductive ==
    ASSUME Shapes, DocInv, [LNext]_legacyVars
    PROVE  DocInv'
  <1>1. ASSUME NEW d \in Uploads, UploadPuts(d) PROVE DocInv'
    BY <1>1 DEF UploadPuts, Moves, DocInv, EveryOrphanHasACause, Shapes
  <1>2. ASSUME NEW d \in Uploads, UploadPutFails(d) PROVE DocInv'
    BY <1>2, DocFrame DEF UploadPutFails, Closes, Rest, stored, Shapes
  <1>12. ASSUME NEW d \in Uploads, UploadPutUnheard(d) PROVE DocInv'
    BY <1>12 DEF UploadPutUnheard, Closes, Rest, DocInv, EveryOrphanHasACause, Shapes
  <1>3. ASSUME NEW d \in Uploads, UploadInserts(d) PROVE DocInv'
    <2>1. /\ pc[d] = "insert" /\ pc'[d] \notin {"idle", "insert"}
          /\ \A e \in Uploads \ {d} : pc'[e] = pc[e]
      BY <1>3 DEF UploadInserts, Closes, Rest, Entry, Shapes
    <2>2. /\ row' = [row EXCEPT ![d] = "stored"] /\ UNCHANGED <<object, copies, cause>>
      BY <1>3 DEF UploadInserts
    <2>3. QED
      BY <2>1, <2>2 DEF DocInv, EveryOrphanHasACause, Shapes
  <1>4. ASSUME NEW d \in Uploads, UploadInsertFails(d) PROVE DocInv'
    BY <1>4
       DEF UploadInsertFails, Closes, Rest, stored, DocInv, EveryOrphanHasACause, Shapes
  <1>5. ASSUME NEW r \in Runners, RunnerStep(r) PROVE DocInv'
    <2>1. \A d \in Uploads : pc'[d] = pc[d]
      BY <1>5 DEF RunnerStep, RunnerScans, RunnerTakes, RunnerFinishes, RunnerDownloads,
                  RunnerDownloadFails, Returns, Closes, Moves, Shapes
    <2>2. UNCHANGED <<row, object, copies>> /\ cause \subseteq cause'
      BY <1>5 DEF RunnerStep, RunnerScans, RunnerTakes, RunnerFinishes, RunnerDownloads,
                  RunnerDownloadFails, stored
    <2>3. QED
      BY <2>1, <2>2, DocFrame
  <1>6. ASSUME NEW a \in Agents, EmbedStep(a) PROVE DocInv'
    <2>1. \A d \in Uploads : \/ pc'[d] = pc[d]
                             \/ pc'[d] \notin {"idle", "insert"} /\ pc[d] # "insert"
      BY <1>6 DEF EmbedStep, Prepares, PreparationFails, EmbeddingFails, Stores, StoreFails,
                  Returns, Closes, Rest, Moves, Shapes
    <2>2. CASE Stores(a)
      <3>1. /\ row[cur[a]] = "stored" /\ UNCHANGED <<row, object, cause>>
            /\ copies' = [copies EXCEPT ![cur[a]] = @ + 1] /\ pc[a] = "store"
        BY <2>2 DEF Stores, Storable
      <3>2. \A d \in Docs : row[d] # "stored" => copies'[d] = 0
        BY <3>1 DEF DocInv, Shapes
      <3>3. QED
        BY <2>1, <3>1, <3>2 DEF DocInv, EveryOrphanHasACause
    <2>3. CASE ~Stores(a)
      <3>1. UNCHANGED <<row, object, copies>> /\ cause \subseteq cause'
        BY <1>6, <2>3
           DEF EmbedStep, Prepares, PreparationFails, EmbeddingFails, StoreFails, stored
      <3>2. QED
        BY <2>1, <3>1, DocFrame
    <2>4. QED
      BY <2>2, <2>3
  <1>7. ASSUME NEW x \in Deletions, DeleteLooks(x) PROVE DocInv'
    BY <1>7, DocFrame DEF DeleteLooks, stored, agent
  <1>8. ASSUME NEW x \in Deletions, DeleteCommits(x) PROVE DocInv'
    BY <1>8 DEF DeleteCommits, agent, DocInv, EveryOrphanHasACause, Shapes
  <1>9. ASSUME NEW w \in Workers, WorkerCrash(w) PROVE DocInv'
    <2>1. UNCHANGED <<row, object, copies>> /\ cause \subseteq cause'
      BY <1>9 DEF WorkerCrash, Crash, stored
    <2>2. \A d \in Uploads : \/ pc'[d] = pc[d]
                             \/ /\ pc'[d] = "ended"
                                /\ pc[d] = "insert" => Blame("orphan", d) \in cause'
      BY <1>9 DEF WorkerCrash, Crash, Rest
    <2>3. QED
      BY <2>1, <2>2 DEF DocInv, EveryOrphanHasACause
  <1>10. ASSUME NEW c \in Chats, Setup(c) PROVE DocInv'
    BY <1>10, SetupLeavesDocuments, DocFrame DEF agent
  <1>11. CASE UNCHANGED legacyVars
    BY <1>11, DocFrame DEF legacyVars, vars, stored, agent
  <1>13. QED
    BY <1>1, <1>2, <1>3, <1>4, <1>5, <1>6, <1>7, <1>8, <1>9, <1>10, <1>11, <1>12
       DEF LNext, Ingestion, UploadStep

\* A row that was deleted is not inserted again, and gets no chunks.
LEMMA DeletedStep ==
    ASSUME Shapes, DocInv, DocInv', [LNext]_legacyVars, NEW d \in Docs, row[d] = "deleted"
    PROVE  row'[d] = "deleted"
  <1>1. ASSUME NEW e \in Uploads, UploadInserts(e) PROVE row'[d] = "deleted"
    BY <1>1 DEF UploadInserts, DocInv, Shapes
  <1>2. ASSUME NEW e \in Uploads, UploadPuts(e) \/ UploadPutFails(e) \/ UploadPutUnheard(e)
                                  \/ UploadInsertFails(e)
        PROVE  row'[d] = row[d]
    BY <1>2 DEF UploadPuts, UploadPutFails, UploadPutUnheard, UploadInsertFails, stored
  <1>3. ASSUME NEW r \in Runners, RunnerStep(r) PROVE row'[d] = row[d]
    BY <1>3 DEF RunnerStep, RunnerScans, RunnerTakes, RunnerFinishes, RunnerDownloads,
                RunnerDownloadFails, stored
  <1>4. ASSUME NEW a \in Agents, EmbedStep(a) PROVE row'[d] = row[d]
    BY <1>4
       DEF EmbedStep, Prepares, PreparationFails, EmbeddingFails, Stores, StoreFails, stored
  <1>5. ASSUME NEW x \in Deletions, DeleteLooks(x) \/ DeleteCommits(x) PROVE row'[d] = "deleted"
    BY <1>5 DEF DeleteLooks, DeleteCommits, stored, Shapes
  <1>6. ASSUME NEW w \in Workers, WorkerCrash(w) PROVE row'[d] = row[d]
    BY <1>6 DEF WorkerCrash, Crash, stored
  <1>7. ASSUME NEW c \in Chats, Setup(c) PROVE row'[d] = row[d]
    BY <1>7, SetupLeavesDocuments
  <1>8. CASE UNCHANGED legacyVars
    BY <1>8 DEF legacyVars, vars, stored
  <1>9. QED
    BY <1>1, <1>2, <1>3, <1>4, <1>5, <1>6, <1>7, <1>8 DEF LNext, Ingestion, UploadStep

----------------------------------------------------------------------------
(* Copies                                                                  *)

\* The document an agent works on is none of its list, an upload has no list, and a
\* runner between two documents works on none.
Tidy ==
    /\ \A d \in Uploads : todo[d] = {}
    /\ \A a \in Agents : pc[a] \in {"download", "prepare", "store"} => cur[a] \in Docs \ todo[a]
    /\ \A r \in Runners : pc[r] \in {"idle", "next"} => cur[r] = None

\* EveryCopyHasACause and what it takes: a document that nobody ever listed
\* while another agent held it has at most one holder, and none once it has
\* chunks.  Nobody holds a document before its row is there.
CopyInv ==
    /\ Tidy
    /\ \A d \in Docs : row[d] = "none" => \A a \in Agents : d \notin Holds(a)
    /\ \A d \in Docs : Blame("overlap", d) \notin cause =>
          /\ copies[d] <= 1
          /\ \A a \in Agents : d \in Holds(a) => copies[d] = 0
          /\ \A a, b \in Agents : d \in Holds(a) /\ d \in Holds(b) => a = b

LEMMA CopyInitial == LInit => CopyInv
  BY DEF LInit, Init, CopyInv, Tidy, Holds

\* Steps after which nobody holds more than before.
LEMMA CopyFrame ==
    ASSUME Shapes, CopyInv, UNCHANGED <<row, copies>>, cause \subseteq cause',
           Tidy', \A a \in Agents : Holds(a)' \subseteq Holds(a)
    PROVE  CopyInv'
  BY DEF CopyInv

LEMMA ReturnsHolds ==
    ASSUME Shapes, CopyInv, NEW a \in Agents,
           Closes(a) \/ (Returns(a) /\ pc[a] \in {"download", "store"})
    PROVE  /\ Tidy'
           /\ \A b \in Agents : Holds(b)' \subseteq Holds(b)
           /\ pc[a] \in {"download", "prepare", "store"} => cur[a] \notin Holds(a)'
  <1>1. CASE Closes(a)
    <2>1. /\ pc'[a] \in {"idle", "ended"} /\ todo'[a] = {} /\ cur'[a] = None
          /\ \A b \in Agents \ {a} : pc'[b] = pc[b] /\ todo'[b] = todo[b] /\ cur'[b] = cur[b]
      BY <1>1 DEF Closes, Rest, Shapes
    <2>2. Tidy'
      BY <2>1 DEF CopyInv, Tidy
    <2>3. QED
      BY <2>1, <2>2 DEF Holds
  <1>2. CASE ~Closes(a)
    <2>1. /\ a \notin Uploads /\ pc'[a] = "next" /\ cur'[a] = None /\ todo' = todo
          /\ \A b \in Agents \ {a} : pc'[b] = pc[b] /\ cur'[b] = cur[b]
      BY <1>2 DEF Returns, Shapes
    <2>2. Tidy'
      BY <2>1 DEF CopyInv, Tidy
    <2>3. pc[a] \in {"download", "prepare", "store"} => cur[a] \notin Holds(a)'
      BY <2>1 DEF Holds, CopyInv, Tidy
    <2>4. \A b \in Agents \ {a} : Holds(b)' = Holds(b)
      BY <2>1 DEF Holds
    <2>5. pc[a] \notin {"idle", "ended", "insert"} => Holds(a)' \subseteq Holds(a)
      BY <2>1 DEF Holds
    <2>6. QED
      BY <1>2, <2>2, <2>3, <2>4, <2>5
  <1>3. QED
    BY <1>1, <1>2

LEMMA CopyInductive ==
    ASSUME Shapes, DocInv, CopyInv, [LNext]_legacyVars
    PROVE  CopyInv'
  <1>1. ASSUME NEW d \in Uploads, UploadPuts(d) PROVE CopyInv'
    <2>1. \A a \in Agents : Holds(a)' = Holds(a)
      BY <1>1 DEF UploadPuts, Moves, Holds, Shapes
    <2>2. QED
      BY <1>1, <2>1, CopyFrame DEF UploadPuts, Moves, Shapes, CopyInv, Tidy
  <1>2. ASSUME NEW d \in Uploads, UploadPutFails(d) \/ UploadPutUnheard(d) \/ UploadInsertFails(d)
        PROVE  CopyInv'
    BY <1>2, ReturnsHolds, CopyFrame
       DEF UploadPutFails, UploadPutUnheard, UploadInsertFails, stored
  <1>3. ASSUME NEW d \in Uploads, UploadInserts(d) PROVE CopyInv'
    <2>1. /\ row' = [row EXCEPT ![d] = "stored"] /\ UNCHANGED <<copies, cause>>
          /\ pc[d] = "insert" /\ row[d] = "none" /\ copies[d] = 0
      BY <1>3 DEF UploadInserts, DocInv, Shapes
    <2>2. CASE content[d] = "blank"
      <3>1. Closes(d)
        BY <1>3, <2>2 DEF UploadInserts
      <3>2. QED
        BY <2>1, <3>1, ReturnsHolds DEF CopyInv, Tidy, Shapes
    <2>3. CASE content[d] # "blank"
      <3>1. /\ pc' = [pc EXCEPT ![d] = Entry(d)] /\ cur' = [cur EXCEPT ![d] = d]
            /\ UNCHANGED todo
        BY <1>3, <2>3 DEF UploadInserts
      <3>2. /\ Holds(d)' = {d} /\ pc'[d] \in {"prepare", "store"}
            /\ \A a \in Agents \ {d} : Holds(a)' = Holds(a) /\ pc'[a] = pc[a] /\ cur'[a] = cur[a]
        BY <3>1 DEF Holds, Entry, Shapes, CopyInv, Tidy
      <3>3. QED
        BY <2>1, <3>1, <3>2 DEF CopyInv, Tidy, Shapes
    <2>4. QED
      BY <2>2, <2>3
  <1>4. ASSUME NEW r \in Runners, RunnerScans(r) PROVE CopyInv'
    <2>1. PICK list \in SUBSET Pending :
              /\ todo' = [todo EXCEPT ![r] = list]
              /\ pc' = [pc EXCEPT ![r] = IF list = {} THEN Rest(r) ELSE "next"]
              /\ cause' = cause \cup {Blame("overlap", d) : d \in
                    {d \in list : \E a \in Agents : d \in Holds(a)}}
      BY <1>4 DEF RunnerScans
    <2>2. pc[r] = "idle" /\ UNCHANGED <<row, copies, cur>>
      BY <1>4 DEF RunnerScans, stored
    <2>3. /\ \A a \in Agents \ {r} : Holds(a)' = Holds(a)
          /\ Holds(r) = {} /\ Holds(r)' \subseteq list
      BY <2>1, <2>2 DEF Holds, Rest, Shapes, CopyInv, Tidy
    <2>4. Tidy'
      BY <2>1, <2>2 DEF Shapes, CopyInv, Tidy, Rest
    <2>5. list \subseteq {d \in Docs : row[d] = "stored" /\ copies[d] = 0}
      BY DEF Pending
    <2>6. \A d \in Docs : row[d] = "none" => \A a \in Agents : d \notin Holds(a)'
      BY <2>2, <2>3, <2>5 DEF CopyInv
    <2>7. ASSUME NEW d \in Docs, Blame("overlap", d) \notin cause'
          PROVE  /\ copies[d] <= 1
                 /\ \A a \in Agents : d \in Holds(a)' => copies[d] = 0
                 /\ \A a, b \in Agents : d \in Holds(a)' /\ d \in Holds(b)' => a = b
      <3>1. /\ Blame("overlap", d) \notin cause
            /\ d \in list => \A a \in Agents : d \notin Holds(a)
        BY <2>1, <2>7
      <3>2. QED
        BY <2>3, <2>5, <3>1 DEF CopyInv
    <2>8. QED
      BY <2>2, <2>4, <2>6, <2>7 DEF CopyInv
  <1>5. ASSUME NEW r \in Runners, RunnerTakes(r) PROVE CopyInv'
    <2>1. PICK d \in todo[r] : /\ todo' = [todo EXCEPT ![r] = todo[r] \ {d}]
                               /\ cur' = [cur EXCEPT ![r] = d]
      BY <1>5 DEF RunnerTakes
    <2>2. /\ pc[r] = "next" /\ pc' = [pc EXCEPT ![r] = "download"]
          /\ UNCHANGED <<row, copies, cause>>
      BY <1>5 DEF RunnerTakes, stored
    <2>3. \A a \in Agents : Holds(a)' \subseteq Holds(a)
      BY <2>1, <2>2 DEF Holds, Shapes
    <2>4. QED
      BY <2>1, <2>2, <2>3, CopyFrame DEF Shapes, CopyInv, Tidy
  <1>6. ASSUME NEW r \in Runners, RunnerFinishes(r) \/ RunnerDownloadFails(r) PROVE CopyInv'
    BY <1>6, ReturnsHolds, CopyFrame DEF RunnerFinishes, RunnerDownloadFails, stored
  <1>7. ASSUME NEW r \in Runners, RunnerDownloads(r) PROVE CopyInv'
    <2>1. CASE Returns(r)
      BY <1>7, <2>1, ReturnsHolds, CopyFrame DEF RunnerDownloads, stored
    <2>2. CASE Moves(r, Entry(r))
      <3>1. \A a \in Agents : Holds(a)' = Holds(a)
        BY <1>7, <2>2 DEF RunnerDownloads, Moves, Entry, Holds, Shapes
      <3>2. pc[r] = "download" /\ pc' = [pc EXCEPT ![r] = Entry(r)] /\ UNCHANGED <<todo, cur>>
        BY <1>7, <2>2 DEF RunnerDownloads, Moves
      <3>3. Tidy'
        BY <3>2 DEF Shapes, Entry, CopyInv, Tidy
      <3>4. QED
        BY <1>7, <3>1, <3>3, CopyFrame DEF RunnerDownloads, stored
    <2>3. QED
      BY <1>7, <2>1, <2>2 DEF RunnerDownloads
  <1>8. ASSUME NEW a \in Agents, Prepares(a) \/ PreparationFails(a) PROVE CopyInv'
    <2>1. \A b \in Agents : Holds(b)' = Holds(b)
      BY <1>8 DEF Prepares, PreparationFails, Moves, Holds, Shapes
    <2>2. QED
      BY <1>8, <2>1, CopyFrame
         DEF Prepares, PreparationFails, Moves, Shapes, CopyInv, Tidy, stored
  <1>9. ASSUME NEW a \in Agents, EmbeddingFails(a) \/ StoreFails(a) PROVE CopyInv'
    BY <1>9, ReturnsHolds, CopyFrame DEF EmbeddingFails, StoreFails, stored
  <1>10. ASSUME NEW a \in Agents, Stores(a) PROVE CopyInv'
    <2>1. /\ pc[a] = "store" /\ copies' = [copies EXCEPT ![cur[a]] = @ + 1]
          /\ row[cur[a]] = "stored" /\ UNCHANGED <<row, cause>> /\ Returns(a)
      BY <1>10 DEF Stores, Storable
    <2>2. cur[a] # None => cur[a] \in Holds(a)
      BY <2>1 DEF Holds
    <2>3. \A b \in Agents : Holds(b)' \subseteq Holds(b)
      BY <2>1, ReturnsHolds
    <2>4. cur[a] \notin Holds(a)'
      BY <2>1, ReturnsHolds
    <2>5. ASSUME NEW d \in Docs, Blame("overlap", d) \notin cause
          PROVE  /\ copies'[d] <= 1
                 /\ \A b \in Agents : d \in Holds(b)' => copies'[d] = 0
                 /\ \A b, c \in Agents : d \in Holds(b)' /\ d \in Holds(c)' => b = c
      <3>1. CASE d = cur[a]
        <4>1. d \in Holds(a) /\ copies[d] = 0 /\ copies'[d] = 1
          BY <2>1, <2>2, <2>5, <3>1 DEF CopyInv, Tidy, Shapes
        <4>2. \A b \in Agents : d \notin Holds(b)'
          BY <2>3, <2>4, <2>5, <3>1, <4>1 DEF CopyInv
        <4>3. QED
          BY <4>1, <4>2
      <3>2. CASE d # cur[a]
        BY <2>1, <2>3, <2>5, <3>2 DEF CopyInv, Tidy, Shapes
      <3>3. QED
        BY <3>1, <3>2
    <2>6. QED
      BY <2>1, <2>3, <2>5, ReturnsHolds DEF CopyInv
  <1>11. ASSUME NEW x \in Deletions, DeleteLooks(x) \/ DeleteCommits(x) PROVE CopyInv'
    <2>1. \A a \in Agents : Holds(a)' = Holds(a)
      BY <1>11 DEF DeleteLooks, DeleteCommits, agent, Holds
    <2>2. QED
      BY <1>11, <2>1 DEF DeleteLooks, DeleteCommits, agent, stored, Shapes, CopyInv, Tidy
  <1>12. ASSUME NEW w \in Workers, WorkerCrash(w) PROVE CopyInv'
    <2>1. \A a \in Agents : Holds(a)' \subseteq Holds(a)
      BY <1>12 DEF WorkerCrash, Crash, Rest, Holds
    <2>2. QED
      BY <1>12, <2>1, CopyFrame DEF WorkerCrash, Crash, Rest, stored, CopyInv, Tidy
  <1>13. ASSUME NEW c \in Chats, Setup(c) PROVE CopyInv'
    BY <1>13, SetupLeavesDocuments, CopyFrame DEF agent, Holds, CopyInv, Tidy
  <1>14. CASE UNCHANGED legacyVars
    BY <1>14, CopyFrame DEF legacyVars, vars, stored, agent, Holds, CopyInv, Tidy
  <1>15. QED
    BY <1>1, <1>2, <1>3, <1>4, <1>5, <1>6, <1>7, <1>8, <1>9, <1>10, <1>11, <1>12, <1>13,
       <1>14
       DEF LNext, Ingestion, UploadStep, RunnerStep, EmbedStep
----------------------------------------------------------------------------
(* Legacy vectors                                                          *)

\* A vector is out of its column, or an event explains that it is not.
Settled(k) == old[k] # "column" \/ Blame("undone", k) \in cause

\* EveryLossOfAVectorHasACause, and what a set-up has behind it.
LossInv ==
    /\ EveryLossOfAVectorHasACause
    /\ \A c \in Chats : /\ setup[c] \in {"json", "index", "drop"} => Settled("vec")
                        /\ setup[c] \in {"index", "drop"} => Settled("json")

LEMMA LossInitial == LInit => LossInv
  BY DEF LInit, Init, LossInv, EveryLossOfAVectorHasACause, Legacy

\* Steps that leave the columns alone and take no question further.
LEMMA LossFrame ==
    ASSUME LossInv, UNCHANGED legacy, cause \subseteq cause',
           \A c \in Chats : setup'[c] \in {setup[c], "idle", "vec", "ended"}
    PROVE  LossInv'
  BY DEF LossInv, EveryLossOfAVectorHasACause, Settled, legacy

LEMMA LossInductive ==
    ASSUME Shapes, LossInv, [LNext]_legacyVars
    PROVE  LossInv'
  <1>1. ASSUME NEW a \in Agents, Prepares(a), UNCHANGED setup PROVE LossInv'
    <2>1. \A k \in Legacy : /\ old'[k] = IF old[k] = "column" THEN "lost" ELSE old[k]
                            /\ old[k] = "column" => Blame("undone", k) \in cause'
      BY <1>1 DEF Prepares, Dropped
    <2>2. cause \subseteq cause' /\ UNCHANGED setup
      BY <1>1 DEF Prepares
    <2>3. QED
      BY <2>1, <2>2 DEF Legacy, LossInv, EveryLossOfAVectorHasACause, Settled
  <1>2. CASE Ingestion /\ UNCHANGED setup /\ ~ \E a \in Agents : Prepares(a)
    <2>1. UNCHANGED legacy /\ cause \subseteq cause'
      BY <1>2 DEF Ingestion, UploadPuts, UploadPutFails, UploadPutUnheard, UploadStep,
                  UploadInserts, UploadInsertFails, RunnerStep, RunnerScans, RunnerTakes, RunnerFinishes,
                  RunnerDownloads, RunnerDownloadFails, EmbedStep, PreparationFails,
                  EmbeddingFails, Stores, StoreFails, DeleteLooks, DeleteCommits
    <2>2. QED
      BY <1>2, <2>1, LossFrame
  <1>3. ASSUME NEW w \in Workers, WorkerCrash(w) PROVE LossInv'
    <2>1. UNCHANGED legacy /\ cause \subseteq cause'
      BY <1>3 DEF WorkerCrash, Crash
    <2>2. \A c \in Chats : setup'[c] \in {setup[c], "ended"}
      BY <1>3 DEF WorkerCrash
    <2>3. QED
      BY <2>1, <2>2, LossFrame
  <1>4. ASSUME NEW c \in Chats, SetupBegins(c) \/ IndexFails(c) \/ DropFails(c) PROVE LossInv'
    <2>1. UNCHANGED <<legacy, cause>>
      BY <1>4 DEF SetupBegins, IndexFails, DropFails, vars
    <2>2. PICK to \in {"vec", "ended"} : setup' = [setup EXCEPT ![c] = to]
      BY <1>4 DEF SetupBegins, IndexFails, DropFails, Finishes, ChatGoes
    <2>3. \A d \in Chats : setup'[d] \in {setup[d], "idle", "vec", "ended"}
      BY <2>2 DEF Shapes
    <2>4. QED
      BY <2>1, <2>3, LossFrame
  <1>5. ASSUME NEW c \in Chats, NEW k \in Legacy, Backfills(c, k) PROVE LossInv'
    <2>1. /\ old' = [old EXCEPT ![k] = IF @ = "column" THEN "native" ELSE @]
          /\ setup[c] = k /\ setup' = [setup EXCEPT ![c] = After(k)]
          /\ UNCHANGED <<columns, cause>>
      BY <1>5 DEF Backfills, ChatGoes
    <2>2. old'[k] # "column" /\ \A j \in Legacy \ {k} : old'[j] = old[j]
      BY <2>1 DEF Shapes
    <2>3. QED
      BY <2>1, <2>2 DEF After, Legacy, Shapes, LossInv, EveryLossOfAVectorHasACause, Settled
  <1>6. ASSUME NEW c \in Chats, NEW k \in Legacy, BackfillFails(c, k) PROVE LossInv'
    <2>1. /\ setup[c] = k /\ setup' = [setup EXCEPT ![c] = After(k)] /\ UNCHANGED <<old, columns>>
          /\ cause \subseteq cause'
          /\ columns /\ old[k] = "column" => Blame("undone", k) \in cause'
      BY <1>6 DEF BackfillFails, ChatGoes, legacy
    <2>2. Settled(k)'
      BY <2>1 DEF LossInv, EveryLossOfAVectorHasACause, Settled
    <2>3. QED
      BY <2>1, <2>2 DEF After, Legacy, Shapes, LossInv, EveryLossOfAVectorHasACause, Settled
  <1>7. ASSUME NEW c \in Chats, Indexes(c) PROVE LossInv'
    BY <1>7
       DEF Indexes, ChatGoes, vars, legacy, Shapes, LossInv, EveryLossOfAVectorHasACause,
           Settled
  <1>8. ASSUME NEW c \in Chats, DropsColumns(c) PROVE LossInv'
    BY <1>8 DEF DropsColumns, Finishes, ChatGoes, Dropped, Legacy, Shapes, LossInv,
                EveryLossOfAVectorHasACause, Settled
  <1>9. CASE UNCHANGED legacyVars
    BY <1>9, LossFrame DEF legacyVars, vars
  <1>10. QED
    BY <1>1, <1>2, <1>3, <1>4, <1>5, <1>6, <1>7, <1>8, <1>9 DEF LNext, Setup

----------------------------------------------------------------------------
(* The theorems                                                            *)

IngestionInv == TypeOK /\ DocInv /\ CopyInv /\ LossInv

LEMMA IngestionInvariant == LSpec => []IngestionInv
  <1>1. LInit => IngestionInv
    BY TypesInitial, TypesGiveShapes, DocInitial, CopyInitial, LossInitial DEF IngestionInv
  <1>2. IngestionInv /\ [LNext]_legacyVars => IngestionInv'
    BY TypesInductive, TypesGiveShapes, DocInductive, CopyInductive, LossInductive
       DEF IngestionInv
  <1>3. QED
    BY <1>1, <1>2, PTL DEF LSpec

\* The types: among them that no agent ever holds anything but documents, and
\* a scheduler's list nothing else.
THEOREM TypesAreKept == LSpec => []TypeOK
  <1>1. IngestionInv => TypeOK
    BY DEF IngestionInv
  <1>2. QED
    BY <1>1, IngestionInvariant, PTL

\* upload_document puts before it inserts: every row has its object, and every
\* object without a row an upload under way, a failed one or a deletion.
THEOREM OrphansHaveACause == LSpec => []EveryOrphanHasACause
  <1>1. IngestionInv => EveryOrphanHasACause
    BY DEF IngestionInv, DocInv
  <1>2. QED
    BY <1>1, IngestionInvariant, PTL

\* A document is embedded twice only if an agent listed it while another one
\* held it: uploads, schedulers and manual runs, of all workers.
THEOREM CopiesHaveACause == LSpec => []EveryCopyHasACause
  <1>1. IngestionInv => EveryCopyHasACause
    BY TypesGiveShapes DEF IngestionInv, Shapes, CopyInv, EveryCopyHasACause
  <1>2. QED
    BY <1>1, IngestionInvariant, PTL

\* DocumentRepository.delete: no agent brings a deleted document back.
THEOREM DeletedForGood == LSpec => DeletedStaysDeleted
  <1>1. ASSUME IngestionInv, IngestionInv', [LNext]_legacyVars
        PROVE  [\A d \in Docs : row[d] = "deleted" => row'[d] = "deleted" /\ copies'[d] = 0]_vars
    BY <1>1, DeletedStep, TypesGiveShapes DEF IngestionInv, DocInv
  <1>2. QED
    BY <1>1, IngestionInvariant, PTL DEF LSpec, DeletedStaysDeleted

\* _ensure_vector_extension and _ensure_embeddings_table: a vector of the old
\* columns is lost only if its backfill failed or nobody had tried it.
THEOREM LossesHaveACause == LSpec => []EveryLossOfAVectorHasACause
  <1>1. IngestionInv => EveryLossOfAVectorHasACause
    BY DEF IngestionInv, LossInv
  <1>2. QED
    BY <1>1, IngestionInvariant, PTL
----------------------------------------------------------------------------
(* The life of a document                                                  *)

\* What DocumentLifecycle sees.
Life == <<row, object, copies>>

\* Only four steps are seen, and each of them by one document.
LEMMA SeenSteps ==
    ASSUME [LNext]_legacyVars
    PROVE  \/ \E d \in Uploads : UploadPuts(d) \/ UploadPutUnheard(d) \/ UploadInserts(d)
           \/ \E a \in Agents : Stores(a)
           \/ \E x \in Deletions : DeleteCommits(x)
           \/ UNCHANGED Life
  <1>1. ASSUME NEW d \in Uploads, UploadPutFails(d) \/ UploadInsertFails(d)
        PROVE  UNCHANGED Life
    BY <1>1 DEF UploadPutFails, UploadInsertFails, stored, Life
  <1>2. ASSUME NEW r \in Runners, RunnerStep(r) PROVE UNCHANGED Life
    BY <1>2 DEF RunnerStep, RunnerScans, RunnerTakes, RunnerFinishes, RunnerDownloads,
                RunnerDownloadFails, stored, Life
  <1>3. ASSUME NEW a \in Agents, EmbedStep(a), ~Stores(a) PROVE UNCHANGED Life
    BY <1>3
       DEF EmbedStep, Prepares, PreparationFails, EmbeddingFails, StoreFails, stored, Life
  <1>4. ASSUME NEW x \in Deletions, DeleteLooks(x) PROVE UNCHANGED Life
    BY <1>4 DEF DeleteLooks, stored, Life
  <1>5. ASSUME NEW w \in Workers, WorkerCrash(w) PROVE UNCHANGED Life
    BY <1>5 DEF WorkerCrash, Crash, stored, Life
  <1>6. ASSUME NEW c \in Chats, Setup(c) PROVE UNCHANGED Life
    BY <1>6, SetupLeavesDocuments DEF Life
  <1>7. CASE UNCHANGED legacyVars
    BY <1>7 DEF legacyVars, vars, stored, Life
  <1>8. QED
    BY <1>1, <1>2, <1>3, <1>4, <1>5, <1>6, <1>7 DEF LNext, Ingestion, UploadStep

\* DocumentService implements DocumentLifecycle: a document is listed only once
\* its PDF is kept, found only while it is listed, both until it is deleted, and
\* then never again, whatever crashes, fails or overlaps (services.py:648-919).
THEOREM DocumentsLiveAsPromised == LSpec => ImplementsDocumentLifecycle
  <1> DEFINE kept   == {d \in Docs : object[d]}
             listed == {d \in Docs : row[d] = "stored"}
             found  == {d \in Docs : copies[d] > 0}
             gone   == {d \in Docs : row[d] = "deleted"}
  <1>1. ASSUME LInit PROVE DL!Init
    <2>1. \A d \in Docs : /\ object[d] <=> d \in Earlier
                          /\ row[d] = IF d \in Earlier THEN "stored" ELSE "none"
                          /\ copies[d] = 0
      BY <1>1 DEF LInit, Init
    <2>2. QED
      BY <2>1 DEF DL!Init
  <1>2. ASSUME IngestionInv, [LNext]_legacyVars PROVE [DL!Next]_DL!vars
    <2>1. Shapes /\ DocInv
      BY <1>2, TypesGiveShapes DEF IngestionInv
    <2>2. ASSUME NEW d \in Uploads, UploadPuts(d) \/ UploadPutUnheard(d) PROVE DL!Keep(d)
      <3>1. object' = [object EXCEPT ![d] = TRUE] /\ UNCHANGED <<row, copies>>
        BY <2>2 DEF UploadPuts, UploadPutUnheard
      <3>2. QED
        BY <2>1, <3>1 DEF Shapes, DL!Keep
    <2>3. ASSUME NEW d \in Uploads, UploadInserts(d) PROVE DL!List(d)
      <3>1. row' = [row EXCEPT ![d] = "stored"] /\ UNCHANGED <<object, copies>>
        BY <2>3 DEF UploadInserts
      <3>2. object[d] /\ row[d] = "none"
        BY <2>1, <2>3 DEF UploadInserts, DocInv
      <3>3. listed' = listed \cup {d} /\ gone' = gone
        BY <2>1, <3>1, <3>2 DEF Shapes
      <3>4. kept' = kept /\ found' = found /\ d \in kept \ gone
        BY <3>1, <3>2
      <3>5. QED
        BY <3>3, <3>4 DEF DL!List
    <2>4. ASSUME NEW a \in Agents, Stores(a) PROVE \E d \in Docs : DL!Find(d)
      <3>1. /\ row[cur[a]] = "stored" /\ UNCHANGED <<row, object>>
            /\ copies' = [copies EXCEPT ![cur[a]] = @ + 1] /\ pc[a] = "store"
        BY <2>4 DEF Stores, Storable
      <3>2. PICK d \in Docs : d = cur[a]
        BY <1>2, <3>1 DEF IngestionInv, CopyInv, Tidy
      <3>3. found' = found \cup {d}
        BY <2>1, <3>1, <3>2 DEF Shapes
      <3>4. DL!Find(d)
        BY <3>1, <3>2, <3>3 DEF DL!Find
      <3>5. QED
        BY <3>4
    <2>5. ASSUME NEW x \in Deletions, DeleteCommits(x), ~UNCHANGED Life
          PROVE  \E d \in Docs : DL!Delete(d)
      <3>1. PICK d \in Docs : d = removal[x].doc
        BY <1>2, <2>5 DEF IngestionInv, TypeOK, IngestionTypeOK, Removal, DeleteCommits
      <3>2. /\ row[d] = "stored" /\ UNCHANGED object
            /\ row' = [row EXCEPT ![d] = "deleted"] /\ copies' = [copies EXCEPT ![d] = 0]
        BY <2>5, <3>1 DEF DeleteCommits, Life
      <3>3. listed' = listed \ {d} /\ gone' = gone \cup {d} /\ d \in listed
        BY <2>1, <3>2 DEF Shapes
      <3>4. found' = found \ {d} /\ kept' = kept
        BY <2>1, <3>2 DEF Shapes
      <3>5. DL!Delete(d)
        BY <3>3, <3>4 DEF DL!Delete
      <3>6. QED
        BY <3>5
    <2>6. CASE UNCHANGED Life
      BY <2>6 DEF Life, DL!vars
    <2>7. ASSUME NEW d \in Docs, DL!Keep(d) \/ DL!List(d) \/ DL!Find(d) \/ DL!Delete(d)
          PROVE  DL!Next
      BY <2>7 DEF DL!Next
    <2>8. CASE \E d \in Uploads : UploadPuts(d) \/ UploadPutUnheard(d) \/ UploadInserts(d)
      <3>1. PICK d \in Uploads : UploadPuts(d) \/ UploadPutUnheard(d) \/ UploadInserts(d)
        BY <2>8
      <3>2. d \in Docs /\ (DL!Keep(d) \/ DL!List(d))
        BY <2>2, <2>3, <3>1
      <3>3. QED
        BY <2>7, <3>2
    <2>9. CASE \E a \in Agents : Stores(a)
      BY <2>4, <2>7, <2>9
    <2>10. CASE \E x \in Deletions : DeleteCommits(x)
      BY <2>5, <2>6, <2>7, <2>10
    <2>11. QED
      BY <1>2, <2>6, <2>8, <2>9, <2>10, SeenSteps
  <1>3. QED
    BY <1>1, <1>2, IngestionInvariant, PTL DEF LSpec, ImplementsDocumentLifecycle, DL!Spec
=============================================================================
