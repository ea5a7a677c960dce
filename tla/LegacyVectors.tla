---------------------------- MODULE LegacyVectors ----------------------------
(***************************************************************************)
(* The vectors an earlier release stored in the columns vec and embedding  *)
(* (JSON) of embeddings.  The first question of a process moves them to    *)
(* embedding_vector and drops the columns (_ensure_vector_extension in     *)
(* rag_service.py); the first document a process embeds just drops them    *)
(* (_ensure_embeddings_table in services.py, in DocumentIngestion).  Each  *)
(* of the two keeps a flag of its own.                                     *)
(***************************************************************************)
EXTENDS DocumentIngestion

CONSTANTS
    Chats,      \* chat requests
    ChatAt      \* ChatAt[c]: the worker that serves c

ASSUME LegacyAssumption == ChatAt \in [Chats -> Workers]

VARIABLES
    setup,        \* setup[c]: the statement of the set-up that c executes next
    vectorReady   \* vectorReady[w]: _vector_extension_ready of worker w

legacyVars == <<vars, setup, vectorReady>>

\* Everything the set-up of a chat request leaves alone.
untouched == <<stored, ready, agent, removal>>

LInit ==
    /\ Init
    /\ setup = [c \in Chats |-> "idle"]
    /\ vectorReady = [w \in Workers |-> FALSE]

ChatGoes(c, to) == setup' = [setup EXCEPT ![c] = to]

SetupBegins(c) ==
    /\ setup[c] = "idle" /\ ~vectorReady[ChatAt[c]]
    /\ ChatGoes(c, "vec")
    /\ UNCHANGED <<vars, vectorReady>>

\* Mutant of After: the JSON column is not moved.
AfterVecOnly(k) == "index"

After(k) == IF k = "vec" THEN "json" ELSE "index"

\* UPDATE embeddings SET embedding_vector = <column k>.
Backfills(c, k) ==
    /\ setup[c] = k /\ columns
    /\ old' = [old EXCEPT ![k] = IF @ = "column" THEN "native" ELSE @]
    /\ ChatGoes(c, After(k))
    /\ UNCHANGED <<untouched, columns, vectorReady, faults, cause>>

\* Any failure is taken for a missing column, be it one malformed vector.
BackfillFails(c, k) ==
    /\ setup[c] = k
    /\ IF columns THEN Fault ELSE UNCHANGED faults
    /\ cause' = IF columns /\ old[k] = "column" THEN cause \cup {Blame("undone", k)} ELSE cause
    /\ ChatGoes(c, After(k))
    /\ UNCHANGED <<untouched, legacy, vectorReady>>

Indexes(c) ==
    /\ setup[c] = "index"
    /\ ChatGoes(c, "drop")
    /\ UNCHANGED <<vars, vectorReady>>

\* The outer handler: the flag stays down, the next question tries again.
IndexFails(c) ==
    /\ setup[c] = "index"
    /\ Fault
    /\ ChatGoes(c, "ended")
    /\ UNCHANGED <<untouched, legacy, cause, vectorReady>>

Finishes(c) ==
    /\ vectorReady' = [vectorReady EXCEPT ![ChatAt[c]] = TRUE]
    /\ ChatGoes(c, "ended")

DropsColumns(c) ==
    /\ setup[c] = "drop"
    /\ columns' = FALSE
    /\ old' = Dropped
    /\ Finishes(c)
    /\ UNCHANGED <<untouched, faults, cause>>

DropFails(c) ==
    /\ setup[c] = "drop"
    /\ Fault
    /\ Finishes(c)
    /\ UNCHANGED <<untouched, legacy, cause>>

\* A crash takes the chat requests of the worker and its flag with it.
WorkerCrash(w) ==
    /\ Crash(w)
    /\ setup' = [c \in Chats |-> IF ChatAt[c] = w /\ setup[c] # "idle" THEN "ended" ELSE setup[c]]
    /\ vectorReady' = [vectorReady EXCEPT ![w] = FALSE]

Setup(c) == SetupBegins(c) \/ (\E k \in Legacy : Backfills(c, k) \/ BackfillFails(c, k))
            \/ Indexes(c) \/ IndexFails(c) \/ DropsColumns(c) \/ DropFails(c)

LNext ==
    \/ Ingestion /\ UNCHANGED <<setup, vectorReady>>
    \/ \E w \in Workers : WorkerCrash(w)
    \/ \E c \in Chats : Setup(c)

LSpec == LInit /\ [][LNext]_legacyVars /\ IngestionFairness

TypeOK ==
    /\ IngestionTypeOK
    /\ setup \in [Chats -> {"idle", "vec", "json", "index", "drop", "ended"}]
    /\ vectorReady \in [Workers -> BOOLEAN]

\* A legacy vector is lost only if a worker embedded a document before any
\* worker had answered a question, or if its backfill failed; and once the
\* columns are gone every vector is in its new place or lost.
\* (_ensure_vector_extension and _ensure_embeddings_table, which know nothing of
\* each other.)
EveryLossOfAVectorHasACause ==
    \A k \in Legacy :
        /\ old[k] = "lost" => Blame("undone", k) \in cause
        /\ old[k] = "column" => columns

\* "Drop legacy columns after successful backfill" (rag_service.py:230): no vector
\* is dropped that was not moved before.
DroppedAfterBackfill == \A k \in Legacy : old[k] # "lost"
============================================================================
