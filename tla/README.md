# InvestorDocs AI backend: a verification project

The repository is a FastAPI service on PostgreSQL: users, documents in S3 with
embeddings in pgvector, a RAG chat, and transactional e-mail. Its hard parts are
not in any single function. They are in what happens between two `await`s of a
request while other requests, two background loops and other worker processes
commit to the same rows. This directory models those parts in TLA+, checks them
with TLC, and proves the central results with TLAPS.

Line numbers below are those of the files under `src/app/`.

## 1. The system

| Component | State it keeps | Operations | Hard behaviour | Module |
|---|---|---|---|---|
| E-mail outbox (`services/email_service.py`, `models/email_outbox.py`, `main.py:79-191`) | rows of `email_outbox`, the open session of every worker's tick, in-flight background tasks | immediate delivery with fallback to the outbox, retry tick, purge | several workers on one table, crash after SMTP accepted, lost acknowledgement, unflushed session, backlog, link expiry | `EmailOutbox`, `EmailLifecycle` |
| Conversations and messages (`services/rag_service.py:604-864`, `services/services.py:1013-1084`, `repositories.py:414-541`) | conversation row (title, `message_count`), messages, one session per request | chat, post, rename, delete | stale identity-map objects, count-then-write, deletion in between | `Conversations` |
| Accounts (`services/services.py:71-402`, `api/auth.py`) | users, reset tokens, the per-process cooldown table | register, verify, resend, login, Google sign-in, forgot, reset, delete | single-use tokens over two commits, check before an await and set after it, stale `User` objects, case of addresses | `Accounts`, `AccountLifecycle` |
| Startup migration (`core/migrations.py`, `main.py:194-217`) | columns of `users`, the lock of `ALTER TABLE` | add, backfill, `create_all` | instances that start, fail and stop together while others serve | `StartupMigration` |
| Document ingestion (`services/services.py:620-1011`, `main.py:62-76`, `s3_service.py`) | documents, chunks, embeddings, S3 objects, one flag per process | upload, scheduler, manual run, delete | several processors of one document, starvation, a session that needs a rollback, a file without a row | `DocumentIngestion`, `DocumentLifecycle`, `Chunking` |
| Legacy vector columns (`rag_service.py:173-249`, `services.py:626-645`) | columns of `embeddings`, two per-process flags | backfill and drop; drop only | the order of two lazy migrations, errors taken for something else | `LegacyVectors` |
| Answer pipeline (`rag_service.py:256-588`, `657-864`, `media_service.py`, `api/chat.py`) | what a request has read, messages and rows of `message_sources` | read an image, retrieve, prompt, call models, save with sources | fallback over models, a prompt budget, a save of two commits, documents, messages and conversations deleted meanwhile | `AnswerPipeline` |
| Connection pool (`core/database.py:24-59`) | ten connections | every session | a request that holds one connection and waits for another, an outbox write that raises | `SessionPool` |
| Transcription (`services/transcription_service.py`) | model, lock, temporary files | lazy load, transcribe | real threads, errors at every step | `Transcription` |
| S3 and media services | clients | put, get, vision models | outcomes only, as steps of the modules above | in the others |
| Bookmarks, companies, insights, users CRUD | one row each | reads and writes of that row; the deletion of a company takes its documents, conversations and chunks with it | that of a document, for a company's deletion | not modelled |
| Security, configuration, schemas, logging | data definitions | parsing, library calls | none of their own | not modelled |
| `vector_store.py`, `query_cache.py` | none in use | nothing calls them | none | not modelled |

How they interact: a request uses one session (`get_session`), so one pooled
connection whenever a transaction is open. `AuthService` hands e-mails to
`EmailService`, either awaited (password reset) or as a background task
(verification, login notice). `_deliver` opens a second session when the send
fails. `main.lifespan` starts the two loops in every worker process. They share
nothing with other workers but the database. Chat reads documents' chunks and
writes messages, and both chat and ingestion run a lazy migration of `embeddings`.

What makes each correct:

* outbox: no row is sent by two workers at once; a copy too many only where the
  documentation says so (finding 1); `sent` is true; nothing pending is purged;
  everything settles (finding 8); no expired link is delivered (finding 2);
* conversations: `message_count` agrees with the table when nothing runs; the
  user's title stays;
* accounts: no access token leaves the server for an account whose address was not
  confirmed, by its link or by Google; a verification is never lost; links and the
  cooldown do what is documented, or an overlap explains why not;
* migration: nobody from before is locked out, nobody new is verified by it;
* ingestion: files, rows and chunks agree; a deleted document is gone; every
  document with text is embedded, eventually (findings 5 and 10);
* legacy columns: no vector is dropped before it is copied (findings 4 and 9: the
  code does not have this; what it has is that every loss has one of two causes);
* answers: every model is asked in turn, what is cited was shown and exists, an
  answer is saved with all its sources or not at all;
* pool and threads: no connection is lost, nobody waits for ever, the model is
  loaded once and used by one thread, no recording stays on disk (finding 11).

## 2. Modules

### EmailOutbox

One action per step of the code that another process can observe or interrupt.

| Action | Code |
|---|---|
| `Request`, `DeliverSucceeds`, `DeliverFails` | `send_email_background`, `_deliver` up to the result of SMTP |
| `Enqueue`, `EnqueueFails` | `_enqueue_outbox` and its last-resort guard |
| `BeginTick` | `SELECT ... ORDER BY created_at LIMIT n FOR UPDATE SKIP LOCKED` |
| `SendSucceeds`, `SendFails` | one iteration of the loop over the rows, with `AfterFailure` for the whole `except` branch |
| `Purge` | the housekeeping `DELETE`, in the table and in the session |
| `Commit`, `TickFails` | the end of the tick; the `except` at line 189 |
| `Crash`, `Restart` | the death of a process, or its shutdown, and `lifespan` |
| `TimePasses` | one retry interval |

The committed table (`row`) and the objects of a worker's session (`mem`) are
separate variables: `autoflush=False` means a tick's decisions are not in the
database until line 180. `lock` holds PostgreSQL's row locks. The order of rows
by `created_at` is the relation `older`. Timestamps are kept as the time left
until them (`next_attempt_at`, link expiry) or passed since them (`updated_at`),
and saturate where the code cannot tell two values apart.

The `DELETE` deserves its two parts. SQLAlchemy runs an ORM-enabled `DELETE`
in the database, where it sees committed rows, and also evaluates its criteria
on the session's objects, removing those that match. The tick has changed those
objects (`status = "sent"`) but not flushed them, so their `updated_at` is the
old one.

Four variables are history: `copies` (how often SMTP accepted an e-mail, 2
meaning "or more"), `cause`, `late`, and nothing in the code reads them;
`faults` counts crashes and database failures against the bound `MaxFaults`.

Abstracted: the text of messages; SMTP errors, which become four kinds with the
code and the wording that `_is_permanent_smtp_failure` looks at; which worker
ran a background delivery, so a crash may take any subset of them.

### EmailLifecycle

The promise of the docstring of `models/email_outbox.py`, without workers,
sessions, locks or time: a stage and a number of attempts for each e-mail.
`EmailOutbox` implements it under the mapping `Stage(e)` and `row[e].attempts`.

### Conversations

One conversation and a set of requests. Each request is cut at its commits and
at the reads whose result it uses later.

| Action | Code |
|---|---|
| `NewConversation`, `DeleteConversation` | `ConversationService.create`, `ConversationRepository.delete` with the cascade |
| `Rename`, `RenameCommits` | the `PATCH` route: load, then the flush that writes a changed title only |
| `ChatCreates` | step 1 of `run_rag_pipeline` |
| `ChatStores` | `save_messages` to its first commit; both messages or neither |
| `ChatRereads` | the two `refresh` calls, which raise if a message is gone |
| `ChatCounts`, `ChatFinishes`, `ChatFinishesUnsaved` | `SELECT COUNT(*)`; `UPDATE`, title and commit under the row lock; the same on a deleted conversation |
| `PostLoads`, `PostStores`, `PostRereads`, `PostFinishes`, `PostFinishesUnsaved` | the `POST .../messages` route and `MessageService.create` |
| `DeleteMessage` | `DELETE /api/messages/{id}`, which leaves the count alone |
| `Fails` | any exception or crash in a request: what it committed stays |

`obj[r]` is the `Conversation` object in the session of request `r`. It keeps
the values it was loaded with (`expire_on_commit=False`), and a later
`get_by_id` in that session returns it unchanged. A title is a text of which
the model knows whether `_should_update_title` takes it for a placeholder and
what `_clean_title` makes of it (`Clean`). A rename and the chat's title are
written only if they differ from the object's title, as the unit of work does.
`pinned`, `archived` and the fields of a message are left out. The model has one
conversation because no operation touches two.

History: `ever`, `owner`, `disturbed`, `cause`.

### Accounts

A set of requests, one row per address, the reset tokens and one cooldown table
per worker. A request is cut where it awaits the database.

| Action | Code |
|---|---|
| `RegisterLooks`, `RegisterInserts`, `RegisterRefreshes`, `RegisterSends` | `register`: `get_by_email`, the INSERT under its unique index, `refresh`, the verification e-mail |
| `VerifyLooks`, `VerifyCommits` | `verify_email` |
| `ResendLooks`, `ResendCommits`, `ResendSends` | `resend_verification`: checks and cooldown, the new token, cooldown and e-mail after the commit |
| `CooldownEnds`, `TableCleared` | the sixty seconds; the table emptied at 5000 entries or with its process |
| `LoginLooks`, `LoginRecords` | `login`, `_record_login` |
| `GoogleLooks`, `GoogleCreates`, `GoogleLinks` | `_authenticate_google_info` with the lower-cased address |
| `ForgotLooks`, `ForgotClears`, `ForgotInserts`, `ForgotSends` | `request_password_reset`: two transactions and a refresh |
| `ResetLooks`, `ResetCommits`, `ResetDeletes` | `reset_password`: two transactions |
| `Delete` | deletion of a user, with the cascade |
| `Fails` | any exception or crash in a request: what it committed stays |

`obj[r]` is what the later steps of `r` use of the `User` it loaded, `held[r]` the
token it works with. A flush writes only the attributes that have changed, so
`ResendCommits` writes the token and nothing else. A token has the name of the
request that made it, and so has an account. Expiry is a choice: `VerifyLooks` and
`ResetLooks` may refuse any link. The answer to a registration carries an access
token if the row, read again, is verified (`api/auth.py:90`): `RegisterRefreshes`
notes it in `obj[r].welcome`, `RegisterSends` hands it out. Left out: `change_password` and the profile,
which write one row no other operation looks at, and passwords themselves (an
account has one or not).

History: `newest`, `proven` (accounts whose address was confirmed by its link or
by Google, or that are older than the model), `signed` (accounts signed in to),
`welcomed` (accounts whose registration was answered with a token), `uses`, `late`,
`recent`, `spam`, `cause`.

### AccountLifecycle

What a user may rely on, without requests, sessions, tokens or columns: six sets
of accounts (fresh, waiting, open, confirmed, entered, admitted) and what a step may
do to them. An account opens only once its address is confirmed, it does not close
before it is deleted, it does not come back, and it is signed in to only while it is
open. `Admit` is the token of a registration: it is decided when the row is read
again and handed out later, so the account may have been deleted in between, but it
was confirmed, and it is never one that still waits.
`Accounts` with `StartupMigration` implements it; `fresh` are the requests that
have not yet given their name to an account (`Started`), and the migration is a step
that opens many at once.

### StartupMigration

Extends `Accounts`: requests are served only when an instance is up, all columns
are there and nobody holds the lock of `users`. `FindsMissing`, `Alters`,
`Migrates` and `MigrationFails` are the transaction of `run_startup_migrations`,
`CreateLooks` and `Creates` the `create_all` after it, `Starts` and `Stops` the
life of an instance. Columns added by an open transaction are `pending`, and
`added[i]` is the local flag `added_email_verified`. An earlier release left none
of the new columns or all of them. That ALTER waits for the open transactions of
requests is left out; it only forbids some steps.

### DocumentIngestion

Uploads, schedulers and manual runs are *agents*: each has a session and a list of
documents it read earlier, and is cut where it awaits (the calls to the embedding
API and `put_object` block the event loop, so there is no step of another agent of
the same process in between).

| Action | Code |
|---|---|
| `UploadPuts`, `UploadPutFails`, `UploadPutUnheard`, `UploadInserts`, `UploadInsertFails` | the upload: S3 first (it may store the object and its answer be lost), then the row, then the embedding |
| `RunnerScans` | `get_documents_without_chunks`: any `Limit` of the pending documents, as the SELECT has no order |
| `RunnerTakes`, `RunnerFinishes`, `RunnerDownloads`, `RunnerDownloadFails` | the loop of `process_pending_documents` |
| `Prepares`, `PreparationFails` | `_ensure_embeddings_table` |
| `EmbeddingFails`, `Stores`, `StoreFails` | `_process_document_embeddings`, one transaction for all chunks |
| `DeleteLooks`, `DeleteCommits` | `DocumentRepository.delete`, which removes the chunks it has loaded |
| `Crash` | the death of a worker, whose schedulers start again |

A rollback expires the objects of the session (`expired`): the next access to
`document.id`, even in the handler that logs the error, raises, and ends the tick.
The content of a PDF is `text`, `blank` (no chunks: the document stays pending) or
`poison` (NUL characters, which PostgreSQL rejects). `copies[d]` counts complete
sets of chunks.

### DocumentLifecycle

What a user may rely on, without sessions, agents or crashes: four sets of documents
(kept, listed, found, gone). A document is listed once its PDF is kept, its text is
found only while it is listed, it stays listed and found until it is deleted, row and
chunks in one step, and it never comes back. `DocumentIngestion` implements it; only
`UploadPuts`, `UploadInserts`, `Stores` and `DeleteCommits` are seen.

### LegacyVectors

Extends `DocumentIngestion` with the set-up of a process's first question
(`_ensure_vector_extension`): `Backfills` or `BackfillFails` for each of the two
columns, `Indexes`, `DropsColumns` and their failures. The other side, `Prepares`,
drops the same columns without a look.

### AnswerPipeline

`run_rag_pipeline` from the question to the saved sources.

| Action | Code |
|---|---|
| `ImageIsRead`, `ImageIsNotRead`, `NoVisionModel` | `extract_image_content` and its models |
| `EmbeddingFails`, `Retrieves` | `retrieve_context`: LIMIT first, then equal previews are left out |
| `NoKey`, `ModelAnswers`, `ModelFails` | `call_openrouter`, one model per step |
| `Saves`, `SaveFails` | the first commit of `save_messages`: question, answer and sources, under their foreign keys |
| `Counts`, `CountFails` | what follows it: two refreshes, the count, the title and the second commit; a failure answers 500 and keeps what was saved |
| `DeleteLooks`, `DeleteCommits` | `DocumentRepository.delete`, which removes the sources it has loaded |
| `MessageGoes`, `ConversationGoes` | `DELETE` of a message and of a conversation, and the sources that go with the answer |

`Shown` is the set of chunks that `build_prompt` leaves in the prompt, at least in
part. Retrieval, prompt and order of models are operators over sequences. The search
is approximate (HNSW) and filtered by company and similarity, so `Retrieves` lets it
miss any set of chunks in `Misses`. `closed`, `broken` and `faults` are history and
bound. Left out: `max_tokens`, the wording, and title and count of the conversation,
which are in `Conversations`.

### Chunking

`SplitText(n)` is what `_split_text` makes of a page of `n` characters, with the
constants of the code, as a function from turns of the loop to windows.

### Transcription, SessionPool

`Transcription`: `Receives`, `ReceivesNothing`, `WriteFails` and `Resumes` are the
coroutine `transcribe` with its temporary file, and `Starts`, `Looks`,
`LocksToLoad`, `Loads`, `LoadFails`, `LocksToDecode`, `Decodes` what a thread of
the executor does; calls to S3 share the executor. `Resumes` runs the `finally` block,
whose unlink succeeds (`Removes`) or raises an `OSError` that is only logged
(`RemovalFails`).

`SessionPool` extends it with the connections: `Arrives`, `Acquires`, `TimesOut`,
`Delivers`, `DeliveryFails`, `Queues` and `QueueFails` (the last-resort guard at
`email_service.py:268`) for `request_password_reset` with the send it awaits and for
background deliveries, which hold no connection until they queue; `Records`, `Chats`,
`Refused`, `Saves` and `Answers` for a voice request, which keeps a connection while
it is transcribed, takes another after the first commit of the chat and one more
after the commit of the messages.

### MC modules

`MCEmailOutbox`, `MCConversations`, `MCAccounts`, `MCIngestion`, `MCAnswer`,
`MCSessionPool`: values of the constants for TLC.

## 3. Runs

| Run | Question | Result |
|---|---|---|
| `EmailSafety` | two workers, `e1` and the reset e-mail `r1`, one fault, lost acknowledgements | `TypeOK`, `OneSenderPerRow`, `EveryDuplicateHasACause`, `SentMeansAccepted`, `ImplementsLifecycle` hold |
| `EmailLiveness` | does every stored e-mail settle, if the `DELETE` discards no result? | `PendingSettles` holds |
| `EmailStaleResult` | is a crash the only reason for a duplicate? | no: finding 1 |
| `EmailExpiredLink` | is no expired link delivered? | no: finding 2 |
| `ChatSafety` | four requests, any route each | `TypeOK`, `CountNeverAhead`, `EveryDriftHasACause`, `RenameSticks` hold |
| `ChatTitle` | does a rename survive the first answer? | no: finding 3 |
| `Accounts` | three requests of any kind, two workers, two instances that start and stop | `TypeOK`, `OnlyProvenSignIn`, `VerificationIsKept`, `EveryReuseHasACause`, `OneLiveLink`, `NewestLinkWorks`, `EverySpamHasACause`, `NobodyLockedOut`, `ImplementsAccountLifecycle` hold |
| `Ingestion` | upload, scheduler, manual run, deletion and a first question, one fault | `TypeOK`, `EveryOrphanHasACause`, `EveryCopyHasACause`, `EveryLossOfAVectorHasACause`, `DeletedStaysDeleted`, `ImplementsDocumentLifecycle`, `PendingIsEmbedded` hold |
| `BackfillFailed` | are the legacy columns dropped only after a successful backfill? | no: finding 4 |
| `PendingPoisoned` | is every pending document with text embedded, even behind one whose text the database rejects? | no: finding 5 |
| `Answer` | two questions while a document, messages and conversations are deleted, one failure of the database | `TypeOK`, `AskedInTurn`, `EveryApologyHasACause`, `EveryCitationWasShown`, `SourcesHaveDocuments`, `SavedAsAWhole`, `EveryQuestionEnds` hold |
| `Pool` | two recordings, two forgotten passwords, a background delivery and a call to S3 on two connections and two threads | `TypeOK`, `OneThreadAtTheModel`, `EveryLingeringFileHasACause`, `EveryConnectionComesBack`, `EveryLossHasACause`, `EveryRequestEnds` hold |

Properties named `Every...HasACause` do not say that something bad never happens,
because in this code it does. They say what it takes: a variable `cause` records the
overlaps, failures and crashes as they occur, and the bad outcome must have one of
the listed ones. They fail as soon as the code loses its protection in any other
situation.

Six further configurations refute a claim that is related to one above or explained
by its causes. TLC finds each of them violated within seconds:

| Configuration | Property | What it shows |
|---|---|---|
| `ChatCount` | `CountIsAtomic` | finding 6, an overlap, one of the causes in `EveryDriftHasACause` |
| `ResetTwice` | `ResetIsSingleUse` | finding 7, the causes in `EveryReuseHasACause` |
| `EmailStarved` | `EveryRowIsServed` | finding 8, the excuse of `PendingSettles` |
| `NoBackfill` | `DroppedAfterBackfill` | finding 9, the other path to the loss in `BackfillFailed` |
| `PendingCrowdedOut` | `EveryPendingIsEmbedded` | finding 10, with a LIMIT below what is pending |
| `FileLingers` | `NoFileLingers` | finding 11, the causes in `EveryLingeringFileHasACause` |

**Bounds.**

* `EmailSafety`: two workers are what mutual exclusion takes, and with
  `BatchSize = 1` and two rows each worker can hold a row while the other skips
  it. `MaxRetries = 1` against the fixed 2 of a reset e-mail gives both outcomes
  of a failure. `Retention = 1` lets a row outlive the retention period while
  pending. `MaxFaults = 1` gives one crash or rolled-back tick at every point; a
  second adds copies, not kinds of them, and the proofs have no such bound.
* `EmailLiveness`, `EmailStarved`: two rows, a batch of one, and two attempts each
  make a backlog and retries.
* `ChatSafety`: of four requests one creates the conversation and three overlap,
  which is one more than any of its races takes.
* `Accounts`: each of its races is between two requests, and a third sets the scene
  (registers, asks for the link) or disturbs. Four requests passed once as well.
  Two of the three addresses are spellings of one, since only the Google sign-in
  lowers the case. One account is older than the requests, or none. Two instances
  are what a race of migrations takes, and `Deployed` starts them on no table, on
  an old one and on a new one.
* `Ingestion`: the uploaded document has text; the one stored before is hopeless in
  either way (`poison`, `blank`), since a hopeless one is what endangers the others.
  Three agents in two workers can overlap on either document. `MaxFaults = 1` gives
  one failing call or crash at every point. `Limit = 2` is never less than what is
  pending; `PendingCrowdedOut` has one less.
* `BackfillFailed`, `NoBackfill`, `PendingPoisoned`, `PendingCrowdedOut`: only the
  actors that each of them takes; `NoBackfill` has `MaxFaults = 0`, since it takes
  no failure either.
* `Answer`: ten chunks against the code's own `TOP_K`, `MAX_CONTEXT_CHARS`, chunk
  sizes and the longest file names, so the prompt overflows and the copy of a chunk
  is left out; three models, of which a client may name a fallback or an unknown
  one; three sets of chunks that a search may miss, from none to all. The deletion
  needs two documents to leave one behind, and two questions to have sources of one
  document of which it has seen only some.
* `Pool`: with two connections two e-mails exhaust the pool by themselves, and so do
  two recordings; a background delivery then is the third in the crowd. The second
  thread lets two recordings meet at the model, and the call to S3 takes it from
  them. The pool of the code has ten connections; `EveryLossHasACause` and the
  others are stated for any size.

`RenameSticks` is checked twice on purpose. `ChatSafety` sends a plain message
and "New chat", and the property holds although the stale title of the latter
is judged a placeholder: the cleaned title equals the loaded one, so the flush
writes nothing. `ChatTitle` sends a placeholder-like text with two spaces, and
that accident no longer helps.

**Deadlock.** A request serves one route, so the chat runs, `Answer` and `Pool` stop when
all are served and do not check deadlock, nor do the violation runs of ingestion,
which have few actors; `EveryQuestionEnds` and
`EveryRequestEnds` say there that nobody is stuck. The other runs check it.

**Symmetry.** Workers in `EmailSafety`, requests in `ChatSafety`, `Accounts` and
`ResetTwice` are interchangeable; these runs check invariants and action properties
only.

**Fairness.** Nothing forces a request, a success of another service, or a fault.

* `EmailOutbox` (`FairSpec`): weak fairness of an immediate delivery, which has a
  30 s timeout; of a tick, which is a running coroutine whose sends are bounded the
  same way; of `Restart`, because the host restarts a dead process; and of
  `TimePasses`. `PendingSettles` excepts a row only if the `DELETE` did discard a
  result (`cause`), its own or that of an older row, which takes its place in the
  batch at every tick: finding 1 is also a liveness failure for such rows. A row that
  merely waits for long, behind a backlog or failing ticks, is not excepted.
* `DocumentIngestion` (`IngestionFairness`): what has been started goes on, and
  every scheduler comes back from its sleep. Nobody is obliged to upload, to delete
  or to start the manual run. `PendingIsEmbedded` excepts every behaviour in which a
  poisonous document cuts ticks short again and again, so where one is pending it
  says nothing of the others; `PendingPoisoned` shows what then happens to them.
* `AnswerPipeline`: a request that has begun goes on; every call has a time limit.
* `SessionPool`: coroutines and threads go on; SMTP and models have time limits, the
  wait for a connection ends after 30 seconds, and a recording is finite.

## 4. Findings

1. *A result is discarded* (`main.py:171`). After a downtime longer than the
   retention period, a pending row is sent; its object still has the old
   `updated_at` and now says `sent`, so the in-session evaluation of the
   `DELETE` removes it and the commit writes nothing. The row stays pending and
   is sent again at every tick. The docstring (lines 87-90) knows a crash as the
   only reason for a duplicate.
2. *An expired link can be delivered* (`main.py:149`). Two attempts are no bound
   on time when more than a batch of older rows is waiting, against lines
   146-148.
3. *A rename is overwritten* (`rag_service.py:697`). The chat that created the
   conversation judges the title it created, against "if it is still a
   placeholder value" at line 696.
4. *Vectors are dropped after a failed backfill* (`rag_service.py:203`). Any error of
   the backfill is taken for a missing column, here and at line 216, and the
   columns are dropped, against "Drop legacy columns after successful backfill" at
   line 230.
5. *One rejected text ends the tick* (`services.py:671`). The rollback expires the
   session's objects, the handler's own `document.id` raises, and what is behind the
   document waits for the next tick, which may go the same way; against "pending
   documents are embedded every 30 minutes" in the repository's `README.md:99`.

With the further configurations of section 3:

6. *`message_count` stays too low* (`repositories.py:487`). Two overlapping
   chats write their counts in the opposite order of their reads, against
   "Atomically" at line 478.
7. *A reset link sets two passwords* (`services.py:382`). The password is committed
   in one transaction and the token deleted in the next: a second request in
   between, or after a failure in between, uses the link again, against
   "single-use" in `main.py:89`.
8. *A row starves the ones behind it* (`main.py:171`). A row whose result is
   discarded (finding 1) is due at every tick and, being the oldest, in every batch;
   as many such rows as a batch holds keep all younger ones out, against "re-sends
   every pending outbox row whose next_attempt_at has passed" at lines 82-83.
9. *Vectors are dropped without a backfill* (`services.py:635`). The first document
   embedded by a process drops the same columns at once; nothing has to fail.
10. *Documents without text crowd out the others* (`repositories.py:350`). They stay
    pending, the SELECT has a LIMIT and no order, and as many of them as the LIMIT may
    be returned for ever, against the line quoted in finding 5.
11. *Recordings stay on disk* (`transcription_service.py:126`, 158). A write that
    raises leaves a file whose path the `finally` block does not know, and an
    `OSError` of the unlink is only logged, against "the `finally` block guarantees
    cleanup" at lines 11-12.

Also seen while modelling, without a run: `_is_permanent_smtp_failure` takes only
code 535 and texts about authentication for permanent, although `main.py:44` and
133-135 name invalid recipients (`IsPermanentSmtpFailure` models what it does); a
model that used all its tokens for reasoning hands a larger budget to the next
model and is not asked again itself, so the last one has no second chance, against
the comment at `rag_service.py:553`; an apology is saved with a list of sources;
registration and sign-in with a password take an address as it is typed, so two
spellings of one address can be two accounts.

## 5. Proofs

Everything below holds for all values of the constants that the named assumptions
of the modules allow. TLC evaluates these assumptions in the runs.

| Module | Theorem | States |
|---|---|---|
| `EmailOutboxProofs` | `TypeCorrect` | `Spec => []TypeOK` |
| | `MutualExclusion` | `Spec => []OneSenderPerRow` |
| | `DuplicatesExplained` | `Spec => []EveryDuplicateHasACause` |
| | `SentIsTrue` | `Spec => []SentMeansAccepted` |
| | `OutboxImplementsLifecycle` | `Spec => ImplementsLifecycle` |
| `ConversationsProofs` | `TypeCorrect` | `Spec => []TypeOK` |
| | `CountBounded` | `Spec => []CountNeverAhead` |
| | `DriftExplained` | `Spec => []EveryDriftHasACause` |
| | `RenamesStick` | `Tame => (Spec => RenameSticks)` |
| `AccountsProofs` | `TypesAreKept` | `MSpec => []TypeOK` |
| | `VerifiedForGood` | `MSpec => VerificationIsKept` |
| | `ReusesHaveACause` | `MSpec => []EveryReuseHasACause` |
| | `LinksDoNotPileUp` | `MSpec => []OneLiveLink` |
| | `SpamHasACause` | `MSpec => []EverySpamHasACause` |
| | `NewestLinkIsValid` | `MSpec => []NewestLinkWorks` |
| `MigrationProofs` | `OnlyOwnersSignIn` | `MSpec => []OnlyProvenSignIn` |
| | `OldAccountsAreVerified` | `MSpec => []NobodyLockedOut` |
| | `AccountsLiveAsPromised` | `MSpec => ImplementsAccountLifecycle` |
| `IngestionProofs` | `TypesAreKept` | `LSpec => []TypeOK` |
| | `OrphansHaveACause` | `LSpec => []EveryOrphanHasACause` |
| | `CopiesHaveACause` | `LSpec => []EveryCopyHasACause` |
| | `DeletedForGood` | `LSpec => DeletedStaysDeleted` |
| | `LossesHaveACause` | `LSpec => []EveryLossOfAVectorHasACause` |
| | `DocumentsLiveAsPromised` | `LSpec => ImplementsDocumentLifecycle` |
| `AnswerProofs` | `TypesAreKept` | `Spec => []TypeOK` |
| | `RetrievalIsRight` | what `retrieve_context` makes of the chunks its search offers: at most `TOP_K` of them by distance, no two alike, none left out without a reason |
| | `ModelsAre` | the models to try: the one asked for or the primary one, then all fallbacks, none twice |
| | `ModelsAreAskedInTurn` | `Spec => []AskedInTurn` |
| | `ApologiesHaveACause` | `Spec => []EveryApologyHasACause` |
| | `CitationsWereShown` | `Spec => []EveryCitationWasShown` |
| | `NoDanglingSource` | `Spec => []SourcesHaveDocuments` |
| | `AnswersAreSavedAsAWhole` | `Spec => []SavedAsAWhole` |
| `SessionPoolProofs` | `TypesAreKept` | `Spec => []TypeOK` |
| | `ConnectionsComeBack` | `Spec => []EveryConnectionComesBack` |
| | `LossesHaveACause` | `Spec => []EveryLossHasACause` |
| | `TheModelIsShared` | `Spec => []OneThreadAtTheModel` |
| | `FilesAreRemoved` | `Spec => []EveryLingeringFileHasACause` |
| `Chunking` | `NothingIsSkipped`, `SizesAreBounded`, `OnlyTheTailRepeats` | every character is in a chunk; a chunk has 1 to `ChunkSize` characters; only the last one can lie within another |

**The outbox.** `OneSenderPerRow` speaks of sessions only, and a step that loads
a row says nothing of other sessions unless loading is tied to locking.
`LockInv` does that: an object in `w`'s session is of a row that `w` has locked
and that is pending in the table (`Loaded`); a row `w` is deleting is locked by
`w` and its story is over (`Deleted`); a row still to be tried is pending in the
session (`Untried`); a row exists only for an e-mail that was queued (`Stored`);
and an idle or dead worker's session is empty (`Idle`). It is inductive because
`SKIP LOCKED` takes free rows only and `Purge` waits for the others.

`CopyInv` adds what has been sent. An e-mail that was accepted, and that has no
cause for doubt, was accepted exactly once and is over: delivered directly,
lost, settled in the table, or marked `sent` in a session that will commit.
Whatever is marked `sent`, in a session or in the table, was accepted. So a
second copy needs a rolled-back, unacknowledged or discarded first one.

`AttemptInv` bounds attempts: a pending row has fewer than its maximum, a
session's object is at most one attempt ahead of its row (`Outcome`). With it
each commit is, for every e-mail of the batch, one step of `EmailLifecycle`, and
every other action is a stutter.

**Conversations** (under `TextsAssumption`: the default title is a placeholder, no
message or given title is empty). `CountNeverAhead` is not inductive: a posted
message writes one more than a count read earlier. `Behind` adds a promise for every
request under way: the count a post has loaded leaves room for its own message
among those ever stored, and the count a chat has read is at most their number. It
needs `Fresh`: a request that has stored nothing yet is not the author of a message.

`EveryDriftHasACause` speaks of a conversation at rest, so its invariant must say
what happens before that. `Views` states that what an undisturbed request has
read is still so. `Drift` states that, while there is no cause, either the count
is right and no posted message is about to change it, or some request
`Repairs` it: a chat, which counts afresh, or a post, which adds one to the right
number or knows that it was disturbed. At rest nobody repairs, so the count is
right. `Before` covers the time before the conversation exists.

`RenameSticks` does not hold for every text; `ChatTitle` is the counterexample. It
holds under `Tame`: cleaning a message that looks like a placeholder changes
nothing or leaves nothing. `Known` says that a chat that holds an object holds
the one it created, titled with its own text, so the title it would write is
the one it loaded and the flush writes nothing.

**Accounts.** Everything rests on `NameInv`: the name of a request is in no row and
no token before the request has got that far (`Started`), and no two accounts have
the same. So an account that comes back under an address is another one, and a new
reset token was never used. `RowSteps` then says what any step does to a row, and
`Turns` that a step of one request leaves the others alone; `VerifiedForGood`
follows. `ReuseInv` ties the uses of a reset link to its row: while nothing explains
a second use, one request at most works with a link, and a link that was used is
gone unless that request is about to remove it. `LinkInv`: who is about to issue a
link has removed the others. `CooldownInv`: a resend within the cooldown is in the
worker's table, and nobody is between the look and the entry. `NewestInv`: a link
about to be sent and not overtaken is that of the row, because a registration reads
the row again before it sends, and a resend sends what it has just committed; so the
last link sent is that of the row too, or a request is on its way to send it, or a
cause is recorded. The types need `PlaceInv`: what a request under way has in hand, the
address and the account it loaded, the worker that remembers its resend, the token it
resets with, is really there at the places in the code that use it.

**The migration.** `ColumnInv`: the columns come all at once, and while they are
missing only the holder of the lock can have seen that `email_verified` is missing
and set its flag. This is what the position of `google_id` before
`email_verified` in the list is good for: an instance that waits for the lock has
found `google_id` missing, and looks at the other columns only when it holds the
lock and sees what was committed. `ProofInv` extends `OnlyProvenSignIn` to rows that
would open the door (`Trusted`), to requests that are past it, and to the time
before the columns are there, when nobody can have registered, so that the UPDATE
of all users verifies old accounts only. `WelcomeInv` covers the token of a
registration: once the row has been read again and found verified, its account is
confirmed, and the row is verified still or gone. `NobodyLockedOut` is then inductive: the
COMMIT that brings the columns is of an instance whose flag is set.

**The life of an account.** A step changes each row in one of three ways (`RowStep`):
the account stays and stays verified, it goes, or it is made by a request whose name
was not in use. With `ProofInv` that gives every clause of `AccountLifecycle` but the
last two. For `Admit` it takes `WelcomeInv`, for `Enter` `DoorInv`, which says that a sign-in past its checks finds the account
verified if it finds it at all: only accounts made with a password wait, and a row
that was deleted and made again under the same address has another id, which the
UPDATE does not find.

**Ingestion.** `DocInv`: an upload that has not inserted its row has put its object.
`CopyInv`: a document that was never listed while somebody held it has one holder at
most, and none once it has chunks; it needs `Tidy`, that an agent's list and its
current document are as its place in the loop says. `LossInv`: a question that is
past the backfill of a column has moved its vectors, or its failure is recorded.

The life of a document needs no more than these. `SeenSteps` says that all steps but
four leave rows, objects and chunks alone. The row is inserted only for a document
whose PDF is there and which was never deleted (`DocInv`), chunks are written only
for a document (`Tidy`) whose row is there (`Storable`, the foreign key), and the
deletion that has been refused changes nothing.

**Answers.** The retrieval, the prompt and the list of models are operators over
sequences, and these are made with functions and cardinalities, not with folds, so
that they can be reasoned about: `Picked(s, I)` takes the elements of `s` at the
indices in `I`, the n-th being the one whose index has n indices of `I` up to it. The
prover cannot instantiate the induction theorems of the library, which take an
operator, but induction over a *set* of numbers needs none: `Smallest` gives every
non-empty set of naturals its least element (the finite sets below its members are
well-founded under inclusion, which the library states without an operator), and `Induction` follows by taking the numbers that are not in the set.
With them `PickedIs` shows that `Picked` visits the indices once and in order,
`FirstsAre` that the removal of duplicates keeps the first of each kind and the order,
and `RetrievalIsRight` that of the chunks the search offers, whichever these are,
none is left out of what a question is given but for one with the same beginning or
for `TOP_K` nearer ones. It does not say that the search finds what is relevant:
the index is approximate. (And not: for `TOP_K` different
ones. The LIMIT comes before the removal of duplicates, so fewer than `TOP_K` may
remain although others were near.)

`RequestInv` says of each request how its stage, its models and its reply belong
together: what was tried is a beginning of the list of models, an apology comes
without a key or at the end of the list. `ModelsAre` then gives `AskedInTurn` and
`EveryApologyHasACause`. `EveryCitationWasShown` is arithmetic: `BeforeIs` bounds the
prompt before the last of at most `TOP_K` entries, and `EntriesFit` says that all of
them but one leave room for more than the 100 characters below which `build_prompt`
drops an entry. That is the one assumption about data here, and the code meets it
with a wide margin: a chunk has at most 1000 characters, a file name at most 500,
`TOP_K` is 8, and 12000 characters are allowed. Were `TOP_K` raised to 9 and the
names long, answers could cite what was never shown.

`NoDanglingSource` and `AnswersAreSavedAsAWhole` are inductive together with two facts
(`SourceInv`): nothing is saved before the first commit and something was after it
(`ChatInv`), and what a deletion has loaded are sources of its document (`SeenOK`).
The sources of an answer then match its retrieved documents at every step, because
the only steps that remove a source remove its document or its message with it.
`SavedAsAWhole` is careful about failure: a request that fails between the two
commits keeps question, answer and sources, and one that fails at the first commit
has none.

**Threads and connections.** `ModelInv`: the lock is held by whoever loads or decodes,
and who loads found the model missing with the lock in hand. `FileInv` is the property
and that no request has a file before it starts; both ways to keep a file are in
`leaked`.

Connections are counted as a set: `InHands` has one pair for every connection a
request holds, so that taking one adds an element and giving back removes one
(`AcquiresBooks`, `ReleasesBooks`), for any number of requests. `PoolInv` ties the
number a request holds to its stage. The step that matters is the one that loses an
e-mail to the time limit: a request holds one connection and waited for another in
vain, so the pool is empty and all connections are in somebody's hands; nobody holds
more than two, and one of those who hold any, the request itself, holds one only.
`TheCrowd` is the pigeonhole argument: there are more than half as many holders as
connections. A background delivery is not one of them, so there half as many may do.
An outbox write that raises (`broken`) needs no crowd at all.

*Only model-checked.* Liveness (`PendingSettles`, `PendingIsEmbedded`,
`EveryQuestionEnds`, `EveryRequestEnds`) is out of the prover's reach. Every other
property of the passing runs is a theorem. The properties of the runs that find a
violation have none, of course: they are false.

## 6. Plan

Done: `EmailLifecycle`, `EmailOutbox`, `Conversations`, `Accounts`, `AccountLifecycle`,
`StartupMigration`, `DocumentIngestion`, `DocumentLifecycle`, `LegacyVectors`,
`AnswerPipeline`, `Transcription`, `SessionPool`, `Chunking`, and the proofs of
section 5.

Left: the answer pipeline and the conversation in one instance, so that a lost answer
and the message count meet.

## 7. Not modelled

Bookmarks, companies, insights and the user profile are reads and writes of one row
with no state between steps. The one exception is `CompanyRepository.delete`
(`repositories.py:269-276`), which loads a company and deletes it with its documents,
conversations, insights and chunks in one transaction: a load and a commit, as in the
deletion of a document, which `DocumentIngestion` and `AnswerPipeline` model. Authentication of requests, password hashing and JWTs
are library calls. S3, vision and SMTP appear as outcomes only. The contents of
e-mails, prompts and answers are data that no property here depends on.
`vector_store.py` and `query_cache.py` are unused.

Of the modelled components:

* *Who set a password.* An account has a password or not, and `OnlyProvenSignIn` says
  that its address was confirmed, not by whom it was registered: an account that
  somebody registered with a password, and that the owner of the address then
  confirmed by a Google sign-in, keeps that password.
* *Uploads of one file twice.* An error after the row was committed answers 500, and
  a client that tries again stores the PDF a second time. Nothing in the code
  identifies two uploads, so no property does.
* *Metadata of documents, pinned and archived conversations, lists and searches* are
  single reads or writes. `change_password` and `update_profile` write columns that
  no other modelled step reads.
* *The Google redirect* carries a signed state, which is a library call.
