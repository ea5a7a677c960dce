--------------------------- MODULE AnswerPipeline ---------------------------
(***************************************************************************)
(* One question after another through run_rag_pipeline: an image is read   *)
(* by a vision model, chunks are retrieved, models are asked in turn, and  *)
(* the answer is saved with its sources (rag_service.py, media_service.py, *)
(* api/chat.py), while documents, messages and conversations are deleted   *)
(* (DocumentRepository, api/messages.py, ConversationRepository).          *)
(*                                                                         *)
(* The title and the count of the conversation are the matter of           *)
(* Conversations; max_tokens and the format of the answer are left out.    *)
(*                                                                         *)
(* A request is cut where it awaits.  Between the retrieval and the save   *)
(* it awaits the models, for minutes perhaps, and holds what it has read.  *)
(***************************************************************************)
EXTENDS Naturals, Sequences, FiniteSets, SequencesExt

CONSTANTS
    Chats,        \* the requests
    Deletions,    \* DELETE /documents/{id} requests
    Docs,         \* the documents
    Ranking,      \* Ranking[c]: the chunks by their distance to the question of c
    Misses,       \* sets of chunks that a search may leave out
    DocOf,        \* DocOf[k]: the document of chunk k
    Preview,      \* Preview[k]: its first 200 characters, in lower case
    Length,       \* Length[k]: of its entry in the prompt, header included
    Requested,    \* models a client may ask for
    Primary,      \* PRIMARY_MODEL
    Fallbacks,    \* FALLBACK_MODELS
    TopK, MaxContextChars,
    VisionModels, \* how many models read an image: 3, or 2 without a router
    MaxFaults,    \* bound on commits and reads that fail
    None

ASSUME AnswerAssumption ==
    /\ Ranking \in [Chats -> Seq(DOMAIN DocOf)]
    /\ DocOf \in [DOMAIN DocOf -> Docs]
    /\ DOMAIN Preview = DOMAIN DocOf
    /\ Misses \subseteq SUBSET DOMAIN DocOf /\ MaxFaults \in Nat
    /\ Length \in [DOMAIN DocOf -> Nat \ {0}]
    /\ {TopK, MaxContextChars, VisionModels} \subseteq Nat \ {0}
    /\ Fallbacks \in Seq(STRING) \ {<<>>} /\ None \notin Docs \cup Requested

\* A chunk has at most 1000 characters and the name of a file at most 500: all
\* entries but one leave room for a part of the last.
ASSUME EntriesFit == \A k \in DOMAIN DocOf : (TopK - 1) * Length[k] + 100 < MaxContextChars

VARIABLES
    docs,      \* documents that exist, with all their chunks
    sources,   \* rows of message_sources: the chat and the document
    row,       \* row[c]: the messages of c in the database
    closed,    \* requests whose conversation was deleted
    pc,        \* pc[c]: where request c stands
    asks,      \* asks[c]: the model it asks for and whether it has an image
    chunks,    \* chunks[c]: what it has retrieved
    unread,    \* unread[c]: how many vision models failed to read the image
    tried,     \* tried[c]: the models that were asked for an answer
    reply,     \* reply[c]: what kind of text will be, or was, the answer
    removal,   \* removal[x]: what deletion x has loaded
    reason,    \* reason[c]: what made it apologise, or refuse
    faults,    \* failures of the database that are left
    broken     \* requests that met one

request == <<asks, chunks, unread, tried, reply>>
history == <<row, closed, faults, broken>>
vars    == <<docs, sources, pc, request, removal, reason, history>>

----------------------------------------------------------------------------
Chunks  == DOMAIN DocOf
Known   == {Primary} \cup ToSet(Fallbacks)
Ask     == [model : Requested \cup {None}, image : BOOLEAN]
Source  == [chat : Chats, doc : Docs]
Removal == [doc : Docs \cup {None}, seen : SUBSET Source]
Roles   == {"question", "answer"}
NoAsk   == [model |-> None, image |-> FALSE]
Nothing == [doc |-> None, seen |-> {}]

\* A text of a model, or one of the two texts of the service itself.
Replies == {"none", "text", "apology", "error"}

\* The elements of s at the indices in I, in their order.
Picked(s, I) ==
    [n \in 1 .. Cardinality(I) |-> s[CHOOSE i \in I : Cardinality({j \in I : j <= i}) = n]]

\* The elements of s that differ from all before them, under key.
Firsts(s, key) ==
    Picked(s, {i \in DOMAIN s : \A j \in 1 .. i - 1 : key[s[j]] # key[s[i]]})

\* Mutant of Limit: every chunk that is similar enough.
LimitNone(s) == s

Limit(s) == SubSeq(s, 1, IF Len(s) < TopK THEN Len(s) ELSE TopK)

\* retrieve_context, of the chunks the index finds and the filters let through: the
\* LIMIT comes first, then equal texts are left out.
Retrieved(c, offered) ==
    Firsts(Limit(Picked(Ranking[c], {i \in DOMAIN Ranking[c] : Ranking[c][i] \in offered})),
           Preview)

\* build_prompt: entries as long as they fit; the first that does not is cut
\* if more than 100 characters are left, and nothing after it is shown.
Before(s, i) ==
    LET sum[n \in 0 .. Len(s)] == IF n = 0 THEN 0 ELSE sum[n - 1] + Length[s[n]]
    IN  sum[i - 1]
Shown(s) == {s[i] : i \in {i \in DOMAIN s :
                \/ Before(s, i + 1) <= MaxContextChars
                \/ Before(s, i) + 100 < MaxContextChars}}

\* Mutant of UsedModel: whatever the client names.
UsedModelAny(m) == m

\* The model that is asked first: an unknown one is replaced.
UsedModel(m) == IF m \in Known THEN m ELSE Primary

\* Mutant of ModelsToTry: a model may be listed twice.
ModelsToTryTwice(m) == <<UsedModel(m)>> \o Fallbacks

\* dict.fromkeys keeps the first of equal names.
ModelsToTry(m) ==
    Firsts(<<UsedModel(m)>> \o Fallbacks, [n \in Known \cup Requested |-> n])

LastModel(c) == Len(tried[c]) + 1 = Len(ModelsToTry(asks[c].model))

\* Mutant of SourcesOf: one source per answer.
OneSourceOf(c) == {[chat |-> c, doc |-> DocOf[chunks[c][i]]] : i \in {1} \cap DOMAIN chunks[c]}

\* One for every chunk that was retrieved; those of one document are equal here.
SourcesOf(c) == {[chat |-> c, doc |-> DocOf[k]] : k \in ToSet(chunks[c])}

Exists(c) == \A s \in SourcesOf(c) : s.doc \in docs

----------------------------------------------------------------------------
Init ==
    /\ docs = Docs
    /\ sources = {}
    /\ pc = [c \in Chats |-> "idle"]
    /\ asks = [c \in Chats |-> NoAsk]
    /\ chunks = [c \in Chats |-> <<>>]
    /\ unread = [c \in Chats |-> 0]
    /\ tried = [c \in Chats |-> <<>>]
    /\ reply = [c \in Chats |-> "none"]
    /\ removal = [x \in Deletions |-> Nothing]
    /\ reason = [c \in Chats |-> "none"]
    /\ row = [c \in Chats |-> [r \in Roles |-> "none"]]
    /\ closed = {}
    /\ faults = MaxFaults
    /\ broken = {}

Goes(c, to) == pc' = [pc EXCEPT ![c] = to]

Begins(c) ==
    /\ pc[c] = "idle"
    /\ \E m \in Requested, image \in BOOLEAN :
          /\ asks' = [asks EXCEPT ![c] = [model |-> m, image |-> image]]
          /\ Goes(c, IF image THEN "image" ELSE "retrieve")
    /\ UNCHANGED <<docs, sources, chunks, unread, tried, reply, removal, reason, history>>

\* extract_image_content.
ImageIsRead(c) ==
    /\ pc[c] = "image"
    /\ Goes(c, "retrieve")
    /\ unread' = [unread EXCEPT ![c] = 0]
    /\ UNCHANGED <<docs, sources, asks, chunks, tried, reply, removal, reason, history>>

\* An exception or an empty text: the next model, or 422.
ImageIsNotRead(c) ==
    /\ pc[c] = "image"
    /\ unread' = [unread EXCEPT ![c] = @ + 1]
    /\ IF unread[c] + 1 = VisionModels
       THEN Goes(c, "refused") /\ reason' = [reason EXCEPT ![c] = "image"]
       ELSE UNCHANGED <<pc, reason>>
    /\ UNCHANGED <<docs, sources, asks, chunks, tried, reply, removal, history>>

\* There is no key for a vision model.
NoVisionModel(c) ==
    /\ pc[c] = "image" /\ unread[c] = 0
    /\ reason' = [reason EXCEPT ![c] = "key"]
    /\ Goes(c, "refused")
    /\ UNCHANGED <<docs, sources, asks, chunks, unread, tried, reply, removal, history>>

\* No key, or the embedding API fails: an apology is saved.
EmbeddingFails(c) ==
    /\ pc[c] = "retrieve"
    /\ reply' = [reply EXCEPT ![c] = "error"]
    /\ reason' = [reason EXCEPT ![c] = "embedding"]
    /\ Goes(c, "save")
    /\ UNCHANGED <<docs, sources, asks, chunks, unread, tried, removal, history>>

\* The index is approximate, and what it returns is filtered by company and by the
\* threshold of similarity: any chunk may be missed.
Retrieves(c) ==
    /\ pc[c] = "retrieve"
    /\ \E missed \in Misses :
          chunks' = [chunks EXCEPT ![c] =
              Retrieved(c, {k \in Chunks \ missed : DocOf[k] \in docs})]
    /\ Goes(c, "ask")
    /\ UNCHANGED <<docs, sources, asks, unread, tried, reply, removal, reason, history>>

----------------------------------------------------------------------------
(* call_openrouter.                                                        *)

NoKey(c) ==
    /\ pc[c] = "ask" /\ tried[c] = <<>>
    /\ reply' = [reply EXCEPT ![c] = "apology"]
    /\ reason' = [reason EXCEPT ![c] = "key"]
    /\ Goes(c, "save")
    /\ UNCHANGED <<docs, sources, asks, chunks, unread, tried, removal, history>>

Tries(c) ==
    tried' = [tried EXCEPT ![c] =
        Append(@, ModelsToTry(asks[c].model)[Len(@) + 1])]

ModelAnswers(c) ==
    /\ pc[c] = "ask"
    /\ Tries(c)
    /\ reply' = [reply EXCEPT ![c] = "text"]
    /\ Goes(c, "save")
    /\ UNCHANGED <<docs, sources, asks, chunks, unread, removal, reason, history>>

\* Mutant of GivesUp: a rate limit ends the loop.
GivesUpAtOnce(c) == TRUE

GivesUp(c) == LastModel(c)

\* 429, another error, a timeout, no choices, no text.  (If all tokens went
\* into reasoning the next model may use twice as many: the last has no next.)
ModelFails(c) ==
    /\ pc[c] = "ask"
    /\ Tries(c)
    /\ IF GivesUp(c)
       THEN /\ reply' = [reply EXCEPT ![c] = "apology"]
            /\ reason' = [reason EXCEPT ![c] = "models"]
            /\ Goes(c, "save")
       ELSE UNCHANGED <<reply, reason, pc>>
    /\ UNCHANGED <<docs, sources, asks, chunks, unread, removal, history>>

----------------------------------------------------------------------------
(* save_messages.                                                          *)

\* What the request asked for and tried is not needed any more.
Ends(c, how) ==
    /\ Goes(c, how)
    /\ asks' = [asks EXCEPT ![c] = NoAsk]
    /\ tried' = [tried EXCEPT ![c] = <<>>]
    /\ reason' = [reason EXCEPT ![c] = "none"]
    /\ UNCHANGED <<unread, chunks, reply>>

\* A failure of the database, rather than of the request.
Breaks(c) ==
    /\ faults > 0
    /\ faults' = faults - 1
    /\ broken' = broken \cup {c}

\* The first commit: question, answer and sources.
Saves(c) ==
    /\ pc[c] = "save" /\ Exists(c) /\ c \notin closed
    /\ row' = [row EXCEPT ![c] = [r \in Roles |-> "kept"]]
    /\ sources' = sources \cup SourcesOf(c)
    /\ Ends(c, "saved")
    /\ UNCHANGED <<docs, removal, closed, faults, broken>>

\* Mutant of SaveFails: the save is tried again.
SaveFailsAgain(c) == pc[c] = "save" /\ ~Exists(c) /\ UNCHANGED vars

\* A source refers to a document that is gone, a message to a conversation that
\* is gone, or the database fails: question and answer are lost.
SaveFails(c) ==
    /\ pc[c] = "save"
    /\ IF Exists(c) /\ c \notin closed THEN Breaks(c) ELSE UNCHANGED <<faults, broken>>
    /\ Ends(c, "failed")
    /\ UNCHANGED <<docs, sources, removal, row, closed>>

\* The messages are read again, and the second commit has the count and the title.
Counts(c) ==
    /\ pc[c] = "saved"
    /\ Goes(c, "answered")
    /\ UNCHANGED <<docs, sources, request, removal, reason, history>>

\* A message was deleted in the meantime and cannot be refreshed, or the database
\* fails: 500, although what the first commit wrote is kept.
CountFails(c) ==
    /\ pc[c] = "saved"
    /\ IF \A r \in Roles : row[c][r] = "kept" THEN Breaks(c) ELSE UNCHANGED <<faults, broken>>
    /\ Goes(c, "failed")
    /\ UNCHANGED <<docs, sources, request, removal, reason, row, closed>>

----------------------------------------------------------------------------
(* Deletions.                                                              *)

OfChat(c) == {s \in sources : s.chat = c}

\* The sources go with the answer (ON DELETE CASCADE).
MessageGoes(c, r) ==
    /\ row[c][r] = "kept"
    /\ row' = [row EXCEPT ![c][r] = "removed"]
    /\ sources' = IF r = "answer" THEN sources \ OfChat(c) ELSE sources
    /\ UNCHANGED <<docs, pc, request, removal, reason, closed, faults, broken>>

ConversationGoes(c) ==
    /\ pc[c] # "idle" /\ c \notin closed
    /\ closed' = closed \cup {c}
    /\ row' = [row EXCEPT ![c] = [r \in Roles |-> IF @[r] = "kept" THEN "removed" ELSE @[r]]]
    /\ sources' = sources \ OfChat(c)
    /\ UNCHANGED <<docs, pc, request, removal, reason, faults, broken>>

Of(d) == {s \in sources : s.doc = d}

DeleteLooks(x) ==
    /\ removal[x] = Nothing
    /\ \E d \in docs : removal' = [removal EXCEPT ![x] = [doc |-> d, seen |-> Of(d)]]
    /\ UNCHANGED <<docs, sources, pc, request, reason, history>>

\* Mutant of Deletable: no foreign key.
DeletableAnyway(r) == TRUE

\* Only the sources that were loaded go with the document.
Deletable(r) == Of(r.doc) \subseteq r.seen

DeleteCommits(x) ==
    LET r == removal[x] IN
    /\ r.doc \in docs /\ Deletable(r)
    /\ docs' = docs \ {r.doc}
    /\ sources' = sources \ r.seen
    /\ removal' = [removal EXCEPT ![x] = [doc |-> None, seen |-> r.seen]]
    /\ UNCHANGED <<pc, request, reason, history>>

----------------------------------------------------------------------------
Answering(c) ==
    \/ ImageIsRead(c) \/ ImageIsNotRead(c) \/ NoVisionModel(c)
    \/ EmbeddingFails(c) \/ Retrieves(c)
    \/ NoKey(c) \/ ModelAnswers(c) \/ ModelFails(c)
    \/ Saves(c) \/ SaveFails(c) \/ Counts(c) \/ CountFails(c)

Next ==
    \/ \E c \in Chats : Begins(c) \/ Answering(c) \/ ConversationGoes(c)
    \/ \E c \in Chats, r \in Roles : MessageGoes(c, r)
    \/ \E x \in Deletions : DeleteLooks(x) \/ DeleteCommits(x)

\* Every call has a time limit (120 s for a model), so a request goes on.
Spec == Init /\ [][Next]_vars /\ \A c \in Chats : WF_vars(Answering(c))

----------------------------------------------------------------------------
TypeOK ==
    /\ docs \subseteq Docs
    /\ sources \subseteq Source
    /\ pc \in [Chats -> {"idle", "image", "retrieve", "ask", "save", "saved",
                         "answered", "failed", "refused"}]
    /\ asks \in [Chats -> Ask]
    /\ chunks \in [Chats -> Seq(Chunks)]
    /\ unread \in [Chats -> 0 .. VisionModels]
    /\ tried \in [Chats -> Seq(Known)]
    /\ reply \in [Chats -> Replies]
    /\ removal \in [Deletions -> Removal]
    /\ reason \in [Chats -> {"none", "image", "embedding", "key", "models"}]
    /\ row \in [Chats -> [Roles -> {"none", "kept", "removed"}]]
    /\ closed \subseteq Chats
    /\ faults \in 0 .. MaxFaults
    /\ broken \subseteq Chats

\* A request asks no model twice, and the one it was sent with first, if the
\* service knows it.  (dict.fromkeys([model] + FALLBACK_MODELS): a client may
\* ask for a model that is a fallback, too.)
AskedInTurn ==
    \A c \in Chats :
        /\ IsInjective(tried[c])
        /\ tried[c] # <<>> /\ asks[c].model \in Known => tried[c][1] = asks[c].model

\* The user reads an apology only if there is no key or embedding, or if
\* every model has been asked; and then an answer is still saved.
EveryApologyHasACause ==
    \A c \in Chats : pc[c] = "save" /\ reply[c] = "apology" =>
        \/ reason[c] = "key" /\ tried[c] = <<>>
        \/ ToSet(tried[c]) = {UsedModel(asks[c].model)} \cup ToSet(Fallbacks)

\* Every chunk that is saved as a source had an entry in the prompt the model saw, be it
\* the header of the last one, or a part of it, and no text.  (TOP_K
\* entries of a chunk of 1000 characters under a file name of up to 500 exceed the
\* 12000 characters, but never so far that an entry is left out.)
EveryCitationWasShown ==
    \A c \in Chats : pc[c] = "answered" => ToSet(chunks[c]) \subseteq Shown(chunks[c])

\* A source never refers to a missing document, whatever is deleted while
\* its answer is being written.  (save_messages and DocumentRepository.delete
\* only have the foreign key between them.)
SourcesHaveDocuments == \A s \in sources : s.doc \in docs

\* What may lose an answer, or make its request fail after it was saved: a failure of
\* the database, the deletion of a document that was retrieved for it, of its
\* conversation, or of one of its two messages.
Excused(c) ==
    \/ c \in broken \/ c \in closed
    \/ \E k \in ToSet(chunks[c]) : DocOf[k] \notin docs
    \/ \E r \in Roles : row[c][r] = "removed"

\* Question and answer are saved together or not at all, and an answer that is in the
\* database has a source for every document retrieved for it and still there, whether
\* its request was answered or failed between the two commits of save_messages; without
\* an answer there is no source.  No answer that was promised is missing, and no
\* request fails at the end, without an excuse.
SavedAsAWhole ==
    \A c \in Chats :
        /\ row[c].answer = "kept" =>
              {DocOf[k] : k \in ToSet(chunks[c])} \cap docs = {s.doc : s \in OfChat(c)}
        /\ row[c].answer # "kept" => OfChat(c) = {}
        /\ row[c].question = "none" <=> row[c].answer = "none"
        /\ pc[c] = "answered" => row[c].answer # "none"
        /\ pc[c] = "failed" => Excused(c)

\* Every request that has begun is answered, refused or failed.  (It begins once and
\* stays over, so that it is the same to say that a time comes when none is under way.)
EveryQuestionEnds ==
    <>[](\A c \in Chats : pc[c] \in {"idle", "answered", "failed", "refused"})
============================================================================
