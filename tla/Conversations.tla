--------------------------- MODULE Conversations ---------------------------
(***************************************************************************)
(* One conversation, its messages, and the requests that work on it at the *)
(* same time: chat (rag_service.py), posted and deleted messages, renames  *)
(* and deletion (api/conversations.py, api/messages.py).                   *)
(*                                                                         *)
(* Every request has a session of its own with expire_on_commit=False: an  *)
(* object the session has loaded keeps its values whatever other requests  *)
(* commit, and a later SELECT of the same row returns that old object.     *)
(* A request is cut at the awaits where another one can come between.      *)
(***************************************************************************)
EXTENDS Naturals, FiniteSets

CONSTANTS
    Requests,      \* the requests the clients send
    Routes,        \* the routes they use
    Questions,     \* the texts of chat messages
    Names,         \* the titles a user gives
    Dated,         \* the default title "Conversation <date>"
    Empty,         \* the empty text
    Placeholders,  \* titles that _should_update_title takes for a placeholder
    Clean          \* Clean[q]: what _clean_title makes of q

AllRoutes == {"chat", "newChat", "newConversation", "post", "rename",
              "deleteMessage", "deleteConversation"}

ASSUME TextsAssumption ==
    /\ Routes \subseteq AllRoutes
    /\ Empty \notin Questions \cup Names \cup {Dated}
    /\ Dated \in Placeholders
    /\ DOMAIN Clean = Questions

VARIABLES
    conv,       \* the committed row: its state, title and message_count
    messages,   \* the committed messages of the conversation
    pc,         \* pc[r]: where request r stands
    obj,        \* obj[r]: the Conversation object in r's session, if any
    text,       \* text[r]: the message or the title that r carries
    seen,       \* seen[r]: the COUNT(*) r has read
    ever,       \* messages ever committed
    owner,      \* who set the title: its creation, a chat or the user
    disturbed,  \* disturbed[r]: has another request changed what r has read?
    cause       \* events that may explain a wrong message_count

system  == <<conv, messages, pc, obj, text, seen>>
history == <<ever, owner, disturbed, cause>>
vars    == <<system, history>>

----------------------------------------------------------------------------
Titles  == Names \cup Questions \cup {Clean[q] : q \in Questions} \cup {Dated, Empty}
Causes  == {"overlap", "deleted", "abandoned"}
Message == [of : Requests, role : {"user", "assistant"}]
Loaded  == [title : Titles, count : Nat]

NoObject == [title |-> Empty, count |-> 0]
Object   == [title |-> conv.title, count |-> conv.count]

Live == conv.state = "live"
Size == Cardinality(messages)

Asked(r) == [of |-> r, role |-> "user"]
Answer(r) == [of |-> r, role |-> "assistant"]

\* Mutant of ShouldUpdateTitle: every chat names the conversation.
AlwaysUpdateTitle(t) == TRUE

ShouldUpdateTitle(t) == t \in Placeholders
CleanTitle(q)        == Clean[q]

\* Mutants of Increment: a posted message counts for a question and an answer,
\* and it is counted down.
IncrementByTwo(o) == o.count + 2
Decrement(o)      == o.count - 1

\* The value MessageService.create writes: one more than the object says.
Increment(o) == o.count + 1

\* Requests whose view of the conversation can go stale.
Viewing == {r \in Requests : pc[r] \in {"loaded", "posted", "confirmed", "counted"}}

\* Requests that have stored a message and not yet written message_count.
Uncounted == {r \in Requests : pc[r] \in {"stored", "reread", "counted", "posted", "confirmed"}}

Active == Viewing \cup Uncounted \cup {r \in Requests : pc[r] \in {"created", "renaming"}}

Disturb(r) == disturbed' = [q \in Requests |-> disturbed[q] \/ (q # r /\ q \in Viewing)]
Goto(r, p) == pc' = [pc EXCEPT ![r] = p]

\* The request is answered, and its session goes with all it holds.
Ends(r, p) ==
    /\ Goto(r, p)
    /\ obj' = [obj EXCEPT ![r] = NoObject]
    /\ text' = [text EXCEPT ![r] = Empty]
    /\ seen' = [seen EXCEPT ![r] = 0]

----------------------------------------------------------------------------
Init ==
    /\ conv = [state |-> "none", title |-> Empty, count |-> 0]
    /\ messages = {}
    /\ pc = [r \in Requests |-> "idle"]
    /\ obj = [r \in Requests |-> NoObject]
    /\ text = [r \in Requests |-> Empty]
    /\ seen = [r \in Requests |-> 0]
    /\ ever = {}
    /\ owner = "creation"
    /\ disturbed = [r \in Requests |-> FALSE]
    /\ cause = {}

Begins(r, route) == route \in Routes /\ pc[r] = "idle"

----------------------------------------------------------------------------
(* Conversations: POST, PATCH and DELETE of /api/conversations *)

\* A missing or empty title becomes the dated one.
NewConversation(r, t) ==
    /\ Begins(r, "newConversation")
    /\ conv.state = "none"
    /\ conv' = [state |-> "live", title |-> IF t = Empty THEN Dated ELSE t, count |-> 0]
    /\ Ends(r, "done")
    /\ UNCHANGED <<messages, history>>

\* The route loads the conversation; the repository will find the same object.
Rename(r, t) ==
    /\ Begins(r, "rename")
    /\ Live
    /\ obj' = [obj EXCEPT ![r] = Object]
    /\ text' = [text EXCEPT ![r] = t]
    /\ Goto(r, "renaming")
    /\ UNCHANGED <<conv, messages, seen, history>>

\* The flush writes the title only if it differs from the one loaded.
RenameCommits(r) ==
    /\ pc[r] = "renaming"
    /\ Live
    /\ IF text[r] = obj[r].title
       THEN UNCHANGED <<conv, owner>>
       ELSE /\ conv' = [conv EXCEPT !.title = text[r]]
            /\ owner' = "user"
    /\ Ends(r, "done")
    /\ UNCHANGED <<messages, ever, disturbed, cause>>

\* The messages go with the conversation, by the ORM's cascade or the database's.
DeleteConversation(r) ==
    /\ Begins(r, "deleteConversation")
    /\ Live
    /\ conv' = [conv EXCEPT !.state = "gone"]
    /\ messages' = {}
    /\ Ends(r, "done")
    /\ UNCHANGED history

----------------------------------------------------------------------------
(* Chat: run_rag_pipeline and save_messages *)

\* Without a conversation_id the pipeline creates the conversation, titled with
\* the message as it is typed, and keeps the object while the answer is made.
ChatCreates(r, q) ==
    /\ Begins(r, "newChat")
    /\ conv.state = "none"
    /\ conv' = [state |-> "live", title |-> q, count |-> 0]
    /\ obj' = [obj EXCEPT ![r] = [title |-> q, count |-> 0]]
    /\ text' = [text EXCEPT ![r] = q]
    /\ Goto(r, "created")
    /\ UNCHANGED <<messages, seen, history>>

\* Both messages are committed together; without their conversation the foreign
\* key refuses them.  Nothing has looked the conversation up before.
ChatStores(r, q) ==
    /\ \/ Begins(r, "chat")
       \/ pc[r] = "created" /\ q = text[r]
    /\ Live
    /\ messages' = messages \cup {Asked(r), Answer(r)}
    /\ ever' = ever \cup {Asked(r), Answer(r)}
    /\ text' = [text EXCEPT ![r] = q]
    /\ Disturb(r)
    /\ Goto(r, "stored")
    /\ UNCHANGED <<conv, obj, seen, owner, cause>>

\* session.refresh of the two messages, which raises if one is gone.
ChatRereads(r) ==
    /\ pc[r] = "stored"
    /\ {Asked(r), Answer(r)} \subseteq messages
    /\ Goto(r, "reread")
    /\ UNCHANGED <<conv, messages, obj, text, seen, history>>

\* Mutant of ChatCounts: the two messages of the chat are not flushed yet.
ChatCountsTooEarly(r) ==
    /\ pc[r] = "reread"
    /\ seen' = [seen EXCEPT ![r] = Cardinality(messages \ {Asked(r), Answer(r)})]
    /\ disturbed' = [disturbed EXCEPT ![r] = FALSE]
    /\ Goto(r, "counted")
    /\ UNCHANGED <<conv, messages, obj, text, ever, owner, cause>>

\* sync_message_count: SELECT COUNT(*).
ChatCounts(r) ==
    /\ pc[r] = "reread"
    /\ seen' = [seen EXCEPT ![r] = Size]
    /\ disturbed' = [disturbed EXCEPT ![r] = FALSE]
    /\ Goto(r, "counted")
    /\ UNCHANGED <<conv, messages, obj, text, ever, owner, cause>>

\* sync_message_count: UPDATE, whose row lock is held until the commit that also
\* writes the title.  The title judged is the session's object where there is
\* one, and the flush writes the new one only if it differs from that.
ChatFinishes(r) ==
    LET known    == IF obj[r] = NoObject THEN conv.title ELSE obj[r].title
        title    == CleanTitle(text[r])
        retitled == ShouldUpdateTitle(known) /\ title # Empty /\ title # known
    IN  /\ pc[r] = "counted"
        /\ Live
        /\ conv' = [conv EXCEPT !.count = seen[r], !.title = IF retitled THEN title ELSE @]
        /\ owner' = IF retitled THEN "chat" ELSE owner
        /\ cause' = IF disturbed[r] THEN cause \cup {"overlap"} ELSE {}
        /\ Disturb(r)
        /\ Ends(r, "done")
        /\ UNCHANGED <<messages, ever>>

\* The conversation was deleted: the UPDATE matches nothing, the SELECT finds
\* nothing, and the answer is returned all the same.
ChatFinishesUnsaved(r) ==
    /\ pc[r] = "counted"
    /\ ~ Live
    /\ Ends(r, "done")
    /\ UNCHANGED <<conv, messages, history>>

----------------------------------------------------------------------------
(* Messages: POST and DELETE of /api/conversations/{id}/messages *)

PostLoads(r) ==
    /\ Begins(r, "post")
    /\ Live
    /\ obj' = [obj EXCEPT ![r] = Object]
    /\ disturbed' = [disturbed EXCEPT ![r] = FALSE]
    /\ Goto(r, "loaded")
    /\ UNCHANGED <<conv, messages, text, seen, ever, owner, cause>>

PostStores(r) ==
    /\ pc[r] = "loaded"
    /\ Live
    /\ messages' = messages \cup {Asked(r)}
    /\ ever' = ever \cup {Asked(r)}
    /\ Disturb(r)
    /\ Goto(r, "posted")
    /\ UNCHANGED <<conv, obj, text, seen, owner, cause>>

PostRereads(r) ==
    /\ pc[r] = "posted"
    /\ Asked(r) \in messages
    /\ Goto(r, "confirmed")
    /\ UNCHANGED <<conv, messages, obj, text, seen, history>>

\* get_by_id finds the object that the route loaded, with the count it had then.
PostFinishes(r) ==
    /\ pc[r] = "confirmed"
    /\ Live
    /\ conv' = [conv EXCEPT !.count = Increment(obj[r])]
    /\ cause' = IF disturbed[r] THEN cause \cup {"overlap"} ELSE cause
    /\ Disturb(r)
    /\ Ends(r, "done")
    /\ UNCHANGED <<messages, ever, owner>>

PostFinishesUnsaved(r) ==
    /\ pc[r] = "confirmed"
    /\ ~ Live
    /\ Ends(r, "done")
    /\ UNCHANGED <<conv, messages, history>>

\* message_count is left as it is.
DeleteMessage(r, m) ==
    /\ Begins(r, "deleteMessage")
    /\ m \in messages
    /\ messages' = messages \ {m}
    /\ cause' = cause \cup {"deleted"}
    /\ Disturb(r)
    /\ Ends(r, "done")
    /\ UNCHANGED <<conv, ever, owner>>

----------------------------------------------------------------------------
\* A request ends with an error: a crash, a lost database connection, a refused
\* foreign key, a row that is gone when it is refreshed or updated.  What it has
\* committed stays, and the rest is rolled back.
Fails(r) ==
    /\ r \in Active
    /\ cause' = IF r \in Uncounted THEN cause \cup {"abandoned"} ELSE cause
    /\ Ends(r, "failed")
    /\ UNCHANGED <<conv, messages, ever, owner, disturbed>>

Chat(r) ==
    \/ \E q \in Questions : ChatCreates(r, q) \/ ChatStores(r, q)
    \/ ChatRereads(r)
    \/ ChatCounts(r)
    \/ ChatFinishes(r)
    \/ ChatFinishesUnsaved(r)

Post(r) ==
    \/ PostLoads(r)
    \/ PostStores(r)
    \/ PostRereads(r)
    \/ PostFinishes(r)
    \/ PostFinishesUnsaved(r)

Manage(r) ==
    \/ \E t \in Names \cup {Empty} : NewConversation(r, t) \/ Rename(r, t)
    \/ RenameCommits(r)
    \/ DeleteConversation(r)
    \/ \E m \in messages : DeleteMessage(r, m)

Next == \E r \in Requests : Chat(r) \/ Post(r) \/ Manage(r) \/ Fails(r)

Spec == Init /\ [][Next]_vars

----------------------------------------------------------------------------
(* Properties *)

Stages == {"idle", "created", "stored", "reread", "counted", "loaded", "posted",
           "confirmed", "renaming", "done", "failed"}

\* Every variable stays in the set it is declared over.
TypeOK ==
    /\ conv \in [state : {"none", "live", "gone"}, title : Titles, count : Nat]
    /\ messages \in SUBSET Message
    /\ pc \in [Requests -> Stages]
    /\ obj \in [Requests -> Loaded]
    /\ text \in [Requests -> Titles]
    /\ seen \in [Requests -> Nat]
    /\ ever \in SUBSET Message
    /\ owner \in {"creation", "chat", "user"}
    /\ disturbed \in [Requests -> BOOLEAN]
    /\ cause \in SUBSET Causes

Quiet == Live /\ Active = {}

\* message_count never runs ahead of the messages the conversation ever had:
\* a stale increment (services.py:1078) and a stale COUNT(*)
\* (repositories.py:483-498) may only fall behind.
CountNeverAhead == conv.count <= Cardinality(ever)

\* When no request is under way, a wrong message_count was caused by a deleted
\* message, by a request that failed after its commit, or by two requests that
\* overlapped since the last chat that ran undisturbed, whose COUNT(*) repairs
\* every earlier drift (rag_service.py:693-694).
EveryDriftHasACause == Quiet /\ conv.count # Size => cause # {}

\* "Atomically update message_count using COUNT(*)" (repositories.py:478): with
\* no message deleted and no request failed, chats alone leave an exact count.
CountIsAtomic == Quiet /\ cause \subseteq {"overlap"} => conv.count = Size

\* "Automatically update title if it is still a placeholder value"
\* (rag_service.py:696): no chat replaces a title the user has given.
RenameSticks ==
    [][owner = "user" /\ conv.title \notin Placeholders /\ conv'.title # conv.title
           => owner' = "user"]_vars
============================================================================
