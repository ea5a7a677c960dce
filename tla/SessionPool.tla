----------------------------- MODULE SessionPool -----------------------------
(***************************************************************************)
(* The connections of a worker's pool (core/database.py), and who waits    *)
(* with one in hand.  A session takes a connection with its first          *)
(* statement and keeps it until it commits or is closed:                   *)
(*  - a voice request from the lookup of its user on, while it waits for a *)
(*    thread and for the model; it gives it back with the first commit of  *)
(*    the chat and takes another one for the answer, and a third one after *)
(*    the commit of the messages;                                          *)
(*  - POST /auth/forgot-password from the refresh of the token row on,     *)
(*    while the SMTP server answers, and, if it does not, while a second   *)
(*    session waits for a connection to queue the e-mail with              *)
(*    (_enqueue_outbox);                                                   *)
(*  - a background delivery (send_email_background) only to queue.         *)
(* Whoever waits for a connection for 30 seconds gets an exception.        *)
(***************************************************************************)
EXTENDS Transcription

CONSTANTS
    Forgots,     \* forgot-password requests
    Background,  \* deliveries nobody awaits
    PoolSize     \* pool_size + max_overflow

Mails    == Forgots \cup Background
Requests == Voices \cup Mails

ASSUME PoolAssumption ==
    /\ PoolSize \in Nat \ {0}
    /\ Voices \cap Mails = {} /\ Mails \cap Shorts = {} /\ None \notin Mails
    /\ Forgots \cap Background = {}

VARIABLES
    pc,        \* pc[r]: where request r stands
    held,      \* held[r]: connections its sessions hold
    free,      \* connections in the pool
    crowd,     \* crowd[m]: how many requests held the connections when m lost its e-mail
    broken     \* deliveries whose outbox write raised

pool == <<pc, held, free, crowd, broken>>
vars == <<transcription, pool>>

PInit ==
    /\ TInit
    /\ pc = [r \in Requests |-> "idle"]
    /\ held = [r \in Requests |-> 0]
    /\ free = PoolSize
    /\ crowd = [m \in Mails |-> 0]
    /\ broken = {}

----------------------------------------------------------------------------
Goes(r, to) == pc' = [pc EXCEPT ![r] = to]

\* The request asks for a connection; a background delivery asks for none.
Arrives(r) ==
    /\ pc[r] = "idle"
    /\ Goes(r, IF r \in Background THEN "working" ELSE "connect")
    /\ UNCHANGED <<held, free, crowd, broken>>

Waits == {"connect", "reconnect", "reread", "enqueue"}

Acquires(r) ==
    /\ pc[r] \in Waits /\ free > 0
    /\ free' = free - 1
    /\ held' = [held EXCEPT ![r] = @ + 1]
    /\ Goes(r, CASE pc[r] = "connect" -> "working"
                 [] pc[r] = "reconnect" -> "answering"
                 [] pc[r] = "reread" -> "finishing"
                 [] pc[r] = "enqueue" -> "queueing")
    /\ UNCHANGED <<crowd, broken>>

\* Mutants of Releases: the connection of the second session is not returned;
\* connections are returned by the handler and by get_session.
ReleasesOne(r) ==
    /\ free' = free + (IF held[r] > 0 THEN 1 ELSE 0)
    /\ held' = [held EXCEPT ![r] = 0]

ReleasesTwice(r) ==
    /\ free' = free + 2 * held[r]
    /\ held' = [held EXCEPT ![r] = 0]

\* Every session of the request is closed, and its connections go back.
Releases(r) ==
    /\ free' = free + held[r]
    /\ held' = [held EXCEPT ![r] = 0]

Ends(r, how) == Goes(r, how) /\ Releases(r)

\* Mutant of Impatient: the second session waits without limit.
ImpatientOnce(r) == pc[r] \in Waits \ {"enqueue"}

Impatient(r) == pc[r] \in Waits

\* Mutant of Exhausted: nobody waits for a connection.
ExhaustedAlways == TRUE

Exhausted == free = 0

Holders == {r \in Requests : held[r] > 0}

\* 30 seconds without a free connection: 500 - or, for the e-mail that was to
\* be queued, a line in the log.
TimesOut(r) ==
    /\ Impatient(r) /\ Exhausted
    /\ IF pc[r] = "enqueue"
       THEN Ends(r, "lost") /\ crowd' = [crowd EXCEPT ![r] = Cardinality(Holders)]
       ELSE Ends(r, "over") /\ UNCHANGED crowd
    /\ UNCHANGED broken

----------------------------------------------------------------------------
(* E-mails: the SMTP server accepts the message, or fails or does not      *)
(* answer within its own 30 seconds.  How a request ends is left out, but  *)
(* for the e-mails that are lost.                                          *)

Delivers(m) ==
    /\ m \in Mails /\ pc[m] = "working"
    /\ Ends(m, "over")
    /\ UNCHANGED <<crowd, broken>>

DeliveryFails(m) ==
    /\ m \in Mails /\ pc[m] = "working"
    /\ Goes(m, "enqueue")
    /\ UNCHANGED <<held, free, crowd, broken>>

Queues(m) ==
    /\ pc[m] = "queueing"
    /\ Ends(m, "over")
    /\ UNCHANGED <<crowd, broken>>

\* The database refuses the connection, the INSERT or the COMMIT: a line in the log.
QueueFails(m) ==
    /\ pc[m] = "queueing" \/ (pc[m] = "enqueue" /\ ~Exhausted)
    /\ Ends(m, "lost")
    /\ broken' = broken \cup {m}
    /\ UNCHANGED crowd

----------------------------------------------------------------------------
(* Voice requests.                                                         *)

Records(v) ==
    /\ pc[v] = "working"
    /\ Receives(v) \/ ReceivesNothing(v) \/ WriteFails(v)
    /\ UNCHANGED pool

\* The transcript goes to the chat, whose first commit returns the connection.
Chats(v) ==
    /\ pc[v] = "working" /\ voice[v] = "transcribed"
    /\ Goes(v, "reconnect") /\ Releases(v)
    /\ UNCHANGED <<crowd, broken>>

Refused(v) ==
    /\ pc[v] = "working" /\ voice[v] = "refused"
    /\ Ends(v, "over")
    /\ UNCHANGED <<crowd, broken>>

\* The models have answered, and the messages are committed ...
Saves(v) ==
    /\ pc[v] = "answering"
    /\ Goes(v, "reread") /\ Releases(v)
    /\ UNCHANGED <<crowd, broken>>

\* ... and read again, counted and committed with the title.
Answers(v) ==
    /\ pc[v] = "finishing"
    /\ Ends(v, "over")
    /\ UNCHANGED <<crowd, broken>>

----------------------------------------------------------------------------
Resumed(r) ==
    \/ Acquires(r) \/ TimesOut(r)
    \/ Delivers(r) \/ DeliveryFails(r) \/ Queues(r)
    \/ r \in Voices /\ (Chats(r) \/ Refused(r) \/ Saves(r) \/ Answers(r))

Next ==
    \/ \E r \in Requests : (Arrives(r) \/ Resumed(r) \/ QueueFails(r)) /\ UNCHANGED transcription
    \/ \E v \in Voices : Records(v)
    \/ \E v \in Voices : Resumes(v) /\ UNCHANGED pool
    \/ \E s \in Shorts : Calls(s) /\ UNCHANGED pool
    \/ \E j \in Jobs : ThreadStep(j) /\ UNCHANGED pool

\* The event loop and the operating system let everybody go on; SMTP and the
\* models have time limits, and a recording is finite.
Spec ==
    /\ PInit /\ [][Next]_vars
    /\ \A r \in Requests : WF_vars(Resumed(r) /\ UNCHANGED transcription)
    /\ \A v \in Voices : WF_vars(Records(v)) /\ WF_vars(Resumes(v) /\ UNCHANGED pool)
    /\ \A j \in Jobs : WF_vars(ThreadStep(j) /\ UNCHANGED pool)

----------------------------------------------------------------------------
Final == {"over", "lost"}
Stages == {"idle", "working", "answering", "finishing", "queueing"} \cup Waits \cup Final

TypeOK ==
    /\ TranscriptionTypeOK
    /\ pc \in [Requests -> Stages]
    /\ held \in [Requests -> 0 .. 2]
    /\ free \in 0 .. PoolSize
    /\ crowd \in [Mails -> Nat]
    /\ broken \subseteq Mails

\* The connections that are not in the pool, as the first, second, ... of a
\* request.
InHands == UNION {{r} \X (1 .. held[r]) : r \in Requests}

\* Connections are neither lost nor handed out twice, and a request that is
\* over holds none.
EveryConnectionComesBack ==
    /\ free + Cardinality(InHands) = PoolSize
    /\ \A r \in Requests : pc[r] \in Final => held[r] = 0

\* An e-mail is lost only if the outbox write itself raised, or to a crowd: for one
\* whose request waits with a connection in hand, more than half as many requests as
\* the pool has connections hold one at that time - requests that wait with it for an
\* SMTP server, a model, a recording, or another connection; for a background
\* delivery, which brings none, half as many may do.  (email_service.py:255 queues it
\* for the scheduler "so the background scheduler can retry it".)
EveryLossHasACause ==
    \A m \in Mails : pc[m] = "lost" =>
        \/ m \in broken
        \/ 2 * crowd[m] > PoolSize
        \/ m \in Background /\ 2 * crowd[m] = PoolSize

\* Requests that hold a connection and wait for another one do not wait for
\* each other for ever, nor behind recordings: every request ends, and every
\* job of the executor.  (Each of them arrives once and stays over, so that it is
\* the same to say that a time comes when none of them is under way any more.)
EveryRequestEnds ==
    <>[](/\ \A r \in Requests : pc[r] \in Final \cup {"idle"}
         /\ \A j \in Jobs : thread[j] \in {"none", "done", "raised"})
============================================================================
