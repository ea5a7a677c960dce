---------------------------- MODULE EmailOutbox ----------------------------
(***************************************************************************)
(* Outgoing e-mail: the immediate delivery of email_service.py, the        *)
(* email_outbox table, and the retry loop of main.py, run by every worker  *)
(* process of the service against one PostgreSQL database.                 *)
(*                                                                         *)
(* A row of the table and the ORM object a worker's session loads from it  *)
(* are kept apart: the session has autoflush=False, so what a tick decides *)
(* about a row stays in memory until the commit at the end of the tick.    *)
(*                                                                         *)
(* Time is counted in retry intervals.  Timestamps are kept as the time    *)
(* left until them or the time passed since them, saturating where the     *)
(* code can no longer tell two values apart.                               *)
(***************************************************************************)
EXTENDS Naturals, FiniteSets

CONSTANTS
    Workers,       \* processes that run _email_retry_loop
    NoWorker,      \* the lock holder of an unlocked row
    Emails,        \* the e-mails the service ever has to send
    Resets,        \* those with email_type = "password_reset"
    FailureKinds,  \* the kinds of SMTP failure that may occur
    LostAcks,      \* may SMTP accept a message and the call raise all the same?
    BatchSize,     \* EMAIL_RETRY_BATCH_SIZE
    MaxRetries,    \* EMAIL_MAX_RETRIES
    Interval,      \* EMAIL_RETRY_INTERVAL_MINUTES
    Retention,     \* EMAIL_OUTBOX_RETENTION_DAYS
    LinkTTL,       \* life of a password-reset link
    BatchTime,     \* longest time a tick spends sending its batch
    MaxFaults      \* bound on crashes and database failures

AllFailures == {"timeout", "tempReject", "badCredentials", "badRecipient"}

ASSUME ConstantsAssumption ==
    /\ NoWorker \notin Workers
    /\ Resets \subseteq Emails
    /\ FailureKinds \subseteq AllFailures
    /\ LostAcks \in BOOLEAN
    /\ BatchSize \in Nat \ {0}
    /\ MaxRetries \in Nat \ {0}
    /\ Interval \in Nat \ {0}
    /\ Retention \in Nat
    /\ LinkTTL \in Nat
    /\ BatchTime \in Nat
    /\ MaxFaults \in Nat

VARIABLES
    phase,     \* phase[e]: how far _deliver has come with e
    row,       \* row[e]: the committed row of e in email_outbox
    older,     \* older[e]: rows whose created_at precedes that of e
    lock,      \* lock[e]: the transaction that holds e's row lock
    tick,      \* tick[w]: where w's retry loop stands
    timer,     \* timer[w]: time until w's next tick, or left to w's batch
    mem,       \* mem[w][e]: the ORM object of e in w's session
    todo,      \* todo[w]: rows of w's batch it has not tried yet
    deleting,  \* deleting[w]: rows w's open transaction has deleted
    link,      \* link[e]: time left to the link in a password-reset e-mail
    faults,    \* crashes and database failures so far
    copies,    \* copies[e]: times SMTP accepted e, 2 standing for "or more"
    cause,     \* cause[e]: events that may explain a second copy of e
    late       \* password-reset e-mails accepted after their link expired

system  == <<phase, row, older, lock, tick, timer, mem, todo, deleting, link, faults>>
history == <<copies, cause, late>>
vars    == <<system, history>>

----------------------------------------------------------------------------
Terminal == {"sent", "failed"}
Statuses == {"pending"} \cup Terminal
Causes   == {"rollback", "unacked", "discarded"}
NoError  == "none"

Row == [status   : {"absent"} \cup Statuses,
        attempts : Nat,
        error    : {NoError} \cup AllFailures,
        wait     : 0..Interval,         \* until next_attempt_at
        age      : 0..Retention + 1]    \* since updated_at

Blank == [status |-> "absent", attempts |-> 0, error |-> NoError, wait |-> 0, age |-> 0]

\* The defaults of a new row: due at once.
NewRow(f) == [Blank EXCEPT !.status = "pending", !.error = f]

Nothing    == [e \in Emails |-> Blank]
Session(w) == {e \in Emails : mem[w][e].status # "absent"}

\* Does the response carry an SMTP code, and does its text speak of
\* authentication?  A refused recipient is an SMTPRecipientsRefused (no code)
\* or a 550 whose text says nothing of authentication.
Code(f)         == CASE f = "tempReject"     -> 454
                     [] f = "badCredentials" -> 535
                     [] f = "badRecipient"   -> 550
                     [] f = "timeout"        -> 0
MentionsAuth(f) == f \in {"tempReject", "badCredentials"}

IsPermanentSmtpFailure(f) ==
    /\ ~ (Code(f) # 0 /\ Code(f) < 500)
    /\ Code(f) = 535 \/ MentionsAuth(f)

MaxAttempts(e) == IF e \in Resets THEN 2 ELSE MaxRetries

\* Mutant of Purgeable: the DELETE has lost its condition on status.
PurgeableByAge(r) == r.status # "absent" /\ r.age > Retention

\* The predicate of the housekeeping DELETE.
Purgeable(r) == r.status \in Terminal /\ r.age > Retention

Accept(e) ==
    /\ copies' = [copies EXCEPT ![e] = IF @ = 2 THEN 2 ELSE @ + 1]
    /\ late' = IF e \in Resets /\ link[e] = 0 THEN late \cup {e} ELSE late

Blame(S, c) == cause' = [e \in Emails |-> IF e \in S THEN cause[e] \cup {c} ELSE cause[e]]

----------------------------------------------------------------------------
Init ==
    /\ phase = [e \in Emails |-> "new"]
    /\ row = Nothing
    /\ older = [e \in Emails |-> {}]
    /\ lock = [e \in Emails |-> NoWorker]
    /\ tick = [w \in Workers |-> "idle"]
    /\ timer = [w \in Workers |-> 0]
    /\ mem = [w \in Workers |-> Nothing]
    /\ todo = [w \in Workers |-> {}]
    /\ deleting = [w \in Workers |-> {}]
    /\ link = [e \in Emails |-> LinkTTL]
    /\ faults = 0
    /\ copies = [e \in Emails |-> 0]
    /\ cause = [e \in Emails |-> {}]
    /\ late = {}

----------------------------------------------------------------------------
(* Immediate delivery: EmailService._deliver *)

\* A request schedules or awaits the delivery of e.
Request(e) ==
    /\ phase[e] = "new"
    /\ phase' = [phase EXCEPT ![e] = "sending"]
    /\ UNCHANGED <<row, older, lock, tick, timer, mem, todo, deleting, link, faults, history>>

DeliverSucceeds(e) ==
    /\ phase[e] = "sending"
    /\ phase' = [phase EXCEPT ![e] = "direct"]
    /\ Accept(e)
    /\ UNCHANGED <<row, older, lock, tick, timer, mem, todo, deleting, link, faults, cause>>

\* The send raised f; _enqueue_outbox will write the row in a session of its own.
DeliverFails(e, f) ==
    /\ phase[e] = "sending"
    /\ phase' = [phase EXCEPT ![e] = f]
    /\ \/ UNCHANGED history
       \/ /\ LostAcks
          /\ f = "timeout"
          /\ Accept(e)
          /\ Blame({e}, "unacked")
    /\ UNCHANGED <<row, older, lock, tick, timer, mem, todo, deleting, link, faults>>

Enqueue(e) ==
    /\ phase[e] \in AllFailures
    /\ phase' = [phase EXCEPT ![e] = "queued"]
    /\ row' = [row EXCEPT ![e] = NewRow(phase[e])]
    /\ older' = [older EXCEPT ![e] = {d \in Emails : row[d].status # "absent"}]
    /\ UNCHANGED <<lock, tick, timer, mem, todo, deleting, link, faults, history>>

\* The outbox write fails too: the error is logged and the e-mail is gone.
EnqueueFails(e) ==
    /\ phase[e] \in AllFailures
    /\ faults < MaxFaults
    /\ faults' = faults + 1
    /\ phase' = [phase EXCEPT ![e] = "lost"]
    /\ UNCHANGED <<row, older, lock, tick, timer, mem, todo, deleting, link, history>>

----------------------------------------------------------------------------
(* The retry loop: main._email_retry_loop *)

Due == {e \in Emails : row[e].status = "pending" /\ row[e].wait = 0}

Selectable == {e \in Due : lock[e] = NoWorker}

\* SELECT ... ORDER BY created_at LIMIT BatchSize FOR UPDATE SKIP LOCKED.
Batches(free) ==
    {B \in SUBSET free :
        /\ \A e \in B : older[e] \cap free \subseteq B
        /\ Cardinality(B) <= BatchSize
        /\ Cardinality(B) = BatchSize \/ B = free}

BeginTick(w) ==
    /\ tick[w] = "idle"
    /\ timer[w] = 0
    /\ \E B \in Batches(Selectable) :
          /\ lock' = [e \in Emails |-> IF e \in B THEN w ELSE lock[e]]
          /\ mem' = [mem EXCEPT ![w] = [e \in Emails |-> IF e \in B THEN row[e] ELSE Blank]]
          /\ todo' = [todo EXCEPT ![w] = B]
    /\ tick' = [tick EXCEPT ![w] = "sending"]
    /\ timer' = [timer EXCEPT ![w] = BatchTime]
    /\ UNCHANGED <<phase, row, older, deleting, link, faults, history>>

\* The next row of the batch, oldest first.
NextInBatch(w) == {e \in todo[w] : older[e] \cap todo[w] = {}}

\* Mutants of AfterFailure: a growing delay, a result set in a finally block, and
\* a failure that is not counted.
BackOff(r, e, f)       == [r EXCEPT !.attempts = @ + 1, !.error = f, !.wait = Interval * 2]
SentInFinally(r, e, f) == [r EXCEPT !.status = "sent", !.error = f]
NotCounted(r, e, f)    == [r EXCEPT !.error = f, !.wait = Interval]

\* What the except branch makes of a row whose send raised f.
AfterFailure(r, e, f) ==
    LET tried == [r EXCEPT !.attempts = @ + 1, !.error = f]
    IN  IF IsPermanentSmtpFailure(f) \/ tried.attempts >= MaxAttempts(e)
        THEN [tried EXCEPT !.status = "failed"]
        ELSE [tried EXCEPT !.wait = Interval]

SendSucceeds(w, e) ==
    /\ tick[w] = "sending"
    /\ e \in NextInBatch(w)
    /\ mem' = [mem EXCEPT ![w][e] = [@ EXCEPT !.status = "sent", !.error = NoError]]
    /\ todo' = [todo EXCEPT ![w] = @ \ {e}]
    /\ Accept(e)
    /\ UNCHANGED <<phase, row, older, lock, tick, timer, deleting, link, faults, cause>>

SendFails(w, e, f) ==
    /\ tick[w] = "sending"
    /\ e \in NextInBatch(w)
    /\ mem' = [mem EXCEPT ![w][e] = AfterFailure(@, e, f)]
    /\ todo' = [todo EXCEPT ![w] = @ \ {e}]
    /\ \/ UNCHANGED history
       \/ /\ LostAcks
          /\ f = "timeout"
          /\ Accept(e)
          /\ Blame({e}, "unacked")
    /\ UNCHANGED <<phase, row, older, lock, tick, timer, deleting, link, faults>>

\* The housekeeping DELETE.  In the database it matches committed rows and
\* waits for those another transaction is deleting.  The ORM also evaluates
\* its predicate on the session's objects, whose changes are not flushed yet,
\* and takes those that match out of the session.
Purge(w) ==
    LET inTable   == {e \in Emails : Purgeable(row[e])}
        inSession == {e \in Session(w) : Purgeable(mem[w][e])}
    IN  /\ tick[w] = "sending"
        /\ todo[w] = {}
        /\ \A e \in inTable : lock[e] \in {NoWorker, w}
        /\ lock' = [e \in Emails |-> IF e \in inTable THEN w ELSE lock[e]]
        /\ deleting' = [deleting EXCEPT ![w] = inTable]
        /\ mem' = [mem EXCEPT ![w] = [e \in Emails |-> IF e \in inSession THEN Blank ELSE @[e]]]
        /\ Blame(inSession, "discarded")
        /\ tick' = [tick EXCEPT ![w] = "committing"]
        /\ UNCHANGED <<phase, row, older, timer, todo, link, faults, copies, late>>

\* w's session ends: its locks, objects and uncommitted deletions go with it.
CloseSession(w) ==
    /\ lock' = [e \in Emails |-> IF lock[e] = w THEN NoWorker ELSE lock[e]]
    /\ mem' = [mem EXCEPT ![w] = Nothing]
    /\ todo' = [todo EXCEPT ![w] = {}]
    /\ deleting' = [deleting EXCEPT ![w] = {}]

\* Mutant of Commit: session.commit() is missing.
CommitForgotten(w) ==
    /\ tick[w] = "committing"
    /\ CloseSession(w)
    /\ tick' = [tick EXCEPT ![w] = "idle"]
    /\ timer' = [timer EXCEPT ![w] = Interval]
    /\ UNCHANGED <<phase, row, older, link, faults, history>>

\* The flush writes the session's objects, and updated_at with them.
Commit(w) ==
    /\ tick[w] = "committing"
    /\ row' = [e \in Emails |-> IF e \in deleting[w] THEN Blank
                               ELSE IF e \in Session(w) THEN [mem[w][e] EXCEPT !.age = 0]
                               ELSE row[e]]
    /\ CloseSession(w)
    /\ tick' = [tick EXCEPT ![w] = "idle"]
    /\ timer' = [timer EXCEPT ![w] = Interval]
    /\ UNCHANGED <<phase, older, link, faults, history>>

Rollback(w) ==
    /\ CloseSession(w)
    /\ Blame({e \in Emails : mem[w][e].status = "sent"}, "rollback")
    /\ faults < MaxFaults
    /\ faults' = faults + 1

\* The SELECT, the DELETE or the COMMIT raises: the tick is logged and skipped.
TickFails(w) ==
    /\ \/ tick[w] = "idle" /\ timer[w] = 0
       \/ tick[w] = "sending" /\ todo[w] = {}
       \/ tick[w] = "committing"
    /\ Rollback(w)
    /\ tick' = [tick EXCEPT ![w] = "idle"]
    /\ timer' = [timer EXCEPT ![w] = Interval]
    /\ UNCHANGED <<phase, row, older, link, copies, late>>

----------------------------------------------------------------------------
(* Processes and time *)

InFlight == {e \in Emails : phase[e] = "sending" \/ phase[e] \in AllFailures}

\* A crash, a kill, or the cancellation at shutdown, which the loop's
\* "except Exception" does not catch.  The process's background deliveries
\* die with it; which ones ran in w is not recorded.
Crash(w) ==
    /\ tick[w] # "down"
    /\ Rollback(w)
    /\ tick' = [tick EXCEPT ![w] = "down"]
    /\ timer' = [timer EXCEPT ![w] = 0]
    /\ \E S \in SUBSET InFlight :
          phase' = [e \in Emails |-> IF e \in S THEN "lost" ELSE phase[e]]
    /\ UNCHANGED <<row, older, link, copies, late>>

\* The lifespan handler starts the loop, whose first tick comes at once.
Restart(w) ==
    /\ tick[w] = "down"
    /\ tick' = [tick EXCEPT ![w] = "idle"]
    /\ UNCHANGED <<phase, row, older, lock, timer, mem, todo, deleting, link, faults, history>>

Sooner(n) == IF n = 0 THEN 0 ELSE n - 1

Aged(r) == IF r.status = "absent" THEN r
           ELSE [r EXCEPT !.wait = Sooner(@),
                          !.age = IF @ > Retention THEN @ ELSE @ + 1]

\* One interval passes.  A loop that is due to wake does so first, a batch has
\* at most BatchTime, and an immediate delivery ends within its 30 s timeout.
TimePasses ==
    /\ \A w \in Workers : tick[w] = "down" \/ timer[w] > 0
    /\ InFlight = {}
    /\ row' = [e \in Emails |-> Aged(row[e])]
    /\ mem' = [w \in Workers |-> [e \in Emails |-> Aged(mem[w][e])]]
    /\ timer' = [w \in Workers |-> Sooner(timer[w])]
    /\ link' = [e \in Emails |-> IF e \in Resets /\ phase[e] # "new"
                                 THEN Sooner(link[e]) ELSE link[e]]
    /\ UNCHANGED <<phase, older, lock, tick, todo, deleting, faults, history>>

----------------------------------------------------------------------------
Deliver(e) ==
    \/ DeliverSucceeds(e)
    \/ \E f \in FailureKinds : DeliverFails(e, f)
    \/ Enqueue(e)
    \/ EnqueueFails(e)

Tick(w) ==
    \/ BeginTick(w)
    \/ \E e \in Emails : SendSucceeds(w, e)
    \/ \E e \in Emails, f \in FailureKinds : SendFails(w, e, f)
    \/ Purge(w)
    \/ Commit(w)

Next ==
    \/ \E e \in Emails : Request(e) \/ Deliver(e)
    \/ \E w \in Workers : Tick(w) \/ TickFails(w) \/ Crash(w) \/ Restart(w)
    \/ TimePasses

Spec == Init /\ [][Next]_vars

\* Nobody has to ask for an e-mail, and nothing has to fail.  A started
\* coroutine runs on, the host restarts a dead process, and time passes.
Fairness ==
    /\ \A e \in Emails : WF_vars(Deliver(e))
    /\ \A w \in Workers : WF_vars(Tick(w)) /\ WF_vars(Restart(w))
    /\ WF_vars(TimePasses)

FairSpec == Spec /\ Fairness

----------------------------------------------------------------------------
(* Properties *)

Phases == {"new", "sending", "direct", "queued", "lost"} \cup AllFailures

\* Every variable stays in the set it is declared over: in particular wait and
\* age never leave their ranges, and a session holds rows of the table's type.
TypeOK ==
    /\ phase \in [Emails -> Phases]
    /\ row \in [Emails -> Row]
    /\ older \in [Emails -> SUBSET Emails]
    /\ lock \in [Emails -> Workers \cup {NoWorker}]
    /\ tick \in [Workers -> {"idle", "sending", "committing", "down"}]
    /\ timer \in [Workers -> Nat]
    /\ mem \in [Workers -> [Emails -> Row]]
    /\ todo \in [Workers -> SUBSET Emails]
    /\ deleting \in [Workers -> SUBSET Emails]
    /\ link \in [Emails -> 0..LinkTTL]
    /\ faults \in 0..MaxFaults
    /\ copies \in [Emails -> 0..2]
    /\ cause \in [Emails -> SUBSET Causes]
    /\ late \in SUBSET Resets

\* "multiple app workers never send the same email twice" (main.py:84-85): the
\* rows that two workers have loaded and not yet committed are disjoint.
OneSenderPerRow ==
    \A w, v \in Workers : w # v => Session(w) \cap Session(v) = {}

\* An e-mail that SMTP accepted twice met one of three events: the tick that
\* sent it was rolled back, its acknowledgement was lost, or the housekeeping
\* DELETE took its object, with the result in it, out of the session.
EveryDuplicateHasACause ==
    \A e \in Emails : copies[e] = 2 => cause[e] # {}

\* "Delivery is at-least-once: if the process crashes after SMTP accepts the
\* email but before the row is marked sent, the email is sent again"
\* (main.py:87-90): with no lost acknowledgement, a rolled-back tick is the
\* only way to a second copy.
DuplicateOnlyAfterRollback ==
    \A e \in Emails : copies[e] = 2 => "rollback" \in cause[e]

\* "sent: delivered successfully by the retry scheduler" (email_outbox.py:9):
\* no committed row says sent of an e-mail that SMTP never accepted.
SentMeansAccepted ==
    \A e \in Emails : row[e].status = "sent" => copies[e] > 0

\* "cap their retries (max ~20 min of delay) to avoid delivering an
\* already-expired link" (main.py:146-148): no password-reset e-mail is
\* accepted by SMTP after the link in it has expired.
NoExpiredLink == late = {}

\* The committed rows go through the life cycle of EmailLifecycle, every commit
\* counting each failed attempt once, and nothing pending is ever removed.
Stage(e) == IF row[e].status # "absent" THEN row[e].status
            ELSE IF phase[e] = "queued" THEN "removed" ELSE "none"

Lifecycle == INSTANCE EmailLifecycle WITH
                 Limit <- [e \in Emails |-> MaxAttempts(e)],
                 stage <- [e \in Emails |-> Stage(e)],
                 tries <- [e \in Emails |-> row[e].attempts]

ImplementsLifecycle == Lifecycle!Spec

\* A row does not stay pending for ever: neither a backlog, nor a failed tick, nor
\* the death of a worker keeps the scheduler from settling it (main.py:118-178).
\* The only excuse is a result that the housekeeping DELETE threw away with the
\* object it was in: that of the row itself, or that of an older row, which is due
\* again at every tick and takes the younger one's place in the batch.
PendingSettles ==
    \A e \in Emails : row[e].status = "pending"
        ~> \/ row[e].status # "pending"
           \/ \E d \in older[e] \cup {e} : "discarded" \in cause[d]

\* "re-sends every pending outbox row whose next_attempt_at has passed"
\* (main.py:83): the scheduler settles every row whose own results it keeps.
EveryRowIsServed ==
    \A e \in Emails : row[e].status = "pending"
        ~> (row[e].status # "pending" \/ "discarded" \in cause[e])
============================================================================
