------------------------------ MODULE Accounts ------------------------------
(***************************************************************************)
(* User accounts under concurrent requests: registration, the verification *)
(* link and its resend cooldown, password and Google sign-in, the reset    *)
(* link, deletion (AuthService in services.py, api/auth.py).               *)
(*                                                                         *)
(* A request is cut where it awaits the database and another one can come  *)
(* between.  A token is named after the request that generated it, and so  *)
(* is the id of an account; an account that was there before has the name  *)
(* of its address as its id.  Time is abstract: a link can be found to     *)
(* have expired whenever it is looked up.                                  *)
(***************************************************************************)
EXTENDS Naturals, FiniteSets

CONSTANTS
    Requests,      \* the requests the clients send
    Operations,    \* the operations they ask for
    Addresses,     \* e-mail addresses as they are typed
    Lower,         \* Lower[a]: the address in lower case
    Workers,       \* server processes, each with its own cooldown table
    None           \* SQL NULL: no account, no token

AllOperations == {"register", "resend", "verify", "login", "google",
                  "forgot", "reset", "delete"}

ASSUME AccountsAssumption ==
    /\ Operations \subseteq AllOperations
    /\ Lower \in [Addresses -> Addresses]
    /\ None \notin Requests \cup Addresses
    /\ Requests \cap Addresses = {}

VARIABLES
    user,      \* user[a]: the committed row with address a
    resets,    \* the committed rows of password_reset_tokens
    cool,      \* _verification_cooldowns of every worker
    pc,        \* pc[r]: where request r stands
    obj,       \* obj[r]: what r keeps of the User it has loaded
    held,      \* held[r]: the token r works with
    at,        \* at[r]: the worker that serves r
    mailed,    \* tokens in the inboxes
    newest,    \* newest[i]: the last verification link sent for account i
    proven,    \* accounts whose address is known to be their owner's
    signed,    \* accounts whose sign-in was answered with an access token
    welcomed,  \* accounts whose registration was answered with one
    uses,      \* uses[t]: how often reset link t set a password
    late,      \* late[r]: the link r is about to send has been replaced
    recent,    \* resent within the cooldown, by worker and address
    spam,      \* resent twice within it
    cause      \* events that may explain what should not be

database == <<user, resets>>
local    == <<pc, obj, held, at>>
history  == <<newest, proven, signed, welcomed, uses, late, recent, spam, cause>>
vars     == <<database, cool, local, mailed, history>>

----------------------------------------------------------------------------
Ids    == Requests \cup Addresses
Tokens == Requests \cup {None}
User   == [id : Ids \cup {None}, provider : {"email", "google"}, verified : BOOLEAN,
           token : Tokens, google : BOOLEAN, password : BOOLEAN]
Reset  == [token : Requests, id : Ids]
Loaded == [addr : Addresses \cup {None}, id : Ids \cup {None}, google : BOOLEAN,
           welcome : BOOLEAN]    \* the registration will answer with an access token
Cause  == [kind : {"shared", "abandoned", "crossed", "late", "unsent"}, of : Ids]
          \cup [kind : {"burst", "cleared"}, of : Workers \X Addresses]

Nobody == [id |-> None, provider |-> "email", verified |-> FALSE, token |-> None,
           google |-> FALSE, password |-> FALSE]
Unread == [addr |-> None, id |-> None, google |-> FALSE, welcome |-> FALSE]

\* An account that existed before e-mails had to be verified.
Grandfathered(a) == [Nobody EXCEPT !.id = a, !.verified = TRUE, !.password = TRUE]

Exists(a) == user[a].id # None
Linked    == {a \in Addresses : Exists(a) /\ user[a].google}

Blame(kind, of) == [kind |-> kind, of |-> of]

\* Requests that may have given their name to an account or to a token.
Early   == {"idle", "registering", "resending", "creating", "forgot", "cleared"}
Started == {r \in Requests : pc[r] \notin Early}

\* The accounts there are, and those that are verified: see AccountLifecycle.
Present   == {user[a].id : a \in Addresses} \ {None}
Usable    == {user[a].id : a \in {b \in Addresses : user[b].verified}}

\* The row that r has loaded is still there: an UPDATE goes by primary key.
Still(r) == obj[r].addr \in Addresses /\ obj[r].id # None
            /\ user[obj[r].addr].id = obj[r].id

At(p)       == {r \in Requests : pc[r] \in p}
Goto(r, p)  == pc' = [pc EXCEPT ![r] = p]
Begins(r, op) == op \in Operations /\ pc[r] = "idle"

\* get_by_email, get_by_id or get_by_verification_token: the User object.
Loads(r, a) ==
    obj' = [obj EXCEPT ![r] = [addr |-> a, id |-> user[a].id, google |-> user[a].google,
                               welcome |-> FALSE]]

Ends(r, p) ==
    /\ Goto(r, p)
    /\ obj' = [obj EXCEPT ![r] = Unread]
    /\ held' = [held EXCEPT ![r] = None]
    /\ at' = [at EXCEPT ![r] = None]

\* An early return or a ValueError: nothing has been changed.
Refused(r) == Ends(r, "done") /\ UNCHANGED <<database, cool, mailed, history>>

----------------------------------------------------------------------------
\* The service starts with the accounts `rows`.
InitWith(rows) ==
    /\ user = rows
    /\ resets = {}
    /\ cool = {}
    /\ pc = [r \in Requests |-> "idle"]
    /\ obj = [r \in Requests |-> Unread]
    /\ held = [r \in Requests |-> None]
    /\ at = [r \in Requests |-> None]
    /\ mailed = {}
    /\ newest = [i \in Ids |-> None]
    /\ proven = {a \in Addresses : Exists(a)}
    /\ signed = {}
    /\ welcomed = {}
    /\ uses = [t \in Requests |-> 0]
    /\ late = [r \in Requests |-> FALSE]
    /\ recent = {}
    /\ spam = {}
    /\ cause = {}

\* At most one account is older than the model's requests.
Before(b, row) == [a \in Addresses |-> IF a = b THEN row ELSE Nobody]

Init == InitWith(Before(None, Nobody)) \/ \E b \in Addresses : InitWith(Before(b, Grandfathered(b)))

----------------------------------------------------------------------------
(* Registration *)

RegisterLooks(r, a) ==
    /\ Begins(r, "register")
    /\ IF Exists(a)
       THEN Refused(r)
       ELSE /\ Loads(r, a)
            /\ Goto(r, "registering")
            /\ UNCHANGED <<database, cool, held, at, mailed, history>>

\* The unique index on email refuses the second of two INSERTs: see Fails.
RegisterInserts(r) ==
    LET a == obj[r].addr
    IN  /\ pc[r] = "registering"
        /\ ~ Exists(a)
        /\ user' = [user EXCEPT ![a] = [id |-> r, provider |-> "email", verified |-> FALSE,
                                        token |-> r, google |-> FALSE, password |-> TRUE]]
        /\ obj' = [obj EXCEPT ![r].id = r]
        /\ Goto(r, "inserted")
        /\ UNCHANGED <<resets, cool, held, at, mailed, history>>

\* Mutant of RegisterRefreshes: the token generated at the start is sent.
RegisterKeepsToken(r) ==
    /\ pc[r] = "inserted"
    /\ Still(r)
    /\ held' = [held EXCEPT ![r] = r]
    /\ Goto(r, "sending")
    /\ UNCHANGED <<database, cool, obj, at, mailed, history>>

\* session.refresh reads the row again, and with it the token of a resend and a
\* verification that came between.
RegisterRefreshes(r) ==
    LET a == obj[r].addr
    IN  /\ pc[r] = "inserted"
        /\ Still(r)
        /\ held' = [held EXCEPT ![r] = user[a].token]
        /\ obj' = [obj EXCEPT ![r].welcome = user[a].verified]
        /\ Goto(r, "sending")
        /\ UNCHANGED <<database, cool, at, mailed, history>>

\* _send_verification_email with the token that the object holds.
Sends(r) ==
    LET i == obj[r].id
    IN  /\ mailed' = mailed \cup ({held[r]} \ {None})
        /\ newest' = [newest EXCEPT ![i] = held[r]]
        /\ late' = [late EXCEPT ![r] = FALSE]
        /\ cause' = IF late[r] THEN cause \cup {Blame("late", i)}
                    ELSE cause \ {Blame("late", i), Blame("unsent", i)}
        /\ Ends(r, "done")

\* The answer carries an access token if the object that was refreshed is verified,
\* whatever has become of the account since.
RegisterSends(r) ==
    /\ pc[r] = "sending"
    /\ Sends(r)
    /\ welcomed' = IF obj[r].welcome THEN welcomed \cup {obj[r].id} ELSE welcomed
    /\ UNCHANGED <<database, cool, proven, signed, uses, recent, spam>>

----------------------------------------------------------------------------
(* The verification link *)

\* Mutant of Verified: FALSE in place of NULL for the token.
VerifiedWithFalse(row) == [row EXCEPT !.verified = TRUE, !.token = FALSE]

Verified(row) == [row EXCEPT !.verified = TRUE, !.token = None]

\* A link that is unknown, used, replaced or expired is refused.
VerifyLooks(r, t) ==
    /\ Begins(r, "verify")
    /\ t \in mailed
    /\ \/ Refused(r)
       \/ \E a \in Addresses :
            /\ Exists(a)
            /\ user[a].token = t
            /\ Loads(r, a)
            /\ held' = [held EXCEPT ![r] = t]
            /\ Goto(r, "verifying")
            /\ UNCHANGED <<database, cool, at, mailed, history>>

VerifyCommits(r) ==
    /\ pc[r] = "verifying"
    /\ Still(r)
    /\ user' = [user EXCEPT ![obj[r].addr] = Verified(@)]
    /\ proven' = proven \cup {obj[r].id}
    /\ Ends(r, "done")
    /\ UNCHANGED <<resets, cool, mailed, newest, signed, welcomed, uses, late, recent, spam,
                   cause>>

\* Resends under way in worker w for address a.
Resending(w, a) == {q \in At({"resending", "resent"}) : at[q] = w /\ obj[q].addr = a}

\* The checks and the cooldown; a table of more than 5000 entries is emptied.
ResendLooks(r, w, a) ==
    /\ Begins(r, "resend")
    /\ IF ~ Exists(a) \/ user[a].verified \/ user[a].provider # "email" \/ <<w, a>> \in cool
       THEN Refused(r)
       ELSE /\ Loads(r, a)
            /\ at' = [at EXCEPT ![r] = w]
            /\ cause' = IF Resending(w, a) = {} THEN cause
                        ELSE cause \cup {Blame("burst", <<w, a>>)}
            /\ Goto(r, "resending")
            /\ UNCHANGED <<database, cool, held, mailed, newest, proven, signed, welcomed, uses,
                           late, recent, spam>>

\* The links about to be sent for the same account are out of date.
Overtaken(r) == [q \in Requests |->
                    late[q] \/ (q \in At({"sending", "resent"}) /\ obj[q].id = obj[r].id)]

\* Mutant of ResendCommits: the flush writes every attribute of the object.
ResendWritesAll(r) ==
    LET a == obj[r].addr
    IN  /\ pc[r] = "resending"
        /\ Still(r)
        /\ user' = [user EXCEPT ![a].token = r, ![a].verified = FALSE]
        /\ held' = [held EXCEPT ![r] = r]
        /\ late' = Overtaken(r)
        /\ Goto(r, "resent")
        /\ UNCHANGED <<resets, cool, obj, at, mailed, newest, proven, signed, welcomed, uses,
                       recent, spam, cause>>

\* Only the attributes that changed are written: a verification that came
\* between stays.
ResendCommits(r) ==
    LET a == obj[r].addr
    IN  /\ pc[r] = "resending"
        /\ Still(r)
        /\ user' = [user EXCEPT ![a].token = r]
        /\ held' = [held EXCEPT ![r] = r]
        /\ late' = Overtaken(r)
        /\ Goto(r, "resent")
        /\ UNCHANGED <<resets, cool, obj, at, mailed, newest, proven, signed, welcomed, uses,
                       recent, spam, cause>>

\* Mutant of Cooldown: the time of the resend is not kept.
CooldownForgotten(r) == cool

Cooldown(r) == cool \cup {<<at[r], obj[r].addr>>}

\* The cooldown is set after the commit, and the link is sent.
ResendSends(r) ==
    LET key == <<at[r], obj[r].addr>>
    IN  /\ pc[r] = "resent"
        /\ cool' = Cooldown(r)
        /\ spam' = IF key \in recent THEN spam \cup {key} ELSE spam
        /\ recent' = recent \cup {key}
        /\ Sends(r)
        /\ UNCHANGED <<database, proven, signed, welcomed, uses>>

\* Sixty seconds later.
CooldownEnds(key) ==
    /\ key \in recent
    /\ cool' = cool \ {key}
    /\ recent' = recent \ {key}
    /\ spam' = spam \ {key}
    /\ cause' = cause \ ({Blame("cleared", key)}
                    \cup (IF \A q, r \in Resending(key[1], key[2]) : q = r
                          THEN {Blame("burst", key)} ELSE {}))
    /\ UNCHANGED <<database, local, mailed, newest, proven, signed, welcomed, uses, late>>

\* The table of a worker is emptied because it is full, or because it starts again.
TableCleared(w) ==
    LET keys == {k \in cool : k[1] = w}
    IN  /\ keys # {}
        /\ cool' = cool \ keys
        /\ cause' = cause \cup {Blame("cleared", k) : k \in keys}
        /\ UNCHANGED <<database, local, mailed, newest, proven, signed, welcomed, uses, late,
                       recent, spam>>

----------------------------------------------------------------------------
(* Signing in *)

\* Password, provider and verification are checked on the loaded object.
LoginLooks(r, a) ==
    /\ Begins(r, "login")
    /\ IF ~ Exists(a) \/ ~ user[a].password \/ (user[a].provider = "email" /\ ~ user[a].verified)
       THEN Refused(r)
       ELSE /\ Loads(r, a)
            /\ Goto(r, "recording")
            /\ UNCHANGED <<database, cool, held, at, mailed, history>>

\* Mutant of LoginRecords: no matter whether the UPDATE finds the row.
LoginRecordsAnyway(r) ==
    /\ pc[r] = "recording"
    /\ signed' = signed \cup {obj[r].id}
    /\ Ends(r, "done")
    /\ UNCHANGED <<database, cool, mailed, newest, proven, welcomed, uses, late, recent,
                   spam, cause>>

\* _record_login commits; only then the access token leaves the server.
LoginRecords(r) ==
    /\ pc[r] = "recording"
    /\ Still(r)
    /\ signed' = signed \cup {obj[r].id}
    /\ Ends(r, "done")
    /\ UNCHANGED <<database, cool, mailed, newest, proven, welcomed, uses, late, recent,
                   spam, cause>>

\* get_by_email, then get_by_google_id: the accounts a Google sign-in may mean.
Matches(e) == IF Exists(e) THEN {e} ELSE Linked

\* A Google sign-in with address e, which Google has verified.
GoogleLooks(r, e) ==
    /\ Begins(r, "google")
    /\ IF Matches(Lower[e]) = {}
       THEN /\ Loads(r, Lower[e])
            /\ Goto(r, "creating")
            /\ UNCHANGED <<database, cool, held, at, mailed, history>>
       ELSE \E a \in Matches(Lower[e]) :
            /\ Loads(r, a)
            /\ held' = [held EXCEPT ![r] = user[a].token]
            /\ proven' = IF a = Lower[e] THEN proven \cup {user[a].id} ELSE proven
            /\ Goto(r, "linking")
            /\ UNCHANGED <<database, cool, at, mailed, newest, signed, welcomed, uses, late,
                           recent,
                           spam, cause>>

\* The unique indexes on email and google_id refuse a second INSERT: see Fails.
GoogleCreates(r) ==
    LET a == obj[r].addr
    IN  /\ pc[r] = "creating"
        /\ ~ Exists(a)
        /\ Linked = {}
        /\ user' = [user EXCEPT ![a] = [id |-> r, provider |-> "google", verified |-> TRUE,
                                        token |-> None, google |-> TRUE, password |-> FALSE]]
        /\ proven' = proven \cup {r}
        /\ obj' = [obj EXCEPT ![r].id = r]
        /\ Goto(r, "recording")
        /\ UNCHANGED <<resets, cool, held, at, mailed, newest, signed, welcomed, uses, late,
                       recent, spam, cause>>

\* Of an account made with a password the link is dropped, if one was loaded.
GoogleLinks(r) ==
    LET a     == obj[r].addr
        row   == [user[a] EXCEPT !.google = @ \/ ~ obj[r].google]
        freed == [row EXCEPT !.verified = TRUE, !.token = IF held[r] = None THEN @ ELSE None]
    IN  /\ pc[r] = "linking"
        /\ Still(r)
        /\ obj[r].google \/ Linked \subseteq {a}
        /\ user' = [user EXCEPT ![a] = IF row.provider = "email" THEN freed ELSE row]
        /\ held' = [held EXCEPT ![r] = None]
        /\ Goto(r, "recording")
        /\ UNCHANGED <<resets, cool, obj, at, mailed, history>>

----------------------------------------------------------------------------
(* The password-reset link *)

ForgotLooks(r, a) ==
    /\ Begins(r, "forgot")
    /\ IF ~ Exists(a)
       THEN Refused(r)
       ELSE /\ Loads(r, a)
            /\ Goto(r, "forgot")
            /\ UNCHANGED <<database, cool, held, at, mailed, history>>

LinksOf(i) == {x \in resets : x.id = i}

\* Mutant of Remaining: the previous links are not removed.
RemainingAll(i) == resets

Remaining(i) == resets \ LinksOf(i)

\* delete_user_tokens, in a transaction of its own.
ForgotClears(r) ==
    /\ pc[r] = "forgot"
    /\ resets' = Remaining(obj[r].id)
    /\ cause' = cause \ {Blame("crossed", obj[r].id)}
    /\ Goto(r, "cleared")
    /\ UNCHANGED <<user, cool, obj, held, at, mailed, newest, proven, signed, welcomed, uses,
                   late,
                   recent, spam>>

\* The new link; the foreign key asks for the account.
ForgotInserts(r) ==
    LET i == obj[r].id
    IN  /\ pc[r] = "cleared"
        /\ Still(r)
        /\ resets' = resets \cup {[token |-> r, id |-> i]}
        /\ cause' = IF \E q \in At({"cleared"}) \ {r} : obj[q].id = i
                    THEN cause \cup {Blame("crossed", i)} ELSE cause
        /\ Goto(r, "issued")
        /\ UNCHANGED <<user, cool, obj, held, at, mailed, newest, proven, signed, welcomed,
                       uses, late,
                       recent, spam>>

\* session.refresh raises if another request has removed the link: see Fails.
ForgotSends(r) ==
    /\ pc[r] = "issued"
    /\ [token |-> r, id |-> obj[r].id] \in resets
    /\ mailed' = mailed \cup {r}
    /\ Ends(r, "done")
    /\ UNCHANGED <<database, cool, history>>

\* The reset link and its account are loaded.
ResetLooks(r, t) ==
    /\ Begins(r, "reset")
    /\ t \in mailed
    /\ \/ Refused(r)
       \/ \E a \in Addresses :
            /\ [token |-> t, id |-> user[a].id] \in resets
            /\ Loads(r, a)
            /\ held' = [held EXCEPT ![r] = t]
            /\ cause' = IF \E q \in At({"resetting", "used"}) : held[q] = t
                        THEN cause \cup {Blame("shared", t)} ELSE cause
            /\ Goto(r, "resetting")
            /\ UNCHANGED <<database, cool, at, mailed, newest, proven, signed, welcomed,
                           uses, late,
                           recent, spam>>

\* The new password is committed first ...
ResetCommits(r) ==
    /\ pc[r] = "resetting"
    /\ Still(r)
    /\ user' = [user EXCEPT ![obj[r].addr].password = TRUE]
    /\ uses' = [uses EXCEPT ![held[r]] = IF @ < 2 THEN @ + 1 ELSE @]
    /\ Goto(r, "used")
    /\ UNCHANGED <<resets, cool, obj, held, at, mailed, newest, proven, signed, welcomed,
                   late, recent,
                   spam, cause>>

\* Mutant of Spent: the link is kept.
SpentKept(r) == {}

Spent(r) == {[token |-> held[r], id |-> obj[r].id]}

\* ... and the link removed afterwards; if it is gone already, only a warning.
ResetDeletes(r) ==
    /\ pc[r] = "used"
    /\ resets' = resets \ Spent(r)
    /\ Ends(r, "done")
    /\ UNCHANGED <<user, cool, mailed, history>>

----------------------------------------------------------------------------
\* An administrator deletes the account, and its reset links go with it.
Delete(r, a) ==
    /\ Begins(r, "delete")
    /\ Exists(a)
    /\ user' = [user EXCEPT ![a] = Nobody]
    /\ resets' = resets \ LinksOf(user[a].id)
    /\ Ends(r, "done")
    /\ UNCHANGED <<cool, mailed, history>>

Active == At({"registering", "inserted", "sending", "verifying", "resending", "resent",
              "recording", "creating", "linking", "forgot", "cleared", "issued",
              "resetting", "used"})

Failed(r) ==
    IF pc[r] \in {"inserted", "sending", "resent"} THEN {Blame("unsent", obj[r].id)}
    ELSE IF pc[r] = "used" THEN {Blame("abandoned", held[r])}
    ELSE {}

\* A request ends with an error: a crash, a lost connection, a constraint, a row
\* that is gone.  What it has committed stays.
Fails(r) ==
    /\ r \in Active
    /\ cause' = cause \cup Failed(r)
    /\ late' = [late EXCEPT ![r] = FALSE]
    /\ Ends(r, "failed")
    /\ UNCHANGED <<database, cool, mailed, newest, proven, signed, welcomed, uses, recent,
                   spam>>

Register(r) == (\E a \in Addresses : RegisterLooks(r, a)) \/ RegisterInserts(r)
               \/ RegisterRefreshes(r) \/ RegisterSends(r)
Verify(r)   == (\E t \in Requests : VerifyLooks(r, t)) \/ VerifyCommits(r)
Resend(r)   == (\E w \in Workers, a \in Addresses : ResendLooks(r, w, a))
               \/ ResendCommits(r) \/ ResendSends(r)
SignIn(r)   == (\E a \in Addresses : LoginLooks(r, a) \/ GoogleLooks(r, a))
               \/ GoogleCreates(r) \/ GoogleLinks(r) \/ LoginRecords(r)
Forgot(r)   == (\E a \in Addresses : ForgotLooks(r, a)) \/ ForgotClears(r)
               \/ ForgotInserts(r) \/ ForgotSends(r)
ResetPassword(r) == (\E t \in Requests : ResetLooks(r, t)) \/ ResetCommits(r) \/ ResetDeletes(r)
Administer(r)    == \E a \in Addresses : Delete(r, a)

Next ==
    \/ \E r \in Requests : \/ Register(r) \/ Verify(r) \/ Resend(r) \/ SignIn(r)
                           \/ Forgot(r) \/ ResetPassword(r) \/ Administer(r) \/ Fails(r)
    \/ \E w \in Workers : TableCleared(w)
    \/ \E key \in Workers \X Addresses : CooldownEnds(key)

Spec == Init /\ [][Next]_vars

----------------------------------------------------------------------------
(* Properties *)

Stages == {"idle", "registering", "inserted", "sending", "verifying", "resending", "resent",
           "recording", "creating", "linking", "forgot", "cleared", "issued", "resetting",
           "used", "done", "failed"}

\* Every variable stays in the set it is declared over.
TypeOK ==
    /\ user \in [Addresses -> User]
    /\ resets \in SUBSET Reset
    /\ cool \in SUBSET (Workers \X Addresses)
    /\ pc \in [Requests -> Stages]
    /\ obj \in [Requests -> Loaded]
    /\ held \in [Requests -> Tokens]
    /\ at \in [Requests -> Workers \cup {None}]
    /\ mailed \in SUBSET Requests
    /\ newest \in [Ids -> Tokens]
    /\ proven \in SUBSET Ids
    /\ signed \in SUBSET Ids
    /\ welcomed \in SUBSET Ids
    /\ uses \in [Requests -> 0..2]
    /\ late \in [Requests -> BOOLEAN]
    /\ recent \in SUBSET (Workers \X Addresses)
    /\ spam \in SUBSET (Workers \X Addresses)
    /\ cause \in SUBSET Cause

\* An account that has been verified stays verified, whatever stale object
\* another request commits after it (services.py:143-146, 165-169).
VerificationIsKept ==
    [][\A a \in Addresses : user[a].verified /\ user'[a].id = user[a].id
                             => user'[a].verified]_vars

\* "do not hand them a valid JWT until email_verified is True" (api/auth.py:88-89):
\* an account is verified, and an access token for it leaves the server, at a sign-in
\* or in the answer to its registration, only if its own address has been confirmed,
\* by the link sent there or by Google, also when Google's address and the account's
\* differ.  It does not say by whom: an account that somebody registered with a
\* password and the owner of the address confirmed through Google keeps the password.
OnlyProvenSignIn ==
    /\ signed \cup welcomed \subseteq proven
    /\ \A a \in Addresses : user[a].verified => user[a].id \in proven

\* A reset link sets two passwords only if two requests used it at once, or one
\* failed between its two commits (services.py:378-382).
EveryReuseHasACause ==
    \A t \in Requests : uses[t] > 1 => {Blame("shared", t), Blame("abandoned", t)} \cap cause # {}

\* "Remove previous reset links" (services.py:332): an account has two live links
\* only if another request issued one while the last was being issued.
OneLiveLink ==
    \A i \in Ids : Cardinality(LinksOf(i)) > 1 => Blame("crossed", i) \in cause

\* Unverified accounts can use the newest link they were sent, once nothing is
\* under way, unless two links were replaced and sent in different orders or the
\* request that made the last one failed before it was sent (services.py:165-172).
NewestLinkWorks ==
    \A a \in Addresses :
        LET i == user[a].id
        IN  Exists(a) /\ ~ user[a].verified
            /\ (\A r \in At({"inserted", "sending", "resent"}) : obj[r].id # i)
            => \/ newest[i] = user[a].token
               \/ {Blame("late", i), Blame("unsent", i)} \cap cause # {}

\* "so the resend endpoint cannot be abused to spam" (services.py:72-73): one worker
\* resends twice within the cooldown only if the requests overlapped or its table
\* was cleared.
EverySpamHasACause ==
    \A key \in spam : {Blame("burst", key), Blame("cleared", key)} \cap cause # {}

\* "single-use verification/reset links" (main.py:89): a reset link sets one password.
ResetIsSingleUse == \A t \in Requests : uses[t] <= 1
============================================================================
