--------------------------- MODULE AccountsProofs ---------------------------
(***************************************************************************)
(* Proofs about Accounts and StartupMigration, for any number of requests, *)
(* addresses, workers and instances.                                       *)
(***************************************************************************)
EXTENDS StartupMigration, FiniteSetTheorems, TLAPS

USE AccountsAssumption DEF AccountsAssumption

----------------------------------------------------------------------------
(* Types                                                                   *)

\* What the invariants need to know of the types.
Shapes ==
    /\ user \in [Addresses -> User]
    /\ resets \subseteq Reset
    /\ pc \in [Requests -> Stages]
    /\ obj \in [Requests -> Loaded]
    /\ held \in [Requests -> Tokens]
    /\ DOMAIN at = Requests
    /\ mailed \subseteq Requests
    /\ DOMAIN newest = Ids
    /\ uses \in [Requests -> 0..2]
    /\ DOMAIN late = Requests

LEMMA UserUpdates ==
    ASSUME NEW u \in User, NEW t \in Tokens, NEW g \in BOOLEAN
    PROVE  /\ [u EXCEPT !.token = t] \in User
           /\ [u EXCEPT !.verified = TRUE] \in User
           /\ [u EXCEPT !.password = TRUE] \in User
           /\ [u EXCEPT !.google = g] \in User
           /\ Verified(u) \in User
  BY DEF User, Verified, Tokens

LEMMA LoadedUpdate ==
    ASSUME NEW o \in Loaded, NEW i \in Ids
    PROVE  [o EXCEPT !.id = i] \in Loaded
  BY DEF Loaded

LEMMA Constants ==
    /\ Nobody \in User /\ Unread \in Loaded /\ None \in Tokens
    /\ \A a \in Addresses : Grandfathered(a) \in User /\ Old(a) \in User
    /\ \A r \in Requests :
          /\ [id |-> r, provider |-> "email", verified |-> FALSE, token |-> r, google |-> FALSE,
              password |-> TRUE] \in User
          /\ [id |-> r, provider |-> "google", verified |-> TRUE, token |-> None, google |-> TRUE,
              password |-> FALSE] \in User
  BY DEF Nobody, Unread, Grandfathered, Old, User, Loaded, Tokens, Ids

LEMMA Objects ==
    ASSUME Shapes, NEW r \in Requests
    PROVE  /\ obj[r].addr \in Addresses \cup {None}
           /\ obj[r].id \in Ids \cup {None}
           /\ obj[r].google \in BOOLEAN
           /\ obj[r] \in Loaded
  BY DEF Shapes, Loaded

\* The refresh of a registration changes nothing of its object but the answer it will give.
LEMMA RereadObject ==
    ASSUME Shapes, NEW r \in Requests, RegisterRefreshes(r)
    PROVE  /\ obj' \in [Requests -> Loaded]
           /\ \A q \in Requests : obj'[q].id = obj[q].id /\ obj'[q].addr = obj[q].addr
  <1> DEFINE w == user[obj[r].addr].verified
  <1>1. obj[r].addr \in Addresses
    BY DEF RegisterRefreshes, Still
  <1>2. w \in BOOLEAN
    BY <1>1 DEF Shapes, User
  <1>3. obj' = [obj EXCEPT ![r] = [@ EXCEPT !.welcome = w]]
    BY DEF RegisterRefreshes
  <1> HIDE DEF w
  <1>4. \A o \in Loaded : LET o2 == [o EXCEPT !.welcome = w]
                         IN  o2 \in Loaded /\ o2.id = o.id /\ o2.addr = o.addr
    BY <1>2 DEF Loaded
  <1>5. QED
    BY <1>3, <1>4 DEF Shapes

LEMMA LoadsShape ==
    ASSUME Shapes, NEW r \in Requests, NEW a \in Addresses, Loads(r, a)
    PROVE  obj' \in [Requests -> Loaded]
  BY DEF Shapes, Loads, Loaded, User, Exists

LEMMA EndsShapes ==
    ASSUME Shapes, NEW r \in Requests, NEW p \in Stages, Ends(r, p)
    PROVE  /\ pc' \in [Requests -> Stages] /\ obj' \in [Requests -> Loaded]
           /\ held' \in [Requests -> Tokens] /\ DOMAIN at' = Requests
  BY Constants DEF Shapes, Ends, Goto

LEMMA RefusedShapes ==
    ASSUME Shapes, NEW r \in Requests, Refused(r)
    PROVE  Shapes'
  BY EndsShapes DEF Refused, Shapes, Stages, database, history

LEMMA RegisterShapes ==
    ASSUME Shapes, NEW r \in Requests, Register(r)
    PROVE  Shapes'
  <1>1. ASSUME NEW a \in Addresses, RegisterLooks(r, a) PROVE Shapes'
    BY <1>1, RefusedShapes, LoadsShape
       DEF RegisterLooks, Goto, Shapes, Stages, database, history
  <1>2. CASE RegisterInserts(r)
    <2>1. obj' \in [Requests -> Loaded]
      BY <1>2, LoadedUpdate, Objects DEF RegisterInserts, Shapes, Ids
    <2>2. user' \in [Addresses -> User]
      BY <1>2, Constants DEF RegisterInserts, Shapes
    <2>3. QED
      BY <1>2, <2>1, <2>2 DEF RegisterInserts, Goto, Shapes, Stages, history
  <1>3. CASE RegisterRefreshes(r)
    <2>1. held' \in [Requests -> Tokens]
      BY <1>3 DEF RegisterRefreshes, Still, Shapes, User
    <2>2. QED
      BY <1>3, <2>1, RereadObject
         DEF RegisterRefreshes, Goto, Shapes, Stages, database, history
  <1>4. CASE RegisterSends(r)
    BY <1>4, EndsShapes DEF RegisterSends, Sends, Shapes, Tokens, Stages, database
  <1>5. QED
    BY <1>1, <1>2, <1>3, <1>4 DEF Register

\* What a Google sign-in makes of a row.
LEMMA Linking ==
    ASSUME Shapes, NEW r \in Requests, GoogleLinks(r)
    PROVE  /\ obj[r].addr \in Addresses
           /\ user'[obj[r].addr] \in User
           /\ user' = [user EXCEPT ![obj[r].addr] = user'[obj[r].addr]]
           /\ user'[obj[r].addr].id = user[obj[r].addr].id
           /\ user[obj[r].addr].verified => user'[obj[r].addr].verified
           /\ user'[obj[r].addr].provider = user[obj[r].addr].provider
           /\ user[obj[r].addr].provider = "email" => user'[obj[r].addr].verified
           /\ user[obj[r].addr].provider # "email" =>
                 /\ user'[obj[r].addr].verified = user[obj[r].addr].verified
                 /\ user'[obj[r].addr].token = user[obj[r].addr].token
           /\ user'[obj[r].addr].token \in {user[obj[r].addr].token, None}
  <1> DEFINE a     == obj[r].addr
             g     == user[a].google \/ ~ obj[r].google
             row   == [user[a] EXCEPT !.google = g]
             tok   == IF held[r] = None THEN user[a].token ELSE None
             free1 == [row EXCEPT !.verified = TRUE]
             freed == [free1 EXCEPT !.token = tok]
  <1>1. a \in Addresses
    BY DEF GoogleLinks, Still
  <1>2. user[a] \in User /\ g \in BOOLEAN /\ tok \in Tokens
    BY <1>1 DEF Shapes, User, Tokens
  <1>3. row \in User /\ row.id = user[a].id /\ row.verified = user[a].verified
        /\ row.provider = user[a].provider /\ row.token = user[a].token
    BY <1>2 DEF User
  <1>4. free1 \in User /\ free1.id = row.id /\ free1.verified = TRUE
        /\ free1.provider = row.provider
    BY <1>3 DEF User
  <1>5. freed \in User /\ freed.id = row.id /\ freed.verified = TRUE
        /\ freed.provider = row.provider /\ freed.token = tok
    BY <1>2, <1>4 DEF User
  <1>6. user' = [user EXCEPT ![a] = IF row.provider = "email" THEN freed ELSE row]
    BY DEF GoogleLinks
  <1> HIDE DEF row, freed, tok, g, free1
  <1>7. user'[a] = IF row.provider = "email" THEN freed ELSE row
    BY <1>1, <1>6 DEF Shapes
  <1>8. QED
    BY <1>1, <1>3, <1>5, <1>6, <1>7 DEF tok

LEMMA VerifyShapes ==
    ASSUME Shapes, NEW r \in Requests, Verify(r)
    PROVE  Shapes'
  <1>1. ASSUME NEW t \in Requests, VerifyLooks(r, t) PROVE Shapes'
    BY <1>1, RefusedShapes, LoadsShape
       DEF VerifyLooks, Goto, Shapes, Stages, Tokens, database, history
  <1>2. CASE VerifyCommits(r)
    <2>1. user' \in [Addresses -> User]
      BY <1>2, UserUpdates DEF VerifyCommits, Shapes
    <2>2. QED
      BY <1>2, <2>1, EndsShapes DEF VerifyCommits, Shapes, Stages
  <1>3. QED
    BY <1>1, <1>2 DEF Verify

LEMMA ResendShapes ==
    ASSUME Shapes, NEW r \in Requests, Resend(r)
    PROVE  Shapes'
  <1>1. ASSUME NEW w \in Workers, NEW a \in Addresses, ResendLooks(r, w, a) PROVE Shapes'
    BY <1>1, RefusedShapes, LoadsShape
       DEF ResendLooks, Goto, Shapes, Stages, database, history
  <1>2. CASE ResendCommits(r)
    <2>1. user' \in [Addresses -> User]
      BY <1>2, UserUpdates DEF ResendCommits, Shapes, Tokens
    <2>2. QED
      BY <1>2, <2>1 DEF ResendCommits, Overtaken, Goto, Shapes, Stages, Tokens
  <1>3. CASE ResendSends(r)
    BY <1>3, EndsShapes DEF ResendSends, Sends, Shapes, Tokens, Stages, database
  <1>4. QED
    BY <1>1, <1>2, <1>3 DEF Resend

LEMMA SignInShapes ==
    ASSUME Shapes, NEW r \in Requests, SignIn(r)
    PROVE  Shapes'
  <1>1. ASSUME NEW a \in Addresses, LoginLooks(r, a) PROVE Shapes'
    BY <1>1, RefusedShapes, LoadsShape
       DEF LoginLooks, Goto, Shapes, Stages, database, history
  <1>2. ASSUME NEW e \in Addresses, GoogleLooks(r, e) PROVE Shapes'
    <2>1. CASE Matches(Lower[e]) = {}
      <3>1. Lower[e] \in Addresses
        OBVIOUS
      <3>2. QED
        BY <1>2, <2>1, <3>1, LoadsShape
           DEF GoogleLooks, Goto, Shapes, Stages, database, history
    <2>2. CASE Matches(Lower[e]) # {}
      <3>1. PICK a \in Matches(Lower[e]) :
                /\ Loads(r, a) /\ held' = [held EXCEPT ![r] = user[a].token]
        BY <1>2, <2>2 DEF GoogleLooks
      <3>2. a \in Addresses /\ user[a].token \in Tokens
        BY DEF Matches, Linked, Shapes, User
      <3>3. held' \in [Requests -> Tokens] /\ obj' \in [Requests -> Loaded]
        BY <3>1, <3>2, LoadsShape DEF Shapes
      <3>4. QED
        BY <1>2, <2>2, <3>3 DEF GoogleLooks, Goto, Shapes, Stages, database
    <2>3. QED
      BY <2>1, <2>2
  <1>3. CASE GoogleCreates(r)
    <2>1. obj' \in [Requests -> Loaded]
      BY <1>3, LoadedUpdate, Objects DEF GoogleCreates, Shapes, Ids
    <2>2. user' \in [Addresses -> User]
      BY <1>3, Constants DEF GoogleCreates, Shapes
    <2>3. QED
      BY <1>3, <2>1, <2>2 DEF GoogleCreates, Goto, Shapes, Stages
  <1>4. CASE GoogleLinks(r)
    <2>1. user' \in [Addresses -> User]
      BY <1>4, Linking DEF GoogleLinks, Shapes
    <2>2. QED
      BY <1>4, <2>1 DEF GoogleLinks, Goto, Shapes, Stages, Tokens, history
  <1>5. CASE LoginRecords(r)
    BY <1>5, EndsShapes DEF LoginRecords, Shapes, Stages, database
  <1>6. QED
    BY <1>1, <1>2, <1>3, <1>4, <1>5 DEF SignIn

LEMMA ForgotShapes ==
    ASSUME Shapes, NEW r \in Requests, Forgot(r)
    PROVE  Shapes'
  <1>1. ASSUME NEW a \in Addresses, ForgotLooks(r, a) PROVE Shapes'
    BY <1>1, RefusedShapes, LoadsShape
       DEF ForgotLooks, Goto, Shapes, Stages, database, history
  <1>2. CASE ForgotClears(r)
    BY <1>2 DEF ForgotClears, Remaining, Goto, Shapes, Stages
  <1>3. CASE ForgotInserts(r)
    <2>1. [token |-> r, id |-> obj[r].id] \in Reset
      BY <1>3, Objects DEF ForgotInserts, Still, Reset
    <2>2. QED
      BY <1>3, <2>1 DEF ForgotInserts, Goto, Shapes, Stages
  <1>4. CASE ForgotSends(r)
    BY <1>4, EndsShapes DEF ForgotSends, Shapes, Stages, database, history
  <1>5. QED
    BY <1>1, <1>2, <1>3, <1>4 DEF Forgot

LEMMA ResetShapes ==
    ASSUME Shapes, NEW r \in Requests, ResetPassword(r)
    PROVE  Shapes'
  <1>1. ASSUME NEW t \in Requests, ResetLooks(r, t) PROVE Shapes'
    BY <1>1, RefusedShapes, LoadsShape
       DEF ResetLooks, Goto, Shapes, Stages, Tokens, database, history
  <1>2. CASE ResetCommits(r)
    <2>1. user' \in [Addresses -> User]
      BY <1>2, UserUpdates DEF ResetCommits, Shapes
    <2>2. uses' \in [Requests -> 0..2]
      <3>1. held[r] \in Requests => (IF uses[held[r]] < 2 THEN uses[held[r]] + 1 ELSE uses[held[r]]) \in 0..2
        BY DEF Shapes
      <3>2. uses' = [uses EXCEPT ![held[r]] = IF uses[held[r]] < 2 THEN uses[held[r]] + 1
                                              ELSE uses[held[r]]]
        BY <1>2 DEF ResetCommits
      <3>3. QED
        BY <3>1, <3>2 DEF Shapes
    <2>3. QED
      BY <1>2, <2>1, <2>2 DEF ResetCommits, Goto, Shapes, Stages
  <1>3. CASE ResetDeletes(r)
    BY <1>3, EndsShapes DEF ResetDeletes, Shapes, Stages, history
  <1>4. QED
    BY <1>1, <1>2, <1>3 DEF ResetPassword

LEMMA RestShapes ==
    ASSUME Shapes,
           \/ \E r \in Requests : Administer(r) \/ Fails(r)
           \/ \E w \in Workers : TableCleared(w)
           \/ \E key \in Workers \X Addresses : CooldownEnds(key)
    PROVE  Shapes'
  <1>1. ASSUME NEW r \in Requests, NEW a \in Addresses, Delete(r, a) PROVE Shapes'
    <2>1. user' \in [Addresses -> User]
      BY <1>1, Constants DEF Delete, Shapes
    <2>2. QED
      BY <1>1, <2>1, EndsShapes DEF Delete, Shapes, Stages, history
  <1>2. ASSUME NEW r \in Requests, Fails(r) PROVE Shapes'
    BY <1>2, EndsShapes DEF Fails, Shapes, Stages, database
  <1>3. ASSUME NEW w \in Workers, TableCleared(w) PROVE Shapes'
    BY <1>3 DEF TableCleared, Shapes, database, local
  <1>4. ASSUME NEW key \in Workers \X Addresses, CooldownEnds(key) PROVE Shapes'
    BY <1>4 DEF CooldownEnds, Shapes, database, local
  <1>5. QED
    BY <1>1, <1>2, <1>3, <1>4 DEF Administer

\* The migration touches users only in Migrates.
LEMMA MigrationLeaves ==
    ASSUME Migration
    PROVE  \/ UNCHANGED vars
           \/ \E i \in Instances : Migrates(i)
  BY
     DEF Migration, Starts, FindsMissing, Alters, MigrationFails, CreateLooks, Creates,
         Stops

LEMMA ShapesInductive ==
    ASSUME Shapes, [MNext]_allVars
    PROVE  Shapes'
  <1>1. CASE Next
    BY <1>1, RegisterShapes, VerifyShapes, ResendShapes, SignInShapes, ForgotShapes,
       ResetShapes,
       RestShapes DEF Next
  <1>2. ASSUME NEW i \in Instances, Migrates(i) PROVE Shapes'
    <2>1. user' \in [Addresses -> User]
      BY <1>2, UserUpdates, Constants DEF Migrates, Shapes
    <2>2. QED
      BY <1>2, <2>1 DEF Migrates, Shapes, local, history
  <1>3. CASE UNCHANGED vars
    BY <1>3 DEF vars, database, local, history, Shapes
  <1>4. QED
    BY <1>1, <1>2, <1>3, MigrationLeaves DEF MNext, allVars

LEMMA ShapesInitial == MInit => Shapes
  <1>1. ASSUME NEW rows \in [Addresses -> User], InitWith(rows) PROVE Shapes
    BY <1>1, Constants DEF InitWith, Shapes, Stages, Ids
  <1>2. \A b \in Addresses : /\ Before(b, Old(b)) \in [Addresses -> User]
                             /\ Before(b, Grandfathered(b)) \in [Addresses -> User]
    BY Constants DEF Before
  <1>3. Before(None, Nobody) \in [Addresses -> User]
    BY Constants DEF Before
  <1>4. QED
    BY <1>1, <1>2, <1>3 DEF MInit

----------------------------------------------------------------------------
(* Names                                                                   *)

\* Names are not used before their request has got that far, and no two accounts
\* have the same.
NameInv ==
    /\ \A a \in Addresses : /\ user[a].token \in Started \cup {None}
                            /\ user[a].id \in Started \cup Addresses \cup {None}
                            /\ ~ Exists(a) => user[a] = Nobody
    /\ \A a, b \in Addresses : Exists(a) /\ user[a].id = user[b].id => a = b
    /\ \A x \in resets : x.token \in Started
    /\ mailed \subseteq Started
    /\ \A q \in Requests : /\ held[q] \in Started \cup {None}
                           /\ obj[q].id \in Started \cup Addresses \cup {None}

LEMMA NameInitial == MInit => NameInv
  <1>1. ASSUME NEW rows \in [Addresses -> User], InitWith(rows),
               \A a \in Addresses : rows[a] = Nobody \/ (rows[a].id = a /\ rows[a].token = None)
        PROVE  NameInv
    BY <1>1 DEF InitWith, NameInv, Exists, Unread, Nobody
  <1>2. ASSUME NEW b \in Addresses
        PROVE  \A a \in Addresses :
                  /\ Before(b, Old(b))[a] = Nobody
                     \/ (Before(b, Old(b))[a].id = a /\ Before(b, Old(b))[a].token = None)
                  /\ Before(b, Grandfathered(b))[a] = Nobody
                     \/ (Before(b, Grandfathered(b))[a].id = a
                         /\ Before(b, Grandfathered(b))[a].token = None)
    BY DEF Before, Old, Grandfathered, Nobody
  <1>3. \A b \in Addresses : /\ Before(b, Old(b)) \in [Addresses -> User]
                             /\ Before(b, Grandfathered(b)) \in [Addresses -> User]
    BY Constants DEF Before
  <1>4. Before(None, Nobody) \in [Addresses -> User]
        /\ \A a \in Addresses : Before(None, Nobody)[a] = Nobody
    BY Constants DEF Before
  <1>5. QED
    BY <1>1, <1>2, <1>3, <1>4 DEF MInit

\* A request that has started stays started.
LEMMA StartedGrows ==
    ASSUME Shapes, [MNext]_allVars
    PROVE  Started \subseteq Started'
  <1> USE DEF Started, Early, Shapes, Goto
  <1>1. ASSUME NEW r \in Requests, Refused(r) PROVE Started \subseteq Started'
    BY <1>1 DEF Refused, Ends
  <1>2. ASSUME NEW r \in Requests, Register(r) \/ Verify(r) \/ Resend(r)
        PROVE  Started \subseteq Started'
    BY <1>1, <1>2
       DEF Register, RegisterLooks, RegisterInserts, RegisterRefreshes, RegisterSends,
       Sends, Verify, VerifyLooks, VerifyCommits, Resend, ResendLooks, ResendCommits, ResendSends,
       Ends, Begins
  <1>3. ASSUME NEW r \in Requests, SignIn(r) PROVE Started \subseteq Started'
    BY <1>1, <1>3
       DEF SignIn, LoginLooks, LoginRecords, GoogleLooks, GoogleCreates, GoogleLinks,
       Ends, Begins
  <1>4. ASSUME NEW r \in Requests, Forgot(r) \/ ResetPassword(r) \/ Administer(r) \/ Fails(r)
        PROVE  Started \subseteq Started'
    BY <1>1, <1>4
       DEF Forgot, ForgotLooks, ForgotClears, ForgotInserts, ForgotSends, ResetPassword,
       ResetLooks, ResetCommits, ResetDeletes, Administer, Delete, Fails, Ends, Begins
  <1>5. ASSUME UNCHANGED pc PROVE Started \subseteq Started'
    BY <1>5
  <1>6. QED
    BY <1>2, <1>3, <1>4, <1>5, MigrationLeaves
       DEF MNext, Next, allVars, vars, local, Migrates, TableCleared, CooldownEnds

LEMMA NameFrame ==
    ASSUME Shapes, NameInv, Started \subseteq Started', UNCHANGED user,
           \A x \in resets' : x \in resets \/ x.token \in Started',
           mailed' \subseteq mailed \cup Started,
           \A q \in Requests : /\ held'[q] \in Started' \cup {None}
                               /\ obj'[q].id \in Started' \cup Addresses \cup {None}
    PROVE  NameInv'
  BY DEF NameInv, Exists

\* What requests hold when one has loaded a row.
LEMMA LocalNames ==
    ASSUME Shapes, NameInv, NEW r \in Requests, NEW a \in Addresses,
           \/ Loads(r, a) /\ UNCHANGED held
           \/ Loads(r, a) /\ \E t \in mailed : held' = [held EXCEPT ![r] = t]
           \/ Loads(r, a) /\ \E b \in Addresses : held' = [held EXCEPT ![r] = user[b].token]
    PROVE  \A q \in Requests : /\ held'[q] \in Started \cup {None}
                               /\ obj'[q].id \in Started \cup Addresses \cup {None}
  BY DEF Loads, Shapes, NameInv

LEMMA NameFrameRows ==
    ASSUME Shapes, NameInv, Started \subseteq Started',
           \A b \in Addresses : /\ user'[b].id = user[b].id
                                /\ user'[b].token \in Started' \cup {None}
                                /\ ~ Exists(b) => user'[b] = Nobody,
           resets' \subseteq resets, mailed' = mailed,
           \A q \in Requests : /\ held'[q] \in Started' \cup {None}
                               /\ obj'[q].id \in Started' \cup Addresses \cup {None}
    PROVE  NameInv'
  <1>1. \A b \in Addresses : Exists(b)' <=> Exists(b)
    BY DEF Exists
  <1>2. \A a \in Addresses : /\ user'[a].token \in Started' \cup {None}
                             /\ user'[a].id \in Started' \cup Addresses \cup {None}
                             /\ ~ Exists(a)' => user'[a] = Nobody
    BY <1>1 DEF NameInv
  <1>3. \A a, b \in Addresses : Exists(a)' /\ user'[a].id = user'[b].id => a = b
    BY <1>1 DEF NameInv
  <1>4. \A x \in resets' : x.token \in Started'
    BY DEF NameInv
  <1>5. mailed' \subseteq Started'
    BY DEF NameInv
  <1>6. QED
    BY <1>2, <1>3, <1>4, <1>5 DEF NameInv, Nobody

LEMMA LoadedNames ==
    ASSUME Shapes, NameInv, Started \subseteq Started', UNCHANGED <<user, resets, mailed>>,
           NEW r \in Requests, NEW a \in Addresses,
           \/ Loads(r, a) /\ UNCHANGED held
           \/ Loads(r, a) /\ \E t \in mailed : held' = [held EXCEPT ![r] = t]
           \/ Loads(r, a) /\ \E b \in Addresses : held' = [held EXCEPT ![r] = user[b].token]
    PROVE  NameInv'
  <1>1. \A q \in Requests : /\ held'[q] \in Started \cup {None}
                            /\ obj'[q].id \in Started \cup Addresses \cup {None}
    BY LocalNames
  <1>2. QED
    BY <1>1, NameFrame DEF NameInv

\* Some address, for the requests that have none.
LEMMA Somewhere ==
    ASSUME Shapes, NEW r \in Requests, Still(r)
    PROVE  /\ obj[r].addr \in Addresses /\ Exists(obj[r].addr)
           /\ user[obj[r].addr].id = obj[r].id
  BY DEF Still, Exists

LEMMA NameInductive ==
    ASSUME Shapes, NameInv, [MNext]_allVars
    PROVE  NameInv'
  <1>0. Started \subseteq Started'
    BY StartedGrows
  <1>1. ASSUME NEW r \in Requests,
               \/ \E a \in Addresses : RegisterLooks(r, a) \/ LoginLooks(r, a) \/ ForgotLooks(r, a)
               \/ \E t \in Requests : VerifyLooks(r, t) \/ ResetLooks(r, t)
               \/ \E w \in Workers, a \in Addresses : ResendLooks(r, w, a)
        PROVE  NameInv'
    <2>1. UNCHANGED <<user, resets, mailed>>
      BY <1>1
         DEF RegisterLooks, LoginLooks, ForgotLooks, VerifyLooks, ResetLooks, ResendLooks,
                  Refused, database
    <2>2. \/ Refused(r)
          \/ \E b \in Addresses : \/ Loads(r, b) /\ UNCHANGED held
                                  \/ Loads(r, b) /\ \E t \in mailed : held' = [held EXCEPT ![r] = t]
      BY <1>1
         DEF RegisterLooks, LoginLooks, ForgotLooks, VerifyLooks, ResetLooks, ResendLooks
    <2>3. CASE Refused(r)
      <3>1. \A q \in Requests : /\ held'[q] \in Started \cup {None}
                                /\ obj'[q].id \in Started \cup Addresses \cup {None}
        BY <2>3 DEF Refused, Ends, Unread, Shapes, NameInv
      <3>2. QED
        BY <1>0, <2>1, <3>1, NameFrame DEF NameInv
    <2>4. QED
      BY <1>0, <2>1, <2>2, <2>3, LoadedNames
  <1>2. ASSUME NEW r \in Requests, NEW e \in Addresses, GoogleLooks(r, e) PROVE NameInv'
    <2>1. UNCHANGED <<user, resets, mailed>>
      BY <1>2 DEF GoogleLooks, database
    <2>2. \E b \in Addresses :
              \/ Loads(r, b) /\ UNCHANGED held
              \/ Loads(r, b) /\ held' = [held EXCEPT ![r] = user[b].token]
      BY <1>2 DEF GoogleLooks, Matches, Linked
    <2>3. QED
      BY <1>0, <2>1, <2>2, LoadedNames
  <1>3. ASSUME NEW r \in Requests, LoginRecords(r) \/ Fails(r)
        PROVE  NameInv'
    <2>1. UNCHANGED <<user, resets, mailed>> /\ \E p : Ends(r, p)
      BY <1>3 DEF LoginRecords, Fails, database
    <2>2. \A q \in Requests : /\ held'[q] \in Started \cup {None}
                              /\ obj'[q].id \in Started \cup Addresses \cup {None}
      BY <2>1 DEF Ends, Unread, Shapes, NameInv
    <2>3. QED
      BY <1>0, <2>1, <2>2, NameFrame DEF NameInv
  <1>4. ASSUME NEW r \in Requests,
               RegisterSends(r) \/ ResendSends(r) \/ ForgotSends(r) \/ ResetDeletes(r)
        PROVE  NameInv'
    <2>1. /\ UNCHANGED user /\ resets' \subseteq resets /\ mailed' \subseteq mailed \cup Started
      BY <1>4
         DEF RegisterSends, ResendSends, Sends, ForgotSends, ResetDeletes, database,
             NameInv,
                  Started, Early, Shapes
    <2>2. \A q \in Requests : /\ held'[q] \in Started \cup {None}
                              /\ obj'[q].id \in Started \cup Addresses \cup {None}
      BY <1>4
         DEF RegisterSends, ResendSends, Sends, ForgotSends, ResetDeletes, Ends, Unread,
                  Shapes, NameInv
    <2>3. QED
      BY <1>0, <2>1, <2>2, NameFrame DEF NameInv
  <1>5. ASSUME NEW r \in Requests, RegisterRefreshes(r) PROVE NameInv'
    <2>1. held' = [held EXCEPT ![r] = user[obj[r].addr].token] /\ obj[r].addr \in Addresses
          /\ UNCHANGED <<user, resets, mailed>>
      BY <1>5, Somewhere DEF RegisterRefreshes, database
    <2>2. \A q \in Requests : /\ held'[q] \in Started \cup {None}
                              /\ obj'[q].id \in Started \cup Addresses \cup {None}
      BY <1>5, <2>1, RereadObject DEF NameInv, Shapes
    <2>3. QED
      BY <1>0, <2>1, <2>2, NameFrame DEF NameInv
  <1>6. ASSUME NEW r \in Requests, ForgotClears(r) \/ ForgotInserts(r) PROVE NameInv'
    <2>1. r \in Started' \/ UNCHANGED resets \/ resets' \subseteq resets
      BY <1>6 DEF ForgotClears, Remaining, ForgotInserts, Goto, Started, Early, Shapes
    <2>2. \A x \in resets' : x \in resets \/ (x.token = r /\ r \in Started')
      BY <1>6 DEF ForgotClears, Remaining, ForgotInserts, Goto, Started, Early, Shapes
    <2>3. UNCHANGED <<user, mailed, held, obj>>
      BY <1>6 DEF ForgotClears, ForgotInserts
    <2>4. QED
      BY <1>0, <2>2, <2>3, NameFrame DEF NameInv
  <1>7. ASSUME NEW r \in Requests,
               RegisterInserts(r) \/ GoogleCreates(r)
        PROVE  NameInv'
    <2> DEFINE a == obj[r].addr
    <2>1. /\ r \in Started' /\ r \notin Started
          /\ obj' = [obj EXCEPT ![r].id = r]
          /\ UNCHANGED <<resets, mailed, held>>
      BY <1>7 DEF RegisterInserts, GoogleCreates, Goto, Started, Early, Shapes
    <2>2. /\ ~ Exists(a) /\ \E u \in User : u.id = r /\ u.token \in {r, None}
                                           /\ user' = [user EXCEPT ![a] = u]
      BY <1>7, Constants DEF RegisterInserts, GoogleCreates
    <2>3. obj'[r].id = r /\ \A q \in Requests \ {r} : obj'[q] = obj[q]
      BY <2>1, Objects DEF Shapes, Loaded
    <2> HIDE DEF a
    <2>4. \A b \in Addresses : user'[b] = user[b] \/ (b = a /\ user'[b].id = r
                                                        /\ user'[b].token \in {r, None})
      BY <2>2 DEF Shapes
    <2>5. QED
      BY <1>0, <2>1, <2>3, <2>4 DEF NameInv, Exists
  <1>8. ASSUME NEW r \in Requests, VerifyCommits(r) \/ ResetCommits(r) PROVE NameInv'
    <2>1. obj[r].addr \in Addresses /\ Exists(obj[r].addr)
      BY <1>8, Somewhere DEF VerifyCommits, ResetCommits
    <2>2. \A b \in Addresses : /\ user'[b].id = user[b].id
                               /\ user'[b].token \in {user[b].token, None}
                               /\ ~ Exists(b) => user'[b] = user[b]
      <3>1. \A u \in User :
               /\ Verified(u).id = u.id /\ Verified(u).token = None
               /\ [u EXCEPT !.password = TRUE].id = u.id
               /\ [u EXCEPT !.password = TRUE].token = u.token
        BY DEF Verified, User
      <3>2. CASE user' = [user EXCEPT ![obj[r].addr] = Verified(user[obj[r].addr])]
        BY <2>1, <3>1, <3>2 DEF Shapes
      <3>3. CASE user' = [user EXCEPT ![obj[r].addr].password = TRUE]
        BY <2>1, <3>1, <3>3 DEF Shapes
      <3>4. QED
        BY <1>8, <3>2, <3>3 DEF VerifyCommits, ResetCommits
    <2>3. UNCHANGED <<resets, mailed>>
      BY <1>8 DEF VerifyCommits, ResetCommits
    <2>4. \A q \in Requests : /\ held'[q] \in Started \cup {None}
                              /\ obj'[q].id \in Started \cup Addresses \cup {None}
      BY <1>8 DEF VerifyCommits, ResetCommits, Ends, Unread, Shapes, NameInv
    <2>5. QED
      BY <1>0, <2>2, <2>3, <2>4, NameFrameRows DEF NameInv
  <1>9. ASSUME NEW r \in Requests, ResendCommits(r) PROVE NameInv'
    <2>1. /\ obj[r].addr \in Addresses /\ Exists(obj[r].addr) /\ r \in Started'
          /\ user' = [user EXCEPT ![obj[r].addr].token = r]
          /\ held' = [held EXCEPT ![r] = r] /\ UNCHANGED <<resets, mailed, obj>>
      BY <1>9, Somewhere DEF ResendCommits, Goto, Started, Early, Shapes
    <2>2. \A b \in Addresses : /\ user'[b].id = user[b].id
                               /\ user'[b].token \in {user[b].token, r}
                               /\ ~ Exists(b) => user'[b] = user[b]
      BY <2>1 DEF Shapes, User
    <2>3. QED
      BY <1>0, <2>1, <2>2 DEF NameInv, Exists, Shapes
  <1>10. ASSUME NEW r \in Requests, GoogleLinks(r) PROVE NameInv'
    <2>1. obj[r].addr \in Addresses /\ Exists(obj[r].addr)
      BY <1>10, Somewhere DEF GoogleLinks
    <2>2. \A b \in Addresses : /\ user'[b].id = user[b].id
                               /\ user'[b].token \in {user[b].token, None}
                               /\ ~ Exists(b) => user'[b] = user[b]
      BY <1>10, <2>1, Linking DEF Shapes
    <2>3. held' = [held EXCEPT ![r] = None] /\ UNCHANGED <<resets, mailed, obj>>
      BY <1>10 DEF GoogleLinks, history
    <2>4. QED
      BY <1>0, <2>2, <2>3, NameFrameRows DEF NameInv, Shapes
  <1>11. ASSUME NEW r \in Requests, NEW a \in Addresses, Delete(r, a) PROVE NameInv'
    <2>1. /\ user' = [user EXCEPT ![a] = Nobody] /\ resets' \subseteq resets
          /\ mailed' = mailed /\ Ends(r, "done")
      BY <1>11 DEF Delete
    <2>2. \A q \in Requests : /\ held'[q] \in Started \cup {None}
                              /\ obj'[q].id \in Started \cup Addresses \cup {None}
      BY <2>1 DEF Ends, Unread, Shapes, NameInv
    <2>3. QED
      BY <1>0, <2>1, <2>2 DEF NameInv, Exists, Nobody, Shapes
  <1>12. ASSUME NEW i \in Instances, Migrates(i) PROVE NameInv'
    <2>1. \A b \in Addresses : /\ user'[b].id = user[b].id
                               /\ user'[b].token = user[b].token
                               /\ ~ Exists(b) => user'[b] = Nobody
      <3>1. CASE added[i]
        <4>1. \A b \in Addresses :
                 user'[b] = IF Exists(b) THEN [user[b] EXCEPT !.verified = TRUE] ELSE Nobody
          BY <1>12, <3>1 DEF Migrates
        <4>2. \A u \in User : /\ [u EXCEPT !.verified = TRUE].id = u.id
                              /\ [u EXCEPT !.verified = TRUE].token = u.token
          BY DEF User
        <4>3. QED
          BY <4>1, <4>2 DEF Shapes, NameInv
      <3>2. CASE ~ added[i]
        <4>1. user' = user
          BY <1>12, <3>2 DEF Migrates
        <4>2. QED
          BY <4>1 DEF NameInv
      <3>3. QED
        BY <3>1, <3>2
    <2>2. UNCHANGED <<resets, mailed, held, obj>>
      BY <1>12 DEF Migrates, local
    <2>3. QED
      BY <1>0, <2>1, <2>2, NameFrameRows DEF NameInv
  <1>13. ASSUME \/ UNCHANGED vars
                \/ \E w \in Workers : TableCleared(w)
                \/ \E key \in Workers \X Addresses : CooldownEnds(key)
         PROVE  NameInv'
    <2>1. UNCHANGED <<user, resets, mailed, held, obj>>
      BY <1>13 DEF TableCleared, CooldownEnds, vars, database, local
    <2>2. QED
      BY <1>0, <2>1, NameFrame DEF NameInv
  <1>14. CASE \E r \in Requests : Register(r) \/ Verify(r) \/ Resend(r)
    BY <1>1, <1>4, <1>5, <1>7, <1>8, <1>9, <1>14 DEF Register, Verify, Resend
  <1>15. CASE \E r \in Requests : SignIn(r)
    BY <1>1, <1>2, <1>3, <1>7, <1>10, <1>15 DEF SignIn
  <1>16. CASE \E r \in Requests : Forgot(r) \/ ResetPassword(r)
    BY <1>1, <1>4, <1>6, <1>8, <1>16 DEF Forgot, ResetPassword
  <1>17. CASE \E r \in Requests : Administer(r) \/ Fails(r)
    BY <1>3, <1>11, <1>17 DEF Administer
  <1>18. QED
    BY <1>12, <1>13, <1>14, <1>15, <1>16, <1>17, MigrationLeaves DEF MNext, Next, allVars

----------------------------------------------------------------------------
(* What a step does to a row                                               *)

\* A row stays with its account, goes, or is made by a request that had no name
\* in use; an account that was verified stays so.
RowStep(a) ==
    \/ user'[a].id = user[a].id /\ (user[a].verified => user'[a].verified)
    \/ Exists(a) /\ user'[a] = Nobody
    \/ ~ Exists(a) /\ user'[a].id \in Requests \ Started

\* The steps that write rows of users.
LEMMA RowWriters ==
    ASSUME [MNext]_allVars
    PROVE  \/ UNCHANGED user
           \/ \E r \in Requests : RegisterInserts(r) \/ GoogleCreates(r)
           \/ \E r \in Requests : VerifyCommits(r) \/ ResendCommits(r) \/ ResetCommits(r)
           \/ \E r \in Requests : GoogleLinks(r)
           \/ \E r \in Requests, b \in Addresses : Delete(r, b)
           \/ \E i \in Instances : Migrates(i)
  <1>1. ASSUME NEW r \in Requests PROVE
          /\ Register(r) => RegisterInserts(r) \/ UNCHANGED user
          /\ Verify(r) => VerifyCommits(r) \/ UNCHANGED user
          /\ Resend(r) => ResendCommits(r) \/ UNCHANGED user
          /\ Forgot(r) => UNCHANGED user
          /\ ResetPassword(r) => ResetCommits(r) \/ UNCHANGED user
    BY
       DEF Register, RegisterLooks, RegisterRefreshes, RegisterSends, Verify, VerifyLooks,
           Resend,
           ResendLooks, ResendSends, Forgot, ForgotLooks, ForgotClears, ForgotInserts, ForgotSends,
           ResetPassword, ResetLooks, ResetDeletes, Refused, database
  <1>2. ASSUME NEW r \in Requests
        PROVE  SignIn(r) => GoogleCreates(r) \/ GoogleLinks(r) \/ UNCHANGED user
    BY DEF SignIn, LoginLooks, LoginRecords, GoogleLooks, Refused, database
  <1>3. ASSUME \/ \E r \in Requests : Fails(r)
               \/ \E w \in Workers : TableCleared(w)
               \/ \E key \in Workers \X Addresses : CooldownEnds(key)
               \/ UNCHANGED vars
        PROVE  UNCHANGED user
    BY <1>3 DEF Fails, TableCleared, CooldownEnds, vars, database
  <1>4. QED
    BY <1>1, <1>2, <1>3, MigrationLeaves DEF MNext, Next, allVars, Administer

LEMMA RowSteps ==
    ASSUME Shapes, NameInv, [MNext]_allVars, NEW a \in Addresses
    PROVE  RowStep(a)
  <1> USE DEF RowStep
  <1>1. CASE UNCHANGED user
    BY <1>1
  <1>2. ASSUME NEW r \in Requests, RegisterInserts(r) \/ GoogleCreates(r) PROVE RowStep(a)
    <2>1. /\ ~ Exists(obj[r].addr) /\ r \notin Started
          /\ \E u \in User : u.id = r /\ user' = [user EXCEPT ![obj[r].addr] = u]
      BY <1>2, Constants DEF RegisterInserts, GoogleCreates, Started, Early
    <2>2. QED
      BY <2>1 DEF Shapes
  <1>3. ASSUME NEW r \in Requests, VerifyCommits(r) \/ ResendCommits(r) \/ ResetCommits(r)
        PROVE  RowStep(a)
    <2>1. \A u \in User :
             /\ Verified(u).id = u.id /\ Verified(u).verified
             /\ [u EXCEPT !.token = r].id = u.id
             /\ [u EXCEPT !.token = r].verified = u.verified
             /\ [u EXCEPT !.password = TRUE].id = u.id
             /\ [u EXCEPT !.password = TRUE].verified = u.verified
      BY DEF Verified, User
    <2>2. CASE VerifyCommits(r)
      BY <2>1, <2>2 DEF VerifyCommits, Shapes
    <2>3. CASE ResendCommits(r)
      BY <2>1, <2>3 DEF ResendCommits, Shapes
    <2>4. CASE ResetCommits(r)
      BY <2>1, <2>4 DEF ResetCommits, Shapes
    <2>5. QED
      BY <1>3, <2>2, <2>3, <2>4
  <1>4. ASSUME NEW r \in Requests, GoogleLinks(r) PROVE RowStep(a)
    BY <1>4, Linking DEF Shapes
  <1>5. ASSUME NEW r \in Requests, NEW b \in Addresses, Delete(r, b) PROVE RowStep(a)
    BY <1>5 DEF Delete, Shapes
  <1>6. ASSUME NEW i \in Instances, Migrates(i) PROVE RowStep(a)
    <2>1. \A u \in User : /\ [u EXCEPT !.verified = TRUE].id = u.id
                          /\ [u EXCEPT !.verified = TRUE].verified
      BY DEF User
    <2>2. QED
      BY <1>6, <2>1 DEF Migrates, Shapes, NameInv
  <1>7. QED
    BY <1>1, <1>2, <1>3, <1>4, <1>5, <1>6, RowWriters

----------------------------------------------------------------------------
(* Turns                                                                   *)

\* A step of request r leaves the others where they are.
Alone(r) == \A q \in Requests \ {r} : /\ pc'[q] = pc[q] /\ held'[q] = held[q]
                                      /\ obj'[q] = obj[q] /\ at'[q] = at[q]

LEMMA Turns ==
    ASSUME Shapes, NEW r \in Requests,
           \/ Register(r) \/ Verify(r) \/ Resend(r) \/ SignIn(r)
           \/ Forgot(r) \/ ResetPassword(r) \/ Administer(r) \/ Fails(r)
    PROVE  Alone(r)
  <1> USE DEF Alone, Shapes, Goto, Loads
  <1>1. ASSUME NEW p, Ends(r, p) PROVE Alone(r)
    BY <1>1 DEF Ends
  <1>2. CASE Register(r)
    BY <1>1, <1>2
       DEF Register, RegisterLooks, RegisterInserts, RegisterRefreshes, RegisterSends,
       Sends, Refused, database
  <1>3. CASE Verify(r)
    BY <1>1, <1>3 DEF Verify, VerifyLooks, VerifyCommits, Refused
  <1>4. CASE Resend(r)
    BY <1>1, <1>4 DEF Resend, ResendLooks, ResendCommits, ResendSends, Sends, Refused
  <1>5. CASE SignIn(r)
    BY <1>1, <1>5
       DEF SignIn, LoginLooks, LoginRecords, GoogleLooks, GoogleCreates, GoogleLinks,
       Refused
  <1>6. CASE Forgot(r)
    <2>1. CASE \E a \in Addresses : ForgotLooks(r, a)
      BY <1>1, <2>1 DEF ForgotLooks, Refused
    <2>2. CASE ForgotClears(r) \/ ForgotInserts(r)
      BY <2>2 DEF ForgotClears, ForgotInserts
    <2>3. CASE ForgotSends(r)
      BY <1>1, <2>3 DEF ForgotSends
    <2>4. QED
      BY <1>6, <2>1, <2>2, <2>3 DEF Forgot
  <1>7. CASE ResetPassword(r)
    <2>1. ASSUME NEW t \in Requests, ResetLooks(r, t) PROVE Alone(r)
      <3>1. CASE Refused(r)
        BY <1>1, <3>1 DEF Refused
      <3>2. CASE ~ Refused(r)
        <4>1. PICK a \in Addresses : Loads(r, a)
          BY <2>1, <3>2 DEF ResetLooks
        <4>2. held' = [held EXCEPT ![r] = t] /\ Goto(r, "resetting") /\ UNCHANGED at
          BY <2>1, <3>2 DEF ResetLooks
        <4>3. QED
          BY <4>1, <4>2
      <3>3. QED
        BY <3>1, <3>2
    <2>2. CASE ResetCommits(r)
      <3>1. Goto(r, "used") /\ UNCHANGED <<held, obj, at>>
        BY <2>2 DEF ResetCommits
      <3>2. QED
        BY <3>1
    <2>3. CASE ResetDeletes(r)
      BY <1>1, <2>3 DEF ResetDeletes
    <2>4. QED
      BY <1>7, <2>1, <2>2, <2>3 DEF ResetPassword
  <1>8. CASE Administer(r) \/ Fails(r)
    BY <1>1, <1>8 DEF Administer, Delete, Fails
  <1>9. QED
    BY <1>2, <1>3, <1>4, <1>5, <1>6, <1>7, <1>8

----------------------------------------------------------------------------
(* Reset links                                                             *)

Resetting == {"resetting", "used"}

Explained(t) == {Blame("shared", t), Blame("abandoned", t)} \cap cause # {}

\* EveryReuseHasACause and what it takes: while nothing explains another use, one
\* request at most works with a link, and a link that set a password is gone but
\* for the request that is about to remove it.
ReuseInv ==
    /\ \A x, y \in resets : x.token = y.token => x = y
    /\ \A q \in Requests, x \in resets :
          pc[q] \in Resetting /\ x.token = held[q] => x.id = obj[q].id
    /\ \A t \in Requests : uses[t] > 0 => t \in Started
    /\ \A t \in Requests : ~ Explained(t) =>
          /\ uses[t] <= 1
          /\ \A q, r \in Requests :
                pc[q] \in Resetting /\ pc[r] \in Resetting /\ held[q] = t /\ held[r] = t => q = r
          /\ uses[t] > 0 =>
                /\ \A q \in Requests : ~ (pc[q] = "resetting" /\ held[q] = t)
                /\ \A x \in resets : x.token = t =>
                      \E q \in Requests : pc[q] = "used" /\ held[q] = t

\* Steps that neither work with a link nor make one.
LEMMA ReuseFrame ==
    ASSUME Shapes, ReuseInv, Started \subseteq Started', UNCHANGED uses, resets' \subseteq resets,
           \A t \in Requests : Explained(t) => Explained(t)',
           \A q \in Requests :
              \/ pc[q] \notin Resetting /\ pc'[q] \notin Resetting
              \/ pc'[q] = pc[q] /\ held'[q] = held[q] /\ obj'[q] = obj[q]
    PROVE  ReuseInv'
  BY DEF ReuseInv, Resetting

\* What explains a second use is never forgotten.
LEMMA ExplainedStays ==
    ASSUME [MNext]_allVars, NEW t \in Requests
    PROVE  Explained(t) => Explained(t)'
  <1> USE DEF Explained, Blame
  <1>1. ASSUME NEW r \in Requests, Register(r) \/ Verify(r) \/ Resend(r)
        PROVE  Explained(t) => Explained(t)'
    <2>1. CASE RegisterSends(r) \/ ResendSends(r)
      BY <2>1 DEF RegisterSends, ResendSends, Sends
    <2>2. CASE \E w \in Workers, a \in Addresses : ResendLooks(r, w, a)
      BY <2>2 DEF ResendLooks, Refused, history
    <2>3. CASE Register(r) /\ ~ RegisterSends(r)
      BY <2>3
         DEF Register, RegisterLooks, RegisterInserts, RegisterRefreshes, Refused, history
    <2>4. CASE Verify(r) \/ ResendCommits(r)
      BY <2>4 DEF Verify, VerifyLooks, VerifyCommits, ResendCommits, Refused, history
    <2>5. QED
      BY <1>1, <2>1, <2>2, <2>3, <2>4 DEF Resend
  <1>2. ASSUME NEW r \in Requests, SignIn(r) PROVE Explained(t) => Explained(t)'
    BY <1>2 DEF SignIn, LoginLooks, LoginRecords, GoogleLooks, GoogleCreates, GoogleLinks,
       Refused, history
  <1>3. ASSUME NEW r \in Requests, Forgot(r) \/ ResetPassword(r) \/ Administer(r) \/ Fails(r)
        PROVE  Explained(t) => Explained(t)'
    BY <1>3
       DEF Forgot, ForgotLooks, ForgotClears, ForgotInserts, ForgotSends, ResetPassword,
       ResetLooks, ResetCommits, ResetDeletes, Administer, Delete, Fails, Refused, history
  <1>4. ASSUME NEW w \in Workers, TableCleared(w) PROVE Explained(t) => Explained(t)'
    BY <1>4 DEF TableCleared
  <1>5. ASSUME NEW key \in Workers \X Addresses, CooldownEnds(key)
        PROVE  Explained(t) => Explained(t)'
    BY <1>5 DEF CooldownEnds
  <1>6. CASE UNCHANGED cause
    BY <1>6
  <1>7. QED
    BY <1>1, <1>2, <1>3, <1>4, <1>5, <1>6, MigrationLeaves
       DEF MNext, Next, allVars, vars, history, Migrates

LEMMA ReuseInitial == MInit => ReuseInv
  BY DEF MInit, InitWith, ReuseInv, Resetting

LEMMA ReuseInductive ==
    ASSUME Shapes, NameInv, ReuseInv, [MNext]_allVars
    PROVE  ReuseInv'
  <1>0. Started \subseteq Started' /\ \A t \in Requests : Explained(t) => Explained(t)'
    BY StartedGrows, ExplainedStays
  <1>1. ASSUME NEW r \in Requests,
               \/ Register(r) \/ Verify(r) \/ Resend(r) \/ SignIn(r) \/ Administer(r)
        PROVE  ReuseInv'
    <2>1. Alone(r)
      BY <1>1, Turns
    <2>2. pc[r] \notin Resetting /\ pc'[r] \notin Resetting
      BY <1>1
         DEF Register, RegisterLooks, RegisterInserts, RegisterRefreshes, RegisterSends,
         Sends, Verify, VerifyLooks, VerifyCommits, Resend, ResendLooks, ResendCommits, ResendSends,
         SignIn, LoginLooks, LoginRecords, GoogleLooks, GoogleCreates, GoogleLinks, Administer,
         Delete, Refused, Ends, Begins, Goto, Resetting, Shapes
    <2>3. UNCHANGED uses /\ resets' \subseteq resets
      BY <1>1
         DEF Register, RegisterLooks, RegisterInserts, RegisterRefreshes, RegisterSends,
         Sends, Verify, VerifyLooks, VerifyCommits, Resend, ResendLooks, ResendCommits, ResendSends,
         SignIn, LoginLooks, LoginRecords, GoogleLooks, GoogleCreates, GoogleLinks, Administer,
         Delete, Refused, database, history
    <2>4. QED
      BY <1>0, <2>1, <2>2, <2>3, ReuseFrame DEF Alone
  <1>2. ASSUME NEW r \in Requests, Forgot(r), ~ ForgotInserts(r) PROVE ReuseInv'
    <2>1. Alone(r)
      BY <1>2, Turns
    <2>2. pc[r] \notin Resetting /\ pc'[r] \notin Resetting
      BY <1>2
         DEF Forgot, ForgotLooks, ForgotClears, ForgotSends, Refused, Ends, Begins, Goto,
         Resetting, Shapes
    <2>3. UNCHANGED uses /\ resets' \subseteq resets
      BY <1>2
         DEF Forgot, ForgotLooks, ForgotClears, ForgotSends, Remaining, Refused, database,
         history
    <2>4. QED
      BY <1>0, <2>1, <2>2, <2>3, ReuseFrame DEF Alone
  <1>3. ASSUME NEW r \in Requests, ForgotInserts(r) PROVE ReuseInv'
    <2>1. /\ r \notin Started /\ pc[r] = "cleared" /\ pc' = [pc EXCEPT ![r] = "issued"]
          /\ resets' = resets \cup {[token |-> r, id |-> obj[r].id]}
          /\ UNCHANGED <<uses, held, obj>>
      BY <1>3 DEF ForgotInserts, Goto, Started, Early
    <2>2. uses[r] = 0 /\ \A q \in Requests : held[q] # r
      BY <2>1 DEF NameInv, ReuseInv, Shapes
    <2>3. \A x \in resets : x.token # r
      BY <2>1 DEF NameInv
    <2>4. \A q \in Requests : pc'[q] \in Resetting => pc'[q] = pc[q]
      BY <2>1 DEF Shapes, Resetting
    <2>5. \A q \in Requests : pc[q] = "used" => pc'[q] = "used"
      BY <2>1 DEF Shapes
    <2>6. \A x \in resets' : x \in resets \/ (x.token = r /\ x = [token |-> r, id |-> obj[r].id])
      BY <2>1
    <2>7. /\ \A x, y \in resets' : x.token = y.token => x = y
          /\ \A q \in Requests, x \in resets' :
                pc'[q] \in Resetting /\ x.token = held[q] => x.id = obj[q].id
      BY <2>2, <2>3, <2>4, <2>6 DEF ReuseInv
    <2>8. QED
      BY <1>0, <2>1, <2>2, <2>3, <2>4, <2>5, <2>6, <2>7 DEF ReuseInv, Resetting
  <1>4. ASSUME NEW r \in Requests, NEW t \in Requests, ResetLooks(r, t) PROVE ReuseInv'
    <2>1. CASE Refused(r)
      BY <1>0, <1>4, <2>1, ReuseFrame
         DEF ResetLooks, Refused, Ends, Begins, Goto, Resetting, Shapes, database, history
    <2>2. CASE ~ Refused(r)
      <3>1. PICK a \in Addresses : [token |-> t, id |-> user[a].id] \in resets /\ Loads(r, a)
        BY <1>4, <2>2 DEF ResetLooks
      <3>2. /\ pc[r] = "idle" /\ pc' = [pc EXCEPT ![r] = "resetting"]
            /\ held' = [held EXCEPT ![r] = t] /\ UNCHANGED <<uses, resets>>
            /\ \A q \in Requests : pc[q] \in Resetting /\ held[q] = t => Blame("shared", t) \in cause'
        BY <1>4, <2>2 DEF ResetLooks, Goto, Begins, At, Resetting, database
      <3>3. /\ pc'[r] = "resetting" /\ held'[r] = t /\ obj'[r].id = user[a].id
            /\ \A q \in Requests \ {r} : pc'[q] = pc[q] /\ held'[q] = held[q] /\ obj'[q] = obj[q]
        BY <3>1, <3>2 DEF Loads, Shapes
      <3>4. \A x \in resets : x.token = t => x.id = user[a].id
        BY <3>1 DEF ReuseInv
      <3>5. ~ Explained(t)' => /\ uses[t] = 0
                               /\ \A q \in Requests : pc[q] \in Resetting => held[q] # t
        BY <1>0, <3>1, <3>2 DEF ReuseInv, Explained, Resetting, Shapes
      <3>6. /\ \A x, y \in resets' : x.token = y.token => x = y
            /\ \A q \in Requests, x \in resets' :
                  pc'[q] \in Resetting /\ x.token = held'[q] => x.id = obj'[q].id
            /\ \A u \in Requests : uses'[u] > 0 => u \in Started'
        BY <1>0, <3>2, <3>3, <3>4 DEF ReuseInv
      <3>7. ASSUME NEW u \in Requests, ~ Explained(u)'
            PROVE  /\ uses'[u] <= 1
                   /\ \A p, q \in Requests : pc'[p] \in Resetting /\ pc'[q] \in Resetting
                                             /\ held'[p] = u /\ held'[q] = u => p = q
                   /\ uses'[u] > 0 =>
                        /\ \A q \in Requests : ~ (pc'[q] = "resetting" /\ held'[q] = u)
                        /\ \A x \in resets' : x.token = u =>
                              \E q \in Requests : pc'[q] = "used" /\ held'[q] = u
        <4>1. CASE u = t
          BY <1>0, <3>2, <3>3, <3>5, <3>7, <4>1 DEF ReuseInv
        <4>2. CASE u # t
          BY <1>0, <3>2, <3>3, <3>7, <4>2 DEF ReuseInv, Resetting
        <4>3. QED
          BY <4>1, <4>2
      <3>8. QED
        BY <3>6, <3>7 DEF ReuseInv
    <2>3. QED
      BY <2>1, <2>2
  <1>5. ASSUME NEW r \in Requests, ResetCommits(r) PROVE ReuseInv'
    <2>1. /\ pc[r] = "resetting" /\ pc' = [pc EXCEPT ![r] = "used"]
          /\ UNCHANGED <<resets, obj, held, cause>>
          /\ uses' = [uses EXCEPT ![held[r]] = IF uses[held[r]] < 2 THEN uses[held[r]] + 1
                                               ELSE uses[held[r]]]
      BY <1>5 DEF ResetCommits, Goto
    <2>2. pc'[r] = "used" /\ \A q \in Requests \ {r} : pc'[q] = pc[q]
      BY <2>1 DEF Shapes
    <2>3. held[r] \in Requests => held[r] \in Started
      BY DEF NameInv
    <2>4. \A t \in Requests \ {held[r]} : uses'[t] = uses[t]
      BY <2>1 DEF Shapes
    <2>5. held[r] \in Requests /\ ~ Explained(held[r]) => uses'[held[r]] = 1
      BY <2>1 DEF Shapes, ReuseInv
    <2>6. \A t \in Requests : Explained(t)' <=> Explained(t)
      BY <2>1 DEF Explained
    <2>7. QED
      BY <1>0, <2>1, <2>2, <2>3, <2>4, <2>5, <2>6 DEF ReuseInv, Resetting
  <1>6. ASSUME NEW r \in Requests, ResetDeletes(r) PROVE ReuseInv'
    <2>1. /\ pc[r] = "used" /\ resets' = resets \ {[token |-> held[r], id |-> obj[r].id]}
          /\ UNCHANGED <<uses, cause>>
      BY <1>6 DEF ResetDeletes, Spent, history
    <2>2. /\ pc'[r] = "done"
          /\ \A q \in Requests \ {r} : pc'[q] = pc[q] /\ held'[q] = held[q] /\ obj'[q] = obj[q]
      BY <1>6 DEF ResetDeletes, Ends, Goto, Shapes
    <2>3. \A x \in resets' : x \in resets /\ x.token # held[r]
      BY <2>1 DEF ReuseInv, Resetting, Reset, Shapes
    <2>4. \A t \in Requests : Explained(t)' <=> Explained(t)
      BY <2>1 DEF Explained
    <2>5. QED
      BY <1>0, <2>1, <2>2, <2>3, <2>4 DEF ReuseInv, Resetting
  <1>7. ASSUME NEW r \in Requests, Fails(r) PROVE ReuseInv'
    <2>1. UNCHANGED <<uses, resets>>
      BY <1>7 DEF Fails, database
    <2>2. /\ pc'[r] = "failed"
          /\ \A q \in Requests \ {r} : pc'[q] = pc[q] /\ held'[q] = held[q] /\ obj'[q] = obj[q]
      BY <1>7 DEF Fails, Ends, Goto, Shapes
    <2>3. \A t \in Requests : pc[r] = "used" /\ held[r] = t => Explained(t)'
      <3>1. pc[r] = "used" => Failed(r) = {Blame("abandoned", held[r])}
        BY DEF Failed
      <3>2. QED
        BY <1>7, <3>1 DEF Fails, Explained
    <2>4. ASSUME NEW t \in Requests, ~ Explained(t)'
          PROVE  /\ uses'[t] <= 1
                 /\ \A p, q \in Requests : pc'[p] \in Resetting /\ pc'[q] \in Resetting
                                           /\ held'[p] = t /\ held'[q] = t => p = q
                 /\ uses'[t] > 0 =>
                      /\ \A q \in Requests : ~ (pc'[q] = "resetting" /\ held'[q] = t)
                      /\ \A x \in resets' : x.token = t =>
                            \E q \in Requests : pc'[q] = "used" /\ held'[q] = t
      BY <1>0, <2>1, <2>2, <2>3, <2>4 DEF ReuseInv, Resetting
    <2>5. QED
      BY <1>0, <2>1, <2>2, <2>4 DEF ReuseInv, Resetting
  <1>8. CASE \/ \E w \in Workers : TableCleared(w)
             \/ \E key \in Workers \X Addresses : CooldownEnds(key)
             \/ \E i \in Instances : Migrates(i)
             \/ UNCHANGED vars
    <2>1. UNCHANGED <<resets, pc, held, obj, uses>>
      BY <1>8 DEF TableCleared, CooldownEnds, Migrates, vars, database, local, history
    <2>2. QED
      BY <1>0, <2>1, ReuseFrame
  <1>9. QED
    BY <1>1, <1>2, <1>3, <1>4, <1>5, <1>6, <1>7, <1>8, MigrationLeaves
       DEF MNext, Next, allVars, ResetPassword

----------------------------------------------------------------------------
(* Live links                                                              *)

\* OneLiveLink and what it takes: who is about to issue a link has removed the
\* others, unless two requests do so at once.
LinkInv ==
    \A i \in Ids : Blame("crossed", i) \notin cause =>
        /\ \A x, y \in LinksOf(i) : x = y
        /\ \A q \in Requests : pc[q] = "cleared" /\ obj[q].id = i => LinksOf(i) = {}

LEMMA LinkInitial == MInit => LinkInv
  BY DEF MInit, InitWith, LinkInv, LinksOf

LEMMA LinkFrame ==
    ASSUME Shapes, LinkInv, resets' \subseteq resets,
           \A i \in Ids : Blame("crossed", i) \in cause => Blame("crossed", i) \in cause',
           \A q \in Requests : pc'[q] = "cleared" => pc[q] = "cleared" /\ obj'[q] = obj[q]
    PROVE  LinkInv'
  BY DEF LinkInv, LinksOf

LEMMA LinkInductive ==
    ASSUME Shapes, LinkInv, [MNext]_allVars
    PROVE  LinkInv'
  <1>1. ASSUME NEW r \in Requests,
               \/ Register(r) \/ Verify(r) \/ Resend(r) \/ SignIn(r) \/ Administer(r)
        PROVE  LinkInv'
    <2>1. Alone(r)
      BY <1>1, Turns
    <2>2. pc'[r] # "cleared"
      BY <1>1
         DEF Register, RegisterLooks, RegisterInserts, RegisterRefreshes, RegisterSends,
         Sends, Verify, VerifyLooks, VerifyCommits, Resend, ResendLooks, ResendCommits, ResendSends,
         SignIn, LoginLooks, LoginRecords, GoogleLooks, GoogleCreates, GoogleLinks, Administer,
         Delete, Refused, Ends, Begins, Goto, Shapes
    <2>3. resets' \subseteq resets
      BY <1>1
         DEF Register, RegisterLooks, RegisterInserts, RegisterRefreshes, RegisterSends,
         Sends, Verify, VerifyLooks, VerifyCommits, Resend, ResendLooks, ResendCommits, ResendSends,
         SignIn, LoginLooks, LoginRecords, GoogleLooks, GoogleCreates, GoogleLinks, Administer,
         Delete, Refused, database
    <2>4. \A i \in Ids : Blame("crossed", i) \in cause => Blame("crossed", i) \in cause'
      <3>1. CASE RegisterSends(r) \/ ResendSends(r)
        BY <3>1 DEF RegisterSends, ResendSends, Sends, Blame
      <3>2. CASE Register(r) /\ ~ RegisterSends(r)
        BY <3>2
           DEF Register, RegisterLooks, RegisterInserts, RegisterRefreshes, Refused, history
      <3>3. CASE Resend(r) /\ ~ ResendSends(r)
        BY <3>3 DEF Resend, ResendLooks, ResendCommits, Refused, history
      <3>4. CASE Verify(r) \/ SignIn(r) \/ Administer(r)
        BY <3>4 DEF Verify, VerifyLooks, VerifyCommits, SignIn, LoginLooks, LoginRecords,
           GoogleLooks, GoogleCreates, GoogleLinks, Administer, Delete, Refused, history
      <3>5. QED
        BY <1>1, <3>1, <3>2, <3>3, <3>4
    <2>5. QED
      BY <2>1, <2>2, <2>3, <2>4, LinkFrame DEF Alone
  <1>2. ASSUME NEW r \in Requests,
               \/ \E a \in Addresses : ForgotLooks(r, a)
               \/ ForgotSends(r) \/ ResetPassword(r) \/ Fails(r)
        PROVE  LinkInv'
    <2>1. Alone(r)
      BY <1>2, Turns DEF Forgot
    <2>2. pc'[r] # "cleared"
      BY <1>2
         DEF ForgotLooks, ForgotSends, ResetPassword, ResetLooks, ResetCommits,
             ResetDeletes,
         Fails, Refused, Ends, Goto, Shapes
    <2>3. resets' \subseteq resets /\ cause \subseteq cause'
      BY <1>2
         DEF ForgotLooks, ForgotSends, ResetPassword, ResetLooks, ResetCommits,
             ResetDeletes,
         Fails, Refused, database, history
    <2>4. QED
      BY <2>1, <2>2, <2>3, LinkFrame DEF Alone
  <1>3. ASSUME NEW r \in Requests, ForgotClears(r) PROVE LinkInv'
    <2>1. /\ resets' = resets \ LinksOf(obj[r].id) /\ cause' = cause \ {Blame("crossed", obj[r].id)}
          /\ pc' = [pc EXCEPT ![r] = "cleared"] /\ obj' = obj
      BY <1>3 DEF ForgotClears, Remaining, Goto
    <2>2. \A i \in Ids : /\ i = obj[r].id => LinksOf(i)' = {}
                         /\ i # obj[r].id => /\ LinksOf(i)' = LinksOf(i)
                                             /\ Blame("crossed", i) \in cause
                                                   => Blame("crossed", i) \in cause'
      BY <2>1 DEF LinksOf, Blame
    <2>3. QED
      BY <2>1, <2>2 DEF LinkInv, Shapes
  <1>4. ASSUME NEW r \in Requests, ForgotInserts(r) PROVE LinkInv'
    <2> DEFINE n == [token |-> r, id |-> obj[r].id]
    <2>1. /\ resets' = resets \cup {n} /\ obj' = obj
          /\ pc[r] = "cleared" /\ pc' = [pc EXCEPT ![r] = "issued"]
          /\ cause \subseteq cause'
          /\ \A q \in Requests \ {r} :
                pc[q] = "cleared" /\ obj[q].id = obj[r].id => Blame("crossed", obj[r].id) \in cause'
      BY <1>4 DEF ForgotInserts, Goto, At
    <2>2. n.id = obj[r].id
      OBVIOUS
    <2> HIDE DEF n
    <2>3. \A i \in Ids : /\ i # obj[r].id => LinksOf(i)' = LinksOf(i)
                         /\ i = obj[r].id => LinksOf(i)' = LinksOf(i) \cup {n}
      BY <2>1, <2>2 DEF LinksOf
    <2>4. QED
      BY <2>1, <2>3 DEF LinkInv, Shapes
  <1>5. CASE \/ \E w \in Workers : TableCleared(w)
             \/ \E key \in Workers \X Addresses : CooldownEnds(key)
             \/ \E i \in Instances : Migrates(i)
             \/ UNCHANGED vars
    <2>1. UNCHANGED <<resets, pc, obj>>
      BY <1>5 DEF TableCleared, CooldownEnds, Migrates, vars, database, local
    <2>2. \A i \in Ids : Blame("crossed", i) \in cause => Blame("crossed", i) \in cause'
      BY <1>5 DEF TableCleared, CooldownEnds, Migrates, vars, history, Blame
    <2>3. QED
      BY <2>1, <2>2, LinkFrame
  <1>6. QED
    BY <1>1, <1>2, <1>3, <1>4, <1>5, MigrationLeaves DEF MNext, Next, allVars, Forgot

----------------------------------------------------------------------------
(* The cooldown                                                            *)

\* EverySpamHasACause and what it takes: while nothing explains more, a resend
\* within the cooldown is in the table, and one request at most is resending.
CooldownInv ==
    /\ \A key \in spam : \E w, a : key = <<w, a>>
    /\ \A w, a : Blame("burst", <<w, a>>) \notin cause =>
          /\ \A q, r \in Resending(w, a) : q = r
          /\ Blame("cleared", <<w, a>>) \notin cause =>
                /\ <<w, a>> \notin spam
                /\ <<w, a>> \in recent => <<w, a>> \in cool /\ Resending(w, a) = {}

LEMMA CooldownInitial == MInit => CooldownInv
  BY DEF MInit, InitWith, CooldownInv, Resending, At

LEMMA CooldownFrame ==
    ASSUME Shapes, CooldownInv, UNCHANGED <<cool, recent, spam>>,
           \A w, a : /\ Resending(w, a)' \subseteq Resending(w, a)
                     /\ \A kind \in {"burst", "cleared"} :
                           Blame(kind, <<w, a>>) \in cause => Blame(kind, <<w, a>>) \in cause'
    PROVE  CooldownInv'
  BY DEF CooldownInv

LEMMA ResendingFrame ==
    ASSUME Shapes, NEW r \in Requests, Alone(r),
           \/ pc'[r] \notin {"resending", "resent"}
           \/ /\ pc[r] \in {"resending", "resent"}
              /\ at'[r] = at[r] /\ obj'[r] = obj[r]
    PROVE  \A w, a : Resending(w, a)' \subseteq Resending(w, a)
  BY DEF Alone, Resending, At

LEMMA CooldownInductive ==
    ASSUME Shapes, CooldownInv, [MNext]_allVars
    PROVE  CooldownInv'
  <1>1. ASSUME NEW r \in Requests,
               \/ Register(r) \/ Verify(r) \/ SignIn(r) \/ Forgot(r) \/ ResetPassword(r)
               \/ Administer(r) \/ Fails(r)
        PROVE  CooldownInv'
    <2>1. Alone(r)
      BY <1>1, Turns
    <2>2. pc'[r] \notin {"resending", "resent"}
      <3>1. CASE Register(r) \/ Verify(r) \/ SignIn(r)
        BY <3>1
           DEF Register, RegisterLooks, RegisterInserts, RegisterRefreshes, RegisterSends,
           Sends, Verify, VerifyLooks, VerifyCommits, SignIn, LoginLooks, LoginRecords, GoogleLooks,
           GoogleCreates, GoogleLinks, Refused, Ends, Goto, Shapes
      <3>2. CASE Forgot(r) \/ ResetPassword(r) \/ Administer(r) \/ Fails(r)
        BY <3>2
           DEF Forgot, ForgotLooks, ForgotClears, ForgotInserts, ForgotSends, ResetPassword,
           ResetLooks, ResetCommits, ResetDeletes, Administer, Delete, Fails, Refused, Ends, Goto,
           Shapes
      <3>3. QED
        BY <1>1, <3>1, <3>2
    <2>3. UNCHANGED <<cool, recent, spam>>
      BY <1>1
         DEF Register, RegisterLooks, RegisterInserts, RegisterRefreshes, RegisterSends,
         Sends, Verify, VerifyLooks, VerifyCommits, SignIn, LoginLooks, LoginRecords, GoogleLooks,
         GoogleCreates, GoogleLinks, Forgot, ForgotLooks, ForgotClears, ForgotInserts, ForgotSends,
         ResetPassword, ResetLooks, ResetCommits, ResetDeletes, Administer, Delete, Fails, Refused,
         history
    <2>4. ASSUME NEW key, NEW kind \in {"burst", "cleared"}, Blame(kind, key) \in cause
          PROVE  Blame(kind, key) \in cause'
      <3>1. CASE RegisterSends(r)
        BY <2>4, <3>1 DEF RegisterSends, Sends, Blame
      <3>2. CASE ForgotClears(r)
        BY <2>4, <3>2 DEF ForgotClears, Blame
      <3>3. CASE Register(r) /\ ~ RegisterSends(r)
        BY <2>4, <3>3
           DEF Register, RegisterLooks, RegisterInserts, RegisterRefreshes, Refused,
           history
      <3>4. CASE Forgot(r) /\ ~ ForgotClears(r)
        BY <2>4, <3>4 DEF Forgot, ForgotLooks, ForgotInserts, ForgotSends, Refused, history
      <3>5. CASE Verify(r) \/ SignIn(r)
        BY <2>4, <3>5
           DEF Verify, VerifyLooks, VerifyCommits, SignIn, LoginLooks, LoginRecords,
           GoogleLooks, GoogleCreates, GoogleLinks, Refused, history
      <3>6. CASE ResetPassword(r) \/ Administer(r) \/ Fails(r)
        BY <2>4, <3>6
           DEF ResetPassword, ResetLooks, ResetCommits, ResetDeletes, Administer, Delete,
           Fails, Refused, history
      <3>7. QED
        BY <1>1, <3>1, <3>2, <3>3, <3>4, <3>5, <3>6
    <2>5. QED
      BY <2>1, <2>2, <2>3, <2>4, ResendingFrame, CooldownFrame
  <1>2. ASSUME NEW r \in Requests, NEW w \in Workers, NEW a \in Addresses, ResendLooks(r, w, a)
        PROVE  CooldownInv'
    <2>1. Alone(r)
      BY <1>2, Turns DEF Resend
    <2>2. CASE Refused(r)
      BY <2>1, <2>2, ResendingFrame, CooldownFrame DEF Refused, Ends, Goto, Shapes, history
    <2>3. CASE ~ Refused(r)
      <3>1. /\ <<w, a>> \notin cool /\ pc[r] = "idle" /\ pc' = [pc EXCEPT ![r] = "resending"]
            /\ obj'[r].addr = a /\ at'[r] = w
            /\ UNCHANGED <<cool, recent, spam>>
            /\ cause \subseteq cause'
            /\ Resending(w, a) # {} => Blame("burst", <<w, a>>) \in cause'
        BY <1>2, <2>3 DEF ResendLooks, Loads, Goto, Begins, Shapes, history
      <3>2. /\ Resending(w, a)' \subseteq Resending(w, a) \cup {r}
            /\ \A v, b :
                  <<v, b>> # <<w, a>> => Resending(v, b)' = Resending(v, b)
        BY <2>1, <3>1 DEF Alone, Resending, At, Shapes
      <3>3. QED
        BY <3>1, <3>2 DEF CooldownInv
    <2>4. QED
      BY <2>2, <2>3
  <1>3. ASSUME NEW r \in Requests, ResendCommits(r) PROVE CooldownInv'
    <2>1. Alone(r)
      BY <1>3, Turns DEF Resend
    <2>2. UNCHANGED <<cool, recent, spam, cause, at, obj>> /\ pc[r] = "resending"
      BY <1>3 DEF ResendCommits
    <2>3. QED
      BY <2>1, <2>2, ResendingFrame, CooldownFrame
  <1>4. ASSUME NEW r \in Requests, ResendSends(r) PROVE CooldownInv'
    <2> DEFINE key == <<at[r], obj[r].addr>>
    <2>1. Alone(r)
      BY <1>4, Turns DEF Resend
    <2>2. /\ cool' = cool \cup {key} /\ recent' = recent \cup {key}
          /\ spam' = IF key \in recent THEN spam \cup {key} ELSE spam
          /\ pc[r] = "resent" /\ pc'[r] = "done"
      BY <1>4 DEF ResendSends, Cooldown, Sends, Ends, Goto, Shapes
    <2>3. \A k : \A kind \in {"burst", "cleared"} :
             Blame(kind, k) \in cause => Blame(kind, k) \in cause'
      BY <1>4 DEF ResendSends, Sends, Blame
    <2>4. \A w, a :
          /\ Resending(w, a)' = Resending(w, a) \ {r}
          /\ key = <<w, a>> => r \in Resending(w, a)
      BY <2>1, <2>2 DEF Alone, Resending, At
    <2>5. \E w, a : key = <<w, a>>
      OBVIOUS
    <2> HIDE DEF key
    <2>6. QED
      BY <2>2, <2>3, <2>4, <2>5 DEF CooldownInv
  <1>5. ASSUME NEW key \in Workers \X Addresses, CooldownEnds(key) PROVE CooldownInv'
    <2>1. \A w, a : Resending(w, a)' = Resending(w, a)
      BY <1>5 DEF CooldownEnds, local, Resending, At
    <2>2. PICK w \in Workers, a \in Addresses : key = <<w, a>>
      OBVIOUS
    <2>3. /\ cool' = cool \ {key} /\ recent' = recent \ {key} /\ spam' = spam \ {key}
          /\ (\A q, r \in Resending(w, a) : q = r) \/ Blame("burst", key) \notin cause
                \/ Blame("burst", key) \in cause'
          /\ \A k : \A kind \in {"burst", "cleared"} :
                k # key /\ Blame(kind, k) \in cause => Blame(kind, k) \in cause'
      BY <1>5, <2>2 DEF CooldownEnds, Blame
    <2>4. QED
      BY <2>1, <2>2, <2>3 DEF CooldownInv
  <1>6. ASSUME NEW w \in Workers, TableCleared(w) PROVE CooldownInv'
    <2>1. /\ \A v, a : Resending(v, a)' = Resending(v, a)
          /\ UNCHANGED <<recent, spam>>
      BY <1>6 DEF TableCleared, local, Resending, At
    <2>2. /\ cause \subseteq cause'
          /\ \A k \in cool : k \in cool' \/ Blame("cleared", k) \in cause'
      BY <1>6 DEF TableCleared
    <2>3. QED
      BY <2>1, <2>2 DEF CooldownInv
  <1>7. CASE UNCHANGED vars \/ \E i \in Instances : Migrates(i)
    <2>1. UNCHANGED <<cool, recent, spam, cause, pc, at, obj>>
      BY <1>7 DEF Migrates, vars, local, history
    <2>2. QED
      BY <2>1, CooldownFrame DEF Resending, At
  <1>8. QED
    BY <1>1, <1>2, <1>3, <1>4, <1>5, <1>6, <1>7, MigrationLeaves
       DEF MNext, Next, allVars, Resend

----------------------------------------------------------------------------
(* The newest link                                                         *)

Mailing == {"inserted", "sending", "resent"}

\* Requests about to send a link to account i, and whether it is known that the
\* last link of i may not be the one of its row.
Senders(i) == {q \in At({"sending", "resent"}) : obj[q].id = i}
Excused(i) == {Blame("late", i), Blame("unsent", i)} \cap cause # {}

\* A link about to be sent and not overtaken is t.  While nothing explains the
\* contrary, the last link sent to i is t too, or a request is on its way to send it.
Promised(i, t) ==
    /\ \A q \in Senders(i) : late[q] \/ held[q] = t
    /\ \/ Excused(i)
       \/ newest[i] = t
       \/ \E q \in At({"inserted"}) : obj[q].id = i
       \/ \E q \in Senders(i) : ~ late[q]

NewestInv ==
    /\ late \in [Requests -> BOOLEAN]
    /\ \A q \in Requests : late[q] => pc[q] \in {"sending", "resent"}
    /\ \A a \in Addresses : Exists(a) /\ ~ user[a].verified =>
          Promised(user[a].id, user[a].token)

LEMMA NewestInitial == MInit => NewestInv
  <1>1. ASSUME NEW rows \in [Addresses -> User], InitWith(rows),
               \A a \in Addresses : rows[a] = Nobody \/ (rows[a].id = a /\ rows[a].token = None)
        PROVE  NewestInv
    BY <1>1 DEF InitWith, NewestInv, Promised, Senders, At, Exists, Nobody, Ids
  <1>2. ASSUME NEW b \in Addresses
        PROVE  \A a \in Addresses :
                  /\ Before(b, Old(b))[a] = Nobody
                     \/ (Before(b, Old(b))[a].id = a /\ Before(b, Old(b))[a].token = None)
                  /\ Before(b, Grandfathered(b))[a] = Nobody
                     \/ (Before(b, Grandfathered(b))[a].id = a
                         /\ Before(b, Grandfathered(b))[a].token = None)
    BY DEF Before, Old, Grandfathered, Nobody
  <1>3. \A b \in Addresses : /\ Before(b, Old(b)) \in [Addresses -> User]
                             /\ Before(b, Grandfathered(b)) \in [Addresses -> User]
    BY Constants DEF Before
  <1>4. Before(None, Nobody) \in [Addresses -> User]
        /\ \A a \in Addresses : Before(None, Nobody)[a] = Nobody
    BY Constants DEF Before
  <1>5. QED
    BY <1>1, <1>2, <1>3, <1>4 DEF MInit

\* An account that waits for its verification after the step waited before it, and
\* for the same link.
Quiet(a) == Exists(a)' /\ ~ user'[a].verified =>
    /\ Exists(a) /\ ~ user[a].verified
    /\ user'[a].id = user[a].id /\ user'[a].token = user[a].token

LEMMA NewestFrame ==
    ASSUME Shapes, NewestInv, UNCHANGED <<newest, late>>,
           \A a \in Addresses : Quiet(a),
           \A i \in Ids : Excused(i) => Excused(i)',
           \A q \in Requests :
              \/ pc'[q] = pc[q] /\ obj'[q] = obj[q] /\ held'[q] = held[q]
              \/ pc[q] \notin Mailing /\ pc'[q] \notin Mailing
    PROVE  NewestInv'
  <1>1. \A q \in Requests : late'[q] => pc'[q] \in {"sending", "resent"}
    BY DEF NewestInv, Mailing
  <1>2. \A i : /\ Senders(i)' = Senders(i)
               /\ \A q \in Senders(i) : held'[q] = held[q]
    BY DEF Senders, At, Mailing
  <1>3. \A q \in At({"inserted"}) : q \in At({"inserted"})' /\ obj'[q] = obj[q]
    BY DEF At, Mailing
  <1>4. ASSUME NEW i \in Ids, NEW t, Promised(i, t) PROVE Promised(i, t)'
    BY <1>2, <1>3, <1>4 DEF Promised
  <1>5. ASSUME NEW a \in Addresses, Exists(a)', ~ user'[a].verified
        PROVE  Promised(user[a].id, user[a].token)'
    <2>1. /\ Exists(a) /\ ~ user[a].verified
          /\ user'[a].id = user[a].id /\ user'[a].token = user[a].token
      BY <1>5 DEF Quiet
    <2>2. user[a].id \in Ids
      BY <2>1 DEF Exists, Shapes, User
    <2>3. QED
      BY <1>4, <2>1, <2>2 DEF NewestInv
  <1>6. late' \in [Requests -> BOOLEAN]
    BY DEF NewestInv
  <1>7. QED
    BY <1>1, <1>5, <1>6 DEF NewestInv

\* While the rows stay as they are, promises are kept or renewed.
LEMMA SameRows ==
    ASSUME Shapes, NewestInv, UNCHANGED user,
           late' \in [Requests -> BOOLEAN],
           \A q \in Requests : late'[q] => pc'[q] \in {"sending", "resent"},
           \A i \in Ids : \A t : Promised(i, t) => Promised(i, t)'
    PROVE  NewestInv'
  <1>1. ASSUME NEW a \in Addresses, Exists(a)', ~ user'[a].verified
        PROVE  Promised(user[a].id, user[a].token)'
    <2>1. Exists(a) /\ user'[a] = user[a] /\ user[a].id \in Ids
      BY <1>1 DEF Exists, Shapes, User
    <2>2. QED
      BY <1>1, <2>1 DEF NewestInv
  <1>2. QED
    BY <1>1 DEF NewestInv

\* A link is sent.
LEMMA NewestSends ==
    ASSUME Shapes, NameInv, NewestInv, NEW r \in Requests, Alone(r), Sends(r), UNCHANGED user,
           pc[r] \in {"sending", "resent"}
    PROVE  NewestInv'
  <1>1. /\ newest' = [newest EXCEPT ![obj[r].id] = held[r]]
        /\ late' = [late EXCEPT ![r] = FALSE]
        /\ pc'[r] = "done"
        /\ late[r] => Blame("late", obj[r].id) \in cause' /\ cause \subseteq cause'
        /\ \A i : i # obj[r].id /\ Excused(i) => Excused(i)'
    BY DEF Sends, Ends, Goto, Shapes, Excused, Blame
  <1>2. late' \in [Requests -> BOOLEAN] /\ \A q \in Requests \ {r} : late'[q] = late[q]
    BY <1>1 DEF NewestInv
  <1>3. \A i : /\ Senders(i)' = Senders(i) \ {r}
               /\ \A q \in Senders(i) \ {r} : q \in Requests /\ held'[q] = held[q]
               /\ r \in Senders(i) <=> i = obj[r].id
    BY <1>1 DEF Alone, Senders, At
  <1>4. At({"inserted"})' = At({"inserted"})
        /\ \A q \in At({"inserted"}) : obj'[q] = obj[q]
    BY <1>1 DEF Alone, At
  <1>5. ASSUME NEW i \in Ids, NEW t, Promised(i, t) PROVE Promised(i, t)'
    <2>1. \A q \in Senders(i)' : late'[q] \/ held'[q] = t
      BY <1>2, <1>3, <1>5 DEF Promised
    <2>2. CASE i = obj[r].id /\ late[r]
      BY <1>1, <2>1, <2>2 DEF Promised, Excused
    <2>3. CASE i = obj[r].id /\ ~ late[r]
      <3>1. newest'[i] = t
        BY <1>1, <1>3, <1>5, <2>3 DEF Promised, Shapes
      <3>2. QED
        BY <2>1, <3>1 DEF Promised
    <2>4. CASE i # obj[r].id
      <3>1. newest'[i] = newest[i] /\ r \notin Senders(i)
        BY <1>1, <1>3, <2>4 DEF Shapes
      <3>2. QED
        BY <1>1, <1>2, <1>3, <1>4, <1>5, <2>1, <2>4, <3>1 DEF Promised
    <2>5. QED
      BY <2>2, <2>3, <2>4
  <1>6. \A q \in Requests : late'[q] => pc'[q] \in {"sending", "resent"}
    BY <1>1, <1>2 DEF Alone, NewestInv
  <1>7. QED
    BY <1>2, <1>5, <1>6, SameRows DEF NewestInv

LEMMA NewestInductive ==
    ASSUME Shapes, NameInv, NewestInv, [MNext]_allVars
    PROVE  NewestInv'
  <1>1. ASSUME NEW r \in Requests,
               \/ \E a \in Addresses : RegisterLooks(r, a)
               \/ \E w \in Workers, a \in Addresses : ResendLooks(r, w, a)
               \/ Forgot(r)
               \/ \E t \in Requests : VerifyLooks(r, t) \/ ResetLooks(r, t)
               \/ \E a \in Addresses : LoginLooks(r, a) \/ GoogleLooks(r, a) \/ Delete(r, a)
               \/ VerifyCommits(r) \/ LoginRecords(r) \/ GoogleCreates(r) \/ GoogleLinks(r)
               \/ ResetCommits(r) \/ ResetDeletes(r)
        PROVE  NewestInv'
    <2>1. Alone(r)
      BY <1>1, Turns DEF Register, Verify, Resend, SignIn, ResetPassword, Administer
    <2>2. pc[r] \notin Mailing /\ pc'[r] \notin Mailing
      <3> USE DEF Mailing, Refused, Ends, Goto, Begins, Shapes
      <3>1. CASE \/ \E a \in Addresses : RegisterLooks(r, a)
                 \/ \E w \in Workers, a \in Addresses : ResendLooks(r, w, a)
                 \/ \E t \in Requests : VerifyLooks(r, t) \/ ResetLooks(r, t)
                 \/ \E a \in Addresses : LoginLooks(r, a) \/ GoogleLooks(r, a) \/ Delete(r, a)
        BY <3>1
           DEF RegisterLooks, ResendLooks, VerifyLooks, ResetLooks, LoginLooks, GoogleLooks,
           Delete
      <3>2. CASE \/ Forgot(r) \/ VerifyCommits(r) \/ LoginRecords(r) \/ GoogleCreates(r)
                 \/ GoogleLinks(r) \/ ResetCommits(r) \/ ResetDeletes(r)
        BY <3>2
           DEF Forgot, ForgotLooks, ForgotClears, ForgotInserts, ForgotSends, VerifyCommits,
           LoginRecords, GoogleCreates, GoogleLinks, ResetCommits, ResetDeletes
      <3>3. QED
        BY <1>1, <3>1, <3>2
    <2>3. UNCHANGED <<newest, late>>
      BY <1>1
         DEF RegisterLooks, ResendLooks, VerifyLooks, ResetLooks, LoginLooks, GoogleLooks,
         Delete, Forgot, ForgotLooks, ForgotClears, ForgotInserts, ForgotSends, VerifyCommits,
         LoginRecords, GoogleCreates, GoogleLinks, ResetCommits, ResetDeletes, Refused, history
    <2>4. \A i \in Ids : Excused(i) => Excused(i)'
      <3>1. ASSUME cause \subseteq cause' PROVE \A i \in Ids : Excused(i) => Excused(i)'
        BY <3>1 DEF Excused
      <3>2. CASE Forgot(r)
        BY <3>1, <3>2
           DEF Forgot, ForgotLooks, ForgotClears, ForgotInserts, ForgotSends, Refused,
           history, Excused, Blame
      <3>3. CASE ~ Forgot(r)
        BY <1>1, <3>1, <3>3
           DEF RegisterLooks, ResendLooks, VerifyLooks, ResetLooks, LoginLooks,
           GoogleLooks, Delete, VerifyCommits, LoginRecords, GoogleCreates, GoogleLinks,
           ResetCommits, ResetDeletes, Refused, history
      <3>4. QED
        BY <3>2, <3>3
    <2>5. ASSUME NEW a \in Addresses PROVE Quiet(a)
      <3>1. CASE UNCHANGED user
        BY <3>1 DEF Quiet, Exists
      <3>2. CASE VerifyCommits(r)
        <4>1. \A u \in User : Verified(u).verified
          BY DEF Verified, User
        <4>2. QED
          BY <3>2, <4>1 DEF VerifyCommits, Quiet, Exists, Shapes
      <3>3. CASE GoogleCreates(r)
        <4>1. \E u \in User : u.verified /\ user' = [user EXCEPT ![obj[r].addr] = u]
          BY <3>3, Constants DEF GoogleCreates
        <4>2. QED
          BY <4>1 DEF Quiet, Exists, Shapes
      <3>4. CASE GoogleLinks(r)
        <4>1. user'[obj[r].addr].verified
              \/ /\ user'[obj[r].addr].id = user[obj[r].addr].id
                 /\ user'[obj[r].addr].token = user[obj[r].addr].token
                 /\ user'[obj[r].addr].verified = user[obj[r].addr].verified
          BY <3>4, Linking
        <4>2. QED
          BY <3>4, <4>1, Linking DEF Quiet, Exists, Shapes
      <3>5. CASE ResetCommits(r)
        <4>1. \A u \in User : /\ [u EXCEPT !.password = TRUE].id = u.id
                              /\ [u EXCEPT !.password = TRUE].token = u.token
                              /\ [u EXCEPT !.password = TRUE].verified = u.verified
          BY DEF User
        <4>2. QED
          BY <3>5, <4>1 DEF ResetCommits, Quiet, Exists, Shapes
      <3>6. CASE \E b \in Addresses : Delete(r, b)
        BY <3>6 DEF Delete, Quiet, Exists, Nobody, Shapes
      <3>7. QED
        BY <1>1, <3>1, <3>2, <3>3, <3>4, <3>5, <3>6
           DEF RegisterLooks, ResendLooks, VerifyLooks,
           ResetLooks, LoginLooks, GoogleLooks, Forgot, ForgotLooks, ForgotClears, ForgotInserts,
           ForgotSends, LoginRecords, ResetDeletes, Refused, database
    <2>6. QED
      BY <2>1, <2>2, <2>3, <2>4, <2>5, NewestFrame DEF Alone
  <1>2. ASSUME NEW r \in Requests, RegisterSends(r) \/ ResendSends(r) PROVE NewestInv'
    <2>1. Alone(r)
      BY <1>2, Turns DEF Register, Resend
    <2>2. QED
      BY <1>2, <2>1, NewestSends DEF RegisterSends, ResendSends, database
  <1>3. ASSUME NEW r \in Requests, RegisterInserts(r) PROVE NewestInv'
    <2> DEFINE b == obj[r].addr
    <2>1. Alone(r)
      BY <1>3, Turns DEF Register
    <2>2. /\ r \notin Started /\ pc[r] = "registering" /\ pc'[r] = "inserted" /\ obj'[r].id = r
          /\ UNCHANGED <<newest, late, held, cause>>
          /\ ~ Exists(b) /\ \E u \in User : u.id = r /\ user' = [user EXCEPT ![b] = u]
      BY <1>3, Constants, Objects
         DEF RegisterInserts, Started, Early, Goto, Shapes, Loaded, history
    <2> HIDE DEF b
    <2>3. \A a \in Addresses : user'[a] = user[a] \/ user'[a].id = r
      BY <2>2 DEF Shapes
    <2>4. \A i : Senders(i)' = Senders(i) /\ \A q \in Senders(i) : held'[q] = held[q]
      BY <2>1, <2>2 DEF Alone, Senders, At
    <2>5. /\ At({"inserted"})' = At({"inserted"}) \cup {r}
          /\ \A q \in At({"inserted"}) : obj'[q] = obj[q]
      BY <2>1, <2>2 DEF Alone, At
    <2>6. Senders(r) = {}
      BY <2>2 DEF Senders, At, NameInv
    <2>7. \A i : Excused(i)' <=> Excused(i)
      BY <2>2 DEF Excused
    <2>8. \A q \in Requests : late'[q] => pc'[q] \in {"sending", "resent"}
      BY <2>1, <2>2 DEF Alone, NewestInv
    <2>9. ASSUME NEW i, NEW t, Promised(i, t) PROVE Promised(i, t)'
      BY <2>2, <2>4, <2>5, <2>7, <2>9 DEF Promised
    <2>10. \A t : Promised(r, t)'
      BY <2>2, <2>4, <2>5, <2>6 DEF Promised
    <2>11. ASSUME NEW a \in Addresses, Exists(a)', ~ user'[a].verified
           PROVE  Promised(user[a].id, user[a].token)'
      BY <2>3, <2>9, <2>10, <2>11 DEF NewestInv, Exists
    <2>12. QED
      BY <2>2, <2>8, <2>11 DEF NewestInv
  <1>4. ASSUME NEW r \in Requests, RegisterRefreshes(r) PROVE NewestInv'
    <2> DEFINE b == obj[r].addr
    <2>1. Alone(r)
      BY <1>4, Turns DEF Register
    <2>2. /\ pc[r] = "inserted" /\ pc'[r] = "sending" /\ ~ late[r]
          /\ held'[r] = user[b].token
          /\ UNCHANGED <<user, newest, late, cause>>
          /\ b \in Addresses /\ Exists(b) /\ user[b].id = obj[r].id
          /\ \A q \in Requests : obj'[q].id = obj[q].id
      BY <1>4, Somewhere, RereadObject
         DEF RegisterRefreshes, Goto, Shapes, NewestInv, database, history
    <2> HIDE DEF b
    <2>3. \A a \in Addresses : Exists(a) /\ user[a].id = obj[r].id => a = b
      BY <2>2 DEF NameInv
    <2>4. \A i : /\ i = obj[r].id => Senders(i)' = Senders(i) \cup {r}
                 /\ i # obj[r].id => Senders(i)' = Senders(i)
                 /\ \A q \in Senders(i) : q # r /\ held'[q] = held[q]
      BY <2>1, <2>2 DEF Alone, Senders, At
    <2>5. At({"inserted"})' = At({"inserted"}) \ {r}
      BY <2>1, <2>2 DEF Alone, At
    <2>6. \A i : Excused(i)' <=> Excused(i)
      BY <2>2 DEF Excused
    <2>7. \A q \in Requests : late'[q] => pc'[q] \in {"sending", "resent"}
      BY <2>1, <2>2 DEF Alone, NewestInv
    <2>8. ASSUME NEW i, NEW t, Promised(i, t), i = obj[r].id => t = user[b].token
          PROVE  Promised(i, t)'
      <3>1. CASE i = obj[r].id
        <4>1. Senders(i)' = Senders(i) \cup {r} /\ t = user[b].token
          BY <2>4, <2>8, <3>1
        <4>2. \A q \in Senders(i)' : late'[q] \/ held'[q] = t
          BY <2>2, <2>4, <2>8, <4>1 DEF Promised
        <4>3. r \in Senders(i)' /\ ~ late'[r]
          BY <2>2, <4>1
        <4>4. QED
          BY <4>2, <4>3 DEF Promised
      <3>2. CASE i # obj[r].id
        <4>1. Senders(i)' = Senders(i) /\ \A q \in Senders(i) : held'[q] = held[q]
          BY <2>4, <3>2
        <4>2. \A q \in At({"inserted"}) : obj[q].id = i => q \in At({"inserted"})' /\ obj'[q].id = i
          BY <2>2, <2>5, <3>2 DEF At
        <4>3. QED
          BY <2>2, <2>6, <2>8, <4>1, <4>2 DEF Promised
      <3>3. QED
        BY <3>1, <3>2
    <2>9. ASSUME NEW a \in Addresses, Exists(a)', ~ user'[a].verified
          PROVE  Promised(user[a].id, user[a].token)'
      BY <2>2, <2>3, <2>8, <2>9 DEF NewestInv, Exists
    <2>10. QED
      BY <2>2, <2>7, <2>9 DEF NewestInv
  <1>5. ASSUME NEW r \in Requests, ResendCommits(r) PROVE NewestInv'
    <2> DEFINE b == obj[r].addr
    <2>1. Alone(r)
      BY <1>5, Turns DEF Resend
    <2>2. /\ pc[r] = "resending" /\ pc'[r] = "resent" /\ held'[r] = r
          /\ UNCHANGED <<newest, obj, cause>>
          /\ late' = Overtaken(r)
          /\ user' = [user EXCEPT ![b].token = r]
          /\ b \in Addresses /\ Exists(b) /\ user[b].id = obj[r].id
      BY <1>5, Somewhere DEF ResendCommits, Goto, Shapes
    <2> HIDE DEF b
    <2>3. \A a \in Addresses :
             /\ user'[a].id = user[a].id /\ user'[a].verified = user[a].verified
             /\ a # b => user'[a] = user[a]
             /\ a = b => user'[a].token = r
      BY <2>2 DEF Shapes, User
    <2>4. \A a \in Addresses : /\ Exists(a)' <=> Exists(a)
                               /\ Exists(a) /\ user[a].id = obj[r].id => a = b
      BY <2>2, <2>3 DEF NameInv, Exists
    <2>5. \A i : /\ i = obj[r].id => Senders(i)' = Senders(i) \cup {r}
                 /\ i # obj[r].id => Senders(i)' = Senders(i)
                 /\ \A q \in Senders(i) : q # r /\ held'[q] = held[q]
      BY <2>1, <2>2 DEF Alone, Senders, At
    <2>6. /\ late' \in [Requests -> BOOLEAN]
          /\ ~ late'[r]
          /\ \A q \in Senders(obj[r].id) : late'[q]
          /\ \A q \in Requests : late'[q] => pc[q] \in {"sending", "resent"}
          /\ \A i : i # obj[r].id => \A q \in Senders(i) : late'[q] = late[q]
      BY <2>2 DEF Overtaken, NewestInv, Senders, At
    <2>7. At({"inserted"})' = At({"inserted"})
      BY <2>1, <2>2 DEF Alone, At
    <2>8. \A i : Excused(i)' <=> Excused(i)
      BY <2>2 DEF Excused
    <2>9. \A q \in Requests : late'[q] => pc'[q] \in {"sending", "resent"}
      BY <2>1, <2>2, <2>6 DEF Alone
    <2>10. ASSUME NEW i, NEW t, Promised(i, t), i # obj[r].id PROVE Promised(i, t)'
      BY <2>2, <2>5, <2>6, <2>7, <2>8, <2>10 DEF Promised
    <2>11. ASSUME NEW i, i = obj[r].id PROVE Promised(i, r)'
      BY <2>2, <2>5, <2>6, <2>11 DEF Promised
    <2>12. ASSUME NEW a \in Addresses, Exists(a)', ~ user'[a].verified
           PROVE  Promised(user[a].id, user[a].token)'
      <3>1. CASE a = b
        BY <2>2, <2>3, <2>11, <3>1
      <3>2. CASE a # b
        <4>1. user[a].id # obj[r].id /\ user'[a] = user[a] /\ Exists(a)
          BY <2>3, <2>4, <2>12, <3>2
        <4>2. QED
          BY <2>10, <2>12, <4>1 DEF NewestInv
      <3>3. QED
        BY <3>1, <3>2
    <2>13. QED
      BY <2>6, <2>9, <2>12 DEF NewestInv
  <1>6. ASSUME NEW r \in Requests, Fails(r) PROVE NewestInv'
    <2>1. Alone(r)
      BY <1>6, Turns
    <2>2. /\ pc'[r] = "failed" /\ UNCHANGED <<user, newest>>
          /\ late' = [late EXCEPT ![r] = FALSE]
          /\ cause \subseteq cause'
          /\ pc[r] \in Mailing => Blame("unsent", obj[r].id) \in cause'
      BY <1>6 DEF Fails, Failed, Ends, Goto, Shapes, Mailing, database
    <2>3. \A i : /\ Senders(i)' = Senders(i) \ {r}
                 /\ \A q \in Senders(i) \ {r} : held'[q] = held[q]
                 /\ Excused(i) => Excused(i)'
                 /\ i = obj[r].id /\ pc[r] \in Mailing => Excused(i)'
      BY <2>1, <2>2 DEF Alone, Senders, At, Excused
    <2>4. /\ At({"inserted"})' = At({"inserted"}) \ {r}
          /\ \A q \in At({"inserted"}) \ {r} : obj'[q] = obj[q]
      BY <2>1, <2>2 DEF Alone, At
    <2>5. /\ late' \in [Requests -> BOOLEAN]
          /\ \A q \in Requests : q # r => late'[q] = late[q]
          /\ ~ late'[r]
      BY <2>2 DEF NewestInv
    <2>6. \A q \in Requests : late'[q] => pc'[q] \in {"sending", "resent"}
      BY <2>1, <2>5 DEF Alone, NewestInv
    <2>7. \A i : \A q \in Senders(i) : q \in Requests /\ (q = r => i = obj[r].id /\ pc[r] \in Mailing)
      BY DEF Senders, At, Mailing
    <2>8. \A q \in At({"inserted"}) : q = r => pc[r] \in Mailing
      BY DEF At, Mailing
    <2>9. ASSUME NEW i \in Ids, NEW t, Promised(i, t) PROVE Promised(i, t)'
      <3>1. \A q \in Senders(i)' : late'[q] \/ held'[q] = t
        BY <2>3, <2>5, <2>7, <2>9 DEF Promised
      <3>2. \/ Excused(i)'
            \/ newest'[i] = t
            \/ \E q \in At({"inserted"})' : obj'[q].id = i
            \/ \E q \in Senders(i)' : ~ late'[q]
        <4>1. CASE i = obj[r].id /\ pc[r] \in Mailing
          BY <2>3, <4>1
        <4>2. CASE ~ (i = obj[r].id /\ pc[r] \in Mailing)
          BY <2>2, <2>3, <2>4, <2>5, <2>7, <2>9, <4>2, <2>8 DEF Promised
        <4>3. QED
          BY <4>1, <4>2
      <3>3. QED
        BY <3>1, <3>2 DEF Promised
    <2>10. QED
      BY <2>2, <2>5, <2>6, <2>9, SameRows
  <1>7. CASE \/ \E w \in Workers : TableCleared(w)
             \/ \E key \in Workers \X Addresses : CooldownEnds(key)
             \/ UNCHANGED vars
             \/ \E i \in Instances : Migrates(i)
    <2>1. UNCHANGED <<newest, late, pc, obj, held>>
      BY <1>7 DEF TableCleared, CooldownEnds, Migrates, vars, local, history
    <2>2. \A i \in Ids : Excused(i) => Excused(i)'
      BY <1>7 DEF TableCleared, CooldownEnds, Migrates, vars, history, Excused, Blame
    <2>3. ASSUME NEW a \in Addresses PROVE Quiet(a)
      <3>1. CASE UNCHANGED user
        BY <3>1 DEF Quiet, Exists
      <3>2. ASSUME NEW i \in Instances, Migrates(i) PROVE Quiet(a)
        <4>1. \A u \in User : [u EXCEPT !.verified = TRUE].verified
          BY DEF User
        <4>2. CASE added[i]
          BY <3>2, <4>1, <4>2 DEF Migrates, Quiet, Exists, Nobody, Shapes
        <4>3. QED
          BY <3>1, <3>2, <4>2 DEF Migrates
      <3>3. QED
        BY <1>7, <3>1, <3>2 DEF TableCleared, CooldownEnds, vars, database
    <2>4. QED
      BY <2>1, <2>2, <2>3, NewestFrame
  <1>8. QED
    BY <1>1, <1>2, <1>3, <1>4, <1>5, <1>6, <1>7, MigrationLeaves
       DEF MNext, Next, allVars, Register, Verify, Resend, SignIn, ResetPassword, Administer

----------------------------------------------------------------------------
(* What a request has in hand                                              *)

Over == {"idle", "done", "failed"}

\* A request under way has an address, and an account unless it is about to
\* make one; one that resends has a worker, and one that resets a link.
PlaceOK(q) ==
    /\ pc[q] \notin Over => obj[q].addr \in Addresses
    /\ pc[q] \notin Over \cup {"registering", "creating"} => obj[q].id \in Ids
    /\ pc[q] \in {"resending", "resent"} => at[q] \in Workers
    /\ pc[q] \in {"resetting", "used"} => held[q] \in Requests

PlaceInv == \A q \in Requests : PlaceOK(q)

LEMMA PlaceInitial == MInit => PlaceInv
  BY DEF MInit, InitWith, PlaceInv, PlaceOK, Over

LEMMA PlaceFrame ==
    ASSUME PlaceInv, NEW r \in Requests, Alone(r), PlaceOK(r)'
    PROVE  PlaceInv'
  <1>1. ASSUME NEW q \in Requests \ {r} PROVE PlaceOK(q)'
    BY <1>1 DEF PlaceInv, PlaceOK, Alone
  <1>2. QED
    BY <1>1 DEF PlaceInv

LEMMA EndsPlace ==
    ASSUME Shapes, NEW r \in Requests, NEW p \in Over, Ends(r, p)
    PROVE  PlaceOK(r)'
  BY DEF Ends, Goto, Shapes, PlaceOK, Over

\* A row that is there, loaded.
LEMMA LoadsPlace ==
    ASSUME Shapes, NEW r \in Requests, NEW a \in Addresses, Loads(r, a),
           NEW p \in Stages, Goto(r, p), Exists(a) \/ p \in {"registering", "creating"},
           p \in {"resending", "resent"} => at'[r] \in Workers,
           p \in {"resetting", "used"} => held'[r] \in Requests
    PROVE  PlaceOK(r)'
  <1>1. obj'[r].addr = a /\ obj'[r].id = user[a].id /\ pc'[r] = p
    BY DEF Loads, Goto, Shapes
  <1>2. Exists(a) => user[a].id \in Ids
    BY DEF Exists, Shapes, User
  <1>3. QED
    BY <1>1, <1>2 DEF PlaceOK

LEMMA LooksPlace ==
    ASSUME Shapes, NEW r \in Requests,
           \/ \E a \in Addresses : RegisterLooks(r, a) \/ LoginLooks(r, a) \/ ForgotLooks(r, a)
           \/ \E e \in Addresses : GoogleLooks(r, e)
           \/ \E t \in Requests : VerifyLooks(r, t) \/ ResetLooks(r, t)
           \/ \E w \in Workers, a \in Addresses : ResendLooks(r, w, a)
    PROVE  PlaceOK(r)'
  <1>1. CASE Refused(r)
    BY <1>1, EndsPlace DEF Refused, Over
  <1>2. ASSUME NEW a \in Addresses, RegisterLooks(r, a), ~ Refused(r) PROVE PlaceOK(r)'
    BY <1>2, LoadsPlace DEF RegisterLooks, Stages
  <1>3. ASSUME NEW a \in Addresses, LoginLooks(r, a), ~ Refused(r) PROVE PlaceOK(r)'
    BY <1>3, LoadsPlace DEF LoginLooks, Stages
  <1>4. ASSUME NEW a \in Addresses, ForgotLooks(r, a), ~ Refused(r) PROVE PlaceOK(r)'
    BY <1>4, LoadsPlace DEF ForgotLooks, Stages
  <1>5. ASSUME NEW e \in Addresses, GoogleLooks(r, e) PROVE PlaceOK(r)'
    <2>1. PICK a \in Addresses :
              /\ Loads(r, a)
              /\ Goto(r, "creating") \/ (Goto(r, "linking") /\ Exists(a))
      <3>1. CASE Matches(Lower[e]) = {}
        BY <1>5, <3>1 DEF GoogleLooks
      <3>2. CASE Matches(Lower[e]) # {}
        BY <1>5, <3>2 DEF GoogleLooks, Matches, Linked
      <3>3. QED
        BY <3>1, <3>2
    <2>2. QED
      BY <2>1, LoadsPlace DEF Stages
  <1>6. ASSUME NEW t \in Requests, VerifyLooks(r, t), ~ Refused(r) PROVE PlaceOK(r)'
    BY <1>6, LoadsPlace DEF VerifyLooks, Stages
  <1>7. ASSUME NEW t \in Requests, ResetLooks(r, t), ~ Refused(r) PROVE PlaceOK(r)'
    <2>1. PICK a \in Addresses :
              /\ [token |-> t, id |-> user[a].id] \in resets
              /\ Loads(r, a) /\ held' = [held EXCEPT ![r] = t] /\ Goto(r, "resetting")
      BY <1>7 DEF ResetLooks
    <2>2. user[a].id \in Ids
      BY <2>1 DEF Shapes, Reset
    <2>3. Exists(a) /\ held'[r] = t
      BY <2>1, <2>2 DEF Exists, Ids, Shapes
    <2>4. QED
      BY <2>1, <2>3, LoadsPlace DEF Stages
  <1>8. ASSUME NEW w \in Workers, NEW a \in Addresses, ResendLooks(r, w, a), ~ Refused(r)
        PROVE  PlaceOK(r)'
    BY <1>8, LoadsPlace DEF ResendLooks, Stages, Shapes
  <1>9. QED
    BY <1>1, <1>2, <1>3, <1>4, <1>5, <1>6, <1>7, <1>8

LEMMA PlaceStep ==
    ASSUME Shapes, PlaceInv, NEW r \in Requests,
           \/ Register(r) \/ Verify(r) \/ Resend(r) \/ SignIn(r)
           \/ Forgot(r) \/ ResetPassword(r) \/ Administer(r) \/ Fails(r)
    PROVE  PlaceOK(r)'
  <1>0. PlaceOK(r)
    BY DEF PlaceInv
  <1>1. CASE \/ RegisterSends(r) \/ VerifyCommits(r) \/ ResendSends(r) \/ LoginRecords(r)
             \/ ForgotSends(r) \/ ResetDeletes(r) \/ Administer(r) \/ Fails(r)
    <2>1. Ends(r, "done") \/ Ends(r, "failed")
      BY <1>1 DEF RegisterSends, VerifyCommits, ResendSends, LoginRecords, ForgotSends,
         ResetDeletes, Administer, Delete, Fails, Sends
    <2>2. QED
      BY <2>1, EndsPlace DEF Over
  <1>2. CASE RegisterInserts(r) \/ GoogleCreates(r)
    BY <1>0, <1>2, Objects
       DEF RegisterInserts, GoogleCreates, Goto, Shapes, Ids, PlaceOK, Over, Loaded
  <1>3. CASE RegisterRefreshes(r)
    BY <1>0, <1>3, RereadObject DEF RegisterRefreshes, Goto, Shapes, PlaceOK, Over
  <1>7. CASE GoogleLinks(r)
    BY <1>0, <1>7 DEF GoogleLinks, Goto, Shapes, PlaceOK, Over
  <1>4. CASE ResendCommits(r) \/ ResetCommits(r)
    BY <1>0, <1>4 DEF ResendCommits, ResetCommits, Goto, Shapes, PlaceOK, Over
  <1>5. CASE ForgotClears(r) \/ ForgotInserts(r)
    BY <1>0, <1>5 DEF ForgotClears, ForgotInserts, Goto, Shapes, PlaceOK, Over
  <1>6. QED
    BY <1>1, <1>2, <1>3, <1>4, <1>5, <1>7, LooksPlace
       DEF Register, Verify, Resend, SignIn, Forgot, ResetPassword

LEMMA PlaceInductive ==
    ASSUME Shapes, PlaceInv, [MNext]_allVars
    PROVE  PlaceInv'
  <1>1. ASSUME NEW r \in Requests,
               \/ Register(r) \/ Verify(r) \/ Resend(r) \/ SignIn(r)
               \/ Forgot(r) \/ ResetPassword(r) \/ Administer(r) \/ Fails(r)
        PROVE  PlaceInv'
    BY <1>1, PlaceStep, Turns, PlaceFrame
  <1>2. CASE UNCHANGED local
    BY <1>2 DEF local, PlaceInv, PlaceOK
  <1>3. QED
    BY <1>1, <1>2, MigrationLeaves
       DEF MNext, Next, allVars, vars, TableCleared, CooldownEnds, Migrates

----------------------------------------------------------------------------
(* The rest of the types                                                   *)

\* What Shapes leaves out, but for late, which is in NewestInv.
HistoryOK ==
    /\ cool \subseteq Workers \X Addresses
    /\ at \in [Requests -> Workers \cup {None}]
    /\ newest \in [Ids -> Tokens]
    /\ proven \subseteq Ids /\ signed \subseteq Ids /\ welcomed \subseteq Ids
    /\ recent \subseteq Workers \X Addresses /\ spam \subseteq Workers \X Addresses
    /\ cause \subseteq Cause

LEMMA HistoryInitial == MInit => HistoryOK
  <1>1. ASSUME NEW rows, InitWith(rows) PROVE HistoryOK
    BY <1>1 DEF InitWith, HistoryOK, Ids, Tokens
  <1>2. QED
    BY <1>1 DEF MInit

LEMMA BlamesAreCauses ==
    ASSUME NEW of
    PROVE  /\ of \in Ids => \A kind \in {"shared", "abandoned", "crossed", "late", "unsent"} :
                                Blame(kind, of) \in Cause
           /\ of \in Workers \X Addresses =>
                  Blame("burst", of) \in Cause /\ Blame("cleared", of) \in Cause
  BY DEF Blame, Cause

LEMMA EndsHistory ==
    ASSUME HistoryOK, NEW r \in Requests, NEW p, Ends(r, p)
    PROVE  at' \in [Requests -> Workers \cup {None}]
  BY DEF Ends, HistoryOK

LEMMA RefusedHistory ==
    ASSUME HistoryOK, NEW r \in Requests, Refused(r)
    PROVE  HistoryOK'
  BY EndsHistory DEF Refused, history, HistoryOK

LEMMA SendsHistory ==
    ASSUME Shapes, HistoryOK, NEW r \in Requests, obj[r].id \in Ids, Sends(r)
    PROVE  /\ at' \in [Requests -> Workers \cup {None}]
           /\ newest' \in [Ids -> Tokens] /\ cause' \subseteq Cause
  <1>1. at' \in [Requests -> Workers \cup {None}]
    BY EndsHistory DEF Sends
  <1>2. held[r] \in Tokens
    BY DEF Shapes
  <1>3. cause' \subseteq Cause
    BY BlamesAreCauses DEF Sends, HistoryOK
  <1>4. QED
    BY <1>1, <1>2, <1>3 DEF Sends, HistoryOK

LEMMA HistoryStep ==
    ASSUME Shapes, PlaceInv, HistoryOK, NEW r \in Requests,
           \/ Register(r) \/ Verify(r) \/ Resend(r) \/ SignIn(r)
           \/ Forgot(r) \/ ResetPassword(r) \/ Administer(r) \/ Fails(r)
    PROVE  HistoryOK'
  <1>0. PlaceOK(r)
    BY DEF PlaceInv
  <1>1. CASE Refused(r)
    BY <1>1, RefusedHistory
  <1>2. CASE Register(r) /\ ~ Refused(r)
    <2>1. CASE RegisterSends(r)
      <3>1. obj[r].id \in Ids /\ Sends(r)
        BY <1>0, <2>1 DEF RegisterSends, PlaceOK, Over
      <3>2. QED
        BY <2>1, <3>1, SendsHistory DEF RegisterSends, HistoryOK
    <2>2. CASE ~ RegisterSends(r)
      BY <1>2, <2>2
         DEF Register, RegisterLooks, RegisterInserts, RegisterRefreshes, history,
         HistoryOK
    <2>3. QED
      BY <2>1, <2>2
  <1>3. CASE Verify(r) /\ ~ Refused(r)
    <2>1. ASSUME NEW t \in Requests, VerifyLooks(r, t) PROVE HistoryOK'
      BY <1>3, <2>1 DEF VerifyLooks, history, HistoryOK
    <2>2. CASE VerifyCommits(r)
      <3>1. obj[r].id \in Ids
        BY <1>0, <2>2 DEF VerifyCommits, PlaceOK, Over
      <3>2. QED
        BY <2>2, <3>1, EndsHistory DEF VerifyCommits, HistoryOK
    <2>3. QED
      BY <1>3, <2>1, <2>2 DEF Verify
  <1>4. CASE Resend(r) /\ ~ Refused(r)
    <2>1. ASSUME NEW w \in Workers, NEW a \in Addresses, ResendLooks(r, w, a) PROVE HistoryOK'
      <3>1. cause' \subseteq Cause /\ at' = [at EXCEPT ![r] = w]
        BY <1>4, <2>1, BlamesAreCauses DEF ResendLooks, HistoryOK
      <3>2. QED
        BY <1>4, <2>1, <3>1 DEF ResendLooks, HistoryOK
    <2>2. CASE ResendCommits(r)
      BY <2>2 DEF ResendCommits, HistoryOK
    <2>3. CASE ResendSends(r)
      <3>1. <<at[r], obj[r].addr>> \in Workers \X Addresses /\ obj[r].id \in Ids /\ Sends(r)
        BY <1>0, <2>3 DEF ResendSends, PlaceOK, Over
      <3>2. /\ cool' \subseteq Workers \X Addresses /\ recent' \subseteq Workers \X Addresses
            /\ spam' \subseteq Workers \X Addresses
        BY <2>3, <3>1 DEF ResendSends, Cooldown, HistoryOK
      <3>3. QED
        BY <2>3, <3>1, <3>2, SendsHistory DEF ResendSends, HistoryOK
    <2>4. QED
      BY <1>4, <2>1, <2>2, <2>3 DEF Resend
  <1>5. CASE SignIn(r) /\ ~ Refused(r)
    <2>1. ASSUME NEW a \in Addresses, LoginLooks(r, a) PROVE HistoryOK'
      BY <1>5, <2>1 DEF LoginLooks, history, HistoryOK
    <2>2. ASSUME NEW e \in Addresses, GoogleLooks(r, e) PROVE HistoryOK'
      <3>1. CASE Matches(Lower[e]) = {}
        BY <2>2, <3>1 DEF GoogleLooks, history, HistoryOK
      <3>2. CASE Matches(Lower[e]) # {}
        <4>1. PICK a \in Matches(Lower[e]) :
                  proven' = IF a = Lower[e] THEN proven \cup {user[a].id} ELSE proven
          BY <2>2, <3>2 DEF GoogleLooks
        <4>2. user[a].id \in Ids
          BY DEF Matches, Linked, Exists, Shapes, User
        <4>3. proven' \subseteq Ids
          BY <4>1, <4>2 DEF HistoryOK
        <4>4. UNCHANGED <<cool, at, newest, signed, welcomed, recent, spam, cause>>
          BY <2>2, <3>2 DEF GoogleLooks
        <4>5. QED
          BY <4>3, <4>4 DEF HistoryOK
      <3>3. QED
        BY <3>1, <3>2
    <2>3. CASE GoogleCreates(r)
      BY <2>3 DEF GoogleCreates, HistoryOK, Ids
    <2>4. CASE GoogleLinks(r)
      BY <2>4 DEF GoogleLinks, history, HistoryOK
    <2>5. CASE LoginRecords(r)
      <3>1. obj[r].id \in Ids
        BY <1>0, <2>5 DEF LoginRecords, PlaceOK, Over
      <3>2. QED
        BY <2>5, <3>1, EndsHistory DEF LoginRecords, HistoryOK
    <2>6. QED
      BY <1>5, <2>1, <2>2, <2>3, <2>4, <2>5 DEF SignIn
  <1>6. CASE Forgot(r) /\ ~ Refused(r)
    <2>1. ASSUME NEW a \in Addresses, ForgotLooks(r, a) PROVE HistoryOK'
      BY <1>6, <2>1 DEF ForgotLooks, history, HistoryOK
    <2>2. CASE ForgotClears(r)
      BY <2>2 DEF ForgotClears, HistoryOK
    <2>3. CASE ForgotInserts(r)
      <3>1. obj[r].id \in Ids
        BY <1>0, <2>3 DEF ForgotInserts, PlaceOK, Over
      <3>2. cause' \subseteq Cause
        BY <2>3, <3>1, BlamesAreCauses DEF ForgotInserts, HistoryOK
      <3>3. QED
        BY <2>3, <3>2 DEF ForgotInserts, HistoryOK
    <2>4. CASE ForgotSends(r)
      BY <2>4, EndsHistory DEF ForgotSends, history, HistoryOK
    <2>5. QED
      BY <1>6, <2>1, <2>2, <2>3, <2>4 DEF Forgot
  <1>7. CASE ResetPassword(r) /\ ~ Refused(r)
    <2>1. ASSUME NEW t \in Requests, ResetLooks(r, t) PROVE HistoryOK'
      <3>1. t \in Ids
        BY DEF Ids
      <3>2. cause' \in {cause, cause \cup {Blame("shared", t)}}
        BY <1>7, <2>1 DEF ResetLooks
      <3>3. cause' \subseteq Cause
        BY <3>1, <3>2, BlamesAreCauses DEF HistoryOK
      <3>4. QED
        BY <1>7, <2>1, <3>3 DEF ResetLooks, HistoryOK
    <2>2. CASE ResetCommits(r)
      BY <2>2 DEF ResetCommits, HistoryOK
    <2>3. CASE ResetDeletes(r)
      BY <2>3, EndsHistory DEF ResetDeletes, history, HistoryOK
    <2>4. QED
      BY <1>7, <2>1, <2>2, <2>3 DEF ResetPassword
  <1>8. ASSUME NEW a \in Addresses, Delete(r, a) PROVE HistoryOK'
    BY <1>8, EndsHistory DEF Delete, history, HistoryOK
  <1>9. CASE Fails(r)
    <2>1. Failed(r) \subseteq Cause
      BY <1>0, BlamesAreCauses DEF Failed, PlaceOK, Over, Ids
    <2>2. QED
      BY <1>9, <2>1, EndsHistory DEF Fails, HistoryOK
  <1>10. QED
    BY <1>1, <1>2, <1>3, <1>4, <1>5, <1>6, <1>7, <1>8, <1>9 DEF Administer

LEMMA HistoryInductive ==
    ASSUME Shapes, PlaceInv, HistoryOK, [MNext]_allVars
    PROVE  HistoryOK'
  <1>1. ASSUME NEW r \in Requests,
               \/ Register(r) \/ Verify(r) \/ Resend(r) \/ SignIn(r)
               \/ Forgot(r) \/ ResetPassword(r) \/ Administer(r) \/ Fails(r)
        PROVE  HistoryOK'
    BY <1>1, HistoryStep
  <1>2. ASSUME NEW w \in Workers, TableCleared(w) PROVE HistoryOK'
    <2>1. cause' \subseteq Cause
      BY <1>2, BlamesAreCauses DEF TableCleared, HistoryOK
    <2>2. QED
      BY <1>2, <2>1 DEF TableCleared, local, HistoryOK
  <1>3. ASSUME NEW key \in Workers \X Addresses, CooldownEnds(key) PROVE HistoryOK'
    BY <1>3 DEF CooldownEnds, local, HistoryOK
  <1>4. ASSUME NEW i \in Instances, Migrates(i) PROVE HistoryOK'
    BY <1>4 DEF Migrates, local, history, HistoryOK
  <1>5. CASE UNCHANGED vars
    BY <1>5 DEF vars, local, history, HistoryOK
  <1>6. QED
    BY <1>1, <1>2, <1>3, <1>4, <1>5, MigrationLeaves DEF MNext, Next, allVars

----------------------------------------------------------------------------
(* Theorems                                                                *)

\* The inductive invariant: types, names, reset links, live links, cooldown, newest link,
\* what requests have in hand.
AccountsInv == /\ Shapes /\ NameInv /\ ReuseInv /\ LinkInv /\ CooldownInv /\ NewestInv
               /\ PlaceInv /\ HistoryOK

LEMMA AccountsInvariant == MSpec => []AccountsInv
  <1>1. MInit => AccountsInv
    BY ShapesInitial, NameInitial, ReuseInitial, LinkInitial, CooldownInitial,
       NewestInitial,
       PlaceInitial, HistoryInitial DEF AccountsInv
  <1>2. AccountsInv /\ [MNext]_allVars => AccountsInv'
    BY ShapesInductive, NameInductive, ReuseInductive, LinkInductive, CooldownInductive,
       NewestInductive, PlaceInductive, HistoryInductive DEF AccountsInv
  <1>3. QED
    BY <1>1, <1>2, PTL DEF MSpec

\* The types: a request never works without the address, account, worker or link
\* its step needs, although rows it has loaded may be gone or replaced meanwhile.
THEOREM TypesAreKept == MSpec => []TypeOK
  <1>1. AccountsInv => TypeOK
    BY DEF AccountsInv, Shapes, HistoryOK, NewestInv, TypeOK
  <1>2. QED
    BY <1>1, AccountsInvariant, PTL

\* Requests work with objects that may be stale, and migrations run meanwhile:
\* an account that has been verified still stays verified, since a commit writes
\* only what its request has changed (services.py:143-146, 165-169).
THEOREM VerifiedForGood == MSpec => VerificationIsKept
  <1> DEFINE Kept == \A a \in Addresses : user[a].verified /\ user'[a].id = user[a].id
                                           => user'[a].verified
  <1>1. ASSUME AccountsInv, [MNext]_allVars, NEW a \in Addresses,
               user[a].verified, user'[a].id = user[a].id
        PROVE  user'[a].verified
    <2>1. ~ Exists(a) => ~ user[a].verified
      BY <1>1 DEF AccountsInv, NameInv, Nobody
    <2>2. RowStep(a)
      BY <1>1, RowSteps DEF AccountsInv
    <2>3. user'[a] # Nobody \/ ~ Exists(a)
      BY <1>1 DEF Exists, Nobody
    <2>4. QED
      BY <1>1, <2>1, <2>2, <2>3 DEF RowStep
  <1>2. AccountsInv /\ [MNext]_allVars => [Kept]_vars
    BY <1>1
  <1>3. QED
    BY <1>2, AccountsInvariant, PTL DEF MSpec, VerificationIsKept

\* reset_password commits the password before it removes the link
\* (services.py:378-382): a link sets two passwords only if two requests used it
\* at once or one failed between its two commits.
THEOREM ReusesHaveACause == MSpec => []EveryReuseHasACause
  <1>1. AccountsInv => EveryReuseHasACause
    BY DEF AccountsInv, Shapes, ReuseInv, Explained, EveryReuseHasACause
  <1>2. QED
    BY <1>1, AccountsInvariant, PTL

\* forgot_password removes the previous links before it makes one
\* (services.py:331-343): an account has two only if two requests did so at once.
THEOREM LinksDoNotPileUp == MSpec => []OneLiveLink
  <1>1. ASSUME AccountsInv, NEW i \in Ids, Blame("crossed", i) \notin cause
        PROVE  ~ (Cardinality(LinksOf(i)) > 1)
    <2>1. \A x, y \in LinksOf(i) : x = y
      BY <1>1 DEF AccountsInv, LinkInv
    <2>2. LinksOf(i) = {} \/ \E x : LinksOf(i) = {x}
      BY <2>1
    <2>3. Cardinality(LinksOf(i)) \in {0, 1}
      BY <2>2, FS_EmptySet, FS_Singleton
    <2>4. QED
      BY <2>3
  <1>2. AccountsInv => OneLiveLink
    BY <1>1 DEF OneLiveLink
  <1>3. QED
    BY <1>2, AccountsInvariant, PTL

\* resend_verification reads the cooldown before its commit and sets it afterwards
\* (services.py:159-171): one worker resends twice within it only if two requests
\* overlapped or its table was cleared.
THEOREM SpamHasACause == MSpec => []EverySpamHasACause
  <1>1. ASSUME AccountsInv, NEW key \in spam,
               Blame("burst", key) \notin cause, Blame("cleared", key) \notin cause
        PROVE  FALSE
    BY <1>1 DEF AccountsInv, Shapes, CooldownInv
  <1>2. AccountsInv => EverySpamHasACause
    BY <1>1 DEF EverySpamHasACause
  <1>3. QED
    BY <1>2, AccountsInvariant, PTL

\* The verification link is sent after its commit, outside of any transaction
\* (services.py:165-172), while others replace it: once nothing is under way, an
\* account that waits was sent the link of its row last, or two were sent in the
\* order opposite to their commits, or the last one was never sent.
THEOREM NewestLinkIsValid == MSpec => []NewestLinkWorks
  <1>1. AccountsInv => NewestLinkWorks
    BY DEF AccountsInv, NewestInv, NewestLinkWorks, Promised, Senders, At, Excused
  <1>2. QED
    BY <1>1, AccountsInvariant, PTL
=============================================================================
