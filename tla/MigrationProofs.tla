--------------------------- MODULE MigrationProofs ---------------------------
(***************************************************************************)
(* Proofs about what the migration of StartupMigration and the requests of *)
(* Accounts do together: who is verified, who signs in, who is locked out, *)
(* and that accounts live as AccountLifecycle promises.                    *)
(***************************************************************************)
EXTENDS AccountsProofs

USE AccountsAssumption, DeployedAssumption DEF AccountsAssumption, DeployedAssumption

----------------------------------------------------------------------------
(* Columns                                                                 *)

LEMMA Listed ==
    /\ Len(ColumnMigrations) = 8
    /\ ColumnMigrations[1] = "google_id" /\ ColumnMigrations[3] = "email_verified"
    /\ AllColumns # {} /\ "email_verified" \in AllColumns
    /\ \A n \in 1..8 : ColumnMigrations[n] \in AllColumns
    /\ \A c \in AllColumns : \E n \in 1..8 : ColumnMigrations[n] = c
    /\ None \notin Instances
  BY DEF ColumnMigrations, AllColumns

\* Of the columns that are missing one is the first.
LEMMA FirstIsMissing ==
    ASSUME NEW S \in SUBSET AllColumns, S # {}
    PROVE  First(S) \in S
  <1> DEFINE In(n) == ColumnMigrations[n] \in S
             Is(n) == In(n) /\ \A m \in 1..(n - 1) : ~ In(m)
  <1>1. \E n \in 1..8 : In(n)
    BY Listed
  <1>2. \E n \in 1..8 : Is(n)
    <2> HIDE DEF In
    <2>1. In(1) \/ In(2) \/ In(3) \/ In(4) \/ In(5) \/ In(6) \/ In(7) \/ In(8)
      BY <1>1
    <2>2. QED
      BY <2>1
  <1>3. First(S) = ColumnMigrations[CHOOSE n \in 1..8 : Is(n)]
    BY Listed DEF First
  <1>4. Is(CHOOSE n \in 1..8 : Is(n))
    <2> HIDE DEF Is
    <2>1. QED
      BY <1>2
  <1>5. QED
    BY <1>3, <1>4

\* An instance that sees no column asks for email_verified only later.
LEMMA FirstOfAll == First(AllColumns) = "google_id"
  <1> DEFINE Is(n) == ColumnMigrations[n] \in AllColumns
                      /\ \A m \in 1..(n - 1) : ColumnMigrations[m] \notin AllColumns
  <1>1. Is(1) /\ \A n \in 1..8 : Is(n) => n = 1
    BY Listed
  <1>2. First(AllColumns) = ColumnMigrations[CHOOSE n \in 1..8 : Is(n)]
    BY Listed DEF First
  <1> HIDE DEF Is
  <1>3. (CHOOSE n \in 1..8 : Is(n)) = 1
    BY <1>1
  <1>4. QED
    BY <1>2, <1>3, Listed

----------------------------------------------------------------------------
(* The migration                                                           *)

\* The columns come all at once.  Who holds the lock while they are missing is the
\* only one that may add email_verified, and if it has, it will verify the users.
ColumnInv ==
    /\ columns \in {{}, AllColumns}
    /\ DOMAIN inst = Instances /\ DOMAIN missing = Instances
    /\ added \in [Instances -> BOOLEAN]
    /\ table \in BOOLEAN
    /\ table \/ columns = AllColumns
    /\ \A i \in Instances :
          /\ inst[i] = "missing" => columns = AllColumns
          /\ added[i] => holder = i /\ columns = {}
          /\ missing[i] \in AllColumns \cup {None}
          /\ inst[i] = "altering" => missing[i] \in AllColumns
          /\ inst[i] = "altering" /\ missing[i] = "email_verified" => holder = i /\ columns = {}
    /\ pending \subseteq AllColumns
    /\ "email_verified" \in pending => holder \in Instances /\ added[holder]

LEMMA ColumnInitial == MInit => ColumnInv
  <1> SUFFICES ASSUME MInit PROVE ColumnInv
    OBVIOUS
  <1>1. PICK d \in Deployed : /\ table = (d # "none")
                              /\ columns = IF d = "old" THEN {} ELSE AllColumns
    BY DEF MInit
  <1>2. table \in BOOLEAN /\ columns \in {{}, AllColumns} /\ (table \/ columns = AllColumns)
    BY <1>1
  <1>3. /\ inst = [i \in Instances |-> "down"] /\ missing = [i \in Instances |-> None]
        /\ pending = {} /\ added = [i \in Instances |-> FALSE]
    BY DEF MInit
  <1>4. QED
    BY <1>2, <1>3, Listed DEF ColumnInv

LEMMA ColumnInductive ==
    ASSUME ColumnInv, [MNext]_allVars
    PROVE  ColumnInv'
  <1> USE DEF ColumnInv, Moves
  <1>1. ASSUME NEW i \in Instances, Starts(i) \/ CreateLooks(i) PROVE ColumnInv'
    BY <1>1 DEF Starts, CreateLooks
  <1>2. ASSUME NEW i \in Instances, FindsMissing(i) PROVE ColumnInv'
    <2>1. columns = {}
      BY <1>2 DEF FindsMissing, Unseen
    <2>2. /\ Unseen(i) \subseteq AllColumns /\ Unseen(i) # {}
          /\ holder # i => Unseen(i) = AllColumns
      BY <1>2, <2>1 DEF FindsMissing, Unseen
    <2>3. First(Unseen(i)) \in AllColumns /\ (First(Unseen(i)) = "email_verified" => holder = i)
      BY <2>2, FirstIsMissing, FirstOfAll
    <2>4. QED
      BY <1>2, <2>1, <2>3 DEF FindsMissing
  <1>3. ASSUME NEW i \in Instances, Alters(i) PROVE ColumnInv'
    <2>1. /\ holder \in {None, i} /\ holder' = i /\ missing[i] \in AllColumns
          /\ missing[i] = "email_verified" => columns = {}
          /\ pending' = pending \cup {missing[i]}
          /\ missing' = [missing EXCEPT ![i] = None]
          /\ added' = [added EXCEPT ![i] = added[i] \/ missing[i] = "email_verified"]
          /\ inst' = [inst EXCEPT ![i] = "migrating"]
          /\ UNCHANGED <<table, columns>>
      BY <1>3 DEF Alters
    <2>2. \A j \in Instances \ {i} :
             ~ added[j] /\ ~ (inst[j] = "altering" /\ missing[j] = "email_verified")
      BY <2>1, Listed
    <2>3. added'[i] = (added[i] \/ missing[i] = "email_verified")
      BY <2>1
    <2>4. "email_verified" \in pending' => added'[i]
      BY <2>1, <2>3, Listed
    <2>5. QED
      BY <2>1, <2>2, <2>3, <2>4
  <1>4. ASSUME NEW i \in Instances, Releases(i), UNCHANGED <<table, columns>>,
               inst'[i] # "missing", inst'[i] # "altering",
               \A j \in Instances \ {i} : inst'[j] = inst[j], DOMAIN inst' = Instances
        PROVE  ColumnInv'
    <2>1. /\ added'[i] = FALSE /\ missing'[i] = None
          /\ added' \in [Instances -> BOOLEAN] /\ DOMAIN missing' = Instances
          /\ \A j \in Instances \ {i} : added'[j] = added[j] /\ missing'[j] = missing[j]
      BY <1>4 DEF Releases
    <2>2. CASE holder = i
      BY <1>4, <2>1, <2>2 DEF Releases
    <2>3. CASE holder # i
      BY <1>4, <2>1, <2>3 DEF Releases
    <2>4. QED
      BY <2>2, <2>3
  <1>5. ASSUME NEW i \in Instances, MigrationFails(i) \/ Stops(i) PROVE ColumnInv'
    BY <1>4, <1>5 DEF MigrationFails, Stops
  <1>6. ASSUME NEW i \in Instances, Migrates(i) PROVE ColumnInv'
    <2>1. columns' = AllColumns
      BY <1>6 DEF Migrates, Unseen
    <2>2. /\ added'[i] = FALSE /\ missing'[i] = None
          /\ added' \in [Instances -> BOOLEAN] /\ DOMAIN missing' = Instances
          /\ \A j \in Instances \ {i} : added'[j] = added[j] /\ missing'[j] = missing[j]
          /\ DOMAIN inst' = Instances /\ inst'[i] = "creating"
          /\ \A j \in Instances \ {i} : inst'[j] = inst[j]
          /\ UNCHANGED table
      BY <1>6 DEF Migrates, Releases
    <2>3. CASE holder = i
      <3>1. holder' = None /\ pending' = {}
        BY <1>6, <2>3 DEF Migrates, Releases
      <3>2. \A j \in Instances \ {i} :
               ~ added[j] /\ ~ (inst[j] = "altering" /\ missing[j] = "email_verified")
        BY <2>3
      <3>3. QED
        BY <2>1, <2>2, <3>1, <3>2
    <2>4. CASE holder # i
      <3>1. columns = AllColumns
        BY <1>6, <2>4 DEF Migrates, Unseen
      <3>2. UNCHANGED <<holder, pending>>
        BY <1>6, <2>4 DEF Migrates, Releases
      <3>3. QED
        BY <2>1, <2>2, <2>4, <3>1, <3>2, Listed
    <2>5. QED
      BY <2>3, <2>4
  <1>7. ASSUME NEW i \in Instances, Creates(i) PROVE ColumnInv'
    BY <1>7, Listed DEF Creates
  <1>8. CASE UNCHANGED migration
    BY <1>8 DEF migration
  <1>9. QED
    BY <1>1, <1>2, <1>3, <1>5, <1>6, <1>7, <1>8 DEF MNext, Migration, allVars

----------------------------------------------------------------------------
(* Whose address is proven                                                 *)

\* A row that opens the door, by password or by Google.
Trusted(u) == u.id # None /\ (u.verified \/ u.provider = "google" \/ u.google)

\* OnlyProvenSignIn and what it takes: every row that opens the door is of a proven
\* address, so is every account a sign-in has got past the door for, and while
\* columns are missing there are only accounts from before.
ProofInv ==
    /\ signed \subseteq proven
    /\ \A a \in Addresses : Trusted(user[a]) => user[a].id \in proven
    /\ \A r \in Requests : pc[r] \in {"recording", "linking"} => obj[r].id \in proven
    /\ columns = {} => \A a \in Addresses : Exists(a) => user[a].id \in proven

\* The accounts from before have the names of their addresses.
LEMMA InitialRows ==
    ASSUME MInit, NEW a \in Addresses
    PROVE  /\ Exists(a) => user[a].id = a
           /\ user[a].id = a /\ columns # {} => user[a].verified
  <1>1. Nobody.id = None
    BY DEF Nobody
  <1>2. \A b \in Addresses : /\ Grandfathered(b).id = b /\ Grandfathered(b).verified
                             /\ Old(b).id = b
    BY DEF Grandfathered, Old, Nobody
  <1>3. ASSUME NEW rows, InitWith(rows) PROVE user = rows
    BY <1>3 DEF InitWith
  <1>4. CASE user = Before(None, Nobody)
    BY <1>1, <1>4 DEF Before, Exists
  <1>5. ASSUME NEW b \in Addresses, user = Before(b, Grandfathered(b))
        PROVE  /\ Exists(a) => user[a].id = a
               /\ user[a].id = a => user[a].verified
    BY <1>1, <1>2, <1>5 DEF Before, Exists
  <1>6. ASSUME NEW b \in Addresses, user = Before(b, Old(b))
        PROVE  Exists(a) => user[a].id = a
    BY <1>1, <1>2, <1>6 DEF Before, Exists
  <1>7. QED
    BY <1>3, <1>4, <1>5, <1>6 DEF MInit

LEMMA ProofInitial == MInit => ProofInv
  <1>1. ASSUME NEW rows, InitWith(rows)
        PROVE  /\ proven = {a \in Addresses : Exists(a)} /\ signed = {}
               /\ \A r \in Requests : pc[r] = "idle"
    BY <1>1 DEF InitWith
  <1>2. QED
    BY <1>1, InitialRows DEF MInit, ProofInv, Trusted, Exists

\* Steps of requests that sign nobody in and get nobody past the door.
LEMMA ProofFrame ==
    ASSUME Shapes, ProofInv, NEW r \in Requests, Alone(r),
           signed' = signed, proven \subseteq proven', columns' # {},
           pc'[r] \notin {"recording", "linking"},
           \A a \in Addresses : Trusted(user'[a]) => user'[a].id \in proven'
    PROVE  ProofInv'
  BY DEF ProofInv, Alone

LEMMA ProofInductive ==
    ASSUME Shapes, NameInv, ColumnInv, ProofInv, [MNext]_allVars
    PROVE  ProofInv'
  <1>1. CASE Serving /\ Next /\ UNCHANGED migration
    <2>0. columns' # {}
      BY <1>1, Listed DEF Serving, migration
    <2>1. ASSUME NEW r \in Requests, Register(r) \/ Verify(r) \/ Resend(r) PROVE ProofInv'
      <3>1. Alone(r)
        BY <2>1, Turns
      <3>2. signed' = signed /\ proven \subseteq proven'
        <4>1. CASE Register(r)
          BY <4>1
             DEF Register, RegisterLooks, RegisterInserts, RegisterRefreshes, RegisterSends,
             Refused, history
        <4>2. CASE Verify(r)
          BY <4>2 DEF Verify, VerifyLooks, VerifyCommits, Refused, history
        <4>3. CASE Resend(r)
          BY <4>3 DEF Resend, ResendLooks, ResendCommits, ResendSends, Refused, history
        <4>4. QED
          BY <2>1, <4>1, <4>2, <4>3
      <3>3. pc'[r] \notin {"recording", "linking"}
        BY <2>1
           DEF Register, RegisterLooks, RegisterInserts, RegisterRefreshes, RegisterSends,
           Sends, Verify, VerifyLooks, VerifyCommits, Resend, ResendLooks, ResendCommits,
           ResendSends, Refused, Ends, Goto, Shapes
      <3>4. ASSUME NEW a \in Addresses, Trusted(user'[a]) PROVE user'[a].id \in proven'
        <4>1. CASE RegisterInserts(r)
          BY <3>2, <3>4, <4>1 DEF RegisterInserts, Trusted, ProofInv, Shapes
        <4>2. CASE VerifyCommits(r)
          <5>1. /\ obj[r].addr \in Addresses /\ proven' = proven \cup {user[obj[r].addr].id}
                /\ user' = [user EXCEPT ![obj[r].addr] = Verified(user[obj[r].addr])]
            BY <4>2 DEF VerifyCommits, Still
          <5>2. \A u \in User : Verified(u).id = u.id
            BY DEF Verified, User
          <5>3. QED
            BY <3>4, <5>1, <5>2 DEF Trusted, ProofInv, Shapes
        <4>3. CASE ResendCommits(r)
          <5>1. user' = [user EXCEPT ![obj[r].addr].token = r] /\ obj[r].addr \in Addresses
            BY <4>3 DEF ResendCommits, Still
          <5>2. \A u \in User : /\ [u EXCEPT !.token = r].id = u.id
                                /\ [u EXCEPT !.token = r].verified = u.verified
                                /\ [u EXCEPT !.token = r].provider = u.provider
                                /\ [u EXCEPT !.token = r].google = u.google
            BY DEF User
          <5>3. QED
            BY <3>2, <3>4, <5>1, <5>2 DEF Trusted, ProofInv, Shapes
        <4>4. CASE UNCHANGED user
          BY <3>2, <3>4, <4>4 DEF ProofInv
        <4>5. QED
          BY <2>1, <4>1, <4>2, <4>3, <4>4
             DEF Register, RegisterLooks, RegisterRefreshes, RegisterSends, Verify, VerifyLooks,
                 Resend, ResendLooks, ResendSends, Refused, database
      <3>5. QED
        BY <2>0, <3>1, <3>2, <3>3, <3>4, ProofFrame
    <2>2. ASSUME NEW r \in Requests, Forgot(r) \/ ResetPassword(r) \/ Administer(r) \/ Fails(r)
          PROVE  ProofInv'
      <3>1. Alone(r)
        BY <2>2, Turns
      <3>2. signed' = signed /\ proven' = proven
        BY <2>2
           DEF Forgot, ForgotLooks, ForgotClears, ForgotInserts, ForgotSends, ResetPassword,
           ResetLooks, ResetCommits, ResetDeletes, Administer, Delete, Fails, Refused, history
      <3>3. pc'[r] \notin {"recording", "linking"}
        BY <2>2
           DEF Forgot, ForgotLooks, ForgotClears, ForgotInserts, ForgotSends, ResetPassword,
           ResetLooks, ResetCommits, ResetDeletes, Administer, Delete, Fails, Refused, Ends, Goto,
           Shapes
      <3>4. ASSUME NEW a \in Addresses, Trusted(user'[a]) PROVE user'[a].id \in proven'
        <4>1. CASE ResetCommits(r)
          <5>1. user' = [user EXCEPT ![obj[r].addr].password = TRUE] /\ obj[r].addr \in Addresses
            BY <4>1 DEF ResetCommits, Still
          <5>2. \A u \in User : /\ [u EXCEPT !.password = TRUE].id = u.id
                                /\ [u EXCEPT !.password = TRUE].verified = u.verified
                                /\ [u EXCEPT !.password = TRUE].provider = u.provider
                                /\ [u EXCEPT !.password = TRUE].google = u.google
            BY DEF User
          <5>3. QED
            BY <3>2, <3>4, <5>1, <5>2 DEF Trusted, ProofInv, Shapes
        <4>2. ASSUME NEW b \in Addresses, Delete(r, b) PROVE user'[a].id \in proven'
          BY <3>2, <3>4, <4>2 DEF Delete, Trusted, ProofInv, Shapes, Nobody
        <4>3. CASE UNCHANGED user
          BY <3>2, <3>4, <4>3 DEF ProofInv
        <4>4. QED
          BY <2>2, <4>1, <4>2, <4>3
             DEF Forgot, ForgotLooks, ForgotClears, ForgotInserts, ForgotSends, ResetPassword,
                 ResetLooks, ResetDeletes, Administer, Fails, Refused, database
      <3>5. QED
        BY <2>0, <3>1, <3>2, <3>3, <3>4, ProofFrame
    <2>3. ASSUME NEW r \in Requests, SignIn(r) PROVE ProofInv'
      <3>1. Alone(r) /\ proven \subseteq proven'
        BY <2>3, Turns DEF SignIn, LoginLooks, LoginRecords, GoogleLooks, GoogleCreates,
           GoogleLinks, Refused, history
      <3>2. ASSUME NEW a \in Addresses, LoginLooks(r, a) PROVE ProofInv'
        <4>1. CASE Refused(r)
          <5>1. pc'[r] = "done" /\ UNCHANGED <<signed, proven, user>>
            BY <4>1 DEF Refused, Ends, Goto, Shapes, history, database
          <5>2. QED
            BY <2>0, <3>1, <5>1, ProofFrame DEF ProofInv
        <4>2. CASE ~ Refused(r)
          <5>1. /\ Trusted(user[a]) /\ obj'[r].id = user[a].id /\ UNCHANGED <<signed, proven, user>>
            BY <3>2, <4>2
               DEF LoginLooks, Trusted, Exists, Loads, Shapes, User, history, database
          <5>2. QED
            BY <2>0, <3>1, <5>1 DEF ProofInv, Alone
        <4>3. QED
          BY <4>1, <4>2
      <3>3. CASE LoginRecords(r)
        <4>1. /\ pc[r] = "recording" /\ signed' = signed \cup {obj[r].id} /\ UNCHANGED <<user, proven>>
              /\ pc'[r] = "done"
          BY <3>3 DEF LoginRecords, Ends, Goto, Shapes, database
        <4>2. QED
          BY <2>0, <3>1, <4>1 DEF ProofInv, Alone
      <3>4. ASSUME NEW e \in Addresses, GoogleLooks(r, e) PROVE ProofInv'
        <4>1. CASE Matches(Lower[e]) = {}
          <5>1. pc'[r] = "creating" /\ UNCHANGED <<signed, proven, user>>
            BY <3>4, <4>1 DEF GoogleLooks, Goto, Shapes, history, database
          <5>2. QED
            BY <2>0, <3>1, <5>1, ProofFrame DEF ProofInv
        <4>2. CASE Matches(Lower[e]) # {}
          <5>1. PICK a \in Matches(Lower[e]) :
                   /\ Loads(r, a) /\ UNCHANGED <<user, signed>>
                   /\ proven' = IF a = Lower[e] THEN proven \cup {user[a].id} ELSE proven
            BY <3>4, <4>2 DEF GoogleLooks, database
          <5>2. a \in Addresses /\ (a # Lower[e] => Trusted(user[a]))
            <6>1. Lower[e] \in Addresses
              OBVIOUS
            <6>2. a = Lower[e] \/ a \in Linked
              BY DEF Matches
            <6>3. QED
              BY <6>1, <6>2 DEF Linked, Exists, Trusted
          <5>3. obj'[r].id = user[a].id /\ user[a].id \in proven'
            BY <5>1, <5>2 DEF Loads, Shapes, ProofInv
          <5>4. QED
            BY <2>0, <3>1, <5>1, <5>3 DEF ProofInv, Alone
        <4>3. QED
          BY <4>1, <4>2
      <3>5. CASE GoogleCreates(r)
        <4>1. \E u \in User : u.id = r /\ user' = [user EXCEPT ![obj[r].addr] = u]
          BY <3>5, Constants DEF GoogleCreates
        <4>2. /\ proven' = proven \cup {r} /\ signed' = signed /\ obj'[r].id = r
          BY <3>5, Objects DEF GoogleCreates, Shapes, Loaded
        <4>3. \A a \in Addresses : Trusted(user'[a]) => user'[a].id \in proven'
          BY <4>1, <4>2 DEF ProofInv, Shapes
        <4>4. QED
          BY <2>0, <3>1, <4>2, <4>3 DEF ProofInv, Alone
      <3>6. CASE GoogleLinks(r)
        <4>1. /\ pc[r] = "linking" /\ obj[r].addr \in Addresses /\ user[obj[r].addr].id = obj[r].id
              /\ UNCHANGED <<obj, proven, signed>>
          BY <3>6 DEF GoogleLinks, Still, history
        <4>2. \A a \in Addresses : user'[a] = user[a] \/ user'[a].id = obj[r].id
          BY <3>6, <4>1, Linking DEF Shapes
        <4>3. obj[r].id \in proven
          BY <4>1 DEF ProofInv
        <4>4. QED
          BY <2>0, <3>1, <4>1, <4>2, <4>3 DEF ProofInv, Alone
      <3>7. QED
        BY <2>3, <3>2, <3>3, <3>4, <3>5, <3>6 DEF SignIn
    <2>4. CASE \/ \E w \in Workers : TableCleared(w)
               \/ \E key \in Workers \X Addresses : CooldownEnds(key)
      BY <2>0, <2>4 DEF TableCleared, CooldownEnds, ProofInv, database, local
    <2>5. QED
      BY <1>1, <2>1, <2>2, <2>3, <2>4 DEF Next
  <1>2. ASSUME NEW i \in Instances, Migrates(i) PROVE ProofInv'
    <2>1. columns' # {} /\ UNCHANGED <<signed, proven, pc, obj>>
      BY <1>2, Listed DEF Migrates, Unseen, local, history
    <2>2. ASSUME NEW a \in Addresses, Trusted(user'[a]) PROVE user'[a].id \in proven
      <3>1. CASE added[i]
        <4>1. columns = {}
          BY <3>1 DEF ColumnInv
        <4>2. user'[a].id = user[a].id
          <5>1. [user[a] EXCEPT !.verified = TRUE].id = user[a].id
            BY DEF Shapes, User
          <5>2. QED
            BY <1>2, <2>2, <3>1, <5>1 DEF Migrates, Trusted, Nobody
        <4>3. QED
          BY <2>2, <4>1, <4>2 DEF ProofInv, Exists, Trusted
      <3>2. CASE ~ added[i]
        BY <1>2, <2>2, <3>2 DEF Migrates, ProofInv
      <3>3. QED
        BY <3>1, <3>2
    <2>3. QED
      BY <2>1, <2>2 DEF ProofInv
  <1>3. CASE UNCHANGED vars
    <2>1. columns' = {} => columns = {}
      <3>1. CASE Migration
        BY <3>1, Listed
           DEF Migration, Starts, FindsMissing, Alters, MigrationFails, CreateLooks,
           Creates, Stops, Migrates
      <3>2. CASE UNCHANGED migration
        BY <3>2 DEF migration
      <3>3. QED
        BY <3>1, <3>2 DEF MNext, allVars
    <2>2. QED
      BY <1>3, <2>1 DEF ProofInv, vars, database, local, history, Exists
  <1>4. QED
    BY <1>1, <1>2, <1>3, MigrationLeaves DEF MNext, allVars

----------------------------------------------------------------------------
(* Theorems                                                                *)

MigrationInv == AccountsInv /\ ColumnInv /\ ProofInv /\ NobodyLockedOut

LEMMA LockedOutInitial == MInit => NobodyLockedOut
  BY InitialRows, Listed DEF NobodyLockedOut

LEMMA LockedOutInductive ==
    ASSUME Shapes, NameInv, ColumnInv, NobodyLockedOut, [MNext]_allVars
    PROVE  NobodyLockedOut'
  <1>1. SUFFICES ASSUME AllColumns \subseteq columns', NEW a \in Addresses, user'[a].id = a
                 PROVE  user'[a].verified
    BY DEF NobodyLockedOut
  <1>2. CASE AllColumns \subseteq columns
    <2>1. user[a].id = a => user[a].verified
      BY <1>2 DEF NobodyLockedOut
    <2>2. RowStep(a)
      BY RowSteps
    <2>3. Nobody.id # a
      BY DEF Nobody
    <2>4. QED
      BY <1>1, <2>1, <2>2, <2>3 DEF RowStep
  <1>3. CASE ~ (AllColumns \subseteq columns)
    <2>1. columns = {}
      BY <1>3 DEF ColumnInv
    <2>2. PICK i \in Instances : Migrates(i)
      <3>1. CASE Serving /\ Next /\ UNCHANGED migration
        BY <1>3, <3>1 DEF Serving
      <3>2. CASE Migration
        BY <1>1, <1>3, <3>2 DEF Migration, Starts, FindsMissing, Alters, MigrationFails,
           CreateLooks, Creates, Stops, ColumnInv
      <3>3. CASE UNCHANGED allVars
        BY <1>1, <1>3, <3>3 DEF allVars, migration
      <3>4. QED
        BY <3>1, <3>2, <3>3 DEF MNext
    <2>3. holder = i /\ "email_verified" \in pending
      BY <2>1, <2>2, Listed DEF Migrates, Unseen
    <2>4. added[i]
      BY <2>3 DEF ColumnInv
    <2>5. [user[a] EXCEPT !.verified = TRUE].verified
      BY DEF Shapes, User
    <2>6. user'[a] = IF Exists(a) THEN [user[a] EXCEPT !.verified = TRUE] ELSE Nobody
      BY <2>2, <2>4 DEF Migrates
    <2>7. Nobody.id # a
      BY DEF Nobody
    <2>8. QED
      BY <1>1, <2>5, <2>6, <2>7
  <1>4. QED
    BY <1>2, <1>3

LEMMA MigrationInvariant == MSpec => []MigrationInv
  <1>1. MInit => ColumnInv /\ ProofInv /\ NobodyLockedOut
    BY ColumnInitial, ProofInitial, LockedOutInitial
  <1>2. /\ AccountsInv /\ ColumnInv /\ ProofInv /\ NobodyLockedOut /\ [MNext]_allVars
        => ColumnInv' /\ ProofInv' /\ NobodyLockedOut'
    BY ColumnInductive, ProofInductive, LockedOutInductive DEF AccountsInv
  <1>3. QED
    BY <1>1, <1>2, AccountsInvariant, PTL DEF MSpec, MigrationInv

\* "so nobody is locked out" (core/migrations.py:12-13): once the columns are there,
\* every account from before the requirement is verified, in the transaction that
\* brought them.
THEOREM OldAccountsAreVerified == MSpec => []NobodyLockedOut
  <1>1. MigrationInv => NobodyLockedOut
    BY DEF MigrationInv
  <1>2. QED
    BY <1>1, MigrationInvariant, PTL

----------------------------------------------------------------------------
(* The life of an account                                                  *)

\* Only an account made with a password waits for its verification, and who is past
\* the door of an account that is still there finds it verified.
DoorInv ==
    /\ \A a \in Addresses : user[a].provider = "google" => user[a].verified
    /\ \A r \in Requests : pc[r] = "recording" /\ Still(r) => user[obj[r].addr].verified
    /\ \A r \in Requests : pc[r] = "creating" => obj[r].addr \in Addresses

LEMMA FirstRows ==
    ASSUME MInit
    PROVE  \/ user = Before(None, Nobody)
           \/ \E b \in Addresses : user \in {Before(b, Grandfathered(b)), Before(b, Old(b))}
  <1>1. ASSUME NEW rows, InitWith(rows) PROVE user = rows
    BY <1>1 DEF InitWith
  <1>2. QED
    BY <1>1 DEF MInit

LEMMA DoorInitial == MInit => DoorInv
  <1> SUFFICES ASSUME MInit PROVE DoorInv
    OBVIOUS
  <1>1. \A r \in Requests : pc[r] = "idle"
    <2>1. ASSUME NEW rows, InitWith(rows) PROVE \A r \in Requests : pc[r] = "idle"
      BY <2>1 DEF InitWith
    <2>2. QED
      BY <2>1 DEF MInit
  <1>2. Nobody.provider = "email"
        /\ \A b : Grandfathered(b).provider = "email" /\ Old(b).provider = "email"
    BY DEF Old, Grandfathered, Nobody
  <1>3. ASSUME NEW a \in Addresses PROVE user[a].provider = "email"
    <2>1. CASE user = Before(None, Nobody)
      BY <1>2, <2>1 DEF Before
    <2>2. ASSUME NEW b \in Addresses, user \in {Before(b, Grandfathered(b)), Before(b, Old(b))}
          PROVE  user[a].provider = "email"
      BY <1>2, <2>2 DEF Before
    <2>3. QED
      BY <2>1, <2>2, FirstRows
  <1>4. QED
    BY <1>1, <1>3 DEF DoorInv

\* A step that gets nobody past the door and closes no account.
LEMMA DoorFrame ==
    ASSUME Shapes, NameInv, DoorInv, \A a \in Addresses : RowStep(a),
           \A a \in Addresses : user'[a].provider = "google" => user'[a].verified,
           \A r \in Requests : pc'[r] \in {"recording", "creating"} =>
                                  pc'[r] = pc[r] /\ obj'[r] = obj[r]
    PROVE  DoorInv'
  <1>1. ASSUME NEW r \in Requests, pc'[r] = "recording", Still(r)'
        PROVE  user'[obj'[r].addr].verified
    <2>1. /\ pc[r] = "recording" /\ obj'[r] = obj[r]
          /\ obj[r].addr \in Addresses /\ user'[obj[r].addr].id = obj[r].id
          /\ obj[r].id \in Started \cup Addresses /\ obj[r].id # None
      BY <1>1 DEF Still, NameInv
    <2>2. user[obj[r].addr].id = obj[r].id
      BY <2>1 DEF RowStep, Nobody
    <2>3. user[obj[r].addr].verified
      BY <2>1, <2>2 DEF DoorInv, Still
    <2>4. QED
      BY <2>1, <2>2, <2>3 DEF RowStep, Nobody
  <1>2. QED
    BY <1>1 DEF DoorInv

LEMMA Providers ==
    ASSUME Shapes, NameInv, DoorInv, [MNext]_allVars, NEW a \in Addresses,
           user'[a].provider = "google"
    PROVE  user'[a].verified
  <1>1. CASE UNCHANGED user
    BY <1>1 DEF DoorInv
  <1>2. ASSUME NEW r \in Requests, RegisterInserts(r) \/ GoogleCreates(r) PROVE user'[a].verified
    BY <1>2 DEF RegisterInserts, GoogleCreates, Shapes, DoorInv
  <1>3. ASSUME NEW r \in Requests, VerifyCommits(r) \/ ResendCommits(r) \/ ResetCommits(r)
        PROVE  user'[a].verified
    <2>1. \A u \in User :
             /\ Verified(u).verified
             /\ [u EXCEPT !.token = r].provider = u.provider
             /\ [u EXCEPT !.token = r].verified = u.verified
             /\ [u EXCEPT !.password = TRUE].provider = u.provider
             /\ [u EXCEPT !.password = TRUE].verified = u.verified
      BY DEF Verified, User
    <2>2. CASE VerifyCommits(r)
      BY <2>1, <2>2 DEF VerifyCommits, Shapes, DoorInv
    <2>3. CASE ResendCommits(r)
      BY <2>1, <2>3 DEF ResendCommits, Shapes, DoorInv
    <2>4. CASE ResetCommits(r)
      BY <2>1, <2>4 DEF ResetCommits, Shapes, DoorInv
    <2>5. QED
      BY <1>3, <2>2, <2>3, <2>4
  <1>4. ASSUME NEW r \in Requests, GoogleLinks(r) PROVE user'[a].verified
    BY <1>4, Linking DEF Shapes, DoorInv
  <1>5. ASSUME NEW r \in Requests, NEW b \in Addresses, Delete(r, b) PROVE user'[a].verified
    BY <1>5 DEF Delete, Shapes, DoorInv, Nobody
  <1>6. ASSUME NEW i \in Instances, Migrates(i) PROVE user'[a].verified
    <2>1. \A u \in User : [u EXCEPT !.verified = TRUE].verified
      BY DEF User
    <2>2. QED
      BY <1>6, <2>1 DEF Migrates, Shapes, DoorInv, Nobody
  <1>7. QED
    BY <1>1, <1>2, <1>3, <1>4, <1>5, <1>6, RowWriters

LEMMA DoorInductive ==
    ASSUME Shapes, NameInv, DoorInv, [MNext]_allVars
    PROVE  DoorInv'
  <1>0. /\ \A a \in Addresses : RowStep(a)
        /\ \A a \in Addresses : user'[a].provider = "google" => user'[a].verified
    BY RowSteps, Providers
  <1>1. ASSUME NEW r \in Requests,
               \/ Register(r) \/ Verify(r) \/ Resend(r)
               \/ Forgot(r) \/ ResetPassword(r) \/ Administer(r) \/ Fails(r)
        PROVE  DoorInv'
    <2>1. Alone(r)
      BY <1>1, Turns
    <2>2. pc'[r] \notin {"recording", "creating"}
      <3>1. CASE Register(r) \/ Verify(r) \/ Resend(r)
        BY <3>1
           DEF Register, RegisterLooks, RegisterInserts, RegisterRefreshes, RegisterSends,
           Sends, Verify, VerifyLooks, VerifyCommits, Resend, ResendLooks, ResendCommits,
           ResendSends, Refused, Ends, Goto, Shapes
      <3>2. CASE Forgot(r) \/ ResetPassword(r) \/ Administer(r) \/ Fails(r)
        BY <3>2
           DEF Forgot, ForgotLooks, ForgotClears, ForgotInserts, ForgotSends, ResetPassword,
           ResetLooks, ResetCommits, ResetDeletes, Administer, Delete, Fails, Refused, Ends, Goto,
           Shapes
      <3>3. QED
        BY <1>1, <3>1, <3>2
    <2>3. QED
      BY <1>0, <2>1, <2>2, DoorFrame DEF Alone
  <1>2. ASSUME NEW r \in Requests, SignIn(r) PROVE DoorInv'
    <2>1. Alone(r)
      BY <1>2, Turns
    <2>2. ASSUME \/ pc'[r] # "recording"
                 \/ Still(r)' => user'[obj'[r].addr].verified,
                 pc'[r] = "creating" => obj'[r].addr \in Addresses
          PROVE  DoorInv'
      <3>1. ASSUME NEW q \in Requests \ {r}, pc'[q] = "recording", Still(q)'
            PROVE  user'[obj'[q].addr].verified
        <4>1. /\ pc[q] = "recording" /\ obj'[q] = obj[q]
              /\ obj[q].addr \in Addresses /\ user'[obj[q].addr].id = obj[q].id
              /\ obj[q].id \in Started \cup Addresses /\ obj[q].id # None
          BY <2>1, <3>1 DEF Alone, Still, NameInv
        <4>2. user[obj[q].addr].id = obj[q].id
          BY <1>0, <4>1 DEF RowStep, Nobody
        <4>3. user[obj[q].addr].verified
          BY <4>1, <4>2 DEF DoorInv, Still
        <4>4. QED
          BY <1>0, <4>1, <4>2, <4>3 DEF RowStep, Nobody
      <3>2. QED
        BY <1>0, <2>1, <2>2, <3>1 DEF DoorInv, Alone
    <2>3. ASSUME NEW a \in Addresses, LoginLooks(r, a) PROVE DoorInv'
      <3>1. CASE Refused(r)
        BY <2>2, <3>1 DEF Refused, Ends, Goto, Shapes
      <3>2. CASE ~ Refused(r)
        <4>1. /\ user[a].provider # "email" \/ user[a].verified
              /\ obj'[r].addr = a /\ user' = user
          BY <2>3, <3>2 DEF LoginLooks, Loads, Shapes, database
        <4>2. user[a].verified
          BY <4>1 DEF Shapes, User, DoorInv
        <4>3. QED
          BY <2>2, <2>3, <3>2, <4>1, <4>2 DEF LoginLooks, Goto, Shapes
      <3>3. QED
        BY <3>1, <3>2
    <2>4. ASSUME NEW e \in Addresses, GoogleLooks(r, e) PROVE DoorInv'
      <3>1. Lower[e] \in Addresses
        OBVIOUS
      <3>2. QED
        BY <2>2, <2>4, <3>1 DEF GoogleLooks, Loads, Goto, Shapes
    <2>5. CASE GoogleCreates(r)
      <3>1. /\ obj[r].addr \in Addresses \cup {None}
            /\ obj' = [obj EXCEPT ![r].id = r]
            /\ user' = [user EXCEPT ![obj[r].addr] =
                          [id |-> r, provider |-> "google", verified |-> TRUE, token |-> None,
                           google |-> TRUE, password |-> FALSE]]
        BY <2>5, Objects DEF GoogleCreates
      <3>2. obj'[r].addr = obj[r].addr
        BY <3>1, Objects DEF Shapes, Loaded
      <3>3. Still(r)' => user'[obj'[r].addr].verified
        BY <3>1, <3>2 DEF Still, Shapes
      <3>4. QED
        BY <2>2, <2>5, <3>3 DEF GoogleCreates, Goto, Shapes
    <2>6. CASE GoogleLinks(r)
      <3>1. obj' = obj /\ user'[obj[r].addr].verified
        <4>1. user[obj[r].addr].provider # "email" => user[obj[r].addr].verified
          BY <2>6, Linking DEF Shapes, User, DoorInv
        <4>2. QED
          BY <2>6, <4>1, Linking DEF GoogleLinks
      <3>2. QED
        BY <2>2, <2>6, <3>1 DEF GoogleLinks, Goto, Shapes
    <2>7. CASE LoginRecords(r)
      BY <2>2, <2>7 DEF LoginRecords, Ends, Goto, Shapes
    <2>8. QED
      BY <1>2, <2>3, <2>4, <2>5, <2>6, <2>7 DEF SignIn
  <1>3. CASE \/ \E w \in Workers : TableCleared(w)
             \/ \E key \in Workers \X Addresses : CooldownEnds(key)
             \/ \E i \in Instances : Migrates(i)
             \/ UNCHANGED vars
    <2>1. UNCHANGED <<pc, obj>>
      BY <1>3 DEF TableCleared, CooldownEnds, Migrates, vars, local
    <2>2. QED
      BY <1>0, <2>1, DoorFrame
  <1>4. QED
    BY <1>1, <1>2, <1>3, MigrationLeaves DEF MNext, Next, allVars

\* The accounts there are at any time.
LEMMA Population ==
    ASSUME Shapes, NameInv
    PROVE  AL!Apart /\ Usable \subseteq Present
  <1>1. \A a \in Addresses : user[a].verified => Exists(a)
    BY DEF NameInv, Nobody
  <1>2. QED
    BY <1>1 DEF NameInv, Present, Usable, Exists, Ids, Started, AL!Apart

\* New proofs of an address are of accounts that are there, and sign-ins are of
\* accounts that are verified.
LEMMA Histories ==
    ASSUME Shapes, NameInv, DoorInv, [MNext]_allVars
    PROVE  /\ proven \subseteq proven' /\ proven' \ proven \subseteq Present'
           /\ signed \subseteq signed' /\ signed' \ signed \subseteq Usable \cap Usable'
  <1>1. CASE UNCHANGED <<proven, signed>>
    BY <1>1
  <1>2. ASSUME NEW r \in Requests, VerifyCommits(r) PROVE
               signed' = signed /\ proven' = proven \cup {obj[r].id} /\ obj[r].id \in Present'
    <2>1. /\ obj[r].addr \in Addresses /\ obj[r].id # None /\ user[obj[r].addr].id = obj[r].id
          /\ user' = [user EXCEPT ![obj[r].addr] = Verified(user[obj[r].addr])]
      BY <1>2 DEF VerifyCommits, Still
    <2>2. Verified(user[obj[r].addr]).id = user[obj[r].addr].id
      BY <2>1 DEF Verified, Shapes, User
    <2>3. user'[obj[r].addr].id = obj[r].id
      BY <2>1, <2>2 DEF Shapes
    <2>4. QED
      BY <1>2, <2>1, <2>3 DEF VerifyCommits, Present
  <1>3. ASSUME NEW r \in Requests, GoogleCreates(r) PROVE
               signed' = signed /\ proven' = proven \cup {r} /\ r \in Present'
    <2>1. obj[r].addr \in Addresses /\ user'[obj[r].addr].id = r
      BY <1>3 DEF GoogleCreates, Shapes, DoorInv
    <2>2. QED
      BY <1>3, <2>1 DEF GoogleCreates, Present
  <1>4. ASSUME NEW r \in Requests, NEW e \in Addresses, GoogleLooks(r, e) PROVE
               /\ signed' = signed /\ proven \subseteq proven' /\ proven' \ proven \subseteq Present'
    <2>1. CASE Matches(Lower[e]) = {}
      BY <1>4, <2>1 DEF GoogleLooks, history
    <2>2. CASE Matches(Lower[e]) # {}
      <3>1. PICK a \in Matches(Lower[e]) :
               /\ proven' = IF a = Lower[e] THEN proven \cup {user[a].id} ELSE proven
               /\ UNCHANGED <<user, signed>>
        BY <1>4, <2>2 DEF GoogleLooks, database
      <3>2. a \in Addresses /\ Exists(a)
        BY DEF Matches, Linked
      <3>3. user[a].id \in Present'
        BY <3>1, <3>2 DEF Present, Exists
      <3>4. QED
        BY <3>1, <3>3
    <2>3. QED
      BY <2>1, <2>2
  <1>5. ASSUME NEW r \in Requests, LoginRecords(r) PROVE
               /\ proven' = proven /\ signed' = signed \cup {obj[r].id}
               /\ obj[r].id \in Usable \cap Usable'
    <2>1. /\ obj[r].addr \in Addresses /\ user[obj[r].addr].id = obj[r].id
          /\ user[obj[r].addr].verified /\ user' = user
      BY <1>5 DEF LoginRecords, DoorInv, Still, database
    <2>2. QED
      BY <1>5, <2>1 DEF LoginRecords, Usable
  <1>6. ASSUME NEW r \in Requests PROVE
          /\ Register(r) => UNCHANGED <<proven, signed>>
          /\ Verify(r) => VerifyCommits(r) \/ UNCHANGED <<proven, signed>>
          /\ Resend(r) => UNCHANGED <<proven, signed>>
          /\ Forgot(r) => UNCHANGED <<proven, signed>>
          /\ ResetPassword(r) \/ Administer(r) \/ Fails(r) => UNCHANGED <<proven, signed>>
    BY
       DEF Register, RegisterLooks, RegisterInserts, RegisterRefreshes, RegisterSends,
           Verify,
           VerifyLooks, Resend, ResendLooks, ResendCommits, ResendSends, Forgot, ForgotLooks,
           ForgotClears, ForgotInserts, ForgotSends, ResetPassword, ResetLooks, ResetCommits,
           ResetDeletes, Administer, Delete, Fails, Refused, history
  <1>7. ASSUME NEW r \in Requests, SignIn(r) PROVE
          \/ GoogleCreates(r) \/ LoginRecords(r) \/ (\E e \in Addresses : GoogleLooks(r, e))
          \/ UNCHANGED <<proven, signed>>
    BY <1>7 DEF SignIn, LoginLooks, GoogleLinks, Refused, history
  <1>8. ASSUME \/ \E w \in Workers : TableCleared(w)
               \/ \E key \in Workers \X Addresses : CooldownEnds(key)
               \/ \E i \in Instances : Migrates(i)
               \/ UNCHANGED vars
        PROVE  UNCHANGED <<proven, signed>>
    BY <1>8 DEF TableCleared, CooldownEnds, Migrates, vars, history
  <1>9. QED
    BY <1>1, <1>2, <1>3, <1>4, <1>5, <1>6, <1>7, <1>8, MigrationLeaves
       DEF MNext, Next, allVars

\* A registration that will be answered with an access token is of an account whose
\* address was confirmed when its row was read again: it is open, or gone.
WelcomeInv ==
    /\ welcomed \subseteq proven
    /\ \A r \in Requests : pc[r] = "sending" /\ obj[r].welcome =>
          /\ obj[r].id \in proven
          /\ \A a \in Addresses : user[a].id = obj[r].id => user[a].verified

LEMMA WelcomeInitial == MInit => WelcomeInv
  <1>1. ASSUME NEW rows, InitWith(rows) PROVE WelcomeInv
    BY <1>1 DEF InitWith, WelcomeInv
  <1>2. QED
    BY <1>1 DEF MInit

\* The refresh of a registration is the only way to its last step.
LEMMA OnlyRefreshed ==
    ASSUME Shapes, [MNext]_allVars, NEW r \in Requests, pc'[r] = "sending"
    PROVE  \/ RegisterRefreshes(r)
           \/ pc[r] = "sending" /\ obj'[r] = obj[r]
  <1>1. ASSUME NEW q \in Requests \ {r},
               \/ Register(q) \/ Verify(q) \/ Resend(q) \/ SignIn(q)
               \/ Forgot(q) \/ ResetPassword(q) \/ Administer(q) \/ Fails(q)
        PROVE  pc[r] = "sending" /\ obj'[r] = obj[r]
    BY <1>1, Turns DEF Alone
  <1>2. ASSUME NEW p, Ends(r, p), p \in {"done", "failed"} PROVE FALSE
    BY <1>2 DEF Ends, Goto, Shapes
  <1>3. ASSUME NEW p, Goto(r, p), p # "sending" PROVE FALSE
    BY <1>3 DEF Goto, Shapes
  <1>4. CASE Register(r)
    BY <1>2, <1>3, <1>4
       DEF Register, RegisterLooks, RegisterInserts, RegisterSends, Sends, Refused
  <1>5. ~ Verify(r) /\ ~ Resend(r)
    BY <1>2, <1>3
       DEF Verify, VerifyLooks, VerifyCommits, Resend, ResendLooks, ResendCommits,
           ResendSends, Sends, Refused
  <1>6. ~ SignIn(r)
    BY <1>2, <1>3
       DEF SignIn, LoginLooks, GoogleLooks, GoogleCreates, GoogleLinks, LoginRecords, Refused
  <1>7. ~ Forgot(r) /\ ~ ResetPassword(r)
    BY <1>2, <1>3
       DEF Forgot, ForgotLooks, ForgotClears, ForgotInserts, ForgotSends, ResetPassword,
           ResetLooks, ResetCommits, ResetDeletes, Refused
  <1>8. ~ Administer(r) /\ ~ Fails(r)
    BY <1>2 DEF Administer, Delete, Fails
  <1>9. CASE \/ \E w \in Workers : TableCleared(w)
             \/ \E key \in Workers \X Addresses : CooldownEnds(key)
             \/ \E i \in Instances : Migrates(i)
             \/ UNCHANGED vars
    BY <1>9 DEF TableCleared, CooldownEnds, Migrates, vars, local
  <1>10. QED
    BY <1>1, <1>4, <1>5, <1>6, <1>7, <1>8, <1>9, MigrationLeaves DEF MNext, Next, allVars

\* Its answer is the only one of its kind.
LEMMA OnlyRegistered ==
    ASSUME [MNext]_allVars
    PROVE  \/ welcomed' = welcomed
           \/ \E r \in Requests : /\ pc[r] = "sending" /\ obj[r].welcome
                                 /\ welcomed' = welcomed \cup {obj[r].id}
  <1>1. ASSUME NEW r \in Requests, Register(r)
        PROVE  \/ welcomed' = welcomed
               \/ /\ pc[r] = "sending" /\ obj[r].welcome
                  /\ welcomed' = welcomed \cup {obj[r].id}
    BY <1>1
       DEF Register, RegisterLooks, RegisterInserts, RegisterRefreshes, RegisterSends,
           Refused, history
  <1>2. ASSUME NEW r \in Requests, Verify(r) \/ Resend(r) \/ SignIn(r)
        PROVE  welcomed' = welcomed
    BY <1>2
       DEF Verify, VerifyLooks, VerifyCommits, Resend, ResendLooks, ResendCommits,
           ResendSends, SignIn, LoginLooks, GoogleLooks, GoogleCreates, GoogleLinks,
           LoginRecords, Refused, history
  <1>3. ASSUME NEW r \in Requests, Forgot(r) \/ ResetPassword(r) \/ Administer(r) \/ Fails(r)
        PROVE  welcomed' = welcomed
    BY <1>3
       DEF Forgot, ForgotLooks, ForgotClears, ForgotInserts, ForgotSends, ResetPassword,
           ResetLooks, ResetCommits, ResetDeletes, Administer, Delete, Fails, Refused, history
  <1>4. CASE \/ \E w \in Workers : TableCleared(w)
             \/ \E key \in Workers \X Addresses : CooldownEnds(key)
             \/ \E i \in Instances : Migrates(i)
             \/ UNCHANGED vars
    BY <1>4 DEF TableCleared, CooldownEnds, Migrates, vars, history
  <1>5. QED
    BY <1>1, <1>2, <1>3, <1>4, MigrationLeaves DEF MNext, Next, allVars

LEMMA WelcomeInductive ==
    ASSUME Shapes, NameInv, PlaceInv, DoorInv, ProofInv, WelcomeInv, [MNext]_allVars
    PROVE  /\ WelcomeInv'
           /\ welcomed \subseteq welcomed'
           /\ welcomed' \ welcomed \subseteq
                  proven \ ((Requests \ Started) \cup (Present \ Usable))
  <1>1. proven \subseteq proven'
    BY Histories
  <1>2. \A r \in Requests : pc[r] = "sending" => obj[r].id \in Started \cup Addresses
    <2>1. ASSUME NEW r \in Requests, pc[r] = "sending" PROVE obj[r].id # None
      BY <2>1 DEF PlaceInv, PlaceOK, Over, Ids
    <2>2. QED
      BY <2>1 DEF NameInv
  <1>3. ASSUME NEW i \in Started \cup Addresses, NEW a \in Addresses, user'[a].id = i,
               \A b \in Addresses : user[b].id = i => user[b].verified
        PROVE  user'[a].verified
    <2>1. RowStep(a)
      BY RowSteps
    <2>2. i # None /\ i \notin Requests \ Started
      BY DEF Started
    <2>3. QED
      BY <1>3, <2>1, <2>2 DEF RowStep, Nobody
  <1>4. ASSUME NEW r \in Requests, pc'[r] = "sending", obj'[r].welcome
        PROVE  /\ obj'[r].id \in proven'
               /\ \A a \in Addresses : user'[a].id = obj'[r].id => user'[a].verified
    <2>1. CASE pc[r] = "sending" /\ obj'[r] = obj[r]
      <3>1. /\ obj[r].id \in proven
            /\ \A b \in Addresses : user[b].id = obj[r].id => user[b].verified
        BY <1>4, <2>1 DEF WelcomeInv
      <3>2. PICK i : i = obj[r].id
        OBVIOUS
      <3>3. i \in Started \cup Addresses
        BY <1>2, <2>1, <3>2
      <3>4. \A a \in Addresses : user'[a].id = i => user'[a].verified
        BY <1>3, <3>1, <3>2, <3>3
      <3>5. QED
        BY <1>1, <2>1, <3>1, <3>2, <3>4
    <2>2. CASE RegisterRefreshes(r)
      <3>1. PICK b \in Addresses : b = obj[r].addr /\ Exists(b) /\ user[b].id = obj[r].id
        BY <2>2, Somewhere DEF RegisterRefreshes
      <3>2. obj'[r].welcome = user[b].verified /\ obj'[r].id = user[b].id /\ user' = user
        BY <2>2, <3>1, RereadObject DEF RegisterRefreshes, Shapes, database
      <3>3. user[b].verified /\ user[b].id \in proven
        BY <1>4, <3>1, <3>2 DEF ProofInv, Trusted, Exists
      <3>4. \A a \in Addresses : user[a].id = user[b].id => a = b
        BY <3>1 DEF NameInv, Exists
      <3>5. QED
        BY <1>1, <3>2, <3>3, <3>4
    <2>3. QED
      BY <1>4, <2>1, <2>2, OnlyRefreshed
  <1>5. /\ welcomed \subseteq welcomed'
        /\ welcomed' \ welcomed \subseteq
               proven \ ((Requests \ Started) \cup (Present \ Usable))
    <2>1. ASSUME NEW r \in Requests, pc[r] = "sending", obj[r].welcome
          PROVE  obj[r].id \in proven \ ((Requests \ Started) \cup (Present \ Usable))
      <3>1. obj[r].id \notin Requests \ Started
        BY <1>2, <2>1 DEF Started
      <3>2. obj[r].id \in Present => obj[r].id \in Usable
        BY <2>1 DEF WelcomeInv, Present, Usable
      <3>3. QED
        BY <2>1, <3>1, <3>2 DEF WelcomeInv
    <2>2. QED
      BY <2>1, OnlyRegistered
  <1>6. welcomed' \subseteq proven'
    BY <1>1, <1>5 DEF WelcomeInv
  <1>7. QED
    BY <1>4, <1>5, <1>6 DEF WelcomeInv

\* The inductive invariant of the refinement.
LifeInv == MigrationInv /\ DoorInv /\ WelcomeInv /\ AL!Apart /\ Usable \subseteq Present

LEMMA LifeInvariant == MSpec => []LifeInv
  <1>1. MInit => DoorInv /\ WelcomeInv
    BY DoorInitial, WelcomeInitial
  <1>2. MigrationInv /\ DoorInv /\ WelcomeInv /\ [MNext]_allVars => DoorInv' /\ WelcomeInv'
    BY DoorInductive, WelcomeInductive DEF MigrationInv, AccountsInv
  <1>3. MigrationInv => AL!Apart /\ Usable \subseteq Present
    BY Population DEF MigrationInv, AccountsInv
  <1>4. QED
    BY <1>1, <1>2, <1>3, MigrationInvariant, PTL DEF MSpec, LifeInv

\* "do not hand them a valid JWT until email_verified is True" (api/auth.py:88-89):
\* however requests overlap and however many instances migrate, fail or stop
\* meanwhile, no access token leaves the server for an account whose address was never
\* confirmed, neither at a sign-in nor in the answer to a registration.
THEOREM OnlyOwnersSignIn == MSpec => []OnlyProvenSignIn
  <1>1. ASSUME LifeInv PROVE OnlyProvenSignIn
    <2>1. \A a \in Addresses : user[a].verified => user[a].id # None
      BY <1>1 DEF LifeInv, MigrationInv, AccountsInv, NameInv, Exists, Nobody
    <2>2. QED
      BY <1>1, <2>1 DEF LifeInv, WelcomeInv, MigrationInv, ProofInv, Trusted, OnlyProvenSignIn
  <1>2. QED
    BY <1>1, LifeInvariant, PTL

\* AuthService and the startup migration implement AccountLifecycle: an account opens
\* only once its address is confirmed, does not close before it is deleted, does not
\* come back, and is signed in to only while it is open (services.py:102-319); the answer
\* to a registration admits to an account that is open or has been deleted since.
THEOREM AccountsLiveAsPromised == MSpec => ImplementsAccountLifecycle
  <1>1. MInit => AL!Init
    <2> SUFFICES ASSUME MInit PROVE AL!Init
      OBVIOUS
    <2>1. Shapes /\ NameInv
      BY ShapesInitial, NameInitial
    <2>2. proven = {a \in Addresses : Exists(a)} /\ signed = {} /\ welcomed = {}
      BY DEF MInit, InitWith
    <2>3. Present = proven
      BY <2>2, InitialRows DEF Present, Exists
    <2>4. AL!Apart /\ Usable \subseteq Present
      BY <2>1, Population
    <2>5. QED
      BY <2>2, <2>3, <2>4 DEF AL!Init
  <1>2. ASSUME LifeInv, LifeInv', [MNext]_allVars PROVE AL!Next
    <2>1. Shapes /\ NameInv /\ PlaceInv /\ DoorInv /\ ProofInv /\ WelcomeInv
          /\ Shapes' /\ NameInv' /\ ProofInv'
      BY <1>2 DEF LifeInv, MigrationInv, AccountsInv
    <2>2. AL!Apart' /\ Usable' \subseteq Present'
      BY <1>2 DEF LifeInv
    <2>4. AL!Make
      <3>1. Requests \ Started' \subseteq Requests \ Started
        BY <1>2, <2>1, StartedGrows
      <3>2. ASSUME NEW a \in Addresses, user'[a].id # None
            PROVE  user'[a].id \in Present \cup ((Requests \ Started) \ (Requests \ Started'))
        <4>1. RowStep(a)
          BY <1>2, <2>1, RowSteps
        <4>2. user'[a].id \in Started' \cup Addresses
          BY <2>1, <3>2 DEF NameInv
        <4>3. QED
          BY <3>2, <4>1, <4>2 DEF RowStep, Nobody, Present
      <3>3. Present' \subseteq Present \cup ((Requests \ Started) \ (Requests \ Started'))
        BY <3>2 DEF Present
      <3>4. QED
        BY <2>2, <3>1, <3>3 DEF AL!Make
    <2>5. AL!Confirm /\ AL!Enter
      BY <1>2, <2>1, Histories DEF AL!Confirm, AL!Enter
    <2>8. AL!Admit
      BY <1>2, <2>1, WelcomeInductive DEF AL!Admit
    <2>6. AL!Open
      <3>1. Usable' \subseteq proven'
        <4>1. \A a \in Addresses : user'[a].verified => user'[a].id # None
          BY <2>1 DEF NameInv, Exists, Nobody
        <4>2. QED
          BY <2>1, <4>1 DEF Usable, ProofInv, Trusted
      <3>2. ASSUME NEW a \in Addresses, NEW b \in Addresses, user[a].verified,
                   user'[b].id = user[a].id
            PROVE  user'[b].verified
        <4>1. RowStep(b)
          BY <1>2, <2>1, RowSteps
        <4>2. Exists(a) /\ user[a].id \in Started \cup Addresses
          BY <2>1, <3>2 DEF NameInv, Nobody, Exists
        <4>3. user[b].id = user[a].id /\ (user[b].verified => user'[b].verified)
          BY <3>2, <4>1, <4>2 DEF RowStep, Nobody, Exists
        <4>4. QED
          BY <2>1, <3>2, <4>2, <4>3 DEF NameInv
      <3>3. Usable \cap Present' \subseteq Usable'
        BY <3>2 DEF Usable, Present
      <3>4. QED
        BY <3>1, <3>3 DEF AL!Open
    <2>7. QED
      BY <2>2, <2>4, <2>5, <2>6, <2>8 DEF AL!Next
  <1>3. QED
    BY <1>1, <1>2, LifeInvariant, PTL DEF MSpec, ImplementsAccountLifecycle, AL!Spec
=============================================================================
