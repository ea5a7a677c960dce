-------------------------- MODULE StartupMigration --------------------------
(***************************************************************************)
(* Instances of the application that start together and bring the table    *)
(* `users` up to date (core/migrations.py, lifespan in main.py), while     *)
(* those that are up already serve the requests of Accounts.               *)
(*                                                                         *)
(* An instance migrates in one transaction.  ALTER TABLE takes the table's *)
(* exclusive lock before it looks whether the column is there, and keeps   *)
(* it to the end, so requests and other instances' ALTERs wait.            *)
(***************************************************************************)
EXTENDS Accounts, Sequences

CONSTANTS
    Instances,     \* instances of the application
    Deployed       \* what the earlier release may have left: "none", "old", "new"

ASSUME DeployedAssumption == Deployed \subseteq {"none", "old", "new"} /\ None \notin Instances

VARIABLES
    table,     \* is there a table users?
    columns,   \* its committed columns among those of the migration
    inst,      \* inst[i]: where instance i stands
    missing,   \* missing[i]: the column i has found missing and wants to add
    pending,   \* columns the holder of the lock has added and not committed
    added,     \* added[i]: added_email_verified
    holder     \* the instance that holds the lock on users

migration == <<table, columns, inst, missing, pending, added, holder>>
allVars   == <<vars, migration>>

----------------------------------------------------------------------------
\* Mutant of ColumnMigrations: the columns in the order of their importance.
VerifiedFirst ==
    <<"email_verified", "verification_token", "verification_expires_at", "google_id",
      "avatar_url", "last_login", "last_login_ip", "last_login_device">>

ColumnMigrations ==
    <<"google_id", "avatar_url", "email_verified", "verification_token",
      "verification_expires_at", "last_login", "last_login_ip", "last_login_device">>

AllColumns == {ColumnMigrations[n] : n \in 1..Len(ColumnMigrations)}

\* The first column that information_schema does not show to instance i.  Columns
\* only come, so the columns before it may as well be looked up at the same time.
Unseen(i) == AllColumns \ (columns \cup IF holder = i THEN pending ELSE {})
First(S)  == ColumnMigrations[CHOOSE n \in 1..Len(ColumnMigrations) :
                 ColumnMigrations[n] \in S /\ \A m \in 1..(n - 1) : ColumnMigrations[m] \notin S]

\* The accounts of the release before the verification requirement.
Old(a) == [Grandfathered(a) EXCEPT !.verified = FALSE]

MInit ==
    /\ \E d \in Deployed :
        /\ table = (d # "none")
        /\ columns = IF d = "old" THEN {} ELSE AllColumns
        /\ \/ InitWith(Before(None, Nobody))
           \/ /\ d # "none"
              /\ \E b \in Addresses :
                    InitWith(Before(b, IF d = "old" THEN Old(b) ELSE Grandfathered(b)))
    /\ inst = [i \in Instances |-> "down"]
    /\ missing = [i \in Instances |-> None]
    /\ pending = {}
    /\ added = [i \in Instances |-> FALSE]
    /\ holder = None

Moves(i, s) == inst' = [inst EXCEPT ![i] = s]

\* The transaction of i is over: it holds nothing, and nothing of it is left.
Releases(i) ==
    /\ missing' = [missing EXCEPT ![i] = None]
    /\ added' = [added EXCEPT ![i] = FALSE]
    /\ IF holder = i THEN holder' = None /\ pending' = {} ELSE UNCHANGED <<holder, pending>>

----------------------------------------------------------------------------
\* Without a table there is nothing to migrate.
Starts(i) ==
    /\ inst[i] = "down"
    /\ Moves(i, IF table THEN "migrating" ELSE "creating")
    /\ UNCHANGED <<vars, table, columns, missing, pending, added, holder>>

FindsMissing(i) ==
    /\ inst[i] = "migrating"
    /\ Unseen(i) # {}
    /\ missing' = [missing EXCEPT ![i] = First(Unseen(i))]
    /\ Moves(i, "altering")
    /\ UNCHANGED <<vars, table, columns, pending, added, holder>>

\* Mutant of Alters: every ALTER TABLE commits by itself.
AltersAtOnce(i) ==
    /\ inst[i] = "altering"
    /\ holder \in {None, i}
    /\ holder' = i
    /\ columns' = columns \cup {missing[i]}
    /\ pending' = pending \cup {missing[i]}
    /\ added' = [added EXCEPT ![i] = @ \/ missing[i] = "email_verified"]
    /\ missing' = [missing EXCEPT ![i] = None]
    /\ Moves(i, "migrating")
    /\ UNCHANGED <<vars, table>>

\* The wait for the open transactions of requests is left out: it only forbids some
\* of these steps.  ADD COLUMN IF NOT EXISTS adds nothing to what another instance has committed,
\* but the flag is set all the same.
Alters(i) ==
    /\ inst[i] = "altering"
    /\ holder \in {None, i}
    /\ holder' = i
    /\ pending' = pending \cup {missing[i]}
    /\ added' = [added EXCEPT ![i] = @ \/ missing[i] = "email_verified"]
    /\ missing' = [missing EXCEPT ![i] = None]
    /\ Moves(i, "migrating")
    /\ UNCHANGED <<vars, table, columns>>

\* UPDATE users SET email_verified = TRUE, then the COMMIT.  Without an ALTER of its
\* own the instance has nothing to write.
Migrates(i) ==
    /\ inst[i] = "migrating"
    /\ Unseen(i) = {}
    /\ user' = IF added[i]
               THEN [a \in Addresses |-> IF Exists(a) THEN [user[a] EXCEPT !.verified = TRUE]
                                         ELSE Nobody]
               ELSE user
    /\ columns' = columns \cup (IF holder = i THEN pending ELSE {})
    /\ Releases(i)
    /\ Moves(i, "creating")
    /\ UNCHANGED <<resets, cool, local, mailed, history, table>>

\* Any error is logged, and the instance comes up with the columns there are.
MigrationFails(i) ==
    /\ inst[i] \in {"migrating", "altering"}
    /\ Releases(i)
    /\ Moves(i, "creating")
    /\ UNCHANGED <<vars, table, columns>>

\* create_all looks for the table ...
CreateLooks(i) ==
    /\ inst[i] = "creating"
    /\ Moves(i, IF table THEN "serving" ELSE "missing")
    /\ UNCHANGED <<vars, table, columns, missing, pending, added, holder>>

\* ... and creates it with every column; if another instance has been faster, the
\* CREATE TABLE fails and the instance does not come up.
Creates(i) ==
    /\ inst[i] = "missing"
    /\ Moves(i, IF table THEN "down" ELSE "serving")
    /\ table' = TRUE
    /\ columns' = AllColumns
    /\ UNCHANGED <<vars, missing, pending, added, holder>>

\* The instance stops or crashes at any time.
Stops(i) ==
    /\ inst[i] # "down"
    /\ Releases(i)
    /\ Moves(i, "down")
    /\ UNCHANGED <<vars, table, columns>>

\* Requests of this release need an instance that serves, every column, and a
\* table that is not locked.
Serving == (\E i \in Instances : inst[i] = "serving") /\ AllColumns \subseteq columns /\ holder = None

Migration == \E i \in Instances :
    \/ Starts(i) \/ FindsMissing(i) \/ Alters(i) \/ Migrates(i) \/ MigrationFails(i)
    \/ CreateLooks(i) \/ Creates(i) \/ Stops(i)

MNext ==
    \/ Migration
    \/ Serving /\ Next /\ UNCHANGED migration

MSpec == MInit /\ [][MNext]_allVars

----------------------------------------------------------------------------
(* Properties *)

\* "so nobody is locked out" (core/migrations.py:12-13): whenever this release can
\* serve, an account from before the requirement is verified, although instances
\* crash, fail and race.  And none that was made after it is let in by the way:
\* that is OnlyProvenSignIn.
NobodyLockedOut ==
    AllColumns \subseteq columns =>
        \A a \in Addresses : user[a].id = a => user[a].verified

\* The life of an account, as AccountLifecycle tells it: whatever overlaps, fails or
\* migrates, it opens only once its address is confirmed, never closes before it is
\* deleted, does not come back, and is not signed in to when it is not open, so not
\* after a deletion between the look and the commit (services.py:190-208, 303).  The
\* token in the answer to a registration (api/auth.py:90) is for an account that was
\* open when its row was read again, and may have been deleted since.
AL == INSTANCE AccountLifecycle WITH
    Accounts <- Ids, fresh <- Requests \ Started, waiting <- Present \ Usable,
    open <- Usable, confirmed <- proven, entered <- signed, admitted <- welcomed
ImplementsAccountLifecycle == AL!Spec
============================================================================
