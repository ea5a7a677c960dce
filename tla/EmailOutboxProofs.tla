-------------------------- MODULE EmailOutboxProofs --------------------------
(***************************************************************************)
(* Theorems about EmailOutbox for every number of workers and e-mails and   *)
(* every value of the bounds.                                               *)
(***************************************************************************)
EXTENDS EmailOutbox, TLAPS

USE ConstantsAssumption

----------------------------------------------------------------------------
(* Type correctness *)

LEMMA BlankType == Blank \in Row
  BY DEF Blank, Row, NoError, Statuses, Terminal

LEMMA NewRowType == \A f \in AllFailures : NewRow(f) \in Row
  BY BlankType DEF NewRow, Blank, Row, Statuses, Terminal

LEMMA AfterFailureType ==
    ASSUME NEW r \in Row, NEW f \in AllFailures, NEW e \in Emails
    PROVE  AfterFailure(r, e, f) \in Row
  <1> DEFINE tried == [r EXCEPT !.attempts = @ + 1, !.error = f]
  <1>1. tried \in Row
    <2>1. \A n \in Nat : [r EXCEPT !.attempts = n, !.error = f] \in Row
      BY DEF Row
    <2>2. r.attempts + 1 \in Nat
      BY DEF Row
    <2>3. QED
      BY <2>1, <2>2
  <1>2. [tried EXCEPT !.status = "failed"] \in Row /\ [tried EXCEPT !.wait = Interval] \in Row
    <2> HIDE DEF tried
    <2>1. QED
      BY <1>1 DEF Row, Statuses, Terminal
  <1>3. \/ AfterFailure(r, e, f) = [tried EXCEPT !.status = "failed"]
        \/ AfterFailure(r, e, f) = [tried EXCEPT !.wait = Interval]
    BY DEF AfterFailure
  <1>4. QED
    BY <1>2, <1>3

LEMMA AgedType ==
    ASSUME NEW r \in Row
    PROVE  Aged(r) \in Row
  <1>1. \A m \in 0..Interval, n \in 0..Retention + 1 : [r EXCEPT !.wait = m, !.age = n] \in Row
    BY DEF Row
  <1>2. /\ Sooner(r.wait) \in 0..Interval
        /\ (IF r.age > Retention THEN r.age ELSE r.age + 1) \in 0..Retention + 1
    BY DEF Row, Sooner
  <1>3. QED
    BY <1>1, <1>2 DEF Aged

LEMMA FlushedType ==
    ASSUME NEW r \in Row
    PROVE  /\ [r EXCEPT !.age = 0] \in Row
           /\ [r EXCEPT !.status = "sent", !.error = NoError] \in Row
  <1>1. [r EXCEPT !.age = 0] \in Row
    BY DEF Row
  <1>2. [r EXCEPT !.status = "sent", !.error = NoError] \in Row
    BY DEF Row, Statuses, Terminal
  <1>3. QED
    BY <1>1, <1>2

LEMMA AcceptType ==
    ASSUME TypeOK, NEW e \in Emails, Accept(e)
    PROVE  copies' \in [Emails -> 0..2] /\ late' \in SUBSET Resets
  BY DEF TypeOK, Accept

LEMMA BlameType ==
    ASSUME TypeOK, NEW S, NEW c \in Causes, Blame(S, c)
    PROVE  cause' \in [Emails -> SUBSET Causes]
  BY DEF TypeOK, Blame

LEMMA CloseSessionType ==
    ASSUME TypeOK, NEW w \in Workers, CloseSession(w)
    PROVE  /\ lock' \in [Emails -> Workers \cup {NoWorker}]
           /\ mem' \in [Workers -> [Emails -> Row]]
           /\ todo' \in [Workers -> SUBSET Emails]
           /\ deleting' \in [Workers -> SUBSET Emails]
  BY BlankType DEF TypeOK, CloseSession, Nothing

LEMMA RollbackType ==
    ASSUME TypeOK, NEW w \in Workers, Rollback(w)
    PROVE  /\ cause' \in [Emails -> SUBSET Causes]
           /\ faults' \in 0..MaxFaults
  <1>1. "rollback" \in Causes
    BY DEF Causes
  <1>2. cause' \in [Emails -> SUBSET Causes]
    BY <1>1, BlameType DEF Rollback
  <1>3. QED
    BY <1>2 DEF Rollback, TypeOK

\* Every reachable state is of the declared type.
THEOREM TypeCorrect == Spec => []TypeOK
  <1>1. Init => TypeOK
    BY BlankType DEF Init, TypeOK, Nothing, Phases
  <1>2. TypeOK /\ [Next]_vars => TypeOK'
    <2> SUFFICES ASSUME TypeOK, [Next]_vars
                 PROVE  TypeOK'
      OBVIOUS
    <2> USE DEF history
    <2>1. ASSUME NEW e \in Emails, Request(e)
          PROVE  TypeOK'
      BY <2>1 DEF Request, TypeOK, Phases
    <2>2. ASSUME NEW e \in Emails, DeliverSucceeds(e)
          PROVE  TypeOK'
      BY <2>2, AcceptType DEF DeliverSucceeds, TypeOK, Phases
    <2>3. ASSUME NEW e \in Emails, NEW f \in FailureKinds, DeliverFails(e, f)
          PROVE  TypeOK'
      <3>1. CASE UNCHANGED history
        BY <2>3, <3>1 DEF DeliverFails, TypeOK, Phases
      <3>2. CASE Accept(e) /\ Blame({e}, "unacked")
        <4>1. cause' \in [Emails -> SUBSET Causes]
          BY <3>2, BlameType DEF Causes
        <4>2. QED
          BY <2>3, <3>2, <4>1, AcceptType DEF DeliverFails, TypeOK, Phases
      <3>3. QED
        BY <2>3, <3>1, <3>2 DEF DeliverFails
    <2>4. ASSUME NEW e \in Emails, Enqueue(e)
          PROVE  TypeOK'
      BY <2>4, NewRowType DEF Enqueue, TypeOK, Phases
    <2>5. ASSUME NEW e \in Emails, EnqueueFails(e)
          PROVE  TypeOK'
      BY <2>5 DEF EnqueueFails, TypeOK, Phases
    <2>6. ASSUME NEW w \in Workers, BeginTick(w)
          PROVE  TypeOK'
      <3>1. PICK B \in Batches(Selectable) :
              /\ lock' = [e \in Emails |-> IF e \in B THEN w ELSE lock[e]]
              /\ mem' = [mem EXCEPT ![w] = [e \in Emails |-> IF e \in B THEN row[e] ELSE Blank]]
              /\ todo' = [todo EXCEPT ![w] = B]
        BY <2>6 DEF BeginTick
      <3>2. B \subseteq Emails
        BY DEF Batches, Selectable, Due
      <3>3. [e \in Emails |-> IF e \in B THEN row[e] ELSE Blank] \in [Emails -> Row]
        BY BlankType DEF TypeOK
      <3>4. QED
        BY <2>6, <3>1, <3>2, <3>3 DEF BeginTick, TypeOK
    <2>7. ASSUME NEW w \in Workers, NEW e \in Emails, SendSucceeds(w, e)
          PROVE  TypeOK'
      <3>1. mem[w][e] \in Row
        BY DEF TypeOK
      <3>2. mem' \in [Workers -> [Emails -> Row]]
        BY <2>7, <3>1, FlushedType DEF SendSucceeds, TypeOK
      <3>3. QED
        BY <2>7, <3>2, AcceptType DEF SendSucceeds, TypeOK
    <2>8. ASSUME NEW w \in Workers, NEW e \in Emails, NEW f \in FailureKinds, SendFails(w, e, f)
          PROVE  TypeOK'
      <3>1. AfterFailure(mem[w][e], e, f) \in Row
        <4>1. mem[w][e] \in Row /\ f \in AllFailures
          BY DEF TypeOK
        <4>2. QED
          BY <4>1, AfterFailureType
      <3>2. mem' \in [Workers -> [Emails -> Row]]
        BY <2>8, <3>1 DEF SendFails, TypeOK
      <3>3. CASE UNCHANGED history
        BY <2>8, <3>2, <3>3 DEF SendFails, TypeOK
      <3>4. CASE Accept(e) /\ Blame({e}, "unacked")
        <4>1. cause' \in [Emails -> SUBSET Causes]
          BY <3>4, BlameType DEF Causes
        <4>2. QED
          BY <2>8, <3>2, <3>4, <4>1, AcceptType DEF SendFails, TypeOK
      <3>5. QED
        BY <2>8, <3>3, <3>4 DEF SendFails
    <2>9. ASSUME NEW w \in Workers, Purge(w)
          PROVE  TypeOK'
      <3>1. cause' \in [Emails -> SUBSET Causes]
        BY <2>9, BlameType DEF Purge, Causes
      <3>2. mem' \in [Workers -> [Emails -> Row]]
        BY <2>9, BlankType DEF Purge, TypeOK
      <3>3. QED
        BY <2>9, <3>1, <3>2 DEF Purge, TypeOK
    <2>10. ASSUME NEW w \in Workers, Commit(w)
           PROVE  TypeOK'
      <3>1. row' \in [Emails -> Row]
        <4>1. \A e \in Emails : row[e] \in Row /\ mem[w][e] \in Row
          BY DEF TypeOK
        <4>2. \A e \in Emails : [mem[w][e] EXCEPT !.age = 0] \in Row
          BY <4>1, FlushedType
        <4>3. QED
          BY <2>10, <4>1, <4>2, BlankType DEF Commit
      <3>2. QED
        BY <2>10, <3>1, CloseSessionType DEF Commit, TypeOK
    <2>11. ASSUME NEW w \in Workers, TickFails(w)
           PROVE  TypeOK'
      BY <2>11, CloseSessionType, RollbackType DEF TickFails, Rollback, TypeOK
    <2>12. ASSUME NEW w \in Workers, Crash(w)
           PROVE  TypeOK'
      BY <2>12, CloseSessionType, RollbackType DEF Crash, Rollback, TypeOK, Phases
    <2>13. ASSUME NEW w \in Workers, Restart(w)
           PROVE  TypeOK'
      BY <2>13 DEF Restart, TypeOK
    <2>14. CASE TimePasses
      <3>1. row' \in [Emails -> Row] /\ mem' \in [Workers -> [Emails -> Row]]
        <4>1. \A e \in Emails : Aged(row[e]) \in Row
          BY AgedType DEF TypeOK
        <4>2. \A w \in Workers, e \in Emails : Aged(mem[w][e]) \in Row
          BY AgedType DEF TypeOK
        <4>3. QED
          BY <2>14, <4>1, <4>2 DEF TimePasses
      <3>2. link' \in [Emails -> 0..LinkTTL] /\ timer' \in [Workers -> Nat]
        <4>1. \A n \in Nat : Sooner(n) \in Nat
          BY DEF Sooner
        <4>2. \A n \in 0..LinkTTL : Sooner(n) \in 0..LinkTTL
          BY DEF Sooner
        <4>3. QED
          BY <2>14, <4>1, <4>2 DEF TimePasses, TypeOK
      <3>3. QED
        BY <2>14, <3>1, <3>2 DEF TimePasses, TypeOK
    <2>15. CASE UNCHANGED vars
      BY <2>15 DEF vars, system, TypeOK
    <2>16. QED
      BY <2>1, <2>2, <2>3, <2>4, <2>5, <2>6, <2>7, <2>8, <2>9, <2>10, <2>11,
         <2>12, <2>13, <2>14, <2>15 DEF Next, Deliver, Tick
  <1>3. QED
    BY <1>1, <1>2, PTL DEF Spec
----------------------------------------------------------------------------
(* Row locks *)

\* What holding a row means.  A session has loaded only rows that its
\* transaction has locked and that are pending in the table; a transaction has
\* locked what it deletes, and deletes only settled rows; a row exists only
\* once _deliver has queued it; a loop between two ticks holds nothing.
Loaded     == \A w \in Workers, e \in Emails :
                  mem[w][e].status # "absent" => lock[e] = w /\ row[e].status = "pending"
Deleted    == \A w \in Workers : \A e \in deleting[w] :
                  lock[e] = w /\ row[e].status \in Terminal
Untried    == \A w \in Workers : \A e \in todo[w] : mem[w][e].status = "pending"
Stored     == \A e \in Emails : row[e].status # "absent" => phase[e] = "queued"
Idle       == \A w \in Workers : tick[w] \in {"idle", "down"} => mem[w] = Nothing
LockInv    == Loaded /\ Deleted /\ Untried /\ Stored /\ Idle

LEMMA BlankStatus == Blank.status = "absent" /\ \A f : NewRow(f).status = "pending"
  BY DEF Blank, NewRow

LEMMA StatusUnchanged ==
    /\ \A r \in Row : Aged(r).status = r.status /\ Aged(r).attempts = r.attempts
    /\ \A r \in Row : r.status = "absent" => Aged(r) = r
    /\ \A r \in Row : /\ [r EXCEPT !.age = 0].status = r.status
                      /\ [r EXCEPT !.age = 0].attempts = r.attempts
  BY DEF Aged, Row

LEMMA FailureStatus ==
    ASSUME NEW r \in Row, NEW f, NEW e, r.status = "pending"
    PROVE  AfterFailure(r, e, f).status \in {"pending", "failed"}
  BY DEF AfterFailure, Row

LEMMA LockInvInductive ==
    ASSUME TypeOK, LockInv, [Next]_vars
    PROVE  LockInv'
  <1> USE DEF LockInv
  <1>1. ASSUME NEW e \in Emails, Request(e)
        PROVE  LockInv'
    BY <1>1 DEF Request, Loaded, Deleted, Untried, Stored, Idle, TypeOK
  <1>2. ASSUME NEW e \in Emails, DeliverSucceeds(e)
        PROVE  LockInv'
    BY <1>2 DEF DeliverSucceeds, Loaded, Deleted, Untried, Stored, Idle, TypeOK
  <1>3. ASSUME NEW e \in Emails, NEW f \in FailureKinds, DeliverFails(e, f)
        PROVE  LockInv'
    BY <1>3 DEF DeliverFails, Loaded, Deleted, Untried, Stored, Idle, TypeOK
  <1>4. ASSUME NEW e \in Emails, Enqueue(e)
        PROVE  LockInv'
    <2>1. row[e].status = "absent"
      BY <1>4 DEF Enqueue, Stored, AllFailures
    <2>2. Loaded' /\ Untried' /\ Idle'
      BY <1>4, <2>1, BlankStatus DEF Enqueue, Loaded, Untried, Idle, TypeOK
    <2>3. Deleted'
      BY <1>4, <2>1 DEF Enqueue, Deleted, TypeOK, Terminal
    <2>4. Stored'
      BY <1>4 DEF Enqueue, Stored, TypeOK
    <2>5. QED
      BY <2>2, <2>3, <2>4
  <1>5. ASSUME NEW e \in Emails, EnqueueFails(e)
        PROVE  LockInv'
    BY <1>5 DEF EnqueueFails, Loaded, Deleted, Untried, Stored, Idle, TypeOK, AllFailures
  <1>6. ASSUME NEW w \in Workers, BeginTick(w)
        PROVE  LockInv'
    <2>1. PICK B \in Batches(Selectable) :
            /\ lock' = [e \in Emails |-> IF e \in B THEN w ELSE lock[e]]
            /\ mem' = [mem EXCEPT ![w] = [e \in Emails |-> IF e \in B THEN row[e] ELSE Blank]]
            /\ todo' = [todo EXCEPT ![w] = B]
      BY <1>6 DEF BeginTick
    <2>2. /\ B \subseteq Emails
          /\ \A e \in B : lock[e] = NoWorker /\ row[e].status = "pending"
      BY DEF Batches, Selectable, Due
    <2>3. Loaded'
      <3>1. ASSUME NEW v \in Workers, NEW e \in Emails, mem'[v][e].status # "absent"
            PROVE  lock'[e] = v /\ row'[e].status = "pending"
        <4>1. CASE v = w
          BY <1>6, <2>1, <2>2, <3>1, <4>1, BlankStatus DEF BeginTick, TypeOK
        <4>2. CASE v # w
          BY <1>6, <2>1, <2>2, <3>1, <4>2 DEF BeginTick, TypeOK, Loaded
        <4>3. QED
          BY <4>1, <4>2
      <3>2. QED
        BY <3>1 DEF Loaded
    <2>4. Deleted'
      BY <1>6, <2>1, <2>2 DEF BeginTick, TypeOK, Deleted
    <2>5. Untried'
      BY <1>6, <2>1, <2>2 DEF BeginTick, TypeOK, Untried
    <2>6. Stored' /\ Idle'
      BY <1>6, <2>1 DEF BeginTick, TypeOK, Stored, Idle
    <2>7. QED
      BY <2>3, <2>4, <2>5, <2>6
  <1>7. ASSUME NEW w \in Workers, NEW e \in Emails, SendSucceeds(w, e)
        PROVE  LockInv'
    <2>1. e \in todo[w] /\ mem[w][e].status = "pending"
      BY <1>7 DEF SendSucceeds, NextInBatch, Untried
    <2>2. Loaded'
      BY <1>7, <2>1 DEF SendSucceeds, TypeOK, Loaded
    <2>3. Deleted' /\ Stored' /\ Idle'
      BY <1>7 DEF SendSucceeds, TypeOK, Deleted, Stored, Idle
    <2>4. Untried'
      BY <1>7 DEF SendSucceeds, TypeOK, Untried
    <2>5. QED
      BY <2>2, <2>3, <2>4
  <1>8. ASSUME NEW w \in Workers, NEW e \in Emails, NEW f \in FailureKinds, SendFails(w, e, f)
        PROVE  LockInv'
    <2>1. e \in todo[w] /\ mem[w][e].status = "pending"
      BY <1>8 DEF SendFails, NextInBatch, Untried
    <2>2. Loaded'
      BY <1>8, <2>1 DEF SendFails, TypeOK, Loaded
    <2>3. Deleted' /\ Stored' /\ Idle'
      BY <1>8 DEF SendFails, TypeOK, Deleted, Stored, Idle
    <2>4. Untried'
      BY <1>8 DEF SendFails, TypeOK, Untried
    <2>5. QED
      BY <2>2, <2>3, <2>4
  <1>9. ASSUME NEW w \in Workers, Purge(w)
        PROVE  LockInv'
    <2> DEFINE inTable == {e \in Emails : Purgeable(row[e])}
    <2>1. /\ \A e \in inTable : lock[e] \in {NoWorker, w} /\ row[e].status \in Terminal
          /\ lock' = [e \in Emails |-> IF e \in inTable THEN w ELSE lock[e]]
          /\ deleting' = [deleting EXCEPT ![w] = inTable]
          /\ todo[w] = {}
          /\ UNCHANGED <<phase, row, todo>>
      BY <1>9 DEF Purge, Purgeable
    <2>2. /\ \A v \in Workers, e \in Emails : mem'[v][e] \in {mem[v][e], Blank}
          /\ \A v \in Workers : v # w => mem'[v] = mem[v]
      BY <1>9 DEF Purge, TypeOK
    <2>3. Loaded'
      <3>1. ASSUME NEW v \in Workers, NEW e \in Emails, mem'[v][e].status # "absent"
            PROVE  lock'[e] = v /\ row'[e].status = "pending"
        <4>1. mem'[v][e] = mem[v][e]
          BY <2>2, <3>1, BlankStatus
        <4>2. lock[e] = v /\ row[e].status = "pending"
          BY <3>1, <4>1 DEF Loaded
        <4>3. e \notin inTable
          BY <2>1, <4>2 DEF Terminal
        <4>4. QED
          BY <2>1, <4>2, <4>3
      <3>2. QED
        BY <3>1 DEF Loaded
    <2>4. Deleted'
      BY <2>1 DEF Deleted, TypeOK
    <2>5. Untried'
      <3>1. ASSUME NEW v \in Workers, NEW e \in todo'[v]
            PROVE  v # w /\ e \in todo[v]
        BY <2>1, <3>1
      <3>2. QED
        BY <2>1, <2>2, <3>1 DEF Untried
    <2>6. Stored' /\ Idle'
      BY <1>9, <2>1, <2>2 DEF Purge, Stored, Idle, TypeOK
    <2>7. QED
      BY <2>3, <2>4, <2>5, <2>6
  <1>10. ASSUME NEW w \in Workers, CloseSession(w), UNCHANGED row
         PROVE  Loaded' /\ Deleted' /\ Untried'
    <2>1. Loaded'
      BY <1>10, BlankStatus DEF CloseSession, Nothing, Loaded, TypeOK
    <2>2. Deleted' /\ Untried'
      BY <1>10 DEF CloseSession, Deleted, Untried, TypeOK
    <2>3. QED
      BY <2>1, <2>2
  <1>11. ASSUME NEW w \in Workers, Commit(w)
         PROVE  LockInv'
    <2> USE <1>11
    <2>1. \A v \in Workers, e \in Emails : v # w /\ lock[e] = v => row'[e] = row[e]
      BY DEF Commit, Session, Loaded, Deleted, TypeOK
    <2>2. /\ \A v \in Workers : v # w => mem'[v] = mem[v] /\ deleting'[v] = deleting[v] /\ todo'[v] = todo[v]
          /\ \A v \in Workers, e \in Emails : v # w /\ lock[e] = v => lock'[e] = v
          /\ mem'[w] = Nothing /\ deleting'[w] = {} /\ todo'[w] = {}
      BY DEF Commit, CloseSession, TypeOK
    <2>3. Loaded'
      BY <2>1, <2>2, BlankStatus DEF Nothing, Loaded, TypeOK
    <2>4. Deleted'
      BY <2>1, <2>2 DEF Deleted, TypeOK
    <2>5. Untried'
      BY <2>2 DEF Untried, TypeOK
    <2>6. Stored'
      <3>1. ASSUME NEW e \in Emails, row'[e].status # "absent"
            PROVE  row[e].status # "absent"
        BY <3>1, BlankStatus DEF Commit, Session, Loaded, Deleted, TypeOK, Terminal
      <3>2. QED
        BY <3>1 DEF Commit, Stored
    <2>7. Idle'
      BY <2>2 DEF Commit, Idle, TypeOK
    <2>8. QED
      BY <2>3, <2>4, <2>5, <2>6, <2>7
  <1>12. ASSUME NEW w \in Workers, TickFails(w)
         PROVE  LockInv'
    <2>1. Loaded' /\ Deleted' /\ Untried'
      BY <1>10, <1>12 DEF TickFails, Rollback
    <2>2. Stored' /\ Idle'
      BY <1>12 DEF TickFails, Rollback, CloseSession, Stored, Idle, TypeOK
    <2>3. QED
      BY <2>1, <2>2
  <1>13. ASSUME NEW w \in Workers, Crash(w)
         PROVE  LockInv'
    <2>1. Loaded' /\ Deleted' /\ Untried'
      BY <1>10, <1>13 DEF Crash, Rollback
    <2>2. Stored'
      BY <1>13 DEF Crash, InFlight, Stored, TypeOK, AllFailures
    <2>3. Idle'
      BY <1>13 DEF Crash, Rollback, CloseSession, Idle, TypeOK
    <2>4. QED
      BY <2>1, <2>2, <2>3
  <1>14. ASSUME NEW w \in Workers, Restart(w)
         PROVE  LockInv'
    BY <1>14 DEF Restart, Loaded, Deleted, Untried, Stored, Idle, TypeOK
  <1>15. CASE TimePasses
    <2>0. UNCHANGED <<phase, lock, todo, deleting>>
      BY <1>15 DEF TimePasses
    <2>1. \A e \in Emails : row'[e].status = row[e].status
      BY <1>15, StatusUnchanged DEF TimePasses, TypeOK
    <2>2. \A w \in Workers, e \in Emails : mem'[w][e].status = mem[w][e].status
      BY <1>15, StatusUnchanged DEF TimePasses, TypeOK
    <2>3. Loaded' /\ Stored'
      BY <2>0, <2>1, <2>2 DEF Loaded, Stored
    <2>4. Deleted' /\ Untried'
      <3>1. \A w \in Workers : todo[w] \subseteq Emails /\ deleting[w] \subseteq Emails
        BY DEF TypeOK
      <3>2. Deleted'
        BY <2>0, <2>1, <3>1 DEF Deleted
      <3>3. Untried'
        BY <2>0, <2>2, <3>1 DEF Untried
      <3>4. QED
        BY <3>2, <3>3
    <2>5. Idle'
      <3>1. ASSUME NEW w \in Workers, mem[w] = Nothing
            PROVE  mem'[w] = Nothing
        BY <1>15, <3>1, BlankStatus DEF TimePasses, Nothing, Aged
      <3>2. QED
        BY <1>15, <3>1 DEF TimePasses, Idle
    <2>6. QED
      BY <2>3, <2>4, <2>5
  <1>16. CASE UNCHANGED vars
    BY <1>16 DEF vars, system, Loaded, Deleted, Untried, Stored, Idle
  <1>17. QED
    BY <1>1, <1>2, <1>3, <1>4, <1>5, <1>6, <1>7, <1>8, <1>9, <1>11, <1>12,
       <1>13, <1>14, <1>15, <1>16 DEF Next, Deliver, Tick

LEMMA LockInvHolds == Spec => []LockInv
  <1>1. Init => LockInv
    BY BlankStatus DEF Init, Nothing, LockInv, Loaded, Deleted, Untried, Stored, Idle
  <1>2. QED
    BY <1>1, TypeCorrect, LockInvInductive, PTL DEF Spec

\* No e-mail is in two workers' batches at once: FOR UPDATE SKIP LOCKED, the
\* rollback of a failed tick and the DELETE's own locks keep batches disjoint.
THEOREM MutualExclusion == Spec => []OneSenderPerRow
  <1>1. LockInv => OneSenderPerRow
    BY DEF LockInv, Loaded, OneSenderPerRow, Session
  <1>2. QED
    BY <1>1, LockInvHolds, PTL

----------------------------------------------------------------------------
(* Copies *)

\* Nobody will hand e to SMTP again.
Over(e) ==
    \/ phase[e] \in {"direct", "lost"}
    \/ phase[e] = "queued" /\ row[e].status # "pending"
    \/ \E w \in Workers : mem[w][e].status = "sent"

\* An accepted e-mail without a cause to doubt it was accepted once and for all,
\* and whatever is marked sent, in memory or in the table, was accepted.
CopyInv ==
    /\ \A e \in Emails : cause[e] = {} /\ copies[e] > 0 => copies[e] = 1 /\ Over(e)
    /\ \A e \in Emails : row[e].status = "sent" => copies[e] > 0
    /\ \A w \in Workers, e \in Emails : mem[w][e].status = "sent" => copies[e] > 0

LEMMA NotAcceptedBeforeQueued ==
    ASSUME TypeOK, LockInv, CopyInv, NEW e \in Emails,
           phase[e] \notin {"direct", "lost", "queued"}, cause[e] = {}
    PROVE  copies[e] = 0
  <1>1. \A w \in Workers : mem[w][e].status # "sent"
    BY DEF LockInv, Loaded, Stored
  <1>2. ~ Over(e)
    BY <1>1 DEF Over
  <1>3. ~ copies[e] > 0 /\ copies[e] \in 0..2
    BY <1>2 DEF CopyInv, TypeOK
  <1>4. QED
    BY <1>3

LEMMA NotAcceptedBeforeTried ==
    ASSUME TypeOK, LockInv, CopyInv, NEW w \in Workers, NEW e \in todo[w], cause[e] = {}
    PROVE  copies[e] = 0
  <1>1. e \in Emails /\ mem[w][e].status = "pending"
    BY DEF TypeOK, LockInv, Untried
  <1>2. lock[e] = w /\ row[e].status = "pending" /\ phase[e] = "queued"
    BY <1>1 DEF LockInv, Loaded, Stored
  <1>3. \A v \in Workers : mem[v][e].status # "sent"
    BY <1>1, <1>2 DEF LockInv, Loaded
  <1>4. ~ Over(e)
    BY <1>2, <1>3 DEF Over
  <1>5. ~ copies[e] > 0 /\ copies[e] \in 0..2
    BY <1>1, <1>4 DEF CopyInv, TypeOK
  <1>6. QED
    BY <1>5

LEMMA AcceptCounts ==
    ASSUME TypeOK, NEW e \in Emails, Accept(e)
    PROVE  /\ copies'[e] > 0
           /\ copies[e] = 0 => copies'[e] = 1
           /\ \A d \in Emails : copies[d] > 0 => copies'[d] > 0
           /\ \A d \in Emails : d # e => copies'[d] = copies[d]
  BY DEF Accept, TypeOK

\* A step that leaves the rows and the objects alone, and changes the phases of
\* e-mails not yet queued only.
LEMMA CopyInvDelivery ==
    ASSUME TypeOK, LockInv, CopyInv, NEW e \in Emails, UNCHANGED <<row, mem>>,
           phase[e] \notin {"direct", "lost", "queued"},
           \A d \in Emails : d # e => phase'[d] = phase[d] /\ cause'[d] = cause[d],
           \/ UNCHANGED history
           \/ Accept(e) /\ UNCHANGED cause /\ phase'[e] = "direct"
           \/ Accept(e) /\ cause'[e] # {}
    PROVE  CopyInv'
  <1>1. cause[e] = {} => copies[e] = 0
    BY NotAcceptedBeforeQueued
  <1>2. /\ \A d \in Emails : copies[d] > 0 => copies'[d] > 0
        /\ \A d \in Emails : d # e => copies'[d] = copies[d]
    BY AcceptCounts DEF history, TypeOK
  <1>3. ASSUME NEW d \in Emails, cause'[d] = {}, copies'[d] > 0
        PROVE  copies'[d] = 1 /\ Over(d)'
    <2>1. CASE d # e
      BY <1>2, <1>3, <2>1 DEF CopyInv, Over
    <2>2. CASE d = e
      <3>1. CASE UNCHANGED history
        BY <1>1, <1>3, <2>2, <3>1 DEF history
      <3>2. CASE Accept(e) /\ UNCHANGED cause /\ phase'[e] = "direct"
        BY <1>1, <1>3, <2>2, <3>2, AcceptCounts DEF Over
      <3>3. QED
        BY <1>3, <2>2, <3>1, <3>2
    <2>3. QED
      BY <2>1, <2>2
  <1>4. QED
    BY <1>2, <1>3 DEF CopyInv

\* The attempt to send e from w's batch.
LEMMA CopyInvSend ==
    ASSUME TypeOK, LockInv, CopyInv, NEW w \in Workers, NEW e \in todo[w],
           UNCHANGED <<row, phase>>,
           \A v \in Workers, d \in Emails : v # w \/ d # e => mem'[v][d] = mem[v][d],
           \A d \in Emails : d # e => cause'[d] = cause[d],
           \/ UNCHANGED history /\ mem'[w][e].status # "sent"
           \/ Accept(e) /\ UNCHANGED cause /\ mem'[w][e].status = "sent"
           \/ Accept(e) /\ cause'[e] # {} /\ mem'[w][e].status # "sent"
    PROVE  CopyInv'
  <1>0. e \in Emails /\ mem[w][e].status = "pending"
    BY DEF TypeOK, LockInv, Untried
  <1>1. cause[e] = {} => copies[e] = 0
    BY NotAcceptedBeforeTried
  <1>2. /\ \A d \in Emails : copies[d] > 0 => copies'[d] > 0
        /\ \A d \in Emails : d # e => copies'[d] = copies[d]
    BY <1>0, AcceptCounts DEF history, TypeOK
  <1>3. ASSUME NEW d \in Emails, cause'[d] = {}, copies'[d] > 0
        PROVE  copies'[d] = 1 /\ Over(d)'
    <2>1. CASE d # e
      BY <1>2, <1>3, <2>1 DEF CopyInv, Over
    <2>2. CASE d = e
      <3>1. CASE UNCHANGED history
        BY <1>1, <1>3, <2>2, <3>1 DEF history
      <3>2. CASE Accept(e) /\ UNCHANGED cause /\ mem'[w][e].status = "sent"
        BY <1>0, <1>1, <1>3, <2>2, <3>2, AcceptCounts DEF Over
      <3>3. QED
        BY <1>3, <2>2, <3>1, <3>2
    <2>3. QED
      BY <2>1, <2>2
  <1>4. \A v \in Workers, d \in Emails : mem'[v][d].status = "sent" => copies'[d] > 0
    BY <1>0, <1>2, AcceptCounts DEF CopyInv
  <1>5. QED
    BY <1>2, <1>3, <1>4 DEF CopyInv

\* A session that ends without a commit: what it marked sent is in doubt.
LEMMA CopyInvRollback ==
    ASSUME TypeOK, LockInv, CopyInv, NEW w \in Workers, UNCHANGED <<row, copies>>,
           CloseSession(w), Rollback(w),
           \A d \in Emails : phase'[d] = phase[d] \/ (phase'[d] = "lost" /\ phase[d] # "queued")
    PROVE  CopyInv'
  <1>1. \A d \in Emails : mem[w][d].status = "sent" => cause'[d] # {}
    BY DEF Rollback, Blame
  <1>2. \A d \in Emails : cause'[d] = {} => cause[d] = {}
    BY DEF Rollback, Blame, TypeOK
  <1>3. \A v \in Workers, d \in Emails : v # w => mem'[v][d] = mem[v][d]
    BY DEF CloseSession, TypeOK
  <1>4. \A d \in Emails : mem'[w][d].status = "absent"
    BY BlankStatus DEF CloseSession, Nothing, TypeOK
  <1>5. ASSUME NEW d \in Emails, cause'[d] = {}, copies'[d] > 0
        PROVE  copies'[d] = 1 /\ Over(d)'
    <2>1. copies[d] = 1 /\ Over(d)
      BY <1>2, <1>5 DEF CopyInv
    <2>2. Over(d)'
      BY <1>1, <1>3, <1>5, <2>1 DEF Over
    <2>3. QED
      BY <2>1, <2>2
  <1>6. QED
    BY <1>3, <1>4, <1>5 DEF CopyInv

LEMMA CopyInvInductive ==
    ASSUME TypeOK, LockInv, CopyInv, [Next]_vars
    PROVE  CopyInv'
  <1>1. ASSUME NEW e \in Emails, Request(e)
        PROVE  CopyInv'
    BY <1>1, CopyInvDelivery DEF Request, history, TypeOK
  <1>2. ASSUME NEW e \in Emails, DeliverSucceeds(e)
        PROVE  CopyInv'
    BY <1>2, CopyInvDelivery DEF DeliverSucceeds, TypeOK
  <1>3. ASSUME NEW e \in Emails, NEW f \in FailureKinds, DeliverFails(e, f)
        PROVE  CopyInv'
    <2>1. UNCHANGED history \/ (Accept(e) /\ Blame({e}, "unacked"))
      BY <1>3 DEF DeliverFails
    <2>2. Blame({e}, "unacked") => /\ cause'[e] # {}
                                   /\ \A d \in Emails : d # e => cause'[d] = cause[d]
      BY DEF Blame
    <2>3. \A d \in Emails : d # e => phase'[d] = phase[d] /\ cause'[d] = cause[d]
      BY <1>3, <2>1, <2>2 DEF DeliverFails, history, TypeOK
    <2>4. UNCHANGED <<row, mem>> /\ phase[e] = "sending"
      BY <1>3 DEF DeliverFails
    <2>5. QED
      BY <2>1, <2>2, <2>3, <2>4, CopyInvDelivery
  <1>4. ASSUME NEW e \in Emails, Enqueue(e)
        PROVE  CopyInv'
    <2>1. phase[e] \notin {"direct", "lost", "queued"}
      BY <1>4 DEF Enqueue, AllFailures
    <2>2. cause[e] = {} => copies[e] = 0
      BY <2>1, NotAcceptedBeforeQueued
    <2>3. /\ \A d \in Emails : d # e => phase'[d] = phase[d] /\ row'[d] = row[d]
          /\ row'[e].status = "pending"
          /\ UNCHANGED <<mem, copies, cause>>
      BY <1>4, BlankStatus DEF Enqueue, TypeOK, history
    <2>4. \A d \in Emails : cause[d] = {} /\ copies[d] > 0 => d # e /\ Over(d)'
      BY <2>2, <2>3 DEF CopyInv, Over
    <2>5. QED
      BY <2>3, <2>4 DEF CopyInv
  <1>5. ASSUME NEW e \in Emails, EnqueueFails(e)
        PROVE  CopyInv'
    BY <1>5, CopyInvDelivery DEF EnqueueFails, history, TypeOK, AllFailures
  <1>6. ASSUME NEW w \in Workers, BeginTick(w)
        PROVE  CopyInv'
    <2>1. /\ \A v \in Workers : v # w => mem'[v] = mem[v]
          /\ \A e \in Emails : mem'[w][e].status # "sent" /\ mem[w][e].status # "sent"
      <3>1. PICK B \in Batches(Selectable) :
              mem' = [mem EXCEPT ![w] = [e \in Emails |-> IF e \in B THEN row[e] ELSE Blank]]
        BY <1>6 DEF BeginTick
      <3>2. \A e \in B : row[e].status = "pending"
        BY DEF Batches, Selectable, Due
      <3>3. mem[w] = Nothing
        BY <1>6 DEF BeginTick, LockInv, Idle
      <3>4. QED
        BY <3>1, <3>2, <3>3, BlankStatus DEF TypeOK, Nothing
    <2>2. UNCHANGED <<phase, row, copies, cause>>
      BY <1>6 DEF BeginTick, history
    <2>3. QED
      BY <2>1, <2>2 DEF CopyInv, Over
  <1>7. ASSUME NEW w \in Workers, NEW e \in Emails, SendSucceeds(w, e)
        PROVE  CopyInv'
    <2>1. e \in todo[w]
      BY <1>7 DEF SendSucceeds, NextInBatch
    <2>2. mem[w][e] \in Row
      BY DEF TypeOK
    <2>3. /\ \A v \in Workers, d \in Emails : v # w \/ d # e => mem'[v][d] = mem[v][d]
          /\ mem'[w][e] = [mem[w][e] EXCEPT !.status = "sent", !.error = NoError]
      BY <1>7 DEF SendSucceeds, TypeOK
    <2>4. mem'[w][e].status = "sent"
      BY <2>2, <2>3 DEF Row
    <2>5. QED
      BY <1>7, <2>1, <2>3, <2>4, CopyInvSend DEF SendSucceeds
  <1>8. ASSUME NEW w \in Workers, NEW e \in Emails, NEW f \in FailureKinds, SendFails(w, e, f)
        PROVE  CopyInv'
    <2>1. e \in todo[w] /\ mem[w][e] \in Row /\ mem[w][e].status = "pending"
      BY <1>8 DEF SendFails, NextInBatch, TypeOK, LockInv, Untried
    <2>2. /\ \A v \in Workers, d \in Emails : v # w \/ d # e => mem'[v][d] = mem[v][d]
          /\ mem'[w][e] = AfterFailure(mem[w][e], e, f)
      BY <1>8 DEF SendFails, TypeOK
    <2>3. mem'[w][e].status # "sent"
      BY <2>1, <2>2, FailureStatus
    <2>4. UNCHANGED history \/ (Accept(e) /\ Blame({e}, "unacked"))
      BY <1>8 DEF SendFails
    <2>5. Blame({e}, "unacked") => /\ cause'[e] # {}
                                   /\ \A d \in Emails : d # e => cause'[d] = cause[d]
      BY DEF Blame
    <2>6. \A d \in Emails : d # e => cause'[d] = cause[d]
      BY <2>4, <2>5 DEF history
    <2>7. UNCHANGED <<row, phase>>
      BY <1>8 DEF SendFails
    <2>8. QED
      BY <2>1, <2>2, <2>3, <2>4, <2>5, <2>6, <2>7, CopyInvSend
  <1>9. ASSUME NEW w \in Workers, Purge(w)
        PROVE  CopyInv'
    <2>1. UNCHANGED <<phase, row, copies>>
      BY <1>9 DEF Purge
    <2>2. \A d \in Emails : cause'[d] = {} => cause[d] = {}
      BY <1>9 DEF Purge, Blame, TypeOK
    <2>3. \A v \in Workers, d \in Emails :
             \/ mem'[v][d] = mem[v][d]
             \/ mem'[v][d].status = "absent" /\ cause'[d] # {}
      BY <1>9, BlankStatus DEF Purge, Blame, TypeOK
    <2>4. \A d \in Emails : cause'[d] = {} /\ Over(d) => Over(d)'
      BY <2>1, <2>3 DEF Over
    <2>5. QED
      BY <2>1, <2>2, <2>3, <2>4 DEF CopyInv
  <1>10. ASSUME NEW w \in Workers, Commit(w)
         PROVE  CopyInv'
    <2>1. UNCHANGED <<phase, copies, cause>>
      BY <1>10 DEF Commit, history
    <2>2. /\ \A v \in Workers : v # w => mem'[v] = mem[v]
          /\ \A d \in Emails : mem'[w][d].status = "absent"
      BY <1>10, BlankStatus DEF Commit, CloseSession, Nothing, TypeOK
    <2>3. ASSUME NEW d \in Emails
          PROVE  \/ row'[d].status = mem[w][d].status /\ mem[w][d].status # "absent"
                 \/ mem[w][d].status = "absent" /\ row'[d] = row[d]
                 \/ /\ mem[w][d].status = "absent"
                    /\ row'[d].status = "absent"
                    /\ row[d].status \in Terminal
      <3>1. CASE d \in deleting[w]
        <4>1. row[d].status \in Terminal
          BY <3>1 DEF LockInv, Deleted
        <4>2. mem[w][d].status = "absent"
          BY <4>1 DEF LockInv, Loaded, Terminal
        <4>3. QED
          BY <1>10, <3>1, <4>1, <4>2, BlankStatus DEF Commit
      <3>2. CASE d \notin deleting[w] /\ d \in Session(w)
        <4>1. row'[d] = [mem[w][d] EXCEPT !.age = 0] /\ mem[w][d] \in Row
          BY <1>10, <3>2 DEF Commit, TypeOK
        <4>2. QED
          BY <3>2, <4>1, StatusUnchanged DEF Session
      <3>3. CASE d \notin deleting[w] /\ d \notin Session(w)
        BY <1>10, <3>3 DEF Commit, Session
      <3>4. QED
        BY <3>1, <3>2, <3>3
    <2>4. \A d \in Emails : mem[w][d].status # "absent" => row[d].status = "pending" /\ phase[d] = "queued"
      BY DEF LockInv, Loaded, Stored
    <2>5. ASSUME NEW d \in Emails, Over(d)
          PROVE  Over(d)'
      <3>1. CASE phase[d] \in {"direct", "lost"}
        BY <2>1, <3>1 DEF Over
      <3>2. CASE phase[d] = "queued" /\ row[d].status # "pending"
        BY <2>1, <2>3, <2>4, <3>2 DEF Over
      <3>3. CASE mem[w][d].status = "sent"
        BY <2>1, <2>3, <2>4, <3>3 DEF Over
      <3>4. CASE \E v \in Workers : v # w /\ mem[v][d].status = "sent"
        BY <2>2, <3>4 DEF Over
      <3>5. QED
        BY <2>5, <3>1, <3>2, <3>3, <3>4 DEF Over
    <2>6. \A d \in Emails : row'[d].status = "sent" => copies'[d] > 0
      BY <2>1, <2>3 DEF CopyInv
    <2>7. QED
      BY <2>1, <2>2, <2>5, <2>6 DEF CopyInv
  <1>11. ASSUME NEW w \in Workers, TickFails(w)
         PROVE  CopyInv'
    <2>1. CloseSession(w) /\ Rollback(w) /\ UNCHANGED <<phase, row, copies>>
      BY <1>11 DEF TickFails, Rollback
    <2>2. QED
      BY <2>1, CopyInvRollback
  <1>12. ASSUME NEW w \in Workers, Crash(w)
         PROVE  CopyInv'
    <2>1. \A d \in Emails : phase'[d] = phase[d] \/ (phase'[d] = "lost" /\ phase[d] # "queued")
      <3>1. PICK S \in SUBSET InFlight : phase' = [e \in Emails |-> IF e \in S THEN "lost" ELSE phase[e]]
        BY <1>12 DEF Crash
      <3>2. \A d \in S : phase[d] # "queued"
        BY DEF InFlight, AllFailures
      <3>3. QED
        BY <3>1, <3>2
    <2>2. CloseSession(w) /\ Rollback(w) /\ UNCHANGED <<row, copies>>
      BY <1>12 DEF Crash, Rollback
    <2>3. QED
      BY <2>1, <2>2, CopyInvRollback
  <1>13. ASSUME NEW w \in Workers, Restart(w)
         PROVE  CopyInv'
    BY <1>13 DEF Restart, history, CopyInv, Over
  <1>14. CASE TimePasses
    <2>1. \A e \in Emails : row'[e].status = row[e].status
      BY <1>14, StatusUnchanged DEF TimePasses, TypeOK
    <2>2. \A w \in Workers, e \in Emails : mem'[w][e].status = mem[w][e].status
      BY <1>14, StatusUnchanged DEF TimePasses, TypeOK
    <2>3. UNCHANGED <<phase, copies, cause>>
      BY <1>14 DEF TimePasses, history
    <2>4. \A e \in Emails : Over(e) => Over(e)'
      BY <2>1, <2>2, <2>3 DEF Over
    <2>5. QED
      BY <2>1, <2>2, <2>3, <2>4 DEF CopyInv
  <1>15. CASE UNCHANGED vars
    BY <1>15 DEF vars, system, history, CopyInv, Over
  <1>16. QED
    BY <1>1, <1>2, <1>3, <1>4, <1>5, <1>6, <1>7, <1>8, <1>9, <1>10, <1>11,
       <1>12, <1>13, <1>14, <1>15 DEF Next, Deliver, Tick

LEMMA CopyInvHolds == Spec => []CopyInv
  <1>1. Init => CopyInv
    BY BlankStatus DEF Init, Nothing, CopyInv
  <1>2. QED
    BY <1>1, TypeCorrect, LockInvHolds, CopyInvInductive, PTL DEF Spec

\* SMTP accepts an e-mail twice only after a rolled-back tick, a lost
\* acknowledgement, or a result the housekeeping DELETE discarded.
THEOREM DuplicatesExplained == Spec => []EveryDuplicateHasACause
  <1>1. CopyInv => EveryDuplicateHasACause
    BY DEF CopyInv, EveryDuplicateHasACause
  <1>2. QED
    BY <1>1, CopyInvHolds, PTL

\* A committed row that says sent was accepted by SMTP.
THEOREM SentIsTrue == Spec => []SentMeansAccepted
  <1>1. CopyInv => SentMeansAccepted
    BY DEF CopyInv, SentMeansAccepted
  <1>2. QED
    BY <1>1, CopyInvHolds, PTL

----------------------------------------------------------------------------
(* Attempts *)

\* An object differs from the row it was loaded from by one attempt at most.
Outcome(w, e) ==
    LET r == row[e]  m == mem[w][e] IN
    /\ m.status = "pending" => \/ m.attempts = r.attempts
                               \/ /\ e \notin todo[w]
                                  /\ m.attempts = r.attempts + 1
                                  /\ m.attempts < MaxAttempts(e)
    /\ m.status = "sent"    => m.attempts = r.attempts
    /\ m.status = "failed"  => m.attempts = r.attempts + 1

\* A pending row has attempts left.
AttemptInv ==
    /\ \A e \in Emails : row[e].status = "pending" => row[e].attempts < MaxAttempts(e)
    /\ \A w \in Workers, e \in Emails : Outcome(w, e)

LEMMA FailureCounts ==
    ASSUME NEW r \in Row, NEW f, NEW e
    PROVE  /\ AfterFailure(r, e, f).attempts = r.attempts + 1
           /\ r.status = "pending" /\ AfterFailure(r, e, f).status = "pending"
                 => r.attempts + 1 < MaxAttempts(e)
  <1> DEFINE tried == [r EXCEPT !.attempts = @ + 1, !.error = f]
  <1>1. tried.attempts = r.attempts + 1 /\ tried.attempts \in Nat /\ MaxAttempts(e) \in Nat
    BY DEF Row, MaxAttempts
  <1>2. CASE IsPermanentSmtpFailure(f) \/ tried.attempts >= MaxAttempts(e)
    <2>1. AfterFailure(r, e, f) = [tried EXCEPT !.status = "failed"]
      BY <1>2 DEF AfterFailure
    <2>2. QED
      BY <1>1, <2>1 DEF Row
  <1>3. CASE ~ (IsPermanentSmtpFailure(f) \/ tried.attempts >= MaxAttempts(e))
    <2>1. AfterFailure(r, e, f) = [tried EXCEPT !.wait = Interval]
      BY <1>3 DEF AfterFailure
    <2>2. ~ (tried.attempts >= MaxAttempts(e))
      BY <1>3
    <2>3. QED
      BY <1>1, <2>1, <2>2 DEF Row
  <1>4. QED
    BY <1>2, <1>3

\* Blank objects have no outcome to account for.
LEMMA BlankOutcome ==
    ASSUME NEW w, NEW e, mem[w][e].status = "absent"
    PROVE  Outcome(w, e)
  BY DEF Outcome

LEMMA AttemptInvInductive ==
    ASSUME TypeOK, LockInv, AttemptInv, [Next]_vars
    PROVE  AttemptInv'
  <1>1. ASSUME UNCHANGED <<row, mem, todo>>
        PROVE  AttemptInv'
    BY <1>1 DEF AttemptInv, Outcome
  <1>2. ASSUME NEW e \in Emails, Enqueue(e)
        PROVE  AttemptInv'
    <2>1. row[e].status = "absent"
      BY <1>2 DEF Enqueue, LockInv, Stored, AllFailures
    <2>2. /\ row'[e].status = "pending" /\ row'[e].attempts = 0
          /\ \A d \in Emails : d # e => row'[d] = row[d]
          /\ UNCHANGED <<mem, todo>>
      BY <1>2 DEF Enqueue, NewRow, Blank, TypeOK
    <2>3. 0 < MaxAttempts(e)
      BY DEF MaxAttempts
    <2>4. ASSUME NEW w \in Workers
          PROVE  Outcome(w, e)'
      BY <2>1, <2>2 DEF LockInv, Loaded, Outcome
    <2>5. ASSUME NEW w \in Workers, NEW d \in Emails, d # e
          PROVE  Outcome(w, d)'
      BY <2>2, <2>5 DEF AttemptInv, Outcome
    <2>6. QED
      BY <2>2, <2>3, <2>4, <2>5 DEF AttemptInv
  <1>3. ASSUME NEW w \in Workers, BeginTick(w)
        PROVE  AttemptInv'
    <2>1. PICK B \in Batches(Selectable) :
            /\ mem' = [mem EXCEPT ![w] = [e \in Emails |-> IF e \in B THEN row[e] ELSE Blank]]
            /\ todo' = [todo EXCEPT ![w] = B]
      BY <1>3 DEF BeginTick
    <2>2. \A e \in B : row[e].status = "pending"
      BY DEF Batches, Selectable, Due
    <2>3. UNCHANGED row
      BY <1>3 DEF BeginTick
    <2>4. ASSUME NEW v \in Workers, NEW e \in Emails
          PROVE  Outcome(v, e)'
      <3>1. CASE v = w /\ e \in B
        BY <2>1, <2>2, <2>3, <3>1 DEF Outcome, TypeOK
      <3>2. CASE v = w /\ e \notin B
        BY <2>1, <3>2, BlankStatus DEF Outcome, TypeOK
      <3>3. CASE v # w
        BY <2>1, <2>3, <3>3 DEF AttemptInv, Outcome, TypeOK
      <3>4. QED
        BY <3>1, <3>2, <3>3
    <2>5. QED
      BY <2>3, <2>4 DEF AttemptInv
  <1>4. ASSUME NEW w \in Workers, NEW e \in todo[w], UNCHANGED row,
               \A v \in Workers, d \in Emails : v # w \/ d # e => mem'[v][d] = mem[v][d],
               \A v \in Workers : todo'[v] \subseteq todo[v],
               \/ mem'[w][e].status = "sent" /\ mem'[w][e].attempts = mem[w][e].attempts
               \/ /\ e \notin todo'[w]
                  /\ mem'[w][e].status \in {"pending", "failed"}
                  /\ mem'[w][e].attempts = mem[w][e].attempts + 1
                  /\ mem'[w][e].status = "pending" => mem'[w][e].attempts < MaxAttempts(e)
        PROVE  AttemptInv'
    <2>1. e \in Emails /\ mem[w][e].status = "pending"
      BY DEF TypeOK, LockInv, Untried
    <2>2. mem[w][e].attempts = row[e].attempts
      BY <2>1 DEF AttemptInv, Outcome
    <2>3. Outcome(w, e)'
      BY <1>4, <2>2 DEF Outcome
    <2>4. ASSUME NEW v \in Workers, NEW d \in Emails, v # w \/ d # e
          PROVE  Outcome(v, d)'
      BY <1>4, <2>4 DEF AttemptInv, Outcome
    <2>5. QED
      BY <1>4, <2>3, <2>4 DEF AttemptInv
  <1>5. ASSUME NEW w \in Workers, NEW e \in Emails, SendSucceeds(w, e)
        PROVE  AttemptInv'
    <2>1. e \in todo[w] /\ mem[w][e] \in Row
      BY <1>5 DEF SendSucceeds, NextInBatch, TypeOK
    <2>2. /\ \A v \in Workers, d \in Emails : v # w \/ d # e => mem'[v][d] = mem[v][d]
          /\ mem'[w][e] = [mem[w][e] EXCEPT !.status = "sent", !.error = NoError]
          /\ \A v \in Workers : todo'[v] \subseteq todo[v]
      BY <1>5 DEF SendSucceeds, TypeOK
    <2>3. mem'[w][e].status = "sent" /\ mem'[w][e].attempts = mem[w][e].attempts
      BY <2>1, <2>2 DEF Row
    <2>4. UNCHANGED row
      BY <1>5 DEF SendSucceeds
    <2>5. QED
      BY <1>4, <2>1, <2>2, <2>3, <2>4
  <1>6. ASSUME NEW w \in Workers, NEW e \in Emails, NEW f \in FailureKinds, SendFails(w, e, f)
        PROVE  AttemptInv'
    <2>1. e \in todo[w] /\ mem[w][e] \in Row /\ mem[w][e].status = "pending"
      BY <1>6 DEF SendFails, NextInBatch, TypeOK, LockInv, Untried
    <2>2. /\ \A v \in Workers, d \in Emails : v # w \/ d # e => mem'[v][d] = mem[v][d]
          /\ mem'[w][e] = AfterFailure(mem[w][e], e, f)
          /\ \A v \in Workers : todo'[v] \subseteq todo[v]
          /\ e \notin todo'[w]
      BY <1>6 DEF SendFails, TypeOK
    <2>3. /\ mem'[w][e].status \in {"pending", "failed"}
          /\ mem'[w][e].attempts = mem[w][e].attempts + 1
          /\ mem'[w][e].status = "pending" => mem'[w][e].attempts < MaxAttempts(e)
      BY <2>1, <2>2, FailureStatus, FailureCounts
    <2>4. UNCHANGED row
      BY <1>6 DEF SendFails
    <2>5. QED
      BY <1>4, <2>1, <2>2, <2>3, <2>4
  <1>7. ASSUME NEW w \in Workers, UNCHANGED row, \A v \in Workers : todo'[v] \subseteq todo[v],
               \A v \in Workers, d \in Emails :
                   mem'[v][d] = mem[v][d] \/ mem'[v][d].status = "absent"
        PROVE  AttemptInv'
    BY <1>7 DEF AttemptInv, Outcome
  <1>8. ASSUME NEW w \in Workers, Purge(w)
        PROVE  AttemptInv'
    <2>1. \A v \in Workers, d \in Emails :
             mem'[v][d] = mem[v][d] \/ mem'[v][d].status = "absent"
      BY <1>8, BlankStatus DEF Purge, TypeOK
    <2>2. QED
      BY <1>7, <1>8, <2>1 DEF Purge
  <1>9. ASSUME NEW w \in Workers, CloseSession(w)
        PROVE  /\ \A v \in Workers : todo'[v] \subseteq todo[v]
               /\ \A v \in Workers, d \in Emails :
                      mem'[v][d] = mem[v][d] \/ mem'[v][d].status = "absent"
    BY <1>9, BlankStatus DEF CloseSession, Nothing, TypeOK
  <1>10. ASSUME NEW w \in Workers, Commit(w)
         PROVE  AttemptInv'
    <2>1. CloseSession(w)
      BY <1>10 DEF Commit
    <2>2. ASSUME NEW d \in Emails, row'[d].status = "pending"
          PROVE  row'[d].attempts < MaxAttempts(d)
      <3>1. CASE d \in Session(w) /\ d \notin deleting[w]
        <4>1. row'[d] = [mem[w][d] EXCEPT !.age = 0] /\ mem[w][d] \in Row
          BY <1>10, <3>1 DEF Commit, TypeOK
        <4>2. mem[w][d].status = "pending" /\ row'[d].attempts = mem[w][d].attempts
          BY <2>2, <4>1, StatusUnchanged
        <4>3. row[d].status = "pending"
          BY <4>2 DEF LockInv, Loaded
        <4>4. QED
          BY <4>2, <4>3 DEF AttemptInv, Outcome
      <3>2. CASE d \in deleting[w]
        <4>1. row'[d] = Blank
          BY <1>10, <3>2 DEF Commit
        <4>2. QED
          BY <2>2, <4>1, BlankStatus
      <3>3. CASE d \notin Session(w) /\ d \notin deleting[w]
        BY <1>10, <2>2, <3>3 DEF Commit, AttemptInv
      <3>4. QED
        BY <3>1, <3>2, <3>3
    <2>3. ASSUME NEW v \in Workers, NEW d \in Emails
          PROVE  Outcome(v, d)'
      <3>1. CASE mem'[v][d].status = "absent"
        BY <3>1 DEF Outcome
      <3>2. CASE mem'[v][d].status # "absent"
        <4>1. v # w /\ mem'[v][d] = mem[v][d]
          BY <2>1, <3>2, BlankStatus DEF CloseSession, Nothing, TypeOK
        <4>2. lock[d] = v
          BY <3>2, <4>1 DEF LockInv, Loaded
        <4>3. d \notin Session(w) /\ d \notin deleting[w]
          BY <4>1, <4>2 DEF LockInv, Loaded, Deleted, Session
        <4>4. row'[d] = row[d]
          BY <1>10, <4>3 DEF Commit
        <4>5. todo'[v] \subseteq todo[v]
          BY <1>9, <2>1
        <4>6. QED
          BY <4>1, <4>4, <4>5 DEF AttemptInv, Outcome
      <3>3. QED
        BY <3>1, <3>2
    <2>4. QED
      BY <2>2, <2>3 DEF AttemptInv
  <1>11. ASSUME NEW w \in Workers, TickFails(w) \/ Crash(w)
         PROVE  AttemptInv'
    <2>1. CloseSession(w) /\ UNCHANGED row
      BY <1>11 DEF TickFails, Crash, Rollback
    <2>2. QED
      BY <1>7, <1>9, <2>1
  <1>12. CASE TimePasses
    <2>1. \A e \in Emails : row'[e].status = row[e].status /\ row'[e].attempts = row[e].attempts
      BY <1>12, StatusUnchanged DEF TimePasses, TypeOK
    <2>2. \A w \in Workers, e \in Emails : /\ mem'[w][e].status = mem[w][e].status
                                          /\ mem'[w][e].attempts = mem[w][e].attempts
      BY <1>12, StatusUnchanged DEF TimePasses, TypeOK
    <2>3. UNCHANGED todo
      BY <1>12 DEF TimePasses
    <2>4. QED
      BY <2>1, <2>2, <2>3 DEF AttemptInv, Outcome
  <1>13. ASSUME \/ \E e \in Emails : \/ Request(e) \/ DeliverSucceeds(e) \/ EnqueueFails(e)
                                     \/ \E f \in FailureKinds : DeliverFails(e, f)
                \/ \E w \in Workers : Restart(w)
                \/ UNCHANGED vars
         PROVE  AttemptInv'
    <2>1. UNCHANGED <<row, mem, todo>>
      BY <1>13
         DEF Request, DeliverSucceeds, EnqueueFails, DeliverFails, Restart, vars, system
    <2>2. QED
      BY <1>1, <2>1
  <1>14. QED
    BY <1>2, <1>3, <1>5, <1>6, <1>8, <1>10, <1>11, <1>12, <1>13 DEF Next, Deliver, Tick

LEMMA AttemptInvHolds == Spec => []AttemptInv
  <1>1. Init => AttemptInv
    BY BlankStatus DEF Init, Nothing, AttemptInv, Outcome
  <1>2. QED
    BY <1>1, TypeCorrect, LockInvHolds, AttemptInvInductive, PTL DEF Spec
----------------------------------------------------------------------------
(* The life cycle *)

LEMMA StageTypes ==
    ASSUME TypeOK
    PROVE  /\ \A e \in Emails : Stage(e) \in Lifecycle!Stages
           /\ \A e \in Emails : row[e].attempts \in Nat
  BY DEF TypeOK, Row, Statuses, Terminal, Stage, Lifecycle!Stages

\* A step that keeps status, attempts and whether e was queued leaves e's stage.
LEMMA Stays ==
    ASSUME NEW e \in Emails,
           row'[e].status = row[e].status, row'[e].attempts = row[e].attempts,
           phase'[e] = "queued" <=> phase[e] = "queued"
    PROVE  Stage(e)' = Stage(e) /\ row'[e].attempts = row[e].attempts
  BY DEF Stage

LEMMA QueuedIsKept ==
    ASSUME TypeOK, LockInv, [Next]_vars, NEW e \in Emails, ~ Enqueue(e)
    PROVE  phase'[e] = "queued" <=> phase[e] = "queued"
  <1>1. ASSUME NEW d \in Emails, Request(d) \/ Deliver(d)
        PROVE  phase'[e] = "queued" <=> phase[e] = "queued"
    <2>1. CASE d = e
      BY <1>1, <2>1 DEF Request, Deliver, DeliverSucceeds, DeliverFails, EnqueueFails,
                        AllFailures, TypeOK
    <2>2. CASE d # e
      BY <1>1, <2>2 DEF Request, Deliver, DeliverSucceeds, DeliverFails, Enqueue,
                        EnqueueFails, TypeOK
    <2>3. QED
      BY <2>1, <2>2
  <1>2. ASSUME NEW w \in Workers, Crash(w)
        PROVE  phase'[e] = "queued" <=> phase[e] = "queued"
    BY <1>2 DEF Crash, InFlight, AllFailures, TypeOK
  <1>3. ASSUME \/ \E w \in Workers : Tick(w) \/ TickFails(w) \/ Restart(w)
               \/ TimePasses
               \/ UNCHANGED vars
        PROVE  UNCHANGED phase
    BY <1>3 DEF Tick, BeginTick, SendSucceeds, SendFails, Purge, Commit, TickFails,
                Restart, TimePasses, vars, system
  <1>4. QED
    BY <1>1, <1>2, <1>3 DEF Next

\* The abstract step e takes when w commits.
LEMMA CommitMoves ==
    ASSUME TypeOK, LockInv, AttemptInv, NEW w \in Workers, Commit(w), NEW e \in Emails
    PROVE  \/ Lifecycle!Retry(e) \/ Lifecycle!Send(e) \/ Lifecycle!GiveUp(e)
           \/ Lifecycle!Remove(e) \/ Lifecycle!Stay(e)
  <1> USE DEF Lifecycle!Moves
  <1>0. UNCHANGED phase
    BY DEF Commit
  <1>1. CASE e \in deleting[w]
    <2>1. row[e].status \in Terminal /\ phase[e] = "queued"
      BY <1>1 DEF LockInv, Deleted, Stored, Terminal
    <2>2. row'[e] = Blank
      BY <1>1 DEF Commit
    <2>3. Lifecycle!Remove(e)
      BY <1>0, <2>1, <2>2 DEF Lifecycle!Remove, Stage, Blank, Terminal
    <2>4. QED
      BY <2>3
  <1>2. CASE e \notin deleting[w] /\ e \notin Session(w)
    <2>1. row'[e] = row[e]
      BY <1>2 DEF Commit
    <2>2. QED
      BY <1>0, <2>1 DEF Lifecycle!Stay, Stage
  <1>3. CASE e \notin deleting[w] /\ e \in Session(w)
    <2> DEFINE m == mem[w][e]
    <2>1. m \in Row /\ m.status # "absent" /\ row[e].status = "pending" /\ row[e] \in Row
      BY <1>3 DEF LockInv, Loaded, Session, TypeOK
    <2>2. row'[e] = [m EXCEPT !.age = 0]
      BY <1>3 DEF Commit
    <2>3. row'[e].status = m.status /\ row'[e].attempts = m.attempts
      BY <2>1, <2>2, StatusUnchanged
    <2>4. Stage(e) = "pending" /\ Stage(e)' = m.status
      BY <2>1, <2>3 DEF Stage
    <2>5. row[e].attempts < MaxAttempts(e) /\ Outcome(w, e)
      BY <2>1 DEF AttemptInv
    <2>6. row[e].attempts \in Nat /\ MaxAttempts(e) \in Nat
      BY <2>1 DEF Row, MaxAttempts
    <2>7. m.status \in {"pending", "sent", "failed"}
      BY <2>1 DEF Row, Statuses, Terminal
    <2>8. CASE m.status = "pending"
      <3>1. CASE m.attempts = row[e].attempts
        BY <2>3, <2>4, <2>8, <3>1 DEF Lifecycle!Stay
      <3>2. CASE m.attempts = row[e].attempts + 1 /\ m.attempts < MaxAttempts(e)
        BY <2>3, <2>4, <2>8, <3>2 DEF Lifecycle!Retry
      <3>3. QED
        BY <2>5, <2>8, <3>1, <3>2 DEF Outcome
    <2>9. CASE m.status = "sent"
      BY <2>3, <2>4, <2>5, <2>9 DEF Lifecycle!Send, Outcome
    <2>10. CASE m.status = "failed"
      BY <2>3, <2>4, <2>5, <2>6, <2>10 DEF Lifecycle!GiveUp, Outcome
    <2>11. QED
      BY <2>7, <2>8, <2>9, <2>10
  <1>4. QED
    BY <1>1, <1>2, <1>3

LEMMA StepImplements ==
    ASSUME TypeOK, TypeOK', LockInv, AttemptInv, [Next]_vars
    PROVE  [Lifecycle!Next]_(Lifecycle!vars)
  <1>1. /\ [e \in Emails |-> Stage(e)]' \in [Emails -> Lifecycle!Stages]
        /\ [e \in Emails |-> row[e].attempts]' \in [Emails -> Nat]
    <2>1. \A e \in Emails : Stage(e)' \in Lifecycle!Stages /\ row'[e].attempts \in Nat
      BY DEF TypeOK, Row, Statuses, Terminal, Stage, Lifecycle!Stages
    <2>2. QED
      BY <2>1
  <1>2. ASSUME NEW e \in Emails
        PROVE  \/ Lifecycle!Store(e) \/ Lifecycle!Retry(e) \/ Lifecycle!Send(e)
               \/ Lifecycle!GiveUp(e) \/ Lifecycle!Remove(e) \/ Lifecycle!Stay(e)
    <2>1. CASE Enqueue(e)
      <3>1. row[e].status = "absent" /\ phase[e] # "queued"
        BY <2>1 DEF Enqueue, LockInv, Stored, AllFailures
      <3>2. row'[e].status = "pending" /\ row'[e].attempts = 0
        BY <2>1 DEF Enqueue, NewRow, Blank, TypeOK
      <3>3. QED
        BY <3>1, <3>2 DEF Lifecycle!Store, Lifecycle!Moves, Stage
    <2>2. CASE \E w \in Workers : Commit(w)
      BY <2>2, CommitMoves
    <2>3. CASE ~ Enqueue(e) /\ ~ \E w \in Workers : Commit(w)
      <3>1. row'[e].status = row[e].status /\ row'[e].attempts = row[e].attempts
        <4>1. CASE TimePasses
          BY <4>1, StatusUnchanged DEF TimePasses, TypeOK
        <4>2. CASE \E d \in Emails : d # e /\ Enqueue(d)
          BY <4>2 DEF Enqueue, TypeOK
        <4>3. CASE ~ TimePasses /\ ~ \E d \in Emails : Enqueue(d)
          BY <2>3, <4>3 DEF Next, Deliver, Tick, Request, DeliverSucceeds, DeliverFails,
             EnqueueFails, BeginTick, SendSucceeds, SendFails, Purge, TickFails, Crash,
             Restart, vars, system
        <4>4. QED
          BY <2>3, <4>1, <4>2, <4>3
      <3>2. phase'[e] = "queued" <=> phase[e] = "queued"
        BY <2>3, QueuedIsKept
      <3>3. QED
        BY <3>1, <3>2 DEF Lifecycle!Stay, Stage
    <2>4. QED
      BY <2>1, <2>2, <2>3
  <1>3. QED
    BY <1>1, <1>2 DEF Lifecycle!Next

\* The table, as committed, implements the life cycle: each failed attempt is
\* counted once, no row is given more attempts than its limit, a settled row is
\* never pending again, and only settled rows are removed.
THEOREM OutboxImplementsLifecycle == Spec => ImplementsLifecycle
  <1>1. Init => Lifecycle!Init
    BY DEF Init, Lifecycle!Init, Nothing, Stage, Blank
  <1>2. QED
    BY <1>1, TypeCorrect, LockInvHolds, AttemptInvHolds, StepImplements, PTL
       DEF Spec, ImplementsLifecycle, Lifecycle!Spec
============================================================================
