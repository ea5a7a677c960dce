-------------------------- MODULE SessionPoolProofs --------------------------
(***************************************************************************)
(* Proofs about the threads of Transcription under the requests of         *)
(* SessionPool: for any number of recordings, of other calls, of threads   *)
(* and of connections.                                                     *)
(***************************************************************************)
EXTENDS SessionPool, FiniteSetTheorems, TLAPS

USE TranscriptionAssumption DEF Jobs

----------------------------------------------------------------------------
(* A step of the system is a step of the threads or leaves them alone.     *)

TranscriptionNext ==
    \/ \E v \in Voices : Receives(v) \/ ReceivesNothing(v) \/ WriteFails(v) \/ Resumes(v)
    \/ \E s \in Shorts : Calls(s)
    \/ \E j \in Jobs : ThreadStep(j)

LEMMA Projection ==
    ASSUME [Next]_vars
    PROVE  TranscriptionNext \/ UNCHANGED transcription
  BY DEF Next, vars, Records, TranscriptionNext

----------------------------------------------------------------------------
(* Types                                                                   *)

LEMMA TypeInitial == TInit => TranscriptionTypeOK
  <1> SUFFICES ASSUME TInit PROVE TranscriptionTypeOK
    OBVIOUS
  <1>1. MaxFails \in Nat
    BY DEF TranscriptionAssumption
  <1>2. fails \in 0 .. MaxFails /\ loads \in Nat
    BY <1>1 DEF TInit
  <1>3. QED
    BY <1>2 DEF TInit, TranscriptionTypeOK

LEMMA TypeInductive ==
    ASSUME TranscriptionTypeOK, TranscriptionNext \/ UNCHANGED transcription
    PROVE  TranscriptionTypeOK'
  <1>1. ASSUME NEW v \in Voices, Receives(v) PROVE TranscriptionTypeOK'
    BY <1>1 DEF Receives, Thread, TranscriptionTypeOK
  <1>2. ASSUME NEW v \in Voices, ReceivesNothing(v) PROVE TranscriptionTypeOK'
    BY <1>2 DEF ReceivesNothing, TranscriptionTypeOK
  <1>3. ASSUME NEW v \in Voices, WriteFails(v) PROVE TranscriptionTypeOK'
    BY <1>3 DEF WriteFails, TranscriptionTypeOK
  <1>4. ASSUME NEW v \in Voices, Resumes(v) PROVE TranscriptionTypeOK'
    <2>1. CASE Removes(v)
      BY <1>4, <2>1 DEF Resumes, Removes, Unlinks, TranscriptionTypeOK
    <2>2. CASE RemovalFails(v)
      <3>1. fails' \in 0 .. MaxFails
        BY <2>2 DEF RemovalFails, TranscriptionTypeOK
      <3>2. QED
        BY <1>4, <2>2, <3>1 DEF Resumes, RemovalFails, TranscriptionTypeOK
    <2>3. QED
      BY <1>4, <2>1, <2>2 DEF Resumes
  <1>5. ASSUME NEW s \in Shorts, Calls(s) PROVE TranscriptionTypeOK'
    BY <1>5 DEF Calls, Thread, TranscriptionTypeOK
  <1>6. ASSUME NEW j \in Jobs, ThreadStep(j) PROVE TranscriptionTypeOK'
    <2>1. CASE Starts(j)
      BY <2>1 DEF Starts, Thread, TranscriptionTypeOK
    <2>2. CASE j \in Shorts /\ CallReturns(j)
      BY <2>2 DEF CallReturns, Thread, TranscriptionTypeOK
    <2>3. CASE j \in Voices /\ (Looks(j) \/ LocksToLoad(j) \/ LocksToDecode(j))
      BY <2>3 DEF Looks, LocksToLoad, LocksToDecode, Thread, TranscriptionTypeOK
    <2>4. CASE j \in Voices /\ Loads(j)
      BY <2>4 DEF Loads, Thread, TranscriptionTypeOK
    <2>5. CASE j \in Voices /\ LoadFails(j)
      <3>1. fails' \in 0 .. MaxFails
        BY <2>5 DEF LoadFails, TranscriptionTypeOK
      <3>2. QED
        BY <2>5, <3>1 DEF LoadFails, Thread, TranscriptionTypeOK
    <2>6. CASE j \in Voices /\ Decodes(j)
      <3>1. PICK how \in {"done", "raised"} : Thread(j, how)
        BY <2>6 DEF Decodes
      <3>2. QED
        BY <2>6, <3>1 DEF Decodes, Thread, TranscriptionTypeOK
    <2>7. QED
      BY <1>6, <2>1, <2>2, <2>3, <2>4, <2>5, <2>6 DEF ThreadStep
  <1>7. CASE UNCHANGED transcription
    BY <1>7 DEF transcription, TranscriptionTypeOK
  <1>8. QED
    BY <1>1, <1>2, <1>3, <1>4, <1>5, <1>6, <1>7 DEF TranscriptionNext

----------------------------------------------------------------------------
(* The model                                                               *)

\* OneThreadAtTheModel, and what it takes: the model is loaded by the holder of
\* the lock only while it is missing, and counted when it is there; a request
\* that has not started has no thread.
ModelInv ==
    /\ OneThreadAtTheModel
    /\ loads = IF loaded THEN 1 ELSE 0
    /\ \A v \in Voices : thread[v] = "loading" => ~loaded
    /\ \A v \in Voices : voice[v] = "idle" => thread[v] = "none"

LEMMA ModelInitial == TInit => ModelInv
  BY TranscriptionAssumption DEF TranscriptionAssumption, TInit, ModelInv, OneThreadAtTheModel

LEMMA ModelInductive ==
    ASSUME TranscriptionTypeOK, ModelInv, TranscriptionNext \/ UNCHANGED transcription
    PROVE  ModelInv'
  <1> USE DEF ModelInv, OneThreadAtTheModel, TranscriptionTypeOK, Thread
  <1>1. ASSUME NEW v \in Voices, Receives(v) \/ ReceivesNothing(v) \/ WriteFails(v) \/ Resumes(v)
        PROVE  ModelInv'
    <2>1. CASE Receives(v)
      <3>1. voice[v] = "idle"
        BY <2>1 DEF Receives
      <3>2. QED
        BY <2>1 DEF Receives
    <2>2. QED
      BY <1>1, <2>1 DEF ReceivesNothing, WriteFails, Resumes
  <1>2. ASSUME NEW s \in Shorts, Calls(s) PROVE ModelInv'
    BY <1>2 DEF Calls
  <1>3. ASSUME NEW j \in Jobs, ThreadStep(j) PROVE ModelInv'
    <2>1. CASE Starts(j)
      BY <2>1 DEF Starts
    <2>2. CASE j \in Shorts /\ CallReturns(j)
      BY <2>2 DEF CallReturns
    <2>3. CASE j \in Voices /\ Looks(j)
      BY <2>3 DEF Looks
    <2>4. CASE j \in Voices /\ LocksToLoad(j)
      BY <2>4 DEF LocksToLoad, StillMissing
    <2>5. CASE j \in Voices /\ Loads(j)
      BY <2>5 DEF Loads
    <2>6. CASE j \in Voices /\ LoadFails(j)
      BY <2>6 DEF LoadFails
    <2>7. CASE j \in Voices /\ LocksToDecode(j)
      BY <2>7 DEF LocksToDecode
    <2>8. CASE j \in Voices /\ Decodes(j)
      BY <2>8 DEF Decodes
    <2>9. QED
      BY <1>3, <2>1, <2>2, <2>3, <2>4, <2>5, <2>6, <2>7, <2>8 DEF ThreadStep
  <1>4. CASE UNCHANGED transcription
    BY <1>4 DEF transcription
  <1>5. QED
    BY <1>1, <1>2, <1>3, <1>4 DEF TranscriptionNext

----------------------------------------------------------------------------
(* The temporary files                                                     *)

\* EveryLingeringFileHasACause, and no request has a file before it starts.
FileInv ==
    /\ EveryLingeringFileHasACause
    /\ \A v \in Voices : voice[v] = "idle" => ~file[v]

LEMMA FileInitial == TInit => FileInv
  BY DEF TInit, FileInv, EveryLingeringFileHasACause

LEMMA FileInductive ==
    ASSUME TranscriptionTypeOK, FileInv, TranscriptionNext \/ UNCHANGED transcription
    PROVE  FileInv'
  <1> USE DEF FileInv, EveryLingeringFileHasACause, TranscriptionTypeOK
  <1>1. ASSUME NEW v \in Voices, Receives(v) PROVE FileInv'
    BY <1>1 DEF Receives
  <1>2. ASSUME NEW v \in Voices, ReceivesNothing(v) PROVE FileInv'
    BY <1>2 DEF ReceivesNothing
  <1>3. ASSUME NEW v \in Voices, WriteFails(v) PROVE FileInv'
    BY <1>3 DEF WriteFails
  <1>4. ASSUME NEW v \in Voices, Resumes(v) PROVE FileInv'
    BY <1>4 DEF Resumes, Removes, RemovalFails, Unlinks
  <1>5. ASSUME NEW s \in Shorts, Calls(s) PROVE FileInv'
    BY <1>5 DEF Calls
  <1>6. ASSUME NEW j \in Jobs, ThreadStep(j) PROVE FileInv'
    <2>1. UNCHANGED <<voice, file, leaked>>
      BY <1>6 DEF ThreadStep, Starts, CallReturns, Looks, LocksToLoad, Loads, LoadFails,
                  LocksToDecode, Decodes
    <2>2. QED
      BY <2>1
  <1>7. CASE UNCHANGED transcription
    BY <1>7 DEF transcription
  <1>8. QED
    BY <1>1, <1>2, <1>3, <1>4, <1>5, <1>6, <1>7 DEF TranscriptionNext

----------------------------------------------------------------------------
(* The connections                                                         *)

LEMMA HandsAre ==
    ASSUME NEW h
    PROVE  h \in InHands <=> \E r \in Requests : \E n \in 1 .. held[r] : h = <<r, n>>
  <1>1. ASSUME NEW r, NEW n PROVE {r} \X (1 .. n) = {<<r, i>> : i \in 1 .. n}
    OBVIOUS
  <1>2. QED
    BY <1>1 DEF InHands

LEMMA FirstNumbers ==
    ASSUME NEW n \in Nat
    PROVE  IsFiniteSet(1 .. n) /\ Cardinality(1 .. n) = n
  BY FS_Interval

HeldOK == held \in [Requests -> 0 .. 2]

\* A connection is in the pool or in hands; how many a request has is known by
\* where it stands.
Books ==
    /\ IsFiniteSet(InHands)
    /\ free \in Nat /\ free + Cardinality(InHands) = PoolSize

StageOK == pc \in [Requests -> Stages]

LossOK == crowd \in [Mails -> Nat] /\ broken \subseteq Mails

\* What the stage of a request says of its connections: a background delivery has
\* one less than a request, from which alone "connect" is asked.
Holds(r) ==
    /\ pc[r] \in {"answering", "finishing"} => held[r] = 1
    /\ pc[r] \in {"working", "enqueue"} => held[r] = IF r \in Background THEN 0 ELSE 1
    /\ pc[r] = "queueing" => held[r] = IF r \in Background THEN 1 ELSE 2
    /\ pc[r] \in {"idle", "connect", "reconnect", "reread"} \cup Final => held[r] = 0
    /\ pc[r] = "connect" => r \notin Background

Explained(m) ==
    \/ m \in broken
    \/ 2 * crowd[m] > PoolSize
    \/ m \in Background /\ 2 * crowd[m] = PoolSize

PoolInv ==
    /\ StageOK /\ HeldOK /\ Books /\ LossOK
    /\ \A r \in Requests :
          /\ Holds(r)
          /\ pc[r] \in {"enqueue", "queueing", "lost"} => r \in Mails
          /\ pc[r] = "lost" => Explained(r)

LEMMA PoolInitial == PInit => PoolInv
  <1> SUFFICES ASSUME PInit PROVE PoolInv
    OBVIOUS
  <1>1. InHands = {}
    BY HandsAre DEF PInit
  <1>2. PoolSize \in Nat
    BY PoolAssumption DEF PoolAssumption
  <1>3. Books
    BY <1>1, <1>2, FS_EmptySet DEF Books, PInit
  <1>4. QED
    BY <1>3 DEF PInit, PoolInv, StageOK, HeldOK, LossOK, Holds, Stages, Waits, Final

\* Acquires moves one connection into hands.
LEMMA AcquiresBooks ==
    ASSUME PoolInv, NEW r \in Requests, Acquires(r)
    PROVE  Books'
  <1> DEFINE h == <<r, held[r] + 1>>
  <1>1. /\ held[r] \in 0 .. 1 /\ free \in Nat /\ free > 0 /\ free' = free - 1
        /\ held' = [held EXCEPT ![r] = held[r] + 1]
    <2>1. held[r] \in 0 .. 1
      BY DEF Acquires, PoolInv, HeldOK, Holds, Waits
    <2>2. QED
      BY <2>1 DEF Acquires, PoolInv, HeldOK, Books
  <1>2. InHands' = InHands \cup {h}
    <2>1. ASSUME NEW x
          PROVE  x \in InHands' <=> \E q \in Requests : \E n \in 1 .. held'[q] : x = <<q, n>>
      <3>1. ASSUME NEW q, NEW n PROVE {q} \X (1 .. n) = {<<q, i>> : i \in 1 .. n}
        OBVIOUS
      <3>2. QED
        BY <3>1 DEF InHands
    <2>2. \A q \in Requests \ {r} : held'[q] = held[q]
      BY <1>1 DEF PoolInv, HeldOK
    <2>3. held'[r] = held[r] + 1
      BY <1>1 DEF PoolInv, HeldOK
    <2>4. \A n : n \in 1 .. held'[r] <=> n \in 1 .. held[r] \/ n = held[r] + 1
      BY <1>1, <2>3
    <2>5. ASSUME NEW x PROVE x \in InHands' <=> x \in InHands \/ x = h
      BY <2>1, <2>2, <2>4, HandsAre
    <2>6. QED
      BY <2>5
  <1>3. h \notin InHands
    <2>1. \A q : \A n \in 1 .. held[q] : <<q, n>> = h => q = r /\ n = held[r] + 1
      OBVIOUS
    <2>2. held[r] + 1 \notin 1 .. held[r]
      BY <1>1
    <2>3. QED
      BY <2>1, <2>2, HandsAre
  <1> HIDE DEF h
  <1>4. /\ IsFiniteSet(InHands \cup {h}) /\ Cardinality(InHands \cup {h}) = Cardinality(InHands) + 1
        /\ Cardinality(InHands) \in Nat
    BY <1>3, FS_AddElement, FS_CardinalityType DEF PoolInv, Books
  <1>5. free + Cardinality(InHands) = PoolSize
    BY DEF PoolInv, Books
  <1>6. QED
    BY <1>1, <1>2, <1>4, <1>5 DEF Books

\* Releases moves all connections of a request back.
LEMMA ReleasesBooks ==
    ASSUME PoolInv, NEW r \in Requests, Releases(r)
    PROVE  Books' /\ HeldOK' /\ held'[r] = 0 /\ \A q \in Requests \ {r} : held'[q] = held[q]
  <1> DEFINE mine == {r} \X (1 .. held[r])
  <1>1. /\ held[r] \in Nat /\ free \in Nat /\ free' = free + held[r]
        /\ held' = [held EXCEPT ![r] = 0] /\ held \in [Requests -> 0 .. 2]
    BY DEF Releases, PoolInv, HeldOK, Books
  <1>2. HeldOK' /\ held'[r] = 0 /\ \A q \in Requests \ {r} : held'[q] = held[q]
    BY <1>1 DEF HeldOK
  <1>3. \A x : x \in mine <=> \E n \in 1 .. held[r] : x = <<r, n>>
    OBVIOUS
  <1>4. InHands' = InHands \ mine
    <2>1. ASSUME NEW x
          PROVE  x \in InHands' <=> \E q \in Requests : \E n \in 1 .. held'[q] : x = <<q, n>>
      <3>1. ASSUME NEW q, NEW n PROVE {q} \X (1 .. n) = {<<q, i>> : i \in 1 .. n}
        OBVIOUS
      <3>2. QED
        BY <3>1 DEF InHands
    <2>2. \A n : n \notin 1 .. held'[r]
      BY <1>2
    <2>3. ASSUME NEW x PROVE x \in InHands' <=> x \in InHands /\ x \notin mine
      <3> HIDE DEF mine
      <3>1. QED
        BY <1>2, <1>3, <2>1, <2>2, HandsAre
    <2>4. QED
      BY <2>3
  <1>5. InHands \cap mine = mine
    BY HandsAre
  <1>6. Cardinality(mine) = held[r]
    <2>1. IsFiniteSet(1 .. held[r]) /\ Cardinality(1 .. held[r]) = held[r]
      BY <1>1, FirstNumbers
    <2>2. IsFiniteSet({r}) /\ Cardinality({r}) = 1
      BY FS_Singleton
    <2>3. Cardinality(mine) = 1 * held[r]
      BY <2>1, <2>2, FS_Product
    <2>4. QED
      BY <1>1, <2>3
  <1>7. /\ IsFiniteSet(InHands')
        /\ Cardinality(InHands') = Cardinality(InHands) - held[r] /\ Cardinality(InHands) \in Nat
    <2> HIDE DEF mine
    <2>1. IsFiniteSet(InHands)
      BY DEF PoolInv, Books
    <2>2. /\ IsFiniteSet(InHands \ mine)
          /\ Cardinality(InHands \ mine) = Cardinality(InHands) - Cardinality(InHands \cap mine)
      BY <2>1, FS_Difference
    <2>3. Cardinality(InHands) \in Nat
      BY <2>1, FS_CardinalityType
    <2>4. QED
      BY <1>4, <1>5, <1>6, <2>2, <2>3
  <1>8. free + Cardinality(InHands) = PoolSize
    BY DEF PoolInv, Books
  <1>9. QED
    BY <1>1, <1>2, <1>7, <1>8 DEF Books

\* No request has more than two connections, so when the pool is empty at least
\* half as many hold them; and more than half, when one of them has only one.
LEMMA HoldersAre ==
    ASSUME PoolInv, free = 0
    PROVE  /\ IsFiniteSet(InHands) /\ Cardinality(InHands) = PoolSize
           /\ IsFiniteSet(Holders) /\ Cardinality(Holders) \in Nat
           /\ InHands \subseteq Holders \X (1 .. 2)
           /\ IsFiniteSet(Holders \X (1 .. 2))
           /\ Cardinality(Holders \X (1 .. 2)) = Cardinality(Holders) * 2
  <1>1. IsFiniteSet(InHands) /\ Cardinality(InHands) = PoolSize
    <2>1. Cardinality(InHands) \in Nat
      BY FS_CardinalityType DEF PoolInv, Books
    <2>2. QED
      BY <2>1 DEF PoolInv, Books
  <1>2. IsFiniteSet(Holders) /\ Cardinality(Holders) \in Nat
    <2> DEFINE first == [q \in Holders |-> <<q, 1>>]
    <2>1. ASSUME NEW q \in Holders PROVE first[q] \in InHands
      <3>1. 1 \in 1 .. held[q] /\ q \in Requests
        BY DEF PoolInv, HeldOK, Holders
      <3>2. QED
        BY <3>1, HandsAre
    <2>2. first \in Injection(Holders, InHands)
      BY <2>1 DEF Injection, IsInjective
    <2> HIDE DEF first
    <2>3. IsFiniteSet(Holders)
      BY <1>1, <2>2, FS_Injection
    <2>4. QED
      BY <2>3, FS_CardinalityType
  <1>3. InHands \subseteq Holders \X (1 .. 2)
    <2> SUFFICES ASSUME NEW h \in InHands PROVE h \in Holders \X (1 .. 2)
      OBVIOUS
    <2>1. PICK q \in Requests : \E n \in 1 .. held[q] : h = <<q, n>>
      BY HandsAre
    <2>2. PICK n \in 1 .. held[q] : h = <<q, n>>
      BY <2>1
    <2>3. held[q] \in 0 .. 2
      BY DEF PoolInv, HeldOK
    <2>4. n \in 1 .. 2 /\ q \in Holders
      BY <2>3 DEF Holders
    <2>5. QED
      BY <2>2, <2>4
  <1>4. /\ IsFiniteSet(Holders \X (1 .. 2))
        /\ Cardinality(Holders \X (1 .. 2)) = Cardinality(Holders) * 2
    <2>1. IsFiniteSet(1 .. 2) /\ Cardinality(1 .. 2) = 2
      <3>1. 2 \in Nat
        OBVIOUS
      <3>2. QED
        BY ONLY <3>1, FirstNumbers
    <2>2. /\ IsFiniteSet(Holders \X (1 .. 2))
          /\ Cardinality(Holders \X (1 .. 2)) = Cardinality(Holders) * Cardinality(1 .. 2)
      BY <1>2, <2>1, FS_Product
    <2>3. QED
      BY <2>1, <2>2
  <1>5. QED
    BY <1>1, <1>2, <1>3, <1>4

LEMMA HalfACrowd ==
    ASSUME PoolInv, free = 0
    PROVE  2 * Cardinality(Holders) >= PoolSize /\ Cardinality(Holders) \in Nat
  <1> DEFINE all == Holders \X (1 .. 2)
  <1>1. /\ InHands \subseteq all /\ IsFiniteSet(all)
        /\ Cardinality(all) = Cardinality(Holders) * 2 /\ Cardinality(Holders) \in Nat
        /\ Cardinality(InHands) = PoolSize
    BY HoldersAre
  <1> HIDE DEF all
  <1>2. Cardinality(InHands) <= Cardinality(all)
    BY <1>1, FS_Subset
  <1>3. PoolSize \in Nat
    BY PoolAssumption DEF PoolAssumption
  <1>4. QED
    BY <1>1, <1>2, <1>3

LEMMA TheCrowd ==
    ASSUME PoolInv, NEW r \in Requests, held[r] = 1, free = 0
    PROVE  2 * Cardinality(Holders) > PoolSize
  <1> DEFINE all == Holders \X (1 .. 2)
             second == <<r, 2>>
             most == all \ {second}
  <1>1. /\ InHands \subseteq all /\ IsFiniteSet(all)
        /\ Cardinality(all) = Cardinality(Holders) * 2 /\ Cardinality(Holders) \in Nat
        /\ Cardinality(InHands) = PoolSize
    BY HoldersAre
  <1>2. second \in all
    BY DEF Holders
  <1>3. second \notin InHands
    <2>1. \A q : \A n \in 1 .. held[q] : second = <<q, n>> => q = r /\ n = 2
      OBVIOUS
    <2>2. 2 \notin 1 .. held[r]
      OBVIOUS
    <2>3. QED
      BY <2>1, <2>2, HandsAre
  <1> HIDE DEF all, second
  <1>4. IsFiniteSet(most) /\ Cardinality(most) = Cardinality(all) - 1
    BY <1>1, <1>2, FS_RemoveElement
  <1>5. InHands \subseteq most
    BY <1>1, <1>3
  <1> HIDE DEF most
  <1>6. Cardinality(InHands) <= Cardinality(most)
    BY <1>4, <1>5, FS_Subset
  <1>7. PoolSize \in Nat
    BY PoolAssumption DEF PoolAssumption
  <1>8. QED
    BY <1>1, <1>4, <1>6, <1>7

\* Steps that return the connections of a request.
LEMMA ReturnStep ==
    ASSUME PoolInv, NEW r \in Requests, NEW to \in Final \cup {"reconnect", "reread"},
           Goes(r, to), Releases(r), LossOK',
           to = "lost" => r \in Mails /\ Explained(r)',
           \A m \in Mails \ {r} : Explained(m) => Explained(m)'
    PROVE  PoolInv'
  <1>1. Books' /\ HeldOK' /\ held'[r] = 0 /\ \A q \in Requests \ {r} : held'[q] = held[q]
    BY ReleasesBooks
  <1>2. StageOK' /\ pc'[r] = to /\ \A q \in Requests \ {r} : pc'[q] = pc[q]
    BY DEF Goes, PoolInv, StageOK, Stages, Waits
  <1>3. ASSUME NEW q \in Requests
        PROVE  /\ Holds(q)'
               /\ pc'[q] \in {"enqueue", "queueing", "lost"} => q \in Mails
               /\ pc'[q] = "lost" => Explained(q)'
    <2>1. CASE q = r
      BY <1>1, <1>2, <2>1 DEF Holds, Final
    <2>2. CASE q # r
      BY <1>1, <1>2, <2>2 DEF Holds, PoolInv
    <2>3. QED
      BY <2>1, <2>2
  <1>4. QED
    BY <1>1, <1>2, <1>3 DEF PoolInv

\* Steps of one request that leave the e-mails alone.
LEMMA QuietReturn ==
    ASSUME PoolInv, NEW r \in Requests, NEW to \in (Final \cup {"reconnect", "reread"}) \ {"lost"},
           Goes(r, to), Releases(r), UNCHANGED <<crowd, broken>>
    PROVE  PoolInv'
  <1>1. LossOK' /\ \A m \in Mails : Explained(m) => Explained(m)'
    BY DEF PoolInv, LossOK, Explained
  <1>2. QED
    BY <1>1, ReturnStep

LEMMA PoolInductive ==
    ASSUME PoolInv, [Next]_vars
    PROVE  PoolInv'
  <1>1. ASSUME NEW r \in Requests, Arrives(r) PROVE PoolInv'
    <2>1. Books' /\ HeldOK' /\ LossOK'
      BY <1>1 DEF Arrives, PoolInv, HeldOK, Books, LossOK, InHands
    <2>2. StageOK' /\ \A q \in Requests \ {r} : pc'[q] = pc[q]
      BY <1>1 DEF Arrives, Goes, PoolInv, StageOK, Stages, Waits
    <2>3. pc'[r] = (IF r \in Background THEN "working" ELSE "connect") /\ held[r] = 0
      BY <1>1 DEF Arrives, Goes, PoolInv, StageOK, Holds
    <2>4. QED
      BY <1>1, <2>1, <2>2, <2>3 DEF Arrives, PoolInv, Holds, Explained, Final
  <1>2. ASSUME NEW r \in Requests, Acquires(r) PROVE PoolInv'
    <2>1. Books'
      BY <1>2, AcquiresBooks
    <2>2. /\ pc[r] \in {"connect", "reconnect", "reread", "enqueue"}
          /\ held[r] = IF pc[r] = "enqueue" /\ r \notin Background THEN 1 ELSE 0
          /\ held' = [held EXCEPT ![r] = held[r] + 1] /\ UNCHANGED <<crowd, broken>>
      BY <1>2 DEF Acquires, PoolInv, Holds, Waits
    <2>3. HeldOK' /\ held'[r] = held[r] + 1 /\ \A q \in Requests \ {r} : held'[q] = held[q]
      BY <2>2 DEF PoolInv, HeldOK
    <2>4. /\ StageOK' /\ \A q \in Requests \ {r} : pc'[q] = pc[q]
          /\ pc'[r] = IF pc[r] = "connect" THEN "working"
                      ELSE IF pc[r] = "reconnect" THEN "answering"
                      ELSE IF pc[r] = "reread" THEN "finishing" ELSE "queueing"
      BY <1>2 DEF Acquires, Goes, PoolInv, StageOK, Stages, Waits
    <2>5. held'[r] = IF pc[r] = "enqueue" /\ r \notin Background THEN 2 ELSE 1
      BY <2>2, <2>3
    <2>6. LossOK' /\ \A m \in Mails : Explained(m) => Explained(m)'
      BY <2>2 DEF PoolInv, LossOK, Explained
    <2>7. ASSUME NEW q \in Requests
          PROVE  /\ Holds(q)'
                 /\ pc'[q] \in {"enqueue", "queueing", "lost"} => q \in Mails
                 /\ pc'[q] = "lost" => Explained(q)'
      <3>1. CASE q = r
        BY <2>2, <2>4, <2>5, <3>1 DEF PoolInv, Holds, Final
      <3>2. CASE q # r
        BY <2>3, <2>4, <2>6, <3>2 DEF PoolInv, Holds
      <3>3. QED
        BY <3>1, <3>2
    <2>8. QED
      BY <2>1, <2>3, <2>4, <2>6, <2>7 DEF PoolInv
  <1>3. ASSUME NEW r \in Requests, TimesOut(r) PROVE PoolInv'
    <2>1. CASE pc[r] = "enqueue"
      <3>1. /\ Goes(r, "lost") /\ Releases(r) /\ free = 0 /\ broken' = broken
            /\ crowd' = [crowd EXCEPT ![r] = Cardinality(Holders)]
        BY <1>3, <2>1 DEF TimesOut, Ends, Exhausted
      <3>2. r \in Mails /\ held[r] = IF r \in Background THEN 0 ELSE 1
        BY <2>1 DEF PoolInv, Holds
      <3> DEFINE many == Cardinality(Holders)
      <3>3. 2 * many >= PoolSize /\ many \in Nat
        BY <3>1, HalfACrowd
      <3>4. r \notin Background => 2 * many > PoolSize
        BY <3>1, <3>2, TheCrowd
      <3>5. crowd' = [crowd EXCEPT ![r] = many]
        BY <3>1
      <3> HIDE DEF many
      <3>6. LossOK' /\ crowd'[r] = many /\ \A m \in Mails \ {r} : crowd'[m] = crowd[m]
        BY <3>1, <3>2, <3>3, <3>5 DEF PoolInv, LossOK
      <3>7. PoolSize \in Nat
        BY PoolAssumption DEF PoolAssumption
      <3>8. Explained(r)'
        BY <3>3, <3>4, <3>6, <3>7 DEF Explained
      <3>9. \A m \in Mails \ {r} : Explained(m) => Explained(m)'
        BY <3>1, <3>6 DEF Explained
      <3>10. QED
        BY <3>1, <3>2, <3>6, <3>8, <3>9, ReturnStep DEF Final
    <2>2. CASE pc[r] # "enqueue"
      BY <1>3, <2>2, QuietReturn DEF TimesOut, Ends, Final
    <2>3. QED
      BY <2>1, <2>2
  <1>4. ASSUME NEW r \in Requests, Delivers(r) \/ Queues(r) PROVE PoolInv'
    BY <1>4, QuietReturn DEF Delivers, Queues, Ends, Final
  <1>5. ASSUME NEW r \in Requests, DeliveryFails(r) PROVE PoolInv'
    <2>1. Books' /\ HeldOK' /\ LossOK'
      BY <1>5 DEF DeliveryFails, PoolInv, HeldOK, Books, LossOK, InHands
    <2>2. StageOK' /\ pc'[r] = "enqueue" /\ \A q \in Requests \ {r} : pc'[q] = pc[q]
      BY <1>5 DEF DeliveryFails, Goes, PoolInv, StageOK, Stages, Waits
    <2>3. QED
      BY <1>5, <2>1, <2>2 DEF DeliveryFails, PoolInv, Holds, Explained, Final
  <1>6. ASSUME NEW r \in Requests, QueueFails(r) PROVE PoolInv'
    <2>1. r \in Mails /\ Goes(r, "lost") /\ Releases(r) /\ broken' = broken \cup {r} /\ crowd' = crowd
      BY <1>6 DEF QueueFails, Ends, PoolInv
    <2>2. LossOK' /\ Explained(r)' /\ \A m \in Mails : Explained(m) => Explained(m)'
      BY <2>1 DEF PoolInv, LossOK, Explained
    <2>3. QED
      BY <2>1, <2>2, ReturnStep DEF Final
  <1>7. ASSUME NEW r \in Requests, Chats(r) \/ Refused(r) \/ Saves(r) \/ Answers(r) PROVE PoolInv'
    BY <1>7, QuietReturn DEF Chats, Refused, Saves, Answers, Ends, Final
  <1>8. CASE UNCHANGED pool
    BY <1>8 DEF pool, PoolInv, StageOK, HeldOK, LossOK, Books, InHands, Holds, Explained
  <1>9. QED
    BY <1>1, <1>2, <1>3, <1>4, <1>5, <1>6, <1>7, <1>8 DEF Next, Resumed, Records, vars

----------------------------------------------------------------------------
(* The theorems                                                            *)

ThreadInv == TranscriptionTypeOK /\ ModelInv /\ FileInv

LEMMA ThreadInvariant == Spec => []ThreadInv
  <1>1. PInit => ThreadInv
    BY TypeInitial, ModelInitial, FileInitial DEF PInit, ThreadInv
  <1>2. ThreadInv /\ [Next]_vars => ThreadInv'
    BY Projection, TypeInductive, ModelInductive, FileInductive DEF ThreadInv
  <1>3. QED
    BY <1>1, <1>2, PTL DEF Spec

\* transcription_service.py: "The model is loaded exactly once per process",
\* "decoding is serialized with a lock", for any number of threads.
THEOREM TheModelIsShared == Spec => []OneThreadAtTheModel
  <1>1. ThreadInv => OneThreadAtTheModel
    BY DEF ThreadInv, ModelInv
  <1>2. QED
    BY <1>1, ThreadInvariant, PTL

\* The pool under the requests.
LEMMA PoolInvariant == Spec => []PoolInv
  <1>1. PInit => PoolInv
    BY PoolInitial
  <1>2. PoolInv /\ [Next]_vars => PoolInv'
    BY PoolInductive
  <1>3. QED
    BY <1>1, <1>2, PTL DEF Spec

\* The types: no request ever holds more than the connections of its two
\* sessions, and the pool never more than it was created with.
THEOREM TypesAreKept == Spec => []TypeOK
  <1>1. ThreadInv /\ PoolInv => TypeOK
    <2> SUFFICES ASSUME ThreadInv, PoolInv PROVE TypeOK
      OBVIOUS
    <2>1. Cardinality(InHands) \in Nat
      BY FS_CardinalityType DEF PoolInv, Books
    <2>2. free \in 0 .. PoolSize
      BY <2>1, PoolAssumption DEF PoolInv, Books, PoolAssumption
    <2>3. QED
      BY <2>2 DEF ThreadInv, PoolInv, StageOK, HeldOK, LossOK, TypeOK
  <1>2. QED
    BY <1>1, ThreadInvariant, PoolInvariant, PTL

\* core/database.py: the sessions of a request that is over - answered, failed
\* or timed out - have given their connections back, and none is handed out
\* twice, for any number of requests and a pool of any size.
THEOREM ConnectionsComeBack == Spec => []EveryConnectionComesBack
  <1>1. PoolInv => EveryConnectionComesBack
    BY DEF PoolInv, Holds, Books, EveryConnectionComesBack
  <1>2. QED
    BY <1>1, PoolInvariant, PTL

\* email_service.py, _enqueue_outbox: an e-mail that could neither be sent nor
\* be queued was lost to an outbox write that raised, or to a crowd of more than
\* half the pool's size - of half, if it brought no connection - whatever that size.
THEOREM LossesHaveACause == Spec => []EveryLossHasACause
  <1>1. PoolInv => EveryLossHasACause
    BY DEF PoolInv, Explained, EveryLossHasACause, Requests
  <1>2. QED
    BY <1>1, PoolInvariant, PTL

\* No temporary file lingers but those that could not be written completely, or that
\* the operating system refused to remove.
THEOREM FilesAreRemoved == Spec => []EveryLingeringFileHasACause
  <1>1. ThreadInv => EveryLingeringFileHasACause
    BY DEF ThreadInv, FileInv
  <1>2. QED
    BY <1>1, ThreadInvariant, PTL
============================================================================
