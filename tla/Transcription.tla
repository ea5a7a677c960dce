---------------------------- MODULE Transcription ----------------------------
(***************************************************************************)
(* Voice recordings transcribed by the one local model of a process        *)
(* (TranscriptionService): temporary files, the threads of asyncio's       *)
(* executor, the model that is loaded once, and the lock around loading    *)
(* and decoding.  Threads really run in parallel here; each step is what a *)
(* thread does between two accesses to the lock or to the model.           *)
(*                                                                         *)
(* The same executor serves the calls to S3 and to the vision models,      *)
(* which are called short here: they wait for no lock.                     *)
(***************************************************************************)
EXTENDS Naturals, FiniteSets

CONSTANTS
    Voices,     \* requests with a recording
    Shorts,     \* other calls of asyncio.to_thread
    Threads,    \* threads of the executor
    MaxFails,   \* bound on failing disks and on models that do not load
    None

ASSUME TranscriptionAssumption ==
    /\ Threads \in Nat \ {0}
    /\ MaxFails \in Nat
    /\ None \notin Voices \cup Shorts
    /\ Voices \cap Shorts = {}

VARIABLES
    voice,     \* voice[v]: where the coroutine of v stands
    file,      \* file[v]: its temporary file exists
    thread,    \* thread[j]: what the thread of job j does
    loaded,    \* self._model is there
    loads,     \* how often it was loaded
    lock,      \* the job that holds _model_lock
    fails,     \* failures that are left
    leaked     \* requests whose file could not be written completely, or not be removed

transcription == <<voice, file, thread, loaded, loads, lock, fails, leaked>>

----------------------------------------------------------------------------
Jobs == Voices \cup Shorts

\* Jobs that occupy a thread, waiting for the lock included.
Busy == {j \in Jobs : thread[j] \notin {"none", "queued", "done", "raised"}}

TInit ==
    /\ voice = [v \in Voices |-> "idle"]
    /\ file = [v \in Voices |-> FALSE]
    /\ thread = [j \in Jobs |-> "none"]
    /\ loaded = FALSE
    /\ loads = 0
    /\ lock = None
    /\ fails = MaxFails
    /\ leaked = {}

Thread(j, does) == thread' = [thread EXCEPT ![j] = does]

\* The recording is on disk, and the job is handed to the executor.
Receives(v) ==
    /\ voice[v] = "idle"
    /\ voice' = [voice EXCEPT ![v] = "waiting"]
    /\ file' = [file EXCEPT ![v] = TRUE]
    /\ Thread(v, "queued")
    /\ UNCHANGED <<loaded, loads, lock, fails, leaked>>

\* No bytes: TranscriptionError before there is a file.
ReceivesNothing(v) ==
    /\ voice[v] = "idle"
    /\ voice' = [voice EXCEPT ![v] = "refused"]
    /\ UNCHANGED <<file, thread, loaded, loads, lock, fails, leaked>>

\* The file was created and write() raises: tmp_path is still None, so the
\* finally block does not find it.
WriteFails(v) ==
    /\ voice[v] = "idle" /\ fails > 0
    /\ fails' = fails - 1
    /\ voice' = [voice EXCEPT ![v] = "refused"]
    /\ file' = [file EXCEPT ![v] = TRUE]
    /\ leaked' = leaked \cup {v}
    /\ UNCHANGED <<thread, loaded, loads, lock>>

----------------------------------------------------------------------------
(* Threads.                                                                *)

Calls(s) ==
    /\ thread[s] = "none" /\ s \in Shorts
    /\ Thread(s, "queued")
    /\ UNCHANGED <<voice, file, loaded, loads, lock, fails, leaked>>

Starts(j) ==
    /\ thread[j] = "queued"
    /\ Cardinality(Busy) < Threads
    /\ Thread(j, IF j \in Voices THEN "looking" ELSE "calling")
    /\ UNCHANGED <<voice, file, loaded, loads, lock, fails, leaked>>

CallReturns(s) ==
    /\ thread[s] = "calling"
    /\ Thread(s, "done")
    /\ UNCHANGED <<voice, file, loaded, loads, lock, fails, leaked>>

\* The first look at self._model takes no lock.
Looks(v) ==
    /\ thread[v] = "looking"
    /\ Thread(v, IF loaded THEN "decode" ELSE "load")
    /\ UNCHANGED <<voice, file, loaded, loads, lock, fails, leaked>>

\* Mutant of StillMissing: no second look.
MissingBefore == TRUE

\* The second look, with the lock.
StillMissing == ~loaded

LocksToLoad(v) ==
    /\ thread[v] = "load" /\ lock = None
    /\ IF StillMissing
       THEN lock' = v /\ Thread(v, "loading")
       ELSE lock' = None /\ Thread(v, "decode")
    /\ UNCHANGED <<voice, file, loaded, loads, fails, leaked>>

Loads(v) ==
    /\ thread[v] = "loading"
    /\ loaded' = TRUE
    /\ loads' = loads + 1
    /\ lock' = None
    /\ Thread(v, "decode")
    /\ UNCHANGED <<voice, file, fails, leaked>>

LoadFails(v) ==
    /\ thread[v] = "loading" /\ fails > 0
    /\ fails' = fails - 1
    /\ lock' = None
    /\ Thread(v, "raised")
    /\ UNCHANGED <<voice, file, loaded, loads, leaked>>

LocksToDecode(v) ==
    /\ thread[v] = "decode" /\ lock = None
    /\ lock' = v
    /\ Thread(v, "decoding")
    /\ UNCHANGED <<voice, file, loaded, loads, fails, leaked>>

\* The segments have been read: speech, silence or nothing the decoder knows.
Decodes(v) ==
    /\ thread[v] = "decoding"
    /\ lock' = None
    /\ \E how \in {"done", "raised"} : Thread(v, how)
    /\ UNCHANGED <<voice, file, loaded, loads, fails, leaked>>

----------------------------------------------------------------------------
\* Mutant of Unlinks: no finally block.
UnlinksAfterSuccess(v) == [file EXCEPT ![v] = @ /\ thread[v] = "raised"]

Unlinks(v) == [file EXCEPT ![v] = FALSE]

Removes(v) == file' = Unlinks(v) /\ UNCHANGED <<fails, leaked>>

\* An OSError of unlink is logged, and the file stays.
RemovalFails(v) ==
    /\ fails > 0
    /\ fails' = fails - 1
    /\ leaked' = leaked \cup {v}
    /\ UNCHANGED file

\* The coroutine resumes: the finally block, and the transcript or 422.
Resumes(v) ==
    /\ voice[v] = "waiting" /\ thread[v] \in {"done", "raised"}
    /\ Removes(v) \/ RemovalFails(v)
    /\ voice' = [voice EXCEPT ![v] = IF thread[v] = "done" THEN "transcribed" ELSE "refused"]
    /\ UNCHANGED <<thread, loaded, loads, lock>>

ThreadStep(j) ==
    \/ Starts(j)
    \/ j \in Shorts /\ CallReturns(j)
    \/ j \in Voices /\ (Looks(j) \/ LocksToLoad(j) \/ Loads(j) \/ LoadFails(j)
                        \/ LocksToDecode(j) \/ Decodes(j))

----------------------------------------------------------------------------
TranscriptionTypeOK ==
    /\ voice \in [Voices -> {"idle", "waiting", "transcribed", "refused"}]
    /\ file \in [Voices -> BOOLEAN]
    /\ thread \in [Jobs -> {"none", "queued", "calling", "looking", "load", "loading",
                            "decode", "decoding", "done", "raised"}]
    /\ loaded \in BOOLEAN
    /\ loads \in Nat
    /\ lock \in Voices \cup {None}
    /\ fails \in 0 .. MaxFails
    /\ leaked \subseteq Voices

\* At most one thread loads or decodes, and it holds the lock; the model is
\* loaded at most once however many requests find it missing.
\* (transcription_service.py: "The model is loaded exactly once per process",
\* "decoding is serialized with a lock".)
OneThreadAtTheModel ==
    /\ \A v \in Voices : thread[v] \in {"loading", "decoding"} <=> lock = v
    /\ loads <= 1

\* A request that is over leaves no temporary file, unless the recording could not
\* be written, or the operating system refused to remove it ("temp file must not
\* linger", transcription_service.py:154).
EveryLingeringFileHasACause ==
    \A v \in Voices : voice[v] \in {"transcribed", "refused"} /\ file[v] => v \in leaked

\* "written to a temp file, transcribed, then deleted - even when transcription
\* fails (the `finally` block guarantees cleanup)" (transcription_service.py:11-12):
\* no file outlives its request.
NoFileLingers ==
    \A v \in Voices : voice[v] \in {"transcribed", "refused"} => ~file[v]
============================================================================
