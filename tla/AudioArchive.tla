------------------------------ MODULE AudioArchive ------------------------------
(***************************************************************************)
(* The audio of one meeting on its way from the WebSocket handler to the   *)
(* object store: the temporary WAV that api/transcript.py writes and hands *)
(* over, the Celery task worker/tasks/audio_archive.py with its retries    *)
(* and dead letters, and DELETE /meetings/:id/audio in api/meetings.py,    *)
(* all under backend/src/meeting_intelligence.                             *)
(*                                                                         *)
(* Every session of the meeting uses the same path, <session_id>.wav, and  *)
(* its archive task the same object key.  A file is an inode, named after  *)
(* the session that created it, and "path" says which inode the name leads *)
(* to.  Each session dispatches one archive task; a worker lost after it   *)
(* has published a retry leaves two messages of the task, and each message *)
(* is a delivery of its own.  Only the newest connection carries audio.    *)
(***************************************************************************)
EXTENDS Integers, FiniteSets

CONSTANTS
    Sessions,     \* transcript sessions of the meeting
    MaxChunks,    \* bound: audio chunks written per session
    MaxRetries,   \* max_retries of the task
    MaxCrashes,   \* bound: worker processes lost
    FaultSets     \* what may go wrong outside this code: a behaviour has one of
                  \* these sets of faults

FaultKinds ==
    {"disk",      \* the WAV cannot be opened, written or unlinked
     "ffmpeg",    \* encoding fails
     "storage",   \* the object store refuses a put or a delete
     "db",        \* storing or clearing the key, or the dead letter, fails
     "broker",    \* publishing the task or its retry fails
     "crash",     \* a worker process is lost
     "user"}      \* not a fault: the user deletes the audio

VARIABLES
    faults,       \* the faults of this behaviour
    session,      \* per session: "none", "open" or "ended"
    newest,       \* the session opened last
    handle,       \* per session: the inode its wav_writer has open
    tap,          \* per session: wav_writer is open ("on"), given up after an
                  \* OSError ("off"), or there is no archive_wav_path ("none")
    captured,     \* chunks received by the newest session
    path,         \* the inode the WAV path leads to, NoFile if there is none
    data,         \* per inode: the chunks in it
    task,         \* per delivery: state, retries, the MP3 in hand, its outcome
                  \* ("dead": recorded in dead_letter_tasks, "raised": not)
    object,       \* the chunks in the stored MP3, NoObject if there is none
    key,          \* meetings.audio_object_key is set
    deletion,     \* where DELETE /audio is
    crashes,
    (* What is remembered for the properties only. *)
    gaveUp,       \* the newest session has given its WAV up
    stuck,        \* an unlink has failed in the time of the newest session
    crossed,      \* an upload and a deletion have overlapped
    torn          \* the last change of object and key has stopped halfway

fileVars    == <<path, data, stuck>>
sessionVars == <<faults, session, newest, handle, tap, captured, gaveUp>>
storeVars   == <<object, key>>
pastVars    == <<crossed, torn>>
vars == <<sessionVars, fileVars, task, storeVars, deletion, crashes,
          pastVars>>

CONSTANTS NoFile, NoObject

Chunks == Sessions \X (1..MaxChunks)

(* The first message of a session's task is <<s, 0>>; each lost worker may  *)
(* leave one more.                                                          *)
Deliveries == Sessions \X (0..MaxCrashes)

ASSUME ArchiveAssumption ==
    /\ IsFiniteSet(Sessions) /\ NoFile \notin Sessions
    /\ \A chunks \in SUBSET Chunks : NoObject # chunks
    /\ MaxChunks \in Nat
    /\ MaxRetries \in Nat
    /\ MaxCrashes \in Nat
    /\ FaultSets \subseteq SUBSET FaultKinds

Working == {"encoded", "uploaded", "leaving", "unlinked"}
Ended   == {"done", "dead", "raised"}

(* What is left of the files: an inode without a name and without a handle  *)
(* is gone.                                                                 *)
Kept(named, handles) ==
    [i \in Sessions |-> IF i = named \/ \E s \in Sessions : handles[s] = i
                        THEN data[i] ELSE {}]

(* A message that no worker has in hand: queued, or done with.              *)
Message(state, retries) ==
    [state |-> state, retries |-> retries, mp3 |-> {}, outcome |-> "none"]

-----------------------------------------------------------------------------
Init ==
    /\ faults \in FaultSets
    /\ session = [s \in Sessions |-> "none"]
    /\ newest = NoFile
    /\ handle = [s \in Sessions |-> NoFile]
    /\ tap = [s \in Sessions |-> "none"]
    /\ captured = 0 /\ gaveUp = FALSE
    /\ path = NoFile /\ data = [s \in Sessions |-> {}] /\ stuck = FALSE
    /\ task = [d \in Deliveries |-> Message("none", 0)]
    /\ object = NoObject /\ key = FALSE
    /\ deletion = "none" /\ crashes = 0
    /\ crossed = FALSE /\ torn = FALSE

(* wave.open(path, "wb"): a file that is there is truncated, not replaced.  *)
(* When it cannot be opened the session goes on without an archive path.    *)
OpenWav(s) ==
    /\ session[s] = "none"
    /\ session' = [session EXCEPT ![s] = "open"]
    /\ newest' = s /\ captured' = 0 /\ gaveUp' = FALSE
    /\ \/ LET inode == IF path = NoFile THEN s ELSE path
          IN  /\ path' = inode
              /\ handle' = [handle EXCEPT ![s] = inode]
              /\ data' = [data EXCEPT ![inode] = {}]
              /\ tap' = [tap EXCEPT ![s] = "on"]
       \/ "disk" \in faults /\ UNCHANGED <<path, data, handle, tap>>
    /\ stuck' = FALSE
    /\ UNCHANGED <<faults, task, storeVars, deletion, crashes, pastVars>>

(* Mutant: an OSError is logged, and the next chunk is written as before.    *)
KeepsWriting(s) ==
    /\ session[s] = "open" /\ newest = s /\ captured < MaxChunks
    /\ captured' = captured + 1
    /\ \/ /\ tap[s] = "on"
          /\ data' = [data EXCEPT ![handle[s]] = @ \cup {<<s, captured + 1>>}]
       \/ (tap[s] # "on" \/ "disk" \in faults) /\ UNCHANGED data
    /\ UNCHANGED <<faults, session, newest, handle, tap, path, stuck, task, storeVars,
                   deletion, crashes, gaveUp, pastVars>>

(* writeframes() goes to the open inode, even when its name is gone.  After *)
(* an OSError no further chunk of the session is written, but the session   *)
(* goes on, and so does the archive of what the file holds.                 *)
WriteFrames(s) ==
    /\ session[s] = "open" /\ newest = s /\ captured < MaxChunks
    /\ captured' = captured + 1
    /\ \/ /\ tap[s] = "on"
          /\ data' = [data EXCEPT ![handle[s]] = @ \cup {<<s, captured + 1>>}]
          /\ UNCHANGED <<tap, gaveUp>>
       \/ /\ tap[s] = "on" /\ "disk" \in faults
          /\ tap' = [tap EXCEPT ![s] = "off"] /\ gaveUp' = TRUE
          /\ UNCHANGED data
       \/ tap[s] # "on" /\ UNCHANGED <<tap, data, gaveUp>>
    /\ UNCHANGED <<faults, session, newest, handle, path, stuck, task, storeVars,
                   deletion, crashes, pastVars>>

(* The session ends: the WAV is closed, and archive_meeting_audio.delay()   *)
(* is called, best effort, if there is a file at the path.                  *)
CloseAndDispatch(s) ==
    /\ session[s] = "open"
    /\ session' = [session EXCEPT ![s] = "ended"]
    /\ handle' = [handle EXCEPT ![s] = NoFile]
    /\ data' = Kept(path, handle')
    /\ tap' = [tap EXCEPT ![s] = "none"]
    /\ \/ /\ tap[s] # "none" /\ path # NoFile
          /\ task' = [task EXCEPT ![<<s, 0>>].state = "queued"]
       \/ (tap[s] = "none" \/ path = NoFile) /\ UNCHANGED task
       \/ "broker" \in faults /\ UNCHANGED task
    /\ UNCHANGED <<faults, newest, captured, gaveUp, path, stuck, storeVars, deletion,
                   crashes, pastVars>>

-----------------------------------------------------------------------------
(* The archive task; d is the delivery that runs.                           *)

(* Every way out of the task passes through its finally block.              *)
Leave(d, outcome) ==
    task' = [task EXCEPT ![d].state = "leaving", ![d].outcome = outcome, ![d].mp3 = {}]

(* AudioArchiveError: self.retry() while retries are left; then the dead    *)
(* letter, if the database records it.  A retry that cannot be published    *)
(* rejects the message, which ends the task without a dead letter.          *)
RetryOrDeadLetter(d) ==
    \/ task[d].retries < MaxRetries /\ Leave(d, "retry")
    \/ task[d].retries < MaxRetries /\ "broker" \in faults /\ Leave(d, "raised")
    \/ task[d].retries >= MaxRetries /\ Leave(d, "dead")
    \/ task[d].retries >= MaxRetries /\ "db" \in faults /\ Leave(d, "raised")

(* "wav source missing": retry-eligible.                                    *)
SourceMissing(d) ==
    /\ task[d].state = "queued" /\ path = NoFile
    /\ RetryOrDeadLetter(d)
    /\ UNCHANGED <<sessionVars, fileVars, storeVars, deletion, crashes, pastVars>>

(* A zero-byte file is skipped.  (A WAV without audio may also be a bare    *)
(* header, which is encoded.)                                               *)
SkipEmpty(d) ==
    /\ task[d].state = "queued" /\ path # NoFile /\ data[path] = {}
    /\ Leave(d, "done")
    /\ UNCHANGED <<sessionVars, fileVars, storeVars, deletion, crashes, pastVars>>

(* A failing ffmpeg is retry-eligible, a missing one is not.                *)
Encode(d) ==
    /\ task[d].state = "queued" /\ path # NoFile
    /\ \/ task' = [task EXCEPT ![d].state = "encoded", ![d].mp3 = data[path]]
       \/ "ffmpeg" \in faults /\ (RetryOrDeadLetter(d) \/ Leave(d, "raised"))
    /\ UNCHANGED <<sessionVars, fileVars, storeVars, deletion, crashes, pastVars>>

(* storage.put(); a storage error is not an AudioArchiveError.              *)
Upload(d) ==
    /\ task[d].state = "encoded"
    /\ \/ /\ object' = task[d].mp3
          /\ task' = [task EXCEPT ![d].state = "uploaded", ![d].mp3 = {}]
          /\ crossed' = (crossed \/ deletion = "object_gone")
       \/ /\ "storage" \in faults /\ Leave(d, "raised")
          /\ UNCHANGED <<object, crossed>>
    /\ UNCHANGED <<sessionVars, fileVars, key, deletion, crashes, torn>>

(* _persist_audio_key.                                                      *)
PersistKey(d) ==
    /\ task[d].state = "uploaded"
    /\ \/ key' = TRUE /\ torn' = FALSE /\ Leave(d, "done")
       \/ "db" \in faults /\ torn' = TRUE /\ Leave(d, "raised") /\ UNCHANGED key
    /\ UNCHANGED <<sessionVars, fileVars, object, deletion, crashes, crossed>>

(* Mutant: the WAV is unlinked on success only.                             *)
UnlinkOnSuccess(d) ==
    /\ task[d].state = "leaving"
    /\ \/ task[d].outcome = "done" /\ path' = NoFile /\ stuck' = FALSE
       \/ task[d].outcome # "done" /\ UNCHANGED <<path, stuck>>
       \/ "disk" \in faults /\ path # NoFile /\ stuck' = TRUE /\ UNCHANGED path
    /\ data' = Kept(path', handle)
    /\ task' = [task EXCEPT ![d].state = "unlinked"]
    /\ UNCHANGED <<sessionVars, storeVars, deletion, crashes, pastVars>>

(* finally: wav.unlink(), whatever the outcome; an OSError is logged.       *)
Unlink(d) ==
    /\ task[d].state = "leaving"
    /\ \/ path' = NoFile /\ stuck' = FALSE
       \/ "disk" \in faults /\ path # NoFile /\ stuck' = TRUE /\ UNCHANGED path
    /\ data' = Kept(path', handle)
    /\ task' = [task EXCEPT ![d].state = "unlinked"]
    /\ UNCHANGED <<sessionVars, storeVars, deletion, crashes, pastVars>>

(* Mutant: a retried task is acknowledged but never queued again.           *)
AcknowledgeOnly(d) ==
    /\ task[d].state = "unlinked" /\ task[d].outcome # "retry"
    /\ task' = [task EXCEPT ![d] = Message(task[d].outcome, 0)]
    /\ UNCHANGED <<sessionVars, fileVars, storeVars, deletion, crashes, pastVars>>

(* The delivery is acknowledged last.  Its retry has been published before  *)
(* the unlink, but only becomes due after a countdown of 30 seconds.        *)
Acknowledge(d) ==
    /\ task[d].state = "unlinked"
    /\ task' = IF task[d].outcome = "retry"
               THEN [task EXCEPT ![d] = Message("queued", @.retries + 1)]
               ELSE [task EXCEPT ![d] = Message(@.outcome, 0)]
    /\ UNCHANGED <<sessionVars, fileVars, storeVars, deletion, crashes, pastVars>>

(* A lost worker does not go on to the finally block, nor to the            *)
(* acknowledgement after it; the message is delivered again, and so is a    *)
(* retry that it has published.                                             *)
WorkerLost(d) ==
    /\ "crash" \in faults /\ crashes < MaxCrashes
    /\ task[d].state \in Working
    /\ crashes' = crashes + 1
    /\ LET again == [task EXCEPT ![d] = Message("queued", @.retries)]
       IN  task' = IF task[d].outcome = "retry"
                   THEN [again EXCEPT ![<<d[1], crashes + 1>>] =
                                          Message("queued", task[d].retries + 1)]
                   ELSE again
    /\ torn' = (torn \/ task[d].state = "uploaded")
    /\ UNCHANGED <<sessionVars, fileVars, storeVars, deletion, crossed>>

-----------------------------------------------------------------------------
(* DELETE /meetings/:id/audio: nothing to do without a key; otherwise the   *)
(* object goes first and the key with the commit.                           *)

DeleteBegins ==
    /\ "user" \in faults
    /\ deletion = "none" /\ key
    /\ deletion' = "begun"
    /\ UNCHANGED <<sessionVars, fileVars, task, storeVars, crashes,
                   pastVars>>

DeleteObject ==
    /\ deletion = "begun"
    /\ \/ /\ object' = NoObject /\ deletion' = "object_gone"
          /\ crossed' = (crossed \/ \E d \in Deliveries : task[d].state = "uploaded")
       \/ /\ "storage" \in faults /\ deletion' = "none"
          /\ UNCHANGED <<object, crossed>>
    /\ UNCHANGED <<sessionVars, fileVars, task, key, crashes, torn>>

(* Mutant: the key is never cleared.                                        *)
DeleteKeepsKey ==
    /\ deletion = "object_gone"
    /\ deletion' = "none" /\ torn' = FALSE
    /\ UNCHANGED <<sessionVars, fileVars, task, storeVars, crashes,
                   crossed>>

(* The key is cleared by the flush and the commit of the request; when one  *)
(* of them fails the request is rolled back, and the key stays.             *)
DeleteCommits ==
    /\ deletion = "object_gone"
    /\ deletion' = "none"
    /\ \/ key' = FALSE /\ torn' = FALSE
       \/ "db" \in faults /\ torn' = TRUE /\ UNCHANGED key
    /\ UNCHANGED <<sessionVars, fileVars, task, object, crashes, crossed>>

TaskStep(d) ==
    \/ SourceMissing(d) \/ SkipEmpty(d) \/ Encode(d)
    \/ Upload(d) \/ PersistKey(d) \/ Unlink(d) \/ Acknowledge(d)

Next ==
    \/ \E s \in Sessions : OpenWav(s) \/ WriteFrames(s) \/ CloseAndDispatch(s)
    \/ \E d \in Deliveries : TaskStep(d) \/ WorkerLost(d)
    \/ DeleteBegins \/ DeleteObject \/ DeleteCommits

Spec == Init /\ [][Next]_vars

(* A queued message is delivered and a delivered one runs to its end.       *)
FairSpec == Spec /\ \A d \in Deliveries : WF_vars(TaskStep(d))

-----------------------------------------------------------------------------
TypeOK ==
    /\ faults \in FaultSets
    /\ session \in [Sessions -> {"none", "open", "ended"}]
    /\ newest \in Sessions \cup {NoFile}
    /\ handle \in [Sessions -> Sessions \cup {NoFile}]
    /\ tap \in [Sessions -> {"none", "on", "off"}]
    /\ captured \in 0..MaxChunks /\ gaveUp \in BOOLEAN /\ stuck \in BOOLEAN
    /\ path \in Sessions \cup {NoFile}
    /\ data \in [Sessions -> SUBSET Chunks]
    /\ task \in [Deliveries ->
                    [state : {"none", "queued"} \cup Working \cup Ended,
                     retries : 0..MaxRetries, mp3 : SUBSET Chunks,
                     outcome : {"none", "retry"} \cup Ended]]
    /\ object \in (SUBSET Chunks) \cup {NoObject}
    /\ key \in BOOLEAN
    /\ deletion \in {"none", "begun", "object_gone"}
    /\ crashes \in 0..MaxCrashes
    /\ crossed \in BOOLEAN /\ torn \in BOOLEAN

FirstChunks(s, n) == {s} \X (1..n)
OneSession == Cardinality({s \in Sessions : session[s] # "none"}) = 1

(* The key and the object part only in two ways: an upload and a deletion   *)
(* have overlapped, or one of them has stopped halfway and nothing has      *)
(* completed since.  Otherwise, however many sessions, retries and lost     *)
(* workers there were, audio_object_key leads to an object (but while a     *)
(* deletion is between the object and the commit), and there is no object   *)
(* without a key (but while an archive task is between its two writes).     *)
KeyMatchesObject ==
    (~crossed /\ ~torn /\ deletion # "object_gone") =>
        /\ key => object # NoObject
        /\ (object # NoObject /\ ~key)
              => \E d \in Deliveries : task[d].state = "uploaded"

(* Without a reconnect, what is stored is what the session captured, from   *)
(* its beginning and without a gap, however late the chunks, however early  *)
(* the task and however often it is delivered; it is all of it unless the   *)
(* disk has made the session give its WAV up.                               *)
StoredIsComplete ==
    (OneSession /\ object # NoObject) =>
        \E n \in 0..captured :
            object = FirstChunks(newest, n) /\ (~gaveUp => n = captured)

(* When a delivery of the newest session's task has ended, failed or not,   *)
(* no audio is left on the disk, whatever workers were lost, messages       *)
(* delivered twice and sessions reconnected - unless the file system has    *)
(* refused an unlink of that session, which no one has to repeat.           *)
NoWavLeftBehind ==
    \A d \in Deliveries :
        (d[1] = newest /\ task[d].state \in Ended) => path = NoFile \/ stuck

(* Every dispatched task ends, stored, skipped, given up or failed: always  *)
(* again, no message is left in the queue or with a worker.                 *)
ArchiveSettles ==
    []<>(\A d \in Deliveries : task[d].state \in {"none"} \cup Ended)

-----------------------------------------------------------------------------
(* What the header of audio_archive.py says.                                *)

(* "encode and upload failures retry up to 3 times": a retry can succeed,   *)
(* so its source is still there when it is queued.                          *)
RetryFindsSource ==
    \A d \in Deliveries :
        task[d].state = "queued" /\ task[d].retries > 0 => path # NoFile
=============================================================================
