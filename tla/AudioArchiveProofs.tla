------------------------- MODULE AudioArchiveProofs -------------------------
(***************************************************************************)
(* For every number of sessions, chunks, retries and crashes and every set *)
(* of faults: no audio stays on the disk after the newest task, what a     *)
(* meeting of one session stores has no gap, and key and object part only  *)
(* where an upload meets a deletion or one of them stops halfway.          *)
(***************************************************************************)
EXTENDS AudioArchive, FiniteSetTheorems, TLAPS

TaskRec ==
    [state : {"none", "queued"} \cup Working \cup Ended, retries : 0..MaxRetries,
     mp3 : SUBSET Chunks, outcome : {"none", "retry"} \cup Ended]

(* A task has a reason to leave, and retries while it may.                  *)
Sound(t) ==
    /\ t.outcome = "retry" => t.retries < MaxRetries
    /\ t.state \in {"leaving", "unlinked"} => t.outcome # "none"

(* A session that has not begun has no file open, one that has not ended    *)
(* has no delivery, a repeated retry comes from a crash, and the newest     *)
(* session is the last that has begun.                                      *)
Order ==
    /\ \A d \in Deliveries : Sound(task[d])
    /\ \A d \in Deliveries :
          session[d[1]] # "ended" \/ d[2] > crashes => task[d].state = "none"
    /\ \A s \in Sessions : session[s] # "none" => newest # NoFile
    /\ \A s \in Sessions : session[s] = "none" => handle[s] = NoFile /\ tap[s] = "none"
    /\ newest # NoFile => session[newest] # "none"
    /\ newest = NoFile => path = NoFile /\ object = NoObject /\ ~key /\ deletion = "none"

Unlinked(t) == t.state \in {"unlinked"} \cup Ended

(* The newest session's WAV is gone once a delivery has unlinked it, if the *)
(* file system let it.                                                      *)
Gone ==
    \A d \in Deliveries :
        (d[1] = newest /\ Unlinked(task[d])) => path = NoFile \/ stuck

(* Without a reconnect there is one file, with the chunks of the session    *)
(* from the first on and without a gap, all of them while its tap is on.    *)
Alone == newest # NoFile /\ \A s \in Sessions : session[s] # "none" => s = newest

Whole(chunks) ==
    \E n \in 0..captured : chunks = FirstChunks(newest, n) /\ (~gaveUp => n = captured)

Recording ==
    session[newest] = "open" =>
        /\ object = NoObject
        /\ tap[newest] = "none" => path = NoFile /\ handle[newest] = NoFile
        /\ tap[newest] = "on" => handle[newest] = newest /\ ~gaveUp
        /\ tap[newest] = "off" => gaveUp

OneFile ==
    Alone =>
        /\ path \in {newest, NoFile}
        /\ Recording
        /\ path = newest \/ handle[newest] = newest => Whole(data[newest])
        /\ \A d \in Deliveries : task[d].state = "encoded" => Whole(task[d].mp3)
        /\ object # NoObject => Whole(object)

(* As long as no upload has met a deletion: the object is gone while the    *)
(* deletion says so and there while a delivery has uploaded it, and with    *)
(* nothing stopped halfway it is there exactly with its key.                *)
Uploading == \E d \in Deliveries : task[d].state = "uploaded"

KeyStory ==
    ~crossed =>
        /\ deletion = "object_gone" => object = NoObject
        /\ Uploading => object # NoObject
        /\ ~torn /\ deletion # "object_gone" =>
              (key => object # NoObject) /\ (object # NoObject /\ ~key => Uploading)

(* The inductive invariant. *)
Inv == TypeOK /\ Order /\ Gone /\ OneFile /\ KeyStory

-----------------------------------------------------------------------------
(* What OneSession means.                                                   *)
LEMMA OneMeansAlone ==
    ASSUME TypeOK, Order, OneSession
    PROVE  Alone
<1> DEFINE S == {s \in Sessions : session[s] # "none"}
<1>1. IsFiniteSet(S)
  BY ArchiveAssumption, FS_Subset
<1>2. PICK x : S = {x}
  BY <1>1, FS_Singleton DEF OneSession
<1>3. newest # NoFile /\ newest \in Sessions /\ session[newest] # "none"
  BY <1>2 DEF Order, TypeOK
<1> QED BY <1>2, <1>3 DEF Alone

LEMMA NextChunk ==
    ASSUME NEW s, NEW n \in Nat
    PROVE  FirstChunks(s, n + 1) = FirstChunks(s, n) \cup {<<s, n + 1>>}
<1>1. 1..(n + 1) = 1..n \cup {n + 1}
  OBVIOUS
<1> QED BY <1>1 DEF FirstChunks

LEMMA NothingCaptured ==
    ASSUME NEW s
    PROVE  FirstChunks(s, 0) = {}
<1>1. 1..0 = {}
  OBVIOUS
<1> QED BY <1>1 DEF FirstChunks

(* What a file keeps, and the message of a task.                            *)
LEMMA KeptFacts ==
    ASSUME TypeOK, NEW named, NEW handles
    PROVE  /\ Kept(named, handles) \in [Sessions -> SUBSET Chunks]
           /\ \A i \in Sessions :
                 (i = named \/ \E s \in Sessions : handles[s] = i)
                     => Kept(named, handles)[i] = data[i]
BY DEF Kept, TypeOK

LEMMA MessageFacts ==
    ASSUME NEW st \in {"none", "queued"} \cup Ended, NEW n \in 0..MaxRetries
    PROVE  /\ Message(st, n) \in TaskRec /\ Sound(Message(st, n))
           /\ Message(st, n).state = st /\ Message(st, n).outcome = "none"
BY DEF Message, TaskRec, Sound, Ended

LEMMA FirstDelivery ==
    ASSUME NEW s \in Sessions
    PROVE  <<s, 0>> \in Deliveries
BY ArchiveAssumption DEF Deliveries

LEMMA InitInv == Init => Inv
<1> SUFFICES ASSUME Init PROVE Inv
  OBVIOUS
<1>1. Message("none", 0) \in TaskRec /\ Sound(Message("none", 0))
      /\ Message("none", 0).state = "none"
  BY MessageFacts, ArchiveAssumption
<1>2. task \in [Deliveries -> TaskRec]
  BY <1>1 DEF Init
<1>3. TypeOK
  <2>1. /\ captured \in 0..MaxChunks /\ crashes \in 0..MaxCrashes
        /\ data \in [Sessions -> SUBSET Chunks]
    BY ArchiveAssumption DEF Init
  <2> QED BY <1>2, <2>1 DEF Init, TypeOK, TaskRec
<1>4. Order
  BY <1>1 DEF Init, Order
<1>5. Gone /\ OneFile /\ KeyStory
  BY <1>1 DEF Init, Gone, OneFile, KeyStory, Alone, Uploading, Unlinked, Ended
<1> QED BY <1>3, <1>4, <1>5 DEF Inv

-----------------------------------------------------------------------------
(* A session opens the WAV: the first one creates it, and after any other   *)
(* the meeting is no longer one of a single session.                        *)
LEMMA OpenWavInv ==
    ASSUME Inv, NEW s \in Sessions, OpenWav(s)
    PROVE  Inv'
<1> DEFINE inode == IF path = NoFile THEN s ELSE path
<1>1. /\ session[s] = "none" /\ session' = [session EXCEPT ![s] = "open"]
      /\ newest' = s /\ captured' = 0 /\ gaveUp' = FALSE /\ stuck' = FALSE
      /\ UNCHANGED <<faults, task, object, key, deletion, crashes, crossed, torn>>
  BY DEF OpenWav, storeVars, pastVars
<1>2. \/ /\ path' = inode
         /\ handle' = [handle EXCEPT ![s] = inode]
         /\ data' = [data EXCEPT ![inode] = {}]
         /\ tap' = [tap EXCEPT ![s] = "on"]
      \/ UNCHANGED <<path, data, handle, tap>>
  BY DEF OpenWav, fileVars
<1>3. inode \in Sessions
  BY DEF Inv, TypeOK
<1>4. TypeOK'
  <2>1. captured' \in 0..MaxChunks
    BY <1>1, ArchiveAssumption
  <2>2. /\ path' \in Sessions \cup {NoFile} /\ data' \in [Sessions -> SUBSET Chunks]
        /\ handle' \in [Sessions -> Sessions \cup {NoFile}]
        /\ tap' \in [Sessions -> {"none", "on", "off"}]
    BY <1>2, <1>3 DEF Inv, TypeOK
  <2>3. session' \in [Sessions -> {"none", "open", "ended"}]
    BY <1>1 DEF Inv, TypeOK
  <2> QED BY <1>1, <2>1, <2>2, <2>3 DEF Inv, TypeOK
<1>5. \A d \in Deliveries : d[1] \in Sessions
  BY DEF Deliveries
<1>6. \A d \in Deliveries : d[1] = s => task[d].state = "none"
  BY <1>1 DEF Inv, Order
<1>7. Order'
  <2>1. \A u \in Sessions : session'[u] = IF u = s THEN "open" ELSE session[u]
    BY <1>1 DEF Inv, TypeOK
  <2>2. \A u \in Sessions : u # s => handle'[u] = handle[u] /\ tap'[u] = tap[u]
    BY <1>2 DEF Inv, TypeOK
  <2> QED BY <1>1, <1>5, <1>6, <2>1, <2>2, ArchiveAssumption DEF Inv, Order
<1>8. Gone'
  BY <1>1, <1>6 DEF Gone, Unlinked, Ended
<1>9. Alone' => newest = NoFile
  BY <1>1, ArchiveAssumption DEF Alone, Inv, Order, TypeOK
<1>10. OneFile'
  <2> SUFFICES ASSUME Alone' PROVE OneFile'
    BY DEF OneFile
  <2>1. newest = NoFile /\ path = NoFile /\ object = NoObject /\ inode = s
    BY <1>9 DEF Inv, Order
  <2>2. session[s] # "ended" /\ \A d \in Deliveries : task[d].state = "none"
    BY <1>5, <2>1 DEF Inv, Order
  <2>3. FirstChunks(s, 0) = {}
    BY NothingCaptured
  <2>4. CASE /\ path' = inode
             /\ handle' = [handle EXCEPT ![s] = inode]
             /\ data' = [data EXCEPT ![inode] = {}]
             /\ tap' = [tap EXCEPT ![s] = "on"]
    <3>1. path' = s /\ handle'[s] = s /\ data'[s] = {} /\ tap'[s] = "on"
      BY <2>1, <2>4 DEF Inv, TypeOK
    <3>2. Whole(data[newest])'
      BY <1>1, <2>3, <3>1 DEF Whole, FirstChunks
    <3> QED BY <1>1, <2>1, <2>2, <3>1, <3>2 DEF OneFile, Recording
  <2>5. CASE UNCHANGED <<path, data, handle, tap>>
    <3>1. handle[s] = NoFile /\ tap[s] = "none"
      BY <1>1 DEF Inv, Order
    <3> QED BY <1>1, <2>1, <2>2, <2>5, <3>1, ArchiveAssumption DEF OneFile, Recording
  <2> QED BY <1>2, <2>4, <2>5
<1>11. KeyStory'
  BY <1>1 DEF Inv, KeyStory, Uploading
<1> HIDE DEF inode
<1> QED BY <1>4, <1>7, <1>8, <1>10, <1>11 DEF Inv

(* A chunk goes to the open inode, unless the tap is off.                   *)
LEMMA WriteFramesInv ==
    ASSUME Inv, NEW s \in Sessions, WriteFrames(s)
    PROVE  Inv'
<1> DEFINE chunk == <<s, captured + 1>>
<1>1. /\ session[s] = "open" /\ newest = s /\ captured < MaxChunks
      /\ captured' = captured + 1
      /\ UNCHANGED <<faults, session, newest, handle, path, stuck, task, object, key,
                     deletion, crashes, crossed, torn>>
  BY DEF WriteFrames, storeVars, pastVars
<1>2. \/ /\ tap[s] = "on" /\ UNCHANGED <<tap, gaveUp>>
         /\ data' = [data EXCEPT ![handle[s]] = @ \cup {chunk}]
      \/ /\ tap[s] = "on" /\ tap' = [tap EXCEPT ![s] = "off"] /\ gaveUp' = TRUE
         /\ UNCHANGED data
      \/ tap[s] # "on" /\ UNCHANGED <<tap, data, gaveUp>>
  BY DEF WriteFrames
<1>3. captured \in 0..MaxChunks /\ captured + 1 \in 1..MaxChunks /\ captured \in Nat
      /\ captured' \in 0..MaxChunks
  BY <1>1, ArchiveAssumption DEF Inv, TypeOK
<1>4. chunk \in Chunks
  BY <1>3 DEF Chunks
<1>5. data' \in [Sessions -> SUBSET Chunks]
  <2>1. CASE data' = [data EXCEPT ![handle[s]] = @ \cup {chunk}]
    BY <1>4, <2>1 DEF Inv, TypeOK
  <2> QED BY <1>2, <2>1 DEF Inv, TypeOK
<1> HIDE DEF chunk
<1>6. TypeOK'
  <2>1. tap' \in [Sessions -> {"none", "on", "off"}] /\ gaveUp' \in BOOLEAN
    BY <1>2 DEF Inv, TypeOK
  <2> QED BY <1>1, <1>3, <1>5, <2>1 DEF Inv, TypeOK
<1>7. Order' /\ Gone' /\ KeyStory'
  <2>1. \A u \in Sessions : session[u] = "none" => tap'[u] = tap[u]
    BY <1>1, <1>2 DEF Inv, TypeOK
  <2>2. Order'
    BY <1>1, <2>1 DEF Inv, Order
  <2> QED BY <1>1, <2>2 DEF Inv, Gone, KeyStory, Uploading
<1>8. OneFile'
  <2> SUFFICES ASSUME Alone PROVE OneFile'
    BY <1>1 DEF OneFile, Alone
  <2>1. /\ path \in {s, NoFile} /\ object = NoObject
        /\ tap[s] = "none" => path = NoFile /\ handle[s] = NoFile
        /\ tap[s] = "on" => handle[s] = s /\ ~gaveUp
        /\ tap[s] = "off" => gaveUp
        /\ path = s \/ handle[s] = s => Whole(data[s])
    BY <1>1 DEF Inv, OneFile, Recording
  <2>2. \A d \in Deliveries : task'[d].state # "encoded"
    <3>1. \A d \in Deliveries : task[d].state # "none" => d[1] \in Sessions /\ d[1] = s
                                                          /\ session[s] = "ended"
      BY <1>1 DEF Inv, Order, Alone, Deliveries
    <3> QED BY <1>1, <3>1
  <2>3. Recording'
    BY <1>1, <1>2, <2>1 DEF Recording, Inv, TypeOK
  <2>4. path' = s \/ handle'[s] = s => Whole(data[s])'
    <3> SUFFICES ASSUME path = s \/ handle[s] = s PROVE Whole(data[s])'
      BY <1>1
    <3>1. PICK n \in 0..captured :
            data[s] = FirstChunks(s, n) /\ (~gaveUp => n = captured)
      BY <1>1, <2>1 DEF Whole
    <3>2. CASE tap[s] = "on" /\ UNCHANGED gaveUp
               /\ data' = [data EXCEPT ![handle[s]] = @ \cup {chunk}]
      <4>1. data'[s] = data[s] \cup {chunk} /\ n = captured
        BY <2>1, <3>1, <3>2 DEF Inv, TypeOK
      <4>2. data'[s] = FirstChunks(s, captured + 1)
        BY <1>3, <3>1, <4>1, NextChunk DEF chunk
      <4> QED BY <1>1, <1>3, <4>2 DEF Whole, FirstChunks
    <3>3. CASE gaveUp' = TRUE /\ UNCHANGED data
      <4>1. n \in 0..captured' /\ data'[s] = FirstChunks(s, n) /\ gaveUp'
        BY <1>1, <1>3, <3>1, <3>3
      <4> QED BY <1>1, <4>1 DEF Whole, FirstChunks
    <3>4. CASE tap[s] # "on" /\ UNCHANGED <<tap, data, gaveUp>>
      <4>1. gaveUp
        BY <2>1, <3>4, ArchiveAssumption DEF Inv, TypeOK
      <4> QED BY <3>3, <3>4, <4>1
    <3> QED BY <1>2, <3>2, <3>3, <3>4
  <2> QED BY <1>1, <2>1, <2>2, <2>3, <2>4 DEF OneFile
<1> QED BY <1>6, <1>7, <1>8 DEF Inv

(* The session ends, and its file stays as it is if the path leads to it.   *)
LEMMA CloseAndDispatchInv ==
    ASSUME Inv, NEW s \in Sessions, CloseAndDispatch(s)
    PROVE  Inv'
<1> DEFINE d0 == <<s, 0>>
<1>1. /\ session[s] = "open" /\ session' = [session EXCEPT ![s] = "ended"]
      /\ handle' = [handle EXCEPT ![s] = NoFile]
      /\ data' = Kept(path, handle')
      /\ tap' = [tap EXCEPT ![s] = "none"]
      /\ UNCHANGED <<faults, newest, captured, gaveUp, path, stuck, object, key,
                     deletion, crashes, crossed, torn>>
  BY DEF CloseAndDispatch, storeVars, pastVars
<1>2. task' = [task EXCEPT ![d0].state = "queued"] \/ task' = task
  BY DEF CloseAndDispatch
<1>3. d0 \in Deliveries /\ d0[1] = s /\ d0[2] = 0
  BY FirstDelivery
<1>4. task \in [Deliveries -> TaskRec] /\ task[d0].state = "none"
  BY <1>1, <1>3 DEF Inv, TypeOK, TaskRec, Order
<1> HIDE DEF d0
<1>5. task' \in [Deliveries -> TaskRec]
  BY <1>2, <1>4 DEF TaskRec
<1>6. \A u \in Deliveries :
         /\ task'[u].state = task[u].state \/ (u = d0 /\ task'[u].state = "queued")
         /\ task'[u].mp3 = task[u].mp3 /\ task'[u].outcome = task[u].outcome
         /\ task'[u].retries = task[u].retries
  BY <1>2, <1>4 DEF TaskRec
<1>7. /\ data' \in [Sessions -> SUBSET Chunks]
      /\ \A i \in Sessions : i = path => data'[i] = data[i]
  BY <1>1, KeptFacts DEF Inv
<1>8. TypeOK'
  BY <1>1, <1>5, <1>7 DEF Inv, TypeOK, TaskRec
<1>9. \A u \in Sessions : /\ session'[u] = IF u = s THEN "ended" ELSE session[u]
                          /\ handle'[u] = IF u = s THEN NoFile ELSE handle[u]
                          /\ tap'[u] = IF u = s THEN "none" ELSE tap[u]
  BY <1>1 DEF Inv, TypeOK
<1>10. Order'
  <2>1. \A u \in Deliveries : Sound(task'[u])
    BY <1>6 DEF Inv, Order, Sound
  <2>2. \A u \in Deliveries : u[1] \in Sessions
    BY DEF Deliveries
  <2>3. crashes \in Int /\ 0 <= crashes
    BY ArchiveAssumption DEF Inv, TypeOK
  <2>4. \A u \in Deliveries :
          session'[u[1]] # "ended" \/ u[2] > crashes' => task'[u].state = "none"
    <3> SUFFICES ASSUME NEW u \in Deliveries,
                        session'[u[1]] # "ended" \/ u[2] > crashes'
                 PROVE  task'[u].state = "none"
      OBVIOUS
    <3>1. u # d0
      BY <1>1, <1>3, <1>9, <2>3
    <3>2. session[u[1]] # "ended" \/ u[2] > crashes
      BY <1>1, <1>9, <2>2
    <3> QED BY <1>6, <3>1, <3>2 DEF Inv, Order
  <2> QED BY <1>1, <1>9, <2>1, <2>4 DEF Inv, Order, TypeOK
<1>11. Gone'
  BY <1>1, <1>6 DEF Inv, Gone, Unlinked, Ended
<1>12. Alone' => Alone /\ newest = s
  BY <1>1, <1>9 DEF Alone
<1>13. OneFile'
  <2> SUFFICES ASSUME Alone' PROVE OneFile'
    BY DEF OneFile
  <2>1. /\ newest = s /\ path \in {s, NoFile}
        /\ path = s => Whole(data[s])
        /\ \A d \in Deliveries : task[d].state = "encoded" => Whole(task[d].mp3)
        /\ object # NoObject => Whole(object)
    BY <1>12 DEF Inv, OneFile
  <2>2. /\ handle'[s] = NoFile /\ session'[s] = "ended" /\ s # NoFile
        /\ path = s => data'[s] = data[s]
    BY <1>7, <1>9, ArchiveAssumption
  <2>4. path' = s => Whole(data[s])'
    BY <1>1, <2>1, <2>2 DEF Whole, FirstChunks
  <2>5. \A d \in Deliveries : task'[d].state = "encoded" => Whole(task[d].mp3)'
    BY <1>1, <1>6, <2>1 DEF Whole, FirstChunks
  <2>6. object' # NoObject => Whole(object)'
    BY <1>1, <2>1 DEF Whole, FirstChunks
  <2> QED BY <1>1, <2>1, <2>2, <2>4, <2>5, <2>6 DEF OneFile, Recording
<1>14. KeyStory'
  <2>1. Uploading' <=> Uploading
    BY <1>4, <1>6 DEF Uploading
  <2> QED BY <1>1, <2>1 DEF Inv, KeyStory
<1> QED BY <1>8, <1>10, <1>11, <1>13, <1>14 DEF Inv

-----------------------------------------------------------------------------
(* A step of delivery d, whose session has ended: whatever d becomes, and   *)
(* whatever it stores or unlinks on the way, everything but the story of    *)
(* the key is kept.                                                         *)
Requeued(d, u) ==
    /\ u[1] = d[1] /\ u[2] <= crashes'
    /\ task[u].state = "none" /\ task'[u].state = "queued"

TaskMoves(d, r) ==
    /\ task[d].state # "none" /\ task'[d] = r
    /\ task' \in [Deliveries -> TaskRec] /\ \A u \in Deliveries : Sound(task'[u])
    /\ \A u \in Deliveries \ {d} : task'[u] = task[u] \/ Requeued(d, u)
    /\ (path' = path /\ (stuck => stuck')) \/ path' = NoFile
    /\ stuck' \in BOOLEAN
    /\ data' \in [Sessions -> SUBSET Chunks]
    /\ \A i \in Sessions : path' = i \/ handle[i] = i => data'[i] = data[i]
    /\ Unlinked(r) => path' = NoFile \/ stuck' \/ Unlinked(task[d])
    /\ r.state = "encoded" => path # NoFile /\ r.mp3 = data[path]
    /\ object' = object \/ (task[d].state = "encoded" /\ object' = task[d].mp3)
    /\ crashes' \in 0..MaxCrashes /\ crashes <= crashes'
    /\ UNCHANGED <<sessionVars, deletion>>

LEMMA RunningFacts ==
    ASSUME Inv, NEW d \in Deliveries, task[d].state # "none"
    PROVE  /\ d[1] \in Sessions /\ session[d[1]] = "ended" /\ d[2] <= crashes
           /\ newest # NoFile /\ newest \in Sessions
           /\ Alone => d[1] = newest
<1>1. d[1] \in Sessions /\ d[2] \in Int /\ crashes \in Int
  BY ArchiveAssumption DEF Deliveries, Inv, TypeOK
<1> QED BY <1>1 DEF Inv, TypeOK, Order, Alone

LEMMA TaskMovesInv ==
    ASSUME Inv, NEW d \in Deliveries, NEW r, TaskMoves(d, r), key' \in BOOLEAN,
           crossed' \in BOOLEAN, torn' \in BOOLEAN
    PROVE  TypeOK' /\ Order' /\ Gone' /\ OneFile'
<1>1. /\ task[d].state # "none" /\ task'[d] = r /\ task' \in [Deliveries -> TaskRec]
      /\ \A u \in Deliveries : Sound(task'[u])
      /\ \A u \in Deliveries \ {d} : task'[u] = task[u] \/ Requeued(d, u)
      /\ UNCHANGED <<faults, session, newest, handle, tap, captured, gaveUp, deletion>>
      /\ crashes' \in 0..MaxCrashes /\ crashes <= crashes'
  BY DEF TaskMoves, sessionVars
<1>2. /\ (path' = path /\ (stuck => stuck')) \/ path' = NoFile
      /\ stuck' \in BOOLEAN
      /\ data' \in [Sessions -> SUBSET Chunks]
      /\ \A i \in Sessions : path' = i \/ handle[i] = i => data'[i] = data[i]
      /\ Unlinked(r) => path' = NoFile \/ stuck' \/ Unlinked(task[d])
      /\ r.state = "encoded" => path # NoFile /\ r.mp3 = data[path]
      /\ object' = object \/ (task[d].state = "encoded" /\ object' = task[d].mp3)
  BY DEF TaskMoves
<1>3. /\ d[1] \in Sessions /\ session[d[1]] = "ended" /\ d[2] <= crashes
      /\ newest # NoFile /\ newest \in Sessions
      /\ Alone => d[1] = newest
  BY <1>1, RunningFacts
<1>4. TypeOK'
  <2>1. object' \in (SUBSET Chunks) \cup {NoObject}
    BY <1>2 DEF Inv, TypeOK
  <2>2. path' \in Sessions \cup {NoFile}
    BY <1>2 DEF Inv, TypeOK
  <2> QED BY <1>1, <1>2, <2>1, <2>2 DEF Inv, TypeOK, TaskRec
<1>5. Order'
  <2>1. ASSUME NEW u \in Deliveries,
               session'[u[1]] # "ended" \/ u[2] > crashes'
        PROVE  task'[u].state = "none"
    <3>1. u[2] \in Int /\ d[2] \in Int /\ crashes \in Int /\ crashes' \in Int
      BY <1>1, ArchiveAssumption DEF Deliveries, Inv, TypeOK
    <3>2. session[u[1]] # "ended" \/ u[2] > crashes
      BY <1>1, <2>1, <3>1
    <3>3. u # d
      BY <1>1, <1>3, <2>1, <3>1
    <3>4. ~Requeued(d, u)
      BY <1>1, <1>3, <2>1, <3>1 DEF Requeued
    <3> QED BY <1>1, <3>2, <3>3, <3>4 DEF Inv, Order
  <2> QED BY <1>1, <1>3, <2>1 DEF Inv, Order
<1>6. Gone'
  BY <1>1, <1>2 DEF Inv, Gone, Requeued, Unlinked, Ended
<1>7. OneFile'
  <2> SUFFICES ASSUME Alone PROVE OneFile'
    BY <1>1 DEF OneFile, Alone
  <2>1. /\ path \in {newest, NoFile} /\ session[newest] = "ended"
        /\ path = newest \/ handle[newest] = newest => Whole(data[newest])
        /\ \A u \in Deliveries : task[u].state = "encoded" => Whole(task[u].mp3)
        /\ object # NoObject => Whole(object)
    BY <1>3 DEF Inv, OneFile
  <2>2. path' \in {newest, NoFile}
    BY <1>2, <2>1
  <2>3. path' = newest \/ handle[newest] = newest => Whole(data'[newest])
    BY <1>2, <1>3, <2>1, ArchiveAssumption
  <2>4. \A u \in Deliveries : task'[u].state = "encoded" => Whole(task'[u].mp3)
    BY <1>1, <1>2, <2>1 DEF Requeued
  <2>5. object' # NoObject => Whole(object')
    BY <1>2, <2>1
  <2> QED BY <1>1, <2>1, <2>2, <2>3, <2>4, <2>5
          DEF OneFile, Recording, Whole, FirstChunks
<1> QED BY <1>4, <1>5, <1>6, <1>7

(* A step that leaves key, object and deletion alone, and neither begins    *)
(* nor ends between the two writes of a task, keeps the story of the key.   *)
LEMMA KeyStoryKept ==
    ASSUME Inv, NEW d \in Deliveries, NEW r, TaskMoves(d, r),
           UNCHANGED <<object, key, crossed, torn>>,
           task[d].state # "uploaded", r.state # "uploaded"
    PROVE  Inv'
<1>1. TypeOK' /\ Order' /\ Gone' /\ OneFile'
  BY TaskMovesInv DEF Inv, TypeOK
<1>2. Uploading' <=> Uploading
  BY DEF TaskMoves, Requeued, Uploading
<1>3. KeyStory'
  BY <1>2 DEF Inv, KeyStory, TaskMoves
<1> QED BY <1>1, <1>3 DEF Inv

(* The step of a delivery that becomes r and leaves the others alone.       *)
LEMMA OneMoves ==
    ASSUME Inv, NEW d \in Deliveries, NEW r, task[d].state # "none",
           r \in TaskRec, Sound(r), task' = [task EXCEPT ![d] = r],
           UNCHANGED <<sessionVars, deletion, crashes>>
    PROVE  /\ task'[d] = r /\ task' \in [Deliveries -> TaskRec]
           /\ \A u \in Deliveries : Sound(task'[u])
           /\ \A u \in Deliveries \ {d} : task'[u] = task[u]
           /\ crashes' \in 0..MaxCrashes /\ crashes <= crashes'
<1>1. task \in [Deliveries -> TaskRec] /\ \A u \in Deliveries : Sound(task[u])
  BY DEF Inv, TypeOK, TaskRec, Order
<1>2. crashes \in 0..MaxCrashes /\ crashes \in Int
  BY ArchiveAssumption DEF Inv, TypeOK
<1> QED BY <1>1, <1>2

(* The record of a task that leaves.                                        *)
Left(d, outcome) ==
    [task[d] EXCEPT !.state = "leaving", !.outcome = outcome, !.mp3 = {}]

LEMMA LeaveMoves ==
    ASSUME Inv, NEW d \in Deliveries, task[d].state \in {"queued", "encoded", "uploaded"},
           NEW outcome \in {"retry"} \cup Ended, Leave(d, outcome),
           outcome = "retry" => task[d].retries < MaxRetries,
           UNCHANGED <<sessionVars, fileVars, object, deletion, crashes>>
    PROVE  TaskMoves(d, Left(d, outcome)) /\ Left(d, outcome).state = "leaving"
<1> DEFINE r == Left(d, outcome)
<1>1. task[d] \in TaskRec
  BY DEF Inv, TypeOK, TaskRec
<1>2. /\ r \in TaskRec /\ r.state = "leaving" /\ r.outcome = outcome
      /\ r.retries = task[d].retries
  BY <1>1 DEF TaskRec, Left, Working
<1>3. Sound(r)
  BY <1>2 DEF Sound, Ended
<1>4. task' = [task EXCEPT ![d] = r]
  BY DEF Leave, Left, Inv, TypeOK
<1> HIDE DEF r
<1>5. /\ task'[d] = r /\ task' \in [Deliveries -> TaskRec]
      /\ \A u \in Deliveries : Sound(task'[u])
      /\ \A u \in Deliveries \ {d} : task'[u] = task[u]
      /\ crashes' \in 0..MaxCrashes /\ crashes <= crashes'
  BY <1>2, <1>3, <1>4, OneMoves
<1>6. TaskMoves(d, r)
  BY <1>2, <1>5 DEF TaskMoves, Unlinked, Ended, fileVars, Inv, TypeOK
<1> QED BY <1>2, <1>6 DEF r

LEMMA RetryInv ==
    ASSUME Inv, NEW d \in Deliveries, task[d].state = "queued", RetryOrDeadLetter(d),
           UNCHANGED <<sessionVars, fileVars, storeVars, deletion, crashes, pastVars>>
    PROVE  Inv'
<1>1. PICK outcome \in {"retry", "dead", "raised"} :
        Leave(d, outcome) /\ (outcome = "retry" => task[d].retries < MaxRetries)
  BY DEF RetryOrDeadLetter
<1>2. TaskMoves(d, Left(d, outcome)) /\ Left(d, outcome).state = "leaving"
  BY <1>1, LeaveMoves DEF Ended, storeVars
<1> QED BY <1>2, KeyStoryKept DEF storeVars, pastVars

-----------------------------------------------------------------------------
LEMMA SourceSteps ==
    ASSUME Inv, NEW d \in Deliveries, SourceMissing(d) \/ SkipEmpty(d)
    PROVE  Inv'
<1>1. CASE SourceMissing(d)
  BY <1>1, RetryInv DEF SourceMissing
<1>2. CASE SkipEmpty(d)
  <2>1. TaskMoves(d, Left(d, "done")) /\ Left(d, "done").state = "leaving"
    BY <1>2, LeaveMoves DEF SkipEmpty, Ended, storeVars
  <2> QED BY <1>2, <2>1, KeyStoryKept DEF SkipEmpty, storeVars, pastVars
<1> QED BY <1>1, <1>2

LEMMA EncodeInv ==
    ASSUME Inv, NEW d \in Deliveries, Encode(d)
    PROVE  Inv'
<1> DEFINE r == [task[d] EXCEPT !.state = "encoded", !.mp3 = data[path]]
<1>1. task[d] \in TaskRec /\ task[d].state = "queued" /\ Sound(task[d])
      /\ path # NoFile /\ data[path] \in SUBSET Chunks
  BY DEF Encode, Inv, TypeOK, TaskRec, Order
<1>2. UNCHANGED <<sessionVars, fileVars, storeVars, deletion, crashes, pastVars>>
  BY DEF Encode
<1>3. CASE RetryOrDeadLetter(d)
  BY <1>1, <1>2, <1>3, RetryInv
<1>4. CASE Leave(d, "raised")
  <2>1. TaskMoves(d, Left(d, "raised")) /\ Left(d, "raised").state = "leaving"
    BY <1>1, <1>2, <1>4, LeaveMoves DEF Ended, storeVars
  <2> QED BY <1>1, <1>2, <2>1, KeyStoryKept DEF storeVars, pastVars
<1>5. CASE task' = [task EXCEPT ![d].state = "encoded", ![d].mp3 = data[path]]
  <2>1. /\ r \in TaskRec /\ r.state = "encoded" /\ r.outcome = task[d].outcome
        /\ r.retries = task[d].retries /\ r.mp3 = data[path]
    BY <1>1 DEF TaskRec, Working
  <2>2. task' = [task EXCEPT ![d] = r]
    BY <1>5 DEF Inv, TypeOK
  <2> HIDE DEF r
  <2>3. Sound(r)
    BY <1>1, <2>1 DEF Sound
  <2>4. /\ task'[d] = r /\ task' \in [Deliveries -> TaskRec]
        /\ \A u \in Deliveries : Sound(task'[u])
        /\ \A u \in Deliveries \ {d} : task'[u] = task[u]
        /\ crashes' \in 0..MaxCrashes /\ crashes <= crashes'
    BY <1>1, <1>2, <2>1, <2>2, <2>3, OneMoves
  <2>5. TaskMoves(d, r)
    BY <1>1, <1>2, <2>1, <2>4
    DEF TaskMoves, Unlinked, Ended, fileVars, storeVars, Inv, TypeOK
  <2> QED BY <1>1, <1>2, <2>1, <2>5, KeyStoryKept DEF storeVars, pastVars
<1> QED BY <1>3, <1>4, <1>5 DEF Encode

(* The upload replaces the object, and crosses a deletion that has removed  *)
(* the one before.                                                          *)
LEMMA UploadInv ==
    ASSUME Inv, NEW d \in Deliveries, Upload(d)
    PROVE  Inv'
<1> DEFINE r == [task[d] EXCEPT !.state = "uploaded", !.mp3 = {}]
<1>1. task[d] \in TaskRec /\ task[d].state = "encoded" /\ Sound(task[d])
  BY DEF Upload, Inv, TypeOK, TaskRec, Order
<1>2. UNCHANGED <<sessionVars, fileVars, key, deletion, crashes, torn>>
  BY DEF Upload
<1>3. CASE Leave(d, "raised") /\ UNCHANGED <<object, crossed>>
  <2>1. TaskMoves(d, Left(d, "raised")) /\ Left(d, "raised").state = "leaving"
    BY <1>1, <1>2, <1>3, LeaveMoves DEF Ended
  <2> QED BY <1>1, <1>2, <1>3, <2>1, KeyStoryKept
<1>4. CASE /\ object' = task[d].mp3
           /\ task' = [task EXCEPT ![d].state = "uploaded", ![d].mp3 = {}]
           /\ crossed' = (crossed \/ deletion = "object_gone")
  <2>1. /\ r \in TaskRec /\ r.state = "uploaded" /\ r.outcome = task[d].outcome
        /\ r.retries = task[d].retries
    BY <1>1 DEF TaskRec, Working
  <2>2. task' = [task EXCEPT ![d] = r]
    BY <1>4 DEF Inv, TypeOK
  <2> HIDE DEF r
  <2>3. Sound(r)
    BY <1>1, <2>1 DEF Sound
  <2>4. /\ task'[d] = r /\ task' \in [Deliveries -> TaskRec]
        /\ \A u \in Deliveries : Sound(task'[u])
        /\ \A u \in Deliveries \ {d} : task'[u] = task[u]
        /\ crashes' \in 0..MaxCrashes /\ crashes <= crashes'
    BY <1>1, <1>2, <2>1, <2>2, <2>3, OneMoves
  <2>5. TaskMoves(d, r)
    BY <1>1, <1>2, <1>4, <2>1, <2>4
    DEF TaskMoves, Unlinked, Ended, fileVars, Inv, TypeOK
  <2>6. TypeOK' /\ Order' /\ Gone' /\ OneFile'
    BY <1>2, <1>4, <2>5, TaskMovesInv DEF Inv, TypeOK
  <2>7. object' # NoObject /\ Uploading'
    BY <1>1, <1>4, <2>1, <2>4, ArchiveAssumption DEF TaskRec, Uploading
  <2>8. KeyStory'
    BY <1>2, <1>4, <2>7 DEF KeyStory
  <2> QED BY <2>6, <2>8 DEF Inv
<1> QED BY <1>3, <1>4 DEF Upload

LEMMA PersistKeyInv ==
    ASSUME Inv, NEW d \in Deliveries, PersistKey(d)
    PROVE  Inv'
<1>1. /\ task[d].state = "uploaded"
      /\ UNCHANGED <<sessionVars, fileVars, object, deletion, crashes, crossed>>
  BY DEF PersistKey
<1>2. PICK outcome \in {"done", "raised"} :
         /\ Leave(d, outcome)
         /\ outcome = "done" => key' = TRUE /\ torn' = FALSE
         /\ outcome = "raised" => key' = key /\ torn' = TRUE
  BY DEF PersistKey
<1>3. TaskMoves(d, Left(d, outcome)) /\ Left(d, outcome).state = "leaving"
  BY <1>1, <1>2, LeaveMoves DEF Ended
<1>4. TypeOK' /\ Order' /\ Gone' /\ OneFile'
  BY <1>1, <1>2, <1>3, TaskMovesInv DEF Inv, TypeOK
<1>5. Uploading /\ (Uploading' => Uploading)
  BY <1>1 DEF Uploading
<1>6. KeyStory'
  BY <1>1, <1>2, <1>5 DEF Inv, KeyStory
<1> QED BY <1>4, <1>6 DEF Inv

LEMMA UnlinkInv ==
    ASSUME Inv, NEW d \in Deliveries, Unlink(d)
    PROVE  Inv'
<1> DEFINE r == [task[d] EXCEPT !.state = "unlinked"]
<1>1. task[d] \in TaskRec /\ task[d].state = "leaving" /\ Sound(task[d])
  BY DEF Unlink, Inv, TypeOK, TaskRec, Order
<1>2. /\ r \in TaskRec /\ r.state = "unlinked" /\ r.outcome = task[d].outcome
      /\ r.retries = task[d].retries
  BY <1>1 DEF TaskRec, Working
<1>3. /\ task' = [task EXCEPT ![d] = r]
      /\ (path' = NoFile /\ stuck' = FALSE) \/ (path' = path /\ stuck' = TRUE)
      /\ data' = Kept(path', handle)
      /\ UNCHANGED <<sessionVars, storeVars, deletion, crashes, pastVars>>
  BY DEF Unlink, Inv, TypeOK
<1> HIDE DEF r
<1>4. Sound(r)
  BY <1>1, <1>2 DEF Sound
<1>5. /\ task'[d] = r /\ task' \in [Deliveries -> TaskRec]
      /\ \A u \in Deliveries : Sound(task'[u])
      /\ \A u \in Deliveries \ {d} : task'[u] = task[u]
      /\ crashes' \in 0..MaxCrashes /\ crashes <= crashes'
  BY <1>1, <1>2, <1>3, <1>4, OneMoves
<1>6. /\ data' \in [Sessions -> SUBSET Chunks]
      /\ \A i \in Sessions : path' = i \/ handle[i] = i => data'[i] = data[i]
  BY <1>3, KeptFacts DEF Inv
<1>7. TaskMoves(d, r)
  BY <1>1, <1>2, <1>3, <1>5, <1>6 DEF TaskMoves, storeVars
<1> QED BY <1>1, <1>2, <1>3, <1>7, KeyStoryKept DEF storeVars, pastVars

LEMMA AcknowledgeInv ==
    ASSUME Inv, NEW d \in Deliveries, Acknowledge(d)
    PROVE  Inv'
<1>1. /\ task[d] \in TaskRec /\ task[d].state = "unlinked" /\ Sound(task[d])
      /\ task[d].outcome \in {"retry"} \cup Ended /\ Unlinked(task[d])
  BY DEF Acknowledge, Inv, TypeOK, TaskRec, Order, Sound, Unlinked
<1>2. UNCHANGED <<sessionVars, fileVars, storeVars, deletion, crashes, pastVars>>
  BY DEF Acknowledge
<1>3. PICK st \in {"queued"} \cup Ended, n \in 0..MaxRetries :
         task' = [task EXCEPT ![d] = Message(st, n)]
  <2>1. CASE task[d].outcome = "retry"
    <3>1. task[d].retries + 1 \in 0..MaxRetries
      BY <1>1, <2>1, ArchiveAssumption DEF Sound, TaskRec
    <3>2. task' = [task EXCEPT ![d] = Message("queued", task[d].retries + 1)]
      BY <2>1 DEF Acknowledge, Inv, TypeOK
    <3> QED BY <3>1, <3>2
  <2>2. CASE task[d].outcome # "retry"
    <3>1. task' = [task EXCEPT ![d] = Message(task[d].outcome, 0)]
      BY <2>2 DEF Acknowledge, Inv, TypeOK
    <3>2. task[d].outcome \in Ended /\ 0 \in 0..MaxRetries
      BY <1>1, <2>2, ArchiveAssumption
    <3> QED BY <3>1, <3>2
  <2> QED BY <2>1, <2>2
<1> DEFINE r == Message(st, n)
<1>4. r \in TaskRec /\ Sound(r) /\ r.state = st
  BY MessageFacts
<1> HIDE DEF r
<1>5. /\ task'[d] = r /\ task' \in [Deliveries -> TaskRec]
      /\ \A u \in Deliveries : Sound(task'[u])
      /\ \A u \in Deliveries \ {d} : task'[u] = task[u]
      /\ crashes' \in 0..MaxCrashes /\ crashes <= crashes'
  BY <1>1, <1>2, <1>3, <1>4, OneMoves DEF r
<1>6. TaskMoves(d, r)
  BY <1>1, <1>2, <1>4, <1>5 DEF TaskMoves, Ended, fileVars, storeVars, Inv, TypeOK
<1> QED BY <1>1, <1>2, <1>4, <1>6, KeyStoryKept DEF Ended, storeVars, pastVars

(* A message that is delivered again finds the file, or finds it unlinked.  *)
LEMMA WorkerLostInv ==
    ASSUME Inv, NEW d \in Deliveries, WorkerLost(d)
    PROVE  Inv'
<1> DEFINE r == Message("queued", task[d].retries)
           copy == <<d[1], crashes + 1>>
           more == Message("queued", task[d].retries + 1)
<1>1. task[d] \in TaskRec /\ task[d].state \in Working /\ Sound(task[d])
      /\ task[d].state # "none"
  BY DEF WorkerLost, Inv, TypeOK, TaskRec, Order, Working
<1>2. /\ crashes' = crashes + 1 /\ crashes' \in 0..MaxCrashes /\ crashes \in Int
      /\ crashes <= crashes'
  BY ArchiveAssumption DEF WorkerLost, Inv, TypeOK
<1>3. /\ torn' = (torn \/ task[d].state = "uploaded")
      /\ UNCHANGED <<sessionVars, fileVars, storeVars, deletion, crossed>>
  BY DEF WorkerLost
<1>4. r \in TaskRec /\ Sound(r) /\ r.state = "queued"
  BY <1>1, MessageFacts DEF TaskRec
<1>5. /\ d[1] \in Sessions /\ d[2] <= crashes /\ d[2] \in Int
      /\ copy \in Deliveries /\ copy[1] = d[1] /\ copy[2] = crashes'
  BY <1>1, <1>2, RunningFacts, ArchiveAssumption DEF Deliveries
<1>6. copy # d /\ task[copy].state = "none"
  BY <1>2, <1>5 DEF Inv, Order
<1>7. task \in [Deliveries -> TaskRec] /\ \A u \in Deliveries : Sound(task[u])
  BY DEF Inv, TypeOK, TaskRec, Order
<1>8. /\ task'[d] = r /\ task' \in [Deliveries -> TaskRec]
      /\ \A u \in Deliveries : Sound(task'[u])
      /\ \A u \in Deliveries \ {d} :
            task'[u] = task[u] \/ (u = copy /\ task'[u].state = "queued")
  <2>1. CASE task[d].outcome = "retry"
    <3>1. more \in TaskRec /\ Sound(more) /\ more.state = "queued"
      <4>1. task[d].retries + 1 \in 0..MaxRetries
        BY <1>1, <2>1, ArchiveAssumption DEF Sound, TaskRec
      <4> QED BY <4>1, MessageFacts
    <3>2. task' = [[task EXCEPT ![d] = r] EXCEPT ![copy] = more]
      BY <1>7, <2>1 DEF WorkerLost
    <3> HIDE DEF r, more, copy
    <3> QED BY <1>4, <1>5, <1>6, <1>7, <3>1, <3>2
  <2>2. CASE task[d].outcome # "retry"
    <3>1. task' = [task EXCEPT ![d] = r]
      BY <1>7, <2>2 DEF WorkerLost
    <3> HIDE DEF r, more, copy
    <3> QED BY <1>4, <1>7, <3>1
  <2> QED BY <2>1, <2>2
<1> HIDE DEF r, copy, more
<1>9. TaskMoves(d, r)
  <2>1. \A u \in Deliveries \ {d} : task'[u] = task[u] \/ Requeued(d, u)
    BY <1>2, <1>5, <1>6, <1>8 DEF Requeued
  <2> QED BY <1>1, <1>2, <1>3, <1>4, <1>8, <2>1
          DEF TaskMoves, Unlinked, Ended, fileVars, storeVars, Inv, TypeOK
<1>10. TypeOK' /\ Order' /\ Gone' /\ OneFile'
  BY <1>3, <1>9, TaskMovesInv DEF storeVars, Inv, TypeOK
<1>11. /\ Uploading' => Uploading
       /\ task[d].state # "uploaded" => (Uploading => Uploading')
  BY <1>4, <1>6, <1>8 DEF Uploading
<1>12. KeyStory'
  BY <1>3, <1>11 DEF Inv, KeyStory, storeVars
<1> QED BY <1>10, <1>12 DEF Inv

-----------------------------------------------------------------------------
(* DELETE /meetings/:id/audio.                                              *)
LEMMA DeleteInv ==
    ASSUME Inv, DeleteBegins \/ DeleteObject \/ DeleteCommits
    PROVE  Inv'
<1>1. /\ UNCHANGED <<faults, session, newest, handle, tap, captured, gaveUp, path,
                     data, stuck, task, crashes>>
      /\ object' \in {object, NoObject}
  BY DEF DeleteBegins, DeleteObject, DeleteCommits, sessionVars, fileVars, storeVars
<1>2. /\ key' \in BOOLEAN /\ deletion' \in {"none", "begun", "object_gone"}
      /\ crossed' \in BOOLEAN /\ torn' \in BOOLEAN
  BY DEF DeleteBegins, DeleteObject, DeleteCommits, storeVars, pastVars, Inv, TypeOK
<1>3. TypeOK'
  BY <1>1, <1>2 DEF Inv, TypeOK
<1>4. newest # NoFile
  BY DEF DeleteBegins, DeleteObject, DeleteCommits, Inv, Order
<1>5. Order' /\ Gone'
  BY <1>1, <1>4 DEF Inv, Order, Gone
<1>6. OneFile'
  BY <1>1 DEF Inv, OneFile, Recording, Alone, Whole, FirstChunks
<1>7. KeyStory'
  <2>1. Uploading' <=> Uploading
    BY <1>1 DEF Uploading
  <2>2. CASE DeleteBegins
    BY <2>1, <2>2 DEF DeleteBegins, Inv, KeyStory, storeVars, pastVars
  <2>3. CASE DeleteObject
    <3>1. /\ deletion = "begun"
          /\ \/ /\ crossed' = (crossed \/ Uploading) /\ object' = NoObject
                /\ deletion' = "object_gone" /\ UNCHANGED <<key, torn>>
             \/ deletion' = "none" /\ UNCHANGED <<object, crossed, key, torn>>
      BY <2>3 DEF DeleteObject, Uploading
    <3> QED BY <2>1, <3>1 DEF Inv, KeyStory
  <2>4. CASE DeleteCommits
    <3>1. /\ deletion = "object_gone" /\ deletion' = "none"
          /\ UNCHANGED <<object, crossed>>
          /\ key' = FALSE \/ torn'
      BY <2>4 DEF DeleteCommits
    <3> QED BY <2>1, <3>1 DEF Inv, KeyStory
  <2> QED BY <2>2, <2>3, <2>4
<1> QED BY <1>3, <1>5, <1>6, <1>7 DEF Inv

LEMMA StutterInv ==
    ASSUME Inv, UNCHANGED vars
    PROVE  Inv'
<1>1. UNCHANGED <<faults, session, newest, handle, tap, captured, gaveUp, path, data,
                  stuck, task, object, key, deletion, crashes, crossed, torn>>
  BY DEF vars, sessionVars, fileVars, storeVars, pastVars
<1>2. TypeOK' /\ Order' /\ Gone'
  BY <1>1 DEF Inv, TypeOK, Order, Gone
<1>3. OneFile'
  BY <1>1 DEF Inv, OneFile, Recording, Alone, Whole, FirstChunks
<1>4. KeyStory'
  BY <1>1 DEF Inv, KeyStory, Uploading
<1> QED BY <1>2, <1>3, <1>4 DEF Inv

LEMMA NextInv ==
    ASSUME Inv, [Next]_vars
    PROVE  Inv'
<1>1. ASSUME NEW s \in Sessions, OpenWav(s) \/ WriteFrames(s) \/ CloseAndDispatch(s)
      PROVE  Inv'
  BY <1>1, OpenWavInv, WriteFramesInv, CloseAndDispatchInv
<1>2. ASSUME NEW d \in Deliveries, TaskStep(d) \/ WorkerLost(d)
      PROVE  Inv'
  BY <1>2, SourceSteps, EncodeInv, UploadInv, PersistKeyInv, UnlinkInv, AcknowledgeInv,
     WorkerLostInv DEF TaskStep
<1>3. CASE DeleteBegins \/ DeleteObject \/ DeleteCommits
  BY <1>3, DeleteInv
<1>4. CASE UNCHANGED vars
  BY <1>4, StutterInv
<1> QED BY <1>1, <1>2, <1>3, <1>4 DEF Next

-----------------------------------------------------------------------------
(* The audio archive keeps its inductive invariant, with failing disks,     *)
(* commits, brokers and workers in it.                                      *)
THEOREM ArchiveInvariant == Spec => []Inv
<1>1. Inv /\ [Next]_vars => Inv'
  BY NextInv
<1> QED BY InitInv, <1>1, PTL DEF Spec

(* Sessions, files, deliveries and the store keep their types.              *)
THEOREM TypeCorrect == Spec => []TypeOK
<1>1. Inv => TypeOK
  BY DEF Inv
<1> QED BY ArchiveInvariant, <1>1, PTL

(* When a delivery of the newest session's task has ended no audio is left  *)
(* on the disk, unless the file system has refused to unlink it.            *)
THEOREM DiskIsCleared == Spec => []NoWavLeftBehind
<1>1. Inv => NoWavLeftBehind
  BY DEF Inv, Gone, Unlinked, NoWavLeftBehind
<1> QED BY ArchiveInvariant, <1>1, PTL

(* Without a reconnect, what is stored is what was captured, from the       *)
(* beginning and without a gap, and all of it unless the WAV was given up.  *)
THEOREM ArchiveIsComplete == Spec => []StoredIsComplete
<1>1. Inv => StoredIsComplete
  BY OneMeansAlone DEF Inv, OneFile, Whole, StoredIsComplete
<1> QED BY ArchiveInvariant, <1>1, PTL

(* For every number of sessions and of lost workers, key and object only    *)
(* part where an upload and a deletion overlap, or one stops halfway.       *)
THEOREM KeyLeadsToObject == Spec => []KeyMatchesObject
<1>1. Inv => KeyMatchesObject
  BY DEF Inv, KeyStory, Uploading, KeyMatchesObject
<1> QED BY ArchiveInvariant, <1>1, PTL

=============================================================================
