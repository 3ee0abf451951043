------------------------ MODULE SummaryPipelineProofs ------------------------
(***************************************************************************)
(* For every number of sessions, segments, tasks, deliveries and workers   *)
(* and every set of faults: the action items shown are those of the        *)
(* summary shown, statuses tell the truth, a summary is only taken away by *)
(* a result, and with one worker never by that of an older transcript.     *)
(***************************************************************************)
EXTENDS SummaryPipeline, FiniteSetTheorems, TLAPS

TaskRec == [state : {"queued"} \cup Running \cup Settled,
            deliveries : 0..MaxDeliveries, of : 0..MaxSegments, answer : Answers]

RowRec == [status : Statuses, run : Runs \cup {NoRun}, of : 0..MaxSegments,
           error : BOOLEAN]

ItemRec == [run : Runs, completed : BOOLEAN]

(* A task that waits has a delivery left, one that runs has used one, one   *)
(* that has been summarised has an answer, and nothing that was loaded is    *)
(* longer than the transcript is now.                                       *)
TaskFacts(t) ==
    /\ task[t].state \in {"none", "queued"} => task[t].deliveries < MaxDeliveries
    /\ task[t].state \in Running => task[t].deliveries >= 1
    /\ task[t].state \in {"answered", "stored"} => task[t].answer # "none"
    /\ task[t].of <= segments

Facts ==
    /\ \A s \in Sessions : finals[s] <= segments
    /\ \A t \in Tasks : TaskFacts(t)
    /\ row.of <= segments

(* One worker runs one task, and until the result of that task is stored    *)
(* the row's summary is of a transcript no longer than the one it loaded.   *)
OneAtATime ==
    workers = 1 =>
        \A t \in Tasks : task[t].state \in Running =>
            \A u \in Tasks : task[u].state \in Running => u = t

LoadedIsNewer ==
    workers = 1 =>
        \A t \in Tasks : task[t].state \in Running \ {"stored"} => row.of <= task[t].of

(* The inductive invariant. *)
Inv ==
    /\ TypeOK /\ Facts /\ ItemsMatchSummary /\ StatusMatchesSummary
    /\ OneAtATime /\ LoadedIsNewer

-----------------------------------------------------------------------------
LEMMA InitInv == Init => Inv
<1> SUFFICES ASSUME Init PROVE Inv
  OBVIOUS
<1>1. TypeOK
  <2>1. row \in RowRec
    BY PipelineAssumption DEF Init, RowRec, Statuses
  <2>2. task \in [Tasks -> TaskRec]
    BY PipelineAssumption DEF Init, TaskRec, Settled, Answers
  <2> QED
    BY <2>1, <2>2, PipelineAssumption DEF Init, TypeOK, RowRec, TaskRec
<1>2. Facts
  BY PipelineAssumption DEF Init, Facts, TaskFacts, Running
<1>3. ItemsMatchSummary /\ StatusMatchesSummary
  BY DEF Init, ItemsMatchSummary, StatusMatchesSummary, NoRun
<1>4. OneAtATime /\ LoadedIsNewer
  BY DEF Init, OneAtATime, LoadedIsNewer, Running
<1> QED BY <1>1, <1>2, <1>3, <1>4 DEF Inv

(* A busy worker that is the only one leaves room for no other task.         *)
LEMMA NoneRunning ==
    ASSUME workers = 1, Busy < workers
    PROVE  \A t \in Tasks : task[t].state \notin Running
<1> DEFINE R == {t \in Tasks : task[t].state \in Running}
<1>1. IsFiniteSet(R)
  BY PipelineAssumption, FS_Subset
<1>2. Cardinality(R) = 0
  BY <1>1, FS_CardinalityType DEF Busy
<1>3. R = {}
  BY <1>1, <1>2, FS_EmptySet
<1> QED BY <1>3

(* The row, the items and the count of segments are left alone, and so is    *)
(* what the invariant says of them.                                          *)
LEMMA RowKept ==
    ASSUME ItemsMatchSummary, StatusMatchesSummary, UNCHANGED <<row, items>>
    PROVE  ItemsMatchSummary' /\ StatusMatchesSummary'
BY DEF ItemsMatchSummary, StatusMatchesSummary

(* A step of one task that neither takes it from the queue nor touches the   *)
(* row: its record moves on among the running or out of them.                *)
LEMMA TaskMoves ==
    ASSUME Inv, NEW t \in Tasks, NEW r \in TaskRec,
           task[t].state \in Running \/ r.state \notin Running,
           task[t].state = "stored" => r.state \notin Running \ {"stored"},
           r.of = task[t].of,
           r.state \in {"none", "queued"} => r.deliveries < MaxDeliveries,
           r.state \in Running => r.deliveries >= 1,
           r.state \in {"answered", "stored"} => r.answer # "none",
           task' = [task EXCEPT ![t] = r],
           UNCHANGED <<workers, sessionVars, row, items, lost, requestVars>>,
           embeds' \in Nat
    PROVE  Inv'
<1>1. TypeOK'
  BY DEF Inv, TypeOK, TaskRec, sessionVars, requestVars, Runs
<1>2. Facts'
  <2>1. task[t].of \in 0..MaxSegments /\ task[t].of <= segments
    BY DEF Inv, Facts, TaskFacts, TypeOK
  <2>2. \A u \in Tasks : task'[u] = IF u = t THEN r ELSE task[u]
    BY DEF Inv, TypeOK
  <2> QED BY <2>1, <2>2 DEF Inv, Facts, TaskFacts, sessionVars
<1>3. ItemsMatchSummary' /\ StatusMatchesSummary'
  BY RowKept DEF Inv
<1>4. OneAtATime'
  BY DEF Inv, TypeOK, OneAtATime
<1>5. LoadedIsNewer'
  BY DEF Inv, TypeOK, LoadedIsNewer
<1> QED BY <1>1, <1>2, <1>3, <1>4, <1>5 DEF Inv

(* A step that touches neither a task nor the row and adds to the transcript *)
(* only.                                                                     *)
LEMMA TranscriptGrows ==
    ASSUME Inv,
           session' \in [Sessions -> {"none", "live", "ended"}],
           segments' \in 0..MaxSegments, segments <= segments',
           finals' \in [Sessions -> 0..MaxSegments],
           \A s \in Sessions : finals'[s] <= segments',
           request' \in {"none", "flushed", "dispatched"}, locked' \in BOOLEAN,
           UNCHANGED <<workers, row, items, task, embeds, lost>>
    PROVE  Inv'
<1>1. TypeOK'
  BY DEF Inv, TypeOK, Runs
<1>2. Facts'
  BY DEF Inv, Facts, TaskFacts, TypeOK
<1>3. ItemsMatchSummary' /\ StatusMatchesSummary'
  BY RowKept DEF Inv
<1>4. OneAtATime' /\ LoadedIsNewer'
  BY DEF Inv, OneAtATime, LoadedIsNewer
<1> QED BY <1>1, <1>2, <1>3, <1>4 DEF Inv

(* A dispatch takes a task that was never used.                              *)
LEMMA DispatchInv ==
    ASSUME Inv, Dispatch,
           session' \in [Sessions -> {"none", "live", "ended"}],
           request' \in {"none", "flushed", "dispatched"}, locked' \in BOOLEAN,
           UNCHANGED <<workers, finals, segments, row, items, embeds>>
    PROVE  Inv'
<1>1. CASE task' = task /\ lost' = TRUE
  <2>1. TypeOK'
    BY <1>1 DEF Inv, TypeOK, Runs
  <2>2. Facts'
    BY <1>1 DEF Inv, Facts, TaskFacts
  <2>3. ItemsMatchSummary' /\ StatusMatchesSummary'
    BY RowKept DEF Inv
  <2>4. OneAtATime' /\ LoadedIsNewer'
    BY <1>1 DEF Inv, OneAtATime, LoadedIsNewer
  <2> QED BY <2>1, <2>2, <2>3, <2>4 DEF Inv
<1>2. CASE lost' = lost /\ task' # task
  <2>1. PICK t \in Tasks : task[t].state = "none"
                           /\ task' = [task EXCEPT ![t].state = "queued"]
    BY <1>2 DEF Dispatch
  <2>2. task \in [Tasks -> TaskRec]
    BY DEF Inv, TypeOK, TaskRec
  <2>3. task' \in [Tasks -> TaskRec]
    BY <2>1, <2>2 DEF TaskRec
  <2>4. \A u \in Tasks :
            /\ task'[u].state = IF u = t THEN "queued" ELSE task[u].state
            /\ task'[u].deliveries = task[u].deliveries
            /\ task'[u].of = task[u].of /\ task'[u].answer = task[u].answer
    BY <2>1, <2>2 DEF TaskRec
  <2>5. TypeOK'
    BY <1>2, <2>3 DEF Inv, TypeOK, TaskRec, Runs
  <2>6. Facts'
    BY <2>1, <2>4 DEF Inv, Facts, TaskFacts, Running
  <2>7. ItemsMatchSummary' /\ StatusMatchesSummary'
    BY RowKept DEF Inv
  <2>8. OneAtATime' /\ LoadedIsNewer'
    BY <2>4 DEF Inv, OneAtATime, LoadedIsNewer, Running
  <2> QED BY <2>5, <2>6, <2>7, <2>8 DEF Inv
<1>3. CASE lost' = lost /\ task' = task
  BY <1>3, TranscriptGrows DEF Inv, TypeOK, Facts
<1> QED BY <1>1, <1>2, <1>3 DEF Dispatch

(* A write of status and error that says "processing" or "failed" keeps the  *)
(* payload, and with it what the invariant says of it.                       *)
LEMMA StatusOnly ==
    ASSUME TypeOK, ItemsMatchSummary, StatusMatchesSummary, UNCHANGED items,
           NEW st \in {"processing", "failed"},
           row' = [row EXCEPT !.status = st, !.error = (st = "failed")]
    PROVE  /\ row' \in RowRec /\ row'.of = row.of
           /\ ItemsMatchSummary' /\ StatusMatchesSummary'
BY DEF TypeOK, RowRec, Statuses, ItemsMatchSummary, StatusMatchesSummary

LEMMA SessionSteps ==
    ASSUME Inv, NEW s \in Sessions,
           SessionStarts(s) \/ PersistSegment(s) \/ SessionEnds(s)
    PROVE  Inv'
<1>1. CASE SessionStarts(s)
  BY <1>1, TranscriptGrows DEF SessionStarts, Inv, TypeOK, Facts, requestVars
<1>2. CASE PersistSegment(s)
  <2>1. /\ segments' \in 0..MaxSegments /\ segments <= segments'
        /\ finals' \in [Sessions -> 0..MaxSegments]
        /\ \A u \in Sessions : finals'[u] <= segments'
    BY <1>2, PipelineAssumption DEF PersistSegment, Inv, TypeOK, Facts
  <2> QED
    BY <1>2, <2>1, TranscriptGrows DEF PersistSegment, Inv, TypeOK, requestVars
<1>3. CASE SessionEnds(s)
  BY <1>3, DispatchInv DEF SessionEnds, Inv, TypeOK, requestVars
<1> QED BY <1>1, <1>2, <1>3

LEMMA SessionParksInv ==
    ASSUME Inv, NEW s \in Sessions, SessionParks(s)
    PROVE  Inv'
<1>1. /\ row' \in RowRec /\ row'.of = row.of
      /\ ItemsMatchSummary' /\ StatusMatchesSummary'
  BY StatusOnly DEF SessionParks, Inv
<1>2. TypeOK'
  BY <1>1 DEF SessionParks, Inv, TypeOK, RowRec, Runs, requestVars
<1>3. Facts'
  BY <1>1 DEF SessionParks, Inv, Facts, TaskFacts
<1>4. OneAtATime' /\ LoadedIsNewer'
  BY <1>1 DEF SessionParks, Inv, OneAtATime, LoadedIsNewer
<1> QED BY <1>1, <1>2, <1>3, <1>4 DEF Inv

LEMMA RegenerateSteps ==
    ASSUME Inv, RegenerateFlush \/ RegenerateDispatch
    PROVE  Inv'
<1>1. CASE RegenerateFlush
  BY <1>1, TranscriptGrows DEF RegenerateFlush, Inv, TypeOK, Facts, sessionVars
<1>2. CASE RegenerateDispatch
  BY <1>2, DispatchInv DEF RegenerateDispatch, Inv, TypeOK, sessionVars
<1> QED BY <1>1, <1>2

LEMMA RegenerateCommitInv ==
    ASSUME Inv, RegenerateCommit
    PROVE  Inv'
<1>1. /\ row' \in RowRec /\ row'.of = row.of
      /\ ItemsMatchSummary' /\ StatusMatchesSummary'
  <2>1. CASE locked
    BY <2>1, StatusOnly DEF RegenerateCommit, Inv
  <2>2. CASE ~locked
    BY <2>2, RowKept DEF RegenerateCommit, Inv, TypeOK, RowRec
  <2> QED BY <2>1, <2>2
<1>2. TypeOK'
  BY <1>1 DEF RegenerateCommit, Inv, TypeOK, RowRec, Runs, sessionVars
<1>3. Facts'
  BY <1>1 DEF RegenerateCommit, Inv, Facts, TaskFacts, sessionVars
<1>4. OneAtATime' /\ LoadedIsNewer'
  BY <1>1 DEF RegenerateCommit, Inv, OneAtATime, LoadedIsNewer
<1> QED BY <1>1, <1>2, <1>3, <1>4 DEF Inv

LEMMA PatchItemInv ==
    ASSUME Inv, NEW i \in items, PatchItem(i)
    PROVE  Inv'
<1> DEFINE j == [i EXCEPT !.completed = ~@]
<1>1. i \in ItemRec /\ j \in ItemRec /\ j.run = i.run
  <2>1. i \in ItemRec
    BY DEF Inv, TypeOK, ItemRec
  <2>2. (~i.completed) \in BOOLEAN
    OBVIOUS
  <2>3. j = [run |-> i.run, completed |-> ~i.completed]
    BY <2>1 DEF ItemRec
  <2> QED BY <2>1, <2>2, <2>3 DEF ItemRec
<1>2. items' = (items \ {i}) \cup {j}
  BY DEF PatchItem
<1>3. items' \subseteq ItemRec
  BY <1>1, <1>2 DEF Inv, TypeOK, ItemRec
<1>4. {k.run : k \in items'} = {k.run : k \in items}
  BY <1>1, <1>2
<1>5. TypeOK'
  BY <1>3 DEF PatchItem, Inv, TypeOK, ItemRec, Runs, sessionVars, requestVars
<1>6. Facts'
  BY DEF PatchItem, Inv, Facts, TaskFacts, sessionVars
<1>7. ItemsMatchSummary' /\ StatusMatchesSummary'
  BY <1>4 DEF PatchItem, Inv, ItemsMatchSummary, StatusMatchesSummary
<1>8. OneAtATime' /\ LoadedIsNewer'
  BY DEF PatchItem, Inv, OneAtATime, LoadedIsNewer
<1> QED BY <1>5, <1>6, <1>7, <1>8 DEF Inv

-----------------------------------------------------------------------------
(* The only worker that is free loads the transcript as it is now, which is  *)
(* at least as long as that of the row.                                      *)
LEMMA LoadTranscriptInv ==
    ASSUME Inv, NEW t \in Tasks, LoadTranscript(t)
    PROVE  Inv'
<1> DEFINE r == [state |-> "loaded", of |-> segments,
                 deliveries |-> task[t].deliveries + 1, answer |-> "none"]
<1>1. /\ task[t] \in TaskRec /\ task[t].state = "queued"
      /\ task[t].deliveries < MaxDeliveries /\ task' = [task EXCEPT ![t] = r]
  BY DEF LoadTranscript, Inv, TypeOK, TaskRec, Facts, TaskFacts
<1>2. r \in TaskRec
  BY <1>1, PipelineAssumption DEF Inv, TypeOK, TaskRec, Running, Answers
<1>3. \A u \in Tasks : task'[u] = IF u = t THEN r ELSE task[u]
  BY <1>1 DEF Inv, TypeOK
<1>4. TypeOK'
  BY <1>1, <1>2 DEF LoadTranscript, Inv, TypeOK, TaskRec, Runs, sessionVars, requestVars
<1>5. Facts'
  BY <1>1, <1>2, <1>3 DEF LoadTranscript, Inv, TypeOK, Facts, TaskFacts, TaskRec,
                          sessionVars
<1>6. ItemsMatchSummary' /\ StatusMatchesSummary'
  BY RowKept DEF LoadTranscript, Inv
<1>7. workers = 1 => \A u \in Tasks : task[u].state \notin Running
  BY NoneRunning DEF LoadTranscript
<1>8. OneAtATime' /\ LoadedIsNewer'
  BY <1>3, <1>7 DEF LoadTranscript, Inv, OneAtATime, LoadedIsNewer, Facts
<1> QED BY <1>4, <1>5, <1>6, <1>8 DEF Inv

LEMMA UpsertProcessingInv ==
    ASSUME Inv, NEW t \in Tasks, UpsertProcessing(t)
    PROVE  Inv'
<1> DEFINE r == [task[t] EXCEPT !.state = "parked"]
<1>1. /\ task[t] \in TaskRec /\ task[t].state = "loaded"
      /\ task' = [task EXCEPT ![t] = r]
  BY DEF UpsertProcessing, Inv, TypeOK, TaskRec
<1>2. /\ r \in TaskRec /\ r.state = "parked" /\ r.of = task[t].of
      /\ r.deliveries = task[t].deliveries
  BY <1>1 DEF TaskRec, Running
<1>3. \A u \in Tasks : task'[u] = IF u = t THEN r ELSE task[u]
  BY <1>1 DEF Inv, TypeOK
<1>4. /\ row' \in RowRec /\ row'.of = row.of
      /\ ItemsMatchSummary' /\ StatusMatchesSummary'
  BY StatusOnly DEF UpsertProcessing, Inv
<1>5. TypeOK'
  BY <1>1, <1>2, <1>4 DEF UpsertProcessing, Inv, TypeOK, TaskRec, RowRec, Runs,
                          sessionVars, requestVars
<1>6. Facts'
  BY <1>1, <1>2, <1>3, <1>4 DEF UpsertProcessing, Inv, Facts, TaskFacts, Running,
                                sessionVars
<1>7. OneAtATime' /\ LoadedIsNewer'
  BY <1>1, <1>2, <1>3, <1>4 DEF UpsertProcessing, Inv, OneAtATime, LoadedIsNewer, Running
<1> QED BY <1>4, <1>5, <1>6, <1>7 DEF Inv

(* A result replaces summary and items together, or clears both, or keeps    *)
(* both under a status that says so.                                         *)
LEMMA PersistLemma ==
    ASSUME Inv, NEW t \in Tasks, task[t].state = "answered", Persist(t)
    PROVE  /\ row' \in RowRec /\ items' \subseteq ItemRec
           /\ row'.of \in {row.of, task[t].of}
           /\ ItemsMatchSummary' /\ StatusMatchesSummary'
           /\ row'.status = "failed" => row'.run = row.run
           /\ row'.status # "processing"
<1>1. task[t] \in TaskRec /\ task[t].answer \in {"ok", "error", "too_short"}
  BY DEF Inv, TypeOK, Facts, TaskFacts, TaskRec, Answers
<1>2. RunOf(t) \in Runs /\ RunOf(t) # NoRun
  BY <1>1 DEF RunOf, Runs, NoRun, TaskRec, Inv, Facts, TaskFacts, Running
<1>3. CASE task[t].answer = "ok"
  <2>1. /\ row' = [status |-> "completed", run |-> RunOf(t), of |-> task[t].of,
                   error |-> FALSE]
        /\ items' = {[run |-> RunOf(t), completed |-> FALSE]}
    BY <1>3 DEF Persist, NewItems
  <2> QED
    BY <1>1, <1>2, <2>1 DEF RowRec, ItemRec, TaskRec, Statuses, ItemsMatchSummary,
                            StatusMatchesSummary
<1>4. CASE task[t].answer = "too_short"
  <2>1. /\ row' = [status |-> "too_short", run |-> NoRun, of |-> task[t].of,
                   error |-> FALSE]
        /\ items' = {}
    BY <1>4 DEF Persist
  <2> QED
    BY <1>1, <2>1 DEF RowRec, ItemRec, TaskRec, Statuses, ItemsMatchSummary,
                      StatusMatchesSummary
<1>5. CASE task[t].answer = "error"
  <2>1. /\ row' = [row EXCEPT !.status = "failed", !.error = TRUE]
        /\ UNCHANGED items
    BY <1>5 DEF Persist
  <2>2. row' = [row EXCEPT !.status = "failed", !.error = ("failed" = "failed")]
    BY <2>1
  <2>3. row' \in RowRec /\ row'.of = row.of /\ ItemsMatchSummary' /\ StatusMatchesSummary'
    BY <2>1, <2>2, StatusOnly DEF Inv
  <2>4. items' \subseteq ItemRec
    BY <2>1 DEF Inv, TypeOK, ItemRec
  <2>5. row'.run = row.run /\ row'.status = "failed"
    BY <2>1 DEF Inv, TypeOK
  <2> QED BY <2>3, <2>4, <2>5
<1> QED BY <1>1, <1>3, <1>4, <1>5

LEMMA PersistResultInv ==
    ASSUME Inv, NEW t \in Tasks, PersistResult(t)
    PROVE  Inv'
<1> DEFINE r == [task[t] EXCEPT !.state = "stored"]
<1>1. /\ task[t] \in TaskRec /\ task[t].state = "answered" /\ Persist(t)
      /\ task' = [task EXCEPT ![t] = r]
  BY DEF PersistResult, Inv, TypeOK, TaskRec
<1>2. /\ r \in TaskRec /\ r.state = "stored" /\ r.of = task[t].of
      /\ r.deliveries = task[t].deliveries /\ r.answer = task[t].answer
  BY <1>1 DEF TaskRec, Running
<1>3. \A u \in Tasks : task'[u] = IF u = t THEN r ELSE task[u]
  BY <1>1 DEF Inv, TypeOK
<1>4. /\ row' \in RowRec /\ items' \subseteq ItemRec
      /\ row'.of \in {row.of, task[t].of}
      /\ ItemsMatchSummary' /\ StatusMatchesSummary'
  BY <1>1, PersistLemma
<1>5. TypeOK'
  BY <1>1, <1>2, <1>4 DEF PersistResult, Inv, TypeOK, TaskRec, RowRec, ItemRec, Runs,
                          sessionVars, requestVars
<1>6. Facts'
  BY <1>1, <1>2, <1>3, <1>4 DEF PersistResult, Inv, Facts, TaskFacts, Running,
                                sessionVars
<1>7. OneAtATime' /\ LoadedIsNewer'
  BY <1>1, <1>2, <1>3, <1>4 DEF PersistResult, Inv, OneAtATime, LoadedIsNewer, Running
<1> QED BY <1>4, <1>5, <1>6, <1>7 DEF Inv

LEMMA SummariseInv ==
    ASSUME Inv, NEW t \in Tasks, Summarise(t)
    PROVE  Inv'
<1>1. PICK a \in {"too_short", "ok", "error"} :
        task' = [task EXCEPT ![t].state = "answered", ![t].answer = a]
  BY DEF Summarise
<1> DEFINE r == [task[t] EXCEPT !.state = "answered", !.answer = a]
<1>2. task[t] \in TaskRec /\ task[t].state = "parked"
  BY DEF Summarise, Inv, TypeOK, TaskRec
<1>3. task' = [task EXCEPT ![t] = r]
  BY <1>1 DEF Inv, TypeOK
<1>4. /\ r \in TaskRec /\ r.state = "answered" /\ r.of = task[t].of /\ r.answer = a
      /\ r.deliveries = task[t].deliveries
  BY <1>2 DEF TaskRec, Running, Answers
<1>5. task[t].deliveries >= 1
  BY <1>2 DEF Inv, Facts, TaskFacts, Running
<1> QED
  BY <1>2, <1>3, <1>4, <1>5, TaskMoves DEF Summarise, Running, Inv, TypeOK

LEMMA TaskLeaves ==
    ASSUME Inv, NEW t \in Tasks, Finish(t) \/ TaskRaises(t) \/ WorkerLost(t)
    PROVE  Inv'
<1>1. PICK st \in {"done", "raised", "queued"} :
        /\ task' = [task EXCEPT ![t].state = st]
        /\ st = "queued" => task[t].deliveries < MaxDeliveries
  BY DEF Finish, TaskRaises, WorkerLost
<1> DEFINE r == [task[t] EXCEPT !.state = st]
<1>2. task[t] \in TaskRec
  BY DEF Inv, TypeOK, TaskRec
<1>3. task' = [task EXCEPT ![t] = r]
  BY <1>1 DEF Inv, TypeOK
<1>4. /\ r \in TaskRec /\ r.state = st /\ r.of = task[t].of
      /\ r.deliveries = task[t].deliveries
  BY <1>2 DEF TaskRec, Settled
<1>5. embeds' \in Nat /\ UNCHANGED <<workers, sessionVars, row, items, lost, requestVars>>
  BY DEF Finish, TaskRaises, WorkerLost, Inv, TypeOK
<1> QED
  BY <1>1, <1>3, <1>4, <1>5, TaskMoves DEF Running

LEMMA StutterInv ==
    ASSUME Inv, UNCHANGED vars
    PROVE  Inv'
BY TranscriptGrows DEF Inv, TypeOK, Facts, vars, sessionVars, requestVars

LEMMA NextInv ==
    ASSUME Inv, [Next]_vars
    PROVE  Inv'
<1>1. ASSUME NEW s \in Sessions,
             SessionStarts(s) \/ PersistSegment(s) \/ SessionEnds(s) \/ SessionParks(s)
      PROVE  Inv'
  BY <1>1, SessionSteps, SessionParksInv
<1>2. CASE RegenerateFlush \/ RegenerateDispatch \/ RegenerateCommit
  BY <1>2, RegenerateSteps, RegenerateCommitInv
<1>3. ASSUME NEW i \in items, PatchItem(i) PROVE Inv'
  BY <1>3, PatchItemInv
<1>4. ASSUME NEW t \in Tasks, TaskStep(t) PROVE Inv'
  BY <1>4, LoadTranscriptInv, UpsertProcessingInv, SummariseInv, PersistResultInv,
     TaskLeaves DEF TaskStep
<1>5. ASSUME NEW t \in Tasks, TaskRaises(t) \/ WorkerLost(t) PROVE Inv'
  BY <1>5, TaskLeaves
<1>6. CASE UNCHANGED vars
  BY <1>6, StutterInv
<1> QED BY <1>1, <1>2, <1>3, <1>4, <1>5, <1>6 DEF Next

-----------------------------------------------------------------------------
(* The summary pipeline keeps its inductive invariant, for every bound and   *)
(* every set of faults.                                                      *)
THEOREM PipelineInvariant == Spec => []Inv
<1>1. Inv /\ [Next]_vars => Inv'
  BY NextInv
<1> QED BY InitInv, <1>1, PTL DEF Spec

(* Sessions, tasks, the summary row and its items keep their types.          *)
THEOREM TypeCorrect == Spec => []TypeOK
<1>1. Inv => TypeOK
  BY DEF Inv
<1> QED BY PipelineInvariant, <1>1, PTL

(* The action items shown are always those of the summary shown above them.  *)
THEOREM ItemsAlwaysMatch == Spec => []ItemsMatchSummary
<1>1. Inv => ItemsMatchSummary
  BY DEF Inv
<1> QED BY PipelineInvariant, <1>1, PTL

(* A status never claims a summary that is not there, nor hides one.         *)
THEOREM StatusAlwaysTrue == Spec => []StatusMatchesSummary
<1>1. Inv => StatusMatchesSummary
  BY DEF Inv
<1> QED BY PipelineInvariant, <1>1, PTL

-----------------------------------------------------------------------------
(* The row's payload is written by the result transaction only.              *)
LEMMA PayloadWriters ==
    ASSUME Inv, [Next]_vars
    PROVE  \/ row'.run = row.run /\ row'.of = row.of
           \/ \E t \in Tasks : PersistResult(t)
<1>1. ASSUME NEW s \in Sessions,
             SessionStarts(s) \/ PersistSegment(s) \/ SessionEnds(s) \/ SessionParks(s)
      PROVE  row'.run = row.run /\ row'.of = row.of
  BY <1>1 DEF SessionStarts, PersistSegment, SessionEnds, SessionParks, Inv, TypeOK
<1>2. ASSUME RegenerateFlush \/ RegenerateDispatch \/ RegenerateCommit
      PROVE  row'.run = row.run /\ row'.of = row.of
  BY <1>2 DEF RegenerateFlush, RegenerateDispatch, RegenerateCommit, Inv, TypeOK
<1>3. ASSUME NEW i \in items, PatchItem(i) PROVE UNCHANGED row
  BY <1>3 DEF PatchItem
<1>4. ASSUME NEW t \in Tasks,
             LoadTranscript(t) \/ UpsertProcessing(t) \/ Summarise(t) \/ Finish(t)
             \/ TaskRaises(t) \/ WorkerLost(t)
      PROVE  row'.run = row.run /\ row'.of = row.of
  BY <1>4 DEF LoadTranscript, UpsertProcessing, Summarise, Finish, TaskRaises,
              WorkerLost, Inv, TypeOK
<1>5. CASE UNCHANGED vars
  BY <1>5 DEF vars
<1> QED BY <1>1, <1>2, <1>3, <1>4, <1>5 DEF Next, TaskStep

(* While an attempt runs, and after it failed, the summary before it stays.  *)
THEOREM PreviousSummaryStays == Spec => PreviousSummaryKept
<1>1. ASSUME Inv, [Next]_vars, row'.status \in {"processing", "failed"}
      PROVE  row'.run = row.run
  BY <1>1, PayloadWriters, PersistLemma DEF PersistResult
<1>2. Inv /\ [Next]_vars =>
        [row'.status \in {"processing", "failed"} => row'.run = row.run]_vars
  BY <1>1
<1> QED BY PipelineInvariant, <1>2, PTL DEF Spec, PreviousSummaryKept

(* With one worker a stored summary never gives way to one of an older       *)
(* transcript, redeliveries and regenerations included.                      *)
THEOREM SummaryNeverOlder == Spec => NeverOlder
<1>1. ASSUME Inv, [Next]_vars, workers = 1
      PROVE  row'.of >= row.of
  <2>1. row.of \in Nat /\ \A t \in Tasks : task[t].of \in Nat
    BY <1>1, PipelineAssumption DEF Inv, TypeOK
  <2>2. ASSUME NEW t \in Tasks, PersistResult(t) PROVE row'.of >= row.of
    <3>1. task[t].state = "answered" /\ row'.of \in {row.of, task[t].of}
      BY <1>1, <2>2, PersistLemma DEF PersistResult
    <3>2. row.of <= task[t].of
      BY <1>1, <3>1 DEF Inv, LoadedIsNewer, Running
    <3> QED BY <2>1, <3>1, <3>2
  <2> QED BY <1>1, <2>1, <2>2, PayloadWriters
<1>2. Inv /\ [Next]_vars =>
        [(workers = 1 /\ row'.run # NoRun /\ row.run # NoRun) => row'.of >= row.of]_vars
  BY <1>1
<1> QED BY PipelineInvariant, <1>2, PTL DEF Spec, NeverOlder

-----------------------------------------------------------------------------
(* A step that leaves the number of deliveries of every task alone, and      *)
(* whether its attempt is open, leaves the reader's attempts alone.          *)
LEMMA AttemptsKept ==
    ASSUME \A t \in Tasks :
               /\ task'[t].deliveries = task[t].deliveries
               /\ task'[t].of = task[t].of
               /\ task'[t].state \in Unsaved <=> task[t].state \in Unsaved
    PROVE  Begun' = Begun /\ Open' = Open
<1>1. Begun' = Begun
  <2>1. \A r \in Runs : r[1] \in Tasks
    BY DEF Runs
  <2> QED BY <2>1 DEF Begun
<1>2. Open' = Open
  BY DEF Open, RunOf
<1> QED BY <1>1, <1>2

(* An attempt that ends is no longer open, and the others are as they were.  *)
LEMMA AttemptEnds ==
    ASSUME TypeOK, NEW t \in Tasks, NEW r \in TaskRec,
           task[t].state \in Unsaved, r.state \notin Unsaved,
           r.deliveries = task[t].deliveries,
           task' = [task EXCEPT ![t] = r]
    PROVE  LET a == [run |-> RunOf(t), of |-> task[t].of]
           IN  Begun' = Begun /\ a \in Open /\ Open' = Open \ {a}
<1> DEFINE a == [run |-> RunOf(t), of |-> task[t].of]
<1>1. \A u \in Tasks : task'[u] = IF u = t THEN r ELSE task[u]
  BY DEF TypeOK
<1>2. Begun' = Begun
  <2>1. \A q \in Runs : q[1] \in Tasks
    BY DEF Runs
  <2> QED BY <1>1, <2>1 DEF Begun
<1>3. a \in Open
  BY DEF Open
<1>4. \A u \in Tasks : u # t => [run |-> RunOf(u), of |-> task[u].of] # a
  BY DEF RunOf
<1>5. \A u \in Tasks : u # t => task'[u] = task[u] /\ RunOf(u)' = RunOf(u)
  BY <1>1 DEF RunOf
<1>6. task'[t].state \notin Unsaved
  BY <1>1
<1>7. \A b : b \in Open' <=>
           \E u \in Tasks : u # t /\ task[u].state \in Unsaved
                             /\ b = [run |-> RunOf(u), of |-> task[u].of]
  BY <1>5, <1>6 DEF Open
<1>8. \A b : b \in Open' <=> b \in Open /\ b # a
  BY <1>4, <1>7 DEF Open
<1> QED BY <1>2, <1>3, <1>8

(* A delivery begins one attempt, which none began before.                   *)
LEMMA AttemptBegins ==
    ASSUME Inv, NEW t \in Tasks, LoadTranscript(t)
    PROVE  \E r \in Runs : Card!Begin(r)
<1> DEFINE n == task[t].deliveries + 1
           r == <<t, n>>
           new == [run |-> r, of |-> segments]
<1>1. /\ task[t].state = "queued" /\ task[t].deliveries \in 0..MaxDeliveries
      /\ task[t].deliveries < MaxDeliveries
      /\ \A u \in Tasks : task[u].deliveries \in 0..MaxDeliveries
  BY DEF LoadTranscript, Inv, TypeOK, Facts, TaskFacts
<1>2. n \in 1..MaxDeliveries /\ r \in Runs
  BY <1>1, PipelineAssumption DEF Runs
<1>3. \A u \in Tasks : task'[u] = IF u = t
          THEN [state |-> "loaded", of |-> segments, deliveries |-> n, answer |-> "none"]
          ELSE task[u]
  BY DEF LoadTranscript, Inv, TypeOK
<1>4. r \notin Begun /\ Begun' = Begun \cup {r}
  <2>1. r \notin Begun
    BY <1>1 DEF Begun
  <2>2. ASSUME NEW q \in Runs PROVE q \in Begun' <=> q \in Begun \/ q = r
    <3>1. q[1] \in Tasks /\ q[2] \in 1..MaxDeliveries /\ q = <<q[1], q[2]>>
      BY <2>2 DEF Runs
    <3>2. CASE q[1] # t
      BY <1>3, <2>2, <3>1, <3>2 DEF Begun
    <3>3. CASE q[1] = t
      <4>1. q \in Begun' <=> q[2] <= n
        BY <1>3, <2>2, <3>1, <3>3 DEF Begun
      <4>2. q \in Begun <=> q[2] <= task[t].deliveries
        BY <2>2, <3>3 DEF Begun
      <4>3. q = r <=> q[2] = n
        BY <3>1, <3>3
      <4> QED BY <1>1, <1>2, <3>1, <4>1, <4>2, <4>3
    <3> QED BY <3>2, <3>3
  <2>3. Begun \subseteq Runs /\ Begun' \subseteq Runs
    BY DEF Begun, Runs
  <2> QED BY <1>2, <2>1, <2>2, <2>3
<1>5. Open' = Open \cup {new}
  <2>1. "queued" \notin Unsaved /\ "loaded" \in Unsaved
    BY DEF Unsaved, Running
  <2>2. RunOf(t)' = r /\ task'[t].of = segments /\ task'[t].state = "loaded"
    BY <1>3 DEF RunOf
  <2>3. \A u \in Tasks : u # t => task'[u] = task[u] /\ RunOf(u)' = RunOf(u)
    BY <1>3 DEF RunOf
  <2>4. \A b : b \in Open' <=>
          \/ b = new
          \/ \E u \in Tasks : u # t /\ task[u].state \in Unsaved
                              /\ b = [run |-> RunOf(u), of |-> task[u].of]
    BY <2>1, <2>2, <2>3 DEF Open
  <2>5. \A b : b \in Open' <=> b = new \/ b \in Open
    BY <1>1, <2>1, <2>4 DEF Open
  <2> QED BY <2>5
<1>6. UNCHANGED <<row, items, segments>>
  BY DEF LoadTranscript, sessionVars
<1> QED BY <1>2, <1>4, <1>5, <1>6 DEF Card!Begin

LEMMA ResultIsShown ==
    ASSUME Inv, NEW t \in Tasks, PersistResult(t)
    PROVE  Card!CardNext
<1> DEFINE a == [run |-> RunOf(t), of |-> task[t].of]
           r == [task[t] EXCEPT !.state = "stored"]
<1>1. /\ task[t] \in TaskRec /\ task[t].state = "answered"
      /\ task' = [task EXCEPT ![t] = r]
      /\ segments' = segments
  BY DEF PersistResult, Inv, TypeOK, TaskRec, sessionVars
<1>2. r \in TaskRec /\ r.state = "stored" /\ r.deliveries = task[t].deliveries
  BY <1>1 DEF TaskRec, Running
<1>3. Begun' = Begun /\ a \in Open /\ Open' = Open \ {a}
  BY <1>1, <1>2, AttemptEnds DEF Inv, Unsaved, Running
<1>4. task[t].answer \in {"ok", "error", "too_short"}
  BY <1>1 DEF Inv, Facts, TaskFacts, TaskRec, Answers
<1>5. Persist(t)
  BY DEF PersistResult
<1>6. CASE task[t].answer = "ok"
  <2>1. /\ row' = [status |-> "completed", run |-> RunOf(t), of |-> task[t].of,
                   error |-> FALSE]
        /\ items' = {[run |-> RunOf(t), completed |-> FALSE]}
    BY <1>5, <1>6 DEF Persist, NewItems
  <2>2. Card!Replace(a)
    BY <1>1, <1>3, <2>1 DEF Card!Replace
  <2> QED BY <1>3, <2>2 DEF Card!CardNext
<1>7. CASE task[t].answer = "too_short"
  <2>1. /\ row' = [status |-> "too_short", run |-> NoRun, of |-> task[t].of,
                   error |-> FALSE]
        /\ items' = {}
    BY <1>5, <1>7 DEF Persist
  <2>2. Card!Clear(a)
    BY <1>1, <1>3, <2>1 DEF Card!Clear
  <2> QED BY <1>3, <2>2 DEF Card!CardNext
<1>8. CASE task[t].answer = "error"
  <2>1. row' = [row EXCEPT !.status = "failed", !.error = TRUE] /\ UNCHANGED items
    BY <1>5, <1>8 DEF Persist
  <2>2. Card!Fail
    BY <1>1, <1>3, <2>1 DEF Card!Fail
  <2> QED BY <2>2 DEF Card!CardNext
<1> QED BY <1>4, <1>6, <1>7, <1>8

(* A task moves on, or its attempt is abandoned.                             *)
LEMMA TaskOnCard ==
    ASSUME Inv, NEW t \in Tasks,
           UpsertProcessing(t) \/ Summarise(t) \/ Finish(t) \/ TaskRaises(t)
               \/ WorkerLost(t)
    PROVE  [Card!CardNext]_(Card!cardVars)
<1> DEFINE a == [run |-> RunOf(t), of |-> task[t].of]
<1>1. task[t] \in TaskRec
  BY DEF Inv, TypeOK, TaskRec
<1>2. \A r : task' = [task EXCEPT ![t] = r] =>
          \A u \in Tasks : task'[u] = IF u = t THEN r ELSE task[u]
  BY DEF Inv, TypeOK
<1>3. CASE UpsertProcessing(t)
  <2>1. task' = [task EXCEPT ![t] = [task[t] EXCEPT !.state = "parked"]]
        /\ task[t].state = "loaded"
    BY <1>3 DEF UpsertProcessing
  <2>2. Begun' = Begun /\ Open' = Open
    BY <1>1, <1>2, <2>1, AttemptsKept DEF Unsaved, Running, TaskRec
  <2>3. Card!Announce
    BY <1>3, <2>2 DEF UpsertProcessing, Card!Announce, sessionVars
  <2> QED BY <2>3 DEF Card!CardNext
<1>4. CASE Summarise(t)
  <2>1. PICK b : /\ task' = [task EXCEPT ![t].state = "answered", ![t].answer = b]
                 /\ task[t].state = "parked"
    BY <1>4 DEF Summarise
  <2>2. task' = [task EXCEPT ![t] = [task[t] EXCEPT !.state = "answered", !.answer = b]]
    BY <2>1 DEF Inv, TypeOK
  <2> DEFINE r == [task[t] EXCEPT !.state = "answered", !.answer = b]
  <2>3. /\ r.state = "answered" /\ r.of = task[t].of
        /\ r.deliveries = task[t].deliveries
    BY <1>1 DEF TaskRec
  <2>4. \A u \in Tasks : task'[u] = IF u = t THEN r ELSE task[u]
    BY <1>2, <2>2
  <2> HIDE DEF r
  <2>5. Begun' = Begun /\ Open' = Open
    BY <2>1, <2>3, <2>4, AttemptsKept DEF Unsaved, Running
  <2> QED BY <1>4, <2>5 DEF Summarise, Card!cardVars, sessionVars
<1>5. CASE Finish(t)
  <2>1. task' = [task EXCEPT ![t] = [task[t] EXCEPT !.state = "done"]]
        /\ task[t].state = "stored"
    BY <1>5 DEF Finish
  <2>2. Begun' = Begun /\ Open' = Open
    BY <1>1, <1>2, <2>1, AttemptsKept DEF Unsaved, Running, TaskRec
  <2> QED BY <1>5, <2>2 DEF Finish, Card!cardVars, sessionVars
<1>6. CASE TaskRaises(t) \/ WorkerLost(t)
  <2>1. PICK q \in {"raised", "queued"} :
           /\ task' = [task EXCEPT ![t] = [task[t] EXCEPT !.state = q]]
           /\ task[t].state \in Running
    BY <1>6 DEF TaskRaises, WorkerLost, Running
  <2>2. UNCHANGED <<row, items, segments>>
    BY <1>6 DEF TaskRaises, WorkerLost, sessionVars
  <2> DEFINE r == [task[t] EXCEPT !.state = q]
  <2>3. /\ r \in TaskRec /\ r.state = q /\ r.deliveries = task[t].deliveries
        /\ r.of = task[t].of
    BY <1>1 DEF TaskRec, Settled
  <2>4. q \notin Unsaved
    BY DEF Unsaved, Running
  <2>5. CASE task[t].state = "stored"
    <3>1. Begun' = Begun /\ Open' = Open
      BY <1>2, <2>1, <2>3, <2>4, <2>5, AttemptsKept DEF Unsaved
    <3> QED BY <2>2, <3>1 DEF Card!cardVars
  <2>6. CASE task[t].state # "stored"
    <3>1. Begun' = Begun /\ a \in Open /\ Open' = Open \ {a}
      BY <2>1, <2>3, <2>4, <2>6, AttemptEnds DEF Unsaved, Inv
    <3>2. Card!Abandon(a)
      BY <2>2, <3>1 DEF Card!Abandon
    <3> QED BY <3>1, <3>2 DEF Card!CardNext
  <2> QED BY <2>5, <2>6
<1> QED BY <1>3, <1>4, <1>5, <1>6

(* A dispatch is no attempt yet.                                             *)
LEMMA DispatchOnCard ==
    ASSUME TypeOK, Dispatch \/ UNCHANGED task
    PROVE  Begun' = Begun /\ Open' = Open
<1>1. CASE UNCHANGED task
  BY <1>1, AttemptsKept
<1>2. CASE ~UNCHANGED task
  <2>1. PICK t \in Tasks : /\ task[t].state = "none"
                           /\ task' = [task EXCEPT ![t].state = "queued"]
    BY <1>2 DEF Dispatch
  <2>2. task[t] \in TaskRec
    BY DEF TypeOK, TaskRec
  <2>3. \A u \in Tasks :
           task'[u] = IF u = t THEN [task[t] EXCEPT !.state = "queued"] ELSE task[u]
    BY <2>1 DEF TypeOK
  <2> QED BY <2>1, <2>2, <2>3, AttemptsKept DEF Unsaved, Running, TaskRec
<1> QED BY <1>1, <1>2

(* Every step of the pipeline is a step of the card or invisible to readers. *)
LEMMA StepOnCard ==
    ASSUME Inv, [Next]_vars
    PROVE  [Card!CardNext]_(Card!cardVars)
<1>1. ASSUME NEW s \in Sessions, SessionStarts(s) \/ SessionEnds(s)
      PROVE  UNCHANGED Card!cardVars
  <2>1. Begun' = Begun /\ Open' = Open
    BY <1>1, DispatchOnCard DEF Inv, SessionStarts, SessionEnds
  <2> QED BY <1>1, <2>1 DEF SessionStarts, SessionEnds, Card!cardVars
<1>2. ASSUME NEW s \in Sessions, PersistSegment(s) PROVE Card!Grow
  <2>1. Begun' = Begun /\ Open' = Open
    BY <1>2, DispatchOnCard DEF Inv, PersistSegment
  <2> QED BY <1>2, <2>1 DEF PersistSegment, Card!Grow
<1>3. ASSUME NEW s \in Sessions, SessionParks(s) PROVE Card!Fail
  <2>1. Begun' = Begun /\ Open' = Open
    BY <1>3, DispatchOnCard DEF Inv, SessionParks
  <2> QED BY <1>3, <2>1 DEF SessionParks, Card!Fail
<1>4. CASE RegenerateFlush \/ RegenerateDispatch
  <2>1. Begun' = Begun /\ Open' = Open
    BY <1>4, DispatchOnCard DEF Inv, RegenerateFlush, RegenerateDispatch
  <2> QED BY <1>4, <2>1 DEF RegenerateFlush, RegenerateDispatch, Card!cardVars, sessionVars
<1>5. CASE RegenerateCommit
  <2>1. Begun' = Begun /\ Open' = Open
    BY <1>5, DispatchOnCard DEF Inv, RegenerateCommit
  <2>2. CASE locked
    BY <1>5, <2>1, <2>2 DEF RegenerateCommit, Card!Announce, Card!CardNext, sessionVars
  <2>3. CASE ~locked
    BY <1>5, <2>1, <2>3 DEF RegenerateCommit, Card!cardVars, sessionVars
  <2> QED BY <2>2, <2>3
<1>6. ASSUME NEW i \in items, PatchItem(i) PROVE Card!Tick(i)
  <2>1. Begun' = Begun /\ Open' = Open
    BY <1>6, DispatchOnCard DEF Inv, PatchItem
  <2> QED BY <1>6, <2>1 DEF PatchItem, Card!Tick, sessionVars
<1>7. ASSUME NEW t \in Tasks, TaskStep(t) \/ TaskRaises(t) \/ WorkerLost(t)
      PROVE  [Card!CardNext]_(Card!cardVars)
  BY <1>7, AttemptBegins, ResultIsShown, TaskOnCard DEF TaskStep, Card!CardNext
<1>8. CASE UNCHANGED vars
  <2>1. Begun' = Begun /\ Open' = Open
    BY <1>8, DispatchOnCard DEF vars, Inv
  <2> QED BY <1>8, <2>1 DEF vars, sessionVars, Card!cardVars
<1> QED BY <1>1, <1>2, <1>3, <1>4, <1>5, <1>6, <1>7, <1>8 DEF Next, Card!CardNext

(* The pipeline gives its reader a summary that only attempts replace, each  *)
(* at most once and with its own items, for every number of sessions, tasks, *)
(* deliveries and workers and every set of faults.                           *)
THEOREM PipelineImplementsCard == Spec => ImplementsCard
<1>1. Init => Card!CardInit
  <2> SUFFICES ASSUME Init PROVE Card!CardInit
    OBVIOUS
  <2>1. Begun = {}
    BY DEF Init, Begun, Runs
  <2>2. Open = {}
    BY DEF Init, Open, Unsaved, Running
  <2> QED BY <2>1, <2>2 DEF Init, Card!CardInit
<1>2. Inv /\ [Next]_vars => [Card!CardNext]_(Card!cardVars)
  BY StepOnCard
<1> QED BY PipelineInvariant, <1>1, <1>2, PTL DEF Spec, ImplementsCard, Card!CardSpec

-----------------------------------------------------------------------------
(* What a row that says "processing" waits for: a task that has not stored   *)
(* its result.  A regenerate request that holds the row has dispatched one   *)
(* that cannot get as far as the row before the request commits.             *)
TaskAhead(states) == lost \/ \E t \in Tasks : task[t].state \in states

Early  == {"queued", "loaded", "raised"}
Unsure == Early \cup {"parked", "answered"}

ProcessingHasTask == row.status = "processing" => TaskAhead(Unsure)

RequestHasTask ==
    /\ locked => request # "none"
    /\ locked /\ request = "dispatched" => TaskAhead(Early)

InvTask == Inv /\ ProcessingHasTask /\ RequestHasTask

(* A task stays ahead if no task leaves the states that count, except the   *)
(* one that has just written the row.                                       *)
LEMMA TaskStaysAhead ==
    ASSUME NEW states, TaskAhead(states), lost => lost',
           \A t \in Tasks : task[t].state \in states => task'[t].state \in states
    PROVE  TaskAhead(states)'
BY DEF TaskAhead

LEMMA DispatchIsAhead ==
    ASSUME TypeOK, Dispatch, NEW states, "queued" \in states, "none" \notin states
    PROVE  TaskAhead(states)'
<1>1. CASE lost'
  BY <1>1 DEF TaskAhead
<1>2. CASE ~lost'
  <2>1. PICK t \in Tasks : task' = [task EXCEPT ![t].state = "queued"]
    BY <1>2 DEF Dispatch
  <2>2. task'[t].state = "queued"
    BY <2>1 DEF TypeOK
  <2> QED BY <2>2 DEF TaskAhead
<1> QED BY <1>1, <1>2

LEMMA TaskMovesAhead ==
    ASSUME InvTask, NEW t \in Tasks,
           LoadTranscript(t) \/ Summarise(t) \/ Finish(t) \/ TaskRaises(t)
               \/ WorkerLost(t)
    PROVE  ProcessingHasTask' /\ RequestHasTask'
<1>1. PICK q \in Early \cup {"answered", "done"} :
         /\ task'[t].state = q
         /\ task[t].state \in Early => q \in Early
         /\ task[t].state \in Unsure => q \in Unsure
  <2>1. CASE LoadTranscript(t)
    BY <2>1 DEF LoadTranscript, InvTask, Inv, TypeOK, Early, Unsure
  <2>2. CASE Summarise(t)
    <3>1. PICK a : task' = [task EXCEPT ![t].state = "answered", ![t].answer = a]
      BY <2>2 DEF Summarise
    <3> DEFINE r == [task[t] EXCEPT !.state = "answered", !.answer = a]
    <3>2. task' = [task EXCEPT ![t] = r]
      BY <3>1
    <3>3. task[t].state = "parked"
      BY <2>2 DEF Summarise
    <3>4. task \in [Tasks -> TaskRec]
      BY DEF InvTask, Inv, TypeOK, TaskRec
    <3>5. r.state = "answered"
      <4>1. task[t] \in TaskRec
        BY <3>4
      <4> QED BY <4>1 DEF TaskRec
    <3> HIDE DEF r
    <3>6. task'[t] = r
      BY <3>2, <3>4
    <3> QED BY <3>3, <3>5, <3>6 DEF Early, Unsure
  <2>3. CASE Finish(t)
    BY <2>3 DEF Finish, InvTask, Inv, TypeOK, Early, Unsure
  <2>4. CASE TaskRaises(t)
    BY <2>4 DEF TaskRaises, InvTask, Inv, TypeOK, Early, Unsure
  <2>5. CASE WorkerLost(t)
    BY <2>5 DEF WorkerLost, InvTask, Inv, TypeOK, Early, Unsure
  <2> QED BY <2>1, <2>2, <2>3, <2>4, <2>5
<1>2. \A u \in Tasks : u # t => task'[u] = task[u]
  BY DEF LoadTranscript, Summarise, Finish, TaskRaises, WorkerLost, InvTask, Inv, TypeOK
<1>3. UNCHANGED <<row, lost, request, locked>>
  BY DEF LoadTranscript, Summarise, Finish, TaskRaises, WorkerLost, requestVars
<1>4. TaskAhead(Early) => TaskAhead(Early)'
  BY <1>1, <1>2, <1>3, TaskStaysAhead
<1>5. TaskAhead(Unsure) => TaskAhead(Unsure)'
  BY <1>1, <1>2, <1>3, TaskStaysAhead
<1> QED BY <1>3, <1>4, <1>5 DEF InvTask, ProcessingHasTask, RequestHasTask

(* The two writers of the row among the steps of a task, which both wait for *)
(* the row's lock.                                                           *)
LEMMA RowWritersAhead ==
    ASSUME InvTask, NEW t \in Tasks, UpsertProcessing(t) \/ PersistResult(t)
    PROVE  ProcessingHasTask' /\ RequestHasTask'
<1>1. ~locked' /\ lost' = lost
  BY DEF UpsertProcessing, PersistResult, requestVars
<1>2. CASE UpsertProcessing(t)
  <2>1. task'[t].state = "parked"
    BY <1>2 DEF UpsertProcessing, InvTask, Inv, TypeOK
  <2> QED BY <1>1, <2>1 DEF ProcessingHasTask, RequestHasTask, TaskAhead, Unsure
<1>3. CASE PersistResult(t)
  <2>1. row'.status # "processing"
    BY <1>3, PersistLemma DEF PersistResult, InvTask
  <2> QED BY <1>1, <2>1 DEF ProcessingHasTask, RequestHasTask
<1> QED BY <1>2, <1>3

LEMMA RequestsAhead ==
    ASSUME InvTask, RegenerateFlush \/ RegenerateDispatch \/ RegenerateCommit
    PROVE  ProcessingHasTask' /\ RequestHasTask'
<1>1. CASE RegenerateFlush
  BY <1>1 DEF RegenerateFlush, InvTask, ProcessingHasTask, RequestHasTask, TaskAhead
<1>2. CASE RegenerateDispatch
  <2>1. TaskAhead(Early)' /\ TaskAhead(Unsure)'
    BY <1>2, DispatchIsAhead DEF RegenerateDispatch, InvTask, Inv, Early, Unsure
  <2> QED BY <1>2, <2>1 DEF RegenerateDispatch, ProcessingHasTask, RequestHasTask
<1>3. CASE RegenerateCommit
  <2>1. ~locked' /\ UNCHANGED <<task, lost>>
    BY <1>3 DEF RegenerateCommit
  <2>2. CASE locked
    BY <1>3, <2>1, <2>2
       DEF RegenerateCommit, InvTask, ProcessingHasTask, RequestHasTask, TaskAhead, Unsure
  <2>3. CASE ~locked
    BY <1>3, <2>1, <2>3
       DEF RegenerateCommit, InvTask, ProcessingHasTask, RequestHasTask, TaskAhead
  <2> QED BY <2>2, <2>3
<1> QED BY <1>1, <1>2, <1>3

LEMMA InvTaskStep == InvTask /\ [Next]_vars => InvTask'
<1> SUFFICES ASSUME InvTask, [Next]_vars PROVE InvTask'
  OBVIOUS
<1>1. Inv'
  BY NextInv DEF InvTask
<1>2. ASSUME NEW s \in Sessions, SessionStarts(s) \/ PersistSegment(s)
      PROVE  ProcessingHasTask' /\ RequestHasTask'
  BY <1>2 DEF SessionStarts, PersistSegment, requestVars, InvTask, ProcessingHasTask,
              RequestHasTask, TaskAhead
<1>3. ASSUME NEW s \in Sessions, SessionEnds(s)
      PROVE  ProcessingHasTask' /\ RequestHasTask'
  <2>1. TaskAhead(Early)' /\ TaskAhead(Unsure)'
    BY <1>3, DispatchIsAhead DEF SessionEnds, InvTask, Inv, Early, Unsure
  <2> QED BY <1>3, <2>1
          DEF SessionEnds, requestVars, InvTask, ProcessingHasTask, RequestHasTask
<1>4. ASSUME NEW s \in Sessions, SessionParks(s)
      PROVE  ProcessingHasTask' /\ RequestHasTask'
  BY <1>4 DEF SessionParks, requestVars, InvTask, Inv, TypeOK, ProcessingHasTask,
              RequestHasTask, TaskAhead
<1>5. ASSUME NEW i \in items, PatchItem(i)
      PROVE  ProcessingHasTask' /\ RequestHasTask'
  BY <1>5 DEF PatchItem, requestVars, InvTask, ProcessingHasTask, RequestHasTask, TaskAhead
<1>6. ASSUME UNCHANGED vars PROVE ProcessingHasTask' /\ RequestHasTask'
  BY <1>6 DEF vars, requestVars, InvTask, ProcessingHasTask, RequestHasTask, TaskAhead
<1>7. ProcessingHasTask' /\ RequestHasTask'
  BY <1>2, <1>3, <1>4, <1>5, <1>6, TaskMovesAhead, RowWritersAhead, RequestsAhead
     DEF Next, TaskStep
<1> QED BY <1>1, <1>7 DEF InvTask

(* A row that says "processing" is never abandoned: there is a task whose    *)
(* result is to come, one that has raised, or a dispatch that was lost.      *)
(* ProcessingResolves adds, under fairness, that the result does come.       *)
THEOREM ProcessingIsNotAbandoned == Spec => []ProcessingHasTask
<1>1. Init => InvTask
  BY InitInv DEF Init, InvTask, ProcessingHasTask, RequestHasTask
<1>2. InvTask => ProcessingHasTask
  BY DEF InvTask
<1> QED BY <1>1, <1>2, InvTaskStep, PTL DEF Spec

=============================================================================
