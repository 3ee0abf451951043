---------------------------- MODULE SummaryPipeline ----------------------------
(***************************************************************************)
(* The summary of one meeting, from the end of its transcript sessions to  *)
(* a terminal row in meeting_summaries: the Celery task                    *)
(* worker/tasks/summarise.py, what the WebSocket handler does at session   *)
(* end (api/transcript.py) and POST /meetings/:id/summarise                *)
(* (api/meetings.py), all under backend/src/meeting_intelligence.          *)
(*                                                                         *)
(* Segments are counted, not represented: the transcript a task loads is   *)
(* the number of final segments stored at that moment.  A delivery of task *)
(* t is identified by <<t, n>>, n counting the deliveries of t.  Every     *)
(* action is one transaction, one broker call or one LLM call; tasks run   *)
(* concurrently with each other, with live sessions and with the API.      *)
(***************************************************************************)
EXTENDS Integers, FiniteSets

CONSTANTS
    Sessions,      \* transcript sessions of the meeting (reconnects)
    MaxSegments,   \* bound: final segments stored for the meeting
    TooShort,      \* transcripts of fewer segments are too short
    Tasks,         \* bound: summarise tasks ever dispatched
    MaxDeliveries, \* bound: deliveries of one task
    MaxWorkers,    \* bound: size of the worker pool
    Faults         \* what may go wrong outside this code

FaultKinds ==
    {"stt",      \* the speech-to-text provider fails a session
     "db",       \* a transaction of a task fails
     "llm",      \* the LLM call raises
     "broker",   \* a dispatch fails
     "crash"}    \* a worker process is lost

ASSUME PipelineAssumption ==
    /\ MaxSegments \in Nat
    /\ TooShort \in Nat
    /\ MaxDeliveries \in Nat \ {0}
    /\ MaxWorkers \in Nat \ {0}
    /\ IsFiniteSet(Tasks)
    /\ Faults \subseteq FaultKinds

VARIABLES
    workers,    \* tasks the Celery workers run at the same time
    session,    \* per session: "none", "live" or "ended"
    finals,     \* per session: its final_line_count
    segments,   \* rows of transcript_segments
    row,        \* the meeting_summaries row of the meeting
    items,      \* its action_items: the run that inserted each, and its tick
    task,       \* per task: state, deliveries, transcript loaded, answer
    embeds,     \* number of embed_meeting_segments tasks dispatched
    lost,       \* the dispatch of a summarise task has failed
    request,    \* where POST /summarise is
    locked      \* its open transaction holds the row

sessionVars == <<session, finals, segments>>
requestVars == <<request, locked>>
vars == <<workers, sessionVars, row, items, task, embeds, lost, requestVars>>

NoRun    == <<>>
Statuses == {"pending", "processing", "completed", "too_short", "failed"}
Terminal == {"completed", "too_short", "failed"}
Running  == {"loaded", "parked", "answered", "stored"}
Settled  == {"none", "done", "raised"}
Answers  == {"none", "ok", "error", "too_short"}

RunOf(t) == <<t, task[t].deliveries>>

-----------------------------------------------------------------------------
(* No row yet: the API reports it as "pending".  A row's run is the one     *)
(* whose payload it shows and "of" the transcript that run had loaded.      *)
Init ==
    /\ workers \in 1..MaxWorkers
    /\ session = [s \in Sessions |-> "none"]
    /\ finals = [s \in Sessions |-> 0]
    /\ segments = 0
    /\ row = [status |-> "pending", run |-> NoRun, of |-> 0, error |-> FALSE]
    /\ items = {}
    /\ task = [t \in Tasks |-> [state |-> "none", deliveries |-> 0, of |-> 0,
                                answer |-> "none"]]
    /\ embeds = 0 /\ lost = FALSE
    /\ request = "none" /\ locked = FALSE

(* summarise_meeting.delay(): queued, or a broker error that is only logged.*)
Dispatch ==
    \/ \E t \in Tasks :
        /\ task[t].state = "none"
        /\ task' = [task EXCEPT ![t].state = "queued"]
        /\ UNCHANGED lost
    \/ "broker" \in Faults /\ lost' = TRUE /\ UNCHANGED task

-----------------------------------------------------------------------------
(* The sessions.  A client that reconnects opens another session for the    *)
(* same meeting; the server may still be winding down the one before.       *)

SessionStarts(s) ==
    /\ session[s] = "none"
    /\ session' = [session EXCEPT ![s] = "live"]
    /\ UNCHANGED <<workers, finals, segments, row, items, task, embeds, lost,
                   requestVars>>

PersistSegment(s) ==
    /\ session[s] = "live" /\ segments < MaxSegments
    /\ finals' = [finals EXCEPT ![s] = @ + 1]
    /\ segments' = segments + 1
    /\ UNCHANGED <<workers, session, row, items, task, embeds, lost, requestVars>>

(* The session ends with a summarise task ...                               *)
SessionEnds(s) ==
    /\ session[s] = "live"
    /\ session' = [session EXCEPT ![s] = "ended"]
    /\ Dispatch
    /\ UNCHANGED <<workers, finals, segments, row, items, embeds, requestVars>>

(* ... or, when the provider failed and this session stored no final, with  *)
(* _park_failed_summary: the row is inserted or its status overwritten.     *)
SessionParks(s) ==
    /\ "stt" \in Faults
    /\ session[s] = "live" /\ finals[s] = 0
    /\ ~locked
    /\ session' = [session EXCEPT ![s] = "ended"]
    /\ row' = [row EXCEPT !.status = "failed", !.error = TRUE]
    /\ UNCHANGED <<workers, finals, segments, items, task, embeds, lost,
                   requestVars>>

-----------------------------------------------------------------------------
(* POST /meetings/:id/summarise.  "processing" is flushed, the task is      *)
(* dispatched, and the transaction commits when the request is over.  A     *)
(* flush that changes nothing writes nothing and takes no lock.             *)

\* Bound: a request leaves a task for every session that is yet to end.
TaskToSpare ==
    Cardinality({t \in Tasks : task[t].state = "none"})
        > Cardinality({s \in Sessions : session[s] # "ended"})

RegenerateFlush ==
    /\ request = "none" /\ TaskToSpare
    /\ request' = "flushed"
    /\ locked' = (row.status # "processing" \/ row.error)
    /\ UNCHANGED <<workers, sessionVars, row, items, task, embeds, lost>>

RegenerateDispatch ==
    /\ request = "flushed"
    /\ request' = "dispatched"
    /\ Dispatch
    /\ UNCHANGED <<workers, sessionVars, row, items, embeds, locked>>

RegenerateCommit ==
    /\ request = "dispatched"
    /\ request' = "none"
    /\ locked' = FALSE
    /\ row' = IF locked THEN [row EXCEPT !.status = "processing", !.error = FALSE]
                        ELSE row
    /\ UNCHANGED <<workers, sessionVars, items, task, embeds, lost>>

(* PATCH /meetings/:id/action_items/:item_id ticks or unticks an item that  *)
(* still exists; an item wiped in the meantime is a 404.                    *)
PatchItem(i) ==
    /\ items' = (items \ {i}) \cup {[i EXCEPT !.completed = ~@]}
    /\ UNCHANGED <<workers, sessionVars, row, task, embeds, lost, requestVars>>

-----------------------------------------------------------------------------
(* The summarise task.                                                      *)

Busy == Cardinality({t \in Tasks : task[t].state \in Running})

(* Mutant: a redelivered task goes on with the transcript it had.           *)
LoadTranscriptOnce(t) ==
    /\ task[t].state = "queued" /\ Busy < workers
    /\ task' = [task EXCEPT ![t] =
                    [state |-> "loaded", deliveries |-> @.deliveries + 1,
                     of |-> IF @.deliveries = 0 THEN segments ELSE @.of,
                     answer |-> "none"]]
    /\ UNCHANGED <<workers, sessionVars, row, items, embeds, lost, requestVars>>

(* A free worker takes the task and loads the transcript.                   *)
LoadTranscript(t) ==
    /\ task[t].state = "queued" /\ Busy < workers
    /\ task' = [task EXCEPT ![t] = [state |-> "loaded", of |-> segments,
                                    deliveries |-> @.deliveries + 1,
                                    answer |-> "none"]]
    /\ UNCHANGED <<workers, sessionVars, row, items, embeds, lost, requestVars>>

(* Mutants: a new attempt starts from an empty row; or keeps the old error. *)
UpsertProcessingFresh(t) ==
    /\ task[t].state = "loaded" /\ ~locked
    /\ task' = [task EXCEPT ![t].state = "parked"]
    /\ row' = [status |-> "processing", run |-> NoRun, of |-> 0, error |-> FALSE]
    /\ UNCHANGED <<workers, sessionVars, items, embeds, lost, requestVars>>

UpsertKeepsError(t) ==
    /\ task[t].state = "loaded" /\ ~locked
    /\ task' = [task EXCEPT ![t].state = "parked"]
    /\ row' = [row EXCEPT !.status = "processing"]
    /\ UNCHANGED <<workers, sessionVars, items, embeds, lost, requestVars>>

(* _upsert_summary_row: status and error only, the payload stays.           *)
UpsertProcessing(t) ==
    /\ task[t].state = "loaded" /\ ~locked
    /\ task' = [task EXCEPT ![t].state = "parked"]
    /\ row' = [row EXCEPT !.status = "processing", !.error = FALSE]
    /\ UNCHANGED <<workers, sessionVars, items, embeds, lost, requestVars>>

(* summarise_transcript: too short, or the LLM's payload, or a payload that *)
(* failed validation twice.                                                 *)
Summarise(t) ==
    /\ task[t].state = "parked"
    /\ \E a \in IF task[t].of < TooShort THEN {"too_short"} ELSE {"ok", "error"} :
        task' = [task EXCEPT ![t].state = "answered", ![t].answer = a]
    /\ UNCHANGED <<workers, sessionVars, row, items, embeds, lost, requestVars>>

\* The action items of a run; one stands for any number of them.
NewItems(r) == {[run |-> r, completed |-> FALSE]}

(* Mutant of the result transaction: items are appended, not replaced.      *)
PersistAppends(t) ==
    CASE task[t].answer = "ok" ->
           /\ row' = [status |-> "completed", run |-> RunOf(t),
                      of |-> task[t].of, error |-> FALSE]
           /\ items' = items \cup NewItems(RunOf(t))
      [] task[t].answer = "too_short" ->
           /\ row' = [status |-> "too_short", run |-> NoRun, of |-> task[t].of,
                      error |-> FALSE]
           /\ items' = {}
      [] task[t].answer = "error" ->
           /\ row' = [row EXCEPT !.status = "failed", !.error = TRUE]
           /\ UNCHANGED items

(* _persist_result: a payload replaces summary and items, a transcript too  *)
(* short clears both, and a failure keeps both under status failed.         *)
Persist(t) ==
    CASE task[t].answer = "ok" ->
           /\ row' = [status |-> "completed", run |-> RunOf(t),
                      of |-> task[t].of, error |-> FALSE]
           /\ items' = NewItems(RunOf(t))
      [] task[t].answer = "too_short" ->
           /\ row' = [status |-> "too_short", run |-> NoRun, of |-> task[t].of,
                      error |-> FALSE]
           /\ items' = {}
      [] task[t].answer = "error" ->
           /\ row' = [row EXCEPT !.status = "failed", !.error = TRUE]
           /\ UNCHANGED items

PersistResult(t) ==
    /\ task[t].state = "answered" /\ ~locked
    /\ Persist(t)
    /\ task' = [task EXCEPT ![t].state = "stored"]
    /\ UNCHANGED <<workers, sessionVars, embeds, lost, requestVars>>

(* A completed summary chains the embed task, best effort; then the task is *)
(* acknowledged.                                                            *)
Finish(t) ==
    /\ task[t].state = "stored"
    /\ task' = [task EXCEPT ![t].state = "done"]
    /\ \/ task[t].answer = "ok" /\ embeds' = embeds + 1
       \/ task[t].answer # "ok" /\ UNCHANGED embeds
       \/ "broker" \in Faults /\ UNCHANGED embeds
    /\ UNCHANGED <<workers, sessionVars, row, items, lost, requestVars>>

(* A transaction or the LLM call raises: the task fails for good, because   *)
(* only SummariseRetryable is retried and nothing raises it.                *)
TaskRaises(t) ==
    /\ \/ "db" \in Faults /\ task[t].state \in {"loaded", "answered"}
       \/ "llm" \in Faults /\ task[t].state = "parked" /\ task[t].of >= TooShort
    /\ task' = [task EXCEPT ![t].state = "raised"]
    /\ UNCHANGED <<workers, sessionVars, row, items, embeds, lost, requestVars>>

(* Mutant: tasks are acknowledged when they are taken.                      *)
WorkerLostEarlyAck(t) ==
    /\ "crash" \in Faults
    /\ task[t].state \in Running /\ task[t].deliveries < MaxDeliveries
    /\ task' = [task EXCEPT ![t].state = "done"]
    /\ UNCHANGED <<workers, sessionVars, row, items, embeds, lost, requestVars>>

(* The worker is lost; task_acks_late and task_reject_on_worker_lost put    *)
(* the task back into the queue.                                            *)
WorkerLost(t) ==
    /\ "crash" \in Faults
    /\ task[t].state \in Running /\ task[t].deliveries < MaxDeliveries
    /\ task' = [task EXCEPT ![t].state = "queued"]
    /\ UNCHANGED <<workers, sessionVars, row, items, embeds, lost, requestVars>>

TaskStep(t) ==
    \/ LoadTranscript(t) \/ UpsertProcessing(t) \/ Summarise(t)
    \/ PersistResult(t) \/ Finish(t)

Next ==
    \/ \E s \in Sessions :
        \/ SessionStarts(s) \/ PersistSegment(s)
        \/ SessionEnds(s) \/ SessionParks(s)
    \/ RegenerateFlush \/ RegenerateDispatch \/ RegenerateCommit
    \/ \E i \in items : PatchItem(i)
    \/ \E t \in Tasks : TaskStep(t) \/ TaskRaises(t) \/ WorkerLost(t)

Spec == Init /\ [][Next]_vars

(* The workers keep working and a request that was begun is finished.       *)
Fairness ==
    /\ \A t \in Tasks : WF_vars(LoadTranscript(t))
    /\ \A t \in Tasks : WF_vars(UpsertProcessing(t))
    /\ \A t \in Tasks : WF_vars(Summarise(t))
    /\ \A t \in Tasks : WF_vars(PersistResult(t))
    /\ \A t \in Tasks : WF_vars(Finish(t))
    /\ WF_vars(RegenerateDispatch) /\ WF_vars(RegenerateCommit)

FairSpec == Spec /\ Fairness

-----------------------------------------------------------------------------
Runs == Tasks \X (1..MaxDeliveries)

TypeOK ==
    /\ workers \in 1..MaxWorkers
    /\ session \in [Sessions -> {"none", "live", "ended"}]
    /\ finals \in [Sessions -> 0..MaxSegments]
    /\ segments \in 0..MaxSegments
    /\ row \in [status : Statuses, run : Runs \cup {NoRun}, of : 0..MaxSegments,
                error : BOOLEAN]
    /\ items \subseteq [run : Runs, completed : BOOLEAN]
    /\ task \in [Tasks -> [state : {"queued"} \cup Running \cup Settled,
                           deliveries : 0..MaxDeliveries,
                           of : 0..MaxSegments, answer : Answers]]
    /\ embeds \in Nat
    /\ lost \in BOOLEAN
    /\ request \in {"none", "flushed", "dispatched"}
    /\ locked \in BOOLEAN

(* The action items a user sees belong to the summary shown above them: in  *)
(* every committed state they come from the one run whose payload the row   *)
(* has, whatever tasks, parks, regenerations and patches interleave.        *)
ItemsMatchSummary == {i.run : i \in items} = IF row.run = NoRun THEN {} ELSE {row.run}

(* A status that says there is a summary has one, and one that says the     *)
(* transcript was too short shows none.                                     *)
StatusMatchesSummary ==
    /\ row.status = "completed" => row.run # NoRun /\ ~row.error
    /\ row.status = "too_short" => row.run = NoRun /\ ~row.error
    /\ row.error => row.status = "failed"
    /\ row.status = "pending" => row.run = NoRun

(* The previous summary stays readable while a new attempt runs and after   *)
(* it failed: only a result that replaces it takes it away.                 *)
PreviousSummaryKept ==
    [][row'.status \in {"processing", "failed"} => row'.run = row.run]_vars

(* The reader's view: an attempt is a delivery of a task, and it is open    *)
(* from the moment it loads the transcript until its result is stored.      *)
Begun   == {r \in Runs : r[2] <= task[r[1]].deliveries}
Unsaved == Running \ {"stored"}
Open    == {[run |-> RunOf(t), of |-> task[t].of] :
                t \in {u \in Tasks : task[u].state \in Unsaved}}

Card == INSTANCE SummaryCard WITH
    Attempts <- Runs, NoAttempt <- NoRun,
    shown <- row, todo <- items, transcript <- segments,
    begun <- Begun, open <- Open

(* Whatever sessions, workers, redeliveries, regenerations and faults do,   *)
(* the reader sees a summary that only a new attempt replaces, with the     *)
(* items of that attempt, made of the transcript that was there when the    *)
(* attempt began; and a summary that was replaced never comes back.         *)
ImplementsCard == Card!CardSpec

(* With one worker, a stored summary never gives way to one of an older     *)
(* transcript.                                                              *)
NeverOlder ==
    [][(workers = 1 /\ row'.run # NoRun /\ row.run # NoRun)
        => row'.of >= row.of]_vars

(* The spinner stops: a row that says "processing" becomes terminal, also   *)
(* when workers are lost, unless a dispatch was lost or a task has raised.  *)
ProcessingResolves ==
    row.status = "processing" ~>
        \/ row.status \in Terminal
        \/ lost
        \/ \E t \in Tasks : task[t].state = "raised"
=============================================================================
