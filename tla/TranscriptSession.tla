--------------------------- MODULE TranscriptSession ---------------------------
(***************************************************************************)
(* One session of the live transcript WebSocket on the server:             *)
(* transcript_ws in backend/src/meeting_intelligence/api/transcript.py     *)
(* with the Deepgram adapter stt/deepgram_nova.py, from session_started to *)
(* the close of the socket.                                                *)
(*                                                                         *)
(* Three coroutines share the session: the handler ("main": receives       *)
(* frames, then winds the session down), transcribe_consumer (persists and *)
(* forwards what the provider answers) and the provider's audio pump (takes*)
(* chunks from the bounded queue).  An action is what one of them does     *)
(* between two awaits.                                                     *)
(*                                                                         *)
(* Audio chunks are numbered in the order they are received; the final     *)
(* line the provider returns for a chunk carries its number, and the final *)
(* of a text probe is 0.  The provider, the database, the broker and the   *)
(* client are the environment: "faults", chosen when the session begins,   *)
(* says what they may do wrong in it.                                      *)
(***************************************************************************)
EXTENDS Integers, Sequences, FiniteSets

CONSTANTS
    MaxChunks,   \* bound: audio chunks received in the session
    MaxProbes,   \* bound: text probes received in the session
    QueueMax,    \* _AUDIO_QUEUE_MAX
    MaxFaults,   \* bound: kinds of fault in one session, if not all of them
    Faults       \* what may go wrong outside this code

FaultKinds ==
    {"db",           \* a transaction fails
     "disk",         \* a write to the WAV fails
     "broker",       \* a Celery dispatch fails
     "provider",     \* the provider raises, or ends its stream early
     "slow",         \* draining takes longer than _DRAIN_TIMEOUT_S
     "client"}       \* the client is gone before the session is over

ASSUME SessionAssumption ==
    /\ MaxChunks \in Nat
    /\ MaxProbes \in Nat
    /\ QueueMax \in Nat \ {0}
    /\ MaxFaults \in Nat
    /\ Faults \subseteq FaultKinds

VARIABLES
    faults,      \* what may go wrong in this session
    pc,          \* where the handler is
    left,        \* why it left the receive loop
    client,      \* TRUE while the peer is there
    appOpen,     \* ws.application_state is CONNECTED
    received,    \* number of audio chunks received
    probes,      \* number of text probes received
    queue,       \* audio_queue; Sentinel is the None that ends it
    rejected,    \* chunks answered with AUDIO_BACKPRESSURE
    wav,         \* chunks written to the temporary WAV
    wavWriter,   \* wav_writer is not None
    consumer,    \* where transcribe_consumer is
    line,        \* the event send_transcript_event has in hand
    pump,        \* the provider's audio pump
    heard,       \* chunks the provider has and has not answered with a final
    finalLines,  \* final_line_count
    persisted,   \* transcript_segments written by this session, in order
    sttFailed,   \* stt_failed
    stamped,     \* meetings.status as written by this session
    archive,     \* "wav" when there is a WAV to archive, then "dispatched"
    summary,     \* whether summarise was dispatched or a failed row parked
    closeCode    \* how the socket was closed

handlerVars  == <<pc, left, probes>>
socketVars   == <<client, appOpen>>
audioVars    == <<received, queue, rejected, wav, wavWriter>>
consumerVars == <<consumer, line, sttFailed>>
providerVars == <<pump, heard>>
segmentVars  == <<finalLines, persisted>>
outcomeVars  == <<stamped, archive, summary, closeCode>>
vars == <<faults, handlerVars, socketVars, audioVars, consumerVars,
          providerVars, segmentVars, outcomeVars>>

Sentinel == -1
Probe    == 0
Contents(s) == {s[i] : i \in DOMAIN s}

HandlerStates == {"loop", "receive", "probe_persist", "probe_send", "finally",
                  "drain", "stamp", "archive", "summarise", "close", "closed",
                  "abandoned"}
Finalizing == {"stamp", "archive", "summarise", "close", "closed"}
ConsumerStates == {"listen", "persist", "send", "report", "done"}

-----------------------------------------------------------------------------
(* ws.send_text, ok or not.  Once the peer is gone a send may still succeed *)
(* (the loss is not noticed yet) or raise; the first one that raises closes *)
(* the application side, and every later one raises too.                    *)
SendText(ok) ==
    /\ ok => appOpen
    /\ ~ok => ~client
    /\ appOpen' = ok
    /\ UNCHANGED client

(* _send_error: a send whose failure is suppressed.                         *)
SendError == \E ok \in BOOLEAN : SendText(ok)

(* The peer leaves: its connection drops, or it closes after client_bye.    *)
ClientLeaves ==
    /\ "client" \in faults
    /\ client
    /\ client' = FALSE
    /\ UNCHANGED <<faults, handlerVars, appOpen, audioVars, consumerVars,
                   providerVars, segmentVars, outcomeVars>>

(* The session after session_started: WAV open, consumer task created.      *)
Init ==
    /\ faults \in {F \in SUBSET Faults : Cardinality(F) <= MaxFaults \/ F = Faults}
    /\ pc = "loop" /\ left = "none" /\ probes = 0
    /\ client = TRUE /\ appOpen = TRUE
    /\ received = 0 /\ queue = <<>> /\ rejected = {}
    /\ wav = <<>> /\ wavWriter \in BOOLEAN /\ (~wavWriter => "disk" \in faults)
    /\ archive = IF wavWriter THEN "wav" ELSE "none"
    /\ consumer = "listen" /\ line = Probe /\ sttFailed = FALSE
    /\ pump = "pulling" /\ heard = <<>>
    /\ finalLines = 0 /\ persisted = <<>>
    /\ stamped = "none" /\ summary = "none"
    /\ closeCode = 0

-----------------------------------------------------------------------------
(* The receive loop.                                                        *)

LeaveLoop(why) == pc' = "finally" /\ left' = why /\ UNCHANGED probes

(* Top of the loop: a failed provider ends it; receive_text() raises        *)
(* RuntimeError, not WebSocketDisconnect, if an earlier send has found the  *)
(* peer gone.                                                               *)
Loop ==
    /\ pc = "loop"
    /\ \/ sttFailed /\ LeaveLoop("stt_failed")
       \/ ~sttFailed /\ appOpen /\ pc' = "receive" /\ UNCHANGED <<left, probes>>
       \/ ~sttFailed /\ ~appOpen /\ LeaveLoop("raised")
    /\ UNCHANGED <<faults, socketVars, audioVars, consumerVars, providerVars,
                   segmentVars, outcomeVars>>

(* The chunk is added to the WAV, unless the WAV is or becomes unwritable.  *)
WriteWav(c) ==
    \/ wavWriter /\ wav' = Append(wav, c) /\ UNCHANGED wavWriter
    \/ wavWriter /\ "disk" \in faults /\ wavWriter' = FALSE /\ UNCHANGED wav
    \/ ~wavWriter /\ UNCHANGED <<wav, wavWriter>>

(* Mutant: only chunks that fit the queue are written to the WAV.           *)
ReceiveChunkQueueFirst ==
    /\ pc = "receive" /\ received < MaxChunks
    /\ pc' = "loop"
    /\ received' = received + 1
    /\ \/ /\ Len(queue) < QueueMax
          /\ queue' = Append(queue, received + 1)
          /\ WriteWav(received + 1)
          /\ UNCHANGED <<rejected, socketVars>>
       \/ /\ Len(queue) >= QueueMax
          /\ rejected' = rejected \cup {received + 1}
          /\ SendError
          /\ UNCHANGED <<queue, wav, wavWriter>>
    /\ UNCHANGED <<faults, left, probes, consumerVars, providerVars,
                   segmentVars, outcomeVars>>

(* audio_chunk: to the WAV first, then to the queue; a full queue rejects   *)
(* it with a recoverable AUDIO_BACKPRESSURE.                                *)
ReceiveChunk ==
    /\ pc = "receive" /\ received < MaxChunks
    /\ pc' = "loop"
    /\ received' = received + 1
    /\ WriteWav(received + 1)
    /\ \/ /\ Len(queue) < QueueMax
          /\ queue' = Append(queue, received + 1)
          /\ UNCHANGED <<rejected, socketVars>>
       \/ /\ Len(queue) >= QueueMax
          /\ rejected' = rejected \cup {received + 1}
          /\ SendError
          /\ UNCHANGED queue
    /\ UNCHANGED <<faults, left, probes, consumerVars, providerVars,
                   segmentVars, outcomeVars>>

(* A frame that is refused: INVALID_MESSAGE, INVALID_AUDIO, DUPLICATE_HELLO.*)
ReceiveRefused ==
    /\ pc = "receive"
    /\ pc' = "loop"
    /\ SendError
    /\ UNCHANGED <<faults, left, probes, audioVars, consumerVars,
                   providerVars, segmentVars, outcomeVars>>

(* Mutant: only the lines of the provider are counted.                      *)
ReceiveProbeUncounted ==
    /\ pc = "receive" /\ probes < MaxProbes
    /\ pc' = "probe_persist"
    /\ probes' = probes + 1
    /\ UNCHANGED <<faults, left, socketVars, audioVars, consumerVars,
                   providerVars, segmentVars, outcomeVars>>

(* text_probe: a final line made by the handler itself.                     *)
ReceiveProbe ==
    /\ pc = "receive" /\ probes < MaxProbes
    /\ pc' = "probe_persist"
    /\ probes' = probes + 1
    /\ finalLines' = finalLines + 1
    /\ UNCHANGED <<faults, left, socketVars, audioVars, consumerVars,
                   providerVars, persisted, outcomeVars>>

ReceiveBye ==
    /\ pc = "receive"
    /\ LeaveLoop("bye")
    /\ UNCHANGED <<faults, socketVars, audioVars, consumerVars, providerVars,
                   segmentVars, outcomeVars>>

(* receive_text() raises WebSocketDisconnect; what was in flight before it  *)
(* may have been received first.                                            *)
ReceiveDisconnect ==
    /\ pc = "receive" /\ ~client
    /\ LeaveLoop("disconnect")
    /\ UNCHANGED <<faults, socketVars, audioVars, consumerVars, providerVars,
                   segmentVars, outcomeVars>>

-----------------------------------------------------------------------------
(* send_transcript_event.                                                   *)

(* _persist_final_segment: one short transaction; a failure is swallowed.   *)
PersistFinal(l) ==
    \/ persisted' = Append(persisted, l)
    \/ "db" \in faults /\ UNCHANGED persisted

ProbePersisted ==
    /\ pc = "probe_persist"
    /\ PersistFinal(Probe)
    /\ pc' = "probe_send"
    /\ UNCHANGED <<faults, left, probes, socketVars, audioVars, consumerVars,
                   providerVars, finalLines, outcomeVars>>

(* A send that raises leaves the loop: as a disconnect the first time, and  *)
(* as a RuntimeError when the application side was closed before.           *)
ProbeSent ==
    /\ pc = "probe_send"
    /\ \E ok \in BOOLEAN :
        /\ SendText(ok)
        /\ IF ok THEN pc' = "loop" /\ UNCHANGED left
                 ELSE /\ pc' = "finally"
                      /\ left' = IF appOpen THEN "disconnect" ELSE "raised"
    /\ UNCHANGED <<faults, probes, audioVars, consumerVars, providerVars,
                   segmentVars, outcomeVars>>

(* Mutant: the newest chunk is taken first.                                 *)
PumpNewestFirst ==
    /\ pump = "pulling" /\ consumer \notin {"report", "done"}
    /\ queue # <<>>
    /\ queue' = SubSeq(queue, 1, Len(queue) - 1)
    /\ IF queue[Len(queue)] = Sentinel
       THEN pump' = "closed" /\ UNCHANGED heard
       ELSE heard' = Append(heard, queue[Len(queue)]) /\ UNCHANGED pump
    /\ UNCHANGED <<faults, handlerVars, socketVars, received, rejected, wav,
                   wavWriter, consumerVars, segmentVars, outcomeVars>>

(* The pump takes the next chunk; the sentinel ends it with CloseStream.    *)
PumpAudio ==
    /\ pump = "pulling" /\ consumer \notin {"report", "done"}
    /\ queue # <<>>
    /\ queue' = Tail(queue)
    /\ IF Head(queue) = Sentinel
       THEN pump' = "closed" /\ UNCHANGED heard
       ELSE heard' = Append(heard, Head(queue)) /\ UNCHANGED pump
    /\ UNCHANGED <<faults, handlerVars, socketVars, received, rejected, wav,
                   wavWriter, consumerVars, segmentVars, outcomeVars>>

(* The provider answers for the oldest chunk it has.  The final of the last *)
(* one comes only after CloseStream.                                        *)
FinalEvent ==
    /\ consumer = "listen"
    /\ heard # <<>> /\ (Len(heard) > 1 \/ pump = "closed")
    /\ heard' = Tail(heard)
    /\ line' = Head(heard)
    /\ finalLines' = finalLines + 1
    /\ consumer' = "persist"
    /\ UNCHANGED <<faults, handlerVars, socketVars, audioVars, sttFailed,
                   pump, persisted, outcomeVars>>

InterimEvent ==
    /\ consumer = "listen" /\ heard # <<>>
    /\ consumer' = "send"
    /\ UNCHANGED <<faults, handlerVars, socketVars, audioVars, line,
                   sttFailed, providerVars, segmentVars, outcomeVars>>

EventPersisted ==
    /\ consumer = "persist"
    /\ PersistFinal(line)
    /\ consumer' = "send"
    /\ UNCHANGED <<faults, handlerVars, socketVars, audioVars, line,
                   sttFailed, providerVars, finalLines, outcomeVars>>

(* A send that raises is not an STTProviderError: it ends the consumer.     *)
EventSent ==
    /\ consumer = "send"
    /\ \E ok \in BOOLEAN :
        /\ SendText(ok)
        /\ consumer' = IF ok THEN "listen" ELSE "done"
    /\ UNCHANGED <<faults, handlerVars, audioVars, line, sttFailed,
                   providerVars, segmentVars, outcomeVars>>

(* transcribe() returns: all is answered, or the provider ended early.      *)
ProviderEnds ==
    /\ consumer = "listen"
    /\ (pump = "closed" /\ heard = <<>>) \/ "provider" \in faults
    /\ consumer' = "done"
    /\ UNCHANGED <<faults, handlerVars, socketVars, audioVars, line,
                   sttFailed, providerVars, segmentVars, outcomeVars>>

(* transcribe() raises STTProviderError.                                    *)
ProviderFails ==
    /\ "provider" \in faults
    /\ consumer = "listen"
    /\ sttFailed' = TRUE
    /\ consumer' = "report"
    /\ UNCHANGED <<faults, handlerVars, socketVars, audioVars, line,
                   providerVars, segmentVars, outcomeVars>>

FailureReported ==
    /\ consumer = "report"
    /\ SendError
    /\ consumer' = "done"
    /\ UNCHANGED <<faults, handlerVars, audioVars, line, sttFailed,
                   providerVars, segmentVars, outcomeVars>>

-----------------------------------------------------------------------------
(* The finally block and what follows it.                                   *)

(* No more audio: the sentinel is queued, if the queue has room for it.     *)
EndAudio ==
    /\ pc = "finally"
    /\ pc' = "drain"
    /\ queue' = IF Len(queue) < QueueMax THEN Append(queue, Sentinel) ELSE queue
    /\ UNCHANGED <<faults, left, probes, socketVars, received, rejected, wav,
                   wavWriter, consumerVars, providerVars, segmentVars,
                   outcomeVars>>

(* The WAV is closed; an exception other than WebSocketDisconnect goes on   *)
(* to the caller, any other end of the loop to the finalization.            *)
AfterFinally == IF left = "raised" THEN "abandoned" ELSE "stamp"

(* wait_for(consumer_task): it has ended, with or without an exception.     *)
Drained ==
    /\ pc = "drain" /\ consumer = "done"
    /\ pc' = AfterFinally
    /\ wavWriter' = FALSE
    /\ UNCHANGED <<faults, left, probes, socketVars, received, queue,
                   rejected, wav, consumerVars, providerVars, segmentVars,
                   outcomeVars>>

(* Nothing can end the consumer any more: no final is due, no sentinel.     *)
Starved ==
    /\ consumer \in {"listen", "send"} /\ pump = "pulling" /\ queue = <<>>
    /\ Len(heard) <= 1

(* Mutants: no timeout; one that leaves the consumer running; no wait.      *)
DrainNeverTimesOut ==
    /\ pc = "drain" /\ consumer = "done"
    /\ pc' = AfterFinally
    /\ wavWriter' = FALSE
    /\ UNCHANGED <<faults, left, probes, socketVars, received, queue,
                   rejected, wav, consumerVars, providerVars, segmentVars,
                   outcomeVars>>

DrainTimesOutNoCancel ==
    /\ pc = "drain" /\ consumer # "done"
    /\ "slow" \in faults \/ Starved
    /\ pc' = AfterFinally
    /\ wavWriter' = FALSE
    /\ UNCHANGED <<faults, left, probes, socketVars, received, queue,
                   rejected, wav, consumerVars, providerVars, segmentVars,
                   outcomeVars>>

DrainCancelsAtOnce ==
    /\ pc = "drain" /\ consumer # "done"
    /\ pc' = AfterFinally
    /\ wavWriter' = FALSE
    /\ consumer' = "done"
    /\ UNCHANGED <<faults, left, probes, socketVars, received, queue, rejected,
                   wav, line, sttFailed, providerVars, segmentVars, outcomeVars>>

(* _DRAIN_TIMEOUT_S is over: the consumer is cancelled and awaited.  A      *)
(* transaction it was in is rolled back or has just committed.              *)
DrainTimesOut ==
    /\ pc = "drain" /\ consumer # "done"
    /\ "slow" \in faults \/ Starved
    /\ pc' = AfterFinally
    /\ wavWriter' = FALSE
    /\ consumer' = "done"
    /\ \/ UNCHANGED persisted
       \/ consumer = "persist" /\ persisted' = Append(persisted, line)
    /\ UNCHANGED <<faults, left, probes, socketVars, received, queue,
                   rejected, wav, line, sttFailed, providerVars, finalLines,
                   outcomeVars>>

(* _stamp_meeting_completed, errors swallowed.                              *)
StampMeeting ==
    /\ pc = "stamp"
    /\ pc' = "archive"
    /\ \/ stamped' = IF sttFailed THEN "failed" ELSE "completed"
       \/ "db" \in faults /\ UNCHANGED stamped
    /\ UNCHANGED <<faults, left, probes, socketVars, audioVars, consumerVars,
                   providerVars, segmentVars, archive, summary, closeCode>>

(* archive_meeting_audio.delay(), best effort, when there is a WAV.         *)
DispatchArchive ==
    /\ pc = "archive"
    /\ pc' = "summarise"
    /\ \/ archive = "wav" /\ archive' = "dispatched"
       \/ archive = "none" /\ UNCHANGED archive
       \/ "broker" \in faults /\ UNCHANGED archive
    /\ UNCHANGED <<faults, left, probes, socketVars, audioVars, consumerVars,
                   providerVars, segmentVars, stamped, summary, closeCode>>

(* Mutant: nothing is dispatched for a session without lines.               *)
SummariseOnlyLines ==
    /\ pc = "summarise"
    /\ pc' = "close"
    /\ \/ sttFailed /\ finalLines = 0 /\ summary' = "parked"
       \/ ~(sttFailed \/ finalLines = 0) /\ summary' = "dispatched"
       \/ finalLines = 0 /\ UNCHANGED summary
    /\ UNCHANGED <<faults, left, probes, socketVars, audioVars, consumerVars,
                   providerVars, segmentVars, stamped, archive, closeCode>>

(* Park a failed summary when the provider failed and no final line came;   *)
(* otherwise dispatch summarise.  Both are best effort.                     *)
ParkOrSummarise ==
    /\ pc = "summarise"
    /\ pc' = "close"
    /\ \/ sttFailed /\ finalLines = 0 /\ summary' = "parked"
       \/ ~(sttFailed /\ finalLines = 0) /\ summary' = "dispatched"
       \/ /\ IF sttFailed /\ finalLines = 0 THEN "db" \in faults
                                            ELSE "broker" \in faults
          /\ UNCHANGED summary
    /\ UNCHANGED <<faults, left, probes, socketVars, audioVars, consumerVars,
                   providerVars, segmentVars, stamped, archive, closeCode>>

(* 1011 after a provider failure, otherwise session_ended and a close.      *)
CloseSession ==
    /\ pc = "close"
    /\ pc' = "closed"
    /\ closeCode' = IF sttFailed THEN 1011 ELSE 1000
    /\ UNCHANGED <<faults, left, probes, socketVars, audioVars, consumerVars,
                   providerVars, segmentVars, stamped, archive, summary>>

Receive ==
    \/ ReceiveChunk \/ ReceiveRefused \/ ReceiveProbe \/ ReceiveBye
    \/ ReceiveDisconnect
Handler ==
    \/ Loop \/ ProbePersisted \/ ProbeSent \/ EndAudio \/ Drained
    \/ DrainTimesOut \/ StampMeeting \/ DispatchArchive \/ ParkOrSummarise
    \/ CloseSession
Consumer == FinalEvent \/ InterimEvent \/ EventPersisted \/ EventSent
            \/ ProviderEnds \/ FailureReported

Next ==
    \/ Receive \/ Handler \/ Consumer \/ PumpAudio \/ ProviderFails
    \/ ClientLeaves
    \/ pc \in {"closed", "abandoned"} /\ consumer = "done" /\ UNCHANGED vars

Spec == Init /\ [][Next]_vars

(* In a session that is not slow, the provider and the database answer.     *)
Prompt(A) == "slow" \notin faults /\ A

(* The event loop runs every coroutine that is ready.  While the client is  *)
(* there it keeps sending frames (the microphone never stops), and once it  *)
(* is gone the socket reports so.  In a slow session the provider need not  *)
(* answer: the drain timeout is what ends the wait for it.                  *)
Fairness ==
    /\ WF_vars(Handler) /\ WF_vars(Receive)
    /\ WF_vars(FailureReported)
    /\ WF_vars(Prompt(PumpAudio)) /\ SF_vars(Prompt(FinalEvent))
    /\ WF_vars(Prompt(EventPersisted \/ EventSent \/ ProviderEnds))

FairSpec == Spec /\ Fairness

-----------------------------------------------------------------------------
TypeOK ==
    /\ faults \subseteq Faults
    /\ pc \in HandlerStates
    /\ left \in {"none", "bye", "disconnect", "stt_failed", "raised"}
    /\ client \in BOOLEAN /\ appOpen \in BOOLEAN
    /\ received \in 0..MaxChunks /\ probes \in 0..MaxProbes
    /\ queue \in Seq(1..MaxChunks \cup {Sentinel})
    /\ Len(queue) <= QueueMax
    /\ rejected \subseteq 1..MaxChunks
    /\ wav \in Seq(1..MaxChunks) /\ wavWriter \in BOOLEAN
    /\ consumer \in ConsumerStates
    /\ line \in 0..MaxChunks
    /\ pump \in {"pulling", "closed"}
    /\ heard \in Seq(1..MaxChunks)
    /\ finalLines \in Nat
    /\ persisted \in Seq(0..MaxChunks)
    /\ sttFailed \in BOOLEAN
    /\ stamped \in {"none", "completed", "failed"}
    /\ archive \in {"none", "wav", "dispatched"}
    /\ summary \in {"none", "parked", "dispatched"}
    /\ closeCode \in {0, 1000, 1011}

(* The archived audio has no gaps: the WAV holds what was received from the *)
(* first chunk on, and all of it, the chunks refused for backpressure       *)
(* included, for as long as it could be written.                            *)
WavHasNoGaps ==
    /\ \A i \in DOMAIN wav : wav[i] = i
    /\ wavWriter => Len(wav) = received

(* Transcript lines are stored in the order of the audio and never twice,   *)
(* whatever the probes written by the handler do in between.                *)
PersistedInOrder ==
    \A i, j \in DOMAIN persisted :
        i < j /\ persisted[i] # Probe /\ persisted[j] # Probe
            => persisted[i] < persisted[j]

(* Once the drain is over nothing moves: the facts read one after the other *)
(* by the stamp, the archive, the summary decision and the close - with an  *)
(* await between each two - do not change under them, and no segment lands  *)
(* behind the summarise task.                                               *)
SettledBeforeFinalization ==
    [][(pc \in Finalizing) =>
        (UNCHANGED <<sttFailed, finalLines, persisted, wav, wavWriter>>)]_vars

(* "Recording failed before any transcript was captured" is only said when  *)
(* this session stored no line, of the provider or of the handler itself:   *)
(* a line is counted before its first await, so that no failure, no drain   *)
(* timeout and no departing peer can come between the line and its count.   *)
ParkedOnlyWithoutLines == summary = "parked" => persisted = <<>>

(* The meeting's status, the summary and the close code tell one story.     *)
OutcomesAgree ==
    /\ closeCode = 1011 => stamped # "completed"
    /\ closeCode = 1000 => stamped # "failed" /\ summary # "parked"

(* A session whose provider has failed, or whose handler has left the      *)
(* receive loop, always ends, however the failure races with frames, disconnect and *)
(* drain, and even when the sentinel did not fit into the queue.            *)
EndingSessionEnds ==
    (sttFailed \/ pc \in {"finally", "drain"}) ~> pc \in {"closed", "abandoned"}

(* When the end-of-audio sentinel reaches the pump, no line is missing: the   *)
(* peer staying, the provider prompt and the database working, every chunk   *)
(* received has its line stored or was refused before finalization starts,   *)
(* whatever the disk and the broker do (transcribe_consumer and the drain).  *)
TrailingLinesStored ==
    (pc \in Finalizing /\ pump = "closed" /\ faults \subseteq {"disk", "broker"}) =>
        1..received = (Contents(persisted) \ {Probe}) \cup rejected
=============
