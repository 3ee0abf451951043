-------------------------- MODULE RecordingSession --------------------------
(***************************************************************************)
(* The recording session of the desktop app: the hook useRecording() with  *)
(* the stores, commands, event bridge and views it ties together.          *)
(*                                                                         *)
(* start() and stop() are async functions.  Each action below is one task  *)
(* of the event loop, from one await to the next, so flows that overlap    *)
(* interleave at the awaits and nowhere else.  A call of start() is        *)
(* numbered 1, 2, ...; the number also names the meeting it creates, its   *)
(* native session, its WebSocket client and its event listeners.           *)
(*                                                                         *)
(* useRecording() is instantiated by AppShell and again by                 *)
(* SessionEndedView.  An instance keeps its socket and listeners in refs   *)
(* of its own and tears them down when it unmounts; a start() that is      *)
(* still running then goes on, writing to the refs of a component that is  *)
(* gone.  An instance is named by its component and by the number of       *)
(* start() calls made before it was mounted.                               *)
(***************************************************************************)
EXTENDS Integers, FiniteSets

CONSTANTS
    MaxStarts,    \* bound: calls of start()
    MaxDrains,    \* bound: calls of stop() that await the native reply
    MaxRequests,  \* bound: permission requests that await the OS
    RepliesInOrder    \* the reply of start_recording for the session that runs
                      \* arrives after those for the sessions before it

ASSUME SessionAssumption ==
    /\ {MaxStarts, MaxDrains, MaxRequests} \subseteq Nat \ {0}
    /\ RepliesInOrder \in BOOLEAN

Starts == 1..MaxStarts
None   == 0

VARIABLES
    phase,      \* recording-store: phase
    sessionId,  \* recording-store: sessionId
    os,         \* what the OS answers to a permission read
    perm,       \* recording-store: permissionState
    conn,       \* connection-store: phase.kind
    view,       \* ui-store: "recording", or "history" for history and detail
    shell,      \* AppShell: its mount number, Null while logged out
    ended,      \* SessionEndedView: its mount number, Null while not shown
    dialog,     \* AppShell: permPromptOpen
    requests,   \* per AppShell: how many requestAudioPermissions() it awaits
    probes,     \* components awaiting the permission read of their mount
    starts,     \* calls of start() so far
    stage,      \* per start(): what it awaits
    home,       \* per start(): the hook instance it was called on
    res,        \* per start(): its client and listeners
    autoStop,   \* instances whose autoStopFiredRef is set
    native,     \* Rust: current_session_id
    stops,      \* stop_recording commands on their way to the Rust core
    drains      \* commands that have run and not replied: the session taken, or None

uiVars   == <<view, shell, dialog, requests>>
flowVars == <<starts, stage, home, autoStop>>
rendered == <<ended, probes, res, conn>>
rustVars == <<native, stops, drains>>
vars     == <<phase, sessionId, os, perm, uiVars, flowVars, rendered, rustVars>>

Null == -1

Phases == {"idle", "checking-permissions", "requesting-permissions",
           "starting", "recording", "stopping", "stopped"}
PermStates == {"not-determined", "other"}
ConnKinds  == {"idle", "up", "failed"}
Stages     == {"none", "check", "create", "native", "started",
               "listenAudio", "listenError", "done"}
Refs       == {"ws", "audio", "error"}
Answers    == {"granted", "denied", "not-determined"}
Instances  == {"shell", "ended"} \X (0..MaxStarts)

\* live: what is connected or registered; held: what the refs of the home
\* instance still reach.
Nothing == [live |-> {}, held |-> {}]

-----------------------------------------------------------------------------
(* recording-store: an illegal transition is a no-op.                      *)
BeginPermissionCheck(p) ==
    IF p \in {"idle", "stopped"} THEN "checking-permissions" ELSE p
BeginPermissionRequest(p) ==
    IF p \in {"idle", "stopped", "checking-permissions"}
    THEN "requesting-permissions" ELSE p
RequestStart(p) ==
    IF p \in {"starting", "recording", "stopping"} THEN p ELSE "starting"
Starting == {"starting", "checking-permissions", "requesting-permissions"}

(* Mutants: a guard of the store is missing, or too narrow.                *)
CancelAny(p)     == "idle"
CancelOfCheck(p) == IF p \in Starting \ {"starting"} THEN "idle" ELSE p
StopIgnored(p)   == p

CancelStart(p) == IF p \in Starting THEN "idle" ELSE p
ConfirmStart(p) == IF p = "starting" THEN "recording" ELSE p
RequestStop(p) == IF p = "recording" THEN "stopping" ELSE p
ConfirmStop(p) == IF p = "stopping" THEN "stopped" ELSE p

(* recording-phase.ts                                                      *)
CanBrowseHistory(p) ==
    p \in {"idle", "checking-permissions", "requesting-permissions"}
CanStartRecording(p) == p \in {"idle", "stopped"}
IsRecordingActive(p) == p = "recording"

(* The strip of ReconnectBanner with [Try again], and ConnectionStatus.    *)
TryAgainShown == conn = "failed"
StatusShown   == conn # "idle"

(* AppShell renders SessionEndedView on the recording surface once the     *)
(* session is stopping.                                                    *)
EndedShown(sh, vw, p) ==
    sh # Null /\ vw = "recording" /\ p \in {"stopping", "stopped"}

(* teardownWs() of an instance: listeners, subscription and client that    *)
(* its refs reach are released.                                            *)
TeardownWs(r, inst) ==
    [k \in Starts |->
        IF home[k] = inst
        THEN [live |-> r[k].live \ r[k].held, held |-> {}]
        ELSE r[k]]

(* Assigning a ref of k's instance: what it held before is out of reach.   *)
Assign(r, k, ref) ==
    [j \in Starts |->
        IF j = k THEN [live |-> r[k].live \cup {ref},
                       held |-> r[k].held \cup {ref}]
        ELSE IF home[j] = home[k] THEN [r[j] EXCEPT !.held = @ \ {ref}]
        ELSE r[j]]

(* setPermissionState(); the effect of AppShell that opens the dialog runs *)
(* when the value changes.                                                 *)
SetPermission(p) ==
    LET seen == IF p = "not-determined" THEN p ELSE "other"
    IN  /\ perm' = seen
        /\ dialog' = IF shell = Null \/ seen = perm THEN dialog
                     ELSE seen = "not-determined"

(* React commits the render that follows phase' and view': the ended view  *)
(* appears, or unmounts and tears its own instance down.                   *)
Render(r, connAfter) ==
    LET shown == EndedShown(shell, view', phase')
    IN  /\ ended' = IF ~shown THEN Null
                    ELSE IF ended = Null THEN starts' ELSE ended
        /\ probes' = IF ~shown THEN probes \ {"ended"}
                     ELSE IF ended = Null THEN probes \cup {"ended"} ELSE probes
        /\ res' = IF ended # Null /\ ~shown
                  THEN TeardownWs(r, <<"ended", ended>>) ELSE r
        /\ conn' = IF ended # Null /\ ~shown THEN "idle" ELSE connAfter

(* Mutant: the listener does not compare the session of the event.         *)
HearsAll(k, s) == "audio" \in res[k].live

(* The filter of subscribeAudioChunks(): k's listener takes the chunks of  *)
(* session s.                                                              *)
Hears(k, s) == "audio" \in res[k].live /\ k = s

-----------------------------------------------------------------------------
Init ==
    /\ phase = "idle" /\ sessionId = None /\ conn = "idle"
    /\ os \in Answers /\ perm = "other"
    /\ view = "recording" /\ shell = 0 /\ ended = Null /\ dialog = FALSE
    /\ requests = [m \in 0..MaxStarts |-> 0] /\ probes = {"shell"}
    /\ starts = 0 /\ stage = [k \in Starts |-> "none"]
    /\ home = [k \in Starts |-> <<"shell", 0>>]
    /\ res = [k \in Starts |-> Nothing]
    /\ autoStop = {} /\ native = None /\ stops = 0 /\ drains = {}

(* start() on an instance, up to the await of checkAudioPermissions(), when *)
(* the calling task has brought the phase to p.                            *)
Start(inst, p) ==
    /\ starts < MaxStarts
    /\ starts' = starts + 1
    /\ stage' = [stage EXCEPT ![starts + 1] = "check"]
    /\ home' = [home EXCEPT ![starts + 1] = inst]
    /\ phase' = BeginPermissionCheck(p)

(* RecordControl and the detection prompt (idle), Cmd+R (idle or stopped)  *)
(* or [Try again] of the banner: on the instance of AppShell.              *)
StartFromShell ==
    /\ shell # Null
    /\ CanStartRecording(phase) \/ TryAgainShown
    /\ Start(<<"shell", shell>>, phase)
    /\ UNCHANGED <<uiVars, sessionId, perm, autoStop, os, rustVars>>
    /\ Render(res, conn)

(* "Start new recording" of SessionEndedView, on its own instance.         *)
StartNew ==
    /\ ended # Null
    /\ Start(<<"ended", ended>>, phase)
    /\ UNCHANGED <<uiVars, sessionId, perm, autoStop, os, rustVars>>
    /\ Render(res, conn)

(* checkAudioPermissions() resolves inside start(): the aggregate over the *)
(* gates this recording needs decides whether it goes on.                  *)
CheckResolves(k) ==
    /\ stage[k] = "check"
    /\ SetPermission(os)
    /\ \/ /\ os = "granted"
          /\ phase' = RequestStart(phase)
          /\ stage' = [stage EXCEPT ![k] = "create"]
       \/ /\ os # "granted"
          /\ phase' = CancelStart(phase)
          /\ stage' = [stage EXCEPT ![k] = "done"]
    /\ UNCHANGED <<view, shell, requests, sessionId, starts, home, autoStop, os, rustVars>>
    /\ Render(res, conn)

(* The check, POST /meetings or start_recording fails: cancelStart().      *)
StartFails(k) ==
    /\ stage[k] \in {"check", "create", "native"}
    /\ stage' = [stage EXCEPT ![k] = "done"]
    /\ phase' = CancelStart(phase)
    /\ UNCHANGED <<uiVars, sessionId, perm, starts, home, autoStop, os, rustVars>>
    /\ Render(res, conn)

(* createMeeting() resolves, and start_recording is invoked.               *)
MeetingCreated(k) ==
    /\ stage[k] = "create"
    /\ stage' = [stage EXCEPT ![k] = "native"]
    /\ UNCHANGED <<phase, sessionId, perm, uiVars, starts, home, autoStop, rendered, os, rustVars>>

(* start_recording takes the session slot, which has to be free.           *)
NativeStarts(k) ==
    /\ stage[k] = "native"
    /\ native = None
    /\ native' = k
    /\ stage' = [stage EXCEPT ![k] = "started"]
    /\ UNCHANGED <<phase, sessionId, perm, uiVars, starts, home, autoStop, rendered, os, stops, drains>>

(* What follows startRecording() in start(): confirmStart() counts in      *)
(* phase starting only, the client is created and subscribed in any phase. *)
OpenSession(k) ==
    /\ stage' = [stage EXCEPT ![k] = "listenAudio"]
    /\ phase' = ConfirmStart(phase)
    /\ sessionId' = IF phase = "starting" THEN k ELSE sessionId
    /\ autoStop' = autoStop \ {home[k]}
    /\ UNCHANGED <<uiVars, perm, starts, home, os, rustVars>>
    /\ Render(Assign(res, k, "ws"), "up")

(* Mutant: the continuation is skipped when the component is gone.         *)
StartedIfMounted(k) ==
    stage[k] = "started" /\ home[k] = <<"shell", shell>> /\ OpenSession(k)

Started(k) ==
    /\ stage[k] = "started"
    /\ RepliesInOrder /\ native = k => \A j \in Starts \ {k} : stage[j] # "started"
    /\ OpenSession(k)

(* subscribeAudioChunks() and then subscribeAudioErrors() resolve.         *)
Listening(k) ==
    /\ \/ /\ stage[k] = "listenAudio"
          /\ stage' = [stage EXCEPT ![k] = "listenError"]
          /\ res' = Assign(res, k, "audio")
       \/ /\ stage[k] = "listenError"
          /\ stage' = [stage EXCEPT ![k] = "done"]
          /\ res' = Assign(res, k, "error")
    /\ UNCHANGED <<phase, sessionId, perm, uiVars, starts, home, autoStop, ended,
                   probes, conn, os, rustVars>>

(* stop() on an instance, up to the await of stopRecording().              *)
Stop(inst, r, after) ==
    /\ stops + Cardinality(drains) < MaxDrains
    /\ stops' = stops + 1
    /\ UNCHANGED <<native, drains>>
    /\ phase' = after
    /\ UNCHANGED <<uiVars, sessionId, os, perm, starts, stage, home>>
    /\ Render(TeardownWs(r, inst), "idle")

(* RecordControl and Cmd+period.                                           *)
StopClicked ==
    /\ shell # Null
    /\ IsRecordingActive(phase)
    /\ Stop(<<"shell", shell>>, res, RequestStop(phase))
    /\ UNCHANGED autoStop

(* The reconnect budget of k's client lapses (the client is dead) or the   *)
(* server reports that speech-to-text failed for good (it is not): the     *)
(* instance that made the client calls its stop(), once.                   *)
ClientGivesUp(k, dead) ==
    /\ "ws" \in res[k].live
    /\ home[k] \notin autoStop
    /\ autoStop' = autoStop \cup {home[k]}
    /\ Stop(home[k], IF dead THEN [res EXCEPT ![k].live = @ \ {"ws"}] ELSE res,
            RequestStop(phase))

(* A capture error that is not recoverable: stop(), then cancelStart().    *)
CaptureFails(k) ==
    /\ native = k
    /\ "error" \in res[k].live
    /\ Stop(home[k], res, CancelStart(RequestStop(phase)))
    /\ UNCHANGED autoStop

(* A client that lives on out of reach of the refs exhausts its budget     *)
(* when its instance has stopped by itself already: it is only shown.      *)
ClientDies(k) ==
    /\ "ws" \in res[k].live
    /\ home[k] \in autoStop
    /\ res' = [res EXCEPT ![k].live = @ \ {"ws"}]
    /\ conn' = "failed"
    /\ UNCHANGED <<phase, sessionId, perm, uiVars, flowVars, ended, probes, os, rustVars>>

(* stop_recording takes the session that is in the slot by now, if any,    *)
(* and then drains it.                                                     *)
NativeStops ==
    /\ stops > 0
    /\ stops' = stops - 1
    /\ drains' = drains \cup {native}
    /\ native' = None
    /\ UNCHANGED <<phase, sessionId, perm, uiVars, flowVars, rendered, os>>

(* stop_recording answers, with its result or with NotRecording.           *)
StopReplies(s) ==
    /\ s \in drains
    /\ drains' = drains \ {s}
    /\ phase' = ConfirmStop(phase)
    /\ UNCHANGED <<uiVars, sessionId, os, perm, flowVars, native, stops>>
    /\ Render(res, conn)

(* A live client publishes its phase; all of them write the same store.    *)
ClientPublishes(k) ==
    /\ "ws" \in res[k].live
    /\ conn' = "up"
    /\ UNCHANGED <<phase, sessionId, perm, uiVars, flowVars, ended, probes, res, os, rustVars>>

-----------------------------------------------------------------------------
(* Continue of PermissionPrompt, disabled in phase requesting-permissions; *)
(* a start() that is cancelled ends that phase while a request is pending. *)
Waiting == {w \in (0..MaxStarts) \X (1..MaxRequests) : w[2] <= requests[w[1]]}

RequestPermissions ==
    /\ shell # Null /\ dialog
    /\ phase # "requesting-permissions" /\ Cardinality(Waiting) < MaxRequests
    /\ requests' = [requests EXCEPT ![shell] = @ + 1]
    /\ phase' = BeginPermissionRequest(phase)
    /\ UNCHANGED <<view, shell, dialog, sessionId, perm, flowVars, os, rustVars>>
    /\ Render(res, conn)

(* requestAudioPermissions() resolves: cancelStart(), and a grant goes on  *)
(* with start() on the instance that asked.  "denied" stands for a failed  *)
(* request too.                                                            *)
RequestResolves(asker, answer) ==
    /\ requests[asker] > 0
    /\ requests' = [requests EXCEPT ![asker] = @ - 1]
    /\ os' = IF os = "not-determined" THEN answer ELSE os
    /\ SetPermission(os')
    /\ \/ os' = "granted" /\ Start(<<"shell", asker>>, CancelStart(phase))
       \/ /\ os' # "granted"
          /\ phase' = CancelStart(phase)
          /\ UNCHANGED <<starts, stage, home>>
    /\ UNCHANGED <<view, shell, sessionId, autoStop, rustVars>>
    /\ Render(res, conn)

(* The user grants in the system settings what was denied.                 *)
SettingsChange ==
    /\ os = "denied"
    /\ os' = "granted"
    /\ UNCHANGED <<phase, sessionId, perm, uiVars, flowVars, rendered, rustVars>>

(* "Not now" or Escape.                                                    *)
DismissPrompt ==
    /\ dialog
    /\ dialog' = FALSE
    /\ UNCHANGED <<phase, sessionId, perm, view, shell, requests, flowVars, rendered, os, rustVars>>

(* The read of the permissions when a component with the hook mounts.      *)
PermissionsRead(c) ==
    /\ c \in probes
    /\ probes' = probes \ {c}
    /\ SetPermission(os)
    /\ UNCHANGED <<phase, sessionId, view, shell, requests, flowVars, ended, res, conn, os, rustVars>>

(* "Back to home" of SessionEndedView: reset() of the store.               *)
GoHome ==
    /\ ended # Null
    /\ phase' = "idle"
    /\ sessionId' = None
    /\ SetPermission("unknown")
    /\ UNCHANGED <<view, shell, requests, flowVars, os, rustVars>>
    /\ Render(res, conn)

(* goHistory() and openMeeting(): from the ended view, or by the header, a *)
(* shortcut or a recent meeting while history may be browsed; goRecording() *)
(* goes back.                                                              *)
Navigate ==
    /\ shell # Null
    /\ \/ /\ view = "recording"
          /\ ended # Null \/ CanBrowseHistory(phase)
          /\ view' = "history"
       \/ /\ view = "history"
          /\ view' = "recording"
    /\ UNCHANGED <<phase, shell, dialog, requests, sessionId, perm, flowVars, os, rustVars>>
    /\ Render(res, conn)

(* Logout unmounts AppShell and what it shows; every hook tears down.  The *)
(* stores, and the native session, are left as they are.                   *)
Logout ==
    /\ shell # Null
    /\ shell' = Null /\ ended' = Null /\ probes' = {} /\ dialog' = FALSE
    /\ res' = TeardownWs(IF ended = Null THEN res
                         ELSE TeardownWs(res, <<"ended", ended>>),
                         <<"shell", shell>>)
    /\ conn' = "idle"
    /\ UNCHANGED <<phase, sessionId, perm, view, requests, flowVars, os, rustVars>>

Login ==
    /\ shell = Null
    /\ shell' = starts
    /\ dialog' = (perm = "not-determined")
    /\ ended' = IF EndedShown(starts, view, phase) THEN starts ELSE Null
    /\ probes' = {"shell"} \cup (IF EndedShown(starts, view, phase) THEN {"ended"} ELSE {})
    /\ UNCHANGED <<phase, sessionId, perm, view, requests, flowVars, res, conn, os, rustVars>>

FlowStep(k) ==
    \/ CheckResolves(k)
    \/ StartFails(k) \/ MeetingCreated(k) \/ NativeStarts(k) \/ Started(k)
    \/ Listening(k)

Next ==
    \/ StartFromShell \/ StartNew \/ StopClicked
    \/ \E k \in Starts :
        \/ FlowStep(k)
        \/ \E dead \in BOOLEAN : ClientGivesUp(k, dead)
        \/ ClientDies(k) \/ CaptureFails(k) \/ ClientPublishes(k)
    \/ NativeStops
    \/ \E s \in 0..MaxStarts : StopReplies(s)
    \/ RequestPermissions \/ DismissPrompt
    \/ \E asker \in 0..MaxStarts, answer \in {"granted", "denied"} :
          RequestResolves(asker, answer)
    \/ \E c \in {"shell", "ended"} : PermissionsRead(c)
    \/ SettingsChange
    \/ GoHome \/ Navigate \/ Logout \/ Login

Spec == Init /\ [][Next]_vars

(* Commands of the Rust core and requests of the backend are answered.     *)
(* Nothing is assumed of the user, the network or the OS prompts.          *)
Fairness ==
    /\ \A k \in Starts : WF_vars(FlowStep(k))
    /\ WF_vars(NativeStops) /\ WF_vars(\E s \in drains : StopReplies(s))

FairSpec == Spec /\ Fairness

-----------------------------------------------------------------------------
TypeOK ==
    /\ phase \in Phases
    /\ sessionId \in 0..MaxStarts
    /\ os \in Answers
    /\ perm \in PermStates
    /\ conn \in ConnKinds
    /\ view \in {"recording", "history"}
    /\ shell \in 0..MaxStarts \cup {Null}
    /\ ended \in 0..MaxStarts \cup {Null}
    /\ dialog \in BOOLEAN
    /\ requests \in [0..MaxStarts -> Nat]
    /\ probes \subseteq {"shell", "ended"}
    /\ starts \in 0..MaxStarts
    /\ stage \in [Starts -> Stages]
    /\ home \in [Starts -> Instances]
    /\ res \in [Starts -> [live : SUBSET Refs, held : SUBSET Refs]]
    /\ autoStop \subseteq Instances
    /\ native \in 0..MaxStarts
    /\ stops \in Nat
    /\ drains \subseteq 0..MaxStarts

(* A phase that disables the record button has something pending behind it *)
(* that will end it, whatever cancelled, overtook or outlived what.        *)
BusyHasFlow ==
    /\ phase = "checking-permissions" => \E k \in Starts : stage[k] = "check"
    /\ phase = "requesting-permissions" => \E m \in 0..MaxStarts : requests[m] > 0
    /\ phase = "starting" =>
        \E k \in Starts : stage[k] \in {"create", "native", "started"}
    /\ phase = "stopping" => stops > 0 \/ drains # {}

(* A listener forwards through the wsRef of its instance, which may hold   *)
(* another session's client by then.  While a session runs, its audio is   *)
(* forwarded once and to its own client only, whatever listeners earlier   *)
(* sessions have left behind.                                              *)
AudioToOwnSocket ==
    \A k, j \in Starts :
        native # None /\ Hears(k, native) /\ home[j] = home[k] /\ "ws" \in res[j].held
            => k = native /\ j = native

(* What the interface calls a recording streams: its client is alive and   *)
(* visible in the footer, as long as the shell that started it is mounted. *)
RecordingIsStreamed ==
    phase = "recording" /\ home[sessionId] = <<"shell", shell>> =>
        "ws" \in res[sessionId].live /\ StatusShown

(* A recording is left only through stop(): no cancellation of another     *)
(* start, no permission flow and no second confirmation changes it.        *)
LeftByStopOnly ==
    [][phase = "recording" /\ phase' # "recording" =>
        phase' = "stopping" /\ stops' = stops + 1 /\ sessionId' = sessionId]_vars

(* Busy phases end: the record button is not disabled for good.            *)
BusyPhaseResolves ==
    []<>(phase \notin {"checking-permissions", "starting", "stopping"})

-----------------------------------------------------------------------------
(* What comments say of the program.                                       *)

(* A start begins "from a cold idle or after a prior session ended" and    *)
(* "must not be re-entered mid-session" (recording-phase.ts): once the     *)
(* interface says that the session has ended, nothing records.             *)
EndedMeansEnded == phase = "stopped" => native = None

=============================================================================
