--------------------------- MODULE MeetingDetection ---------------------------
(***************************************************************************)
(* Automatic meeting detection: the Rust monitor (detection/monitor.rs),   *)
(* the commands that start, stop and silence it (lib.rs), and the webview  *)
(* that shows the prompt (detection-store.ts, meeting-detection-prompt.tsx,*)
(* use-meeting-detection.ts).                                              *)
(*                                                                         *)
(* A monitor is a thread that every POLL_INTERVAL samples the machine and  *)
(* the recording flag, advances its state machine under a lock, and emits  *)
(* the resulting edge after the lock is released.  The webview issues its  *)
(* commands without waiting for them, and each runs as a task of its own,  *)
(* so commands in flight take effect in any order.  A monitor that is      *)
(* stopped is replaced by a fresh one, so monitors are numbered.           *)
(*                                                                         *)
(* "call" is the fused signal: the known application that is up while the  *)
(* microphone is hot.  A failed poll changes nothing and is left out.      *)
(***************************************************************************)
EXTENDS Integers, Sequences, FiniteSets

CONSTANTS
    Apps,             \* registry ids of the known conferencing applications
    NoApp,            \* "no call": no known application, or a cold microphone
    DebouncePolls,    \* FsmConfig.debounce_polls
    MaxMoves,         \* bound: calls begun and user gestures in a behaviour
    MaxMonitors,      \* bound: times detection is switched on
    DeliveryBeatsPoll \* events and commands settle within one POLL_INTERVAL

ASSUME DetectionAssumption ==
    /\ NoApp \notin Apps
    /\ DebouncePolls \in Nat \ {0}
    /\ MaxMoves \in Nat
    /\ MaxMonitors \in Nat \ {0}
    /\ DeliveryBeatsPoll \in BOOLEAN

VARIABLES
    call,       \* the application a call is going on in, or NoApp
    moves,      \* bound: how many of MaxMoves are spent
    fsm,        \* per monitor: its DetectionFsm
    thread,     \* per monitor: where its poll thread is
    sample,     \* per monitor: what the poll read before taking the lock
    edge,       \* per monitor: the Edge step() returned, not yet emitted
    current,    \* DetectionMonitorState.monitor, 0 when there is none
    switches,   \* number of times detection was switched on
    events,     \* Tauri events on their way to the webview
    inflight,   \* detection commands issued and not yet executed
    issued,     \* number of stop and silencing commands issued so far
    enabled,    \* signed in and "Auto-detect meetings" on
    banner,     \* useDetectionStore().active
    phase,      \* useRecordingStore().phase
    native,     \* the recording commands: session and recording_active flag
    streak,     \* history, per monitor: the run of equal polls, and its prompts
    nevers      \* history: apps whose "never" gesture reached the native side

nativeVars == <<fsm, thread, sample, edge, current, streak>>
uiVars     == <<enabled, banner, phase, native>>
cmdVars    == <<inflight, issued, switches>>
vars       == <<call, moves, nativeVars, uiVars, cmdVars, events, nevers>>

Monitors == 1..MaxMonitors
SomeApp  == Apps \cup {NoApp}

NoMeeting == [app |-> NoApp, id |-> 0]
NoPending == [app |-> NoApp, count |-> 0]
NoEdge    == [kind |-> "none", app |-> NoApp, id |-> 0]
NoBanner  == [app |-> NoApp, id |-> 0, by |-> 0]
NoStreak  == [app |-> NoApp, len |-> 0, prompts |-> 0]
NoSample  == [app |-> NoApp, recording |-> FALSE]

Detected(app, id) == [kind |-> "detected", app |-> app, id |-> id]
Ended(id)         == [kind |-> "ended", app |-> NoApp, id |-> id]

NewFsm == [active |-> NoMeeting, pending |-> NoPending, next |-> 1,
           suppressed |-> {}, snooze |-> "off"]

(* recording_active: set after the session is stored, cleared before it is   *)
(* taken out again.                                                          *)
RecordingFlag == native = "flagged"

-----------------------------------------------------------------------------
(* The state machine of monitor.rs: each operator is the state after.        *)

(* Mutant: the app is cleared from the prompt but not remembered.            *)
SuppressOnce(f, app) ==
    [f EXCEPT !.pending = NoPending,
              !.active = IF f.active.app = app THEN NoMeeting ELSE f.active]

(* suppress_app(): no Ended edge, the webview has dismissed the prompt.      *)
Suppress(f, app) ==
    [f EXCEPT !.suppressed = f.suppressed \cup {app},
              !.pending = NoPending,
              !.active = IF f.active.app = app THEN NoMeeting ELSE f.active]

(* Mutant: the active meeting survives the snooze.                           *)
SnoozeKeepsActive(f) == [f EXCEPT !.snooze = "on", !.pending = NoPending]

(* snooze(): likewise; the deadline lies ahead until SnoozeElapses.          *)
Snooze(f) ==
    [f EXCEPT !.snooze = "on", !.pending = NoPending, !.active = NoMeeting]

(* The candidate once snooze and "never" have masked the fused signal.       *)
Candidate(f, app) ==
    IF f.snooze = "on" \/ app \in f.suppressed THEN NoApp ELSE app

Confirmed(f, app) ==
    (IF f.pending.app = app THEN f.pending.count + 1 ELSE 1) >= DebouncePolls

(* Mutants: the half-counted candidate stays; the meeting ends unannounced.  *)
WithdrawKeepsPending(f) ==
    [state |-> [f EXCEPT !.active = NoMeeting],
     edge  |-> IF f.active = NoMeeting THEN NoEdge ELSE Ended(f.active.id)]

WithdrawSilently(f) ==
    [state |-> [f EXCEPT !.pending = NoPending, !.active = NoMeeting],
     edge  |-> NoEdge]

(* step() when nothing is to be prompted: recording, or no candidate.        *)
Withdraw(f) ==
    [state |-> [f EXCEPT !.pending = NoPending, !.active = NoMeeting],
     edge  |-> IF f.active = NoMeeting THEN NoEdge ELSE Ended(f.active.id)]

(* A candidate while a meeting is active: the same one, or its successor.    *)
Follow(f, app) ==
    IF f.active.app = app
    THEN [state |-> [f EXCEPT !.pending = NoPending], edge |-> NoEdge]
    ELSE [state |-> [f EXCEPT !.active = NoMeeting,
                              !.pending = [app |-> app, count |-> 1]],
          edge  |-> Ended(f.active.id)]

(* Mutant: the prompt is issued but the meeting is not remembered.           *)
DebounceForgets(f, app) ==
    IF Confirmed(f, app)
    THEN [state |-> [f EXCEPT !.pending = NoPending, !.next = f.next + 1],
          edge  |-> Detected(app, f.next)]
    ELSE [state |-> [f EXCEPT !.pending = [app |-> app, count |-> 1]],
          edge  |-> NoEdge]

(* A candidate while idle: count it, and prompt once it has persisted.       *)
Debounce(f, app) ==
    IF Confirmed(f, app)
    THEN [state |-> [f EXCEPT !.pending = NoPending, !.next = f.next + 1,
                              !.active = [app |-> app, id |-> f.next]],
          edge  |-> Detected(app, f.next)]
    ELSE [state |-> [f EXCEPT !.pending =
                        [app |-> app,
                         count |-> IF f.pending.app = app
                                   THEN f.pending.count + 1 ELSE 1]],
          edge  |-> NoEdge]

StepFsm(f, s) ==
    LET g    == [f EXCEPT !.snooze = IF f.snooze = "due" THEN "off" ELSE f.snooze]
        cand == Candidate(g, s.app)
    IN  IF s.recording THEN Withdraw(f)
        ELSE IF cand = NoApp THEN Withdraw(g)
        ELSE IF g.active = NoMeeting THEN Debounce(g, cand)
        ELSE Follow(g, cand)

(* History: the run of consecutive polls that read the same call, counted    *)
(* up to DebouncePolls, and the prompts it produced.                         *)
Streak(k, s, e) ==
    IF s.recording \/ s.app = NoApp THEN NoStreak
    ELSE [app     |-> s.app,
          len     |-> IF k.app # s.app THEN 1
                      ELSE IF k.len < DebouncePolls THEN k.len + 1 ELSE k.len,
          prompts |-> (IF k.app = s.app THEN k.prompts ELSE 0)
                      + (IF e.kind = "detected" THEN 1 ELSE 0)]

-----------------------------------------------------------------------------
Meetings  == [app : SomeApp, id : Nat]
Pendings  == [app : SomeApp, count : {1} \cup 0..(DebouncePolls - 1)]
FsmStates ==
    [active     : Meetings,
     pending    : Pendings,
     next       : Nat,
     suppressed : SUBSET SomeApp,
     snooze     : {"off", "on", "due"}]
Samples == [app : SomeApp, recording : BOOLEAN]
Edges   == [kind : {"none", "detected", "ended"}, app : SomeApp, id : Nat]
Streaks == [app : SomeApp, len : Nat, prompts : Nat]
Events  == [kind : {"detected", "ended"}, app : SomeApp, id : Nat, by : Monitors]

Commands ==
    [name : {"stop", "snooze", "never"}, app : SomeApp, n : Nat]
        \cup [name : {"start"}, app : {NoApp}, n : Monitors]

TypeOK ==
    /\ call \in SomeApp /\ moves \in 0..MaxMoves
    /\ fsm \in [Monitors -> FsmStates]
    /\ thread \in [Monitors -> {"unborn", "waiting", "sampled", "stepped", "gone"}]
    /\ sample \in [Monitors -> Samples]
    /\ edge \in [Monitors -> Edges]
    /\ current \in 0..MaxMonitors /\ switches \in 0..MaxMonitors
    /\ events \in Seq(Events)
    /\ inflight \subseteq Commands /\ issued \in Nat
    /\ enabled \in BOOLEAN
    /\ banner \in [app : SomeApp, id : Nat, by : 0..MaxMonitors]
    /\ phase \in {"idle", "starting", "recording", "stopping", "stopped"}
    /\ native \in {"off", "capturing", "flagged", "releasing"}
    /\ streak \in [Monitors -> Streaks]
    /\ nevers \subseteq SomeApp

Init ==
    /\ call = NoApp /\ moves = 0
    /\ fsm = [m \in Monitors |-> NewFsm]
    /\ thread = [m \in Monitors |-> "unborn"]
    /\ sample = [m \in Monitors |-> NoSample]
    /\ edge = [m \in Monitors |-> NoEdge]
    /\ current = 0 /\ switches = 0
    /\ events = <<>> /\ inflight = {} /\ issued = 0
    /\ enabled = FALSE /\ banner = NoBanner
    /\ phase = "idle" /\ native = "off"
    /\ streak = [m \in Monitors |-> NoStreak]
    /\ nevers = {}

Move == moves < MaxMoves /\ moves' = moves + 1

-----------------------------------------------------------------------------
(* The machine: a call begins, is replaced, or ends.                         *)
CallBegins(a) ==
    /\ Move
    /\ call # a /\ call' = a
    /\ UNCHANGED <<nativeVars, uiVars, cmdVars, events, nevers>>

CallEnds ==
    /\ call # NoApp /\ call' = NoApp
    /\ UNCHANGED <<moves, nativeVars, uiVars, cmdVars, events, nevers>>

SnoozeElapses(m) ==
    /\ fsm[m].snooze = "on"
    /\ fsm' = [fsm EXCEPT ![m].snooze = "due"]
    /\ UNCHANGED <<call, moves, thread, sample, edge, current, streak,
                   uiVars, cmdVars, events, nevers>>

-----------------------------------------------------------------------------
(* The poll thread of monitor m.                                             *)

AtRest(m) == thread[m] \in {"unborn", "waiting", "gone"}

(* recv_timeout() times out; source.poll() and the flag are read, unlocked.  *)
Poll(m) ==
    /\ thread[m] = "waiting" /\ m = current
    /\ DeliveryBeatsPoll => /\ events = <<>> /\ inflight = {}
                            /\ \A n \in Monitors : AtRest(n)
    /\ sample' = [sample EXCEPT ![m] = [app |-> call, recording |-> RecordingFlag]]
    /\ thread' = [thread EXCEPT ![m] = "sampled"]
    /\ UNCHANGED <<call, moves, fsm, edge, current, streak,
                   uiVars, cmdVars, events, nevers>>

(* step() under the lock.                                                    *)
Step(m) ==
    LET r == StepFsm(fsm[m], sample[m]) IN
    /\ thread[m] = "sampled"
    /\ fsm' = [fsm EXCEPT ![m] = r.state]
    /\ edge' = [edge EXCEPT ![m] = r.edge]
    /\ streak' = [streak EXCEPT ![m] = Streak(streak[m], sample[m], r.edge)]
    /\ thread' = [thread EXCEPT ![m] = "stepped"]
    /\ UNCHANGED <<call, moves, sample, current, uiVars, cmdVars,
                   events, nevers>>

(* The edge is emitted with the lock released.                               *)
Emit(m) ==
    /\ thread[m] = "stepped"
    /\ events' = IF edge[m].kind = "none" THEN events
                 ELSE Append(events, [kind |-> edge[m].kind, app |-> edge[m].app,
                                      id |-> edge[m].id, by |-> m])
    /\ edge' = [edge EXCEPT ![m] = NoEdge]
    /\ thread' = [thread EXCEPT ![m] = "waiting"]
    /\ UNCHANGED <<call, moves, fsm, sample, current, streak,
                   uiVars, cmdVars, nevers>>

(* recv_timeout() returns the stop signal that drop() has sent.              *)
Exit(m) ==
    /\ thread[m] = "waiting" /\ m # current
    /\ thread' = [thread EXCEPT ![m] = "gone"]
    /\ UNCHANGED <<call, moves, fsm, sample, edge, current, streak,
                   uiVars, cmdVars, events, nevers>>

-----------------------------------------------------------------------------
(* The detection commands, each an asynchronous task.                        *)

StartDetection(c) ==
    /\ c.name = "start"
    /\ inflight' = inflight \ {c}
    /\ \/ current # 0 /\ UNCHANGED <<current, thread>>
       \/ /\ current = 0 /\ current' = c.n
          /\ thread' = [thread EXCEPT ![c.n] = "waiting"]
    /\ UNCHANGED <<call, moves, fsm, sample, edge, streak, issued, switches,
                   uiVars, events, nevers>>

(* The monitor is taken and told to stop; its thread ends when it next waits. *)
StopDetection(c) ==
    /\ c.name = "stop"
    /\ inflight' = inflight \ {c}
    /\ current' = 0
    /\ UNCHANGED <<call, moves, fsm, thread, sample, edge, streak, issued, switches,
                   uiVars, events, nevers>>

DetectionSuppress(c) ==
    /\ c.name \in {"snooze", "never"}
    /\ inflight' = inflight \ {c}
    /\ \/ current = 0 /\ UNCHANGED <<fsm, streak, nevers>>
       \/ /\ current # 0 /\ c.name = "snooze"
          /\ fsm' = [fsm EXCEPT ![current] = Snooze(fsm[current])]
          /\ streak' = [streak EXCEPT ![current].prompts = 0]
          /\ UNCHANGED nevers
       \/ /\ current # 0 /\ c.name = "never"
          /\ fsm' = [fsm EXCEPT ![current] = Suppress(fsm[current], c.app)]
          /\ nevers' = nevers \cup {c.app}
          /\ UNCHANGED streak
    /\ UNCHANGED <<call, moves, thread, sample, edge, current, issued,
                   switches, uiVars, events>>

-----------------------------------------------------------------------------
(* The webview.                                                              *)

(* n tells commands apart; the n of a start is the monitor it may spawn.     *)
Issue(name, app) ==
    /\ inflight' = inflight \cup {[name |-> name, app |-> app, n |-> issued]}
    /\ issued' = issued + 1
    /\ UNCHANGED switches

(* The effect of useMeetingDetection: its cleanup stops, then it runs again.  *)
SwitchOn ==
    /\ Move
    /\ ~enabled /\ enabled' = TRUE
    /\ switches < MaxMonitors /\ switches' = switches + 1
    /\ inflight' = inflight \cup {[name |-> "stop", app |-> NoApp, n |-> issued],
                                 [name |-> "start", app |-> NoApp, n |-> switches + 1]}
    /\ issued' = issued + 1
    /\ UNCHANGED <<call, nativeVars, banner, phase, native, events, nevers>>

SwitchOff ==
    /\ enabled /\ enabled' = FALSE
    /\ inflight' = inflight \cup {[name |-> "stop", app |-> NoApp, n |-> issued],
                                 [name |-> "stop", app |-> NoApp, n |-> issued + 1]}
    /\ issued' = issued + 2
    /\ UNCHANGED <<call, moves, switches, nativeVars, banner, phase, native,
                   events, nevers>>

(* Mutant: the end of a meeting is ignored while the recorder is busy.       *)
DeliverWhenIdle ==
    /\ events # <<>>
    /\ LET e == Head(events) IN
         banner' = IF phase # "idle" THEN banner
                   ELSE IF e.kind = "detected"
                   THEN [app |-> e.app, id |-> e.id, by |-> e.by]
                   ELSE IF banner.id = e.id THEN NoBanner ELSE banner
    /\ events' = Tail(events)
    /\ UNCHANGED <<call, moves, nativeVars, enabled, phase, native,
                   cmdVars, nevers>>

(* onDetected() and onEnded() of the detection store.                        *)
Deliver ==
    /\ events # <<>>
    /\ LET e == Head(events) IN
         banner' = IF e.kind = "detected"
                   THEN IF phase # "idle" THEN banner
                        ELSE [app |-> e.app, id |-> e.id, by |-> e.by]
                   ELSE IF banner.id = e.id THEN NoBanner ELSE banner
    /\ events' = Tail(events)
    /\ UNCHANGED <<call, moves, nativeVars, enabled, phase, native,
                   cmdVars, nevers>>

(* A button of the banner, which is rendered only while the recorder is idle. *)
Answer ==
    /\ banner # NoBanner /\ phase = "idle"
    /\ banner' = NoBanner

AcceptPrompt ==
    /\ Move /\ Answer
    /\ phase' = "starting"
    /\ UNCHANGED <<call, nativeVars, enabled, native, cmdVars, events, nevers>>

DismissPrompt ==
    /\ Answer
    /\ UNCHANGED <<call, moves, nativeVars, enabled, phase, native, cmdVars,
                   events, nevers>>

SilencePrompt(name) ==
    /\ Move /\ Answer
    /\ Issue(name, banner.app)
    /\ UNCHANGED <<call, nativeVars, enabled, phase, native, events, nevers>>

-----------------------------------------------------------------------------
(* Recording, as far as detection sees it.                                   *)

Record ==
    /\ Move
    /\ phase \in {"idle", "stopped"} /\ phase' = "starting"
    /\ UNCHANGED <<call, nativeVars, enabled, banner, native, cmdVars,
                   events, nevers>>

(* cancelStart(): no permission, no meeting row, or no capture device.       *)
StartFails ==
    /\ phase = "starting" /\ native = "off" /\ phase' = "idle"
    /\ UNCHANGED <<call, moves, nativeVars, enabled, banner, native,
                   cmdVars, events, nevers>>

(* start_recording stores the session, releases the lock, raises the flag.   *)
StoreSession ==
    /\ phase = "starting" /\ native = "off" /\ native' = "capturing"
    /\ UNCHANGED <<call, moves, nativeVars, enabled, banner, phase,
                   cmdVars, events, nevers>>

RaiseFlag ==
    /\ native = "capturing" /\ native' = "flagged" /\ phase' = "recording"
    /\ UNCHANGED <<call, moves, nativeVars, enabled, banner, cmdVars,
                   events, nevers>>

StopClick ==
    /\ phase = "recording" /\ phase' = "stopping"
    /\ UNCHANGED <<call, moves, nativeVars, enabled, banner, native,
                   cmdVars, events, nevers>>

(* stop_recording lowers the flag up front, then takes and stops the session. *)
LowerFlag ==
    /\ phase = "stopping" /\ native = "flagged" /\ native' = "releasing"
    /\ UNCHANGED <<call, moves, nativeVars, enabled, banner, phase,
                   cmdVars, events, nevers>>

ReleaseSession ==
    /\ native = "releasing" /\ native' = "off" /\ phase' = "stopped"
    /\ UNCHANGED <<call, moves, nativeVars, enabled, banner, cmdVars,
                   events, nevers>>

(* The user leaves the summary of the ended session.                         *)
LeaveSummary ==
    /\ phase = "stopped" /\ phase' = "idle"
    /\ UNCHANGED <<call, moves, nativeVars, enabled, banner, native,
                   cmdVars, events, nevers>>

-----------------------------------------------------------------------------
PollThread(m) == Poll(m) \/ Step(m) \/ Emit(m) \/ Exit(m)
Command(c)    == StartDetection(c) \/ StopDetection(c) \/ DetectionSuppress(c)
Recorder      == \/ Record \/ StartFails \/ StoreSession \/ RaiseFlag
                 \/ StopClick \/ LowerFlag \/ ReleaseSession \/ LeaveSummary
Webview       == \/ SwitchOn \/ SwitchOff \/ Deliver \/ AcceptPrompt \/ DismissPrompt
                 \/ \E name \in {"snooze", "never"} : SilencePrompt(name)

Next ==
    \/ \E a \in Apps : CallBegins(a)
    \/ CallEnds
    \/ \E m \in Monitors : SnoozeElapses(m) \/ PollThread(m)
    \/ \E c \in inflight : Command(c)
    \/ Webview
    \/ Recorder

Spec == Init /\ [][Next]_vars

(* Threads run, commands execute and events arrive; nothing is assumed of    *)
(* the user or of the calls.                                                 *)
Fairness ==
    /\ \A m \in Monitors : WF_vars(PollThread(m))
    /\ WF_vars(\E c \in inflight : Command(c))
    /\ WF_vars(Deliver)

FairSpec == Spec /\ Fairness

-----------------------------------------------------------------------------
(* A prompt is produced only by a call that consecutive polls have all read,  *)
(* as many of them as the debounce asks for: a blip, a recording or a change  *)
(* of application in between starts the count again (monitor.rs, step).       *)
PromptIsDebounced ==
    \A m \in Monitors : edge[m].kind = "detected" =>
        streak[m].app = edge[m].app /\ streak[m].len >= DebouncePolls

(* One uninterrupted call prompts at most once, however long it lasts and     *)
(* whatever the user silences meanwhile; only a snooze that has run out lets  *)
(* the same call prompt again (monitor.rs, active).                           *)
OnePromptPerCall == \A m \in Monitors : streak[m].prompts <= 1

(* How a monitor relates to the polls it has seen: what it counts or holds    *)
(* active is the call of the current run, it has not counted more polls than  *)
(* the run has, and a run that prompted is still active or was silenced.      *)
Tracks(f, k) ==
    /\ f.pending.app # NoApp =>
         f.pending.app = k.app /\ f.pending.count <= k.len
    /\ f.active # NoMeeting => f.active.app # NoApp /\ f.active.app = k.app
    /\ f.snooze = "on" => f.active = NoMeeting
    /\ k.prompts <= 1
    /\ k.prompts = 1 => f.active # NoMeeting \/ k.app \in f.suppressed

(* The inductive form of PromptIsDebounced and OnePromptPerCall.              *)
MonitorsTrackPolls ==
    PromptIsDebounced /\ \A m \in Monitors : Tracks(fsm[m], streak[m])

(* A banner always belongs to the meeting the running monitor holds active,   *)
(* or the event that takes it down is on its way: no gesture, recording or    *)
(* change of call orphans it (monitor.rs step/snooze/suppress_app together    *)
(* with onDetected and onEnded).  Detection is switched on once.              *)
BannerTracksMonitor ==
    (banner # NoBanner /\ current # 0) =>
        \/ fsm[current].active.id = banner.id
        \/ edge[current] = Ended(banner.id)
        \/ \E i \in DOMAIN events :
              events[i].kind = "ended" /\ events[i].id = banner.id

(* While a monitor runs, no banner is up for an application it was told never *)
(* to prompt for, nor any banner while it is snoozed, although the gesture is *)
(* applied after the banner is gone and edges are emitted after the unlock.   *)
SilencedAppNotShown ==
    (banner # NoBanner /\ current # 0) =>
        /\ banner.app \notin nevers
        /\ fsm[current].snooze # "on"

(* Once calls stop and detection stays on, the banner goes away by itself     *)
(* (the Ended edge, its event, and onEnded).                                  *)
BannerGoesAway == []<>(banner = NoBanner \/ call # NoApp \/ current = 0)
=============================================================================
