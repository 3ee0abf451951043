----------------------- MODULE MeetingDetectionProofs -----------------------
(***************************************************************************)
(* For every set of applications and every debounce: a prompt is always    *)
(* debounced, and one uninterrupted call prompts at most once.  And while  *)
(* one monitor is all there is and commands and events settle within a     *)
(* poll interval: the banner is that of the monitor's active meeting, and  *)
(* a silenced application is not shown.                                    *)
(***************************************************************************)
EXTENDS MeetingDetection, SequenceTheorems, TLAPS

(* What a poll with outcome r does to the run k, given the sample s.         *)
PollOK(k, s, r) ==
    /\ r.state \in FsmStates /\ r.edge \in Edges
    /\ Streak(k, s, r.edge) \in Streaks
    /\ Tracks(r.state, Streak(k, s, r.edge))
    /\ r.edge.kind = "detected" =>
         /\ Streak(k, s, r.edge).app = r.edge.app
         /\ Streak(k, s, r.edge).len >= DebouncePolls

LEMMA NoneTyped == NoMeeting \in Meetings /\ NoPending \in Pendings /\ NoEdge \in Edges
BY DetectionAssumption DEF NoMeeting, Meetings, NoPending, Pendings, NoEdge, Edges, SomeApp

(* A poll with nothing to prompt for: the recorder runs, no call is on, or   *)
(* the call is masked.                                                       *)
LEMMA WithdrawTracks ==
    ASSUME NEW f \in FsmStates, NEW k \in Streaks, NEW s \in Samples,
           Tracks(f, k),
           \/ s.recording \/ s.app = NoApp
           \/ f.snooze = "on" \/ s.app \in f.suppressed
    PROVE  PollOK(k, s, Withdraw(f))
<1> DEFINE r == Withdraw(f)
           q == Streak(k, s, r.edge)
<1>1. r.state \in FsmStates /\ r.edge \in Edges
  <2>1. r.state = [f EXCEPT !.pending = NoPending, !.active = NoMeeting]
    BY DEF Withdraw
  <2>2. f.active.id \in Nat
    BY DEF FsmStates, Meetings
  <2>3. r.edge \in Edges
    BY <2>2, NoneTyped DEF Withdraw, Ended, Edges, SomeApp
  <2> QED BY <2>1, <2>3, NoneTyped DEF FsmStates
<1>2. /\ r.state.pending.app = NoApp /\ r.state.active = NoMeeting
      /\ r.state.suppressed = f.suppressed
      /\ r.edge.kind # "detected"
  BY DEF Withdraw, FsmStates, NoPending, NoMeeting, NoEdge, Ended
<1>3. q \in Streaks
  BY <1>2, DetectionAssumption DEF Streak, Streaks, NoStreak, Samples, SomeApp
<1>4. q.prompts <= 1 /\ (q.prompts = 1 => q.app \in f.suppressed)
  <2>1. CASE s.recording \/ s.app = NoApp
    BY <2>1 DEF Streak, NoStreak
  <2>2. CASE ~(s.recording \/ s.app = NoApp) /\ k.app # s.app
    BY <1>2, <2>2 DEF Streak
  <2>3. CASE ~(s.recording \/ s.app = NoApp) /\ k.app = s.app
    <3>1. q.prompts = k.prompts /\ q.app = k.app
      BY <1>2, <2>3 DEF Streak, Streaks
    <3>2. k.prompts <= 1 /\ (k.prompts = 1 => k.app \in f.suppressed)
      BY <2>3 DEF Tracks
    <3> QED BY <3>1, <3>2
  <2> QED BY <2>1, <2>2, <2>3
<1> QED BY <1>1, <1>2, <1>3, <1>4 DEF PollOK, Tracks

(* The run after a poll that read a call while not recording.                *)
LEMMA RunGrows ==
    ASSUME NEW k \in Streaks, NEW s \in Samples, NEW e \in Edges,
           ~s.recording, s.app # NoApp
    PROVE  LET q == Streak(k, s, e) IN
           /\ q \in Streaks /\ q.app = s.app /\ q.len >= 1
           /\ k.app = s.app => q.len >= DebouncePolls \/ q.len = k.len + 1
           /\ (k.app # s.app /\ e.kind # "detected") => q.prompts = 0
           /\ (k.app = s.app /\ e.kind # "detected") => q.prompts = k.prompts
           /\ (k.app # s.app /\ e.kind = "detected") => q.prompts = 1
           /\ (k.app = s.app /\ e.kind = "detected") => q.prompts = k.prompts + 1
BY DetectionAssumption DEF Streak, Streaks, Samples, SomeApp

(* A call is read while a meeting is active.                                 *)
LEMMA FollowTracks ==
    ASSUME NEW f \in FsmStates, NEW k \in Streaks, NEW s \in Samples,
           Tracks(f, k), ~s.recording, s.app # NoApp,
           f.active # NoMeeting, f.snooze # "on"
    PROVE  PollOK(k, s, Follow(f, s.app))
<1> DEFINE r == Follow(f, s.app)
           q == Streak(k, s, r.edge)
<1>1. /\ r.state \in FsmStates /\ r.edge \in Edges /\ r.edge.kind # "detected"
      /\ r.state.suppressed = f.suppressed /\ r.state.snooze = f.snooze
  <2>1. s.app \in SomeApp /\ f.active.id \in Nat
    BY DEF Samples, FsmStates, Meetings
  <2>2. [app |-> s.app, count |-> 1] \in Pendings
    BY <2>1 DEF Pendings
  <2>3. Ended(f.active.id) \in Edges /\ Ended(f.active.id).kind # "detected"
    BY <2>1 DEF Ended, Edges, SomeApp
  <2>4. NoEdge.kind # "detected"
    BY DEF NoEdge
  <2>5. CASE f.active.app = s.app
    BY <2>4, <2>5, NoneTyped DEF Follow, FsmStates
  <2>6. CASE f.active.app # s.app
    BY <2>2, <2>3, <2>6, NoneTyped DEF Follow, FsmStates
  <2> QED BY <2>5, <2>6
<1>2. /\ q \in Streaks /\ q.app = s.app /\ q.len >= 1
      /\ q.prompts = IF k.app = s.app THEN k.prompts ELSE 0
  BY <1>1, RunGrows
<1>3. k.app = f.active.app /\ k.prompts <= 1
  BY DEF Tracks
<1>4. CASE f.active.app = s.app
  <2>1. r.state.active = f.active /\ r.state.pending.app = NoApp
    BY <1>4 DEF Follow, FsmStates, NoPending
  <2> QED BY <1>1, <1>2, <1>3, <1>4, <2>1 DEF PollOK, Tracks
<1>5. CASE f.active.app # s.app
  <2>1. /\ r.state.active = NoMeeting
        /\ r.state.pending.app = s.app /\ r.state.pending.count = 1
    BY <1>5 DEF Follow, FsmStates
  <2>2. q.prompts = 0
    BY <1>2, <1>3, <1>5
  <2> QED BY <1>1, <1>2, <2>1, <2>2 DEF PollOK, Tracks
<1> QED BY <1>4, <1>5

(* A call is read while idle: it is counted, or it has persisted.            *)
LEMMA DebounceTracks ==
    ASSUME NEW f \in FsmStates, NEW k \in Streaks, NEW s \in Samples,
           Tracks(f, k), ~s.recording, s.app # NoApp, s.app \notin f.suppressed,
           f.active = NoMeeting, f.snooze # "on"
    PROVE  PollOK(k, s, Debounce(f, s.app))
<1> DEFINE r == Debounce(f, s.app)
           q == Streak(k, s, r.edge)
           n == IF f.pending.app = s.app THEN f.pending.count + 1 ELSE 1
<1>1. n \in Nat /\ n >= 1
  BY DetectionAssumption DEF FsmStates, Pendings
<1>2. f.pending.app = s.app => k.app = s.app /\ f.pending.count <= k.len
  BY DEF Tracks
<1>3. k.app = s.app => k.prompts = 0
  BY DEF Tracks, Streaks
<1>4. Confirmed(f, s.app) <=> n >= DebouncePolls
  BY DEF Confirmed
<1>5. CASE n >= DebouncePolls
  <2>1. /\ r.edge = Detected(s.app, f.next)
        /\ r.state = [f EXCEPT !.pending = NoPending, !.next = f.next + 1,
                               !.active = [app |-> s.app, id |-> f.next]]
    BY <1>4, <1>5 DEF Debounce
  <2>2. /\ r.state \in FsmStates /\ r.edge \in Edges
        /\ r.edge.kind = "detected" /\ r.edge.app = s.app
        /\ r.state.pending.app = NoApp
        /\ r.state.active = [app |-> s.app, id |-> f.next]
        /\ r.state.snooze # "on"
    <3> HIDE DEF r
    <3>1. s.app \in SomeApp /\ f.next \in Nat
      BY DEF Samples, FsmStates
    <3>2. r.edge \in Edges /\ r.edge.kind = "detected" /\ r.edge.app = s.app
      BY <2>1, <3>1 DEF Edges, Detected
    <3>3. r.state \in FsmStates
      <4> DEFINE mtg == [app |-> s.app, id |-> f.next]
                 nxt == f.next + 1
      <4>1. mtg \in Meetings /\ nxt \in Nat
        BY <3>1 DEF Meetings
      <4>2. r.state = [f EXCEPT !.pending = NoPending, !.next = nxt, !.active = mtg]
        BY <2>1
      <4> HIDE DEF mtg, nxt
      <4> QED BY <4>1, <4>2, NoneTyped DEF FsmStates
    <3>4. /\ r.state.pending.app = NoApp
          /\ r.state.active = [app |-> s.app, id |-> f.next]
          /\ r.state.snooze # "on"
      BY <2>1 DEF FsmStates, NoPending
    <3> QED BY <3>2, <3>3, <3>4
  <2>3. r.state.active # NoMeeting /\ r.state.active.app = s.app
    BY <2>2 DEF NoMeeting
  <2>4. /\ q \in Streaks /\ q.app = s.app /\ q.prompts = 1 /\ q.len >= 1
        /\ k.app = s.app => q.len >= DebouncePolls \/ q.len = k.len + 1
    BY <1>3, <2>2, RunGrows
  <2>5. q.len >= DebouncePolls
    BY <1>2, <1>5, <2>4, DetectionAssumption DEF FsmStates, Pendings, Streaks
  <2> HIDE DEF r, q
  <2>6. Tracks(r.state, q)
    BY <2>2, <2>3, <2>4 DEF Tracks
  <2> QED BY <2>2, <2>4, <2>5, <2>6 DEF PollOK, r, q
<1>6. CASE ~(n >= DebouncePolls)
  <2>1. /\ r.edge = NoEdge
        /\ r.state = [f EXCEPT !.pending = [app |-> s.app, count |-> n]]
    BY <1>4, <1>6 DEF Debounce
  <2>2. n \in 0..(DebouncePolls - 1)
    BY <1>1, <1>6, DetectionAssumption
  <2> HIDE DEF n
  <2>3. /\ r.state \in FsmStates /\ r.edge \in Edges
        /\ r.edge.kind # "detected"
        /\ r.state.pending.app = s.app /\ r.state.pending.count = n
        /\ r.state.active = NoMeeting /\ r.state.snooze # "on"
    <3> HIDE DEF r
    <3>1. [app |-> s.app, count |-> n] \in Pendings
      BY <2>2 DEF Pendings, Samples
    <3>2. r.state \in FsmStates
      BY <2>1, <3>1 DEF FsmStates
    <3>3. r.edge \in Edges /\ r.edge.kind # "detected"
      BY <2>1, NoneTyped DEF NoEdge
    <3>4. /\ r.state.pending.app = s.app /\ r.state.pending.count = n
          /\ r.state.active = NoMeeting /\ r.state.snooze # "on"
      BY <2>1 DEF FsmStates
    <3> QED BY <3>2, <3>3, <3>4
  <2>4. /\ q \in Streaks /\ q.app = s.app /\ q.len >= 1 /\ q.prompts = 0
        /\ k.app = s.app => q.len >= DebouncePolls \/ q.len = k.len + 1
    BY <1>3, <2>3, RunGrows
  <2>5. n <= q.len
    BY <1>1, <1>2, <1>6, <2>4, DetectionAssumption DEF n, FsmStates, Pendings, Streaks
  <2> HIDE DEF r, q
  <2>6. Tracks(r.state, q)
    BY <2>3, <2>4, <2>5 DEF Tracks
  <2> QED BY <2>3, <2>4, <2>6 DEF PollOK, r, q
<1> QED BY <1>5, <1>6

(* One poll of the monitor, whatever it reads.                               *)
LEMMA StepTracks ==
    ASSUME NEW f \in FsmStates, NEW k \in Streaks, NEW s \in Samples, Tracks(f, k)
    PROVE  PollOK(k, s, StepFsm(f, s))
<1> DEFINE g == [f EXCEPT !.snooze = IF f.snooze = "due" THEN "off" ELSE f.snooze]
<1>1. /\ g \in FsmStates
      /\ g.active = f.active /\ g.pending = f.pending
      /\ g.suppressed = f.suppressed
      /\ g.snooze = IF f.snooze = "due" THEN "off" ELSE f.snooze
  BY DEF FsmStates
<1>2. Tracks(g, k)
  BY <1>1 DEF Tracks
<1>3. s.app \in SomeApp
  BY DEF Samples
<1> HIDE DEF g
<1>4. CASE s.recording
  <2>1. StepFsm(f, s) = Withdraw(f)
    BY <1>4 DEF StepFsm
  <2> QED BY <1>4, <2>1, WithdrawTracks
<1>5. CASE ~s.recording /\ Candidate(g, s.app) = NoApp
  <2>1. StepFsm(f, s) = Withdraw(g)
    BY <1>5 DEF StepFsm, g
  <2>2. s.app = NoApp \/ g.snooze = "on" \/ s.app \in g.suppressed
    BY <1>5 DEF Candidate
  <2> QED BY <1>1, <1>2, <2>1, <2>2, WithdrawTracks
<1>6. CASE ~s.recording /\ Candidate(g, s.app) # NoApp
  <2>1. /\ Candidate(g, s.app) = s.app /\ s.app # NoApp
        /\ g.snooze # "on" /\ s.app \notin g.suppressed
    BY <1>6 DEF Candidate
  <2>2. CASE g.active = NoMeeting
    <3>1. StepFsm(f, s) = Debounce(g, s.app)
      BY <1>6, <2>1, <2>2 DEF StepFsm, g
    <3> QED BY <1>1, <1>2, <1>6, <2>1, <2>2, <3>1, DebounceTracks
  <2>3. CASE g.active # NoMeeting
    <3>1. StepFsm(f, s) = Follow(g, s.app)
      BY <1>6, <2>1, <2>3 DEF StepFsm, g
    <3> QED BY <1>1, <1>2, <1>6, <2>1, <2>3, <3>1, FollowTracks
  <2> QED BY <2>2, <2>3
<1> QED BY <1>4, <1>5, <1>6

-----------------------------------------------------------------------------
(* "Never" and snooze, applied between two polls.                            *)
LEMMA SuppressTracks ==
    ASSUME NEW f \in FsmStates, NEW k \in Streaks, NEW a \in SomeApp,
           Tracks(f, k)
    PROVE  Suppress(f, a) \in FsmStates /\ Tracks(Suppress(f, a), k)
<1> DEFINE g == Suppress(f, a)
<1>1. g \in FsmStates
  BY NoneTyped DEF Suppress, FsmStates
<1>2. /\ g.suppressed = f.suppressed \cup {a} /\ g.pending.app = NoApp
      /\ g.snooze = f.snooze
      /\ g.active = IF f.active.app = a THEN NoMeeting ELSE f.active
  BY DEF Suppress, FsmStates, NoPending
<1> HIDE DEF g
<1>3. Tracks(g, k)
  <2>2. g.active = NoMeeting \/ g.active = f.active
    BY <1>2
  <2>3. f.active # NoMeeting => f.active.app = k.app
    BY DEF Tracks
  <2>4. k.prompts = 1 => g.active # NoMeeting \/ k.app \in g.suppressed
    BY <1>2, <2>3 DEF Tracks
  <2> QED BY <1>2, <2>2, <2>4 DEF Tracks
<1> QED BY <1>1, <1>3 DEF g

LEMMA SnoozeTracks ==
    ASSUME NEW f \in FsmStates, NEW k \in Streaks, Tracks(f, k)
    PROVE  /\ Snooze(f) \in FsmStates
           /\ [k EXCEPT !.prompts = 0] \in Streaks
           /\ Tracks(Snooze(f), [k EXCEPT !.prompts = 0])
<1>1. Snooze(f) \in FsmStates
  BY NoneTyped DEF Snooze, FsmStates
<1>2. [k EXCEPT !.prompts = 0] \in Streaks /\ [k EXCEPT !.prompts = 0].prompts = 0
  BY DEF Streaks
<1>3. Snooze(f).pending.app = NoApp /\ Snooze(f).active = NoMeeting
  BY DEF Snooze, FsmStates, NoPending
<1> QED BY <1>1, <1>2, <1>3 DEF Tracks

LEMMA ElapseTracks ==
    ASSUME NEW f \in FsmStates, NEW k \in Streaks, Tracks(f, k)
    PROVE  /\ [f EXCEPT !.snooze = "due"] \in FsmStates
           /\ Tracks([f EXCEPT !.snooze = "due"], k)
BY DEF FsmStates, Tracks

-----------------------------------------------------------------------------
(* The inductive invariant: the types, and what each monitor knows.          *)
MonitorTypeOK ==
    /\ fsm \in [Monitors -> FsmStates]
    /\ thread \in [Monitors -> {"unborn", "waiting", "sampled", "stepped", "gone"}]
    /\ sample \in [Monitors -> Samples]
    /\ edge \in [Monitors -> Edges]
    /\ current \in 0..MaxMonitors
    /\ streak \in [Monitors -> Streaks]

OutsideTypeOK ==
    /\ call \in SomeApp /\ moves \in 0..MaxMoves /\ switches \in 0..MaxMonitors
    /\ events \in Seq(Events)
    /\ inflight \subseteq Commands /\ issued \in Nat
    /\ enabled \in BOOLEAN
    /\ banner \in [app : SomeApp, id : Nat, by : 0..MaxMonitors]
    /\ phase \in {"idle", "starting", "recording", "stopping", "stopped"}
    /\ native \in {"off", "capturing", "flagged", "releasing"}
    /\ nevers \subseteq SomeApp

MonitorInv == MonitorTypeOK /\ MonitorsTrackPolls
Inv        == MonitorInv /\ OutsideTypeOK

LEMMA InitInv == Init => Inv
<1> SUFFICES ASSUME Init PROVE Inv
  OBVIOUS
<1>1. NewFsm \in FsmStates
  BY NoneTyped DEF NewFsm, FsmStates
<1>2. NoSample \in Samples /\ NoStreak \in Streaks
  BY DEF NoSample, Samples, NoStreak, Streaks, SomeApp
<1>3. MonitorTypeOK
  BY <1>1, <1>2, NoneTyped, DetectionAssumption DEF Init, MonitorTypeOK
<1>4. Tracks(NewFsm, NoStreak)
  BY DEF Tracks, NewFsm, NoStreak, NoPending
<1>5. MonitorsTrackPolls
  BY <1>4 DEF Init, MonitorsTrackPolls, PromptIsDebounced, NoEdge
<1>6. OutsideTypeOK
  <2>1. <<>> \in Seq(Events)
    OBVIOUS
  <2>2. /\ NoApp \in SomeApp /\ 0 \in 0..MaxMoves /\ 0 \in 0..MaxMonitors
        /\ NoBanner \in [app : SomeApp, id : Nat, by : 0..MaxMonitors]
    BY DetectionAssumption DEF SomeApp, NoBanner
  <2> QED BY <2>1, <2>2 DEF Init, OutsideTypeOK
<1> QED BY <1>3, <1>5, <1>6 DEF Inv, MonitorInv

LEMMA MonitorsUnchanged == MonitorInv /\ UNCHANGED nativeVars => MonitorInv'
BY DEF MonitorInv, MonitorTypeOK, MonitorsTrackPolls, PromptIsDebounced, nativeVars

(* A step that leaves the runs and the edges alone keeps the invariant when   *)
(* it keeps the types and what each state knows of its run.                   *)
LEMMA OneStateChanges ==
    ASSUME MonitorInv, NEW m \in Monitors, NEW f \in FsmStates, NEW k \in Streaks,
           Tracks(f, k), k.app = streak[m].app, k.len = streak[m].len,
           fsm' = [fsm EXCEPT ![m] = f], streak' = [streak EXCEPT ![m] = k],
           UNCHANGED <<thread, sample, edge, current>>
    PROVE  MonitorInv'
<1>1. MonitorTypeOK'
  BY DEF MonitorInv, MonitorTypeOK
<1>2. PromptIsDebounced'
  BY DEF MonitorInv, MonitorTypeOK, MonitorsTrackPolls, PromptIsDebounced
<1>3. ASSUME NEW n \in Monitors PROVE Tracks(fsm'[n], streak'[n])
  <2>1. CASE n = m
    BY <2>1 DEF MonitorInv, MonitorTypeOK
  <2>2. CASE n # m
    BY <2>2 DEF MonitorInv, MonitorTypeOK, MonitorsTrackPolls
  <2> QED BY <2>1, <2>2
<1> QED BY <1>1, <1>2, <1>3 DEF MonitorInv, MonitorsTrackPolls

-----------------------------------------------------------------------------
(* The poll thread.                                                          *)
LEMMA PollInv == ASSUME Inv, NEW m \in Monitors, Poll(m) PROVE Inv'
<1>1. [app |-> call, recording |-> RecordingFlag] \in Samples
  BY DEF Inv, OutsideTypeOK, Samples, RecordingFlag
<1>2. MonitorTypeOK'
  BY <1>1 DEF Inv, MonitorInv, MonitorTypeOK, Poll
<1>3. MonitorsTrackPolls'
  BY DEF Inv, MonitorInv, MonitorsTrackPolls, PromptIsDebounced, Poll
<1>4. OutsideTypeOK'
  BY DEF Inv, OutsideTypeOK, Poll, uiVars, cmdVars
<1> QED BY <1>2, <1>3, <1>4 DEF Inv, MonitorInv

LEMMA StepInv == ASSUME Inv, NEW m \in Monitors, Step(m) PROVE Inv'
<1> DEFINE r == StepFsm(fsm[m], sample[m])
           q == Streak(streak[m], sample[m], r.edge)
<1>1. /\ fsm[m] \in FsmStates /\ streak[m] \in Streaks /\ sample[m] \in Samples
      /\ Tracks(fsm[m], streak[m])
  BY DEF Inv, MonitorInv, MonitorTypeOK, MonitorsTrackPolls
<1>2. PollOK(streak[m], sample[m], r)
  BY <1>1, StepTracks
<1>3. /\ fsm' = [fsm EXCEPT ![m] = r.state] /\ edge' = [edge EXCEPT ![m] = r.edge]
      /\ streak' = [streak EXCEPT ![m] = q]
      /\ thread' = [thread EXCEPT ![m] = "stepped"]
      /\ UNCHANGED <<sample, current>>
  BY DEF Step
<1>4. /\ r.state \in FsmStates /\ r.edge \in Edges /\ q \in Streaks
      /\ Tracks(r.state, q)
      /\ r.edge.kind = "detected" => q.app = r.edge.app /\ q.len >= DebouncePolls
  BY <1>2 DEF PollOK
<1> HIDE DEF r, q
<1>5. MonitorTypeOK'
  BY <1>3, <1>4 DEF Inv, MonitorInv, MonitorTypeOK
<1>6. ASSUME NEW n \in Monitors
      PROVE  /\ Tracks(fsm'[n], streak'[n])
             /\ edge'[n].kind = "detected" =>
                  streak'[n].app = edge'[n].app /\ streak'[n].len >= DebouncePolls
  <2>1. CASE n = m
    BY <1>3, <1>4, <2>1 DEF Inv, MonitorInv, MonitorTypeOK
  <2>2. CASE n # m
    BY <1>3, <2>2
       DEF Inv, MonitorInv, MonitorTypeOK, MonitorsTrackPolls, PromptIsDebounced
  <2> QED BY <2>1, <2>2
<1>7. OutsideTypeOK'
  BY DEF Inv, OutsideTypeOK, Step, uiVars, cmdVars
<1> QED BY <1>5, <1>6, <1>7
        DEF Inv, MonitorInv, MonitorsTrackPolls, PromptIsDebounced

LEMMA EmitInv == ASSUME Inv, NEW m \in Monitors, Emit(m) PROVE Inv'
<1> DEFINE ev == [kind |-> edge[m].kind, app |-> edge[m].app,
                  id |-> edge[m].id, by |-> m]
<1>1. edge[m].kind # "none" => ev \in Events
  BY DEF Inv, MonitorInv, MonitorTypeOK, Edges, Events
<1>2. events' = events \/ (edge[m].kind # "none" /\ events' = Append(events, ev))
  BY DEF Emit
<1>3. MonitorTypeOK'
  BY NoneTyped DEF Inv, MonitorInv, MonitorTypeOK, Emit
<1>4. MonitorsTrackPolls'
  BY DEF Inv, MonitorInv, MonitorTypeOK, MonitorsTrackPolls, PromptIsDebounced,
         Emit, NoEdge
<1> HIDE DEF ev
<1>5. events' \in Seq(Events)
  BY <1>1, <1>2, AppendProperties DEF Inv, OutsideTypeOK
<1>6. OutsideTypeOK'
  BY <1>5 DEF Inv, OutsideTypeOK, Emit, uiVars, cmdVars
<1> QED BY <1>3, <1>4, <1>6 DEF Inv, MonitorInv

LEMMA ExitInv == ASSUME Inv, NEW m \in Monitors, Exit(m) PROVE Inv'
<1>1. MonitorTypeOK'
  BY DEF Inv, MonitorInv, MonitorTypeOK, Exit
<1>2. MonitorsTrackPolls'
  BY DEF Inv, MonitorInv, MonitorsTrackPolls, PromptIsDebounced, Exit
<1>3. OutsideTypeOK'
  BY DEF Inv, OutsideTypeOK, Exit, uiVars, cmdVars
<1> QED BY <1>1, <1>2, <1>3 DEF Inv, MonitorInv

LEMMA SnoozeElapsesInv == ASSUME Inv, NEW m \in Monitors, SnoozeElapses(m) PROVE Inv'
<1> DEFINE f == [fsm[m] EXCEPT !.snooze = "due"]
<1>1. /\ fsm[m] \in FsmStates /\ streak[m] \in Streaks
      /\ Tracks(fsm[m], streak[m])
  BY DEF Inv, MonitorInv, MonitorTypeOK, MonitorsTrackPolls
<1>2. f \in FsmStates /\ Tracks(f, streak[m])
  BY <1>1, ElapseTracks
<1>3. /\ fsm' = [fsm EXCEPT ![m] = f]
      /\ streak' = [streak EXCEPT ![m] = streak[m]]
      /\ UNCHANGED <<thread, sample, edge, current>>
  BY DEF SnoozeElapses, Inv, MonitorInv, MonitorTypeOK
<1> HIDE DEF f
<1>4. MonitorInv'
  BY <1>1, <1>2, <1>3, OneStateChanges DEF Inv
<1>5. OutsideTypeOK'
  BY DEF Inv, OutsideTypeOK, SnoozeElapses, uiVars, cmdVars
<1> QED BY <1>4, <1>5 DEF Inv

-----------------------------------------------------------------------------
(* The detection commands.                                                   *)
LEMMA StartInv == ASSUME Inv, NEW c \in inflight, StartDetection(c) PROVE Inv'
<1>1. c \in [name : {"start"}, app : {NoApp}, n : Monitors]
  BY DEF StartDetection, Inv, OutsideTypeOK, Commands
<1>2. MonitorTypeOK'
  <2>1. c.n \in Monitors /\ Monitors \subseteq 0..MaxMonitors
    BY <1>1 DEF Monitors
  <2> QED BY <2>1 DEF Inv, MonitorInv, MonitorTypeOK, StartDetection
<1>3. MonitorsTrackPolls'
  BY DEF Inv, MonitorInv, MonitorsTrackPolls, PromptIsDebounced, StartDetection
<1>4. OutsideTypeOK'
  BY DEF Inv, OutsideTypeOK, StartDetection, uiVars
<1> QED BY <1>2, <1>3, <1>4 DEF Inv, MonitorInv

LEMMA StopInv == ASSUME Inv, NEW c \in inflight, StopDetection(c) PROVE Inv'
<1>1. MonitorTypeOK'
  BY DetectionAssumption DEF Inv, MonitorInv, MonitorTypeOK, StopDetection
<1>2. MonitorsTrackPolls'
  BY DEF Inv, MonitorInv, MonitorsTrackPolls, PromptIsDebounced, StopDetection
<1>3. OutsideTypeOK'
  BY DEF Inv, OutsideTypeOK, StopDetection, uiVars
<1> QED BY <1>1, <1>2, <1>3 DEF Inv, MonitorInv

LEMMA DetectionSuppressInv ==
    ASSUME Inv, NEW c \in inflight, DetectionSuppress(c) PROVE Inv'
<1>1. c.app \in SomeApp
  BY DEF Inv, OutsideTypeOK, Commands, SomeApp
<1>2. OutsideTypeOK'
  BY <1>1 DEF Inv, OutsideTypeOK, DetectionSuppress, uiVars
<1>3. CASE current = 0
  <2>1. UNCHANGED nativeVars
    BY <1>3 DEF DetectionSuppress, nativeVars
  <2> QED BY <1>2, <2>1, MonitorsUnchanged DEF Inv
<1>4. CASE current # 0
  <2>1. current \in Monitors
    BY <1>4, DetectionAssumption DEF Inv, MonitorInv, MonitorTypeOK, Monitors
  <2>2. /\ fsm[current] \in FsmStates /\ streak[current] \in Streaks
        /\ Tracks(fsm[current], streak[current])
    BY <2>1 DEF Inv, MonitorInv, MonitorTypeOK, MonitorsTrackPolls
  <2>3. CASE c.name = "snooze"
    <3> DEFINE f == Snooze(fsm[current])
               k == [streak[current] EXCEPT !.prompts = 0]
    <3>1. f \in FsmStates /\ k \in Streaks /\ Tracks(f, k)
      BY <2>2, SnoozeTracks
    <3>2. k.app = streak[current].app /\ k.len = streak[current].len
      BY <2>2 DEF Streaks
    <3>3. /\ fsm' = [fsm EXCEPT ![current] = f]
          /\ streak' = [streak EXCEPT ![current] = k]
          /\ UNCHANGED <<thread, sample, edge, current>>
      BY <1>4, <2>3 DEF DetectionSuppress
    <3> HIDE DEF f, k
    <3> QED BY <1>2, <2>1, <3>1, <3>2, <3>3, OneStateChanges DEF Inv
  <2>4. CASE c.name # "snooze"
    <3> DEFINE f == Suppress(fsm[current], c.app)
    <3>1. f \in FsmStates /\ Tracks(f, streak[current])
      BY <1>1, <2>2, SuppressTracks
    <3>2. /\ fsm' = [fsm EXCEPT ![current] = f]
          /\ streak' = [streak EXCEPT ![current] = streak[current]]
          /\ UNCHANGED <<thread, sample, edge, current>>
      BY <1>4, <2>4 DEF DetectionSuppress, Inv, MonitorInv, MonitorTypeOK
    <3> HIDE DEF f
    <3> QED BY <1>2, <2>1, <2>2, <3>1, <3>2, OneStateChanges DEF Inv
  <2> QED BY <2>3, <2>4
<1> QED BY <1>3, <1>4

-----------------------------------------------------------------------------
(* The webview, and recording: the monitors are not touched.                 *)
LEMMA AnswerTypes ==
    ASSUME OutsideTypeOK, Answer
    PROVE  /\ banner' \in [app : SomeApp, id : Nat, by : 0..MaxMonitors]
           /\ banner.app \in SomeApp
BY DetectionAssumption DEF Answer, OutsideTypeOK, NoBanner, SomeApp

LEMMA DeliverInv == ASSUME Inv, Deliver PROVE Inv'
<1>1. Head(events) \in Events /\ Tail(events) \in Seq(Events)
  BY HeadTailProperties DEF Deliver, Inv, OutsideTypeOK
<1> DEFINE e == Head(events)
<1>2. [app |-> e.app, id |-> e.id, by |-> e.by]
         \in [app : SomeApp, id : Nat, by : 0..MaxMonitors]
  BY <1>1 DEF Events, Monitors
<1>3. NoBanner \in [app : SomeApp, id : Nat, by : 0..MaxMonitors]
  BY DetectionAssumption DEF NoBanner, SomeApp
<1>4. /\ \/ banner' = banner \/ banner' = NoBanner
         \/ banner' = [app |-> e.app, id |-> e.id, by |-> e.by]
      /\ events' = Tail(events)
  BY DEF Deliver
<1> HIDE DEF e
<1>5. banner' \in [app : SomeApp, id : Nat, by : 0..MaxMonitors]
  BY <1>2, <1>3, <1>4 DEF Inv, OutsideTypeOK
<1>6. OutsideTypeOK'
  BY <1>1, <1>4, <1>5 DEF Deliver, Inv, OutsideTypeOK, cmdVars
<1>7. UNCHANGED nativeVars
  BY DEF Deliver
<1> QED BY <1>6, <1>7, MonitorsUnchanged DEF Inv

LEMMA MoveTypes == ASSUME OutsideTypeOK, Move PROVE moves' \in 0..MaxMoves
BY DetectionAssumption DEF OutsideTypeOK, Move

LEMMA WebviewInv == ASSUME Inv, Webview PROVE Inv'
<1>1. CASE SwitchOn
  <2>1. OutsideTypeOK'
    <3>1. switches + 1 \in Monitors /\ switches + 1 \in 0..MaxMonitors
      BY <1>1, DetectionAssumption DEF SwitchOn, Inv, OutsideTypeOK, Monitors
    <3>2. /\ [name |-> "stop", app |-> NoApp, n |-> issued] \in Commands
          /\ [name |-> "start", app |-> NoApp, n |-> switches + 1] \in Commands
      BY <3>1 DEF Commands, SomeApp, Inv, OutsideTypeOK
    <3> QED BY <1>1, <3>1, <3>2, MoveTypes DEF SwitchOn, Inv, OutsideTypeOK
  <2>2. UNCHANGED nativeVars
    BY <1>1 DEF SwitchOn
  <2> QED BY <2>1, <2>2, MonitorsUnchanged DEF Inv
<1>2. CASE SwitchOff
  <2>1. OutsideTypeOK'
    <3>1. \A i \in Nat : [name |-> "stop", app |-> NoApp, n |-> i] \in Commands
      BY DEF Commands, SomeApp
    <3>2. issued \in Nat /\ issued + 1 \in Nat /\ issued + 2 \in Nat
      BY DEF Inv, OutsideTypeOK
    <3> QED BY <1>2, <3>1, <3>2 DEF SwitchOff, Inv, OutsideTypeOK
  <2>2. UNCHANGED nativeVars
    BY <1>2 DEF SwitchOff
  <2> QED BY <2>1, <2>2, MonitorsUnchanged DEF Inv
<1>3. CASE Deliver
  BY <1>3, DeliverInv
<1>4. CASE AcceptPrompt
  <2>1. OutsideTypeOK'
    BY <1>4, AnswerTypes, MoveTypes DEF AcceptPrompt, Inv, OutsideTypeOK, cmdVars
  <2>2. UNCHANGED nativeVars
    BY <1>4 DEF AcceptPrompt
  <2> QED BY <2>1, <2>2, MonitorsUnchanged DEF Inv
<1>5. CASE DismissPrompt
  <2>1. OutsideTypeOK'
    BY <1>5, AnswerTypes DEF DismissPrompt, Inv, OutsideTypeOK, cmdVars
  <2>2. UNCHANGED nativeVars
    BY <1>5 DEF DismissPrompt
  <2> QED BY <2>1, <2>2, MonitorsUnchanged DEF Inv
<1>6. ASSUME NEW name \in {"snooze", "never"}, SilencePrompt(name) PROVE Inv'
  <2>1. OutsideTypeOK'
    <3>1. /\ banner' \in [app : SomeApp, id : Nat, by : 0..MaxMonitors]
          /\ banner.app \in SomeApp /\ moves' \in 0..MaxMoves
      BY <1>6, AnswerTypes, MoveTypes DEF SilencePrompt, Inv
    <3>2. [name |-> name, app |-> banner.app, n |-> issued] \in Commands
      BY <3>1 DEF Commands, Inv, OutsideTypeOK
    <3> QED BY <1>6, <3>1, <3>2 DEF SilencePrompt, Issue, Inv, OutsideTypeOK
  <2>2. UNCHANGED nativeVars
    BY <1>6 DEF SilencePrompt
  <2> QED BY <2>1, <2>2, MonitorsUnchanged DEF Inv
<1> QED BY <1>1, <1>2, <1>3, <1>4, <1>5, <1>6 DEF Webview

LEMMA RecorderInv == ASSUME Inv, Recorder PROVE Inv'
<1>1. moves' \in 0..MaxMoves
  BY MoveTypes DEF Recorder, Record, StartFails, StoreSession, RaiseFlag, StopClick,
     LowerFlag, ReleaseSession, LeaveSummary, Inv, OutsideTypeOK
<1>2. OutsideTypeOK'
  BY <1>1 DEF Recorder, Record, StartFails, StoreSession, RaiseFlag, StopClick,
     LowerFlag, ReleaseSession, LeaveSummary, Inv, OutsideTypeOK, cmdVars
<1>3. UNCHANGED nativeVars
  BY DEF Recorder, Record, StartFails, StoreSession, RaiseFlag, StopClick,
     LowerFlag, ReleaseSession, LeaveSummary
<1> QED BY <1>2, <1>3, MonitorsUnchanged DEF Inv

LEMMA CallInv ==
    ASSUME Inv, CallEnds \/ \E a \in Apps : CallBegins(a) PROVE Inv'
<1>1. OutsideTypeOK'
  BY MoveTypes DEF CallEnds, CallBegins, Inv, OutsideTypeOK, uiVars, cmdVars, SomeApp
<1>2. UNCHANGED nativeVars
  BY DEF CallEnds, CallBegins
<1> QED BY <1>1, <1>2, MonitorsUnchanged DEF Inv

-----------------------------------------------------------------------------
LEMMA NextInv == Inv /\ [Next]_vars => Inv'
<1> SUFFICES ASSUME Inv, [Next]_vars PROVE Inv'
  OBVIOUS
<1>1. ASSUME NEW m \in Monitors, SnoozeElapses(m) \/ PollThread(m) PROVE Inv'
  BY <1>1, SnoozeElapsesInv, PollInv, StepInv, EmitInv, ExitInv DEF PollThread
<1>2. ASSUME NEW c \in inflight, Command(c) PROVE Inv'
  BY <1>2, StartInv, StopInv, DetectionSuppressInv DEF Command
<1>3. CASE UNCHANGED vars
  <2>1. UNCHANGED nativeVars
    BY <1>3 DEF vars
  <2>2. OutsideTypeOK'
    BY <1>3 DEF vars, uiVars, cmdVars, Inv, OutsideTypeOK
  <2> QED BY <2>1, <2>2, MonitorsUnchanged DEF Inv
<1> QED BY <1>1, <1>2, <1>3, WebviewInv, RecorderInv, CallInv DEF Next

LEMMA InvConsequences ==
    Inv => TypeOK /\ PromptIsDebounced /\ OnePromptPerCall /\ MonitorsTrackPolls
BY DEF Inv, MonitorInv, MonitorTypeOK, OutsideTypeOK, TypeOK, MonitorsTrackPolls,
       Tracks, OnePromptPerCall

LEMMA SpecInv == Spec => []Inv
BY InitInv, NextInv, PTL DEF Spec

(* Monitors, commands, events and the banner keep their types; in particular *)
(* a candidate never counts up to the debounce without being confirmed.      *)
THEOREM TypeCorrect == Spec => []TypeOK
BY SpecInv, InvConsequences, PTL

(* Every prompt is backed by enough consecutive polls of the same call,      *)
(* whatever is silenced, recorded or restarted in between.                   *)
THEOREM PromptsAreDebounced == Spec => []PromptIsDebounced
BY SpecInv, InvConsequences, PTL

(* An uninterrupted call is prompted for at most once.                       *)
THEOREM AtMostOnePrompt == Spec => []OnePromptPerCall
BY SpecInv, InvConsequences, PTL

(* What a monitor counts or holds active is always the call of the current   *)
(* run of polls: the strengthening behind the two theorems above.            *)
THEOREM MonitorsKnowTheCall == Spec => []MonitorsTrackPolls
BY SpecInv, InvConsequences, PTL

-----------------------------------------------------------------------------
(* The banner.  Detection is switched on once, so the only monitor is 1, and  *)
(* what one poll causes has settled before the next one samples.             *)

(* The gestures on their way to the monitor, and its start.                  *)
Silencing == {c \in inflight : c.name \in {"snooze", "never"}}
Starting  == {c \in inflight : c.name = "start"}

(* Edge e is still to reach the webview.                                      *)
Coming(e) ==
    \/ edge[1] = e
    \/ \E i \in DOMAIN events :
          events[i].kind = e.kind /\ events[i].app = e.app /\ events[i].id = e.id

(* The monitor holds the meeting active and has no reason to withdraw it.     *)
Holds(app, id) ==
    /\ app # NoApp /\ app \notin fsm[1].suppressed
    /\ fsm[1].snooze # "on" /\ fsm[1].active = [app |-> app, id |-> id]

(* A poll causes at most one edge, which is delivered before the next poll.   *)
OneEdgeAtATime ==
    /\ Len(events) <= 1
    /\ events # <<>> => edge[1] = NoEdge
    /\ thread[1] \in {"sampled", "stepped"} => events = <<>>
    /\ thread[1] # "stepped" => edge[1] = NoEdge

(* Until the monitor is started nothing has happened; it is started once.     *)
StartedOnce ==
    /\ switches = 0 \/ Starting # {} => thread[1] = "unborn"
    /\ Starting # {} => switches = 1
    /\ thread[1] = "unborn" =>
         /\ current = 0 /\ fsm[1] = NewFsm /\ nevers = {}
         /\ events = <<>> /\ banner = NoBanner /\ Silencing = {}

(* A gesture in flight has taken the banner down, and no other comes up until *)
(* it has taken effect: the poll that is under way cannot prompt.             *)
GestureTakesBannerDown ==
    Silencing # {} =>
        /\ banner = NoBanner /\ \A c, d \in Silencing : c = d
        /\ thread[1] = "sampled" => fsm[1].active # NoMeeting

(* A prompt on its way to the webview finds no banner and no gesture.         *)
PromptFindsNoBanner ==
    \A app \in SomeApp, id \in Nat : Coming(Detected(app, id)) =>
        banner = NoBanner /\ Silencing = {} /\ Holds(app, id)

(* A banner is that of the active meeting, unless its end is on the way.      *)
BannerIsBacked ==
    banner # NoBanner =>
        /\ banner.app \notin nevers /\ fsm[1].snooze # "on"
        /\ Holds(banner.app, banner.id) \/ Coming(Ended(banner.id))

BannerInv ==
    /\ OneEdgeAtATime
    /\ StartedOnce
    /\ current # 0 =>
         /\ nevers \subseteq fsm[1].suppressed
         /\ GestureTakesBannerDown
         /\ PromptFindsNoBanner
         /\ BannerIsBacked

(* Detection is switched on once, and a poll never overtakes the last one.    *)
OneSession == MaxMonitors = 1 /\ DeliveryBeatsPoll

bannerVars == <<fsm, thread, edge, current, switches, events, inflight,
                banner, nevers>>

LEMMA BannerUnchanged == BannerInv /\ UNCHANGED bannerVars => BannerInv'
BY DEF BannerInv, bannerVars, OneEdgeAtATime, StartedOnce, GestureTakesBannerDown,
       PromptFindsNoBanner, BannerIsBacked, Silencing, Starting, Coming, Holds

LEMMA OnlyMonitor ==
    ASSUME OneSession, Inv
    PROVE  /\ Monitors = {1} /\ 1 \in Monitors
           /\ current \in {0, 1}
           /\ fsm[1] \in FsmStates /\ sample[1] \in Samples
           /\ Tracks(fsm[1], streak[1])
BY DEF OneSession, Monitors, Inv, MonitorInv, MonitorTypeOK, MonitorsTrackPolls

(* What one poll of the monitor may do to the meeting it holds active: keep   *)
(* it, end it with an edge, or, when there is none, start one with an edge.   *)
Outcome(f, s, r) ==
    /\ r.state.suppressed = f.suppressed
    /\ r.state.snooze = "on" => f.snooze = "on"
    /\ \/ r.edge = NoEdge /\ r.state.active = f.active
       \/ r.edge = Ended(f.active.id) /\ f.active # NoMeeting
       \/ /\ r.edge = Detected(s.app, f.next)
          /\ f.active = NoMeeting
          /\ r.state.active = [app |-> s.app, id |-> f.next]
          /\ s.app # NoApp /\ s.app \notin f.suppressed
          /\ r.state.snooze # "on"

LEMMA WithdrawOutcome ==
    ASSUME NEW f \in FsmStates, NEW s \in Samples PROVE Outcome(f, s, Withdraw(f))
<1>1. /\ Withdraw(f).state.suppressed = f.suppressed
      /\ Withdraw(f).state.snooze = f.snooze
      /\ Withdraw(f).state.active = NoMeeting
  BY DEF Withdraw, FsmStates
<1>2. Withdraw(f).edge = IF f.active = NoMeeting THEN NoEdge ELSE Ended(f.active.id)
  BY DEF Withdraw
<1> QED BY <1>1, <1>2 DEF Outcome

LEMMA DebounceOutcome ==
    ASSUME NEW f \in FsmStates, NEW s \in Samples, f.active = NoMeeting,
           s.app # NoApp, s.app \notin f.suppressed, f.snooze # "on"
    PROVE  Outcome(f, s, Debounce(f, s.app))
<1> DEFINE r == Debounce(f, s.app)
<1>1. r.state.suppressed = f.suppressed /\ r.state.snooze = f.snooze
  BY DEF Debounce, FsmStates
<1>2. \/ r.edge = NoEdge /\ r.state.active = f.active
      \/ /\ r.edge = Detected(s.app, f.next)
         /\ r.state.active = [app |-> s.app, id |-> f.next]
  BY DEF Debounce, FsmStates
<1> HIDE DEF r
<1>3. Outcome(f, s, r)
  BY <1>1, <1>2 DEF Outcome
<1> QED BY <1>3 DEF r

LEMMA FollowOutcome ==
    ASSUME NEW f \in FsmStates, NEW s \in Samples, f.active # NoMeeting
    PROVE  Outcome(f, s, Follow(f, s.app))
<1> DEFINE r == Follow(f, s.app)
<1>1. r.state.suppressed = f.suppressed /\ r.state.snooze = f.snooze
  BY DEF Follow, FsmStates
<1>2. \/ r.edge = NoEdge /\ r.state.active = f.active
      \/ r.edge = Ended(f.active.id)
  BY DEF Follow, FsmStates
<1> HIDE DEF r
<1>3. Outcome(f, s, r)
  BY <1>1, <1>2 DEF Outcome
<1> QED BY <1>3 DEF r

LEMMA StepOutcome ==
    ASSUME NEW f \in FsmStates, NEW s \in Samples PROVE Outcome(f, s, StepFsm(f, s))
<1> DEFINE g == [f EXCEPT !.snooze = IF f.snooze = "due" THEN "off" ELSE f.snooze]
<1>1. /\ g \in FsmStates /\ g.active = f.active /\ g.suppressed = f.suppressed
      /\ g.next = f.next /\ (g.snooze = "on" => f.snooze = "on")
  BY DEF FsmStates
<1>2. ASSUME NEW r, Outcome(g, s, r) PROVE Outcome(f, s, r)
  BY <1>1, <1>2 DEF Outcome
<1> HIDE DEF g
<1>3. CASE s.recording
  <2>1. StepFsm(f, s) = Withdraw(f)
    BY <1>3 DEF StepFsm
  <2> QED BY <2>1, WithdrawOutcome
<1>4. CASE ~s.recording /\ Candidate(g, s.app) = NoApp
  <2>1. StepFsm(f, s) = Withdraw(g)
    BY <1>4 DEF StepFsm, g
  <2> QED BY <1>1, <1>2, <2>1, WithdrawOutcome
<1>5. CASE ~s.recording /\ Candidate(g, s.app) # NoApp
  <2>1. /\ Candidate(g, s.app) = s.app /\ s.app # NoApp
        /\ g.snooze # "on" /\ s.app \notin g.suppressed
    BY <1>5 DEF Candidate
  <2>2. CASE g.active = NoMeeting
    <3>1. StepFsm(f, s) = Debounce(g, s.app)
      BY <1>5, <2>1, <2>2 DEF StepFsm, g
    <3> QED BY <1>1, <1>2, <2>1, <2>2, <3>1, DebounceOutcome
  <2>3. CASE g.active # NoMeeting
    <3>1. StepFsm(f, s) = Follow(g, s.app)
      BY <1>5, <2>1, <2>3 DEF StepFsm, g
    <3> QED BY <1>1, <1>2, <2>3, <3>1, FollowOutcome
  <2> QED BY <2>2, <2>3
<1> QED BY <1>3, <1>4, <1>5

LEMMA InitBanner == ASSUME OneSession, Init PROVE BannerInv
<1>1. 1 \in Monitors
  BY DEF OneSession, Monitors
<1>2. Len(events) <= 1 /\ Silencing = {} /\ Starting = {}
  BY DEF Init, Silencing, Starting
<1> QED BY <1>1, <1>2 DEF Init, BannerInv, OneEdgeAtATime, StartedOnce

LEMMA EdgesDiffer ==
    ASSUME NEW a, NEW i, NEW b, NEW j
    PROVE  /\ Detected(a, i) # NoEdge /\ Ended(i) # NoEdge /\ Detected(a, i) # Ended(j)
           /\ Detected(a, i) = Detected(b, j) => a = b /\ i = j
           /\ Ended(i) = Ended(j) => i = j
BY DEF Detected, Ended, NoEdge

LEMMA NothingComing ==
    ASSUME edge[1] = NoEdge, events = <<>>, NEW a, NEW i
    PROVE  ~Coming(Detected(a, i)) /\ ~Coming(Ended(i))
BY EdgesDiffer DEF Coming

LEMMA HeldIsActive ==
    ASSUME NEW a, NEW i, Holds(a, i) PROVE fsm[1].active # NoMeeting
BY DEF Holds, NoMeeting

(* When nothing is on its way the meeting of the banner is still active.      *)
LEMMA QuietBanner ==
    ASSUME BannerIsBacked, banner # NoBanner, edge[1] = NoEdge, events = <<>>
    PROVE  Holds(banner.app, banner.id) /\ fsm[1].active # NoMeeting
BY NothingComing, HeldIsActive DEF BannerIsBacked

(* A step that leaves the monitor's state, the webview and what is on its way *)
(* as they are.                                                              *)
LEMMA SameView ==
    ASSUME Inv, BannerInv, OneEdgeAtATime', StartedOnce',
           UNCHANGED <<fsm, current, banner, inflight, nevers>>,
           \A e \in Edges : e.kind # "none" => (Coming(e)' <=> Coming(e)),
           (current # 0 /\ thread'[1] = "sampled") => Silencing = {}
    PROVE  BannerInv'
<1>1. Silencing' = Silencing
  BY DEF Silencing
<1>2. \A a, i : Holds(a, i)' <=> Holds(a, i)
  BY DEF Holds
<1>4. /\ \A a \in SomeApp, i \in Nat : Coming(Detected(a, i))' <=> Coming(Detected(a, i))
      /\ Coming(Ended(banner.id))' <=> Coming(Ended(banner.id))
  <2>1. /\ \A a \in SomeApp, i \in Nat :
             Detected(a, i) \in Edges /\ Detected(a, i).kind = "detected"
        /\ Ended(banner.id) \in Edges /\ Ended(banner.id).kind = "ended"
    BY DEF Detected, Ended, Edges, SomeApp, Inv, OutsideTypeOK
  <2>2. Ended(banner.id)' = Ended(banner.id)
    BY DEF Ended
  <2> QED BY <2>1, <2>2
<1>3. ASSUME current' # 0
      PROVE  /\ (nevers \subseteq fsm[1].suppressed)' /\ GestureTakesBannerDown'
             /\ PromptFindsNoBanner' /\ BannerIsBacked'
  <2>1. /\ current # 0 /\ nevers \subseteq fsm[1].suppressed
        /\ GestureTakesBannerDown /\ PromptFindsNoBanner /\ BannerIsBacked
    BY <1>3 DEF BannerInv
  <2>2. GestureTakesBannerDown'
    BY <1>1, <2>1 DEF GestureTakesBannerDown
  <2>3. PromptFindsNoBanner'
    BY <1>1, <1>2, <1>4, <2>1 DEF PromptFindsNoBanner
  <2>4. BannerIsBacked'
    BY <1>2, <1>4, <2>1 DEF BannerIsBacked
  <2> QED BY <2>1, <2>2, <2>3, <2>4
<1> QED BY <1>3 DEF BannerInv

LEMMA PollBanner ==
    ASSUME OneSession, Inv, BannerInv, NEW m \in Monitors, Poll(m)
    PROVE  BannerInv'
<1>1. /\ m = 1 /\ current = 1 /\ thread[1] = "waiting" /\ thread'[1] = "sampled"
      /\ events = <<>> /\ inflight = {} /\ edge[1] = NoEdge
      /\ UNCHANGED <<fsm, edge, current, events, banner, inflight, switches, nevers>>
  BY OnlyMonitor DEF Poll, OneSession, Inv, MonitorInv, MonitorTypeOK, BannerInv,
     OneEdgeAtATime, uiVars, cmdVars
<1>2. OneEdgeAtATime' /\ StartedOnce'
  BY <1>1 DEF BannerInv, OneEdgeAtATime, StartedOnce, Starting, Silencing
<1>3. Silencing = {}
  BY <1>1 DEF Silencing
<1> QED BY <1>1, <1>2, <1>3, SameView DEF Coming

LEMMA StepBanner ==
    ASSUME OneSession, Inv, BannerInv, NEW m \in Monitors, Step(m)
    PROVE  BannerInv'
<1> DEFINE r == StepFsm(fsm[1], sample[1])
<1>1. /\ thread[1] = "sampled" /\ thread'[1] = "stepped"
      /\ fsm'[1] = r.state /\ edge'[1] = r.edge
      /\ UNCHANGED <<current, events, banner, inflight, switches, nevers>>
  BY OnlyMonitor DEF Step, Inv, MonitorInv, MonitorTypeOK, uiVars, cmdVars
<1>2. Outcome(fsm[1], sample[1], r)
  BY OnlyMonitor, StepOutcome
<1> HIDE DEF r
<1>3. events = <<>> /\ edge[1] = NoEdge
  BY <1>1 DEF BannerInv, OneEdgeAtATime
<1>4. OneEdgeAtATime' /\ StartedOnce'
  BY <1>1, <1>3 DEF BannerInv, OneEdgeAtATime, StartedOnce, Starting, Silencing
<1>5. Silencing' = Silencing
  BY <1>1 DEF Silencing
<1>6. \A e : Coming(e)' <=> r.edge = e
  BY <1>1, <1>3 DEF Coming
<1>7. ASSUME current' # 0
      PROVE  /\ (nevers \subseteq fsm[1].suppressed)' /\ GestureTakesBannerDown'
             /\ PromptFindsNoBanner' /\ BannerIsBacked'
  <2>1. /\ nevers \subseteq fsm[1].suppressed
        /\ GestureTakesBannerDown /\ BannerIsBacked
    BY <1>1, <1>7 DEF BannerInv
  <2>2. (nevers \subseteq fsm[1].suppressed)'
    BY <1>1, <1>2, <2>1 DEF Outcome
  <2>3. GestureTakesBannerDown'
    BY <1>1, <1>5, <2>1 DEF GestureTakesBannerDown
  <2>4. fsm[1].active = NoMeeting => banner = NoBanner /\ Silencing = {}
    BY <1>1, <1>3, <2>1, QuietBanner DEF GestureTakesBannerDown
  <2>5. PromptFindsNoBanner'
    <3> SUFFICES ASSUME NEW a \in SomeApp, NEW i \in Nat, r.edge = Detected(a, i)
                 PROVE  (banner = NoBanner /\ Silencing = {} /\ Holds(a, i))'
      BY <1>6 DEF PromptFindsNoBanner
    <3>1. /\ fsm[1].active = NoMeeting
          /\ r.state.active = [app |-> a, id |-> i]
          /\ a # NoApp /\ a \notin r.state.suppressed /\ r.state.snooze # "on"
      BY <1>2, EdgesDiffer DEF Outcome
    <3> QED BY <1>1, <1>5, <2>4, <3>1 DEF Holds
  <2>6. BannerIsBacked'
    <3> SUFFICES ASSUME banner # NoBanner
                 PROVE  /\ banner.app \notin nevers /\ r.state.snooze # "on"
                        /\ Holds(banner.app, banner.id)' \/ r.edge = Ended(banner.id)
      BY <1>1, <1>6 DEF BannerIsBacked
    <3>1. /\ banner.app \notin nevers /\ fsm[1].snooze # "on"
          /\ Holds(banner.app, banner.id) /\ fsm[1].active # NoMeeting
      BY <1>3, <2>1, QuietBanner DEF BannerIsBacked
    <3>2. fsm[1].active.id = banner.id
      BY <3>1 DEF Holds
    <3> QED BY <1>1, <1>2, <3>1, <3>2 DEF Outcome, Holds
  <2> QED BY <2>2, <2>3, <2>5, <2>6
<1> QED BY <1>4, <1>7 DEF BannerInv

LEMMA EmitBanner ==
    ASSUME OneSession, Inv, BannerInv, NEW m \in Monitors, Emit(m)
    PROVE  BannerInv'
<1> DEFINE ev == [kind |-> edge[1].kind, app |-> edge[1].app,
                  id |-> edge[1].id, by |-> 1]
<1>1. /\ thread[1] = "stepped" /\ thread'[1] = "waiting" /\ edge'[1] = NoEdge
      /\ events = <<>>
      /\ events' = IF edge[1].kind = "none" THEN <<>> ELSE <<ev>>
      /\ UNCHANGED <<fsm, current, banner, inflight, switches, nevers>>
  <2>1. m = 1
    BY OnlyMonitor
  <2>2. thread[1] = "stepped" /\ events = <<>>
    BY <2>1 DEF Emit, BannerInv, OneEdgeAtATime
  <2>3. events' = IF edge[1].kind = "none" THEN events ELSE Append(events, ev)
    BY <2>1 DEF Emit
  <2>4. Append(<<>>, ev) = <<ev>>
    OBVIOUS
  <2>5. thread'[1] = "waiting" /\ edge'[1] = NoEdge
    BY <2>1, OnlyMonitor DEF Emit, Inv, MonitorInv, MonitorTypeOK
  <2>6. UNCHANGED <<fsm, current, banner, inflight, switches, nevers>>
    BY DEF Emit, uiVars, cmdVars
  <2> QED BY <2>2, <2>3, <2>4, <2>5, <2>6
<1>2. edge[1] \in Edges
  BY OnlyMonitor DEF Inv, MonitorInv, MonitorTypeOK
<1>3. OneEdgeAtATime'
  BY <1>1 DEF OneEdgeAtATime
<1>4. StartedOnce'
  BY <1>1 DEF BannerInv, StartedOnce, Starting, Silencing
<1>5. ASSUME NEW e \in Edges, e.kind # "none" PROVE Coming(e)' <=> Coming(e)
  <2>1. Coming(e) <=> edge[1] = e
    BY <1>1 DEF Coming
  <2>2. NoEdge # e
    BY <1>5 DEF NoEdge
  <2>3. edge[1] = e <=> /\ edge[1].kind = e.kind /\ edge[1].app = e.app
                        /\ edge[1].id = e.id
    BY <1>2, <1>5 DEF Edges
  <2>4. CASE edge[1].kind = "none"
    BY <1>1, <1>5, <2>1, <2>2, <2>4 DEF Coming
  <2>5. CASE edge[1].kind # "none"
    BY <1>1, <2>1, <2>2, <2>3, <2>5 DEF Coming
  <2> QED BY <2>4, <2>5
<1> QED BY <1>1, <1>3, <1>4, <1>5, SameView

LEMMA ExitBanner ==
    ASSUME OneSession, Inv, BannerInv, NEW m \in Monitors, Exit(m)
    PROVE  BannerInv'
<1>1. /\ thread[1] = "waiting" /\ thread'[1] = "gone" /\ current = 0
      /\ UNCHANGED <<fsm, edge, current, events, banner, inflight, switches, nevers>>
  BY OnlyMonitor DEF Exit, Inv, MonitorInv, MonitorTypeOK, uiVars, cmdVars
<1>2. OneEdgeAtATime'
  BY <1>1 DEF BannerInv, OneEdgeAtATime
<1>3. StartedOnce'
  BY <1>1 DEF BannerInv, StartedOnce, Starting, Silencing
<1> QED BY <1>1, <1>2, <1>3 DEF BannerInv

LEMMA SnoozeElapsesBanner ==
    ASSUME OneSession, Inv, BannerInv, NEW m \in Monitors, SnoozeElapses(m)
    PROVE  BannerInv'
<1>1. /\ fsm[1].snooze = "on"
      /\ fsm'[1].active = fsm[1].active /\ fsm'[1].suppressed = fsm[1].suppressed
      /\ fsm'[1].snooze = "due"
      /\ UNCHANGED <<thread, edge, current, events, banner, inflight, switches, nevers>>
  BY OnlyMonitor DEF SnoozeElapses, FsmStates, Inv, MonitorInv, MonitorTypeOK,
     uiVars, cmdVars
<1>2. OneEdgeAtATime'
  BY <1>1 DEF BannerInv, OneEdgeAtATime
<1>3. Silencing' = Silencing /\ Starting' = Starting /\ (\A e : Coming(e)' <=> Coming(e))
  BY <1>1 DEF Silencing, Starting, Coming
<1>4. fsm[1] # NewFsm
  BY <1>1 DEF NewFsm
<1>5. StartedOnce'
  BY <1>1, <1>3, <1>4 DEF BannerInv, StartedOnce
<1>6. ASSUME current # 0 PROVE banner = NoBanner /\ \A a, i : ~Holds(a, i)
  BY <1>1, <1>6 DEF BannerInv, BannerIsBacked, Holds
<1> QED BY <1>1, <1>2, <1>3, <1>5, <1>6
        DEF BannerInv, GestureTakesBannerDown, PromptFindsNoBanner, BannerIsBacked

-----------------------------------------------------------------------------
LEMMA StartBanner ==
    ASSUME OneSession, Inv, BannerInv, NEW c \in inflight, StartDetection(c)
    PROVE  BannerInv'
<1>1. \A d \in Starting : d = [name |-> "start", app |-> NoApp, n |-> 1]
  BY OnlyMonitor DEF Starting, Inv, OutsideTypeOK, Commands
<1>2. c \in Starting /\ c.n = 1
  BY <1>1 DEF StartDetection, Starting
<1>3. /\ thread[1] = "unborn" /\ current = 0 /\ switches = 1 /\ nevers = {}
      /\ edge[1] = NoEdge /\ events = <<>> /\ banner = NoBanner /\ Silencing = {}
  BY <1>2 DEF BannerInv, StartedOnce, OneEdgeAtATime
<1>4. /\ thread'[1] = "waiting" /\ inflight' = inflight \ {c}
      /\ UNCHANGED <<fsm, edge, events, banner, switches, nevers>>
  BY <1>2, <1>3, OnlyMonitor DEF StartDetection, Inv, MonitorInv, MonitorTypeOK, uiVars
<1>5. Starting' = {} /\ Silencing' = {}
  BY <1>1, <1>2, <1>3, <1>4 DEF Starting, Silencing
<1>6. OneEdgeAtATime'
  BY <1>3, <1>4 DEF BannerInv, OneEdgeAtATime
<1>7. StartedOnce'
  BY <1>3, <1>4, <1>5 DEF StartedOnce
<1>8. GestureTakesBannerDown' /\ BannerIsBacked'
  BY <1>3, <1>4, <1>5 DEF GestureTakesBannerDown, BannerIsBacked
<1>9. PromptFindsNoBanner'
  BY <1>3, <1>4, NothingComing DEF PromptFindsNoBanner, Coming
<1> QED BY <1>3, <1>4, <1>6, <1>7, <1>8, <1>9 DEF BannerInv

LEMMA StopBanner ==
    ASSUME OneSession, Inv, BannerInv, NEW c \in inflight, StopDetection(c)
    PROVE  BannerInv'
<1>1. /\ current' = 0 /\ inflight' = inflight \ {c} /\ c.name = "stop"
      /\ UNCHANGED <<fsm, thread, edge, events, banner, switches, nevers>>
  BY DEF StopDetection, uiVars
<1>2. Silencing' = Silencing /\ Starting' = Starting
  BY <1>1 DEF Silencing, Starting
<1>3. OneEdgeAtATime' /\ StartedOnce'
  BY <1>1, <1>2 DEF BannerInv, OneEdgeAtATime, StartedOnce
<1> QED BY <1>1, <1>3 DEF BannerInv

LEMMA DetectionSuppressBanner ==
    ASSUME OneSession, Inv, BannerInv, NEW c \in inflight, DetectionSuppress(c)
    PROVE  BannerInv'
<1>1. /\ c \in Silencing /\ inflight' = inflight \ {c}
      /\ UNCHANGED <<thread, edge, current, events, banner, switches>>
  BY DEF DetectionSuppress, Silencing, uiVars
<1>2. Starting' = Starting /\ Silencing' \subseteq Silencing
  BY <1>1 DEF DetectionSuppress, Starting, Silencing
<1>3. thread[1] # "unborn"
  BY <1>1 DEF BannerInv, StartedOnce
<1>4. OneEdgeAtATime' /\ StartedOnce'
  BY <1>1, <1>2, <1>3 DEF BannerInv, OneEdgeAtATime, StartedOnce
<1>5. CASE current = 0
  BY <1>1, <1>4, <1>5 DEF BannerInv
<1>6. CASE current # 0
  <2>1. current = 1 /\ fsm[1] \in FsmStates
    BY <1>6, OnlyMonitor
  <2>2. /\ nevers \subseteq fsm[1].suppressed
        /\ banner = NoBanner /\ Silencing = {c} /\ PromptFindsNoBanner
    BY <1>1, <1>6 DEF BannerInv, GestureTakesBannerDown
  <2>3. Silencing' = {}
    BY <1>1, <2>2 DEF Silencing
  <2>4. nevers' \subseteq fsm'[1].suppressed
    <3>1. CASE c.name = "snooze"
      <4>1. Snooze(fsm[1]).suppressed = fsm[1].suppressed
        BY <2>1 DEF Snooze, FsmStates
      <4>2. fsm'[1] = Snooze(fsm[1]) /\ nevers' = nevers
        BY <1>6, <2>1, <3>1, OnlyMonitor
           DEF DetectionSuppress, Inv, MonitorInv, MonitorTypeOK
      <4> QED BY <2>2, <4>1, <4>2
    <3>2. CASE c.name # "snooze"
      <4>1. Suppress(fsm[1], c.app).suppressed = fsm[1].suppressed \cup {c.app}
        BY <2>1 DEF Suppress, FsmStates
      <4>2. fsm'[1] = Suppress(fsm[1], c.app) /\ nevers' = nevers \cup {c.app}
        BY <1>6, <2>1, <3>2, OnlyMonitor
           DEF DetectionSuppress, Inv, MonitorInv, MonitorTypeOK
      <4> QED BY <2>2, <4>1, <4>2
    <3> QED BY <3>1, <3>2
  <2>5. PromptFindsNoBanner'
    BY <1>1, <2>2 DEF PromptFindsNoBanner, Coming
  <2>6. GestureTakesBannerDown' /\ BannerIsBacked'
    BY <1>1, <2>2, <2>3 DEF GestureTakesBannerDown, BannerIsBacked
  <2> QED BY <1>4, <2>4, <2>5, <2>6 DEF BannerInv
<1> QED BY <1>5, <1>6

-----------------------------------------------------------------------------
LEMMA SwitchBanner ==
    ASSUME OneSession, Inv, BannerInv, SwitchOn \/ SwitchOff PROVE BannerInv'
<1>1. UNCHANGED <<fsm, thread, edge, current, events, banner, nevers>>
  BY DEF SwitchOn, SwitchOff, nativeVars
<1>2. Silencing' = Silencing
  BY DEF SwitchOn, SwitchOff, Silencing
<1>3. OneEdgeAtATime'
  BY <1>1 DEF BannerInv, OneEdgeAtATime
<1>4. CASE SwitchOn
  <2>1. switches = 0 /\ switches' = 1
    BY <1>4 DEF SwitchOn, OneSession, Inv, OutsideTypeOK
  <2>2. thread[1] = "unborn" /\ current = 0
    BY <2>1 DEF BannerInv, StartedOnce
  <2>3. StartedOnce'
    BY <1>1, <1>2, <2>1, <2>2 DEF BannerInv, StartedOnce
  <2> QED BY <1>1, <1>3, <2>2, <2>3 DEF BannerInv
<1>5. CASE SwitchOff
  <2>1. Starting' = Starting /\ switches' = switches
    BY <1>5 DEF SwitchOff, Starting
  <2>2. StartedOnce'
    BY <1>1, <1>2, <2>1 DEF BannerInv, StartedOnce
  <2> QED BY <1>1, <1>2, <1>3, <2>2
          DEF BannerInv, GestureTakesBannerDown, PromptFindsNoBanner, BannerIsBacked,
              Coming, Holds
<1> QED BY <1>4, <1>5

LEMMA DeliverBanner == ASSUME OneSession, Inv, BannerInv, Deliver PROVE BannerInv'
<1> DEFINE e == Head(events)
<1>1. /\ Len(events) = 1 /\ events[1] = e /\ e \in Events
      /\ events' = <<>> /\ edge[1] = NoEdge
  <2>1. /\ events \in Seq(Events) /\ events # <<>> /\ Len(events) <= 1
        /\ events' = Tail(events) /\ edge[1] = NoEdge
    BY DEF Deliver, Inv, OutsideTypeOK, BannerInv, OneEdgeAtATime
  <2>2. Len(events) = 1
    <3>1. Len(events) \in Nat /\ Len(events) # 0
      BY <2>1, EmptySeq
    <3>2. Len(events) <= 1
      BY <2>1
    <3> QED BY ONLY <3>1, <3>2
  <2>3. events[1] = e /\ e \in Events /\ Tail(events) = <<>>
    BY <2>1, <2>2
  <2> QED BY <2>1, <2>2, <2>3
<1>2. banner' = IF e.kind = "detected"
                THEN IF phase # "idle" THEN banner
                     ELSE [app |-> e.app, id |-> e.id, by |-> e.by]
                ELSE IF banner.id = e.id THEN NoBanner ELSE banner
  BY DEF Deliver
<1>3. UNCHANGED <<fsm, thread, edge, current, inflight, switches, nevers>>
  BY DEF Deliver, nativeVars, cmdVars
<1> HIDE DEF e
<1>4. Silencing' = Silencing /\ Starting' = Starting /\ \A a, i : Holds(a, i)' <=> Holds(a, i)
  BY <1>3 DEF Silencing, Starting, Holds
<1>5. thread[1] \notin {"unborn", "sampled", "stepped"}
  BY <1>1 DEF BannerInv, OneEdgeAtATime, StartedOnce
<1>6. OneEdgeAtATime' /\ StartedOnce'
  BY <1>1, <1>3, <1>4, <1>5 DEF BannerInv, OneEdgeAtATime, StartedOnce
<1>7. ASSUME current' # 0
      PROVE  /\ (nevers \subseteq fsm[1].suppressed)' /\ GestureTakesBannerDown'
             /\ PromptFindsNoBanner' /\ BannerIsBacked'
  <2>1. /\ nevers \subseteq fsm[1].suppressed
        /\ GestureTakesBannerDown /\ PromptFindsNoBanner /\ BannerIsBacked
    BY <1>3, <1>7 DEF BannerInv
  <2>2. PromptFindsNoBanner'
    <3>1. edge'[1] = NoEdge /\ events' = <<>>
      BY <1>1, <1>3
    <3>2. \A a, i : ~Coming(Detected(a, i))'
      BY <3>1, EdgesDiffer DEF Coming
    <3> QED BY <3>2 DEF PromptFindsNoBanner
  <2>3. CASE e.kind = "detected"
    <3>1. e.app \in SomeApp /\ e.id \in Nat
      BY <1>1 DEF Events
    <3>2. Coming(Detected(e.app, e.id))
      BY <1>1, <2>3 DEF Coming, Detected
    <3>3. banner = NoBanner /\ Silencing = {} /\ Holds(e.app, e.id)
      BY <2>1, <3>1, <3>2 DEF PromptFindsNoBanner
    <3>4. banner' # NoBanner => banner'.app = e.app /\ banner'.id = e.id
      BY <1>2, <2>3, <3>3
    <3>5. GestureTakesBannerDown'
      BY <1>4, <3>3 DEF GestureTakesBannerDown
    <3>6. BannerIsBacked'
      BY <1>3, <1>4, <2>1, <3>3, <3>4 DEF BannerIsBacked, Holds
    <3> QED BY <1>3, <2>1, <2>2, <3>5, <3>6
  <2>4. CASE e.kind # "detected"
    <3>1. banner' # NoBanner => banner' = banner /\ banner.id # e.id
      BY <1>2, <2>4
    <3>2. Coming(Ended(banner.id)) => banner.id = e.id
      BY <1>1, EdgesDiffer DEF Coming, Ended
    <3>3. GestureTakesBannerDown'
      BY <1>2, <1>3, <1>4, <2>1, <2>4 DEF GestureTakesBannerDown
    <3>4. BannerIsBacked'
      BY <1>3, <1>4, <2>1, <3>1, <3>2 DEF BannerIsBacked
    <3> QED BY <1>3, <2>1, <2>2, <3>3, <3>4
  <2> QED BY <2>3, <2>4
<1> QED BY <1>6, <1>7 DEF BannerInv

LEMMA AnswerBanner ==
    ASSUME OneSession, Inv, BannerInv, AcceptPrompt \/ DismissPrompt
    PROVE  BannerInv'
<1>1. /\ banner' = NoBanner
      /\ UNCHANGED <<fsm, thread, edge, current, events, inflight, switches, nevers>>
  BY DEF AcceptPrompt, DismissPrompt, Answer, nativeVars, cmdVars
<1>2. Silencing' = Silencing /\ Starting' = Starting
      /\ (\A e : Coming(e)' <=> Coming(e)) /\ (\A a, i : Holds(a, i)' <=> Holds(a, i))
  BY <1>1 DEF Silencing, Starting, Coming, Holds
<1> QED BY <1>1, <1>2
        DEF BannerInv, OneEdgeAtATime, StartedOnce, GestureTakesBannerDown,
            PromptFindsNoBanner, BannerIsBacked

(* "Never" and snooze: the banner that is up is backed by the active meeting,  *)
(* so nothing else can be announced until the gesture has taken effect.       *)
LEMMA SilenceBanner ==
    ASSUME OneSession, Inv, BannerInv,
           NEW name \in {"snooze", "never"}, SilencePrompt(name)
    PROVE  BannerInv'
<1> DEFINE c == [name |-> name, app |-> banner.app, n |-> issued]
<1>1. /\ banner # NoBanner /\ banner' = NoBanner /\ inflight' = inflight \cup {c}
      /\ UNCHANGED <<fsm, thread, edge, current, events, switches, nevers>>
  BY DEF SilencePrompt, Answer, Issue, nativeVars
<1>2. c.name \in {"snooze", "never"}
  OBVIOUS
<1> HIDE DEF c
<1>3. Starting' = Starting /\ Silencing' = Silencing \cup {c}
  BY <1>1, <1>2 DEF Starting, Silencing
<1>4. thread[1] # "unborn"
  BY <1>1 DEF BannerInv, StartedOnce
<1>5. OneEdgeAtATime' /\ StartedOnce'
  BY <1>1, <1>3, <1>4 DEF BannerInv, OneEdgeAtATime, StartedOnce
<1>6. ASSUME current' # 0
      PROVE  /\ (nevers \subseteq fsm[1].suppressed)' /\ GestureTakesBannerDown'
             /\ PromptFindsNoBanner' /\ BannerIsBacked'
  <2>1. /\ nevers \subseteq fsm[1].suppressed
        /\ GestureTakesBannerDown /\ PromptFindsNoBanner /\ BannerIsBacked
        /\ OneEdgeAtATime
    BY <1>1, <1>6 DEF BannerInv
  <2>2. Silencing' = {c}
    BY <1>1, <1>3, <2>1 DEF GestureTakesBannerDown
  <2>3. thread[1] = "sampled" => fsm[1].active # NoMeeting
    BY <1>1, <2>1, QuietBanner DEF OneEdgeAtATime
  <2>4. GestureTakesBannerDown'
    BY <1>1, <2>2, <2>3 DEF GestureTakesBannerDown
  <2>5. PromptFindsNoBanner'
    BY <1>1, <2>1 DEF PromptFindsNoBanner, Coming
  <2>6. BannerIsBacked'
    BY <1>1 DEF BannerIsBacked
  <2> QED BY <1>1, <2>1, <2>4, <2>5, <2>6
<1> QED BY <1>5, <1>6 DEF BannerInv

LEMMA BystanderBanner ==
    ASSUME BannerInv,
           CallEnds \/ (\E a \in Apps : CallBegins(a)) \/ Recorder \/ UNCHANGED vars
    PROVE  BannerInv'
<1>1. UNCHANGED bannerVars
  BY DEF CallEnds, CallBegins, Recorder, Record, StartFails, StoreSession, RaiseFlag,
     StopClick, LowerFlag, ReleaseSession, LeaveSummary, vars, bannerVars,
     nativeVars, uiVars, cmdVars
<1> QED BY <1>1, BannerUnchanged

LEMMA NextBanner ==
    ASSUME OneSession, Inv, BannerInv, [Next]_vars PROVE BannerInv'
<1>1. ASSUME NEW m \in Monitors, SnoozeElapses(m) \/ PollThread(m) PROVE BannerInv'
  BY <1>1, SnoozeElapsesBanner, PollBanner, StepBanner, EmitBanner, ExitBanner
     DEF PollThread
<1>2. ASSUME NEW c \in inflight, Command(c) PROVE BannerInv'
  BY <1>2, StartBanner, StopBanner, DetectionSuppressBanner DEF Command
<1>3. CASE Webview
  BY <1>3, SwitchBanner, DeliverBanner, AnswerBanner, SilenceBanner DEF Webview
<1> QED BY <1>1, <1>2, <1>3, BystanderBanner DEF Next

LEMMA BannerConsequences ==
    ASSUME OneSession, Inv, BannerInv PROVE BannerTracksMonitor /\ SilencedAppNotShown
<1>1. current # 0 /\ banner # NoBanner => BannerIsBacked /\ current = 1
  BY OnlyMonitor DEF BannerInv
<1>2. BannerTracksMonitor
  <2>1. \A i : Coming(Ended(i)) =>
           \/ edge[1] = Ended(i)
           \/ \E j \in DOMAIN events : events[j].kind = "ended" /\ events[j].id = i
    BY DEF Coming, Ended
  <2> QED BY <1>1, <2>1 DEF BannerTracksMonitor, BannerIsBacked, Holds
<1>3. SilencedAppNotShown
  BY <1>1 DEF SilencedAppNotShown, BannerIsBacked
<1> QED BY <1>2, <1>3

LEMMA SpecBanner ==
    ASSUME OneSession PROVE Spec => [](BannerTracksMonitor /\ SilencedAppNotShown)
<1>1. Init => BannerInv
  BY InitBanner
<1>2. Inv /\ BannerInv /\ [Next]_vars => BannerInv'
  BY NextBanner
<1>3. Inv /\ BannerInv => BannerTracksMonitor /\ SilencedAppNotShown
  BY BannerConsequences
<1> QED BY <1>1, <1>2, <1>3, SpecInv, PTL DEF Spec

(* While detection stays switched on, no gesture, recording or change of call *)
(* orphans a banner: it is that of the active meeting, or the event that      *)
(* takes it down is on its way.                                               *)
THEOREM NoOrphanedBanner ==
    ASSUME OneSession PROVE Spec => []BannerTracksMonitor
BY SpecBanner, PTL

(* No poll that was under way when "never" or snooze was clicked brings the   *)
(* silenced application back, whichever of the two takes the lock first.      *)
THEOREM SilencedStaysSilent ==
    ASSUME OneSession PROVE Spec => []SilencedAppNotShown
BY SpecBanner, PTL

=============================================================================
