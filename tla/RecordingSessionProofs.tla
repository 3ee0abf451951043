----------------------- MODULE RecordingSessionProofs -----------------------
(***************************************************************************)
(* For every number of starts and of overlapping stops: the interface is   *)
(* never busy with nothing behind it, what it calls a recording streams    *)
(* to its own socket only, and a recording is left through stop() only.    *)
(***************************************************************************)
EXTENDS RecordingSession, TLAPS

ResType == [Starts -> [live : SUBSET Refs, held : SUBSET Refs]]

(* Instances are named by starts made before they were mounted, so the     *)
(* instance a start was called on has a smaller number than the start.     *)
RequestsKnown ==
    /\ requests \in [0..MaxStarts -> Nat]
    /\ \A m \in 0..MaxStarts : requests[m] > 0 => m <= starts

Numbers ==
    /\ shell \in 0..starts \cup {Null}
    /\ ended \in 0..starts \cup {Null}
    /\ RequestsKnown
    /\ \A k \in Starts : stage[k] # "none" => k <= starts
    /\ \A k \in Starts : k <= starts => home[k][2] < k
    /\ sessionId <= starts
    /\ phase = "recording" => sessionId # None /\ home[sessionId] \notin autoStop

(* What React has rendered is what the state calls for. *)
EndedMatches == ended # Null <=> EndedShown(shell, view, phase)

(* The inductive invariant. *)
Inv == TypeOK /\ Numbers /\ EndedMatches /\ BusyHasFlow /\ RecordingIsStreamed

LEMMA InitInv == Init => Inv
<1> SUFFICES ASSUME Init PROVE Inv
  OBVIOUS
<1>1. TypeOK
  <2>1. /\ starts \in 0..MaxStarts /\ native \in 0..MaxStarts
        /\ sessionId \in 0..MaxStarts /\ stops \in Nat /\ drains \subseteq 0..MaxStarts
        /\ shell \in 0..MaxStarts \cup {Null}
    BY SessionAssumption DEF Init, None
  <2>2. home \in [Starts -> Instances]
    BY SessionAssumption DEF Init, Instances
  <2>3. res \in [Starts -> [live : SUBSET Refs, held : SUBSET Refs]]
    BY DEF Init, Nothing
  <2> QED
    BY <2>1, <2>2, <2>3 DEF Init, TypeOK, Phases, PermStates, ConnKinds, Stages
<1>2. Numbers
  BY SessionAssumption DEF Init, Numbers, RequestsKnown, Starts, None, Null
<1> QED
  BY <1>1, <1>2 DEF Init, Inv, EndedMatches, EndedShown, BusyHasFlow,
                    RecordingIsStreamed, Null

-----------------------------------------------------------------------------
(* Every transition of the store stays within the phases. *)
LEMMA StoreTypes ==
    ASSUME NEW p \in Phases
    PROVE  /\ BeginPermissionCheck(p) \in Phases
           /\ BeginPermissionRequest(p) \in Phases
           /\ RequestStart(p) \in Phases /\ CancelStart(p) \in Phases
           /\ ConfirmStart(p) \in Phases /\ RequestStop(p) \in Phases
           /\ ConfirmStop(p) \in Phases
BY DEF Phases, Starting, BeginPermissionCheck, BeginPermissionRequest, RequestStart,
       CancelStart, ConfirmStart, RequestStop, ConfirmStop

(* A teardown leaves the sessions of other instances alone. *)
LEMMA TeardownLemma ==
    ASSUME NEW r \in ResType, NEW inst
    PROVE  /\ TeardownWs(r, inst) \in ResType
           /\ \A k \in Starts : home[k] # inst => TeardownWs(r, inst)[k] = r[k]
BY DEF ResType, TeardownWs

(* Assigning a ref releases nothing. *)
LEMMA AssignLemma ==
    ASSUME NEW r \in ResType, NEW k \in Starts, NEW ref \in Refs
    PROVE  /\ Assign(r, k, ref) \in ResType
           /\ ref \in Assign(r, k, ref)[k].live
           /\ \A j \in Starts : r[j].live \subseteq Assign(r, k, ref)[j].live
<1>1. \A j \in Starts : r[j] \in [live : SUBSET Refs, held : SUBSET Refs]
  BY DEF ResType
<1>2. ASSUME NEW j \in Starts
      PROVE  /\ Assign(r, k, ref)[j] \in [live : SUBSET Refs, held : SUBSET Refs]
             /\ r[j].live \subseteq Assign(r, k, ref)[j].live
             /\ j = k => ref \in Assign(r, k, ref)[j].live
  <2>1. Assign(r, k, ref)[j] =
          IF j = k THEN [live |-> r[k].live \cup {ref}, held |-> r[k].held \cup {ref}]
          ELSE IF home[j] = home[k] THEN [r[j] EXCEPT !.held = @ \ {ref}]
          ELSE r[j]
    BY DEF Assign
  <2> QED BY <1>1, <2>1
<1>3. Assign(r, k, ref) = [j \in Starts |-> Assign(r, k, ref)[j]]
  BY DEF Assign
<1> QED BY <1>2, <1>3 DEF ResType

(* The render after a task: the ended view is what the new state calls     *)
(* for, and only its own instance is torn down.                            *)
LEMMA RenderLemma ==
    ASSUME Inv, NEW r \in ResType, NEW c \in ConnKinds, Render(r, c),
           shell' = shell, starts' \in starts..MaxStarts
    PROVE  /\ ended' \in 0..starts' \cup {Null}
           /\ EndedMatches'
           /\ probes' \subseteq {"shell", "ended"}
           /\ res' \in ResType /\ conn' \in ConnKinds
           /\ \A k \in Starts : home[k] = <<"shell", shell>> => res'[k] = r[k]
           /\ ended = Null => res' = r /\ conn' = c
<1> DEFINE shown == EndedShown(shell, view', phase')
<1>1. /\ starts \in 0..MaxStarts /\ starts' \in 0..MaxStarts /\ starts <= starts'
      /\ ended \in 0..starts \cup {Null} /\ probes \subseteq {"shell", "ended"}
  BY SessionAssumption DEF Inv, TypeOK, Numbers
<1>2. ended' \in 0..starts' \cup {Null} /\ (ended' # Null <=> shown)
  BY <1>1 DEF Render, Null
<1>3. EndedMatches'
  BY <1>2 DEF EndedMatches, EndedShown
<1>4. probes' \subseteq {"shell", "ended"}
  BY <1>1 DEF Render
<1>5. /\ TeardownWs(r, <<"ended", ended>>) \in ResType
      /\ \A k \in Starts : home[k] # <<"ended", ended>> =>
             TeardownWs(r, <<"ended", ended>>)[k] = r[k]
  BY TeardownLemma
<1>6. <<"shell", shell>> # <<"ended", ended>>
  OBVIOUS
<1>7. res' \in ResType /\ conn' \in ConnKinds
  BY <1>5 DEF Render, ConnKinds
<1>8. \A k \in Starts : home[k] = <<"shell", shell>> => res'[k] = r[k]
  BY <1>5, <1>6 DEF Render
<1> QED BY <1>2, <1>3, <1>4, <1>7, <1>8 DEF Render

(* A running recording keeps its stream through a render that releases     *)
(* none of its session.                                                    *)
LEMMA KeepsStream ==
    ASSUME Inv, NEW r \in ResType, NEW c \in ConnKinds, Render(r, c),
           shell' = shell, starts' \in starts..MaxStarts,
           phase' = "recording" => phase = "recording" /\ sessionId' = sessionId,
           \A k \in Starts : k <= starts => home'[k] = home[k],
           \A k \in Starts : res[k].live \subseteq r[k].live,
           conn # "idle" => c # "idle"
    PROVE  RecordingIsStreamed'
<1> SUFFICES ASSUME phase' = "recording", home'[sessionId'] = <<"shell", shell'>>
             PROVE  "ws" \in res'[sessionId'].live /\ conn' # "idle"
  BY DEF RecordingIsStreamed, StatusShown
<1>1. phase = "recording" /\ sessionId' = sessionId /\ ended = Null
  BY DEF Inv, EndedMatches, EndedShown
<1>2. res' = r /\ conn' = c
  BY <1>1, RenderLemma
<1>3. sessionId \in Starts /\ sessionId <= starts
  BY <1>1, SessionAssumption DEF Inv, TypeOK, Numbers, Starts, None
<1>4. "ws" \in res[sessionId].live /\ conn # "idle"
  BY <1>1, <1>3 DEF Inv, RecordingIsStreamed, StatusShown
<1> QED BY <1>1, <1>2, <1>3, <1>4

LEMMA PermissionTypes ==
    ASSUME TypeOK, NEW p, SetPermission(p)
    PROVE  perm' \in PermStates /\ dialog' \in BOOLEAN
BY DEF TypeOK, SetPermission, PermStates

(* A new call of start() takes the next number and disturbs no other.      *)
LEMMA StartLemma ==
    ASSUME Inv, NEW inst \in Instances, inst[2] <= starts, NEW p \in Phases,
           Start(inst, p)
    PROVE  /\ starts' \in starts..MaxStarts /\ starts' \in 0..MaxStarts
           /\ stage' \in [Starts -> Stages] /\ home' \in [Starts -> Instances]
           /\ phase' \in Phases
           /\ \A k \in Starts : stage'[k] # "none" => k <= starts'
           /\ \A k \in Starts : k <= starts' => home'[k][2] < k
           /\ \A k \in Starts : k <= starts => home'[k] = home[k]
           /\ \A k \in Starts : stage[k] # "none" => stage'[k] = stage[k]
           /\ starts + 1 \in Starts /\ stage'[starts + 1] = "check"
<1>1. /\ starts \in 0..MaxStarts /\ starts + 1 \in Starts /\ starts' = starts + 1
      /\ stage' = [stage EXCEPT ![starts + 1] = "check"]
      /\ home' = [home EXCEPT ![starts + 1] = inst]
  BY SessionAssumption DEF Inv, TypeOK, Start, Starts
<1>2. stage \in [Starts -> Stages] /\ home \in [Starts -> Instances]
  BY DEF Inv, TypeOK
<1>3. stage' \in [Starts -> Stages] /\ home' \in [Starts -> Instances]
  BY <1>1, <1>2 DEF Stages
<1>4. starts' \in starts..MaxStarts /\ starts' \in 0..MaxStarts
  BY <1>1, SessionAssumption DEF Starts
<1>5. phase' \in Phases
  BY StoreTypes DEF Start
<1>6. ASSUME NEW k \in Starts
      PROVE  /\ stage'[k] # "none" => k <= starts'
             /\ k <= starts' => home'[k][2] < k
             /\ k <= starts => home'[k] = home[k]
             /\ stage[k] # "none" => stage'[k] = stage[k]
  <2>1. k \in 1..MaxStarts
    BY DEF Starts
  <2>2. /\ stage[k] # "none" => k <= starts
        /\ k <= starts => home[k][2] < k
    BY DEF Inv, Numbers
  <2>3. CASE k = starts + 1
    <3>1. inst[2] \in Int
      BY SessionAssumption DEF Instances
    <3>2. home'[k] = inst /\ stage'[k] = "check" /\ stage[k] = "none"
      BY <1>1, <1>2, <2>1, <2>2, <2>3
    <3> QED BY <1>1, <2>1, <2>3, <3>1, <3>2
  <2>4. CASE k # starts + 1
    BY <1>1, <1>2, <2>1, <2>2, <2>4
  <2> QED BY <2>3, <2>4
<1> QED BY <1>1, <1>2, <1>3, <1>4, <1>5, <1>6

(* What is left to show of a task that ends in a render. *)
LEMMA RenderedInv ==
    ASSUME Inv, NEW r \in ResType, NEW c \in ConnKinds, Render(r, c),
           shell' = shell, starts' \in starts..MaxStarts, starts' \in 0..MaxStarts,
           phase' \in Phases, sessionId' \in 0..starts',
           phase' = "recording" => sessionId' # None /\ home'[sessionId'] \notin autoStop',
           os' \in Answers, perm' \in PermStates,
           view' \in {"recording", "history"}, dialog' \in BOOLEAN,
           RequestsKnown',
           stage' \in [Starts -> Stages], home' \in [Starts -> Instances],
           \A k \in Starts : stage'[k] # "none" => k <= starts',
           \A k \in Starts : k <= starts' => home'[k][2] < k,
           autoStop' \subseteq Instances,
           native' \in 0..MaxStarts, stops' \in Nat, drains' \subseteq 0..MaxStarts,
           BusyHasFlow', RecordingIsStreamed'
    PROVE  Inv'
<1>1. /\ ended' \in 0..starts' \cup {Null} /\ EndedMatches'
      /\ probes' \subseteq {"shell", "ended"}
      /\ res' \in ResType /\ conn' \in ConnKinds
  BY RenderLemma
<1>2. starts \in 0..MaxStarts /\ shell \in 0..starts \cup {Null}
  BY DEF Inv, TypeOK, Numbers
<1>3. \A n \in 0..starts' : n \in 0..MaxStarts
  BY SessionAssumption
<1>4. 0..starts \subseteq 0..starts'
  BY <1>2, SessionAssumption
<1>5. Numbers'
  BY <1>1, <1>2, <1>4 DEF Numbers
<1>6. TypeOK'
  <2>1. /\ shell' \in 0..MaxStarts \cup {Null} /\ ended' \in 0..MaxStarts \cup {Null}
        /\ requests' \in [0..MaxStarts -> Nat] /\ sessionId' \in 0..MaxStarts
    BY <1>1, <1>2, <1>3, <1>4 DEF RequestsKnown
  <2>2. res' \in [Starts -> [live : SUBSET Refs, held : SUBSET Refs]]
    BY <1>1 DEF ResType
  <2> QED BY <1>1, <2>1, <2>2 DEF TypeOK
<1> QED BY <1>1, <1>5, <1>6 DEF Inv

(* A task of a flow that goes on: no start is made, no recording begins.   *)
LEMMA OngoingInv ==
    ASSUME Inv, NEW r \in ResType, NEW c \in ConnKinds, Render(r, c),
           shell' = shell, UNCHANGED <<starts, home>>,
           phase' \in Phases, phase' = "recording" => phase = "recording",
           sessionId' \in {sessionId, None}, phase' = "recording" => sessionId' = sessionId,
           os' = os, perm' \in PermStates,
           view' \in {"recording", "history"}, dialog' \in BOOLEAN,
           requests' = requests \/ RequestsKnown',
           phase' = "recording" => autoStop' = autoStop,
           stage' \in [Starts -> Stages],
           \A k \in Starts : stage'[k] # "none" => stage[k] # "none",
           autoStop' \subseteq Instances,
           native' \in 0..MaxStarts, stops' \in Nat, drains' \subseteq 0..MaxStarts,
           phase' = "recording" => \A k \in Starts : res[k].live \subseteq r[k].live,
           phase' = "recording" => (conn # "idle" => c # "idle"),
           BusyHasFlow'
    PROVE  Inv'
<1>1. /\ starts \in 0..MaxStarts /\ starts' \in starts..MaxStarts
      /\ sessionId \in 0..starts /\ RequestsKnown'
      /\ shell \in 0..starts \cup {Null}
  BY SessionAssumption DEF Inv, TypeOK, Numbers, RequestsKnown
<1>2. RecordingIsStreamed'
  <2>1. CASE phase' = "recording"
    BY <1>1, <2>1, KeepsStream
  <2> QED BY <2>1 DEF RecordingIsStreamed
<1>3. /\ sessionId' \in 0..starts'
      /\ phase' = "recording" => sessionId' # None /\ home'[sessionId'] \notin autoStop'
  BY <1>1, SessionAssumption DEF Inv, Numbers, None
<1>4. /\ \A k \in Starts : stage'[k] # "none" => k <= starts'
      /\ \A k \in Starts : k <= starts' => home'[k][2] < k
      /\ home' \in [Starts -> Instances] /\ os' \in Answers
  BY DEF Inv, TypeOK, Numbers
<1> QED BY <1>1, <1>2, <1>3, <1>4, RenderedInv

-----------------------------------------------------------------------------
(* start() and its tasks. *)

(* A new start, by itself or after a permission request has been answered. *)
LEMMA StartsInv ==
    ASSUME Inv, NEW inst \in Instances, inst[2] <= starts,
           NEW p \in {phase, CancelStart(phase)}, Start(inst, p), Render(res, conn),
           UNCHANGED <<view, shell, sessionId, autoStop, native, stops, drains>>,
           os' \in Answers, perm' \in PermStates, dialog' \in BOOLEAN,
           \/ requests' = requests
           \/ /\ requests' \in [0..MaxStarts -> Nat] /\ p = CancelStart(phase)
              /\ \A m \in 0..MaxStarts : requests'[m] <= requests[m]
    PROVE  Inv'
<1>1. phase \in Phases /\ p \in Phases
  BY StoreTypes DEF Inv, TypeOK
<1>2. res \in ResType /\ conn \in ConnKinds
  BY DEF Inv, TypeOK, ResType
<1>3. phase' = BeginPermissionCheck(p) /\ (phase' = "recording" => phase = "recording")
  BY DEF Start, BeginPermissionCheck, CancelStart, Starting
<1>4. BusyHasFlow'
  <2>1. starts + 1 \in Starts /\ stage'[starts + 1] = "check"
    BY <1>1, StartLemma
  <2>2. \A k \in Starts : stage[k] # "none" => stage'[k] = stage[k]
    BY <1>1, StartLemma
  <2> QED
    BY <1>3, <2>1, <2>2
    DEF Inv, BusyHasFlow, BeginPermissionCheck, CancelStart, Starting
<1>5. RecordingIsStreamed'
  BY <1>1, <1>2, <1>3, StartLemma, KeepsStream
<1>6. /\ sessionId' \in 0..starts'
      /\ phase' = "recording" => sessionId' # None /\ home'[sessionId'] \notin autoStop'
  <2>1. sessionId' \in 0..starts' /\ starts' \in Nat
    BY <1>1, StartLemma, SessionAssumption DEF Inv, TypeOK, Numbers
  <2>2. ASSUME phase' = "recording"
        PROVE  sessionId' # None /\ home'[sessionId'] \notin autoStop'
    <3>1. sessionId # None /\ sessionId \in Starts /\ sessionId <= starts
      BY <1>3, <2>2, SessionAssumption DEF Inv, TypeOK, Numbers, Starts, None
    <3>2. home'[sessionId] = home[sessionId]
      BY <1>1, <3>1, StartLemma
    <3> QED BY <1>3, <2>2, <3>1, <3>2 DEF Inv, Numbers
  <2> QED BY <2>1, <2>2
<1>8. RequestsKnown'
  <2>1. starts \in Nat /\ starts' \in Nat /\ starts <= starts'
    BY <1>1, StartLemma, SessionAssumption DEF Inv, TypeOK
  <2>2. \A m \in 0..MaxStarts : requests[m] \in Nat /\ (requests[m] > 0 => m <= starts)
    BY DEF Inv, Numbers, RequestsKnown
  <2>3. requests' \in [0..MaxStarts -> Nat]
    BY DEF Inv, Numbers, RequestsKnown
  <2>4. ASSUME NEW m \in 0..MaxStarts
        PROVE  requests'[m] \in Nat /\ requests'[m] <= requests[m]
    <3>1. requests'[m] \in Nat /\ requests[m] \in Nat
      BY <2>2, <2>3
    <3>2. CASE requests' = requests
      BY <3>1, <3>2
    <3>3. CASE \A n \in 0..MaxStarts : requests'[n] <= requests[n]
      BY <3>1, <3>3
    <3> QED BY <3>1, <3>2, <3>3
  <2>5. \A m \in 0..MaxStarts : m \in Int
    BY SessionAssumption
  <2> QED BY <2>1, <2>2, <2>3, <2>4, <2>5 DEF RequestsKnown
<1>7. /\ view' \in {"recording", "history"}
      /\ autoStop' \subseteq Instances
      /\ native' \in 0..MaxStarts /\ stops' \in Nat /\ drains' \subseteq 0..MaxStarts
  BY DEF Inv, TypeOK, Numbers
<1> QED BY <1>1, <1>2, <1>4, <1>5, <1>6, <1>7, <1>8, StartLemma, RenderedInv

LEMMA StartFromShellInv == ASSUME Inv, StartFromShell PROVE Inv'
<1>1. /\ <<"shell", shell>> \in Instances /\ <<"shell", shell>>[2] <= starts
      /\ Start(<<"shell", shell>>, phase)
  BY SessionAssumption DEF Inv, TypeOK, Numbers, StartFromShell, Instances
<1>2. /\ UNCHANGED <<view, shell, sessionId, autoStop, native, stops, drains, requests>>
      /\ os' \in Answers /\ perm' \in PermStates /\ dialog' \in BOOLEAN
      /\ Render(res, conn)
  BY DEF StartFromShell, Inv, TypeOK, uiVars, rustVars
<1> QED BY <1>1, <1>2, StartsInv

LEMMA StartNewInv == ASSUME Inv, StartNew PROVE Inv'
<1>1. /\ <<"ended", ended>> \in Instances /\ <<"ended", ended>>[2] <= starts
      /\ Start(<<"ended", ended>>, phase)
  BY SessionAssumption DEF Inv, TypeOK, Numbers, StartNew, Instances
<1>2. /\ UNCHANGED <<view, shell, sessionId, autoStop, native, stops, drains, requests>>
      /\ os' \in Answers /\ perm' \in PermStates /\ dialog' \in BOOLEAN
      /\ Render(res, conn)
  BY DEF StartNew, Inv, TypeOK, uiVars, rustVars
<1> QED BY <1>1, <1>2, StartsInv

LEMMA CheckResolvesInv == ASSUME Inv, NEW k \in Starts, CheckResolves(k) PROVE Inv'
<1>1. /\ UNCHANGED <<view, shell, requests, sessionId, starts, home, autoStop, os, native, stops, drains>>
      /\ Render(res, conn) /\ stage[k] = "check"
  BY DEF CheckResolves, rustVars
<1>2. perm' \in PermStates /\ dialog' \in BOOLEAN
  BY PermissionTypes DEF CheckResolves, Inv
<1>3. /\ phase' \in Phases /\ (phase' = "recording" => phase = "recording")
  BY StoreTypes DEF CheckResolves, Inv, TypeOK, RequestStart, CancelStart
<1>4. stage \in [Starts -> Stages]
  BY DEF Inv, TypeOK
<1>5. \/ phase' = RequestStart(phase) /\ stage' = [stage EXCEPT ![k] = "create"]
      \/ phase' = CancelStart(phase) /\ stage' = [stage EXCEPT ![k] = "done"]
  BY DEF CheckResolves
<1>6. BusyHasFlow'
  BY <1>1, <1>4, <1>5 DEF Inv, BusyHasFlow, RequestStart, CancelStart, Starting
<1>7. stage' \in [Starts -> Stages] /\ \A j \in Starts : stage'[j] # "none" => stage[j] # "none"
  BY <1>1, <1>4, <1>5 DEF Stages
<1> QED BY <1>1, <1>2, <1>3, <1>6, <1>7, OngoingInv DEF Inv, TypeOK, ResType

LEMMA StartFailsInv == ASSUME Inv, NEW k \in Starts, StartFails(k) PROVE Inv'
<1>1. /\ UNCHANGED <<view, shell, dialog, requests, sessionId, perm, starts, home, autoStop, os, native, stops, drains>>
      /\ Render(res, conn) /\ stage[k] # "none"
      /\ phase' = CancelStart(phase) /\ stage' = [stage EXCEPT ![k] = "done"]
  BY DEF StartFails, rustVars, uiVars
<1>2. stage \in [Starts -> Stages]
  BY DEF Inv, TypeOK
<1>3. /\ phase' \in Phases /\ (phase' = "recording" => phase = "recording")
  BY <1>1, StoreTypes DEF Inv, TypeOK, CancelStart
<1>4. BusyHasFlow'
  BY <1>1, <1>2 DEF Inv, BusyHasFlow, CancelStart, Starting
<1>5. stage' \in [Starts -> Stages] /\ \A j \in Starts : stage'[j] # "none" => stage[j] # "none"
  BY <1>1, <1>2 DEF Stages
<1> QED BY <1>1, <1>3, <1>4, <1>5, OngoingInv DEF Inv, TypeOK, ResType

(* Tasks of a start that change neither the phase nor what is rendered. *)
LEMMA StageInv ==
    ASSUME Inv, NEW k \in Starts, NEW to \in Stages, stage[k] # "none",
           stage' = [stage EXCEPT ![k] = to],
           UNCHANGED <<phase, sessionId, perm, uiVars, starts, home, autoStop, ended,
                       probes, conn, os, stops, drains>>,
           res' \in ResType, \A j \in Starts : res[j].live \subseteq res'[j].live,
           native' \in 0..MaxStarts,
           \/ stage[k] \in {"create", "native", "started"} /\ to \in {"create", "native", "started"}
           \/ stage[k] \notin {"check", "create", "native", "started"}
    PROVE  Inv'
<1>1. stage \in [Starts -> Stages]
  BY DEF Inv, TypeOK
<1>2. stage' \in [Starts -> Stages] /\ \A j \in Starts : stage'[j] # "none" => stage[j] # "none"
  BY <1>1
<1>3. BusyHasFlow'
  BY <1>1 DEF Inv, BusyHasFlow, uiVars
<1>4. TypeOK'
  BY <1>2 DEF Inv, TypeOK, uiVars, ResType
<1>5. Numbers' /\ EndedMatches'
  BY <1>2 DEF Inv, Numbers, RequestsKnown, EndedMatches, EndedShown, uiVars
<1>6. RecordingIsStreamed'
  <2>1. phase = "recording" => sessionId \in Starts
    BY SessionAssumption DEF Inv, TypeOK, Numbers, Starts, None
  <2> QED BY <2>1 DEF Inv, RecordingIsStreamed, StatusShown, uiVars
<1> QED BY <1>3, <1>4, <1>5, <1>6 DEF Inv

LEMMA MeetingCreatedInv == ASSUME Inv, NEW k \in Starts, MeetingCreated(k) PROVE Inv'
BY StageInv DEF MeetingCreated, Inv, TypeOK, ResType, Stages, rendered, rustVars

LEMMA NativeStartsInv == ASSUME Inv, NEW k \in Starts, NativeStarts(k) PROVE Inv'
<1>1. k \in 0..MaxStarts
  BY SessionAssumption DEF Starts
<1> QED BY <1>1, StageInv DEF NativeStarts, Inv, TypeOK, ResType, Stages, rendered

LEMMA ListeningInv == ASSUME Inv, NEW k \in Starts, Listening(k) PROVE Inv'
<1>1. res \in ResType
  BY DEF Inv, TypeOK, ResType
<1>2. PICK ref \in Refs : res' = Assign(res, k, ref)
  BY DEF Listening, Refs
<1>3. res' \in ResType /\ \A j \in Starts : res[j].live \subseteq res'[j].live
  BY <1>1, <1>2, AssignLemma
<1>4. PICK to \in Stages : stage' = [stage EXCEPT ![k] = to]
  BY DEF Listening, Stages
<1>5. /\ stage[k] \notin {"none", "check", "create", "native", "started"}
      /\ UNCHANGED <<phase, sessionId, perm, uiVars, starts, home, autoStop, ended,
                     probes, conn, os, stops, drains>>
      /\ native' \in 0..MaxStarts
  BY DEF Listening, rustVars, Inv, TypeOK
<1> QED BY <1>3, <1>4, <1>5, StageInv

(* The session that is confirmed streams from the start.                   *)
LEMMA StartedInv == ASSUME Inv, NEW k \in Starts, Started(k) PROVE Inv'
<1> DEFINE r == Assign(res, k, "ws")
<1>1. /\ UNCHANGED <<uiVars, perm, starts, home, os, rustVars>>
      /\ Render(r, "up") /\ stage[k] = "started"
      /\ phase' = ConfirmStart(phase) /\ stage' = [stage EXCEPT ![k] = "listenAudio"]
      /\ sessionId' = IF phase = "starting" THEN k ELSE sessionId
      /\ autoStop' = autoStop \ {home[k]}
  BY DEF Started, OpenSession
<1>2. /\ r \in ResType /\ "ws" \in r[k].live
      /\ \A j \in Starts : res[j].live \subseteq r[j].live
  BY AssignLemma DEF Inv, TypeOK, ResType, Refs
<1> HIDE DEF r
<1>3. stage \in [Starts -> Stages] /\ k \in 1..starts /\ starts \in 0..MaxStarts
  BY <1>1, SessionAssumption DEF Inv, TypeOK, Numbers, Starts
<1>4. phase' \in Phases
  BY <1>1, StoreTypes DEF Inv, TypeOK
<1>5. BusyHasFlow'
  BY <1>1, <1>3 DEF Inv, BusyHasFlow, ConfirmStart, uiVars, rustVars
<1>6. RecordingIsStreamed'
  <2>1. CASE phase = "starting"
    <3>1. ended = Null
      BY <2>1 DEF Inv, EndedMatches, EndedShown
    <3>2. res' = r /\ conn' = "up"
      BY <1>1, <3>1 DEF Render, EndedShown
    <3> QED BY <1>1, <1>2, <2>1, <3>2 DEF RecordingIsStreamed, StatusShown
  <2>2. CASE phase # "starting"
    BY <1>1, <1>2, <1>3, <2>2, KeepsStream DEF ConfirmStart, uiVars, ConnKinds
  <2> QED BY <2>1, <2>2
<1>7. /\ sessionId' \in 0..starts'
      /\ phase' = "recording" => sessionId' # None /\ home'[sessionId'] \notin autoStop'
  BY <1>1, <1>3, SessionAssumption DEF Inv, TypeOK, Numbers, ConfirmStart, None
<1>8. stage' \in [Starts -> Stages] /\ \A j \in Starts : stage'[j] # "none" => stage[j] # "none"
  BY <1>1, <1>3 DEF Stages
<1>9. /\ os' \in Answers /\ perm' \in PermStates /\ view' \in {"recording", "history"}
      /\ dialog' \in BOOLEAN /\ RequestsKnown'
      /\ autoStop' \subseteq Instances /\ shell' = shell
      /\ native' \in 0..MaxStarts /\ stops' \in Nat /\ drains' \subseteq 0..MaxStarts
      /\ starts' \in starts..MaxStarts /\ starts' \in 0..MaxStarts
      /\ home' \in [Starts -> Instances]
      /\ \A j \in Starts : j <= starts' => home'[j][2] < j
      /\ \A j \in Starts : stage'[j] # "none" => j <= starts'
  BY <1>1, <1>3, <1>8 DEF Inv, TypeOK, Numbers, RequestsKnown, uiVars, rustVars
<1> QED BY <1>1, <1>2, <1>4, <1>5, <1>6, <1>7, <1>8, <1>9, RenderedInv DEF ConnKinds

-----------------------------------------------------------------------------
(* stop() and what calls it. *)

LEMMA StopInv ==
    ASSUME Inv, NEW inst, NEW r \in ResType, Stop(inst, r, phase'),
           phase' \in {RequestStop(phase), CancelStart(RequestStop(phase))},
           autoStop' \subseteq Instances
    PROVE  Inv'
<1>1. /\ UNCHANGED <<uiVars, sessionId, os, perm, starts, stage, home>>
      /\ Render(TeardownWs(r, inst), "idle")
      /\ stops' = stops + 1 /\ UNCHANGED <<native, drains>>
  BY DEF Stop
<1>2. TeardownWs(r, inst) \in ResType
  BY TeardownLemma
<1>3. phase' \in Phases /\ phase' # "recording"
  BY StoreTypes DEF Inv, TypeOK, RequestStop, CancelStart, Starting
<1>4. BusyHasFlow'
  BY <1>1 DEF Inv, TypeOK, BusyHasFlow, RequestStop, CancelStart, Starting, uiVars
<1>5. native' \in 0..MaxStarts /\ stops' \in Nat /\ drains' \subseteq 0..MaxStarts
  BY <1>1 DEF Inv, TypeOK
<1>6. /\ perm' \in PermStates /\ view' \in {"recording", "history"} /\ dialog' \in BOOLEAN
      /\ stage' \in [Starts -> Stages] /\ shell' = shell /\ requests' = requests
      /\ "idle" \in ConnKinds
  BY <1>1 DEF Inv, TypeOK, uiVars, ConnKinds
<1> QED BY <1>1, <1>2, <1>3, <1>4, <1>5, <1>6, OngoingInv

LEMMA StopClickedInv == ASSUME Inv, StopClicked PROVE Inv'
<1>1. /\ phase' = RequestStop(phase) /\ autoStop' \subseteq Instances /\ res \in ResType
      /\ Stop(<<"shell", shell>>, res, phase')
  BY DEF StopClicked, Stop, Inv, TypeOK, ResType
<1> QED BY <1>1, StopInv

LEMMA ClientGivesUpInv ==
    ASSUME Inv, NEW k \in Starts, NEW dead \in BOOLEAN, ClientGivesUp(k, dead)
    PROVE  Inv'
<1> DEFINE r == IF dead THEN [res EXCEPT ![k].live = @ \ {"ws"}] ELSE res
<1>1. phase' = RequestStop(phase) /\ Stop(home[k], r, phase')
  BY DEF ClientGivesUp, Stop
<1>2. r \in ResType
  BY DEF Inv, TypeOK, ResType
<1>3. autoStop' \subseteq Instances
  BY DEF ClientGivesUp, Inv, TypeOK
<1> QED BY <1>1, <1>2, <1>3, StopInv

LEMMA CaptureFailsInv == ASSUME Inv, NEW k \in Starts, CaptureFails(k) PROVE Inv'
<1>1. /\ phase' = CancelStart(RequestStop(phase)) /\ Stop(home[k], res, phase')
      /\ autoStop' \subseteq Instances /\ res \in ResType
  BY DEF CaptureFails, Stop, Inv, TypeOK, ResType
<1> QED BY <1>1, StopInv

LEMMA StopRepliesInv == ASSUME Inv, NEW s \in 0..MaxStarts, StopReplies(s) PROVE Inv'
<1>1. /\ UNCHANGED <<uiVars, sessionId, os, perm, flowVars, native, stops>> /\ Render(res, conn)
      /\ phase' = ConfirmStop(phase) /\ drains' \subseteq drains
  BY DEF StopReplies
<1>2. phase' \in Phases /\ (phase' = "recording" => phase = "recording")
  BY <1>1, StoreTypes DEF Inv, TypeOK, ConfirmStop
<1>3. BusyHasFlow'
  BY <1>1 DEF Inv, BusyHasFlow, ConfirmStop, uiVars, flowVars
<1> QED BY <1>1, <1>2, <1>3, OngoingInv DEF Inv, TypeOK, ResType, uiVars, flowVars

(* A stop command takes the session and is awaited from then on.           *)
LEMMA NativeStopsInv == ASSUME Inv, NativeStops PROVE Inv'
<1>1. /\ UNCHANGED <<phase, sessionId, perm, uiVars, flowVars, rendered, os>>
      /\ stops > 0 /\ stops' = stops - 1
      /\ drains' = drains \cup {native} /\ native' = None
  BY DEF NativeStops
<1>2. /\ stops' \in Nat /\ drains' \subseteq 0..MaxStarts /\ drains' # {}
      /\ native' \in 0..MaxStarts
  BY <1>1, SessionAssumption DEF Inv, TypeOK, None
<1>3. TypeOK'
  BY <1>1, <1>2 DEF Inv, TypeOK, uiVars, flowVars, rendered
<1>4. Numbers' /\ EndedMatches' /\ RecordingIsStreamed'
  BY <1>1 DEF Inv, Numbers, RequestsKnown, EndedMatches, EndedShown, RecordingIsStreamed,
              StatusShown, uiVars, flowVars, rendered
<1>5. BusyHasFlow'
  BY <1>1, <1>2 DEF Inv, BusyHasFlow, uiVars, flowVars
<1> QED BY <1>3, <1>4, <1>5 DEF Inv

(* A client whose instance has stopped by itself is not that of a          *)
(* recording.                                                              *)
LEMMA ClientDiesInv == ASSUME Inv, NEW k \in Starts, ClientDies(k) PROVE Inv'
<1>1. /\ UNCHANGED <<phase, sessionId, perm, uiVars, flowVars, ended, probes, os, rustVars>>
      /\ home[k] \in autoStop /\ conn' = "failed"
      /\ res' = [res EXCEPT ![k].live = @ \ {"ws"}]
  BY DEF ClientDies
<1>2. TypeOK'
  BY <1>1 DEF Inv, TypeOK, ConnKinds, uiVars, flowVars, rustVars
<1>3. Numbers' /\ EndedMatches' /\ BusyHasFlow'
  BY <1>1 DEF Inv, Numbers, RequestsKnown, EndedMatches, EndedShown, BusyHasFlow,
              uiVars, flowVars, rustVars
<1>4. RecordingIsStreamed'
  <2>1. SUFFICES ASSUME phase = "recording", home[sessionId] = <<"shell", shell>>
                 PROVE  "ws" \in res'[sessionId].live
    BY <1>1 DEF RecordingIsStreamed, StatusShown, uiVars, flowVars
  <2>2. sessionId # k /\ sessionId \in Starts
    <3>1. sessionId # None /\ home[sessionId] \notin autoStop
      BY <2>1 DEF Inv, Numbers
    <3>2. sessionId \in 0..MaxStarts
      BY DEF Inv, TypeOK
    <3>3. sessionId # k
      BY <1>1, <3>1
    <3> QED BY <3>1, <3>2, <3>3, SessionAssumption DEF Starts, None
  <2>3. res'[sessionId] = res[sessionId]
    BY <1>1, <2>2 DEF Inv, TypeOK
  <2> QED BY <2>1, <2>3 DEF Inv, RecordingIsStreamed
<1> QED BY <1>2, <1>3, <1>4 DEF Inv

-----------------------------------------------------------------------------
(* Permissions, navigation and the sign-in. *)

LEMMA RequestPermissionsInv == ASSUME Inv, RequestPermissions PROVE Inv'
<1>1. /\ UNCHANGED <<view, shell, dialog, sessionId, perm, flowVars, os, rustVars>>
      /\ Render(res, conn) /\ shell # Null
      /\ requests' = [requests EXCEPT ![shell] = @ + 1]
      /\ phase' = BeginPermissionRequest(phase)
  BY DEF RequestPermissions
<1>2. phase' \in Phases /\ (phase' = "recording" => phase = "recording")
  BY <1>1, StoreTypes DEF Inv, TypeOK, BeginPermissionRequest
<1>4. /\ shell \in 0..MaxStarts /\ shell <= starts /\ requests'[shell] > 0
      /\ RequestsKnown'
  <2>1. shell \in 0..MaxStarts /\ shell \in 0..starts
    BY <1>1 DEF Inv, TypeOK, Numbers
  <2>2. /\ requests \in [0..MaxStarts -> Nat] /\ starts' = starts /\ starts \in Nat
        /\ \A m \in 0..MaxStarts : requests[m] > 0 => m <= starts
    BY <1>1, SessionAssumption DEF Inv, TypeOK, Numbers, RequestsKnown, flowVars
  <2> QED BY <1>1, <2>1, <2>2 DEF RequestsKnown
<1>3. BusyHasFlow'
  BY <1>1, <1>4 DEF Inv, BusyHasFlow, BeginPermissionRequest, flowVars, rustVars
<1> QED BY <1>1, <1>2, <1>3, <1>4, OngoingInv DEF Inv, TypeOK, ResType, flowVars, rustVars

LEMMA RequestResolvesInv ==
    ASSUME Inv, NEW asker \in 0..MaxStarts, NEW answer \in {"granted", "denied"},
           RequestResolves(asker, answer)
    PROVE  Inv'
<1>1. /\ UNCHANGED <<view, shell, sessionId, autoStop, native, stops, drains>>
      /\ Render(res, conn) /\ requests[asker] > 0
      /\ requests' = [requests EXCEPT ![asker] = @ - 1]
  BY DEF RequestResolves, rustVars
<1>5. /\ requests' \in [0..MaxStarts -> Nat] /\ asker <= starts
      /\ \A m \in 0..MaxStarts : requests'[m] <= requests[m]
  BY <1>1 DEF Inv, Numbers, RequestsKnown
<1>2. os' \in Answers /\ perm' \in PermStates /\ dialog' \in BOOLEAN
  BY PermissionTypes DEF RequestResolves, Inv, TypeOK, Answers
<1>3. CASE Start(<<"shell", asker>>, CancelStart(phase))
  <2>1. <<"shell", asker>> \in Instances /\ <<"shell", asker>>[2] <= starts
    BY <1>5, SessionAssumption DEF Instances
  <2> QED BY <1>1, <1>2, <1>3, <1>5, <2>1, StartsInv
<1>4. CASE phase' = CancelStart(phase) /\ UNCHANGED <<starts, stage, home>>
  <2>1. phase' \in Phases /\ (phase' = "recording" => phase = "recording")
    BY <1>4, StoreTypes DEF Inv, TypeOK, CancelStart
  <2>2. BusyHasFlow'
    BY <1>1, <1>4 DEF Inv, BusyHasFlow, CancelStart, Starting
  <2>3. /\ starts \in 0..MaxStarts /\ starts' \in starts..MaxStarts
        /\ res \in ResType /\ conn \in ConnKinds
    BY <1>4, SessionAssumption DEF Inv, TypeOK, ResType
  <2>4. RecordingIsStreamed'
    BY <1>1, <1>4, <2>1, <2>3, KeepsStream
  <2>5. /\ sessionId' \in 0..starts'
        /\ phase' = "recording" => sessionId' # None /\ home'[sessionId'] \notin autoStop'
    BY <1>1, <1>4, <2>1, <2>3, SessionAssumption DEF Inv, TypeOK, Numbers
  <2>6. /\ view' \in {"recording", "history"} /\ RequestsKnown'
        /\ stage' \in [Starts -> Stages] /\ home' \in [Starts -> Instances]
        /\ \A k \in Starts : stage'[k] # "none" => k <= starts'
        /\ \A k \in Starts : k <= starts' => home'[k][2] < k
        /\ autoStop' \subseteq Instances
        /\ native' \in 0..MaxStarts /\ stops' \in Nat /\ drains' \subseteq 0..MaxStarts
        /\ starts' \in 0..MaxStarts
    <3>1. RequestsKnown'
      <4>1. \A m \in 0..MaxStarts : requests[m] \in Nat /\ requests'[m] \in Nat
        BY <1>5 DEF Inv, Numbers, RequestsKnown
      <4> QED BY <1>4, <1>5, <4>1 DEF Inv, Numbers, RequestsKnown
    <3> QED BY <1>1, <1>4, <3>1 DEF Inv, TypeOK, Numbers
  <2> QED BY <1>1, <1>2, <2>1, <2>2, <2>3, <2>4, <2>5, <2>6, RenderedInv
<1> QED BY <1>3, <1>4 DEF RequestResolves

LEMMA GoHomeInv == ASSUME Inv, GoHome PROVE Inv'
<1>1. /\ UNCHANGED <<view, shell, requests, flowVars, os, rustVars>>
      /\ Render(res, conn) /\ phase' = "idle" /\ sessionId' = None
  BY DEF GoHome
<1>2. perm' \in PermStates /\ dialog' \in BOOLEAN
  BY PermissionTypes DEF GoHome, Inv
<1>3. BusyHasFlow' /\ phase' \in Phases
  BY <1>1 DEF BusyHasFlow, Phases
<1> QED BY <1>1, <1>2, <1>3, OngoingInv DEF Inv, TypeOK, ResType, flowVars, rustVars

LEMMA NavigateInv == ASSUME Inv, Navigate PROVE Inv'
<1>1. /\ UNCHANGED <<phase, shell, dialog, requests, sessionId, perm, flowVars, os, rustVars>>
      /\ Render(res, conn) /\ view' \in {"recording", "history"}
  BY DEF Navigate
<1>2. BusyHasFlow'
  BY <1>1 DEF Inv, BusyHasFlow, flowVars, rustVars
<1> QED BY <1>1, <1>2, OngoingInv DEF Inv, TypeOK, ResType, flowVars, rustVars

(* A new shell has a number no running session was started under.          *)
LEMMA LoginInv == ASSUME Inv, Login PROVE Inv'
<1>1. /\ UNCHANGED <<phase, sessionId, perm, view, requests, flowVars, res, conn, os, rustVars>>
      /\ shell' = starts /\ dialog' \in BOOLEAN /\ probes' \subseteq {"shell", "ended"}
      /\ ended' = IF EndedShown(starts, view, phase) THEN starts ELSE Null
  BY DEF Login
<1>2. starts \in 0..MaxStarts /\ starts # Null
  BY SessionAssumption DEF Inv, TypeOK, Null
<1>3. TypeOK'
  BY <1>1, <1>2 DEF Inv, TypeOK, flowVars, rustVars
<1>4. Numbers' /\ EndedMatches' /\ BusyHasFlow'
  BY <1>1, <1>2, SessionAssumption
  DEF Inv, Numbers, RequestsKnown, EndedMatches, EndedShown, BusyHasFlow, flowVars, rustVars
<1>5. RecordingIsStreamed'
  <2>1. SUFFICES ASSUME phase = "recording" PROVE home[sessionId] # <<"shell", starts>>
    BY <1>1 DEF RecordingIsStreamed, flowVars
  <2>2. sessionId \in Starts /\ sessionId <= starts
    BY <2>1, SessionAssumption DEF Inv, TypeOK, Numbers, Starts, None
  <2>3. home[sessionId][2] < sessionId
    BY <2>2 DEF Inv, Numbers
  <2> QED BY <1>2, <2>2, <2>3, SessionAssumption DEF Starts
<1> QED BY <1>3, <1>4, <1>5 DEF Inv

LEMMA LogoutInv == ASSUME Inv, Logout PROVE Inv'
<1> DEFINE r == IF ended = Null THEN res ELSE TeardownWs(res, <<"ended", ended>>)
<1>1. /\ UNCHANGED <<phase, sessionId, perm, view, requests, flowVars, os, rustVars>>
      /\ shell' = Null /\ ended' = Null /\ probes' = {} /\ dialog' = FALSE
      /\ conn' = "idle" /\ res' = TeardownWs(r, <<"shell", shell>>)
  BY DEF Logout
<1>2. res' \in ResType
  <2>1. r \in ResType
    BY TeardownLemma DEF Inv, TypeOK, ResType
  <2> QED BY <1>1, <2>1, TeardownLemma
<1>3. TypeOK'
  BY <1>1, <1>2 DEF Inv, TypeOK, ResType, ConnKinds, flowVars, rustVars
<1>4. Numbers' /\ EndedMatches' /\ BusyHasFlow'
  BY <1>1 DEF Inv, Numbers, RequestsKnown, EndedMatches, EndedShown, BusyHasFlow, flowVars, rustVars
<1>5. RecordingIsStreamed'
  <2>1. SUFFICES ASSUME phase = "recording" PROVE home[sessionId] # <<"shell", Null>>
    BY <1>1 DEF RecordingIsStreamed, flowVars
  <2>2. sessionId \in Starts
    BY <2>1, SessionAssumption DEF Inv, TypeOK, Numbers, Starts, None
  <2>3. home[sessionId] \in Instances
    BY <2>2 DEF Inv, TypeOK
  <2> QED BY <2>3 DEF Instances, Null
<1> QED BY <1>3, <1>4, <1>5 DEF Inv

(* What neither renders nor touches a flow. *)
LEMMA AsideInv ==
    ASSUME Inv,
           UNCHANGED <<phase, sessionId, view, shell, requests, flowVars, ended, res, rustVars>>,
           os' \in Answers, perm' \in PermStates, dialog' \in BOOLEAN,
           probes' \subseteq probes, conn' \in {conn, "up"}
    PROVE  Inv'
<1>1. TypeOK'
  BY DEF Inv, TypeOK, ConnKinds, flowVars, rustVars
<1>2. Numbers' /\ EndedMatches' /\ BusyHasFlow' /\ RecordingIsStreamed'
  BY DEF Inv, Numbers, RequestsKnown, EndedMatches, EndedShown, BusyHasFlow, RecordingIsStreamed,
         StatusShown, flowVars, rustVars
<1> QED BY <1>1, <1>2 DEF Inv

LEMMA ClientPublishesInv == ASSUME Inv, NEW k \in Starts, ClientPublishes(k) PROVE Inv'
BY AsideInv DEF ClientPublishes, Inv, TypeOK, uiVars

LEMMA SettingsChangeInv == ASSUME Inv, SettingsChange PROVE Inv'
BY AsideInv DEF SettingsChange, Inv, TypeOK, Answers, uiVars, rendered

LEMMA DismissPromptInv == ASSUME Inv, DismissPrompt PROVE Inv'
BY AsideInv DEF DismissPrompt, Inv, TypeOK, rendered

LEMMA PermissionsReadInv ==
    ASSUME Inv, NEW c \in {"shell", "ended"}, PermissionsRead(c) PROVE Inv'
<1>1. perm' \in PermStates /\ dialog' \in BOOLEAN
  BY PermissionTypes DEF PermissionsRead, Inv
<1> QED BY <1>1, AsideInv DEF PermissionsRead, Inv, TypeOK

LEMMA StutterInv == ASSUME Inv, UNCHANGED vars PROVE Inv'
BY AsideInv DEF vars, uiVars, rendered, Inv, TypeOK

-----------------------------------------------------------------------------
LEMMA NextInv == ASSUME Inv, [Next]_vars PROVE Inv'
<1>1. ASSUME NEW k \in Starts, FlowStep(k) PROVE Inv'
  BY <1>1, CheckResolvesInv, StartFailsInv, MeetingCreatedInv, NativeStartsInv,
     StartedInv, ListeningInv DEF FlowStep
<1>2. ASSUME NEW k \in Starts,
             \/ \E dead \in BOOLEAN : ClientGivesUp(k, dead)
             \/ ClientDies(k) \/ CaptureFails(k) \/ ClientPublishes(k)
      PROVE  Inv'
  BY <1>2, ClientGivesUpInv, ClientDiesInv, CaptureFailsInv, ClientPublishesInv
<1>3. ASSUME StartFromShell \/ StartNew \/ StopClicked \/ GoHome \/ Navigate
             \/ Logout \/ Login
      PROVE  Inv'
  BY <1>3, StartFromShellInv, StartNewInv, StopClickedInv, GoHomeInv, NavigateInv,
     LogoutInv, LoginInv
<1>4. ASSUME RequestPermissions \/ DismissPrompt \/ SettingsChange PROVE Inv'
  BY <1>4, RequestPermissionsInv, DismissPromptInv, SettingsChangeInv
<1>5. ASSUME NativeStops \/ \E s \in 0..MaxStarts : StopReplies(s) PROVE Inv'
  BY <1>5, NativeStopsInv, StopRepliesInv
<1>6. ASSUME NEW asker \in 0..MaxStarts, NEW answer \in {"granted", "denied"},
           RequestResolves(asker, answer) PROVE Inv'
  BY <1>6, RequestResolvesInv
<1>7. ASSUME NEW c \in {"shell", "ended"}, PermissionsRead(c) PROVE Inv'
  BY <1>7, PermissionsReadInv
<1>8. CASE UNCHANGED vars
  BY <1>8, StutterInv
<1> QED BY <1>1, <1>2, <1>3, <1>4, <1>5, <1>6, <1>7, <1>8 DEF Next

(* The recording session keeps its inductive invariant, for every bound on *)
(* starts and stops.                                                       *)
THEOREM SessionInvariant == Spec => []Inv
<1>1. Inv /\ [Next]_vars => Inv'
  BY NextInv
<1> QED BY InitInv, <1>1, PTL DEF Spec

(* The stores, refs and commands of use-recording.ts keep their types.     *)
THEOREM TypeCorrect == Spec => []TypeOK
<1>1. Inv => TypeOK
  BY DEF Inv
<1> QED BY SessionInvariant, <1>1, PTL

(* A phase that disables the record button always has a pending start,     *)
(* permission request or stop behind it.                                   *)
THEOREM BusyAlwaysHasFlow == Spec => []BusyHasFlow
<1>1. Inv => BusyHasFlow
  BY DEF Inv
<1> QED BY SessionInvariant, <1>1, PTL

(* What the interface calls a recording has a live, visible client.        *)
THEOREM RecordingAlwaysStreams == Spec => []RecordingIsStreamed
<1>1. Inv => RecordingIsStreamed
  BY DEF Inv
<1> QED BY SessionInvariant, <1>1, PTL

(* No action but stop() ends a recording.                                  *)
LEMMA LeavesByStop ==
    ASSUME Inv, [Next]_vars, phase = "recording", phase' # "recording"
    PROVE  phase' = "stopping" /\ stops' = stops + 1 /\ sessionId' = sessionId
<1>1. ended = Null
  BY DEF Inv, EndedMatches, EndedShown
<1>2. ASSUME NEW k \in Starts, FlowStep(k) PROVE FALSE
  BY <1>2 DEF FlowStep, CheckResolves, StartFails, MeetingCreated, NativeStarts, Started,
              OpenSession, Listening, RequestStart, CancelStart, Starting, ConfirmStart
<1>3. ASSUME NEW k \in Starts,
             \/ \E dead \in BOOLEAN : ClientGivesUp(k, dead)
             \/ CaptureFails(k)
      PROVE  phase' = "stopping" /\ stops' = stops + 1 /\ sessionId' = sessionId
  BY <1>3 DEF ClientGivesUp, CaptureFails, Stop, RequestStop, CancelStart, Starting
<1>4. ASSUME NEW k \in Starts, ClientDies(k) \/ ClientPublishes(k) PROVE FALSE
  BY <1>4 DEF ClientDies, ClientPublishes
<1>5. CASE StopClicked
  BY <1>5 DEF StopClicked, Stop, RequestStop
<1>6. ASSUME StartFromShell \/ StartNew PROVE FALSE
  BY <1>6 DEF StartFromShell, StartNew, Start, BeginPermissionCheck
<1>7. ASSUME NativeStops \/ \E s \in 0..MaxStarts : StopReplies(s) PROVE FALSE
  BY <1>7 DEF NativeStops, StopReplies, ConfirmStop
<1>8. ASSUME RequestPermissions \/ DismissPrompt \/ SettingsChange PROVE FALSE
  BY <1>8 DEF RequestPermissions, DismissPrompt, SettingsChange, BeginPermissionRequest
<1>9. ASSUME NEW asker \in 0..MaxStarts, NEW answer \in {"granted", "denied"},
           RequestResolves(asker, answer) PROVE FALSE
  BY <1>9 DEF RequestResolves, Start, CancelStart, BeginPermissionCheck, Starting
<1>10. ASSUME NEW c \in {"shell", "ended"}, PermissionsRead(c) PROVE FALSE
  BY <1>10 DEF PermissionsRead
<1>11. ASSUME GoHome \/ Navigate \/ Logout \/ Login PROVE FALSE
  BY <1>1, <1>11 DEF GoHome, Navigate, Logout, Login
<1>12. CASE UNCHANGED vars
  BY <1>12 DEF vars
<1> QED
  BY <1>2, <1>3, <1>4, <1>5, <1>6, <1>7, <1>8, <1>9, <1>10, <1>11, <1>12 DEF Next

(* A recording is left through stop() only, whatever other starts and      *)
(* permission flows do at the same time.                                   *)
THEOREM RecordingLeftByStop == Spec => LeftByStopOnly
<1>1. Inv /\ [Next]_vars =>
        [phase = "recording" /\ phase' # "recording" =>
            phase' = "stopping" /\ stops' = stops + 1 /\ sessionId' = sessionId]_vars
  BY LeavesByStop
<1> QED BY SessionInvariant, <1>1, PTL DEF Spec, LeftByStopOnly

-----------------------------------------------------------------------------
(* The audio of the session that runs.                                     *)

(* Once start() goes on after the reply for the running session, its       *)
(* client is the only one its instance reaches, and no reply that could    *)
(* replace it is outstanding; its listener is registered after that.       *)
OwnClient ==
    \A k \in Starts :
        /\ native = k => stage[k] \in {"started", "listenAudio", "listenError", "done"}
        /\ "audio" \in res[k].live => stage[k] \in {"listenError", "done"}
        /\ "ws" \in res[k].held => stage[k] \in {"listenAudio", "listenError", "done"}
        /\ native = k /\ stage[k] # "started" =>
             \A j \in Starts :
                /\ j # k => stage[j] # "started"
                /\ home[j] = home[k] /\ "ws" \in res[j].held => j = k

Shrinks(r, s) ==
    \A k \in Starts : s[k].live \subseteq r[k].live /\ s[k].held \subseteq r[k].held

LEMMA TeardownShrinks ==
    ASSUME NEW r \in ResType, NEW inst
    PROVE  Shrinks(r, TeardownWs(r, inst))
BY DEF ResType, TeardownWs, Shrinks

LEMMA RenderShrinks ==
    ASSUME NEW r \in ResType, NEW c, Render(r, c)
    PROVE  Shrinks(r, res')
BY TeardownShrinks DEF Render, Shrinks

(* What registers nothing and confirms nothing keeps the client of the     *)
(* running session.                                                        *)
LEMMA QuietOwn ==
    ASSUME OwnClient, Shrinks(res, res'), native' \in {native, None},
           \A k \in Starts : stage'[k] # stage[k] =>
               /\ stage[k] \in {"none", "check", "create", "native"}
               /\ stage'[k] \in {"check", "create", "native", "done"},
           \A k \in Starts : stage[k] # "none" => home'[k] = home[k]
    PROVE  OwnClient'
<1> SUFFICES ASSUME NEW k \in Starts
             PROVE  /\ native' = k => stage'[k] \in {"started", "listenAudio", "listenError", "done"}
                    /\ "audio" \in res'[k].live => stage'[k] \in {"listenError", "done"}
                    /\ "ws" \in res'[k].held => stage'[k] \in {"listenAudio", "listenError", "done"}
                    /\ native' = k /\ stage'[k] # "started" =>
                         \A j \in Starts :
                            /\ j # k => stage'[j] # "started"
                            /\ home'[j] = home'[k] /\ "ws" \in res'[j].held => j = k
  BY DEF OwnClient
<1>1. k # None
  BY SessionAssumption DEF Starts, None
<1>2. native' = k => native = k /\ stage'[k] = stage[k]
  BY <1>1 DEF OwnClient
<1>3. \A j \in Starts : "ws" \in res'[j].held => "ws" \in res[j].held /\ home'[j] = home[j]
  BY DEF Shrinks, OwnClient
<1>4. \A j \in Starts : stage'[j] = "started" => stage[j] = "started"
  OBVIOUS
<1>5. "audio" \in res'[k].live => stage'[k] \in {"listenError", "done"}
  BY DEF Shrinks, OwnClient
<1>6. "ws" \in res'[k].held => stage'[k] \in {"listenAudio", "listenError", "done"}
  BY DEF Shrinks, OwnClient
<1>7. ASSUME native' = k, stage'[k] # "started", NEW j \in Starts
      PROVE  /\ j # k => stage'[j] # "started"
             /\ home'[j] = home'[k] /\ "ws" \in res'[j].held => j = k
  BY <1>2, <1>3, <1>4, <1>7 DEF OwnClient
<1> QED BY <1>2, <1>5, <1>6, <1>7 DEF OwnClient

LEMMA StartOwn ==
    ASSUME Inv, OwnClient, NEW inst \in Instances, inst[2] <= starts,
           NEW p \in Phases, Start(inst, p), Render(res, conn), native' = native
    PROVE  OwnClient'
<1>1. Shrinks(res, res')
  BY RenderShrinks DEF Inv, TypeOK, ResType
<1>2. /\ starts + 1 \in Starts /\ stage[starts + 1] = "none"
      /\ stage' = [stage EXCEPT ![starts + 1] = "check"]
      /\ home' = [home EXCEPT ![starts + 1] = inst]
      /\ stage \in [Starts -> Stages] /\ home \in [Starts -> Instances]
  BY SessionAssumption DEF Inv, TypeOK, Numbers, Start, Starts
<1> QED BY <1>1, <1>2, QuietOwn

LEMMA FlowOwn ==
    ASSUME Inv, OwnClient, NEW k \in Starts,
           CheckResolves(k) \/ StartFails(k) \/ MeetingCreated(k)
    PROVE  OwnClient'
<1>1. Shrinks(res, res')
  BY RenderShrinks DEF Inv, TypeOK, ResType, CheckResolves, StartFails, MeetingCreated,
                       rendered, Shrinks
<1>2. PICK to \in {"create", "native", "done"} :
        stage[k] \in {"check", "create", "native"} /\ stage' = [stage EXCEPT ![k] = to]
  BY DEF CheckResolves, StartFails, MeetingCreated
<1>3. stage \in [Starts -> Stages] /\ native' = native /\ home' = home
  BY DEF Inv, TypeOK, CheckResolves, StartFails, MeetingCreated, rustVars
<1> QED BY <1>1, <1>2, <1>3, QuietOwn

LEMMA NativeStartsOwn ==
    ASSUME Inv, OwnClient, NEW k \in Starts, NativeStarts(k) PROVE OwnClient'
<1>1. /\ stage' = [stage EXCEPT ![k] = "started"] /\ stage \in [Starts -> Stages]
      /\ native' = k /\ stage[k] = "native" /\ UNCHANGED <<home, res>>
  BY DEF Inv, TypeOK, NativeStarts, rendered
<1> QED BY <1>1 DEF OwnClient

(* The reply for the running session comes after those that could replace  *)
(* its client.                                                             *)
LEMMA StartedOwn ==
    ASSUME Inv, OwnClient, RepliesInOrder, NEW k \in Starts, Started(k) PROVE OwnClient'
<1> DEFINE r == Assign(res, k, "ws")
<1>1. /\ stage' = [stage EXCEPT ![k] = "listenAudio"] /\ stage \in [Starts -> Stages]
      /\ stage[k] = "started" /\ UNCHANGED <<home, native>> /\ Render(r, "up")
      /\ native = k => \A j \in Starts \ {k} : stage[j] # "started"
  BY DEF Inv, TypeOK, Started, OpenSession, rustVars
<1>2. r \in ResType /\ res \in ResType
  BY AssignLemma DEF Inv, TypeOK, ResType, Refs
<1>3. Shrinks(r, res')
  BY <1>1, <1>2, RenderShrinks
<1>4. ASSUME NEW j \in Starts
      PROVE  /\ "audio" \in r[j].live => "audio" \in res[j].live
             /\ "ws" \in r[j].held /\ j # k =>
                  "ws" \in res[j].held /\ home[j] # home[k]
  <2>1. res[j] \in [live : SUBSET Refs, held : SUBSET Refs]
    BY <1>2 DEF ResType
  <2>2. r[j] = IF j = k THEN [live |-> res[k].live \cup {"ws"},
                              held |-> res[k].held \cup {"ws"}]
               ELSE IF home[j] = home[k] THEN [res[j] EXCEPT !.held = @ \ {"ws"}]
               ELSE res[j]
    BY DEF Assign
  <2> QED BY <2>1, <2>2
<1> HIDE DEF r
<1>5. ASSUME NEW i \in Starts
      PROVE  /\ native' = i => stage'[i] \in {"started", "listenAudio", "listenError", "done"}
             /\ "audio" \in res'[i].live => stage'[i] \in {"listenError", "done"}
             /\ "ws" \in res'[i].held => stage'[i] \in {"listenAudio", "listenError", "done"}
  BY <1>1, <1>3, <1>4 DEF Shrinks, OwnClient
<1>6. ASSUME NEW i \in Starts, native' = i, stage'[i] # "started", NEW j \in Starts
      PROVE  /\ j # i => stage'[j] # "started"
             /\ home'[j] = home'[i] /\ "ws" \in res'[j].held => j = i
  <2>1. i = k
    BY <1>1, <1>6 DEF OwnClient
  <2> QED BY <1>1, <1>3, <1>4, <1>6, <2>1 DEF Shrinks
<1> QED BY <1>5, <1>6 DEF OwnClient

LEMMA ListeningOwn ==
    ASSUME Inv, OwnClient, NEW k \in Starts, Listening(k) PROVE OwnClient'
<1>1. PICK ref \in {"audio", "error"}, to \in {"listenError", "done"} :
        /\ res' = Assign(res, k, ref) /\ stage' = [stage EXCEPT ![k] = to]
  BY DEF Listening
<1>2. /\ stage[k] \in {"listenAudio", "listenError"} /\ stage \in [Starts -> Stages]
      /\ UNCHANGED <<home, native>>
  BY DEF Inv, TypeOK, Listening, rustVars
<1>3. ASSUME NEW j \in Starts
      PROVE  /\ "audio" \in res'[j].live => j = k \/ "audio" \in res[j].live
             /\ "ws" \in res'[j].held => "ws" \in res[j].held
  <2>1. res[j] \in [live : SUBSET Refs, held : SUBSET Refs]
    BY DEF Inv, TypeOK
  <2>2. res'[j] = IF j = k THEN [live |-> res[k].live \cup {ref},
                                 held |-> res[k].held \cup {ref}]
                  ELSE IF home[j] = home[k] THEN [res[j] EXCEPT !.held = @ \ {ref}]
                  ELSE res[j]
    BY <1>1 DEF Assign
  <2> QED BY <2>1, <2>2
<1> QED BY <1>1, <1>2, <1>3 DEF OwnClient

LEMMA StopOwn ==
    ASSUME Inv, OwnClient, NEW inst, NEW r \in ResType, Shrinks(res, r), NEW p,
           Stop(inst, r, p)
    PROVE  OwnClient'
<1>1. /\ Render(TeardownWs(r, inst), "idle") /\ UNCHANGED <<stage, home, native>>
  BY DEF Stop
<1>2. TeardownWs(r, inst) \in ResType /\ Shrinks(r, TeardownWs(r, inst))
  BY TeardownLemma, TeardownShrinks
<1>3. Shrinks(TeardownWs(r, inst), res')
  BY <1>1, <1>2, RenderShrinks
<1>4. Shrinks(res, res')
  BY <1>2, <1>3 DEF Shrinks
<1> QED BY <1>1, <1>4, QuietOwn

LEMMA StopsOwn ==
    ASSUME Inv, OwnClient,
           \/ StopClicked
           \/ \E k \in Starts : CaptureFails(k) \/ \E dead \in BOOLEAN : ClientGivesUp(k, dead)
    PROVE  OwnClient'
<1>1. res \in ResType /\ Shrinks(res, res)
  BY DEF Inv, TypeOK, ResType, Shrinks
<1>2. CASE StopClicked
  BY <1>1, <1>2, StopOwn DEF StopClicked
<1>3. ASSUME NEW k \in Starts, CaptureFails(k) PROVE OwnClient'
  BY <1>1, <1>3, StopOwn DEF CaptureFails
<1>4. ASSUME NEW k \in Starts, NEW dead \in BOOLEAN, ClientGivesUp(k, dead)
      PROVE  OwnClient'
  <2> DEFINE r == IF dead THEN [res EXCEPT ![k].live = @ \ {"ws"}] ELSE res
  <2>1. r \in ResType /\ Shrinks(res, r)
    BY <1>1 DEF ResType, Shrinks
  <2>2. Stop(home[k], r, RequestStop(phase))
    BY <1>4 DEF ClientGivesUp
  <2> QED BY <2>1, <2>2, StopOwn
<1> QED BY <1>2, <1>3, <1>4

LEMMA StartsOwn ==
    ASSUME Inv, OwnClient, StartFromShell \/ StartNew PROVE OwnClient'
<1>1. CASE StartFromShell
  <2>1. <<"shell", shell>> \in Instances /\ <<"shell", shell>>[2] <= starts
    BY <1>1, SessionAssumption DEF Inv, TypeOK, Numbers, StartFromShell, Instances
  <2> QED BY <1>1, <2>1, StartOwn DEF Inv, TypeOK, StartFromShell, rustVars
<1>2. CASE StartNew
  <2>1. <<"ended", ended>> \in Instances /\ <<"ended", ended>>[2] <= starts
    BY <1>2, SessionAssumption DEF Inv, TypeOK, Numbers, StartNew, Instances
  <2> QED BY <1>2, <2>1, StartOwn DEF Inv, TypeOK, StartNew, rustVars
<1> QED BY <1>1, <1>2

LEMMA RequestResolvesOwn ==
    ASSUME Inv, OwnClient, NEW asker \in 0..MaxStarts, NEW answer,
           RequestResolves(asker, answer)
    PROVE  OwnClient'
<1>1. Render(res, conn) /\ native' = native /\ requests[asker] > 0
  BY DEF RequestResolves, rustVars
<1>2. CASE Start(<<"shell", asker>>, CancelStart(phase))
  <2>1. <<"shell", asker>> \in Instances /\ <<"shell", asker>>[2] <= starts
    BY <1>1, SessionAssumption DEF Inv, Numbers, RequestsKnown, Instances
  <2>2. CancelStart(phase) \in Phases
    BY StoreTypes DEF Inv, TypeOK
  <2> QED BY <1>1, <1>2, <2>1, <2>2, StartOwn
<1>3. CASE UNCHANGED <<starts, stage, home>>
  <2>1. Shrinks(res, res')
    BY <1>1, RenderShrinks DEF Inv, TypeOK, ResType
  <2> QED BY <1>1, <1>3, <2>1, QuietOwn
<1> QED BY <1>2, <1>3 DEF RequestResolves

(* Navigation, the sign-in and what touches no flow. *)
LEMMA AsideOwn ==
    ASSUME Inv, OwnClient,
           \/ RequestPermissions \/ DismissPrompt \/ SettingsChange
           \/ GoHome \/ Navigate \/ Logout \/ Login
           \/ \E s \in 0..MaxStarts : StopReplies(s)
           \/ \E c \in {"shell", "ended"} : PermissionsRead(c)
           \/ \E k \in Starts : ClientPublishes(k)
           \/ UNCHANGED vars
    PROVE  OwnClient'
<1>1. res \in ResType /\ Shrinks(res, res)
  BY DEF Inv, TypeOK, ResType, Shrinks
<1>2. UNCHANGED <<stage, home, native>>
  BY DEF RequestPermissions, DismissPrompt, SettingsChange, GoHome, Navigate, Logout,
         Login, StopReplies, PermissionsRead, ClientPublishes, vars, flowVars, rustVars
<1>3. CASE Render(res, conn)
  BY <1>1, <1>2, <1>3, RenderShrinks, QuietOwn
<1>4. CASE res' = res
  BY <1>1, <1>2, <1>4, QuietOwn DEF Shrinks
<1>5. CASE Logout
  <2> DEFINE r == IF ended = Null THEN res ELSE TeardownWs(res, <<"ended", ended>>)
  <2>1. r \in ResType /\ Shrinks(res, r)
    BY <1>1, TeardownLemma, TeardownShrinks
  <2>2. res' = TeardownWs(r, <<"shell", shell>>)
    BY <1>5 DEF Logout
  <2>3. Shrinks(res, res')
    BY <2>1, <2>2, TeardownShrinks DEF Shrinks
  <2> QED BY <1>2, <2>3, QuietOwn
<1> QED
  BY <1>3, <1>4, <1>5
  DEF RequestPermissions, DismissPrompt, SettingsChange, GoHome, Navigate, Login,
      StopReplies, PermissionsRead, ClientPublishes, vars, rendered

LEMMA NativeOwn ==
    ASSUME Inv, OwnClient, NativeStops \/ \E k \in Starts : ClientDies(k)
    PROVE  OwnClient'
<1>1. UNCHANGED <<stage, home>> /\ native' \in {native, None}
  BY DEF NativeStops, ClientDies, flowVars, rustVars
<1>2. Shrinks(res, res')
  BY DEF NativeStops, ClientDies, rendered, Inv, TypeOK, Shrinks
<1> QED BY <1>1, <1>2, QuietOwn

LEMMA NextOwn ==
    ASSUME Inv, OwnClient, RepliesInOrder, [Next]_vars PROVE OwnClient'
<1>1. ASSUME NEW k \in Starts, FlowStep(k) PROVE OwnClient'
  BY <1>1, FlowOwn, NativeStartsOwn, StartedOwn, ListeningOwn DEF FlowStep
<1>2. ASSUME NEW asker \in 0..MaxStarts, NEW answer, RequestResolves(asker, answer)
      PROVE  OwnClient'
  BY <1>2, RequestResolvesOwn
<1> QED BY <1>1, <1>2, StartsOwn, StopsOwn, NativeOwn, AsideOwn DEF Next

LEMMA OwnClientSuffices == Inv /\ OwnClient => AudioToOwnSocket
BY DEF OwnClient, AudioToOwnSocket, Hears

(* While a session runs its audio goes to its own client and no other, for *)
(* any number of starts, if the replies of start_recording keep their order. *)
THEOREM AudioReachesOwnSocket ==
    ASSUME RepliesInOrder PROVE Spec => []AudioToOwnSocket
<1>1. Init => OwnClient
  BY SessionAssumption DEF Init, OwnClient, Starts, None, Nothing
<1>2. Inv /\ Inv' /\ OwnClient /\ [Next]_vars => OwnClient'
  BY NextOwn
<1>3. Inv /\ OwnClient => AudioToOwnSocket
  BY OwnClientSuffices
<1> QED BY SessionInvariant, <1>1, <1>2, <1>3, PTL DEF Spec

=============================================================================
