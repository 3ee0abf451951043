----------------------- MODULE TranscriptSessionProofs -----------------------
(***************************************************************************)
(* For any number of chunks and probes, any queue and any faults: the      *)
(* lines, the audio and the outcomes of a transcript session agree.        *)
(*                                                                         *)
(* The inductive invariant has five parts beside the types.  Ended says    *)
(* what is over once the handler is past its drain; Departed why a handler *)
(* abandons the session; Told what the outcomes written so far rest on;    *)
(* Ordered where a chunk may be on its way from the queue to the database; *)
(* and Accounted that no chunk is anywhere else.                           *)
(***************************************************************************)
EXTENDS TranscriptSession, SequenceTheorems, TLAPS

AfterAudio == Finalizing \cup {"drain", "abandoned"}

(* The sentinel is the last item ever queued and ends the pump; the consumer*)
(* and the WAV are done when the drain is.                                  *)
Ended ==
    /\ pc \in Finalizing \cup {"abandoned"} => consumer = "done" /\ ~wavWriter
    /\ pump = "closed" => queue = <<>> /\ pc \in AfterAudio
    /\ \A i \in DOMAIN queue :
         queue[i] = Sentinel => i = Len(queue) /\ pc \in AfterAudio

(* Only a peer that is gone, in a session in which it may go, closes the    *)
(* application side, and only then does the loop end with a RuntimeError.   *)
Departed ==
    /\ pc = "abandoned" => left = "raised"
    /\ left = "raised" => ~appOpen
    /\ ~appOpen => ~client
    /\ ~client => "client" \in faults

(* What is written at the end rests on facts that no longer change.         *)
Told ==
    /\ closeCode # 0 => pc = "closed"
    /\ closeCode = 1011 => sttFailed
    /\ closeCode = 1000 => ~sttFailed
    /\ stamped # "none" => pc \in {"archive", "summarise", "close", "closed"}
    /\ stamped = "completed" => ~sttFailed
    /\ stamped = "failed" => sttFailed
    /\ summary # "none" => pc \in {"close", "closed"}
    /\ summary = "parked" => sttFailed /\ finalLines = 0
    /\ (persisted # <<>> \/ consumer = "persist" \/ pc = "probe_persist")
         => finalLines > 0

(* The chunks in a sequence, the sentinel and probes aside, and their order.*)
Chunks(s) == {c \in Contents(s) : c > 0}
InOrder(s) == \A i, j \in DOMAIN s : i < j /\ s[i] > 0 /\ s[j] > 0 => s[i] < s[j]
Before(A, B) == \A a \in A, b \in B : a < b

(* What the consumer is about to store.                                     *)
Hand == IF consumer = "persist" THEN {line} ELSE {}

(* A chunk moves from the queue to the provider, into the consumer's hand   *)
(* and to the database, and never overtakes another one on its way.         *)
Ordered ==
    /\ InOrder(queue) /\ InOrder(heard) /\ InOrder(persisted)
    /\ Chunks(queue) \cup Chunks(heard) \cup Hand \cup Chunks(persisted)
         \subseteq 1..received
    /\ Before(Chunks(heard), Chunks(queue))
    /\ Before(Hand, Chunks(heard) \cup Chunks(queue))
    /\ Before(Chunks(persisted), Hand \cup Chunks(heard) \cup Chunks(queue))

Quiet == faults \subseteq {"disk", "broker"}

(* In a session in which only the disk and the broker may fail, a chunk is  *)
(* refused, queued, heard, in hand or stored; the consumer ends only when   *)
(* nothing is left to hear, or when no sentinel came.                       *)
Accounted ==
    /\ rejected \subseteq 1..received
    /\ Quiet =>
         /\ 1..received \subseteq rejected \cup Chunks(queue) \cup Chunks(heard)
                                 \cup Hand \cup Chunks(persisted)
         /\ consumer # "report"
         /\ consumer = "done" /\ pump = "closed" => heard = <<>>

Inv == TypeOK /\ Ended /\ Departed /\ Told /\ WavHasNoGaps /\ Ordered /\ Accounted

-----------------------------------------------------------------------------
(* What Append, Tail and Head do, as the steps below use them.              *)
LEMMA AppendFacts ==
    ASSUME NEW S, NEW s \in Seq(S), NEW e \in S
    PROVE  /\ Append(s, e) \in Seq(S)
           /\ Len(s) \in Nat /\ Len(Append(s, e)) = Len(s) + 1
           /\ DOMAIN s = 1..Len(s) /\ DOMAIN Append(s, e) = 1..Len(s) + 1
           /\ \A i \in 1..Len(s) : Append(s, e)[i] = s[i] /\ s[i] \in S
           /\ Append(s, e)[Len(s) + 1] = e
BY AppendProperties, LenProperties

LEMMA TailFacts ==
    ASSUME NEW S, NEW s \in Seq(S), s # <<>>
    PROVE  /\ Tail(s) \in Seq(S) /\ Head(s) \in S /\ Head(s) = s[1]
           /\ Len(s) \in Nat \ {0} /\ Len(Tail(s)) = Len(s) - 1
           /\ DOMAIN s = 1..Len(s) /\ DOMAIN Tail(s) = 1..Len(s) - 1
           /\ \A i \in 1..Len(s) - 1 : Tail(s)[i] = s[i + 1] /\ s[i + 1] \in S
BY HeadTailProperties, LenProperties, EmptySeq

(* An item appended joins the chunks of a sequence, in order if it is a     *)
(* chunk above all of them.                                                 *)
LEMMA ChunksOfAppend ==
    ASSUME NEW s \in Seq(Int), NEW e \in Int
    PROVE  /\ Chunks(Append(s, e)) = Chunks(s) \cup {c \in {e} : c > 0}
           /\ InOrder(s) /\ (e > 0 => \A c \in Chunks(s) : c < e)
                => InOrder(Append(s, e))
<1>1. Contents(Append(s, e)) = Contents(s) \cup {e}
  BY AppendFacts DEF Contents
<1>2. Chunks(Append(s, e)) = Chunks(s) \cup {c \in {e} : c > 0}
  BY <1>1 DEF Chunks
<1>3. ASSUME InOrder(s), e > 0 => \A c \in Chunks(s) : c < e
      PROVE  InOrder(Append(s, e))
  <2>1. \A i \in 1..Len(s) : s[i] > 0 => s[i] \in Chunks(s)
    BY AppendFacts DEF Chunks, Contents
  <2> QED BY <1>3, <2>1, AppendFacts DEF InOrder
<1> QED BY <1>2, <1>3

(* The head of an ordered sequence is below the rest of its chunks.         *)
LEMMA ChunksOfTail ==
    ASSUME NEW s \in Seq(Int), s # <<>>
    PROVE  /\ Chunks(s) = Chunks(Tail(s)) \cup {c \in {Head(s)} : c > 0}
           /\ InOrder(s) => /\ InOrder(Tail(s))
                            /\ Head(s) > 0 => \A c \in Chunks(Tail(s)) : Head(s) < c
<1>1. Contents(s) = Contents(Tail(s)) \cup {Head(s)}
  <2>1. \A i \in DOMAIN s : i = 1 \/ (i - 1 \in DOMAIN Tail(s) /\ Tail(s)[i - 1] = s[i])
    BY TailFacts
  <2>2. \A i \in DOMAIN Tail(s) : i + 1 \in DOMAIN s /\ s[i + 1] = Tail(s)[i]
    BY TailFacts
  <2>3. 1 \in DOMAIN s /\ Head(s) = s[1]
    BY TailFacts
  <2>4. ASSUME NEW c \in Contents(s) PROVE c \in Contents(Tail(s)) \cup {Head(s)}
    <3>1. PICK i \in DOMAIN s : c = s[i]
      BY DEF Contents
    <3> QED BY <2>1, <2>3, <3>1 DEF Contents
  <2>5. Contents(Tail(s)) \subseteq Contents(s) /\ Head(s) \in Contents(s)
    BY <2>2, <2>3 DEF Contents
  <2> QED BY <2>4, <2>5
<1>2. Chunks(s) = Chunks(Tail(s)) \cup {c \in {Head(s)} : c > 0}
  BY <1>1 DEF Chunks
<1>3. ASSUME InOrder(s) PROVE InOrder(Tail(s))
  BY <1>3, TailFacts DEF InOrder
<1>4. ASSUME InOrder(s), Head(s) > 0, NEW c \in Chunks(Tail(s)) PROVE Head(s) < c
  <2>1. PICK i \in DOMAIN Tail(s) : c = Tail(s)[i] /\ c > 0
    BY DEF Chunks, Contents
  <2>2. i + 1 \in DOMAIN s /\ s[i + 1] = c /\ 1 \in DOMAIN s /\ Head(s) = s[1] /\ 1 < i + 1
    BY <2>1, TailFacts
  <2> QED BY <1>4, <2>1, <2>2 DEF InOrder
<1> QED BY <1>2, <1>3, <1>4

LEMMA SequencesOfInts ==
    ASSUME TypeOK
    PROVE  /\ queue \in Seq(Int) /\ heard \in Seq(Int) /\ persisted \in Seq(Int)
           /\ line \in Int /\ received \in Nat
BY SessionAssumption DEF TypeOK, Sentinel

(* One disjunct per action.                                                 *)
LEMMA ActionCases ==
    Next => \/ Loop \/ ReceiveChunk \/ ReceiveRefused \/ ReceiveProbe
            \/ ReceiveBye \/ ReceiveDisconnect \/ ProbePersisted \/ ProbeSent
            \/ EndAudio \/ Drained \/ DrainTimesOut \/ StampMeeting
            \/ DispatchArchive \/ ParkOrSummarise \/ CloseSession
            \/ FinalEvent \/ InterimEvent \/ EventPersisted \/ EventSent
            \/ ProviderEnds \/ FailureReported \/ PumpAudio \/ ProviderFails
            \/ ClientLeaves \/ UNCHANGED vars
BY DEF Next, Receive, Handler, Consumer

-----------------------------------------------------------------------------
(* Only these actions move a chunk or let the consumer go on.               *)
LEMMA PathCases ==
    ASSUME TypeOK, [Next]_vars
    PROVE  /\ faults' = faults
           /\ \/ ReceiveChunk
              \/ /\ UNCHANGED <<received, rejected>>
                 /\ \/ PumpAudio \/ FinalEvent \/ EndAudio
                    \/ ProbePersisted \/ EventPersisted \/ DrainTimesOut
                    \/ /\ consumer # "persist" /\ consumer' # "persist"
                       /\ UNCHANGED <<queue, heard, persisted>>
                    \/ UNCHANGED <<queue, heard, persisted, consumer, line>>
<1> USE DEF handlerVars, socketVars, audioVars, consumerVars, providerVars,
            segmentVars, outcomeVars
<1>1. CASE Loop \/ ReceiveRefused \/ ReceiveProbe \/ ReceiveBye
           \/ ReceiveDisconnect \/ ProbeSent \/ Drained
  BY <1>1 DEF Loop, ReceiveRefused, ReceiveProbe, ReceiveBye,
              ReceiveDisconnect, ProbeSent, Drained
<1>2. CASE StampMeeting \/ DispatchArchive \/ ParkOrSummarise \/ CloseSession
  BY <1>2 DEF StampMeeting, DispatchArchive, ParkOrSummarise, CloseSession
<1>3. CASE InterimEvent \/ EventSent \/ ProviderEnds \/ ProviderFails
           \/ FailureReported
  BY <1>3 DEF InterimEvent, EventSent, ProviderEnds, ProviderFails,
              FailureReported
<1>4. CASE ClientLeaves \/ UNCHANGED vars
  BY <1>4 DEF ClientLeaves, vars
<1>5. CASE ReceiveChunk \/ PumpAudio \/ FinalEvent \/ EndAudio
  BY <1>5 DEF ReceiveChunk, PumpAudio, FinalEvent, EndAudio
<1>6. CASE ProbePersisted \/ EventPersisted \/ DrainTimesOut
  BY <1>6 DEF ProbePersisted, EventPersisted, DrainTimesOut
<1> QED BY <1>1, <1>2, <1>3, <1>4, <1>5, <1>6, ActionCases

LEMMA OrderedNext ==
    ASSUME TypeOK, Ordered, [Next]_vars
    PROVE  Ordered'
<1> USE SequencesOfInts
    DEF handlerVars, socketVars, audioVars, consumerVars, providerVars,
        segmentVars, outcomeVars
<1>1. CASE ReceiveChunk
  <2>1. /\ received' = received + 1
        /\ UNCHANGED <<heard, consumer, line, persisted>>
        /\ queue' = queue \/ queue' = Append(queue, received + 1)
    BY <1>1 DEF ReceiveChunk
  <2>2. CASE queue' = queue
    <3>1. /\ UNCHANGED <<Hand, Chunks(queue), Chunks(heard), Chunks(persisted)>>
          /\ InOrder(queue') /\ InOrder(heard') /\ InOrder(persisted')
      BY <2>1, <2>2 DEF Ordered, Hand
    <3>2. 1..received \subseteq 1..received'
      BY <2>1
    <3> QED BY <3>1, <3>2 DEF Ordered, Before
  <2>3. CASE queue' = Append(queue, received + 1)
    <3>1. \A c \in Chunks(queue) : c < received + 1
      BY DEF Ordered
    <3>2. Chunks(queue') = Chunks(queue) \cup {received + 1} /\ InOrder(queue')
      BY <2>3, <3>1, ChunksOfAppend DEF Ordered
    <3>3. /\ UNCHANGED <<Hand, Chunks(heard), Chunks(persisted)>>
          /\ InOrder(heard') /\ InOrder(persisted')
      BY <2>1 DEF Ordered, Hand
    <3> QED BY <2>1, <3>2, <3>3 DEF Ordered, Before
  <2> QED BY <2>1, <2>2, <2>3
<1>2. CASE PumpAudio
  <2>1. /\ queue # <<>> /\ queue' = Tail(queue)
        /\ UNCHANGED <<received, consumer, line, persisted>>
        /\ IF Head(queue) = Sentinel THEN heard' = heard
                                     ELSE heard' = Append(heard, Head(queue))
    BY <1>2 DEF PumpAudio
  <2>2. /\ Chunks(queue) = Chunks(queue') \cup {c \in {Head(queue)} : c > 0}
        /\ InOrder(queue')
        /\ Head(queue) > 0 => \A c \in Chunks(queue') : Head(queue) < c
    BY <2>1, ChunksOfTail DEF Ordered
  <2>3. /\ UNCHANGED <<received, Hand, Chunks(persisted)>>
        /\ InOrder(persisted')
    BY <2>1 DEF Ordered, Hand
  <2>4. CASE Head(queue) = Sentinel
    <3>1. heard' = heard
      BY <2>1, <2>4
    <3> QED BY <2>2, <2>3, <3>1 DEF Ordered, Before
  <2>5. CASE Head(queue) # Sentinel
    <3>1. Head(queue) \in 1..MaxChunks /\ Head(queue) \in Int /\ Head(queue) > 0
      BY <2>1, <2>5, TailFacts DEF TypeOK
    <3>2. Chunks(queue) = Chunks(queue') \cup {Head(queue)}
      BY <2>2, <3>1
    <3>3. \A c \in Chunks(heard) : c < Head(queue)
      BY <3>2 DEF Ordered, Before
    <3>4. Chunks(heard') = Chunks(heard) \cup {Head(queue)} /\ InOrder(heard')
      <4>1. heard' = Append(heard, Head(queue))
        BY <2>1, <2>5
      <4>2. heard \in Seq(Int) /\ InOrder(heard)
        BY DEF Ordered
      <4>3. /\ Chunks(Append(heard, Head(queue))) = Chunks(heard) \cup {Head(queue)}
            /\ InOrder(Append(heard, Head(queue)))
        BY <3>1, <3>3, <4>2, ChunksOfAppend
      <4> QED BY <4>1, <4>3
    <3> QED BY <2>2, <2>3, <3>1, <3>2, <3>4 DEF Ordered, Before
  <2> QED BY <2>4, <2>5
<1>3. CASE FinalEvent
  <2>1. /\ heard # <<>> /\ heard' = Tail(heard) /\ line' = Head(heard)
        /\ consumer' = "persist" /\ UNCHANGED <<received, queue, persisted>>
    BY <1>3 DEF FinalEvent
  <2>2. Head(heard) \in 1..MaxChunks /\ Head(heard) \in Int /\ Head(heard) > 0
    <3>1. heard \in Seq(1..MaxChunks)
      BY DEF TypeOK
    <3>2. Head(heard) \in 1..MaxChunks
      BY <2>1, <3>1, TailFacts
    <3> QED BY <3>2
  <2>3. /\ Chunks(heard) = Chunks(heard') \cup {Head(heard)}
        /\ InOrder(heard') /\ \A c \in Chunks(heard') : Head(heard) < c
    BY <2>1, <2>2, ChunksOfTail DEF Ordered
  <2>4. Hand' = {Head(heard)}
    BY <2>1 DEF Hand
  <2>5. /\ UNCHANGED <<received, Chunks(queue), Chunks(persisted)>>
        /\ InOrder(queue') /\ InOrder(persisted')
    BY <2>1 DEF Ordered
  <2> QED BY <2>2, <2>3, <2>4, <2>5 DEF Ordered, Before
<1>4. CASE EndAudio
  <2>1. /\ queue' = queue \/ queue' = Append(queue, Sentinel)
        /\ UNCHANGED <<received, heard, consumer, line, persisted>>
    BY <1>4 DEF EndAudio
  <2>2. Chunks(queue') = Chunks(queue) /\ InOrder(queue')
    <3>1. Sentinel \in Int /\ {c \in {Sentinel} : c > 0} = {} /\ ~(Sentinel > 0)
      BY DEF Sentinel
    <3>2. queue \in Seq(Int) /\ InOrder(queue)
      BY DEF Ordered
    <3> HIDE DEF Sentinel
    <3>3. /\ Chunks(Append(queue, Sentinel)) = Chunks(queue)
          /\ InOrder(Append(queue, Sentinel))
      BY <3>1, <3>2, ChunksOfAppend
    <3> QED BY <2>1, <3>2, <3>3
  <2>3. /\ UNCHANGED <<received, Hand, Chunks(heard), Chunks(persisted)>>
        /\ InOrder(heard') /\ InOrder(persisted')
    BY <2>1 DEF Ordered, Hand
  <2> QED BY <2>2, <2>3 DEF Ordered
<1>5. CASE ProbePersisted
  <2>1. /\ persisted' = persisted \/ persisted' = Append(persisted, Probe)
        /\ UNCHANGED <<received, queue, heard, consumer, line>>
    BY <1>5 DEF ProbePersisted, PersistFinal
  <2>2. Chunks(persisted') = Chunks(persisted) /\ InOrder(persisted')
    <3>1. Probe \in Int /\ {c \in {Probe} : c > 0} = {}
      BY DEF Probe
    <3>2. /\ Chunks(Append(persisted, Probe)) = Chunks(persisted)
          /\ InOrder(Append(persisted, Probe))
      BY <3>1, ChunksOfAppend DEF Ordered, Probe
    <3> QED BY <2>1, <3>2 DEF Ordered
  <2>3. /\ UNCHANGED <<received, Hand, Chunks(heard), Chunks(queue)>>
        /\ InOrder(heard') /\ InOrder(queue')
    BY <2>1 DEF Ordered, Hand
  <2> QED BY <2>2, <2>3 DEF Ordered
<1>6. ASSUME consumer = "persist" => persisted' \in {persisted, Append(persisted, line)},
             consumer # "persist" => persisted' = persisted,
             consumer' # "persist", UNCHANGED <<received, queue, heard>>
      PROVE  Ordered'
  <2>1. Hand' = {}
    BY <1>6 DEF Hand
  <2>2. /\ UNCHANGED <<received, Chunks(heard), Chunks(queue)>>
        /\ InOrder(heard') /\ InOrder(queue')
    BY <1>6 DEF Ordered
  <2>3. CASE consumer = "persist" /\ persisted' = Append(persisted, line)
    <3>1. Hand = {line} /\ line > 0 /\ line \in Int
      BY <2>3 DEF Hand, Ordered
    <3>2. \A c \in Chunks(persisted) : c < line
      BY <3>1 DEF Ordered, Before
    <3>3. Chunks(persisted') = Chunks(persisted) \cup Hand /\ InOrder(persisted')
      BY <2>3, <3>1, <3>2, ChunksOfAppend DEF Ordered
    <3> QED BY <2>1, <2>2, <3>3 DEF Ordered, Before
  <2>4. CASE persisted' = persisted
    BY <2>1, <2>2, <2>4 DEF Ordered, Before
  <2> QED BY <1>6, <2>3, <2>4
<1>7. CASE EventPersisted
  BY <1>6, <1>7 DEF EventPersisted, PersistFinal
<1>8. CASE DrainTimesOut
  BY <1>6, <1>8 DEF DrainTimesOut
<1>9. CASE /\ consumer # "persist" /\ consumer' # "persist"
           /\ UNCHANGED <<received, queue, heard, persisted>>
  BY <1>6, <1>9
<1>10. CASE UNCHANGED <<received, queue, heard, persisted, consumer, line>>
  BY <1>10 DEF Ordered, Hand
<1> QED BY <1>1, <1>2, <1>3, <1>4, <1>5, <1>7, <1>8, <1>9, <1>10, PathCases

(* No chunk of a quiet session is lost on its way.                          *)
LEMMA ChunksAccountedNext ==
    ASSUME TypeOK, Ended, Departed, Ordered, Accounted, [Next]_vars
    PROVE  /\ rejected' \subseteq 1..received'
           /\ Quiet' => 1..received' \subseteq
                rejected' \cup Chunks(queue') \cup Chunks(heard')
                          \cup Hand' \cup Chunks(persisted')
<1> USE SequencesOfInts
    DEF handlerVars, socketVars, audioVars, consumerVars, providerVars,
        segmentVars, outcomeVars
<1> DEFINE Known == rejected \cup Chunks(queue) \cup Chunks(heard)
                             \cup Hand \cup Chunks(persisted)
<1>1. faults' = faults /\ Quiet' = Quiet
  BY PathCases DEF Quiet
<1>2. CASE ReceiveChunk
  <2>1. /\ received' = received + 1
        /\ UNCHANGED <<heard, consumer, line, persisted>>
        /\ \/ queue' = queue /\ rejected' = rejected \cup {received + 1}
           \/ queue' = Append(queue, received + 1) /\ rejected' = rejected
    BY <1>2 DEF ReceiveChunk
  <2>2. Chunks(Append(queue, received + 1)) = Chunks(queue) \cup {received + 1}
    BY ChunksOfAppend
  <2>3. Known' = Known \cup {received + 1}
    BY <2>1, <2>2 DEF Hand
  <2>4. 1..received' = 1..received \cup {received + 1}
    BY <2>1
  <2>5. rejected' \subseteq rejected \cup {received + 1}
    BY <2>1
  <2> QED BY <1>1, <2>3, <2>4, <2>5 DEF Accounted
<1>3. ASSUME UNCHANGED <<received, rejected>>, Quiet => Known \subseteq Known'
      PROVE  /\ rejected' \subseteq 1..received'
             /\ Quiet' => 1..received' \subseteq Known'
  BY <1>1, <1>3 DEF Accounted
<1>4. CASE PumpAudio
  <2>1. /\ queue # <<>> /\ queue' = Tail(queue)
        /\ UNCHANGED <<received, rejected, consumer, line, persisted>>
        /\ IF Head(queue) = Sentinel THEN heard' = heard
                                     ELSE heard' = Append(heard, Head(queue))
    BY <1>4 DEF PumpAudio
  <2>2. Chunks(queue) = Chunks(queue') \cup {c \in {Head(queue)} : c > 0}
    BY <2>1, ChunksOfTail
  <2>3. Head(queue) \in Int
    BY <2>1, TailFacts
  <2>4. Chunks(Append(heard, Head(queue)))
          = Chunks(heard) \cup {c \in {Head(queue)} : c > 0}
    BY <2>3, ChunksOfAppend
  <2>5. Chunks(queue) \cup Chunks(heard) \subseteq Chunks(queue') \cup Chunks(heard')
    <3>1. CASE Head(queue) = Sentinel
      <4>1. {c \in {Head(queue)} : c > 0} = {}
        BY <3>1 DEF Sentinel
      <4> QED BY <2>1, <2>2, <3>1, <4>1
    <3>2. CASE Head(queue) # Sentinel
      BY <2>1, <2>2, <2>4, <3>2
    <3> QED BY <3>1, <3>2
  <2> QED BY <1>3, <2>1, <2>5 DEF Hand
<1>5. CASE FinalEvent
  <2>1. /\ heard # <<>> /\ heard' = Tail(heard) /\ line' = Head(heard)
        /\ consumer = "listen" /\ consumer' = "persist"
        /\ UNCHANGED <<received, rejected, queue, persisted>>
    BY <1>5 DEF FinalEvent
  <2>2. Chunks(heard) \subseteq Chunks(heard') \cup {Head(heard)}
    BY <2>1, ChunksOfTail
  <2> QED BY <1>3, <2>1, <2>2 DEF Hand
<1>6. CASE EndAudio
  <2>1. /\ queue' = queue \/ queue' = Append(queue, Sentinel)
        /\ UNCHANGED <<received, rejected, heard, consumer, line, persisted>>
    BY <1>6 DEF EndAudio
  <2>2. Chunks(queue) \subseteq Chunks(queue')
    <3>1. Sentinel \in Int
      BY DEF Sentinel
    <3>2. Chunks(queue) \subseteq Chunks(Append(queue, Sentinel))
      BY <3>1, ChunksOfAppend
    <3> QED BY <2>1, <3>2
  <2> QED BY <1>3, <2>1, <2>2 DEF Hand
<1>7. CASE ProbePersisted
  <2>1. /\ persisted' = persisted \/ persisted' = Append(persisted, Probe)
        /\ UNCHANGED <<received, rejected, queue, heard, consumer, line>>
    BY <1>7 DEF ProbePersisted, PersistFinal
  <2>2. Chunks(persisted) \subseteq Chunks(persisted')
    <3>1. Probe \in Int
      BY DEF Probe
    <3>2. Chunks(persisted) \subseteq Chunks(Append(persisted, Probe))
      BY <3>1, ChunksOfAppend
    <3> QED BY <2>1, <3>2
  <2> QED BY <1>3, <2>1, <2>2 DEF Hand
<1>8. CASE EventPersisted
  <2>1. /\ persisted' = Append(persisted, line) \/ ~Quiet
        /\ consumer = "persist"
        /\ UNCHANGED <<received, rejected, queue, heard, line>>
    BY <1>8 DEF EventPersisted, PersistFinal, Quiet
  <2>2. line > 0
    BY <2>1 DEF Ordered, Hand
  <2>3. Chunks(Append(persisted, line)) = Chunks(persisted) \cup {line}
    BY <2>2, ChunksOfAppend
  <2> QED BY <1>3, <2>1, <2>3 DEF Hand
<1>9. CASE DrainTimesOut
  <2>1. /\ consumer # "persist" \/ ~Quiet
        /\ consumer # "persist" => persisted' = persisted
        /\ UNCHANGED <<received, rejected, queue, heard, line>>
    BY <1>9 DEF DrainTimesOut, Starved, Quiet
  <2> QED BY <1>3, <2>1 DEF Hand
<1>10. CASE /\ consumer # "persist" /\ consumer' # "persist"
            /\ UNCHANGED <<received, rejected, queue, heard, persisted>>
  BY <1>3, <1>10 DEF Hand
<1>11. CASE UNCHANGED <<received, rejected, queue, heard, persisted, consumer, line>>
  BY <1>3, <1>11 DEF Hand
<1> QED BY <1>2, <1>4, <1>5, <1>6, <1>7, <1>8, <1>9, <1>10, <1>11, PathCases

(* The consumer of a quiet session neither fails nor ends too early.        *)
LEMMA ConsumerAccountedNext ==
    ASSUME TypeOK, Ended, Departed, Accounted, [Next]_vars
    PROVE  Quiet' => /\ consumer' # "report"
                     /\ consumer' = "done" /\ pump' = "closed" => heard' = <<>>
<1> USE DEF handlerVars, socketVars, audioVars, consumerVars, providerVars,
            segmentVars, outcomeVars, Accounted, Quiet
<1>1. CASE PumpAudio
  BY <1>1 DEF PumpAudio
<1>2. CASE FinalEvent \/ InterimEvent \/ EventPersisted
  BY <1>2 DEF FinalEvent, InterimEvent, EventPersisted
<1>3. CASE EventSent
  BY <1>3 DEF EventSent, SendText, Departed
<1>4. CASE ProviderEnds
  BY <1>4 DEF ProviderEnds
<1>5. CASE ProviderFails \/ FailureReported
  BY <1>5 DEF ProviderFails, FailureReported
<1>6. CASE DrainTimesOut
  BY <1>6 DEF DrainTimesOut, Starved
<1>7. CASE Loop \/ ReceiveChunk \/ ReceiveRefused \/ ReceiveProbe \/ ReceiveBye
           \/ ReceiveDisconnect \/ ProbePersisted \/ ProbeSent \/ EndAudio
  BY <1>7 DEF Loop, ReceiveChunk, ReceiveRefused, ReceiveProbe, ReceiveBye,
              ReceiveDisconnect, ProbePersisted, ProbeSent, EndAudio
<1>8. CASE Drained \/ StampMeeting \/ DispatchArchive \/ ParkOrSummarise
           \/ CloseSession \/ ClientLeaves \/ UNCHANGED vars
  BY <1>8 DEF Drained, StampMeeting, DispatchArchive, ParkOrSummarise,
              CloseSession, ClientLeaves, vars
<1> QED BY <1>1, <1>2, <1>3, <1>4, <1>5, <1>6, <1>7, <1>8, ActionCases

LEMMA AccountedNext ==
    ASSUME TypeOK, Ended, Departed, Ordered, Accounted, [Next]_vars
    PROVE  Accounted'
BY ChunksAccountedNext, ConsumerAccountedNext DEF Accounted

-----------------------------------------------------------------------------
(* The types of the chunks' path and those of the session's control.        *)
PathOK ==
    /\ received \in 0..MaxChunks /\ line \in 0..MaxChunks
    /\ queue \in Seq(1..MaxChunks \cup {Sentinel}) /\ Len(queue) <= QueueMax
    /\ wav \in Seq(1..MaxChunks)
    /\ heard \in Seq(1..MaxChunks)
    /\ persisted \in Seq(0..MaxChunks)

ControlOK ==
    /\ faults \subseteq Faults
    /\ pc \in HandlerStates
    /\ left \in {"none", "bye", "disconnect", "stt_failed", "raised"}
    /\ client \in BOOLEAN /\ appOpen \in BOOLEAN
    /\ probes \in 0..MaxProbes /\ finalLines \in Nat
    /\ rejected \subseteq 1..MaxChunks
    /\ wavWriter \in BOOLEAN
    /\ consumer \in ConsumerStates
    /\ pump \in {"pulling", "closed"}
    /\ sttFailed \in BOOLEAN
    /\ stamped \in {"none", "completed", "failed"}
    /\ archive \in {"none", "wav", "dispatched"}
    /\ summary \in {"none", "parked", "dispatched"}
    /\ closeCode \in {0, 1000, 1011}

LEMMA TypeSplit == TypeOK <=> PathOK /\ ControlOK
BY DEF TypeOK, PathOK, ControlOK

LEMMA TypeSplitNext == TypeOK' <=> PathOK' /\ ControlOK'
BY TypeSplit, PTL

LEMMA PathTypeNext ==
    ASSUME TypeOK, [Next]_vars
    PROVE  PathOK'
<1> USE DEF handlerVars, socketVars, audioVars, consumerVars, providerVars,
            segmentVars, outcomeVars
<1>1. PathOK /\ MaxChunks \in Nat /\ QueueMax \in Nat
  BY TypeSplit, SessionAssumption
<1>2. CASE ReceiveChunk
  <2>1. received < MaxChunks /\ received' = received + 1
    BY <1>2 DEF ReceiveChunk
  <2>2. received + 1 \in 1..MaxChunks /\ received' \in 0..MaxChunks
    BY <1>1, <2>1 DEF PathOK
  <2>3. queue' = queue \/ (queue' = Append(queue, received + 1) /\ Len(queue) < QueueMax)
    BY <1>2 DEF ReceiveChunk
  <2>4. queue' \in Seq(1..MaxChunks \cup {Sentinel}) /\ Len(queue') <= QueueMax
    <3>1. queue \in Seq(1..MaxChunks \cup {Sentinel}) /\ Len(queue) <= QueueMax
      BY <1>1 DEF PathOK
    <3>2. /\ Append(queue, received + 1) \in Seq(1..MaxChunks \cup {Sentinel})
          /\ Len(Append(queue, received + 1)) = Len(queue) + 1 /\ Len(queue) \in Nat
      BY <2>2, <3>1, AppendFacts
    <3> QED BY <1>1, <2>3, <3>1, <3>2
  <2>5. wav' = wav \/ wav' = Append(wav, received + 1)
    BY <1>2 DEF ReceiveChunk, WriteWav
  <2>6. wav' \in Seq(1..MaxChunks)
    <3>1. wav \in Seq(1..MaxChunks)
      BY <1>1 DEF PathOK
    <3>2. Append(wav, received + 1) \in Seq(1..MaxChunks)
      BY <2>2, <3>1, AppendFacts
    <3> QED BY <2>5, <3>1, <3>2
  <2> QED BY <1>1, <1>2, <2>2, <2>4, <2>6 DEF ReceiveChunk, PathOK
<1>3. CASE EndAudio
  <2>1. queue' = IF Len(queue) < QueueMax THEN Append(queue, Sentinel) ELSE queue
    BY <1>3 DEF EndAudio
  <2>2. queue' \in Seq(1..MaxChunks \cup {Sentinel}) /\ Len(queue') <= QueueMax
    BY <1>1, <2>1, AppendFacts DEF PathOK
  <2> QED BY <1>1, <1>3, <2>2 DEF EndAudio, PathOK
<1>4. CASE PumpAudio
  <2>1. queue # <<>> /\ queue' = Tail(queue)
    BY <1>4 DEF PumpAudio
  <2>2. queue \in Seq(1..MaxChunks \cup {Sentinel}) /\ Len(queue) <= QueueMax
    BY <1>1 DEF PathOK
  <2>3. queue' \in Seq(1..MaxChunks \cup {Sentinel}) /\ Len(queue') <= QueueMax
    BY <1>1, <2>1, <2>2, TailFacts
  <2>4. Head(queue) # Sentinel => Head(queue) \in 1..MaxChunks
    BY <2>1, <2>2, TailFacts
  <2>5. IF Head(queue) = Sentinel THEN heard' = heard
                                  ELSE heard' = Append(heard, Head(queue))
    BY <1>4 DEF PumpAudio
  <2>6. heard' \in Seq(1..MaxChunks)
    <3>1. heard \in Seq(1..MaxChunks)
      BY <1>1 DEF PathOK
    <3>2. Head(queue) # Sentinel => Append(heard, Head(queue)) \in Seq(1..MaxChunks)
      BY <2>4, <3>1, AppendFacts
    <3> QED BY <2>5, <3>1, <3>2
  <2> QED BY <1>1, <1>4, <2>3, <2>6 DEF PumpAudio, PathOK
<1>5. CASE FinalEvent
  <2>1. heard # <<>> /\ heard' = Tail(heard) /\ line' = Head(heard)
    BY <1>5 DEF FinalEvent
  <2>2. heard \in Seq(1..MaxChunks)
    BY <1>1 DEF PathOK
  <2>3. heard' \in Seq(1..MaxChunks) /\ line' \in 0..MaxChunks
    BY <1>1, <2>1, <2>2, TailFacts
  <2> QED BY <1>1, <1>5, <2>3 DEF FinalEvent, PathOK
<1>6. ASSUME NEW l \in 0..MaxChunks,
             persisted' \in {persisted, Append(persisted, l)},
             UNCHANGED <<received, line, queue, wav, heard>>
      PROVE  PathOK'
  <2>1. persisted' \in Seq(0..MaxChunks)
    <3>1. persisted \in Seq(0..MaxChunks)
      BY <1>1 DEF PathOK
    <3>2. Append(persisted, l) \in Seq(0..MaxChunks)
      BY <3>1, AppendFacts
    <3> QED BY <1>6, <3>1, <3>2
  <2> QED BY <1>1, <1>6, <2>1 DEF PathOK
<1>7. CASE ProbePersisted
  <2>1. Probe \in 0..MaxChunks
    BY <1>1 DEF Probe
  <2> QED BY <1>6, <1>7, <2>1 DEF ProbePersisted, PersistFinal
<1>8. CASE EventPersisted \/ DrainTimesOut
  <2>1. line \in 0..MaxChunks
    BY <1>1 DEF PathOK
  <2> QED BY <1>6, <1>8, <2>1 DEF EventPersisted, PersistFinal, DrainTimesOut
<1>9. ASSUME UNCHANGED <<received, line, queue, wav, heard, persisted>>
      PROVE  PathOK'
  BY <1>1, <1>9 DEF PathOK
<1>10. CASE Loop \/ ReceiveRefused \/ ReceiveProbe \/ ReceiveBye
            \/ ReceiveDisconnect \/ ProbeSent \/ Drained
  BY <1>9, <1>10 DEF Loop, ReceiveRefused, ReceiveProbe, ReceiveBye,
                     ReceiveDisconnect, ProbeSent, Drained
<1>11. CASE StampMeeting \/ DispatchArchive \/ ParkOrSummarise \/ CloseSession
            \/ ClientLeaves \/ UNCHANGED vars
  BY <1>9, <1>11 DEF StampMeeting, DispatchArchive, ParkOrSummarise,
                     CloseSession, ClientLeaves, vars
<1>12. CASE InterimEvent \/ EventSent \/ ProviderEnds \/ ProviderFails
            \/ FailureReported
  BY <1>9, <1>12 DEF InterimEvent, EventSent, ProviderEnds, ProviderFails,
                     FailureReported
<1> QED BY <1>2, <1>3, <1>4, <1>5, <1>7, <1>8, <1>10, <1>11, <1>12, ActionCases

LEMMA ControlTypeNext ==
    ASSUME TypeOK, [Next]_vars
    PROVE  ControlOK'
<1> USE DEF handlerVars, socketVars, audioVars, consumerVars, providerVars,
            segmentVars, outcomeVars, ControlOK
<1>1. ControlOK /\ received \in 0..MaxChunks /\ MaxChunks \in Nat
  BY TypeSplit, SessionAssumption DEF PathOK
<1>2. CASE Loop
  BY <1>1, <1>2 DEF Loop, LeaveLoop, HandlerStates
<1>3. CASE ReceiveChunk
  <2>1. received + 1 \in 1..MaxChunks
    BY <1>1, <1>3 DEF ReceiveChunk
  <2>2. rejected' \subseteq rejected \cup {received + 1}
    BY <1>3 DEF ReceiveChunk
  <2>3. rejected' \subseteq 1..MaxChunks
    BY <1>1, <2>1, <2>2
  <2>4. wavWriter' \in BOOLEAN
    <3>1. WriteWav(received + 1)
      BY <1>3 DEF ReceiveChunk
    <3>2. wavWriter' = wavWriter \/ wavWriter' = FALSE
      BY <3>1 DEF WriteWav
    <3>3. wavWriter \in BOOLEAN
      BY <1>1
    <3> QED BY <3>2, <3>3
  <2>5. appOpen' \in BOOLEAN /\ client' = client
    BY <1>1, <1>3 DEF ReceiveChunk, SendError, SendText
  <2> QED BY <1>1, <1>3, <2>3, <2>4, <2>5 DEF ReceiveChunk, HandlerStates
<1>4. CASE ReceiveRefused
  BY <1>1, <1>4 DEF ReceiveRefused, SendError, SendText, HandlerStates
<1>5. CASE ReceiveProbe
  BY <1>1, <1>5, SessionAssumption DEF ReceiveProbe, HandlerStates
<1>6. CASE ReceiveBye
  BY <1>1, <1>6 DEF ReceiveBye, LeaveLoop, HandlerStates
<1>7. CASE ReceiveDisconnect
  BY <1>1, <1>7 DEF ReceiveDisconnect, LeaveLoop, HandlerStates
<1>8. CASE ProbePersisted
  BY <1>1, <1>8 DEF ProbePersisted, HandlerStates
<1>9. CASE ProbeSent
  BY <1>1, <1>9 DEF ProbeSent, SendText, HandlerStates
<1>10. CASE EndAudio
  BY <1>1, <1>10 DEF EndAudio, HandlerStates
<1>11. CASE Drained
  <2>1. pc' \in HandlerStates /\ wavWriter' \in BOOLEAN
    BY <1>11 DEF Drained, AfterFinally, HandlerStates
  <2> QED BY <1>1, <1>11, <2>1 DEF Drained
<1>12. CASE DrainTimesOut
  <2>1. pc' \in HandlerStates /\ consumer' \in ConsumerStates /\ wavWriter' \in BOOLEAN
    BY <1>12 DEF DrainTimesOut, AfterFinally, HandlerStates, ConsumerStates
  <2> QED BY <1>1, <1>12, <2>1 DEF DrainTimesOut
<1>13. CASE StampMeeting
  BY <1>1, <1>13 DEF StampMeeting, HandlerStates
<1>14. CASE DispatchArchive
  BY <1>1, <1>14 DEF DispatchArchive, HandlerStates
<1>15. CASE ParkOrSummarise
  BY <1>1, <1>15 DEF ParkOrSummarise, HandlerStates
<1>16. CASE CloseSession
  BY <1>1, <1>16 DEF CloseSession, HandlerStates
<1>17. CASE FinalEvent
  BY <1>1, <1>17 DEF FinalEvent, ConsumerStates
<1>18. CASE InterimEvent
  BY <1>1, <1>18 DEF InterimEvent, ConsumerStates
<1>19. CASE EventPersisted
  BY <1>1, <1>19 DEF EventPersisted, ConsumerStates
<1>20. CASE EventSent
  BY <1>1, <1>20 DEF EventSent, SendText, ConsumerStates
<1>21. CASE ProviderEnds
  BY <1>1, <1>21 DEF ProviderEnds, ConsumerStates
<1>22. CASE ProviderFails
  BY <1>1, <1>22 DEF ProviderFails, ConsumerStates
<1>23. CASE FailureReported
  BY <1>1, <1>23 DEF FailureReported, SendError, SendText, ConsumerStates
<1>24. CASE PumpAudio
  BY <1>1, <1>24 DEF PumpAudio
<1>25. CASE ClientLeaves
  <2>1. client' \in BOOLEAN
    BY <1>25 DEF ClientLeaves
  <2>2. UNCHANGED <<faults, pc, left, appOpen, probes, finalLines, rejected,
                    wavWriter, consumer, pump, sttFailed, stamped, archive,
                    summary, closeCode>>
    BY <1>25 DEF ClientLeaves
  <2> QED BY <1>1, <2>1, <2>2
<1>26. CASE UNCHANGED vars
  BY <1>1, <1>26 DEF vars
<1> QED BY <1>2, <1>3, <1>4, <1>5, <1>6, <1>7, <1>8, <1>9, <1>10, <1>11, <1>12,
           <1>13, <1>14, <1>15, <1>16, <1>17, <1>18, <1>19, <1>20, <1>21, <1>22,
           <1>23, <1>24, <1>25, <1>26, ActionCases

LEMMA TypeNext == ASSUME TypeOK, [Next]_vars PROVE TypeOK'
BY PathTypeNext, ControlTypeNext, TypeSplitNext

LEMMA WavNext ==
    ASSUME TypeOK, WavHasNoGaps, [Next]_vars
    PROVE  WavHasNoGaps'
<1> USE DEF handlerVars, socketVars, audioVars, consumerVars, providerVars,
            segmentVars, outcomeVars
<1>1. CASE ReceiveChunk
  <2>1. wav \in Seq(Int) /\ received \in Int /\ received + 1 \in Int
    BY TypeSplit, SessionAssumption DEF PathOK
  <2>2. received' = received + 1 /\ WriteWav(received + 1)
    BY <1>1 DEF ReceiveChunk
  <2>3. CASE wavWriter /\ wav' = Append(wav, received + 1) /\ wavWriter' = wavWriter
    <3>1. /\ DOMAIN wav = 1..Len(wav) /\ DOMAIN wav' = 1..received + 1
          /\ Len(wav) = received /\ Len(wav') = received + 1
          /\ wav'[received + 1] = received + 1
          /\ \A i \in 1..received : wav'[i] = wav[i]
      BY <2>1, <2>3, AppendFacts DEF WavHasNoGaps
    <3> QED BY <2>1, <2>2, <2>3, <3>1 DEF WavHasNoGaps
  <2>4. CASE ~wavWriter' /\ wav' = wav
    BY <2>4 DEF WavHasNoGaps
  <2> QED BY <2>2, <2>3, <2>4 DEF WriteWav, TypeOK
<1>2. CASE Drained \/ DrainTimesOut
  BY <1>2 DEF Drained, DrainTimesOut, WavHasNoGaps
<1>3. ASSUME UNCHANGED <<received, wav, wavWriter>> PROVE WavHasNoGaps'
  BY <1>3 DEF WavHasNoGaps
<1>4. CASE Loop \/ ReceiveRefused \/ ReceiveProbe \/ ReceiveBye
           \/ ReceiveDisconnect \/ ProbePersisted \/ ProbeSent \/ EndAudio
  BY <1>3, <1>4 DEF Loop, ReceiveRefused, ReceiveProbe, ReceiveBye,
                    ReceiveDisconnect, ProbePersisted, ProbeSent, EndAudio
<1>5. CASE StampMeeting \/ DispatchArchive \/ ParkOrSummarise \/ CloseSession
           \/ PumpAudio \/ ClientLeaves \/ UNCHANGED vars
  BY <1>3, <1>5 DEF StampMeeting, DispatchArchive, ParkOrSummarise,
                    CloseSession, PumpAudio, ClientLeaves, vars
<1>6. CASE FinalEvent \/ InterimEvent \/ EventPersisted \/ EventSent
           \/ ProviderEnds \/ FailureReported \/ ProviderFails
  BY <1>3, <1>6 DEF FinalEvent, InterimEvent, EventPersisted, EventSent,
                    ProviderEnds, FailureReported, ProviderFails
<1> QED BY <1>1, <1>2, <1>4, <1>5, <1>6, ActionCases

LEMMA DepartedNext ==
    ASSUME TypeOK, Departed, [Next]_vars
    PROVE  Departed'
<1> USE DEF handlerVars, socketVars, audioVars, consumerVars, providerVars,
            segmentVars, outcomeVars, TypeOK, Departed, Finalizing
<1>1. CASE Loop
  BY <1>1 DEF Loop, LeaveLoop
<1>2. CASE ReceiveChunk
  BY <1>2 DEF ReceiveChunk, WriteWav, SendError, SendText
<1>3. CASE ReceiveRefused
  BY <1>3 DEF ReceiveRefused, SendError, SendText
<1>4. CASE ReceiveProbe
  BY <1>4 DEF ReceiveProbe
<1>5. CASE ReceiveBye
  BY <1>5 DEF ReceiveBye, LeaveLoop
<1>6. CASE ReceiveDisconnect
  BY <1>6 DEF ReceiveDisconnect, LeaveLoop
<1>7. CASE ProbePersisted
  BY <1>7 DEF ProbePersisted, PersistFinal
<1>8. CASE ProbeSent
  BY <1>8 DEF ProbeSent, SendText
<1>9. CASE EndAudio
  BY <1>9 DEF EndAudio
<1>10. CASE Drained
  BY <1>10 DEF Drained, AfterFinally
<1>11. CASE DrainTimesOut
  BY <1>11 DEF DrainTimesOut, AfterFinally
<1>12. CASE StampMeeting
  BY <1>12 DEF StampMeeting
<1>13. CASE DispatchArchive
  BY <1>13 DEF DispatchArchive
<1>14. CASE ParkOrSummarise
  BY <1>14 DEF ParkOrSummarise
<1>15. CASE CloseSession
  BY <1>15 DEF CloseSession
<1>16. CASE FinalEvent
  BY <1>16 DEF FinalEvent
<1>17. CASE InterimEvent
  BY <1>17 DEF InterimEvent
<1>18. CASE EventPersisted
  BY <1>18 DEF EventPersisted, PersistFinal
<1>19. CASE EventSent
  BY <1>19 DEF EventSent, SendText
<1>20. CASE ProviderEnds
  BY <1>20 DEF ProviderEnds
<1>21. CASE FailureReported
  BY <1>21 DEF FailureReported, SendError, SendText
<1>22. CASE PumpAudio
  BY <1>22 DEF PumpAudio
<1>23. CASE ProviderFails
  BY <1>23 DEF ProviderFails
<1>24. CASE ClientLeaves
  BY <1>24 DEF ClientLeaves
<1>25. CASE UNCHANGED vars
  BY <1>25 DEF vars
<1> QED BY <1>1, <1>2, <1>3, <1>4, <1>5, <1>6, <1>7, <1>8, <1>9, <1>10, <1>11,
           <1>12, <1>13, <1>14, <1>15, <1>16, <1>17, <1>18, <1>19, <1>20,
           <1>21, <1>22, <1>23, <1>24, <1>25, ActionCases

LEMMA EndedNext ==
    ASSUME TypeOK, Ended, [Next]_vars
    PROVE  Ended'
<1> USE DEF handlerVars, socketVars, audioVars, consumerVars, providerVars,
            segmentVars, outcomeVars, TypeOK, Ended, Finalizing, AfterAudio,
            HandlerStates
<1>1. CASE Loop
  BY <1>1 DEF Loop, LeaveLoop
<1>2. CASE ReceiveChunk
  <2>1. /\ pc = "receive" /\ pc' = "loop" /\ UNCHANGED <<pump, consumer>>
        /\ queue' = queue \/ queue' = Append(queue, received + 1)
    BY <1>2 DEF ReceiveChunk
  <2>2. received \in Nat /\ queue \in Seq(Int)
    BY SequencesOfInts
  <2>3. pump # "closed" /\ \A i \in DOMAIN queue : queue[i] # Sentinel
    BY <2>1
  <2>4. \A i \in DOMAIN queue' : queue'[i] # Sentinel
    <3>1. CASE queue' = queue
      BY <2>3, <3>1
    <3>2. CASE queue' = Append(queue, received + 1)
      <4>1. received + 1 \in Int /\ received + 1 # Sentinel
        BY <2>2 DEF Sentinel
      <4>2. /\ DOMAIN queue = 1..Len(queue) /\ DOMAIN queue' = 1..Len(queue) + 1
            /\ \A i \in 1..Len(queue) : queue'[i] = queue[i]
            /\ queue'[Len(queue) + 1] = received + 1 /\ Len(queue) \in Nat
        BY <2>2, <3>2, <4>1, AppendFacts
      <4>3. \A i \in 1..Len(queue) + 1 : i \in 1..Len(queue) \/ i = Len(queue) + 1
        BY <4>2
      <4> QED BY <2>3, <4>1, <4>2, <4>3
    <3> QED BY <2>1, <3>1, <3>2
  <2> QED BY <2>1, <2>3, <2>4
<1>3. CASE ReceiveRefused
  BY <1>3 DEF ReceiveRefused, SendError, SendText
<1>4. CASE ReceiveProbe
  BY <1>4 DEF ReceiveProbe
<1>5. CASE ReceiveBye
  BY <1>5 DEF ReceiveBye, LeaveLoop
<1>6. CASE ReceiveDisconnect
  BY <1>6 DEF ReceiveDisconnect, LeaveLoop
<1>7. CASE ProbePersisted
  BY <1>7 DEF ProbePersisted, PersistFinal
<1>8. CASE ProbeSent
  BY <1>8 DEF ProbeSent, SendText
<1>9. CASE EndAudio
  BY <1>9 DEF EndAudio
<1>10. CASE Drained
  BY <1>10 DEF Drained, AfterFinally
<1>11. CASE DrainTimesOut
  BY <1>11 DEF DrainTimesOut, AfterFinally
<1>12. CASE StampMeeting
  BY <1>12 DEF StampMeeting
<1>13. CASE DispatchArchive
  BY <1>13 DEF DispatchArchive
<1>14. CASE ParkOrSummarise
  BY <1>14 DEF ParkOrSummarise
<1>15. CASE CloseSession
  BY <1>15 DEF CloseSession
<1>16. CASE FinalEvent
  BY <1>16 DEF FinalEvent
<1>17. CASE InterimEvent
  BY <1>17 DEF InterimEvent
<1>18. CASE EventPersisted
  BY <1>18 DEF EventPersisted, PersistFinal
<1>19. CASE EventSent
  BY <1>19 DEF EventSent, SendText
<1>20. CASE ProviderEnds
  BY <1>20 DEF ProviderEnds
<1>21. CASE FailureReported
  BY <1>21 DEF FailureReported, SendError, SendText
<1>22. CASE PumpAudio
  BY <1>22 DEF PumpAudio
<1>23. CASE ProviderFails
  BY <1>23 DEF ProviderFails
<1>24. CASE ClientLeaves
  BY <1>24 DEF ClientLeaves
<1>25. CASE UNCHANGED vars
  BY <1>25 DEF vars
<1> QED BY <1>1, <1>2, <1>3, <1>4, <1>5, <1>6, <1>7, <1>8, <1>9, <1>10, <1>11,
           <1>12, <1>13, <1>14, <1>15, <1>16, <1>17, <1>18, <1>19, <1>20,
           <1>21, <1>22, <1>23, <1>24, <1>25, ActionCases

LEMMA ToldNext ==
    ASSUME TypeOK, Ended, Told, [Next]_vars
    PROVE  Told'
<1> USE DEF handlerVars, socketVars, audioVars, consumerVars, providerVars,
            segmentVars, outcomeVars, TypeOK, Ended, Told, Finalizing,
            AfterAudio
<1>1. CASE Loop
  BY <1>1 DEF Loop, LeaveLoop
<1>2. CASE ReceiveChunk
  BY <1>2 DEF ReceiveChunk, WriteWav, SendError, SendText
<1>3. CASE ReceiveRefused
  BY <1>3 DEF ReceiveRefused, SendError, SendText
<1>4. CASE ReceiveProbe
  BY <1>4 DEF ReceiveProbe
<1>5. CASE ReceiveBye
  BY <1>5 DEF ReceiveBye, LeaveLoop
<1>6. CASE ReceiveDisconnect
  BY <1>6 DEF ReceiveDisconnect, LeaveLoop
<1>7. CASE ProbePersisted
  BY <1>7 DEF ProbePersisted, PersistFinal
<1>8. CASE ProbeSent
  BY <1>8 DEF ProbeSent, SendText
<1>9. CASE EndAudio
  BY <1>9 DEF EndAudio
<1>10. CASE Drained
  BY <1>10 DEF Drained, AfterFinally
<1>11. CASE DrainTimesOut
  BY <1>11 DEF DrainTimesOut, AfterFinally
<1>12. CASE StampMeeting
  BY <1>12 DEF StampMeeting
<1>13. CASE DispatchArchive
  BY <1>13 DEF DispatchArchive
<1>14. CASE ParkOrSummarise
  BY <1>14 DEF ParkOrSummarise
<1>15. CASE CloseSession
  BY <1>15 DEF CloseSession
<1>16. CASE FinalEvent
  BY <1>16 DEF FinalEvent
<1>17. CASE InterimEvent
  BY <1>17 DEF InterimEvent
<1>18. CASE EventPersisted
  BY <1>18 DEF EventPersisted, PersistFinal
<1>19. CASE EventSent
  BY <1>19 DEF EventSent, SendText
<1>20. CASE ProviderEnds
  BY <1>20 DEF ProviderEnds
<1>21. CASE FailureReported
  BY <1>21 DEF FailureReported, SendError, SendText
<1>22. CASE PumpAudio
  BY <1>22 DEF PumpAudio
<1>23. CASE ProviderFails
  BY <1>23 DEF ProviderFails
<1>24. CASE ClientLeaves
  BY <1>24 DEF ClientLeaves
<1>25. CASE UNCHANGED vars
  BY <1>25 DEF vars
<1> QED BY <1>1, <1>2, <1>3, <1>4, <1>5, <1>6, <1>7, <1>8, <1>9, <1>10, <1>11,
           <1>12, <1>13, <1>14, <1>15, <1>16, <1>17, <1>18, <1>19, <1>20,
           <1>21, <1>22, <1>23, <1>24, <1>25, ActionCases

-----------------------------------------------------------------------------
LEMMA InitInv == Init => Inv
<1> SUFFICES ASSUME Init PROVE Inv
  OBVIOUS
<1> USE DEF Init
<1>1. Contents(<<>>) = {} /\ Chunks(<<>>) = {} /\ InOrder(<<>>)
  BY DEF Contents, Chunks, InOrder
<1>2. /\ faults \subseteq Faults /\ received \in 0..MaxChunks
      /\ probes \in 0..MaxProbes /\ line \in 0..MaxChunks /\ Len(queue) <= QueueMax
  BY SessionAssumption DEF Probe
<1>3. TypeOK
  <2>1. /\ queue \in Seq(1..MaxChunks \cup {Sentinel})
        /\ wav \in Seq(1..MaxChunks) /\ heard \in Seq(1..MaxChunks)
        /\ persisted \in Seq(0..MaxChunks)
    BY EmptySeq
  <2>2. PathOK
    BY <1>2, <2>1 DEF PathOK
  <2>3. ControlOK
    BY <1>2 DEF ControlOK, HandlerStates, ConsumerStates
  <2> QED BY <2>2, <2>3, TypeSplit
<1>4. Ended /\ Departed
  BY DEF Ended, Departed, Finalizing
<1>5. Told
  BY DEF Told
<1>6. WavHasNoGaps
  BY DEF WavHasNoGaps
<1>7. Ordered
  BY <1>1 DEF Ordered, Hand, Before
<1>8. Accounted
  BY DEF Accounted
<1> QED BY <1>3, <1>4, <1>5, <1>6, <1>7, <1>8 DEF Inv

LEMMA NextInv == Inv /\ [Next]_vars => Inv'
BY TypeNext, EndedNext, DepartedNext, ToldNext, WavNext, OrderedNext,
   AccountedNext DEF Inv

(* The inductive invariant.                                                 *)
THEOREM SessionInvariant == Spec => []Inv
BY InitInv, NextInv, PTL DEF Spec

(* The variables keep their types, for every bound and set of faults.       *)
THEOREM TypeCorrect == Spec => []TypeOK
<1>1. Inv => TypeOK
  BY DEF Inv
<1> QED BY <1>1, SessionInvariant, PTL

(* However many chunks are refused for backpressure, the WAV holds all that *)
(* were received for as long as it could be written.                        *)
THEOREM WavIsComplete == Spec => []WavHasNoGaps
<1>1. Inv => WavHasNoGaps
  BY DEF Inv
<1> QED BY <1>1, SessionInvariant, PTL

(* Lines are stored in the order of the audio and never twice, whatever     *)
(* fails, and whatever the probes write in between.                         *)
THEOREM LinesStoredInOrder == Spec => []PersistedInOrder
<1>1. ASSUME Inv PROVE PersistedInOrder
  <2>1. /\ persisted \in Seq(0..MaxChunks)
        /\ DOMAIN persisted = 1..Len(persisted)
        /\ \A i \in DOMAIN persisted : persisted[i] \in 0..MaxChunks
    <3>1. persisted \in Seq(0..MaxChunks)
      BY <1>1 DEF Inv, TypeOK
    <3> QED BY <3>1, LenProperties
  <2>2. InOrder(persisted)
    BY <1>1 DEF Inv, Ordered
  <2> QED BY <2>1, <2>2, SessionAssumption DEF PersistedInOrder, InOrder, Probe
<1> QED BY <1>1, SessionInvariant, PTL

(* "Recording failed before any transcript was captured" is only said of a  *)
(* session that stored no line.                                             *)
THEOREM ParkedHasNoLines == Spec => []ParkedOnlyWithoutLines
<1>1. Inv => ParkedOnlyWithoutLines
  BY DEF Inv, Told, ParkedOnlyWithoutLines
<1> QED BY <1>1, SessionInvariant, PTL

(* The status, the summary and the close code of a session tell one story.  *)
THEOREM OutcomesAlwaysAgree == Spec => []OutcomesAgree
<1>1. Inv => OutcomesAgree
  BY DEF Inv, Told, OutcomesAgree
<1> QED BY <1>1, SessionInvariant, PTL

(* When the sentinel reached the provider and only the disk and the broker  *)
(* may fail, every chunk received was refused or has its line stored.       *)
THEOREM TrailingLinesAreStored == Spec => []TrailingLinesStored
<1>1. ASSUME Inv PROVE TrailingLinesStored
  <2> SUFFICES ASSUME pc \in Finalizing, pump = "closed", Quiet
               PROVE  1..received = (Contents(persisted) \ {Probe}) \cup rejected
    BY DEF TrailingLinesStored, Quiet
  <2> USE <1>1 DEF Inv
  <2>1. consumer = "done" /\ queue = <<>>
    BY DEF Ended
  <2>2. heard = <<>> /\ Hand = {}
    BY <2>1 DEF Accounted, Hand
  <2>3. Chunks(<<>>) = {}
    BY DEF Chunks, Contents
  <2>4. 1..received \subseteq rejected \cup Chunks(persisted)
    BY <2>1, <2>2, <2>3 DEF Accounted
  <2>5. rejected \cup Chunks(persisted) \subseteq 1..received
    BY DEF Accounted, Ordered
  <2>6. Contents(persisted) \subseteq 0..MaxChunks
    <3>1. persisted \in Seq(0..MaxChunks)
      BY DEF TypeOK
    <3>2. \A i \in DOMAIN persisted : persisted[i] \in 0..MaxChunks
      BY <3>1, LenProperties
    <3> QED BY <3>2 DEF Contents
  <2>7. Contents(persisted) \ {Probe} = Chunks(persisted)
    BY <2>6, SessionAssumption DEF Chunks, Probe
  <2> QED BY <2>4, <2>5, <2>7
<1> QED BY <1>1, SessionInvariant, PTL

LEMMA SettledStep ==
    ASSUME Inv, pc \in Finalizing, [Next]_vars
    PROVE  UNCHANGED <<sttFailed, finalLines, persisted, wav, wavWriter>>
<1> USE DEF handlerVars, socketVars, audioVars, consumerVars, providerVars,
            segmentVars, outcomeVars, Finalizing
<1> consumer = "done" /\ ~wavWriter
  BY DEF Inv, Ended
<1>1. CASE Loop
  BY <1>1 DEF Loop, LeaveLoop
<1>2. CASE ReceiveChunk
  BY <1>2 DEF ReceiveChunk, WriteWav, SendError, SendText
<1>3. CASE ReceiveRefused
  BY <1>3 DEF ReceiveRefused, SendError, SendText
<1>4. CASE ReceiveProbe
  BY <1>4 DEF ReceiveProbe
<1>5. CASE ReceiveBye
  BY <1>5 DEF ReceiveBye, LeaveLoop
<1>6. CASE ReceiveDisconnect
  BY <1>6 DEF ReceiveDisconnect, LeaveLoop
<1>7. CASE ProbePersisted
  BY <1>7 DEF ProbePersisted, PersistFinal
<1>8. CASE ProbeSent
  BY <1>8 DEF ProbeSent, SendText
<1>9. CASE EndAudio
  BY <1>9 DEF EndAudio
<1>10. CASE Drained
  BY <1>10 DEF Drained, AfterFinally
<1>11. CASE DrainTimesOut
  BY <1>11 DEF DrainTimesOut, AfterFinally
<1>12. CASE StampMeeting
  BY <1>12 DEF StampMeeting
<1>13. CASE DispatchArchive
  BY <1>13 DEF DispatchArchive
<1>14. CASE ParkOrSummarise
  BY <1>14 DEF ParkOrSummarise
<1>15. CASE CloseSession
  BY <1>15 DEF CloseSession
<1>16. CASE FinalEvent
  BY <1>16 DEF FinalEvent
<1>17. CASE InterimEvent
  BY <1>17 DEF InterimEvent
<1>18. CASE EventPersisted
  BY <1>18 DEF EventPersisted, PersistFinal
<1>19. CASE EventSent
  BY <1>19 DEF EventSent, SendText
<1>20. CASE ProviderEnds
  BY <1>20 DEF ProviderEnds
<1>21. CASE FailureReported
  BY <1>21 DEF FailureReported, SendError, SendText
<1>22. CASE PumpAudio
  BY <1>22 DEF PumpAudio
<1>23. CASE ProviderFails
  BY <1>23 DEF ProviderFails
<1>24. CASE ClientLeaves
  BY <1>24 DEF ClientLeaves
<1>25. CASE UNCHANGED vars
  BY <1>25 DEF vars
<1> QED BY <1>1, <1>2, <1>3, <1>4, <1>5, <1>6, <1>7, <1>8, <1>9, <1>10, <1>11,
           <1>12, <1>13, <1>14, <1>15, <1>16, <1>17, <1>18, <1>19, <1>20,
           <1>21, <1>22, <1>23, <1>24, <1>25, ActionCases

(* Once the drain is over nothing moves under the steps that finalize.      *)
THEOREM FinalizationIsSettled == Spec => SettledBeforeFinalization
<1>1. ASSUME Inv, [Next]_vars
      PROVE  [(pc \in Finalizing) =>
                (UNCHANGED <<sttFailed, finalLines, persisted, wav, wavWriter>>)]_vars
  BY <1>1, SettledStep
<1> QED BY <1>1, SessionInvariant, PTL DEF Spec, SettledBeforeFinalization
=============================================================================
