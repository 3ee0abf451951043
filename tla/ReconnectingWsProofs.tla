------------------------ MODULE ReconnectingWsProofs ------------------------
(***************************************************************************)
(* For every buffer size, batch size, budget and backoff, the reconnecting *)
(* client is never wedged, never holds two sockets and never delivers a     *)
(* chunk twice; and for every capacity the circular array of               *)
(* audio-buffer.ts, which holds its chunks, keeps its indices consistent   *)
(* and implements the bounded drop-oldest queue.                           *)
(***************************************************************************)
EXTENDS ReconnectingWs, AudioRingBuffer, SequenceTheorems, FiniteSetTheorems, TLAPS

(* The inductive invariant. *)
Inv == TypeOK /\ NeverWedged /\ OpenBufferHasFlusher

LEMMA InitInv == Init => Inv
<1> SUFFICES ASSUME Init PROVE Inv
  OBVIOUS
<1>1. /\ buffer \in Seq(1..MaxChunks) /\ sent \in Seq(1..MaxChunks)
      /\ produced \in 0..MaxChunks
      /\ evicted \subseteq 1..MaxChunks /\ lost \subseteq 1..MaxChunks
  BY ClientAssumption DEF Init
<1>2. TypeOK
  BY <1>1 DEF Init, TypeOK, Phases, SockStates
<1> QED BY <1>2 DEF Init, Inv, NeverWedged, OpenBufferHasFlusher

(* flushBatch(): the buffer keeps a suffix of what it held, and if that is  *)
(* not empty another flush is scheduled.                                    *)
LEMMA FlushBatchLemma ==
    ASSUME TypeOK, NEW reaches \in BOOLEAN, NEW waiting \in Nat,
           FlushBatch(reaches, waiting)
    PROVE  /\ buffer' \in Seq(1..MaxChunks)
           /\ flushers' \in Nat
           /\ sent' \in Seq(1..MaxChunks)
           /\ lost' \subseteq 1..MaxChunks
           /\ buffer' # <<>> => flushers' > 0
<1> DEFINE n == MinOf(Len(buffer), DrainYieldEvery)
           batch == SubSeq(buffer, 1, n)
<1>1. n \in Nat /\ n <= Len(buffer) /\ Len(buffer) \in Nat
  BY ClientAssumption DEF MinOf, TypeOK
<1>2. \A i \in 1..Len(buffer) : buffer[i] \in 1..MaxChunks
  BY ElementOfSeq DEF TypeOK
<1>3. batch \in Seq(1..MaxChunks)
  BY <1>1, <1>2, SubSeqProperties
<1>4. /\ SubSeq(buffer, n + 1, Len(buffer)) \in Seq(1..MaxChunks)
      /\ n = Len(buffer) => SubSeq(buffer, n + 1, Len(buffer)) = <<>>
  BY <1>1, <1>2, SubSeqProperties, SubSeqEmpty
<1>5. Contents(batch) \subseteq 1..MaxChunks
  BY <1>3 DEF Contents
<1>6. sent \o batch \in Seq(1..MaxChunks)
  BY <1>3, ConcatProperties DEF TypeOK
<1>7. /\ buffer' = SubSeq(buffer, n + 1, Len(buffer))
      /\ flushers' = IF n < Len(buffer) THEN waiting + 1 ELSE waiting
      /\ sent' = IF reaches THEN sent \o batch ELSE sent
      /\ lost' = IF reaches THEN lost ELSE lost \cup Contents(batch)
  BY DEF FlushBatch
<1> HIDE DEF n, batch
<1>8. buffer' \in Seq(1..MaxChunks) /\ (n = Len(buffer) => buffer' = <<>>)
  BY <1>4, <1>7
<1>9. flushers' \in Nat /\ (n # Len(buffer) => flushers' > 0)
  BY <1>1, <1>7
<1>10. sent' \in Seq(1..MaxChunks) /\ lost' \subseteq 1..MaxChunks
  BY <1>5, <1>6, <1>7 DEF TypeOK
<1> QED BY <1>8, <1>9, <1>10

(* scheduleNextAttempt() either gives up or leaves the retry timer armed.   *)
LEMMA ScheduleLemma ==
    ASSUME NEW el \in 0..Budget, NEW att \in Nat, ScheduleNextAttempt(el, att)
    PROVE  /\ elapsed' = el /\ attempt' = att
           /\ \/ phase' = "failed" /\ timer' = Null /\ el = Budget
              \/ phase' = "reconnecting" /\ timer' \in Nat
BY ClientAssumption DEF ScheduleNextAttempt, WithJitter

(* The connection half and the audio half of the type invariant. *)
ConnTypeOK ==
    /\ phase \in Phases /\ attempt \in Nat
    /\ elapsed \in 0..Budget \cup {Null} /\ timer \in Nat \cup {Null}
    /\ sock \in SockStates /\ userClosed \in BOOLEAN

AudioTypeOK ==
    /\ buffer \in Seq(1..MaxChunks) /\ flushers \in Nat
    /\ produced \in 0..MaxChunks /\ sent \in Seq(1..MaxChunks)
    /\ evicted \subseteq 1..MaxChunks /\ lost \subseteq 1..MaxChunks

LEMMA TypeSplit == TypeOK <=> ConnTypeOK /\ AudioTypeOK
BY DEF TypeOK, ConnTypeOK, AudioTypeOK

LEMMA TypeSplitNext == TypeOK' <=> ConnTypeOK' /\ AudioTypeOK'
BY TypeSplit, PTL

LEMMA AudioUnchanged ==
    ASSUME TypeOK, UNCHANGED audioVars
    PROVE  AudioTypeOK'
BY DEF TypeOK, AudioTypeOK, audioVars

LEMMA ConnUnchanged ==
    ASSUME TypeOK, NeverWedged, UNCHANGED connVars
    PROVE  ConnTypeOK' /\ NeverWedged'
BY DEF TypeOK, ConnTypeOK, NeverWedged, connVars

-----------------------------------------------------------------------------
LEMMA SendInv ==
    ASSUME Inv, Send
    PROVE  AudioTypeOK' /\ OpenBufferHasFlusher'
<1> USE DEF Inv
<1> DEFINE c == produced + 1
<1>1. c \in 1..MaxChunks /\ produced' = c /\ produced' \in 0..MaxChunks
  BY ClientAssumption DEF Send, TypeOK
<1>2. /\ UNCHANGED <<connVars, flushers>>
      /\ \/ lost' = lost \cup {c} /\ UNCHANGED <<buffer, sent, evicted>>
         \/ sent' = Append(sent, c) /\ UNCHANGED <<buffer, evicted, lost>>
         \/ phase # "open" /\ PushChunk(c) /\ UNCHANGED <<sent, lost>>
  BY DEF Send
<1> HIDE DEF c
<1>3. Append(sent, c) \in Seq(1..MaxChunks)
  BY <1>1 DEF TypeOK
<1>4. CASE PushChunk(c) /\ phase # "open" /\ UNCHANGED <<sent, lost>>
  <2>1. CASE Len(buffer) = MaxBuffered
    <3>1. buffer # <<>>
      BY <2>1, ClientAssumption, EmptySeq
    <3>2. Tail(buffer) \in Seq(1..MaxChunks) /\ Head(buffer) \in 1..MaxChunks
      BY <3>1, HeadTailProperties DEF TypeOK
    <3>3. /\ buffer' = Append(Tail(buffer), c)
          /\ evicted' = evicted \cup {Head(buffer)}
      BY <1>4, <2>1 DEF PushChunk
    <3>4. buffer' \in Seq(1..MaxChunks)
      BY <1>1, <3>2, <3>3
    <3> QED BY <1>1, <1>2, <1>4, <3>2, <3>3, <3>4
            DEF AudioTypeOK, OpenBufferHasFlusher, TypeOK, connVars
  <2>2. CASE Len(buffer) # MaxBuffered
    <3>1. buffer' = Append(buffer, c) /\ evicted' = evicted
      BY <1>4, <2>2 DEF PushChunk
    <3>2. buffer' \in Seq(1..MaxChunks)
      BY <1>1, <3>1 DEF TypeOK
    <3> QED BY <1>1, <1>2, <1>4, <3>1, <3>2
            DEF AudioTypeOK, OpenBufferHasFlusher, TypeOK, connVars
  <2> QED BY <2>1, <2>2
<1>5. CASE lost' = lost \cup {c} /\ UNCHANGED <<buffer, sent, evicted>>
  BY <1>1, <1>2, <1>5 DEF AudioTypeOK, OpenBufferHasFlusher, TypeOK, connVars
<1>6. CASE sent' = Append(sent, c) /\ UNCHANGED <<buffer, evicted, lost>>
  BY <1>1, <1>2, <1>3, <1>6
     DEF AudioTypeOK, OpenBufferHasFlusher, TypeOK, connVars
<1> QED BY <1>2, <1>4, <1>5, <1>6

LEMMA SocketClosedInv ==
    ASSUME Inv, SocketClosed
    PROVE  ConnTypeOK' /\ NeverWedged' /\ phase' # "open"
<1> USE DEF Inv
<1>1. CASE userClosed
  <2>1. /\ sock' = "none" /\ userClosed' = userClosed /\ phase' = "idle"
        /\ UNCHANGED <<attempt, elapsed, timer>>
    BY <1>1 DEF SocketClosed
  <2>2. timer = Null
    BY <1>1 DEF NeverWedged
  <2> QED BY <1>1, <2>1, <2>2
          DEF ConnTypeOK, NeverWedged, TypeOK, Phases, SockStates
<1>2. CASE ~userClosed
  <2>1. PICK el \in 0..Budget, att \in Nat : ScheduleNextAttempt(el, att)
    <3>1. CASE sock = "connecting"
      <4>1. ScheduleNextAttempt(IF elapsed = Null THEN 0 ELSE elapsed, attempt)
        BY <1>2, <3>1 DEF SocketClosed
      <4>2. /\ (IF elapsed = Null THEN 0 ELSE elapsed) \in 0..Budget
            /\ attempt \in Nat
        BY ClientAssumption DEF TypeOK
      <4> QED BY <4>1, <4>2
    <3>2. CASE sock # "connecting"
      <4>1. ScheduleNextAttempt(0, 0)
        BY <1>2, <3>2 DEF SocketClosed
      <4>2. 0 \in 0..Budget /\ 0 \in Nat
        BY ClientAssumption
      <4> QED BY <4>1, <4>2
    <3> QED BY <3>1, <3>2
  <2>2. sock' = "none" /\ userClosed' = userClosed
    BY DEF SocketClosed
  <2>3. /\ elapsed' = el /\ attempt' = att
        /\ \/ phase' = "failed" /\ timer' = Null /\ el = Budget
           \/ phase' = "reconnecting" /\ timer' \in Nat
    BY <2>1, ScheduleLemma
  <2>4. ConnTypeOK'
    BY <1>2, <2>2, <2>3 DEF ConnTypeOK, TypeOK, Phases, SockStates
  <2>5. NeverWedged'
    BY <1>2, <2>2, <2>3 DEF NeverWedged, Null
  <2> QED BY <2>3, <2>4, <2>5
<1> QED BY <1>1, <1>2

LEMMA NextInv == Inv /\ [Next]_vars => Inv'
<1> SUFFICES ASSUME Inv, [Next]_vars PROVE Inv'
  OBVIOUS
<1> USE DEF Inv
<1>0. ASSUME ConnTypeOK', AudioTypeOK', NeverWedged', OpenBufferHasFlusher'
      PROVE  Inv'
  BY <1>0, TypeSplitNext
<1>1. CASE FireRetryTimer
  <2>1. AudioTypeOK' /\ phase' # "open"
    BY <1>1, AudioUnchanged DEF FireRetryTimer, NeverWedged, Null
  <2>2. ConnTypeOK' /\ NeverWedged'
    BY <1>1 DEF FireRetryTimer, ConnTypeOK, NeverWedged, TypeOK, Phases,
                SockStates, Null
  <2> QED BY <1>0, <2>1, <2>2 DEF OpenBufferHasFlusher
<1>2. CASE TokenResolved
  <2>1. AudioTypeOK' /\ OpenBufferHasFlusher'
    BY <1>2, AudioUnchanged
       DEF TokenResolved, OpenBufferHasFlusher, audioVars
  <2>2. ConnTypeOK' /\ NeverWedged'
    BY <1>2 DEF TokenResolved, ConnTypeOK, NeverWedged, TypeOK, SockStates
  <2> QED BY <1>0, <2>1, <2>2
<1>3. CASE SocketOpened
  <2>1. AudioTypeOK' /\ OpenBufferHasFlusher'
    BY <1>3, FlushBatchLemma
       DEF SocketOpened, AudioTypeOK, OpenBufferHasFlusher, TypeOK
  <2>2. ConnTypeOK'
    BY <1>3 DEF SocketOpened, ConnTypeOK, TypeOK, Phases, SockStates
  <2>3. ~userClosed /\ timer = Null
    BY <1>3 DEF SocketOpened, NeverWedged, TypeOK, Phases
  <2>4. NeverWedged'
    BY <1>3, <2>3 DEF SocketOpened, NeverWedged
  <2> QED BY <1>0, <2>1, <2>2, <2>4
<1>4. CASE PeerCloses
  <2>1. AudioTypeOK' /\ OpenBufferHasFlusher'
    BY <1>4, AudioUnchanged DEF PeerCloses, OpenBufferHasFlusher, audioVars
  <2>2. ConnTypeOK' /\ NeverWedged'
    BY <1>4 DEF PeerCloses, ConnTypeOK, NeverWedged, TypeOK, SockStates
  <2> QED BY <1>0, <2>1, <2>2
<1>5. CASE SocketClosed
  BY <1>0, <1>5, SocketClosedInv, AudioUnchanged
     DEF SocketClosed, OpenBufferHasFlusher
<1>6. CASE FlushTimer
  <2>1. AudioTypeOK' /\ OpenBufferHasFlusher'
    <3>1. flushers - 1 \in Nat /\ (sock = "open") \in BOOLEAN
      BY <1>6 DEF FlushTimer, TypeOK
    <3>2. FlushBatch(sock = "open", flushers - 1)
      BY <1>6 DEF FlushTimer
    <3> QED BY <1>6, <3>1, <3>2, FlushBatchLemma
            DEF FlushTimer, AudioTypeOK, OpenBufferHasFlusher, TypeOK
  <2> QED BY <1>0, <1>6, <2>1, ConnUnchanged DEF FlushTimer
<1>7. CASE Send
  BY <1>0, <1>7, SendInv, ConnUnchanged DEF Send
<1>8. CASE Close
  <2>1. AudioTypeOK' /\ OpenBufferHasFlusher'
    BY <1>8, AudioUnchanged DEF Close, OpenBufferHasFlusher
  <2>2. ConnTypeOK' /\ NeverWedged'
    BY <1>8 DEF Close, ConnTypeOK, NeverWedged, TypeOK, Phases, SockStates
  <2> QED BY <1>0, <2>1, <2>2
<1>9. CASE Tick
  <2>1. AudioTypeOK' /\ OpenBufferHasFlusher'
    BY <1>9, AudioUnchanged DEF Tick, OpenBufferHasFlusher, audioVars
  <2>2. elapsed' \in 0..Budget /\ (elapsed = Budget => elapsed' = Budget)
    BY <1>9, ClientAssumption DEF Tick, TypeOK, MinOf, Null
  <2>3. timer' \in Nat \cup {Null} /\ (timer = Null <=> timer' = Null)
    BY <1>9 DEF Tick, TypeOK, Null
  <2>4. ConnTypeOK' /\ NeverWedged'
    BY <1>9, <2>2, <2>3 DEF Tick, ConnTypeOK, NeverWedged, TypeOK, Null
  <2> QED BY <1>0, <2>1, <2>4
<1>10. CASE UNCHANGED vars
  <2>1. AudioTypeOK' /\ OpenBufferHasFlusher'
    BY <1>10, AudioUnchanged DEF vars, connVars, audioVars, OpenBufferHasFlusher
  <2> QED BY <1>0, <1>10, <2>1, ConnUnchanged DEF vars
<1> QED BY <1>1, <1>2, <1>3, <1>4, <1>5, <1>6, <1>7, <1>8, <1>9, <1>10
        DEF Next

LEMMA SpecInv == Spec => []Inv
BY InitInv, NextInv, PTL DEF Spec

(* The variables of the client keep their types, for every configuration.   *)
THEOREM TypeCorrect == Spec => []TypeOK
BY SpecInv, PTL DEF Inv

(* Every phase the client shows has its token request, handshake, socket or *)
(* timer behind it, and nothing can revive a closed or failed client.       *)
THEOREM ClientNeverWedged == Spec => []NeverWedged
BY SpecInv, PTL DEF Inv

(* Chunks left in the buffer of an open connection have a flush scheduled,  *)
(* whatever the batch size and however many outages overlap a drain.        *)
THEOREM BufferedChunksAreFlushed == Spec => []OpenBufferHasFlusher
BY SpecInv, PTL DEF Inv

-----------------------------------------------------------------------------
(* Where the chunks are.                                                    *)

Ordered(s) == \A i, j \in 1..Len(s) : i < j => s[i] < s[j]

(* What waits was neither evicted nor discarded.                            *)
WaitsOnce == Contents(buffer) \cap (evicted \cup lost) = {}

Places == AtMostOnce /\ BufferInOrder /\ WaitsOnce

LEMMA ContentsOfSeq ==
    ASSUME NEW S, NEW s \in Seq(S)
    PROVE  /\ Contents(s) = {s[i] : i \in 1..Len(s)}
           /\ Contents(s) \subseteq S /\ DOMAIN s = 1..Len(s)
BY ElementOfSeq DEF Contents

LEMMA ContentsAppend ==
    ASSUME NEW S, NEW s \in Seq(S), NEW e \in S
    PROVE  /\ Append(s, e) \in Seq(S) /\ Len(Append(s, e)) = Len(s) + 1
           /\ Contents(Append(s, e)) = Contents(s) \cup {e}
<1>1. /\ Append(s, e) \in Seq(S) /\ Len(Append(s, e)) = Len(s) + 1
      /\ Append(s, e)[Len(s) + 1] = e /\ Len(s) \in Nat
      /\ \A i \in 1..Len(s) : Append(s, e)[i] = s[i]
  OBVIOUS
<1>2. Contents(Append(s, e)) = {Append(s, e)[i] : i \in 1..Len(s) + 1}
  BY <1>1, ContentsOfSeq
<1>3. Contents(s) = {s[i] : i \in 1..Len(s)}
  BY ContentsOfSeq
<1> HIDE DEF Contents
<1>4. 1..Len(s) + 1 = 1..Len(s) \cup {Len(s) + 1}
  BY <1>1
<1> QED BY <1>1, <1>2, <1>3, <1>4

LEMMA ContentsConcat ==
    ASSUME NEW S, NEW s \in Seq(S), NEW t \in Seq(S)
    PROVE  /\ s \o t \in Seq(S) /\ Len(s \o t) = Len(s) + Len(t)
           /\ Contents(s \o t) = Contents(s) \cup Contents(t)
<1>1. /\ s \o t \in Seq(S) /\ Len(s \o t) = Len(s) + Len(t)
      /\ Len(s) \in Nat /\ Len(t) \in Nat
      /\ \A i \in 1..Len(s) : (s \o t)[i] = s[i]
      /\ \A i \in 1..Len(t) : (s \o t)[Len(s) + i] = t[i]
  BY ConcatProperties
<1>2. /\ Contents(s \o t) = {(s \o t)[i] : i \in 1..Len(s) + Len(t)}
      /\ Contents(s) = {s[i] : i \in 1..Len(s)} /\ Contents(t) = {t[i] : i \in 1..Len(t)}
  BY <1>1, ContentsOfSeq
<1>3. ASSUME NEW x \in Contents(s \o t) PROVE x \in Contents(s) \cup Contents(t)
  <2>1. PICK i \in 1..Len(s) + Len(t) : x = (s \o t)[i]
    BY <1>2
  <2>2. CASE i <= Len(s)
    BY <1>1, <1>2, <2>1, <2>2
  <2>3. CASE i > Len(s)
    <3>1. i - Len(s) \in 1..Len(t) /\ Len(s) + (i - Len(s)) = i
      BY <1>1, <2>3
    <3> QED BY <1>1, <1>2, <2>1, <3>1
  <2> QED BY <1>1, <2>2, <2>3
<1>4. Contents(s) \subseteq Contents(s \o t)
  BY <1>1, <1>2
<1>5. ASSUME NEW x \in Contents(t) PROVE x \in Contents(s \o t)
  <2>1. PICK i \in 1..Len(t) : x = t[i]
    BY <1>2
  <2>2. Len(s) + i \in 1..Len(s) + Len(t)
    BY <1>1
  <2> QED BY <1>1, <1>2, <2>1, <2>2
<1> QED BY <1>1, <1>3, <1>4, <1>5

(* An ordered sequence has as many different elements as its length.        *)
LEMMA OrderedCount ==
    ASSUME NEW s \in Seq(Nat), Ordered(s)
    PROVE  IsFiniteSet(Contents(s)) /\ Cardinality(Contents(s)) = Len(s)
<1>1. Len(s) \in Nat /\ \A i \in 1..Len(s) : s[i] \in Nat
  BY ElementOfSeq
<1>2. Contents(s) = {s[i] : i \in 1..Len(s)} /\ s \in [1..Len(s) -> Contents(s)]
  BY ContentsOfSeq
<1>3. \A i, j \in 1..Len(s) : s[i] = s[j] => i = j
  BY <1>1 DEF Ordered
<1>4. s \in Bijection(1..Len(s), Contents(s))
  BY <1>2, <1>3 DEF Bijection, Injection, Surjection, IsInjective
<1>5. IsFiniteSet(1..Len(s)) /\ Cardinality(1..Len(s)) = Len(s)
  BY <1>1, FS_Interval
<1> QED BY <1>4, <1>5, FS_Bijection DEF ExistsBijection

(* Cutting an ordered sequence in two cuts its elements in two.             *)
LEMMA OrderedSplit ==
    ASSUME NEW N \in Nat, NEW s \in Seq(1..N), Ordered(s), NEW n \in 0..Len(s)
    PROVE  LET b == SubSeq(s, 1, n)
               r == SubSeq(s, n + 1, Len(s))
           IN  /\ b \in Seq(1..N) /\ r \in Seq(1..N)
               /\ Len(b) = n /\ Len(r) = Len(s) - n
               /\ Ordered(b) /\ Ordered(r)
               /\ Contents(s) = Contents(b) \cup Contents(r)
               /\ Contents(b) \cap Contents(r) = {}
<1> DEFINE b == SubSeq(s, 1, n)
           r == SubSeq(s, n + 1, Len(s))
<1>1. Len(s) \in Nat /\ \A i \in 1..Len(s) : s[i] \in 1..N
  BY ElementOfSeq
<1>2. /\ b \in Seq(1..N) /\ Len(b) = n
      /\ \A i \in 1..n : b[i] = s[i]
  BY <1>1, SubSeqProperties
<1>3. r \in Seq(1..N) /\ Len(r) = Len(s) - n
  BY <1>1, SubSeqProperties
<1>4. \A i \in 1..Len(s) - n : r[i] = s[n + i]
  BY <1>1, SubSeqProperties
<1> HIDE DEF b, r
<1>5. Ordered(b)
  <2> SUFFICES ASSUME NEW i \in 1..n, NEW j \in 1..n, i < j
               PROVE  b[i] < b[j]
    BY <1>2 DEF Ordered
  <2>1. i \in 1..Len(s) /\ j \in 1..Len(s)
    BY <1>1
  <2> QED BY <1>2, <2>1 DEF Ordered
<1>6. Ordered(r)
  <2> SUFFICES ASSUME NEW i \in 1..Len(s) - n, NEW j \in 1..Len(s) - n, i < j
               PROVE  r[i] < r[j]
    BY <1>3 DEF Ordered
  <2>1. n + i \in 1..Len(s) /\ n + j \in 1..Len(s) /\ n + i < n + j
    BY <1>1
  <2> QED BY <1>4, <2>1 DEF Ordered
<1>7. /\ Contents(b) = {b[i] : i \in 1..n} /\ Contents(r) = {r[i] : i \in 1..Len(s) - n}
      /\ Contents(s) = {s[i] : i \in 1..Len(s)}
  BY <1>2, <1>3, ContentsOfSeq
<1>8. ASSUME NEW x \in Contents(s) PROVE x \in Contents(b) \cup Contents(r)
  <2>1. PICK i \in 1..Len(s) : x = s[i]
    BY <1>7
  <2>2. CASE i <= n
    BY <1>2, <1>7, <2>1, <2>2
  <2>3. CASE i > n
    <3>1. i - n \in 1..Len(s) - n /\ n + (i - n) = i
      BY <1>1, <2>3
    <3> QED BY <1>4, <1>7, <2>1, <3>1
  <2> QED BY <1>1, <2>2, <2>3
<1>9. Contents(b) \subseteq Contents(s)
  BY <1>1, <1>2, <1>7
<1>10. \A i \in 1..Len(s) - n : n + i \in 1..Len(s)
  BY <1>1
<1>11. Contents(r) \subseteq Contents(s)
  BY <1>4, <1>7, <1>10
<1>12. \A i \in 1..n, j \in 1..Len(s) - n : b[i] # r[j]
  <2> TAKE i \in 1..n, j \in 1..Len(s) - n
  <2>1. i \in 1..Len(s) /\ n + j \in 1..Len(s) /\ i < n + j
    BY <1>1
  <2>2. s[i] < s[n + j] /\ s[i] \in 1..N /\ s[n + j] \in 1..N
    BY <1>1, <2>1 DEF Ordered
  <2> QED BY <1>2, <1>4, <2>2
<1>13. Contents(b) \cap Contents(r) = {}
  BY <1>7, <1>12
<1> QED BY <1>2, <1>3, <1>5, <1>6, <1>8, <1>9, <1>11, <1>13 DEF b, r

LEMMA SubsetsFinite ==
    ASSUME TypeOK
    PROVE  /\ IsFiniteSet(evicted) /\ IsFiniteSet(lost)
           /\ Cardinality(evicted) \in Nat /\ Cardinality(lost) \in Nat
<1>1. IsFiniteSet(1..MaxChunks)
  BY ClientAssumption, FS_Interval
<1> QED BY <1>1, FS_Subset, FS_CardinalityType DEF TypeOK

LEMMA OrderedBuffer ==
    ASSUME TypeOK, BufferInOrder
    PROVE  Ordered(buffer)
BY ContentsOfSeq DEF TypeOK, BufferInOrder, Ordered

-----------------------------------------------------------------------------
LEMMA PlacesInit == Init => Places
<1> SUFFICES ASSUME Init PROVE Places
  OBVIOUS
<1>1. buffer = <<>> /\ sent = <<>> /\ evicted = {} /\ lost = {} /\ produced = 0
  BY DEF Init
<1>2. Contents(<<>>) = {} /\ Len(<<>>) = 0
  BY DEF Contents
<1>3. BufferInOrder
  BY <1>1, <1>2, ClientAssumption DEF BufferInOrder
<1> QED
  BY <1>1, <1>2, <1>3, FS_EmptySet DEF Places, AtMostOnce, WaitsOnce

(* A batch moves from the buffer to the socket or into the void.            *)
LEMMA FlushPlaces ==
    ASSUME TypeOK, Places, NEW reaches \in BOOLEAN, NEW waiting \in Nat,
           FlushBatch(reaches, waiting), UNCHANGED <<produced, evicted>>
    PROVE  Places'
<1> DEFINE n == MinOf(Len(buffer), DrainYieldEvery)
           b == SubSeq(buffer, 1, n)
           r == SubSeq(buffer, n + 1, Len(buffer))
<1>1. n \in 0..Len(buffer) /\ Len(buffer) \in Nat /\ Len(sent) \in Nat
  BY ClientAssumption DEF MinOf, TypeOK
<1>2. /\ buffer \in Seq(1..MaxChunks) /\ sent \in Seq(1..MaxChunks)
      /\ produced \in Nat /\ MaxChunks \in Nat
  BY ClientAssumption DEF TypeOK
<1>3. /\ buffer' = r
      /\ sent' = IF reaches THEN sent \o b ELSE sent
      /\ lost' = IF reaches THEN lost ELSE lost \cup Contents(b)
  BY DEF FlushBatch
<1>4. /\ b \in Seq(1..MaxChunks) /\ r \in Seq(1..MaxChunks)
      /\ Len(b) = n /\ Len(r) = Len(buffer) - n
      /\ Ordered(b) /\ Ordered(r)
      /\ Contents(buffer) = Contents(b) \cup Contents(r)
      /\ Contents(b) \cap Contents(r) = {}
  <2>1. Ordered(buffer)
    BY OrderedBuffer DEF Places
  <2> HIDE DEF n
  <2> QED BY <1>1, <1>2, <2>1, OrderedSplit
<1> HIDE DEF n, b, r
<1>5. BufferInOrder'
  <2>1. Len(r) <= MaxBuffered
    BY <1>1, <1>4, ClientAssumption DEF Places, BufferInOrder
  <2>2. DOMAIN r = 1..Len(r)
    BY <1>4, ContentsOfSeq
  <2> QED BY <1>3, <1>4, <2>1, <2>2 DEF BufferInOrder, Ordered
<1>6. /\ Contents(b) \cup Contents(r) \cup Contents(sent) \cup evicted \cup lost
            = 1..produced
      /\ Len(buffer) + Len(sent) + Cardinality(evicted) + Cardinality(lost) = produced
      /\ (Contents(b) \cup Contents(r)) \cap (evicted \cup lost) = {}
  BY <1>4 DEF Places, AtMostOnce, WaitsOnce
<1>7. /\ IsFiniteSet(lost) /\ Cardinality(evicted) \in Nat /\ Cardinality(lost) \in Nat
  BY SubsetsFinite
<1>8. CASE reaches
  <2>1. sent' = sent \o b /\ lost' = lost
    BY <1>3, <1>8
  <2>2. Len(sent \o b) = Len(sent) + n /\ Contents(sent \o b) = Contents(sent) \cup Contents(b)
    <3>1. sent \in Seq(1..MaxChunks) /\ b \in Seq(1..MaxChunks)
      BY <1>2, <1>4
    <3>2. /\ Len(sent \o b) = Len(sent) + Len(b)
          /\ Contents(sent \o b) = Contents(sent) \cup Contents(b)
      BY <3>1, ContentsConcat
    <3> QED BY <1>4, <3>2
  <2>3. AtMostOnce'
    <3>1. Contents(r) \cup Contents(sent \o b) \cup evicted \cup lost = 1..produced
      BY <1>6, <2>2
    <3>2. Len(r) + Len(sent \o b) + Cardinality(evicted) + Cardinality(lost) = produced
      BY <1>1, <1>2, <1>4, <1>6, <1>7, <2>2
    <3> QED BY <1>3, <2>1, <3>1, <3>2 DEF AtMostOnce
  <2>4. WaitsOnce'
    BY <1>3, <1>6, <2>1 DEF WaitsOnce
  <2> QED BY <1>5, <2>3, <2>4 DEF Places
<1>9. CASE ~reaches
  <2>1. sent' = sent /\ lost' = lost \cup Contents(b)
    BY <1>3, <1>9
  <2>2. IsFiniteSet(Contents(b)) /\ Cardinality(Contents(b)) = n
    <3>1. b \in Seq(Nat)
      BY <1>4, <1>2, ElementOfSeq
    <3> QED BY <1>4, <3>1, OrderedCount
  <2>3. lost \cap Contents(b) = {}
    BY <1>6
  <2>4. Cardinality(lost \cup Contents(b)) = Cardinality(lost) + n
    <3>1. Cardinality(lost \cup Contents(b)) = Cardinality(lost)
            + Cardinality(Contents(b)) - Cardinality(lost \cap Contents(b))
      BY <1>7, <2>2, FS_Union
    <3>2. Cardinality(lost \cap Contents(b)) = 0
      BY <2>3, FS_EmptySet
    <3> QED BY <1>1, <1>7, <2>2, <3>1, <3>2
  <2>5. AtMostOnce'
    <3>1. Contents(r) \cup Contents(sent) \cup evicted \cup (lost \cup Contents(b))
            = 1..produced
      BY <1>6
    <3>2. Len(r) + Len(sent) + Cardinality(evicted) + Cardinality(lost \cup Contents(b))
            = produced
      BY <1>1, <1>2, <1>4, <1>6, <1>7, <2>4
    <3> QED BY <1>3, <2>1, <3>1, <3>2 DEF AtMostOnce
  <2>6. WaitsOnce'
    BY <1>3, <1>4, <1>6, <2>1 DEF WaitsOnce
  <2> QED BY <1>5, <2>5, <2>6 DEF Places
<1> QED BY <1>8, <1>9

(* A new chunk is appended; at capacity the oldest makes room.              *)
LEMMA PushPlaces ==
    ASSUME TypeOK, Places, produced < MaxChunks, PushChunk(produced + 1),
           produced' = produced + 1, UNCHANGED <<sent, lost>>
    PROVE  Places'
<1> DEFINE c == produced + 1
<1>1. /\ buffer \in Seq(1..MaxChunks) /\ produced \in Nat /\ c \in 1..MaxChunks
      /\ Len(buffer) \in Nat /\ Len(sent) \in Nat /\ MaxBuffered \in Nat \ {0}
      /\ MaxChunks \in Nat
  BY ClientAssumption DEF TypeOK
<1>2. /\ Contents(buffer) \cup Contents(sent) \cup evicted \cup lost = 1..produced
      /\ Len(buffer) + Len(sent) + Cardinality(evicted) + Cardinality(lost) = produced
      /\ Contents(buffer) \cap (evicted \cup lost) = {}
      /\ Len(buffer) <= MaxBuffered
  BY DEF Places, AtMostOnce, WaitsOnce, BufferInOrder
<1>3. c \notin 1..produced /\ 1..c = 1..produced \cup {c}
  BY <1>1
<1>8. produced' = c /\ sent' = sent /\ lost' = lost
  BY DEF c
<1>11. c = produced + 1
  BY DEF c
<1> HIDE DEF c
<1>4. Ordered(buffer)
  BY OrderedBuffer DEF Places
<1>5. /\ IsFiniteSet(evicted) /\ Cardinality(evicted) \in Nat /\ Cardinality(lost) \in Nat
  BY SubsetsFinite
<1>6. ASSUME NEW s \in Seq(1..MaxChunks), Ordered(s), Contents(s) \subseteq 1..produced
      PROVE  Ordered(Append(s, c))
  <2>1. \A i \in 1..Len(s) : s[i] \in 1..produced
    BY <1>6, ContentsOfSeq
  <2>2. /\ Len(Append(s, c)) = Len(s) + 1 /\ Append(s, c)[Len(s) + 1] = c
        /\ \A i \in 1..Len(s) : Append(s, c)[i] = s[i]
        /\ Len(s) \in Nat
    OBVIOUS
  <2> SUFFICES ASSUME NEW i \in 1..Len(s) + 1, NEW j \in 1..Len(s) + 1, i < j
               PROVE  Append(s, c)[i] < Append(s, c)[j]
    BY <2>2 DEF Ordered
  <2>3. i \in 1..Len(s) /\ s[i] \in 1..produced /\ Append(s, c)[i] = s[i]
    BY <2>1, <2>2
  <2>4. CASE j = Len(s) + 1
    BY <1>1, <1>11, <2>2, <2>3, <2>4
  <2>5. CASE j # Len(s) + 1
    <3>1. j \in 1..Len(s) /\ Append(s, c)[j] = s[j]
      BY <2>2, <2>5
    <3> QED BY <1>6, <2>3, <3>1 DEF Ordered
  <2> QED BY <2>4, <2>5
<1>7. ASSUME NEW s \in Seq(1..MaxChunks), buffer' = Append(s, c), Ordered(s),
             Contents(s) \subseteq 1..produced, Len(s) < MaxBuffered
      PROVE  /\ BufferInOrder' /\ Len(buffer') = Len(s) + 1
             /\ Contents(buffer') = Contents(s) \cup {c}
  <2>1. /\ Append(s, c) \in Seq(1..MaxChunks) /\ Len(Append(s, c)) = Len(s) + 1
        /\ Contents(Append(s, c)) = Contents(s) \cup {c}
    BY <1>1, ContentsAppend
  <2>2. Len(s) \in Nat
    OBVIOUS
  <2>3. /\ Len(buffer') = Len(s) + 1 /\ Contents(buffer') = Contents(s) \cup {c}
        /\ buffer' \in Seq(1..MaxChunks) /\ Len(s) \in Nat
    <3>1. buffer' = Append(s, c)
      BY <1>7
    <3>2. Contents(buffer') = Contents(Append(s, c))
      BY <3>1 DEF Contents
    <3> QED BY <2>1, <2>2, <3>1, <3>2
  <2>4. Ordered(buffer') /\ DOMAIN buffer' = 1..Len(buffer')
    BY <1>6, <1>7, <2>3, ContentsOfSeq
  <2> QED BY <1>1, <1>7, <2>3, <2>4 DEF BufferInOrder, Ordered
<1>9. CASE Len(buffer) = MaxBuffered
  <2> DEFINE b == SubSeq(buffer, 1, 1)
             r == SubSeq(buffer, 1 + 1, Len(buffer))
  <2>1. buffer' = Append(Tail(buffer), c) /\ evicted' = evicted \cup {Head(buffer)}
    BY <1>9 DEF PushChunk, c
  <2>2. /\ r \in Seq(1..MaxChunks) /\ b \in Seq(1..MaxChunks) /\ Len(b) = 1
        /\ Len(r) = Len(buffer) - 1
        /\ Ordered(r) /\ Contents(buffer) = Contents(b) \cup Contents(r)
        /\ Contents(b) \cap Contents(r) = {}
    <3>1. \A n \in 0..Len(buffer) :
             LET p == SubSeq(buffer, 1, n)
                 q == SubSeq(buffer, n + 1, Len(buffer))
             IN  /\ p \in Seq(1..MaxChunks) /\ q \in Seq(1..MaxChunks)
                 /\ Len(p) = n /\ Len(q) = Len(buffer) - n /\ Ordered(q)
                 /\ Contents(buffer) = Contents(p) \cup Contents(q)
                 /\ Contents(p) \cap Contents(q) = {}
      BY <1>1, <1>4, OrderedSplit
    <3>2. 1 \in 0..Len(buffer)
      BY <1>1, <1>9
    <3> QED BY <3>1, <3>2
  <2>10. /\ b[1] = buffer[1] /\ Head(buffer) = buffer[1] /\ Tail(buffer) = r
    BY <1>1, <1>9
  <2> HIDE DEF b, r
  <2>3. Tail(buffer) = r /\ Contents(b) = {Head(buffer)}
    <3>1. Contents(b) = {b[i] : i \in 1..Len(b)}
      BY <2>2, ContentsOfSeq
    <3>2. 1..Len(b) = {1}
      BY <2>2
    <3>3. Contents(b) = {b[1]}
      BY <3>1, <3>2
    <3> QED BY <2>10, <3>3
  <2>4. Contents(r) \subseteq 1..produced /\ Len(r) < MaxBuffered
    BY <1>1, <1>2, <1>9, <2>2
  <2>5. /\ BufferInOrder' /\ Len(buffer') = Len(buffer)
        /\ Contents(buffer') = Contents(r) \cup {c}
    <3>1. buffer' = Append(r, c) /\ r \in Seq(1..MaxChunks) /\ Ordered(r)
      BY <2>1, <2>2, <2>3
    <3>2. /\ BufferInOrder' /\ Len(buffer') = Len(r) + 1
          /\ Contents(buffer') = Contents(r) \cup {c}
      BY <1>7, <2>4, <3>1
    <3> QED BY <1>1, <2>2, <3>2
  <2>6. Head(buffer) \notin evicted /\ Head(buffer) \in Contents(buffer)
    BY <1>2, <2>2, <2>3
  <2>7. Cardinality(evicted') = Cardinality(evicted) + 1
    BY <1>5, <2>1, <2>6, FS_AddElement
  <2>8. AtMostOnce'
    <3>1. Contents(buffer') \cup Contents(sent) \cup evicted' \cup lost
            = 1..produced \cup {c}
      BY <1>2, <2>1, <2>2, <2>3, <2>5
    <3>2. Len(buffer') + Len(sent) + Cardinality(evicted') + Cardinality(lost) = c
      BY <1>1, <1>2, <1>5, <2>5, <2>7 DEF c
    <3> QED BY <1>3, <1>8, <3>1, <3>2 DEF AtMostOnce
  <2>9. WaitsOnce'
    BY <1>2, <1>3, <1>8, <2>1, <2>2, <2>3, <2>5 DEF WaitsOnce
  <2> QED BY <2>5, <2>8, <2>9 DEF Places
<1>10. CASE Len(buffer) # MaxBuffered
  <2>1. buffer' = Append(buffer, c) /\ evicted' = evicted
    BY <1>10 DEF PushChunk, c
  <2>2. Contents(buffer) \subseteq 1..produced /\ Len(buffer) < MaxBuffered
    BY <1>1, <1>2, <1>10
  <2>3. /\ BufferInOrder' /\ Len(buffer') = Len(buffer) + 1
        /\ Contents(buffer') = Contents(buffer) \cup {c}
    BY <1>1, <1>4, <1>7, <2>1, <2>2
  <2>4. AtMostOnce'
    <3>1. Contents(buffer') \cup Contents(sent) \cup evicted' \cup lost
            = 1..produced \cup {c}
      BY <1>2, <2>1, <2>3
    <3>2. Len(buffer') + Len(sent) + Cardinality(evicted') + Cardinality(lost) = c
      BY <1>1, <1>2, <1>5, <2>1, <2>3 DEF c
    <3> QED BY <1>3, <1>8, <3>1, <3>2 DEF AtMostOnce
  <2>5. WaitsOnce'
    BY <1>2, <1>3, <1>8, <2>1, <2>3 DEF WaitsOnce
  <2> QED BY <2>3, <2>4, <2>5 DEF Places
<1> QED BY <1>9, <1>10

LEMMA SendPlaces ==
    ASSUME TypeOK, Places, Send
    PROVE  Places'
<1> DEFINE c == produced + 1
<1>1. /\ produced < MaxChunks /\ produced' = c
      /\ \/ lost' = lost \cup {c} /\ UNCHANGED <<buffer, sent, evicted>>
         \/ sent' = Append(sent, c) /\ UNCHANGED <<buffer, evicted, lost>>
         \/ PushChunk(c) /\ UNCHANGED <<sent, lost>>
  BY DEF Send
<1>2. /\ produced \in Nat /\ c \in 1..MaxChunks /\ Len(buffer) \in Nat
      /\ sent \in Seq(1..MaxChunks) /\ Len(sent) \in Nat
      /\ IsFiniteSet(lost) /\ Cardinality(evicted) \in Nat /\ Cardinality(lost) \in Nat
  BY <1>1, SubsetsFinite, ClientAssumption DEF TypeOK
<1>3. c \notin 1..produced /\ 1..c = 1..produced \cup {c}
  BY <1>2
<1>4. /\ Contents(buffer) \cup Contents(sent) \cup evicted \cup lost = 1..produced
      /\ Len(buffer) + Len(sent) + Cardinality(evicted) + Cardinality(lost) = produced
      /\ Contents(buffer) \cap (evicted \cup lost) = {}
  BY DEF Places, AtMostOnce, WaitsOnce
<1>5. CASE PushChunk(c) /\ UNCHANGED <<sent, lost>>
  BY <1>1, <1>5, PushPlaces
<1>6. CASE lost' = lost \cup {c} /\ UNCHANGED <<buffer, sent, evicted>>
  <2>1. Cardinality(lost \cup {c}) = Cardinality(lost) + 1
    BY <1>2, <1>3, <1>4, FS_AddElement
  <2>2. AtMostOnce'
    <3>1. Contents(buffer) \cup Contents(sent) \cup evicted \cup (lost \cup {c})
            = 1..produced \cup {c}
      BY <1>4
    <3>2. Len(buffer) + Len(sent) + Cardinality(evicted) + Cardinality(lost \cup {c}) = c
      BY <1>2, <1>4, <2>1
    <3> QED BY <1>1, <1>3, <1>6, <3>1, <3>2 DEF AtMostOnce
  <2>3. WaitsOnce' /\ BufferInOrder'
    BY <1>3, <1>4, <1>6 DEF WaitsOnce, Places, BufferInOrder
  <2> QED BY <2>2, <2>3 DEF Places
<1>7. CASE sent' = Append(sent, c) /\ UNCHANGED <<buffer, evicted, lost>>
  <2>1. Len(sent') = Len(sent) + 1 /\ Contents(sent') = Contents(sent) \cup {c}
    BY <1>2, <1>7, ContentsAppend
  <2>2. AtMostOnce'
    <3>1. Contents(buffer) \cup Contents(sent') \cup evicted \cup lost = 1..produced \cup {c}
      BY <1>4, <2>1
    <3>2. Len(buffer) + Len(sent') + Cardinality(evicted) + Cardinality(lost) = c
      BY <1>2, <1>4, <2>1
    <3> QED BY <1>1, <1>3, <1>7, <3>1, <3>2 DEF AtMostOnce
  <2>3. WaitsOnce' /\ BufferInOrder'
    BY <1>7 DEF WaitsOnce, Places, BufferInOrder
  <2> QED BY <2>2, <2>3 DEF Places
<1> QED BY <1>1, <1>5, <1>6, <1>7

LEMMA PlacesUnchanged ==
    ASSUME Places, UNCHANGED audioVars
    PROVE  Places'
BY DEF Places, AtMostOnce, BufferInOrder, WaitsOnce, audioVars

LEMMA PlacesNext == TypeOK /\ Places /\ [Next]_vars => Places'
<1> SUFFICES ASSUME TypeOK, Places, [Next]_vars PROVE Places'
  OBVIOUS
<1>1. CASE FireRetryTimer \/ TokenResolved \/ PeerCloses \/ SocketClosed \/ Close \/ Tick
  BY <1>1, PlacesUnchanged
  DEF FireRetryTimer, TokenResolved, PeerCloses, SocketClosed, Close, Tick
<1>2. CASE SocketOpened
  BY <1>2, FlushPlaces DEF SocketOpened, TypeOK
<1>3. CASE FlushTimer
  <2>1. flushers - 1 \in Nat /\ (sock = "open") \in BOOLEAN
    BY <1>3 DEF FlushTimer, TypeOK
  <2>2. /\ FlushBatch(sock = "open", flushers - 1)
        /\ UNCHANGED <<produced, evicted>>
    BY <1>3 DEF FlushTimer
  <2> QED BY <2>1, <2>2, FlushPlaces
<1>4. CASE Send
  BY <1>4, SendPlaces
<1>5. CASE UNCHANGED vars
  BY <1>5, PlacesUnchanged DEF vars
<1> QED BY <1>1, <1>2, <1>3, <1>4, <1>5 DEF Next

LEMMA SpecPlaces == Spec => []Places
<1>1. Inv => TypeOK
  BY DEF Inv
<1> QED BY PlacesInit, PlacesNext, SpecInv, <1>1, PTL DEF Spec

(* A chunk handed to send() is in one place only, and written to a socket   *)
(* at most once, for every buffer, batch size and interleaving of drains,   *)
(* overflows and reconnects.                                                *)
THEOREM DeliveredAtMostOnce == Spec => []AtMostOnce
<1>1. Places => AtMostOnce
  BY DEF Places
<1> QED BY SpecPlaces, <1>1, PTL

(* The buffer holds the chunks in the order of the microphone, within its   *)
(* capacity.                                                                *)
THEOREM BufferStaysInOrder == Spec => []BufferInOrder
<1>1. Places => BufferInOrder
  BY DEF Places
<1> QED BY SpecPlaces, <1>1, PTL

-----------------------------------------------------------------------------
(* The client implements the abstract uplink.                               *)

(* The mode follows the phase, and the socket is open in phase open only.   *)
LEMMA ModeOfPhase ==
    ASSUME TypeOK
    PROVE  /\ phase = "open" <=> Mode = "open"
           /\ phase \in {"connecting", "reconnecting"} <=> Mode = "holding"
           /\ phase \in {"idle", "failed"} <=> Mode = "closed"
BY DEF TypeOK, Phases, Mode

LEMMA ModeOfPhaseNext ==
    ASSUME TypeOK'
    PROVE  /\ phase' = "open" <=> Mode' = "open"
           /\ phase' \in {"connecting", "reconnecting"} <=> Mode' = "holding"
           /\ phase' \in {"idle", "failed"} <=> Mode' = "closed"
BY DEF TypeOK, Phases, Mode

LEMMA OpenSocketOpenPhase == Inv /\ sock = "open" => phase = "open"
BY DEF Inv, NeverWedged, TypeOK, Phases

(* A batch of the drain is the oldest part of what is held.                 *)
LEMMA BatchIsOldest ==
    ASSUME TypeOK, NEW reaches \in BOOLEAN, NEW waiting \in Nat,
           FlushBatch(reaches, waiting), UNCHANGED <<produced, evicted>>
    PROVE  \E n \in 0..Len(buffer) :
             /\ Uplink!Take(n)
             /\ sent' = IF reaches THEN sent \o Uplink!Oldest(n) ELSE sent
             /\ lost' = IF reaches THEN lost
                        ELSE lost \cup {Uplink!Oldest(n)[i] : i \in 1..n}
<1> DEFINE n == MinOf(Len(buffer), DrainYieldEvery)
           batch == SubSeq(buffer, 1, n)
<1>1. n \in 0..Len(buffer) /\ Len(buffer) \in Nat
  BY ClientAssumption DEF MinOf, TypeOK
<1>2. \A i \in 1..Len(buffer) : buffer[i] \in 1..MaxChunks
  BY ElementOfSeq DEF TypeOK
<1>3. batch \in Seq(1..MaxChunks) /\ Len(batch) = n
  BY <1>1, <1>2, SubSeqProperties
<1>4. /\ buffer' = SubSeq(buffer, n + 1, Len(buffer))
      /\ sent' = IF reaches THEN sent \o batch ELSE sent
      /\ lost' = IF reaches THEN lost ELSE lost \cup Contents(batch)
  BY DEF FlushBatch
<1>5. Uplink!Oldest(n) = batch
  BY DEF Uplink!Oldest
<1> HIDE DEF n, batch
<1>6. Contents(batch) = {batch[i] : i \in 1..n}
  BY <1>3, ContentsOfSeq
<1>7. Uplink!Take(n)
  BY <1>4 DEF Uplink!Take
<1> QED BY <1>1, <1>4, <1>5, <1>6, <1>7

LEMMA SendOffers == ASSUME Inv, Places, Send PROVE Uplink!Offer
<1> DEFINE c == produced + 1
<1>1. produced < MaxChunks /\ produced' = c /\ phase' = phase
  BY DEF Send, connVars
<1>2. Mode' = Mode /\ TypeOK
  BY <1>1 DEF Mode, Inv
<1>3. Uplink!Hold(c) \/ Uplink!Pass(c) \/ Uplink!Lose(c)
  <2>1. CASE phase \in {"connecting", "reconnecting"}
    <3>1. PushChunk(c) /\ UNCHANGED <<sent, lost>>
      BY <2>1 DEF Send
    <3>2. Len(buffer) <= MaxBuffered /\ Len(buffer) \in Nat /\ Mode = "holding"
      BY <1>2, <2>1, ModeOfPhase DEF Places, BufferInOrder, TypeOK
    <3> HIDE DEF c
    <3>3. \/ Len(buffer) = MaxBuffered /\ buffer' = Append(Tail(buffer), c)
             /\ evicted' = evicted \cup {Head(buffer)}
          \/ Len(buffer) < MaxBuffered /\ buffer' = Append(buffer, c)
             /\ evicted' = evicted
      BY <3>1, <3>2, ClientAssumption DEF PushChunk
    <3> QED BY <3>1, <3>2, <3>3 DEF Uplink!Hold
  <2>2. CASE phase = "open" /\ sent' = Append(sent, c) /\ UNCHANGED <<buffer, evicted, lost>>
    BY <1>2, <2>2, ModeOfPhase DEF Uplink!Pass
  <2>3. CASE /\ phase \notin {"connecting", "reconnecting"}
             /\ lost' = lost \cup {c} /\ UNCHANGED <<buffer, sent, evicted>>
    BY <1>2, <2>3, ModeOfPhase DEF Uplink!Lose
  <2> QED BY <2>1, <2>2, <2>3 DEF Send
<1> QED BY <1>1, <1>2, <1>3 DEF Uplink!Offer

LEMMA OpensDelivers == ASSUME Inv, Inv', SocketOpened PROVE Uplink!Deliver
<1>1. /\ phase = "connecting" /\ phase' = "open" /\ FlushBatch(TRUE, flushers)
      /\ UNCHANGED <<produced, evicted>> /\ flushers \in Nat /\ TypeOK
  BY DEF SocketOpened, Inv, NeverWedged, TypeOK, Phases
<1>2. Mode = "holding" /\ Mode' = "open"
  BY <1>1 DEF Mode
<1>3. PICK n \in 0..Len(buffer) :
         Uplink!Take(n) /\ sent' = sent \o Uplink!Oldest(n) /\ lost' = lost
  BY <1>1, BatchIsOldest
<1> QED BY <1>2, <1>3 DEF Uplink!Deliver

LEMMA DrainDeliversOrDiscards ==
    ASSUME Inv, FlushTimer PROVE Uplink!Deliver \/ Uplink!Discard
<1>1. /\ FlushBatch(sock = "open", flushers - 1) /\ flushers - 1 \in Nat
      /\ (sock = "open") \in BOOLEAN /\ phase' = phase
      /\ UNCHANGED <<produced, evicted>> /\ TypeOK
  BY DEF FlushTimer, Inv, TypeOK, connVars
<1>2. Mode' = Mode
  BY <1>1 DEF Mode
<1>3. PICK n \in 0..Len(buffer) :
         /\ Uplink!Take(n)
         /\ sent' = IF sock = "open" THEN sent \o Uplink!Oldest(n) ELSE sent
         /\ lost' = IF sock = "open" THEN lost
                    ELSE lost \cup {Uplink!Oldest(n)[i] : i \in 1..n}
  BY <1>1, BatchIsOldest
<1>4. CASE sock = "open"
  <2>1. Mode = "open"
    BY <1>4, OpenSocketOpenPhase DEF Mode
  <2> QED BY <1>2, <1>3, <1>4, <2>1 DEF Uplink!Deliver
<1>5. CASE sock # "open"
  BY <1>2, <1>3, <1>5 DEF Uplink!Discard
<1> QED BY <1>4, <1>5

(* The tasks that move no audio: the mode stays, or the connection is lost  *)
(* or given up.  None of them revives a client that is closed.              *)
LEMMA PhaseChanges ==
    ASSUME Inv, Inv', UNCHANGED audioVars,
           phase \in {"idle", "failed"} => phase' \in {"idle", "failed"},
           phase \in {"connecting", "reconnecting"} => phase' # "open"
    PROVE  [Uplink!UplinkNext]_(Uplink!uplinkVars)
<1>1. /\ Mode \in {"open", "holding", "closed"} /\ Mode' \in {"open", "holding", "closed"}
      /\ Mode = "closed" => Mode' = "closed"
      /\ Mode = "holding" => Mode' # "open"
  <2>1. TypeOK /\ TypeOK'
    BY DEF Inv
  <2>2. /\ phase \in {"open", "connecting", "reconnecting", "idle", "failed"}
        /\ phase' \in {"open", "connecting", "reconnecting", "idle", "failed"}
    BY <2>1 DEF TypeOK, Phases
  <2> QED BY <2>1, <2>2, ModeOfPhase, ModeOfPhaseNext
<1>2. UNCHANGED <<produced, buffer, sent, evicted, lost>>
  BY DEF audioVars
<1>3. CASE Mode' = Mode
  BY <1>2, <1>3 DEF Uplink!uplinkVars
<1>4. CASE Mode' # Mode
  BY <1>1, <1>2, <1>4 DEF Uplink!UplinkNext, Uplink!Disconnect, Uplink!Finish
<1> QED BY <1>3, <1>4

(* Each behaviour of the reconnecting client, with its sockets, tokens,     *)
(* timers, backoff and batched drains, is a behaviour of the uplink it      *)
(* promises: nothing is sent twice, nothing overtakes within the buffer,    *)
(* and nothing is sent after close() or after the budget has lapsed.        *)
THEOREM ClientImplementsUplink == Spec => ImplementsUplink
<1>1. Init => Uplink!UplinkInit
  BY DEF Init, Mode, Uplink!UplinkInit
<1>2. Inv /\ Places /\ Inv' /\ [Next]_vars => [Uplink!UplinkNext]_(Uplink!uplinkVars)
  <2> SUFFICES ASSUME Inv, Places, Inv', [Next]_vars
               PROVE  [Uplink!UplinkNext]_(Uplink!uplinkVars)
    OBVIOUS
  <2>1. CASE Send
    BY <2>1, SendOffers DEF Uplink!UplinkNext
  <2>2. CASE SocketOpened
    BY <2>2, OpensDelivers DEF Uplink!UplinkNext
  <2>3. CASE FlushTimer
    BY <2>3, DrainDeliversOrDiscards DEF Uplink!UplinkNext
  <2>4. CASE FireRetryTimer
    BY <2>4, PhaseChanges DEF FireRetryTimer, Inv, NeverWedged, Null
  <2>5. CASE TokenResolved \/ PeerCloses \/ Tick
    BY <2>5, PhaseChanges DEF TokenResolved, PeerCloses, Tick
  <2>6. CASE SocketClosed
    <3>1. phase' \in {"idle", "failed", "reconnecting"}
      BY <2>6 DEF SocketClosed, ScheduleNextAttempt
    <3>2. phase \in {"idle", "failed"} => userClosed
      BY <2>6 DEF SocketClosed, Inv, NeverWedged
    <3>3. userClosed => phase' = "idle"
      BY <2>6 DEF SocketClosed
    <3> QED BY <2>6, <3>1, <3>2, <3>3, PhaseChanges DEF SocketClosed
  <2>7. CASE Close
    BY <2>7, PhaseChanges DEF Close
  <2>8. CASE UNCHANGED vars
    <3>1. UNCHANGED audioVars /\ phase' = phase
      BY <2>8 DEF vars, connVars
    <3> QED BY <3>1, PhaseChanges
  <2> QED BY <2>1, <2>2, <2>3, <2>4, <2>5, <2>6, <2>7, <2>8 DEF Next
<1> QED BY <1>1, <1>2, SpecInv, SpecPlaces, PTL
        DEF Spec, ImplementsUplink, Uplink!UplinkSpec

-----------------------------------------------------------------------------
(* The circular array.                                                     *)

(* The inductive invariant. *)
BufferInv == BufferTypeOK /\ Consistent

(* Indices never run past two laps, so % is one conditional subtraction.    *)
Wrap(a) == IF a < Capacity THEN a ELSE a - Capacity

LEMMA WrapLemma ==
    ASSUME NEW a \in Nat, a < Capacity + Capacity
    PROVE  a % Capacity = Wrap(a) /\ Wrap(a) \in Slots
BY CapacityAssumption DEF Wrap, Slots

LEMMA WrapZero ==
    ASSUME NEW a \in Slots
    PROVE  Wrap(a + 0) = a
BY CapacityAssumption DEF Wrap, Slots

LEMMA AdvanceLemma ==
    ASSUME NEW a \in Slots
    PROVE  Advance(a) = Wrap(a + 1) /\ Advance(a) \in Slots
<1>1. a + 1 \in Nat /\ a + 1 < Capacity + Capacity
  BY CapacityAssumption DEF Slots
<1> QED BY <1>1, WrapLemma DEF Advance

(* The slot of the i-th item, without %.                                    *)
LEMMA SlotOfLemma ==
    ASSUME BufferTypeOK, NEW i \in 1..Capacity
    PROVE  SlotOf(i) = Wrap(head + i - 1) /\ SlotOf(i) \in Slots
<1>1. head + i - 1 \in Nat /\ head + i - 1 < Capacity + Capacity
  BY CapacityAssumption DEF Slots, BufferTypeOK
<1> QED BY <1>1, WrapLemma DEF SlotOf

(* Every slot is the slot of exactly one position.                          *)
Position(j) == IF j >= head THEN j - head + 1 ELSE j - head + 1 + Capacity

LEMMA PositionLemma ==
    ASSUME BufferTypeOK, NEW j \in Slots
    PROVE  /\ Position(j) \in 1..Capacity
           /\ SlotOf(Position(j)) = j
           /\ \A i \in 1..Capacity : SlotOf(i) = j => i = Position(j)
<1>1. Position(j) \in 1..Capacity
  BY CapacityAssumption DEF Position, Slots, BufferTypeOK
<1>2. SlotOf(Position(j)) = j
  BY <1>1, SlotOfLemma, CapacityAssumption DEF Position, Wrap, Slots, BufferTypeOK
<1>3. \A i \in 1..Capacity : SlotOf(i) = j => i = Position(j)
  BY SlotOfLemma, CapacityAssumption DEF Position, Wrap, Slots, BufferTypeOK
<1> QED BY <1>1, <1>2, <1>3

(* Consistent, read slot by slot instead of position by position.           *)
Occupied ==
    /\ tail = Wrap(head + size)
    /\ \A j \in Slots : slots[j] # Undefined <=> Position(j) <= size

LEMMA OccupiedLemma == BufferTypeOK => (Consistent <=> Occupied)
<1> SUFFICES ASSUME BufferTypeOK PROVE Consistent <=> Occupied
  OBVIOUS
<1>1. (head + size) % Capacity = Wrap(head + size)
  <2>1. head + size \in Nat /\ head + size < Capacity + Capacity
    BY CapacityAssumption DEF BufferTypeOK, Slots
  <2> QED BY <2>1, WrapLemma
<1>2. (\A i \in 1..Capacity : slots[SlotOf(i)] # Undefined <=> i <= size)
      <=> (\A j \in Slots : slots[j] # Undefined <=> Position(j) <= size)
  <2>1. ASSUME \A i \in 1..Capacity : slots[SlotOf(i)] # Undefined <=> i <= size,
               NEW j \in Slots
        PROVE  slots[j] # Undefined <=> Position(j) <= size
    BY <2>1, PositionLemma
  <2>2. ASSUME \A j \in Slots : slots[j] # Undefined <=> Position(j) <= size,
               NEW i \in 1..Capacity
        PROVE  slots[SlotOf(i)] # Undefined <=> i <= size
    <3>1. SlotOf(i) \in Slots
      BY SlotOfLemma
    <3>2. Position(SlotOf(i)) = i
      BY <3>1, PositionLemma
    <3> QED BY <2>2, <3>1, <3>2
  <2> QED BY <2>1, <2>2
<1> QED BY <1>1, <1>2 DEF Consistent, Occupied

-----------------------------------------------------------------------------
(* The same in the next state of a step. *)
LEMMA OccupiedNextLemma == BufferTypeOK' => (Consistent' <=> Occupied')
BY OccupiedLemma, PTL

LEMMA BufferInitInv == BufferInit => BufferInv
<1> SUFFICES ASSUME BufferInit PROVE BufferInv
  OBVIOUS
<1>1. BufferTypeOK
  BY CapacityAssumption DEF BufferInit, BufferTypeOK, Slots
<1>2. Consistent
  BY <1>1, OccupiedLemma, CapacityAssumption
     DEF BufferInit, Slots, Position, Wrap, Occupied
<1> QED BY <1>1, <1>2 DEF BufferInv

LEMMA BufferNextInv == BufferInv /\ [BufferNext]_bufferVars => BufferInv'
<1> SUFFICES ASSUME BufferInv, [BufferNext]_bufferVars PROVE BufferInv'
  OBVIOUS
<1> USE DEF BufferInv
<1>0. /\ tail = Wrap(head + size)
      /\ \A j \in Slots : slots[j] # Undefined <=> Position(j) <= size
  BY OccupiedLemma DEF Occupied
<1>1. ASSUME NEW x \in Items, Push(x) PROVE BufferInv'
  <2>1. BufferTypeOK'
    <3>1. head' \in Slots /\ tail' \in Slots
      BY <1>1, AdvanceLemma DEF Push, BufferTypeOK
    <3>2. size' \in 0..Capacity /\ droppedCount' \in 0..MaxDropped
      BY <1>1, CapacityAssumption DEF Push, BufferTypeOK
    <3>3. /\ slots' \in [Slots -> Items \cup {Undefined}]
          /\ returned' \in Seq(Items \cup {Undefined})
      BY <1>1 DEF Push, BufferTypeOK
    <3> QED BY <3>1, <3>2, <3>3 DEF BufferTypeOK
  <2>2. /\ head' \in Slots
        /\ tail' = Wrap(tail + 1)
        /\ \/ size = Capacity /\ head' = Wrap(head + 1) /\ size' = size
           \/ size < Capacity /\ head' = head /\ size' = size + 1
    BY <1>1, AdvanceLemma, CapacityAssumption DEF Push, BufferTypeOK
  <2>3. tail' = Wrap(head' + size')
    <3>1. head \in 0..(Capacity - 1) /\ size \in 0..Capacity
      BY DEF BufferTypeOK, Slots
    <3>2. tail = Wrap(head + size)
      BY <1>0
    <3> QED BY <2>2, <3>1, <3>2, CapacityAssumption DEF Wrap
  <2>4. ASSUME NEW j \in Slots
        PROVE  slots'[j] # Undefined <=> Position(j)' <= size'
    BY <1>0, <1>1, <2>2, CapacityAssumption, UndefinedAssumption
       DEF Push, BufferTypeOK, Slots, Wrap, Position
  <2> QED BY <2>1, <2>3, <2>4, OccupiedNextLemma DEF Occupied
<1>2. CASE Shift
  <2>1. BufferTypeOK'
    <3>1. returned' \in Seq(Items \cup {Undefined})
      BY <1>2 DEF Shift, BufferTypeOK
    <3> QED BY <1>2, <3>1, AdvanceLemma, CapacityAssumption
            DEF Shift, BufferTypeOK, Slots
  <2>2. head' = Wrap(head + 1)
    BY <1>2, AdvanceLemma DEF Shift, BufferTypeOK
  <2>3. tail' = Wrap(head' + size')
    BY <1>0, <1>2, <2>2, CapacityAssumption DEF Shift, BufferTypeOK, Slots, Wrap
  <2>4. ASSUME NEW j \in Slots
        PROVE  slots'[j] # Undefined <=> Position(j)' <= size'
    BY <1>0, <1>2, <2>2, CapacityAssumption
       DEF Shift, BufferTypeOK, Slots, Wrap, Position
  <2> QED BY <2>1, <2>3, <2>4, OccupiedNextLemma DEF Occupied
<1>3. CASE ShiftEmpty
  <2>1. BufferTypeOK'
    BY <1>3 DEF ShiftEmpty, BufferTypeOK
  <2> QED BY <1>3, <2>1 DEF ShiftEmpty, Consistent, SlotOf
<1>4. CASE Drain
  <2>1. head' = Wrap(head + size) /\ head' \in Slots
    <3>1. head + size \in Nat /\ head + size < Capacity + Capacity
      BY CapacityAssumption DEF BufferTypeOK, Slots
    <3> QED BY <1>4, <3>1, WrapLemma DEF Drain
  <2>2. \A j \in Slots : slots'[j] = Undefined
    <3>1. TAKE j \in Slots
    <3>2. Position(j) <= size => \E k \in 1..size : j = SlotOf(k)
      BY PositionLemma DEF BufferTypeOK
    <3> QED BY <1>0, <1>4, <3>2 DEF Drain
  <2>3. returned' \in Seq(Items \cup {Undefined})
    <3>1. \A i \in 1..size : slots[SlotOf(i)] \in Items \cup {Undefined}
      BY SlotOfLemma, CapacityAssumption DEF BufferTypeOK
    <3> QED BY <1>4, <3>1 DEF Drain, Held, BufferTypeOK
  <2>4. BufferTypeOK'
    BY <1>4, <2>1, <2>3, CapacityAssumption DEF Drain, BufferTypeOK
  <2>5. tail' = Wrap(head' + size')
    <3>1. tail' = head' /\ size' = 0
      BY <1>0, <1>4, <2>1 DEF Drain
    <3>2. Wrap(head' + 0) = head'
      BY <2>1, WrapZero
    <3> QED BY <3>1, <3>2
  <2>6. \A j \in Slots : Position(j)' \in 1..Capacity
    BY <2>1, CapacityAssumption DEF Slots, Position
  <2> QED BY <1>4, <2>2, <2>4, <2>5, <2>6, OccupiedNextLemma
         DEF Drain, Occupied
<1>5. CASE Clear
  <2>1. BufferTypeOK'
    BY <1>5, CapacityAssumption DEF Clear, BufferTypeOK, Slots
  <2>2. /\ tail' = Wrap(head' + size')
        /\ \A j \in Slots : slots'[j] # Undefined <=> Position(j)' <= size'
    BY <1>5, CapacityAssumption DEF Clear, Slots, Wrap, Position
  <2> QED BY <2>1, <2>2, OccupiedNextLemma DEF Occupied
<1>6. CASE UNCHANGED bufferVars
  BY <1>6 DEF bufferVars, BufferTypeOK, Consistent, SlotOf
<1> QED BY <1>1, <1>2, <1>3, <1>4, <1>5, <1>6 DEF BufferNext

(* In every reachable state of a buffer of any capacity the fields have     *)
(* their types (size never exceeds the capacity).                           *)
THEOREM BufferTypeCorrect == BufferSpec => []BufferTypeOK
<1>1. BufferSpec => []BufferInv
  BY BufferInitInv, BufferNextInv, PTL DEF BufferSpec
<1> QED BY <1>1, PTL DEF BufferInv

(* In every reachable state of a buffer of any capacity head, tail, size    *)
(* and the occupied slots agree.                                            *)
THEOREM BufferAlwaysConsistent == BufferSpec => []Consistent
<1>1. BufferSpec => []BufferInv
  BY BufferInitInv, BufferNextInv, PTL DEF BufferSpec
<1> QED BY <1>1, PTL DEF BufferInv

-----------------------------------------------------------------------------
(* Held is a sequence of size items, in the current and in the next state.  *)
HeldIsSeq ==
    /\ Held \in Seq(Items \cup {Undefined})
    /\ Len(Held) = size
    /\ \A i \in 1..size : Held[i] = slots[SlotOf(i)]

LEMMA HeldLemma == BufferTypeOK => HeldIsSeq
<1> SUFFICES ASSUME BufferTypeOK PROVE HeldIsSeq
  OBVIOUS
<1>1. \A i \in 1..size : slots[SlotOf(i)] \in Items \cup {Undefined}
  BY SlotOfLemma, CapacityAssumption DEF BufferTypeOK
<1>2. size \in Nat
  BY CapacityAssumption DEF BufferTypeOK
<1>3. Held \in Seq(Items \cup {Undefined}) /\ Len(Held) = size
  BY <1>1, <1>2 DEF Held
<1> QED BY <1>3 DEF HeldIsSeq, Held

LEMMA HeldNextLemma == BufferTypeOK' => HeldIsSeq'
BY HeldLemma, PTL

(* Slots after the head has moved on by one. *)
LEMMA SlotFromLemma ==
    ASSUME NEW h \in Slots, NEW i \in 1..Capacity
    PROVE  (h + i - 1) % Capacity = Wrap(h + i - 1)
<1>1. h + i - 1 \in Nat /\ h + i - 1 < Capacity + Capacity
  BY CapacityAssumption DEF Slots
<1> QED BY <1>1, WrapLemma

LEMMA ShiftedSlotLemma ==
    ASSUME BufferTypeOK, head' = Wrap(head + 1), head' \in Slots,
           NEW i \in 1..(Capacity - 1)
    PROVE  SlotOf(i)' = SlotOf(i + 1)
<1>1. i \in 1..Capacity /\ i + 1 \in 1..Capacity
  BY CapacityAssumption
<1>2. SlotOf(i)' = Wrap(head' + i - 1)
  BY <1>1, SlotFromLemma DEF SlotOf
<1>3. SlotOf(i + 1) = Wrap(head + (i + 1) - 1)
  BY <1>1, SlotFromLemma DEF SlotOf, BufferTypeOK
<1> QED BY <1>2, <1>3, CapacityAssumption DEF Wrap, BufferTypeOK, Slots

LEMMA PushEvicts ==
    ASSUME BufferInv, BufferInv', NEW x \in Items, Push(x), size = Capacity
    PROVE  Fifo!EnqueueDropOldest(x)
<1> USE DEF BufferInv
<1>1. HeldIsSeq /\ HeldIsSeq'
  BY HeldLemma, HeldNextLemma
<1>2. /\ head' = Wrap(head + 1) /\ head' \in Slots /\ size' = size
      /\ slots' = [slots EXCEPT ![tail] = x] /\ size > 0
  BY AdvanceLemma, CapacityAssumption DEF Push, BufferTypeOK
<1>3. tail = head
  <2>1. tail = Wrap(head + Capacity)
    BY OccupiedLemma DEF Occupied
  <2> QED BY <2>1, CapacityAssumption DEF Wrap, BufferTypeOK, Slots
<1>4. /\ Append(Tail(Held), x) \in Seq(Items \cup {Undefined})
      /\ Len(Append(Tail(Held), x)) = size
      /\ \A i \in 1..(size - 1) : Append(Tail(Held), x)[i] = Held[i + 1]
      /\ Append(Tail(Held), x)[size] = x
  BY <1>1, <1>2, CapacityAssumption DEF HeldIsSeq, BufferTypeOK
<1>5. ASSUME NEW i \in 1..size
      PROVE  Held'[i] = Append(Tail(Held), x)[i]
  <2>1. Held'[i] = slots'[SlotOf(i)']
    BY <1>1, <1>2 DEF HeldIsSeq
  <2>2. CASE i < size
    <3>1. i \in 1..(Capacity - 1) /\ i + 1 \in 1..size
      BY <2>2, CapacityAssumption
    <3>2. SlotOf(i)' = SlotOf(i + 1) /\ SlotOf(i + 1) \in Slots
      BY <1>2, <3>1, ShiftedSlotLemma, SlotOfLemma
    <3>3. SlotOf(i + 1) # head
      <4>1. SlotOf(i + 1) = Wrap(head + (i + 1) - 1)
        BY <3>1, SlotOfLemma
      <4> QED BY <3>1, <4>1, CapacityAssumption DEF Wrap, BufferTypeOK, Slots
    <3>4. Held'[i] = slots[SlotOf(i + 1)]
      BY <1>2, <1>3, <2>1, <3>2, <3>3 DEF BufferTypeOK
    <3>5. Held[i + 1] = slots[SlotOf(i + 1)]
      BY <1>1, <3>1 DEF HeldIsSeq
    <3>6. i \in 1..(size - 1)
      BY <2>2, CapacityAssumption
    <3> QED BY <1>4, <3>4, <3>5, <3>6
  <2>3. CASE i = size
    <3>1. SlotOf(i)' = Wrap(head' + i - 1)
      BY <1>2, <2>3, SlotFromLemma, CapacityAssumption DEF SlotOf
    <3>2. SlotOf(i)' = head
      BY <1>2, <2>3, <3>1, CapacityAssumption DEF Wrap, BufferTypeOK, Slots
    <3> QED BY <1>2, <1>3, <1>4, <2>1, <2>3, <3>2 DEF BufferTypeOK
  <2>4. i < size \/ i = size
    BY CapacityAssumption
  <2> QED BY <2>2, <2>3, <2>4
<1>6. Held' = Append(Tail(Held), x)
  <2> DEFINE V == Items \cup {Undefined}
  <2>1. /\ Held' \in Seq(V) /\ Append(Tail(Held), x) \in Seq(V)
        /\ Len(Held') = Len(Append(Tail(Held), x)) /\ Len(Held') = size
    BY <1>1, <1>2, <1>4 DEF HeldIsSeq
  <2> HIDE DEF V
  <2> QED BY <1>5, <2>1, SeqEqual
<1> QED BY <1>1, <1>6 DEF Push, HeldIsSeq, Fifo!EnqueueDropOldest

LEMMA PushAppends ==
    ASSUME BufferInv, BufferInv', NEW x \in Items, Push(x), size # Capacity
    PROVE  Fifo!Enqueue(x)
<1> USE DEF BufferInv
<1>1. HeldIsSeq /\ HeldIsSeq'
  BY HeldLemma, HeldNextLemma
<1>2. /\ head' = head /\ size' = size + 1 /\ size < Capacity /\ size \in Nat
      /\ slots' = [slots EXCEPT ![tail] = x]
  BY CapacityAssumption DEF Push, BufferTypeOK
<1>3. tail = Wrap(head + size)
  BY OccupiedLemma DEF Occupied
<1>4. /\ Append(Held, x) \in Seq(Items \cup {Undefined})
      /\ Len(Append(Held, x)) = size + 1
      /\ \A i \in 1..size : Append(Held, x)[i] = Held[i]
      /\ Append(Held, x)[size + 1] = x
  BY <1>1, <1>2 DEF HeldIsSeq
<1>5. ASSUME NEW i \in 1..(size + 1)
      PROVE  Held'[i] = Append(Held, x)[i]
  <2>1. i \in 1..Capacity /\ i \in 1..size'
    BY <1>2, CapacityAssumption
  <2>2. Held'[i] = slots'[SlotOf(i)]
    BY <1>1, <1>2, <2>1 DEF HeldIsSeq, SlotOf
  <2>3. SlotOf(i) = Wrap(head + i - 1) /\ SlotOf(i) \in Slots
    BY <2>1, SlotOfLemma
  <2>4. CASE i = size + 1
    <3>1. SlotOf(i) = tail
      BY <1>2, <1>3, <2>3, <2>4, CapacityAssumption DEF Wrap, BufferTypeOK, Slots
    <3>2. slots'[tail] = x
      BY <1>2 DEF BufferTypeOK
    <3> QED BY <1>4, <2>2, <2>4, <3>1, <3>2
  <2>5. CASE i \in 1..size
    <3>1. SlotOf(i) # tail
      BY <1>2, <1>3, <2>3, <2>5, CapacityAssumption DEF Wrap, BufferTypeOK, Slots
    <3>2. Held'[i] = slots[SlotOf(i)]
      BY <1>2, <2>2, <2>3, <3>1 DEF BufferTypeOK
    <3>3. Append(Held, x)[i] = Held[i] /\ Held[i] = slots[SlotOf(i)]
      BY <1>1, <1>4, <2>5 DEF HeldIsSeq
    <3> QED BY <3>2, <3>3
  <2>6. i = size + 1 \/ i \in 1..size
    BY <1>2
  <2> QED BY <2>4, <2>5, <2>6
<1>6. Held' = Append(Held, x)
  <2> DEFINE V == Items \cup {Undefined}
  <2>1. /\ Held' \in Seq(V) /\ Append(Held, x) \in Seq(V)
        /\ Len(Held') = Len(Append(Held, x)) /\ Len(Held') = size + 1
    BY <1>1, <1>2, <1>4 DEF HeldIsSeq
  <2> HIDE DEF V
  <2> QED BY <1>5, <2>1, SeqEqual
<1> QED BY <1>1, <1>2, <1>6, CapacityAssumption
        DEF Push, HeldIsSeq, Fifo!Enqueue

LEMMA ShiftDequeues ==
    ASSUME BufferInv, BufferInv', Shift
    PROVE  Fifo!Dequeue
<1> USE DEF BufferInv
<1>1. HeldIsSeq /\ HeldIsSeq'
  BY HeldLemma, HeldNextLemma
<1>2. /\ head' = Wrap(head + 1) /\ head' \in Slots
      /\ size \in 1..Capacity /\ size' = size - 1
      /\ slots' = [slots EXCEPT ![head] = Undefined]
  BY AdvanceLemma, CapacityAssumption DEF Shift, BufferTypeOK
<1>3. /\ Tail(Held) \in Seq(Items \cup {Undefined})
      /\ Len(Tail(Held)) = size - 1
      /\ \A i \in 1..(size - 1) : Tail(Held)[i] = Held[i + 1]
      /\ Held # <<>> /\ Head(Held) = Held[1]
  BY <1>1, <1>2, CapacityAssumption DEF HeldIsSeq
<1>4. ASSUME NEW i \in 1..(size - 1)
      PROVE  Held'[i] = Tail(Held)[i]
  <2>1. /\ i \in 1..(Capacity - 1) /\ i \in 1..size'
        /\ i + 1 \in 1..size /\ i + 1 \in 1..Capacity
    BY <1>2, CapacityAssumption
  <2>2. SlotOf(i)' = SlotOf(i + 1)
    BY <1>2, <2>1, ShiftedSlotLemma
  <2>3. SlotOf(i + 1) = Wrap(head + (i + 1) - 1) /\ SlotOf(i + 1) \in Slots
    BY <2>1, SlotOfLemma
  <2>4. SlotOf(i + 1) # head
    BY <2>1, <2>3, CapacityAssumption DEF Wrap, BufferTypeOK, Slots
  <2>5. Held'[i] = slots'[SlotOf(i)']
    BY <1>1, <2>1 DEF HeldIsSeq
  <2>6. Held'[i] = slots[SlotOf(i + 1)]
    BY <1>2, <2>2, <2>3, <2>4, <2>5 DEF BufferTypeOK
  <2> QED BY <1>1, <1>3, <2>1, <2>6 DEF HeldIsSeq
<1>5. Held' = Tail(Held)
  <2> DEFINE V == Items \cup {Undefined}
  <2>1. /\ Held' \in Seq(V) /\ Tail(Held) \in Seq(V)
        /\ Len(Held') = Len(Tail(Held)) /\ Len(Held') = size - 1
    BY <1>1, <1>2, <1>3 DEF HeldIsSeq
  <2> HIDE DEF V
  <2> QED BY <1>4, <2>1, SeqEqual
<1>6. Head(Held) = slots[head]
  <2>1. 1 \in 1..size /\ 1 \in 1..Capacity
    BY <1>2, CapacityAssumption
  <2>2. SlotOf(1) = Wrap(head + 1 - 1)
    BY <2>1, SlotOfLemma
  <2>3. SlotOf(1) = head
    BY <2>2, CapacityAssumption DEF Wrap, BufferTypeOK, Slots
  <2> QED BY <1>1, <1>3, <2>1, <2>3 DEF HeldIsSeq
<1> QED BY <1>3, <1>5, <1>6 DEF Shift, Fifo!Dequeue

LEMMA HeldEmpty == BufferTypeOK /\ size = 0 => Held = <<>>
<1> SUFFICES ASSUME BufferTypeOK, size = 0 PROVE Held = <<>>
  OBVIOUS
<1>1. Held \in Seq(Items \cup {Undefined}) /\ Len(Held) = 0
  BY HeldLemma DEF HeldIsSeq
<1> QED BY <1>1, EmptySeq

LEMMA HeldEmptyNext == BufferTypeOK' /\ size' = 0 => Held' = <<>>
<1> SUFFICES ASSUME BufferTypeOK', size' = 0 PROVE Held' = <<>>
  OBVIOUS
<1>1. Held' \in Seq(Items \cup {Undefined}) /\ Len(Held') = 0
  BY HeldNextLemma DEF HeldIsSeq
<1> QED BY <1>1, EmptySeq

(* For every capacity and every set of items, each behaviour of the         *)
(* circular array is a behaviour of the drop-oldest queue: what shift() and *)
(* drain() hand out, what push() evicts and how many evictions are counted. *)
THEOREM RingBufferImplementsFifo == BufferSpec => ImplementsFifo
<1>1. BufferInit => Fifo!FifoInit
  <2>1. ASSUME BufferInit PROVE Held = <<>>
    BY <2>1, BufferInitInv, HeldEmpty DEF BufferInit, BufferInv
  <2> QED BY <2>1 DEF BufferInit, Fifo!FifoInit
<1>2. BufferInv /\ BufferInv' /\ [BufferNext]_bufferVars => [Fifo!FifoNext]_(Fifo!fifoVars)
  <2> SUFFICES ASSUME BufferInv, BufferInv', [BufferNext]_bufferVars
               PROVE  [Fifo!FifoNext]_(Fifo!fifoVars)
    OBVIOUS
  <2>1. ASSUME NEW x \in Items, Push(x) PROVE Fifo!FifoNext
    BY <2>1, PushEvicts, PushAppends DEF Fifo!FifoNext
  <2>2. ASSUME Shift PROVE Fifo!FifoNext
    BY <2>2, ShiftDequeues DEF Fifo!FifoNext
  <2>3. ASSUME ShiftEmpty PROVE Fifo!FifoNext
    <3>1. Held = <<>> /\ Held' = <<>>
      BY <2>3, HeldEmpty, HeldEmptyNext DEF BufferInv, ShiftEmpty
    <3> QED BY <2>3, <3>1
            DEF ShiftEmpty, Fifo!FifoNext, Fifo!DequeueNothing
  <2>4. ASSUME Drain PROVE Fifo!FifoNext
    <3>1. Held' = <<>>
      BY <2>4, HeldEmptyNext DEF BufferInv, Drain
    <3> QED BY <2>4, <3>1 DEF Drain, Fifo!FifoNext, Fifo!DequeueAll
  <2>5. ASSUME Clear PROVE Fifo!FifoNext
    <3>1. Held' = <<>>
      BY <2>5, HeldEmptyNext DEF BufferInv, Clear
    <3> QED BY <2>5, <3>1 DEF Clear, Fifo!FifoNext, Fifo!Reset
  <2>6. ASSUME UNCHANGED bufferVars PROVE UNCHANGED Fifo!fifoVars
    BY <2>6 DEF bufferVars, Fifo!fifoVars, Held, SlotOf
  <2> QED BY <2>1, <2>2, <2>3, <2>4, <2>5, <2>6 DEF BufferNext
<1>3. BufferSpec => []BufferInv
  BY BufferInitInv, BufferNextInv, PTL DEF BufferSpec
<1> QED BY <1>1, <1>2, <1>3, PTL DEF BufferSpec, ImplementsFifo, Fifo!FifoSpec
=============================================================================
