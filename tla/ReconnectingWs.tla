--------------------------- MODULE ReconnectingWs ---------------------------
(***************************************************************************)
(* The reconnecting transcript WebSocket of the desktop app               *)
(* (apps/desktop/src/lib/reconnecting-ws-client.ts with ws-client.ts).     *)
(*                                                                         *)
(* The client is one JavaScript event loop, so every action below is one   *)
(* task of that loop: a socket event, a timer callback, the continuation   *)
(* of the token promise, an audio chunk arriving from Rust, or a call of   *)
(* close().  What interleaves is the order of those tasks.  In particular  *)
(* the buffer is drained in batches of DrainYieldEvery chunks with a       *)
(* setTimeout(0) between batches, so any task can run in between.          *)
(*                                                                         *)
(* Audio chunks are numbered 1, 2, ... in the order the app produces them. *)
(* Time is a relative tick count: "elapsed" is now() - firstFailureAtMs.   *)
(* The circular array behind "buffer" is the subject of AudioRingBuffer.   *)
(***************************************************************************)
EXTENDS Integers, Sequences, FiniteSets

CONSTANTS
    MaxChunks,        \* bound: number of audio chunks the app produces
    MaxBuffered,      \* opts.maxBufferedChunks
    DrainYieldEvery,  \* DRAIN_YIELD_EVERY
    Budget,           \* opts.maxBudgetMs, in ticks
    BaseDelay,        \* BASE_MS of the backoff schedule, in ticks
    MaxDelay,         \* MAX_MS of the backoff schedule, in ticks
    JitterPct         \* the ratio of withJitter, in percent

ASSUME ClientAssumption ==
    /\ MaxChunks \in Nat
    /\ MaxBuffered \in Nat \ {0}
    /\ DrainYieldEvery \in Nat \ {0}
    /\ Budget \in Nat \ {0}
    /\ BaseDelay \in Nat \ {0}
    /\ MaxDelay \in Nat \ {0}
    /\ JitterPct \in 0..100

VARIABLES
    phase,       \* phase.kind
    attempt,     \* attempt
    elapsed,     \* now() - firstFailureAtMs, Null when firstFailureAtMs is null
    timer,       \* ticks until retryTimer is due, Null when it is not armed
    sock,        \* the socket of the latest openOnce()
    userClosed,  \* userClosed
    buffer,      \* contents of the AudioRingBuffer, oldest first
    flushers,    \* pending setTimeout(flushBatch, 0) callbacks
    produced,    \* chunks handed to send() so far
    sent,        \* history: chunks written to an open socket, in order
    evicted,     \* history: chunks counted by droppedCount()
    lost         \* history: chunks discarded without being counted

connVars  == <<phase, attempt, elapsed, timer, sock, userClosed>>
audioVars == <<buffer, flushers, produced, sent, evicted, lost>>
vars      == <<connVars, audioVars>>

Null == -1

\* "token" is the wait for getAccessToken(); "closing" is readyState CLOSING
\* (or CLOSED with the close event not yet delivered).
SockStates == {"none", "token", "connecting", "open", "closing"}
Phases     == {"idle", "connecting", "open", "reconnecting", "failed"}

MinOf(a, b) == IF a < b THEN a ELSE b
Contents(s) == {s[i] : i \in DOMAIN s}

-----------------------------------------------------------------------------
(* The delay before retry number att: doubling, then capped.                *)
NextDelay(att) == MinOf(BaseDelay * 2^att, MaxDelay)

(* Outcomes of withJitter(base): anything within the ratio, never negative. *)
WithJitter(base) ==
    LET span == (base * JitterPct) \div 100
    IN  {base + off : off \in (-span)..span} \cap Nat

(* Mutant: the phase changes but the timer is not armed.                    *)
ScheduleUnarmed(el, att) ==
    /\ elapsed' = el
    /\ attempt' = att
    /\ timer' = Null
    /\ phase' = IF el >= Budget THEN "failed" ELSE "reconnecting"

(* scheduleNextAttempt() when el ticks of the outage have passed.           *)
ScheduleNextAttempt(el, att) ==
    /\ elapsed' = el
    /\ attempt' = att
    /\ \/ /\ el >= Budget
          /\ phase' = "failed"
          /\ timer' = Null
       \/ /\ el < Budget
          /\ phase' = "reconnecting"
          /\ timer' \in WithJitter(NextDelay(att))

(* Mutants: chunks are peeked, not shifted; the next batch is not scheduled. *)
FlushPeeks(reaches, waiting) ==
    LET n     == MinOf(Len(buffer), DrainYieldEvery)
        batch == SubSeq(buffer, 1, n)
    IN  /\ flushers' = IF n < Len(buffer) THEN waiting + 1 ELSE waiting
        /\ sent' = IF reaches THEN sent \o batch ELSE sent
        /\ lost' = IF reaches THEN lost ELSE lost \cup Contents(batch)
        /\ UNCHANGED buffer

FlushOnce(reaches, waiting) ==
    LET n     == MinOf(Len(buffer), DrainYieldEvery)
        batch == SubSeq(buffer, 1, n)
    IN  /\ buffer' = SubSeq(buffer, n + 1, Len(buffer))
        /\ flushers' = waiting
        /\ sent' = IF reaches THEN sent \o batch ELSE sent
        /\ lost' = IF reaches THEN lost ELSE lost \cup Contents(batch)

(* flushBatch(): shift up to DrainYieldEvery chunks and hand each to the     *)
(* underlying client, which writes it only if its socket is open; re-arm     *)
(* the zero timeout while chunks remain.  "idle" flushers stay armed.        *)
FlushBatch(reaches, waiting) ==
    LET n     == MinOf(Len(buffer), DrainYieldEvery)
        batch == SubSeq(buffer, 1, n)
    IN  /\ buffer' = SubSeq(buffer, n + 1, Len(buffer))
        /\ flushers' = IF n < Len(buffer) THEN waiting + 1 ELSE waiting
        /\ sent' = IF reaches THEN sent \o batch ELSE sent
        /\ lost' = IF reaches THEN lost ELSE lost \cup Contents(batch)

-----------------------------------------------------------------------------
(* createReconnectingWsClient() ends by calling openOnce().                 *)
Init ==
    /\ phase = "connecting" /\ attempt = 0 /\ elapsed = Null /\ timer = Null
    /\ sock = "token" /\ userClosed = FALSE
    /\ buffer = <<>> /\ flushers = 0 /\ produced = 0
    /\ sent = <<>> /\ evicted = {} /\ lost = {}

(* The retry timer fires: attempt += 1; openOnce().                         *)
FireRetryTimer ==
    /\ timer = 0
    /\ timer' = Null
    /\ attempt' = attempt + 1
    /\ IF userClosed THEN UNCHANGED <<phase, sock>>
                     ELSE phase' = "connecting" /\ sock' = "token"
    /\ UNCHANGED <<elapsed, userClosed, audioVars>>

(* Mutant: close() during the token request is not noticed.                 *)
TokenIgnoresClose ==
    /\ sock = "token"
    /\ sock' = "connecting"
    /\ UNCHANGED <<phase, attempt, elapsed, timer, userClosed, audioVars>>

(* The token promise settles; a rejected one connects without a token.      *)
TokenResolved ==
    /\ sock = "token"
    /\ sock' = IF userClosed THEN "none" ELSE "connecting"
    /\ UNCHANGED <<phase, attempt, elapsed, timer, userClosed, audioVars>>

(* onOpen: the outage is over, and drainBuffer() sends the first batch.     *)
SocketOpened ==
    /\ sock = "connecting"
    /\ sock' = "open"
    /\ phase' = "open"
    /\ elapsed' = Null
    /\ attempt' = 0
    /\ FlushBatch(TRUE, flushers)
    /\ UNCHANGED <<timer, userClosed, produced, evicted>>

(* The peer starts the closing handshake; the close event comes later.      *)
PeerCloses ==
    /\ sock = "open"
    /\ sock' = "closing"
    /\ UNCHANGED <<phase, attempt, elapsed, timer, userClosed, audioVars>>

(* onClose of the current socket: after the user's close() nothing more     *)
(* happens; before open it is a failed attempt; after open it is a new      *)
(* outage with a fresh budget and backoff.                                  *)
SocketClosed ==
    /\ sock \in {"connecting", "open", "closing"}
    /\ sock' = "none"
    /\ \/ /\ userClosed
          /\ phase' = "idle"
          /\ UNCHANGED <<attempt, elapsed, timer>>
       \/ /\ ~userClosed
          /\ sock = "connecting"
          /\ ScheduleNextAttempt(IF elapsed = Null THEN 0 ELSE elapsed, attempt)
       \/ /\ ~userClosed
          /\ sock # "connecting"
          /\ ScheduleNextAttempt(0, 0)
    /\ UNCHANGED <<userClosed, audioVars>>

(* setTimeout(flushBatch, 0) runs, whatever has become of the connection.   *)
FlushTimer ==
    /\ flushers > 0
    /\ FlushBatch(sock = "open", flushers - 1)
    /\ UNCHANGED <<connVars, produced, evicted>>

(* Mutant: off by one at capacity.                                          *)
PushBeyond(c) ==
    IF Len(buffer) > MaxBuffered
    THEN /\ buffer' = Append(Tail(buffer), c)
         /\ evicted' = evicted \cup {Head(buffer)}
    ELSE /\ buffer' = Append(buffer, c)
         /\ UNCHANGED evicted

(* AudioRingBuffer.push: at capacity the oldest chunk makes room.           *)
PushChunk(c) ==
    IF Len(buffer) = MaxBuffered
    THEN /\ buffer' = Append(Tail(buffer), c)
         /\ evicted' = evicted \cup {Head(buffer)}
    ELSE /\ buffer' = Append(buffer, c)
         /\ UNCHANGED evicted

(* send(audio_chunk): straight to the socket in phase open, where a socket  *)
(* that is no longer OPEN swallows it; buffered while (re)connecting;       *)
(* refused when the client is not active.                                   *)
Send ==
    /\ produced < MaxChunks
    /\ produced' = produced + 1
    /\ \/ /\ phase \in {"idle", "failed"}
          /\ lost' = lost \cup {produced + 1}
          /\ UNCHANGED <<buffer, sent, evicted>>
       \/ /\ phase = "open"
          /\ sock = "open"
          /\ sent' = Append(sent, produced + 1)
          /\ UNCHANGED <<buffer, evicted, lost>>
       \/ /\ phase = "open"
          /\ sock # "open"
          /\ lost' = lost \cup {produced + 1}
          /\ UNCHANGED <<buffer, sent, evicted>>
       \/ /\ phase \in {"connecting", "reconnecting"}
          /\ PushChunk(produced + 1)
          /\ UNCHANGED <<sent, lost>>
    /\ UNCHANGED <<connVars, flushers>>

(* Mutant: the retry timer is not cancelled.                                *)
CloseKeepsTimer ==
    /\ ~userClosed
    /\ userClosed' = TRUE
    /\ sock' = IF sock \in {"connecting", "open"} THEN "closing" ELSE sock
    /\ phase' = "idle"
    /\ UNCHANGED <<attempt, elapsed, timer, audioVars>>

(* close(): cancels the retry timer and starts closing a live socket.       *)
Close ==
    /\ ~userClosed
    /\ userClosed' = TRUE
    /\ timer' = Null
    /\ sock' = IF sock \in {"connecting", "open"} THEN "closing" ELSE sock
    /\ phase' = "idle"
    /\ UNCHANGED <<attempt, elapsed, audioVars>>

(* Time passes.  A due timer may fire late, never early.                    *)
Tick ==
    /\ elapsed # Null
    /\ elapsed < Budget \/ timer > 0
    /\ elapsed' = MinOf(elapsed + 1, Budget)
    /\ timer' = IF timer > 0 THEN timer - 1 ELSE timer
    /\ UNCHANGED <<phase, attempt, sock, userClosed, audioVars>>

Next ==
    \/ FireRetryTimer \/ TokenResolved \/ SocketOpened \/ PeerCloses
    \/ SocketClosed \/ FlushTimer \/ Send \/ Close \/ Tick

Spec == Init /\ [][Next]_vars

(* Timers fire, promises settle, the browser ends a handshake or a socket   *)
(* that is going down, and time passes.  Nothing is assumed of the user,    *)
(* of the microphone, or of whether the server can be reached.              *)
Fairness ==
    /\ WF_vars(FireRetryTimer) /\ WF_vars(TokenResolved)
    /\ WF_vars(FlushTimer) /\ WF_vars(Tick)
    /\ WF_vars(SocketClosed /\ sock \in {"connecting", "closing"})

FairSpec == Spec /\ Fairness

-----------------------------------------------------------------------------
TypeOK ==
    /\ phase \in Phases
    /\ attempt \in Nat
    /\ elapsed \in 0..Budget \cup {Null}
    /\ timer \in Nat \cup {Null}
    /\ sock \in SockStates
    /\ userClosed \in BOOLEAN
    /\ buffer \in Seq(1..MaxChunks)
    /\ flushers \in Nat
    /\ produced \in 0..MaxChunks
    /\ sent \in Seq(1..MaxChunks)
    /\ evicted \subseteq 1..MaxChunks
    /\ lost \subseteq 1..MaxChunks

(* The phase the UI shows always has something pending behind it: a client  *)
(* that says "connecting" waits for a token or a handshake, one that says   *)
(* "reconnecting" has its retry timer armed and no socket of an earlier     *)
(* attempt left, and one that is closed or has failed has no timer that     *)
(* could revive it.                                                         *)
NeverWedged ==
    /\ phase = "connecting" => sock \in {"token", "connecting"} /\ ~userClosed
    /\ phase = "open" => sock \in {"open", "closing"} /\ ~userClosed
    /\ phase = "reconnecting" => sock = "none" /\ timer # Null /\ ~userClosed
    /\ phase = "failed" => sock = "none" /\ elapsed = Budget /\ ~userClosed
    /\ phase = "idle" => userClosed /\ sock \notin {"connecting", "open"}
    /\ timer # Null => phase = "reconnecting" /\ elapsed # Null

(* Audio is delivered at most once: a chunk handed to send() is in exactly  *)
(* one of four places - waiting in the buffer, written to a socket, evicted *)
(* on overflow, or discarded - and in the first two only once, however      *)
(* drains, overflows and reconnects interleave.                             *)
AtMostOnce ==
    /\ Len(buffer) + Len(sent) + Cardinality(evicted) + Cardinality(lost)
         = produced
    /\ Contents(buffer) \cup Contents(sent) \cup evicted \cup lost
         = 1..produced

(* Buffered chunks are sent and evicted oldest first: the buffer holds them *)
(* in the order they were produced and within its capacity.                 *)
BufferInOrder ==
    /\ Len(buffer) <= MaxBuffered
    /\ \A i, j \in DOMAIN buffer : i < j => buffer[i] < buffer[j]

(* A chunk is left waiting in an open connection only while a flush is      *)
(* scheduled that will send it.                                             *)
OpenBufferHasFlusher ==
    phase = "open" /\ buffer # <<>> => flushers > 0

(* A client that is closed or has given up comes to rest for good: a token  *)
(* still awaited, a handshake under way, a retry timer or a flush scheduled *)
(* before leaves no socket, timer or flush that nobody could end any more.  *)
ComesToRest ==
    phase \in {"idle", "failed"}
        ~> [](sock = "none" /\ timer = Null /\ flushers = 0)

(* Only a new outage or a lapsed budget stops the retries: an outage ends   *)
(* with the connection open again, given up, or closed by the user.         *)
OutageEnds ==
    elapsed # Null ~> phase \in {"open", "failed", "idle"}

(* What was buffered during an outage does not linger in a connection that  *)
(* stays up: it is flushed.                                                 *)
BufferDrains ==
    phase = "open" /\ buffer # <<>> ~> buffer = <<>> \/ phase # "open"

-----------------------------------------------------------------------------
(* What the caller sees of the phase.                                       *)
Mode == CASE phase = "open"                          -> "open"
          [] phase \in {"connecting", "reconnecting"} -> "holding"
          [] phase \in {"idle", "failed"}             -> "closed"

(* Seen from the recorder the client is the abstract uplink: chunks are     *)
(* written to a socket only in phase open, from the buffer oldest first and *)
(* each once; overflow takes the oldest; only a failing connection or a     *)
(* drain that outlives its socket loses a chunk uncounted; and a client     *)
(* that is closed or has failed never sends again (send(), drainBuffer(),   *)
(* close(), whatever the socket, the timers and the token request do).      *)
Uplink == INSTANCE TranscriptUplink
              WITH mode <- Mode, offered <- produced, queue <- buffer,
                   delivered <- sent, Capacity <- MaxBuffered

ImplementsUplink == Uplink!UplinkSpec

=============================================================================
