--------------------------- MODULE TranscriptUplink ---------------------------
(***************************************************************************)
(* What the reconnecting client promises the recorder about its audio,     *)
(* with sockets, tokens, timers, backoff and batches left out.  While it   *)
(* is not connected it holds the newest chunks and counts the ones that    *)
(* make room; once connected it delivers, what was held before oldest      *)
(* first; and when it is closed, by the user or for good, it delivers      *)
(* nothing any more.  No chunk is ever delivered twice.                    *)
(***************************************************************************)
EXTENDS Integers, Sequences

CONSTANTS
    MaxChunks,   \* bound: number of chunks offered
    Capacity     \* the most chunks held

VARIABLES
    mode,        \* "holding" until it is connected, "open", or "closed"
    offered,     \* chunks offered so far: 1..offered
    queue,       \* the chunks held, oldest first
    delivered,   \* the chunks delivered, in order
    evicted,     \* the chunks that made room, which are counted
    lost         \* the chunks lost without being counted

uplinkVars == <<mode, offered, queue, delivered, evicted, lost>>

UplinkInit ==
    /\ mode = "holding" /\ offered = 0
    /\ queue = <<>> /\ delivered = <<>> /\ evicted = {} /\ lost = {}

Hold(c) ==
    /\ mode = "holding"
    /\ \/ /\ Len(queue) < Capacity
          /\ queue' = Append(queue, c)
          /\ UNCHANGED evicted
       \/ /\ Len(queue) = Capacity
          /\ queue' = Append(Tail(queue), c)
          /\ evicted' = evicted \cup {Head(queue)}
    /\ UNCHANGED <<delivered, lost>>

Pass(c) ==
    /\ mode = "open"
    /\ delivered' = Append(delivered, c)
    /\ UNCHANGED <<queue, evicted, lost>>

\* The connection is going down unnoticed, or the client is closed.
Lose(c) ==
    /\ mode # "holding"
    /\ lost' = lost \cup {c}
    /\ UNCHANGED <<queue, delivered, evicted>>

Offer ==
    /\ offered < MaxChunks
    /\ offered' = offered + 1
    /\ Hold(offered + 1) \/ Pass(offered + 1) \/ Lose(offered + 1)
    /\ UNCHANGED mode

Oldest(n) == SubSeq(queue, 1, n)

Take(n) ==
    /\ queue' = SubSeq(queue, n + 1, Len(queue))
    /\ UNCHANGED <<offered, evicted>>

\* The connection opens with the first of these steps.
Deliver ==
    /\ mode # "closed" /\ mode' = "open"
    /\ \E n \in 0..Len(queue) : Take(n) /\ delivered' = delivered \o Oldest(n)
    /\ UNCHANGED lost

\* A drain goes on although the connection it began on is gone.
Discard ==
    /\ \E n \in 0..Len(queue) :
        /\ Take(n)
        /\ lost' = lost \cup {Oldest(n)[i] : i \in 1..n}
    /\ UNCHANGED <<mode, delivered>>

Disconnect ==
    /\ mode = "open" /\ mode' = "holding"
    /\ UNCHANGED <<offered, queue, delivered, evicted, lost>>

Finish ==
    /\ mode # "closed" /\ mode' = "closed"
    /\ UNCHANGED <<offered, queue, delivered, evicted, lost>>

UplinkNext == Offer \/ Deliver \/ Discard \/ Disconnect \/ Finish

UplinkSpec == UplinkInit /\ [][UplinkNext]_uplinkVars
=============================================================================
