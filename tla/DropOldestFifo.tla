--------------------------- MODULE DropOldestFifo ---------------------------
(***************************************************************************)
(* What audio-buffer.ts promises its caller: a bounded first-in first-out  *)
(* queue that makes room by dropping its oldest item and counts the drops. *)
(***************************************************************************)
EXTENDS Naturals, Sequences

CONSTANTS
    Items,     \* what the buffer holds
    Capacity   \* the most it holds

VARIABLES
    queue,     \* the items held, oldest first
    dropped,   \* items dropped since the start or the last clear
    out        \* the items the last operation took out, in order

fifoVars == <<queue, dropped, out>>

FifoInit == queue = <<>> /\ dropped = 0 /\ out = <<>>

Enqueue(x) ==
    /\ Len(queue) < Capacity
    /\ queue' = Append(queue, x)
    /\ out' = <<>>
    /\ UNCHANGED dropped

EnqueueDropOldest(x) ==
    /\ Len(queue) = Capacity
    /\ queue' = Append(Tail(queue), x)
    /\ dropped' = dropped + 1
    /\ out' = <<>>

Dequeue ==
    /\ queue # <<>>
    /\ queue' = Tail(queue)
    /\ out' = <<Head(queue)>>
    /\ UNCHANGED dropped

DequeueAll ==
    /\ queue' = <<>>
    /\ out' = queue
    /\ UNCHANGED dropped

Reset == queue' = <<>> /\ dropped' = 0 /\ out' = <<>>

\* Taking from an empty queue takes nothing.
DequeueNothing == queue = <<>> /\ out' = <<>> /\ UNCHANGED <<queue, dropped>>

FifoNext ==
    \/ \E x \in Items : Enqueue(x) \/ EnqueueDropOldest(x)
    \/ Dequeue \/ DequeueAll \/ DequeueNothing \/ Reset

FifoSpec == FifoInit /\ [][FifoNext]_fifoVars
=============================================================================
