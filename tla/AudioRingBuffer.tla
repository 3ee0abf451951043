-------------------------- MODULE AudioRingBuffer ---------------------------
(***************************************************************************)
(* The circular array of apps/desktop/src/lib/audio-buffer.ts.  Methods of  *)
(* a JavaScript object run to completion, so each is one action; drain()    *)
(* hands its items to a synchronous callback and is one action too.         *)
(***************************************************************************)
EXTENDS Integers, Sequences

CONSTANTS
    Items,       \* T
    Capacity,    \* capacity
    Undefined,   \* the JavaScript value undefined
    MaxDropped   \* bound: evictions counted before the next clear()

ASSUME CapacityAssumption == Capacity \in Nat \ {0} /\ MaxDropped \in Nat
ASSUME UndefinedAssumption == Undefined \notin Items

VARIABLES
    slots,         \* slots, indexed from 0
    head,          \* head: index of the oldest item
    tail,          \* tail: index the next push writes
    size,          \* _size
    droppedCount,  \* _droppedCount
    returned       \* observation: what the last call handed out, in order

bufferVars == <<slots, head, tail, size, droppedCount, returned>>

Slots == 0..(Capacity - 1)
Advance(i) == (i + 1) % Capacity

\* The i-th item from the oldest lives here.
SlotOf(i) == (head + i - 1) % Capacity

\* The items held, oldest first.
Held == [i \in 1..size |-> slots[SlotOf(i)]]

-----------------------------------------------------------------------------
BufferInit ==
    /\ slots = [i \in Slots |-> Undefined]
    /\ head = 0 /\ tail = 0 /\ size = 0 /\ droppedCount = 0
    /\ returned = <<>>

(* Mutant: the drop is not counted.                                        *)
PushUncounted(x) ==
    /\ \/ size = Capacity /\ head' = Advance(head) /\ UNCHANGED <<size, droppedCount>>
       \/ size # Capacity /\ size' = size + 1 /\ UNCHANGED <<head, droppedCount>>
    /\ slots' = [slots EXCEPT ![tail] = x]
    /\ tail' = Advance(tail)
    /\ returned' = <<>>

(* push(): at capacity head moves on, so that writing at tail overwrites    *)
(* the oldest item.                                                         *)
Push(x) ==
    /\ \/ /\ size = Capacity
          /\ droppedCount < MaxDropped
          /\ head' = Advance(head)
          /\ droppedCount' = droppedCount + 1
          /\ UNCHANGED size
       \/ /\ size # Capacity
          /\ size' = size + 1
          /\ UNCHANGED <<head, droppedCount>>
    /\ slots' = [slots EXCEPT ![tail] = x]
    /\ tail' = Advance(tail)
    /\ returned' = <<>>

(* shift() of a non-empty buffer. *)
Shift ==
    /\ size > 0
    /\ returned' = <<slots[head]>>
    /\ slots' = [slots EXCEPT ![head] = Undefined]
    /\ head' = Advance(head)
    /\ size' = size - 1
    /\ UNCHANGED <<tail, droppedCount>>

(* shift() of an empty buffer. *)
ShiftEmpty ==
    /\ size = 0
    /\ returned' = <<>>
    /\ UNCHANGED <<slots, head, tail, size, droppedCount>>

(* drain(send): the loop empties the occupied slots from head onwards.      *)
Drain ==
    /\ returned' = Held
    /\ slots' = [i \in Slots |->
                    IF \E k \in 1..size : i = SlotOf(k) THEN Undefined
                                                        ELSE slots[i]]
    /\ head' = (head + size) % Capacity
    /\ size' = 0
    /\ UNCHANGED <<tail, droppedCount>>

Clear ==
    /\ slots' = [i \in Slots |-> Undefined]
    /\ head' = 0 /\ tail' = 0 /\ size' = 0 /\ droppedCount' = 0
    /\ returned' = <<>>

BufferNext ==
    \/ \E x \in Items : Push(x)
    \/ Shift \/ ShiftEmpty \/ Drain \/ Clear

BufferSpec == BufferInit /\ [][BufferNext]_bufferVars

-----------------------------------------------------------------------------
BufferTypeOK ==
    /\ slots \in [Slots -> Items \cup {Undefined}]
    /\ head \in Slots
    /\ tail \in Slots
    /\ size \in 0..Capacity
    /\ droppedCount \in 0..MaxDropped
    /\ returned \in Seq(Items \cup {Undefined})

(* The three redundant fields agree: tail is size slots after head, exactly *)
(* the slots from head up to tail hold items, and the others are undefined, *)
(* so that a chunk is neither read before it is written nor kept alive      *)
(* after it is handed out.                                                  *)
Consistent ==
    /\ tail = (head + size) % Capacity
    /\ \A i \in 1..Capacity : slots[SlotOf(i)] # Undefined <=> i <= size

(* Seen through Held, the circular array is the abstract queue: evictions   *)
(* take the oldest, the order survives every wrap-around, and the drop      *)
(* counter counts the evictions.                                            *)
Fifo == INSTANCE DropOldestFifo
            WITH queue <- Held, dropped <- droppedCount, out <- returned

ImplementsFifo == Fifo!FifoSpec
=============================================================================
