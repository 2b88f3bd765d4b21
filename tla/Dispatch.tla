------------------------------ MODULE Dispatch ------------------------------
(***************************************************************************)
(* The bounded inbound FIFO of src/channels/dispatch.zig: a ring buffer    *)
(* (buffer, head, len) behind one mutex, three counters, and the consumer  *)
(* loop of `dequeue`, which looks at the queue under the mutex and at the  *)
(* cancel flag outside it.                                                 *)
(*                                                                         *)
(* Each critical section is one action.  The only state read outside a     *)
(* critical section is the cancel flag, so the only interleaving inside an *)
(* operation is the gap in `dequeue` between unlocking an empty queue and  *)
(* loading the flag.                                                       *)
(***************************************************************************)
EXTENDS Integers, Sequences

CONSTANTS
  Messages,     \* the inbound messages receive threads can enqueue
  Capacity,     \* buffer.len
  MaxEnqueued,  \* bound: messages enqueued in one behaviour
  Undefined     \* content of a slot never written

ASSUME DispatchAssumption ==
  /\ Capacity \in Nat \ {0}
  /\ MaxEnqueued \in Nat
  /\ Undefined \notin Messages

VARIABLES
  buffer,       \* the slots
  head,         \* index of the oldest message
  len,          \* number of messages held
  enqueued, dropped, drained,   \* Dispatch.Stats
  cancel,       \* the flag the consumer was given
  consumer,     \* where the consumer is in `dequeue`
  popped,       \* the message `dequeue` returned last
  arrivals      \* history: every message in the order it was enqueued

ring == <<buffer, head, len>>
vars == <<buffer, head, len, enqueued, dropped, drained,
          cancel, consumer, popped, arrivals>>

-----------------------------------------------------------------------------
Slots == 0 .. Capacity - 1

(* A variant of Slot without the wrap-around. *)
SlotUnwrapped(i) == i

(* Index arithmetic of the ring. *)
Slot(i) == i % Capacity

(* The messages held, oldest first. *)
Contents == [i \in 1 .. len |-> buffer[Slot(head + i - 1)]]

Init ==
  /\ buffer = [s \in Slots |-> Undefined]
  /\ head = 0
  /\ len = 0
  /\ enqueued = 0
  /\ dropped = 0
  /\ drained = 0
  /\ cancel = FALSE
  /\ consumer = "polling"
  /\ popped = Undefined
  /\ arrivals = << >>

-----------------------------------------------------------------------------
(* enqueue, by any receive thread: with room, write the slot after the     *)
(* newest message; without, first advance head past the oldest one.        *)
EnqueueInRoom(msg) ==
  /\ len # Capacity
  /\ buffer' = [buffer EXCEPT ![Slot(head + len)] = msg]
  /\ len' = len + 1
  /\ UNCHANGED <<head, dropped>>

(* Variants of EnqueueEvicting: one that does not count the message it     *)
(* evicts, and one that leaves head where it is and overwrites the newest. *)
EvictingUncounted(msg) ==
  /\ len = Capacity
  /\ head' = Slot(head + 1)
  /\ buffer' = [buffer EXCEPT ![Slot(head' + (len - 1))] = msg]
  /\ UNCHANGED <<len, dropped>>

EvictingNewest(msg) ==
  /\ len = Capacity
  /\ dropped' = dropped + 1
  /\ buffer' = [buffer EXCEPT ![Slot(head + (len - 1))] = msg]
  /\ UNCHANGED <<len, head>>

EnqueueEvicting(msg) ==
  /\ len = Capacity
  /\ head' = Slot(head + 1)
  /\ dropped' = dropped + 1
  /\ buffer' = [buffer EXCEPT ![Slot(head' + (len - 1))] = msg]
  /\ UNCHANGED len

Enqueue(msg) ==
  /\ enqueued < MaxEnqueued
  /\ EnqueueInRoom(msg) \/ EnqueueEvicting(msg)
  /\ enqueued' = enqueued + 1
  /\ arrivals' = Append(arrivals, msg)
  /\ UNCHANGED <<drained, cancel, consumer, popped>>

(* A variant of Pop that takes the newest message. *)
PopNewest ==
  /\ consumer = "polling"
  /\ len > 0
  /\ popped' = buffer[Slot(head + len - 1)]
  /\ len' = len - 1
  /\ drained' = drained + 1
  /\ UNCHANGED <<buffer, head, enqueued, dropped, cancel, consumer, arrivals>>

(* dequeue under the mutex, a message waiting: pop it and return it.  The  *)
(* consumer may then call dequeue again. *)
Pop ==
  /\ consumer = "polling"
  /\ len > 0
  /\ popped' = buffer[head]
  /\ head' = Slot(head + 1)
  /\ len' = len - 1
  /\ drained' = drained + 1
  /\ UNCHANGED <<buffer, enqueued, dropped, cancel, consumer, arrivals>>

(* dequeue under the mutex, nothing waiting: unlock. *)
SeeEmpty ==
  /\ consumer = "polling"
  /\ len = 0
  /\ consumer' = "unlocked"
  /\ UNCHANGED <<ring, enqueued, dropped, drained, cancel, popped, arrivals>>

(* dequeue after the unlock: return null if cancelled, else sleep and look *)
(* again. *)
LoadCancel ==
  /\ consumer = "unlocked"
  /\ consumer' = IF cancel THEN "returned null" ELSE "polling"
  /\ UNCHANGED <<ring, enqueued, dropped, drained, cancel, popped, arrivals>>

(* The owner of the consumer flips its cancel flag. *)
Cancel ==
  /\ cancel' = TRUE
  /\ UNCHANGED <<ring, enqueued, dropped, drained, consumer, popped, arrivals>>

Next ==
  \/ \E msg \in Messages : Enqueue(msg)
  \/ Pop
  \/ SeeEmpty
  \/ LoadCancel
  \/ Cancel

Spec == Init /\ [][Next]_vars

-----------------------------------------------------------------------------
TypeOK ==
  /\ buffer \in [Slots -> Messages \cup {Undefined}]
  /\ head \in Slots
  /\ len \in 0 .. Capacity
  /\ enqueued \in Nat
  /\ dropped \in Nat
  /\ drained \in Nat
  /\ cancel \in BOOLEAN
  /\ consumer \in {"polling", "unlocked", "returned null"}
  /\ popped \in Messages \cup {Undefined}
  /\ arrivals \in Seq(Messages)

(* Backpressure loses nothing silently: every message a receive thread     *)
(* enqueued is still held, was handed out, or was counted as dropped.      *)
(* Eviction and removal touch head, len and the counters in four places of *)
(* enqueue and dequeue; one update missed there breaks the balance.        *)
Conservation == enqueued = dropped + drained + len

(* The queue always holds the newest `len` messages in arrival order, over *)
(* every wrap-around of head and tail: a slot is never overwritten while   *)
(* its message is still the consumer's to take, nor read twice.            *)
HoldsNewest ==
  /\ Len(arrivals) = enqueued
  /\ \A i \in 1 .. len :
       buffer[Slot(head + i - 1)] = arrivals[enqueued - len + i]

(* The ring buffer implements the drop-oldest queue (header comment of     *)
(* dispatch.zig, lines 17-22). *)
Queue == INSTANCE DropOldestQueue WITH queue <- Contents
ImplementsQueue == Queue!Spec

(* The comment on dequeue (lines 115-117): null is returned once cancel is *)
(* seen "while the queue is empty".                                        *)
NullOnlyWhenEmpty ==
  [][consumer' = "returned null" /\ consumer # "returned null" => len = 0]_vars
=============================================================================
