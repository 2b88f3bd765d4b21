-------------------------- MODULE DropOldestQueue --------------------------
(***************************************************************************)
(* What the inbound FIFO of src/channels/dispatch.zig promises, without    *)
(* its ring buffer: a queue of at most Capacity messages that never blocks *)
(* a producer, gives up its oldest message when a new one finds it full,   *)
(* hands messages out in arrival order, and counts what it does.           *)
(***************************************************************************)
EXTENDS Integers, Sequences

CONSTANTS
  Messages,   \* the inbound messages channels can deliver
  Capacity,   \* how many messages the queue holds
  Undefined   \* "no message handed out yet"

VARIABLES
  queue,      \* waiting messages, oldest first
  enqueued,   \* messages accepted so far
  dropped,    \* messages evicted to make room
  drained,    \* messages handed to the consumer
  popped      \* the message handed out last

vars == <<queue, enqueued, dropped, drained, popped>>

Init ==
  /\ queue = << >>
  /\ enqueued = 0
  /\ dropped = 0
  /\ drained = 0
  /\ popped = Undefined

(* A message finds room. *)
Accept(msg) ==
  /\ Len(queue) < Capacity
  /\ queue' = Append(queue, msg)
  /\ enqueued' = enqueued + 1
  /\ UNCHANGED <<dropped, drained, popped>>

(* A message finds the queue full and displaces the oldest one. *)
Displace(msg) ==
  /\ Len(queue) = Capacity
  /\ queue' = Append(Tail(queue), msg)
  /\ enqueued' = enqueued + 1
  /\ dropped' = dropped + 1
  /\ UNCHANGED <<drained, popped>>

(* The consumer takes the oldest message. *)
Take ==
  /\ queue # << >>
  /\ popped' = Head(queue)
  /\ queue' = Tail(queue)
  /\ drained' = drained + 1
  /\ UNCHANGED <<enqueued, dropped>>

Next ==
  \/ \E msg \in Messages : Accept(msg) \/ Displace(msg)
  \/ Take

Spec == Init /\ [][Next]_vars
=============================================================================
