--------------------------- MODULE DispatchProofs ---------------------------
(***************************************************************************)
(* Proofs about the inbound FIFO for every capacity and message set.       *)
(***************************************************************************)
EXTENDS Dispatch, SequenceTheorems, TLAPS

(* The ring's index arithmetic: inside one turn of the ring, Slot is the   *)
(* identity; in the next turn it subtracts the capacity once.              *)
LEMMA SlotArithmetic ==
  ASSUME NEW i \in 0 .. 2 * Capacity - 1
  PROVE  Slot(i) = IF i < Capacity THEN i ELSE i - Capacity
<1> USE DispatchAssumption DEF Slot
<1>1. CASE i < Capacity
  BY <1>1
<1>2. CASE i >= Capacity
  BY <1>2
<1> QED BY <1>1, <1>2

(* What the proofs of the steps use of the ring: the slot a message i      *)
(* places after the oldest one occupies lies in the buffer, and messages   *)
(* less than Capacity apart occupy different slots.                        *)
LEMMA SlotsDiffer ==
  ASSUME NEW h \in Slots,
         NEW i \in 0 .. Capacity, NEW j \in 0 .. Capacity - 1
  PROVE  /\ Slot(h + i) \in Slots
         /\ i < j => Slot(h + i) # Slot(h + j)
         /\ j < i /\ i < Capacity => Slot(h + i) # Slot(h + j)
<1>1. h + i \in 0 .. 2 * Capacity - 1 /\ h + j \in 0 .. 2 * Capacity - 1
  BY DispatchAssumption DEF Slots
<1>2. Slot(h + i) = IF h + i < Capacity THEN h + i ELSE h + i - Capacity
  BY <1>1, SlotArithmetic, DispatchAssumption DEF Slots
<1>3. Slot(h + j) = IF h + j < Capacity THEN h + j ELSE h + j - Capacity
  BY <1>1, SlotArithmetic, DispatchAssumption DEF Slots
<1> QED BY <1>1, <1>2, <1>3, DispatchAssumption DEF Slots

(* Advancing head by one slot renumbers the messages by one place.         *)
LEMMA SlotShift ==
  ASSUME NEW h \in Slots, NEW i \in 0 .. Capacity - 1
  PROVE  /\ Slot(h + 1) \in Slots
         /\ Slot(Slot(h + 1) + i) = Slot(h + (i + 1))
<1>1. /\ h + 1 \in 0 .. 2 * Capacity - 1
      /\ h + (i + 1) \in 0 .. 2 * Capacity - 1
  BY DispatchAssumption DEF Slots
<1>2. Slot(h + 1) = IF h + 1 < Capacity THEN h + 1 ELSE h + 1 - Capacity
  BY <1>1, SlotArithmetic, DispatchAssumption DEF Slots
<1>3. Slot(h + (i + 1)) = IF h + (i + 1) < Capacity THEN h + (i + 1)
                                                   ELSE h + (i + 1) - Capacity
  BY <1>1, SlotArithmetic, DispatchAssumption DEF Slots
<1>4. Slot(h + 1) \in Slots /\ Slot(h + 1) + i \in 0 .. 2 * Capacity - 1
  BY <1>1, <1>2, DispatchAssumption DEF Slots
<1>5. Slot(Slot(h + 1) + i) =
        IF Slot(h + 1) + i < Capacity THEN Slot(h + 1) + i
                                      ELSE Slot(h + 1) + i - Capacity
  BY <1>4, SlotArithmetic, DispatchAssumption DEF Slots
<1> QED BY <1>1, <1>2, <1>3, <1>4, <1>5, DispatchAssumption DEF Slots

-----------------------------------------------------------------------------
(* The types of the ring alone, and the slots a step touches.              *)
LEMMA RingTypes ==
  ASSUME TypeOK
  PROVE  /\ head \in Slots /\ head \in Int
         /\ len \in 0 .. Capacity /\ len \in Int
         /\ Slot(head + len) \in Slots
         /\ Slot(head + 1) \in Slots
         /\ Capacity \in Nat \ {0}
         /\ enqueued \in Nat /\ dropped \in Nat /\ drained \in Nat
<1>1. /\ head \in Slots /\ len \in 0 .. Capacity
      /\ enqueued \in Nat /\ dropped \in Nat /\ drained \in Nat
  BY DEF TypeOK
<1>2. 1 \in 0 .. Capacity /\ 0 \in 0 .. Capacity - 1
  BY DispatchAssumption
<1>3. head \in Int /\ len \in Int
  BY <1>1, DispatchAssumption DEF Slots
<1> QED BY SlotsDiffer, DispatchAssumption, <1>1, <1>2, <1>3

(* What an enqueue does to everything but the slots.                       *)
LEMMA EnqueueEffect ==
  ASSUME NEW msg \in Messages, Enqueue(msg)
  PROVE  /\ \/ len # Capacity /\ len' = len + 1 /\ head' = head /\ dropped' = dropped
            \/ /\ len = Capacity /\ len' = len /\ head' = Slot(head + 1)
               /\ dropped' = dropped + 1
         /\ enqueued' = enqueued + 1
         /\ drained' = drained
         /\ arrivals' = Append(arrivals, msg)
         /\ cancel' = cancel /\ consumer' = consumer /\ popped' = popped
BY DEF Enqueue, EnqueueInRoom, EnqueueEvicting

(* An enqueue keeps every type: the slot it writes lies in the buffer and  *)
(* len stays within the capacity. *)
LEMMA EnqueueTypes ==
  ASSUME TypeOK, NEW msg \in Messages, Enqueue(msg)
  PROVE  TypeOK'
<1>1. /\ enqueued' \in Nat /\ dropped' \in Nat /\ drained' \in Nat
      /\ len' \in 0 .. Capacity
  BY RingTypes, EnqueueEffect
<1>2. arrivals' \in Seq(Messages)
  <2>1. arrivals \in Seq(Messages) /\ arrivals' = Append(arrivals, msg)
    BY EnqueueEffect DEF TypeOK
  <2> QED BY <2>1
<1>3. head' \in Slots
  BY RingTypes, EnqueueEffect
<1>4. buffer' \in [Slots -> Messages \cup {Undefined}]
  BY DEF TypeOK, Enqueue, EnqueueInRoom, EnqueueEvicting
<1> QED BY <1>1, <1>2, <1>3, <1>4, EnqueueEffect DEF TypeOK

(* A pop keeps every type: head stays in the ring and what is handed out   *)
(* came from a slot. *)
LEMMA PopTypes ==
  ASSUME TypeOK, Pop
  PROVE  TypeOK'
<1>1. head' \in Slots
  BY RingTypes DEF Pop
<1>2. len' \in 0 .. Capacity
  BY RingTypes, DispatchAssumption DEF Pop
<1>3. popped' \in Messages \cup {Undefined}
  BY RingTypes DEF TypeOK, Pop
<1>4. drained' \in Nat
  BY DEF TypeOK, Pop
<1> QED BY <1>1, <1>2, <1>3, <1>4 DEF TypeOK, Pop

(* Every variable of the FIFO keeps its type: head and len never leave the *)
(* ring, whatever the interleaving of receive threads and consumer.        *)
THEOREM TypeCorrect == Spec => []TypeOK
<1>1. Init => TypeOK
  <2>1. 0 \in Slots /\ 0 \in 0 .. Capacity
    BY DispatchAssumption DEF Slots
  <2> QED BY <2>1 DEF Init, TypeOK
<1>2. TypeOK /\ [Next]_vars => TypeOK'
  <2> SUFFICES ASSUME TypeOK, [Next]_vars PROVE TypeOK'
    OBVIOUS
  <2>1. ASSUME NEW msg \in Messages, Enqueue(msg) PROVE TypeOK'
    BY <2>1, EnqueueTypes
  <2>2. CASE Pop
    BY <2>2, PopTypes
  <2>3. CASE SeeEmpty
    BY <2>3 DEF TypeOK, SeeEmpty, ring
  <2>4. CASE LoadCancel
    BY <2>4 DEF TypeOK, LoadCancel, ring
  <2>5. CASE Cancel
    BY <2>5 DEF TypeOK, Cancel, ring
  <2>6. CASE UNCHANGED vars
    BY <2>6 DEF TypeOK, vars
  <2> QED BY <2>1, <2>2, <2>3, <2>4, <2>5, <2>6 DEF Next
<1> QED BY <1>1, <1>2, PTL DEF Spec

(* Conservation needs no more than the types.                              *)
THEOREM CountersBalance == Spec => []Conservation
<1>1. Init => Conservation
  BY DEF Init, Conservation
<1>2. TypeOK /\ Conservation /\ [Next]_vars => Conservation'
  <2> SUFFICES ASSUME TypeOK, Conservation, [Next]_vars PROVE Conservation'
    OBVIOUS
  <2> USE RingTypes DEF Conservation
  <2>1. ASSUME NEW msg \in Messages, Enqueue(msg) PROVE Conservation'
    BY <2>1, EnqueueEffect
  <2>2. CASE Pop
    BY <2>2 DEF Pop
  <2>3. CASE SeeEmpty \/ LoadCancel \/ Cancel \/ UNCHANGED vars
    BY <2>3 DEF SeeEmpty, LoadCancel, Cancel, ring, vars
  <2> QED BY <2>1, <2>2, <2>3 DEF Next
<1> QED BY <1>1, <1>2, TypeCorrect, PTL DEF Spec

-----------------------------------------------------------------------------
(* The inductive invariant behind HoldsNewest: the balance of the counters *)
(* places the window of held messages within the arrivals.                 *)
IInv == TypeOK /\ Conservation /\ HoldsNewest

(* HoldsNewest of one held message.                                        *)
Held(i) == buffer[Slot(head + i - 1)] = arrivals[enqueued - len + i]

(* An enqueue keeps the window: the slot it writes is the one after the    *)
(* newest message, and no other held message occupies that slot. *)
LEMMA EnqueuePreserves ==
  ASSUME IInv, NEW msg \in Messages, Enqueue(msg)
  PROVE  HoldsNewest'
<1>0. /\ TypeOK /\ Conservation /\ HoldsNewest /\ TypeOK'
      /\ buffer \in [Slots -> Messages \cup {Undefined}]
      /\ arrivals \in Seq(Messages)
  BY EnqueueTypes DEF IInv, TypeOK
<1> USE <1>0, RingTypes
<1>1. /\ Len(arrivals') = enqueued'
      /\ arrivals'[enqueued'] = msg
      /\ \A k \in 1 .. enqueued : arrivals'[k] = arrivals[k]
  <2>1. arrivals' = Append(arrivals, msg) /\ Len(arrivals) = enqueued
        /\ enqueued' = enqueued + 1
    BY EnqueueEffect DEF HoldsNewest
  <2> QED BY <2>1
<1>2. ASSUME NEW h \in Slots, NEW n \in 0 .. Capacity - 1,
             buffer' = [buffer EXCEPT ![Slot(h + n)] = msg],
             NEW i \in 1 .. n
      PROVE  buffer'[Slot(h + i - 1)] = buffer[Slot(h + i - 1)]
  <2>1. i - 1 \in 0 .. Capacity /\ i - 1 \in 0 .. Capacity - 1
        /\ h \in Int /\ h + i - 1 = h + (i - 1) /\ i - 1 < n
    BY <1>2 DEF Slots
  <2>2. Slot(h + (i - 1)) # Slot(h + n) /\ Slot(h + (i - 1)) \in Slots
    BY <2>1, SlotsDiffer
  <2> QED BY <1>2, <2>1, <2>2
<1>3. CASE EnqueueInRoom(msg)
  <2>1. /\ len' = len + 1 /\ head' = head /\ len \in 0 .. Capacity - 1
        /\ enqueued' = enqueued + 1
    BY <1>3, EnqueueEffect DEF EnqueueInRoom
  <2>2. buffer' = [buffer EXCEPT ![Slot(head + len)] = msg]
    BY <1>3 DEF EnqueueInRoom
  <2>3. ASSUME NEW i \in 1 .. len' PROVE Held(i)'
    <3>1. CASE i = len'
      <4>1. head' + i - 1 = head + len /\ enqueued' - len' + i = enqueued'
        BY <2>1, <3>1
      <4>2. buffer'[Slot(head + len)] = msg
        BY <2>2
      <4> QED BY <1>1, <4>1, <4>2 DEF Held
    <3>2. CASE i # len'
      <4>1. /\ i \in 1 .. len /\ head' + i - 1 = head + i - 1
            /\ enqueued' - len' + i = enqueued - len + i
            /\ enqueued - len + i \in 1 .. enqueued
        BY <2>1, <2>3, <3>2 DEF Conservation
      <4>2. buffer'[Slot(head + i - 1)] = buffer[Slot(head + i - 1)]
        BY <1>2, <2>1, <2>2, <4>1
      <4>3. buffer[Slot(head + i - 1)] = arrivals[enqueued - len + i]
        BY <4>1 DEF HoldsNewest
      <4> QED BY <1>1, <4>1, <4>2, <4>3 DEF Held
    <3> QED BY <3>1, <3>2
  <2> QED BY <1>1, <2>3 DEF HoldsNewest, Held
<1>4. CASE EnqueueEvicting(msg)
  <2>1. /\ len' = len /\ len = Capacity /\ head' = Slot(head + 1)
        /\ head' \in Slots /\ head' \in Int /\ len - 1 \in 0 .. Capacity - 1
        /\ enqueued' = enqueued + 1
    BY <1>4, EnqueueEffect DEF EnqueueEvicting, Slots
  <2>2. buffer' = [buffer EXCEPT ![Slot(head' + (len - 1))] = msg]
    BY <1>4 DEF EnqueueEvicting
  <2>3. ASSUME NEW i \in 1 .. len' PROVE Held(i)'
    <3>1. CASE i = len'
      <4>1. head' + i - 1 = head' + (len - 1) /\ enqueued' - len' + i = enqueued'
        BY <2>1, <3>1
      <4>2. Slot(head' + (len - 1)) \in Slots
        <5>1. len - 1 \in 0 .. Capacity /\ 0 \in 0 .. Capacity - 1
          BY <2>1
        <5> QED BY <2>1, <5>1, SlotsDiffer
      <4>3. buffer'[Slot(head' + (len - 1))] = msg
        BY <2>2, <4>2
      <4> QED BY <1>1, <4>1, <4>3 DEF Held
    <3>2. CASE i # len'
      <4>1. /\ i \in 1 .. len - 1 /\ i + 1 \in 1 .. len /\ i - 1 \in 0 .. Capacity - 1
            /\ head' + i - 1 = head' + (i - 1)
            /\ head + ((i - 1) + 1) = head + (i + 1) - 1
            /\ enqueued' - len' + i = enqueued - len + (i + 1)
            /\ enqueued - len + (i + 1) \in 1 .. enqueued
        <5>1. enqueued = dropped + drained + len
          BY DEF Conservation
        <5>2. i \in 1 .. len - 1
          BY <2>1, <2>3, <3>2
        <5>3. /\ i + 1 \in 1 .. len /\ i - 1 \in 0 .. Capacity - 1
              /\ enqueued - len + (i + 1) \in 1 .. enqueued
          BY <5>1, <5>2
        <5>4. /\ head' + i - 1 = head' + (i - 1)
              /\ head + ((i - 1) + 1) = head + (i + 1) - 1
          BY <2>1, <5>2
        <5>5. enqueued' - len' + i = enqueued - len + (i + 1)
          BY <2>1, <5>2
        <5> QED BY <5>2, <5>3, <5>4, <5>5
      <4>2. buffer'[Slot(head' + i - 1)] = buffer[Slot(head' + i - 1)]
        BY <1>2, <2>1, <2>2, <4>1
      <4>3. Slot(head' + (i - 1)) = Slot(head + ((i - 1) + 1))
        BY <2>1, <4>1, SlotShift
      <4>4. buffer[Slot(head + (i + 1) - 1)] = arrivals[enqueued - len + (i + 1)]
        BY <4>1 DEF HoldsNewest
      <4> QED BY <1>1, <4>1, <4>2, <4>3, <4>4 DEF Held
    <3> QED BY <3>1, <3>2
  <2> QED BY <1>1, <2>3 DEF HoldsNewest, Held
<1> QED BY <1>3, <1>4 DEF Enqueue

(* A pop keeps the window: it starts one arrival later. *)
LEMMA PopPreserves ==
  ASSUME IInv, Pop
  PROVE  HoldsNewest'
<1>0. TypeOK /\ Conservation /\ HoldsNewest
  BY DEF IInv
<1> USE <1>0, RingTypes
<1>1. /\ len' = len - 1 /\ head' = Slot(head + 1)
      /\ buffer' = buffer /\ arrivals' = arrivals /\ enqueued' = enqueued
      /\ head' \in Int
  BY DEF Pop, Slots
<1>2. ASSUME NEW i \in 1 .. len' PROVE Held(i)'
  <2>1. /\ i + 1 \in 1 .. len /\ i - 1 \in 0 .. Capacity - 1
        /\ head' + i - 1 = head' + (i - 1)
        /\ head + ((i - 1) + 1) = head + (i + 1) - 1
        /\ enqueued' - len' + i = enqueued - len + (i + 1)
    BY <1>1, <1>2
  <2>2. Slot(head' + (i - 1)) = Slot(head + ((i - 1) + 1))
    BY <1>1, <2>1, SlotShift
  <2>3. buffer[Slot(head + (i + 1) - 1)] = arrivals[enqueued - len + (i + 1)]
    BY <2>1 DEF HoldsNewest
  <2> QED BY <1>1, <2>1, <2>2, <2>3 DEF Held
<1> QED BY <1>1, <1>2 DEF HoldsNewest, Held

(* For every capacity, the queue holds the newest messages in arrival      *)
(* order: no slot is overwritten while its message waits, or read twice.   *)
THEOREM NewestHeld == Spec => []HoldsNewest
<1>1. Init => HoldsNewest
  BY DEF Init, HoldsNewest
<1>2. IInv /\ [Next]_vars => HoldsNewest'
  <2> SUFFICES ASSUME IInv, [Next]_vars PROVE HoldsNewest'
    OBVIOUS
  <2>1. ASSUME NEW msg \in Messages, Enqueue(msg) PROVE HoldsNewest'
    BY <2>1, EnqueuePreserves
  <2>2. CASE Pop
    BY <2>2, PopPreserves
  <2>3. CASE SeeEmpty \/ LoadCancel \/ Cancel \/ UNCHANGED vars
    BY <2>3 DEF IInv, HoldsNewest, SeeEmpty, LoadCancel, Cancel, ring, vars
  <2> QED BY <2>1, <2>2, <2>3 DEF Next
<1> QED BY <1>1, <1>2, TypeCorrect, CountersBalance, PTL DEF Spec, IInv

-----------------------------------------------------------------------------
(* The abstract queue's contents, seen through the invariant: a sequence   *)
(* whose elements are the newest arrivals, wherever the ring keeps them.   *)
WindowOfArrivals ==
  /\ Contents \in Seq(Messages)
  /\ Len(Contents) = len
  /\ \A i \in 1 .. len : Contents[i] = arrivals[enqueued - len + i]

(* In every reachable state the abstract contents are that window. *)
LEMMA ContentsAreNewest == IInv => WindowOfArrivals
<1> SUFFICES ASSUME IInv PROVE WindowOfArrivals
  OBVIOUS
<1>0. TypeOK /\ Conservation /\ HoldsNewest /\ arrivals \in Seq(Messages)
  BY DEF IInv, TypeOK
<1>1. \A i \in 1 .. len : Contents[i] = arrivals[enqueued - len + i]
  BY <1>0 DEF Contents, HoldsNewest
<1>2. \A i \in 1 .. len : Contents[i] \in Messages
  <2>1. \A i \in 1 .. len : enqueued - len + i \in 1 .. Len(arrivals)
    BY <1>0, RingTypes DEF Conservation, HoldsNewest
  <2> QED BY <1>0, <1>1, <2>1, ElementOfSeq
<1>3. Contents \in [1 .. len -> Messages]
  BY <1>2 DEF Contents
<1>4. Contents \in Seq(Messages) /\ Len(Contents) = len
  BY <1>0, <1>3, RingTypes
<1> QED BY <1>1, <1>4 DEF WindowOfArrivals

(* The same of the next state. *)
LEMMA ContentsAreNewestNext == IInv' => WindowOfArrivals'
BY ContentsAreNewest, PTL

(* An enqueue in room is Accept of the abstract queue, an evicting one is  *)
(* Displace. *)
LEMMA EnqueueRefines ==
  ASSUME IInv, IInv', NEW msg \in Messages, Enqueue(msg)
  PROVE  Queue!Accept(msg) \/ Queue!Displace(msg)
<1>0. TypeOK /\ Conservation /\ Len(arrivals) = enqueued /\ arrivals \in Seq(Messages)
  BY DEF IInv, TypeOK, HoldsNewest
<1>1. /\ Contents \in Seq(Messages) /\ Len(Contents) = len
      /\ \A i \in 1 .. len : Contents[i] = arrivals[enqueued - len + i]
  BY ContentsAreNewest DEF WindowOfArrivals
<1>2. /\ Contents' \in Seq(Messages) /\ Len(Contents') = len'
      /\ \A i \in 1 .. len' : Contents'[i] = arrivals'[enqueued' - len' + i]
  BY ContentsAreNewestNext DEF WindowOfArrivals
<1>3. /\ arrivals'[enqueued'] = msg
      /\ \A k \in 1 .. enqueued : arrivals'[k] = arrivals[k]
  <2>1. arrivals' = Append(arrivals, msg) /\ enqueued' = enqueued + 1
    BY EnqueueEffect
  <2> QED BY <1>0, <2>1, RingTypes
<1>n. /\ len \in Nat /\ len <= Capacity /\ Capacity \in Nat \ {0}
      /\ enqueued \in Nat /\ dropped \in Nat /\ drained \in Nat
  BY <1>0, RingTypes
<1>4. enqueued = dropped + drained + len
  BY <1>0 DEF Conservation
<1> HIDE DEF Contents
<1>5. CASE len # Capacity
  <2>1. len' = len + 1 /\ dropped' = dropped /\ enqueued' = enqueued + 1
    BY <1>5, EnqueueEffect
  <2>2. \A i \in 1 .. len + 1 : Contents'[i] = Append(Contents, msg)[i]
    <3> TAKE i \in 1 .. len + 1
    <3>1. CASE i = len + 1
      BY <1>1, <1>2, <1>3, <1>n, <2>1, <3>1
    <3>2. CASE i # len + 1
      <4>1. i \in 1 .. len /\ enqueued' - len' + i = enqueued - len + i
            /\ enqueued - len + i \in 1 .. enqueued
        BY <1>4, <1>n, <2>1, <3>2
      <4>2. Append(Contents, msg)[i] = Contents[i]
        BY <1>1, <4>1
      <4> QED BY <1>1, <1>2, <1>3, <2>1, <4>1, <4>2
    <3> QED BY <3>1, <3>2
  <2>3. Contents' = Append(Contents, msg)
    <3>1. Append(Contents, msg) \in Seq(Messages) /\ Len(Append(Contents, msg)) = len + 1
      BY <1>1
    <3> QED BY <1>2, <2>1, <2>2, <3>1, SeqEqual
  <2>4. Len(Contents) < Capacity
    BY <1>0, <1>1, <1>5, RingTypes
  <2> QED BY <2>1, <2>3, <2>4, EnqueueEffect DEF Queue!Accept
<1>6. CASE len = Capacity
  <2>1. len' = len /\ dropped' = dropped + 1 /\ enqueued' = enqueued + 1
    BY <1>0, <1>6, EnqueueEffect, RingTypes
  <2>2. /\ Tail(Contents) \in Seq(Messages) /\ Len(Tail(Contents)) = len - 1
        /\ \A i \in 1 .. len - 1 : Tail(Contents)[i] = Contents[i + 1]
    <3>1. Contents # << >>
      BY <1>0, <1>1, <1>6, RingTypes
    <3> QED BY <1>0, <1>1, <3>1, HeadTailProperties
  <2>3. \A i \in 1 .. len : Contents'[i] = Append(Tail(Contents), msg)[i]
    <3> TAKE i \in 1 .. len
    <3>1. CASE i = len
      BY <1>0, <1>2, <1>3, <2>1, <2>2, <3>1, RingTypes
    <3>2. CASE i # len
      <4>1. /\ i \in 1 .. len - 1 /\ i + 1 \in 1 .. len
            /\ enqueued' - len' + i = enqueued - len + (i + 1)
            /\ enqueued - len + (i + 1) \in 1 .. enqueued
        BY <1>4, <1>n, <2>1, <3>2
      <4>2. Append(Tail(Contents), msg)[i] = Tail(Contents)[i]
        BY <2>2, <4>1
      <4> QED BY <1>1, <1>2, <1>3, <2>1, <2>2, <4>1, <4>2
    <3> QED BY <3>1, <3>2
  <2>4. Contents' = Append(Tail(Contents), msg)
    <3>1. /\ Append(Tail(Contents), msg) \in Seq(Messages)
          /\ Len(Append(Tail(Contents), msg)) = len
      BY <1>0, <2>2, RingTypes
    <3> QED BY <1>2, <2>1, <2>3, <3>1, SeqEqual
  <2> QED BY <1>1, <1>6, <2>1, <2>4, EnqueueEffect DEF Queue!Displace
<1> QED BY <1>5, <1>6

(* A pop is Take of the abstract queue. *)
LEMMA PopRefines ==
  ASSUME IInv, IInv', Pop
  PROVE  Queue!Take
<1>0. TypeOK /\ Conservation /\ Len(arrivals) = enqueued
  BY DEF IInv, TypeOK, HoldsNewest
<1>1. /\ Contents \in Seq(Messages) /\ Len(Contents) = len
      /\ \A i \in 1 .. len : Contents[i] = arrivals[enqueued - len + i]
  BY ContentsAreNewest DEF WindowOfArrivals
<1>2. /\ Contents' \in Seq(Messages) /\ Len(Contents') = len'
      /\ \A i \in 1 .. len' : Contents'[i] = arrivals'[enqueued' - len' + i]
  BY ContentsAreNewestNext DEF WindowOfArrivals
<1>3. /\ len > 0 /\ len' = len - 1 /\ enqueued' = enqueued /\ arrivals' = arrivals
      /\ dropped' = dropped /\ drained' = drained + 1 /\ popped' = buffer[head]
  BY DEF Pop
<1>4. popped' = Contents[1]
  <2>1. head % Capacity = head /\ head + 1 - 1 = head /\ 1 \in 1 .. len
    <3>1. head \in 0 .. Capacity - 1 /\ len \in Nat /\ Capacity \in Nat \ {0}
      BY <1>0, RingTypes DEF Slots
    <3> QED BY <1>3, <3>1
  <2> QED BY <1>3, <2>1 DEF Contents, Slot
<1> HIDE DEF Contents
<1>5. Contents # << >>
  BY <1>0, <1>1, <1>3, RingTypes
<1>6. /\ Tail(Contents) \in Seq(Messages) /\ Len(Tail(Contents)) = len - 1
      /\ \A i \in 1 .. len - 1 : Tail(Contents)[i] = Contents[i + 1]
  BY <1>0, <1>1, <1>5, HeadTailProperties
<1>7. \A i \in 1 .. len - 1 : Contents'[i] = Tail(Contents)[i]
  <2> TAKE i \in 1 .. len - 1
  <2>1. i + 1 \in 1 .. len /\ enqueued' - len' + i = enqueued - len + (i + 1)
    BY <1>0, <1>3, RingTypes
  <2> QED BY <1>1, <1>2, <1>3, <1>6, <2>1
<1>8. Contents' = Tail(Contents)
  BY <1>0, <1>2, <1>3, <1>6, <1>7, RingTypes, SeqEqual
<1> QED BY <1>3, <1>4, <1>5, <1>8 DEF Queue!Take

(* The ring buffer implements the drop-oldest FIFO, for every capacity:    *)
(* each enqueue and each pop is a step of the abstract queue, and the      *)
(* consumer's polling of an empty queue and of its flag is invisible.      *)
THEOREM RingImplementsQueue == Spec => ImplementsQueue
<1>1. Init => Queue!Init
  <2> SUFFICES ASSUME Init PROVE Queue!Init
    OBVIOUS
  <2>1. IInv
    <3>1. 0 \in Slots /\ 0 \in 0 .. Capacity
      BY DispatchAssumption DEF Slots
    <3> QED BY <3>1 DEF Init, IInv, TypeOK, Conservation, HoldsNewest
  <2>2. Contents \in Seq(Messages) /\ Len(Contents) = 0
    BY <2>1, ContentsAreNewest DEF WindowOfArrivals, Init
  <2>3. Contents = << >>
    BY <2>2, EmptySeq
  <2> QED BY <2>3 DEF Init, Queue!Init
<1>2. IInv /\ IInv' /\ [Next]_vars => [Queue!Next]_(Queue!vars)
  <2> SUFFICES ASSUME IInv, IInv', [Next]_vars
               PROVE  Queue!Next \/ UNCHANGED Queue!vars
    OBVIOUS
  <2>1. ASSUME NEW msg \in Messages, Enqueue(msg) PROVE Queue!Next
    BY <2>1, EnqueueRefines DEF Queue!Next
  <2>2. CASE Pop
    BY <2>2, PopRefines DEF Queue!Next
  <2>3. CASE SeeEmpty \/ LoadCancel \/ Cancel \/ UNCHANGED vars
    <3>1. /\ buffer' = buffer /\ head' = head /\ len' = len
          /\ enqueued' = enqueued /\ dropped' = dropped /\ drained' = drained
          /\ popped' = popped
      BY <2>3 DEF SeeEmpty, LoadCancel, Cancel, ring, vars
    <3>2. Contents' = Contents
      BY <3>1 DEF Contents
    <3> QED BY <3>1, <3>2 DEF Queue!vars
  <2> QED BY <2>1, <2>2, <2>3 DEF Next
<1>3. Spec => []IInv
  BY TypeCorrect, CountersBalance, NewestHeld, PTL DEF IInv
<1> QED BY <1>1, <1>2, <1>3, PTL DEF Spec, ImplementsQueue, Queue!Spec
=============================================================================
