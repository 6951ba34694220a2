----------------------------- MODULE TxQueue_proof ------------------------------
(* The send queue is a bounded FIFO for every number of slots and every item set. *)
EXTENDS TxQueue, SequenceTheorems, TLAPS

USE SlotAssumption

\* The next index stays in the ring: one further, or back at the start.
LEMMA NextIndexInRing ==
    ASSUME NEW s \in Slot
    PROVE  /\ wifi_queue_next_index(s) \in Slot
           /\ wifi_queue_next_index(s) =
                (IF s = WIFI_SEND_QUEUE_MAX - 1 THEN 0 ELSE s + 1)
BY DEF Slot, wifi_queue_next_index

\* The indices stay in the ring and every slot holds a channel or nothing.
THEOREM TypeCorrect == Spec => []TypeOK
<1>1. Init => TypeOK
    BY DEF Init, TypeOK, Slot
<1>2. TypeOK /\ [Next]_vars => TypeOK'
    <2> SUFFICES ASSUME TypeOK, [Next]_vars PROVE TypeOK'
        OBVIOUS
    <2>1. ASSUME NEW x \in Item, wifi_queue_enqueue(x) PROVE TypeOK'
        BY <2>1, NextIndexInRing DEF TypeOK, wifi_queue_enqueue
    <2>2. CASE wifi_queue_peek
        BY <2>2 DEF TypeOK, wifi_queue_peek
    <2>3. CASE wifi_queue_dequeue
        BY <2>3, NextIndexInRing DEF TypeOK, wifi_queue_dequeue
    <2>4. CASE UNCHANGED vars
        BY <2>4 DEF TypeOK, vars
    <2> QED
        BY <2>1, <2>2, <2>3, <2>4 DEF Next
<1> QED
    BY <1>1, <1>2, PTL DEF Spec

-----------------------------------------------------------------------------
(* The refinement *)

\* The queue the ring stands for, BoundedFifo's variable.
Queue == [i \in 1..Waiting |-> item[SlotOf(i)]]

\* The waiting items fill no more than all slots but one, and each has a slot.
LEMMA WaitingFits ==
    ASSUME TypeOK
    PROVE  /\ Waiting \in 0..(WIFI_SEND_QUEUE_MAX - 1)
           /\ \A i \in 1..(Waiting + 1) : SlotOf(i) \in Slot
           /\ SlotOf(Waiting + 1) = tail
           /\ Waiting > 0 => SlotOf(1) = head
           /\ Waiting = 0 <=> wifi_queue_is_empty
           /\ Waiting = WIFI_SEND_QUEUE_MAX - 1 <=> wifi_queue_is_full
           /\ \A i \in 1..Waiting : SlotOf(i) # tail
<1> USE DEF TypeOK, Slot, Waiting, SlotOf
<1>1. Waiting \in 0..(WIFI_SEND_QUEUE_MAX - 1)
    OBVIOUS
<1>2. \A i \in 1..(Waiting + 1) : SlotOf(i) \in Slot
    OBVIOUS
<1>3. SlotOf(Waiting + 1) = tail
    OBVIOUS
<1>4. Waiting > 0 => SlotOf(1) = head
    OBVIOUS
<1>5. Waiting = 0 <=> wifi_queue_is_empty
    BY DEF wifi_queue_is_empty
<1>6. Waiting = WIFI_SEND_QUEUE_MAX - 1 <=> wifi_queue_is_full
    BY DEF wifi_queue_is_full, wifi_queue_next_index
<1>7. \A i \in 1..Waiting : SlotOf(i) # tail
    OBVIOUS
<1> QED
    BY <1>1, <1>2, <1>3, <1>4, <1>5, <1>6, <1>7

\* Length and elements of that queue.
QueueShape ==
    /\ Queue \in Seq(Item \cup {Unused})
    /\ Len(Queue) = Waiting
    /\ \A i \in 1..Waiting : Queue[i] = item[SlotOf(i)]

LEMMA Shape == TypeOK => QueueShape
<1> SUFFICES ASSUME TypeOK PROVE QueueShape
    OBVIOUS
<1>1. Waiting \in Nat
    BY WaitingFits
<1>2. \A i \in 1..Waiting : item[SlotOf(i)] \in Item \cup {Unused}
    BY WaitingFits DEF TypeOK
<1>3. Queue \in Seq(Item \cup {Unused}) /\ Len(Queue) = Waiting
    BY <1>1, <1>2 DEF Queue
<1> QED
    BY <1>3 DEF Queue, QueueShape

LEMMA ShapeNext == TypeOK' => QueueShape'
BY Shape, PTL

LEMMA EmptyQueue ==
    ASSUME TypeOK
    PROVE  Queue = <<>> <=> wifi_queue_is_empty
<1>1. Queue = <<>> <=> Waiting = 0
    BY Shape, WaitingFits, EmptySeq DEF QueueShape
<1> QED
    BY <1>1, WaitingFits

\* A successful enqueue appends to the queue the ring stands for.
LEMMA EnqueueAppends ==
    ASSUME TypeOK, TypeOK', NEW x \in Item, wifi_queue_enqueue(x), ~wifi_queue_is_full
    PROVE  Queue' = Append(Queue, x)
<1>1. /\ item' = [item EXCEPT ![tail] = x]
      /\ tail' = wifi_queue_next_index(tail)
      /\ head' = head
    BY DEF wifi_queue_enqueue
<1>2. Waiting' = Waiting + 1 /\ Waiting \in Nat
    <2>1. tail' = IF tail = WIFI_SEND_QUEUE_MAX - 1 THEN 0 ELSE tail + 1
        BY <1>1, NextIndexInRing DEF TypeOK
    <2>2. tail' # head
        BY <1>1 DEF wifi_queue_is_full
    <2> QED
        BY <1>1, <2>1, <2>2 DEF TypeOK, Slot, Waiting
<1>3. \A i \in Nat : SlotOf(i)' = SlotOf(i)
    <2> TAKE i \in Nat
    <2> QED
        BY <1>1, Zenon DEF SlotOf
<1>4. \A i \in 1..Waiting : Queue'[i] = Queue[i]
    <2>1. \A i \in 1..Waiting : item'[SlotOf(i)] = item[SlotOf(i)]
        BY <1>1, WaitingFits DEF TypeOK
    <2>2. \A i \in 1..Waiting : Queue'[i] = item'[SlotOf(i)']
        BY <1>2, ShapeNext DEF QueueShape
    <2> QED
        BY <1>2, <1>3, <2>1, <2>2, Shape DEF QueueShape
<1>5. Queue'[Waiting + 1] = x
    <2>1. item'[SlotOf(Waiting + 1)] = x
        BY <1>1, WaitingFits DEF TypeOK
    <2>2. Queue'[Waiting + 1] = item'[SlotOf(Waiting + 1)]
        <3> DEFINE n == Waiting + 1
        <3>1. \A i \in 1..Waiting' : Queue'[i] = item'[SlotOf(i)']
            BY ShapeNext DEF QueueShape
        <3>2. \A i \in 1..(Waiting + 1) : Queue'[i] = item'[SlotOf(i)]
            BY <1>2, <1>3, <3>1
        <3> QED
            BY <1>2, <3>2
    <2> QED
        BY <2>1, <2>2
<1>6. /\ Queue' \in Seq(Item \cup {Unused})
      /\ Len(Queue') = Waiting + 1
      /\ Queue \in Seq(Item \cup {Unused})
      /\ Len(Queue) = Waiting
    BY <1>2, Shape, ShapeNext DEF QueueShape
<1>7. /\ Append(Queue, x) \in Seq(Item \cup {Unused})
      /\ Len(Append(Queue, x)) = Waiting + 1
      /\ \A i \in 1..Waiting : Append(Queue, x)[i] = Queue[i]
      /\ Append(Queue, x)[Waiting + 1] = x
    BY <1>6, AppendProperties
<1>8. \A i \in 1..(Waiting + 1) : Queue'[i] = Append(Queue, x)[i]
    BY <1>2, <1>4, <1>5, <1>7
<1> HIDE DEF Queue, Waiting
<1> QED
    BY <1>6, <1>7, <1>8, SeqEqual

\* A successful dequeue drops the oldest item.
LEMMA DequeueDropsHead ==
    ASSUME TypeOK, TypeOK', wifi_queue_dequeue, ~wifi_queue_is_empty
    PROVE  Queue' = Tail(Queue)
<1>1. /\ head' = wifi_queue_next_index(head)
      /\ UNCHANGED <<item, tail>>
    BY DEF wifi_queue_dequeue
<1>2. Waiting \in Nat \ {0}
    BY WaitingFits
<1>3. head' = IF head = WIFI_SEND_QUEUE_MAX - 1 THEN 0 ELSE head + 1
    BY <1>1, NextIndexInRing DEF TypeOK
<1>4. Waiting' = Waiting - 1
    BY <1>1, <1>3 DEF TypeOK, Slot, Waiting, wifi_queue_is_empty
<1>5. \A i \in 1..(Waiting - 1) : SlotOf(i)' = SlotOf(i + 1)
    BY <1>3, <1>2, WaitingFits DEF TypeOK, Slot, SlotOf
<1>6. \A i \in 1..(Waiting - 1) : Queue'[i] = Queue[i + 1]
    <2>1. \A i \in 1..(Waiting - 1) : Queue'[i] = item'[SlotOf(i)']
        BY <1>4, ShapeNext DEF QueueShape
    <2>2. \A i \in 1..(Waiting - 1) : Queue[i + 1] = item[SlotOf(i + 1)]
        BY <1>2, Shape DEF QueueShape
    <2> QED
        BY <1>1, <1>5, <2>1, <2>2
<1>7. /\ Queue' \in Seq(Item \cup {Unused})
      /\ Len(Queue') = Waiting - 1
      /\ Queue \in Seq(Item \cup {Unused})
      /\ Queue # <<>>
      /\ Len(Queue) = Waiting
    BY <1>2, <1>4, Shape, ShapeNext, EmptyQueue DEF QueueShape
<1>8. /\ Tail(Queue) \in Seq(Item \cup {Unused})
      /\ Len(Tail(Queue)) = Waiting - 1
      /\ \A i \in 1..(Waiting - 1) : Tail(Queue)[i] = Queue[i + 1]
    BY <1>7, HeadTailProperties
<1> QED
    BY <1>6, <1>7, <1>8, SeqEqual

\* What peek hands out is the oldest item.
LEMMA PeekIsHead ==
    ASSUME TypeOK, ~wifi_queue_is_empty
    PROVE  Head(Queue) = item[head]
<1>1. Waiting \in Nat \ {0} /\ SlotOf(1) = head
    BY WaitingFits
<1>2. Head(Queue) = Queue[1]
    BY Shape, <1>1 DEF QueueShape
<1> QED
    BY <1>1, <1>2, Shape DEF QueueShape

\* The ring buffer is a first-in first-out queue of one place less than it has
\* slots, for every number of slots: nothing is lost or reordered when it turns.
THEOREM Refinement == Spec => ImplementsFifo
<1> USE DEF Refused, Done, Found, Fifo!Refused, Fifo!Done, Fifo!Found
<1>1. Init => Fifo!Init
    BY DEF Init, Fifo!Init, Waiting
<1>2. ASSUME TypeOK, TypeOK', [Next]_vars
      PROVE  [Fifo!Next]_(Fifo!vars)
    <2> USE <1>2
    <2>1. ASSUME NEW x \in Item, wifi_queue_enqueue(x)
          PROVE  Fifo!Enqueue(x)
        <3>1. CASE wifi_queue_is_full
            <4>1. ~(Len(Queue) < WIFI_SEND_QUEUE_MAX - 1)
                BY <3>1, WaitingFits, Shape DEF QueueShape
            <4>2. Queue' = Queue /\ result' = Refused
                BY <2>1, <3>1 DEF wifi_queue_enqueue, Queue, Waiting, SlotOf
            <4> QED
                BY <4>1, <4>2 DEF Fifo!Enqueue, Queue
        <3>2. CASE ~wifi_queue_is_full
            <4>1. Len(Queue) < WIFI_SEND_QUEUE_MAX - 1
                BY <3>2, WaitingFits, Shape DEF QueueShape
            <4>2. Queue' = Append(Queue, x) /\ result' = Done
                BY <2>1, <3>2, EnqueueAppends DEF wifi_queue_enqueue
            <4> QED
                BY <4>1, <4>2 DEF Fifo!Enqueue, Queue
        <3> QED
            BY <3>1, <3>2
    <2>2. CASE wifi_queue_peek
        <3>1. Queue' = Queue
            BY <2>2 DEF wifi_queue_peek, Queue, Waiting, SlotOf
        <3>2. result' = IF Queue = <<>> THEN Refused ELSE Found(Head(Queue))
            BY <2>2, PeekIsHead, EmptyQueue DEF wifi_queue_peek
        <3> QED
            BY <3>1, <3>2 DEF Fifo!Next, Fifo!Peek, Queue
    <2>3. CASE wifi_queue_dequeue
        <3>1. CASE wifi_queue_is_empty
            <4>1. Queue' = Queue /\ result' = Refused /\ Queue = <<>>
                BY <2>3, <3>1, EmptyQueue DEF wifi_queue_dequeue, Queue, Waiting, SlotOf
            <4> QED
                BY <4>1 DEF Fifo!Next, Fifo!Dequeue, Queue
        <3>2. CASE ~wifi_queue_is_empty
            <4>1. Queue' = Tail(Queue) /\ result' = Done /\ Queue # <<>>
                BY <2>3, <3>2, EmptyQueue, DequeueDropsHead DEF wifi_queue_dequeue
            <4> QED
                BY <4>1 DEF Fifo!Next, Fifo!Dequeue, Queue
        <3> QED
            BY <3>1, <3>2
    <2>4. CASE UNCHANGED vars
        BY <2>4 DEF vars, Fifo!vars, Waiting, SlotOf
    <2> QED
        BY <2>1, <2>2, <2>3, <2>4 DEF Next, Fifo!Next
<1> QED
    BY <1>1, <1>2, TypeCorrect, PTL DEF Spec, ImplementsFifo, Fifo!Spec

=============================================================================
