-------------------------------- MODULE TxQueue ---------------------------------
(***************************************************************************)
(* src/src/wifi_queue.cpp: the ring buffer of channels waiting to transmit.   *)
(* One slot stays empty so that head = tail means empty, never full.  Only    *)
(* the Arduino loop calls it, so each call is one step.                       *)
(***************************************************************************)
EXTENDS Naturals, Sequences

CONSTANTS
    Item,                   \* what is queued: peer channels
    WIFI_SEND_QUEUE_MAX     \* the number of slots, 50 in the code

\* An index is a uint8_t: next_index must not wrap before the ring does.
ASSUME SlotAssumption == WIFI_SEND_QUEUE_MAX \in 2..255

VARIABLES
    item,       \* the slots
    head,       \* the slot to read next
    tail,       \* the slot to write next
    result      \* what the last call returned, see BoundedFifo

vars == <<item, head, tail, result>>

Slot == 0..(WIFI_SEND_QUEUE_MAX - 1)

Unused == "unused"

Refused == [ok |-> FALSE]
Done == [ok |-> TRUE]
Found(x) == [ok |-> TRUE, item |-> x]

TypeOK ==
    /\ item \in [Slot -> Item \cup {Unused}]
    /\ head \in Slot
    /\ tail \in Slot

wifi_queue_next_index(index) ==
    IF index + 1 >= WIFI_SEND_QUEUE_MAX THEN 0 ELSE index + 1

wifi_queue_is_empty == head = tail

\* Mutant: the last slot is given away too, and full looks like empty.
IsFullNever == FALSE

wifi_queue_is_full == wifi_queue_next_index(tail) = head

\* wifi_queue_init()
Init ==
    /\ item = [s \in Slot |-> Unused]
    /\ head = 0
    /\ tail = 0
    /\ result = Refused

wifi_queue_enqueue(x) ==
    /\ IF wifi_queue_is_full
       THEN /\ result' = Refused
            /\ UNCHANGED <<item, tail>>
       ELSE /\ item' = [item EXCEPT ![tail] = x]
            /\ tail' = wifi_queue_next_index(tail)
            /\ result' = Done
    /\ UNCHANGED head

wifi_queue_peek ==
    /\ result' = IF wifi_queue_is_empty THEN Refused ELSE Found(item[head])
    /\ UNCHANGED <<item, head, tail>>

wifi_queue_dequeue ==
    /\ IF wifi_queue_is_empty
       THEN /\ result' = Refused
            /\ UNCHANGED head
       ELSE /\ head' = wifi_queue_next_index(head)
            /\ result' = Done
    /\ UNCHANGED <<item, tail>>

Next ==
    \/ \E x \in Item : wifi_queue_enqueue(x)
    \/ wifi_queue_peek
    \/ wifi_queue_dequeue

Spec == Init /\ [][Next]_vars

-----------------------------------------------------------------------------
(* Properties *)

\* The number of items waiting, and the slot of the i-th of them.
Waiting == IF tail >= head THEN tail - head ELSE tail + WIFI_SEND_QUEUE_MAX - head

SlotOf(i) ==
    IF head + i - 1 >= WIFI_SEND_QUEUE_MAX
    THEN head + i - 1 - WIFI_SEND_QUEUE_MAX ELSE head + i - 1

\* The ring is a first-in first-out queue of WIFI_SEND_QUEUE_MAX - 1 places: the
\* items between head and tail, across the turn of the ring, are the queue.
Fifo == INSTANCE BoundedFifo WITH
    Capacity <- WIFI_SEND_QUEUE_MAX - 1,
    queue <- [i \in 1..Waiting |-> item[SlotOf(i)]]

ImplementsFifo == Fifo!Spec

=============================================================================
