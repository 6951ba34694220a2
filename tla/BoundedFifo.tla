------------------------------- MODULE BoundedFifo ------------------------------
(***************************************************************************)
(* What the send queue of src/src/wifi_queue.cpp promises: first in, first    *)
(* out, nothing lost, nothing invented, and a refused call changes nothing.   *)
(***************************************************************************)
EXTENDS Naturals, Sequences

CONSTANTS Item, Capacity

VARIABLES
    queue,      \* the items waiting, oldest first
    result      \* what the last call returned: [ok, item]

vars == <<queue, result>>

Refused == [ok |-> FALSE]
Done == [ok |-> TRUE]
Found(x) == [ok |-> TRUE, item |-> x]

Init == queue = <<>> /\ result = Refused

Enqueue(x) ==
    IF Len(queue) < Capacity
    THEN queue' = Append(queue, x) /\ result' = Done
    ELSE result' = Refused /\ UNCHANGED queue

Peek ==
    /\ UNCHANGED queue
    /\ result' = IF queue = <<>> THEN Refused ELSE Found(Head(queue))

Dequeue ==
    IF queue # <<>>
    THEN queue' = Tail(queue) /\ result' = Done
    ELSE result' = Refused /\ UNCHANGED queue

Next == (\E x \in Item : Enqueue(x)) \/ Peek \/ Dequeue

Spec == Init /\ [][Next]_vars

=============================================================================
