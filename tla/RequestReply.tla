------------------------------ MODULE RequestReply ------------------------------
(***************************************************************************)
(* What the receive transactions of src/src/wifi_rx_queue.cpp promise, with  *)
(* no queue, no epoch and no second core: a channel has at most one request   *)
(* outstanding, a request is answered at most once, and only by something     *)
(* heard while that very request was outstanding.  wifi_rx_queue.h says so in *)
(* one line: after begin, only the first valid response of the same           *)
(* generation is consumed.                                                    *)
(***************************************************************************)
EXTENDS Naturals

CONSTANT Channel

VARIABLES
    outstanding,    \* outstanding[c]: a request waits for its answer
    heard,          \* heard[c]: something arrived since that request started
    answered        \* the number of requests answered so far

vars == <<outstanding, heard, answered>>

TypeOK ==
    /\ outstanding \in [Channel -> BOOLEAN]
    /\ heard \in [Channel -> BOOLEAN]
    /\ answered \in Nat

Init ==
    /\ outstanding = [c \in Channel |-> FALSE]
    /\ heard = [c \in Channel |-> FALSE]
    /\ answered = 0

\* A new request replaces the old one: what was heard for the old one is void.
Start(c) ==
    /\ outstanding' = [outstanding EXCEPT ![c] = TRUE]
    /\ heard' = [heard EXCEPT ![c] = FALSE]
    /\ UNCHANGED answered

Hear(c) ==
    /\ outstanding[c]
    /\ heard' = [heard EXCEPT ![c] = TRUE]
    /\ UNCHANGED <<outstanding, answered>>

Answer(c) ==
    /\ outstanding[c]
    /\ heard[c]
    /\ outstanding' = [outstanding EXCEPT ![c] = FALSE]
    /\ heard' = [heard EXCEPT ![c] = FALSE]
    /\ answered' = answered + 1

GiveUp(c) ==
    /\ outstanding' = [outstanding EXCEPT ![c] = FALSE]
    /\ heard' = [heard EXCEPT ![c] = FALSE]
    /\ UNCHANGED answered

Next == \E c \in Channel : Start(c) \/ Hear(c) \/ Answer(c) \/ GiveUp(c)

Spec == Init /\ [][Next]_vars

=============================================================================
