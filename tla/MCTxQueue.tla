------------------------------- MODULE MCTxQueue --------------------------------
(* Three channels and a ring of four slots: long runs turn the ring many times. *)
EXTENDS TxQueue
CONSTANTS c1, c2, c3
MCItem == {c1, c2, c3}
=============================================================================
