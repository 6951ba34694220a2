-------------------------------- MODULE PeerLink --------------------------------
(***************************************************************************)
(* What the pairing code of src/src/main.cpp promises of a channel's link to   *)
(* its peer, and of the rx_pairing_status bit that tells the PLC about it,     *)
(* with no requests, queue or timeouts:                                       *)
(*                                                                           *)
(*     free ----> paired ----> erasing ----> free                            *)
(*                 |   ^                                                     *)
(*                 v   |                                                     *)
(*              repairing -----------------> free                            *)
(*                                                                           *)
(* A link that is lost is repaired, one the PLC erased is not; the PLC sees a  *)
(* channel appear only while its link is up, and disappear only when the link  *)
(* is given up.                                                               *)
(***************************************************************************)
EXTENDS Naturals

CONSTANT Channel

VARIABLES
    link,       \* the state of each channel's link
    status      \* whether the PLC is shown the channel

vars == <<link, status>>

Link == {"free", "paired", "erasing", "repairing"}

TypeOK == link \in [Channel -> Link] /\ status \in [Channel -> BOOLEAN]

Init ==
    /\ link = [c \in Channel |-> "free"]
    /\ status = [c \in Channel |-> FALSE]

Turns(c, from, to) == link[c] \in from /\ link'[c] = to

Keeps(c) == status'[c] = status[c]

Pair(c) == Turns(c, {"free", "repairing"}, "paired") /\ Keeps(c)
Erase(c) == Turns(c, {"paired"}, "erasing") /\ Keeps(c)
Lose(c) == Turns(c, {"paired"}, "repairing") /\ Keeps(c)
Show(c) == link[c] \in {"paired", "erasing"} /\ link'[c] = link[c] /\ status'[c]
Forget(c) == Turns(c, {"erasing", "repairing"}, "free") /\ ~status'[c]

\* The channels move independently, several of them perhaps in one step.
Next == \A c \in Channel :
    \/ Pair(c) \/ Erase(c) \/ Lose(c) \/ Show(c) \/ Forget(c)
    \/ link'[c] = link[c] /\ Keeps(c)

Spec == Init /\ [][Next]_vars

=============================================================================
