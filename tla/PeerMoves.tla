------------------------------- MODULE PeerMoves -------------------------------
(***************************************************************************)
(* Where the two models of a channel meet.  ProcessImage has the words of the  *)
(* PLC and the peers and takes from the Wi-Fi side only what it may do to the    *)
(* record p of a channel and to the wishes w that wait in it; ApLink has the     *)
(* Wi-Fi side and takes any words from the PLC.  Here is what each may do: the    *)
(* steps of ProcessImage's Wi-Fi side are built of these moves, and ApLink is    *)
(* checked to make no step on a channel that is not one of them.               *)
(*                                                                           *)
(* p has the fields pairFlag, typeAddr, request, del_set, repair_itself and    *)
(* status; w has update_io, update_serial and request_serial.  Either may have  *)
(* more.                                                                      *)
(***************************************************************************)

CONSTANTS Device, NoDevice

-----------------------------------------------------------------------------
(* What the radio may do *)

\* An answer pairs the device that is stored, whether or not it is still asked for;
\* the registration with ESP-NOW may fail.
CanPair(p) == ~p.pairFlag /\ p.typeAddr # NoDevice
Linked(p, registered) == [p EXCEPT !.pairFlag = registered]

\* Data shows a paired channel to the PLC, and later ends its repair.
Shown(p) == [p EXCEPT !.status = TRUE]
Settled(p) == [p EXCEPT !.repair_itself = FALSE]

\* A request ends; of a channel that is not paired the wishes may end with it.
Unasked(p) == [p EXCEPT !.request = FALSE]

\* A link the PLC has not erased is lost: it is to be repaired.
CanBeLost(p) == p.pairFlag /\ ~p.del_set
ToRepair(p) == [p EXCEPT !.pairFlag = FALSE, !.request = TRUE, !.repair_itself = TRUE]

CanRepair(p) == ~p.pairFlag /\ p.repair_itself /\ ~p.request
AskedAgain(p) == [p EXCEPT !.request = TRUE]

\* A link the PLC has erased is deleted, a repair is given up.
CanForget(p) == IF p.pairFlag THEN p.del_set ELSE p.repair_itself
Nobody(p) == [p EXCEPT !.pairFlag = FALSE, !.typeAddr = NoDevice, !.request = FALSE,
                       !.del_set = FALSE, !.repair_itself = FALSE, !.status = FALSE]

\* A request is built for one wish, and takes it: a write of serial data before a
\* read, and both before I/O.
CanSend(p) == p.pairFlag /\ ~p.request
Taken(w) ==
    CASE w.update_serial -> [w EXCEPT !.update_serial = FALSE]
      [] ~w.update_serial /\ w.request_serial -> [w EXCEPT !.request_serial = FALSE]
      [] OTHER -> [w EXCEPT !.update_io = FALSE]

Unwished(w) == [w EXCEPT !.update_io = FALSE, !.update_serial = FALSE, !.request_serial = FALSE]

\* From p and w to q and x.
RadioMove(p, w, q, x) ==
    \/ CanPair(p) /\ q = Linked(p, TRUE) /\ x = w
    \/ p.pairFlag /\ q \in {Shown(p), Settled(p)} /\ x = w
    \/ p.request /\ q = Unasked(p) /\ (x = w \/ (~p.pairFlag /\ x = Unwished(w)))
    \/ CanBeLost(p) /\ q = ToRepair(p) /\ x = Unwished(w)
    \/ CanRepair(p) /\ q = AskedAgain(p) /\ x = w
    \/ CanForget(p) /\ q = Nobody(p) /\ x = Unwished(w)
    \/ CanSend(p) /\ q = p /\ x = Taken(w)

-----------------------------------------------------------------------------
(* What the PLC may do *)

WriteAsked(w) == [w EXCEPT !.update_serial = TRUE, !.request_serial = FALSE]
ReadAsked(w) == [w EXCEPT !.request_serial = TRUE]

\* It assigns a device, erases the peer, or wishes; a write that waits is not
\* overtaken by a read, nor one wish by another of its kind.
PlcMove(p, w, q, x) ==
    \/ ~p.pairFlag /\ ~p.request /\ x = w
       /\ \E d \in Device : q = [p EXCEPT !.typeAddr = d, !.request = TRUE]
    \/ p.pairFlag /\ ~p.request /\ x = w
       /\ q = [p EXCEPT !.request = TRUE, !.del_set = TRUE, !.repair_itself = FALSE]
    \/ p.pairFlag /\ q = p /\ x = [w EXCEPT !.update_io = TRUE]
    \/ ~w.update_serial /\ q = p /\ x \in {WriteAsked(w), ReadAsked(w)}

Move(p, w, q, x) ==
    \/ q = p /\ x = w
    \/ RadioMove(p, w, q, x)
    \/ PlcMove(p, w, q, x)

=============================================================================
