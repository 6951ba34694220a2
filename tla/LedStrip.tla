-------------------------------- MODULE LedStrip --------------------------------
(***************************************************************************)
(* What the data line of the WS2812 strip sees of a driver that means to leave *)
(* it quiet for Hold after each frame: a frame is shifted out without another  *)
(* one on top of it, and none begins before the time is over.  A strip takes a  *)
(* frame that begins too early for the rest of the one before.                 *)
(***************************************************************************)
EXTENDS Naturals

CONSTANT Hold           \* how long the line is to be quiet, in units of the clock

VARIABLES
    shifting,           \* bits are on the line
    quiet               \* how long it has been quiet, Hold for "long enough"

vars == <<shifting, quiet>>

Init == ~shifting /\ quiet = Hold

Shift == ~shifting /\ quiet = Hold /\ shifting' /\ UNCHANGED quiet
End == shifting /\ ~shifting' /\ quiet' = 0
Wait == ~shifting /\ quiet < Hold /\ quiet' = quiet + 1 /\ UNCHANGED shifting

Next == Shift \/ End \/ Wait

Spec == Init /\ [][Next]_vars

=============================================================================
