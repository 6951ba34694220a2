--------------------------------- MODULE ApLoop ---------------------------------
(***************************************************************************)
(* loop() of src/src/main.cpp and the timer interrupt that paces it.  The      *)
(* interrupt only sets the latch f_ms1; a pass of loop() that finds it set       *)
(* clears it, counts the dividers on (Tick_Handle), and does the work of a       *)
(* tick.  Every pass ends with the debug command line (DebugCli).               *)
(*                                                                           *)
(* The work on the link and on the process image is ApLink's and               *)
(* ProcessImage's; what is left of it here is the time it takes.  (The push      *)
(* button toggles debug_out, which nothing reads.)  The clock of millis() and   *)
(* the timer are taken to run in step.                                          *)
(***************************************************************************)
EXTENDS DebugCli

CONSTANTS
    LAG         \* milliseconds between two calls of the command line, at most

ASSUME LoopAssumption ==
    /\ LAG \in 1..(Half - 1) /\ LAG < Clock - AP_DBG_IDLE_TIMEOUT_MS

VARIABLES
    f_ms1,      \* the latch
    unseen,     \* history: an interrupt since Tick_Handle() was last called
    lag         \* milliseconds since the command line was last called

tickVars == <<f_ms1, unseen>>
vars == <<millis, cliVars, pc, tickVars, lag>>

TypeOK ==
    /\ CliOK
    /\ pc \in {"test", "clear", "tick", "work", "gate", "read"}
    /\ f_ms1 \in BOOLEAN /\ unseen \in BOOLEAN
    /\ lag \in 0..LAG

Init ==
    /\ CliInit
    /\ pc = "test"
    /\ f_ms1 = FALSE
    /\ unseen = FALSE
    /\ lag = 0

TimerHandler0 ==
    /\ lag < LAG
    /\ lag' = lag + 1
    /\ Passes
    /\ f_ms1' = TRUE
    /\ unseen' = TRUE
    /\ UNCHANGED <<port, s_cmd_buf, enabled, last_activity, next_poll, rx_budget, pc>>

-----------------------------------------------------------------------------
TestLatch ==
    /\ pc = "test"
    /\ pc' = IF f_ms1 THEN "clear" ELSE "gate"
    /\ UNCHANGED <<millis, cliVars, tickVars, lag>>

ClearLatch ==
    /\ pc = "clear"
    /\ f_ms1' = FALSE
    /\ pc' = "tick"
    /\ UNCHANGED <<millis, cliVars, unseen, lag>>

Tick_Handle ==
    /\ pc = "tick"
    /\ unseen' = FALSE
    /\ pc' = "work"
    /\ UNCHANGED <<millis, cliVars, f_ms1, lag>>

WorkDone ==
    /\ pc = "work"
    /\ pc' = "gate"
    /\ UNCHANGED <<millis, cliVars, unseen, lag>>

\* Mutant: the latch is cleared when the work is done.
WorkClears == WorkDone /\ f_ms1' = FALSE

\* Wifi_Handle(), Ethercat_Handle() and MainTask().
Work == WorkDone /\ UNCHANGED f_ms1

Service ==
    /\ \/ Gate /\ lag' = 0
       \/ (ReadByte \/ EndService) /\ UNCHANGED lag
    /\ UNCHANGED tickVars

LoopStep == TestLatch \/ ClearLatch \/ Tick_Handle \/ Work \/ Service

Next ==
    \/ TimerHandler0
    \/ LoopStep
    \/ \E b \in Byte : Types(b) /\ UNCHANGED <<tickVars, lag>>

\* The timer runs and loop() is called for ever.
Spec == Init /\ [][Next]_vars /\ WF_vars(TimerHandler0) /\ WF_vars(LoopStep)

-----------------------------------------------------------------------------
\* Interrupts that come while a pass is at work are merged into one, but the last of
\* them is not lost: a call of Tick_Handle() that starts after it is still to come.
TickIsKept == unseen => f_ms1 \/ pc \in {"clear", "tick"}

=============================================================================
