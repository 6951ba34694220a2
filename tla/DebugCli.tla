-------------------------------- MODULE DebugCli --------------------------------
(***************************************************************************)
(* The debug command line on the serial port,                                  *)
(* src/include/ap_debug_cli_impl.h: it is locked until a line names the         *)
(* firmware's version, and locks itself after AP_DBG_IDLE_TIMEOUT_MS without   *)
(* a byte.  loop() calls ap_debug_cli_service() at the end of every pass; the   *)
(* steps of that call are at pc "gate" and "read".                             *)
(*                                                                           *)
(* A text byte is a whole word with its separator; the commands other than     *)
(* exit only print, and the two that would write are not in this build.         *)
(* Clock stands for the 2^32 values of millis().                                *)
(***************************************************************************)
EXTENDS Integers, Sequences

CONSTANTS
    Clock,                      \* values of the millisecond clock, 2^32
    AP_DBG_IDLE_TIMEOUT_MS,
    AP_DBG_LOCKED_POLL_MS,
    AP_DBG_RX_BUDGET_LOCKED,
    AP_DBG_RX_BUDGET_ACTIVE,
    AP_DBG_CMD_BUF_LEN,
    PORT                        \* bytes the serial port holds

Half == Clock \div 2

ASSUME CliAssumption ==
    /\ Clock \in Nat \ {0}
    /\ {AP_DBG_RX_BUDGET_LOCKED, AP_DBG_RX_BUDGET_ACTIVE, PORT} \subseteq Nat \ {0}
    /\ AP_DBG_CMD_BUF_LEN \in Nat \ {0, 1}
    /\ AP_DBG_LOCKED_POLL_MS \in 1..Half
    /\ AP_DBG_IDLE_TIMEOUT_MS \in 1..Clock

VARIABLES
    millis,         \* the millisecond clock
    port,           \* bytes received and not read
    s_cmd_buf,      \* the words of the line so far
    enabled,        \* s_dbg_cli_enabled
    last_activity,  \* s_dbg_last_activity_ms
    next_poll,      \* s_dbg_next_locked_poll_ms
    rx_budget,      \* bytes this call may still read
    pc,             \* where loop() is
    silent,         \* history: ms since a byte was read in the session, up to the timeout
    away            \* history: ms since the locked port was polled, up to Half

cliVars == <<port, s_cmd_buf, enabled, last_activity, next_poll, rx_budget, silent, away>>

Unlock == "ap dbg 400"
Exit == "exit"
Text == {Unlock, Exit}
CR == "CR"
NL == "NL"
Byte == Text \cup {CR, NL}

BuffersOK ==
    /\ port \in Seq(Byte) /\ Len(port) <= PORT
    /\ s_cmd_buf \in Seq(Text) /\ Len(s_cmd_buf) <= AP_DBG_CMD_BUF_LEN - 1

ReadingsOK ==
    /\ millis \in 0..(Clock - 1)
    /\ last_activity \in 0..(Clock - 1) /\ next_poll \in 0..(Clock - 1)
    /\ silent \in 0..AP_DBG_IDLE_TIMEOUT_MS /\ away \in 0..Half

CliOK ==
    /\ BuffersOK /\ ReadingsOK
    /\ enabled \in BOOLEAN
    /\ rx_budget \in (0..AP_DBG_RX_BUDGET_LOCKED) \cup (0..AP_DBG_RX_BUDGET_ACTIVE)

CliInit ==
    /\ millis = 0
    /\ port = <<>> /\ s_cmd_buf = <<>>
    /\ enabled = FALSE
    /\ last_activity = 0 /\ next_poll = 0 /\ rx_budget = 0
    /\ silent = 0 /\ away = AP_DBG_LOCKED_POLL_MS

-----------------------------------------------------------------------------
\* The operator types, as much as the port has room for.
Types(b) ==
    /\ Len(port) < PORT
    /\ port' = Append(port, b)
    /\ UNCHANGED <<millis, s_cmd_buf, enabled, last_activity, next_poll, rx_budget, pc,
                   silent, away>>

\* A millisecond passes.
Passes ==
    /\ millis' = (millis + 1) % Clock
    /\ silent' = IF silent < AP_DBG_IDLE_TIMEOUT_MS THEN silent + 1 ELSE silent
    /\ away' = IF away < Half THEN away + 1 ELSE away

-----------------------------------------------------------------------------
(* ap_debug_cli_service(), up to its while loop *)

\* Mutants: the comparisons without the wrap of the clock.
IdlePlain == millis >= last_activity + AP_DBG_IDLE_TIMEOUT_MS
DuePlain == millis >= next_poll

Idle == (millis - last_activity) % Clock >= AP_DBG_IDLE_TIMEOUT_MS

\* The sign of a 32-bit difference.
Due == (millis - next_poll) % Clock < Half

ap_debug_cli_disable == enabled' = FALSE /\ s_cmd_buf' = <<>>

TimeOut ==
    /\ enabled /\ Idle
    /\ ap_debug_cli_disable
    /\ pc' = "test"
    /\ UNCHANGED <<next_poll, rx_budget, away>>

Listen ==
    /\ enabled /\ ~Idle
    /\ rx_budget' = AP_DBG_RX_BUDGET_ACTIVE
    /\ pc' = "read"
    /\ UNCHANGED <<enabled, s_cmd_buf, next_poll, away>>

PollLocked ==
    /\ ~enabled /\ Due
    /\ next_poll' = (millis + AP_DBG_LOCKED_POLL_MS) % Clock
    /\ rx_budget' = AP_DBG_RX_BUDGET_LOCKED
    /\ pc' = "read"
    /\ away' = 0
    /\ UNCHANGED <<enabled, s_cmd_buf>>

StayLocked ==
    /\ ~enabled /\ ~Due
    /\ pc' = "test"
    /\ UNCHANGED <<enabled, s_cmd_buf, next_poll, rx_budget, away>>

Gate ==
    /\ pc = "gate"
    /\ TimeOut \/ Listen \/ PollLocked \/ StayLocked
    /\ UNCHANGED <<millis, port, last_activity, silent>>

-----------------------------------------------------------------------------
(* A byte of the while loop *)

ap_debug_cli_touch == last_activity' = millis /\ silent' = 0

TouchIfEnabled ==
    IF enabled THEN ap_debug_cli_touch ELSE UNCHANGED <<last_activity, silent>>

\* A line is tokenised: only the first word of a command counts, an unlock line has
\* no more words.
Exits == enabled /\ s_cmd_buf # <<>> /\ Head(s_cmd_buf) = Exit
Unlocks == ~enabled /\ s_cmd_buf = <<Unlock>>

\* Mutant: a new session starts with the activity of the last one.
EnableUntouched ==
    enabled' = TRUE /\ s_cmd_buf' = <<>> /\ silent' = 0 /\ UNCHANGED last_activity

ap_debug_cli_enable == enabled' = TRUE /\ s_cmd_buf' = <<>> /\ ap_debug_cli_touch

\* Of all commands only exit changes anything; the line is forgotten after each.
dbg_process_line ==
    IF Exits THEN ap_debug_cli_disable ELSE s_cmd_buf' = <<>> /\ UNCHANGED enabled

ap_debug_cli_process_serial_line ==
    /\ Head(port) = NL
    /\ IF Unlocks THEN ap_debug_cli_enable ELSE dbg_process_line /\ TouchIfEnabled

\* Mutant: the terminating zero of a full line has no room.
FitsToTheEnd == Len(s_cmd_buf) < AP_DBG_CMD_BUF_LEN

Fits == Len(s_cmd_buf) < AP_DBG_CMD_BUF_LEN - 1

\* A word that does not fit is dropped with the line so far; what follows it up to
\* the end of the line is taken for a line of its own.
CollectText ==
    /\ Head(port) \in Text
    /\ s_cmd_buf' = IF Fits THEN Append(s_cmd_buf, Head(port)) ELSE <<>>
    /\ TouchIfEnabled
    /\ UNCHANGED enabled

SkipCR ==
    /\ Head(port) = CR
    /\ TouchIfEnabled
    /\ UNCHANGED <<s_cmd_buf, enabled>>

ReadByte ==
    /\ pc = "read" /\ rx_budget > 0 /\ port # <<>>
    /\ port' = Tail(port)
    /\ rx_budget' = rx_budget - 1
    /\ ap_debug_cli_process_serial_line \/ CollectText \/ SkipCR
    /\ UNCHANGED <<millis, next_poll, pc, away>>

EndService ==
    /\ pc = "read" /\ (rx_budget = 0 \/ port = <<>>)
    /\ pc' = "test"
    /\ UNCHANGED <<millis, cliVars>>

-----------------------------------------------------------------------------
\* A session lasts until the operator ends it or has been silent for the timeout:
\* what an earlier session left in s_dbg_last_activity_ms does not end it, nor does
\* the wrap of the clock.  And it lasts no longer: the first call of the service
\* after the timeout ends it, however much the clock has gone on since.
SessionIsTimed ==
    [][/\ enabled /\ ~enabled' =>
             silent >= AP_DBG_IDLE_TIMEOUT_MS \/ (pc = "read" /\ Exits /\ Head(port) = NL)
       /\ pc = "gate" /\ pc' # "gate" /\ silent >= AP_DBG_IDLE_TIMEOUT_MS => ~enabled']_
      <<millis, cliVars, pc>>

\* A session nobody types in any more ends, at whatever time of the clock.
SilenceEndsSession == <>[](port = <<>>) => <>[]~enabled

\* A locked command line is polled when AP_DBG_LOCKED_POLL_MS have passed since the
\* last time, and not before, across the wrap of the clock; unless a session has kept
\* it from being polled for half the clock's range.
LockedPollIsPaced ==
    [][pc = "gate" /\ pc' # "gate" /\ ~enabled /\ away < Half =>
          (pc' = "read" <=> away >= AP_DBG_LOCKED_POLL_MS)]_<<millis, cliVars, pc>>

=============================================================================
