------------------------------ MODULE ApLoop_proof ------------------------------
(***************************************************************************)
(* Proofs about ApLoop and DebugCli, for every range of the clock, every       *)
(* timeout and every buffer size.  The two comparisons of the command line     *)
(* are right across the wrap of millis(): the inductive invariant says where   *)
(* millis stands to the readings they use, up to one turn of the clock.        *)
(***************************************************************************)
EXTENDS ApLoop, TLAPS

\* A difference of two readings, modulo the clock.
LEMMA Difference ==
    ASSUME NEW a \in 0..(Clock - 1), NEW b \in 0..(Clock - 1)
    PROVE  (a - b) % Clock = IF a >= b THEN a - b ELSE a - b + Clock
BY CliAssumption, SMT

\* A reading, some time later.
LEMMA Later ==
    ASSUME NEW a \in 0..(Clock - 1), NEW n \in 0..Clock
    PROVE  (a + n) % Clock = IF a + n >= Clock THEN a + n - Clock ELSE a + n
BY CliAssumption, SMT

\* Half is half of the clock's range, rounded down.
LEMMA HalfOfClock == Half \in Nat /\ 2 * Half <= Clock /\ Clock <= 2 * Half + 1
BY CliAssumption, SMT DEF Half

LEMMA Constants ==
    /\ Clock \in Nat \ {0}
    /\ AP_DBG_RX_BUDGET_LOCKED \in Nat \ {0} /\ AP_DBG_RX_BUDGET_ACTIVE \in Nat \ {0}
    /\ PORT \in Nat \ {0}
    /\ AP_DBG_CMD_BUF_LEN \in Nat \ {0, 1}
    /\ AP_DBG_LOCKED_POLL_MS \in Nat /\ 0 < AP_DBG_LOCKED_POLL_MS
    /\ AP_DBG_LOCKED_POLL_MS <= Half
    /\ AP_DBG_IDLE_TIMEOUT_MS \in Nat /\ 0 < AP_DBG_IDLE_TIMEOUT_MS
    /\ AP_DBG_IDLE_TIMEOUT_MS <= Clock
BY CliAssumption, HalfOfClock

-----------------------------------------------------------------------------
(* Types *)

\* The line so far stays within the command buffer.
LEMMA BuffersStep == ASSUME BuffersOK, Next PROVE BuffersOK'
<1>1. CASE ReadByte
  <2>1. port' \in Seq(Byte) /\ Len(port') <= PORT
    BY <1>1, Constants DEF ReadByte, BuffersOK
  <2>2. s_cmd_buf' \in Seq(Text) /\ Len(s_cmd_buf') <= AP_DBG_CMD_BUF_LEN - 1
    <3>1. CASE s_cmd_buf' = <<>>
      BY <3>1, Constants
    <3>2. CASE Fits /\ Head(port) \in Text /\ s_cmd_buf' = Append(s_cmd_buf, Head(port))
      BY <3>2, Constants DEF Fits, BuffersOK
    <3>3. CASE UNCHANGED s_cmd_buf
      BY <3>3 DEF BuffersOK
    <3> QED
      BY <1>1, <3>1, <3>2, <3>3
         DEF ReadByte, ap_debug_cli_process_serial_line, dbg_process_line, CollectText,
             SkipCR, ap_debug_cli_enable, ap_debug_cli_disable
  <2> QED BY <2>1, <2>2 DEF BuffersOK
<1>2. CASE \E b \in Byte : Types(b)
  <2>1. PICK b \in Byte : Types(b)
    BY <1>2
  <2> QED BY <2>1, Constants DEF Types, BuffersOK
<1>3. CASE UNCHANGED port /\ (s_cmd_buf' = <<>> \/ UNCHANGED s_cmd_buf)
  <2>1. s_cmd_buf' \in Seq(Text) /\ Len(s_cmd_buf') <= AP_DBG_CMD_BUF_LEN - 1
    <3>1. CASE s_cmd_buf' = <<>>
      BY <3>1, Constants
    <3>2. CASE UNCHANGED s_cmd_buf
      BY <3>2 DEF BuffersOK
    <3> QED BY <1>3, <3>1, <3>2
  <2> QED BY <1>3, <2>1 DEF BuffersOK
<1> QED
  BY <1>1, <1>2, <1>3 DEF Next, LoopStep, Service, TimerHandler0, TestLatch, ClearLatch,
      Tick_Handle, Work, WorkDone, Gate, TimeOut, ap_debug_cli_disable,
      Listen, PollLocked, StayLocked,
      EndService, cliVars

\* Every reading of the clock that is kept is one the clock can show.
LEMMA ReadingsStep == ASSUME ReadingsOK, enabled \in BOOLEAN, Next PROVE ReadingsOK'
<1>1. CASE TimerHandler0
  <2>1. millis' \in 0..(Clock - 1)
    BY <1>1, Later, Constants DEF TimerHandler0, Passes, ReadingsOK
  <2> QED
    BY <1>1, <2>1, Constants, HalfOfClock DEF TimerHandler0, Passes, ReadingsOK
<1>2. CASE Gate
  <2>1. (millis + AP_DBG_LOCKED_POLL_MS) % Clock \in 0..(Clock - 1)
    BY Later, Constants, HalfOfClock DEF ReadingsOK
  <2>2. next_poll' \in 0..(Clock - 1) /\ away' \in 0..Half
    BY <1>2, <2>1, HalfOfClock
       DEF Gate, TimeOut, ap_debug_cli_disable,
       Listen, PollLocked, StayLocked, ReadingsOK
  <2> QED BY <1>2, <2>2 DEF Gate, ReadingsOK
<1>3. CASE ReadByte
  <2>1. \/ last_activity' = millis /\ silent' = 0
        \/ UNCHANGED <<last_activity, silent>>
    BY <1>3 DEF ReadByte, ap_debug_cli_process_serial_line, dbg_process_line,
        CollectText, SkipCR, TouchIfEnabled,
        ap_debug_cli_enable, ap_debug_cli_disable, ap_debug_cli_touch
  <2> QED BY <1>3, <2>1, Constants DEF ReadByte, ReadingsOK
<1>4. CASE UNCHANGED <<millis, last_activity, next_poll, silent, away>>
  BY <1>4 DEF ReadingsOK
<1> QED
  BY <1>1, <1>2, <1>3, <1>4 DEF Next, LoopStep, Service, TestLatch, ClearLatch,
      Tick_Handle, Work, WorkDone, EndService, Types, cliVars

LEMMA TypeStep == ASSUME TypeOK, [Next]_vars PROVE TypeOK'
<1>1. CASE Next
  <2>1. BuffersOK' /\ ReadingsOK'
    BY <1>1, BuffersStep, ReadingsStep DEF TypeOK, CliOK
  <2>2. enabled' \in BOOLEAN
    BY <1>1 DEF TypeOK, CliOK, Next, LoopStep, TimerHandler0, TestLatch, ClearLatch,
        Tick_Handle, Work, WorkDone, Service, Gate, TimeOut, ap_debug_cli_disable,
        Listen, PollLocked,
        StayLocked, ReadByte, ap_debug_cli_process_serial_line, dbg_process_line,
        CollectText, SkipCR, ap_debug_cli_enable,
        ap_debug_cli_disable, EndService, Types, cliVars
  <2>3. rx_budget' \in (0..AP_DBG_RX_BUDGET_LOCKED) \cup (0..AP_DBG_RX_BUDGET_ACTIVE)
    <3>1. CASE ReadByte
      BY <3>1, Constants DEF ReadByte, TypeOK, CliOK
    <3>2. CASE rx_budget' \in {rx_budget, AP_DBG_RX_BUDGET_LOCKED, AP_DBG_RX_BUDGET_ACTIVE}
      BY <3>2, Constants DEF TypeOK, CliOK
    <3> QED
      BY <1>1, <3>1, <3>2 DEF Next, LoopStep, TimerHandler0, TestLatch, ClearLatch,
          Tick_Handle, Work, WorkDone, Service, Gate, TimeOut, ap_debug_cli_disable,
          Listen, PollLocked,
          StayLocked, EndService, Types, cliVars
  <2>4. pc' \in {"test", "clear", "tick", "work", "gate", "read"}
    BY <1>1 DEF TypeOK, Next, LoopStep, TimerHandler0, TestLatch, ClearLatch, Tick_Handle,
        Work, WorkDone, Service, Gate, TimeOut, ap_debug_cli_disable,
        Listen, PollLocked, StayLocked, ReadByte,
        EndService, Types
  <2>5. f_ms1' \in BOOLEAN /\ unseen' \in BOOLEAN
    BY <1>1 DEF TypeOK, Next, LoopStep, TimerHandler0, TestLatch, ClearLatch, Tick_Handle,
        Work, WorkDone, Service, tickVars
  <2>6. lag' \in 0..LAG
    BY <1>1, LoopAssumption, HalfOfClock
       DEF TypeOK, Next, LoopStep, TimerHandler0, TestLatch, ClearLatch, Tick_Handle,
           Work, WorkDone, Service
  <2> QED BY <2>1, <2>2, <2>3, <2>4, <2>5, <2>6 DEF TypeOK, CliOK
<1>2. CASE UNCHANGED vars
  BY <1>2 DEF TypeOK, CliOK, BuffersOK, ReadingsOK, vars, cliVars, tickVars
<1> QED BY <1>1, <1>2

LEMMA TypeInit == Init => TypeOK
<1> SUFFICES ASSUME Init PROVE TypeOK
  OBVIOUS
<1>1. BuffersOK
  BY Constants DEF Init, CliInit, BuffersOK
<1>2. ReadingsOK
  BY Constants, HalfOfClock DEF Init, CliInit, ReadingsOK
<1>3. rx_budget \in (0..AP_DBG_RX_BUDGET_LOCKED) \cup (0..AP_DBG_RX_BUDGET_ACTIVE)
  BY Constants DEF Init, CliInit
<1>4. lag \in 0..LAG
  BY LoopAssumption, HalfOfClock DEF Init
<1> QED BY <1>1, <1>2, <1>3, <1>4 DEF Init, CliInit, TypeOK, CliOK

\* The loop, its latch and the command line stay well typed: the index into the
\* command buffer within it, every reading of the clock in its range.
THEOREM TypeCorrect == Spec => []TypeOK
BY TypeInit, TypeStep, PTL DEF Spec

-----------------------------------------------------------------------------
(* The latch *)

\* An interrupt that comes at any point of a pass is followed by a call of
\* Tick_Handle(): f_ms1 is cleared before the divider counts, not after the work
\* (main.cpp:2676-2680).
THEOREM TickAlwaysKept == Spec => []TickIsKept
<1>1. Init => TickIsKept
  BY DEF Init, TickIsKept
<1>2. TickIsKept /\ [Next]_vars => TickIsKept'
  BY DEF TickIsKept, Next, LoopStep, TimerHandler0, TestLatch, ClearLatch, Tick_Handle,
      Work, WorkDone, Service, Gate, TimeOut, ap_debug_cli_disable,
      Listen, PollLocked, StayLocked, ReadByte,
      EndService, Types, tickVars, vars, cliVars
<1> QED BY <1>1, <1>2, PTL DEF Spec

-----------------------------------------------------------------------------
(* The clock *)

\* millis is n past the reading t, up to a turn of the clock.
Past(t, n) == millis \in {t + n, t + n - Clock, t + n + Clock}

\* What the session's silence and the locked poll's distance are to the readings
\* the code keeps.  A session whose timeout is over has not been looked at since: it
\* is late by the time since the last call of the service at most.
ClockInv ==
    /\ enabled /\ silent < AP_DBG_IDLE_TIMEOUT_MS => Past(last_activity, silent)
    /\ enabled /\ silent >= AP_DBG_IDLE_TIMEOUT_MS =>
          \E n \in 0..lag : Past(last_activity, AP_DBG_IDLE_TIMEOUT_MS + n)
    /\ away < Half => Past(next_poll, away - AP_DBG_LOCKED_POLL_MS)

\* The code finds a session idle exactly when its timeout is over: the difference of
\* the readings is taken before it can have come round to small values again.
LEMMA IdleInTime ==
    ASSUME TypeOK, ClockInv, enabled
    PROVE  Idle <=> silent >= AP_DBG_IDLE_TIMEOUT_MS
<1>1. /\ millis \in 0..(Clock - 1) /\ last_activity \in 0..(Clock - 1)
      /\ silent \in 0..AP_DBG_IDLE_TIMEOUT_MS /\ lag \in 0..LAG
  BY DEF TypeOK, CliOK, ReadingsOK
<1>2. (millis - last_activity) % Clock = IF millis >= last_activity THEN millis - last_activity
                                         ELSE millis - last_activity + Clock
  BY <1>1, Difference
<1>3. CASE silent < AP_DBG_IDLE_TIMEOUT_MS
  <2>1. Past(last_activity, silent)
    BY <1>3 DEF ClockInv
  <2> QED BY <1>1, <1>2, <1>3, <2>1, Constants DEF Idle, Past
<1>4. CASE silent >= AP_DBG_IDLE_TIMEOUT_MS
  <2>1. PICK n \in 0..lag : Past(last_activity, AP_DBG_IDLE_TIMEOUT_MS + n)
    BY <1>4 DEF ClockInv
  <2>2. LAG \in Nat /\ LAG < Clock - AP_DBG_IDLE_TIMEOUT_MS
    BY LoopAssumption, HalfOfClock
  <2> QED BY <1>1, <1>2, <1>4, <2>1, <2>2, Constants DEF Idle, Past
<1> QED BY <1>1, <1>3, <1>4, Constants

LEMMA ClockStep == ASSUME TypeOK, ClockInv, [Next]_vars PROVE ClockInv'
<1> USE Constants, HalfOfClock DEF ClockInv, Past
<1>1. CASE TimerHandler0
  <2>1. millis' = IF millis + 1 >= Clock THEN millis + 1 - Clock ELSE millis + 1
    BY <1>1, Later DEF TimerHandler0, Passes, TypeOK, CliOK, ReadingsOK
  <2>2. /\ millis \in 0..(Clock - 1) /\ last_activity \in 0..(Clock - 1)
        /\ next_poll \in 0..(Clock - 1) /\ away \in 0..Half
        /\ silent \in 0..AP_DBG_IDLE_TIMEOUT_MS /\ lag \in 0..LAG /\ LAG \in Nat
    BY LoopAssumption, HalfOfClock DEF TypeOK, CliOK, ReadingsOK
  <2>3. /\ lag' = lag + 1 /\ UNCHANGED <<enabled, last_activity, next_poll>>
        /\ silent' = IF silent < AP_DBG_IDLE_TIMEOUT_MS THEN silent + 1 ELSE silent
        /\ away' = IF away < Half THEN away + 1 ELSE away
    BY <1>1 DEF TimerHandler0, Passes
  <2>4. ASSUME enabled', silent' < AP_DBG_IDLE_TIMEOUT_MS PROVE Past(last_activity, silent)'
    BY <2>1, <2>2, <2>3, <2>4
  <2>5. ASSUME enabled', silent' >= AP_DBG_IDLE_TIMEOUT_MS
        PROVE  \E n \in 0..lag' : Past(last_activity, AP_DBG_IDLE_TIMEOUT_MS + n)'
    <3>1. CASE silent < AP_DBG_IDLE_TIMEOUT_MS
      <4>1. Past(last_activity, AP_DBG_IDLE_TIMEOUT_MS + 0)'
        BY <2>1, <2>2, <2>3, <2>5, <3>1
      <4> QED BY <4>1, <2>2, <2>3
    <3>2. CASE silent >= AP_DBG_IDLE_TIMEOUT_MS
      <4>1. PICK n \in 0..lag : Past(last_activity, AP_DBG_IDLE_TIMEOUT_MS + n)
        BY <2>3, <2>5, <3>2
      <4> DEFINE due == last_activity + AP_DBG_IDLE_TIMEOUT_MS + n
      <4>2. millis \in {due, due - Clock, due + Clock}
        BY <2>2, <4>1
      <4>3. millis' \in {due + 1, due + 1 - Clock, due + 1 + Clock}
        <5>1. due \in Nat /\ due < 2 * Clock - 1
          <6>1. LAG < Clock - AP_DBG_IDLE_TIMEOUT_MS
            BY LoopAssumption
          <6> QED BY <2>2, <6>1
        <5> HIDE DEF due
        <5> QED BY <2>1, <2>2, <4>2, <5>1
      <4>4. /\ n + 1 \in 0..lag'
            /\ millis' \in {last_activity' + (AP_DBG_IDLE_TIMEOUT_MS + (n + 1)),
                           last_activity' + (AP_DBG_IDLE_TIMEOUT_MS + (n + 1)) - Clock,
                           last_activity' + (AP_DBG_IDLE_TIMEOUT_MS + (n + 1)) + Clock}
        BY <2>2, <2>3, <4>3
      <4> QED BY <4>4
    <3> QED BY <2>2, <3>1, <3>2
  <2>6. ASSUME away' < Half PROVE Past(next_poll, away - AP_DBG_LOCKED_POLL_MS)'
    BY <2>1, <2>2, <2>3, <2>6
  <2> QED BY <2>4, <2>5, <2>6
<1>2. CASE Gate
  <2>1. CASE PollLocked
    <3>1. next_poll' = IF millis + AP_DBG_LOCKED_POLL_MS >= Clock
                       THEN millis + AP_DBG_LOCKED_POLL_MS - Clock
                       ELSE millis + AP_DBG_LOCKED_POLL_MS
      BY <2>1, Later DEF PollLocked, TypeOK, CliOK, ReadingsOK
    <3> QED BY <1>2, <2>1, <3>1 DEF Gate, PollLocked, TypeOK, CliOK, ReadingsOK
  <2>2. CASE Listen
    <3>1. silent < AP_DBG_IDLE_TIMEOUT_MS
      BY <2>2, IdleInTime DEF Listen, TypeOK, CliOK, ReadingsOK
    <3> QED BY <1>2, <2>2, <3>1 DEF Gate, Listen, TypeOK, CliOK, ReadingsOK
  <2>3. CASE TimeOut \/ StayLocked
    BY <1>2, <2>3 DEF Gate, TimeOut, ap_debug_cli_disable, StayLocked
  <2> QED BY <1>2, <2>1, <2>2, <2>3 DEF Gate
<1>3. CASE ReadByte
  <2>1. \/ last_activity' = millis /\ silent' = 0
        \/ UNCHANGED <<last_activity, silent>> /\ ~enabled'
    BY <1>3 DEF ReadByte, ap_debug_cli_process_serial_line, dbg_process_line,
        CollectText, SkipCR, TouchIfEnabled,
        ap_debug_cli_enable, ap_debug_cli_disable, ap_debug_cli_touch, TypeOK, CliOK,
        ReadingsOK
  <2>2. UNCHANGED <<millis, next_poll, away>>
    BY <1>3 DEF ReadByte
  <2> QED BY <2>1, <2>2 DEF TypeOK, CliOK, ReadingsOK
<1>4. CASE UNCHANGED <<millis, enabled, silent, last_activity, next_poll, away, lag>>
  BY <1>4
<1> QED
  BY <1>1, <1>2, <1>3, <1>4 DEF Next, LoopStep, TestLatch, ClearLatch, Tick_Handle, Work,
      WorkDone, Service, EndService, Types, vars, cliVars

LEMMA ClockAlways == Spec => [](TypeOK /\ ClockInv)
<1>1. Init => ClockInv
  BY Constants DEF Init, CliInit, ClockInv, Past
<1>2. (TypeOK /\ ClockInv) /\ [Next]_vars => (TypeOK /\ ClockInv)'
  BY TypeStep, ClockStep
<1> QED BY TypeInit, <1>1, <1>2, PTL DEF Spec

\* A session ends by exit or by a silence of the whole timeout, never because of
\* what last_activity held before it or because the clock turned over; and the first
\* call of the service after the timeout does end it.
THEOREM SessionAlwaysTimed == Spec => SessionIsTimed
<1> DEFINE Ends == silent >= AP_DBG_IDLE_TIMEOUT_MS
                     \/ (pc = "read" /\ Exits /\ Head(port) = NL)
           Timed == /\ enabled /\ ~enabled' => Ends
                    /\ pc = "gate" /\ pc' # "gate" /\ silent >= AP_DBG_IDLE_TIMEOUT_MS
                          => ~enabled'
<1>1. ASSUME TypeOK, ClockInv, Next, enabled, ~enabled' PROVE Ends
  <2>1. CASE TimeOut
    BY <1>1, <2>1, IdleInTime DEF TimeOut
  <2>2. CASE ReadByte
    BY <1>1, <2>2 DEF ReadByte, ap_debug_cli_process_serial_line, dbg_process_line,
        CollectText, SkipCR, ap_debug_cli_enable
  <2> QED
    BY <1>1, <2>1, <2>2 DEF Next, LoopStep, TimerHandler0, TestLatch, ClearLatch,
        Tick_Handle, Work, WorkDone, Service, Gate, Listen, PollLocked, StayLocked,
        EndService, Types, cliVars
<1>2. ASSUME TypeOK, ClockInv, Next, pc = "gate", pc' # "gate",
             silent >= AP_DBG_IDLE_TIMEOUT_MS
      PROVE  ~enabled'
  <2>1. Gate
    BY <1>2 DEF Next, LoopStep, TimerHandler0, TestLatch, ClearLatch, Tick_Handle, Work,
        WorkDone, Service, ReadByte, EndService, Types
  <2>2. enabled => Idle
    BY <1>2, IdleInTime
  <2> QED
    BY <2>1, <2>2 DEF Gate, TimeOut, ap_debug_cli_disable, Listen, PollLocked, StayLocked
<1>3. TypeOK /\ ClockInv /\ [Next]_vars => [Timed]_<<millis, cliVars, pc>>
  BY <1>1, <1>2 DEF vars
<1> QED BY <1>3, ClockAlways, PTL DEF Spec, SessionIsTimed

\* The locked command line is polled after AP_DBG_LOCKED_POLL_MS, neither earlier
\* nor later, at whatever reading of the clock.
THEOREM LockedPollAlwaysPaced == Spec => LockedPollIsPaced
<1> DEFINE Paced == pc = "gate" /\ pc' # "gate" /\ ~enabled /\ away < Half =>
                      (pc' = "read" <=> away >= AP_DBG_LOCKED_POLL_MS)
<1>1. ASSUME TypeOK, ClockInv, Next PROVE Paced
  <2> SUFFICES ASSUME pc = "gate", pc' # "gate", ~enabled, away < Half
               PROVE  pc' = "read" <=> away >= AP_DBG_LOCKED_POLL_MS
    OBVIOUS
  <2>1. pc' = "read" <=> Due
    BY <1>1 DEF Next, LoopStep, TimerHandler0, TestLatch, ClearLatch, Tick_Handle, Work,
        WorkDone, Service, Gate, TimeOut, ap_debug_cli_disable,
        Listen, PollLocked, StayLocked, ReadByte,
        EndService, Types
  <2>2. (millis - next_poll) % Clock = IF millis >= next_poll THEN millis - next_poll
                                       ELSE millis - next_poll + Clock
    BY <1>1, Difference DEF TypeOK, CliOK, ReadingsOK
  <2> QED
    BY <1>1, <2>1, <2>2, Constants, HalfOfClock
       DEF Due, TypeOK, CliOK, ReadingsOK, ClockInv, Past
<1>2. TypeOK /\ ClockInv /\ [Next]_vars => [Paced]_<<millis, cliVars, pc>>
  BY <1>1 DEF vars
<1> QED BY <1>2, ClockAlways, PTL DEF Spec, LockedPollIsPaced

=============================================================================
