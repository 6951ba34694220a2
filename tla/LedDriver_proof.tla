----------------------------- MODULE LedDriver_proof -----------------------------
(***************************************************************************)
(* Theorems about LedDriver, for every number of callers, every hold time and  *)
(* every bound on the delay of a task.                                        *)
(***************************************************************************)
EXTENDS LedDriver, TLAPS

\* What a caller and the service task do to the driver, as disjuncts of Next.
Step ==
    \/ led_drv_bind_service_task \/ led_drv_init
    \/ \E c \in Caller :
          \/ PollStart(c) \/ FlushStart(c) \/ led_drv_is_busy(c)
          \/ FlushRefused(c) \/ FlushClaim(c) \/ build_rmt_items(c)
          \/ FlushWrite(c) \/ FlushFails(c) \/ FlushRollback(c)
    \/ TxEnd \/ led_rmt_tx_done_cb \/ LedDrvServiceTask \/ led_drv_tx_done_service
    \/ Tick

LEMMA NextIsStep == Next => Step
  BY DEF Next, Step, CallStep, ServiceStep, RmtStep

-----------------------------------------------------------------------------
LEMMA Bounds ==
    /\ Hold \in Int /\ Hold > 0 /\ MaxDelay \in Int /\ MaxDelay >= 0
    /\ LongAgo \in Int /\ LongAgo <= 0
  BY DelayAssumption DEF LongAgo

LEMMA InitTypeOK == Init => TypeOK
  <1> SUFFICES ASSUME Init PROVE TypeOK
    OBVIOUS
  <1>1. ControlOK
    BY DEF Init, ControlOK, Where
  <1>2. TimesOK
    BY Bounds DEF Init, TimesOK
  <1> QED
    BY <1>1, <1>2 DEF TypeOK

LEMMA StepControlOK == ControlOK /\ Step => ControlOK'
  <1> SUFFICES ASSUME ControlOK, Step PROVE ControlOK'
    OBVIOUS
  <1> USE DEF ControlOK
  <1>1. CASE led_drv_bind_service_task
    BY <1>1 DEF led_drv_bind_service_task, calls, rmt
  <1>2. CASE led_drv_init
    <2>1. g_inited' \in BOOLEAN
      BY <1>2, DelayAssumption DEF led_drv_init
    <2> QED
      BY <1>2, <2>1 DEF led_drv_init, calls, rmt
  <1>3. ASSUME NEW c \in Caller, PollStart(c) \/ FlushStart(c) PROVE ControlOK'
    BY <1>3 DEF PollStart, FlushStart, Start, driver, rmt, Where
  <1>4. ASSUME NEW c \in Caller, led_drv_is_busy(c) PROVE ControlOK'
    BY <1>4 DEF led_drv_is_busy, StateSeen, HoldOver, Return, rmt, Where
  <1>5. ASSUME NEW c \in Caller, FlushRefused(c) PROVE ControlOK'
    BY <1>5 DEF FlushRefused, Return, driver, rmt, Where
  <1>6. ASSUME NEW c \in Caller, FlushClaim(c) PROVE ControlOK'
    BY <1>6 DEF FlushClaim, rmt, Where
  <1>7. ASSUME NEW c \in Caller, build_rmt_items(c) \/ FlushFails(c) PROVE ControlOK'
    BY <1>7 DEF build_rmt_items, FlushFails, driver, rmt, Where
  <1>8. ASSUME NEW c \in Caller, FlushWrite(c) PROVE ControlOK'
    BY <1>8 DEF FlushWrite, Return, driver, Where
  <1>9. ASSUME NEW c \in Caller, FlushRollback(c) PROVE ControlOK'
    BY <1>9 DEF FlushRollback, Return, rmt, Where
  <1>10. CASE TxEnd
    BY <1>10 DEF TxEnd, driver, calls
  <1>11. CASE led_rmt_tx_done_cb
    BY <1>11 DEF led_rmt_tx_done_cb, calls
  <1>12. CASE LedDrvServiceTask
    BY <1>12 DEF LedDrvServiceTask, calls, rmt
  <1>13. CASE led_drv_tx_done_service
    BY <1>13 DEF led_drv_tx_done_service, calls, rmt
  <1>14. CASE Tick
    BY <1>14 DEF Tick, Reading
  <1> QED
    BY <1>1, <1>2, <1>3, <1>4, <1>5, <1>6, <1>7, <1>8, <1>9, <1>10, <1>11, <1>12,
       <1>13, <1>14 DEF Step

LEMMA StepTimesOK == TimesOK /\ Step => TimesOK'
  <1> SUFFICES ASSUME TimesOK, Step PROVE TimesOK'
    OBVIOUS
  <1> USE Bounds DEF TimesOK
  <1>1. CASE led_drv_bind_service_task
    BY <1>1 DEF led_drv_bind_service_task, calls, rmt
  <1>2. CASE led_drv_init
    BY <1>2 DEF led_drv_init, calls, rmt
  <1>3. ASSUME NEW c \in Caller, PollStart(c) \/ FlushStart(c) PROVE TimesOK'
    BY <1>3 DEF PollStart, FlushStart, Start, driver, rmt
  <1>4. ASSUME NEW c \in Caller, led_drv_is_busy(c) PROVE TimesOK'
    BY <1>4 DEF led_drv_is_busy, StateSeen, HoldOver, Return, rmt
  <1>5. ASSUME NEW c \in Caller, FlushRefused(c) PROVE TimesOK'
    BY <1>5 DEF FlushRefused, Return, driver, rmt
  <1>6. ASSUME NEW c \in Caller, FlushClaim(c) PROVE TimesOK'
    BY <1>6 DEF FlushClaim, rmt
  <1>7. ASSUME NEW c \in Caller, build_rmt_items(c) \/ FlushFails(c) PROVE TimesOK'
    BY <1>7 DEF build_rmt_items, FlushFails, driver, rmt
  <1>8. ASSUME NEW c \in Caller, FlushWrite(c) PROVE TimesOK'
    BY <1>8 DEF FlushWrite, Return, driver
  <1>9. ASSUME NEW c \in Caller, FlushRollback(c) PROVE TimesOK'
    BY <1>9 DEF FlushRollback, Return, rmt
  <1>10. CASE TxEnd
    BY <1>10 DEF TxEnd, driver, calls
  <1>11. CASE led_rmt_tx_done_cb
    BY <1>11 DEF led_rmt_tx_done_cb, calls
  <1>12. CASE LedDrvServiceTask
    BY <1>12 DEF LedDrvServiceTask, calls, rmt
  <1>13. CASE led_drv_tx_done_service
    BY <1>13 DEF led_drv_tx_done_service, calls, rmt
  <1>14. CASE Tick
    BY <1>14 DEF Tick, Reading
  <1> QED
    BY <1>1, <1>2, <1>3, <1>4, <1>5, <1>6, <1>7, <1>8, <1>9, <1>10, <1>11, <1>12,
       <1>13, <1>14 DEF Step

LEMMA StepTypeOK == TypeOK /\ Step => TypeOK'
  BY StepControlOK, StepTimesOK DEF TypeOK

LEMMA StutterTypeOK == TypeOK /\ UNCHANGED vars => TypeOK'
  BY DEF TypeOK, ControlOK, TimesOK, vars, driver, calls, rmt

\* Every variable of the driver keeps its range (led_drv_rmt.cpp:19-30): the state,
\* the deadline relative to now, and the ages of the clock readings.
THEOREM TypeCorrect == Spec => []TypeOK
  <1>1. Init => TypeOK
    BY InitTypeOK
  <1>2. TypeOK /\ [Next]_vars => TypeOK'
    BY NextIsStep, StepTypeOK, StutterTypeOK
  <1> QED
    BY <1>1, <1>2, PTL DEF Spec

-----------------------------------------------------------------------------
(* One holder.  What makes it inductive: only a caller that finds IDLE claims,  *)
(* and only a driver that is set up, hence bound, gets that far, so the         *)
(* interrupt always has a task to wake.                                         *)

Bound ==
    /\ g_inited => bound
    /\ g_tx_state # "IDLE" => g_inited

OneInv == TypeOK /\ Bound /\ OneHolder

LEMMA InitOneInv == Init => OneInv
  BY InitTypeOK DEF Init, OneInv, Bound, OneHolder, Claimed, Claiming

\* A caller that moves between two places outside the claim, or two inside it.
LEMMA SameClaims ==
    ASSUME TypeOK, NEW c \in Caller, NEW w \in Where, call' = [call EXCEPT ![c] = w],
           Claiming(c) <=> w \in {"claimed", "built", "failed"}
    PROVE  /\ \A d \in Caller : Claiming(d)' <=> Claiming(d)
           /\ Claimed' <=> Claimed
  BY DEF TypeOK, ControlOK, Claimed, Claiming

LEMMA StepOneInv == OneInv /\ Step => OneInv'
  <1> SUFFICES ASSUME OneInv, Step PROVE OneInv'
    OBVIOUS
  <1> TypeOK /\ TypeOK'
    BY StepTypeOK DEF OneInv
  <1> SUFFICES Bound' /\ OneHolder'
    BY DEF OneInv
  <1> USE DEF OneInv
  <1>1. CASE led_drv_bind_service_task
    BY <1>1 DEF led_drv_bind_service_task, calls, rmt, Bound, OneHolder, Claimed, Claiming
  <1>2. CASE led_drv_init
    BY <1>2 DEF led_drv_init, calls, rmt, Bound, OneHolder, Claimed, Claiming
  <1>3. ASSUME NEW c \in Caller, PollStart(c) \/ FlushStart(c) PROVE Bound' /\ OneHolder'
    <2>1. PICK w \in {"polling", "flushing"} : Start(c, w)
      BY <1>3 DEF PollStart, FlushStart
    <2>2. (\A d \in Caller : Claiming(d)' <=> Claiming(d)) /\ (Claimed' <=> Claimed)
      BY <2>1, SameClaims DEF Start, Claiming, Where
    <2> QED
      BY <2>1, <2>2 DEF Start, driver, rmt, Bound, OneHolder
  <1>4. ASSUME NEW c \in Caller, led_drv_is_busy(c) PROVE Bound' /\ OneHolder'
    <2>1. (\A d \in Caller : Claiming(d)' <=> Claiming(d)) /\ (Claimed' <=> Claimed)
      BY <1>4, SameClaims DEF led_drv_is_busy, Return, Claiming, Where
    <2>2. g_tx_state' = "TX_ACTIVE" <=> g_tx_state = "TX_ACTIVE"
      BY <1>4 DEF led_drv_is_busy, StateSeen, HoldOver
    <2> QED
      BY <1>4, <2>1, <2>2 DEF led_drv_is_busy, StateSeen, HoldOver, rmt, Bound, OneHolder
  <1>5. ASSUME NEW c \in Caller, FlushRefused(c) PROVE Bound' /\ OneHolder'
    <2>1. (\A d \in Caller : Claiming(d)' <=> Claiming(d)) /\ (Claimed' <=> Claimed)
      BY <1>5, SameClaims DEF FlushRefused, Return, Claiming, Where
    <2> QED
      BY <1>5, <2>1 DEF FlushRefused, driver, rmt, Bound, OneHolder
  <1>6. ASSUME NEW c \in Caller, FlushClaim(c) PROVE Bound' /\ OneHolder'
    <2>1. g_inited /\ g_tx_state # "TX_ACTIVE"
      BY <1>6 DEF FlushClaim, StateSeen, HoldOver
    <2>2. ~Claimed /\ line = "idle" /\ ~notified /\ ~serving
      BY <2>1 DEF OneHolder
    <2>3. \A d \in Caller : Claiming(d)' <=> d = c
      BY <1>6, <2>2 DEF FlushClaim, TypeOK, ControlOK, Claimed, Claiming
    <2>4. Claimed'
      BY <2>3 DEF Claimed
    <2> QED
      BY <1>6, <2>1, <2>2, <2>3, <2>4 DEF FlushClaim, rmt, Bound, OneHolder
  <1>7. ASSUME NEW c \in Caller, build_rmt_items(c) \/ FlushFails(c)
        PROVE Bound' /\ OneHolder'
    <2>1. (\A d \in Caller : Claiming(d)' <=> Claiming(d)) /\ (Claimed' <=> Claimed)
      BY <1>7, SameClaims DEF build_rmt_items, FlushFails, Claiming, Where
    <2> QED
      <3>1. UNCHANGED <<driver, rmt>>
        BY <1>7 DEF build_rmt_items, FlushFails
      <3> QED
        BY <2>1, <3>1 DEF driver, rmt, Bound, OneHolder
  <1>8. ASSUME NEW c \in Caller, FlushWrite(c) PROVE Bound' /\ OneHolder'
    <2>1. Claiming(c)
      BY <1>8 DEF FlushWrite, Claiming
    <2>2. \A d \in Caller : ~Claiming(d)'
      BY <1>8, <2>1 DEF FlushWrite, Return, OneHolder, TypeOK, ControlOK, Claiming
    <2> QED
      BY <1>8, <2>1, <2>2 DEF FlushWrite, Return, driver, Bound, OneHolder, Claimed
  <1>9. ASSUME NEW c \in Caller, FlushRollback(c) PROVE Bound' /\ OneHolder'
    <2>1. Claiming(c)
      BY <1>9 DEF FlushRollback, Claiming
    <2>2. \A d \in Caller : ~Claiming(d)'
      BY <1>9, <2>1 DEF FlushRollback, Return, OneHolder, TypeOK, ControlOK, Claiming
    <2>3. line = "idle" /\ ~notified /\ ~serving /\ g_tx_state = "TX_ACTIVE"
      BY <2>1 DEF OneHolder, Claimed
    <2> QED
      BY <1>9, <2>2, <2>3 DEF FlushRollback, rmt, Bound, OneHolder, Claimed
  <1>10. CASE TxEnd
    BY <1>10 DEF TxEnd, driver, calls, Bound, OneHolder, Claimed, Claiming
  <1>11. CASE led_rmt_tx_done_cb
    <2>1. bound
      BY <1>11 DEF led_rmt_tx_done_cb, OneHolder, Bound
    <2> QED
      BY <1>11, <2>1 DEF led_rmt_tx_done_cb, calls, Bound, OneHolder, Claimed, Claiming
  <1>12. CASE LedDrvServiceTask
    BY <1>12 DEF LedDrvServiceTask, calls, rmt, Bound, OneHolder, Claimed, Claiming
  <1>13. CASE led_drv_tx_done_service
    <2>1. g_tx_state = "TX_ACTIVE" /\ g_inited /\ ~Claimed /\ line = "idle" /\ ~notified
      BY <1>13 DEF led_drv_tx_done_service, Bound, OneHolder
    <2> QED
      BY <1>13, <2>1
      DEF led_drv_tx_done_service, calls, rmt, Bound, OneHolder, Claimed, Claiming
  <1>14. CASE Tick
    BY <1>14 DEF Tick, Bound, OneHolder, Claimed, Claiming
  <1> QED
    BY <1>1, <1>2, <1>3, <1>4, <1>5, <1>6, <1>7, <1>8, <1>9, <1>10, <1>11, <1>12,
       <1>13, <1>14 DEF Step

LEMMA StutterOneInv == OneInv /\ UNCHANGED vars => OneInv'
  BY StutterTypeOK
  DEF OneInv, Bound, OneHolder, Claimed, Claiming, vars, driver, calls, rmt

LEMMA OneAlways == Spec => []OneInv
  <1>1. Init => OneInv
    BY InitOneInv
  <1>2. OneInv /\ [Next]_vars => OneInv'
    BY NextIsStep, StepOneInv, StutterOneInv
  <1> QED
    BY <1>1, <1>2, PTL DEF Spec

\* At every moment of every flush, interrupt and service there is exactly one that
\* answers for TX_ACTIVE (led_drv_rmt.cpp:57-72, 220-238, 294-362).
THEOREM HolderAlways == Spec => []OneHolder
  BY OneAlways, PTL DEF OneInv

-----------------------------------------------------------------------------
(* The hold time.  An old reading of the clock only makes a deadline earlier     *)
(* by what has already passed since the last bit, and a comparison later.        *)

HoldKept ==
    /\ g_tx_state = "RESET_HOLD" /\ quiet < Hold => remaining >= Hold - quiet
    /\ g_tx_state = "IDLE" => quiet = Hold
    /\ Claimed => quiet = Hold
    /\ serving /\ quiet < Hold => serviceAge <= quiet

HoldInv == OneInv /\ HoldKept

LEMMA InitHoldInv == Init => HoldInv
  BY InitOneInv, Bounds DEF Init, HoldInv, HoldKept, Claimed, Claiming

\* Every step takes the strip a step, or none, and keeps the invariant.
LEMMA StepHold ==
    ASSUME HoldInv, Step
    PROVE  HoldKept' /\ [Strip!Next]_(Strip!vars)
  <1> TypeOK /\ TypeOK' /\ OneInv /\ OneInv' /\ HoldKept
    BY StepOneInv DEF HoldInv, OneInv
  <1> USE Bounds
  <1>1. CASE led_drv_bind_service_task \/ led_drv_init
    BY <1>1 DEF led_drv_bind_service_task, led_drv_init, calls, rmt, HoldKept, Claimed, Claiming,
                Strip!vars
  <1>2. ASSUME NEW c \in Caller, PollStart(c) \/ FlushStart(c)
        PROVE HoldKept' /\ UNCHANGED rmt
    <2>1. PICK w \in {"polling", "flushing"} : Start(c, w)
      BY <1>2 DEF PollStart, FlushStart
    <2>2. Claimed' <=> Claimed
      BY <2>1, SameClaims DEF Start, Claiming, Where
    <2> QED
      BY <2>1, <2>2 DEF Start, driver, rmt, HoldKept
  <1>3. ASSUME NEW c \in Caller, led_drv_is_busy(c) PROVE HoldKept' /\ UNCHANGED rmt
    <2>1. Claimed' <=> Claimed
      BY <1>3, SameClaims DEF led_drv_is_busy, Return, Claiming, Where
    <2>2. age[c] \in Int /\ age[c] >= 0 /\ remaining \in Int /\ quiet \in Int /\ quiet <= Hold
      BY DEF TypeOK, TimesOK
    <2>3. HoldOver(c) => quiet = Hold
      BY <2>2 DEF HoldOver, HoldKept
    <2> QED
      BY <1>3, <2>1, <2>2, <2>3 DEF led_drv_is_busy, StateSeen, HoldOver, rmt, HoldKept
  <1>4. ASSUME NEW c \in Caller, FlushRefused(c) PROVE HoldKept' /\ UNCHANGED rmt
    <2>1. Claimed' <=> Claimed
      BY <1>4, SameClaims DEF FlushRefused, Return, Claiming, Where
    <2> QED
      BY <1>4, <2>1 DEF FlushRefused, driver, rmt, HoldKept
  <1>5. ASSUME NEW c \in Caller, FlushClaim(c) PROVE HoldKept' /\ UNCHANGED rmt
    <2>1. age[c] \in Int /\ age[c] >= 0 /\ remaining \in Int /\ quiet \in Int /\ quiet <= Hold
      BY DEF TypeOK, TimesOK
    <2>2. quiet = Hold
      BY <1>5, <2>1 DEF FlushClaim, StateSeen, HoldOver, HoldKept
    <2> QED
      BY <1>5, <2>1, <2>2 DEF FlushClaim, rmt, HoldKept
  <1>6. ASSUME NEW c \in Caller, build_rmt_items(c) \/ FlushFails(c)
        PROVE HoldKept' /\ UNCHANGED rmt
    <2>1. Claimed' <=> Claimed
      BY <1>6, SameClaims DEF build_rmt_items, FlushFails, Claiming, Where
    <2>2. UNCHANGED <<driver, rmt>>
      BY <1>6 DEF build_rmt_items, FlushFails
    <2> QED
      BY <2>1, <2>2 DEF driver, rmt, HoldKept
  <1>7. ASSUME NEW c \in Caller, FlushWrite(c) PROVE HoldKept' /\ Strip!Shift
    <2>1. Claimed
      BY <1>7 DEF FlushWrite, Claimed, Claiming
    <2>2. quiet = Hold /\ ~Claimed' /\ ~serving
      BY <1>7, <2>1 DEF FlushWrite, HoldKept, OneInv, OneHolder
    <2> QED
      BY <1>7, <2>2 DEF FlushWrite, driver, HoldKept, Strip!Shift
  <1>8. ASSUME NEW c \in Caller, FlushRollback(c) PROVE HoldKept' /\ UNCHANGED rmt
    <2>1. Claiming(c) /\ Claimed
      BY <1>8 DEF FlushRollback, Claimed, Claiming
    <2> QED
      BY <1>8, <2>1 DEF FlushRollback, rmt, HoldKept
  <1>9. CASE TxEnd
    <2>1. ~Claimed /\ ~Claimed' /\ ~serving /\ g_tx_state = "TX_ACTIVE"
      BY <1>9 DEF TxEnd, driver, calls, OneInv, OneHolder, Claimed, Claiming
    <2> QED
      BY <1>9, <2>1 DEF TxEnd, driver, HoldKept, Strip!Next, Strip!End
  <1>10. CASE led_rmt_tx_done_cb
    BY <1>10 DEF led_rmt_tx_done_cb, calls, HoldKept, Claimed, Claiming, Strip!vars
  <1>11. CASE LedDrvServiceTask
    <2>1. quiet \in Int /\ quiet >= 0
      BY DEF TypeOK, TimesOK
    <2> QED
      BY <1>11, <2>1 DEF LedDrvServiceTask, calls, rmt, HoldKept, Claimed, Claiming, Strip!vars
  <1>12. CASE led_drv_tx_done_service
    <2>1. /\ g_tx_state = "TX_ACTIVE" /\ ~Claimed
          /\ serviceAge \in Int /\ quiet \in Int /\ serviceAge <= MaxDelay
      BY <1>12 DEF led_drv_tx_done_service, OneInv, OneHolder, TypeOK, TimesOK
    <2> QED
      BY <1>12, <2>1 DEF led_drv_tx_done_service, calls, rmt, HoldKept, Claimed, Claiming,
                         Strip!vars
  <1>13. CASE Tick
    <2>1. /\ remaining \in Int /\ quiet \in 0..Hold /\ serviceAge \in Int
          /\ line \in {"idle", "shifting", "ended"}
      BY DEF TypeOK, TimesOK, ControlOK
    <2>2. (Claimed' <=> Claimed) /\ UNCHANGED <<g_tx_state, serving, line>>
      BY <1>13 DEF Tick, Claimed, Claiming
    <2>3. line # "idle" => g_tx_state = "TX_ACTIVE" /\ ~Claimed /\ ~serving
      BY DEF OneInv, OneHolder
    <2>4. HoldKept'
      BY <1>13, <2>1, <2>2, <2>3 DEF Tick, HoldKept
    <2> QED
      BY <1>13, <2>1, <2>2, <2>4 DEF Tick, Strip!Next, Strip!Wait, Strip!vars
  <1> QED
    BY <1>1, <1>2, <1>3, <1>4, <1>5, <1>6, <1>7, <1>8, <1>9, <1>10, <1>11, <1>12, <1>13
    DEF Step, Strip!Next, Strip!vars, rmt

LEMMA StutterHold ==
    ASSUME HoldInv, UNCHANGED vars
    PROVE  HoldKept' /\ UNCHANGED Strip!vars
  BY DEF HoldInv, HoldKept, Claimed, Claiming, Strip!vars, vars, driver, calls, rmt

\* The driver keeps the line quiet between the last bit of a frame and the first of the
\* next for at least POST_FLUSH_RESET_US, however old the readings of the clock are
\* (led_drv_rmt.cpp:224-236, 298-313).
THEOREM HoldAlwaysKept == Spec => KeepsHold
  <1>1. Init => HoldInv /\ Strip!Init
    BY InitHoldInv DEF Init, Strip!Init
  <1>2. HoldInv /\ [Next]_vars => HoldInv' /\ [Strip!Next]_(Strip!vars)
    <2>1. ASSUME HoldInv, Next PROVE HoldInv' /\ [Strip!Next]_(Strip!vars)
      BY <2>1, NextIsStep, StepOneInv, StepHold DEF HoldInv
    <2>2. ASSUME HoldInv, UNCHANGED vars PROVE HoldInv' /\ [Strip!Next]_(Strip!vars)
      BY <2>2, StutterOneInv, StutterHold DEF HoldInv
    <2> QED
      BY <2>1, <2>2
  <1> QED
    BY <1>1, <1>2, PTL DEF Spec, KeepsHold, Strip!Spec

=============================================================================
