-------------------------------- MODULE LedDriver --------------------------------
(***************************************************************************)
(* The LED driver of src/src/led_drv_rmt.cpp, in time: the tasks that poll it  *)
(* and flush frames, the RMT peripheral and its interrupt, and the service     *)
(* task the interrupt wakes.  One step is one critical section, one call of    *)
(* the RMT driver, or one reading of the clock: esp_timer_get_time() is read   *)
(* before the critical section that uses it, so the reading may be old.        *)
(*                                                                           *)
(* Time is kept as differences to now.  No task is held up for more than       *)
(* MaxDelay between its reading of the clock and its use.                      *)
(*                                                                           *)
(* led_drv_deinit() is reached only from a second led_drv_init(), which        *)
(* setup() never makes, and is left out; so are colours (PeerLed has them).    *)
(***************************************************************************)
EXTENDS Integers

CONSTANTS
    Caller,         \* the tasks that poll and flush
    Hold,           \* POST_FLUSH_RESET_US, 100 us, in units of the clock
    MaxDelay,       \* bound on the age of a reading of the clock
    InitResult,     \* whether rmt_config() and rmt_driver_install() succeed
    WriteResult     \* whether the frame is built and rmt_write_items() accepts it

ASSUME DelayAssumption ==
    /\ Hold \in Nat \ {0} /\ MaxDelay \in Nat
    /\ InitResult \subseteq BOOLEAN /\ InitResult # {}
    /\ WriteResult \subseteq BOOLEAN /\ WriteResult # {}

VARIABLES
    g_tx_state,     \* IDLE, TX_ACTIVE or RESET_HOLD
    remaining,      \* g_reset_deadline_us - now, LongAgo for "at least MaxDelay ago"
    g_inited,
    bound,          \* g_service_task_handle is set
    call,           \* where each caller is
    age,            \* now - the reading of the clock each caller holds
    answer,         \* what each caller's last call returned
    notified,       \* the notification of the service task is pending
    serving,        \* the service task is between its wake-up and its critical section
    serviceAge,     \* now - its reading of the clock
    line,           \* the RMT channel: idle, shifting, or ended with its interrupt pending
    quiet           \* time since the last bit, Hold for "at least Hold"

driver == <<g_tx_state, remaining, g_inited, bound, notified, serving, serviceAge>>
calls == <<call, age, answer>>
rmt == <<line, quiet>>
vars == <<driver, calls, rmt>>

\* The least remaining that is told apart.
LongAgo == 0 - MaxDelay

Where == {"outside", "polling", "flushing", "claimed", "built", "failed"}

ControlOK ==
    /\ g_tx_state \in {"IDLE", "TX_ACTIVE", "RESET_HOLD"}
    /\ g_inited \in BOOLEAN /\ bound \in BOOLEAN
    /\ call \in [Caller -> Where]
    /\ answer \in [Caller -> BOOLEAN]
    /\ notified \in BOOLEAN /\ serving \in BOOLEAN
    /\ line \in {"idle", "shifting", "ended"}

TimesOK ==
    /\ remaining \in LongAgo..Hold
    /\ age \in [Caller -> 0..MaxDelay]
    /\ serviceAge \in 0..MaxDelay
    /\ quiet \in 0..Hold

TypeOK == ControlOK /\ TimesOK

Init ==
    /\ g_tx_state = "IDLE" /\ remaining = 0
    /\ g_inited = FALSE /\ bound = FALSE
    /\ call = [c \in Caller |-> "outside"]
    /\ age = [c \in Caller |-> 0]
    /\ answer = [c \in Caller |-> FALSE]
    /\ notified = FALSE /\ serving = FALSE /\ serviceAge = 0
    /\ line = "idle" /\ quiet = Hold

-----------------------------------------------------------------------------
(* Set-up, main.cpp:2602: the service task is bound, then the driver is set up *)

led_drv_bind_service_task ==
    /\ ~bound
    /\ bound' = TRUE
    /\ UNCHANGED <<g_tx_state, remaining, g_inited, notified, serving, serviceAge, calls, rmt>>

led_drv_init ==
    /\ bound /\ ~g_inited
    /\ \E ok \in InitResult : g_inited' = ok
    /\ UNCHANGED <<g_tx_state, remaining, bound, notified, serving, serviceAge, calls, rmt>>

-----------------------------------------------------------------------------
(* led_drv_is_busy() and led_drv_flush_async() *)

\* Mutant: the hold ends at any poll.
HoldOverAtOnce(c) == g_inited /\ g_tx_state = "RESET_HOLD"

\* led_drv_update_rst_hold_state_locked(): the caller's reading is at or past the
\* deadline.
HoldOver(c) == g_inited /\ g_tx_state = "RESET_HOLD" /\ remaining + age[c] <= 0

StateSeen(c) == IF HoldOver(c) THEN "IDLE" ELSE g_tx_state

\* The caller reads the clock.
Start(c, where) ==
    /\ call[c] = "outside"
    /\ call' = [call EXCEPT ![c] = where]
    /\ UNCHANGED <<driver, age, answer, rmt>>

PollStart(c) == Start(c, "polling")
FlushStart(c) == Start(c, "flushing")

Return(c, value) ==
    /\ call' = [call EXCEPT ![c] = "outside"]
    /\ age' = [age EXCEPT ![c] = 0]
    /\ answer' = [answer EXCEPT ![c] = value]

led_drv_is_busy(c) ==
    /\ call[c] = "polling"
    /\ g_tx_state' = StateSeen(c)
    /\ remaining' = IF HoldOver(c) THEN 0 ELSE remaining
    /\ Return(c, g_inited /\ StateSeen(c) # "IDLE")
    /\ UNCHANGED <<g_inited, bound, notified, serving, serviceAge, rmt>>

FlushRefused(c) ==
    /\ call[c] = "flushing"
    /\ ~g_inited \/ StateSeen(c) # "IDLE"
    /\ Return(c, FALSE)
    /\ UNCHANGED <<driver, rmt>>

\* Mutant: the state is claimed after the frame has been handed over.
ClaimLate(c) ==
    /\ call[c] = "flushing"
    /\ g_inited /\ StateSeen(c) = "IDLE"
    /\ remaining' = 0
    /\ call' = [call EXCEPT ![c] = "claimed"]
    /\ age' = [age EXCEPT ![c] = 0]
    /\ UNCHANGED <<g_tx_state, g_inited, bound, notified, serving, serviceAge, answer, rmt>>

\* TX_ACTIVE is claimed before the frame is built, against a second flush.
FlushClaim(c) ==
    /\ call[c] = "flushing"
    /\ g_inited /\ StateSeen(c) = "IDLE"
    /\ g_tx_state' = "TX_ACTIVE" /\ remaining' = 0
    /\ call' = [call EXCEPT ![c] = "claimed"]
    /\ age' = [age EXCEPT ![c] = 0]
    /\ UNCHANGED <<g_inited, bound, notified, serving, serviceAge, answer, rmt>>

build_rmt_items(c) ==
    /\ call[c] = "claimed"
    /\ call' = [call EXCEPT ![c] = "built"]
    /\ UNCHANGED <<driver, age, answer, rmt>>

\* rmt_write_items() waits for the channel, fills its memory and starts it.
FlushWrite(c) ==
    /\ call[c] = "built"
    /\ line = "idle"
    /\ TRUE \in WriteResult
    /\ line' = "shifting"
    /\ Return(c, TRUE)
    /\ UNCHANGED <<driver, quiet>>

FlushFails(c) ==
    /\ call[c] = "built"
    /\ FALSE \in WriteResult
    /\ call' = [call EXCEPT ![c] = "failed"]
    /\ UNCHANGED <<driver, age, answer, rmt>>

\* Mutant: a failed start is only reported.
RollbackForgotten(c) ==
    /\ call[c] = "failed"
    /\ Return(c, FALSE)
    /\ UNCHANGED <<driver, rmt>>

\* The claim is taken back in a critical section of its own.
FlushRollback(c) ==
    /\ call[c] = "failed"
    /\ g_tx_state' = IF g_tx_state = "TX_ACTIVE" THEN "IDLE" ELSE g_tx_state
    /\ Return(c, FALSE)
    /\ UNCHANGED <<remaining, g_inited, bound, notified, serving, serviceAge, rmt>>

-----------------------------------------------------------------------------
(* The end of a transmission *)

\* The last bit has left the peripheral.
TxEnd ==
    /\ line = "shifting"
    /\ line' = "ended" /\ quiet' = 0
    /\ UNCHANGED <<driver, calls>>

\* Mutant: the interrupt frees the channel and wakes no one.
DoneUnheard ==
    /\ line = "ended"
    /\ line' = "idle"
    /\ UNCHANGED <<driver, calls, quiet>>

\* The interrupt frees the channel and wakes the service task, if one is bound.
led_rmt_tx_done_cb ==
    /\ line = "ended"
    /\ line' = "idle"
    /\ notified' = (notified \/ bound)
    /\ UNCHANGED <<g_tx_state, remaining, g_inited, bound, serving, serviceAge, calls, quiet>>

\* LedDrvServiceTask() takes its notification; the service reads the clock.
LedDrvServiceTask ==
    /\ notified /\ ~serving
    /\ notified' = FALSE /\ serving' = TRUE /\ serviceAge' = 0
    /\ UNCHANGED <<g_tx_state, remaining, g_inited, bound, calls, rmt>>

\* Mutant: the hold is one unit longer.
HoldLonger ==
    /\ serving
    /\ serving' = FALSE /\ serviceAge' = 0
    /\ IF g_inited /\ g_tx_state = "TX_ACTIVE"
       THEN g_tx_state' = "RESET_HOLD" /\ remaining' = Hold + 1 - serviceAge
       ELSE UNCHANGED <<g_tx_state, remaining>>
    /\ UNCHANGED <<g_inited, bound, notified, calls, rmt>>

led_drv_tx_done_service ==
    /\ serving
    /\ serving' = FALSE /\ serviceAge' = 0
    /\ IF g_inited /\ g_tx_state = "TX_ACTIVE"
       THEN g_tx_state' = "RESET_HOLD"
            /\ remaining' = IF Hold - serviceAge >= LongAgo THEN Hold - serviceAge
                            ELSE LongAgo
       ELSE UNCHANGED <<g_tx_state, remaining>>
    /\ UNCHANGED <<g_inited, bound, notified, calls, rmt>>

\* A caller that has read the clock and not used the reading yet.
Reading(c) == call[c] \in {"polling", "flushing"}

\* Time passes for everyone.
Tick ==
    /\ \A c \in Caller : Reading(c) => age[c] < MaxDelay
    /\ serving => serviceAge < MaxDelay
    /\ age' = [c \in Caller |-> IF Reading(c) THEN age[c] + 1 ELSE age[c]]
    /\ serviceAge' = IF serving THEN serviceAge + 1 ELSE serviceAge
    /\ remaining' = IF g_tx_state = "RESET_HOLD" /\ remaining > LongAgo
                    THEN remaining - 1 ELSE remaining
    /\ quiet' = IF line # "shifting" /\ quiet < Hold THEN quiet + 1 ELSE quiet
    /\ UNCHANGED <<g_tx_state, g_inited, bound, notified, serving, call, answer, line>>

-----------------------------------------------------------------------------
CallStep(c) ==
    \/ led_drv_is_busy(c)
    \/ FlushRefused(c) \/ FlushClaim(c) \/ build_rmt_items(c)
    \/ FlushWrite(c) \/ FlushFails(c) \/ FlushRollback(c)

ServiceStep == LedDrvServiceTask \/ led_drv_tx_done_service
RmtStep == TxEnd \/ led_rmt_tx_done_cb

Next ==
    \/ led_drv_bind_service_task \/ led_drv_init
    \/ \E c \in Caller : PollStart(c) \/ FlushStart(c) \/ CallStep(c)
    \/ ServiceStep \/ RmtStep
    \/ Tick

Spec == Init /\ [][Next]_vars

\* A call that has been made returns, the hardware finishes what it shifts and
\* raises its interrupt, the service task is scheduled, time passes, and every
\* task polls again and again, as set-up and LedTask() do.
FairSpec ==
    /\ Spec
    /\ \A c \in Caller : WF_vars(CallStep(c)) /\ WF_vars(PollStart(c))
    /\ WF_vars(ServiceStep) /\ WF_vars(RmtStep) /\ WF_vars(Tick)

-----------------------------------------------------------------------------
(* Correctness *)

Claiming(c) == call[c] \in {"claimed", "built", "failed"}

\* TX_ACTIVE always has exactly one holder: a caller between its claim and the
\* start or the rollback, the line until its interrupt, the notification, or the
\* service on its way to the critical section (led_drv_rmt.cpp:57-72, 220-238,
\* 294-362).  Two holders, and the late one would end the transmission of another
\* frame; none, and no flush would ever succeed again.
Claimed == \E c \in Caller : Claiming(c)

OneHolder ==
    /\ g_tx_state = "TX_ACTIVE" <=> Claimed \/ line # "idle" \/ notified \/ serving
    /\ \A c, d \in Caller : Claiming(c) /\ Claiming(d) => c = d
    /\ Claimed => line = "idle"
    /\ Claimed \/ line # "idle" => ~notified /\ ~serving
    /\ ~(notified /\ serving)

\* The strip as LedStrip sees it.
Strip == INSTANCE LedStrip WITH shifting <- (line = "shifting"), quiet <- quiet

\* The line stays quiet for the time the driver means it to, POST_FLUSH_RESET_US (100 us,
\* led_drv_rmt.cpp:46), between any two frames, although the deadline is set from a
\* reading of the clock taken before the lock, and compared with another one (224,
\* 282, 298).  Whether that time is what a strip needs is not said: peer_chk_led.cpp:7
\* asks for 300 us.
KeepsHold == Strip!Spec

\* Neither a failure nor any order of interrupt, service and callers leaves the
\* driver in TX_ACTIVE or in RESET_HOLD for good, which would hang the waiting
\* loops of set-up (peer_chk_led.cpp:87, 94, 119) and blind the LEDs.
BusyEnds ==
    /\ g_tx_state = "TX_ACTIVE" ~> g_tx_state # "TX_ACTIVE"
    /\ g_tx_state = "RESET_HOLD" ~> g_tx_state # "RESET_HOLD"

=============================================================================
