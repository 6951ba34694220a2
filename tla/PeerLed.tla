--------------------------------- MODULE PeerLed ---------------------------------
(***************************************************************************)
(* The peer LEDs, src/src/peer_chk_led.cpp, on the driver of LedDriver: first   *)
(* peer_led_setup(), called by setup(), shows three pictures and waits for      *)
(* each; then LedTask() turns the pairing state of the peers into a picture     *)
(* every 500 ms, and flushes it unless the driver is busy.  The loop on the     *)
(* other core sets and clears the bits of PairMask at any time (ApLink.mask).    *)
(*                                                                           *)
(* The two never use the driver at the same time, so Caller has one element.    *)
(* The signal strength, which the Wi-Fi task writes from promiscuous_rx_cb(),    *)
(* is read afresh for each picture and may be anything.                        *)
(***************************************************************************)
EXTENDS LedDriver

CONSTANT Peer

ASSUME OneCaller == \E c \in Caller : Caller = {c}

Task == CHOOSE c \in Caller : TRUE

VARIABLES
    mask,           \* the peers whose bit in PairMask is set
    stage,          \* where the task is between its calls of the driver
    round,          \* 1..3: the pictures of set-up, 4: LedTask()
    led,            \* led_ctrl[].state
    ever_paired,    \* led_ctrl[].ever_paired
    pl_tog_flag,
    pixels,         \* g_pixels, the picture drawn
    items,          \* g_items, the picture encoded
    wire,           \* the picture last shifted to the strip
    been            \* history: the peers whose bit has been set

task == <<stage, round, led, ever_paired, pl_tog_flag>>
pictures == <<pixels, items, wire>>
all == <<vars, mask, task, pictures, been>>

Colour == {"OFF", "RED", "GREEN", "YELLOW", "PURPLE"}
Picture == [Peer -> Colour]
Plain(colour) == [p \in Peer |-> colour]

LedTypeOK ==
    /\ TypeOK
    /\ mask \subseteq Peer /\ been \subseteq Peer
    /\ stage \in {"init", "draw", "poll", "polled", "flush", "flushed"}
    /\ round \in 1..4
    /\ led \in [Peer -> {"OFF", "NORMAL", "PAIR_DISC"}]
    /\ ever_paired \in [Peer -> BOOLEAN]
    /\ pl_tog_flag \in BOOLEAN
    /\ pixels \in Picture /\ items \in Picture /\ wire \in Picture

LedInit ==
    /\ Init
    /\ mask = {} /\ been = {}
    /\ stage = "init" /\ round = 1
    /\ led = [p \in Peer |-> "OFF"]
    /\ ever_paired = [p \in Peer |-> FALSE]
    /\ pl_tog_flag = FALSE
    /\ pixels = Plain("OFF") /\ items = Plain("OFF") /\ wire = Plain("OFF")

-----------------------------------------------------------------------------
(* The loop, on the other core; it starts after set-up *)

PairMask_Set(p) ==
    /\ round = 4
    /\ mask' = (IF p \in mask THEN mask \ {p} ELSE mask \cup {p})
    /\ been' = been \cup mask'
    /\ UNCHANGED <<vars, task, pictures>>

-----------------------------------------------------------------------------
(* setup(): bind the service task, set the driver up, show three pictures *)

Bind ==
    /\ stage = "init"
    /\ led_drv_bind_service_task
    /\ UNCHANGED <<mask, task, pictures, been>>

\* Without a driver set-up is over, but LedTask() is started all the same.
InitDriver ==
    /\ stage = "init"
    /\ led_drv_init
    /\ stage' = "draw"
    /\ round' = IF g_inited' THEN 1 ELSE 4
    /\ UNCHANGED <<mask, led, ever_paired, pl_tog_flag, pictures, been>>

\* led_drv_clear(), led_drv_fill(): purple in between, so that every LED is seen.
show_led_init ==
    /\ stage = "draw" /\ round < 4
    /\ pixels' = Plain(IF round = 2 THEN "PURPLE" ELSE "OFF")
    /\ stage' = "flush"
    /\ UNCHANGED <<vars, mask, round, led, ever_paired, pl_tog_flag, items, wire, been>>

-----------------------------------------------------------------------------
(* LED_Task(): one picture of one snapshot of PairMask *)

\* Mutant: a channel without a peer is shown as a lost one.
LedAlarm(s, paired, ever) ==
    CASE s \in {"OFF", "PAIR_DISC"} /\ paired -> "NORMAL"
      [] s # "PAIR_DISC" /\ ~paired -> "PAIR_DISC"
      [] OTHER -> s

LedState(s, paired, ever) ==
    CASE s \in {"OFF", "PAIR_DISC"} /\ paired -> "NORMAL"
      [] s = "NORMAL" /\ ~paired /\ ever -> "PAIR_DISC"
      [] OTHER -> s

\* GREEN from -68 dBm on, YELLOW below.
set_peer_LED == {"GREEN", "YELLOW"}

\* A lost peer blinks red while another one is paired, a paired one in the colour
\* of its signal.
set_peer_LED_state(s, tog, any_paired) ==
    CASE s = "PAIR_DISC" /\ any_paired /\ tog -> {"RED"}
      [] s = "NORMAL" /\ tog -> set_peer_LED
      [] OTHER -> {"OFF"}

LED_Task ==
    /\ stage = "draw" /\ round = 4
    /\ pl_tog_flag' = ~pl_tog_flag
    /\ led' = [p \in Peer |-> LedState(led[p], p \in mask, ever_paired[p])]
    /\ ever_paired' = [p \in Peer |-> ever_paired[p] \/ (led[p] = "OFF" /\ p \in mask)]
    /\ IF g_inited
       THEN /\ pixels' \in Picture
            /\ \A p \in Peer :
                  pixels'[p] \in set_peer_LED_state(led'[p], pl_tog_flag', mask # {})
       ELSE UNCHANGED pixels
    /\ stage' = "poll"
    /\ UNCHANGED <<vars, mask, round, items, wire, been>>

-----------------------------------------------------------------------------
(* The task calls the driver, and goes on when the call has returned *)

\* Mutant: the test of led_drv_is_busy() is the wrong way round in LedTask().
PolledInverted ==
    CASE round < 4 -> IF answer[Task] THEN "poll" ELSE "draw"
      [] round = 4 -> IF answer[Task] THEN "flush" ELSE "draw"

\* Set-up waits for the driver; LedTask() leaves a busy one for the next period.
Polled == CASE round < 4 /\ answer[Task] -> "poll"
            [] round < 4 /\ ~answer[Task] -> "draw"
            [] round = 4 /\ answer[Task] -> "draw"
            [] OTHER -> "flush"

Poll ==
    /\ stage = "poll"
    /\ PollStart(Task)
    /\ stage' = "polled"
    /\ UNCHANGED <<mask, round, led, ever_paired, pl_tog_flag, pictures, been>>

PollDone ==
    /\ stage = "polled" /\ call[Task] = "outside"
    /\ stage' = Polled
    /\ round' = IF round < 4 /\ ~answer[Task] THEN round + 1 ELSE round
    /\ UNCHANGED <<vars, mask, led, ever_paired, pl_tog_flag, pictures, been>>

Flush ==
    /\ stage = "flush"
    /\ FlushStart(Task)
    /\ stage' = "flushed"
    /\ UNCHANGED <<mask, round, led, ever_paired, pl_tog_flag, pictures, been>>

FlushDone ==
    /\ stage = "flushed" /\ call[Task] = "outside"
    /\ stage' = IF round < 4 THEN "poll" ELSE "draw"
    /\ UNCHANGED <<vars, mask, round, led, ever_paired, pl_tog_flag, pictures, been>>

\* Inside the driver, build_rmt_items() copies the picture, rmt_write_items() sends it.
InDriver ==
    /\ CallStep(Task)
    /\ items' = IF call[Task] = "claimed" THEN pixels ELSE items
    /\ wire' = IF line' = "shifting" /\ line # "shifting" THEN items ELSE wire
    /\ UNCHANGED <<mask, task, pixels, been>>

\* The service task, the RMT channel and time know nothing of pictures.
Driver(A) == A /\ UNCHANGED <<mask, task, pictures, been>>

TaskStep ==
    \/ Bind \/ InitDriver \/ show_led_init
    \/ Poll \/ PollDone \/ Flush \/ FlushDone \/ InDriver

LedNext ==
    \/ \E p \in Peer : PairMask_Set(p)
    \/ TaskStep \/ LED_Task
    \/ Driver(ServiceStep) \/ Driver(RmtStep) \/ Driver(Tick)

LedSpec == LedInit /\ [][LedNext]_all

\* Tasks, hardware and time go on; the loop may change PairMask or leave it.
LedFairSpec ==
    /\ LedSpec
    /\ WF_all(TaskStep) /\ WF_all(LED_Task)
    /\ WF_all(Driver(ServiceStep)) /\ WF_all(Driver(RmtStep)) /\ WF_all(Driver(Tick))

-----------------------------------------------------------------------------
(* Correctness *)

\* After set-up the strip shows colours only of channels that have had a peer, and
\* what it shows is behind PairMask by whole pictures only: red is never on a
\* channel that LED_Task() never saw paired (peer_chk_led.h:25).
OnlyPeersAreLit ==
    \A p \in Peer : wire[p] \in {"RED", "GREEN", "YELLOW"} => p \in been

\* Set-up ends: the three loops that wait for the driver do, whatever fails
\* (peer_chk_led.cpp:87, 94, 119).
SetupEnds == <>(round = 4)

\* A picture drawn while the driver is free, after pl_tog_flag was tog.
FreeTurn(tog) ==
    LED_Task /\ g_tx_state # "TX_ACTIVE" /\ remaining <= 0 /\ pl_tog_flag = tog

\* The period of LedTask(), 500 ms, is a thousand times the 0.6 ms a frame and its hold
\* take: a delayed task may find the driver busy, but not each time it is about to
\* show the same half of the blink.
NotAlwaysBusy == \A tog \in BOOLEAN : []<><<FreeTurn(tog)>>_all

\* The driver was set up, and rmt_write_items() accepts its frames.
Transmits == g_inited /\ call[Task] # "failed"

\* What lasts is shown, again and again: a loss in red while another peer is paired,
\* a pairing in green or yellow, and a dark half of the blink in between, although
\* pictures are skipped while the driver is busy (peer_chk_led.cpp:62).
LastingIsShown ==
    NotAlwaysBusy =>
    \A p \in Peer :
        /\ <>[](Transmits /\ led[p] # "OFF" /\ p \notin mask /\ mask # {})
              => []<>(wire[p] = "RED") /\ []<>(wire[p] = "OFF")
        /\ <>[](Transmits /\ p \in mask)
              => []<>(wire[p] \in set_peer_LED) /\ []<>(wire[p] = "OFF")

=============================================================================
