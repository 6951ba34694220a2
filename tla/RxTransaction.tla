------------------------------ MODULE RxTransaction -----------------------------
(***************************************************************************)
(* src/src/wifi_rx_queue.cpp and its two callers.                             *)
(*                                                                           *)
(* Core 0, the Wi-Fi task, runs recv_cb() -> wifi_rx_queue_push(): it         *)
(* snapshots the channel's transaction under the spinlock, sends the frame to *)
(* the FreeRTOS queue outside it, and counts the frame under it again.        *)
(* Core 1, the Arduino loop, begins, aborts and invalidates transactions and  *)
(* runs Wifi_Rx_Service(): it pops up to WIFI_RX_SERVICE_BUDGET frames and    *)
(* gives each to Wifi_Rx_ProcessFrame(), which consumes the transaction a     *)
(* good frame answers.  Each critical section and each queue call is one      *)
(* step, so the cores interleave at every point where they can meet.          *)
(*                                                                           *)
(* What Wifi_Rx_ProcessFrame() reads in a frame is abstracted to its          *)
(* "quality"; what it then writes to the peers is the business of ApLink.     *)
(***************************************************************************)
EXTENDS Naturals, Sequences, FiniteSets

CONSTANTS
    Channel,        \* the peer channels in use, 0..MAX_PEER-1 in the code
    Depth,          \* WIFI_RX_QUEUE_DEPTH
    ServiceBudget,  \* WIFI_RX_SERVICE_BUDGET
    Request,        \* the command bytes Core 1 starts transactions with
    Reply,          \* the command bytes peers answer with
    Quality,        \* what is wrong with a received frame, or "good"
    MaxEpoch,       \* bound: Core 1 starts or drops no request beyond it
    MaxFrames       \* bound: the radio delivers no more frames than this

\* The six commands the AP sends and the reply each of them expects.
ReplyTo == [AP_PAIRING_REQ    |-> "PEER_PAIRING_OK",
            AP_PAIRING_CANCEL |-> "PEER_PAIRING_CANCEL",
            AP_IO_GET         |-> "PEER_IO_GET",
            AP_IO_SET         |-> "PEER_IO_SET",
            AP_SERIAL_SET     |-> "PEER_SERIAL_SET",
            AP_SERIAL_GET     |-> "PEER_SERIAL_GET"]

NoReply == "0"

\* The command of a zeroed txBuf, a stale entry of the send queue: 0.
NoCommand == "NO_COMMAND"

wifi_rx_expected_response(cmd) ==
    IF cmd \in DOMAIN ReplyTo THEN ReplyTo[cmd] ELSE NoReply

ReplyCode == {ReplyTo[cmd] : cmd \in DOMAIN ReplyTo} \cup {NoReply}

\* A frame may be too short to be read (a silent return), fail the header, MAC
\* or CRC tests, or be well formed and yet raise no event (its peer is not
\* paired, its io_usage is not 1).
AllQuality == {"good", "short", "no_event",
               "PROTOCOL", "SOURCE_MAC", "CRC"}

DropReason == {"INVALID_FRAME", "QUEUE_FULL", "STALE_TRANSACTION",
               "SOURCE_MAC", "UNEXPECTED_COMMAND", "PROTOCOL", "CRC"}

\* The static_asserts of wifi_rx_queue.cpp, and what a run may choose.
ASSUME DepthAssumption ==
    /\ IsFiniteSet(Channel)
    /\ Depth \in Nat
    /\ Depth >= Cardinality(Channel)
    /\ ServiceBudget \in Nat \ {0}
ASSUME CommandAssumption ==
    /\ Request \subseteq DOMAIN ReplyTo \cup {NoCommand}
    /\ Reply \subseteq ReplyCode
    /\ Quality \subseteq AllQuality
ASSUME BoundAssumption == MaxEpoch \in Nat /\ MaxFrames \in Nat

VARIABLES
    peer_epoch, request_epoch, expected_response_cmd, active,
                    \* s_transaction[c], field by field
    rx_queue,       \* s_rx_queue: a FreeRTOS queue of Depth frames
    enqueued, dequeued, accepted, dropped, high_watermark,
                    \* s_stats
    radio,          \* where Core 0 is inside wifi_rx_queue_push()
    pushing,        \* its frame
    waiting,        \* its copy of uxQueueMessagesWaiting()
    delivered,      \* bookkeeping of the bound MaxFrames
    service,        \* where Core 1 is inside Wifi_Rx_Service()
    budget,         \* the frames this call may still take
    frame,          \* the one it works on
    request,        \* history: request[c] is the number of begins on c
    heard           \* history: a frame arrived for c's outstanding request

transaction == <<peer_epoch, request_epoch, expected_response_cmd, active>>
stats == <<enqueued, dequeued, accepted, dropped, high_watermark>>
core0 == <<radio, pushing, waiting, delivered>>
core1 == <<service, budget, frame>>
history == <<request, heard>>

vars == <<transaction, rx_queue, stats, core0, core1, history>>

\* "during" is history: the request that was outstanding when the frame came.
Frame == [channel : Channel, cmd : ReplyCode, quality : AllQuality,
          peer_epoch : Nat, request_epoch : Nat,
          expected_response_cmd : ReplyCode, during : Nat]

NoFrame == [channel |-> "none"]

TypeOK ==
    /\ peer_epoch \in [Channel -> Nat]
    /\ request_epoch \in [Channel -> Nat]
    /\ expected_response_cmd \in [Channel -> ReplyCode]
    /\ active \in [Channel -> BOOLEAN]
    /\ rx_queue \in Seq(Frame)
    /\ enqueued \in Nat
    /\ dequeued \in Nat
    /\ accepted \in Nat
    /\ dropped \in [DropReason -> Nat]
    /\ high_watermark \in Nat
    /\ radio \in {"idle", "snapped", "sent", "measured"}
    /\ radio = "snapped" => pushing \in Frame
    /\ waiting \in Nat
    /\ delivered \in Nat
    /\ service \in {"idle", "service", "received", "current"}
    /\ service \in {"received", "current"} => frame \in Frame
    /\ budget \in Nat
    /\ request \in [Channel -> Nat]
    /\ heard \in [Channel -> BOOLEAN]

\* wifi_rx_queue_init(): epochs start at 1, everything else at 0.
Init ==
    /\ peer_epoch = [c \in Channel |-> 1]
    /\ request_epoch = [c \in Channel |-> 1]
    /\ expected_response_cmd = [c \in Channel |-> NoReply]
    /\ active = [c \in Channel |-> FALSE]
    /\ rx_queue = <<>>
    /\ enqueued = 0 /\ dequeued = 0 /\ accepted = 0
    /\ dropped = [r \in DropReason |-> 0]
    /\ high_watermark = 0
    /\ radio = "idle" /\ pushing = NoFrame /\ waiting = 0 /\ delivered = 0
    /\ service = "idle" /\ budget = 0 /\ frame = NoFrame
    /\ request = [c \in Channel |-> 0]
    /\ heard = [c \in Channel |-> FALSE]

wifi_rx_queue_note_drop(reason) ==
    /\ dropped' = [dropped EXCEPT ![reason] = @ + 1]
    /\ UNCHANGED <<enqueued, dequeued, accepted, high_watermark>>

-----------------------------------------------------------------------------
(* Core 0: recv_cb() -> wifi_rx_queue_push() *)

\* A frame the radio hands over whose length or channel byte is out of range.
PushInvalid ==
    /\ radio = "idle"
    /\ delivered < MaxFrames
    /\ delivered' = delivered + 1
    /\ wifi_rx_queue_note_drop("INVALID_FRAME")
    /\ UNCHANGED <<transaction, rx_queue, radio, pushing, waiting, core1, history>>

\* The first critical section: the frame takes the transaction's epochs and,
\* when it is active, the reply it expects.
PushSnapshot(c, cmd, quality) ==
    /\ radio = "idle"
    /\ delivered < MaxFrames
    /\ radio' = "snapped"
    /\ delivered' = delivered + 1
    /\ pushing' = [channel |-> c, cmd |-> cmd, quality |-> quality,
                   peer_epoch |-> peer_epoch[c],
                   request_epoch |-> request_epoch[c],
                   expected_response_cmd |->
                      IF active[c] THEN expected_response_cmd[c] ELSE NoReply,
                   during |-> IF active[c] THEN request[c] ELSE 0]
    /\ heard' = [heard EXCEPT ![c] = @ \/ active[c]]
    /\ UNCHANGED <<transaction, rx_queue, stats, waiting, core1, request>>

PushDrop(reason) ==
    /\ wifi_rx_queue_note_drop(reason)
    /\ radio' = "idle"
    /\ pushing' = NoFrame
    /\ UNCHANGED <<transaction, rx_queue, waiting, delivered, core1, history>>

\* Nobody waits for the frame: it never takes a place in the queue.
PushUnsolicited ==
    /\ radio = "snapped"
    /\ pushing.expected_response_cmd = NoReply
    /\ PushDrop("STALE_TRANSACTION")

\* Mutants: the return after note_drop() is missing; the queue is one short.
PushFullFallsThrough ==
    /\ radio = "snapped"
    /\ pushing.expected_response_cmd # NoReply
    /\ Len(rx_queue) >= Depth
    /\ wifi_rx_queue_note_drop("QUEUE_FULL")
    /\ radio' = "sent"
    /\ UNCHANGED <<transaction, rx_queue, pushing, waiting, delivered, core1, history>>

PushFullEarly ==
    /\ radio = "snapped"
    /\ pushing.expected_response_cmd # NoReply
    /\ Len(rx_queue) + 1 >= Depth
    /\ PushDrop("QUEUE_FULL")

PushFull ==
    /\ radio = "snapped"
    /\ pushing.expected_response_cmd # NoReply
    /\ Len(rx_queue) >= Depth
    /\ PushDrop("QUEUE_FULL")

PushSend ==
    /\ radio = "snapped"
    /\ pushing.expected_response_cmd # NoReply
    /\ Len(rx_queue) < Depth
    /\ rx_queue' = Append(rx_queue, pushing)
    /\ radio' = "sent"
    /\ pushing' = NoFrame
    /\ UNCHANGED <<transaction, stats, waiting, delivered, core1, history>>

\* uxQueueMessagesWaiting() is read outside the critical section that uses it.
PushMeasure ==
    /\ radio = "sent"
    /\ radio' = "measured"
    /\ waiting' = Len(rx_queue)
    /\ UNCHANGED <<transaction, rx_queue, stats, pushing, delivered, core1, history>>

PushCount ==
    /\ radio = "measured"
    /\ enqueued' = enqueued + 1
    /\ high_watermark' = IF waiting > high_watermark THEN waiting ELSE high_watermark
    /\ radio' = "idle"
    /\ waiting' = 0
    /\ UNCHANGED <<transaction, rx_queue, dequeued, accepted, dropped,
                   pushing, delivered, core1, history>>

wifi_rx_queue_push ==
    PushUnsolicited \/ PushFull \/ PushSend \/ PushMeasure \/ PushCount

Radio ==
    \/ PushInvalid
    \/ \E c \in Channel, cmd \in Reply, q \in Quality : PushSnapshot(c, cmd, q)
    \/ wifi_rx_queue_push

-----------------------------------------------------------------------------
(* Core 1, outside Wifi_Rx_Service(): the life of a request *)

\* Mutant: a new request starts under the old request's epoch.
BeginKeepsEpoch(c, cmd) ==
    /\ service = "idle"
    /\ request[c] < MaxEpoch
    /\ expected_response_cmd' =
          [expected_response_cmd EXCEPT ![c] = wifi_rx_expected_response(cmd)]
    /\ active' = [active EXCEPT ![c] = TRUE]
    /\ request' = [request EXCEPT ![c] = @ + 1]
    /\ heard' = [heard EXCEPT ![c] = FALSE]
    /\ UNCHANGED <<peer_epoch, request_epoch, rx_queue, stats, core0, core1>>

wifi_rx_transaction_begin(c, cmd) ==
    /\ service = "idle"
    /\ request_epoch[c] < MaxEpoch
    /\ request_epoch' = [request_epoch EXCEPT ![c] = @ + 1]
    /\ expected_response_cmd' =
          [expected_response_cmd EXCEPT ![c] = wifi_rx_expected_response(cmd)]
    /\ active' = [active EXCEPT ![c] = TRUE]
    /\ request' = [request EXCEPT ![c] = @ + 1]
    /\ heard' = [heard EXCEPT ![c] = FALSE]
    /\ UNCHANGED <<peer_epoch, rx_queue, stats, core0, core1>>

\* What abort, invalidate and consume have in common.
CloseTransaction(c) ==
    /\ request_epoch' = [request_epoch EXCEPT ![c] = @ + 1]
    /\ expected_response_cmd' = [expected_response_cmd EXCEPT ![c] = NoReply]
    /\ active' = [active EXCEPT ![c] = FALSE]
    /\ heard' = [heard EXCEPT ![c] = FALSE]
    /\ UNCHANGED request

\* Mutant: abort is called from another task, inside Wifi_Rx_ProcessFrame().
AbortFromAnyTask(c) ==
    /\ request_epoch[c] < MaxEpoch
    /\ CloseTransaction(c)
    /\ UNCHANGED <<peer_epoch, rx_queue, stats, core0, core1>>

wifi_rx_transaction_abort(c) ==
    /\ service = "idle"
    /\ request_epoch[c] < MaxEpoch
    /\ CloseTransaction(c)
    /\ UNCHANGED <<peer_epoch, rx_queue, stats, core0, core1>>

wifi_rx_peer_invalidate(c) ==
    /\ service = "idle"
    /\ request_epoch[c] < MaxEpoch
    /\ peer_epoch' = [peer_epoch EXCEPT ![c] = @ + 1]
    /\ CloseTransaction(c)
    /\ UNCHANGED <<rx_queue, stats, core0, core1>>

-----------------------------------------------------------------------------
(* Core 1: Wifi_Rx_Service() and the gates of Wifi_Rx_ProcessFrame() *)

\* The test wifi_rx_transaction_consume() repeats under its own lock.
ConsumeAllowed(f) ==
    /\ active[f.channel]
    /\ f.peer_epoch = peer_epoch[f.channel]
    /\ f.request_epoch = request_epoch[f.channel]
    /\ f.expected_response_cmd = expected_response_cmd[f.channel]

\* Mutant: the frame's request epoch is not compared.
FrameOfAnyRequest(f) ==
    /\ active[f.channel]
    /\ f.peer_epoch = peer_epoch[f.channel]
    /\ f.expected_response_cmd # NoReply
    /\ f.expected_response_cmd = expected_response_cmd[f.channel]

wifi_rx_frame_is_current(f) ==
    /\ active[f.channel]
    /\ f.peer_epoch = peer_epoch[f.channel]
    /\ f.request_epoch = request_epoch[f.channel]
    /\ f.expected_response_cmd # NoReply
    /\ f.expected_response_cmd = expected_response_cmd[f.channel]

ServiceStart ==
    /\ service = "idle"
    /\ service' = "service"
    /\ budget' = ServiceBudget
    /\ UNCHANGED <<transaction, rx_queue, stats, core0, frame, history>>

ServiceEnd ==
    /\ service = "service"
    /\ budget = 0 \/ rx_queue = <<>>
    /\ service' = "idle"
    /\ budget' = 0
    /\ UNCHANGED <<transaction, rx_queue, stats, core0, frame, history>>

\* Mutant: the service loop forgets its budget.
PopPastBudget ==
    /\ service = "service"
    /\ rx_queue # <<>>
    /\ rx_queue' = Tail(rx_queue)
    /\ frame' = Head(rx_queue)
    /\ budget' = budget - 1
    /\ service' = "received"
    /\ UNCHANGED <<transaction, stats, core0, history>>

\* xQueueReceive() of wifi_rx_queue_pop().
wifi_rx_queue_pop ==
    /\ service = "service"
    /\ budget > 0
    /\ rx_queue # <<>>
    /\ rx_queue' = Tail(rx_queue)
    /\ frame' = Head(rx_queue)
    /\ budget' = budget - 1
    /\ service' = "received"
    /\ UNCHANGED <<transaction, stats, core0, history>>

\* The frame is counted as dequeued, then dropped unless it is current.
JudgeStale ==
    /\ service = "received"
    /\ ~wifi_rx_frame_is_current(frame)
    /\ dequeued' = dequeued + 1
    /\ dropped' = [dropped EXCEPT !["STALE_TRANSACTION"] = @ + 1]
    /\ service' = "service"
    /\ frame' = NoFrame
    /\ UNCHANGED <<transaction, rx_queue, enqueued, accepted, high_watermark,
                   core0, budget, history>>

JudgeCurrent ==
    /\ service = "received"
    /\ wifi_rx_frame_is_current(frame)
    /\ dequeued' = dequeued + 1
    /\ service' = "current"
    /\ UNCHANGED <<transaction, rx_queue, enqueued, accepted, dropped,
                   high_watermark, core0, budget, frame, history>>

\* A current frame that is unreadable, or that raises no event, leaves no mark.
ProcessSilent ==
    /\ service = "current"
    /\ \/ frame.quality = "short"
       \/ /\ frame.quality = "no_event"
          /\ frame.cmd = frame.expected_response_cmd
    /\ service' = "service"
    /\ frame' = NoFrame
    /\ UNCHANGED <<transaction, rx_queue, stats, core0, budget, history>>

ProcessDrop(reason) ==
    /\ wifi_rx_queue_note_drop(reason)
    /\ service' = "service"
    /\ frame' = NoFrame
    /\ UNCHANGED <<transaction, rx_queue, core0, budget, history>>

ProcessReject ==
    /\ service = "current"
    /\ frame.quality \in {"PROTOCOL", "SOURCE_MAC", "CRC"}
    /\ ProcessDrop(frame.quality)

ProcessUnexpected ==
    /\ service = "current"
    /\ frame.quality \in {"good", "no_event"}
    /\ frame.cmd # frame.expected_response_cmd
    /\ ProcessDrop("UNEXPECTED_COMMAND")

\* Mutant: the answer is counted but its transaction stays open.
ConsumeKeepsActive ==
    /\ service = "current"
    /\ frame.quality = "good"
    /\ frame.cmd = frame.expected_response_cmd
    /\ accepted' = accepted + 1
    /\ service' = "service"
    /\ frame' = NoFrame
    /\ UNCHANGED <<transaction, rx_queue, enqueued, dequeued, dropped,
                   high_watermark, core0, budget, history>>

\* A good answer closes its transaction and is counted.  The code drops the
\* frame when consume refuses it; ConsumeNeverFails says it never does.
wifi_rx_transaction_consume ==
    /\ service = "current"
    /\ frame.quality = "good"
    /\ frame.cmd = frame.expected_response_cmd
    /\ IF ConsumeAllowed(frame)
       THEN /\ CloseTransaction(frame.channel)
            /\ accepted' = accepted + 1
            /\ service' = "service"
            /\ frame' = NoFrame
            /\ UNCHANGED <<peer_epoch, rx_queue, enqueued, dequeued, dropped,
                           high_watermark, core0, budget>>
       ELSE ProcessDrop("STALE_TRANSACTION")

Wifi_Rx_ProcessFrame ==
    \/ JudgeStale \/ JudgeCurrent
    \/ ProcessSilent \/ ProcessReject \/ ProcessUnexpected
    \/ wifi_rx_transaction_consume

Wifi_Rx_Service ==
    ServiceStart \/ wifi_rx_queue_pop \/ Wifi_Rx_ProcessFrame \/ ServiceEnd

Loop ==
    \/ \E c \in Channel, cmd \in Request : wifi_rx_transaction_begin(c, cmd)
    \/ \E c \in Channel : wifi_rx_transaction_abort(c)
    \/ \E c \in Channel : wifi_rx_peer_invalidate(c)
    \/ Wifi_Rx_Service

Next == Radio \/ Loop

Spec == Init /\ [][Next]_vars

\* loop() calls Wifi_Rx_Service() on every pass (main.cpp), and a callback once
\* entered runs to its end: the two cores are never starved by each other.
FairSpec == Spec /\ WF_vars(Wifi_Rx_Service) /\ WF_vars(wifi_rx_queue_push)

-----------------------------------------------------------------------------
(* Properties *)

\* A frame the loop is about to take as an answer came in while the very request
\* it answers was outstanding - although the snapshot, the queue and the check
\* are separate steps of two cores, and requests are aborted, repeated and
\* peers deleted in between (wifi_rx_frame_is_current, main.cpp:874).
AnswersItsOwnRequest ==
    service = "current" =>
        /\ active[frame.channel]
        /\ frame.during = request[frame.channel]

\* Between wifi_rx_frame_is_current() and wifi_rx_transaction_consume() nothing
\* closes the transaction: the STALE drop at main.cpp:1420, after the caches
\* have already been written, is never taken.
ConsumeNeverFails ==
    service = "current" => ConsumeAllowed(frame)

\* Why that is so, in a form a step preserves.  No frame in play is from the
\* future, and one that carries the epoch of an active request was heard while
\* that request was outstanding: begin, abort, invalidate and consume each bump
\* the request epoch, so a number once used never names a second request.
FrameSound(f) ==
    /\ f.request_epoch <= request_epoch[f.channel]
    /\ /\ active[f.channel]
       /\ f.request_epoch = request_epoch[f.channel]
       /\ f.expected_response_cmd # NoReply
       => f.during = request[f.channel] /\ heard[f.channel]

FramesSound ==
    /\ radio = "snapped" => FrameSound(pushing)
    /\ \A i \in 1..Len(rx_queue) : FrameSound(rx_queue[i])
    /\ service \in {"received", "current"} => FrameSound(frame)
    /\ service = "current" => wifi_rx_frame_is_current(frame)

\* Every frame sent to the queue is counted once on each side, whatever the
\* interleaving of the two cores' critical sections: enqueued and dequeued
\* differ by the frames waiting and those between a queue call and its count.
FramesCounted ==
    enqueued + (IF radio \in {"sent", "measured"} THEN 1 ELSE 0)
      = dequeued + Len(rx_queue)
          + (IF service = "received" THEN 1 ELSE 0)

\* The static_assert of wifi_rx_queue.cpp:5: the queue holds one response per
\* peer.  A frame is dropped for a full queue only behind a surplus: a frame
\* waiting in the queue is stale, or shares its channel with another one or
\* with the frame dropped.
Surplus(i) ==
    \/ ~wifi_rx_frame_is_current(rx_queue[i])
    \/ rx_queue[i].channel = pushing.channel
    \/ \E j \in DOMAIN rx_queue : j # i /\ rx_queue[j].channel = rx_queue[i].channel

FullOnlyBehindSurplus ==
    [][dropped'["QUEUE_FULL"] # dropped["QUEUE_FULL"]
         => \E i \in DOMAIN rx_queue : Surplus(i)]_vars

\* A good answer that reached the queue in time settles its request: the request
\* is answered, or dropped by the loop, never left waiting with its answer
\* queued behind a backlog of other frames.
GoodAnswerQueued(c, r) ==
    /\ active[c]
    /\ request[c] = r
    /\ \E i \in DOMAIN rx_queue :
          LET f == rx_queue[i] IN
          /\ f.channel = c /\ f.during = r
          /\ f.quality = "good" /\ f.cmd = f.expected_response_cmd

QueuedAnswerSettles ==
    \A c \in Channel, r \in 1..(MaxEpoch - 1) :
        GoodAnswerQueued(c, r) ~> ~(active[c] /\ request[c] = r)

\* The implementation of RequestReply: a channel's request is answered at most
\* once, and only by a frame heard while it was outstanding.
Promise == INSTANCE RequestReply WITH
    outstanding <- active,
    answered <- accepted

ImplementsRequestReply == Promise!Spec

=============================================================================
