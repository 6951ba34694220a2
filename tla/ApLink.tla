--------------------------------- MODULE ApLink ---------------------------------
(***************************************************************************)
(* The link of the AP to its peers, src/src/main.cpp: the Arduino loop runs    *)
(* Wifi_Handle() every millisecond and Ethercat_Handle() every MS10 + 1 of     *)
(* them, each for one channel of a round robin of its own; frames the peers    *)
(* answered are processed in between.  Everything here runs on one core, so a  *)
(* handler is one step; the receive queue that frames arrive through is        *)
(* RxTransaction, and appears here as what it promises (RequestReply): while a *)
(* channel awaits an answer, one may be processed.                             *)
(*                                                                           *)
(* The PLC writes pairing_bit and data words at any time; only what one call   *)
(* of Ethercat_Handle() reads of them is modelled, afresh for each call.       *)
(***************************************************************************)
EXTENDS ApChannel, Sequences

CONSTANTS
    MAX_PEER,           \* number of channels, 16
    Serial,             \* the channels of serial devices, 12..15
    Paged,              \* the other channels whose device reports I/O pages
    Capacity,           \* places in the send queue, WIFI_SEND_QUEUE_MAX - 1
    MS10,               \* ticks between two calls of Ethercat_Handle, 10
    SendResult,         \* what esp_now_send() may return
    AddResult           \* whether esp_now_add_peer() may succeed, fail or both

Channel == 0..(MAX_PEER - 1)

ASSUME LinkAssumption ==
    /\ MAX_PEER \in Nat \ {0}
    /\ Serial \subseteq Channel /\ Paged \subseteq Channel \ Serial
    /\ Capacity \in Nat \ {0}
    /\ MS10 \in Nat
    /\ SendResult \subseteq {"ESP_OK", "ESP_ERR"} /\ SendResult # {}
    /\ AddResult \subseteq BOOLEAN /\ AddResult # {}

VARIABLES
    ch,                     \* the record of each channel
    queue,                  \* wifi_send.queue: channels waiting to transmit
    peer_addr,              \* the channel Wifi_Handle() serves
    peer_channel,           \* the channel Ethercat_Handle() serves
    cnt_loop,               \* calls spent on peer_addr
    setTime,                \* calls it may take
    next_expired_channel,   \* where the search for an expired request starts
    cnt_ms10                \* Wifi_Handle() calls since the last Ethercat_Handle()

vars == <<ch, queue, peer_addr, peer_channel, cnt_loop, setTime,
          next_expired_channel, cnt_ms10>>

\* The next channel of a round robin.
NextPeer(c) == IF c + 1 >= MAX_PEER THEN 0 ELSE c + 1

TypeOK ==
    /\ ch \in [Channel -> ChannelState]
    /\ queue \in Seq(Channel) /\ Len(queue) <= Capacity
    /\ peer_addr \in Channel
    /\ peer_channel \in Channel
    /\ cnt_loop \in 0..SET_TIME_PAIRING \cup 0..SET_TIME_PAIRD
    /\ setTime \in {SET_TIME_PAIRING, SET_TIME_PAIRD}
    /\ next_expired_channel \in Channel
    /\ cnt_ms10 \in 0..(MS10 + 1)

\* Power-up: every global is zero.
Init ==
    /\ ch = [c \in Channel |-> Idle]
    /\ queue = <<>>
    /\ peer_addr = 0
    /\ peer_channel = 0
    /\ cnt_loop = 0
    /\ setTime = SET_TIME_PAIRING
    /\ next_expired_channel = 0
    /\ cnt_ms10 = 0

-----------------------------------------------------------------------------
(* Wifi_Rx_ProcessFrame(): the frame of a peer, past every gate *)

RxPairingOk(c) ==
    /\ ch[c].awaiting = "AP_PAIRING_REQ"
    /\ IF ch[c].pairFlag
       THEN ch[c].sm.state \in {"PAIRED", "SEND"} /\ ch' = [ch EXCEPT ![c] = PairingRepeated(@)]
       ELSE \E registered \in AddResult : ch' = [ch EXCEPT ![c] = PairingOk(@, registered)]

RxPairingCancel(c) ==
    /\ ch[c].awaiting = "AP_PAIRING_CANCEL"
    /\ ch' = [ch EXCEPT ![c] = PairingCancelled(@)]

\* A serial answer counts on a serial channel only.
RxData(c) ==
    /\ ch[c].awaiting \in DataCommand
    /\ ch[c].awaiting \in {"AP_SERIAL_GET", "AP_SERIAL_SET"} => c \in Serial
    /\ ch[c].pairFlag
    /\ ch' = [ch EXCEPT ![c] = DataReceived(@)]

\* Frames are processed before Wifi_Handle() of each turn of loop(), never
\* between it and Ethercat_Handle().
Wifi_Rx_ProcessFrame(c) ==
    /\ cnt_ms10 <= MS10
    /\ ch[c].rx_busy
    /\ ch[c].sm.device # NoType
    /\ RxPairingOk(c) \/ RxPairingCancel(c) \/ RxData(c)
    /\ UNCHANGED <<queue, peer_addr, peer_channel, cnt_loop, setTime,
                   next_expired_channel, cnt_ms10>>

-----------------------------------------------------------------------------
(* Ethercat_Handle(): one channel's view of what the PLC has written *)

\* Mutant: an assignment is taken for a paired channel too.
AssignOverPairing(p, typeAddr) ==
    /\ ~ch[p].sm.request
    /\ ch' = [ch EXCEPT ![p] =
                Wifi_Peer_State_Set_Add([@ EXCEPT !.typeAddr = typeAddr], typeAddr)]

\* pairing_bit set, a type and address: pair the channel with that device.
PlcAssign(p, typeAddr) ==
    /\ ~ch[p].pairFlag
    /\ ~ch[p].sm.request
    /\ ch' = [ch EXCEPT ![p] =
                Wifi_Peer_State_Set_Add([@ EXCEPT !.typeAddr = typeAddr], typeAddr)]

\* pairing_bit set, a zero word: end the pairing.
PlcErase(p) ==
    /\ ch[p].pairFlag
    /\ ~ch[p].sm.request
    /\ ch' = [ch EXCEPT ![p] =
                Wifi_Peer_State_Set_Del(
                    [@ EXCEPT !.bak = [NoBackup EXCEPT !.del_set = TRUE], !.told = FALSE])]

\* pairing_bit clear, BIT15 in the word of a paged device: write it.
PlcWriteIo(p) ==
    /\ ch[p].pairFlag
    /\ p \in Paged
    /\ ch' = [ch EXCEPT ![p].sm.update_io = TRUE]

SerialWrite(f, c) ==
    IF f[c].sm.update_serial THEN f
    ELSE [f EXCEPT ![c].sm.update_serial = TRUE, ![c].sm.request_serial = FALSE]

SerialRead(f, c) ==
    IF f[c].sm.update_serial \/ f[c].sm.request_serial THEN f
    ELSE [f EXCEPT ![c].sm.request_serial = TRUE]

\* pairing_bit clear, the serial command word, whose two nibbles name the serial
\* channels to write and to read, whatever channel p is being served.
PlcSerial(p, written, read) ==
    /\ ch[p].pairFlag
    /\ p \in Serial
    /\ written \cup read # {}
    /\ LET w == IF written = {} THEN ch
                ELSE SerialWrite(ch, CHOOSE c \in written : TRUE)
       IN  ch' = IF read = {} THEN w ELSE SerialRead(w, CHOOSE c \in read : TRUE)

\* pairing_bit still set on a paired serial device: read it.
PlcHoldsSerial(p) ==
    /\ ch[p].pairFlag
    /\ p \in Serial
    /\ ch' = SerialRead(ch, p)

\* Nothing asked, or nothing that may be asked now.
PlcQuiet == UNCHANGED ch

\* A nibble names at most one channel.
Nibble == {{}} \cup {{c} : c \in Serial}

Ethercat_Handle ==
    /\ cnt_ms10 = MS10 + 1
    /\ \/ \E typeAddr \in TypeAddr : PlcAssign(peer_channel, typeAddr)
       \/ PlcErase(peer_channel)
       \/ PlcWriteIo(peer_channel)
       \/ \E written, read \in Nibble : PlcSerial(peer_channel, written, read)
       \/ PlcHoldsSerial(peer_channel)
       \/ PlcQuiet
    /\ peer_channel' = NextPeer(peer_channel)
    /\ cnt_ms10' = 0
    /\ UNCHANGED <<queue, peer_addr, cnt_loop, setTime, next_expired_channel>>

-----------------------------------------------------------------------------
(* Wifi_Handle(): one call, as the phases it runs through.  A phase takes and   *)
(* leaves the call's view of the state: its channel is peer_addr until a send   *)
(* turns it to another one, and save is save_response.                         *)

HasRoom(h) == Len(h.queue) < Capacity
Enqueue(h) == [h EXCEPT !.queue = Append(@, h.channel)]

ReadyStep(h) ==
    LET c == h.channel
        q == [h EXCEPT !.ch[c].sm.timeout = 0]
    IN  CASE ~(h.ch[c].sm.request /\ HasRoom(h)) -> q
          [] h.ch[c].sm.request /\ HasRoom(h) /\ h.ch[c].sm.add ->
                [Enqueue(q) EXCEPT !.ch[c].sm.state = "PAIRING_ADD",
                                   !.cnt_loop = 0, !.setTime = SET_TIME_PAIRING]
          [] OTHER -> Enqueue(q)

\* A request of a paired channel, normally to end the pairing.
PairedRequestStep(h) ==
    LET c == h.channel
        r == h.ch[c]
        q == [h EXCEPT !.setTime = SET_TIME_PAIRING]
    IN  CASE ~HasRoom(h) -> q
          [] HasRoom(h) /\ r.sm.del ->
                [Enqueue(q) EXCEPT !.ch[c].sm.response = FALSE,
                                   !.ch[c].sm.state = "PAIRING_DEL", !.cnt_loop = 0]
          [] HasRoom(h) /\ ~r.sm.del /\ r.pairFlag ->
                [Enqueue(q) EXCEPT !.ch[c].sm.state = "WAIT"]
          [] OTHER -> [Enqueue(q) EXCEPT !.ch[c] = del_peer([r EXCEPT !.sm = Zeroed])]

\* Serial writes go before serial reads, those before I/O writes; a channel
\* with nothing else to do reads its I/O.
DataWanted(r) ==
    CASE r.sm.update_serial -> "AP_SERIAL_SET"
      [] ~r.sm.update_serial /\ r.sm.request_serial -> "AP_SERIAL_GET"
      [] ~r.sm.update_serial /\ ~r.sm.request_serial /\ r.sm.update_io -> "AP_IO_SET"
      [] OTHER -> "AP_IO_GET"

\* Mutant: the flag of an I/O write outlives its request.
FlagTakenSerial(r, cmd) ==
    [r EXCEPT !.sm.update_serial = @ /\ cmd # "AP_SERIAL_SET",
              !.sm.request_serial = @ /\ cmd # "AP_SERIAL_GET"]

FlagTaken(r, cmd) ==
    [r EXCEPT !.sm.update_serial = @ /\ cmd # "AP_SERIAL_SET",
              !.sm.request_serial = @ /\ cmd # "AP_SERIAL_GET",
              !.sm.update_io = @ /\ cmd # "AP_IO_SET"]

PairedDataStep(h) ==
    LET c == h.channel
        cmd == DataWanted(h.ch[c])
        q == IF HasRoom(h)
             THEN [Enqueue(h) EXCEPT
                     !.ch[c] = Wifi_Peer_Data_Set(FlagTaken(@, cmd), cmd),
                     !.cnt_loop = IF cmd = "AP_IO_GET" THEN @ ELSE 0,
                     !.setTime = SET_TIME_PAIRD]
             ELSE h
    IN  [q EXCEPT !.ch[c].sm.state = "SEND"]

PairedStep(h) ==
    LET c == h.channel
        q == [h EXCEPT !.ch[c].sm.timeout = 0]
    IN  CASE q.ch[c].sm.request -> PairedRequestStep(q)
          [] ~q.ch[c].sm.request /\ q.ch[c].sm.response -> [q EXCEPT !.save = TRUE]
          [] OTHER -> PairedDataStep(q)

PairingDelStep(h) ==
    LET c == h.channel
        r == h.ch[c]
    IN  CASE ~r.sm.add -> h
          [] r.sm.add /\ r.sm.timeout + 1 > DEL_WAIT ->
                [h EXCEPT !.ch[c].sm.timeout = 0, !.ch[c].sm.state = "READY"]
          [] OTHER -> [h EXCEPT !.ch[c].sm.timeout = @ + 1]

\* The switch on peer.state.
StateStep(h) ==
    LET state == h.ch[h.channel].sm.state IN
    CASE state = "READY" -> ReadyStep(h)
      [] state = "PAIRED" -> PairedStep(h)
      [] state = "PAIRING_DEL" -> PairingDelStep(h)
      [] OTHER -> h

\* esp_now_send() refuses an empty packet and an address that is not registered.
Sent(r, result) ==
    LET ok == result = "ESP_OK" /\ r.sm.cmd # NoCommand
                /\ (r.sm.pMac = "peer" => r.pairFlag)
    IN  IF ok
        THEN Wifi_Request_Timeout_Start(
                [r EXCEPT !.rx_busy = TRUE, !.awaiting = r.sm.cmd,
                          !.told = r.bak.del_set /\ (@ \/ r.sm.cmd = "AP_PAIRING_CANCEL")],
                r.sm.cmd)
        ELSE DropRequest([r EXCEPT !.rx_busy = FALSE])

\* Only the head of the queue is looked at; the rest of the call is about it.
SendStep(h, result) ==
    IF h.queue = <<>> \/ (h.queue # <<>> /\ h.ch[Head(h.queue)].rx_busy)
    THEN h
    ELSE [h EXCEPT !.channel = Head(h.queue), !.queue = Tail(@), !.cnt_loop = 0,
                   !.ch[Head(h.queue)] = Sent(@, result)]

\* Mutant: data answers are left to PairedStep().
ResponseOfPairing(h) ==
    LET r == h.ch[h.channel] IN
    IF r.rx_busy /\ r.sm.reply THEN [h EXCEPT !.ch[h.channel] = PairingAnswered(@)] ELSE h

ResponseStep(h) ==
    LET r == h.ch[h.channel] IN
    CASE r.rx_busy /\ r.sm.reply -> [h EXCEPT !.ch[h.channel] = PairingAnswered(@)]
      [] r.rx_busy /\ ~r.sm.reply /\ r.sm.response -> [h EXCEPT !.save = TRUE]
      [] OTHER -> h

SaveStep(h) == IF h.save THEN [h EXCEPT !.ch[h.channel] = DataAnswered(@)] ELSE h

-----------------------------------------------------------------------------
(* Wifi_Request_Timeout_Service() *)

\* Mutant: only requests to paired peers age.
AgedWhilePaired(r) ==
    IF r.timeout.active /\ r.pairFlag /\ ~Wifi_Request_Response_Pending(r)
    THEN [r EXCEPT !.timeout.count = @ + 1] ELSE r

\* A request with its answer at hand does not age.
Aged(r) ==
    IF r.timeout.active /\ ~Wifi_Request_Response_Pending(r)
    THEN [r EXCEPT !.timeout.count = @ + 1] ELSE r

Late(r) == r.timeout.active /\ r.timeout.count > r.timeout.limit

\* How far c is from where the search starts.
Offset(c) == IF c >= next_expired_channel THEN c - next_expired_channel
             ELSE c + MAX_PEER - next_expired_channel

\* Mutant: the search does not go past the channel it starts at.
ExpiredAtStart(f) == {c \in Channel : Late(f[c]) /\ Offset(c) = 0}

\* The channel whose timeout this call handles: one, however many are late.
Expired(f) ==
    {c \in Channel : /\ Late(f[c])
                     /\ \A d \in Channel : Late(f[d]) => Offset(c) <= Offset(d)}

TimeoutStep(h) ==
    LET aged == [c \in Channel |-> Aged(h.ch[c])] IN
    [h EXCEPT !.ch = [c \in Channel |->
                        IF c \in Expired(aged) THEN Wifi_Request_Timeout_Handle(aged[c])
                        ELSE aged[c]],
              !.expired = Expired(aged)]

-----------------------------------------------------------------------------
\* Mutant: the slot is one call longer.
RotationDueLate(h) == h.cnt_loop > h.setTime \/ peer_addr \in h.expired

\* The time of peer_addr is over, or its request has expired.
RotationDue(h) == h.cnt_loop + 1 > h.setTime \/ peer_addr \in h.expired

RotateStep(h) ==
    CASE ~RotationDue(h) -> [h EXCEPT !.cnt_loop = @ + 1]
      [] RotationDue(h) /\ h.expired = {} /\ ~h.ch[h.channel].timeout.active ->
            [h EXCEPT !.cnt_loop = 0, !.ch[h.channel] = RotateOut(@)]
      [] OTHER -> [h EXCEPT !.cnt_loop = 0]

Called == [ch |-> ch, queue |-> queue, cnt_loop |-> cnt_loop, setTime |-> setTime,
           channel |-> peer_addr, save |-> FALSE, expired |-> {}]

Wifi_Handle ==
    /\ cnt_ms10 <= MS10
    /\ \E result \in SendResult :
        LET h == TimeoutStep(SaveStep(ResponseStep(SendStep(StateStep(Called), result))))
            z == RotateStep(h)
        IN  /\ ch' = z.ch
            /\ queue' = z.queue
            /\ cnt_loop' = z.cnt_loop
            /\ setTime' = z.setTime
            /\ peer_addr' = IF RotationDue(h) THEN NextPeer(peer_addr) ELSE peer_addr
            /\ next_expired_channel' \in
                  IF h.expired = {} THEN {next_expired_channel}
                  ELSE {NextPeer(c) : c \in h.expired}
    /\ cnt_ms10' = cnt_ms10 + 1
    /\ UNCHANGED peer_channel

Next ==
    \/ \E c \in Channel : Wifi_Rx_ProcessFrame(c)
    \/ Wifi_Handle
    \/ Ethercat_Handle

Spec == Init /\ [][Next]_vars

\* A step of loop(): only its handlers turn cnt_ms10, and they take turns.
Turn == cnt_ms10' \in 0..(MS10 + 1)

\* loop() never stops calling its handlers (so WF for both, stated of the tick
\* they turn, which one of the two always can); peers and PLC owe nothing.
FairSpec == Spec /\ WF_cnt_ms10(Turn)

-----------------------------------------------------------------------------
(* Safety *)

\* PairMask, which the LED task on the other core reads, and pairFlag, which the
\* loop works from, are written in five places, always as a pair: del_peer(), the registration of a
\* peer, its failure, and the two ends of a repair.
MaskIsPairing == \A c \in Channel : ch[c].mask = ch[c].pairFlag

\* A paired channel talks to the device it stores: nothing the PLC assigns, and no
\* repair that starts over, changes the device under a running pairing, although
\* both write wifi_state_machine[] and peer[] separately (main.cpp:659, 461).
PairedWithItsDevice ==
    \A c \in Channel : ch[c].pairFlag =>
        /\ ch[c].typeAddr # NoType
        /\ ch[c].sm.device = ch[c].typeAddr
        /\ ch[c].sm.pMac = "peer"

\* The PLC's wish to end a pairing is kept twice, as pairing.del in the state
\* machine and as del_set in the backup del_peer() reads.  The two agree, on every
\* path that zeroes one of them, and only a paired channel holds them.
EraseKeptTwice ==
    \A c \in Channel :
        /\ ch[c].bak.del_set <=> ch[c].sm.del
        /\ ch[c].bak.del_set => ch[c].pairFlag

\* A channel under repair knows whom to look for, and one that is free is not
\* shown to the PLC: the end of a repair forgets both (main.cpp:2433).
RepairKnowsItsPeer ==
    \A c \in Channel : ~ch[c].pairFlag =>
        /\ ch[c].bak.repair_itself => ch[c].typeAddr # NoType
        /\ ch[c].status => ch[c].bak.repair_itself

\* A timeout runs only for a request that is out: the channel is busy, and either
\* its transaction can still be answered or the answer waits for Wifi_Handle().
\* Every path that replaces a request stops its timeout, or the old timeout would
\* end the new request early.
TimedRequestIsOut ==
    \A c \in Channel : ch[c].timeout.active =>
        /\ ch[c].rx_busy
        /\ ch[c].awaiting # NoCommand \/ Wifi_Request_Response_Pending(ch[c])

\* A latched answer still means what it said when it is worked off: a data answer
\* belongs to a paired channel, success is never left over for the next pairing
\* answer, and an answer without success, which would end the pairing
\* (main.cpp:2302), is never found on a channel that has been paired since.
AnswerIsOwed ==
    \A c \in Channel :
        /\ ch[c].sm.response => ch[c].pairFlag
        /\ ch[c].sm.granted => ch[c].sm.reply
        /\ ch[c].sm.reply /\ ch[c].pairFlag => ch[c].sm.granted

\* cnt_disconnect counts losses in a row: only an answer with data, or the end of
\* the pairing, takes it back to zero (main.cpp:1811, 2328).  The answer is the
\* channel's own or that of the channel whose turn it is: save_response, raised for
\* the turn's channel, is worked off for the one just sent for (main.cpp:2102).
OnlyDataForgivesLosses ==
    [][\A c \in Channel :
          ch[c].pairFlag /\ ch'[c].sm.cnt_disconnect < ch[c].sm.cnt_disconnect
             => ch[c].sm.response \/ ch[peer_addr].sm.response \/ ~ch'[c].pairFlag]_vars

\* A call of Wifi_Request_Timeout_Service() handles one request, however many are
\* late (main.cpp:208), but its search turns: a late request waits for each other
\* channel at most once, so none stays out for longer than its limit and one call
\* for each of them.
ExpiresInTime ==
    \A c \in Channel : ch[c].timeout.active =>
        ch[c].timeout.count <= ch[c].timeout.limit + MAX_PEER - 1

\* The link of a channel as PeerLink sees it: erased from the PLC's word on, and
\* under repair from the loss until the peer is found or given up.
LinkOf(r) ==
    CASE r.pairFlag /\ ~r.bak.del_set -> "paired"
      [] r.pairFlag /\ r.bak.del_set -> "erasing"
      [] ~r.pairFlag /\ r.bak.repair_itself -> "repairing"
      [] OTHER -> "free"

Links == INSTANCE PeerLink WITH
    link <- [c \in Channel |-> LinkOf(ch[c])],
    status <- [c \in Channel |-> ch[c].status]

\* The implementation of PeerLink: what the PLC erased is never repaired, what was
\* lost is repaired or given up, and the PLC sees a channel come only with a live
\* link and go only with the end of one.
ImplementsPeerLink == Links!Spec

\* A channel as ProcessImage sees it: its record and the PLC's wishes that wait.
PeerOf(r) ==
    [pairFlag |-> r.pairFlag, typeAddr |-> r.typeAddr, request |-> r.sm.request,
     del_set |-> r.bak.del_set, repair_itself |-> r.bak.repair_itself, status |-> r.status]

WantOf(r) ==
    [update_io |-> r.sm.update_io, update_serial |-> r.sm.update_serial,
     request_serial |-> r.sm.request_serial]

PeerSteps == INSTANCE PeerMoves WITH Device <- TypeAddr, NoDevice <- NoType


-----------------------------------------------------------------------------
(* Liveness, for peers that may never answer *)

\* An answer that comes after its request has timed out.
AnswersLate(c) == ch[c].sm.response /\ ~ch[c].timeout.active

\* What the PLC erases does end: its cancel is answered, refused or timed out, and
\* where the request for it was lost (main.cpp:2214 ends the erasure's request
\* together with the pairing's), the rotation deletes the peer on a turn that ends
\* idle (2399).  Only a peer all of whose answers are late can keep each turn of its
\* channel from ending so.
ErasureCompletes ==
    \A c \in Channel :
        []<>AnswersLate(c) \/ (ch[c].bak.del_set ~> ~ch[c].pairFlag)

\* A latched answer is worked off.
AnswerIsTaken ==
    \A c \in Channel :
        Wifi_Request_Response_Pending(ch[c]) ~> ~Wifi_Request_Response_Pending(ch[c])

\* A request that is out comes back, answered or timed out, although a call of
\* Wifi_Request_Timeout_Service() handles one channel only.
RequestEnds == \A c \in Channel : ch[c].timeout.active ~> ~ch[c].timeout.active

\* The send queue is not full for ever.
QueueMoves == []<>(Len(queue) < Capacity)

\* The data the PLC wants written is sent for, or the pairing ends, even while
\* requests time out and leave the channel busy (main.cpp:1844), as long as packets
\* leave the queue: one that has filled up behind a busy channel whose late answer
\* never comes stays full, since only that channel's next packet would free it.
WriteIsSent ==
    QueueMoves =>
        /\ \A c \in Paged : ch[c].sm.update_io ~> ~ch[c].sm.update_io
        /\ \A c \in Serial :
              /\ ch[c].sm.update_serial ~> ~ch[c].sm.update_serial
              /\ ch[c].sm.request_serial ~> ~ch[c].sm.request_serial

-----------------------------------------------------------------------------
(* What comments and documents of the repository say, and the code does not do *)

\* main.cpp:711, "then Wifi_Handle() sends AP_PAIRING_CANCEL and on its answer
\* performs del_peer()": a peer the PLC erases is sent its cancel.
ErasedPeerIsTold ==
    [][\A c \in Channel : ch[c].bak.del_set /\ ~ch'[c].pairFlag => ch'[c].told]_vars

\* R-07 of the V4.0 history, "the busy state of a failed request is released at once,
\* for its next chance to communicate": a PLC that keeps asking for a channel whose
\* pairing request could not be sent gets it out of PAIRING_ADD.
Unsent(c) == ch[c].sm.state = "PAIRING_ADD" /\ ~ch[c].rx_busy /\ queue = <<>>

FailedSendRecovers ==
    \A c \in Channel :
        ([]<>(ch[c].sm.request)) => (Unsent(c) ~> ~Unsent(c))

\* main.cpp:427, "if after a repair there is only pairing and no data, at the latest
\* after 20 s cancel the repair and report the disconnect": a link that is found
\* again and again has its repair ended, by data or by a report to the PLC.
Repairing(c) == ch[c].bak.repair_itself /\ ch[c].status

RepairIsReported ==
    \A c \in Channel :
        ([]<>(ch[c].pairFlag)) => (Repairing(c) ~> ~Repairing(c))

\* main.cpp:1871 and 2392, "the timeout of a request is up to request_timeout[] of its
\* channel": an unpaired channel is not busy without a timeout or an answer.
BusyIsTimed ==
    \A c \in Channel :
        ch[c].rx_busy /\ ~ch[c].pairFlag
          => ch[c].timeout.active \/ Wifi_Request_Response_Pending(ch[c])

=============================================================================
