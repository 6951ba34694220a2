------------------------------ MODULE ProcessImage ------------------------------
(***************************************************************************)
(* The data path between the PLC and the peers, src/src/main.cpp: what         *)
(* Ethercat_Handle() takes from the process image into the requests of a       *)
(* channel, and the caches the peers' answers are kept in for it.              *)
(*                                                                           *)
(* loop() runs Wifi_Handle(), Ethercat_Handle() on every MS10 + 1st tick, for    *)
(* one channel of a round robin, and MainTask() (EasyCat), in that order.  What *)
(* the Wi-Fi side does to a channel's record are the moves of PeerMoves, which   *)
(* are all that ApLink makes: a link pairs, is lost, is found again or is given *)
(* up at any tick.                                                            *)
(*                                                                           *)
(* A cached word is modelled by where it comes from: the device that sent it,  *)
(* the value a new pairing starts with, or zero.  lSPeerData, which is written *)
(* and read whole, is not kept; its indices are those of ApChannelUtils.       *)
(***************************************************************************)
EXTENDS EasyCat, ApChannelUtils

CONSTANTS
    Pages,          \* for each device, named by its typeAddr word, the pages it reports
    SerialDevice,   \* the devices that report a serial line
    MS10            \* ticks between two calls of Ethercat_Handle(), 10

Device == DOMAIN Pages

Word16 == 0..65535

ASSUME DeviceAssumption ==
    /\ SerialDevice \subseteq Device
    /\ \A d \in Device : d \in Word16 /\ NamesDevice(d) /\ Pages[d] \in Nat
    /\ MS10 \in Nat

\* The output image: from tells the master's from the one MainTask() makes up, data
\* stands for com2 to com8.
Image == [from : {"master", "driver"}, pairing_bit : SUBSET Channel,
          word : [Channel -> Word16], com1 : Word16, data : Word16]

\* A PLC assigns only devices there are.
ASSUME ImageAssumption ==
    /\ Blank = [from |-> "driver", pairing_bit |-> {}, word |-> [c \in Channel |-> 0],
                com1 |-> 0, data |-> 0]
    /\ \A P \in Program : \A image \in P :
          /\ image \in Image /\ image.from = "master"
          /\ \A c \in image.pairing_bit :
                NamesDevice(image.word[c]) => image.word[c] \in Device

VARIABLES
    peer,           \* peer[], peer_bak[] and the request flag of each channel
    want,           \* what wifi_state_machine[] holds of the PLC's wishes
    lPeerData,      \* the words of each channel the peer has sent
    shown,          \* the word of each channel in BufferIn
    peer_channel,   \* the channel Ethercat_Handle() serves
    cnt_ms10,       \* ticks since the last Ethercat_Handle()
    swapped         \* history: the PLC has changed the device of a link under repair

imageVars == <<peer, want, lPeerData, shown, peer_channel, cnt_ms10, swapped>>
vars == <<driverVars, imageVars>>

NoDevice == 0
\* Numbers that name no device stand for zero and for the initial value.
Zero == 0
Initial == 1
Datum == {Zero, Initial} \cup Device
Page == 0..IO_PAGE_DATA_IDX_MAX

Peer == [pairFlag : BOOLEAN, typeAddr : Device \cup {NoDevice}, io_page : Page,
         serial : BOOLEAN, request : BOOLEAN, del_set : BOOLEAN, repair_itself : BOOLEAN,
         status : BOOLEAN]

NoPeer == [pairFlag |-> FALSE, typeAddr |-> NoDevice, io_page |-> 0, serial |-> FALSE,
           request |-> FALSE, del_set |-> FALSE, repair_itself |-> FALSE, status |-> FALSE]

\* The moves of the Wi-Fi side.
INSTANCE PeerMoves

\* io is set_io_data; word0, com1 and data are set_serial_Buf[0], [1] and [2..8].
Wish == [update_io : BOOLEAN, update_serial : BOOLEAN, request_serial : BOOLEAN,
         io : Word16, word0 : Word16, com1 : Word16, data : Word16]

NoWish == [update_io |-> FALSE, update_serial |-> FALSE, request_serial |-> FALSE,
           io |-> 0, word0 |-> 0, com1 |-> 0, data |-> 0]

Init ==
    /\ DriverInit
    /\ peer = [c \in Channel |-> NoPeer]
    /\ want = [c \in Channel |-> NoWish]
    /\ lPeerData = [c \in Channel |-> [p \in Page |-> Zero]]
    /\ shown = [c \in Channel |-> Zero]
    /\ peer_channel = 0
    /\ cnt_ms10 = 0
    /\ swapped = [c \in Channel |-> FALSE]

-----------------------------------------------------------------------------
(* Ethercat_Handle(): the channel of the turn, its word in BufferOut *)

Word(c) == BufferOut.word[c]

\* pairing_bit set, no pairing, a device named: pair with it.
PlcAssigns(c) ==
    /\ c \in BufferOut.pairing_bit /\ ~peer[c].pairFlag /\ NamesDevice(Word(c))
    /\ peer' = IF peer[c].request THEN peer
               ELSE [peer EXCEPT ![c].typeAddr = Word(c), ![c].request = TRUE]
    /\ swapped' = [swapped EXCEPT ![c] =
                     @ \/ (peer[c].repair_itself /\ peer'[c].typeAddr # peer[c].typeAddr)]
    /\ UNCHANGED <<want, lPeerData, shown>>

\* pairing_bit set, a pairing, a zero word: end it.
PlcErases(c) ==
    /\ c \in BufferOut.pairing_bit /\ peer[c].pairFlag /\ Word(c) = 0
    /\ peer' = IF peer[c].request THEN peer
               ELSE [peer EXCEPT ![c].request = TRUE, ![c].del_set = TRUE,
                                 ![c].repair_itself = FALSE]
    /\ UNCHANGED <<want, lPeerData, shown, swapped>>

\* Mutant: a read overwrites a write that is still waiting.
SerialReadOver(w, com1) ==
    [w EXCEPT !.request_serial = TRUE, !.com1 = com1, !.data = 0]

SerialRead(w, com1) ==
    IF w.update_serial \/ w.request_serial THEN w
    ELSE [w EXCEPT !.request_serial = TRUE, !.com1 = com1, !.data = 0]

SerialWrite(w, out) ==
    IF w.update_serial THEN w
    ELSE [w EXCEPT !.update_serial = TRUE, !.request_serial = FALSE,
                   !.com1 = out.com1, !.data = out.data]

\* pairing_bit still set on a paired serial device: read it.
PlcHoldsSerial(c) ==
    /\ c \in BufferOut.pairing_bit /\ peer[c].pairFlag /\ NamesDevice(Word(c))
    /\ is_serial_peer_channel(c) /\ peer[c].serial
    /\ want' = [want EXCEPT ![c] = SerialRead(@, 0)]
    /\ UNCHANGED <<peer, lPeerData, shown, swapped>>

\* pairing_bit clear, an I/O device: one without pages is sent its word with every
\* request, one with pages when BIT15 asks for it and no word is waiting.
PlcExchangesIo(c) ==
    /\ c \notin BufferOut.pairing_bit /\ peer[c].pairFlag /\ is_io_peer_channel(c)
    /\ LET paged == peer[c].io_page # 0
           write == Bit15(Word(c)) /\ ~want[c].update_io
           page == IF paged THEN PageAsked(Word(c), peer[c].io_page) ELSE 0
       IN  /\ want' = CASE ~paged -> [want EXCEPT ![c].io = Word(c)]
                        [] paged /\ write -> [want EXCEPT ![c].io = Word(c),
                                                          ![c].update_io = TRUE]
                        [] OTHER -> want
           /\ lPeerData' = IF paged THEN [lPeerData EXCEPT ![c][0] = Zero] ELSE lPeerData
           /\ shown' = [shown EXCEPT ![c] = lPeerData'[c][page]]
    /\ UNCHANGED <<peer, swapped>>

\* pairing_bit clear, a serial device: the command word names the channels to write
\* and to read, whichever channel has the turn; the last one named gets its I/O word.
PlcExchangesSerial(c) ==
    /\ c \notin BufferOut.pairing_bit /\ peer[c].pairFlag
    /\ is_serial_peer_channel(c) /\ peer[c].serial
    /\ LET out == BufferOut
           w == [d \in Channel |-> IF d \in Written(out.com1) THEN SerialWrite(want[d], out)
                                   ELSE want[d]]
           r == [d \in Channel |-> IF d \in Read(out.com1) THEN SerialRead(w[d], out.com1)
                                   ELSE w[d]]
           last == IF Read(out.com1) # {} THEN Read(out.com1) ELSE Written(out.com1)
       IN  /\ want' = [d \in Channel |-> IF d \in last THEN [r[d] EXCEPT !.word0 = Word(d)]
                                         ELSE r[d]]
           /\ shown' = [d \in Channel |-> IF d \in last THEN lPeerData[d][0] ELSE shown[d]]
    /\ UNCHANGED <<peer, lPeerData, swapped>>

\* The words that are left are ignored.
PlcIgnored(c) ==
    /\ \/ /\ c \in BufferOut.pairing_bit
          /\ IF NamesDevice(Word(c))
             THEN peer[c].pairFlag /\ ~(is_serial_peer_channel(c) /\ peer[c].serial)
             ELSE peer[c].pairFlag => Word(c) # 0
       \/ /\ c \notin BufferOut.pairing_bit
          /\ peer[c].pairFlag => ~is_io_peer_channel(c) /\ ~peer[c].serial
    /\ UNCHANGED <<peer, want, lPeerData, shown, swapped>>

NextChannel(c) == IF c + 1 >= MAX_PEER THEN 0 ELSE c + 1

Ethercat_Handle ==
    /\ phase = "ms10"
    /\ LET c == peer_channel IN
          \/ PlcAssigns(c) \/ PlcErases(c) \/ PlcHoldsSerial(c)
          \/ PlcExchangesIo(c) \/ PlcExchangesSerial(c) \/ PlcIgnored(c)
    /\ peer_channel' = NextChannel(peer_channel)
    /\ phase' = "WDOG_STATUS"
    /\ UNCHANGED <<program, spi, reads, WatchDog, Operational, BufferOut, cnt_ms10>>

-----------------------------------------------------------------------------
(* The Wi-Fi side of a channel, in the part of loop() before Ethercat_Handle() *)

Radio(c) == phase = "loop" /\ UNCHANGED <<shown, peer_channel, cnt_ms10>>

\* Pages start at their initial values, unless the PLC still sees the channel.
FirstPages(c) ==
    LET pages == clamp_io_page_count(Pages[peer[c].typeAddr]) IN
    CASE pages # 0 /\ peer[c].status -> lPeerData[c]
      [] pages # 0 /\ ~peer[c].status ->
            [p \in Page |-> IF p \in 1..pages THEN Initial ELSE lPeerData[c][p]]
      [] OTHER -> [lPeerData[c] EXCEPT ![0] = Initial]

\* PEER_PAIRING_OK of a channel that is not paired; ESP-NOW may refuse the peer.
PairingOk(c, registered) ==
    /\ Radio(c)
    /\ CanPair(peer[c])
    /\ peer' = [peer EXCEPT ![c] =
                  [Linked(@, registered) EXCEPT
                      !.io_page = clamp_io_page_count(Pages[peer[c].typeAddr]),
                      !.serial = peer[c].typeAddr \in SerialDevice]]
    /\ lPeerData' = [lPeerData EXCEPT ![c] = FirstPages(c)]
    /\ UNCHANGED <<want, swapped>>

\* One whose io_usage is not 1 leaves what it says of pages and serial line, no more.
PairingUnusable(c) ==
    /\ Radio(c)
    /\ CanPair(peer[c])
    /\ peer' = [peer EXCEPT ![c].io_page = clamp_io_page_count(Pages[peer[c].typeAddr]),
                            ![c].serial = peer[c].typeAddr \in SerialDevice]
    /\ UNCHANGED <<want, lPeerData, swapped>>

\* An answer with n words of I/O data, or one of a serial channel, which has one
\* word before its serial data.  The PLC is shown the channel from now on.
DataAnswer(c, n) ==
    /\ Radio(c)
    /\ peer[c].pairFlag
    /\ LET first == IF peer[c].io_page = 0 THEN 0 ELSE 1 IN
       \E words \in {first..(first + n - 1)} \cup (IF is_serial_peer_channel(c) THEN {{0}} ELSE {}) :
          lPeerData' = [lPeerData EXCEPT ![c] =
                          [p \in Page |-> IF p \in words THEN peer[c].typeAddr ELSE @[p]]]
    /\ peer' = [peer EXCEPT ![c] = Shown(@)]
    /\ UNCHANGED <<want, swapped>>

\* Wifi_Handle() works such an answer off: the repair, if it was one, is over.
DataWorkedOff(c) ==
    /\ Radio(c)
    /\ peer[c].pairFlag
    /\ peer' = [peer EXCEPT ![c] = Settled(@)]
    /\ UNCHANGED <<want, lPeerData, swapped>>

\* Wifi_Handle() builds a request: it takes the flag of what it sends.
Request(c) ==
    /\ Radio(c)
    /\ CanSend(peer[c])
    /\ want' = [want EXCEPT ![c] = Taken(@)]
    /\ UNCHANGED <<peer, lPeerData, swapped>>

\* A request ends; a pairing that failed takes the state machine back to zero.
RequestEnds(c) ==
    /\ Radio(c)
    /\ peer[c].request
    /\ peer' = [peer EXCEPT ![c] = Unasked(@)]
    /\ want' \in {want} \cup (IF peer[c].pairFlag THEN {} ELSE {[want EXCEPT ![c] = NoWish]})
    /\ UNCHANGED <<lPeerData, swapped>>

\* del_peer() of a link that was lost: it is to be repaired.
Lost(c) ==
    /\ Radio(c)
    /\ CanBeLost(peer[c])
    /\ peer' = [peer EXCEPT ![c] = [ToRepair(@) EXCEPT !.io_page = 0, !.serial = FALSE]]
    /\ want' = [want EXCEPT ![c] = NoWish]
    /\ UNCHANGED <<lPeerData, swapped>>

RepairAgain(c) ==
    /\ Radio(c)
    /\ CanRepair(peer[c])
    /\ peer' = [peer EXCEPT ![c] = AskedAgain(@)]
    /\ UNCHANGED <<want, lPeerData, swapped>>

\* Mutant: the PLC is shown the channel although its peer was erased.
ForgottenShown(p) == [NoPeer EXCEPT !.status = p.status]

\* What is left of a channel when its peer is gone for good.
Forgotten(p) == [Nobody(p) EXCEPT !.io_page = 0, !.serial = FALSE]

\* del_peer() of a link the PLC erased, or a repair that is given up.
Forget(c) ==
    /\ Radio(c)
    /\ CanForget(peer[c])
    /\ peer' = [peer EXCEPT ![c] = Forgotten(@)]
    /\ want' = [want EXCEPT ![c] = NoWish]
    /\ swapped' = [swapped EXCEPT ![c] = FALSE]
    /\ UNCHANGED lPeerData

WifiStep(c) ==
    \/ \E registered \in BOOLEAN : PairingOk(c, registered)
    \/ PairingUnusable(c)
    \/ \E n \in 0..(IO_PAGE_DATA_IDX_MAX + 1) : DataAnswer(c, n)
    \/ DataWorkedOff(c) \/ Request(c) \/ RequestEnds(c) \/ Lost(c) \/ RepairAgain(c) \/ Forget(c)

-----------------------------------------------------------------------------
\* loop() consumes a tick: Tick_Handle()'s divider fires when it passes its limit.
Tick ==
    /\ phase = "loop"
    /\ LET fires == cnt_ms10 + 1 > MS10 IN
       /\ cnt_ms10' = IF fires THEN 0 ELSE cnt_ms10 + 1
       /\ phase' = IF fires THEN "ms10" ELSE "WDOG_STATUS"
    /\ UNCHANGED <<program, spi, reads, WatchDog, Operational, BufferOut,
                   peer, want, lPeerData, shown, peer_channel, swapped>>

Next ==
    \/ DriverStep /\ UNCHANGED imageVars
    \/ Tick
    \/ Ethercat_Handle
    \/ \E c \in Channel : WifiStep(c) /\ UNCHANGED driverVars

Spec == Init /\ [][Next]_vars

\* loop() goes on, and the chip answers each access, be it with a failure.
FairSpec ==
    /\ Spec
    /\ WF_vars(DriverStep /\ UNCHANGED imageVars)
    /\ WF_vars(Tick \/ Ethercat_Handle)

-----------------------------------------------------------------------------
TypeOK ==
    /\ DriverOK
    /\ phase \in InitPhase \cup TaskPhase \cup {"loop", "ms10"}
    /\ peer \in [Channel -> Peer] /\ want \in [Channel -> Wish]
    /\ lPeerData \in [Channel -> [Page -> Datum]] /\ shown \in [Channel -> Datum]
    /\ swapped \in [Channel -> BOOLEAN]
    /\ peer_channel \in Channel
    /\ cnt_ms10 \in 0..MS10

\* Only the master ends a pairing.  The image MainTask() makes up while the bus is
\* lost never reads as a wish to erase, whatever pairing bits the master had set.
ErasedByMaster ==
    [][\A c \in Channel : peer'[c].del_set /\ ~peer[c].del_set
          => BufferOut.from = "master"]_vars

\* A serial write waits for its turn on the air as it was when the PLC asked for it,
\* com1 to com8 of one image: the commands that follow, to read or to write, and
\* those given in the turns of other channels do not mix into it.
PendingWriteIsKept ==
    [][\A c \in Channel : want'[c].update_serial =>
          <<want'[c].com1, want'[c].data>> =
             IF want[c].update_serial THEN <<want[c].com1, want[c].data>>
             ELSE <<BufferOut.com1, BufferOut.data>>]_vars

\* The cached pages of a paired I/O channel are its device's: none keeps a word of a
\* device that was erased from the channel, or given up, before.  This is neither about
\* the serial words nor about the word left in BufferIn.  (The PLC can break it itself,
\* by naming another device while a link is under repair.)
PagesAreOfThisPeer ==
    \A c \in Channel :
        peer[c].pairFlag /\ is_io_peer_channel(c) /\ ~swapped[c] =>
            \A p \in IF peer[c].io_page = 0 THEN {0} ELSE 1..peer[c].io_page :
                lPeerData[c][p] \in {Zero, Initial, peer[c].typeAddr}

\* When the bus is lost for good, the word sent to every paired device without pages
\* becomes zero: its outputs are released although nobody is there to write them.
LostBusReleases ==
    (<>[](WatchDog \/ ~Operational) /\ []spi) =>
        \A c \in Channel : is_io_peer_channel(c) =>
            <>[](peer[c].pairFlag /\ peer[c].io_page = 0 => want[c].io = 0)

=============================================================================
