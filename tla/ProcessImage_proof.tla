--------------------------- MODULE ProcessImage_proof ---------------------------
(***************************************************************************)
(* Theorems about ProcessImage, for every layout of channels and pages, every  *)
(* set of devices and every program of the PLC: what the words of the process  *)
(* image can do to a pairing and to a waiting write, and whose data the pages   *)
(* of a channel hold.                                                          *)
(***************************************************************************)
EXTENDS ProcessImage, TLAPS

-----------------------------------------------------------------------------
(* The layout *)

LEMMA Layout ==
    /\ MAX_IO_PEER \in Nat \ {0} /\ MAX_SERIAL_PEER \in Nat
    /\ MAX_PEER \in Nat \ {0}
    /\ Channel \subseteq Nat /\ 0 \in Channel
    /\ IO_PAGE_DATA_IDX_MAX \in Nat \ {0}
    /\ Page \subseteq Nat /\ 0 \in Page
BY LayoutAssumption DEF MAX_PEER, Channel, Page

\* A number of pages is clamped to what the cache holds.
LEMMA ClampedPages == ASSUME NEW n \in Nat PROVE clamp_io_page_count(n) \in Page
BY LayoutAssumption DEF clamp_io_page_count, Page

\* Whatever page a word asks for, the cache has it.
LEMMA AskedPageExists ==
    ASSUME NEW w \in Word16, NEW pages \in Page PROVE PageAsked(w, pages) \in Page
<1>1. PageField(w) \in Nat
  BY DEF Word16, PageField
<1>2. (IF PageField(w) = 0 THEN 1 ELSE PageField(w)) \in Nat /\ pages \in Nat
  BY <1>1, Layout
<1> QED BY <1>2, ClampedPages DEF PageAsked

\* No serial command reads past the cache: the words it takes are those of the row
\* of the channel it names, and every one of them is in that row
\* (ap_channel_utils.h:38-45 against main.cpp:818-833).
THEOREM ReadsStayInRow ==
    ASSUME NEW com1 \in Word16, NEW c \in Read(com1), NEW w \in WordsRead(com1)
    PROVE  /\ w[1] = serial_peer_channel_to_index(c) /\ w[1] \in 0..(MAX_SERIAL_PEER - 1)
           /\ w[2] \in 0..(SERIAL_WORDS - 1)
<1>1. /\ ReadCh(com1) \in Nat /\ ReadPage(com1) \in Nat /\ MAX_IO_PEER \in Nat
      /\ MAX_SERIAL_PEER \in Nat /\ SERIAL_PAGE_WORDS \in Nat /\ SERIAL_WORDS \in Nat
  BY LayoutAssumption DEF Word16, ReadCh, ReadPage
<1>2. /\ is_valid_serial_cmd_ch(ReadCh(com1)) /\ is_valid_serial_page(ReadPage(com1))
      /\ c = serial_cmd_ch_to_peer_channel(ReadCh(com1))
  BY DEF Read
<1>3. PICK i \in 0..(SERIAL_PAGE_WORDS - 1) :
        w = <<ReadCh(com1) - 1, (ReadPage(com1) - 1) * SERIAL_PAGE_WORDS + i>>
  BY DEF WordsRead
<1>4. w[1] = serial_peer_channel_to_index(c) /\ w[1] \in 0..(MAX_SERIAL_PEER - 1)
  BY <1>1, <1>2, <1>3
     DEF is_valid_serial_cmd_ch, serial_cmd_ch_to_peer_channel, serial_peer_channel_to_index
<1>5. w[2] \in 0..(SERIAL_WORDS - 1)
  <2> DEFINE start == (ReadPage(com1) - 1) * SERIAL_PAGE_WORDS
  <2>1. ReadPage(com1) - 1 \in Nat
    BY <1>1, <1>2 DEF is_valid_serial_page
  <2>2. start \in Nat
    BY <2>1, <1>1
  <2>3. start + SERIAL_PAGE_WORDS <= SERIAL_WORDS /\ w[2] = start + i
    BY <1>2, <1>3 DEF is_valid_serial_page
  <2> HIDE DEF start
  <2> QED BY <2>2, <2>3, <1>1
<1> QED BY <1>4, <1>5

LEMMA TurnStays == ASSUME NEW c \in Channel PROVE NextChannel(c) \in Channel
BY LayoutAssumption DEF NextChannel, Channel, MAX_PEER

LEMMA Images ==
    /\ Blank \in Image /\ Blank.pairing_bit = {} /\ Blank.from = "driver"
    /\ \A P \in Program : \A image \in P :
          /\ image \in Image /\ image.from = "master"
          /\ \A c \in image.pairing_bit :
                NamesDevice(image.word[c]) => image.word[c] \in Device
<1>1. 0 \in Word16
  BY DEF Word16
<1>2. [c \in Channel |-> 0] \in [Channel -> Word16]
  BY <1>1
<1>3. Blank = [from |-> "driver", pairing_bit |-> {}, word |-> [c \in Channel |-> 0],
               com1 |-> 0, data |-> 0]
  BY ImageAssumption
<1>4. Blank \in Image
  BY <1>1, <1>2, <1>3 DEF Image
<1>5. Blank.pairing_bit = {} /\ Blank.from = "driver"
  BY <1>3
<1>6. \A P \in Program : \A image \in P :
        /\ image \in Image /\ image.from = "master"
        /\ \A c \in image.pairing_bit :
              NamesDevice(image.word[c]) => image.word[c] \in Device
  BY ImageAssumption, Zenon
<1> QED BY <1>4, <1>5, <1>6, Zenon

-----------------------------------------------------------------------------
(* The master's image *)

\* What BufferOut holds is an image of the program, or the driver's.
OutOK == program \in Program /\ BufferOut \in program \cup {Blank}

LEMMA OutputImage ==
    ASSUME OutOK
    PROVE  /\ BufferOut \in Image
           /\ \A c \in BufferOut.pairing_bit :
                 /\ BufferOut.from = "master"
                 /\ NamesDevice(BufferOut.word[c]) => BufferOut.word[c] \in Device
<1>1. CASE BufferOut = Blank
  BY <1>1, Images
<1>2. CASE BufferOut \in program
  BY <1>2, Images DEF OutOK
<1> QED BY <1>1, <1>2 DEF OutOK

LEMMA WordsSent == ASSUME OutOK, NEW c \in Channel PROVE Word(c) \in Word16
BY OutputImage DEF Word, Image

LEMMA OutStep == ASSUME OutOK, [Next]_vars PROVE OutOK'
<1>1. CASE DriverStep
  <2>1. CASE \E pram \in program : SPIReadProcRamFifo(pram)
    BY <2>1 DEF SPIReadProcRamFifo, Outputs, OutOK
  <2>2. CASE UNCHANGED <<program, BufferOut>>
    BY <2>2 DEF OutOK
  <2> QED
    BY <1>1, <2>1, <2>2 DEF DriverStep, Init_Wait, WriteAlias, ReadWatchdog, ReadStatus,
        SPIWriteProcRamFifo
<1>2. CASE UNCHANGED <<program, BufferOut>>
  BY <1>2 DEF OutOK
<1> QED
  BY <1>1, <1>2 DEF Next, Tick, Ethercat_Handle, driverVars, vars

LEMMA OutAlways == Spec => []OutOK
<1>1. Init => OutOK
  BY DEF Init, DriverInit, OutOK
<1> QED BY <1>1, OutStep, PTL DEF Spec

-----------------------------------------------------------------------------
(* Types *)

LinksOK == peer \in [Channel -> Peer] /\ swapped \in [Channel -> BOOLEAN]
WishesOK == want \in [Channel -> Wish]
PagesOK == lPeerData \in [Channel -> [Page -> Datum]] /\ shown \in [Channel -> Datum]

LEMMA Beginnings ==
    /\ NoPeer \in Peer /\ NoWish \in Wish
    /\ Zero \in Datum /\ Initial \in Datum /\ Device \subseteq Datum
<1>1. 0 \in Word16 /\ 0 \in Page
  BY Layout DEF Word16
<1> QED BY <1>1 DEF NoPeer, Peer, NoWish, Wish, NoDevice, Datum, Zero, Initial

\* A step of Ethercat_Handle() in the turn of a channel.
PlcStep(c) ==
    \/ PlcAssigns(c) \/ PlcErases(c) \/ PlcHoldsSerial(c)
    \/ PlcExchangesIo(c) \/ PlcExchangesSerial(c) \/ PlcIgnored(c)

\* Every step is the PLC's, the Wi-Fi side's, or leaves the channels alone.
LEMMA Sides ==
    ASSUME [Next]_vars, peer_channel \in Channel
    PROVE  \/ \E c \in Channel : PlcStep(c)
           \/ \E c \in Channel : WifiStep(c)
           \/ UNCHANGED <<peer, want, lPeerData, shown, swapped>>
BY DEF Next, DriverStep, Tick, Ethercat_Handle, PlcStep, imageVars, driverVars, vars

LEMMA PlcLinks == ASSUME LinksOK, OutOK, NEW c \in Channel, PlcStep(c) PROVE LinksOK'
<1>1. CASE PlcAssigns(c)
  <2>1. Word(c) \in Device
    BY <1>1, OutputImage DEF PlcAssigns, Word
  <2> QED BY <1>1, <2>1 DEF PlcAssigns, LinksOK, Peer
<1>2. CASE PlcErases(c)
  <2>1. peer \in [Channel -> Peer]
    BY DEF LinksOK
  <2>2. [peer EXCEPT ![c].request = TRUE, ![c].del_set = TRUE,
                     ![c].repair_itself = FALSE] \in [Channel -> Peer]
    BY <2>1 DEF Peer
  <2> QED BY <1>2, <2>1, <2>2 DEF PlcErases, LinksOK
<1>3. CASE UNCHANGED <<peer, swapped>>
  BY <1>3 DEF LinksOK
<1> QED
  BY <1>1, <1>2, <1>3
     DEF PlcStep, PlcHoldsSerial, PlcExchangesIo, PlcExchangesSerial, PlcIgnored

\* What the moves of PeerMoves make of a record is one.
LEMMA MovedPeers ==
    ASSUME NEW p \in Peer
    PROVE  /\ \A registered \in BOOLEAN : Linked(p, registered) \in Peer
           /\ Shown(p) \in Peer /\ Settled(p) \in Peer /\ Unasked(p) \in Peer
           /\ ToRepair(p) \in Peer /\ AskedAgain(p) \in Peer /\ Forgotten(p) \in Peer
<1>1. 0 \in Page
  BY Layout
<1> QED
  BY <1>1 DEF Peer, Linked, Shown, Settled, Unasked, ToRepair, AskedAgain, Forgotten, Nobody

LEMMA WifiLinks ==
    ASSUME LinksOK, NEW c \in Channel, WifiStep(c)
    PROVE  LinksOK'
<1>0. peer \in [Channel -> Peer] /\ peer[c] \in Peer /\ swapped \in [Channel -> BOOLEAN]
  BY DEF LinksOK
<1>1. ASSUME NEW q \in Peer, peer' = [peer EXCEPT ![c] = q], swapped' \in [Channel -> BOOLEAN]
      PROVE  LinksOK'
  BY <1>0, <1>1 DEF LinksOK
<1>2. ASSUME CanPair(peer[c])
      PROVE  /\ clamp_io_page_count(Pages[peer[c].typeAddr]) \in Page
             /\ (peer[c].typeAddr \in SerialDevice) \in BOOLEAN
  <2>1. peer[c].typeAddr \in Device
    BY <1>0, <1>2 DEF CanPair, Peer
  <2> QED BY <2>1, ClampedPages, DeviceAssumption
<1>3. ASSUME NEW q \in Peer, NEW n \in Page, NEW s \in BOOLEAN
      PROVE  [q EXCEPT !.io_page = n, !.serial = s] \in Peer
  BY DEF Peer
<1>4. CASE \E registered \in BOOLEAN : PairingOk(c, registered)
  <2>1. PICK registered \in BOOLEAN : PairingOk(c, registered)
    BY <1>4
  <2>2. Linked(peer[c], registered) \in Peer
    BY <1>0, MovedPeers
  <2>3. \E q \in Peer : peer' = [peer EXCEPT ![c] = q]
    BY <1>0, <1>2, <1>3, <2>1, <2>2 DEF PairingOk
  <2>4. swapped' \in [Channel -> BOOLEAN]
    BY <1>0, <2>1 DEF PairingOk
  <2> QED BY <1>1, <2>3, <2>4
<1>5. CASE PairingUnusable(c)
  <2>1. \E n \in Page, s \in BOOLEAN :
           peer' = [peer EXCEPT ![c].io_page = n, ![c].serial = s]
    BY <1>2, <1>5 DEF PairingUnusable
  <2>2. \E q \in Peer : peer' = [peer EXCEPT ![c] = q]
    <3>1. PICK n \in Page, s \in BOOLEAN :
             peer' = [peer EXCEPT ![c].io_page = n, ![c].serial = s]
      BY <2>1
    <3>2. [peer[c] EXCEPT !.io_page = n, !.serial = s] \in Peer
      BY <1>0, <1>3
    <3>3. peer' = [peer EXCEPT ![c] = [peer[c] EXCEPT !.io_page = n, !.serial = s]]
      BY <1>0, <3>1 DEF Peer
    <3> QED BY <3>2, <3>3
  <2> QED BY <1>0, <1>1, <1>5, <2>2 DEF PairingUnusable
<1>6. CASE Lost(c)
  <2>1. [ToRepair(peer[c]) EXCEPT !.io_page = 0, !.serial = FALSE] \in Peer
    BY <1>0, <1>3, MovedPeers, Layout
  <2> QED BY <1>0, <1>1, <1>6, <2>1 DEF Lost
<1>7. CASE Forget(c)
  <2>1. Forgotten(peer[c]) \in Peer
    BY <1>0, MovedPeers
  <2>2. swapped' \in [Channel -> BOOLEAN] /\ peer' = [peer EXCEPT ![c] = Forgotten(peer[c])]
    BY <1>0, <1>7 DEF Forget
  <2> QED BY <1>1, <2>1, <2>2
<1>8. CASE \E n \in 0..(IO_PAGE_DATA_IDX_MAX + 1) : DataAnswer(c, n)
  BY <1>0, <1>1, <1>8, MovedPeers DEF DataAnswer
<1>9. CASE DataWorkedOff(c)
  BY <1>0, <1>1, <1>9, MovedPeers DEF DataWorkedOff
<1>10. CASE RequestEnds(c)
  BY <1>0, <1>1, <1>10, MovedPeers DEF RequestEnds
<1>11. CASE RepairAgain(c)
  BY <1>0, <1>1, <1>11, MovedPeers DEF RepairAgain
<1>12. CASE Request(c)
  BY <1>12 DEF Request, LinksOK
<1> QED
  BY <1>4, <1>5, <1>6, <1>7, <1>8, <1>9, <1>10, <1>11, <1>12 DEF WifiStep

LEMMA ReadWish == ASSUME NEW w \in Wish, NEW com1 \in Word16 PROVE SerialRead(w, com1) \in Wish
<1>1. 0 \in Word16
  BY DEF Word16
<1> QED BY <1>1 DEF SerialRead, Wish

LEMMA WriteWish == ASSUME NEW w \in Wish, NEW out \in Image PROVE SerialWrite(w, out) \in Wish
BY DEF SerialWrite, Wish, Image

LEMMA PlcWishes == ASSUME WishesOK, OutOK, NEW c \in Channel, PlcStep(c) PROVE WishesOK'
<1>0. /\ want \in [Channel -> Wish] /\ BufferOut \in Image
      /\ 0 \in Word16 /\ BufferOut.com1 \in Word16 /\ Word(c) \in Word16
  <2>1. BufferOut \in Image /\ BufferOut.com1 \in Word16
    BY OutputImage DEF Image
  <2>2. 0 \in Word16
    BY DEF Word16
  <2> QED BY <2>1, <2>2, WordsSent DEF WishesOK
<1>1. CASE PlcHoldsSerial(c)
  <2>1. SerialRead(want[c], 0) \in Wish
    BY <1>0, ReadWish
  <2> QED BY <1>1, <2>1, <1>0 DEF PlcHoldsSerial, WishesOK
<1>2. CASE PlcExchangesIo(c)
  <2>1. [want EXCEPT ![c].io = Word(c)] \in [Channel -> Wish]
    BY <1>0 DEF Wish
  <2>2. [want EXCEPT ![c].io = Word(c), ![c].update_io = TRUE] \in [Channel -> Wish]
    BY <1>0 DEF Wish
  <2>3. want' \in {want, [want EXCEPT ![c].io = Word(c)],
                   [want EXCEPT ![c].io = Word(c), ![c].update_io = TRUE]}
    BY <1>2 DEF PlcExchangesIo
  <2> QED BY <1>0, <2>1, <2>2, <2>3 DEF WishesOK
<1>3. CASE PlcExchangesSerial(c)
  <2> DEFINE w == [d \in Channel |-> IF d \in Written(BufferOut.com1)
                                     THEN SerialWrite(want[d], BufferOut) ELSE want[d]]
             r == [d \in Channel |-> IF d \in Read(BufferOut.com1)
                                     THEN SerialRead(w[d], BufferOut.com1) ELSE w[d]]
             last == IF Read(BufferOut.com1) # {} THEN Read(BufferOut.com1)
                     ELSE Written(BufferOut.com1)
  <2>1. want' = [d \in Channel |-> IF d \in last THEN [r[d] EXCEPT !.word0 = Word(d)]
                                   ELSE r[d]]
    BY <1>3 DEF PlcExchangesSerial
  <2>2. \A d \in Channel : w[d] \in Wish
    BY <1>0, WriteWish
  <2>3. \A d \in Channel : r[d] \in Wish
    BY <1>0, <2>2, ReadWish
  <2>4. \A d \in Channel : [r[d] EXCEPT !.word0 = Word(d)] \in Wish
    <3>1. ASSUME NEW v \in Wish, NEW x \in Word16 PROVE [v EXCEPT !.word0 = x] \in Wish
      BY DEF Wish
    <3> HIDE DEF r
    <3> QED BY <2>3, <3>1, WordsSent
  <2> HIDE DEF w, r, last
  <2> QED BY <2>1, <2>3, <2>4 DEF WishesOK
<1>4. CASE UNCHANGED want
  BY <1>4 DEF WishesOK
<1> QED
  BY <1>1, <1>2, <1>3, <1>4 DEF PlcStep, PlcAssigns, PlcErases, PlcIgnored

LEMMA WifiWishes == ASSUME WishesOK, NEW c \in Channel, WifiStep(c) PROVE WishesOK'
<1>0. want \in [Channel -> Wish] /\ want[c] \in Wish
  BY DEF WishesOK
<1>1. CASE Request(c)
  <2>1. Taken(want[c]) \in Wish
    BY <1>0 DEF Taken, Wish
  <2> QED BY <1>0, <1>1, <2>1 DEF Request, WishesOK
<1>2. CASE want' \in {want, [want EXCEPT ![c] = NoWish]}
  BY <1>0, <1>2, Beginnings DEF WishesOK
<1> QED
  BY <1>1, <1>2
     DEF WifiStep, PairingOk, PairingUnusable, DataAnswer, DataWorkedOff, RequestEnds, Lost, RepairAgain,
         Forget

LEMMA PlcPages ==
    ASSUME PagesOK, LinksOK, OutOK, NEW c \in Channel, PlcStep(c)
    PROVE  PagesOK'
<1>0. /\ lPeerData \in [Channel -> [Page -> Datum]] /\ shown \in [Channel -> Datum]
      /\ Word(c) \in Word16 /\ peer[c].io_page \in Page
  BY WordsSent DEF PagesOK, LinksOK, Peer
<1>1. CASE PlcExchangesIo(c)
  <2>1. lPeerData' \in [Channel -> [Page -> Datum]]
    BY <1>0, <1>1, Beginnings, Layout DEF PlcExchangesIo
  <2>2. \E page \in Page : shown' = [shown EXCEPT ![c] = lPeerData'[c][page]]
    BY <1>0, <1>1, AskedPageExists, Layout DEF PlcExchangesIo
  <2> QED BY <1>0, <2>1, <2>2 DEF PagesOK
<1>2. CASE PlcExchangesSerial(c)
  <2>1. \A d \in Channel : lPeerData[d][0] \in Datum
    BY <1>0, Layout
  <2>2. \A d \in Channel : shown'[d] \in {lPeerData[d][0], shown[d]}
    BY <1>2 DEF PlcExchangesSerial
  <2>3. shown' = [d \in Channel |-> shown'[d]]
    BY <1>2 DEF PlcExchangesSerial
  <2> QED BY <1>0, <1>2, <2>1, <2>2, <2>3 DEF PlcExchangesSerial, PagesOK
<1>3. CASE UNCHANGED <<lPeerData, shown>>
  BY <1>3 DEF PagesOK
<1> QED
  BY <1>1, <1>2, <1>3
     DEF PlcStep, PlcAssigns, PlcErases, PlcHoldsSerial, PlcIgnored

LEMMA WifiPages ==
    ASSUME PagesOK, LinksOK, \A c \in Channel : peer[c].pairFlag => peer[c].typeAddr \in Device,
           NEW c \in Channel, WifiStep(c)
    PROVE  PagesOK'
<1>0. lPeerData \in [Channel -> [Page -> Datum]] /\ shown' = shown
  BY DEF PagesOK, WifiStep, PairingOk, PairingUnusable, DataAnswer, DataWorkedOff, Request, RequestEnds, Lost,
      RepairAgain, Forget, Radio
<1>1. CASE \E registered \in BOOLEAN : PairingOk(c, registered)
  <2>1. FirstPages(c) \in [Page -> Datum]
    BY <1>0, Beginnings, Layout DEF FirstPages
  <2>2. lPeerData' = [lPeerData EXCEPT ![c] = FirstPages(c)]
    BY <1>1 DEF PairingOk
  <2> QED BY <1>0, <2>1, <2>2 DEF PagesOK
<1>2. CASE \E n \in 0..(IO_PAGE_DATA_IDX_MAX + 1) : DataAnswer(c, n)
  <2>1. peer[c].typeAddr \in Datum
    BY <1>2, Beginnings DEF DataAnswer
  <2>2. \E words : lPeerData' = [lPeerData EXCEPT ![c] =
                      [p \in Page |-> IF p \in words THEN peer[c].typeAddr ELSE @[p]]]
    BY <1>2, Zenon DEF DataAnswer
  <2> QED BY <1>0, <2>1, <2>2 DEF PagesOK
<1>3. CASE UNCHANGED lPeerData
  BY <1>0, <1>3 DEF PagesOK
<1> QED
  BY <1>1, <1>2, <1>3
     DEF WifiStep, PairingUnusable, DataWorkedOff, Request, RequestEnds, Lost, RepairAgain,
         Forget

-----------------------------------------------------------------------------
(* Whose the link of a channel is *)

PagesOf(d) == clamp_io_page_count(Pages[d])

\* A link that is up, asked for or under repair has a device; one that is up has the
\* pages of its device; one that is down but shown to the PLC is under repair; only one
\* that is up is to be erased.
LinksAgree ==
    \A c \in Channel :
        /\ peer[c].pairFlag \/ peer[c].request \/ peer[c].repair_itself
              => peer[c].typeAddr \in Device
        /\ peer[c].pairFlag => peer[c].io_page = PagesOf(peer[c].typeAddr)
        /\ peer[c].status /\ ~peer[c].pairFlag => peer[c].repair_itself
        /\ peer[c].del_set => peer[c].pairFlag

LEMMA PlcAgrees ==
    ASSUME LinksOK, LinksAgree, OutOK, NEW c \in Channel, PlcStep(c)
    PROVE  LinksAgree'
<1>1. CASE PlcAssigns(c)
  <2>1. Word(c) \in Device
    BY <1>1, OutputImage DEF PlcAssigns, Word
  <2> QED BY <1>1, <2>1 DEF PlcAssigns, LinksOK, Peer, LinksAgree
<1>2. CASE PlcErases(c)
  BY <1>2 DEF PlcErases, LinksOK, Peer, LinksAgree
<1>3. CASE UNCHANGED peer
  BY <1>3 DEF LinksAgree
<1> QED
  BY <1>1, <1>2, <1>3
     DEF PlcStep, PlcHoldsSerial, PlcExchangesIo, PlcExchangesSerial, PlcIgnored

LEMMA WifiAgrees ==
    ASSUME LinksOK, LinksAgree, NEW c \in Channel, WifiStep(c)
    PROVE  LinksAgree'
<1> USE DEF LinksOK, Peer, LinksAgree
<1>1. CASE \E registered \in BOOLEAN : PairingOk(c, registered)
  BY <1>1 DEF PairingOk, PagesOf, CanPair, Linked
<1>2. CASE (\E n \in 0..(IO_PAGE_DATA_IDX_MAX + 1) : DataAnswer(c, n)) \/ DataWorkedOff(c)
  BY <1>2 DEF DataAnswer, DataWorkedOff, Shown, Settled
<1>3. CASE RequestEnds(c) \/ RepairAgain(c)
  BY <1>3 DEF RequestEnds, RepairAgain, Unasked, CanRepair, AskedAgain
<1>4. CASE Lost(c)
  BY <1>4 DEF Lost, CanBeLost, ToRepair
<1>5. CASE Forget(c)
  BY <1>5 DEF Forget, Forgotten, Nobody
<1>6. CASE Request(c)
  BY <1>6 DEF Request
<1>7. CASE PairingUnusable(c)
  BY <1>7 DEF PairingUnusable, CanPair
<1> QED
  BY <1>1, <1>2, <1>3, <1>4, <1>5, <1>6, <1>7 DEF WifiStep

-----------------------------------------------------------------------------
(* Type correctness *)

\* Where setup() and loop() are, and whose turn it is.
PlaceOK ==
    /\ reads \in 0..(Tout - 1)
    /\ spi \in BOOLEAN /\ WatchDog \in BOOLEAN /\ Operational \in BOOLEAN
    /\ phase \in InitPhase \cup TaskPhase \cup {"loop", "ms10"}
    /\ peer_channel \in Channel
    /\ cnt_ms10 \in 0..MS10

LEMMA PlaceStep == ASSUME PlaceOK, [Next]_vars PROVE PlaceOK'
<1>1. CASE DriverStep /\ UNCHANGED imageVars
  <2>1. CASE \E fulfilled \in BOOLEAN : Init_Wait(fulfilled)
    <3>1. PICK fulfilled \in BOOLEAN : Init_Wait(fulfilled)
      BY <2>1
    <3>2. reads' \in 0..(Tout - 1)
      BY <3>1, DriverAssumption DEF Init_Wait, PlaceOK
    <3>3. phase' \in InitPhase
      BY <3>1 DEF Init_Wait, AfterWait, InitPhase
    <3>4. spi' \in BOOLEAN
      BY <3>1 DEF Init_Wait
    <3> QED BY <1>1, <3>1, <3>2, <3>3, <3>4 DEF Init_Wait, PlaceOK, imageVars
  <2>2. CASE WriteAlias \/ SPIWriteProcRamFifo
    BY <1>1, <2>2 DEF WriteAlias, SPIWriteProcRamFifo, PlaceOK, InitPhase, TaskPhase, imageVars
  <2>3. CASE \E running \in BOOLEAN : ReadWatchdog(running)
    BY <1>1, <2>3 DEF ReadWatchdog, PlaceOK, TaskPhase, imageVars
  <2>4. CASE \E op \in BOOLEAN : ReadStatus(op)
    BY <1>1, <2>4 DEF ReadStatus, PlaceOK, TaskPhase, imageVars
  <2>5. CASE \E pram \in program : SPIReadProcRamFifo(pram)
    BY <1>1, <2>5 DEF SPIReadProcRamFifo, PlaceOK, TaskPhase, imageVars
  <2> QED BY <1>1, <2>1, <2>2, <2>3, <2>4, <2>5 DEF DriverStep
<1>2. CASE Tick
  BY <1>2, DeviceAssumption DEF Tick, PlaceOK, TaskPhase
<1>3. CASE Ethercat_Handle
  BY <1>3, TurnStays DEF Ethercat_Handle, PlaceOK, TaskPhase
<1>4. CASE UNCHANGED <<driverVars, peer_channel, cnt_ms10>>
  BY <1>4 DEF driverVars, PlaceOK
<1> QED
  BY <1>1, <1>2, <1>3, <1>4
     DEF Next, WifiStep, PairingOk, PairingUnusable, DataAnswer, DataWorkedOff, Request, RequestEnds, Lost,
         RepairAgain, Forget, Radio, vars, imageVars

ImageInv ==
    /\ OutOK /\ PlaceOK
    /\ LinksOK /\ WishesOK /\ PagesOK
    /\ LinksAgree

LEMMA ImageInit == Init => ImageInv
<1> SUFFICES ASSUME Init PROVE ImageInv
  OBVIOUS
<1>1. OutOK
  BY DEF Init, DriverInit, OutOK
<1>2. PlaceOK
  <2>1. 0 \in 0..(Tout - 1) /\ 0 \in 0..MS10
    BY DriverAssumption, DeviceAssumption
  <2>2. spi \in BOOLEAN /\ WatchDog \in BOOLEAN /\ Operational \in BOOLEAN
    BY Zenon DEF Init, DriverInit
  <2> QED BY <2>1, <2>2, Layout DEF Init, DriverInit, PlaceOK, InitPhase
<1>3. LinksOK
  BY Beginnings DEF Init, LinksOK
<1>4. WishesOK
  BY Beginnings DEF Init, WishesOK
<1>5. PagesOK
  BY Beginnings DEF Init, PagesOK
<1>6. LinksAgree
  BY DEF Init, NoPeer, LinksAgree
<1> QED BY <1>1, <1>2, <1>3, <1>4, <1>5, <1>6 DEF ImageInv

LEMMA ImageStep == ASSUME ImageInv, [Next]_vars PROVE ImageInv'
<1>0. OutOK /\ PlaceOK /\ LinksOK /\ WishesOK /\ PagesOK /\ LinksAgree
  BY DEF ImageInv
<1>1. OutOK' /\ PlaceOK'
  BY <1>0, OutStep, PlaceStep
<1>2. CASE \E c \in Channel : PlcStep(c)
  BY <1>0, <1>1, <1>2, PlcLinks, PlcWishes, PlcPages, PlcAgrees DEF ImageInv
<1>3. CASE \E c \in Channel : WifiStep(c)
  <2>0. \A c \in Channel : peer[c].pairFlag => peer[c].typeAddr \in Device
    BY <1>0 DEF LinksAgree
  <2>1. PICK c \in Channel : WifiStep(c)
    BY <1>3
  <2>2. LinksOK' /\ LinksAgree'
    BY <1>0, <2>1, WifiLinks, WifiAgrees
  <2>3. WishesOK' /\ PagesOK'
    BY <1>0, <2>0, <2>1, WifiWishes, WifiPages
  <2> QED BY <1>1, <2>2, <2>3 DEF ImageInv
<1>4. CASE UNCHANGED <<peer, want, lPeerData, shown, swapped>>
  BY <1>0, <1>1, <1>4 DEF ImageInv, LinksOK, WishesOK, PagesOK, LinksAgree
<1> QED
  BY <1>0, <1>2, <1>3, <1>4, Sides DEF PlaceOK

LEMMA ImageAlways == Spec => []ImageInv
BY ImageInit, ImageStep, PTL DEF Spec

\* The requests, the caches and the process image stay well typed: whatever word the
\* PLC writes, no page outside the cache is read and no channel outside the table
\* gets the turn.
THEOREM TypeCorrect == Spec => []TypeOK
<1>1. ImageInv => TypeOK
  BY DEF ImageInv, OutOK, PlaceOK, LinksOK, WishesOK, PagesOK, TypeOK, DriverOK
<1> QED BY <1>1, ImageAlways, PTL

-----------------------------------------------------------------------------
(* What the process image can do *)

\* The image MainTask() makes up while the bus is lost ends no pairing
\* (EasyCAT.h:793-799, main.cpp:704-721): its pairing bits are clear.
THEOREM AlwaysErasedByMaster == Spec => ErasedByMaster
<1>1. ASSUME ImageInv, [Next]_vars, NEW d \in Channel, peer'[d].del_set, ~peer[d].del_set
      PROVE  BufferOut.from = "master"
  <2>0. peer \in [Channel -> Peer]
    BY <1>1 DEF ImageInv, LinksOK
  <2>1. CASE \E c \in Channel : PlcStep(c)
    <3>1. PICK c \in Channel : PlcStep(c)
      BY <2>1
    <3>2. CASE PlcErases(c)
      BY <1>1, <3>2, OutputImage DEF PlcErases, ImageInv
    <3>3. CASE ~PlcErases(c)
      BY <1>1, <2>0, <3>1, <3>3 DEF PlcStep, PlcAssigns, PlcHoldsSerial, PlcExchangesIo,
          PlcExchangesSerial, PlcIgnored, Peer
    <3> QED BY <3>2, <3>3
  <2>2. CASE \E c \in Channel : WifiStep(c)
    <3>1. PICK c \in Channel : WifiStep(c)
      BY <2>2
    <3>2. CASE Lost(c) \/ Forget(c)
      <4>1. peer'[d] = peer[d] \/ peer'[d].del_set = FALSE
        <5>1. CASE Lost(c)
          BY <2>0, <5>1 DEF Lost, CanBeLost, ToRepair, Peer
        <5>2. CASE Forget(c)
          BY <2>0, <5>2 DEF Forget, Forgotten, Nobody, Peer
        <5> QED BY <3>2, <5>1, <5>2
      <4> QED BY <1>1, <4>1
    <3>3. CASE \E registered \in BOOLEAN : PairingOk(c, registered)
      BY <1>1, <2>0, <3>3 DEF PairingOk, Linked, Peer
    <3>4. CASE \E n \in 0..(IO_PAGE_DATA_IDX_MAX + 1) : DataAnswer(c, n)
      BY <1>1, <2>0, <3>4 DEF DataAnswer, Shown, Peer
    <3>5. CASE \/ PairingUnusable(c) \/ DataWorkedOff(c) \/ Request(c) \/ RequestEnds(c)
               \/ RepairAgain(c)
      BY <1>1, <2>0, <3>5 DEF PairingUnusable, DataWorkedOff, Settled, Request, RequestEnds,
          Unasked, RepairAgain, AskedAgain, Peer
    <3> QED BY <3>1, <3>2, <3>3, <3>4, <3>5 DEF WifiStep
  <2>3. CASE UNCHANGED peer
    BY <1>1, <2>3
  <2> QED BY <1>1, <2>1, <2>2, <2>3, Sides DEF ImageInv, PlaceOK
<1>2. ImageInv /\ [Next]_vars =>
        [\A c \in Channel : peer'[c].del_set /\ ~peer[c].del_set
            => BufferOut.from = "master"]_vars
  BY <1>1
<1> QED BY <1>2, ImageAlways, PTL DEF Spec, ErasedByMaster

\* A write the PLC asked for is sent as it was asked for: no command that comes
\* while it waits, for whichever channel's turn, mixes into it.
THEOREM PendingWriteAlwaysKept == Spec => PendingWriteIsKept
<1> DEFINE Kept(c) == want'[c].update_serial =>
                         <<want'[c].com1, want'[c].data>> =
                            IF want[c].update_serial THEN <<want[c].com1, want[c].data>>
                            ELSE <<BufferOut.com1, BufferOut.data>>
<1>1. ASSUME ImageInv, [Next]_vars, NEW d \in Channel PROVE Kept(d)
  <2>0. want \in [Channel -> Wish] /\ want[d] \in Wish
    BY <1>1 DEF ImageInv, WishesOK
  <2>1. CASE \E c \in Channel : PlcStep(c)
    <3>1. PICK c \in Channel : PlcStep(c)
      BY <2>1
    <3>2. CASE PlcHoldsSerial(c)
      BY <2>0, <3>2 DEF PlcHoldsSerial, SerialRead, Wish
    <3>3. CASE PlcExchangesIo(c)
      BY <2>0, <3>3 DEF PlcExchangesIo, Wish
    <3>4. CASE PlcExchangesSerial(c)
      <4> DEFINE w == IF d \in Written(BufferOut.com1) THEN SerialWrite(want[d], BufferOut)
                      ELSE want[d]
                 r == IF d \in Read(BufferOut.com1) THEN SerialRead(w, BufferOut.com1)
                      ELSE w
      <4>1. want'[d] = r \/ want'[d] = [r EXCEPT !.word0 = Word(d)]
        BY <3>4 DEF PlcExchangesSerial
      <4>2. w \in Wish
        BY <1>1, <2>0, WriteWish, OutputImage DEF ImageInv
      <4>3. w.update_serial =>
              <<w.com1, w.data>> =
                 IF want[d].update_serial THEN <<want[d].com1, want[d].data>>
                 ELSE <<BufferOut.com1, BufferOut.data>>
        BY <2>0 DEF SerialWrite, Wish
      <4>4. r \in Wish /\ (r.update_serial => r.com1 = w.com1 /\ r.data = w.data
                                             /\ w.update_serial)
        <5>1. ASSUME NEW v \in Wish, NEW com1 \in Word16
              PROVE  SerialRead(v, com1).update_serial =>
                        v.update_serial /\ SerialRead(v, com1) = v
          BY DEF SerialRead, Wish
        <5>2. BufferOut.com1 \in Word16
          BY <1>1, OutputImage DEF ImageInv, Image
        <5> HIDE DEF w
        <5> QED BY <4>2, <5>1, <5>2, ReadWish
      <4> HIDE DEF w, r
      <4>5. /\ want'[d].update_serial = r.update_serial
            /\ want'[d].com1 = r.com1 /\ want'[d].data = r.data
        BY <4>1, <4>4 DEF Wish
      <4> QED BY <4>3, <4>4, <4>5
    <3>5. CASE UNCHANGED want
      BY <3>5
    <3> QED
      BY <3>1, <3>2, <3>3, <3>4, <3>5 DEF PlcStep, PlcAssigns, PlcErases, PlcIgnored
  <2>2. CASE \E c \in Channel : WifiStep(c)
    <3>1. PICK c \in Channel : WifiStep(c)
      BY <2>2
    <3>2. CASE Request(c)
      BY <2>0, <3>2 DEF Request, Taken, Wish
    <3>3. CASE want' \in {want, [want EXCEPT ![c] = NoWish]}
      BY <2>0, <3>3 DEF NoWish
    <3> QED
      BY <3>1, <3>2, <3>3
         DEF WifiStep, PairingOk, PairingUnusable, DataAnswer, DataWorkedOff, RequestEnds, Lost, RepairAgain,
             Forget
  <2>3. CASE UNCHANGED want
    BY <2>3
  <2> QED BY <1>1, <2>1, <2>2, <2>3, Sides DEF ImageInv, PlaceOK
<1>2. ImageInv /\ [Next]_vars => [\A c \in Channel : Kept(c)]_vars
  BY <1>1
<1> QED BY <1>2, ImageAlways, PTL DEF Spec, PendingWriteIsKept

-----------------------------------------------------------------------------
(* Whose data a channel holds *)

\* The words a device of the channel sends, or starts with.
Exposed(d) == IF PagesOf(d) = 0 THEN {0} ELSE 1..PagesOf(d)

\* The pages of a link that is up, or shown to the PLC while it is down, are its
\* device's: a repair keeps them, so they have to be from before it.
Own(c) ==
    is_io_peer_channel(c) /\ ~swapped[c] /\ (peer[c].pairFlag \/ peer[c].status) =>
        \A p \in Exposed(peer[c].typeAddr) :
            lPeerData[c][p] \in {Zero, Initial, peer[c].typeAddr}

OwnInv == \A c \in Channel : Own(c)

LEMMA PlcOwn ==
    ASSUME ImageInv, OwnInv, NEW c \in Channel, PlcStep(c), NEW d \in Channel
    PROVE  Own(d)'
<1>0. /\ peer \in [Channel -> Peer] /\ swapped \in [Channel -> BOOLEAN]
      /\ lPeerData \in [Channel -> [Page -> Datum]]
  BY DEF ImageInv, LinksOK, PagesOK
<1>1. CASE PlcAssigns(c)
  <2>1. CASE peer'[d] = peer[d] /\ swapped'[d] = swapped[d]
    BY <1>1, <2>1 DEF PlcAssigns, OwnInv, Own
  <2>2. CASE d = c /\ ~peer[c].request
    <3>1. ~peer[c].pairFlag /\ ~peer'[c].pairFlag /\ peer'[c].status = peer[c].status
      BY <1>0, <1>1, <2>2 DEF PlcAssigns
    <3>2. peer[c].status => peer[c].repair_itself
      BY <3>1 DEF ImageInv, LinksAgree
    <3>3. swapped'[c] = (swapped[c] \/ (peer[c].repair_itself
                                        /\ peer'[c].typeAddr # peer[c].typeAddr))
      BY <1>0, <1>1 DEF PlcAssigns
    <3>4. CASE peer'[c].typeAddr = peer[c].typeAddr
      BY <1>1, <2>2, <3>1, <3>3, <3>4 DEF PlcAssigns, OwnInv, Own
    <3>5. CASE peer'[c].typeAddr # peer[c].typeAddr
      BY <2>2, <3>1, <3>2, <3>3, <3>5 DEF Own
    <3> QED BY <3>4, <3>5
  <2> QED BY <1>0, <1>1, <2>1, <2>2 DEF PlcAssigns
<1>2. CASE PlcErases(c)
  <2>1. /\ peer'[d].typeAddr = peer[d].typeAddr /\ peer'[d].pairFlag = peer[d].pairFlag
        /\ peer'[d].status = peer[d].status
    BY <1>0, <1>2 DEF PlcErases, Peer
  <2> QED BY <1>2, <2>1 DEF PlcErases, OwnInv, Own
<1>3. CASE PlcExchangesIo(c)
  <2>1. \A p \in Page : lPeerData'[d][p] \in {lPeerData[d][p], Zero}
    BY <1>0, <1>3 DEF PlcExchangesIo
  <2>2. Exposed(peer[d].typeAddr) \subseteq Page \/ ~(peer[d].pairFlag \/ peer[d].status)
    <3>1. CASE peer[d].pairFlag \/ peer[d].repair_itself
      <4>1. PagesOf(peer[d].typeAddr) \in Page
        BY <3>1, ClampedPages, DeviceAssumption DEF ImageInv, LinksAgree, PagesOf
      <4> QED BY <4>1, Layout DEF Exposed, Page
    <3> QED BY <3>1 DEF ImageInv, LinksAgree
  <2> QED BY <1>3, <2>1, <2>2 DEF PlcExchangesIo, OwnInv, Own
<1>4. CASE UNCHANGED <<peer, lPeerData, swapped>>
  BY <1>4 DEF OwnInv, Own
<1> QED
  BY <1>1, <1>2, <1>3, <1>4
     DEF PlcStep, PlcHoldsSerial, PlcExchangesSerial, PlcIgnored

LEMMA WifiOwn ==
    ASSUME ImageInv, OwnInv, NEW c \in Channel, WifiStep(c), NEW d \in Channel
    PROVE  Own(d)'
<1>0. /\ peer \in [Channel -> Peer] /\ swapped \in [Channel -> BOOLEAN]
      /\ lPeerData \in [Channel -> [Page -> Datum]]
  BY DEF ImageInv, LinksOK, PagesOK
<1>1. CASE peer'[d] = peer[d] /\ lPeerData'[d] = lPeerData[d] /\ swapped'[d] = swapped[d]
  BY <1>1 DEF OwnInv, Own
<1>2. CASE \E registered \in BOOLEAN : PairingOk(c, registered)
  <2>1. PICK registered \in BOOLEAN : PairingOk(c, registered)
    BY <1>2
  <2>2. CASE d # c
    BY <1>0, <1>1, <2>1, <2>2 DEF PairingOk
  <2>3. CASE d = c
    <3>1. /\ peer'[c].typeAddr = peer[c].typeAddr /\ peer'[c].status = peer[c].status
          /\ lPeerData'[c] = FirstPages(c) /\ swapped' = swapped
      BY <1>0, <2>1 DEF PairingOk, Linked, Peer
    <3>2. PagesOf(peer[c].typeAddr) \in Page
      <4>1. peer[c].typeAddr \in Device
        BY <1>0, <2>1 DEF PairingOk, CanPair, Peer
      <4> QED BY <4>1, ClampedPages, DeviceAssumption DEF PagesOf
    <3>3. CASE PagesOf(peer[c].typeAddr) = 0
      <4>1. FirstPages(c) = [lPeerData[c] EXCEPT ![0] = Initial]
        BY <3>3 DEF FirstPages, PagesOf
      <4> QED BY <1>0, <2>3, <3>1, <3>3, <4>1, Layout DEF Own, Exposed
    <3>4. CASE PagesOf(peer[c].typeAddr) # 0 /\ peer[c].status
      <4>1. FirstPages(c) = lPeerData[c]
        BY <3>4 DEF FirstPages, PagesOf
      <4> QED BY <2>3, <3>1, <3>4, <4>1 DEF OwnInv, Own
    <3>5. CASE PagesOf(peer[c].typeAddr) # 0 /\ ~peer[c].status
      <4>1. FirstPages(c) = [p \in Page |-> IF p \in 1..PagesOf(peer[c].typeAddr)
                                            THEN Initial ELSE lPeerData[c][p]]
        BY <3>5 DEF FirstPages, PagesOf
      <4>2. 1..PagesOf(peer[c].typeAddr) \subseteq Page
        BY <3>2, Layout DEF Page
      <4> QED BY <2>3, <3>1, <3>5, <4>1, <4>2 DEF Own, Exposed
    <3> QED BY <3>3, <3>4, <3>5
  <2> QED BY <2>2, <2>3
<1>3. CASE \E n \in 0..(IO_PAGE_DATA_IDX_MAX + 1) : DataAnswer(c, n)
  <2>1. PICK n \in 0..(IO_PAGE_DATA_IDX_MAX + 1) : DataAnswer(c, n)
    BY <1>3
  <2>2. CASE d # c
    BY <1>0, <1>1, <2>1, <2>2 DEF DataAnswer
  <2>3. CASE d = c
    <3>1. /\ peer'[c].typeAddr = peer[c].typeAddr /\ peer[c].pairFlag /\ swapped' = swapped
      BY <1>0, <2>1 DEF DataAnswer, Shown, Peer
    <3>2. \A p \in Page : lPeerData'[c][p] \in {lPeerData[c][p], peer[c].typeAddr}
      BY <1>0, <2>1 DEF DataAnswer
    <3>3. Exposed(peer[c].typeAddr) \subseteq Page
      <4>1. PagesOf(peer[c].typeAddr) \in Page
        BY <3>1, ClampedPages, DeviceAssumption DEF ImageInv, LinksAgree, PagesOf
      <4> QED BY <4>1, Layout DEF Exposed, Page
    <3> QED BY <2>3, <3>1, <3>2, <3>3 DEF OwnInv, Own
  <2> QED BY <2>2, <2>3
<1>4. CASE PairingUnusable(c)
  <2>1. CASE d # c
    BY <1>0, <1>1, <1>4, <2>1 DEF PairingUnusable
  <2>2. CASE d = c
    <3>1. /\ peer'[c].typeAddr = peer[c].typeAddr /\ peer'[c].pairFlag = peer[c].pairFlag
          /\ peer'[c].status = peer[c].status /\ UNCHANGED <<lPeerData, swapped>>
      BY <1>0, <1>4 DEF PairingUnusable
    <3> QED BY <2>2, <3>1 DEF OwnInv, Own
  <2> QED BY <2>1, <2>2
<1>5. CASE Lost(c)
  <2>1. CASE d # c
    BY <1>0, <1>1, <1>5, <2>1 DEF Lost
  <2>2. CASE d = c
    <3>1. /\ peer'[c].typeAddr = peer[c].typeAddr /\ peer[c].pairFlag
          /\ UNCHANGED <<lPeerData, swapped>>
      BY <1>0, <1>5 DEF Lost, CanBeLost, ToRepair, Peer
    <3> QED BY <2>2, <3>1 DEF OwnInv, Own
  <2> QED BY <2>1, <2>2
<1>6. CASE Forget(c)
  <2>1. CASE d # c
    BY <1>0, <1>1, <1>6, <2>1 DEF Forget
  <2>2. CASE d = c
    <3>1. peer'[c].pairFlag = FALSE /\ peer'[c].status = FALSE
      BY <1>0, <1>6 DEF Forget, Forgotten, Nobody, Peer
    <3> QED BY <2>2, <3>1 DEF Own
  <2> QED BY <2>1, <2>2
<1>7. CASE DataWorkedOff(c) \/ Request(c) \/ RequestEnds(c) \/ RepairAgain(c)
  <2>1. UNCHANGED <<lPeerData, swapped>>
    BY <1>7 DEF DataWorkedOff, Request, RequestEnds, RepairAgain
  <2>2. \E q \in {peer[c], Settled(peer[c]), Unasked(peer[c]), AskedAgain(peer[c])} :
           peer' = [peer EXCEPT ![c] = q]
    BY <1>0, <1>7 DEF DataWorkedOff, Request, RequestEnds, RepairAgain
  <2>3. /\ peer'[d].typeAddr = peer[d].typeAddr /\ peer'[d].pairFlag = peer[d].pairFlag
        /\ peer'[d].status = peer[d].status
    BY <1>0, <2>2 DEF Settled, Unasked, AskedAgain, Peer
  <2> QED BY <2>1, <2>3 DEF OwnInv, Own
<1> QED
  BY <1>2, <1>3, <1>4, <1>5, <1>6, <1>7 DEF WifiStep

\* No device's pages hold a word of another one, erased or given up before: a pairing
\* starts them anew unless it repairs the link that filled them (main.cpp:1136-1174).
THEOREM PagesAlwaysOfThisPeer == Spec => []PagesAreOfThisPeer
<1>1. Init => OwnInv
  BY DEF Init, NoPeer, OwnInv, Own
<1>2. (ImageInv /\ OwnInv) /\ [Next]_vars => OwnInv'
  <2> SUFFICES ASSUME ImageInv, OwnInv, [Next]_vars, NEW d \in Channel PROVE Own(d)'
    BY DEF OwnInv
  <2>1. CASE UNCHANGED <<peer, want, lPeerData, shown, swapped>>
    BY <2>1 DEF OwnInv, Own
  <2> QED BY <2>1, Sides, PlcOwn, WifiOwn DEF ImageInv, PlaceOK
<1>3. ImageInv /\ OwnInv => PagesAreOfThisPeer
  <2> SUFFICES ASSUME ImageInv, OwnInv, NEW c \in Channel,
                      peer[c].pairFlag, is_io_peer_channel(c), ~swapped[c]
               PROVE  \A p \in IF peer[c].io_page = 0 THEN {0} ELSE 1..peer[c].io_page :
                         lPeerData[c][p] \in {Zero, Initial, peer[c].typeAddr}
    BY DEF PagesAreOfThisPeer
  <2>1. peer[c].io_page = PagesOf(peer[c].typeAddr)
    BY DEF ImageInv, LinksAgree
  <2> QED BY <2>1 DEF OwnInv, Own, Exposed
<1> QED BY <1>1, <1>2, <1>3, ImageAlways, PTL DEF Spec

=============================================================================
