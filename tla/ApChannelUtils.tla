---------------------------- MODULE ApChannelUtils ----------------------------
(***************************************************************************)
(* Channel numbers, pages and the fields of a PLC word:                        *)
(* src/include/ap_channel_utils.h and the bit arithmetic of Ethercat_Handle(). *)
(* Words are the numbers 0..65535.                                             *)
(***************************************************************************)
EXTENDS Naturals

CONSTANTS
    MAX_IO_PEER,            \* channels below this one are I/O channels, 12
    MAX_SERIAL_PEER,        \* channels from there on are serial channels, 4
    IO_PAGE_DATA_IDX_MAX,   \* last page of lPeerData, 6
    SERIAL_PAGE_WORDS,      \* words of a serial page, 8
    SERIAL_WORDS            \* words of a row of lSPeerData, 81

MAX_PEER == MAX_IO_PEER + MAX_SERIAL_PEER
Channel == 0..(MAX_PEER - 1)

ASSUME LayoutAssumption ==
    /\ MAX_IO_PEER \in Nat \ {0} /\ MAX_SERIAL_PEER \in Nat
    /\ IO_PAGE_DATA_IDX_MAX \in Nat \ {0}
    /\ SERIAL_PAGE_WORDS \in Nat \ {0} /\ SERIAL_WORDS \in Nat

is_io_peer_channel(c) == c < MAX_IO_PEER
is_serial_peer_channel(c) == c >= MAX_IO_PEER /\ c <= MAX_IO_PEER + MAX_SERIAL_PEER - 1
is_valid_serial_cmd_ch(n) == n >= 1 /\ n <= MAX_SERIAL_PEER
serial_cmd_ch_to_peer_channel(n) == MAX_IO_PEER + n - 1
serial_peer_channel_to_index(c) == c - MAX_IO_PEER

is_valid_serial_page(page) ==
    /\ page # 0
    /\ (page - 1) * SERIAL_PAGE_WORDS + SERIAL_PAGE_WORDS <= SERIAL_WORDS

clamp_io_page_count(n) == IF n > IO_PAGE_DATA_IDX_MAX THEN IO_PAGE_DATA_IDX_MAX ELSE n

(* The word of a channel: type and address of a device to pair, or data with the *)
(* write bit and the page.                                                       *)
DeviceType(word) == word \div 256
DeviceId(word) == word % 256
NamesDevice(word) == DeviceType(word) # 0 /\ DeviceId(word) # 0
Bit15(word) == word >= 32768
PageField(word) == (word \div 4096) % 8

\* The page a word asks of a device with io_page pages: none means the first one,
\* one too many the last.
PageAsked(word, io_page) ==
    LET page == IF PageField(word) = 0 THEN 1 ELSE PageField(word)
    IN  clamp_io_page_count(IF page > io_page THEN io_page ELSE page)

(* The serial command word W17: channel and page to write, channel and page to read *)
WriteCh(com1) == (com1 \div 4096) % 16
WritePage(com1) == (com1 \div 256) % 16
ReadCh(com1) == (com1 \div 16) % 16
ReadPage(com1) == com1 % 16

\* The serial channels a command writes and reads: none or one of each.
Written(com1) ==
    IF is_valid_serial_cmd_ch(WriteCh(com1)) /\ is_valid_serial_page(WritePage(com1))
    THEN {serial_cmd_ch_to_peer_channel(WriteCh(com1))} ELSE {}
Read(com1) ==
    IF is_valid_serial_cmd_ch(ReadCh(com1)) /\ is_valid_serial_page(ReadPage(com1))
    THEN {serial_cmd_ch_to_peer_channel(ReadCh(com1))} ELSE {}

\* The rows and words of lSPeerData a command reads.
WordsRead(com1) ==
    {<<ReadCh(com1) - 1, (ReadPage(com1) - 1) * SERIAL_PAGE_WORDS + i>> :
        i \in 0..(SERIAL_PAGE_WORDS - 1)}

=============================================================================
