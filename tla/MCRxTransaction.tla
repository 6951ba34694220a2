---------------------------- MODULE MCRxTransaction ----------------------------
(* Two peers that answer at any time, any number of times, well or badly; the  *)
(* loop pairs, or sends the unknown command of a stale send queue entry.        *)
EXTENDS RxTransaction, TLC

CONSTANTS p1, p2

MCChannel == {p1, p2}
MCRequest == {"AP_PAIRING_REQ", "NO_COMMAND"}
MCReply == {"PEER_PAIRING_OK", "PEER_IO_GET"}
MCQuality == {"good", "no_event", "CRC"}

\* A backlog in front of the good answer is made of duplicates and unreadable
\* frames.
MCPairing == {"AP_PAIRING_REQ"}
MCPairingOk == {"PEER_PAIRING_OK"}
MCGoodOrShort == {"good", "short"}

Symmetry == Permutations(MCChannel)

=============================================================================
