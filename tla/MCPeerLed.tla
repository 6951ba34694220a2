-------------------------------- MODULE MCPeerLed --------------------------------
EXTENDS PeerLed

MCCaller == {"task"}
MCPeer == 0..1
MCResult == BOOLEAN

=============================================================================
