------------------------------ MODULE ApLink_proof ------------------------------
(***************************************************************************)
(* Theorems about ApLink: its types and the safety invariants of its channels, *)
(* for every number of channels, every device and every limit.                *)
(*                                                                           *)
(* The invariants speak of one channel at a time, and so does the inductive    *)
(* one that carries them: a sound channel stays sound under every function of  *)
(* ApChannel, and a call of a handler is a chain of those functions.           *)
(***************************************************************************)
EXTENDS ApLink, TLAPS

(* What the copies of a channel's state have in common *)

EraseAgrees(r) ==
    /\ r.bak.del_set <=> r.sm.del
    /\ r.bak.del_set => r.pairFlag
    /\ r.sm.del /\ r.sm.request => r.sm.cmd = "AP_PAIRING_CANCEL"

\* An unpaired channel that asks for a peer asks for the device it stores: its
\* answer would pair the channel with that device.
DeviceAgrees(r) ==
    /\ r.pairFlag => r.typeAddr # NoType /\ r.sm.device = r.typeAddr /\ r.sm.pMac = "peer"
    /\ ~r.pairFlag /\ r.sm.cmd = "AP_PAIRING_REQ" =>
            r.typeAddr # NoType /\ r.sm.device = r.typeAddr
    /\ ~r.pairFlag /\ r.sm.add => r.typeAddr # NoType

RepairAgrees(r) ==
    /\ r.bak.repair_itself => r.bak.typeAddr # NoType
    /\ ~r.pairFlag /\ r.bak.repair_itself => r.typeAddr # NoType
    /\ ~r.pairFlag /\ r.status => r.bak.repair_itself

\* The transaction of a busy channel is the one of its last packet.
RequestAgrees(r) ==
    /\ r.rx_busy /\ r.awaiting # NoCommand => r.awaiting = r.sm.cmd
    /\ r.timeout.active =>
            r.rx_busy /\ (r.awaiting # NoCommand \/ Wifi_Request_Response_Pending(r))
    /\ r.timeout.active /\ r.sm.cmd = "AP_PAIRING_CANCEL" =>
            r.awaiting # NoCommand \/ r.sm.reply

AnswerAgrees(r) ==
    /\ r.sm.response => r.pairFlag
    /\ r.sm.granted => r.sm.reply
    /\ r.sm.reply /\ r.pairFlag => r.sm.granted

\* A channel whose packet may just have been sent although an answer is latched.
Sending ==
    {r \in ChannelState :
        /\ r.mask = r.pairFlag
        /\ EraseAgrees(r) /\ DeviceAgrees(r) /\ RepairAgrees(r)
        /\ RequestAgrees(r) /\ AnswerAgrees(r)
        /\ r.sm.reply => r.awaiting = NoCommand \/ r.rx_busy}

\* Between calls, no pairing answer is latched while another may be received.
Sound == {r \in Sending : r.sm.reply => r.awaiting = NoCommand}

(* What a function does to the link of its channel, as the PLC is shown it *)

Alike(r, s) ==
    /\ s.pairFlag = r.pairFlag /\ s.status = r.status
    /\ r.pairFlag => s.bak.del_set = r.bak.del_set
    /\ ~r.pairFlag => s.bak.repair_itself = r.bak.repair_itself

Free(s) == ~s.pairFlag /\ ~s.bak.repair_itself /\ ~s.status

Forgotten(r, s) == r.pairFlag /\ r.bak.del_set /\ Free(s)

\* del_peer() forgets what was erased and keeps what was lost.
LinkEnds(r, s) ==
    /\ r.pairFlag /\ ~r.bak.del_set =>
            ~s.pairFlag /\ s.bak.repair_itself /\ s.status = r.status
    /\ r.pairFlag /\ r.bak.del_set => Free(s)
    /\ ~r.pairFlag => Alike(r, s)

-----------------------------------------------------------------------------
(* What the functions of ApChannel leave in which field *)

LEMMA ZeroedFields ==
  /\ Zeroed \in StateMachine
  /\ ~Zeroed.del /\ ~Zeroed.add /\ ~Zeroed.reply /\ ~Zeroed.response /\ ~Zeroed.granted
  /\ ~Zeroed.request /\ Zeroed.cmd = NoCommand
<1>1. Zeroed \in StateMachine
  BY DEF Zeroed, StateMachine, State, Command
<1>2. QED
  BY <1>1 DEF Zeroed

LEMMA ConstantsTyped ==
  /\ NoBackup \in Backup /\ ~NoBackup.repair_itself /\ ~NoBackup.del_set
  /\ NoTimeout \in Timeout /\ ~NoTimeout.active
  /\ NoCommand \in Command /\ "AP_PAIRING_REQ" \in Command /\ "AP_PAIRING_CANCEL" \in Command
  /\ NoCommand # "AP_PAIRING_REQ" /\ NoCommand # "AP_PAIRING_CANCEL"
  BY DEF NoBackup, Backup, NoTimeout, Timeout, Command, NoCommand, PairingCommand

\* A pairing packet replaces the packet, the transaction and the timeout before it.
LEMMA SetAddFields ==
  ASSUME NEW r \in ChannelState, NEW typeAddr \in TypeAddr
  PROVE  LET s == Wifi_Peer_State_Set_Add(r, typeAddr) IN
         /\ s \in ChannelState
         /\ s.sm = [r.sm EXCEPT !.cmd = "AP_PAIRING_REQ", !.request = TRUE, !.add = TRUE,
                                !.pMac = "broadcast", !.device = typeAddr]
         /\ s.sm \in StateMachine
         /\ s.timeout = NoTimeout /\ s.awaiting = NoCommand
         /\ s.bak = r.bak /\ s.pairFlag = r.pairFlag /\ s.typeAddr = r.typeAddr
         /\ s.mask = r.mask /\ s.status = r.status /\ s.rx_busy = r.rx_busy
<1> DEFINE x == [r.sm EXCEPT !.cmd = "AP_PAIRING_REQ", !.request = TRUE, !.add = TRUE,
                             !.pMac = "broadcast", !.device = typeAddr]
           s == Wifi_Peer_State_Set_Add(r, typeAddr)
<1>1. x \in StateMachine
  BY ConstantsTyped DEF ChannelState, StateMachine
<1>2. s = [r EXCEPT !.awaiting = NoCommand, !.timeout = NoTimeout, !.sm = x]
  BY TypeAssumption DEF ChannelState, Wifi_Peer_State_Set_Add, DropRequest,
     Wifi_Request_Timeout_Clear
<1>3. QED
  BY <1>1, <1>2, ConstantsTyped DEF ChannelState

LEMMA SetDelFields ==
  ASSUME NEW r \in ChannelState
  PROVE  LET s == Wifi_Peer_State_Set_Del(r) IN
         /\ s \in ChannelState
         /\ s.sm = [r.sm EXCEPT !.cmd = "AP_PAIRING_CANCEL", !.request = TRUE, !.del = TRUE,
                                !.pMac = "peer"]
         /\ s.sm \in StateMachine
         /\ s.timeout = NoTimeout /\ s.awaiting = NoCommand
         /\ s.bak = r.bak /\ s.pairFlag = r.pairFlag /\ s.typeAddr = r.typeAddr
         /\ s.mask = r.mask /\ s.status = r.status /\ s.rx_busy = r.rx_busy
<1> DEFINE x == [r.sm EXCEPT !.cmd = "AP_PAIRING_CANCEL", !.request = TRUE, !.del = TRUE,
                             !.pMac = "peer"]
           s == Wifi_Peer_State_Set_Del(r)
<1>1. x \in StateMachine
  BY ConstantsTyped DEF ChannelState, StateMachine
<1>2. s = [r EXCEPT !.awaiting = NoCommand, !.timeout = NoTimeout, !.sm = x]
  BY DEF ChannelState, Wifi_Peer_State_Set_Del, DropRequest, Wifi_Request_Timeout_Clear
<1>3. QED
  BY <1>1, <1>2, ConstantsTyped DEF ChannelState

\* What del_peer() may be asked to end.
Deletable(r) ==
    /\ r \in ChannelState
    /\ r.pairFlag => r.typeAddr # NoType
    /\ r.bak.repair_itself => r.bak.typeAddr # NoType
    /\ ~r.pairFlag => ~r.bak.del_set /\ (r.status => r.bak.repair_itself)

\* What it leaves: no pairing, no request, and either a repair with its first
\* pairing packet, or nothing.
Deleted(d) ==
    /\ d \in ChannelState
    /\ ~d.pairFlag /\ ~d.mask /\ ~d.bak.del_set /\ ~d.rx_busy /\ ~d.sm.del
    /\ d.awaiting = NoCommand /\ d.timeout = NoTimeout
    /\ d.status => d.bak.repair_itself
    /\ d.bak.repair_itself =>
          /\ d.bak.typeAddr # NoType /\ d.typeAddr = d.bak.typeAddr /\ d.sm.device = d.typeAddr
          /\ ~d.sm.reply /\ ~d.sm.response /\ ~d.sm.granted

\* A lost link is kept for repair with its device; an erased one is hidden from
\* the PLC; a channel without a link is left as it is.
LEMMA RememberPeerFields ==
  ASSUME NEW r, Deletable(r)
  PROVE  LET q == RememberPeer(r) IN
         /\ q = [r EXCEPT !.bak = q.bak, !.status = q.status]
         /\ q.bak \in Backup /\ q.status \in BOOLEAN
         /\ ~q.bak.del_set /\ (q.status => q.bak.repair_itself)
         /\ q.bak.repair_itself => q.bak.typeAddr # NoType
         /\ r.pairFlag /\ ~r.bak.del_set => q.bak.repair_itself /\ q.status = r.status
         /\ r.pairFlag /\ r.bak.del_set => ~q.bak.repair_itself /\ ~q.status
         /\ ~r.pairFlag => q = r
<1>1. CASE ~r.pairFlag
  <2>1. RememberPeer(r) = r
    BY <1>1 DEF RememberPeer
  <2>2. QED
    BY <1>1, <2>1 DEF Deletable, ChannelState
<1>2. CASE r.pairFlag /\ ~r.bak.del_set
  <2> DEFINE b == [r.bak EXCEPT !.repair_itself = TRUE, !.repair_cnt = 0, !.typeAddr = r.typeAddr]
  <2>1. RememberPeer(r) = [r EXCEPT !.bak = b]
    BY <1>2 DEF RememberPeer, Deletable, ChannelState
  <2>2. b \in Backup /\ b.repair_itself /\ ~b.del_set /\ b.typeAddr = r.typeAddr
    BY <1>2 DEF Deletable, ChannelState, Backup
  <2>3. QED
    BY <1>2, <2>1, <2>2 DEF Deletable, ChannelState
<1>3. CASE r.pairFlag /\ r.bak.del_set
  <2> DEFINE b == [r.bak EXCEPT !.del_set = FALSE, !.receiveLoss_cnt = 0, !.repair_itself = FALSE]
  <2>1. RememberPeer(r) = [r EXCEPT !.bak = b, !.status = FALSE]
    BY <1>3 DEF RememberPeer, Deletable, ChannelState
  <2>2. b \in Backup /\ ~b.repair_itself /\ ~b.del_set
    BY <1>3 DEF Deletable, ChannelState, Backup
  <2>3. QED
    BY <1>3, <2>1, <2>2 DEF Deletable, ChannelState
<1>4. QED
  BY <1>1, <1>2, <1>3

LEMMA DelPeerFields ==
  ASSUME NEW r, Deletable(r)
  PROVE  LET d == del_peer(r) IN
         /\ Deleted(d)
         /\ ~d.bak.repair_itself => d.sm = [r.sm EXCEPT !.del = FALSE]
         /\ LinkEnds(r, d)
<1> DEFINE p == [DropRequest(r) EXCEPT !.rx_busy = FALSE]
           q == RememberPeer(p)
           d == [q EXCEPT !.pairFlag = FALSE, !.mask = FALSE, !.typeAddr = NoType, !.sm.del = FALSE]
           e == [d EXCEPT !.sm = Zeroed, !.typeAddr = d.bak.typeAddr]
<1>1. /\ p \in ChannelState /\ p.rx_busy = FALSE /\ p.awaiting = NoCommand /\ p.timeout = NoTimeout
      /\ p.sm = r.sm /\ p.bak = r.bak /\ p.pairFlag = r.pairFlag /\ p.typeAddr = r.typeAddr
      /\ p.status = r.status
  BY ConstantsTyped DEF Deletable, ChannelState, DropRequest, Wifi_Request_Timeout_Clear
<1>2. Deletable(p)
  BY <1>1 DEF Deletable
<1>3. /\ q = [p EXCEPT !.bak = q.bak, !.status = q.status]
      /\ q.bak \in Backup /\ q.status \in BOOLEAN
      /\ ~q.bak.del_set /\ (q.status => q.bak.repair_itself)
      /\ q.bak.repair_itself => q.bak.typeAddr # NoType
      /\ p.pairFlag /\ ~p.bak.del_set => q.bak.repair_itself /\ q.status = p.status
      /\ p.pairFlag /\ p.bak.del_set => ~q.bak.repair_itself /\ ~q.status
      /\ ~p.pairFlag => q = p
  BY <1>2, RememberPeerFields
<1>4. /\ q \in ChannelState /\ q.rx_busy = FALSE /\ q.awaiting = NoCommand /\ q.timeout = NoTimeout
      /\ q.sm = r.sm
  <2> HIDE DEF p, q
  <2> QED BY <1>1, <1>3 DEF ChannelState
<1>5. [r.sm EXCEPT !.del = FALSE] \in StateMachine
  BY DEF Deletable, ChannelState, StateMachine
<1>6. /\ d \in ChannelState /\ d.rx_busy = FALSE /\ d.awaiting = NoCommand /\ d.timeout = NoTimeout
      /\ d.bak = q.bak /\ d.status = q.status /\ ~d.pairFlag /\ ~d.mask
      /\ d.sm = [r.sm EXCEPT !.del = FALSE] /\ ~d.sm.del
  <2> HIDE DEF p, q
  <2>1. d = [q EXCEPT !.pairFlag = FALSE, !.mask = FALSE, !.typeAddr = NoType,
                      !.sm = [r.sm EXCEPT !.del = FALSE]]
    BY <1>4 DEF ChannelState
  <2>2. ~[r.sm EXCEPT !.del = FALSE].del
    BY DEF Deletable, ChannelState, StateMachine
  <2>3. QED
    BY <1>4, <1>5, <2>1, <2>2 DEF ChannelState
<1>7. del_peer(r) = IF d.bak.repair_itself THEN Wifi_Peer_State_Set_Add(e, d.bak.typeAddr) ELSE d
  BY DEF del_peer
<1>8. CASE ~d.bak.repair_itself
  <2>1. del_peer(r) = d
    BY <1>7, <1>8
  <2> HIDE DEF p, q, d
  <2>2. Deleted(d)
    BY <1>3, <1>6, <1>8 DEF Deleted
  <2>3. LinkEnds(r, d)
    BY <1>1, <1>3, <1>6 DEF LinkEnds, Free, Alike, ChannelState, Deletable
  <2>4. QED
    BY <1>6, <1>8, <2>1, <2>2, <2>3
<1>9. CASE d.bak.repair_itself
  <2> HIDE DEF p, q, d
  <2>1. d.bak.typeAddr \in TypeAddr
    BY <1>3, <1>6, <1>9 DEF Backup
  <2>2. /\ e \in ChannelState /\ e.sm = Zeroed /\ e.typeAddr = d.bak.typeAddr
        /\ e.rx_busy = FALSE /\ e.bak = d.bak /\ e.status = d.status /\ ~e.pairFlag /\ ~e.mask
    BY <1>6, <2>1, ZeroedFields DEF ChannelState
  <2> HIDE DEF e
  <2> DEFINE s == Wifi_Peer_State_Set_Add(e, d.bak.typeAddr)
  <2>3. /\ s \in ChannelState
        /\ s.sm = [Zeroed EXCEPT !.cmd = "AP_PAIRING_REQ", !.request = TRUE, !.add = TRUE,
                                 !.pMac = "broadcast", !.device = d.bak.typeAddr]
        /\ s.timeout = NoTimeout /\ s.awaiting = NoCommand
        /\ s.bak = e.bak /\ s.pairFlag = e.pairFlag /\ s.typeAddr = e.typeAddr
        /\ s.mask = e.mask /\ s.status = e.status /\ s.rx_busy = e.rx_busy
    BY <2>1, <2>2, SetAddFields
  <2>4. /\ s.sm.device = d.bak.typeAddr /\ ~s.sm.del /\ ~s.sm.reply /\ ~s.sm.response
        /\ ~s.sm.granted
    BY <2>3, ZeroedFields DEF StateMachine
  <2> HIDE DEF s
  <2>5. del_peer(r) = s
    BY <1>7, <1>9 DEF s
  <2>6. Deleted(s)
    BY <1>3, <1>6, <1>9, <2>2, <2>3, <2>4 DEF Deleted
  <2>7. s.bak = q.bak /\ s.status = q.status
    BY <1>6, <2>2, <2>3
  <2>8. LinkEnds(r, s)
    BY <1>1, <1>3, <2>2, <2>3, <2>7 DEF LinkEnds, Free, Alike, ChannelState, Deletable
  <2>9. QED
    BY <1>6, <1>9, <2>5, <2>6, <2>7, <2>8
<1>10. QED
  BY <1>8, <1>9

-----------------------------------------------------------------------------
(* The functions of ApChannel keep a channel sound *)

LEMMA SendingFacts ==
  ASSUME NEW r \in Sending
  PROVE  r \in ChannelState /\ r.sm \in StateMachine /\ r.bak \in Backup /\ Deletable(r)
  BY DEF Sending, ChannelState, EraseAgrees, DeviceAgrees, RepairAgrees, Deletable

\* At power-up, and when a repair is given up, nothing is known of a channel.
LEMMA IdleIsSound ==
  ASSUME NEW told \in BOOLEAN
  PROVE  [Idle EXCEPT !.told = told] \in Sound
<1> DEFINE z == [Idle EXCEPT !.told = told]
<1>1. z \in ChannelState
  BY ZeroedFields, ConstantsTyped DEF Idle, ChannelState
<1>2. /\ z.sm = Zeroed /\ z.bak = NoBackup /\ z.timeout = NoTimeout
      /\ ~z.pairFlag /\ ~z.mask /\ ~z.status /\ z.awaiting = NoCommand
  BY DEF Idle
<1> HIDE DEF z
<1>3. EraseAgrees(z) /\ DeviceAgrees(z) /\ RepairAgrees(z)
  BY <1>2, ZeroedFields, ConstantsTyped DEF EraseAgrees, DeviceAgrees, RepairAgrees
<1>4. RequestAgrees(z) /\ AnswerAgrees(z)
  BY <1>2, ZeroedFields, ConstantsTyped DEF RequestAgrees, AnswerAgrees
<1>5. z.mask = z.pairFlag
  BY <1>1, <1>2 DEF ChannelState
<1>6. QED
  BY <1>1, <1>2, <1>3, <1>4, <1>5 DEF Sound, Sending, z

\* Only what the parts of Sending read decides whether a record is in it.
LEMMA BookkeepingIsSound ==
  ASSUME NEW r \in Sending, NEW x \in StateMachine, NEW b \in Backup,
         x.reply = r.sm.reply, x.granted = r.sm.granted, x.add => r.sm.add, x.del = r.sm.del,
         x.response = r.sm.response, x.pMac = r.sm.pMac, x.device = r.sm.device,
         x.cmd = r.sm.cmd, x.request => r.sm.request,
         b.repair_itself = r.bak.repair_itself, b.del_set = r.bak.del_set,
         b.typeAddr = r.bak.typeAddr
  PROVE  LET s == [r EXCEPT !.sm = x, !.bak = b] IN
         s \in Sending /\ (r \in Sound => s \in Sound) /\ Alike(r, s)
<1> DEFINE s == [r EXCEPT !.sm = x, !.bak = b]
<1>1. /\ s \in ChannelState /\ s.sm = x /\ s.bak = b /\ s.timeout = r.timeout
      /\ s.pairFlag = r.pairFlag /\ s.typeAddr = r.typeAddr /\ s.mask = r.mask
      /\ s.status = r.status /\ s.rx_busy = r.rx_busy /\ s.awaiting = r.awaiting
  BY SendingFacts DEF ChannelState
<1> HIDE DEF s
<1>2. EraseAgrees(s) /\ DeviceAgrees(s) /\ RepairAgrees(s)
  BY <1>1 DEF Sending, EraseAgrees, DeviceAgrees, RepairAgrees
<1>3. RequestAgrees(s) /\ AnswerAgrees(s)
  BY <1>1 DEF Sending, RequestAgrees, AnswerAgrees, Wifi_Request_Response_Pending
<1>4. s \in Sending
  BY <1>1, <1>2, <1>3 DEF Sending
<1>5. Alike(r, s)
  BY <1>1 DEF Alike
<1>6. QED
  BY <1>1, <1>4, <1>5 DEF Sound, s

\* An unpaired channel without a request, its state machine zeroed.
LEMMA ZeroedIsSound ==
  ASSUME NEW r \in ChannelState, ~r.pairFlag, ~r.mask, ~r.bak.del_set, ~r.timeout.active,
         r.rx_busy => r.awaiting = NoCommand, RepairAgrees(r)
  PROVE  [r EXCEPT !.sm = Zeroed] \in Sound /\ Alike(r, [r EXCEPT !.sm = Zeroed])
<1> DEFINE s == [r EXCEPT !.sm = Zeroed]
<1>1. /\ s \in ChannelState /\ s.sm = Zeroed /\ s.bak = r.bak /\ s.timeout = r.timeout
      /\ s.pairFlag = r.pairFlag /\ s.typeAddr = r.typeAddr /\ s.mask = r.mask
      /\ s.status = r.status /\ s.rx_busy = r.rx_busy /\ s.awaiting = r.awaiting
  BY ZeroedFields DEF ChannelState
<1> HIDE DEF s
<1>2. EraseAgrees(s) /\ DeviceAgrees(s) /\ RepairAgrees(s)
  BY <1>1, ZeroedFields, ConstantsTyped DEF EraseAgrees, DeviceAgrees, RepairAgrees
<1>3. RequestAgrees(s) /\ AnswerAgrees(s)
  BY <1>1, ZeroedFields DEF RequestAgrees, AnswerAgrees
<1>4. s.mask = s.pairFlag
  BY <1>1 DEF ChannelState
<1>5. s \in Sound
  BY <1>1, <1>2, <1>3, <1>4, ZeroedFields DEF Sound, Sending
<1>6. Alike(r, s)
  BY <1>1 DEF Alike
<1>7. QED
  BY <1>5, <1>6 DEF s

LEMMA DeletedIsSound ==
  ASSUME NEW d, Deleted(d)
  PROVE  /\ [d EXCEPT !.sm = Zeroed] \in Sound /\ Alike(d, [d EXCEPT !.sm = Zeroed])
         /\ d.bak.repair_itself => d \in Sound
<1>1. RepairAgrees(d) /\ ~d.timeout.active
  BY ConstantsTyped DEF Deleted, RepairAgrees
<1>2. [d EXCEPT !.sm = Zeroed] \in Sound /\ Alike(d, [d EXCEPT !.sm = Zeroed])
  BY <1>1, ZeroedIsSound DEF Deleted
<1>3. ASSUME d.bak.repair_itself PROVE d \in Sound
  <2>1. EraseAgrees(d) /\ DeviceAgrees(d)
    BY <1>3 DEF Deleted, EraseAgrees, DeviceAgrees
  <2>2. RequestAgrees(d) /\ AnswerAgrees(d)
    BY <1>1, <1>3 DEF Deleted, RequestAgrees, AnswerAgrees
  <2>3. d.mask = d.pairFlag
    BY DEF Deleted, ChannelState
  <2>4. QED
    BY <1>1, <1>3, <2>1, <2>2, <2>3 DEF Deleted, Sound, Sending
<1>4. QED
  BY <1>2, <1>3

\* del_peer() on a zeroed state machine.
LEMMA ZeroedDelPeerIsSound ==
  ASSUME NEW r, Deletable(r), r.sm = Zeroed
  PROVE  del_peer(r) \in Sound /\ LinkEnds(r, del_peer(r))
<1> DEFINE d == del_peer(r)
<1>1. /\ Deleted(d) /\ LinkEnds(r, d)
      /\ ~d.bak.repair_itself => d.sm = [Zeroed EXCEPT !.del = FALSE]
  BY DelPeerFields
<1>2. [Zeroed EXCEPT !.del = FALSE] = Zeroed
  BY ZeroedFields DEF StateMachine
<1>3. CASE d.bak.repair_itself
  BY <1>1, <1>3, DeletedIsSound
<1>4. CASE ~d.bak.repair_itself
  <2>1. [d EXCEPT !.sm = Zeroed] = d
    BY <1>1, <1>2, <1>4 DEF Deleted, ChannelState
  <2>2. QED
    BY <1>1, <2>1, DeletedIsSound
<1>5. QED
  BY <1>3, <1>4

\* A data packet in place of whatever a channel was waiting for.
LEMMA DataSetIsSound ==
  ASSUME NEW r \in Sound, NEW cmd \in DataCommand, ~r.sm.request
  PROVE  Wifi_Peer_Data_Set(r, cmd) \in Sound /\ Alike(r, Wifi_Peer_Data_Set(r, cmd))
<1> DEFINE x == [r.sm EXCEPT !.cmd = cmd]
           s == Wifi_Peer_Data_Set(r, cmd)
<1>0. r \in Sending
  BY DEF Sound
<1>1. x \in StateMachine
  BY <1>0, SendingFacts DEF StateMachine, Command
<1>2. s = [r EXCEPT !.awaiting = NoCommand, !.timeout = NoTimeout, !.rx_busy = FALSE, !.sm = x]
  BY <1>0, SendingFacts DEF ChannelState, Wifi_Peer_Data_Set, DropRequest,
     Wifi_Request_Timeout_Clear
<1>3. /\ s \in ChannelState /\ s.sm = x /\ s.bak = r.bak /\ ~s.timeout.active
      /\ s.pairFlag = r.pairFlag /\ s.typeAddr = r.typeAddr /\ s.mask = r.mask
      /\ s.status = r.status /\ ~s.rx_busy /\ s.awaiting = NoCommand
  BY <1>0, <1>1, <1>2, SendingFacts, ConstantsTyped DEF ChannelState
<1>4. /\ x.reply = r.sm.reply /\ x.granted = r.sm.granted /\ x.add = r.sm.add
      /\ x.del = r.sm.del /\ x.response = r.sm.response /\ x.pMac = r.sm.pMac
      /\ x.device = r.sm.device /\ x.cmd # "AP_PAIRING_REQ" /\ x.request = r.sm.request
      /\ x.cmd # "AP_PAIRING_CANCEL"
  BY <1>0, SendingFacts DEF StateMachine, DataCommand
<1> HIDE DEF s, x
<1>5. EraseAgrees(s) /\ DeviceAgrees(s) /\ RepairAgrees(s)
  BY <1>0, <1>3, <1>4 DEF Sending, EraseAgrees, DeviceAgrees, RepairAgrees
<1>6. RequestAgrees(s) /\ AnswerAgrees(s)
  BY <1>0, <1>3, <1>4 DEF Sending, RequestAgrees, AnswerAgrees
<1>7. s.mask = s.pairFlag
  BY <1>0, <1>3 DEF Sending
<1>8. Alike(r, s)
  BY <1>3 DEF Alike
<1>9. QED
  BY <1>3, <1>5, <1>6, <1>7, <1>8 DEF Sound, Sending, s

\* What is left of a channel when its pairing answer has been taken.
AnswerTaken(r, q) ==
    /\ q \in ChannelState /\ q.timeout = NoTimeout /\ ~q.rx_busy
    /\ q.bak = r.bak /\ q.pairFlag = r.pairFlag /\ q.typeAddr = r.typeAddr
    /\ q.mask = r.mask /\ q.status = r.status /\ q.awaiting = r.awaiting
    /\ q.sm \in StateMachine
    /\ ~q.sm.reply /\ ~q.sm.request /\ q.sm.add = r.sm.add /\ q.sm.del = r.sm.del
    /\ q.sm.response = r.sm.response /\ q.sm.pMac = r.sm.pMac
    /\ q.sm.device = r.sm.device /\ q.sm.cmd = r.sm.cmd

\* Taken and without success left over, it is a sound channel again.
LEMMA AnswerTakenIsSound ==
  ASSUME NEW r \in Sending, NEW q, AnswerTaken(r, q), ~q.sm.granted
  PROVE  q \in Sound /\ Alike(r, q)
<1>1. EraseAgrees(q) /\ DeviceAgrees(q) /\ RepairAgrees(q)
  BY DEF AnswerTaken, Sending, EraseAgrees, DeviceAgrees, RepairAgrees
<1>2. RequestAgrees(q) /\ AnswerAgrees(q)
  BY ConstantsTyped DEF AnswerTaken, Sending, RequestAgrees, AnswerAgrees
<1>3. Alike(r, q)
  BY DEF AnswerTaken, Alike
<1>4. QED
  BY <1>1, <1>2, <1>3 DEF AnswerTaken, Sending, Sound

\* An answer ends the link of an erased channel, or leaves it; its timeout is over.
Answered(r, s) == ~s.timeout.active /\ (Alike(r, s) \/ Forgotten(r, s))

LEMMA PairingGrantedIsSound ==
  ASSUME NEW r \in Sending, NEW p, AnswerTaken(r, p)
  PROVE  PairingGranted(p) \in Sound /\ Answered(r, PairingGranted(p))
<1> DEFINE x == [p.sm EXCEPT !.granted = FALSE]
           q == [p EXCEPT !.sm = x]
           y == [x EXCEPT !.add = FALSE, !.state = "PAIRED", !.retry = 0]
<1>1. AnswerTaken(r, q) /\ ~q.sm.granted /\ q.sm = x /\ x \in StateMachine
  <2>1. /\ x \in StateMachine /\ ~x.granted /\ x.reply = p.sm.reply /\ x.add = p.sm.add
        /\ x.del = p.sm.del /\ x.response = p.sm.response /\ x.pMac = p.sm.pMac
        /\ x.device = p.sm.device /\ x.cmd = p.sm.cmd /\ (x.request => p.sm.request)
    BY DEF AnswerTaken, StateMachine
  <2> HIDE DEF x
  <2>2. QED
    BY <2>1 DEF AnswerTaken, ChannelState
<1>2. q \in Sound /\ Alike(r, q) /\ ~q.timeout.active
  BY <1>1, AnswerTakenIsSound, ConstantsTyped DEF AnswerTaken
<1>3. q \in Sending /\ Deletable(q)
  BY <1>2, SendingFacts DEF Sound
<1>4. CASE q.sm.add
  <2>1. PairingGranted(p) = [q EXCEPT !.sm = y, !.bak = q.bak]
    BY <1>1, <1>4 DEF PairingGranted, AnswerTaken, ChannelState
  <2>2. /\ y \in StateMachine /\ y.reply = x.reply /\ y.granted = x.granted /\ ~y.add
        /\ y.del = x.del /\ y.response = x.response /\ y.pMac = x.pMac
        /\ y.device = x.device /\ y.cmd = x.cmd /\ (y.request => x.request)
    BY <1>1 DEF StateMachine, State
  <2>3. q.bak \in Backup
    BY <1>3, SendingFacts
  <2> HIDE DEF q, y, x
  <2> DEFINE s == [q EXCEPT !.sm = y, !.bak = q.bak]
  <2>4. s \in Sound /\ Alike(q, s)
    BY <1>1, <1>2, <1>3, <2>2, <2>3, BookkeepingIsSound
  <2>5. s.timeout = q.timeout
    BY <1>3, SendingFacts DEF ChannelState
  <2>6. QED
    BY <1>2, <2>1, <2>4, <2>5 DEF Alike, Answered
<1>5. CASE ~q.sm.add /\ q.sm.del
  <2>1. PairingGranted(p) = [del_peer(q) EXCEPT !.sm = Zeroed]
    BY <1>5 DEF PairingGranted
  <2> DEFINE d == del_peer(q)
             s == [d EXCEPT !.sm = Zeroed]
  <2>2. Deleted(d) /\ LinkEnds(q, d)
    BY <1>3, DelPeerFields
  <2>3. s \in Sound /\ Alike(d, s)
    BY <2>2, DeletedIsSound
  <2>4. ~s.timeout.active
    BY <2>2, ConstantsTyped DEF Deleted, ChannelState
  <2>5. q.pairFlag /\ q.bak.del_set
    BY <1>3, <1>5 DEF Sending, EraseAgrees
  <2> HIDE DEF d, s, q
  <2>6. Forgotten(r, s)
    BY <1>2, <2>2, <2>3, <2>5 DEF LinkEnds, Free, Alike, Forgotten
  <2>7. QED
    BY <2>1, <2>3, <2>4, <2>6 DEF Answered, d, s
<1>6. CASE ~q.sm.add /\ ~q.sm.del
  BY <1>2, <1>6 DEF PairingGranted, Answered
<1>7. QED
  BY <1>4, <1>5, <1>6

\* A pairing packet for a free channel and the device it is to look for.
LEMMA AssignedIsSound ==
  ASSUME NEW r \in Sound, ~r.pairFlag, NEW typeAddr \in TypeAddr
  PROVE  LET s == Wifi_Peer_State_Set_Add([r EXCEPT !.typeAddr = typeAddr], typeAddr) IN
         s \in Sound /\ Alike(r, s)
<1> DEFINE p == [r EXCEPT !.typeAddr = typeAddr]
           s == Wifi_Peer_State_Set_Add(p, typeAddr)
           x == [r.sm EXCEPT !.cmd = "AP_PAIRING_REQ", !.request = TRUE, !.add = TRUE,
                             !.pMac = "broadcast", !.device = typeAddr]
<1>0. r \in Sending
  BY DEF Sound
<1>1. /\ s \in ChannelState /\ s.sm = x /\ s.timeout = NoTimeout /\ s.awaiting = NoCommand
      /\ s.bak = r.bak /\ s.pairFlag = r.pairFlag /\ s.typeAddr = typeAddr
      /\ s.mask = r.mask /\ s.status = r.status /\ s.rx_busy = r.rx_busy
  <2>1. /\ p \in ChannelState /\ p.sm = r.sm /\ p.bak = r.bak /\ p.pairFlag = r.pairFlag
        /\ p.typeAddr = typeAddr /\ p.mask = r.mask /\ p.status = r.status
        /\ p.rx_busy = r.rx_busy
    BY <1>0, SendingFacts DEF ChannelState
  <2> HIDE DEF p
  <2>2. /\ s \in ChannelState
        /\ s.sm = [p.sm EXCEPT !.cmd = "AP_PAIRING_REQ", !.request = TRUE, !.add = TRUE,
                               !.pMac = "broadcast", !.device = typeAddr]
        /\ s.timeout = NoTimeout /\ s.awaiting = NoCommand
        /\ s.bak = p.bak /\ s.pairFlag = p.pairFlag /\ s.typeAddr = p.typeAddr
        /\ s.mask = p.mask /\ s.status = p.status /\ s.rx_busy = p.rx_busy
    BY <2>1, SetAddFields
  <2> HIDE DEF s
  <2>3. QED
    BY <2>1, <2>2
<1>2. /\ x.reply = r.sm.reply /\ x.granted = r.sm.granted /\ x.del = r.sm.del
      /\ x.response = r.sm.response /\ x.device = typeAddr
  BY <1>0, SendingFacts DEF StateMachine
<1> HIDE DEF s, x
<1>3. EraseAgrees(s) /\ DeviceAgrees(s) /\ RepairAgrees(s)
  BY <1>0, <1>1, <1>2, TypeAssumption DEF Sending, EraseAgrees, DeviceAgrees, RepairAgrees
<1>4. RequestAgrees(s) /\ AnswerAgrees(s)
  BY <1>0, <1>1, <1>2, ConstantsTyped DEF Sending, RequestAgrees, AnswerAgrees
<1>5. s.mask = s.pairFlag
  BY <1>0, <1>1 DEF Sending
<1>6. Alike(r, s)
  BY <1>1 DEF Alike
<1>7. QED
  BY <1>1, <1>3, <1>4, <1>5, <1>6 DEF Sound, Sending, s

\* The same for the device it already stores.
LEMMA SetAddIsSound ==
  ASSUME NEW r \in Sound, ~r.pairFlag, NEW typeAddr \in TypeAddr, r.typeAddr = typeAddr
  PROVE  /\ Wifi_Peer_State_Set_Add(r, typeAddr) \in Sound
         /\ Alike(r, Wifi_Peer_State_Set_Add(r, typeAddr))
<1>1. [r EXCEPT !.typeAddr = typeAddr] = r
  BY SendingFacts DEF Sound, ChannelState
<1>2. QED
  BY <1>1, AssignedIsSound

\* Without success the channel is unpaired: an answer on a paired channel has it.
LEMMA PairingRefusedIsSound ==
  ASSUME NEW r \in Sending, NEW p, AnswerTaken(r, p), ~p.sm.granted, ~r.pairFlag
  PROVE  PairingRefused(p) \in Sound /\ Answered(r, PairingRefused(p))
<1> DEFINE x == [p.sm EXCEPT !.retry = @ + 1]
           q == [p EXCEPT !.sm = x]
<1>1. /\ p \in Sound /\ p \in Sending /\ Deletable(p) /\ p \in ChannelState
      /\ p.sm \in StateMachine /\ Alike(r, p) /\ ~p.timeout.active
  BY AnswerTakenIsSound, SendingFacts, ConstantsTyped DEF Sound, AnswerTaken
<1>2. /\ x \in StateMachine /\ x.reply = p.sm.reply /\ x.granted = p.sm.granted
      /\ x.add = p.sm.add /\ x.del = p.sm.del /\ x.response = p.sm.response
      /\ x.pMac = p.sm.pMac /\ x.device = p.sm.device /\ x.cmd = p.sm.cmd
      /\ x.request => p.sm.request
  BY <1>1 DEF StateMachine
<1>3. q = [p EXCEPT !.sm = x, !.bak = p.bak]
  BY <1>1 DEF ChannelState
<1>4. p.bak \in Backup /\ ~p.pairFlag /\ ~p.sm.del
  BY <1>1, SendingFacts DEF AnswerTaken, Sending, EraseAgrees
<1>5. q \in Sound /\ Alike(p, q)
  <2> HIDE DEF q, x
  <2> QED BY <1>1, <1>2, <1>3, <1>4, BookkeepingIsSound
<1>6. /\ q.sm = x /\ ~q.pairFlag /\ q.typeAddr = p.typeAddr
      /\ q.typeAddr \in TypeAddr \cup {NoType} /\ q.timeout = p.timeout
  BY <1>1, <1>2, <1>4 DEF ChannelState
<1>7. CASE p.sm.add /\ q.sm.retry > RETRY_MAX
  <2>1. PairingRefused(p) = [q EXCEPT !.sm = Zeroed]
    BY <1>4, <1>7 DEF PairingRefused
  <2>2. /\ q \in ChannelState /\ ~q.mask /\ ~q.bak.del_set /\ ~q.timeout.active
        /\ (q.rx_busy => q.awaiting = NoCommand) /\ RepairAgrees(q)
    BY <1>5, <1>6, ConstantsTyped, <1>1, <1>4
       DEF Sound, Sending, EraseAgrees, AnswerTaken, ChannelState
  <2> DEFINE s == [q EXCEPT !.sm = Zeroed]
  <2>3. s \in Sound /\ Alike(q, s)
    BY <1>6, <2>2, ZeroedIsSound
  <2>4. s.timeout = q.timeout
    BY <2>2 DEF ChannelState
  <2> HIDE DEF q, s
  <2>5. QED
    BY <1>1, <1>5, <2>1, <2>2, <2>3, <2>4 DEF Answered, Alike, s
<1>8. CASE p.sm.add /\ ~(q.sm.retry > RETRY_MAX)
  <2> DEFINE s == Wifi_Peer_State_Set_Add(q, q.typeAddr)
             y == [s.sm EXCEPT !.state = "READY"]
  <2>1. q.typeAddr \in TypeAddr
    BY <1>4, <1>6, <1>8, <1>1 DEF Sending, DeviceAgrees
  <2>2. s \in Sound /\ Alike(q, s) /\ ~s.timeout.active
    <3>1. q \in ChannelState
      BY <1>5, SendingFacts DEF Sound
    <3> HIDE DEF q
    <3>2. s.timeout = NoTimeout
      BY <2>1, <3>1, SetAddFields
    <3>3. QED
      BY <1>5, <1>6, <2>1, <3>2, SetAddIsSound, ConstantsTyped
  <2>3. s \in Sending /\ s.sm \in StateMachine /\ s.bak \in Backup /\ s \in ChannelState
    BY <2>2, SendingFacts DEF Sound
  <2> HIDE DEF s
  <2>4. /\ y \in StateMachine /\ y.reply = s.sm.reply /\ y.granted = s.sm.granted
        /\ y.add = s.sm.add /\ y.del = s.sm.del /\ y.response = s.sm.response
        /\ y.pMac = s.sm.pMac /\ y.device = s.sm.device /\ y.cmd = s.sm.cmd
        /\ y.request => s.sm.request
    BY <2>3 DEF StateMachine, State
  <2>5. PairingRefused(p) = [s EXCEPT !.sm.state = "READY"]
    BY <1>4, <1>8 DEF PairingRefused, s
  <2>6. PairingRefused(p) = [s EXCEPT !.sm = y, !.bak = s.bak]
    BY <2>3, <2>5 DEF ChannelState
  <2> HIDE DEF y
  <2> DEFINE v == [s EXCEPT !.sm = y, !.bak = s.bak]
  <2>7. v \in Sound /\ Alike(s, v)
    BY <2>2, <2>3, <2>4, BookkeepingIsSound
  <2>8. v.timeout = s.timeout
    BY <2>3 DEF ChannelState
  <2> HIDE DEF q, v
  <2>9. QED
    BY <1>1, <1>5, <2>2, <2>6, <2>7, <2>8 DEF Answered, Alike, v
<1>9. CASE ~p.sm.add
  <2> DEFINE z == [p EXCEPT !.sm = Zeroed, !.pairFlag = FALSE, !.mask = FALSE]
  <2>1. PairingRefused(p) = del_peer(z)
    BY <1>4, <1>9 DEF PairingRefused
  <2>2. z.sm = Zeroed /\ Deletable(z) /\ ~z.pairFlag /\ Alike(p, z)
    BY <1>1, <1>4, ZeroedFields DEF Deletable, ChannelState, Alike
  <2> HIDE DEF z
  <2>3. del_peer(z) \in Sound /\ LinkEnds(z, del_peer(z)) /\ ~del_peer(z).timeout.active
    BY <2>2, ZeroedDelPeerIsSound, DelPeerFields, ConstantsTyped DEF Deleted
  <2>4. QED
    BY <1>1, <2>1, <2>2, <2>3 DEF LinkEnds, Alike, Answered
<1>10. QED
  BY <1>7, <1>8, <1>9

LEMMA PairingAnsweredIsSound ==
  ASSUME NEW r \in Sending, r.sm.reply
  PROVE  PairingAnswered(r) \in Sound /\ Answered(r, PairingAnswered(r))
<1> DEFINE x == [r.sm EXCEPT !.reply = FALSE, !.request = FALSE]
           q == [r EXCEPT !.timeout = NoTimeout, !.sm = x, !.rx_busy = FALSE]
<1>1. /\ x \in StateMachine /\ ~x.reply /\ x.granted = r.sm.granted
      /\ x.add = r.sm.add /\ x.del = r.sm.del /\ x.response = r.sm.response
      /\ x.pMac = r.sm.pMac /\ x.device = r.sm.device /\ x.cmd = r.sm.cmd /\ ~x.request
  BY SendingFacts DEF StateMachine
<1>2. PairingAnswered(r) = IF q.sm.granted THEN PairingGranted(q) ELSE PairingRefused(q)
  BY SendingFacts DEF PairingAnswered, Wifi_Request_Timeout_Clear, ChannelState
<1>3. AnswerTaken(r, q) /\ q.sm = x
  <2> HIDE DEF x
  <2> QED BY <1>1, SendingFacts, ConstantsTyped DEF AnswerTaken, ChannelState
<1>4. CASE q.sm.granted
  BY <1>2, <1>3, <1>4, PairingGrantedIsSound
<1>5. CASE ~q.sm.granted
  <2>1. ~r.pairFlag
    BY <1>1, <1>3, <1>5 DEF Sending, AnswerAgrees
  <2>2. QED
    BY <1>2, <1>3, <1>5, <2>1, PairingRefusedIsSound
<1>6. QED
  BY <1>4, <1>5

\* A channel that stops waiting, whether its timeout or its answer ended it.
LEMMA StoppedIsSound ==
  ASSUME NEW r \in Sound, NEW x \in StateMachine, NEW b \in Backup,
         x.reply = r.sm.reply, x.granted = r.sm.granted, x.add = r.sm.add, x.del = r.sm.del,
         x.response => r.sm.response, x.pMac = r.sm.pMac, x.device = r.sm.device,
         x.cmd = r.sm.cmd, x.request => r.sm.request,
         b.repair_itself => r.bak.repair_itself, b.del_set = r.bak.del_set,
         b.typeAddr = r.bak.typeAddr, r.status /\ ~r.pairFlag => b.repair_itself,
         NEW busy \in BOOLEAN, busy => r.rx_busy
  PROVE  LET s == [r EXCEPT !.sm = x, !.bak = b, !.timeout = NoTimeout, !.rx_busy = busy] IN
         /\ s \in Sound
         /\ r.pairFlag \/ b.repair_itself = r.bak.repair_itself => Alike(r, s)
<1> DEFINE s == [r EXCEPT !.sm = x, !.bak = b, !.timeout = NoTimeout, !.rx_busy = busy]
<1>0. r \in Sending
  BY DEF Sound
<1>1. /\ s \in ChannelState /\ s.sm = x /\ s.bak = b /\ ~s.timeout.active
      /\ s.pairFlag = r.pairFlag /\ s.typeAddr = r.typeAddr /\ s.mask = r.mask
      /\ s.status = r.status /\ s.rx_busy = busy /\ s.awaiting = r.awaiting
  BY <1>0, SendingFacts, ConstantsTyped DEF ChannelState
<1> HIDE DEF s
<1>2. EraseAgrees(s) /\ DeviceAgrees(s) /\ RepairAgrees(s)
  BY <1>0, <1>1 DEF Sending, EraseAgrees, DeviceAgrees, RepairAgrees
<1>3. RequestAgrees(s) /\ AnswerAgrees(s)
  BY <1>0, <1>1 DEF Sending, RequestAgrees, AnswerAgrees
<1>4. s.mask = s.pairFlag
  BY <1>0, <1>1 DEF Sending
<1>5. r.pairFlag \/ b.repair_itself = r.bak.repair_itself => Alike(r, s)
  BY <1>1 DEF Alike
<1>6. QED
  BY <1>1, <1>2, <1>3, <1>4, <1>5 DEF Sound, Sending, s

LEMMA DataAnsweredIsSound ==
  ASSUME NEW r \in Sound
  PROVE  DataAnswered(r) \in Sound /\ Alike(r, DataAnswered(r))
<1> DEFINE x == [r.sm EXCEPT !.response = FALSE, !.cnt_disconnect = 0]
           b == [r.bak EXCEPT !.receiveLoss_cnt = 0]
           bb == [b EXCEPT !.repair_itself = FALSE, !.repair_cnt = 0]
           q == [r EXCEPT !.sm = x, !.bak = b, !.timeout = NoTimeout, !.rx_busy = FALSE]
           z == IF q.pairFlag THEN q ELSE [q EXCEPT !.sm = Zeroed]
<1>0. r \in Sending /\ r \in ChannelState /\ r.sm \in StateMachine /\ r.bak \in Backup
  BY SendingFacts DEF Sound
<1>1. /\ x \in StateMachine /\ x.reply = r.sm.reply /\ x.granted = r.sm.granted
      /\ x.add = r.sm.add /\ x.del = r.sm.del /\ ~x.response
      /\ x.pMac = r.sm.pMac /\ x.device = r.sm.device /\ x.cmd = r.sm.cmd
      /\ x.request => r.sm.request
  BY <1>0 DEF StateMachine
<1>2. /\ b \in Backup /\ b.repair_itself = r.bak.repair_itself /\ b.del_set = r.bak.del_set
      /\ b.typeAddr = r.bak.typeAddr
      /\ bb \in Backup /\ ~bb.repair_itself /\ bb.del_set = r.bak.del_set
      /\ bb.typeAddr = r.bak.typeAddr
  BY <1>0 DEF Backup
<1>3. DataAnswered(r) = IF z.bak.repair_itself /\ z.pairFlag
                        THEN [z EXCEPT !.bak.repair_itself = FALSE, !.bak.repair_cnt = 0]
                        ELSE z
  BY <1>0 DEF DataAnswered, Wifi_Request_Timeout_Clear, ChannelState
<1>4. q.pairFlag = r.pairFlag /\ q.bak = b
  BY <1>0 DEF ChannelState
<1>5. q \in Sound /\ Alike(r, q)
  <2> HIDE DEF x, b
  <2> QED BY <1>0, <1>1, <1>2, StoppedIsSound DEF Sending, RepairAgrees
<1>6. CASE r.pairFlag /\ b.repair_itself
  <2>1. DataAnswered(r) = [q EXCEPT !.bak = bb]
    BY <1>0, <1>3, <1>4, <1>6 DEF ChannelState
  <2>2. [q EXCEPT !.bak = bb] = [r EXCEPT !.sm = x, !.bak = bb, !.timeout = NoTimeout,
                                           !.rx_busy = FALSE]
    BY <1>0 DEF ChannelState
  <2> HIDE DEF x, bb
  <2> DEFINE s == [r EXCEPT !.sm = x, !.bak = bb, !.timeout = NoTimeout, !.rx_busy = FALSE]
  <2>3. s \in Sound /\ Alike(r, s)
    BY <1>1, <1>2, <1>6, StoppedIsSound
  <2>4. QED
    BY <2>1, <2>2, <2>3
<1>7. CASE r.pairFlag /\ ~b.repair_itself
  BY <1>3, <1>4, <1>5, <1>7
<1>8. CASE ~r.pairFlag
  <2>1. DataAnswered(r) = [q EXCEPT !.sm = Zeroed]
    <3> HIDE DEF x, b
    <3>1. ~[q EXCEPT !.sm = Zeroed].pairFlag
      BY <1>0, <1>8 DEF ChannelState
    <3>2. QED
      BY <1>3, <1>4, <1>8, <3>1
  <2>2. q.rx_busy = FALSE /\ q.timeout = NoTimeout
    BY <1>0 DEF ChannelState
  <2> HIDE DEF q
  <2>3. /\ q \in ChannelState /\ ~q.pairFlag /\ ~q.mask /\ ~q.bak.del_set
        /\ ~q.timeout.active /\ RepairAgrees(q)
    BY <1>4, <1>5, <1>8, <2>2, ConstantsTyped DEF Sound, Sending, EraseAgrees
  <2>4. [q EXCEPT !.sm = Zeroed] \in Sound /\ Alike(q, [q EXCEPT !.sm = Zeroed])
    BY <2>2, <2>3, ZeroedIsSound
  <2>5. QED
    BY <1>5, <2>1, <2>4 DEF Alike
<1>9. QED
  BY <1>6, <1>7, <1>8

\* The request given up before it was sent, or when its send failed.
LEMMA DroppedIsSound ==
  ASSUME NEW r \in Sound, NEW busy \in BOOLEAN, busy => r.rx_busy
  PROVE  LET s == [DropRequest(r) EXCEPT !.rx_busy = busy] IN s \in Sound /\ Alike(r, s)
<1> DEFINE s == [DropRequest(r) EXCEPT !.rx_busy = busy]
<1>0. r \in Sending
  BY DEF Sound
<1>1. /\ s \in ChannelState /\ s.sm = r.sm /\ s.bak = r.bak /\ ~s.timeout.active
      /\ s.pairFlag = r.pairFlag /\ s.typeAddr = r.typeAddr /\ s.mask = r.mask
      /\ s.status = r.status /\ s.awaiting = NoCommand
  BY <1>0, SendingFacts, ConstantsTyped DEF ChannelState, DropRequest, Wifi_Request_Timeout_Clear
<1> HIDE DEF s
<1>2. EraseAgrees(s) /\ DeviceAgrees(s) /\ RepairAgrees(s)
  BY <1>0, <1>1 DEF Sending, EraseAgrees, DeviceAgrees, RepairAgrees
<1>3. RequestAgrees(s) /\ AnswerAgrees(s)
  BY <1>0, <1>1 DEF Sending, RequestAgrees, AnswerAgrees
<1>4. Alike(r, s)
  BY <1>1 DEF Alike
<1>5. QED
  BY <1>0, <1>1, <1>2, <1>3, <1>4 DEF Sending, Sound, s

\* A sent packet opens its transaction and its timeout.
LEMMA SentIsSending ==
  ASSUME NEW r \in Sound, NEW result
  PROVE  Sent(r, result) \in Sending /\ Alike(r, Sent(r, result))
<1> DEFINE ok == result = "ESP_OK" /\ r.sm.cmd # NoCommand /\ (r.sm.pMac = "peer" => r.pairFlag)
           limit == Wifi_Request_Timeout_Limit(r.sm.cmd)
           told == r.bak.del_set /\ (r.told \/ r.sm.cmd = "AP_PAIRING_CANCEL")
           running == [active |-> TRUE, count |-> 0, limit |-> limit]
           s == [r EXCEPT !.rx_busy = TRUE, !.awaiting = r.sm.cmd, !.told = told,
                          !.timeout = running]
<1>0. r \in Sending /\ r \in ChannelState /\ r.sm \in StateMachine
  BY SendingFacts DEF Sound
<1>1. CASE ~ok
  <2>1. Sent(r, result) = DropRequest([r EXCEPT !.rx_busy = FALSE])
    BY <1>1 DEF Sent
  <2>2. DropRequest([r EXCEPT !.rx_busy = FALSE]) = [DropRequest(r) EXCEPT !.rx_busy = FALSE]
    BY <1>0 DEF ChannelState, DropRequest, Wifi_Request_Timeout_Clear
  <2>3. QED
    BY <2>1, <2>2, DroppedIsSound DEF Sound
<1>2. CASE ok
  <2>1. Sent(r, result) = s
    BY <1>0, <1>2 DEF Sent, Wifi_Request_Timeout_Start, ChannelState
  <2>2. running \in Timeout /\ running.active
    BY TimeAssumption DEF Timeout, Wifi_Request_Timeout_Limit
  <2>3. r.sm.cmd \in Command /\ told \in BOOLEAN
    BY <1>0 DEF StateMachine
  <2> HIDE DEF running, told
  <2>4. /\ s \in ChannelState /\ s.sm = r.sm /\ s.bak = r.bak
        /\ s.pairFlag = r.pairFlag /\ s.typeAddr = r.typeAddr /\ s.mask = r.mask
        /\ s.status = r.status /\ s.awaiting = r.sm.cmd /\ s.rx_busy
    BY <1>0, <2>2, <2>3 DEF ChannelState
  <2> HIDE DEF s
  <2>5. EraseAgrees(s) /\ DeviceAgrees(s) /\ RepairAgrees(s)
    BY <1>0, <2>4 DEF Sending, EraseAgrees, DeviceAgrees, RepairAgrees
  <2>6. RequestAgrees(s) /\ AnswerAgrees(s)
    BY <1>0, <1>2, <2>4 DEF Sending, RequestAgrees, AnswerAgrees
  <2>7. Alike(r, s)
    BY <2>4 DEF Alike
  <2>8. QED
    BY <1>0, <2>1, <2>4, <2>5, <2>6, <2>7 DEF Sending
<1>3. QED
  BY <1>1, <1>2

\* An expired request leaves the link as it is, or is the last loss it allows.
LEMMA TimeoutIsSound ==
  ASSUME NEW r \in Sound
  PROVE  LET s == Wifi_Request_Timeout_Handle(r) IN
         s \in Sound /\ (Alike(r, s) \/ LinkEnds(r, s))
<1> DEFINE x == [r.sm EXCEPT !.cnt_disconnect = @ + 1]
           y == [r.sm EXCEPT !.cnt_disconnect = 0]
           w == [x EXCEPT !.state = "PAIRED"]
           n == r.sm.cnt_disconnect + 1
           b == [r.bak EXCEPT !.receiveLoss_cnt = (@ + 1) % LOSS_WRAP]
           q == [Wifi_Request_Timeout_Clear(r) EXCEPT !.sm.cnt_disconnect = @ + 1]
           g == [q EXCEPT !.sm.cnt_disconnect = 0, !.rx_busy = FALSE]
           gone == [r EXCEPT !.sm = y, !.bak = r.bak, !.timeout = NoTimeout, !.rx_busy = FALSE]
<1>0. r \in Sending /\ r \in ChannelState /\ r.sm \in StateMachine /\ r.bak \in Backup
  BY SendingFacts DEF Sound
<1>1. /\ y \in StateMachine /\ y.reply = r.sm.reply /\ y.granted = r.sm.granted
      /\ y.add = r.sm.add /\ y.del = r.sm.del /\ y.response = r.sm.response
      /\ y.pMac = r.sm.pMac /\ y.device = r.sm.device /\ y.cmd = r.sm.cmd
      /\ y.request => r.sm.request
  BY <1>0 DEF StateMachine
<1>2. /\ w \in StateMachine /\ w.reply = r.sm.reply /\ w.granted = r.sm.granted
      /\ w.add = r.sm.add /\ w.del = r.sm.del /\ w.response = r.sm.response
      /\ w.pMac = r.sm.pMac /\ w.device = r.sm.device /\ w.cmd = r.sm.cmd
      /\ w.request => r.sm.request
  <2>1. /\ x \in StateMachine /\ x.reply = r.sm.reply /\ x.granted = r.sm.granted
        /\ x.add = r.sm.add /\ x.del = r.sm.del /\ x.response = r.sm.response
        /\ x.pMac = r.sm.pMac /\ x.device = r.sm.device /\ x.cmd = r.sm.cmd
        /\ x.request => r.sm.request
    BY <1>0 DEF StateMachine
  <2> HIDE DEF x
  <2>2. QED
    BY <2>1 DEF StateMachine, State
<1>3. (r.bak.receiveLoss_cnt + 1) % LOSS_WRAP \in Nat
  BY <1>0, TimeAssumption DEF Backup
<1>4. /\ b \in Backup /\ b.repair_itself = r.bak.repair_itself /\ b.del_set = r.bak.del_set
      /\ b.typeAddr = r.bak.typeAddr
  BY <1>0, <1>3 DEF Backup
<1>5. /\ n \in Nat /\ q.sm.cnt_disconnect = n
      /\ q = [r EXCEPT !.timeout = NoTimeout, !.sm = x] /\ g = gone
  <2>1. n \in Nat /\ x.cnt_disconnect = n
    BY <1>0 DEF StateMachine
  <2>2. [x EXCEPT !.cnt_disconnect = 0] = y
    <3> HIDE DEF n
    <3>1. x = [r.sm EXCEPT !.cnt_disconnect = n]
      BY DEF n
    <3> HIDE DEF x
    <3>2. QED
      BY <1>0, <3>1 DEF StateMachine
  <2>3. q = [r EXCEPT !.timeout = NoTimeout, !.sm = x]
    BY <1>0 DEF ChannelState, Wifi_Request_Timeout_Clear
  <2>4. g = [r EXCEPT !.timeout = NoTimeout, !.sm = [x EXCEPT !.cnt_disconnect = 0],
                      !.rx_busy = FALSE]
    BY <1>0, <2>3 DEF ChannelState
  <2> HIDE DEF x, y, q, g, n
  <2>5. q.sm = x
    BY <1>0, <2>3 DEF ChannelState
  <2>6. g = gone
    BY <1>0, <2>2, <2>4 DEF ChannelState
  <2>7. QED
    BY <2>1, <2>3, <2>5, <2>6
<1>6. gone \in Sound /\ Alike(r, gone)
  <2> HIDE DEF y
  <2> QED BY <1>0, <1>1, StoppedIsSound DEF Sending, RepairAgrees
<1>7. /\ gone \in ChannelState /\ Deletable(gone) /\ gone.pairFlag = r.pairFlag
      /\ gone.timeout = NoTimeout /\ ~gone.rx_busy
  <2>1. gone \in ChannelState /\ Deletable(gone)
    BY <1>6, SendingFacts DEF Sound
  <2>2. QED
    BY <1>0, <2>1 DEF ChannelState
<1>8. CASE n >= SETUP_DISCONNECT_MAX
  <2>0. /\ q.sm.cnt_disconnect >= SETUP_DISCONNECT_MAX
        /\ ~(q.sm.cnt_disconnect < SETUP_DISCONNECT_MAX)
    <3> HIDE DEF n, q
    <3> QED BY <1>5, <1>8, TimeAssumption
  <2>1. Wifi_Request_Timeout_Handle(r) = Disconnected(g)
    BY <2>0 DEF Wifi_Request_Timeout_Handle
  <2> HIDE DEF g, gone
  <2>2. CASE r.pairFlag
    <3>1. Disconnected(gone) =
              IF del_peer(gone).bak.repair_itself THEN del_peer(gone)
              ELSE [del_peer(gone) EXCEPT !.sm = Zeroed]
      BY <1>7, <2>2 DEF Disconnected
    <3> DEFINE d == del_peer(gone)
               s == [d EXCEPT !.sm = Zeroed]
    <3>2. Deleted(d) /\ LinkEnds(gone, d)
      BY <1>7, DelPeerFields
    <3>3. s \in Sound /\ Alike(d, s) /\ (d.bak.repair_itself => d \in Sound)
      BY <3>2, DeletedIsSound
    <3> HIDE DEF d
    <3>4. LinkEnds(r, d) /\ (~d.bak.repair_itself => LinkEnds(r, s))
      <4> HIDE DEF s
      <4> QED BY <1>6, <2>2, <3>2, <3>3 DEF Alike, LinkEnds, Free
    <3>5. QED
      BY <1>5, <2>1, <3>1, <3>3, <3>4 DEF d
  <2>3. CASE ~r.pairFlag
    <3>1. Disconnected(gone) =
              IF gone.bak.repair_itself THEN gone ELSE [gone EXCEPT !.sm = Zeroed]
      BY <1>7, <2>3 DEF Disconnected
    <3>2. RepairAgrees(gone) /\ ~gone.mask /\ ~gone.bak.del_set
      BY <1>6, <1>7, <2>3 DEF Sound, Sending, EraseAgrees
    <3> DEFINE s == [gone EXCEPT !.sm = Zeroed]
    <3>3. s \in Sound /\ Alike(gone, s)
      BY <1>7, <2>3, <3>2, ConstantsTyped, ZeroedIsSound
    <3>4. Alike(r, s)
      BY <1>6, <3>3 DEF Alike
    <3>5. QED
      BY <1>5, <1>6, <2>1, <3>1, <3>3, <3>4
  <2>4. QED
    BY <2>2, <2>3
<1>9. CASE n < SETUP_DISCONNECT_MAX /\ r.pairFlag
  <2> DEFINE s == [r EXCEPT !.sm = w, !.bak = b, !.timeout = NoTimeout, !.rx_busy = r.rx_busy]
  <2>1. Wifi_Request_Timeout_Handle(r) =
            [q EXCEPT !.bak.receiveLoss_cnt = (@ + 1) % LOSS_WRAP, !.sm.state = "PAIRED"]
    BY <1>5, <1>9, TimeAssumption DEF Wifi_Request_Timeout_Handle
  <2>2. Wifi_Request_Timeout_Handle(r) = s
    BY <1>0, <1>5, <2>1 DEF ChannelState
  <2> HIDE DEF w, b
  <2>3. s \in Sound /\ Alike(r, s)
    BY <1>0, <1>2, <1>4, <1>9, StoppedIsSound DEF ChannelState
  <2>4. QED
    BY <2>2, <2>3
<1>10. CASE n < SETUP_DISCONNECT_MAX /\ ~r.pairFlag
  <2> DEFINE z == [r EXCEPT !.timeout = NoTimeout, !.awaiting = NoCommand, !.rx_busy = FALSE]
  <2>0. Wifi_Request_Timeout_Handle(r) =
            [q EXCEPT !.awaiting = NoCommand, !.rx_busy = FALSE, !.sm = Zeroed]
    BY <1>5, <1>10, TimeAssumption DEF Wifi_Request_Timeout_Handle
  <2>1. Wifi_Request_Timeout_Handle(r) = [z EXCEPT !.sm = Zeroed]
    BY <1>0, <1>5, <2>0 DEF ChannelState
  <2>2. /\ z \in ChannelState /\ ~z.pairFlag /\ z.pairFlag = r.pairFlag
        /\ z.mask = r.mask /\ z.bak = r.bak
        /\ z.timeout = NoTimeout /\ ~z.rx_busy /\ z.typeAddr = r.typeAddr /\ z.status = r.status
    BY <1>0, <1>10, ConstantsTyped DEF ChannelState
  <2> HIDE DEF z
  <2>3. RepairAgrees(z) /\ ~z.mask /\ ~z.bak.del_set
    BY <1>0, <1>10, <2>2 DEF Sending, EraseAgrees, RepairAgrees
  <2>4. [z EXCEPT !.sm = Zeroed] \in Sound /\ Alike(z, [z EXCEPT !.sm = Zeroed])
    BY <2>2, <2>3, ConstantsTyped, ZeroedIsSound
  <2>5. Alike(r, z)
    BY <1>10, <2>2 DEF Alike, ChannelState
  <2>6. QED
    BY <2>1, <2>4, <2>5 DEF Alike
<1>11. QED
  BY <1>5, <1>8, <1>9, <1>10, TimeAssumption

\* A repair tries again, or is given up and everything forgotten.
LEMMA RepairAgainIsSound ==
  ASSUME NEW r \in Sound, ~r.pairFlag, r.bak.repair_itself
  PROVE  RepairAgain(r) \in Sound /\ (Alike(r, RepairAgain(r)) \/ Free(RepairAgain(r)))
<1> DEFINE n == r.bak.repair_cnt + 1
           a == Wifi_Peer_State_Set_Add(r, r.typeAddr)
           again == [a EXCEPT !.bak.repair_cnt = n,
                              !.bak.receiveLoss_cnt = (@ + 1) % LOSS_WRAP]
           failed == [r EXCEPT !.bak.repair_cnt = n,
                               !.bak.receiveLoss_cnt = SETUP_RECEVIELOSS_MAX + 1]
           q == IF n < SETUP_REPAIR_MAX THEN again ELSE failed
           b == [a.bak EXCEPT !.repair_cnt = n, !.receiveLoss_cnt = (@ + 1) % LOSS_WRAP]
           f == [r.bak EXCEPT !.repair_cnt = n, !.receiveLoss_cnt = SETUP_RECEVIELOSS_MAX + 1]
<1>0. r \in Sending /\ r \in ChannelState /\ r.sm \in StateMachine /\ r.bak \in Backup
  BY SendingFacts DEF Sound
<1>1. [Idle EXCEPT !.told = r.told] \in Sound /\ Free([Idle EXCEPT !.told = r.told])
  BY <1>0, IdleIsSound, ConstantsTyped DEF ChannelState, Free, Idle
<1>2. r.typeAddr \in TypeAddr
  BY <1>0 DEF Sending, RepairAgrees, ChannelState
<1>3. a \in Sound /\ Alike(r, a)
  BY <1>2, SetAddIsSound
<1>4. a \in Sending /\ a \in ChannelState /\ a.sm \in StateMachine /\ a.bak \in Backup
  BY <1>3, SendingFacts DEF Sound
<1>5. n \in Nat /\ (a.bak.receiveLoss_cnt + 1) % LOSS_WRAP \in Nat
      /\ SETUP_RECEVIELOSS_MAX + 1 \in Nat
  BY <1>0, <1>4, TimeAssumption DEF Backup
<1>6. again \in Sound /\ Alike(a, again)
  <2> HIDE DEF a, n
  <2>1. again = [a EXCEPT !.sm = a.sm, !.bak = b]
    BY <1>4 DEF ChannelState
  <2>2. /\ b \in Backup /\ b.repair_itself = a.bak.repair_itself
        /\ b.del_set = a.bak.del_set /\ b.typeAddr = a.bak.typeAddr
    BY <1>4, <1>5 DEF Backup
  <2> HIDE DEF b, again
  <2>3. /\ [a EXCEPT !.sm = a.sm, !.bak = b] \in Sound
        /\ Alike(a, [a EXCEPT !.sm = a.sm, !.bak = b])
    BY <1>3, <1>4, <2>2, BookkeepingIsSound
  <2>4. QED
    BY <2>1, <2>3
<1>7. failed \in Sound /\ Alike(r, failed)
  <2> HIDE DEF n
  <2>1. failed = [r EXCEPT !.sm = r.sm, !.bak = f]
    BY <1>0 DEF ChannelState
  <2>2. /\ f \in Backup /\ f.repair_itself = r.bak.repair_itself
        /\ f.del_set = r.bak.del_set /\ f.typeAddr = r.bak.typeAddr
    BY <1>0, <1>5 DEF Backup
  <2> HIDE DEF f, failed
  <2>3. /\ [r EXCEPT !.sm = r.sm, !.bak = f] \in Sound
        /\ Alike(r, [r EXCEPT !.sm = r.sm, !.bak = f])
    BY <1>0, <2>2, BookkeepingIsSound
  <2>4. QED
    BY <2>1, <2>3
<1>8. q \in Sound /\ Alike(r, q)
  <2> HIDE DEF a, again, failed
  <2> QED BY <1>3, <1>6, <1>7 DEF Alike
<1>9. RepairAgain(r) = IF q.bak.receiveLoss_cnt > SETUP_RECEVIELOSS_MAX
                       THEN [Idle EXCEPT !.told = r.told] ELSE q
  BY DEF RepairAgain
<1>10. QED
  <2> HIDE DEF q
  <2> QED BY <1>1, <1>8, <1>9

\* The rotation acts on channels without a running timeout only.
LEMMA RotateOutIsSound ==
  ASSUME NEW r \in Sound, ~r.timeout.active
  PROVE  /\ RotateOut(r) \in Sound
         /\ \/ Alike(r, RotateOut(r))
            \/ Forgotten(r, RotateOut(r))
            \/ ~r.pairFlag /\ r.bak.repair_itself /\ Free(RotateOut(r))
<1>0. r \in Sending /\ r \in ChannelState /\ r.sm \in StateMachine /\ r.bak \in Backup
  BY SendingFacts DEF Sound
<1>1. CASE r.pairFlag /\ r.sm.del
  <2> DEFINE q == [r EXCEPT !.awaiting = NoCommand, !.rx_busy = FALSE, !.sm = Zeroed]
  <2>1. RotateOut(r) = del_peer(q)
    BY <1>1 DEF RotateOut
  <2>2. /\ q \in ChannelState /\ q.sm = Zeroed /\ q.pairFlag = r.pairFlag /\ q.bak = r.bak
        /\ q.typeAddr = r.typeAddr /\ q.status = r.status
    BY <1>0, ZeroedFields, ConstantsTyped DEF ChannelState
  <2> HIDE DEF q
  <2>3. Deletable(q)
    BY <1>0, <2>2, SendingFacts DEF Deletable
  <2>4. r.bak.del_set
    BY <1>0, <1>1 DEF Sending, EraseAgrees
  <2>5. del_peer(q) \in Sound /\ Forgotten(r, del_peer(q))
    BY <1>1, <2>2, <2>3, <2>4, ZeroedDelPeerIsSound DEF LinkEnds, Forgotten
  <2>6. QED
    BY <2>1, <2>5
<1>2. CASE r.pairFlag /\ ~r.sm.del
  <2> DEFINE x == [r.sm EXCEPT !.state = "PAIRED"]
  <2>1. /\ x \in StateMachine /\ x.reply = r.sm.reply /\ x.granted = r.sm.granted
        /\ x.add = r.sm.add /\ x.del = r.sm.del /\ x.response = r.sm.response
        /\ x.pMac = r.sm.pMac /\ x.device = r.sm.device /\ x.cmd = r.sm.cmd
        /\ x.request => r.sm.request
    BY <1>0 DEF StateMachine, State
  <2>2. RotateOut(r) = [r EXCEPT !.sm = x, !.bak = r.bak]
    BY <1>0, <1>2 DEF RotateOut, ChannelState
  <2> HIDE DEF x
  <2>3. QED
    BY <1>0, <2>1, <2>2, BookkeepingIsSound
<1>3. CASE ~r.pairFlag /\ r.sm.reply
  <2>1. RotateOut(r) = [r EXCEPT !.sm = Zeroed]
    BY <1>3 DEF RotateOut
  <2>2. r.awaiting = NoCommand /\ RepairAgrees(r) /\ ~r.mask /\ ~r.bak.del_set
    BY <1>0, <1>3 DEF Sound, Sending, EraseAgrees
  <2>3. QED
    BY <1>0, <1>3, <2>1, <2>2, ZeroedIsSound
<1>4. CASE ~r.pairFlag /\ ~r.sm.reply /\ r.sm.request
  <2> DEFINE x == [r.sm EXCEPT !.request = FALSE]
  <2>1. /\ x \in StateMachine /\ x.reply = r.sm.reply /\ x.granted = r.sm.granted
        /\ x.add = r.sm.add /\ x.del = r.sm.del /\ x.response = r.sm.response
        /\ x.pMac = r.sm.pMac /\ x.device = r.sm.device /\ x.cmd = r.sm.cmd
        /\ x.request => r.sm.request
    BY <1>0 DEF StateMachine
  <2>2. RotateOut(r) = [r EXCEPT !.sm = x, !.bak = r.bak]
    BY <1>0, <1>4 DEF RotateOut, ChannelState
  <2> HIDE DEF x
  <2>3. QED
    BY <1>0, <2>1, <2>2, BookkeepingIsSound
<1>5. CASE ~r.pairFlag /\ ~r.sm.reply /\ ~r.sm.request /\ r.bak.repair_itself
  BY <1>5, RepairAgainIsSound DEF RotateOut
<1>6. CASE ~r.pairFlag /\ ~r.sm.reply /\ ~r.sm.request /\ ~r.bak.repair_itself
  BY <1>6 DEF RotateOut, Alike
<1>7. QED
  BY <1>1, <1>2, <1>3, <1>4, <1>5, <1>6

-----------------------------------------------------------------------------
(* The frames a peer answers with, and what the PLC writes *)

\* A channel becomes paired only from here.
Paired(r, s) ==
    ~r.pairFlag /\ s.pairFlag /\ ~s.bak.del_set /\ s.status = r.status

LEMMA PairingOkIsSound ==
  ASSUME NEW r \in Sound, r.rx_busy, r.awaiting = "AP_PAIRING_REQ", ~r.pairFlag,
         NEW registered \in BOOLEAN
  PROVE  LET s == PairingOk(r, registered) IN
         s \in Sound /\ (Alike(r, s) \/ Paired(r, s))
<1> DEFINE granted == r.sm.granted \/ registered
           x == [r.sm EXCEPT !.reply = TRUE, !.pMac = "peer", !.granted = granted]
           mask == IF registered THEN TRUE ELSE r.mask
           s == PairingOk(r, registered)
<1>0. r \in Sending /\ r \in ChannelState /\ r.sm \in StateMachine
  BY SendingFacts DEF Sound
<1>1. /\ x \in StateMachine /\ x.reply /\ x.granted = granted /\ x.add = r.sm.add
      /\ x.del = r.sm.del /\ x.response = r.sm.response /\ x.pMac = "peer"
      /\ x.device = r.sm.device /\ x.cmd = r.sm.cmd /\ (x.request => r.sm.request)
  BY <1>0 DEF StateMachine
<1>2. s = [r EXCEPT !.awaiting = NoCommand, !.sm = x, !.pairFlag = registered, !.mask = mask]
  BY <1>0 DEF PairingOk, ChannelState
<1> HIDE DEF x, s
<1>3. /\ s \in ChannelState /\ s.sm = x /\ s.bak = r.bak /\ s.timeout = r.timeout
      /\ s.pairFlag = registered /\ s.typeAddr = r.typeAddr /\ s.mask = mask
      /\ s.status = r.status /\ s.rx_busy = r.rx_busy /\ s.awaiting = NoCommand
  BY <1>0, <1>1, <1>2, ConstantsTyped DEF ChannelState
<1>4. /\ r.sm.cmd = "AP_PAIRING_REQ" /\ r.typeAddr # NoType /\ r.sm.device = r.typeAddr
      /\ ~r.bak.del_set /\ ~r.sm.del /\ ~r.sm.response /\ ~r.sm.granted
  BY <1>0, ConstantsTyped DEF Sound, Sending, RequestAgrees, DeviceAgrees, EraseAgrees, AnswerAgrees
<1>5. s.mask = s.pairFlag /\ (Alike(r, s) \/ Paired(r, s))
  <2>1. CASE registered = TRUE
    BY <1>3, <1>4, <2>1 DEF Paired
  <2>2. CASE registered = FALSE
    <3>1. r.mask = FALSE /\ r.pairFlag = FALSE
      BY <1>0 DEF Sending, ChannelState
    <3>2. s.mask = FALSE /\ s.pairFlag = FALSE
      BY <1>3, <2>2, <3>1
    <3>3. QED
      BY <1>3, <3>1, <3>2 DEF Alike
  <2>3. QED
    BY <2>1, <2>2
<1>6. EraseAgrees(s) /\ DeviceAgrees(s) /\ RepairAgrees(s)
  BY <1>0, <1>1, <1>3, <1>4 DEF Sending, EraseAgrees, DeviceAgrees, RepairAgrees
<1>7. RequestAgrees(s) /\ AnswerAgrees(s)
  BY <1>0, <1>1, <1>3, <1>4
     DEF Sending, RequestAgrees, AnswerAgrees, Wifi_Request_Response_Pending
<1>8. QED
  BY <1>1, <1>3, <1>5, <1>6, <1>7 DEF Sound, Sending, s

\* Answers that leave the pairing as it is.
LEMMA AnswerReceivedIsSound ==
  ASSUME NEW r \in Sound, NEW x \in StateMachine, NEW status \in BOOLEAN,
         x.add = r.sm.add, x.del = r.sm.del, x.pMac = r.sm.pMac, x.device = r.sm.device,
         x.cmd = r.sm.cmd, x.request => r.sm.request,
         x.reply \/ (x.response /\ x.cmd # "AP_PAIRING_CANCEL"), x.response => r.pairFlag,
         x.granted => x.reply, x.reply /\ r.pairFlag => x.granted,
         status # r.status => r.pairFlag
  PROVE  [r EXCEPT !.awaiting = NoCommand, !.sm = x, !.status = status] \in Sound
<1> DEFINE s == [r EXCEPT !.awaiting = NoCommand, !.sm = x, !.status = status]
<1>0. r \in Sending /\ r \in ChannelState /\ r.sm \in StateMachine
  BY SendingFacts DEF Sound
<1>1. /\ s \in ChannelState /\ s.sm = x /\ s.bak = r.bak /\ s.timeout = r.timeout
      /\ s.pairFlag = r.pairFlag /\ s.typeAddr = r.typeAddr /\ s.mask = r.mask
      /\ s.status = status /\ s.rx_busy = r.rx_busy /\ s.awaiting = NoCommand
  BY <1>0, ConstantsTyped DEF ChannelState
<1> HIDE DEF s
<1>2. EraseAgrees(s) /\ DeviceAgrees(s) /\ RepairAgrees(s)
  BY <1>0, <1>1 DEF Sending, EraseAgrees, DeviceAgrees, RepairAgrees
<1>3. RequestAgrees(s) /\ AnswerAgrees(s)
  BY <1>0, <1>1 DEF Sending, RequestAgrees, AnswerAgrees, Wifi_Request_Response_Pending
<1>4. QED
  BY <1>0, <1>1, <1>2, <1>3 DEF Sound, Sending, s

LEMMA PairingRepeatedIsSound ==
  ASSUME NEW r \in Sound, r.rx_busy, r.awaiting = "AP_PAIRING_REQ", r.pairFlag
  PROVE  PairingRepeated(r) \in Sound /\ Alike(r, PairingRepeated(r))
<1> DEFINE x == [r.sm EXCEPT !.response = TRUE]
<1>0. r \in Sending /\ r \in ChannelState /\ r.sm \in StateMachine
  BY SendingFacts DEF Sound
<1>1. /\ x \in StateMachine /\ x.reply = r.sm.reply /\ x.granted = r.sm.granted
      /\ x.add = r.sm.add /\ x.del = r.sm.del /\ x.response /\ x.pMac = r.sm.pMac
      /\ x.device = r.sm.device /\ x.cmd = r.sm.cmd /\ (x.request => r.sm.request)
  BY <1>0 DEF StateMachine
<1>2. PairingRepeated(r) = [r EXCEPT !.awaiting = NoCommand, !.sm = x, !.status = r.status]
  BY <1>0 DEF PairingRepeated, ChannelState
<1>3. Alike(r, PairingRepeated(r))
  BY <1>0 DEF PairingRepeated, Alike, ChannelState
<1> HIDE DEF x
<1>4. AnswerAgrees(r) /\ r.status \in BOOLEAN /\ r.sm.cmd # "AP_PAIRING_CANCEL"
  BY <1>0, ConstantsTyped DEF Sending, ChannelState, RequestAgrees
<1>5. [r EXCEPT !.awaiting = NoCommand, !.sm = x, !.status = r.status] \in Sound
  BY <1>1, <1>4, AnswerReceivedIsSound DEF AnswerAgrees
<1>6. QED
  BY <1>2, <1>3, <1>5

LEMMA PairingCancelledIsSound ==
  ASSUME NEW r \in Sound
  PROVE  PairingCancelled(r) \in Sound /\ Alike(r, PairingCancelled(r))
<1> DEFINE x == [r.sm EXCEPT !.reply = TRUE, !.granted = TRUE]
<1>0. r \in Sending /\ r \in ChannelState /\ r.sm \in StateMachine
  BY SendingFacts DEF Sound
<1>1. /\ x \in StateMachine /\ x.reply /\ x.granted
      /\ x.add = r.sm.add /\ x.del = r.sm.del /\ x.response = r.sm.response
      /\ x.pMac = r.sm.pMac /\ x.device = r.sm.device /\ x.cmd = r.sm.cmd
      /\ x.request => r.sm.request
  BY <1>0 DEF StateMachine
<1>2. PairingCancelled(r) = [r EXCEPT !.awaiting = NoCommand, !.sm = x, !.status = r.status]
  BY <1>0 DEF PairingCancelled, ChannelState
<1>3. Alike(r, PairingCancelled(r))
  BY <1>0 DEF PairingCancelled, Alike, ChannelState
<1> HIDE DEF x
<1>4. AnswerAgrees(r) /\ r.status \in BOOLEAN
  BY <1>0 DEF Sending, ChannelState
<1>5. [r EXCEPT !.awaiting = NoCommand, !.sm = x, !.status = r.status] \in Sound
  BY <1>1, <1>4, AnswerReceivedIsSound DEF AnswerAgrees
<1>6. QED
  BY <1>2, <1>3, <1>5

\* Data shows a paired channel to the PLC.
Shown(r, s) == r.pairFlag /\ s.pairFlag /\ s.bak.del_set = r.bak.del_set /\ s.status

LEMMA DataReceivedIsSound ==
  ASSUME NEW r \in Sound, r.rx_busy, r.awaiting \in DataCommand, r.pairFlag
  PROVE  DataReceived(r) \in Sound /\ Shown(r, DataReceived(r))
<1> DEFINE x == [r.sm EXCEPT !.response = TRUE]
<1>0. r \in Sending /\ r \in ChannelState /\ r.sm \in StateMachine
  BY SendingFacts DEF Sound
<1>1. /\ x \in StateMachine /\ x.reply = r.sm.reply /\ x.granted = r.sm.granted
      /\ x.add = r.sm.add /\ x.del = r.sm.del /\ x.response /\ x.pMac = r.sm.pMac
      /\ x.device = r.sm.device /\ x.cmd = r.sm.cmd /\ (x.request => r.sm.request)
  BY <1>0 DEF StateMachine
<1>2. DataReceived(r) = [r EXCEPT !.awaiting = NoCommand, !.sm = x, !.status = TRUE]
  BY <1>0 DEF DataReceived, ChannelState
<1>3. Shown(r, DataReceived(r))
  BY <1>0 DEF DataReceived, Shown, ChannelState
<1> HIDE DEF x
<1>4. AnswerAgrees(r) /\ r.status \in BOOLEAN /\ r.sm.cmd # "AP_PAIRING_CANCEL"
  BY <1>0 DEF Sending, ChannelState, RequestAgrees, DataCommand, NoCommand
<1>5. [r EXCEPT !.awaiting = NoCommand, !.sm = x, !.status = TRUE] \in Sound
  BY <1>1, <1>4, AnswerReceivedIsSound DEF AnswerAgrees
<1>6. QED
  BY <1>2, <1>3, <1>5

\* The PLC ends a pairing.
Erased(r, s) ==
    /\ r.pairFlag /\ s.pairFlag /\ s.bak.del_set /\ s.status = r.status

LEMMA ErasedIsSound ==
  ASSUME NEW r \in Sound, r.pairFlag
  PROVE  LET s == Wifi_Peer_State_Set_Del(
                    [r EXCEPT !.bak = [NoBackup EXCEPT !.del_set = TRUE], !.told = FALSE]) IN
         s \in Sound /\ Erased(r, s)
<1> DEFINE b == [NoBackup EXCEPT !.del_set = TRUE]
           p == [r EXCEPT !.bak = b, !.told = FALSE]
           s == Wifi_Peer_State_Set_Del(p)
           x == [r.sm EXCEPT !.cmd = "AP_PAIRING_CANCEL", !.request = TRUE, !.del = TRUE,
                             !.pMac = "peer"]
<1>0. r \in Sending /\ r \in ChannelState /\ r.sm \in StateMachine
  BY SendingFacts DEF Sound
<1>1. b \in Backup /\ b.del_set /\ ~b.repair_itself
  BY ConstantsTyped DEF Backup
<1> HIDE DEF b
<1>2. /\ p \in ChannelState /\ p.sm = r.sm /\ p.bak = b /\ p.pairFlag = r.pairFlag
      /\ p.typeAddr = r.typeAddr /\ p.mask = r.mask /\ p.status = r.status
      /\ p.rx_busy = r.rx_busy
  BY <1>0, <1>1 DEF ChannelState
<1> HIDE DEF p
<1>3. /\ s \in ChannelState /\ s.sm = x /\ s.timeout = NoTimeout /\ s.awaiting = NoCommand
      /\ s.bak = b /\ s.pairFlag = r.pairFlag /\ s.typeAddr = r.typeAddr
      /\ s.mask = r.mask /\ s.status = r.status
  BY <1>2, SetDelFields
<1>4. /\ x.reply = r.sm.reply /\ x.granted = r.sm.granted /\ x.response = r.sm.response
      /\ x.device = r.sm.device /\ x.del /\ x.pMac = "peer" /\ x.cmd = "AP_PAIRING_CANCEL"
  BY <1>0 DEF StateMachine
<1> HIDE DEF s, x
<1>5. EraseAgrees(s) /\ DeviceAgrees(s) /\ RepairAgrees(s)
  BY <1>0, <1>1, <1>3, <1>4 DEF Sending, EraseAgrees, DeviceAgrees, RepairAgrees
<1>6. RequestAgrees(s) /\ AnswerAgrees(s)
  BY <1>0, <1>3, <1>4, ConstantsTyped DEF Sending, RequestAgrees, AnswerAgrees
<1>7. Erased(r, s)
  BY <1>1, <1>3 DEF Erased
<1>8. QED
  BY <1>0, <1>3, <1>5, <1>6, <1>7 DEF Sound, Sending, s, p, b

\* Only the count of a timeout moves with time.
LEMMA AgedIsSound ==
  ASSUME NEW r \in Sound
  PROVE  /\ Aged(r) \in Sound /\ Alike(r, Aged(r))
         /\ Aged(r).timeout.active = r.timeout.active
<1> DEFINE t == [r.timeout EXCEPT !.count = @ + 1]
           s == [r EXCEPT !.timeout = t]
<1>0. r \in Sending /\ r \in ChannelState /\ r.timeout \in Timeout
  BY SendingFacts DEF Sound, ChannelState
<1>1. t \in Timeout /\ t.active = r.timeout.active
  BY <1>0 DEF Timeout
<1>2. Aged(r) = s \/ Aged(r) = r
  BY <1>0 DEF Aged, ChannelState
<1> HIDE DEF t
<1>3. /\ s \in ChannelState /\ s.sm = r.sm /\ s.bak = r.bak /\ s.timeout = t
      /\ s.pairFlag = r.pairFlag /\ s.typeAddr = r.typeAddr /\ s.mask = r.mask
      /\ s.status = r.status /\ s.rx_busy = r.rx_busy /\ s.awaiting = r.awaiting
  BY <1>0, <1>1 DEF ChannelState
<1> HIDE DEF s
<1>4. EraseAgrees(s) /\ DeviceAgrees(s) /\ RepairAgrees(s)
  BY <1>0, <1>3 DEF Sending, EraseAgrees, DeviceAgrees, RepairAgrees
<1>5. RequestAgrees(s) /\ AnswerAgrees(s)
  BY <1>0, <1>1, <1>3 DEF Sending, RequestAgrees, AnswerAgrees, Wifi_Request_Response_Pending
<1>6. s \in Sound
  BY <1>0, <1>3, <1>4, <1>5 DEF Sound, Sending
<1>7. Alike(r, s) /\ Alike(r, r)
  BY <1>3 DEF Alike
<1>8. QED
  BY <1>1, <1>2, <1>3, <1>6, <1>7

-----------------------------------------------------------------------------
(* The phases of a call of Wifi_Handle() *)

Ticks == 0..SET_TIME_PAIRING \cup 0..SET_TIME_PAIRD

\* The view of a call, with channels of one kind.
View(Records) ==
    {h \in [ch : [Channel -> Records], queue : Seq(Channel), cnt_loop : Ticks,
            setTime : {SET_TIME_PAIRING, SET_TIME_PAIRD}, channel : Channel,
            save : BOOLEAN, expired : SUBSET Channel] :
        Len(h.queue) <= Capacity}

Call == View(Sound)

AllAlike(f, g) == \A c \in Channel : Alike(f[c], g[c])

\* A view whose channel, queue and counters have moved on.
Advanced(h, s, q, n, t, b) ==
    [h EXCEPT !.ch[h.channel] = s, !.queue = q, !.cnt_loop = n, !.setTime = t, !.save = b]

\* A phase that leaves the links, the channel it serves and what expired.
GoesOn(h, z) ==
    /\ z \in Call /\ AllAlike(h.ch, z.ch)
    /\ z.channel = h.channel /\ z.expired = h.expired

LEMMA AdvancedIsCall ==
  ASSUME NEW h \in Call, NEW s \in Sound, Alike(h.ch[h.channel], s),
         NEW q, q = h.queue \/ (HasRoom(h) /\ q = Append(h.queue, h.channel)),
         NEW n \in Ticks, NEW t \in {SET_TIME_PAIRING, SET_TIME_PAIRD}, NEW b \in BOOLEAN
  PROVE  GoesOn(h, Advanced(h, s, q, n, t, b))
<1> DEFINE z == Advanced(h, s, q, n, t, b)
<1>1. q \in Seq(Channel) /\ Len(q) <= Capacity
  <2>1. h.queue \in Seq(Channel) /\ h.channel \in Channel /\ Len(h.queue) <= Capacity
    BY DEF Call, View
  <2>2. CASE q = h.queue
    BY <2>1, <2>2
  <2>3. CASE HasRoom(h) /\ q = Append(h.queue, h.channel)
    <3>1. Len(q) = Len(h.queue) + 1 /\ q \in Seq(Channel)
      BY <2>1, <2>3
    <3>2. Len(h.queue) \in Nat
      BY <2>1
    <3>3. QED
      BY <2>3, <3>1, <3>2, LinkAssumption DEF HasRoom
  <2>4. QED
    BY <2>2, <2>3
<1>2. /\ z.ch = [h.ch EXCEPT ![h.channel] = s] /\ z.queue = q /\ z.channel = h.channel
      /\ z.expired = h.expired
  BY DEF Call, View, Advanced
<1>3. [h.ch EXCEPT ![h.channel] = s] \in [Channel -> Sound]
  BY DEF Call, View
<1>4. z \in Call
  BY <1>1, <1>3 DEF Call, View, Advanced
<1>5. AllAlike(h.ch, z.ch)
  BY <1>2 DEF Call, View, AllAlike, Alike
<1>6. QED
  BY <1>2, <1>4, <1>5 DEF GoesOn

\* State machines that differ in bookkeeping only.
Same(x, y) ==
    /\ x \in StateMachine
    /\ x.reply = y.reply /\ x.granted = y.granted /\ x.add = y.add /\ x.del = y.del
    /\ x.response = y.response /\ x.pMac = y.pMac /\ x.device = y.device /\ x.cmd = y.cmd
    /\ x.request => y.request

LEMMA SameIsSound ==
  ASSUME NEW r \in Sound, NEW x, Same(x, r.sm)
  PROVE  [r EXCEPT !.sm = x] \in Sound /\ Alike(r, [r EXCEPT !.sm = x])
<1>1. r \in Sending /\ r \in ChannelState /\ r.bak \in Backup
  BY SendingFacts DEF Sound
<1>2. [r EXCEPT !.sm = x] = [r EXCEPT !.sm = x, !.bak = r.bak]
  BY <1>1 DEF ChannelState
<1> DEFINE s == [r EXCEPT !.sm = x, !.bak = r.bak]
<1>3. s \in Sound /\ Alike(r, s)
  BY <1>1, BookkeepingIsSound DEF Same
<1> HIDE DEF s
<1>4. QED
  BY <1>2, <1>3 DEF s

LEMMA CallFacts ==
  ASSUME NEW h \in Call
  PROVE  /\ h.channel \in Channel /\ h.ch[h.channel] \in Sound
         /\ h.ch[h.channel] \in ChannelState /\ h.ch[h.channel].sm \in StateMachine
         /\ h.cnt_loop \in Ticks /\ 0 \in Ticks
         /\ h.setTime \in {SET_TIME_PAIRING, SET_TIME_PAIRD} /\ h.save \in BOOLEAN
<1>1. h.channel \in Channel /\ h.ch[h.channel] \in Sound
  BY DEF Call, View
<1>2. 0 \in Ticks
  BY TimeAssumption DEF Ticks
<1>3. QED
  BY <1>1, <1>2, SendingFacts DEF Call, View, Sound

\* The channel of the call keeps all but its bookkeeping.
LEMMA AdvancedSameIsCall ==
  ASSUME NEW h \in Call, NEW x, Same(x, h.ch[h.channel].sm),
         NEW q, q = h.queue \/ (HasRoom(h) /\ q = Append(h.queue, h.channel)),
         NEW n \in Ticks, NEW t \in {SET_TIME_PAIRING, SET_TIME_PAIRD}, NEW b \in BOOLEAN
  PROVE  GoesOn(h, Advanced(h, [h.ch[h.channel] EXCEPT !.sm = x], q, n, t, b))
<1> DEFINE r == h.ch[h.channel]
           s == [r EXCEPT !.sm = x]
<1>1. r \in Sound
  BY CallFacts
<1> HIDE DEF r
<1>2. s \in Sound /\ Alike(r, s)
  BY <1>1, SameIsSound DEF r
<1> HIDE DEF s
<1>3. GoesOn(h, Advanced(h, s, q, n, t, b))
  BY <1>2, AdvancedIsCall DEF r
<1>4. QED
  BY <1>3 DEF s, r

LEMMA ReadyStepIsCall ==
  ASSUME NEW h \in Call
  PROVE  GoesOn(h, ReadyStep(h))
<1> DEFINE c == h.channel
           r == h.ch[c]
           x == [r.sm EXCEPT !.timeout = 0]
           y == [x EXCEPT !.state = "PAIRING_ADD"]
           q == [h EXCEPT !.ch[c].sm.timeout = 0]
<1>0. /\ c \in Channel /\ r \in Sound /\ r \in ChannelState /\ r.sm \in StateMachine
      /\ h.cnt_loop \in Ticks /\ 0 \in Ticks
      /\ h.setTime \in {SET_TIME_PAIRING, SET_TIME_PAIRD} /\ h.save \in BOOLEAN
  BY CallFacts
<1>1. Same(x, r.sm)
  BY <1>0 DEF Same, StateMachine
<1>2. Same(y, r.sm)
  <2> HIDE DEF x
  <2> QED BY <1>0, <1>1 DEF Same, StateMachine, State
<1>3. q = Advanced(h, [r EXCEPT !.sm = x], h.queue, h.cnt_loop, h.setTime, h.save)
  BY <1>0 DEF Call, View, Advanced, ChannelState
<1>4. Enqueue(q) = Advanced(h, [r EXCEPT !.sm = x], Append(h.queue, c), h.cnt_loop, h.setTime, h.save)
  BY <1>0, <1>3 DEF Call, View, Advanced, Enqueue
<1>5. [Enqueue(q) EXCEPT !.ch[c].sm.state = "PAIRING_ADD", !.cnt_loop = 0, !.setTime = SET_TIME_PAIRING]
        = Advanced(h, [r EXCEPT !.sm = y], Append(h.queue, c), 0, SET_TIME_PAIRING, h.save)
  <2> DEFINE e == Enqueue(q)
  <2>1. e = Advanced(h, [r EXCEPT !.sm = x], Append(h.queue, c), h.cnt_loop, h.setTime, h.save)
    BY <1>4
  <2> HIDE DEF e
  <2>2. /\ e.ch = [h.ch EXCEPT ![c] = [r EXCEPT !.sm = x]] /\ e.ch[c] = [r EXCEPT !.sm = x]
        /\ e = [h EXCEPT !.ch = e.ch, !.queue = Append(h.queue, c)]
    BY <1>0, <2>1 DEF Call, View, Advanced
  <2>3. e.ch[c].sm = x
    BY <1>0, <2>2 DEF ChannelState
  <2>4. [e EXCEPT !.ch[c].sm.state = "PAIRING_ADD"].ch = [h.ch EXCEPT ![c] = [r EXCEPT !.sm = y]]
    <3>1. [e.ch[c] EXCEPT !.sm = y] = [r EXCEPT !.sm = y]
      BY <1>0, <2>2 DEF ChannelState
    <3>2. [e EXCEPT !.ch[c].sm.state = "PAIRING_ADD"].ch = [e.ch EXCEPT ![c] = [e.ch[c] EXCEPT !.sm = y]]
      BY <2>2, <2>3 DEF Call, View
    <3>3. QED
      BY <1>0, <2>2, <3>1, <3>2 DEF Call, View
  <2>5. QED
    BY <1>0, <2>2, <2>4 DEF Call, View, Advanced, e
<1> HIDE DEF x, y, q
<1>6. CASE ~(r.sm.request /\ HasRoom(h))
  <2>1. ReadyStep(h) = q
    BY <1>6 DEF ReadyStep, q
  <2>2. QED
    BY <1>0, <1>1, <1>3, <2>1, AdvancedSameIsCall
<1>7. CASE r.sm.request /\ HasRoom(h) /\ r.sm.add
  <2>1. ReadyStep(h) = Advanced(h, [r EXCEPT !.sm = y], Append(h.queue, c), 0, SET_TIME_PAIRING, h.save)
    BY <1>5, <1>7 DEF ReadyStep, q
  <2>2. QED
    BY <1>0, <1>2, <1>7, <2>1, AdvancedSameIsCall
<1>8. CASE r.sm.request /\ HasRoom(h) /\ ~r.sm.add
  <2>1. ReadyStep(h) = Enqueue(q)
    BY <1>8 DEF ReadyStep, q
  <2>2. QED
    BY <1>0, <1>1, <1>4, <1>8, <2>1, AdvancedSameIsCall
<1>9. QED
  BY <1>6, <1>7, <1>8

LEMMA GoesOnAgain ==
  ASSUME NEW h, NEW q, NEW z, GoesOn(h, q), GoesOn(q, z)
  PROVE  GoesOn(h, z)
  BY DEF GoesOn, AllAlike, Alike

\* A request of a paired channel.
LEMMA PairedRequestStepIsCall ==
  ASSUME NEW h \in Call, h.ch[h.channel].sm.request
  PROVE  GoesOn(h, PairedRequestStep(h))
<1> DEFINE c == h.channel
           r == h.ch[c]
           q == [h EXCEPT !.setTime = SET_TIME_PAIRING]
           x == [r.sm EXCEPT !.response = FALSE, !.state = "PAIRING_DEL"]
           y == [r.sm EXCEPT !.state = "WAIT"]
           e == Enqueue(q)
<1>0. /\ c \in Channel /\ r \in Sound /\ r \in ChannelState /\ r.sm \in StateMachine
      /\ h.cnt_loop \in Ticks /\ 0 \in Ticks /\ h.save \in BOOLEAN
  BY CallFacts
<1>1. q = Advanced(h, r, h.queue, h.cnt_loop, SET_TIME_PAIRING, h.save)
  BY <1>0 DEF Call, View, Advanced
<1>2. /\ q.queue = h.queue /\ HasRoom(q) = HasRoom(h)
      /\ e = Advanced(h, r, Append(h.queue, c), h.cnt_loop, SET_TIME_PAIRING, h.save)
      /\ e.ch = h.ch
  BY <1>0, <1>1 DEF Call, View, Advanced, Enqueue, HasRoom
<1>3. Alike(r, r)
  BY DEF Alike
<1> HIDE DEF q, e
<1>4. CASE ~HasRoom(h)
  <2>1. PairedRequestStep(h) = q
    BY <1>2, <1>4 DEF PairedRequestStep, q
  <2>2. QED
    BY <1>0, <1>1, <1>3, <2>1, AdvancedIsCall
<1>5. CASE HasRoom(h) /\ r.sm.del
  <2> DEFINE s == [r EXCEPT !.sm = x]
             z == [e EXCEPT !.ch[c].sm.response = FALSE, !.ch[c].sm.state = "PAIRING_DEL",
                            !.cnt_loop = 0]
  <2>1. PairedRequestStep(h) = z
    BY <1>2, <1>5 DEF PairedRequestStep, q, e
  <2>2. s \in Sound /\ Alike(r, s)
    <3>1. /\ x \in StateMachine /\ x.reply = r.sm.reply /\ x.granted = r.sm.granted
          /\ x.add = r.sm.add /\ x.del = r.sm.del /\ ~x.response
          /\ x.pMac = r.sm.pMac /\ x.device = r.sm.device /\ x.cmd = r.sm.cmd
          /\ x.request = r.sm.request
      BY <1>0 DEF StateMachine, State
    <3>2. /\ s \in ChannelState /\ s.sm = x /\ s.bak = r.bak /\ s.timeout = r.timeout
          /\ s.pairFlag = r.pairFlag /\ s.typeAddr = r.typeAddr /\ s.mask = r.mask
          /\ s.status = r.status /\ s.rx_busy = r.rx_busy /\ s.awaiting = r.awaiting
      <4> HIDE DEF x
      <4> QED BY <1>0, <3>1 DEF ChannelState
    <3> HIDE DEF x, s, r
    <3>3. r \in Sending /\ r.sm.cmd = "AP_PAIRING_CANCEL"
      BY <1>0, <1>5 DEF Sound, Sending, EraseAgrees, r
    <3>4. EraseAgrees(s) /\ DeviceAgrees(s) /\ RepairAgrees(s)
      BY <3>1, <3>2, <3>3 DEF Sending, EraseAgrees, DeviceAgrees, RepairAgrees
    <3>5. RequestAgrees(s) /\ AnswerAgrees(s)
      BY <3>1, <3>2, <3>3
         DEF Sending, RequestAgrees, AnswerAgrees, Wifi_Request_Response_Pending
    <3>6. Alike(r, s)
      BY <3>2 DEF Alike
    <3>7. QED
      BY <1>0, <3>1, <3>2, <3>3, <3>4, <3>5, <3>6 DEF Sound, Sending
  <2>3. z = Advanced(h, s, Append(h.queue, c), 0, SET_TIME_PAIRING, h.save)
    <3> DEFINE w == [r.sm EXCEPT !.response = FALSE]
               f == [e EXCEPT !.ch[c].sm.response = FALSE]
    <3>1. z = [f EXCEPT !.ch[c].sm.state = "PAIRING_DEL", !.cnt_loop = 0]
      OBVIOUS
    <3>2. f = Advanced(h, [r EXCEPT !.sm = w], Append(h.queue, c), h.cnt_loop,
                       SET_TIME_PAIRING, h.save)
      BY <1>0, <1>2 DEF Call, View, Advanced, ChannelState
    <3> HIDE DEF f
    <3>3. /\ f.ch = [h.ch EXCEPT ![c] = [r EXCEPT !.sm = w]] /\ f.ch[c] = [r EXCEPT !.sm = w]
          /\ f = [h EXCEPT !.ch = f.ch, !.queue = Append(h.queue, c), !.setTime = SET_TIME_PAIRING]
      BY <1>0, <3>2 DEF Call, View, Advanced
    <3>4. [f.ch[c] EXCEPT !.sm.state = "PAIRING_DEL"] = s
      BY <1>0, <3>3 DEF ChannelState
    <3>5. z = [f EXCEPT !.ch = [f.ch EXCEPT ![c] = s], !.cnt_loop = 0]
      BY <3>1, <3>4
    <3>6. [f.ch EXCEPT ![c] = s] = [h.ch EXCEPT ![c] = s]
      BY <1>0, <3>3 DEF Call, View
    <3> HIDE DEF s, z, w
    <3>7. QED
      BY <1>0, <3>3, <3>5, <3>6 DEF Call, View, Advanced
  <2> HIDE DEF s, z
  <2>4. QED
    BY <1>0, <1>5, <2>1, <2>2, <2>3, AdvancedIsCall
<1>6. CASE HasRoom(h) /\ ~r.sm.del /\ r.pairFlag
  <2> DEFINE z == [e EXCEPT !.ch[c].sm.state = "WAIT"]
  <2>1. PairedRequestStep(h) = z
    BY <1>2, <1>6 DEF PairedRequestStep, q, e
  <2>2. Same(y, r.sm)
    BY <1>0 DEF Same, StateMachine, State
  <2>3. z = Advanced(h, [r EXCEPT !.sm = y], Append(h.queue, c), h.cnt_loop,
                       SET_TIME_PAIRING, h.save)
    BY <1>0, <1>2 DEF Call, View, Advanced, ChannelState
  <2> HIDE DEF y, z
  <2>4. QED
    BY <1>0, <1>6, <2>1, <2>2, <2>3, AdvancedSameIsCall
<1>7. CASE HasRoom(h) /\ ~r.sm.del /\ ~r.pairFlag
  <2> DEFINE p == [r EXCEPT !.sm = Zeroed]
             s == del_peer(p)
             z == [e EXCEPT !.ch[c] = s]
  <2>1. PairedRequestStep(h) = z
    BY <1>2, <1>7 DEF PairedRequestStep, q, e
  <2>2. p.sm = Zeroed /\ Deletable(p) /\ p.pairFlag = r.pairFlag /\ Alike(r, p)
    <3>1. Deletable(r)
      BY <1>0, SendingFacts DEF Sound
    <3>2. QED
      BY <1>0, <3>1, ZeroedFields DEF Deletable, ChannelState, Alike
  <2> HIDE DEF p
  <2>3. s \in Sound /\ LinkEnds(p, s)
    BY <2>2, ZeroedDelPeerIsSound
  <2> HIDE DEF s
  <2>4. Alike(r, s)
    BY <1>7, <2>2, <2>3 DEF LinkEnds, Alike
  <2>5. z = Advanced(h, s, Append(h.queue, c), h.cnt_loop, SET_TIME_PAIRING, h.save)
    BY <1>0, <1>2 DEF Call, View, Advanced
  <2> HIDE DEF z
  <2>6. QED
    BY <1>0, <1>7, <2>1, <2>3, <2>4, <2>5, AdvancedIsCall
<1>8. QED
  BY <1>4, <1>5, <1>6, <1>7

LEMMA GoesOnAtOnce ==
  ASSUME NEW h \in Call
  PROVE  GoesOn(h, h)
  BY DEF GoesOn, AllAlike, Alike

\* A phase that only writes a state, or only a count, into the channel.
LEMMA MachineStepIsCall ==
  ASSUME NEW h \in Call, NEW state \in State, NEW n \in Nat
  PROVE  /\ GoesOn(h, [h EXCEPT !.ch[h.channel].sm.state = state])
         /\ GoesOn(h, [h EXCEPT !.ch[h.channel].sm.timeout = n])
         /\ GoesOn(h, [h EXCEPT !.ch[h.channel].sm.timeout = n,
                                !.ch[h.channel].sm.state = state])
<1> DEFINE c == h.channel
           r == h.ch[c]
           x == [r.sm EXCEPT !.state = state]
           y == [r.sm EXCEPT !.timeout = n]
           hx == [h EXCEPT !.ch[c].sm.state = state]
           hy == [h EXCEPT !.ch[c].sm.timeout = n]
<1>1. /\ c \in Channel /\ r \in Sound /\ r \in ChannelState /\ r.sm \in StateMachine
      /\ h.cnt_loop \in Ticks /\ h.setTime \in {SET_TIME_PAIRING, SET_TIME_PAIRD}
      /\ h.save \in BOOLEAN
  BY CallFacts
<1>2. Same(x, r.sm) /\ Same(y, r.sm)
  BY <1>1 DEF Same, StateMachine
<1>3. hx = Advanced(h, [r EXCEPT !.sm = x], h.queue, h.cnt_loop, h.setTime, h.save)
  BY <1>1 DEF Call, View, Advanced, ChannelState
<1>4. hy = Advanced(h, [r EXCEPT !.sm = y], h.queue, h.cnt_loop, h.setTime, h.save)
  BY <1>1 DEF Call, View, Advanced, ChannelState
<1> HIDE DEF x, y, hx, hy
<1>5. GoesOn(h, hx) /\ GoesOn(h, hy)
  BY <1>1, <1>2, <1>3, <1>4, AdvancedSameIsCall
<1> DEFINE hz == [hy EXCEPT !.ch[c].sm.state = state]
<1>6. GoesOn(h, hz)
  <2>1. hy \in Call /\ hy.channel = c
    BY <1>5 DEF GoesOn
  <2> DEFINE d == hy.channel
             p == hy.ch[d]
             v == [p.sm EXCEPT !.state = state]
             hv == [hy EXCEPT !.ch[d].sm.state = state]
  <2>2. /\ d \in Channel /\ p \in Sound /\ p \in ChannelState /\ p.sm \in StateMachine
        /\ hy.cnt_loop \in Ticks /\ hy.setTime \in {SET_TIME_PAIRING, SET_TIME_PAIRD}
        /\ hy.save \in BOOLEAN
    BY <2>1, CallFacts
  <2>3. Same(v, p.sm)
    BY <2>2 DEF Same, StateMachine
  <2>4. hv = Advanced(hy, [p EXCEPT !.sm = v], hy.queue, hy.cnt_loop, hy.setTime, hy.save)
    BY <2>1, <2>2 DEF Call, View, Advanced, ChannelState
  <2>5. hv = hz
    BY <2>1
  <2> HIDE DEF v, hv
  <2>6. GoesOn(hy, hv)
    BY <2>1, <2>2, <2>3, <2>4, AdvancedSameIsCall
  <2> HIDE DEF hz
  <2>7. QED
    BY <1>5, <2>5, <2>6, GoesOnAgain
<1>7. QED
  BY <1>5, <1>6 DEF hx, hy

\* The data request of a paired channel.
LEMMA PairedDataStepIsCall ==
  ASSUME NEW h \in Call, ~h.ch[h.channel].sm.request
  PROVE  GoesOn(h, PairedDataStep(h))
<1> DEFINE c == h.channel
           r == h.ch[c]
           cmd == DataWanted(r)
           x == [r.sm EXCEPT !.update_serial = @ /\ cmd # "AP_SERIAL_SET",
                             !.request_serial = @ /\ cmd # "AP_SERIAL_GET",
                             !.update_io = @ /\ cmd # "AP_IO_SET"]
           f == [r EXCEPT !.sm = x]
           s == Wifi_Peer_Data_Set(f, cmd)
           n == IF cmd = "AP_IO_GET" THEN h.cnt_loop ELSE 0
           e == [Enqueue(h) EXCEPT !.ch[c] = Wifi_Peer_Data_Set(FlagTaken(@, cmd), cmd),
                                   !.cnt_loop = IF cmd = "AP_IO_GET" THEN @ ELSE 0,
                                   !.setTime = SET_TIME_PAIRD]
           q == IF HasRoom(h) THEN e ELSE h
<1>0. /\ c \in Channel /\ r \in Sound /\ r \in ChannelState /\ r.sm \in StateMachine
      /\ h.cnt_loop \in Ticks /\ 0 \in Ticks /\ h.save \in BOOLEAN
  BY CallFacts
<1>1. cmd \in DataCommand
  BY DEF DataWanted, DataCommand
<1> HIDE DEF cmd
<1>2. Same(x, r.sm) /\ x.request = r.sm.request
  <2> DEFINE us == r.sm.update_serial /\ cmd # "AP_SERIAL_SET"
             rs == r.sm.request_serial /\ cmd # "AP_SERIAL_GET"
             ui == r.sm.update_io /\ cmd # "AP_IO_SET"
  <2>1. x = [r.sm EXCEPT !.update_serial = us, !.request_serial = rs, !.update_io = ui]
    BY <1>0 DEF StateMachine
  <2>2. us \in BOOLEAN /\ rs \in BOOLEAN /\ ui \in BOOLEAN
    OBVIOUS
  <2> HIDE DEF x, us, rs, ui
  <2>3. QED
    BY <1>0, <2>1, <2>2 DEF Same, StateMachine
<1>3. f = FlagTaken(r, cmd)
  BY <1>0 DEF FlagTaken, ChannelState
<1>4. f.sm = x
  BY <1>0 DEF ChannelState
<1> HIDE DEF x
<1>5. f \in Sound /\ Alike(r, f)
  BY <1>0, <1>2, SameIsSound
<1> HIDE DEF f
<1>6. s \in Sound /\ Alike(f, s)
  BY <1>1, <1>2, <1>4, <1>5, DataSetIsSound
<1>7. Enqueue(h).ch[c] = r
  BY <1>0 DEF Call, View, Enqueue
<1>8. e = [Enqueue(h) EXCEPT !.ch[c] = s, !.cnt_loop = n, !.setTime = SET_TIME_PAIRD]
  BY <1>0, <1>3, <1>7 DEF Call, View, Enqueue
<1> HIDE DEF s
<1>9. e = Advanced(h, s, Append(h.queue, c), n, SET_TIME_PAIRD, h.save)
  BY <1>0, <1>8 DEF Call, View, Advanced, Enqueue
<1>10. PairedDataStep(h) = [q EXCEPT !.ch[c].sm.state = "SEND"]
  BY DEF PairedDataStep, cmd
<1>11. n \in Ticks
  BY <1>0
<1> HIDE DEF e, n
<1>12. GoesOn(h, q)
  <2>1. Alike(r, s)
    BY <1>5, <1>6 DEF Alike
  <2>2. CASE HasRoom(h)
    BY <1>0, <1>6, <1>9, <1>11, <2>1, <2>2, AdvancedIsCall
  <2>3. CASE ~HasRoom(h)
    BY <2>3, GoesOnAtOnce
  <2>4. QED
    BY <2>2, <2>3
<1>13. q \in Call /\ q.channel = c
  BY <1>12 DEF GoesOn
<1> HIDE DEF q
<1>14. GoesOn(q, [q EXCEPT !.ch[q.channel].sm.state = "SEND"])
  BY <1>13, MachineStepIsCall DEF State
<1>15. QED
  BY <1>10, <1>12, <1>13, <1>14, GoesOnAgain

\* An answer to take care of.
LEMMA SaveNotedIsCall ==
  ASSUME NEW h \in Call
  PROVE  GoesOn(h, [h EXCEPT !.save = TRUE])
  BY DEF GoesOn, AllAlike, Alike, Call, View

LEMMA PairedStepIsCall ==
  ASSUME NEW h \in Call
  PROVE  GoesOn(h, PairedStep(h))
<1> DEFINE c == h.channel
           q == [h EXCEPT !.ch[c].sm.timeout = 0]
<1>1. GoesOn(h, q)
  BY MachineStepIsCall DEF State
<1>2. q \in Call /\ q.channel = c
  BY <1>1 DEF GoesOn
<1>3. PairedStep(h) = CASE q.ch[c].sm.request -> PairedRequestStep(q)
                        [] ~q.ch[c].sm.request /\ q.ch[c].sm.response -> [q EXCEPT !.save = TRUE]
                        [] OTHER -> PairedDataStep(q)
  BY DEF PairedStep
<1> HIDE DEF q
<1>4. CASE q.ch[c].sm.request
  <2>1. PairedStep(h) = PairedRequestStep(q)
    BY <1>3, <1>4
  <2>2. QED
    BY <1>1, <1>2, <1>4, <2>1, PairedRequestStepIsCall, GoesOnAgain
<1>5. CASE ~q.ch[c].sm.request /\ q.ch[c].sm.response
  <2>1. PairedStep(h) = [q EXCEPT !.save = TRUE]
    BY <1>3, <1>5
  <2>2. QED
    BY <1>1, <1>2, <2>1, SaveNotedIsCall, GoesOnAgain
<1>6. CASE ~q.ch[c].sm.request /\ ~q.ch[c].sm.response
  <2>1. PairedStep(h) = PairedDataStep(q)
    BY <1>3, <1>6
  <2>2. QED
    BY <1>1, <1>2, <1>6, <2>1, PairedDataStepIsCall, GoesOnAgain
<1>7. QED
  BY <1>4, <1>5, <1>6

LEMMA PairingDelStepIsCall ==
  ASSUME NEW h \in Call
  PROVE  GoesOn(h, PairingDelStep(h))
<1> DEFINE c == h.channel
           r == h.ch[c]
           n == r.sm.timeout + 1
<1>1. r.sm.timeout \in Nat /\ n \in Nat /\ 0 \in Nat /\ "READY" \in State
  BY CallFacts DEF StateMachine, State
<1>2. CASE ~r.sm.add
  <2>1. PairingDelStep(h) = h
    BY <1>2 DEF PairingDelStep
  <2>2. QED
    BY <2>1, GoesOnAtOnce
<1>3. CASE r.sm.add /\ n > DEL_WAIT
  <2> DEFINE z == [h EXCEPT !.ch[c].sm.timeout = 0, !.ch[c].sm.state = "READY"]
  <2>1. PairingDelStep(h) = z
    BY <1>3 DEF PairingDelStep
  <2>2. GoesOn(h, z)
    BY <1>1, MachineStepIsCall
  <2> HIDE DEF z
  <2>3. QED
    BY <2>1, <2>2
<1>4. CASE r.sm.add /\ ~(n > DEL_WAIT)
  <2>1. PairingDelStep(h) = [h EXCEPT !.ch[c].sm.timeout = @ + 1]
    BY <1>4 DEF PairingDelStep
  <2>2. [h EXCEPT !.ch[c].sm.timeout = @ + 1] = [h EXCEPT !.ch[c].sm.timeout = n]
    BY CallFacts DEF Call, View
  <2> HIDE DEF n
  <2>3. QED
    BY <1>1, <2>1, <2>2, MachineStepIsCall
<1>5. QED
  BY <1>2, <1>3, <1>4

LEMMA StateStepIsCall ==
  ASSUME NEW h \in Call
  PROVE  GoesOn(h, StateStep(h))
<1> DEFINE state == h.ch[h.channel].sm.state
<1>1. StateStep(h) = CASE state = "READY" -> ReadyStep(h)
                       [] state = "PAIRED" -> PairedStep(h)
                       [] state = "PAIRING_DEL" -> PairingDelStep(h)
                       [] OTHER -> h
  BY DEF StateStep
<1> HIDE DEF state
<1>2. StateStep(h) \in {ReadyStep(h), PairedStep(h), PairingDelStep(h), h}
  BY <1>1
<1>3. QED
  BY <1>2, ReadyStepIsCall, PairedStepIsCall, PairingDelStepIsCall, GoesOnAtOnce

\* After a send, the channel of the call may have an answer latched while its new
\* request is out.
SentCall ==
    {h \in View(Sending) : \A c \in Channel : c # h.channel => h.ch[c] \in Sound}

LEMMA SendStepIsCall ==
  ASSUME NEW h \in Call, NEW result
  PROVE  LET z == SendStep(h, result) IN
         z \in SentCall /\ AllAlike(h.ch, z.ch) /\ z.expired = h.expired
<1> DEFINE z == SendStep(h, result)
           d == Head(h.queue)
           s == Sent(h.ch[d], result)
<1>1. CASE h.queue = <<>> \/ (h.queue # <<>> /\ h.ch[d].rx_busy)
  <2>1. z = h
    BY <1>1 DEF SendStep
  <2>2. h \in SentCall
    BY DEF SentCall, Call, View, Sound
  <2>3. QED
    BY <2>1, <2>2 DEF AllAlike, Alike
<1>2. CASE h.queue # <<>> /\ ~h.ch[d].rx_busy
  <2>1. z = [h EXCEPT !.channel = d, !.queue = Tail(h.queue), !.cnt_loop = 0, !.ch[d] = s]
    BY <1>2 DEF SendStep, Call, View
  <2>2. /\ d \in Channel /\ Tail(h.queue) \in Seq(Channel) /\ Len(Tail(h.queue)) <= Capacity
    <3>1. h.queue \in Seq(Channel) /\ Len(h.queue) <= Capacity
      BY DEF Call, View
    <3>2. Len(Tail(h.queue)) = Len(h.queue) - 1 /\ Len(h.queue) \in Nat
      BY <1>2, <3>1
    <3>3. QED
      BY <1>2, <3>1, <3>2, LinkAssumption
  <2>3. h.ch[d] \in Sound /\ 0 \in Ticks /\ h.ch \in [Channel -> Sound]
    BY <2>2, CallFacts DEF Call, View
  <2>4. s \in Sending /\ Alike(h.ch[d], s)
    BY <2>3, SentIsSending
  <2> HIDE DEF s, z, d
  <2>5. /\ z.ch = [h.ch EXCEPT ![d] = s] /\ z.channel = d /\ z.expired = h.expired
    BY <2>1 DEF Call, View
  <2>6. z.ch \in [Channel -> Sending] /\ \A c \in Channel : c # d => z.ch[c] \in Sound
    BY <2>2, <2>3, <2>4, <2>5 DEF Sound
  <2>7. z \in View(Sending)
    BY <2>1, <2>2, <2>3, <2>5, <2>6 DEF Call, View
  <2>8. AllAlike(h.ch, z.ch)
    BY <2>2, <2>3, <2>4, <2>5 DEF AllAlike, Alike
  <2>9. QED
    BY <2>5, <2>6, <2>7, <2>8 DEF SentCall, z
<1>3. QED
  BY <1>1, <1>2

\* An answer may have forgotten an erased channel: no timeout of it runs then.
Kept(r, s) == Alike(r, s) \/ (Forgotten(r, s) /\ ~s.timeout.active)

LEMMA ResponseStepIsCall ==
  ASSUME NEW h \in SentCall
  PROVE  LET z == ResponseStep(h) IN
         /\ z \in Call /\ z.expired = h.expired
         /\ \A c \in Channel : Kept(h.ch[c], z.ch[c])
<1> DEFINE d == h.channel
           r == h.ch[d]
           s == PairingAnswered(r)
           z == ResponseStep(h)
<1>1. /\ d \in Channel /\ r \in Sending /\ h.ch \in [Channel -> Sending]
      /\ \A c \in Channel : c # d => h.ch[c] \in Sound
  BY DEF SentCall, View
<1>2. CASE r.rx_busy /\ r.sm.reply
  <2>1. z = [h EXCEPT !.ch[d] = s]
    BY <1>2 DEF ResponseStep
  <2>2. s \in Sound /\ Answered(r, s)
    BY <1>1, <1>2, PairingAnsweredIsSound
  <2> HIDE DEF s, z
  <2>3. z.ch = [h.ch EXCEPT ![d] = s] /\ z.expired = h.expired
    BY <2>1 DEF SentCall, View
  <2>4. z.ch \in [Channel -> Sound]
    BY <1>1, <2>2, <2>3
  <2>5. z \in Call
    BY <2>1, <2>3, <2>4 DEF Call, SentCall, View
  <2>6. ASSUME NEW c \in Channel PROVE Kept(h.ch[c], z.ch[c])
    BY <1>1, <2>2, <2>3 DEF Kept, Answered, Alike
  <2>7. QED
    BY <2>3, <2>5, <2>6 DEF z
<1>3. CASE ~(r.rx_busy /\ r.sm.reply)
  <2>1. z = h \/ z = [h EXCEPT !.save = TRUE]
    BY <1>3 DEF ResponseStep
  <2>2. r \in Sound
    BY <1>1, <1>3 DEF Sound, Sending
  <2>3. h.ch \in [Channel -> Sound]
    BY <1>1, <2>2
  <2> HIDE DEF z
  <2>4. z.ch = h.ch /\ z.expired = h.expired /\ z \in Call
    BY <2>1, <2>3 DEF Call, SentCall, View
  <2>5. QED
    BY <2>4 DEF Kept, Alike, z
<1>4. QED
  BY <1>2, <1>3

LEMMA SaveStepIsCall ==
  ASSUME NEW h \in Call
  PROVE  LET z == SaveStep(h) IN
         /\ GoesOn(h, z)
         /\ \A c \in Channel : ~h.ch[c].timeout.active => ~z.ch[c].timeout.active
<1> DEFINE d == h.channel
           r == h.ch[d]
           s == DataAnswered(r)
           z == SaveStep(h)
<1>1. d \in Channel /\ r \in Sound /\ r \in ChannelState
  BY CallFacts
<1>2. CASE ~h.save
  <2>1. z = h
    BY <1>2 DEF SaveStep
  <2>2. QED
    BY <2>1, GoesOnAtOnce
<1>3. CASE h.save
  <2>1. z = [h EXCEPT !.ch[d] = s]
    BY <1>3 DEF SaveStep
  <2>2. s \in Sound /\ Alike(r, s)
    BY <1>1, DataAnsweredIsSound
  <2>3. ~s.timeout.active
    <3>1. s.timeout = NoTimeout
      BY <1>1 DEF DataAnswered, Wifi_Request_Timeout_Clear, ChannelState
    <3>2. QED
      BY <3>1, ConstantsTyped
  <2>4. z = Advanced(h, s, h.queue, h.cnt_loop, h.setTime, h.save)
    BY <2>1 DEF Advanced, Call, View
  <2> HIDE DEF s, z
  <2>5. GoesOn(h, z)
    BY <2>2, <2>4, CallFacts, AdvancedIsCall
  <2>6. z.ch = [h.ch EXCEPT ![d] = s]
    BY <2>1 DEF Call, View
  <2>7. QED
    BY <2>3, <2>5, <2>6 DEF z, Call, View
<1>4. QED
  BY <1>2, <1>3

LEMMA TimeoutStepIsCall ==
  ASSUME NEW h \in Call
  PROVE  LET z == TimeoutStep(h) IN
         /\ z \in Call /\ z.channel = h.channel
         /\ \A c \in Channel :
               \/ Alike(h.ch[c], z.ch[c])
               \/ z.expired # {} /\ h.ch[c].timeout.active /\ LinkEnds(h.ch[c], z.ch[c])
<1> DEFINE aged == [c \in Channel |-> Aged(h.ch[c])]
           gone == Expired(aged)
           f == [c \in Channel |-> IF c \in gone THEN Wifi_Request_Timeout_Handle(aged[c])
                                   ELSE aged[c]]
           z == TimeoutStep(h)
<1>1. z = [h EXCEPT !.ch = f, !.expired = gone]
  BY DEF TimeoutStep
<1>2. gone \in SUBSET Channel /\ \A c \in gone : aged[c].timeout.active
  BY DEF Expired, Late
<1>3. ASSUME NEW c \in Channel
      PROVE  /\ f[c] \in Sound
             /\ \/ Alike(h.ch[c], f[c])
                \/ gone # {} /\ h.ch[c].timeout.active /\ LinkEnds(h.ch[c], f[c])
  <2> DEFINE r == h.ch[c]
             s == Wifi_Request_Timeout_Handle(Aged(r))
  <2>1. r \in Sound
    BY DEF Call, View
  <2>2. /\ Aged(r) \in Sound /\ Alike(r, Aged(r))
        /\ Aged(r).timeout.active = r.timeout.active
    BY <2>1, AgedIsSound
  <2>3. s \in Sound /\ (Alike(Aged(r), s) \/ LinkEnds(Aged(r), s))
    BY <2>2, TimeoutIsSound
  <2>4. aged[c] = Aged(r)
    OBVIOUS
  <2> HIDE DEF s, r, aged, gone
  <2>5. CASE c \in gone
    <3>1. f[c] = s
      BY <2>4, <2>5 DEF s
    <3>2. r.timeout.active
      BY <1>2, <2>2, <2>4, <2>5
    <3>3. Alike(r, s) \/ LinkEnds(r, s)
      BY <2>2, <2>3 DEF Alike, LinkEnds
    <3>4. QED
      BY <2>3, <2>5, <3>1, <3>2, <3>3 DEF r
  <2>6. CASE c \notin gone
    BY <2>2, <2>4, <2>6 DEF r
  <2>7. QED
    BY <2>5, <2>6
<1>4. f \in [Channel -> Sound]
  BY <1>3
<1> HIDE DEF f, gone, z
<1>5. z \in Call /\ z.channel = h.channel /\ z.ch = f /\ z.expired = gone
  BY <1>1, <1>2, <1>4 DEF Call, View
<1>6. QED
  BY <1>3, <1>5 DEF z

\* A repair is given up.
GivenUp(r, s) == ~r.pairFlag /\ r.bak.repair_itself /\ Free(s)

LEMMA RotateStepIsCall ==
  ASSUME NEW h \in Call
  PROVE  LET z == RotateStep(h) IN
         /\ z \in Call
         /\ \A c \in Channel :
               \/ Alike(h.ch[c], z.ch[c])
               \/ h.expired = {} /\ (Forgotten(h.ch[c], z.ch[c]) \/ GivenUp(h.ch[c], z.ch[c]))
<1> DEFINE d == h.channel
           r == h.ch[d]
           s == RotateOut(r)
           z == RotateStep(h)
<1>1. /\ d \in Channel /\ r \in Sound /\ h.cnt_loop \in Ticks /\ 0 \in Ticks
      /\ h.setTime \in {SET_TIME_PAIRING, SET_TIME_PAIRD}
  BY CallFacts
<1>2. CASE ~RotationDue(h)
  <2>1. z = [h EXCEPT !.cnt_loop = h.cnt_loop + 1]
    BY <1>2 DEF RotateStep, Call, View
  <2>2. h.cnt_loop + 1 \in Ticks
    BY <1>1, <1>2, TimeAssumption DEF RotationDue, Ticks
  <2> HIDE DEF z
  <2>3. z \in Call /\ z.ch = h.ch
    BY <2>1, <2>2 DEF Call, View
  <2>4. QED
    BY <2>3 DEF Alike, z
<1>3. CASE RotationDue(h) /\ h.expired = {} /\ ~r.timeout.active
  <2>1. z = [h EXCEPT !.cnt_loop = 0, !.ch[d] = s]
    BY <1>3 DEF RotateStep
  <2>2. /\ s \in Sound
        /\ \/ Alike(r, s)
           \/ Forgotten(r, s)
           \/ ~r.pairFlag /\ r.bak.repair_itself /\ Free(s)
    BY <1>1, <1>3, RotateOutIsSound
  <2> HIDE DEF s, z
  <2>3. z.ch = [h.ch EXCEPT ![d] = s]
    BY <2>1 DEF Call, View
  <2>4. z.ch \in [Channel -> Sound]
    BY <2>2, <2>3 DEF Call, View
  <2>5. z \in Call
    BY <1>1, <2>1, <2>3, <2>4 DEF Call, View
  <2>6. ASSUME NEW c \in Channel
        PROVE  \/ Alike(h.ch[c], z.ch[c])
               \/ Forgotten(h.ch[c], z.ch[c]) \/ GivenUp(h.ch[c], z.ch[c])
    <3>1. CASE c = d
      BY <1>1, <2>2, <2>3, <3>1 DEF GivenUp, Call, View
    <3>2. CASE c # d
      BY <2>3, <3>2 DEF Alike, Call, View
    <3>3. QED
      BY <3>1, <3>2
  <2>7. QED
    BY <1>3, <2>5, <2>6 DEF z
<1>4. CASE RotationDue(h) /\ ~(h.expired = {} /\ ~r.timeout.active)
  <2>1. z = [h EXCEPT !.cnt_loop = 0]
    BY <1>4 DEF RotateStep
  <2> HIDE DEF z
  <2>2. z \in Call /\ z.ch = h.ch
    BY <1>1, <2>1 DEF Call, View
  <2>3. QED
    BY <2>2 DEF Alike, z
<1>5. QED
  BY <1>2, <1>3, <1>4

-----------------------------------------------------------------------------
(* What one step does to the link of a channel *)

Moves(r, s) ==
    \/ Alike(r, s) \/ LinkEnds(r, s) \/ GivenUp(r, s)
    \/ Paired(r, s) \/ Shown(r, s) \/ Erased(r, s)

\* One call of Wifi_Handle() ends the link of a channel once at most: an answer that
\* forgets it has stopped its timeout, and the rotation acts only when none expired.
LEMMA CallMovesOnce ==
  ASSUME NEW r, NEW a, NEW b, NEW u, NEW v, NEW w, NEW z, NEW expired,
         Alike(r, a), Alike(a, b), Kept(b, u), Alike(u, v),
         ~u.timeout.active => ~v.timeout.active,
         Alike(v, w) \/ (expired # {} /\ v.timeout.active /\ LinkEnds(v, w)),
         Alike(w, z) \/ (expired = {} /\ (Forgotten(w, z) \/ GivenUp(w, z)))
  PROVE  Moves(r, z)
<1>1. Alike(r, b)
  BY DEF Alike
<1>2. Alike(r, u) \/ (Forgotten(r, u) /\ ~u.timeout.active)
  BY <1>1 DEF Kept, Alike, Forgotten
<1>3. Alike(r, v) \/ (Forgotten(r, v) /\ ~v.timeout.active)
  BY <1>2 DEF Alike, Forgotten, Free
<1>4. CASE Alike(v, w)
  <2>1. Alike(r, w) \/ Forgotten(r, w)
    BY <1>3, <1>4 DEF Alike, Forgotten, Free
  <2>2. CASE Alike(w, z)
    <3>1. Alike(r, z) \/ Forgotten(r, z)
      BY <2>1, <2>2 DEF Alike, Forgotten, Free
    <3>2. QED
      BY <3>1 DEF Moves, LinkEnds, Forgotten
  <2>3. CASE Forgotten(w, z) \/ GivenUp(w, z)
    <3>1. Alike(r, w)
      BY <2>1, <2>3 DEF Forgotten, GivenUp, Free
    <3>2. Forgotten(r, z) \/ GivenUp(r, z)
      BY <2>3, <3>1 DEF Alike, Forgotten, GivenUp
    <3>3. QED
      BY <3>2 DEF Moves, LinkEnds, Forgotten
  <2>4. QED
    BY <2>2, <2>3
<1>5. CASE expired # {} /\ v.timeout.active /\ LinkEnds(v, w)
  <2>1. Alike(r, v) /\ Alike(w, z)
    BY <1>3, <1>5
  <2>2. LinkEnds(r, z)
    BY <1>5, <2>1 DEF Alike, LinkEnds, Free
  <2>3. QED
    BY <2>2 DEF Moves
<1>6. QED
  BY <1>4, <1>5

LEMMA NextPeerIsChannel ==
  ASSUME NEW c \in Channel
  PROVE  NextPeer(c) \in Channel
  BY LinkAssumption DEF NextPeer, Channel

\* The inductive invariant: every channel sound.
LinkInv ==
    /\ ch \in [Channel -> Sound]
    /\ queue \in Seq(Channel) /\ Len(queue) <= Capacity
    /\ peer_addr \in Channel
    /\ peer_channel \in Channel
    /\ cnt_loop \in Ticks
    /\ setTime \in {SET_TIME_PAIRING, SET_TIME_PAIRD}
    /\ next_expired_channel \in Channel
    /\ cnt_ms10 \in 0..(MS10 + 1)

AllMove == \A c \in Channel : Moves(ch[c], ch'[c])

LEMMA InitIsSound == Init => LinkInv
<1>1. Idle = [Idle EXCEPT !.told = FALSE]
  <2>1. Idle \in ChannelState /\ Idle.told = FALSE
    BY ZeroedFields, ConstantsTyped DEF Idle, ChannelState
  <2>2. QED
    BY <2>1 DEF ChannelState
<1>2. Idle \in Sound
  BY <1>1, IdleIsSound
<1>3. 0 \in Channel /\ 0 \in Ticks /\ 0 \in 0..(MS10 + 1)
  BY LinkAssumption, TimeAssumption DEF Channel, Ticks
<1>4. <<>> \in Seq(Channel) /\ Len(<<>>) <= Capacity
  BY LinkAssumption
<1>5. QED
  BY <1>2, <1>3, <1>4 DEF Init, LinkInv

LEMMA RxKeeps ==
  ASSUME LinkInv, NEW c \in Channel, Wifi_Rx_ProcessFrame(c)
  PROVE  LinkInv' /\ AllMove
<1> DEFINE r == ch[c]
<1>1. r \in Sound /\ r.rx_busy /\ ch \in [Channel -> Sound]
  BY DEF LinkInv, Wifi_Rx_ProcessFrame
<1>2. \E s \in Sound : ch' = [ch EXCEPT ![c] = s] /\ Moves(r, s)
  <2>1. CASE RxPairingOk(c)
    <3>1. CASE r.pairFlag
      <4>1. ch' = [ch EXCEPT ![c] = PairingRepeated(r)] /\ r.awaiting = "AP_PAIRING_REQ"
        BY <2>1, <3>1 DEF RxPairingOk
      <4>2. QED
        BY <1>1, <3>1, <4>1, PairingRepeatedIsSound DEF Moves
    <3>2. CASE ~r.pairFlag
      <4>1. PICK registered \in AddResult :
                ch' = [ch EXCEPT ![c] = PairingOk(r, registered)]
        BY <2>1, <3>2 DEF RxPairingOk
      <4>2. registered \in BOOLEAN /\ r.awaiting = "AP_PAIRING_REQ"
        BY <2>1, LinkAssumption DEF RxPairingOk
      <4>3. QED
        BY <1>1, <3>2, <4>1, <4>2, PairingOkIsSound DEF Moves
    <3>3. QED
      BY <3>1, <3>2
  <2>2. CASE RxPairingCancel(c)
    <3>1. ch' = [ch EXCEPT ![c] = PairingCancelled(r)]
      BY <2>2 DEF RxPairingCancel
    <3>2. QED
      BY <1>1, <3>1, PairingCancelledIsSound DEF Moves
  <2>3. CASE RxData(c)
    <3>1. ch' = [ch EXCEPT ![c] = DataReceived(r)] /\ r.awaiting \in DataCommand /\ r.pairFlag
      BY <2>3 DEF RxData
    <3>2. QED
      BY <1>1, <3>1, DataReceivedIsSound DEF Moves
  <2>4. QED
    BY <2>1, <2>2, <2>3 DEF Wifi_Rx_ProcessFrame
<1>3. PICK s \in Sound : ch' = [ch EXCEPT ![c] = s] /\ Moves(r, s)
  BY <1>2
<1>4. ch' \in [Channel -> Sound]
  BY <1>1, <1>3
<1>5. AllMove
  BY <1>1, <1>3 DEF AllMove, Moves, Alike
<1>6. QED
  BY <1>4, <1>5 DEF LinkInv, Wifi_Rx_ProcessFrame

LEMMA SerialIsSound ==
  ASSUME NEW f \in [Channel -> Sound], NEW c \in Channel
  PROVE  /\ SerialWrite(f, c) \in [Channel -> Sound] /\ AllAlike(f, SerialWrite(f, c))
         /\ SerialRead(f, c) \in [Channel -> Sound] /\ AllAlike(f, SerialRead(f, c))
<1> DEFINE r == f[c]
           x == [r.sm EXCEPT !.update_serial = TRUE, !.request_serial = FALSE]
           y == [r.sm EXCEPT !.request_serial = TRUE]
           rx == [r EXCEPT !.sm = x]
           ry == [r EXCEPT !.sm = y]
<1>1. r \in Sound /\ r \in ChannelState /\ r.sm \in StateMachine
  BY SendingFacts DEF Sound
<1>2. Same(x, r.sm) /\ Same(y, r.sm)
  BY <1>1 DEF Same, StateMachine
<1>3. SerialWrite(f, c) = f \/ SerialWrite(f, c) = [f EXCEPT ![c] = rx]
  BY <1>1 DEF SerialWrite, ChannelState
<1>4. SerialRead(f, c) = f \/ SerialRead(f, c) = [f EXCEPT ![c] = ry]
  BY <1>1 DEF SerialRead, ChannelState
<1> HIDE DEF x, y
<1>5. rx \in Sound /\ ry \in Sound /\ Alike(r, rx) /\ Alike(r, ry)
  BY <1>1, <1>2, SameIsSound
<1> HIDE DEF rx, ry
<1>6. /\ [f EXCEPT ![c] = rx] \in [Channel -> Sound] /\ AllAlike(f, [f EXCEPT ![c] = rx])
      /\ [f EXCEPT ![c] = ry] \in [Channel -> Sound] /\ AllAlike(f, [f EXCEPT ![c] = ry])
      /\ AllAlike(f, f)
  BY <1>5 DEF AllAlike, Alike
<1>7. QED
  BY <1>3, <1>4, <1>6

LEMMA PlcKeeps ==
  ASSUME LinkInv, Ethercat_Handle
  PROVE  LinkInv' /\ AllMove
<1> DEFINE p == peer_channel
           r == ch[p]
<1>1. p \in Channel /\ r \in Sound /\ r \in ChannelState /\ r.sm \in StateMachine
      /\ ch \in [Channel -> Sound]
  BY SendingFacts DEF LinkInv, Sound
<1>2. ch' \in [Channel -> Sound] /\ AllMove
  <2>1. ASSUME NEW s \in Sound, ch' = [ch EXCEPT ![p] = s], Moves(r, s)
        PROVE  ch' \in [Channel -> Sound] /\ AllMove
    BY <1>1, <2>1 DEF AllMove, Moves, Alike
  <2>2. CASE \E typeAddr \in TypeAddr : PlcAssign(p, typeAddr)
    <3>1. PICK typeAddr \in TypeAddr : PlcAssign(p, typeAddr)
      BY <2>2
    <3> DEFINE s == Wifi_Peer_State_Set_Add([r EXCEPT !.typeAddr = typeAddr], typeAddr)
    <3>2. ch' = [ch EXCEPT ![p] = s] /\ ~r.pairFlag
      BY <3>1 DEF PlcAssign
    <3>3. s \in Sound /\ Alike(r, s)
      BY <1>1, <3>2, AssignedIsSound
    <3> HIDE DEF s
    <3>4. QED
      BY <2>1, <3>2, <3>3 DEF Moves
  <2>3. CASE PlcErase(p)
    <3> DEFINE s == Wifi_Peer_State_Set_Del(
                      [r EXCEPT !.bak = [NoBackup EXCEPT !.del_set = TRUE], !.told = FALSE])
    <3>1. ch' = [ch EXCEPT ![p] = s] /\ r.pairFlag
      BY <2>3 DEF PlcErase
    <3>2. s \in Sound /\ Erased(r, s)
      BY <1>1, <3>1, ErasedIsSound
    <3> HIDE DEF s
    <3>3. QED
      BY <2>1, <3>1, <3>2 DEF Moves
  <2>4. CASE PlcWriteIo(p)
    <3> DEFINE x == [r.sm EXCEPT !.update_io = TRUE]
               s == [r EXCEPT !.sm = x]
    <3>1. ch' = [ch EXCEPT ![p] = s]
      BY <1>1, <2>4 DEF PlcWriteIo, ChannelState
    <3>2. Same(x, r.sm)
      BY <1>1 DEF Same, StateMachine
    <3> HIDE DEF x
    <3>3. s \in Sound /\ Alike(r, s)
      BY <1>1, <3>2, SameIsSound
    <3> HIDE DEF s
    <3>4. QED
      BY <2>1, <3>1, <3>3 DEF Moves
  <2>5. CASE \E written, read \in Nibble : PlcSerial(p, written, read)
    <3>1. PICK written \in Nibble, read \in Nibble : PlcSerial(p, written, read)
      BY <2>5
    <3> DEFINE cw == CHOOSE c \in written : TRUE
               cr == CHOOSE c \in read : TRUE
               w == IF written = {} THEN ch ELSE SerialWrite(ch, cw)
    <3>2. (written # {} => cw \in Channel) /\ (read # {} => cr \in Channel)
      <4>1. written \subseteq Channel /\ read \subseteq Channel
        BY LinkAssumption DEF Nibble
      <4>2. (written # {} => cw \in written) /\ (read # {} => cr \in read)
        OBVIOUS
      <4>3. QED
        BY <4>1, <4>2
    <3>3. ch' = IF read = {} THEN w ELSE SerialRead(w, cr)
      BY <3>1 DEF PlcSerial
    <3> HIDE DEF cw, cr
    <3>4. w \in [Channel -> Sound] /\ AllAlike(ch, w)
      BY <1>1, <3>2, SerialIsSound DEF AllAlike, Alike
    <3> HIDE DEF w
    <3>5. ch' \in [Channel -> Sound] /\ AllAlike(w, ch')
      BY <3>2, <3>3, <3>4, SerialIsSound DEF AllAlike, Alike
    <3>6. QED
      BY <3>4, <3>5 DEF AllAlike, Alike, AllMove, Moves
  <2>6. CASE PlcHoldsSerial(p)
    <3>1. ch' = SerialRead(ch, p)
      BY <2>6 DEF PlcHoldsSerial
    <3>2. QED
      BY <1>1, <3>1, SerialIsSound DEF AllAlike, AllMove, Moves
  <2>7. CASE PlcQuiet
    BY <1>1, <2>7 DEF PlcQuiet, AllMove, Moves, Alike
  <2>8. QED
    BY <2>2, <2>3, <2>4, <2>5, <2>6, <2>7 DEF Ethercat_Handle
<1>3. peer_channel' \in Channel
  BY NextPeerIsChannel DEF LinkInv, Ethercat_Handle
<1>4. cnt_ms10' \in 0..(MS10 + 1)
  BY LinkAssumption DEF Ethercat_Handle
<1>5. QED
  BY <1>2, <1>3, <1>4 DEF LinkInv, Ethercat_Handle

LEMMA HandleKeeps ==
  ASSUME LinkInv, Wifi_Handle
  PROVE  LinkInv' /\ AllMove
<1>1. PICK result \in SendResult :
        LET h == TimeoutStep(SaveStep(ResponseStep(SendStep(StateStep(Called), result))))
            z == RotateStep(h)
        IN  /\ ch' = z.ch
            /\ queue' = z.queue
            /\ cnt_loop' = z.cnt_loop
            /\ setTime' = z.setTime
            /\ peer_addr' = IF RotationDue(h) THEN NextPeer(peer_addr) ELSE peer_addr
            /\ next_expired_channel' \in
                  IF h.expired = {} THEN {next_expired_channel}
                  ELSE {NextPeer(c) : c \in h.expired}
  BY DEF Wifi_Handle
<1> DEFINE a == StateStep(Called)
           b == SendStep(a, result)
           u == ResponseStep(b)
           v == SaveStep(u)
           w == TimeoutStep(v)
           z == RotateStep(w)
<1>2. Called \in Call /\ Called.ch = ch
  BY DEF Called, Call, View, LinkInv
<1>3. a \in Call /\ AllAlike(ch, a.ch)
  BY <1>2, StateStepIsCall DEF GoesOn
<1> HIDE DEF a
<1>4. b \in SentCall /\ AllAlike(a.ch, b.ch)
  BY <1>3, SendStepIsCall
<1> HIDE DEF b
<1>5. u \in Call /\ \A c \in Channel : Kept(b.ch[c], u.ch[c])
  BY <1>4, ResponseStepIsCall
<1> HIDE DEF u
<1>6. /\ v \in Call /\ AllAlike(u.ch, v.ch)
      /\ \A c \in Channel : ~u.ch[c].timeout.active => ~v.ch[c].timeout.active
  BY <1>5, SaveStepIsCall DEF GoesOn
<1> HIDE DEF v
<1>7. /\ w \in Call
      /\ \A c \in Channel :
            \/ Alike(v.ch[c], w.ch[c])
            \/ w.expired # {} /\ v.ch[c].timeout.active /\ LinkEnds(v.ch[c], w.ch[c])
  BY <1>6, TimeoutStepIsCall
<1> HIDE DEF w
<1>8. /\ z \in Call
      /\ \A c \in Channel :
            \/ Alike(w.ch[c], z.ch[c])
            \/ w.expired = {} /\ (Forgotten(w.ch[c], z.ch[c]) \/ GivenUp(w.ch[c], z.ch[c]))
  BY <1>7, RotateStepIsCall
<1> HIDE DEF z
<1>9. /\ ch' = z.ch /\ queue' = z.queue /\ cnt_loop' = z.cnt_loop /\ setTime' = z.setTime
      /\ peer_addr' = IF RotationDue(w) THEN NextPeer(peer_addr) ELSE peer_addr
      /\ next_expired_channel' \in
            IF w.expired = {} THEN {next_expired_channel} ELSE {NextPeer(c) : c \in w.expired}
  BY <1>1 DEF a, b, u, v, w, z
<1>10. AllMove
  <2>1. SUFFICES ASSUME NEW c \in Channel PROVE Moves(ch[c], ch'[c])
    BY DEF AllMove
  <2>2. /\ Alike(ch[c], a.ch[c]) /\ Alike(a.ch[c], b.ch[c]) /\ Alike(u.ch[c], v.ch[c])
    BY <1>3, <1>4, <1>6 DEF AllAlike
  <2>3. Moves(ch[c], z.ch[c])
    BY <1>5, <1>6, <1>7, <1>8, <2>2, CallMovesOnce
  <2>4. QED
    BY <1>9, <2>3
<1>11. /\ ch' \in [Channel -> Sound] /\ queue' \in Seq(Channel) /\ Len(queue') <= Capacity
       /\ cnt_loop' \in Ticks /\ setTime' \in {SET_TIME_PAIRING, SET_TIME_PAIRD}
  BY <1>8, <1>9 DEF Call, View
<1>12. peer_addr' \in Channel
  BY <1>9, NextPeerIsChannel DEF LinkInv
<1>13. next_expired_channel' \in Channel
  <2>1. w.expired \subseteq Channel
    BY <1>7 DEF Call, View
  <2>2. QED
    BY <1>9, <2>1, NextPeerIsChannel DEF LinkInv
<1>14. cnt_ms10' \in 0..(MS10 + 1) /\ peer_channel' \in Channel
  BY LinkAssumption DEF Wifi_Handle, LinkInv
<1>15. QED
  BY <1>10, <1>11, <1>12, <1>13, <1>14 DEF LinkInv

LEMMA NextKeeps == LinkInv /\ [Next]_vars => LinkInv' /\ AllMove
<1> SUFFICES ASSUME LinkInv, [Next]_vars PROVE LinkInv' /\ AllMove
  OBVIOUS
<1>1. CASE Next
  BY <1>1, RxKeeps, HandleKeeps, PlcKeeps DEF Next
<1>2. CASE UNCHANGED vars
  BY <1>2 DEF LinkInv, vars, AllMove, Moves, Alike
<1>3. QED
  BY <1>1, <1>2

\* Every reachable state has only sound channels.
THEOREM AlwaysSound == Spec => []LinkInv
<1>1. Init => LinkInv
  BY InitIsSound
<1>2. LinkInv /\ [Next]_vars => LinkInv'
  BY NextKeeps
<1>3. QED
  BY <1>1, <1>2, PTL DEF Spec

-----------------------------------------------------------------------------
(* The invariants of ApLink *)

\* The type invariant: no handler leaves a field outside its type, no round robin
\* leaves its channels, no send overfills the queue (main.cpp:2003, 2440).
THEOREM TypeCorrect == Spec => []TypeOK
<1>1. LinkInv => TypeOK
  BY DEF LinkInv, TypeOK, Sound, Sending, Ticks
<1>2. QED
  BY <1>1, AlwaysSound, PTL

\* PairMask and pairFlag agree, whichever of the five places wrote them last.
THEOREM MaskAlwaysIsPairing == Spec => []MaskIsPairing
<1>1. LinkInv => MaskIsPairing
  BY DEF LinkInv, MaskIsPairing, Sound, Sending
<1>2. QED
  BY <1>1, AlwaysSound, PTL

\* A paired channel talks to the device it stores.
THEOREM AlwaysPairedWithItsDevice == Spec => []PairedWithItsDevice
<1>1. LinkInv => PairedWithItsDevice
  BY DEF LinkInv, PairedWithItsDevice, Sound, Sending, DeviceAgrees
<1>2. QED
  BY <1>1, AlwaysSound, PTL

\* The two copies of the PLC's wish to end a pairing agree.
THEOREM EraseAlwaysKeptTwice == Spec => []EraseKeptTwice
<1>1. LinkInv => EraseKeptTwice
  BY DEF LinkInv, EraseKeptTwice, Sound, Sending, EraseAgrees
<1>2. QED
  BY <1>1, AlwaysSound, PTL

\* A repair knows its device, and only a repair shows an unpaired channel.
THEOREM RepairAlwaysKnowsItsPeer == Spec => []RepairKnowsItsPeer
<1>1. LinkInv => RepairKnowsItsPeer
  BY DEF LinkInv, RepairKnowsItsPeer, Sound, Sending, RepairAgrees
<1>2. QED
  BY <1>1, AlwaysSound, PTL

\* No timeout runs for a request that is not out.
THEOREM TimedRequestIsAlwaysOut == Spec => []TimedRequestIsOut
<1>1. LinkInv => TimedRequestIsOut
  BY DEF LinkInv, TimedRequestIsOut, Sound, Sending, RequestAgrees
<1>2. QED
  BY <1>1, AlwaysSound, PTL

\* A latched answer still means what it said when it is worked off.
THEOREM AnswerIsAlwaysOwed == Spec => []AnswerIsOwed
<1>1. LinkInv => AnswerIsOwed
  BY DEF LinkInv, AnswerIsOwed, Sound, Sending, AnswerAgrees
<1>2. QED
  BY <1>1, AlwaysSound, PTL

\* Every step moves every link as PeerLink allows, so what the PLC erased is never
\* repaired and what was lost is repaired or given up.
THEOREM LinkIsImplemented == Spec => ImplementsPeerLink
<1>1. Init => Links!Init
  BY DEF Init, Idle, NoBackup, LinkOf, Links!Init
<1>2. LinkInv /\ [Next]_vars => [Links!Next]_(Links!vars)
  <2>1. SUFFICES ASSUME LinkInv, [Next]_vars PROVE Links!Next
    OBVIOUS
  <2>2. SUFFICES ASSUME NEW c \in Channel
        PROVE  \/ Links!Pair(c) \/ Links!Erase(c) \/ Links!Lose(c) \/ Links!Show(c)
               \/ Links!Forget(c)
               \/ LinkOf(ch[c])' = LinkOf(ch[c]) /\ ch'[c].status = ch[c].status
    BY DEF Links!Next, Links!Keeps
  <2> DEFINE r == ch[c]
             s == ch'[c]
  <2>3. /\ r \in ChannelState /\ s \in ChannelState /\ Moves(r, s)
        /\ (r.bak.del_set => r.pairFlag) /\ (s.bak.del_set => s.pairFlag)
    BY <2>1, NextKeeps DEF LinkInv, AllMove, Sound, Sending, EraseAgrees
  <2>4. /\ Links!Keeps(c) <=> s.status = r.status
        /\ Links!Turns(c, {"free", "repairing"}, "paired") <=>
              LinkOf(r) \in {"free", "repairing"} /\ LinkOf(s) = "paired"
        /\ Links!Turns(c, {"paired"}, "erasing") <=> LinkOf(r) = "paired" /\ LinkOf(s) = "erasing"
        /\ Links!Turns(c, {"paired"}, "repairing") <=>
              LinkOf(r) = "paired" /\ LinkOf(s) = "repairing"
        /\ Links!Turns(c, {"erasing", "repairing"}, "free") <=>
              LinkOf(r) \in {"erasing", "repairing"} /\ LinkOf(s) = "free"
        /\ Links!Show(c) <=> /\ LinkOf(r) \in {"paired", "erasing"} /\ LinkOf(s) = LinkOf(r)
                             /\ s.status
        /\ Links!Forget(c) <=> /\ LinkOf(r) \in {"erasing", "repairing"} /\ LinkOf(s) = "free"
                               /\ ~s.status
    BY DEF Links!Keeps, Links!Turns, Links!Show, Links!Forget
  <2> HIDE DEF r, s
  <2>5. CASE Alike(r, s)
    <3>1. LinkOf(s) = LinkOf(r) /\ s.status = r.status
      BY <2>5 DEF Alike, LinkOf
    <3>2. QED
      BY <3>1 DEF r, s
  <2>6. CASE LinkEnds(r, s)
    <3>1. CASE r.pairFlag /\ ~r.bak.del_set
      <4>1. LinkOf(r) = "paired" /\ LinkOf(s) = "repairing" /\ s.status = r.status
        BY <2>6, <3>1 DEF LinkEnds, LinkOf
      <4>2. QED
        BY <2>4, <4>1 DEF Links!Lose
    <3>2. CASE r.pairFlag /\ r.bak.del_set
      <4>1. LinkOf(r) = "erasing" /\ LinkOf(s) = "free" /\ ~s.status
        BY <2>6, <3>2 DEF LinkEnds, LinkOf, Free
      <4>2. QED
        BY <2>4, <4>1
    <3>3. CASE ~r.pairFlag
      <4>1. Alike(r, s)
        BY <2>6, <3>3 DEF LinkEnds
      <4>2. QED
        BY <2>5, <4>1
    <3>4. QED
      BY <3>1, <3>2, <3>3
  <2>7. CASE GivenUp(r, s)
    <3>1. LinkOf(r) = "repairing" /\ LinkOf(s) = "free" /\ ~s.status
      BY <2>7 DEF GivenUp, LinkOf, Free
    <3>2. QED
      BY <2>4, <3>1
  <2>8. CASE Paired(r, s)
    <3>1. LinkOf(r) \in {"free", "repairing"} /\ LinkOf(s) = "paired" /\ s.status = r.status
      BY <2>8 DEF Paired, LinkOf
    <3>2. QED
      BY <2>4, <3>1 DEF Links!Pair
  <2>9. CASE Shown(r, s)
    <3>1. LinkOf(r) \in {"paired", "erasing"} /\ LinkOf(s) = LinkOf(r) /\ s.status
      BY <2>9 DEF Shown, LinkOf
    <3>2. QED
      BY <2>4, <3>1
  <2>10. CASE Erased(r, s)
    <3>1. /\ LinkOf(r) \in {"paired", "erasing"} /\ LinkOf(s) = "erasing"
          /\ s.status = r.status
      BY <2>10 DEF Erased, LinkOf
    <3>2. CASE LinkOf(r) = "paired"
      BY <2>4, <3>1, <3>2 DEF Links!Erase
    <3>3. CASE LinkOf(r) = "erasing"
      BY <3>1, <3>3 DEF r, s
    <3>4. QED
      BY <3>1, <3>2, <3>3
  <2>11. QED
    BY <2>3, <2>5, <2>6, <2>7, <2>8, <2>9, <2>10 DEF Moves
<1>3. QED
  BY <1>1, <1>2, AlwaysSound, PTL DEF Spec, ImplementsPeerLink, Links!Spec

=============================================================================
