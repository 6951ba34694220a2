--------------------------- MODULE ApLinkCounts_proof ---------------------------
(***************************************************************************)
(* Theorems about the counters of ApLink: none runs past the limit it is       *)
(* compared with, losses are forgiven by data only, and a late request waits   *)
(* for no more calls than there are other channels.                            *)
(*                                                                           *)
(* As in ApLink_proof each function of ApChannel is looked at once, here for   *)
(* what it does to the counters of its channel (Wears), and a call of          *)
(* Wifi_Handle() is the chain of its phases.                                   *)
(***************************************************************************)
EXTENDS ApLink_proof, WellFoundedInduction

\* retry, repair_cnt and receiveLoss_cnt are of type uint8_t (ap_types.h:29,
\* ap_wifi_runtime.h:21): within their limits the first two do not turn over.
\* LOSS_WRAP is the range of the type itself.
Within(r) ==
    /\ r.sm.retry <= RETRY_MAX /\ r.sm.timeout <= DEL_WAIT
    /\ r.sm.cnt_disconnect < SETUP_DISCONNECT_MAX
    /\ r.bak.repair_cnt < SETUP_REPAIR_MAX
    /\ r.bak.receiveLoss_cnt < LOSS_WRAP

\* What a call may do to a channel, time apart: it pairs nothing and latches no data,
\* and a timeout that runs is the old one or starts.
Serves(r, s) ==
    /\ s.pairFlag => r.pairFlag
    /\ s.sm.response => r.sm.response
    /\ Within(r) => Within(s)
    /\ s.timeout.active => s.timeout = r.timeout \/ s.timeout.count = 0

\* The same by anything but an answer with data: losses are kept while the pairing
\* lasts.
Wears(r, s) ==
    /\ Serves(r, s)
    /\ s.pairFlag => r.sm.cnt_disconnect <= s.sm.cnt_disconnect

\* The counters of a state machine and of what is kept for the repair, some of them
\* restarted.
Light(x, y) ==
    /\ x.cnt_disconnect \in {0, y.cnt_disconnect}
    /\ x.response => y.response
    /\ x.retry \in {0, y.retry} /\ x.timeout \in {0, y.timeout}

LightBackup(b, d) ==
    b.repair_cnt \in {0, d.repair_cnt} /\ b.receiveLoss_cnt \in {0, d.receiveLoss_cnt}

\* A channel that counts nothing on, and while it is paired forgives nothing.
Milder(r, s) ==
    /\ Light(s.sm, r.sm) /\ LightBackup(s.bak, r.bak)
    /\ s.pairFlag => r.pairFlag /\ s.sm.cnt_disconnect = r.sm.cnt_disconnect
    /\ s.timeout.active => s.timeout = r.timeout \/ s.timeout.count = 0

-----------------------------------------------------------------------------
(* The functions of ApChannel *)

LEMMA LimitFacts ==
  /\ RETRY_MAX \in Nat /\ DEL_WAIT \in Nat /\ 0 < SETUP_DISCONNECT_MAX
  /\ 0 < SETUP_REPAIR_MAX /\ 0 < LOSS_WRAP
  /\ SETUP_DISCONNECT_MAX \in Nat /\ SETUP_REPAIR_MAX \in Nat /\ LOSS_WRAP \in Nat
  BY TimeAssumption

LEMMA CountTypes ==
  ASSUME NEW r \in ChannelState
  PROVE  /\ r.sm.cnt_disconnect \in Nat /\ r.sm.retry \in Nat /\ r.sm.timeout \in Nat
         /\ r.bak.repair_cnt \in Nat /\ r.bak.receiveLoss_cnt \in Nat
         /\ r.sm \in StateMachine /\ r.bak \in Backup
  BY DEF ChannelState, StateMachine, Backup

LEMMA WearsOn ==
  ASSUME NEW r \in ChannelState, NEW s \in ChannelState, NEW t \in ChannelState,
         Wears(r, s), Wears(s, t)
  PROVE  Wears(r, t)
  BY CountTypes DEF Wears, Serves

LEMMA MilderWears ==
  ASSUME NEW r \in ChannelState, NEW s \in ChannelState, Milder(r, s)
  PROVE  Wears(r, s)
<1>1. Within(r) => Within(s)
  BY CountTypes, LimitFacts DEF Within, Milder, Light, LightBackup
<1>2. QED
  BY <1>1, CountTypes DEF Wears, Serves, Milder, Light

LEMMA MilderOn ==
  ASSUME NEW r, NEW s, NEW t, Milder(r, s), Milder(s, t)
  PROVE  Milder(r, t)
  BY DEF Milder, Light, LightBackup

LEMMA MilderAlone ==
  ASSUME NEW r
  PROVE  Milder(r, r)
  BY DEF Milder, Light, LightBackup

LEMMA ZeroedCounts ==
  /\ Zeroed.cnt_disconnect = 0 /\ Zeroed.retry = 0 /\ Zeroed.timeout = 0
  /\ ~Zeroed.response
  /\ NoBackup.repair_cnt = 0 /\ NoBackup.receiveLoss_cnt = 0
  /\ ~NoTimeout.active
  BY DEF Zeroed, NoBackup, NoTimeout

\* Requests replace the packet and stop the timeout.
LEMMA SetAddIsMilder ==
  ASSUME NEW r \in ChannelState, NEW typeAddr \in TypeAddr
  PROVE  Milder(r, Wifi_Peer_State_Set_Add(r, typeAddr))
<1> DEFINE s == Wifi_Peer_State_Set_Add(r, typeAddr)
           x == [r.sm EXCEPT !.cmd = "AP_PAIRING_REQ", !.request = TRUE, !.add = TRUE,
                             !.pMac = "broadcast", !.device = typeAddr]
<1>1. /\ s.sm = x /\ s.timeout = NoTimeout /\ s.bak = r.bak /\ s.pairFlag = r.pairFlag
  BY SetAddFields
<1> HIDE DEF s
<1>2. /\ x.cnt_disconnect = r.sm.cnt_disconnect /\ x.response = r.sm.response
      /\ x.retry = r.sm.retry /\ x.timeout = r.sm.timeout
  BY CountTypes DEF StateMachine
<1>3. QED
  BY <1>1, <1>2, ZeroedCounts DEF Milder, Light, LightBackup, s

LEMMA SetDelIsMilder ==
  ASSUME NEW r \in ChannelState
  PROVE  Milder(r, Wifi_Peer_State_Set_Del(r))
<1> DEFINE s == Wifi_Peer_State_Set_Del(r)
           x == [r.sm EXCEPT !.cmd = "AP_PAIRING_CANCEL", !.request = TRUE, !.del = TRUE,
                             !.pMac = "peer"]
<1>1. /\ s.sm = x /\ s.timeout = NoTimeout /\ s.bak = r.bak /\ s.pairFlag = r.pairFlag
  BY SetDelFields
<1> HIDE DEF s
<1>2. /\ x.cnt_disconnect = r.sm.cnt_disconnect /\ x.response = r.sm.response
      /\ x.retry = r.sm.retry /\ x.timeout = r.sm.timeout
  BY CountTypes DEF StateMachine
<1>3. QED
  BY <1>1, <1>2, ZeroedCounts DEF Milder, Light, LightBackup, s

\* A channel of which only the state machine is replaced, by one with its counters.
LEMMA MachineIsMilder ==
  ASSUME NEW r \in ChannelState, NEW x, Light(x, r.sm),
         r.pairFlag => x.cnt_disconnect = r.sm.cnt_disconnect
  PROVE  Milder(r, [r EXCEPT !.sm = x])
<1> DEFINE s == [r EXCEPT !.sm = x]
<1>1. s.sm = x /\ s.bak = r.bak /\ s.pairFlag = r.pairFlag /\ s.timeout = r.timeout
  BY DEF ChannelState
<1> HIDE DEF s
<1>2. QED
  BY <1>1 DEF Milder, LightBackup, s

\* del_peer() restarts what it does not keep.
LEMMA DelPeerIsMilder ==
  ASSUME NEW r, Deletable(r)
  PROVE  Milder(r, del_peer(r))
<1> DEFINE p == [DropRequest(r) EXCEPT !.rx_busy = FALSE]
           q == RememberPeer(p)
           x == [r.sm EXCEPT !.del = FALSE]
           d == [q EXCEPT !.pairFlag = FALSE, !.mask = FALSE, !.typeAddr = NoType, !.sm.del = FALSE]
           e == [d EXCEPT !.sm = Zeroed, !.typeAddr = d.bak.typeAddr]
<1>0. r \in ChannelState
  BY DEF Deletable
<1>1. /\ p \in ChannelState /\ p.sm = r.sm /\ p.bak = r.bak /\ p.timeout = NoTimeout
      /\ p.pairFlag = r.pairFlag /\ p.typeAddr = r.typeAddr /\ p.status = r.status
  BY <1>0, ConstantsTyped DEF ChannelState, DropRequest, Wifi_Request_Timeout_Clear
<1>2. Deletable(p)
  BY <1>1 DEF Deletable
<1> HIDE DEF p
<1>3. /\ q \in ChannelState /\ q.sm = r.sm /\ q.timeout = NoTimeout
      /\ q.bak.repair_itself => q.bak.typeAddr # NoType
  <2>1. /\ q = [p EXCEPT !.bak = q.bak, !.status = q.status]
        /\ q.bak \in Backup /\ q.status \in BOOLEAN
        /\ q.bak.repair_itself => q.bak.typeAddr # NoType
    BY <1>2, RememberPeerFields
  <2> HIDE DEF q
  <2>2. QED
    BY <1>1, <2>1 DEF ChannelState
<1>4. LightBackup(q.bak, r.bak)
  BY <1>1, CountTypes DEF RememberPeer, ChannelState, Backup, LightBackup
<1> HIDE DEF q
<1>5. x.cnt_disconnect = r.sm.cnt_disconnect /\ x.response = r.sm.response
      /\ x.retry = r.sm.retry /\ x.timeout = r.sm.timeout /\ x \in StateMachine
  BY <1>0, CountTypes DEF StateMachine
<1>6. /\ d \in ChannelState /\ d.sm = x /\ d.timeout = NoTimeout /\ d.bak = q.bak /\ ~d.pairFlag
  <2>1. d = [q EXCEPT !.pairFlag = FALSE, !.mask = FALSE, !.typeAddr = NoType, !.sm = x]
    BY <1>3 DEF ChannelState
  <2> HIDE DEF x
  <2>2. QED
    BY <1>3, <1>5, <2>1 DEF ChannelState
<1>7. del_peer(r) = IF d.bak.repair_itself THEN Wifi_Peer_State_Set_Add(e, d.bak.typeAddr) ELSE d
  BY DEF del_peer, p, q
<1> HIDE DEF d, x
<1>8. Milder(r, d)
  BY <1>4, <1>5, <1>6, ZeroedCounts DEF Milder, Light
<1>9. CASE d.bak.repair_itself
  <2>1. d.bak.typeAddr \in TypeAddr
    BY <1>3, <1>6, <1>9, CountTypes DEF Backup
  <2>2. /\ e \in ChannelState /\ e.sm = Zeroed /\ e.bak = d.bak /\ ~e.pairFlag
        /\ e.timeout = NoTimeout
    BY <1>6, <2>1, ZeroedFields DEF ChannelState
  <2> HIDE DEF e
  <2>3. Milder(d, e)
    BY <2>2, ZeroedCounts DEF Milder, Light, LightBackup
  <2>4. Milder(e, Wifi_Peer_State_Set_Add(e, d.bak.typeAddr))
    BY <2>1, <2>2, SetAddIsMilder
  <2>5. QED
    BY <1>7, <1>8, <1>9, <2>3, <2>4, MilderOn DEF e
<1>10. QED
  BY <1>7, <1>8, <1>9

\* The state machine of a channel that is not paired restarts.
LEMMA ZeroedIsMilder ==
  ASSUME NEW r \in ChannelState, ~r.pairFlag
  PROVE  Milder(r, [r EXCEPT !.sm = Zeroed])
  BY MachineIsMilder, ZeroedCounts DEF Light

\* A pairing answer.
LEMMA PairingGrantedIsMilder ==
  ASSUME NEW p \in ChannelState, Deletable([p EXCEPT !.sm.granted = FALSE])
  PROVE  Milder(p, PairingGranted(p))
<1> DEFINE x == [p.sm EXCEPT !.granted = FALSE]
           q == [p EXCEPT !.sm = x]
           y == [x EXCEPT !.add = FALSE, !.state = "PAIRED", !.retry = 0]
<1>0. p \in ChannelState /\ p.sm \in StateMachine
  BY CountTypes
<1>1. /\ x.cnt_disconnect = p.sm.cnt_disconnect /\ x.response = p.sm.response
      /\ x.retry = p.sm.retry /\ x.timeout = p.sm.timeout
      /\ y.cnt_disconnect = p.sm.cnt_disconnect /\ y.response = p.sm.response
      /\ y.retry = 0 /\ y.timeout = p.sm.timeout
  BY <1>0 DEF StateMachine
<1>2. q.sm = x /\ q = [p EXCEPT !.sm.granted = FALSE] /\ [q EXCEPT !.sm = y] = [p EXCEPT !.sm = y]
  BY <1>0 DEF ChannelState
<1>3. PairingGranted(p) =
        CASE q.sm.add -> [q EXCEPT !.sm = y]
          [] ~q.sm.add /\ q.sm.del -> [del_peer(q) EXCEPT !.sm = Zeroed]
          [] OTHER -> q
  BY <1>0, <1>2 DEF PairingGranted, ChannelState
<1> HIDE DEF x, y
<1>4. Milder(p, q) /\ Milder(p, [p EXCEPT !.sm = y])
  BY <1>0, <1>1, MachineIsMilder DEF Light
<1> HIDE DEF q
<1>5. CASE ~q.sm.add /\ q.sm.del
  <2> DEFINE d == del_peer(q)
  <2>1. Milder(q, d) /\ d \in ChannelState /\ ~d.pairFlag
    BY <1>2, DelPeerIsMilder, DelPeerFields DEF Deleted
  <2> HIDE DEF d
  <2>2. Milder(d, [d EXCEPT !.sm = Zeroed])
    BY <2>1, ZeroedIsMilder
  <2>3. PairingGranted(p) = [d EXCEPT !.sm = Zeroed]
    BY <1>3, <1>5 DEF d
  <2>4. QED
    BY <1>4, <2>1, <2>2, <2>3, MilderOn
<1>6. CASE q.sm.add \/ ~q.sm.del
  BY <1>2, <1>3, <1>4, <1>6
<1>7. QED
  BY <1>5, <1>6

LEMMA PairingRefusedWears ==
  ASSUME NEW p \in Sound, ~p.pairFlag
  PROVE  Wears(p, PairingRefused(p))
<1> DEFINE x == [p.sm EXCEPT !.retry = @ + 1]
           q == [p EXCEPT !.sm = x]
<1>0. /\ p \in Sending /\ p \in ChannelState /\ p.sm \in StateMachine /\ Deletable(p)
      /\ ~p.sm.del
  BY SendingFacts DEF Sound, Sending, EraseAgrees
<1>1. /\ x \in StateMachine /\ x.retry = p.sm.retry + 1
      /\ x.cnt_disconnect = p.sm.cnt_disconnect /\ x.response = p.sm.response
      /\ x.timeout = p.sm.timeout /\ x.add = p.sm.add
  BY <1>0 DEF StateMachine
<1>2. PairingRefused(p) =
        IF p.sm.add
        THEN IF q.sm.retry > RETRY_MAX THEN [q EXCEPT !.sm = Zeroed]
             ELSE [Wifi_Peer_State_Set_Add(q, q.typeAddr) EXCEPT !.sm.state = "READY"]
        ELSE del_peer([p EXCEPT !.sm = Zeroed, !.pairFlag = FALSE, !.mask = FALSE])
  BY <1>0 DEF PairingRefused
<1>3. /\ q \in ChannelState /\ q.sm = x /\ ~q.pairFlag /\ q.typeAddr = p.typeAddr
      /\ q.bak = p.bak /\ q.timeout = p.timeout
      /\ [q EXCEPT !.sm = Zeroed] = [p EXCEPT !.sm = Zeroed]
  <2> HIDE DEF x
  <2> QED BY <1>0, <1>1 DEF ChannelState
<1> HIDE DEF x, q
<1>4. CASE p.sm.add /\ q.sm.retry > RETRY_MAX
  <2>1. PairingRefused(p) = [p EXCEPT !.sm = Zeroed]
    BY <1>2, <1>3, <1>4
  <2>2. [p EXCEPT !.sm = Zeroed] \in ChannelState
    BY <1>0, ZeroedFields DEF ChannelState
  <2>3. QED
    BY <1>0, <2>1, <2>2, ZeroedIsMilder, MilderWears
<1>5. CASE p.sm.add /\ ~(q.sm.retry > RETRY_MAX)
  <2> DEFINE s == Wifi_Peer_State_Set_Add(q, q.typeAddr)
             y == [s.sm EXCEPT !.state = "READY"]
             z == [s EXCEPT !.sm = y]
  <2>1. q.typeAddr \in TypeAddr
    BY <1>0, <1>3, <1>5 DEF Sending, DeviceAgrees, ChannelState
  <2>2. s \in ChannelState /\ Milder(q, s)
    BY <1>3, <2>1, SetAddFields, SetAddIsMilder
  <2>3. ~s.timeout.active
    BY <1>3, <2>1, SetAddFields, ZeroedCounts
  <2>4. PairingRefused(p) = z
    BY <1>2, <1>5, <2>2 DEF ChannelState
  <2> HIDE DEF s
  <2>5. /\ y \in StateMachine /\ y.cnt_disconnect = s.sm.cnt_disconnect
        /\ y.response = s.sm.response /\ y.retry = s.sm.retry /\ y.timeout = s.sm.timeout
    BY <2>2, CountTypes DEF StateMachine, State
  <2> HIDE DEF y
  <2>6. z \in ChannelState /\ Milder(s, z) /\ z.timeout = s.timeout
    BY <2>2, <2>5, MachineIsMilder DEF ChannelState, Light
  <2> HIDE DEF z
  <2>7. Milder(q, z) /\ ~z.timeout.active
    BY <2>2, <2>3, <2>6, MilderOn
  <2>8. Within(p) => Within(z)
    BY <1>0, <1>1, <1>3, <1>5, <2>7, CountTypes, LimitFacts
       DEF Within, Milder, Light, LightBackup
  <2>9. z.pairFlag => p.pairFlag
    BY <1>3, <2>7 DEF Milder
  <2>10. z.sm.response => p.sm.response
    BY <1>1, <1>3, <2>7 DEF Milder, Light
  <2>11. QED
    BY <2>4, <2>7, <2>8, <2>9, <2>10 DEF Wears, Serves
<1>6. CASE ~p.sm.add
  <2> DEFINE z == [p EXCEPT !.sm = Zeroed, !.pairFlag = FALSE, !.mask = FALSE]
  <2>1. PairingRefused(p) = del_peer(z)
    BY <1>2, <1>6
  <2>2. Deletable(z) /\ z.sm = Zeroed /\ ~z.pairFlag /\ z.bak = p.bak /\ z.timeout = p.timeout
    BY <1>0, ZeroedFields DEF Deletable, ChannelState
  <2> HIDE DEF z
  <2>3. Milder(p, z)
    BY <2>2, ZeroedCounts DEF Milder, Light, LightBackup
  <2>4. Milder(p, del_peer(z)) /\ del_peer(z) \in ChannelState
    BY <2>2, <2>3, MilderOn, DelPeerIsMilder, DelPeerFields DEF Deleted
  <2>5. QED
    BY <1>0, <2>1, <2>4, MilderWears
<1>7. QED
  BY <1>4, <1>5, <1>6

LEMMA PairingAnsweredWears ==
  ASSUME NEW r \in Sending, r.sm.reply
  PROVE  Wears(r, PairingAnswered(r))
<1> DEFINE x == [r.sm EXCEPT !.reply = FALSE, !.request = FALSE]
           q == [r EXCEPT !.timeout = NoTimeout, !.sm = x, !.rx_busy = FALSE]
<1>1. /\ x \in StateMachine /\ ~x.reply /\ x.granted = r.sm.granted
      /\ x.add = r.sm.add /\ x.del = r.sm.del /\ x.response = r.sm.response
      /\ x.pMac = r.sm.pMac /\ x.device = r.sm.device /\ x.cmd = r.sm.cmd /\ ~x.request
      /\ x.cnt_disconnect = r.sm.cnt_disconnect /\ x.retry = r.sm.retry
      /\ x.timeout = r.sm.timeout
  BY SendingFacts DEF StateMachine
<1>2. PairingAnswered(r) = IF q.sm.granted THEN PairingGranted(q) ELSE PairingRefused(q)
  BY SendingFacts DEF PairingAnswered, Wifi_Request_Timeout_Clear, ChannelState
<1>3. AnswerTaken(r, q) /\ q.sm = x
  <2> HIDE DEF x
  <2> QED BY <1>1, SendingFacts, ConstantsTyped DEF AnswerTaken, ChannelState
<1> HIDE DEF x, q
<1>4. Milder(r, q) /\ q \in ChannelState /\ r \in ChannelState
  BY <1>1, <1>3, SendingFacts, ZeroedCounts DEF AnswerTaken, Milder, Light, LightBackup
<1>5. CASE q.sm.granted
  <2>1. PairingGranted(q) \in Sound
    BY <1>3, PairingGrantedIsSound
  <2> DEFINE g == [q EXCEPT !.sm.granted = FALSE]
             y == [q.sm EXCEPT !.granted = FALSE]
  <2>2. /\ y \in StateMachine /\ ~y.granted /\ y.reply = q.sm.reply /\ y.add = q.sm.add
        /\ y.del = q.sm.del /\ y.response = q.sm.response /\ y.pMac = q.sm.pMac
        /\ y.device = q.sm.device /\ y.cmd = q.sm.cmd /\ (y.request => q.sm.request)
    BY <1>3 DEF AnswerTaken, StateMachine
  <2>3. g = [q EXCEPT !.sm = y]
    BY <1>4 DEF ChannelState
  <2> HIDE DEF y
  <2>4. AnswerTaken(r, g) /\ ~g.sm.granted
    BY <1>3, <2>2, <2>3 DEF AnswerTaken, ChannelState
  <2> HIDE DEF g
  <2>5. Deletable(g)
    BY <2>4, AnswerTakenIsSound, SendingFacts DEF Sound
  <2>6. Milder(q, PairingGranted(q))
    BY <1>4, <2>5, PairingGrantedIsMilder DEF g
  <2>7. QED
    BY <1>2, <1>4, <1>5, <2>1, <2>6, MilderOn, MilderWears, SendingFacts DEF Sound
<1>6. CASE ~q.sm.granted
  <2>1. ~r.pairFlag
    BY <1>1, <1>3, <1>6 DEF Sending, AnswerAgrees
  <2>2. q \in Sound /\ ~q.pairFlag
    BY <1>3, <1>6, <2>1, AnswerTakenIsSound DEF AnswerTaken
  <2>3. Wears(r, q) /\ Wears(q, PairingRefused(q))
    BY <1>4, <2>2, MilderWears, PairingRefusedWears
  <2>4. PairingRefused(q) \in ChannelState
    BY <1>3, <1>6, <2>1, PairingRefusedIsSound, SendingFacts DEF Sound
  <2>5. QED
    BY <1>2, <1>4, <1>6, <2>3, <2>4, WearsOn
<1>7. QED
  BY <1>5, <1>6

\* An answer with data: the losses are forgiven, and the timeout has stopped.
LEMMA DataAnsweredServes ==
  ASSUME NEW r \in Sound
  PROVE  Serves(r, DataAnswered(r)) /\ DataAnswered(r).pairFlag = r.pairFlag
<1> DEFINE x == [r.sm EXCEPT !.response = FALSE, !.cnt_disconnect = 0]
           b == [r.bak EXCEPT !.receiveLoss_cnt = 0]
           bb == [b EXCEPT !.repair_itself = FALSE, !.repair_cnt = 0]
           q == [r EXCEPT !.sm = x, !.bak = b, !.timeout = NoTimeout, !.rx_busy = FALSE]
           z == IF q.pairFlag THEN q ELSE [q EXCEPT !.sm = Zeroed]
           v == IF z.bak.repair_itself /\ z.pairFlag THEN [z EXCEPT !.bak = bb] ELSE z
<1>0. r \in ChannelState /\ r.sm \in StateMachine /\ r.bak \in Backup
  BY SendingFacts DEF Sound
<1>1. /\ x.cnt_disconnect = 0 /\ ~x.response /\ x.retry = r.sm.retry
      /\ x.timeout = r.sm.timeout
  BY <1>0 DEF StateMachine
<1>2. LightBackup(b, r.bak) /\ LightBackup(bb, r.bak)
  BY <1>0 DEF Backup, LightBackup
<1>3. q.sm = x /\ q.bak = b /\ q.timeout = NoTimeout /\ q.pairFlag = r.pairFlag
  BY <1>0 DEF ChannelState
<1>4. /\ z.bak = b /\ z.timeout = NoTimeout /\ z.pairFlag = r.pairFlag
      /\ z.sm = x \/ z.sm = Zeroed
  <2> HIDE DEF x, b
  <2> QED BY <1>0, <1>3 DEF ChannelState
<1>5. /\ v.bak = b \/ v.bak = bb
      /\ v.timeout = NoTimeout /\ v.pairFlag = r.pairFlag
      /\ v.sm = x \/ v.sm = Zeroed
  <2> HIDE DEF x, b, bb
  <2> QED BY <1>0, <1>4 DEF ChannelState
<1>6. DataAnswered(r) = v
  BY <1>0 DEF DataAnswered, Wifi_Request_Timeout_Clear, ChannelState
<1> HIDE DEF x, b, bb, q, z, v
<1>7. Within(r) => Within(v)
  BY <1>0, <1>1, <1>2, <1>5, CountTypes, ZeroedCounts, LimitFacts DEF Within, LightBackup
<1>8. QED
  BY <1>1, <1>5, <1>6, <1>7, ZeroedCounts DEF Serves

\* A packet that is sent starts its timeout.
LEMMA SentIsMilder ==
  ASSUME NEW r \in ChannelState, NEW result
  PROVE  Milder(r, Sent(r, result))
<1> DEFINE s == Sent(r, result)
<1>1. /\ s.sm = r.sm /\ s.bak = r.bak /\ s.pairFlag = r.pairFlag
      /\ ~s.timeout.active \/ s.timeout.count = 0
  BY DEF Sent, DropRequest, Wifi_Request_Timeout_Clear, Wifi_Request_Timeout_Start,
         NoTimeout, ChannelState
<1> HIDE DEF s
<1>2. QED
  BY <1>1 DEF Milder, Light, LightBackup, s

\* A request that has expired counts one loss, and is not out any more.
LEMMA TimeoutWears ==
  ASSUME NEW r \in Sound
  PROVE  LET s == Wifi_Request_Timeout_Handle(r) IN Wears(r, s) /\ ~s.timeout.active
<1> DEFINE n == r.sm.cnt_disconnect + 1
           x == [r.sm EXCEPT !.cnt_disconnect = n]
           y == [r.sm EXCEPT !.cnt_disconnect = 0]
           w == [x EXCEPT !.state = "PAIRED"]
           b == [r.bak EXCEPT !.receiveLoss_cnt = (@ + 1) % LOSS_WRAP]
           q == [r EXCEPT !.timeout = NoTimeout, !.sm = x]
           gone == [r EXCEPT !.sm = y, !.timeout = NoTimeout, !.rx_busy = FALSE]
           left == IF gone.pairFlag THEN del_peer(gone) ELSE gone
<1>0. /\ r \in Sending /\ r \in ChannelState /\ r.sm \in StateMachine /\ r.bak \in Backup
      /\ n \in Nat
  BY SendingFacts, CountTypes DEF Sound
<1>1. /\ y \in StateMachine /\ y.cnt_disconnect = 0 /\ y.response = r.sm.response
      /\ y.retry = r.sm.retry /\ y.timeout = r.sm.timeout
      /\ w.cnt_disconnect = n /\ w.response = r.sm.response
      /\ w.retry = r.sm.retry /\ w.timeout = r.sm.timeout
      /\ [x EXCEPT !.cnt_disconnect = 0] = y /\ x.cnt_disconnect = n
  <2> HIDE DEF n
  <2> QED BY <1>0 DEF StateMachine
<1>2. /\ b.repair_cnt = r.bak.repair_cnt /\ b.receiveLoss_cnt < LOSS_WRAP
  <2>1. (r.bak.receiveLoss_cnt + 1) % LOSS_WRAP \in 0..(LOSS_WRAP - 1)
    BY <1>0, CountTypes, LimitFacts
  <2>2. QED
    BY <1>0, <2>1, LimitFacts DEF Backup
<1>3. /\ gone \in ChannelState /\ gone.sm = y /\ gone.bak = r.bak /\ gone.timeout = NoTimeout
      /\ gone.pairFlag = r.pairFlag /\ gone.typeAddr = r.typeAddr /\ gone.status = r.status
      /\ q.sm = x
  <2> HIDE DEF y, x, n
  <2> QED BY <1>0, <1>1, ConstantsTyped DEF ChannelState
<1>4. Wifi_Request_Timeout_Handle(r) =
        CASE n >= SETUP_DISCONNECT_MAX -> Disconnected(gone)
          [] n < SETUP_DISCONNECT_MAX /\ r.pairFlag -> [q EXCEPT !.bak = b, !.sm = w]
          [] OTHER -> [q EXCEPT !.awaiting = NoCommand, !.rx_busy = FALSE, !.sm = Zeroed]
  <2> DEFINE p == [Wifi_Request_Timeout_Clear(r) EXCEPT !.sm.cnt_disconnect = @ + 1]
  <2>1. p = q
    BY <1>0 DEF Wifi_Request_Timeout_Clear, ChannelState
  <2>2. [q EXCEPT !.sm.cnt_disconnect = 0, !.rx_busy = FALSE] = gone
    <3> HIDE DEF x, y
    <3> QED BY <1>0, <1>1, <1>3 DEF ChannelState
  <2>3. [q EXCEPT !.bak.receiveLoss_cnt = (@ + 1) % LOSS_WRAP, !.sm.state = "PAIRED"]
          = [q EXCEPT !.bak = b, !.sm = w]
    <3> HIDE DEF x
    <3> QED BY <1>0, <1>3 DEF ChannelState
  <2> HIDE DEF gone, q, p, b, w, n, x
  <2>4. QED
    BY <1>1, <1>3, <2>1, <2>2, <2>3 DEF Wifi_Request_Timeout_Handle, p
<1> HIDE DEF x, y, w, b
<1>5. CASE n >= SETUP_DISCONNECT_MAX
  <2>1. Deletable(gone)
    BY <1>0, <1>3, SendingFacts DEF Deletable
  <2> HIDE DEF gone, n, q
  <2>2. Wifi_Request_Timeout_Handle(r) = Disconnected(gone)
    BY <1>0, <1>4, <1>5, LimitFacts
  <2>3. CASE r.pairFlag
    <3> DEFINE d == del_peer(gone)
               s == [d EXCEPT !.sm = Zeroed]
    <3>1. /\ d \in ChannelState /\ ~d.pairFlag /\ ~d.timeout.active /\ Milder(gone, d)
      BY <2>1, DelPeerFields, DelPeerIsMilder, ZeroedCounts DEF Deleted
    <3>2. Wifi_Request_Timeout_Handle(r) = IF d.bak.repair_itself THEN d ELSE s
      BY <1>3, <2>2, <2>3 DEF Disconnected
    <3> HIDE DEF d
    <3>3. Milder(r, d)
      BY <1>1, <1>3, <3>1 DEF Milder, Light, LightBackup
    <3>4. s \in ChannelState /\ Milder(d, s) /\ ~s.timeout.active
      BY <3>1, ZeroedFields, ZeroedIsMilder DEF ChannelState
    <3> HIDE DEF s
    <3>5. Wears(r, d) /\ Wears(r, s)
      BY <1>0, <3>1, <3>3, <3>4, MilderOn, MilderWears
    <3>6. QED
      BY <3>1, <3>2, <3>4, <3>5
  <2>4. CASE ~r.pairFlag
    <3> DEFINE s == [gone EXCEPT !.sm = Zeroed]
    <3>1. Wifi_Request_Timeout_Handle(r) = IF gone.bak.repair_itself THEN gone ELSE s
      BY <1>3, <2>2, <2>4 DEF Disconnected
    <3>2. Milder(r, gone) /\ ~gone.timeout.active
      BY <1>1, <1>3, <2>4, ZeroedCounts DEF Milder, Light, LightBackup
    <3>3. s \in ChannelState /\ Milder(gone, s) /\ ~s.timeout.active
      BY <1>3, <2>4, <3>2, ZeroedFields, ZeroedIsMilder DEF ChannelState
    <3> HIDE DEF s
    <3>4. Wears(r, gone) /\ Wears(r, s)
      BY <1>0, <1>3, <3>2, <3>3, MilderOn, MilderWears
    <3>5. QED
      BY <3>1, <3>2, <3>3, <3>4
  <2>5. QED
    BY <2>3, <2>4
<1>6. CASE n < SETUP_DISCONNECT_MAX /\ r.pairFlag
  <2> DEFINE s == [q EXCEPT !.bak = b, !.sm = w]
  <2>1. Wifi_Request_Timeout_Handle(r) = s
    BY <1>0, <1>4, <1>6, LimitFacts
  <2>2. s.sm = w /\ s.bak = b /\ s.timeout = NoTimeout /\ s.pairFlag = r.pairFlag
    BY <1>0 DEF ChannelState
  <2> HIDE DEF s
  <2>3. Within(r) => Within(s)
    BY <1>1, <1>2, <1>6, <2>2 DEF Within
  <2>4. r.sm.cnt_disconnect <= s.sm.cnt_disconnect
    BY <1>1, <2>2, CountTypes, <1>0
  <2>5. QED
    BY <1>1, <2>1, <2>2, <2>3, <2>4, ZeroedCounts DEF Wears, Serves
<1>7. CASE n < SETUP_DISCONNECT_MAX /\ ~r.pairFlag
  <2> DEFINE s == [q EXCEPT !.awaiting = NoCommand, !.rx_busy = FALSE, !.sm = Zeroed]
  <2>1. Wifi_Request_Timeout_Handle(r) = s
    BY <1>0, <1>4, <1>7, LimitFacts
  <2>2. s.sm = Zeroed /\ s.bak = r.bak /\ s.timeout = NoTimeout /\ s.pairFlag = r.pairFlag
    BY <1>0 DEF ChannelState
  <2> HIDE DEF s
  <2>3. Within(r) => Within(s)
    BY <2>2, ZeroedCounts, LimitFacts DEF Within
  <2>4. QED
    BY <1>7, <2>1, <2>2, <2>3, ZeroedCounts DEF Wears, Serves
<1>8. QED
  BY <1>0, <1>5, <1>6, <1>7, LimitFacts

\* A repair that goes on counts its attempts, one that does not is forgotten.
LEMMA RepairAgainWears ==
  ASSUME NEW r \in Sound, ~r.pairFlag, r.bak.repair_itself
  PROVE  Wears(r, RepairAgain(r))
<1> DEFINE n == r.bak.repair_cnt + 1
           m == (r.bak.receiveLoss_cnt + 1) % LOSS_WRAP
           a == Wifi_Peer_State_Set_Add(r, r.typeAddr)
           b == [r.bak EXCEPT !.repair_cnt = n, !.receiveLoss_cnt = m]
           again == [a EXCEPT !.bak = b]
           f == [r.bak EXCEPT !.repair_cnt = n, !.receiveLoss_cnt = SETUP_RECEVIELOSS_MAX + 1]
           failed == [r EXCEPT !.bak = f]
           none == [Idle EXCEPT !.told = r.told]
<1>0. /\ r \in Sending /\ r \in ChannelState /\ r.sm \in StateMachine /\ r.bak \in Backup
      /\ n \in Nat
  BY SendingFacts, CountTypes DEF Sound
<1>1. r.typeAddr \in TypeAddr
  BY <1>0 DEF Sending, RepairAgrees, ChannelState
<1>2. a \in ChannelState /\ Milder(r, a) /\ a.bak = r.bak /\ ~a.timeout.active
  BY <1>0, <1>1, SetAddFields, SetAddIsMilder, ZeroedCounts
<1>3. m \in 0..(LOSS_WRAP - 1)
  BY <1>0, CountTypes, LimitFacts
<1> HIDE DEF a, n, m
<1>4. /\ b.repair_cnt = n /\ b.receiveLoss_cnt = m
      /\ f.receiveLoss_cnt = SETUP_RECEVIELOSS_MAX + 1
  BY <1>0 DEF Backup
<1> HIDE DEF b, f
<1>5. /\ again.bak = b /\ again.sm = a.sm /\ again.pairFlag = a.pairFlag
      /\ again.timeout = a.timeout /\ failed.bak = f
  BY <1>0, <1>2 DEF ChannelState
<1>6. RepairAgain(r) =
        LET q == IF n < SETUP_REPAIR_MAX THEN again ELSE failed IN
        IF q.bak.receiveLoss_cnt > SETUP_RECEVIELOSS_MAX THEN none ELSE q
  <2>1. [a EXCEPT !.bak.repair_cnt = n, !.bak.receiveLoss_cnt = (@ + 1) % LOSS_WRAP] = again
    BY <1>0, <1>2 DEF ChannelState, Backup, b, m
  <2>2. [r EXCEPT !.bak.repair_cnt = n, !.bak.receiveLoss_cnt = SETUP_RECEVIELOSS_MAX + 1] = failed
    BY <1>0 DEF ChannelState, Backup, f
  <2>3. QED
    BY <2>1, <2>2 DEF RepairAgain, a, n
<1> HIDE DEF again, failed
<1>7. Wears(r, none)
  <2>1. /\ none.sm = Zeroed /\ none.bak = NoBackup /\ none.timeout = NoTimeout /\ ~none.pairFlag
    BY DEF Idle
  <2> HIDE DEF none
  <2>2. Milder(r, none)
    BY <2>1, ZeroedCounts DEF Milder, Light, LightBackup
  <2>3. none \in ChannelState
    BY <1>0, IdleIsSound, SendingFacts DEF none, Sound, ChannelState
  <2>4. QED
    BY <1>0, <2>2, <2>3, MilderWears
<1>8. CASE n < SETUP_REPAIR_MAX
  <2>1. Wears(r, a)
    BY <1>0, <1>2, MilderWears
  <2>2. Wears(r, again)
    <3>1. Within(r) => Within(again)
      BY <1>3, <1>4, <1>5, <1>8, <2>1, LimitFacts DEF Wears, Serves, Within
    <3>2. QED
      BY <1>2, <1>5, <2>1, <3>1 DEF Wears, Serves
  <2>3. QED
    BY <1>6, <1>7, <1>8, <2>2
<1>9. CASE ~(n < SETUP_REPAIR_MAX)
  <2>1. failed.bak.receiveLoss_cnt > SETUP_RECEVIELOSS_MAX
    BY <1>4, <1>5, TimeAssumption
  <2>2. QED
    BY <1>6, <1>7, <1>9, <2>1
<1>10. QED
  BY <1>8, <1>9

LEMMA RotateOutWears ==
  ASSUME NEW r \in Sound, ~r.timeout.active
  PROVE  Wears(r, RotateOut(r))
<1> DEFINE s == RotateOut(r)
<1>0. /\ r \in Sending /\ r \in ChannelState /\ r.sm \in StateMachine /\ Deletable(r)
  BY SendingFacts DEF Sound
<1>1. s \in ChannelState
  BY RotateOutIsSound, SendingFacts DEF Sound
<1>2. CASE r.pairFlag /\ r.sm.del
  <2> DEFINE q == [r EXCEPT !.awaiting = NoCommand, !.rx_busy = FALSE, !.sm = Zeroed]
  <2>1. s = del_peer(q)
    BY <1>2 DEF RotateOut
  <2>2. /\ q \in ChannelState /\ q.sm = Zeroed /\ q.pairFlag = r.pairFlag /\ q.bak = r.bak
        /\ q.typeAddr = r.typeAddr /\ q.status = r.status /\ q.timeout = r.timeout
    BY <1>0, ZeroedFields, ConstantsTyped DEF ChannelState
  <2> HIDE DEF q, s
  <2>3. Deletable(q)
    BY <1>0, <2>2 DEF Deletable
  <2>4. Milder(q, s) /\ ~s.pairFlag
    BY <2>1, <2>3, DelPeerIsMilder, DelPeerFields DEF Deleted
  <2>5. Milder(r, s)
    BY <2>2, <2>4, ZeroedCounts DEF Milder, Light, LightBackup
  <2>6. QED
    BY <1>0, <1>1, <2>5, MilderWears DEF s
<1>3. CASE r.pairFlag /\ ~r.sm.del
  <2> DEFINE x == [r.sm EXCEPT !.state = "PAIRED"]
  <2>1. /\ x.cnt_disconnect = r.sm.cnt_disconnect /\ x.response = r.sm.response
        /\ x.retry = r.sm.retry /\ x.timeout = r.sm.timeout
    BY <1>0 DEF StateMachine
  <2>2. s = [r EXCEPT !.sm = x]
    BY <1>0, <1>3 DEF RotateOut, ChannelState
  <2> HIDE DEF x
  <2>3. QED
    BY <1>0, <1>1, <2>1, <2>2, MachineIsMilder, MilderWears DEF Light
<1>4. CASE ~r.pairFlag /\ r.sm.reply
  <2>1. s = [r EXCEPT !.sm = Zeroed]
    BY <1>4 DEF RotateOut
  <2>2. QED
    BY <1>0, <1>1, <1>4, <2>1, ZeroedIsMilder, MilderWears
<1>5. CASE ~r.pairFlag /\ ~r.sm.reply /\ r.sm.request
  <2> DEFINE x == [r.sm EXCEPT !.request = FALSE]
  <2>1. /\ x.cnt_disconnect = r.sm.cnt_disconnect /\ x.response = r.sm.response
        /\ x.retry = r.sm.retry /\ x.timeout = r.sm.timeout
    BY <1>0 DEF StateMachine
  <2>2. s = [r EXCEPT !.sm = x]
    BY <1>0, <1>5 DEF RotateOut, ChannelState
  <2> HIDE DEF x
  <2>3. QED
    BY <1>0, <1>1, <2>1, <2>2, MachineIsMilder, MilderWears DEF Light
<1>6. CASE ~r.pairFlag /\ ~r.sm.reply /\ ~r.sm.request /\ r.bak.repair_itself
  BY <1>6, RepairAgainWears DEF RotateOut
<1>7. CASE ~r.pairFlag /\ ~r.sm.reply /\ ~r.sm.request /\ ~r.bak.repair_itself
  <2>1. s = r
    BY <1>7 DEF RotateOut
  <2>2. QED
    BY <1>0, <2>1, MilderAlone, MilderWears
<1>8. QED
  BY <1>2, <1>3, <1>4, <1>5, <1>6, <1>7

\* Time moves only the count of a timeout, by one.
LEMMA AgedFields ==
  ASSUME NEW r \in ChannelState
  PROVE  LET s == Aged(r) IN
         /\ s.sm = r.sm /\ s.bak = r.bak /\ s.pairFlag = r.pairFlag
         /\ s.timeout.active = r.timeout.active /\ s.timeout.limit = r.timeout.limit
         /\ s.timeout.count \in {r.timeout.count, r.timeout.count + 1}
<1> DEFINE t == [r.timeout EXCEPT !.count = @ + 1]
           s == [r EXCEPT !.timeout = t]
<1>1. /\ t.active = r.timeout.active /\ t.limit = r.timeout.limit
      /\ t.count = r.timeout.count + 1
  BY DEF ChannelState, Timeout
<1>2. Aged(r) = s \/ Aged(r) = r
  BY DEF Aged, ChannelState
<1> HIDE DEF t
<1>3. s.sm = r.sm /\ s.bak = r.bak /\ s.pairFlag = r.pairFlag /\ s.timeout = t
  BY DEF ChannelState
<1>4. QED
  BY <1>1, <1>2, <1>3

-----------------------------------------------------------------------------
(* The phases of Wifi_Handle(): what they do to the channels *)

Worn(f, g) == \A c \in Channel : Wears(f[c], g[c])

\* A phase that wears its channels, and notes an answer with data only when its
\* channel has one.
WearsThrough(h, z) ==
    Worn(h.ch, z.ch) /\ (z.save => h.save \/ h.ch[h.channel].sm.response)

LEMMA WornAlone ==
  ASSUME NEW f \in [Channel -> ChannelState]
  PROVE  Worn(f, f)
  BY MilderAlone, MilderWears DEF Worn

LEMMA WornOn ==
  ASSUME NEW f \in [Channel -> ChannelState], NEW g \in [Channel -> ChannelState],
         NEW k \in [Channel -> ChannelState], Worn(f, g), Worn(g, k)
  PROVE  Worn(f, k)
  BY WearsOn DEF Worn

LEMMA OneWorn ==
  ASSUME NEW f \in [Channel -> ChannelState], NEW d \in Channel, NEW s, Wears(f[d], s)
  PROVE  Worn(f, [f EXCEPT ![d] = s])
<1>1. SUFFICES ASSUME NEW c \in Channel PROVE Wears(f[c], [f EXCEPT ![d] = s][c])
  BY DEF Worn
<1>2. CASE c = d
  BY <1>2
<1>3. CASE c # d
  BY <1>3, WornAlone DEF Worn
<1>4. QED
  BY <1>2, <1>3

LEMMA ThroughAgain ==
  ASSUME NEW h \in Call, NEW q \in Call, NEW z \in Call, q.channel = h.channel,
         WearsThrough(h, q), WearsThrough(q, z)
  PROVE  WearsThrough(h, z)
<1>1. /\ h.ch \in [Channel -> ChannelState] /\ q.ch \in [Channel -> ChannelState]
      /\ z.ch \in [Channel -> ChannelState] /\ h.channel \in Channel
  BY SendingFacts DEF Call, View, Sound
<1>2. Worn(h.ch, z.ch)
  BY <1>1, WornOn DEF WearsThrough
<1>3. q.ch[h.channel].sm.response => h.ch[h.channel].sm.response
  BY <1>1 DEF WearsThrough, Worn, Wears, Serves
<1>4. QED
  BY <1>2, <1>3 DEF WearsThrough

\* The bookkeeping of a channel: its state, and its count of calls.
LEMMA StateWorn ==
  ASSUME NEW f \in [Channel -> ChannelState], NEW d \in Channel, NEW state \in State,
         NEW g, g = [f EXCEPT ![d].sm.state = state]
  PROVE  Worn(f, g) /\ g \in [Channel -> ChannelState]
<1> DEFINE r == f[d]
           x == [r.sm EXCEPT !.state = state]
           s == [r EXCEPT !.sm = x]
<1>1. r \in ChannelState /\ r.sm \in StateMachine
  BY CountTypes
<1>2. /\ x.cnt_disconnect = r.sm.cnt_disconnect /\ x.response = r.sm.response
      /\ x.retry = r.sm.retry /\ x.timeout = r.sm.timeout /\ x \in StateMachine
  BY <1>1 DEF StateMachine
<1>3. g = [f EXCEPT ![d] = s]
  BY <1>1 DEF ChannelState
<1> HIDE DEF x
<1>4. s \in ChannelState /\ Wears(r, s)
  BY <1>1, <1>2, MachineIsMilder, MilderWears DEF ChannelState, Light
<1> HIDE DEF s
<1>5. Worn(f, [f EXCEPT ![d] = s]) /\ [f EXCEPT ![d] = s] \in [Channel -> ChannelState]
  BY <1>4, OneWorn
<1>6. QED
  BY <1>3, <1>5

LEMMA CountWorn ==
  ASSUME NEW f \in [Channel -> ChannelState], NEW d \in Channel, NEW n \in Nat, n <= DEL_WAIT,
         NEW g, g = [f EXCEPT ![d].sm.timeout = n]
  PROVE  Worn(f, g) /\ g \in [Channel -> ChannelState]
<1> DEFINE r == f[d]
           x == [r.sm EXCEPT !.timeout = n]
           s == [r EXCEPT !.sm = x]
<1>1. r \in ChannelState /\ r.sm \in StateMachine
  BY CountTypes
<1>2. /\ x.cnt_disconnect = r.sm.cnt_disconnect /\ x.response = r.sm.response
      /\ x.retry = r.sm.retry /\ x.timeout = n /\ x \in StateMachine
  BY <1>1 DEF StateMachine
<1>3. g = [f EXCEPT ![d] = s]
  BY <1>1 DEF ChannelState
<1> HIDE DEF x
<1>4. /\ s.sm = x /\ s.bak = r.bak /\ s.pairFlag = r.pairFlag /\ s.timeout = r.timeout
      /\ s \in ChannelState
  BY <1>1, <1>2 DEF ChannelState
<1> HIDE DEF s
<1>5. Wears(r, s)
  BY <1>1, <1>2, <1>4, CountTypes DEF Wears, Serves, Within
<1>6. Worn(f, [f EXCEPT ![d] = s]) /\ [f EXCEPT ![d] = s] \in [Channel -> ChannelState]
  BY <1>4, <1>5, OneWorn
<1>7. QED
  BY <1>3, <1>6

LEMMA RestartWorn ==
  ASSUME NEW f \in [Channel -> ChannelState], NEW d \in Channel
  PROVE  /\ Worn(f, [f EXCEPT ![d].sm.timeout = 0])
         /\ [f EXCEPT ![d].sm.timeout = 0] \in [Channel -> ChannelState]
<1>1. 0 \in Nat /\ 0 <= DEL_WAIT
  BY LimitFacts
<1>2. QED
  BY <1>1, CountWorn

LEMMA RestartIsCall ==
  ASSUME NEW h \in Call
  PROVE  [h EXCEPT !.ch[h.channel].sm.timeout = 0] \in Call
<1>1. 0 \in Nat /\ "READY" \in State
  BY DEF State
<1>2. GoesOn(h, [h EXCEPT !.ch[h.channel].sm.timeout = 0])
  BY <1>1, MachineStepIsCall
<1>3. QED
  BY <1>2 DEF GoesOn

LEMMA ReadyStepWears ==
  ASSUME NEW h \in Call
  PROVE  WearsThrough(h, ReadyStep(h))
<1> DEFINE c == h.channel
           q == [h EXCEPT !.ch[c].sm.timeout = 0]
           e == Enqueue(q)
           z == [e EXCEPT !.ch[c].sm.state = "PAIRING_ADD",
                          !.cnt_loop = 0, !.setTime = SET_TIME_PAIRING]
<1>1. /\ h.ch \in [Channel -> ChannelState] /\ c \in Channel
  BY SendingFacts DEF Call, View, Sound
<1>2. q.ch = [h.ch EXCEPT ![c].sm.timeout = 0] /\ q.save = h.save /\ q \in Call
  BY RestartIsCall DEF Call, View
<1>3. ReadyStep(h) \in {q, e, z}
  <2> HIDE DEF q, e, z
  <2>1. CASE ~(h.ch[c].sm.request /\ HasRoom(h))
    BY <2>1 DEF ReadyStep, q
  <2>2. CASE h.ch[c].sm.request /\ HasRoom(h) /\ h.ch[c].sm.add
    BY <2>2 DEF ReadyStep, q, e, z
  <2>3. CASE h.ch[c].sm.request /\ HasRoom(h) /\ ~h.ch[c].sm.add
    BY <2>3 DEF ReadyStep, q, e
  <2>4. QED
    BY <2>1, <2>2, <2>3
<1> HIDE DEF q
<1>4. /\ e.ch = q.ch /\ e.save = h.save
       /\ z.ch = [q.ch EXCEPT ![c].sm.state = "PAIRING_ADD"] /\ z.save = h.save
  BY <1>2 DEF Call, View, Enqueue
<1> HIDE DEF e, z
<1>5. Worn(h.ch, q.ch) /\ q.ch \in [Channel -> ChannelState]
  BY <1>1, <1>2, RestartWorn
<1>6. Worn(q.ch, z.ch) /\ z.ch \in [Channel -> ChannelState]
  <2>1. "PAIRING_ADD" \in State
    BY DEF State
  <2>2. QED
    BY <1>1, <1>4, <1>5, <2>1, StateWorn
<1>7. Worn(h.ch, z.ch)
  BY <1>1, <1>5, <1>6, WornOn
<1>8. QED
  BY <1>2, <1>3, <1>4, <1>5, <1>7 DEF WearsThrough

LEMMA PairedRequestStepWears ==
  ASSUME NEW h \in Call
  PROVE  WearsThrough(h, PairedRequestStep(h))
<1> DEFINE c == h.channel
           r == h.ch[c]
           q == [h EXCEPT !.setTime = SET_TIME_PAIRING]
           e == Enqueue(q)
           p == [r EXCEPT !.sm = Zeroed]
           x == [r.sm EXCEPT !.response = FALSE]
           y == [x EXCEPT !.state = "PAIRING_DEL"]
           s == [r EXCEPT !.sm = y]
           ends == [e EXCEPT !.ch[c].sm.response = FALSE, !.ch[c].sm.state = "PAIRING_DEL",
                             !.cnt_loop = 0]
           waits == [e EXCEPT !.ch[c].sm.state = "WAIT"]
           drops == [e EXCEPT !.ch[c] = del_peer(p)]
<1>0. /\ h.ch \in [Channel -> ChannelState] /\ c \in Channel /\ r \in Sound
      /\ r \in ChannelState /\ r.sm \in StateMachine
  BY CallFacts, SendingFacts DEF Call, View, Sound
<1>1. /\ q.ch = h.ch /\ q.save = h.save /\ e.ch = h.ch /\ e.save = h.save
      /\ ends.save = h.save /\ waits.save = h.save /\ drops.save = h.save
      /\ waits.ch = [h.ch EXCEPT ![c].sm.state = "WAIT"]
      /\ drops.ch = [h.ch EXCEPT ![c] = del_peer(p)]
  BY DEF Call, View, Enqueue
<1>2. ends.ch = [h.ch EXCEPT ![c] = s]
  <2>1. ends.ch = [h.ch EXCEPT ![c].sm.response = FALSE, ![c].sm.state = "PAIRING_DEL"]
    BY DEF Call, View, Enqueue
  <2>2. QED
    BY <1>0, <2>1 DEF ChannelState
<1> HIDE DEF q, e, p, ends, waits, drops
<1>3. \/ PairedRequestStep(h) \in {q, ends, waits}
      \/ PairedRequestStep(h) = drops /\ ~r.pairFlag
  <2>1. HasRoom(q) = HasRoom(h) /\ q.ch = h.ch
    BY DEF HasRoom, q, Call, View
  <2>2. CASE ~HasRoom(h)
    BY <2>1, <2>2 DEF PairedRequestStep, q
  <2>3. CASE HasRoom(h) /\ r.sm.del
    BY <2>1, <2>3 DEF PairedRequestStep, q, e, ends
  <2>4. CASE HasRoom(h) /\ ~r.sm.del /\ r.pairFlag
    BY <2>1, <2>4 DEF PairedRequestStep, q, e, waits
  <2>5. CASE HasRoom(h) /\ ~r.sm.del /\ ~r.pairFlag
    BY <2>1, <2>5 DEF PairedRequestStep, q, e, p, drops
  <2>6. QED
    BY <2>2, <2>3, <2>4, <2>5
<1>4. Worn(h.ch, q.ch)
  BY <1>0, <1>1, WornAlone
<1>5. Worn(h.ch, waits.ch)
  <2>1. "WAIT" \in State
    BY DEF State
  <2>2. QED
    BY <1>0, <1>1, <2>1, StateWorn
<1>6. Worn(h.ch, ends.ch)
  <2>1. /\ y.cnt_disconnect = r.sm.cnt_disconnect /\ ~y.response
        /\ y.retry = r.sm.retry /\ y.timeout = r.sm.timeout /\ y \in StateMachine
    BY <1>0 DEF StateMachine, State
  <2> HIDE DEF y
  <2>2. s \in ChannelState /\ Wears(r, s)
    BY <1>0, <2>1, MachineIsMilder, MilderWears DEF ChannelState, Light
  <2> HIDE DEF s
  <2>3. QED
    BY <1>0, <1>2, <2>2, OneWorn
<1>7. ~r.pairFlag => Worn(h.ch, drops.ch)
  <2>1. SUFFICES ASSUME ~r.pairFlag PROVE Worn(h.ch, drops.ch)
    OBVIOUS
  <2>2. Deletable(p) /\ Milder(r, p)
    BY <1>0, <2>1, ZeroedIsMilder, ZeroedFields, SendingFacts
       DEF Sound, Deletable, ChannelState, p
  <2>3. Wears(r, del_peer(p))
    BY <1>0, <2>2, DelPeerIsMilder, DelPeerFields, MilderOn, MilderWears DEF Deleted
  <2>4. QED
    BY <1>0, <1>1, <2>3, OneWorn
<1>8. QED
  BY <1>1, <1>3, <1>4, <1>5, <1>6, <1>7 DEF WearsThrough

\* A data packet that is built.
LEMMA DataSetIsMilder ==
  ASSUME NEW r \in ChannelState, NEW cmd \in Command
  PROVE  /\ Wifi_Peer_Data_Set(FlagTaken(r, cmd), cmd) \in ChannelState
         /\ Milder(r, Wifi_Peer_Data_Set(FlagTaken(r, cmd), cmd))
<1> DEFINE us == r.sm.update_serial /\ cmd # "AP_SERIAL_SET"
           rs == r.sm.request_serial /\ cmd # "AP_SERIAL_GET"
           ui == r.sm.update_io /\ cmd # "AP_IO_SET"
           x == [r.sm EXCEPT !.update_serial = us, !.request_serial = rs, !.update_io = ui]
           y == [x EXCEPT !.cmd = cmd]
           s == [r EXCEPT !.sm = y, !.awaiting = NoCommand, !.timeout = NoTimeout,
                          !.rx_busy = FALSE]
<1>1. r.sm \in StateMachine /\ us \in BOOLEAN /\ rs \in BOOLEAN /\ ui \in BOOLEAN
  BY CountTypes
<1>2. FlagTaken(r, cmd) = [r EXCEPT !.sm = x]
  BY <1>1 DEF FlagTaken, ChannelState
<1> HIDE DEF us, rs, ui
<1>3. /\ y.cnt_disconnect = r.sm.cnt_disconnect /\ y.response = r.sm.response
      /\ y.retry = r.sm.retry /\ y.timeout = r.sm.timeout /\ y \in StateMachine
  BY <1>1 DEF StateMachine
<1>4. Wifi_Peer_Data_Set([r EXCEPT !.sm = x], cmd) = s
  <2> HIDE DEF x
  <2>1. QED
    BY DEF Wifi_Peer_Data_Set, DropRequest, Wifi_Request_Timeout_Clear, ChannelState
<1> HIDE DEF y
<1>5. /\ s.sm = y /\ s.bak = r.bak /\ s.pairFlag = r.pairFlag /\ s.timeout = NoTimeout
      /\ s \in ChannelState
  BY <1>3, ConstantsTyped DEF ChannelState
<1> HIDE DEF s, x
<1>6. Milder(r, s)
  BY <1>3, <1>5, ZeroedCounts DEF Milder, Light, LightBackup
<1>7. QED
  BY <1>2, <1>4, <1>5, <1>6

LEMMA PairedDataStepWears ==
  ASSUME NEW h \in Call
  PROVE  WearsThrough(h, PairedDataStep(h))
<1> DEFINE c == h.channel
           r == h.ch[c]
           cmd == DataWanted(r)
           s == Wifi_Peer_Data_Set(FlagTaken(r, cmd), cmd)
           e == [Enqueue(h) EXCEPT !.ch[c] = Wifi_Peer_Data_Set(FlagTaken(@, cmd), cmd),
                                   !.cnt_loop = IF cmd = "AP_IO_GET" THEN @ ELSE 0,
                                   !.setTime = SET_TIME_PAIRD]
           q == IF HasRoom(h) THEN e ELSE h
           z == [q EXCEPT !.ch[c].sm.state = "SEND"]
<1>1. h.ch \in [Channel -> ChannelState] /\ c \in Channel /\ r \in ChannelState
  BY CallFacts, SendingFacts DEF Call, View, Sound
<1>2. cmd \in Command
  BY DEF DataWanted, Command, DataCommand
<1>3. PairedDataStep(h) = z
  BY DEF PairedDataStep
<1> HIDE DEF cmd
<1>4. s \in ChannelState /\ Wears(r, s)
  BY <1>1, <1>2, DataSetIsMilder, MilderWears
<1>5. e.ch = [h.ch EXCEPT ![c] = s] /\ e.save = h.save
  BY DEF Call, View, Enqueue
<1>6. z.ch = [q.ch EXCEPT ![c].sm.state = "SEND"] /\ z.save = q.save
  BY DEF Call, View, Enqueue
<1> HIDE DEF s, e, z
<1>7. Worn(h.ch, e.ch) /\ e.ch \in [Channel -> ChannelState]
  <2>1. Worn(h.ch, [h.ch EXCEPT ![c] = s])
    BY <1>1, <1>4, OneWorn
  <2>2. QED
    BY <1>1, <1>4, <1>5, <2>1
<1>8. Worn(h.ch, q.ch) /\ q.ch \in [Channel -> ChannelState] /\ q.save = h.save
  BY <1>1, <1>5, <1>7, WornAlone
<1> HIDE DEF q
<1>9. Worn(q.ch, z.ch) /\ z.ch \in [Channel -> ChannelState]
  <2>1. "SEND" \in State
    BY DEF State
  <2>2. QED
    BY <1>1, <1>6, <1>8, <2>1, StateWorn
<1>10. Worn(h.ch, z.ch)
  BY <1>1, <1>8, <1>9, WornOn
<1>11. QED
  BY <1>3, <1>6, <1>8, <1>10 DEF WearsThrough

LEMMA PairedStepWears ==
  ASSUME NEW h \in Call
  PROVE  WearsThrough(h, PairedStep(h))
<1> DEFINE c == h.channel
           q == [h EXCEPT !.ch[c].sm.timeout = 0]
           noted == [q EXCEPT !.save = TRUE]
<1>1. h.ch \in [Channel -> ChannelState] /\ c \in Channel
  BY CallFacts, SendingFacts DEF Call, View, Sound
<1>2. /\ q \in Call /\ q.channel = c /\ q.save = h.save
      /\ q.ch = [h.ch EXCEPT ![c].sm.timeout = 0]
  BY RestartIsCall DEF Call, View
<1>3. PairedStep(h) = CASE q.ch[c].sm.request -> PairedRequestStep(q)
                        [] ~q.ch[c].sm.request /\ q.ch[c].sm.response -> noted
                        [] OTHER -> PairedDataStep(q)
  BY DEF PairedStep
<1>4. PairedStep(h) \in Call
  BY PairedStepIsCall DEF GoesOn
<1> HIDE DEF q
<1>5. WearsThrough(h, q)
  BY <1>1, <1>2, RestartWorn DEF WearsThrough
<1>6. q.ch \in [Channel -> ChannelState]
  BY <1>1, <1>2, RestartWorn
<1>7. CASE q.ch[c].sm.request
  <2>1. PairedStep(h) = PairedRequestStep(q)
    BY <1>3, <1>7
  <2>2. QED
    BY <1>2, <1>4, <1>5, <2>1, PairedRequestStepWears, ThroughAgain
<1>8. CASE ~q.ch[c].sm.request /\ q.ch[c].sm.response
  <2>1. PairedStep(h) = noted
    BY <1>3, <1>8
  <2>2. noted.ch = q.ch
    BY <1>2 DEF Call, View
  <2>3. WearsThrough(q, noted)
    BY <1>2, <1>6, <1>8, <2>2, WornAlone DEF WearsThrough
  <2>4. QED
    BY <1>2, <1>4, <1>5, <2>1, <2>3, ThroughAgain
<1>9. CASE ~q.ch[c].sm.request /\ ~q.ch[c].sm.response
  <2>1. PairedStep(h) = PairedDataStep(q)
    BY <1>3, <1>9
  <2>2. QED
    BY <1>2, <1>4, <1>5, <2>1, PairedDataStepWears, ThroughAgain
<1>10. QED
  BY <1>7, <1>8, <1>9

LEMMA PairingDelStepWears ==
  ASSUME NEW h \in Call
  PROVE  WearsThrough(h, PairingDelStep(h))
<1> DEFINE c == h.channel
           n == h.ch[c].sm.timeout + 1
           f == [h.ch EXCEPT ![c].sm.timeout = 0]
           ready == [h EXCEPT !.ch[c].sm.timeout = 0, !.ch[c].sm.state = "READY"]
           counts == [h EXCEPT !.ch[c].sm.timeout = @ + 1]
<1>1. /\ h.ch \in [Channel -> ChannelState] /\ c \in Channel /\ n \in Nat /\ DEL_WAIT \in Nat
  BY CallFacts, SendingFacts, CountTypes, LimitFacts DEF Call, View, Sound
<1>2. /\ PairingDelStep(h) \in {h, ready, counts}
      /\ PairingDelStep(h) = counts => n <= DEL_WAIT \/ PairingDelStep(h) \in {h, ready}
  BY <1>1 DEF PairingDelStep
<1>3. ready.save = h.save /\ counts.save = h.save
  BY DEF Call, View
<1>4. ready.ch = [f EXCEPT ![c].sm.state = "READY"]
  BY DEF Call, View
<1>5. counts.ch = [h.ch EXCEPT ![c].sm.timeout = n]
  BY DEF Call, View
<1> HIDE DEF n, ready, counts
<1>6. Worn(h.ch, f) /\ f \in [Channel -> ChannelState]
  BY <1>1, RestartWorn
<1> HIDE DEF f
<1>7. Worn(f, ready.ch) /\ ready.ch \in [Channel -> ChannelState]
  <2>1. "READY" \in State
    BY DEF State
  <2>2. QED
    BY <1>1, <1>4, <1>6, <2>1, StateWorn
<1>8. Worn(h.ch, ready.ch)
  BY <1>1, <1>6, <1>7, WornOn
<1>9. n <= DEL_WAIT => Worn(h.ch, counts.ch)
  BY <1>1, <1>5, CountWorn
<1>10. Worn(h.ch, h.ch)
  BY <1>1, WornAlone
<1>11. QED
  BY <1>2, <1>3, <1>8, <1>9, <1>10 DEF WearsThrough

LEMMA StateStepWears ==
  ASSUME NEW h \in Call
  PROVE  WearsThrough(h, StateStep(h))
<1> DEFINE state == h.ch[h.channel].sm.state
<1>1. StateStep(h) = CASE state = "READY" -> ReadyStep(h)
                       [] state = "PAIRED" -> PairedStep(h)
                       [] state = "PAIRING_DEL" -> PairingDelStep(h)
                       [] OTHER -> h
  BY DEF StateStep
<1> HIDE DEF state
<1>2. StateStep(h) \in {ReadyStep(h), PairedStep(h), PairingDelStep(h), h}
  BY <1>1
<1>3. WearsThrough(h, h)
  <2>1. h.ch \in [Channel -> ChannelState]
    BY SendingFacts DEF Call, View, Sound
  <2>2. QED
    BY <2>1, WornAlone DEF WearsThrough
<1>4. QED
  BY <1>2, <1>3, ReadyStepWears, PairedStepWears, PairingDelStepWears

LEMMA SendStepWears ==
  ASSUME NEW h \in Call, NEW result
  PROVE  LET z == SendStep(h, result) IN Worn(h.ch, z.ch) /\ z.save = h.save
<1> DEFINE z == SendStep(h, result)
           d == Head(h.queue)
           s == Sent(h.ch[d], result)
<1>1. h.ch \in [Channel -> ChannelState]
  BY SendingFacts DEF Call, View, Sound
<1>2. CASE h.queue = <<>> \/ (h.queue # <<>> /\ h.ch[d].rx_busy)
  <2>1. z = h
    BY <1>2 DEF SendStep
  <2>2. QED
    BY <1>1, <2>1, WornAlone
<1>3. CASE h.queue # <<>> /\ ~h.ch[d].rx_busy
  <2>1. z = [h EXCEPT !.channel = d, !.queue = Tail(h.queue), !.cnt_loop = 0, !.ch[d] = s]
    BY <1>3 DEF SendStep, Call, View
  <2>2. d \in Channel
    <3>1. h.queue \in Seq(Channel)
      BY DEF Call, View
    <3>2. QED
      BY <1>3, <3>1
  <2>3. s \in ChannelState /\ Milder(h.ch[d], s)
    <3>1. h.ch[d] \in Sound
      BY <2>2 DEF Call, View
    <3>2. QED
      BY <3>1, SentIsSending, SentIsMilder, SendingFacts DEF Sound
  <2> HIDE DEF s, z, d
  <2>4. z.ch = [h.ch EXCEPT ![d] = s] /\ z.save = h.save
    BY <2>1 DEF Call, View
  <2>5. Wears(h.ch[d], s)
    BY <1>1, <2>2, <2>3, MilderWears
  <2>6. Worn(h.ch, [h.ch EXCEPT ![d] = s])
    BY <1>1, <2>2, <2>5, OneWorn
  <2>7. QED
    BY <2>4, <2>6 DEF z
<1>4. QED
  BY <1>2, <1>3

LEMMA ResponseStepWears ==
  ASSUME NEW h \in SentCall
  PROVE  LET z == ResponseStep(h) IN
         /\ Worn(h.ch, z.ch) /\ z.channel = h.channel
         /\ z.save => h.save \/ h.ch[h.channel].sm.response
<1> DEFINE d == h.channel
           r == h.ch[d]
           s == PairingAnswered(r)
           z == ResponseStep(h)
<1>1. /\ d \in Channel /\ r \in Sending /\ h.ch \in [Channel -> ChannelState]
  BY SendingFacts DEF SentCall, View
<1>2. CASE r.rx_busy /\ r.sm.reply
  <2>1. z = [h EXCEPT !.ch[d] = s]
    BY <1>2 DEF ResponseStep
  <2>2. Wears(r, s)
    BY <1>1, <1>2, PairingAnsweredWears
  <2> HIDE DEF s, z
  <2>3. z.ch = [h.ch EXCEPT ![d] = s] /\ z.channel = d /\ z.save = h.save
    BY <2>1 DEF SentCall, View
  <2>4. Worn(h.ch, [h.ch EXCEPT ![d] = s])
    BY <1>1, <2>2, OneWorn
  <2>5. QED
    BY <2>3, <2>4 DEF z
<1>3. CASE ~(r.rx_busy /\ r.sm.reply)
  <2>1. z = h \/ (z = [h EXCEPT !.save = TRUE] /\ r.sm.response)
    BY <1>3 DEF ResponseStep
  <2> HIDE DEF z
  <2>2. z.ch = h.ch /\ z.channel = d /\ (z.save => h.save \/ r.sm.response)
    BY <2>1 DEF SentCall, View
  <2>3. QED
    BY <1>1, <2>2, WornAlone DEF z
<1>4. QED
  BY <1>2, <1>3

\* Only the channel of the call has its losses forgiven, when an answer was noted.
LEMMA SaveStepServes ==
  ASSUME NEW h \in Call, NEW c \in Channel
  PROVE  LET z == SaveStep(h) IN
         /\ Serves(h.ch[c], z.ch[c])
         /\ Wears(h.ch[c], z.ch[c]) \/ (h.save /\ c = h.channel)
<1> DEFINE d == h.channel
           s == DataAnswered(h.ch[d])
           z == SaveStep(h)
<1>1. /\ h.ch \in [Channel -> ChannelState] /\ d \in Channel /\ h.ch[d] \in Sound
  BY CallFacts, SendingFacts DEF Call, View, Sound
<1>2. Wears(h.ch[c], h.ch[c])
  BY <1>1, WornAlone DEF Worn
<1>3. CASE ~h.save \/ c # d
  <2>1. z.ch[c] = h.ch[c]
    BY <1>1, <1>3 DEF SaveStep, Call, View
  <2>2. QED
    BY <1>2, <2>1 DEF Wears
<1>4. CASE h.save /\ c = d
  <2>1. z.ch[c] = s
    BY <1>1, <1>4 DEF SaveStep, Call, View
  <2>2. QED
    BY <1>1, <1>4, <2>1, DataAnsweredServes
<1>5. QED
  BY <1>3, <1>4

LEMMA RotateStepWears ==
  ASSUME NEW h \in Call
  PROVE  Worn(h.ch, RotateStep(h).ch)
<1> DEFINE d == h.channel
           s == RotateOut(h.ch[d])
           z == RotateStep(h)
<1>1. /\ h.ch \in [Channel -> ChannelState] /\ d \in Channel /\ h.ch[d] \in Sound
  BY CallFacts, SendingFacts DEF Call, View, Sound
<1>2. \/ z.ch = h.ch
      \/ z.ch = [h.ch EXCEPT ![d] = s] /\ ~h.ch[d].timeout.active
  BY DEF RotateStep, Call, View
<1>3. Worn(h.ch, h.ch)
  BY <1>1, WornAlone
<1>4. ~h.ch[d].timeout.active => Worn(h.ch, [h.ch EXCEPT ![d] = s])
  BY <1>1, RotateOutWears, OneWorn
<1> HIDE DEF s, z
<1>5. QED
  BY <1>2, <1>3, <1>4 DEF z

-----------------------------------------------------------------------------
(* One call of Wifi_Handle() *)

\* The channels before time passes: served, losses forgiven for an answer only.
Served(f) ==
    \A c \in Channel :
        /\ Serves(ch[c], f[c])
        /\ Wears(ch[c], f[c]) \/ ch[c].sm.response \/ ch[peer_addr].sm.response

Passed(f) == [c \in Channel |-> Aged(f[c])]

\* A channel when time has passed, and when its request has ended if it is the one
\* the search has found.
Ended(f, c) ==
    IF c \in Expired(Passed(f)) THEN Wifi_Request_Timeout_Handle(Aged(f[c])) ELSE Aged(f[c])

Turns(f) ==
    next_expired_channel' \in
        IF Expired(Passed(f)) = {} THEN {next_expired_channel}
        ELSE {NextPeer(c) : c \in Expired(Passed(f))}

LEMMA ServesOn ==
  ASSUME NEW r, NEW s, NEW t, Serves(r, s), Serves(s, t)
  PROVE  Serves(r, t)
  BY DEF Serves

LEMMA HandleWorks ==
  ASSUME LinkInv, Wifi_Handle
  PROVE  \E f \in [Channel -> Sound] :
            Served(f) /\ Turns(f) /\ \A c \in Channel : Wears(Ended(f, c), ch'[c])
<1>1. PICK result \in SendResult :
        LET h == TimeoutStep(SaveStep(ResponseStep(SendStep(StateStep(Called), result))))
            z == RotateStep(h)
        IN  /\ ch' = z.ch
            /\ next_expired_channel' \in
                  IF h.expired = {} THEN {next_expired_channel}
                  ELSE {NextPeer(c) : c \in h.expired}
  BY DEF Wifi_Handle
<1> DEFINE a == StateStep(Called)
           b == SendStep(a, result)
           u == ResponseStep(b)
           v == SaveStep(u)
           w == TimeoutStep(v)
           z == RotateStep(w)
<1>2. /\ Called \in Call /\ Called.ch = ch /\ Called.channel = peer_addr /\ ~Called.save
  BY DEF Called, Call, View, LinkInv
<1>3. /\ a \in Call /\ Worn(ch, a.ch) /\ (a.save => ch[peer_addr].sm.response)
  BY <1>2, StateStepIsCall, StateStepWears DEF GoesOn, WearsThrough
<1> HIDE DEF a
<1>4. b \in SentCall /\ Worn(a.ch, b.ch) /\ b.save = a.save
  BY <1>3, SendStepIsCall, SendStepWears
<1> HIDE DEF b
<1>5. /\ u \in Call /\ Worn(b.ch, u.ch) /\ u.channel = b.channel
      /\ u.save => b.save \/ b.ch[b.channel].sm.response
  BY <1>4, ResponseStepIsCall, ResponseStepWears
<1> HIDE DEF u
<1>6. v \in Call
  BY <1>5, SaveStepIsCall DEF GoesOn
<1>7. \A c \in Channel :
         Serves(u.ch[c], v.ch[c]) /\ (Wears(u.ch[c], v.ch[c]) \/ (u.save /\ c = u.channel))
  BY <1>5, SaveStepServes
<1> HIDE DEF v
<1>8. w \in Call
  BY <1>6, TimeoutStepIsCall
<1>9. /\ w.expired = Expired(Passed(v.ch))
      /\ \A c \in Channel : w.ch[c] = Ended(v.ch, c)
  <2>1. w = [v EXCEPT !.ch = [c \in Channel |-> Ended(v.ch, c)],
                      !.expired = Expired(Passed(v.ch))]
    BY DEF TimeoutStep, Ended, Passed
  <2> HIDE DEF w
  <2>2. QED
    BY <1>6, <2>1 DEF Call, View
<1> HIDE DEF w
<1>10. Worn(w.ch, z.ch)
  BY <1>8, RotateStepWears
<1> HIDE DEF z
<1>11. /\ ch \in [Channel -> ChannelState] /\ a.ch \in [Channel -> ChannelState]
       /\ b.ch \in [Channel -> ChannelState] /\ u.ch \in [Channel -> ChannelState]
       /\ v.ch \in [Channel -> ChannelState] /\ b.channel \in Channel
  BY <1>3, <1>4, <1>5, <1>6, SendingFacts DEF LinkInv, SentCall, Call, View, Sound
<1>12. Worn(ch, b.ch) /\ Worn(ch, u.ch)
  BY <1>3, <1>4, <1>5, <1>11, WornOn
<1>13. Served(v.ch)
  <2>1. SUFFICES ASSUME NEW c \in Channel
        PROVE  /\ Serves(ch[c], v.ch[c])
               /\ Wears(ch[c], v.ch[c]) \/ ch[c].sm.response \/ ch[peer_addr].sm.response
    BY DEF Served
  <2>2. Serves(ch[c], v.ch[c])
    BY <1>7, <1>12, ServesOn DEF Worn, Wears
  <2>3. CASE Wears(u.ch[c], v.ch[c])
    BY <1>11, <1>12, <2>2, <2>3, WearsOn DEF Worn
  <2>4. CASE u.save /\ c = u.channel
    BY <1>3, <1>4, <1>5, <1>11, <1>12, <2>2, <2>4 DEF Worn, Wears, Serves
  <2>5. QED
    BY <1>7, <2>2, <2>3, <2>4
<1>14. Turns(v.ch)
  BY <1>1, <1>9 DEF Turns, a, b, u, v, w
<1>15. \A c \in Channel : Wears(Ended(v.ch, c), ch'[c])
  <2>1. ch' = z.ch
    BY <1>1 DEF a, b, u, v, w, z
  <2>2. QED
    BY <1>9, <1>10, <2>1 DEF Worn
<1>16. v.ch \in [Channel -> Sound]
  BY <1>6 DEF Call, View
<1>17. QED
  BY <1>13, <1>14, <1>15, <1>16

-----------------------------------------------------------------------------
(* Frames and the PLC: they count nothing *)

Listens(r, s) ==
    /\ s.sm.cnt_disconnect = r.sm.cnt_disconnect
    /\ s.sm.retry = r.sm.retry /\ s.sm.timeout = r.sm.timeout
    /\ LightBackup(s.bak, r.bak)
    /\ s.timeout = r.timeout \/ ~s.timeout.active

AllListen(f, g) == \A c \in Channel : Listens(f[c], g[c])

LEMMA OneListens ==
  ASSUME NEW f \in [Channel -> ChannelState], NEW d \in Channel, NEW s, Listens(f[d], s)
  PROVE  AllListen(f, [f EXCEPT ![d] = s])
  BY DEF AllListen, Listens, LightBackup

LEMMA ListenOn ==
  ASSUME NEW f, NEW g, NEW k, AllListen(f, g), AllListen(g, k)
  PROVE  AllListen(f, k)
  BY DEF AllListen, Listens, LightBackup

LEMMA ListenAlone ==
  ASSUME NEW f
  PROVE  AllListen(f, f)
  BY DEF AllListen, Listens, LightBackup

\* A channel of which only the state machine changes, and none of its counters.
LEMMA MachineListens ==
  ASSUME NEW r \in ChannelState, NEW s, NEW x,
         s.sm = x /\ s.bak = r.bak /\ s.timeout = r.timeout,
         /\ x.cnt_disconnect = r.sm.cnt_disconnect
         /\ x.retry = r.sm.retry /\ x.timeout = r.sm.timeout
  PROVE  Listens(r, s)
  BY DEF Listens, LightBackup

LEMMA RxListens ==
  ASSUME LinkInv, NEW c \in Channel, Wifi_Rx_ProcessFrame(c)
  PROVE  AllListen(ch, ch')
<1> DEFINE r == ch[c]
<1>1. /\ ch \in [Channel -> ChannelState] /\ r \in ChannelState /\ r.sm \in StateMachine
  BY SendingFacts, CountTypes DEF LinkInv, Sound
<1>2. PICK s : ch' = [ch EXCEPT ![c] = s] /\ Listens(r, s)
  <2>1. CASE RxPairingOk(c)
    <3>1. CASE r.pairFlag
      <4> DEFINE x == [r.sm EXCEPT !.response = TRUE]
                 s == PairingRepeated(r)
      <4>1. ch' = [ch EXCEPT ![c] = s]
        BY <2>1, <3>1 DEF RxPairingOk
      <4>2. /\ x.cnt_disconnect = r.sm.cnt_disconnect
            /\ x.retry = r.sm.retry /\ x.timeout = r.sm.timeout
        BY <1>1 DEF StateMachine
      <4>3. s.sm = x /\ s.bak = r.bak /\ s.timeout = r.timeout
        BY <1>1 DEF PairingRepeated, ChannelState
      <4> HIDE DEF x, s
      <4>4. QED
        BY <1>1, <4>1, <4>2, <4>3, MachineListens
    <3>2. CASE ~r.pairFlag
      <4>1. PICK registered \in AddResult : ch' = [ch EXCEPT ![c] = PairingOk(r, registered)]
        BY <2>1, <3>2 DEF RxPairingOk
      <4> DEFINE granted == r.sm.granted \/ registered
                 x == [r.sm EXCEPT !.reply = TRUE, !.pMac = "peer", !.granted = granted]
                 s == PairingOk(r, registered)
      <4>2. /\ x.cnt_disconnect = r.sm.cnt_disconnect
            /\ x.retry = r.sm.retry /\ x.timeout = r.sm.timeout
        BY <1>1 DEF StateMachine
      <4>3. s.sm = x /\ s.bak = r.bak /\ s.timeout = r.timeout
        BY <1>1 DEF PairingOk, ChannelState, StateMachine
      <4> HIDE DEF x, s
      <4>4. QED
        BY <1>1, <4>1, <4>2, <4>3, MachineListens DEF s
    <3>3. QED
      BY <3>1, <3>2
  <2>2. CASE RxPairingCancel(c)
    <3> DEFINE x == [r.sm EXCEPT !.reply = TRUE, !.granted = TRUE]
               s == PairingCancelled(r)
    <3>1. ch' = [ch EXCEPT ![c] = s]
      BY <2>2 DEF RxPairingCancel
    <3>2. /\ x.cnt_disconnect = r.sm.cnt_disconnect
          /\ x.retry = r.sm.retry /\ x.timeout = r.sm.timeout
      BY <1>1 DEF StateMachine
    <3>3. s.sm = x /\ s.bak = r.bak /\ s.timeout = r.timeout
      BY <1>1 DEF PairingCancelled, ChannelState
    <3> HIDE DEF x, s
    <3>4. QED
      BY <1>1, <3>1, <3>2, <3>3, MachineListens
  <2>3. CASE RxData(c)
    <3> DEFINE x == [r.sm EXCEPT !.response = TRUE]
               s == DataReceived(r)
    <3>1. ch' = [ch EXCEPT ![c] = s]
      BY <2>3 DEF RxData
    <3>2. /\ x.cnt_disconnect = r.sm.cnt_disconnect
          /\ x.retry = r.sm.retry /\ x.timeout = r.sm.timeout
      BY <1>1 DEF StateMachine
    <3>3. s.sm = x /\ s.bak = r.bak /\ s.timeout = r.timeout
      BY <1>1 DEF DataReceived, ChannelState
    <3> HIDE DEF x, s
    <3>4. QED
      BY <1>1, <3>1, <3>2, <3>3, MachineListens
  <2>4. QED
    BY <2>1, <2>2, <2>3 DEF Wifi_Rx_ProcessFrame
<1>3. QED
  BY <1>1, <1>2, OneListens

LEMMA SerialListens ==
  ASSUME NEW f \in [Channel -> ChannelState], NEW c \in Channel
  PROVE  AllListen(f, SerialWrite(f, c)) /\ AllListen(f, SerialRead(f, c))
<1> DEFINE r == f[c]
           x == [r.sm EXCEPT !.update_serial = TRUE, !.request_serial = FALSE]
           y == [r.sm EXCEPT !.request_serial = TRUE]
           rx == [r EXCEPT !.sm = x]
           ry == [r EXCEPT !.sm = y]
<1>1. r \in ChannelState /\ r.sm \in StateMachine
  BY CountTypes
<1>2. /\ x.cnt_disconnect = r.sm.cnt_disconnect
      /\ x.retry = r.sm.retry /\ x.timeout = r.sm.timeout
      /\ y.cnt_disconnect = r.sm.cnt_disconnect
      /\ y.retry = r.sm.retry /\ y.timeout = r.sm.timeout
  BY <1>1 DEF StateMachine
<1>3. SerialWrite(f, c) = f \/ SerialWrite(f, c) = [f EXCEPT ![c] = rx]
  BY <1>1 DEF SerialWrite, ChannelState
<1>4. SerialRead(f, c) = f \/ SerialRead(f, c) = [f EXCEPT ![c] = ry]
  BY <1>1 DEF SerialRead, ChannelState
<1> HIDE DEF x, y
<1>5. /\ rx.sm = x /\ rx.bak = r.bak /\ rx.timeout = r.timeout
      /\ ry.sm = y /\ ry.bak = r.bak /\ ry.timeout = r.timeout
  BY <1>1 DEF ChannelState
<1> HIDE DEF rx, ry
<1>6. Listens(r, rx) /\ Listens(r, ry)
  BY <1>1, <1>2, <1>5, MachineListens
<1>7. AllListen(f, f) /\ AllListen(f, [f EXCEPT ![c] = rx]) /\ AllListen(f, [f EXCEPT ![c] = ry])
  BY <1>6, OneListens, ListenAlone
<1>8. QED
  BY <1>3, <1>4, <1>7

LEMMA PlcListens ==
  ASSUME LinkInv, Ethercat_Handle
  PROVE  AllListen(ch, ch')
<1> DEFINE p == peer_channel
           r == ch[p]
<1>1. /\ p \in Channel /\ r \in ChannelState /\ r.sm \in StateMachine
      /\ ch \in [Channel -> ChannelState] /\ ch \in [Channel -> Sound]
  BY SendingFacts, CountTypes DEF LinkInv, Sound
<1>2. CASE \E typeAddr \in TypeAddr : PlcAssign(p, typeAddr)
  <2>1. PICK typeAddr \in TypeAddr : PlcAssign(p, typeAddr)
    BY <1>2
  <2> DEFINE q == [r EXCEPT !.typeAddr = typeAddr]
             x == [q.sm EXCEPT !.cmd = "AP_PAIRING_REQ", !.request = TRUE, !.add = TRUE,
                               !.pMac = "broadcast", !.device = typeAddr]
             s == Wifi_Peer_State_Set_Add(q, typeAddr)
  <2>2. ch' = [ch EXCEPT ![p] = s]
    BY <2>1 DEF PlcAssign
  <2>3. q \in ChannelState /\ q.sm = r.sm /\ q.bak = r.bak
    BY <1>1 DEF ChannelState
  <2> HIDE DEF q
  <2>4. s.sm = x /\ s.timeout = NoTimeout /\ s.bak = q.bak
    BY <2>3, SetAddFields
  <2> HIDE DEF s
  <2>5. /\ x.cnt_disconnect = r.sm.cnt_disconnect
        /\ x.retry = r.sm.retry /\ x.timeout = r.sm.timeout
    BY <1>1, <2>3 DEF StateMachine
  <2>6. Listens(r, s)
    BY <2>3, <2>4, <2>5, ZeroedCounts DEF Listens, LightBackup
  <2>7. QED
    BY <1>1, <2>2, <2>6, OneListens
<1>3. CASE PlcErase(p)
  <2> DEFINE b == [NoBackup EXCEPT !.del_set = TRUE]
             q == [r EXCEPT !.bak = b, !.told = FALSE]
             x == [q.sm EXCEPT !.cmd = "AP_PAIRING_CANCEL", !.request = TRUE, !.del = TRUE,
                               !.pMac = "peer"]
             s == Wifi_Peer_State_Set_Del(q)
  <2>1. ch' = [ch EXCEPT ![p] = s]
    BY <1>3 DEF PlcErase
  <2>2. b \in Backup /\ b.repair_cnt = 0 /\ b.receiveLoss_cnt = 0
    BY DEF NoBackup, Backup
  <2> HIDE DEF b
  <2>3. q \in ChannelState /\ q.sm = r.sm /\ q.bak = b
    BY <1>1, <2>2 DEF ChannelState
  <2> HIDE DEF q
  <2>4. s.sm = x /\ s.timeout = NoTimeout /\ s.bak = q.bak
    BY <2>3, SetDelFields
  <2> HIDE DEF s
  <2>5. /\ x.cnt_disconnect = r.sm.cnt_disconnect
        /\ x.retry = r.sm.retry /\ x.timeout = r.sm.timeout
    BY <1>1, <2>3 DEF StateMachine
  <2>6. Listens(r, s)
    BY <2>2, <2>3, <2>4, <2>5, ZeroedCounts DEF Listens, LightBackup
  <2>7. QED
    BY <1>1, <2>1, <2>6, OneListens
<1>4. CASE PlcWriteIo(p)
  <2> DEFINE x == [r.sm EXCEPT !.update_io = TRUE]
             s == [r EXCEPT !.sm = x]
  <2>1. ch' = [ch EXCEPT ![p] = s]
    BY <1>1, <1>4 DEF PlcWriteIo, ChannelState
  <2>2. /\ x.cnt_disconnect = r.sm.cnt_disconnect
        /\ x.retry = r.sm.retry /\ x.timeout = r.sm.timeout
    BY <1>1 DEF StateMachine
  <2>3. s.sm = x /\ s.bak = r.bak /\ s.timeout = r.timeout
    BY <1>1 DEF ChannelState
  <2> HIDE DEF x, s
  <2>4. Listens(r, s)
    BY <1>1, <2>2, <2>3, MachineListens
  <2>5. QED
    BY <1>1, <2>1, <2>4, OneListens
<1>5. CASE \E written, read \in Nibble : PlcSerial(p, written, read)
  <2>1. PICK written \in Nibble, read \in Nibble : PlcSerial(p, written, read)
    BY <1>5
  <2> DEFINE cw == CHOOSE c \in written : TRUE
             cr == CHOOSE c \in read : TRUE
             w == IF written = {} THEN ch ELSE SerialWrite(ch, cw)
  <2>2. (written # {} => cw \in Channel) /\ (read # {} => cr \in Channel)
    <3>1. written \subseteq Channel /\ read \subseteq Channel
      BY LinkAssumption DEF Nibble
    <3>2. (written # {} => cw \in written) /\ (read # {} => cr \in read)
      OBVIOUS
    <3>3. QED
      BY <3>1, <3>2
  <2>3. ch' = IF read = {} THEN w ELSE SerialRead(w, cr)
    BY <2>1 DEF PlcSerial
  <2> HIDE DEF cw, cr
  <2>4. w \in [Channel -> Sound] /\ AllListen(ch, w)
    BY <1>1, <2>2, SerialIsSound, SerialListens, ListenAlone
  <2> HIDE DEF w
  <2>5. w \in [Channel -> ChannelState]
    BY <2>4, SendingFacts DEF Sound
  <2>6. AllListen(w, ch')
    BY <2>2, <2>3, <2>5, SerialListens, ListenAlone
  <2>7. QED
    BY <2>4, <2>6, ListenOn
<1>6. CASE PlcHoldsSerial(p)
  BY <1>1, <1>6, SerialListens DEF PlcHoldsSerial
<1>7. CASE PlcQuiet
  BY <1>7, ListenAlone DEF PlcQuiet
<1>8. QED
  BY <1>2, <1>3, <1>4, <1>5, <1>6, <1>7 DEF Ethercat_Handle

-----------------------------------------------------------------------------
(* The inductive invariant *)

AllWithin == \A c \in Channel : Within(ch[c])

\* A late request is found before the search has passed every other channel: what it
\* has waited and the channels the search has still to pass do not add up to more.
SearchComes ==
    \A c \in Channel : Late(ch[c]) =>
        ch[c].timeout.count + Offset(c) <= ch[c].timeout.limit + MAX_PEER - 1

CountInv == LinkInv /\ AllWithin /\ SearchComes

\* What a step does to the losses of a channel.
Lasts(r, s) == s.pairFlag => r.pairFlag /\ r.sm.cnt_disconnect <= s.sm.cnt_disconnect

LEMMA LeastNatural ==
  ASSUME NEW S, S \subseteq Nat, S # {}
  PROVE  \E m \in S : \A n \in S : m <= n
<1> DEFINE R == OpToRel(<, Nat)
<1>1. PICK m \in S : \A n \in S : ~(<<n, m>> \in R)
  BY NatLessThanWellFounded, WFMin, Zenon
<1>2. \A n \in S : n < m => <<n, m>> \in R
  <2>1. SUFFICES ASSUME NEW n \in S, n < m PROVE <<n, m>> \in R
    OBVIOUS
  <2>2. <<n, m>> \in Nat \X Nat
    OBVIOUS
  <2>3. QED
    BY <2>1, <2>2, Zenon DEF OpToRel
<1> HIDE DEF R
<1>3. \A n \in S : ~(n < m)
  BY <1>1, <1>2
<1>4. QED
  BY <1>3

LEMMA OffsetFacts ==
  ASSUME next_expired_channel \in Channel, NEW c \in Channel, NEW d \in Channel
  PROVE  /\ Offset(c) \in 0..(MAX_PEER - 1)
         /\ Offset(c) = Offset(d) => c = d
  BY LinkAssumption DEF Offset, Channel

\* The search goes on behind the channel it has found.
LEMMA SearchTurns ==
  ASSUME next_expired_channel \in Channel, NEW c \in Channel, NEW d \in Channel, c # d,
         Offset(d) <= Offset(c), next_expired_channel' = NextPeer(d)
  PROVE  Offset(c)' = Offset(c) - Offset(d) - 1
  BY LinkAssumption DEF Offset, Channel, NextPeer

\* Where there is a late request, the search finds one.
LEMMA SearchFinds ==
  ASSUME next_expired_channel \in Channel, NEW f, NEW c \in Channel, Late(f[c])
  PROVE  Expired(f) # {}
<1> DEFINE S == {Offset(d) : d \in {e \in Channel : Late(f[e])}}
<1>1. S \subseteq Nat /\ S # {}
  BY OffsetFacts
<1>2. PICK m \in S : \A n \in S : m <= n
  BY <1>1, LeastNatural
<1>3. PICK d \in Channel : Late(f[d]) /\ m = Offset(d)
  BY <1>2
<1>4. d \in Expired(f)
  BY <1>2, <1>3 DEF Expired
<1>5. QED
  BY <1>4

\* Time passes by one, for requests that are out.
LEMMA PassedFacts ==
  ASSUME NEW f \in [Channel -> Sound], NEW c \in Channel
  PROVE  /\ f[c] \in ChannelState /\ Passed(f)[c] = Aged(f[c]) /\ Aged(f[c]) \in Sound
         /\ Aged(f[c]) \in ChannelState
         /\ Ended(f, c) \in Sound /\ Ended(f, c) \in ChannelState
         /\ Wears(Aged(f[c]), Ended(f, c))
         /\ c \in Expired(Passed(f)) => ~Ended(f, c).timeout.active
         /\ c \notin Expired(Passed(f)) => Ended(f, c) = Aged(f[c])
<1>1. f[c] \in Sound /\ Passed(f)[c] = Aged(f[c])
  BY DEF Passed
<1>2. /\ f[c] \in ChannelState /\ Aged(f[c]) \in Sound /\ Aged(f[c]) \in ChannelState
  BY <1>1, AgedIsSound, SendingFacts DEF Sound
<1>3. CASE c \in Expired(Passed(f))
  <2> DEFINE s == Wifi_Request_Timeout_Handle(Aged(f[c]))
  <2>1. s \in Sound /\ Wears(Aged(f[c]), s) /\ ~s.timeout.active
    BY <1>2, TimeoutIsSound, TimeoutWears
  <2>2. Ended(f, c) = s
    BY <1>3 DEF Ended
  <2> HIDE DEF s
  <2>3. QED
    BY <1>1, <1>2, <1>3, <2>1, <2>2, SendingFacts DEF Sound
<1>4. CASE c \notin Expired(Passed(f))
  <2>1. Ended(f, c) = Aged(f[c])
    BY <1>4 DEF Ended
  <2>2. QED
    BY <1>1, <1>2, <1>4, <2>1, MilderAlone, MilderWears
<1>5. QED
  BY <1>3, <1>4

LEMMA HandleCounts ==
  ASSUME LinkInv, Wifi_Handle, NEW c \in Channel
  PROVE  /\ Within(ch[c]) => Within(ch'[c])
         /\ Lasts(ch[c], ch'[c]) \/ ch[c].sm.response \/ ch[peer_addr].sm.response
<1>1. PICK f \in [Channel -> Sound] :
          Served(f) /\ \A d \in Channel : Wears(Ended(f, d), ch'[d])
  BY HandleWorks
<1>2. /\ Serves(ch[c], f[c]) /\ Wears(Ended(f, c), ch'[c])
      /\ Wears(ch[c], f[c]) \/ ch[c].sm.response \/ ch[peer_addr].sm.response
  BY <1>1 DEF Served
<1>3. /\ f[c] \in ChannelState /\ Aged(f[c]) \in ChannelState /\ Ended(f, c) \in ChannelState
      /\ Wears(Aged(f[c]), Ended(f, c))
  BY PassedFacts
<1>4. /\ Aged(f[c]).sm = f[c].sm /\ Aged(f[c]).bak = f[c].bak
      /\ Aged(f[c]).pairFlag = f[c].pairFlag
  BY <1>3, AgedFields
<1>5. ch[c] \in ChannelState /\ ch'[c] \in ChannelState
  BY HandleKeeps, SendingFacts DEF LinkInv, Sound
<1>6. Wears(Aged(f[c]), ch'[c])
  BY <1>2, <1>3, <1>5, WearsOn
<1>7. Within(ch[c]) => Within(ch'[c])
  BY <1>2, <1>4, <1>6 DEF Wears, Serves, Within
<1>8. Wears(ch[c], f[c]) => Lasts(ch[c], ch'[c])
  BY <1>3, <1>4, <1>5, <1>6, CountTypes DEF Wears, Serves, Lasts
<1>9. QED
  BY <1>2, <1>7, <1>8

LEMMA HandleSearches ==
  ASSUME LinkInv, SearchComes, Wifi_Handle
  PROVE  SearchComes'
<1> USE DEF Late
<1>1. PICK f \in [Channel -> Sound] :
          Served(f) /\ Turns(f) /\ \A d \in Channel : Wears(Ended(f, d), ch'[d])
  BY HandleWorks
<1>2. SUFFICES ASSUME NEW c \in Channel, Late(ch'[c])
      PROVE  ch'[c].timeout.count + Offset(c)' <= ch'[c].timeout.limit + MAX_PEER - 1
  BY DEF SearchComes
<1> DEFINE old == ch[c].timeout
           mid == f[c].timeout
           now == ch'[c].timeout
<1>3. /\ old \in Timeout /\ mid \in Timeout /\ now \in Timeout
      /\ next_expired_channel \in Channel
  BY HandleKeeps, SendingFacts DEF LinkInv, Sound, ChannelState
<1>4. old.count \in Nat /\ old.limit \in Nat /\ mid.count \in Nat /\ mid.limit \in Nat
      /\ now.count \in Nat /\ now.limit \in Nat
  BY <1>3 DEF Timeout
<1>5. now = Ended(f, c).timeout
  BY <1>1, <1>2, <1>4 DEF Wears, Serves
<1>6. c \notin Expired(Passed(f)) /\ now = Aged(f[c]).timeout /\ Late(Passed(f)[c])
  BY <1>2, <1>5, PassedFacts
<1>7. /\ now.active = mid.active /\ now.limit = mid.limit
      /\ now.count \in {mid.count, mid.count + 1}
  BY <1>6, PassedFacts, AgedFields
<1>8. mid = old \/ mid.count = 0
  BY <1>1, <1>2, <1>7 DEF Served, Serves
<1>9. Expired(Passed(f)) # {}
  BY <1>3, <1>6, SearchFinds
<1>10. PICK d \in Expired(Passed(f)) : next_expired_channel' = NextPeer(d)
  BY <1>1, <1>9 DEF Turns
<1>11. d \in Channel /\ Offset(d) <= Offset(c) /\ c # d
  BY <1>6, <1>10 DEF Expired
<1> HIDE DEF old, mid, now
<1>12. Offset(c)' = Offset(c) - Offset(d) - 1
  BY <1>3, <1>10, <1>11, SearchTurns
<1>13. /\ Offset(c) \in Nat /\ Offset(d) \in Nat /\ Offset(c) <= MAX_PEER - 1
       /\ MAX_PEER \in Nat
  BY <1>3, <1>11, OffsetFacts, LinkAssumption
<1>14. CASE Late(ch[c])
  <2>1. old.count + Offset(c) <= old.limit + MAX_PEER - 1
    BY <1>14 DEF SearchComes, old
  <2>2. now.count + Offset(c)' <= now.limit + MAX_PEER - 1
    <3>1. CASE mid = old
      BY <1>4, <1>7, <1>12, <1>13, <2>1, <3>1
    <3>2. CASE mid.count = 0
      BY <1>4, <1>7, <1>12, <1>13, <3>2
    <3>3. QED
      BY <1>8, <3>1, <3>2
  <2>3. QED
    BY <2>2 DEF now
<1>15. CASE ~Late(ch[c])
  <2>1. mid.active => mid.count <= mid.limit
    BY <1>4, <1>8, <1>15 DEF old
  <2>2. now.count <= now.limit + 1
    BY <1>2, <1>4, <1>7, <2>1 DEF now
  <2>3. now.count + Offset(c)' <= now.limit + MAX_PEER - 1
    BY <1>4, <1>12, <1>13, <2>2
  <2>4. QED
    BY <2>3 DEF now
<1>16. QED
  BY <1>14, <1>15

\* Frames and the PLC count nothing, and the search does not move for them.
LEMMA ListenCounts ==
  ASSUME CountInv, AllListen(ch, ch'), LinkInv',
         next_expired_channel' = next_expired_channel
  PROVE  /\ CountInv'
         /\ \A c \in Channel : ch'[c].sm.cnt_disconnect = ch[c].sm.cnt_disconnect
<1>1. \A c \in Channel : Listens(ch[c], ch'[c])
  BY DEF AllListen
<1>2. AllWithin'
  <2>1. SUFFICES ASSUME NEW c \in Channel PROVE Within(ch'[c])
    BY DEF AllWithin
  <2>2. Within(ch[c]) /\ Listens(ch[c], ch'[c])
    BY <1>1 DEF CountInv, AllWithin
  <2>3. QED
    BY <2>2, LimitFacts DEF Within, Listens, LightBackup
<1>3. SearchComes'
  BY <1>1 DEF CountInv, SearchComes, Listens, Late, Offset
<1>4. QED
  BY <1>1, <1>2, <1>3 DEF CountInv, Listens

OnlyDataForgivesStep ==
    \A c \in Channel :
        ch[c].pairFlag /\ ch'[c].sm.cnt_disconnect < ch[c].sm.cnt_disconnect
           => ch[c].sm.response \/ ch[peer_addr].sm.response \/ ~ch'[c].pairFlag

LEMMA InitCounts == Init => CountInv
<1> SUFFICES ASSUME Init PROVE CountInv
  OBVIOUS
<1>1. \A c \in Channel : ch[c] = Idle
  BY DEF Init
<1>2. Within(Idle) /\ ~Late(Idle)
  BY LimitFacts, ZeroedCounts DEF Within, Late, Idle
<1>3. QED
  BY <1>1, <1>2, InitIsSound DEF CountInv, AllWithin, SearchComes

LEMMA NextCounts == CountInv /\ [Next]_vars => CountInv' /\ OnlyDataForgivesStep
<1> SUFFICES ASSUME CountInv, [Next]_vars PROVE CountInv' /\ OnlyDataForgivesStep
  OBVIOUS
<1>1. LinkInv /\ LinkInv'
  BY NextKeeps DEF CountInv
<1>2. ASSUME NEW c \in Channel PROVE ch[c].sm.cnt_disconnect \in Nat /\ ch'[c].sm.cnt_disconnect \in Nat
  BY <1>1, CountTypes, SendingFacts DEF LinkInv, Sound
<1>3. ASSUME AllListen(ch, ch'), next_expired_channel' = next_expired_channel
      PROVE  CountInv' /\ OnlyDataForgivesStep
  BY <1>1, <1>2, <1>3, ListenCounts DEF OnlyDataForgivesStep
<1>4. CASE \E c \in Channel : Wifi_Rx_ProcessFrame(c)
  BY <1>1, <1>3, <1>4, RxListens DEF Wifi_Rx_ProcessFrame
<1>5. CASE Ethercat_Handle
  BY <1>1, <1>3, <1>5, PlcListens DEF Ethercat_Handle
<1>6. CASE Wifi_Handle
  <2>1. AllWithin'
    BY <1>1, <1>6, HandleCounts DEF CountInv, AllWithin
  <2>2. SearchComes'
    BY <1>1, <1>6, HandleSearches DEF CountInv
  <2>3. OnlyDataForgivesStep
    BY <1>1, <1>2, <1>6, HandleCounts DEF OnlyDataForgivesStep, Lasts
  <2>4. QED
    BY <1>1, <2>1, <2>2, <2>3 DEF CountInv
<1>7. CASE UNCHANGED vars
  BY <1>3, <1>7, ListenAlone DEF vars
<1>8. QED
  BY <1>4, <1>5, <1>6, <1>7 DEF Next

-----------------------------------------------------------------------------
(* The theorems *)

LEMMA AlwaysCounts == Spec => []CountInv
<1>1. Init => CountInv
  BY InitCounts
<1>2. CountInv /\ [Next]_vars => CountInv'
  BY NextCounts
<1>3. QED
  BY <1>1, <1>2, PTL DEF Spec

\* retry, cnt_disconnect, repair_cnt and the wait for a deletion stay within the limits
\* they are compared with, so the uint8_t ones do not turn over. receiveLoss_cnt does,
\* under a repair that never ends: of it the theorem says that it stays a uint8_t.
THEOREM CountersKeepTheirLimits == Spec => [](\A c \in Channel : Within(ch[c]))
<1>1. CountInv => \A c \in Channel : Within(ch[c])
  BY DEF CountInv, AllWithin
<1>2. QED
  BY <1>1, AlwaysCounts, PTL

\* A request that is out ends at the latest one call for each other channel after its
\* limit, however many are late at once: the search turns past the one it has found.
THEOREM ExpiresAlwaysInTime == Spec => []ExpiresInTime
<1>1. CountInv => ExpiresInTime
  <2>1. SUFFICES ASSUME CountInv, NEW c \in Channel, ch[c].timeout.active
        PROVE  ch[c].timeout.count <= ch[c].timeout.limit + MAX_PEER - 1
    BY DEF ExpiresInTime
  <2>2. ch[c].timeout.count \in Nat /\ ch[c].timeout.limit \in Nat
    <3>1. ch[c] \in ChannelState
      BY <2>1, SendingFacts DEF CountInv, LinkInv, Sound
    <3>2. QED
      BY <3>1 DEF ChannelState, Timeout
  <2>3. Offset(c) \in 0..(MAX_PEER - 1) /\ MAX_PEER \in Nat
    <3>1. next_expired_channel \in Channel
      BY <2>1 DEF CountInv, LinkInv
    <3>2. QED
      BY <3>1, OffsetFacts, LinkAssumption
  <2>4. CASE Late(ch[c])
    <3>1. ch[c].timeout.count + Offset(c) <= ch[c].timeout.limit + MAX_PEER - 1
      BY <2>1, <2>4 DEF CountInv, SearchComes
    <3>2. QED
      BY <2>2, <2>3, <3>1
  <2>5. CASE ~Late(ch[c])
    BY <2>1, <2>2, <2>3, <2>5 DEF Late
  <2>6. QED
    BY <2>4, <2>5
<1>2. QED
  BY <1>1, AlwaysCounts, PTL

\* Losses are counted in a row: on a channel that stays paired they go back to zero
\* for an answer with data only.
THEOREM LossesForgivenByDataOnly == Spec => OnlyDataForgivesLosses
<1>1. CountInv /\ [Next]_vars => [OnlyDataForgivesStep]_vars
  BY NextCounts
<1>2. QED
  BY <1>1, AlwaysCounts, PTL DEF Spec, OnlyDataForgivesLosses, OnlyDataForgivesStep

=============================================================================
