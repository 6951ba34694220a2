------------------------------- MODULE ApChannel --------------------------------
(***************************************************************************)
(* One peer channel of the AP, src/src/main.cpp: all that the firmware keeps  *)
(* for it in wifi_state_machine[], g_ap.peer.peer[], g_ap.peer.peer_bak[],    *)
(* wifi_send and the receive transaction, as one record, and the functions    *)
(* that change it, each as the record it leaves behind.                       *)
(*                                                                           *)
(* Not kept: tx_busy and doing_recv_cb, which are set and cleared inside one  *)
(* call on every path; response_type_serial, which is cleared unread; txBuf   *)
(* beyond its command byte; MAC addresses beyond which of the three kinds     *)
(* pMac points to; data caches and debug counters.                            *)
(***************************************************************************)
EXTENDS Naturals

CONSTANTS
    TypeAddr,               \* device type and address words the PLC assigns
    SET_TIME_PAIRING,       \* ticks a pairing request may take
    SET_TIME_PAIRD,         \* ticks a data request may take
    SETUP_DISCONNECT_MAX,   \* timeouts in a row that end a pairing
    SETUP_REPAIR_MAX,       \* attempts to repair a pairing
    SETUP_RECEVIELOSS_MAX,  \* losses after which a repair is given up
    RETRY_MAX,              \* answers without success to add or del, 3
    DEL_WAIT,               \* calls in PAIRING_DEL with add set, 5
    LOSS_WRAP               \* receiveLoss_cnt is a uint8_t: 256

ASSUME TimeAssumption ==
    /\ SET_TIME_PAIRING \in Nat /\ SET_TIME_PAIRD \in Nat
    /\ SETUP_DISCONNECT_MAX \in Nat \ {0} /\ SETUP_REPAIR_MAX \in Nat \ {0}
    /\ RETRY_MAX \in Nat /\ DEL_WAIT \in Nat
    /\ LOSS_WRAP \in Nat \ {0}
    /\ SETUP_RECEVIELOSS_MAX \in Nat /\ SETUP_RECEVIELOSS_MAX + 1 < LOSS_WRAP

NoType == "no device"
ASSUME TypeAssumption == NoType \notin TypeAddr

NoCommand == "NO_COMMAND"
PairingCommand == {"AP_PAIRING_REQ", "AP_PAIRING_CANCEL"}
DataCommand == {"AP_IO_GET", "AP_IO_SET", "AP_SERIAL_GET", "AP_SERIAL_SET"}
Command == PairingCommand \cup DataCommand \cup {NoCommand}

State == {"READY", "PAIRING_ADD", "PAIRED", "PAIRING_DEL", "SEND", "WAIT"}

(* wifi_state_machine[c]: the pairing half (request, add, del; reply and granted *)
(* are its response and state) and the peer half.  memset() makes it Zeroed.     *)
StateMachine ==
    [request : BOOLEAN, reply : BOOLEAN, granted : BOOLEAN,
     add : BOOLEAN, del : BOOLEAN, retry : Nat, timeout : Nat,
     response : BOOLEAN, update_io : BOOLEAN, update_serial : BOOLEAN,
     request_serial : BOOLEAN, state : State,
     pMac : {"null", "broadcast", "peer"}, device : TypeAddr \cup {NoType},
     cmd : Command, cnt_disconnect : Nat]

Zeroed ==
    [request |-> FALSE, reply |-> FALSE, granted |-> FALSE,
     add |-> FALSE, del |-> FALSE, retry |-> 0, timeout |-> 0,
     response |-> FALSE, update_io |-> FALSE, update_serial |-> FALSE,
     request_serial |-> FALSE, state |-> "READY",
     pMac |-> "null", device |-> NoType,
     cmd |-> NoCommand, cnt_disconnect |-> 0]

(* g_ap.peer.peer_bak[c] *)
Backup == [repair_itself : BOOLEAN, repair_cnt : Nat, del_set : BOOLEAN,
           receiveLoss_cnt : Nat, typeAddr : TypeAddr \cup {NoType}]

NoBackup == [repair_itself |-> FALSE, repair_cnt |-> 0, del_set |-> FALSE,
             receiveLoss_cnt |-> 0, typeAddr |-> NoType]

(* wifi_send.request_timeout[c] *)
Timeout == [active : BOOLEAN, count : Nat, limit : Nat]
NoTimeout == [active |-> FALSE, count |-> 0, limit |-> 0]

(* mask is PairMask's bit, status the bit of rx_pairing_status the PLC reads,   *)
(* awaiting the command of the active receive transaction; told is history: the  *)
(* peer the PLC has erased was sent AP_PAIRING_CANCEL.                           *)
ChannelState ==
    [sm : StateMachine, bak : Backup, timeout : Timeout,
     pairFlag : BOOLEAN, typeAddr : TypeAddr \cup {NoType},
     mask : BOOLEAN, status : BOOLEAN, rx_busy : BOOLEAN, awaiting : Command,
     told : BOOLEAN]

Idle == [sm |-> Zeroed, bak |-> NoBackup, timeout |-> NoTimeout,
         pairFlag |-> FALSE, typeAddr |-> NoType,
         mask |-> FALSE, status |-> FALSE, rx_busy |-> FALSE,
         awaiting |-> NoCommand, told |-> FALSE]

-----------------------------------------------------------------------------
(* Requests and their timeouts *)

Wifi_Request_Timeout_Limit(cmd) ==
    IF cmd \in PairingCommand THEN SET_TIME_PAIRING ELSE SET_TIME_PAIRD

Wifi_Request_Timeout_Clear(r) == [r EXCEPT !.timeout = NoTimeout]

Wifi_Request_Timeout_Start(r, cmd) ==
    [r EXCEPT !.timeout = [active |-> TRUE, count |-> 0,
                           limit |-> Wifi_Request_Timeout_Limit(cmd)]]

Wifi_Request_Response_Pending(r) == r.sm.reply \/ r.sm.response

\* The request loses its receive transaction and its timeout, not its rx_busy.
DropRequest(r) == Wifi_Request_Timeout_Clear([r EXCEPT !.awaiting = NoCommand])

\* Mutant: a data packet forgives the losses so far.
DataSetForgives(r, cmd) ==
    [DropRequest(r) EXCEPT !.sm.cmd = cmd, !.rx_busy = FALSE, !.sm.cnt_disconnect = 0]

\* A data packet replaces whatever the channel was waiting for.
Wifi_Peer_Data_Set(r, cmd) ==
    [DropRequest(r) EXCEPT !.sm.cmd = cmd, !.rx_busy = FALSE]

\* A pairing packet is built and its request raised; rx_busy stays as it is.
Wifi_Peer_State_Set_Add(r, typeAddr) ==
    [DropRequest(r) EXCEPT
        !.sm.cmd = "AP_PAIRING_REQ", !.sm.request = TRUE, !.sm.add = TRUE,
        !.sm.pMac = "broadcast",
        !.sm.device = IF typeAddr # NoType THEN typeAddr ELSE @]

\* Mutant: the timeout of the request the cancel replaces runs on.
SetDelKeepsTimeout(r) ==
    [r EXCEPT !.awaiting = NoCommand, !.sm.cmd = "AP_PAIRING_CANCEL",
              !.sm.request = TRUE, !.sm.del = TRUE, !.sm.pMac = "peer"]

Wifi_Peer_State_Set_Del(r) ==
    [DropRequest(r) EXCEPT
        !.sm.cmd = "AP_PAIRING_CANCEL", !.sm.request = TRUE, !.sm.del = TRUE,
        !.sm.pMac = "peer"]

-----------------------------------------------------------------------------
(* The end of a pairing *)

\* Mutants: an erased link is kept for repair too; its del_set is not reset.
RememberErased(r) ==
    IF r.pairFlag
    THEN [r EXCEPT !.bak.repair_itself = TRUE, !.bak.repair_cnt = 0,
                   !.bak.typeAddr = r.typeAddr, !.bak.del_set = FALSE]
    ELSE r

RememberKeepsErase(r) ==
    CASE ~r.pairFlag -> r
      [] r.pairFlag /\ ~r.bak.del_set ->
            [r EXCEPT !.bak.repair_itself = TRUE, !.bak.repair_cnt = 0,
                      !.bak.typeAddr = r.typeAddr]
      [] OTHER -> [r EXCEPT !.status = FALSE, !.bak.receiveLoss_cnt = 0,
                            !.bak.repair_itself = FALSE]

\* A link that was lost is kept for repair; one the PLC erased is forgotten.
RememberPeer(r) ==
    CASE ~r.pairFlag -> r
      [] r.pairFlag /\ ~r.bak.del_set ->
            [r EXCEPT !.bak.repair_itself = TRUE, !.bak.repair_cnt = 0,
                      !.bak.typeAddr = r.typeAddr]
      [] OTHER ->
            [r EXCEPT !.status = FALSE, !.bak.del_set = FALSE,
                      !.bak.receiveLoss_cnt = 0, !.bak.repair_itself = FALSE]

del_peer(r) ==
    LET q == RememberPeer([DropRequest(r) EXCEPT !.rx_busy = FALSE])
        d == [q EXCEPT !.pairFlag = FALSE, !.mask = FALSE, !.typeAddr = NoType,
                       !.sm.del = FALSE]
    IN  IF d.bak.repair_itself
        THEN Wifi_Peer_State_Set_Add(
                [d EXCEPT !.sm = Zeroed, !.typeAddr = d.bak.typeAddr],
                d.bak.typeAddr)
        ELSE d

\* SETUP_DISCONNECT_MAX timeouts in a row end the pairing, and what is left of the
\* channel unless it is to be repaired.
Disconnected(r) ==
    LET left == IF r.pairFlag THEN del_peer(r) ELSE r
    IN  IF left.bak.repair_itself THEN left ELSE [left EXCEPT !.sm = Zeroed]

\* Until then a timeout of a paired channel leaves rx_busy and the transaction open
\* for a late answer.
Wifi_Request_Timeout_Handle(r) ==
    LET q == [Wifi_Request_Timeout_Clear(r) EXCEPT !.sm.cnt_disconnect = @ + 1]
    IN  CASE q.sm.cnt_disconnect >= SETUP_DISCONNECT_MAX ->
                Disconnected([q EXCEPT !.sm.cnt_disconnect = 0, !.rx_busy = FALSE])
          [] q.sm.cnt_disconnect < SETUP_DISCONNECT_MAX /\ r.pairFlag ->
                [q EXCEPT !.bak.receiveLoss_cnt = (@ + 1) % LOSS_WRAP,
                          !.sm.state = "PAIRED"]
          [] OTHER ->
                [q EXCEPT !.awaiting = NoCommand, !.rx_busy = FALSE, !.sm = Zeroed]

-----------------------------------------------------------------------------
(* Wifi_Handle(): an answer has been latched while rx_busy *)

\* Mutant: the success is kept for the next answer.
PairingGrantedKept(r) ==
    CASE r.sm.add -> [r EXCEPT !.sm.add = FALSE, !.sm.state = "PAIRED", !.sm.retry = 0]
      [] ~r.sm.add /\ r.sm.del -> [del_peer(r) EXCEPT !.sm = Zeroed]
      [] OTHER -> r

\* A pairing answer that reports success completes the add or the delete.
PairingGranted(r) ==
    LET q == [r EXCEPT !.sm.granted = FALSE] IN
    CASE q.sm.add -> [q EXCEPT !.sm.add = FALSE, !.sm.state = "PAIRED", !.sm.retry = 0]
      [] ~q.sm.add /\ q.sm.del -> [del_peer(q) EXCEPT !.sm = Zeroed]
      [] OTHER -> q

\* One that does not is retried, or ends the attempt.
PairingRefused(r) ==
    LET q == [r EXCEPT !.sm.retry = @ + 1] IN
    CASE r.sm.add /\ ~r.pairFlag ->
            IF q.sm.retry > RETRY_MAX
            THEN [q EXCEPT !.sm = Zeroed]
            ELSE [Wifi_Peer_State_Set_Add(q, q.typeAddr) EXCEPT !.sm.state = "READY"]
      [] r.sm.del /\ r.pairFlag ->
            IF q.sm.retry > RETRY_MAX
            THEN del_peer([q EXCEPT !.sm = Zeroed])
            ELSE [Wifi_Peer_State_Set_Del(q) EXCEPT !.sm.state = "READY"]
      [] OTHER ->
            del_peer([r EXCEPT !.sm = Zeroed, !.pairFlag = FALSE, !.mask = FALSE])

PairingAnswered(r) ==
    LET q == [Wifi_Request_Timeout_Clear(r) EXCEPT
                 !.sm.reply = FALSE, !.sm.request = FALSE, !.rx_busy = FALSE]
    IN  IF q.sm.granted THEN PairingGranted(q) ELSE PairingRefused(q)

\* save_response: a data answer ends the request and, after a repair, the repair.
DataAnswered(r) ==
    LET q == [Wifi_Request_Timeout_Clear(r) EXCEPT
                 !.sm.response = FALSE, !.sm.cnt_disconnect = 0, !.rx_busy = FALSE,
                 !.bak.receiveLoss_cnt = 0]
        z == IF q.pairFlag THEN q ELSE [q EXCEPT !.sm = Zeroed]
    IN  IF z.bak.repair_itself /\ z.pairFlag
        THEN [z EXCEPT !.bak.repair_itself = FALSE, !.bak.repair_cnt = 0]
        ELSE z

-----------------------------------------------------------------------------
(* Wifi_Handle(): the slot of a channel without an active request runs out *)

\* Mutant: the PLC is not told that the repair was given up.
RepairGivenUpQuietly(r) ==
    LET n == r.bak.repair_cnt + 1 IN
    IF n < SETUP_REPAIR_MAX
    THEN [Wifi_Peer_State_Set_Add(r, r.typeAddr) EXCEPT !.bak.repair_cnt = n]
    ELSE [Idle EXCEPT !.status = r.status, !.told = r.told]

\* An unpaired channel under repair asks again, until it has tried or lost too
\* often: then everything about it is forgotten and the PLC is told.
RepairAgain(r) ==
    LET n == r.bak.repair_cnt + 1
        again == [Wifi_Peer_State_Set_Add(r, r.typeAddr) EXCEPT
                     !.bak.repair_cnt = n,
                     !.bak.receiveLoss_cnt = (@ + 1) % LOSS_WRAP]
        failed == [r EXCEPT !.bak.repair_cnt = n,
                            !.bak.receiveLoss_cnt = SETUP_RECEVIELOSS_MAX + 1]
        q == IF n < SETUP_REPAIR_MAX THEN again ELSE failed
    IN  IF q.bak.receiveLoss_cnt > SETUP_RECEVIELOSS_MAX
        THEN [Idle EXCEPT !.told = r.told]
        ELSE q

\* Mutant: a peer is deleted on its answer only.
RotateOutKeeps(r) ==
    CASE r.pairFlag -> [r EXCEPT !.sm.state = "PAIRED"]
      [] ~r.pairFlag /\ r.sm.reply -> [r EXCEPT !.sm = Zeroed]
      [] ~r.pairFlag /\ ~r.sm.reply /\ r.sm.request -> [r EXCEPT !.sm.request = FALSE]
      [] ~r.pairFlag /\ ~r.sm.reply /\ ~r.sm.request /\ r.bak.repair_itself ->
            RepairAgain(r)
      [] OTHER -> r

RotateOut(r) ==
    CASE r.pairFlag /\ r.sm.del ->
            del_peer([r EXCEPT !.awaiting = NoCommand, !.rx_busy = FALSE, !.sm = Zeroed])
      [] r.pairFlag /\ ~r.sm.del -> [r EXCEPT !.sm.state = "PAIRED"]
      [] ~r.pairFlag /\ r.sm.reply -> [r EXCEPT !.sm = Zeroed]
      [] ~r.pairFlag /\ ~r.sm.reply /\ r.sm.request -> [r EXCEPT !.sm.request = FALSE]
      [] ~r.pairFlag /\ ~r.sm.reply /\ ~r.sm.request /\ r.bak.repair_itself ->
            RepairAgain(r)
      [] OTHER -> r

-----------------------------------------------------------------------------
(* Wifi_Rx_ProcessFrame(): a frame of the awaited command has passed every gate *)

\* Mutant: PairMask is set before the registration is known to succeed.
PairingOkMasked(r, registered) ==
    [r EXCEPT !.awaiting = NoCommand, !.sm.reply = TRUE, !.sm.pMac = "peer",
              !.pairFlag = registered, !.mask = TRUE, !.sm.granted = @ \/ registered]

\* The first answer to a pairing request stores the peer and registers it with
\* ESP-NOW; pairFlag and PairMask follow the registration.
PairingOk(r, registered) ==
    [r EXCEPT !.awaiting = NoCommand, !.sm.reply = TRUE, !.sm.pMac = "peer",
              !.pairFlag = registered, !.mask = IF registered THEN TRUE ELSE @,
              !.sm.granted = @ \/ registered]

\* A second answer from a peer that is paired counts as data, but tells nothing.
PairingRepeated(r) == [r EXCEPT !.awaiting = NoCommand, !.sm.response = TRUE]

PairingCancelled(r) ==
    [r EXCEPT !.awaiting = NoCommand, !.sm.reply = TRUE, !.sm.granted = TRUE]

\* Data from a paired peer: only now does the PLC see the channel as paired.
DataReceived(r) ==
    [r EXCEPT !.awaiting = NoCommand, !.sm.response = TRUE, !.status = TRUE]

=============================================================================
