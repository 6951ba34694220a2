------------------------- MODULE RxTransaction_proof ----------------------------
(***************************************************************************)
(* What holds of RxTransaction for every set of channels, queue depth,        *)
(* service budget and every number of frames and requests.                    *)
(***************************************************************************)
EXTENDS RxTransaction, FiniteSetTheorems, TLAPS

LEMMA ExpectedResponseType ==
    \A cmd : wifi_rx_expected_response(cmd) \in ReplyCode
BY DEF wifi_rx_expected_response, ReplyCode

LEMMA InitType == Init => TypeOK
BY DEF Init, TypeOK, ReplyCode

LEMMA RadioType == TypeOK /\ Radio => TypeOK'
<1> USE DEF TypeOK, transaction, stats, core0, core1, history
<1> SUFFICES ASSUME TypeOK, Radio PROVE TypeOK'
    OBVIOUS
<1>1. CASE PushInvalid
    BY <1>1 DEF PushInvalid, wifi_rx_queue_note_drop, DropReason
<1>2. ASSUME NEW c \in Channel, NEW cmd \in Reply, NEW q \in Quality,
             PushSnapshot(c, cmd, q)
      PROVE  TypeOK'
    <2>1. cmd \in ReplyCode /\ q \in AllQuality
        BY CommandAssumption
    <2>2. NoReply \in ReplyCode
        BY DEF ReplyCode
    <2>3. pushing' \in Frame
        BY <1>2, <2>1, <2>2 DEF PushSnapshot, Frame
    <2> QED
        BY <1>2, <2>3 DEF PushSnapshot
<1>3. CASE PushUnsolicited
    BY <1>3 DEF PushUnsolicited, PushDrop, wifi_rx_queue_note_drop, DropReason
<1>4. CASE PushFull
    BY <1>4 DEF PushFull, PushDrop, wifi_rx_queue_note_drop, DropReason
<1>5. CASE PushSend
    BY <1>5 DEF PushSend
<1>6. CASE PushMeasure
    BY <1>6 DEF PushMeasure
<1>7. CASE PushCount
    BY <1>7 DEF PushCount
<1> QED
    BY <1>1, <1>2, <1>3, <1>4, <1>5, <1>6, <1>7 DEF Radio, wifi_rx_queue_push

LEMMA FrameFields ==
    ASSUME NEW f \in Frame
    PROVE  /\ f.channel \in Channel
           /\ f.cmd \in ReplyCode
           /\ f.quality \in AllQuality
           /\ f.peer_epoch \in Nat
           /\ f.request_epoch \in Nat
           /\ f.expected_response_cmd \in ReplyCode
           /\ f.during \in Nat
BY DEF Frame

\* What a request's end changes keeps its type.
LEMMA CloseType ==
    ASSUME TypeOK, NEW c \in Channel, CloseTransaction(c)
    PROVE  /\ request_epoch' \in [Channel -> Nat]
           /\ expected_response_cmd' \in [Channel -> ReplyCode]
           /\ active' \in [Channel -> BOOLEAN]
           /\ heard' \in [Channel -> BOOLEAN]
           /\ request' \in [Channel -> Nat]
BY DEF TypeOK, CloseTransaction, ReplyCode

\* A frame that is dropped is counted, and the service goes on.
LEMMA DropType ==
    ASSUME TypeOK, NEW reason \in DropReason, ProcessDrop(reason)
    PROVE  TypeOK'
<1>1. dropped' \in [DropReason -> Nat]
    BY DEF TypeOK, ProcessDrop, wifi_rx_queue_note_drop
<1>2. service' = "service"
    BY DEF ProcessDrop
<1>3. UNCHANGED <<transaction, rx_queue, core0, budget, history,
                  enqueued, dequeued, accepted, high_watermark>>
    BY DEF ProcessDrop, wifi_rx_queue_note_drop
<1> QED
    BY <1>1, <1>2, <1>3 DEF TypeOK, transaction, core0, history

LEMMA LoopType == TypeOK /\ Loop => TypeOK'
<1> USE DEF transaction, stats, core0, core1, history
<1> SUFFICES ASSUME TypeOK, Loop PROVE TypeOK'
    OBVIOUS
<1>1. ASSUME NEW c \in Channel, NEW cmd \in Request, wifi_rx_transaction_begin(c, cmd)
      PROVE  TypeOK'
    BY <1>1, ExpectedResponseType DEF TypeOK, wifi_rx_transaction_begin
<1>2. ASSUME NEW c \in Channel, wifi_rx_transaction_abort(c)
      PROVE  TypeOK'
    BY <1>2, CloseType DEF TypeOK, wifi_rx_transaction_abort
<1>3. ASSUME NEW c \in Channel, wifi_rx_peer_invalidate(c)
      PROVE  TypeOK'
    BY <1>3, CloseType DEF TypeOK, wifi_rx_peer_invalidate
<1>4. CASE ServiceStart
    BY <1>4, DepthAssumption DEF TypeOK, ServiceStart
<1>5. CASE wifi_rx_queue_pop
    BY <1>5 DEF TypeOK, wifi_rx_queue_pop
<1>6. CASE JudgeStale
    BY <1>6 DEF TypeOK, JudgeStale, DropReason
<1>7. CASE JudgeCurrent
    BY <1>7 DEF TypeOK, JudgeCurrent
<1>8. CASE ProcessSilent
    BY <1>8 DEF TypeOK, ProcessSilent
<1>9. CASE ProcessReject
    BY <1>9, DropType DEF ProcessReject, DropReason
<1>10. CASE ProcessUnexpected
    BY <1>10, DropType DEF ProcessUnexpected, DropReason
<1>11. CASE wifi_rx_transaction_consume
    <2>1. CASE ConsumeAllowed(frame)
        <3>1. frame.channel \in Channel
            BY <1>11, FrameFields DEF TypeOK, wifi_rx_transaction_consume
        <3>2. CloseTransaction(frame.channel)
            BY <1>11, <2>1 DEF wifi_rx_transaction_consume
        <3>3. /\ request_epoch' \in [Channel -> Nat]
              /\ expected_response_cmd' \in [Channel -> ReplyCode]
              /\ active' \in [Channel -> BOOLEAN]
              /\ heard' \in [Channel -> BOOLEAN]
              /\ request' \in [Channel -> Nat]
            BY <3>1, <3>2, CloseType
        <3>4. /\ accepted' = accepted + 1
              /\ service' = "service"
              /\ UNCHANGED <<peer_epoch, rx_queue, enqueued, dequeued, dropped,
                             high_watermark, core0, budget>>
            BY <1>11, <2>1 DEF wifi_rx_transaction_consume
        <3> QED
            BY <3>3, <3>4 DEF TypeOK
    <2>2. CASE ~ConsumeAllowed(frame)
        BY <1>11, <2>2, DropType DEF wifi_rx_transaction_consume, DropReason
    <2> QED
        BY <2>1, <2>2
<1>12. CASE ServiceEnd
    BY <1>12 DEF TypeOK, ServiceEnd
<1> QED
    BY <1>1, <1>2, <1>3, <1>4, <1>5, <1>6, <1>7, <1>8, <1>9, <1>10, <1>11, <1>12
       DEF Loop, Wifi_Rx_Service, Wifi_Rx_ProcessFrame

\* Every variable keeps its type: in particular a service call never takes more
\* than its budget, and every index into the transaction table is a channel.
THEOREM TypeCorrect == Spec => []TypeOK
<1>1. TypeOK /\ UNCHANGED vars => TypeOK'
    BY DEF TypeOK, vars, transaction, stats, core0, core1, history
<1>2. TypeOK /\ [Next]_vars => TypeOK'
    BY <1>1, RadioType, LoopType DEF Next
<1> QED
    BY <1>2, InitType, PTL DEF Spec

-----------------------------------------------------------------------------
(* Frames in play stay sound *)

\* A step that leaves the transactions alone, or only adds to what was heard,
\* keeps a sound frame sound.
LEMMA SoundKept ==
    ASSUME TypeOK, NEW f \in Frame, FrameSound(f),
           UNCHANGED <<request_epoch, active, request>>,
           \A c \in Channel : heard[c] => heard'[c]
    PROVE  FrameSound(f)'
BY FrameFields DEF FrameSound

\* So does one that moves a channel on to a fresh request epoch.
LEMMA SoundAfterBump ==
    ASSUME TypeOK, TypeOK', NEW f \in Frame, FrameSound(f), NEW c \in Channel,
           request_epoch' = [request_epoch EXCEPT ![c] = @ + 1],
           \A d \in Channel \ {c} : /\ active'[d] = active[d]
                                    /\ request'[d] = request[d]
                                    /\ heard'[d] = heard[d]
    PROVE  FrameSound(f)'
<1>1. f.channel \in Channel /\ f.request_epoch \in Nat
    BY FrameFields
<1>2. CASE f.channel = c
    <2>1. request_epoch[c] \in Nat /\ request_epoch'[c] = request_epoch[c] + 1
        BY DEF TypeOK
    <2>2. f.request_epoch <= request_epoch[c]
        BY <1>2 DEF FrameSound
    <2>3. f.request_epoch < request_epoch'[f.channel]
        BY <1>1, <1>2, <2>1, <2>2
    <2> QED
        BY <1>1, <1>2, <2>1, <2>3 DEF FrameSound
<1>3. CASE f.channel # c
    BY <1>1, <1>3 DEF FrameSound, TypeOK
<1> QED
    BY <1>2, <1>3

LEMMA QueueFrames ==
    ASSUME TypeOK, NEW i \in 1..Len(rx_queue)
    PROVE  rx_queue[i] \in Frame
BY DEF TypeOK

\* The two lemmas above, for all the frames in play at once: a Core 1 step that
\* bumps a channel and leaves queue and callbacks alone.
LEMMA BumpKeepsFramesSound ==
    ASSUME TypeOK, TypeOK', FramesSound, NEW c \in Channel,
           service = "idle",
           UNCHANGED <<rx_queue, radio, pushing, service>>,
           request_epoch' = [request_epoch EXCEPT ![c] = @ + 1],
           \A d \in Channel \ {c} : /\ active'[d] = active[d]
                                    /\ request'[d] = request[d]
                                    /\ heard'[d] = heard[d]
    PROVE  FramesSound'
<1>1. radio = "snapped" => FrameSound(pushing)'
    BY SoundAfterBump DEF FramesSound, TypeOK
<1>2. \A i \in 1..Len(rx_queue) : FrameSound(rx_queue[i])'
    BY SoundAfterBump, QueueFrames DEF FramesSound
<1>3. (radio = "snapped")' => FrameSound(pushing)'
    BY <1>1
<1>4. (\A i \in 1..Len(rx_queue) : FrameSound(rx_queue[i]))'
    BY <1>2 DEF FrameSound
<1> QED
    BY <1>3, <1>4 DEF FramesSound

\* Steps that leave transactions, queue and frames in hand alone.
LEMMA FramesSoundUntouched ==
    ASSUME FramesSound,
           UNCHANGED <<transaction, rx_queue, radio, pushing, service, frame, history>>
    PROVE  FramesSound'
BY DEF FramesSound, FrameSound, wifi_rx_frame_is_current, transaction, history

LEMMA RadioSound == TypeOK /\ TypeOK' /\ FramesSound /\ Radio => FramesSound'
<1> USE DEF transaction, stats, core0, core1, history
<1> SUFFICES ASSUME TypeOK, TypeOK', FramesSound, Radio PROVE FramesSound'
    OBVIOUS
<1>1. CASE PushInvalid
    BY <1>1 DEF PushInvalid, FramesSound, FrameSound, wifi_rx_frame_is_current
<1>2. ASSUME NEW c \in Channel, NEW cmd \in Reply, NEW q \in Quality,
             PushSnapshot(c, cmd, q)
      PROVE  FramesSound'
    <2>1. \A d \in Channel : heard[d] => heard'[d]
        BY <1>2 DEF PushSnapshot, TypeOK
    <2>2. FrameSound(pushing)'
        BY <1>2 DEF PushSnapshot, FrameSound, TypeOK
    <2>3. \A i \in 1..Len(rx_queue) : FrameSound(rx_queue[i])'
        BY <1>2, <2>1, SoundKept, QueueFrames DEF PushSnapshot, FramesSound
    <2>4. service \in {"received", "current"} => FrameSound(frame)'
        BY <1>2, <2>1, SoundKept DEF PushSnapshot, FramesSound, TypeOK
    <2>5. UNCHANGED <<rx_queue, service, frame, peer_epoch, request_epoch,
                      expected_response_cmd, active>>
        BY <1>2 DEF PushSnapshot
    <2>6. (\A i \in 1..Len(rx_queue) : FrameSound(rx_queue[i]))'
        BY <2>3, <2>5 DEF FrameSound
    <2>7. (service = "current" => wifi_rx_frame_is_current(frame))'
        BY <2>5 DEF FramesSound, wifi_rx_frame_is_current
    <2> QED
        BY <2>2, <2>4, <2>5, <2>6, <2>7 DEF FramesSound
<1>3. ASSUME NEW r, PushDrop(r), radio = "snapped"
      PROVE  FramesSound'
    BY <1>3 DEF PushDrop, FramesSound, FrameSound, wifi_rx_frame_is_current
<1>4. CASE PushSend
    <2>1. \A i \in 1..Len(rx_queue') :
             \/ i \in 1..Len(rx_queue) /\ rx_queue'[i] = rx_queue[i]
             \/ rx_queue'[i] = pushing
        BY <1>4 DEF PushSend, TypeOK
    <2>2. \A i \in 1..Len(rx_queue') : FrameSound(rx_queue'[i])
        BY <1>4, <2>1 DEF PushSend, FramesSound
    <2> QED
        BY <1>4, <2>2 DEF PushSend, FramesSound, FrameSound, wifi_rx_frame_is_current
<1>5. CASE PushMeasure
    BY <1>5 DEF PushMeasure, FramesSound, FrameSound, wifi_rx_frame_is_current
<1>6. CASE PushCount
    BY <1>6 DEF PushCount, FramesSound, FrameSound, wifi_rx_frame_is_current
<1> QED
    BY <1>1, <1>2, <1>3, <1>4, <1>5, <1>6
       DEF Radio, wifi_rx_queue_push, PushUnsolicited, PushFull

LEMMA LoopSound == TypeOK /\ TypeOK' /\ FramesSound /\ Loop => FramesSound'
<1> USE DEF transaction, stats, core0, core1, history
<1> SUFFICES ASSUME TypeOK, TypeOK', FramesSound, Loop PROVE FramesSound'
    OBVIOUS
<1>1. ASSUME NEW c \in Channel, NEW cmd \in Request, wifi_rx_transaction_begin(c, cmd)
      PROVE  FramesSound'
    BY <1>1, BumpKeepsFramesSound DEF wifi_rx_transaction_begin, TypeOK
<1>2. ASSUME NEW c \in Channel, wifi_rx_transaction_abort(c)
      PROVE  FramesSound'
    BY <1>2, BumpKeepsFramesSound DEF wifi_rx_transaction_abort, CloseTransaction, TypeOK
<1>3. ASSUME NEW c \in Channel, wifi_rx_peer_invalidate(c)
      PROVE  FramesSound'
    BY <1>3, BumpKeepsFramesSound DEF wifi_rx_peer_invalidate, CloseTransaction, TypeOK
<1>4. CASE ServiceStart
    BY <1>4 DEF ServiceStart, FramesSound, FrameSound, wifi_rx_frame_is_current
<1>5. CASE wifi_rx_queue_pop
    <2>1. \A i \in 1..Len(rx_queue') :
             i + 1 \in 1..Len(rx_queue) /\ rx_queue'[i] = rx_queue[i + 1]
        BY <1>5 DEF wifi_rx_queue_pop, TypeOK
    <2>2. \A i \in 1..Len(rx_queue') : FrameSound(rx_queue'[i])
        BY <2>1 DEF FramesSound
    <2>3. 1 \in 1..Len(rx_queue) /\ frame' = rx_queue[1]
        BY <1>5 DEF wifi_rx_queue_pop, TypeOK
    <2>4. FrameSound(frame')
        BY <2>3 DEF FramesSound
    <2> QED
        BY <1>5, <2>2, <2>4
           DEF wifi_rx_queue_pop, FramesSound, FrameSound, wifi_rx_frame_is_current
<1>6. CASE JudgeStale
    BY <1>6 DEF JudgeStale, FramesSound, FrameSound, wifi_rx_frame_is_current
<1>7. CASE JudgeCurrent
    BY <1>7 DEF JudgeCurrent, FramesSound, FrameSound, wifi_rx_frame_is_current
<1>8. CASE ProcessSilent
    BY <1>8 DEF ProcessSilent, FramesSound, FrameSound, wifi_rx_frame_is_current
<1>9. ASSUME NEW r, ProcessDrop(r)
      PROVE  FramesSound'
    BY <1>9 DEF ProcessDrop, FramesSound, FrameSound, wifi_rx_frame_is_current
<1>10. CASE wifi_rx_transaction_consume /\ ConsumeAllowed(frame)
    <2> DEFINE c == frame.channel
    <2>1. c \in Channel
        BY <1>10, FrameFields DEF TypeOK, wifi_rx_transaction_consume
    <2>2. CloseTransaction(c) /\ service' = "service"
          /\ UNCHANGED <<rx_queue, radio, pushing>>
        BY <1>10 DEF wifi_rx_transaction_consume
    <2>3. /\ request_epoch' = [request_epoch EXCEPT ![c] = @ + 1]
          /\ \A d \in Channel \ {c} : /\ active'[d] = active[d]
                                      /\ request'[d] = request[d]
                                      /\ heard'[d] = heard[d]
        BY <2>1, <2>2 DEF CloseTransaction, TypeOK
    <2>4. ASSUME NEW f \in Frame, FrameSound(f)
          PROVE  FrameSound(f)'
        <3> HIDE DEF c
        <3> QED
            BY <2>4, <2>1, <2>3, SoundAfterBump
    <2>5. radio = "snapped" => FrameSound(pushing)'
        BY <2>4, <2>2 DEF FramesSound, TypeOK
    <2>6. \A i \in 1..Len(rx_queue) : FrameSound(rx_queue[i])'
        BY <2>4, <2>2, QueueFrames DEF FramesSound
    <2>7. (\A i \in 1..Len(rx_queue) : FrameSound(rx_queue[i]))'
        BY <2>2, <2>6 DEF FrameSound
    <2> QED
        BY <2>2, <2>5, <2>7 DEF FramesSound
<1>11. CASE ServiceEnd
    BY <1>11 DEF ServiceEnd, FramesSound, FrameSound, wifi_rx_frame_is_current
<1> QED
    BY <1>1, <1>2, <1>3, <1>4, <1>5, <1>6, <1>7, <1>8, <1>9, <1>10, <1>11
       DEF Loop, Wifi_Rx_Service, Wifi_Rx_ProcessFrame, ProcessReject,
           ProcessUnexpected, wifi_rx_transaction_consume

\* Epochs name requests: whatever the loop begins, aborts and invalidates while
\* frames are snapshotted, queued and popped, a frame that carries the epoch of
\* an active request was heard while that very request was outstanding.
THEOREM SoundAlways == Spec => []FramesSound
<1>1. Init => FramesSound
    BY DEF Init, FramesSound
<1>2. TypeOK /\ TypeOK' /\ FramesSound /\ UNCHANGED vars => FramesSound'
    BY FramesSoundUntouched DEF vars, core0, core1
<1>3. TypeOK /\ TypeOK' /\ FramesSound /\ [Next]_vars => FramesSound'
    BY <1>2, RadioSound, LoopSound DEF Next
<1> QED
    BY <1>1, <1>3, TypeCorrect, PTL DEF Spec

\* A frame the loop takes for an answer was received during the request it
\* answers.
THEOREM OwnRequest == Spec => []AnswersItsOwnRequest
<1>1. TypeOK /\ FramesSound => AnswersItsOwnRequest
    BY FrameFields DEF TypeOK, FramesSound, FrameSound, AnswersItsOwnRequest,
                       wifi_rx_frame_is_current
<1> QED
    BY <1>1, TypeCorrect, SoundAlways, PTL

\* The check made before a frame's data is written to the caches still holds
\* when the transaction is consumed after it.
THEOREM ConsumeSucceeds == Spec => []ConsumeNeverFails
<1>1. FramesSound => ConsumeNeverFails
    BY DEF FramesSound, ConsumeNeverFails, wifi_rx_frame_is_current, ConsumeAllowed
<1> QED
    BY <1>1, SoundAlways, PTL

-----------------------------------------------------------------------------
(* The counters of the two cores *)

\* Both cores count every frame exactly once, whatever the interleaving.
THEOREM CountsAgree == Spec => []FramesCounted
<1> USE DEF transaction, stats, core0, core1, history, FramesCounted
<1>1. Init => FramesCounted
    BY DEF Init
<1>2. ASSUME TypeOK, FramesCounted, [Next]_vars
      PROVE  FramesCounted'
    <2> USE <1>2
    <2>1. CASE PushInvalid
        BY <2>1 DEF PushInvalid, wifi_rx_queue_note_drop
    <2>2. ASSUME NEW c \in Channel, NEW cmd \in Reply, NEW q \in Quality,
                 PushSnapshot(c, cmd, q)
          PROVE  FramesCounted'
        BY <2>2 DEF PushSnapshot
    <2>3. ASSUME NEW r, PushDrop(r), radio = "snapped"
          PROVE  FramesCounted'
        BY <2>3 DEF PushDrop, wifi_rx_queue_note_drop
    <2>4. CASE PushSend
        BY <2>4 DEF PushSend, TypeOK
    <2>5. CASE PushMeasure
        BY <2>5 DEF PushMeasure
    <2>6. CASE PushCount
        BY <2>6 DEF PushCount, TypeOK
    <2>7. ASSUME NEW c \in Channel, NEW cmd \in Request, wifi_rx_transaction_begin(c, cmd)
          PROVE  FramesCounted'
        BY <2>7 DEF wifi_rx_transaction_begin
    <2>8. ASSUME NEW c \in Channel,
                 wifi_rx_transaction_abort(c) \/ wifi_rx_peer_invalidate(c)
          PROVE  FramesCounted'
        BY <2>8 DEF wifi_rx_transaction_abort, wifi_rx_peer_invalidate
    <2>9. CASE ServiceStart \/ ServiceEnd
        BY <2>9 DEF ServiceStart, ServiceEnd
    <2>10. CASE wifi_rx_queue_pop
        <3>1. Len(rx_queue') = Len(rx_queue) - 1
            BY <2>10 DEF wifi_rx_queue_pop, TypeOK
        <3> QED
            BY <2>10, <3>1 DEF wifi_rx_queue_pop, TypeOK
    <2>11. CASE JudgeStale \/ JudgeCurrent
        BY <2>11 DEF JudgeStale, JudgeCurrent, TypeOK
    <2>12. CASE ProcessSilent
        BY <2>12 DEF ProcessSilent
    <2>13. ASSUME NEW r, ProcessDrop(r), service = "current"
           PROVE  FramesCounted'
        BY <2>13 DEF ProcessDrop, wifi_rx_queue_note_drop
    <2>14. CASE wifi_rx_transaction_consume /\ ConsumeAllowed(frame)
        BY <2>14 DEF wifi_rx_transaction_consume
    <2>15. CASE UNCHANGED vars
        BY <2>15 DEF vars
    <2> QED
        BY <2>1, <2>2, <2>3, <2>4, <2>5, <2>6, <2>7, <2>8, <2>9, <2>10, <2>11, <2>12,
           <2>13, <2>14, <2>15
           DEF Next, Radio, wifi_rx_queue_push, PushUnsolicited, PushFull, Loop,
               Wifi_Rx_Service, Wifi_Rx_ProcessFrame, ProcessReject,
               ProcessUnexpected, wifi_rx_transaction_consume
<1> QED
    BY <1>1, <1>2, TypeCorrect, PTL DEF Spec

-----------------------------------------------------------------------------
(* The refinement *)

LEMMA InitRefines == Init => Promise!Init
BY DEF Init, Promise!Init

\* Ending a request without an answer is the promise's GiveUp.
LEMMA CloseGivesUp ==
    ASSUME NEW c \in Channel, CloseTransaction(c), UNCHANGED accepted
    PROVE  Promise!Next
BY DEF CloseTransaction, Promise!Next, Promise!GiveUp

LEMMA RadioRefines ==
    TypeOK /\ Radio => Promise!Next \/ UNCHANGED Promise!vars
<1> USE DEF transaction, stats, core0, core1, history, Promise!vars
<1> SUFFICES ASSUME TypeOK, Radio
             PROVE  Promise!Next \/ UNCHANGED Promise!vars
    OBVIOUS
<1>1. CASE PushInvalid
    BY <1>1 DEF PushInvalid, wifi_rx_queue_note_drop
<1>2. ASSUME NEW c \in Channel, NEW cmd \in Reply, NEW q \in Quality,
             PushSnapshot(c, cmd, q)
      PROVE  Promise!Next \/ UNCHANGED Promise!vars
    <2>1. CASE active[c]
        <3>1. heard' = [heard EXCEPT ![c] = TRUE]
            BY <1>2, <2>1 DEF PushSnapshot
        <3> QED
            BY <1>2, <2>1, <3>1 DEF PushSnapshot, Promise!Next, Promise!Hear
    <2>2. CASE ~active[c]
        <3>1. heard' = heard
            BY <1>2, <2>2 DEF PushSnapshot, TypeOK
        <3> QED
            BY <1>2, <3>1 DEF PushSnapshot
    <2> QED
        BY <2>1, <2>2
<1>3. CASE wifi_rx_queue_push
    BY <1>3 DEF wifi_rx_queue_push, PushUnsolicited, PushFull, PushDrop, PushSend,
                PushMeasure, PushCount, wifi_rx_queue_note_drop
<1> QED
    BY <1>1, <1>2, <1>3 DEF Radio

LEMMA LoopRefines ==
    TypeOK /\ FramesSound /\ Loop => Promise!Next \/ UNCHANGED Promise!vars
<1> USE DEF transaction, stats, core0, core1, history, Promise!vars
<1> SUFFICES ASSUME TypeOK, FramesSound, Loop
             PROVE  Promise!Next \/ UNCHANGED Promise!vars
    OBVIOUS
<1>1. ASSUME NEW c \in Channel, NEW cmd \in Request, wifi_rx_transaction_begin(c, cmd)
      PROVE  Promise!Next
    BY <1>1 DEF wifi_rx_transaction_begin, Promise!Next, Promise!Start
<1>2. ASSUME NEW c \in Channel, wifi_rx_transaction_abort(c)
      PROVE  Promise!Next
    BY <1>2, CloseGivesUp DEF wifi_rx_transaction_abort
<1>3. ASSUME NEW c \in Channel, wifi_rx_peer_invalidate(c)
      PROVE  Promise!Next
    BY <1>3, CloseGivesUp DEF wifi_rx_peer_invalidate
<1>4. CASE wifi_rx_transaction_consume /\ ConsumeAllowed(frame)
    <2>1. frame.channel \in Channel /\ active[frame.channel] /\ heard[frame.channel]
        BY <1>4, FrameFields DEF wifi_rx_transaction_consume, TypeOK, FramesSound,
                                 FrameSound, wifi_rx_frame_is_current
    <2>2. Promise!Answer(frame.channel)
        BY <1>4, <2>1 DEF wifi_rx_transaction_consume, CloseTransaction, Promise!Answer
    <2> QED
        BY <2>1, <2>2 DEF Promise!Next
<1>5. ASSUME NEW r, ProcessDrop(r)
      PROVE  UNCHANGED Promise!vars
    BY <1>5 DEF ProcessDrop, wifi_rx_queue_note_drop
<1>6. CASE ServiceStart \/ wifi_rx_queue_pop \/ JudgeStale \/ JudgeCurrent
           \/ ProcessSilent \/ ServiceEnd
    BY <1>6 DEF ServiceStart, wifi_rx_queue_pop, JudgeStale, JudgeCurrent,
                ProcessSilent, ServiceEnd
<1> QED
    BY <1>1, <1>2, <1>3, <1>4, <1>5, <1>6
       DEF Loop, Wifi_Rx_Service, Wifi_Rx_ProcessFrame, ProcessReject,
           ProcessUnexpected, wifi_rx_transaction_consume

\* wifi_rx_queue.cpp keeps the promise: a request is answered at most once, and
\* only by a frame heard while that request was outstanding.
THEOREM Refinement == Spec => ImplementsRequestReply
<1>1. TypeOK /\ FramesSound /\ [Next]_vars => [Promise!Next]_(Promise!vars)
    BY RadioRefines, LoopRefines
       DEF Next, vars, transaction, stats, history, Promise!vars
<1> QED
    BY <1>1, InitRefines, TypeCorrect, SoundAlways, PTL
       DEF Spec, ImplementsRequestReply, Promise!Spec

-----------------------------------------------------------------------------
(* A full queue *)

\* Depth is at least the number of channels: more frames than that, or as many and
\* one to add, cannot all be of different channels.
LEMMA FullMeansSurplus ==
    ASSUME TypeOK, radio = "snapped", Len(rx_queue) >= Depth
    PROVE  \E i \in DOMAIN rx_queue : Surplus(i)
<1> DEFINE places == 1..Len(rx_queue)
           others == Channel \ {pushing.channel}
           channelOf == [i \in places |-> rx_queue[i].channel]
<1>1. /\ DOMAIN rx_queue = places /\ Len(rx_queue) \in Nat
      /\ pushing.channel \in Channel
      /\ \A i \in places : rx_queue[i].channel \in Channel
    BY FrameFields DEF TypeOK
<1>2. IsFiniteSet(others) /\ Cardinality(others) = Cardinality(Channel) - 1
    BY <1>1, DepthAssumption, FS_RemoveElement
<1>3. IsFiniteSet(places) /\ Cardinality(places) = Len(rx_queue)
    BY <1>1, FS_Interval
<1>4. Cardinality(others) < Cardinality(places)
    BY <1>1, <1>2, <1>3, DepthAssumption, FS_CardinalityType
<1>5. CASE \A i \in places : rx_queue[i].channel # pushing.channel
    <2>1. channelOf \in [places -> others]
        BY <1>1, <1>5
    <2> HIDE DEF places, others, channelOf
    <2>2. PICK i, j \in places : i # j /\ channelOf[i] = channelOf[j]
        BY <1>2, <1>3, <1>4, <2>1, FS_PigeonHole
    <2>3. rx_queue[i].channel = rx_queue[j].channel
        BY <2>2 DEF channelOf
    <2> QED
        BY <1>1, <2>2, <2>3 DEF Surplus
<1>6. CASE \E i \in places : rx_queue[i].channel = pushing.channel
    BY <1>1, <1>6 DEF Surplus
<1> QED
    BY <1>5, <1>6

\* A frame that finds the queue full finds a surplus there: whatever the peers and
\* the cores do, no frame is lost to the size of the queue while every frame in it
\* is the only and current answer of its channel (wifi_rx_queue.cpp:5, 108-113).
THEOREM FullAlwaysBehindSurplus == Spec => FullOnlyBehindSurplus
<1> DEFINE Lost == dropped'["QUEUE_FULL"] # dropped["QUEUE_FULL"]
<1>1. ASSUME TypeOK, Next, Lost PROVE PushFull
    <2>1. ASSUME NEW reason \in DropReason \ {"QUEUE_FULL"},
                 wifi_rx_queue_note_drop(reason) \/ JudgeStale
          PROVE  ~Lost
        BY <1>1, <2>1 DEF wifi_rx_queue_note_drop, JudgeStale, TypeOK, DropReason
    <2>2. CASE Radio
        BY <1>1, <2>1, <2>2
           DEF Radio, wifi_rx_queue_push, PushInvalid, PushSnapshot, PushUnsolicited,
               PushSend, PushMeasure, PushCount, PushDrop, DropReason, stats
    <2>3. CASE Loop
        BY <1>1, <2>1, <2>3
           DEF Loop, Wifi_Rx_Service, Wifi_Rx_ProcessFrame, wifi_rx_transaction_begin,
               wifi_rx_transaction_abort, wifi_rx_peer_invalidate, CloseTransaction,
               ServiceStart, ServiceEnd, wifi_rx_queue_pop, JudgeCurrent, ProcessSilent,
               ProcessReject, ProcessUnexpected, ProcessDrop, wifi_rx_transaction_consume,
               DropReason, stats
    <2> QED
        BY <1>1, <2>2, <2>3 DEF Next
<1>2. TypeOK /\ [Next]_vars =>
         [Lost => \E i \in DOMAIN rx_queue : Surplus(i)]_vars
    BY <1>1, FullMeansSurplus DEF PushFull, vars
<1> QED
    BY <1>2, TypeCorrect, PTL DEF Spec, FullOnlyBehindSurplus

=============================================================================
