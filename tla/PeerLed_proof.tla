------------------------------ MODULE PeerLed_proof ------------------------------
(***************************************************************************)
(* Theorems about PeerLed, for every set of peers: the LED task and set-up use  *)
(* the driver as LedDriver has it, so what is proved there holds here too, and   *)
(* only channels that have had a peer are lit.                                  *)
(***************************************************************************)
EXTENDS PeerLed, LedDriver_proof

LEMMA TaskIsCaller == Task \in Caller
  BY OneCaller DEF Task

LEMMA DriverSteps == LedNext => Next \/ UNCHANGED vars
  <1> SUFFICES ASSUME LedNext PROVE Next \/ UNCHANGED vars
    OBVIOUS
  <1> USE TaskIsCaller DEF Next
  <1>1. CASE \E p \in Peer : PairMask_Set(p)
    BY <1>1 DEF PairMask_Set
  <1>2. CASE Bind \/ InitDriver
    BY <1>2 DEF Bind, InitDriver
  <1>3. CASE show_led_init \/ PollDone \/ FlushDone \/ LED_Task
    BY <1>3 DEF show_led_init, PollDone, FlushDone, LED_Task
  <1>4. CASE Poll \/ Flush \/ InDriver
    BY <1>4 DEF Poll, Flush, InDriver
  <1>5. CASE Driver(ServiceStep) \/ Driver(RmtStep) \/ Driver(Tick)
    BY <1>5 DEF Driver
  <1> QED
    BY <1>1, <1>2, <1>3, <1>4, <1>5 DEF LedNext, TaskStep

\* The LED task and set-up drive the driver only through its own operations
\* (peer_chk_led.cpp:35-66, 78-125), so each of its theorems holds of them.
THEOREM UsesDriver == LedSpec => Spec
  <1>1. LedInit => Init
    BY DEF LedInit
  <1>2. [LedNext]_all => [Next]_vars
    BY DriverSteps DEF all
  <1> QED
    BY <1>1, <1>2, PTL DEF LedSpec, Spec

\* One answers for TX_ACTIVE at every moment of set-up and of the LED task.
THEOREM LedHolderAlways == LedSpec => []OneHolder
  BY UsesDriver, HolderAlways, PTL

\* The line is held quiet between the pictures of set-up and of the LED task.
THEOREM LedHoldAlwaysKept == LedSpec => KeepsHold
  BY UsesDriver, HoldAlwaysKept, PTL

-----------------------------------------------------------------------------
(* Who is lit.  What is on the wire was encoded, what was encoded was drawn, and  *)
(* what was drawn followed led_ctrl[], which leaves OFF only for a peer in the    *)
(* mask.                                                                         *)

Lit == {"RED", "GREEN", "YELLOW"}

PicturesOK == pixels \in Picture /\ items \in Picture /\ wire \in Picture
LedsOK == led \in [Peer -> {"OFF", "NORMAL", "PAIR_DISC"}]

Seen ==
    /\ mask \subseteq been
    /\ \A p \in Peer : led[p] # "OFF" => p \in been
    /\ \A p \in Peer : pixels[p] \in Lit \/ items[p] \in Lit \/ wire[p] \in Lit => p \in been

SeenInv == PicturesOK /\ LedsOK /\ Seen

LEMMA InitSeen == LedInit => SeenInv
  BY DEF LedInit, SeenInv, PicturesOK, LedsOK, Seen, Picture, Plain, Colour, Lit

LEMMA StepSeen == SeenInv /\ [LedNext]_all => SeenInv'
  <1> SUFFICES ASSUME SeenInv, [LedNext]_all PROVE SeenInv'
    OBVIOUS
  <1> USE DEF SeenInv, PicturesOK, LedsOK, Seen
  <1>1. CASE \E p \in Peer : PairMask_Set(p)
    BY <1>1 DEF PairMask_Set, task, pictures
  <1>2. CASE Bind \/ InitDriver \/ Poll \/ PollDone \/ Flush \/ FlushDone
    BY <1>2 DEF Bind, InitDriver, Poll, PollDone, Flush, FlushDone, task, pictures
  <1>3. CASE show_led_init
    BY <1>3 DEF show_led_init, Plain, Picture, Colour, Lit
  <1>4. CASE LED_Task
    <2>1. \A p \in Peer : led'[p] = LedState(led[p], p \in mask, ever_paired[p])
      BY <1>4 DEF LED_Task
    <2>2. LedsOK'
      BY <1>4 DEF LED_Task, LedState
    <2>3. \A p \in Peer : led'[p] # "OFF" => p \in been
      BY <2>1 DEF LedState
    <2>4. PicturesOK'
      BY <1>4 DEF LED_Task
    <2>5. \A p \in Peer : pixels'[p] \in Lit => p \in been
      <3>1. CASE g_inited
        <4>1. \A p \in Peer :
                pixels'[p] \in set_peer_LED_state(led'[p], pl_tog_flag', mask # {})
          BY <1>4, <3>1 DEF LED_Task
        <4>2. \A p \in Peer : pixels'[p] \in Lit => led'[p] # "OFF"
          BY <4>1 DEF set_peer_LED_state, Lit
        <4> QED
          BY <4>2, <2>3
      <3> QED
        BY <1>4, <3>1 DEF LED_Task
    <2> QED
      BY <1>4, <2>2, <2>3, <2>4, <2>5 DEF LED_Task
  <1>5. CASE InDriver
    BY <1>5 DEF InDriver, task
  <1>6. CASE Driver(ServiceStep) \/ Driver(RmtStep) \/ Driver(Tick) \/ UNCHANGED all
    BY <1>6 DEF Driver, task, pictures, all
  <1> QED
    BY <1>1, <1>2, <1>3, <1>4, <1>5, <1>6 DEF LedNext, TaskStep

\* No channel is lit that has never been paired (peer_chk_led.h:25).
THEOREM LitAlways == LedSpec => []OnlyPeersAreLit
  <1>1. SeenInv => OnlyPeersAreLit
    BY DEF SeenInv, Seen, Lit, OnlyPeersAreLit
  <1> QED
    BY InitSeen, StepSeen, <1>1, PTL DEF LedSpec

-----------------------------------------------------------------------------
(* Types *)

TaskOK ==
    /\ mask \subseteq Peer /\ been \subseteq Peer
    /\ stage \in {"init", "draw", "poll", "polled", "flush", "flushed"}
    /\ round \in 1..4
    /\ ever_paired \in [Peer -> BOOLEAN]
    /\ pl_tog_flag \in BOOLEAN

LEMMA StepTaskOK == TaskOK /\ [LedNext]_all => TaskOK'
  <1> SUFFICES ASSUME TaskOK, [LedNext]_all PROVE TaskOK'
    OBVIOUS
  <1> USE DEF TaskOK
  <1>1. CASE \E p \in Peer : PairMask_Set(p)
    BY <1>1 DEF PairMask_Set, task
  <1>2. CASE Bind \/ InitDriver \/ show_led_init
    BY <1>2 DEF Bind, InitDriver, show_led_init, task
  <1>3. CASE Poll \/ Flush \/ FlushDone
    BY <1>3 DEF Poll, Flush, FlushDone
  <1>4. CASE PollDone
    <2>1. round' \in 1..4
      BY <1>4 DEF PollDone
    <2>2. stage' \in {"poll", "draw", "flush"}
      BY <1>4 DEF PollDone, Polled
    <2> QED
      BY <1>4, <2>1, <2>2 DEF PollDone
  <1>5. CASE LED_Task
    BY <1>5 DEF LED_Task
  <1>6. CASE InDriver
    BY <1>6 DEF InDriver, task
  <1>7. CASE Driver(ServiceStep) \/ Driver(RmtStep) \/ Driver(Tick) \/ UNCHANGED all
    BY <1>7 DEF Driver, task, all
  <1> QED
    BY <1>1, <1>2, <1>3, <1>4, <1>5, <1>6, <1>7 DEF LedNext, TaskStep

\* The LED task, its pictures and the driver stay well typed, whatever the peers.
THEOREM LedTypeCorrect == LedSpec => []LedTypeOK
  <1>1. LedInit => TaskOK
    <2>1. LedInit => ever_paired \in [Peer -> BOOLEAN] /\ pl_tog_flag \in BOOLEAN
      BY Zenon DEF LedInit
    <2>2. LedInit => mask \subseteq Peer /\ been \subseteq Peer
      BY Zenon DEF LedInit
    <2>3. LedInit => stage = "init" /\ round \in 1..4
      <3>1. 1 \in 1..4
        OBVIOUS
      <3> QED
        BY <3>1, Zenon DEF LedInit
    <2> QED
      BY <2>1, <2>2, <2>3 DEF TaskOK
  <1>2. TypeOK /\ SeenInv /\ TaskOK => LedTypeOK
    BY DEF LedTypeOK, SeenInv, PicturesOK, LedsOK, TaskOK
  <1> QED
    BY UsesDriver, TypeCorrect, InitSeen, StepSeen, <1>1, StepTaskOK, <1>2, PTL DEF LedSpec

=============================================================================
