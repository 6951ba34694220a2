-------------------------------- MODULE EasyCat --------------------------------
(***************************************************************************)
(* The EtherCAT slave driver, src/include/EasyCAT.h: Init(), which setup()     *)
(* calls once, and MainTask(), which setup() calls once and loop() on every    *)
(* tick.  The LAN9252 it talks to over SPI and the master behind that go on     *)
(* working between any two of the driver's register accesses, so what a         *)
(* register reads, and which image of the master's is in the process RAM, is    *)
(* chosen anew at each access.                                                 *)
(*                                                                           *)
(* A process image is one value: the chip hands over an image of the master's  *)
(* whole, and only loop() touches the two buffers.  What the driver does with   *)
(* no SPI bus (after a failed Init() has ended it) is what its loops do when     *)
(* every register reads zero.                                                  *)
(***************************************************************************)
EXTENDS Naturals

CONSTANTS
    Blank,          \* the output image with every byte zero
    Program,        \* for each program a PLC may run, the images it writes
    Tout            \* reads before Init() gives up a wait, 1000

ASSUME DriverAssumption == Tout \in Nat \ {0} /\ Program # {}

VARIABLES
    program,        \* the program this PLC runs
    spi,            \* the SPI bus is open
    reads,          \* i of Init(): reads made in the current wait
    phase,          \* where setup() and loop() are
    WatchDog,       \* MainTask()'s flag: the watchdog has expired
    Operational,    \* MainTask()'s flag: the state is operational
    BufferOut       \* the master's image as the firmware sees it

driverVars == <<program, spi, reads, phase, WatchDog, Operational, BufferOut>>

InitPhase == {"RESET_CTL", "BYTE_TEST", "HW_CFG", "ALIAS"}
TaskPhase == {"WDOG_STATUS", "AL_STATUS", "PRAM_RD", "PRAM_WR"}

DriverOK ==
    /\ program \in Program
    /\ BufferOut \in program \cup {Blank}
    /\ spi \in BOOLEAN
    /\ reads \in 0..(Tout - 1)
    /\ WatchDog \in BOOLEAN /\ Operational \in BOOLEAN

\* setup() has reached EASYCAT.Init().
DriverInit ==
    /\ program \in Program
    /\ spi = TRUE
    /\ reads = 0
    /\ phase = "RESET_CTL"
    /\ WatchDog = FALSE /\ Operational = FALSE
    /\ BufferOut = Blank

-----------------------------------------------------------------------------
(* Init(): three waits, each of at most Tout reads *)

AfterWait(p) ==
    CASE p = "RESET_CTL" -> "BYTE_TEST"
      [] p = "BYTE_TEST" -> "HW_CFG"
      [] p = "HW_CFG" -> "ALIAS"

\* The read that fulfils a wait comes too late when it is the last one allowed.
\* setup() reports a failed Init() and carries on without the SPI bus.
Init_Wait(fulfilled) ==
    /\ phase \in InitPhase \ {"ALIAS"}
    /\ LET timedOut == reads + 1 = Tout IN
       /\ reads' = IF timedOut \/ fulfilled THEN 0 ELSE reads + 1
       /\ spi' = ~timedOut
       /\ phase' = CASE timedOut -> "ALIAS"
                     [] ~timedOut /\ fulfilled -> AfterWait(phase)
                     [] OTHER -> phase
    /\ UNCHANGED <<program, WatchDog, Operational, BufferOut>>

\* setup() writes the rotary address to the alias register and reads it back.
WriteAlias ==
    /\ phase = "ALIAS"
    /\ phase' = "WDOG_STATUS"
    /\ UNCHANGED <<program, spi, reads, WatchDog, Operational, BufferOut>>

-----------------------------------------------------------------------------
(* MainTask() *)

\* A closed bus reads zero: no running watchdog, no operational state.
ReadWatchdog(running) ==
    /\ phase = "WDOG_STATUS"
    /\ running => spi
    /\ WatchDog' = ~running
    /\ phase' = "AL_STATUS"
    /\ UNCHANGED <<program, spi, reads, Operational, BufferOut>>

ReadStatus(op) ==
    /\ phase = "AL_STATUS"
    /\ op => spi
    /\ Operational' = op
    /\ phase' = "PRAM_RD"
    /\ UNCHANGED <<program, spi, reads, WatchDog, BufferOut>>

\* Mutants: a lost bus leaves the outputs as they were; the loop that clears them
\* starts at data1.
OutputsKept(pram) == IF WatchDog \/ ~Operational THEN BufferOut ELSE pram
OutputsFromData1(pram) ==
    IF WatchDog \/ ~Operational
    THEN [Blank EXCEPT !.pairing_bit = BufferOut.pairing_bit] ELSE pram

\* The outputs of a bus that is lost are zero.
Outputs(pram) == IF WatchDog \/ ~Operational THEN Blank ELSE pram

SPIReadProcRamFifo(pram) ==
    /\ phase = "PRAM_RD"
    /\ BufferOut' = Outputs(pram)
    /\ phase' = "PRAM_WR"
    /\ UNCHANGED <<program, spi, reads, WatchDog, Operational>>

\* Waits, without a timeout, for room in the chip's FIFO, which a closed bus never
\* reports: after a failed Init() setup() goes on asking for ever.
SPIWriteProcRamFifo ==
    /\ phase = "PRAM_WR"
    /\ phase' = IF spi THEN "loop" ELSE "PRAM_WR"
    /\ UNCHANGED <<program, spi, reads, WatchDog, Operational, BufferOut>>

DriverStep ==
    \/ \E fulfilled \in BOOLEAN : Init_Wait(fulfilled)
    \/ WriteAlias
    \/ \E running \in BOOLEAN : ReadWatchdog(running)
    \/ \E op \in BOOLEAN : ReadStatus(op)
    \/ \E pram \in program : SPIReadProcRamFifo(pram)
    \/ SPIWriteProcRamFifo

=============================================================================
