----------------------------- MODULE MCProcessImage -----------------------------
(* One I/O channel and two serial ones; a PLC program for each kind. *)
EXTENDS ProcessImage, TLC

PlcImage(pairing_bit, word0, word1, com1, data) ==
    [from |-> "master", pairing_bit |-> pairing_bit,
     word |-> (0 :> word0) @@ (1 :> word1) @@ (2 :> 0), com1 |-> com1, data |-> data]

MCBlank == [PlcImage({}, 0, 0, 0, 0) EXCEPT !.from = "driver"]

(* Devices 0x0101 with two pages, 0x0201 without, 0x0301 with a serial line *)
Paged == 257
Flat == 513
Serial == 769
MCSerialDevice == {Serial}
MCPages == (Paged :> 2) @@ (Flat :> 0) @@ (Serial :> 0)

(* Pair with either device, erase, write page 7, read page 2 *)
IoProgram == {PlcImage({0}, Paged, 0, 0, 0), PlcImage({0}, Flat, 0, 0, 0), PlcImage({0}, 0, 0, 0, 0),
              PlcImage({}, 61445, 0, 0, 0), PlcImage({}, 8192, 0, 0, 0)}

(* Pair; then write 1:1 and read 1:1 (0x1111), write 2:1 (0x2100), write 1:2 (0x1200),
   read 1:3, a page too many (0x0013) *)
SerialProgram == {PlcImage({1}, 0, Serial, 0, 0), PlcImage({}, 0, 5, 4369, 1),
                  PlcImage({}, 0, 5, 8448, 2), PlcImage({}, 0, 5, 4608, 3), PlcImage({}, 0, 5, 19, 0)}

MCProgram == {IoProgram, SerialProgram}
=============================================================================
