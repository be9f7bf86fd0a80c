------------------------------ MODULE MCDevices ------------------------------
(***************************************************************************)
(* A program that prints a word, reads two and prints the last, and begins *)
(* again at the wrap of the program counter.                               *)
(***************************************************************************)
EXTENDS Devices

Asm(opcode, operand) ==
  LET nibble == CHOOSE n \in 0 .. 14 : OpcodeOrder[n + 1] = opcode
  IN  nibble * MemoryWords + operand

EchoImage ==
  [a \in Addr |-> << Asm("Output", 0), Asm("Input", 0), Asm("Input", 0),
                     Asm("Output", 0) >>[a + 1]]

EchoImages == { EchoImage }
NoPrograms == {}
TwoInputs == { 1, 2 }
=============================================================================
