---------------------------- MODULE MCDebugSession ----------------------------
(***************************************************************************)
(* Debugger sessions over four-word programs: one that loops for ever      *)
(* through three addresses, and one that reads, writes and halts.          *)
(***************************************************************************)
EXTENDS DebugSession

Asm(opcode, operand) ==
  LET nibble == CHOOSE n \in 0 .. 14 : OpcodeOrder[n + 1] = opcode
  IN  nibble * MemoryWords + operand

Image(words) == [a \in Addr |-> words[a + 1]]

LoopImage ==
  Image(<< Asm("LoadImmi", 1), Asm("LoadImmi", 2), Asm("Jump", 0), 0 >>)
EchoImage ==
  Image(<< Asm("Input", 0), Asm("Output", 0), Asm("Halt", 0), 0 >>)

BothImages == { LoopImage, EchoImage }
NoPrograms == {}
AnyBreakpoint == { {}, {1}, {2} }
=============================================================================
