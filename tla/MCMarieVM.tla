------------------------------ MODULE MCMarieVM ------------------------------
(***************************************************************************)
(* Small instances of MarieVM for TLC: four-word programs that between     *)
(* them use subroutines, self-modifying code, the unassigned opcode, the   *)
(* display and both directions of the device.                              *)
(***************************************************************************)
EXTENDS MarieVM

\* The word of an instruction, and a full image from its words.
Asm(opcode, operand) ==
  LET nibble == CHOOSE n \in 0 .. 14 : OpcodeOrder[n + 1] = opcode
  IN  nibble * MemoryWords + operand

Image(words) == [a \in Addr |-> words[a + 1]]

Unassigned == 15 * MemoryWords

\* Calls and returns from a subroutine.
CallImage ==
  Image(<< Asm("JnS", 2), Asm("Halt", 0), 0, Asm("JumpI", 2) >>)

\* Copies a value from the input to the output, either of which the device
\* may refuse, and draws it through a pointer: OneInput's is a jump back.
DrawImage ==
  Image(<< Asm("Input", 0), Asm("Output", 0), Asm("StoreI", 3), 3 >>)

\* Counts down until the sign changes.
CountImage ==
  Image(<< Asm("Subt", 3), Asm("SkipCond", 0), Asm("Jump", 0), Asm("Load", 1) >>)

\* Adds through a pointer and runs into an unassigned opcode.
FaultImage ==
  Image(<< Asm("LoadI", 3), Asm("AddI", 3), Unassigned, 1 >>)

RewindImages == { CallImage, DrawImage, CountImage, FaultImage }
NoPrograms == {}
ShortPrograms == { << Asm("SkipCond", 1), Asm("LoadImmi", 1), Asm("Jump", 0), Asm("Halt", 0) >> }
NoBreakpointSets == {}
SomeBreakpointSets == { {1} }
OneInput == { Asm("Jump", 1) }
PokedWords == { Asm("Halt", 3) }
=============================================================================
