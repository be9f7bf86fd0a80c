----------------------------- MODULE MCRunDrivers -----------------------------
(***************************************************************************)
(* Runs of short programs: one that draws for ever, one that reads a       *)
(* word and draws it, and one that runs into an unassigned opcode; as      *)
(* source, and as the images written of them.                              *)
(***************************************************************************)
EXTENDS RunDrivers

Asm(opcode, operand) ==
  LET nibble == CHOOSE n \in 0 .. 14 : OpcodeOrder[n + 1] = opcode
  IN  nibble * MemoryWords + operand

Pixel == MemoryWords - 1

\* Flips the pixel for ever: adding the word of a Skipcond twice is nothing.
DrawSource ==
  Source(<< Asm("Add", 3), Asm("Store", Pixel), Asm("Jump", 0),
            Asm("SkipCond", 0) >>, Unset)

\* Reads into the pixel and halts, from address 1 on.
ReadSource ==
  Source(<< Asm("Input", 0), Asm("Store", Pixel), Asm("Halt", 0) >>, 1)

FaultSource == Source(<< Asm("JnS", 3), 15 * MemoryWords >>, 0)

Sources == { DrawSource, ReadSource, FaultSource }

MCFiles ==
  Sources \cup { WrittenImage(s) : s \in Sources }
    \cup { WrittenBare(s) : s \in Sources }
    \cup { Bin(<< 1, 2, 3 >>), Bin([i \in 1 .. 2 * MemoryWords + 2 |-> 0]) }

Run(max, speed, display, refresh) ==
  [max |-> max, speed |-> speed, display |-> display, refresh |-> refresh]

MCArguments ==
  { Run(m, Unset, FALSE, 0) : m \in {Unset, 0, 3} }
    \cup { Run(m, Unset, TRUE, r) : m \in {Unset, 3}, r \in {0, 1, 2} }
    \cup { Run(m, s, d, 1) : m \in {Unset, 0, 2}, s \in {1, 3}, d \in BOOLEAN }

MCOrigins == {Unset, 0, 1, MemoryWords - 2}
=============================================================================
