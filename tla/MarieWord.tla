------------------------------ MODULE MarieWord ------------------------------
(***************************************************************************)
(* The MARIE word, address and instruction encodings of mrs-core, and the  *)
(* ALU of mrs-vm.  A word is a 4-bit opcode above an address-wide operand; *)
(* it is the number opcode * MemoryWords + operand, so that with           *)
(* MemoryWords = 4096 a word is the 16-bit pattern of the code, and a      *)
(* smaller MemoryWords keeps every wrap and mask of the code at a smaller  *)
(* width.                                                                  *)
(***************************************************************************)
EXTENDS Integers

CONSTANTS
  MemoryWords,      \* MEMORY_WORD_COUNT: 4096 in the code
  DisplayOrigin     \* the first address of the memory-mapped display: 0xF00

\* The skip condition is held by the top two bits of the operand.
ASSUME MemoryWordsAssumption ==
  /\ MemoryWords \in Nat \ {0}
  /\ MemoryWords % 4 = 0

Addr == 0 .. MemoryWords - 1

\* Every bit pattern of a machine word.
WordCount == 16 * MemoryWords
Word == 0 .. WordCount - 1

ASSUME DisplayOriginAssumption == DisplayOrigin \in Addr

\* The addresses a frontend draws from: the top of memory.
DisplayAddr == DisplayOrigin .. MemoryWords - 1

\* MemoryAddress::new_masked: all but the address lines are dropped.
Masked(bits) == bits % MemoryWords
NextAddr(a) == (a + 1) % MemoryWords

-----------------------------------------------------------------------------
(* Instructions.                                                           *)

\* In numeric order: the opcode of nibble n is the one at n + 1.
OpcodeOrder ==
  << "JnS", "Load", "Store", "Add", "Subt", "Input", "Output", "Halt",
     "SkipCond", "Jump", "LoadImmi", "AddI", "JumpI", "LoadI", "StoreI" >>

Opcode == { OpcodeOrder[i] : i \in 1 .. 15 }

Instruction == [opcode : Opcode, operand : Addr]

\* Option::None, for a word with the unassigned opcode 0xF and for the
\* decoded-instruction latch before the first Decode.
NoInstruction == [opcode |-> "None", operand |-> 0]

\* Instruction::decode.
Decode(word) ==
  LET nibble == word \div MemoryWords
  IN  IF nibble < 15
      THEN [opcode |-> OpcodeOrder[nibble + 1], operand |-> Masked(word)]
      ELSE NoInstruction

-----------------------------------------------------------------------------
(* Arithmetic, all of it modulo the word size.                             *)

AluAdd(x, y) == (x + y) % WordCount
AluSub(x, y) == (x - y) % WordCount
LoadImmediate(word) == Masked(word)

IsZero(ac) == ac = 0
IsNegative(ac) == ac >= WordCount \div 2
IsPositive(ac) == ~IsZero(ac) /\ ~IsNegative(ac)

\* SkipCondition::from_operand, which looks at the top two bits only, and
\* SkipCondition::holds.
ConditionOf(operand) ==
  << "Negative", "Zero", "Positive", "NonZero" >>
    [1 + operand \div (MemoryWords \div 4)]

Holds(condition, ac) ==
  \/ condition = "Negative" /\ IsNegative(ac)
  \/ condition = "Zero" /\ IsZero(ac)
  \/ condition = "Positive" /\ IsPositive(ac)
  \/ condition = "NonZero" /\ ~IsZero(ac)
=============================================================================
