------------------------------ MODULE ArchProofs ------------------------------
(***************************************************************************)
(* Proofs about the instruction set and the linter, for every size of      *)
(* memory, every program and every device: that the micro-coded machine    *)
(* implements the instruction set, that a program goes where the linter's  *)
(* graph has an edge for it, and that one the linter is sure of stays in   *)
(* its code.                                                               *)
(***************************************************************************)
EXTENDS LintedRuns, MarieVMProofs, Induction, FiniteSetTheorems

-----------------------------------------------------------------------------
(* What a programmer sees of an instruction part-way through it.           *)

\* The opcodes that address memory, read what is there, and take it for an
\* address again.
Addressing == {"JnS", "Load", "Store", "Add", "Subt", "AddI", "JumpI", "LoadI", "StoreI"}
Reading == {"Load", "Add", "Subt", "AddI", "JumpI", "LoadI", "StoreI"}
Pointing == {"AddI", "LoadI", "StoreI"}

Word0 == arch.memory[arch.pc]
Op == ISA!Instr.opcode

\* What the programmer sees, with m operations of the instruction done.
InView(m) ==
  /\ m = 0 => arch = View
  /\ m > 0 =>
       /\ registers["Ac"] = arch.ac
       /\ registers["Pc"] = IF m <= 3 THEN arch.pc
                            ELSE IF m = 9 /\ Op = "JnS" THEN ISA!X
                            ELSE NextAddr(arch.pc)
       /\ memory = IF m >= 8 /\ Op = "JnS"
                   THEN [arch.memory EXCEPT ![ISA!X] = NextAddr(arch.pc)]
                   ELSE arch.memory
       /\ consumed = IF m = 6 /\ Op = "Input"
                     THEN Append(arch.consumed, registers["In"])
                     ELSE arch.consumed
       /\ outputs = arch.outputs

\* The fetch phase.
InFetch(m) ==
  /\ m = 1 => registers["Mar"] = arch.pc
  /\ m = 2 => registers["Mbr"] = Word0
  /\ m >= 3 => registers["Ir"] = Word0
  /\ m >= 5 => control.decoded = ISA!Instr /\ ISA!Instr # NoInstruction

\* The registers and the latch between two operations of the execute phase.
InExecute(m) ==
  /\ m \in {6, 7} /\ Op \in Addressing => registers["Mar"] = ISA!X
  /\ m = 7 /\ Op \in Reading => registers["Mbr"] = arch.memory[ISA!X]
  /\ m \in {8, 9} /\ Op \in Pointing => registers["Mar"] = ISA!Indirect
  /\ m = 9 /\ Op \in {"AddI", "LoadI"} => registers["Mbr"] = arch.memory[ISA!Indirect]
  /\ m = 7 /\ Op = "JnS" => registers["Mbr"] = NextAddr(arch.pc)
  /\ m = 8 /\ Op = "JnS" => registers["Mar"] = ISA!X
  /\ m = 7 /\ Op = "Store" => registers["Mbr"] = arch.ac
  /\ m = 9 /\ Op = "StoreI" => registers["Mbr"] = arch.ac
  /\ m = 6 /\ Op = "Output" => registers["Out"] = arch.ac
  /\ m = 6 /\ Op = "SkipCond" =>
       control.comparison = Holds(ConditionOf(ISA!X), arch.ac)

InFlight ==
  /\ InView(control.micro_pc)
  /\ InFetch(control.micro_pc)
  /\ InExecute(control.micro_pc)

ArchType == arch \in [ac : Word, pc : Addr, memory : [Addr -> Word],
               consumed : Seq(Word), outputs : Seq(Word)]

\* The instruction set is told with the same words as the machine.
LEMMA SameWords ==
  /\ ISA!Word = Word /\ ISA!Addr = Addr /\ ISA!NoInstruction = NoInstruction
  /\ \A x : /\ ISA!Masked(x) = Masked(x) /\ ISA!NextAddr(x) = NextAddr(x)
           /\ ISA!Decode(x) = Decode(x)
           /\ ISA!ConditionOf(x) = ConditionOf(x)
<1>1. ISA!WordCount = WordCount
  BY DEF ISA!WordCount, WordCount
<1>2. /\ ISA!Word = Word /\ ISA!Addr = Addr /\ ISA!NoInstruction = NoInstruction
      /\ ISA!OpcodeOrder = OpcodeOrder
  BY <1>1 DEF ISA!Word, Word, ISA!Addr, Addr, ISA!NoInstruction, NoInstruction,
         ISA!OpcodeOrder, OpcodeOrder
<1>3. ASSUME NEW x
      PROVE  /\ ISA!Masked(x) = Masked(x) /\ ISA!NextAddr(x) = NextAddr(x)
             /\ ISA!Decode(x) = Decode(x)
             /\ ISA!ConditionOf(x) = ConditionOf(x)
  <2>1. ISA!Masked(x) = Masked(x) /\ ISA!NextAddr(x) = NextAddr(x)
    BY DEF ISA!Masked, Masked, ISA!NextAddr, NextAddr
  <2>2. ISA!Decode(x) = Decode(x)
    BY <1>2, <2>1, Zenon DEF ISA!Decode, Decode
  <2>3. ISA!ConditionOf(x) = ConditionOf(x)
    BY DEF ISA!ConditionOf, ConditionOf
  <2> QED
    BY <2>1, <2>2, <2>3
<1> QED
  BY <1>2, <1>3

\* And with the same arithmetic.
LEMMA SameArithmetic ==
  ASSUME NEW x, NEW y
  PROVE  /\ ISA!AluAdd(x, y) = AluAdd(x, y)
         /\ ISA!AluSub(x, y) = AluSub(x, y)
         /\ ISA!Holds(x, y) <=> Holds(x, y)
<1>1. ISA!WordCount = WordCount
  BY DEF ISA!WordCount, WordCount
<1> QED
  BY <1>1
     DEF ISA!AluAdd, AluAdd, ISA!AluSub, AluSub, ISA!Holds, Holds,
         ISA!IsZero, IsZero, ISA!IsNegative, IsNegative, ISA!IsPositive, IsPositive

\* What the instruction at the boundary is made of.
LEMMA InstrFacts ==
  ASSUME ArchType
  PROVE  /\ arch.pc \in Addr /\ arch.ac \in Word /\ Word0 \in Word
         /\ arch.memory \in [Addr -> Word]
         /\ ISA!Instr = Decode(Word0)
         /\ ISA!Instr \in Instruction \cup {NoInstruction}
         /\ ISA!X \in Addr
         /\ ISA!Instr # NoInstruction => ISA!X = Masked(Word0) /\ Op \in Opcode
         /\ ISA!Indirect \in Addr /\ ISA!Indirect = Masked(arch.memory[ISA!X])
<1>1. /\ arch.pc \in Addr /\ arch.ac \in Word /\ Word0 \in Word
      /\ arch.memory \in [Addr -> Word]
  BY DEF ArchType, Word0
<1>2. ISA!Instr = Decode(Word0)
  BY SameWords DEF ISA!Instr, Word0
<1>3. ISA!Instr \in Instruction \cup {NoInstruction}
  BY <1>1, <1>2, DecodeType
<1>4. ISA!X \in Addr
  BY <1>3, WordFacts DEF ISA!X, Instruction, NoInstruction
<1>5. ISA!Instr # NoInstruction => ISA!X = Masked(Word0) /\ Op \in Opcode
  BY <1>2, <1>3 DEF ISA!X, Decode, Op, Instruction
<1>6. ISA!Indirect \in Addr /\ ISA!Indirect = Masked(arch.memory[ISA!X])
  <2>1. Masked(arch.memory[ISA!X]) \in Addr
    <3>1. \A w \in Word : Masked(w) \in Addr
      BY MaskedType, WordFacts
    <3>2. arch.memory[ISA!X] \in Word
      BY <1>1, <1>4
    <3> QED
      BY <3>1, <3>2
  <2>2. ISA!Indirect = Masked(arch.memory[ISA!X])
    BY SameWords DEF ISA!Indirect
  <2> QED
    BY <2>1, <2>2
<1> QED
  BY <1>1, <1>2, <1>3, <1>4, <1>5, <1>6

\* What the machine's registers are, as far as their type goes.
LEMMA RegisterFacts ==
  ASSUME IInv
  PROVE  /\ registers \in [Register -> Word]
         /\ registers["Pc"] \in Addr /\ registers["Mar"] \in Addr
         /\ memory \in [Addr -> Word]
         /\ control \in Control /\ InCycle(control)
         /\ control.micro_pc \in 0 .. 9
BY DEF IInv, TypeOK, RegisterFile, Control

\* Part-way through an execute phase: which operation is next.
LEMMA AtOperation ==
  ASSUME IInv, ArchType, InFlight, control.micro_pc >= 5
  PROVE  /\ control.decoded = ISA!Instr /\ Op \in Opcode
         /\ ISA!Instr # NoInstruction
         /\ CurrentOp = Execute(Op)[control.micro_pc - 4]
         /\ control.micro_pc - 4 \in 1 .. Len(Execute(Op))
<1>1. /\ control.decoded = ISA!Instr /\ ISA!Instr # NoInstruction /\ Op \in Opcode
  BY InstrFacts DEF InFlight, InFetch
<1>2. control.decoded.opcode = Op
  BY <1>1 DEF Op
<1>3. CurrentOp = Execute(Op)[control.micro_pc - 4]
  BY <1>2, FetchFacts, RegisterFacts DEF CurrentOp
<1>4. control.micro_pc - 4 \in 1 .. Len(Execute(Op))
  BY <1>1, <1>2, RegisterFacts, CycleLengthType, ExecuteFacts, FetchFacts DEF InCycle
<1> QED
  BY <1>1, <1>3, <1>4

\* And where the micro-program counter goes from there.
LEMMA AfterOperation ==
  ASSUME IInv, ArchType, InFlight, Ran, control.micro_pc >= 5
  PROVE  /\ control'.decoded = control.decoded
         /\ control'.micro_pc = IF control.micro_pc - 4 = Len(Execute(Op)) THEN 0
                                ELSE control.micro_pc + 1
<1>1. CurrentOp.op # "Decode"
  BY RegisterFacts, CurrentOpFacts
<1>2. control'.decoded = control.decoded
  BY <1>1 DEF Ran
<1>3. control'.micro_pc = AdvancedMicroPc(ISA!Instr)
  BY <1>2, AtOperation DEF Ran
<1>4. CycleLength(Op) = 5 + Len(Execute(Op)) /\ Len(Execute(Op)) \in 1 .. 5
  BY AtOperation, CycleLengthType, ExecuteFacts
<1> QED
  BY <1>2, <1>3, <1>4, AtOperation, RegisterFacts DEF AdvancedMicroPc, Op

ArchStep == arch' = IF control'.micro_pc = 0 THEN View' ELSE arch

\* The fetch phase brings the instruction into the latch.
LEMMA RunsFetch ==
  ASSUME IInv, ArchType, InFlight, Ran, ArchStep, control.micro_pc < 5
  PROVE  InFlight' /\ arch' = arch /\ state' = state
<1>1. control.micro_pc \in 0 .. 4
  BY RegisterFacts
<1>2. CurrentOp = FetchDecode[control.micro_pc + 1]
  BY <1>1, FetchFacts DEF CurrentOp
<1>0. /\ arch.pc = Masked(arch.pc) /\ arch.pc \in Addr
      /\ registers["Pc"] \in Addr /\ registers \in [Register -> Word]
  BY InstrFacts, MaskedAddr, RegisterFacts
<1>3. CASE control.micro_pc # 4
  <2>1. CurrentOp.op # "Decode"
    BY <1>1, <1>3, RegisterFacts, CurrentOpFacts
  <2>2. control'.micro_pc = control.micro_pc + 1
    <3>1. control'.micro_pc = AdvancedMicroPc(control'.decoded)
      BY DEF Ran
    <3>2. control'.decoded \in Instruction \cup {NoInstruction}
      BY <2>1, RegisterFacts DEF Ran, Control
    <3>3. control'.decoded # NoInstruction => CycleLength(control'.decoded.opcode) \in 6 .. 10
      BY <3>2, CycleLengthType DEF Instruction
    <3> QED
      BY <1>1, <1>3, <3>1, <3>3, FetchFacts DEF AdvancedMicroPc
  <2>3. arch' = arch /\ state' = state
    BY <1>1, <2>2 DEF ArchStep, Ran
  <2>4. CASE control.micro_pc = 0
    <3>1. CurrentOp = Transfer("Mar", "Pc")
      BY <1>2, <2>4 DEF FetchDecode
    <3>2. Moves("Mar", Masked(registers["Pc"]))
      BY <3>1, TransferMoves DEF IInv, Register
    <3>3. arch = View /\ control'.micro_pc = 1
      BY <2>2, <2>4 DEF InFlight, InView
    <3> QED
      BY <1>0, <2>3, <3>2, <3>3
         DEF InFlight, InView, InFetch, InExecute, Moves, View, Register
  <2>5. CASE control.micro_pc = 1
    <3>1. CurrentOp = ReadMemory
      BY <1>2, <2>5 DEF FetchDecode
    <3>2. Moves("Mbr", memory[registers["Mar"]])
      BY <3>1, PlainMoves DEF IInv
    <3>3. control'.micro_pc = 2
      BY <2>2, <2>5
    <3> QED
      BY <1>0, <2>3, <2>5, <3>2, <3>3
         DEF InFlight, InView, InFetch, InExecute, Moves, Word0, Register
  <2>6. CASE control.micro_pc = 2
    <3>1. CurrentOp = Transfer("Ir", "Mbr")
      BY <1>2, <2>6 DEF FetchDecode
    <3>2. Moves("Ir", registers["Mbr"])
      BY <3>1, TransferMoves DEF IInv, Register
    <3>3. control'.micro_pc = 3
      BY <2>2, <2>6
    <3> QED
      BY <1>0, <2>3, <2>6, <3>2, <3>3
         DEF InFlight, InView, InFetch, InExecute, Moves, Word0, Register
  <2>7. CASE control.micro_pc = 3
    <3>1. CurrentOp = IncrementPc
      BY <1>2, <2>7 DEF FetchDecode
    <3>2. Moves("Pc", NextAddr(registers["Pc"]))
      BY <3>1, PlainMoves DEF IInv
    <3>3. control'.micro_pc = 4
      BY <2>2, <2>7
    <3> QED
      BY <1>0, <2>3, <2>7, <3>2, <3>3
         DEF InFlight, InView, InFetch, InExecute, Moves, Word0, Register
  <2> QED
    BY <1>1, <1>3, <2>4, <2>5, <2>6, <2>7
<1>4. CASE control.micro_pc = 4
  <2>1. CurrentOp.op = "Decode"
    BY <1>4, RegisterFacts, CurrentOpFacts
  <2>2. registers["Ir"] = Word0
    BY <1>4 DEF InFlight, InFetch
  <2>3. control'.decoded = ISA!Instr /\ ISA!Instr # NoInstruction
    BY <2>1, <2>2, InstrFacts DEF Ran
  <2>4. control'.micro_pc = 5
    <3>1. CycleLength(ISA!Instr.opcode) \in 6 .. 10
      BY <2>3, InstrFacts, CycleLengthType DEF Op
    <3> QED
      BY <1>4, <2>3, <3>1 DEF Ran, AdvancedMicroPc
  <2>5. arch' = arch /\ state' = state
    BY <2>4 DEF ArchStep, Ran
  <2>6. UNCHANGED << registers, memory, consumed, outputs >>
    BY <2>1 DEF Ran, WritesRegister
  <2> QED
    BY <1>4, <2>3, <2>4, <2>5, <2>6
       DEF InFlight, InView, InFetch, InExecute, Word0, ISA!Instr
<1> QED
  BY <1>3, <1>4

-----------------------------------------------------------------------------
(* How the instructions begin, go on and end.                              *)

\* What the micro-programs begin with.
LEMMA ProgramPrefixes ==
  /\ \A op \in Addressing : Execute(op)[1] = Transfer("Mar", "Ir")
                            /\ Len(Execute(op)) \in 3 .. 5
  /\ \A op \in Reading : Execute(op)[2] = ReadMemory
  /\ \A op \in Pointing : Execute(op)[3] = Transfer("Mar", "Mbr")
                          /\ Len(Execute(op)) = 5
<1> DEFINE First(op) == /\ Execute(op)[1] = Transfer("Mar", "Ir")
                        /\ Len(Execute(op)) \in 3 .. 5
           Second(op) == Execute(op)[2] = ReadMemory
           Third(op) == /\ Execute(op)[3] = Transfer("Mar", "Mbr")
                        /\ Len(Execute(op)) = 5
<1>1. First("JnS")
  BY ExecutePrograms
<1>2. First("Store")
  BY ExecutePrograms
<1>3. First("Load") /\ Second("Load")
  BY ExecutePrograms
<1>4. First("Add") /\ Second("Add")
  BY ExecutePrograms
<1>5. First("Subt") /\ Second("Subt")
  BY ExecutePrograms
<1>6. First("JumpI") /\ Second("JumpI")
  BY ExecutePrograms
<1>7. First("AddI") /\ Second("AddI") /\ Third("AddI")
  BY ExecutePrograms
<1>8. First("LoadI") /\ Second("LoadI") /\ Third("LoadI")
  BY ExecutePrograms
<1>9. First("StoreI") /\ Second("StoreI") /\ Third("StoreI")
  BY ExecutePrograms
<1> HIDE DEF First, Second, Third
<1>10. \A op \in Addressing : First(op)
  BY <1>1, <1>2, <1>3, <1>4, <1>5, <1>6, <1>7, <1>8, <1>9 DEF Addressing
<1>11. \A op \in Reading : Second(op)
  BY <1>3, <1>4, <1>5, <1>6, <1>7, <1>8, <1>9 DEF Reading
<1>12. \A op \in Pointing : Third(op)
  BY <1>7, <1>8, <1>9 DEF Pointing
<1> QED
  BY <1>10, <1>11, <1>12 DEF First, Second, Third

\* The instructions that address memory begin by doing so.
LEMMA RunsAddressing ==
  ASSUME IInv, ArchType, InFlight, Ran, ArchStep, control.micro_pc = 5, Op \in Addressing
  PROVE  InFlight' /\ arch' = arch /\ state' = state
<1>1. CurrentOp = Transfer("Mar", "Ir") /\ Len(Execute(Op)) # 1
  <2>1. CurrentOp = Execute(Op)[1]
    BY AtOperation
  <2> QED
    BY <2>1, ProgramPrefixes
<1>2. control'.micro_pc = 6 /\ arch' = arch /\ state' = state
  BY <1>1, AfterOperation DEF ArchStep, Ran
<1>3. Moves("Mar", Masked(registers["Ir"]))
  BY <1>1, TransferMoves DEF IInv, Register
<1>4. Masked(registers["Ir"]) = ISA!X
  BY AtOperation, InstrFacts DEF InFlight, InFetch
<1> QED
  BY <1>2, <1>3, <1>4, RegisterFacts
     DEF InFlight, InView, InFetch, InExecute, Moves, Word0, Op, ISA!Instr, ISA!X,
         Register, Addressing

\* Those that read go on by reading.
LEMMA RunsReading ==
  ASSUME IInv, ArchType, InFlight, Ran, ArchStep, control.micro_pc = 6, Op \in Reading
  PROVE  InFlight' /\ arch' = arch /\ state' = state
<1>1. CurrentOp = ReadMemory /\ Len(Execute(Op)) \notin {1, 2}
  BY AtOperation, ProgramPrefixes DEF Reading, Addressing
<1>2. control'.micro_pc = 7 /\ arch' = arch /\ state' = state
  BY <1>1, AfterOperation DEF ArchStep, Ran
<1>3. Moves("Mbr", memory[registers["Mar"]])
  BY <1>1, PlainMoves DEF IInv
<1> QED
  BY <1>2, <1>3, RegisterFacts
     DEF InFlight, InView, InFetch, InExecute, Moves, Word0, Op, ISA!Instr, ISA!X,
         Register, Addressing, Reading

\* The pointers among them address memory again.
LEMMA RunsPointing ==
  ASSUME IInv, ArchType, InFlight, Ran, ArchStep, control.micro_pc = 7, Op \in Pointing
  PROVE  InFlight' /\ arch' = arch /\ state' = state
<1>1. CurrentOp = Transfer("Mar", "Mbr") /\ Len(Execute(Op)) \notin {1, 2, 3}
  <2>1. CurrentOp = Execute(Op)[3]
    BY AtOperation
  <2> QED
    BY <2>1, ProgramPrefixes
<1>2. control'.micro_pc = 8 /\ arch' = arch /\ state' = state
  BY <1>1, AfterOperation DEF ArchStep, Ran
<1>3. Moves("Mar", Masked(registers["Mbr"]))
  BY <1>1, TransferMoves DEF IInv, Register
<1>4. Masked(registers["Mbr"]) = ISA!Indirect
  BY InstrFacts DEF InFlight, InExecute, Reading, Pointing
<1> QED
  BY <1>2, <1>3, <1>4, RegisterFacts
     DEF InFlight, InView, InFetch, InExecute, Moves, Word0, Op, ISA!Instr, ISA!X,
         ISA!Indirect, Register, Addressing, Reading, Pointing

\* What the operations that exchange or compare do.
LEMMA OtherEffects ==
  ASSUME TypeOK, Ran
  PROVE  /\ CurrentOp = WriteMemory =>
              /\ memory' = [memory EXCEPT ![registers["Mar"]] = registers["Mbr"]]
              /\ UNCHANGED << registers, consumed, outputs >>
              /\ control'.comparison = control.comparison
         /\ CurrentOp = Plain("ReadInput") =>
              /\ registers' = [registers EXCEPT !["In"] = Head(inputs)]
              /\ Head(inputs) \in Word
              /\ consumed' = Append(consumed, Head(inputs))
              /\ UNCHANGED << memory, outputs >>
         /\ CurrentOp = Plain("WriteOutput") =>
              /\ outputs' = Append(outputs, registers["Out"])
              /\ UNCHANGED << registers, memory, consumed >>
         /\ CurrentOp = Plain("Compare") =>
              /\ UNCHANGED << registers, memory, consumed, outputs >>
              /\ control'.comparison
                   = Holds(ConditionOf(control.decoded.operand), registers["Ac"])
         /\ CurrentOp # Plain("Halt")
<1>1. CASE CurrentOp = WriteMemory
  BY <1>1 DEF Ran, WriteMemory, Plain, WritesRegister
<1>2. CASE CurrentOp = Plain("ReadInput")
  <2>1. CurrentOp.op = "ReadInput" /\ inputs \in Seq(Word)
    BY <1>2 DEF Plain, TypeOK
  <2>2. Head(inputs) \in Word
    BY <2>1 DEF Ran
  <2> QED
    BY <1>2, <2>1, <2>2 DEF Ran, WriteMemory, Plain, WritesRegister
<1>3. CASE CurrentOp = Plain("WriteOutput")
  BY <1>3 DEF Ran, WriteMemory, Plain, WritesRegister
<1>4. CASE CurrentOp = Plain("Compare")
  BY <1>4 DEF Ran, WriteMemory, Plain, WritesRegister
<1>5. CASE CurrentOp = Plain("Halt")
  BY <1>5 DEF Ran, Plain
<1> QED
  BY <1>1, <1>2, <1>3, <1>4, <1>5

\* A call takes the address to return to.
LEMMA JnSTakesReturn ==
  ASSUME IInv, ArchType, InFlight, Ran, ArchStep, control.micro_pc = 6, Op = "JnS"
  PROVE  InFlight' /\ arch' = arch /\ state' = state
<1>1. CurrentOp = Execute(Op)[2]
  BY AtOperation
<1>2. CurrentOp = Transfer("Mbr", "Pc") /\ Len(Execute(Op)) # 2
  BY <1>1, ExecutePrograms
<1>3. control'.micro_pc = 7 /\ arch' = arch /\ state' = state
  BY <1>2, AfterOperation DEF ArchStep, Ran
<1>4. Moves("Mbr", registers["Pc"])
  BY <1>2, TransferMoves DEF IInv, Register
<1>5. /\ control'.decoded = control.decoded /\ control.decoded = ISA!Instr
      /\ registers \in [Register -> Word] /\ control.decoded.operand = ISA!X
  BY AtOperation, AfterOperation, RegisterFacts DEF ISA!X
<1> QED
  BY <1>3, <1>4, <1>5, RegisterFacts, InstrFacts, MaskedAddr
     DEF InFlight, InView, InFetch, InExecute, Moves, Word0, Op, ISA!Instr, ISA!X,
         ISA!Indirect, Register, Addressing, Reading, Pointing

\* A call then writes it where it leads.
LEMMA JnSWritesReturn ==
  ASSUME IInv, ArchType, InFlight, Ran, ArchStep, control.micro_pc = 7, Op = "JnS"
  PROVE  InFlight' /\ arch' = arch /\ state' = state
<1>1. CurrentOp = Execute(Op)[3]
  BY AtOperation
<1>2. CurrentOp = WriteMemory /\ Len(Execute(Op)) # 3
  BY <1>1, ExecutePrograms
<1>3. control'.micro_pc = 8 /\ arch' = arch /\ state' = state
  BY <1>2, AfterOperation DEF ArchStep, Ran
<1>4. /\ memory' = [memory EXCEPT ![registers["Mar"]] = registers["Mbr"]]
      /\ UNCHANGED << registers, consumed, outputs >>
  BY <1>2, OtherEffects DEF IInv
<1>5. /\ control'.decoded = control.decoded /\ control.decoded = ISA!Instr
      /\ registers \in [Register -> Word] /\ control.decoded.operand = ISA!X
  BY AtOperation, AfterOperation, RegisterFacts DEF ISA!X
<1>6. memory' = [arch.memory EXCEPT ![ISA!X] = NextAddr(arch.pc)]
  <2>1. /\ registers["Mar"] = ISA!X /\ registers["Mbr"] = NextAddr(arch.pc)
        /\ memory = arch.memory
    BY DEF InFlight, InView, InExecute, Addressing
  <2> QED
    BY <1>4, <2>1
<1>7. /\ registers["Ac"] = arch.ac /\ registers["Pc"] = NextAddr(arch.pc)
      /\ registers["Ir"] = Word0 /\ registers["Mar"] = ISA!X
      /\ consumed = arch.consumed /\ outputs = arch.outputs
      /\ ISA!Instr # NoInstruction
  BY DEF InFlight, InView, InFetch, InExecute, Addressing
<1>8. [arch'.memory EXCEPT ![ISA!X'] = NextAddr(arch'.pc)]
        = [arch.memory EXCEPT ![ISA!X] = NextAddr(arch.pc)]
  BY <1>3, Zenon DEF ISA!X, ISA!Instr
<1>9. Op' = Op /\ Word0' = Word0 /\ ISA!Instr' = ISA!Instr /\ ISA!X' = ISA!X
  BY <1>3 DEF ISA!X, ISA!Instr, Op, Word0
<1>10. InView(8)'
  <2>1. memory' = [arch'.memory EXCEPT ![ISA!X'] = NextAddr(arch'.pc)]
    BY <1>6, <1>8
  <2>2. /\ registers'["Ac"] = arch'.ac /\ registers'["Pc"] = NextAddr(arch'.pc)
        /\ consumed' = arch'.consumed /\ outputs' = arch'.outputs /\ Op' = "JnS"
    BY <1>3, <1>4, <1>7, <1>9
  <2>3. 8 > 0 /\ ~(8 <= 3) /\ 8 >= 8 /\ 8 # 9 /\ 8 # 6 /\ 8 # 0
    OBVIOUS
  <2> QED
    BY <2>1, <2>2, <2>3, Zenon DEF InView
<1>11. InFetch(8)' /\ InExecute(8)'
  BY <1>3, <1>4, <1>5, <1>7, <1>9
     DEF InFetch, InExecute, Addressing, Reading, Pointing
<1> QED
  BY <1>3, <1>10, <1>11 DEF InFlight

\* A call then goes there.
LEMMA JnSJumps ==
  ASSUME IInv, ArchType, InFlight, Ran, ArchStep, control.micro_pc = 8, Op = "JnS"
  PROVE  InFlight' /\ arch' = arch /\ state' = state
<1>1. CurrentOp = Execute(Op)[4]
  BY AtOperation
<1>2. CurrentOp = Transfer("Pc", "Mar") /\ Len(Execute(Op)) # 4
  BY <1>1, ExecutePrograms
<1>3. control'.micro_pc = 9 /\ arch' = arch /\ state' = state
  BY <1>2, AfterOperation DEF ArchStep, Ran
<1>4. Moves("Pc", Masked(registers["Mar"]))
  BY <1>2, TransferMoves DEF IInv, Register
<1>5. /\ control'.decoded = control.decoded /\ control.decoded = ISA!Instr
      /\ registers \in [Register -> Word] /\ control.decoded.operand = ISA!X
  BY AtOperation, AfterOperation, RegisterFacts DEF ISA!X
<1> QED
  BY <1>3, <1>4, <1>5, RegisterFacts, InstrFacts, MaskedAddr
     DEF InFlight, InView, InFetch, InExecute, Moves, Word0, Op, ISA!Instr, ISA!X,
         ISA!Indirect, Register, Addressing, Reading, Pointing

\* A store takes the accumulator.
LEMMA StoreTakes ==
  ASSUME IInv, ArchType, InFlight, Ran, ArchStep, control.micro_pc = 6, Op = "Store"
  PROVE  InFlight' /\ arch' = arch /\ state' = state
<1>1. CurrentOp = Execute(Op)[2]
  BY AtOperation
<1>2. CurrentOp = Transfer("Mbr", "Ac") /\ Len(Execute(Op)) # 2
  <2>1. Execute(Op) = << Transfer("Mar", "Ir"), Transfer("Mbr", "Ac"), WriteMemory >>
    BY ExecutePrograms
  <2> QED
    BY <1>1, <2>1
<1>3. control'.micro_pc = 7 /\ arch' = arch /\ state' = state
  BY <1>2, AfterOperation DEF ArchStep, Ran
<1>4. Moves("Mbr", registers["Ac"])
  BY <1>2, TransferMoves DEF IInv, Register
<1>5. /\ control'.decoded = control.decoded /\ control.decoded = ISA!Instr
      /\ registers \in [Register -> Word] /\ control.decoded.operand = ISA!X
  BY AtOperation, AfterOperation, RegisterFacts DEF ISA!X
<1> QED
  BY <1>3, <1>4, <1>5, RegisterFacts, InstrFacts, MaskedAddr
     DEF InFlight, InView, InFetch, InExecute, Moves, Word0, Op, ISA!Instr, ISA!X,
         ISA!Indirect, Register, Addressing, Reading, Pointing

\* So does a store through a pointer, once it knows where to.
LEMMA StoreITakes ==
  ASSUME IInv, ArchType, InFlight, Ran, ArchStep, control.micro_pc = 8, Op = "StoreI"
  PROVE  InFlight' /\ arch' = arch /\ state' = state
<1>1. CurrentOp = Execute(Op)[4]
  BY AtOperation
<1>2. CurrentOp = Transfer("Mbr", "Ac") /\ Len(Execute(Op)) # 4
  <2>1. Execute(Op) = << Transfer("Mar", "Ir"), ReadMemory, Transfer("Mar", "Mbr"),
                      Transfer("Mbr", "Ac"), WriteMemory >>
    BY ExecutePrograms
  <2> QED
    BY <1>1, <2>1
<1>3. control'.micro_pc = 9 /\ arch' = arch /\ state' = state
  BY <1>2, AfterOperation DEF ArchStep, Ran
<1>4. Moves("Mbr", registers["Ac"])
  BY <1>2, TransferMoves DEF IInv, Register
<1>5. /\ control'.decoded = control.decoded /\ control.decoded = ISA!Instr
      /\ registers \in [Register -> Word] /\ control.decoded.operand = ISA!X
  BY AtOperation, AfterOperation, RegisterFacts DEF ISA!X
<1> QED
  BY <1>3, <1>4, <1>5, RegisterFacts, InstrFacts, MaskedAddr
     DEF InFlight, InView, InFetch, InExecute, Moves, Word0, Op, ISA!Instr, ISA!X,
         ISA!Indirect, Register, Addressing, Reading, Pointing

\* The other indirect instructions read what is pointed at.
LEMMA PointedRead ==
  ASSUME IInv, ArchType, InFlight, Ran, ArchStep, control.micro_pc = 8, Op \in {"AddI", "LoadI"}
  PROVE  InFlight' /\ arch' = arch /\ state' = state
<1>1. CurrentOp = Execute(Op)[4]
  BY AtOperation
<1>2. CurrentOp = ReadMemory /\ Len(Execute(Op)) # 4
  <2>1. CASE Op = "AddI"
    BY <1>1, <2>1, ExecutePrograms
  <2>2. CASE Op = "LoadI"
    BY <1>1, <2>2, ExecutePrograms
  <2> QED
    BY <2>1, <2>2
<1>3. control'.micro_pc = 9 /\ arch' = arch /\ state' = state
  BY <1>2, AfterOperation DEF ArchStep, Ran
<1>4. Moves("Mbr", memory[registers["Mar"]])
  BY <1>2, PlainMoves DEF IInv
<1>5. /\ control'.decoded = control.decoded /\ control.decoded = ISA!Instr
      /\ registers \in [Register -> Word] /\ control.decoded.operand = ISA!X
  BY AtOperation, AfterOperation, RegisterFacts DEF ISA!X
<1> QED
  BY <1>3, <1>4, <1>5, RegisterFacts, InstrFacts, MaskedAddr
     DEF InFlight, InView, InFetch, InExecute, Moves, Word0, Op, ISA!Instr, ISA!X,
         ISA!Indirect, Register, Addressing, Reading, Pointing

\* An Input reads a word.
LEMMA InputReads ==
  ASSUME IInv, ArchType, InFlight, Ran, ArchStep, control.micro_pc = 5, Op = "Input"
  PROVE  InFlight' /\ arch' = arch /\ state' = state
<1>1. CurrentOp = Execute(Op)[1]
  BY AtOperation
<1>2. CurrentOp = Plain("ReadInput") /\ Len(Execute(Op)) # 1
  BY <1>1, ExecutePrograms
<1>3. control'.micro_pc = 6 /\ arch' = arch /\ state' = state
  BY <1>2, AfterOperation DEF ArchStep, Ran
<1>4. /\ registers' = [registers EXCEPT !["In"] = Head(inputs)]
      /\ consumed' = Append(consumed, Head(inputs))
      /\ UNCHANGED << memory, outputs >>
  BY <1>2, OtherEffects DEF IInv
<1>5. /\ control'.decoded = control.decoded /\ control.decoded = ISA!Instr
      /\ registers \in [Register -> Word] /\ control.decoded.operand = ISA!X
  BY AtOperation, AfterOperation, RegisterFacts DEF ISA!X
<1> QED
  BY <1>3, <1>4, <1>5, RegisterFacts, InstrFacts, MaskedAddr
     DEF InFlight, InView, InFetch, InExecute, Moves, Word0, Op, ISA!Instr, ISA!X,
         ISA!Indirect, Register, Addressing, Reading, Pointing

\* An Output takes the accumulator.
LEMMA OutputTakes ==
  ASSUME IInv, ArchType, InFlight, Ran, ArchStep, control.micro_pc = 5, Op = "Output"
  PROVE  InFlight' /\ arch' = arch /\ state' = state
<1>1. CurrentOp = Execute(Op)[1]
  BY AtOperation
<1>2. CurrentOp = Transfer("Out", "Ac") /\ Len(Execute(Op)) # 1
  BY <1>1, ExecutePrograms
<1>3. control'.micro_pc = 6 /\ arch' = arch /\ state' = state
  BY <1>2, AfterOperation DEF ArchStep, Ran
<1>4. Moves("Out", registers["Ac"])
  BY <1>2, TransferMoves DEF IInv, Register
<1>5. /\ control'.decoded = control.decoded /\ control.decoded = ISA!Instr
      /\ registers \in [Register -> Word] /\ control.decoded.operand = ISA!X
  BY AtOperation, AfterOperation, RegisterFacts DEF ISA!X
<1> QED
  BY <1>3, <1>4, <1>5, RegisterFacts, InstrFacts, MaskedAddr
     DEF InFlight, InView, InFetch, InExecute, Moves, Word0, Op, ISA!Instr, ISA!X,
         ISA!Indirect, Register, Addressing, Reading, Pointing

\* A Skipcond compares the accumulator.
LEMMA SkipCompares ==
  ASSUME IInv, ArchType, InFlight, Ran, ArchStep, control.micro_pc = 5, Op = "SkipCond"
  PROVE  InFlight' /\ arch' = arch /\ state' = state
<1>1. CurrentOp = Execute(Op)[1]
  BY AtOperation
<1>2. CurrentOp = Plain("Compare") /\ Len(Execute(Op)) # 1
  BY <1>1, ExecutePrograms
<1>3. control'.micro_pc = 6 /\ arch' = arch /\ state' = state
  BY <1>2, AfterOperation DEF ArchStep, Ran
<1>4. /\ UNCHANGED << registers, memory, consumed, outputs >>
      /\ control'.comparison
           = Holds(ConditionOf(control.decoded.operand), registers["Ac"])
  BY <1>2, OtherEffects DEF IInv
<1>5. /\ control'.decoded = control.decoded /\ control.decoded = ISA!Instr
      /\ registers \in [Register -> Word] /\ control.decoded.operand = ISA!X
  BY AtOperation, AfterOperation, RegisterFacts DEF ISA!X
<1> QED
  BY <1>3, <1>4, <1>5, RegisterFacts, InstrFacts, MaskedAddr
     DEF InFlight, InView, InFetch, InExecute, Moves, Word0, Op, ISA!Instr, ISA!X,
         ISA!Indirect, Register, Addressing, Reading, Pointing

\* A call ends at the word after its return slot.
LEMMA JnSEnds ==
  ASSUME IInv, ArchType, InFlight, Ran, ArchStep, ISA!Executing,
         control.micro_pc = 9, Op = "JnS"
  PROVE  InFlight' /\ ISA!Execute
<1>1. CurrentOp = Execute(Op)[5]
  BY AtOperation
<1>2. CurrentOp = IncrementPc /\ Len(Execute(Op)) = 5
  BY <1>1, ExecutePrograms
<1>3. control'.micro_pc = 0 /\ arch' = View' /\ state' = state
  BY <1>2, AfterOperation DEF ArchStep, Ran
<1>4. Moves("Pc", NextAddr(registers["Pc"]))
  BY <1>2, PlainMoves DEF IInv
<1>5. InFlight'
  BY <1>3 DEF InFlight, InView, InFetch, InExecute
<1>6. /\ registers \in [Register -> Word] /\ registers["Ir"] = Word0
      /\ Masked(Word0) = ISA!X
  BY AtOperation, RegisterFacts, InstrFacts DEF InFlight, InFetch
<1>7. ISA!Is("JnS")
  BY DEF ISA!Is, Op
<1>8. /\ arch'.memory = [arch.memory EXCEPT ![ISA!X] = ISA!NextAddr(arch.pc)]
      /\ arch'.pc = ISA!NextAddr(ISA!X)
      /\ UNCHANGED << arch.ac, arch.consumed, arch.outputs >>
  BY <1>3, <1>4, <1>6, InstrFacts, SameWords
     DEF InFlight, InView, InExecute, Moves, View, Register, Addressing, Reading,
         Pointing, ISA!Loads, ISA!Stores, ISA!Jumps, ISA!Falls
<1>9. ISA!Execute
  BY <1>3, <1>7, <1>8, Zenon DEF ISA!Execute
<1> QED
  BY <1>5, <1>9

\* A load ends with what was read in the accumulator.
LEMMA LoadEnds ==
  ASSUME IInv, ArchType, InFlight, Ran, ArchStep, ISA!Executing,
         control.micro_pc = 7, Op = "Load"
  PROVE  InFlight' /\ ISA!Execute
<1>1. CurrentOp = Execute(Op)[3]
  BY AtOperation
<1>2. CurrentOp = Transfer("Ac", "Mbr") /\ Len(Execute(Op)) = 3
  BY <1>1, ExecutePrograms
<1>3. control'.micro_pc = 0 /\ arch' = View' /\ state' = state
  BY <1>2, AfterOperation DEF ArchStep, Ran
<1>4. Moves("Ac", registers["Mbr"])
  BY <1>2, TransferMoves DEF IInv, Register
<1>5. InFlight'
  BY <1>3 DEF InFlight, InView, InFetch, InExecute
<1>6. /\ registers \in [Register -> Word] /\ registers["Ir"] = Word0
      /\ Masked(Word0) = ISA!X
  BY AtOperation, RegisterFacts, InstrFacts DEF InFlight, InFetch
<1>7. ISA!Is("Load")
  BY DEF ISA!Is, Op
<1>8. ISA!Loads(arch.memory[ISA!X])
  BY <1>3, <1>4, <1>6, InstrFacts, SameWords
     DEF InFlight, InView, InExecute, Moves, View, Register, Addressing, Reading,
         Pointing, ISA!Loads, ISA!Stores, ISA!Jumps, ISA!Falls
<1>9. ISA!Execute
  BY <1>3, <1>7, <1>8, Zenon DEF ISA!Execute
<1> QED
  BY <1>5, <1>9

\* A store ends with the accumulator in memory.
LEMMA StoreEnds ==
  ASSUME IInv, ArchType, InFlight, Ran, ArchStep, ISA!Executing,
         control.micro_pc = 7, Op = "Store"
  PROVE  InFlight' /\ ISA!Execute
<1>1. CurrentOp = Execute(Op)[3]
  BY AtOperation
<1>2. CurrentOp = WriteMemory /\ Len(Execute(Op)) = 3
  BY <1>1, ExecutePrograms
<1>3. control'.micro_pc = 0 /\ arch' = View' /\ state' = state
  BY <1>2, AfterOperation DEF ArchStep, Ran
<1>4. /\ memory' = [memory EXCEPT ![registers["Mar"]] = registers["Mbr"]]
      /\ UNCHANGED << registers, consumed, outputs >>
  BY <1>2, OtherEffects DEF IInv
<1>5. InFlight'
  BY <1>3 DEF InFlight, InView, InFetch, InExecute
<1>6. /\ registers \in [Register -> Word] /\ registers["Ir"] = Word0
      /\ Masked(Word0) = ISA!X
  BY AtOperation, RegisterFacts, InstrFacts DEF InFlight, InFetch
<1>7. ISA!Is("Store")
  BY DEF ISA!Is, Op
<1>8. ISA!Stores(ISA!X)
  <2>1. /\ registers["Ac"] = arch.ac /\ registers["Pc"] = NextAddr(arch.pc)
        /\ memory = arch.memory /\ consumed = arch.consumed
        /\ outputs = arch.outputs
        /\ registers["Mar"] = ISA!X /\ registers["Mbr"] = arch.ac
    BY DEF InFlight, InView, InExecute, Addressing, Reading, Pointing
  <2> QED
    BY <1>3, <1>4, <1>6, <2>1, SameWords
       DEF Moves, View, Register, ISA!Loads, ISA!Stores, ISA!Jumps, ISA!Falls
<1>9. ISA!Execute
  BY <1>3, <1>7, <1>8, Zenon DEF ISA!Execute
<1> QED
  BY <1>5, <1>9

\* An addition ends with the sum.
LEMMA AddEnds ==
  ASSUME IInv, ArchType, InFlight, Ran, ArchStep, ISA!Executing,
         control.micro_pc = 7, Op = "Add"
  PROVE  InFlight' /\ ISA!Execute
<1>1. CurrentOp = Execute(Op)[3]
  BY AtOperation
<1>2. CurrentOp = Plain("Add") /\ Len(Execute(Op)) = 3
  BY <1>1, ExecutePrograms
<1>3. control'.micro_pc = 0 /\ arch' = View' /\ state' = state
  BY <1>2, AfterOperation DEF ArchStep, Ran
<1>4. Moves("Ac", AluAdd(registers["Ac"], registers["Mbr"]))
  BY <1>2, PlainMoves DEF IInv
<1>5. InFlight'
  BY <1>3 DEF InFlight, InView, InFetch, InExecute
<1>6. /\ registers \in [Register -> Word] /\ registers["Ir"] = Word0
      /\ Masked(Word0) = ISA!X
  BY AtOperation, RegisterFacts, InstrFacts DEF InFlight, InFetch
<1>7. ISA!Is("Add")
  BY DEF ISA!Is, Op
<1>8. ISA!Loads(ISA!AluAdd(arch.ac, arch.memory[ISA!X]))
  <2>1. /\ registers["Ac"] = arch.ac /\ registers["Pc"] = NextAddr(arch.pc)
        /\ memory = arch.memory /\ consumed = arch.consumed
        /\ outputs = arch.outputs
        /\ registers["Mbr"] = arch.memory[ISA!X]
    BY DEF InFlight, InView, InExecute, Addressing, Reading, Pointing
  <2>2. ISA!AluAdd(arch.ac, arch.memory[ISA!X]) = AluAdd(arch.ac, arch.memory[ISA!X])
    BY SameWords, SameArithmetic
  <2> QED
    BY <1>3, <1>4, <1>6, <2>1, <2>2, SameWords
       DEF Moves, View, Register, ISA!Loads, ISA!Stores, ISA!Jumps, ISA!Falls
<1>9. ISA!Execute
  BY <1>3, <1>7, <1>8, Zenon DEF ISA!Execute
<1> QED
  BY <1>5, <1>9

\* A subtraction ends with the difference.
LEMMA SubtEnds ==
  ASSUME IInv, ArchType, InFlight, Ran, ArchStep, ISA!Executing,
         control.micro_pc = 7, Op = "Subt"
  PROVE  InFlight' /\ ISA!Execute
<1>1. CurrentOp = Execute(Op)[3]
  BY AtOperation
<1>2. CurrentOp = Plain("Subtract") /\ Len(Execute(Op)) = 3
  BY <1>1, ExecutePrograms
<1>3. control'.micro_pc = 0 /\ arch' = View' /\ state' = state
  BY <1>2, AfterOperation DEF ArchStep, Ran
<1>4. Moves("Ac", AluSub(registers["Ac"], registers["Mbr"]))
  BY <1>2, PlainMoves DEF IInv
<1>5. InFlight'
  BY <1>3 DEF InFlight, InView, InFetch, InExecute
<1>6. /\ registers \in [Register -> Word] /\ registers["Ir"] = Word0
      /\ Masked(Word0) = ISA!X
  BY AtOperation, RegisterFacts, InstrFacts DEF InFlight, InFetch
<1>7. ISA!Is("Subt")
  BY DEF ISA!Is, Op
<1>8. ISA!Loads(ISA!AluSub(arch.ac, arch.memory[ISA!X]))
  <2>1. /\ registers["Ac"] = arch.ac /\ registers["Pc"] = NextAddr(arch.pc)
        /\ memory = arch.memory /\ consumed = arch.consumed
        /\ outputs = arch.outputs
        /\ registers["Mbr"] = arch.memory[ISA!X]
    BY DEF InFlight, InView, InExecute, Addressing, Reading, Pointing
  <2>2. ISA!AluSub(arch.ac, arch.memory[ISA!X]) = AluSub(arch.ac, arch.memory[ISA!X])
    BY SameWords, SameArithmetic
  <2> QED
    BY <1>3, <1>4, <1>6, <2>1, <2>2, SameWords
       DEF Moves, View, Register, ISA!Loads, ISA!Stores, ISA!Jumps, ISA!Falls
<1>9. ISA!Execute
  BY <1>3, <1>7, <1>8, Zenon DEF ISA!Execute
<1> QED
  BY <1>5, <1>9

\* An Input ends with the word that the device gave.
LEMMA InputEnds ==
  ASSUME IInv, ArchType, InFlight, Ran, ArchStep, ISA!Executing,
         control.micro_pc = 6, Op = "Input"
  PROVE  InFlight' /\ ISA!Execute
<1>1. CurrentOp = Execute(Op)[2]
  BY AtOperation
<1>2. CurrentOp = Transfer("Ac", "In") /\ Len(Execute(Op)) = 2
  BY <1>1, ExecutePrograms
<1>3. control'.micro_pc = 0 /\ arch' = View' /\ state' = state
  BY <1>2, AfterOperation DEF ArchStep, Ran
<1>4. Moves("Ac", registers["In"])
  BY <1>2, TransferMoves DEF IInv, Register
<1>5. InFlight'
  BY <1>3 DEF InFlight, InView, InFetch, InExecute
<1>6. /\ registers \in [Register -> Word] /\ registers["Ir"] = Word0
      /\ Masked(Word0) = ISA!X
  BY AtOperation, RegisterFacts, InstrFacts DEF InFlight, InFetch
<1>7. ISA!Is("Input")
  BY DEF ISA!Is, Op
<1>8. /\ arch'.ac \in ISA!Word
      /\ arch'.consumed = Append(arch.consumed, arch'.ac)
      /\ ISA!Falls /\ UNCHANGED << arch.memory, arch.outputs >>
  BY <1>3, <1>4, <1>6, InstrFacts, SameWords
     DEF InFlight, InView, InExecute, Moves, View, Register, Addressing, Reading,
         Pointing, ISA!Loads, ISA!Stores, ISA!Jumps, ISA!Falls
<1>9. ISA!Execute
  BY <1>3, <1>7, <1>8, Zenon DEF ISA!Execute
<1> QED
  BY <1>5, <1>9

\* An Output ends with the accumulator at the device.
LEMMA OutputEnds ==
  ASSUME IInv, ArchType, InFlight, Ran, ArchStep, ISA!Executing,
         control.micro_pc = 6, Op = "Output"
  PROVE  InFlight' /\ ISA!Execute
<1>1. CurrentOp = Execute(Op)[2]
  BY AtOperation
<1>2. CurrentOp = Plain("WriteOutput") /\ Len(Execute(Op)) = 2
  BY <1>1, ExecutePrograms
<1>3. control'.micro_pc = 0 /\ arch' = View' /\ state' = state
  BY <1>2, AfterOperation DEF ArchStep, Ran
<1>4. /\ outputs' = Append(outputs, registers["Out"])
      /\ UNCHANGED << registers, memory, consumed >>
  BY <1>2, OtherEffects DEF IInv
<1>5. InFlight'
  BY <1>3 DEF InFlight, InView, InFetch, InExecute
<1>6. /\ registers \in [Register -> Word] /\ registers["Ir"] = Word0
      /\ Masked(Word0) = ISA!X
  BY AtOperation, RegisterFacts, InstrFacts DEF InFlight, InFetch
<1>7. ISA!Is("Output")
  BY DEF ISA!Is, Op
<1>8. /\ arch'.outputs = Append(arch.outputs, arch.ac)
      /\ ISA!Falls /\ UNCHANGED << arch.ac, arch.memory, arch.consumed >>
  BY <1>3, <1>4, <1>6, InstrFacts, SameWords
     DEF InFlight, InView, InExecute, Moves, View, Register, Addressing, Reading,
         Pointing, ISA!Loads, ISA!Stores, ISA!Jumps, ISA!Falls
<1>9. ISA!Execute
  BY <1>3, <1>7, <1>8, Zenon DEF ISA!Execute
<1> QED
  BY <1>5, <1>9

\* A Skipcond ends after one word or two.
LEMMA SkipEnds ==
  ASSUME IInv, ArchType, InFlight, Ran, ArchStep, ISA!Executing,
         control.micro_pc = 6, Op = "SkipCond"
  PROVE  InFlight' /\ ISA!Execute
<1>1. CurrentOp = Execute(Op)[2]
  BY AtOperation
<1>2. CurrentOp = Plain("SkipIfComparison") /\ Len(Execute(Op)) = 2
  BY <1>1, ExecutePrograms
<1>3. control'.micro_pc = 0 /\ arch' = View' /\ state' = state
  BY <1>2, AfterOperation DEF ArchStep, Ran
<1>4. Moves("Pc", IF control.comparison THEN NextAddr(registers["Pc"])
                ELSE registers["Pc"])
  BY <1>2, PlainMoves DEF IInv
<1>5. InFlight'
  BY <1>3 DEF InFlight, InView, InFetch, InExecute
<1>6. /\ registers \in [Register -> Word] /\ registers["Ir"] = Word0
      /\ Masked(Word0) = ISA!X
  BY AtOperation, RegisterFacts, InstrFacts DEF InFlight, InFetch
<1>7. ISA!Is("SkipCond")
  BY DEF ISA!Is, Op
<1>8. ISA!Jumps(IF ISA!Holds(ISA!ConditionOf(ISA!X), arch.ac)
                THEN ISA!NextAddr(ISA!NextAddr(arch.pc)) ELSE ISA!NextAddr(arch.pc))
  <2>1. /\ registers["Ac"] = arch.ac /\ registers["Pc"] = NextAddr(arch.pc)
        /\ memory = arch.memory /\ consumed = arch.consumed
        /\ outputs = arch.outputs
        /\ control.comparison = Holds(ConditionOf(ISA!X), arch.ac)
    BY DEF InFlight, InView, InExecute, Addressing, Reading, Pointing
  <2>2. /\ ISA!Holds(ISA!ConditionOf(ISA!X), arch.ac)
             <=> Holds(ConditionOf(ISA!X), arch.ac)
        /\ ISA!NextAddr(ISA!NextAddr(arch.pc)) = NextAddr(NextAddr(arch.pc))
        /\ ISA!NextAddr(arch.pc) = NextAddr(arch.pc)
    BY SameWords, SameArithmetic
  <2> QED
    BY <1>3, <1>4, <1>6, <2>1, <2>2, SameWords
       DEF Moves, View, Register, ISA!Loads, ISA!Stores, ISA!Jumps, ISA!Falls
<1>9. ISA!Execute
  BY <1>3, <1>7, <1>8, Zenon DEF ISA!Execute
<1> QED
  BY <1>5, <1>9

\* A jump ends at its operand.
LEMMA JumpEnds ==
  ASSUME IInv, ArchType, InFlight, Ran, ArchStep, ISA!Executing,
         control.micro_pc = 5, Op = "Jump"
  PROVE  InFlight' /\ ISA!Execute
<1>1. CurrentOp = Execute(Op)[1]
  BY AtOperation
<1>2. CurrentOp = Transfer("Pc", "Ir") /\ Len(Execute(Op)) = 1
  BY <1>1, ExecutePrograms
<1>3. control'.micro_pc = 0 /\ arch' = View' /\ state' = state
  BY <1>2, AfterOperation DEF ArchStep, Ran
<1>4. Moves("Pc", Masked(registers["Ir"]))
  BY <1>2, TransferMoves DEF IInv, Register
<1>5. InFlight'
  BY <1>3 DEF InFlight, InView, InFetch, InExecute
<1>6. /\ registers \in [Register -> Word] /\ registers["Ir"] = Word0
      /\ Masked(Word0) = ISA!X
  BY AtOperation, RegisterFacts, InstrFacts DEF InFlight, InFetch
<1>7. ISA!Is("Jump")
  BY DEF ISA!Is, Op
<1>8. ISA!Jumps(ISA!X)
  BY <1>3, <1>4, <1>6, InstrFacts, SameWords
     DEF InFlight, InView, InExecute, Moves, View, Register, Addressing, Reading,
         Pointing, ISA!Loads, ISA!Stores, ISA!Jumps, ISA!Falls
<1>9. ISA!Execute
  BY <1>3, <1>7, <1>8, Zenon DEF ISA!Execute
<1> QED
  BY <1>5, <1>9

\* A LoadImmi ends with its operand in the accumulator.
LEMMA LoadImmiEnds ==
  ASSUME IInv, ArchType, InFlight, Ran, ArchStep, ISA!Executing,
         control.micro_pc = 5, Op = "LoadImmi"
  PROVE  InFlight' /\ ISA!Execute
<1>1. CurrentOp = Execute(Op)[1]
  BY AtOperation
<1>2. CurrentOp = Plain("LoadImmediate") /\ Len(Execute(Op)) = 1
  BY <1>1, ExecutePrograms
<1>3. control'.micro_pc = 0 /\ arch' = View' /\ state' = state
  BY <1>2, AfterOperation DEF ArchStep, Ran
<1>4. Moves("Ac", Masked(registers["Ir"]))
  BY <1>2, PlainMoves DEF IInv
<1>5. InFlight'
  BY <1>3 DEF InFlight, InView, InFetch, InExecute
<1>6. /\ registers \in [Register -> Word] /\ registers["Ir"] = Word0
      /\ Masked(Word0) = ISA!X
  BY AtOperation, RegisterFacts, InstrFacts DEF InFlight, InFetch
<1>7. ISA!Is("LoadImmi")
  BY DEF ISA!Is, Op
<1>8. ISA!Loads(ISA!X)
  BY <1>3, <1>4, <1>6, InstrFacts, SameWords
     DEF InFlight, InView, InExecute, Moves, View, Register, Addressing, Reading,
         Pointing, ISA!Loads, ISA!Stores, ISA!Jumps, ISA!Falls
<1>9. ISA!Execute
  BY <1>3, <1>7, <1>8, Zenon DEF ISA!Execute
<1> QED
  BY <1>5, <1>9

\* An addition through a pointer ends with the sum.
LEMMA AddIEnds ==
  ASSUME IInv, ArchType, InFlight, Ran, ArchStep, ISA!Executing,
         control.micro_pc = 9, Op = "AddI"
  PROVE  InFlight' /\ ISA!Execute
<1>1. CurrentOp = Execute(Op)[5]
  BY AtOperation
<1>2. CurrentOp = Plain("Add") /\ Len(Execute(Op)) = 5
  BY <1>1, ExecutePrograms
<1>3. control'.micro_pc = 0 /\ arch' = View' /\ state' = state
  BY <1>2, AfterOperation DEF ArchStep, Ran
<1>4. Moves("Ac", AluAdd(registers["Ac"], registers["Mbr"]))
  BY <1>2, PlainMoves DEF IInv
<1>5. InFlight'
  BY <1>3 DEF InFlight, InView, InFetch, InExecute
<1>6. /\ registers \in [Register -> Word] /\ registers["Ir"] = Word0
      /\ Masked(Word0) = ISA!X
  BY AtOperation, RegisterFacts, InstrFacts DEF InFlight, InFetch
<1>7. ISA!Is("AddI")
  BY DEF ISA!Is, Op
<1>8. ISA!Loads(ISA!AluAdd(arch.ac, arch.memory[ISA!Indirect]))
  <2>1. /\ registers["Ac"] = arch.ac /\ registers["Pc"] = NextAddr(arch.pc)
        /\ memory = arch.memory /\ consumed = arch.consumed
        /\ outputs = arch.outputs
        /\ registers["Mbr"] = arch.memory[ISA!Indirect]
    BY DEF InFlight, InView, InExecute, Addressing, Reading, Pointing
  <2>2. ISA!AluAdd(arch.ac, arch.memory[ISA!Indirect])
          = AluAdd(arch.ac, arch.memory[ISA!Indirect])
    BY SameWords, SameArithmetic
  <2> QED
    BY <1>3, <1>4, <1>6, <2>1, <2>2, SameWords
       DEF Moves, View, Register, ISA!Loads, ISA!Stores, ISA!Jumps, ISA!Falls
<1>9. ISA!Execute
  BY <1>3, <1>7, <1>8, Zenon DEF ISA!Execute
<1> QED
  BY <1>5, <1>9

\* A jump through a pointer ends where it points.
LEMMA JumpIEnds ==
  ASSUME IInv, ArchType, InFlight, Ran, ArchStep, ISA!Executing,
         control.micro_pc = 7, Op = "JumpI"
  PROVE  InFlight' /\ ISA!Execute
<1>1. CurrentOp = Execute(Op)[3]
  BY AtOperation
<1>2. CurrentOp = Transfer("Pc", "Mbr") /\ Len(Execute(Op)) = 3
  BY <1>1, ExecutePrograms
<1>3. control'.micro_pc = 0 /\ arch' = View' /\ state' = state
  BY <1>2, AfterOperation DEF ArchStep, Ran
<1>4. Moves("Pc", Masked(registers["Mbr"]))
  BY <1>2, TransferMoves DEF IInv, Register
<1>5. InFlight'
  BY <1>3 DEF InFlight, InView, InFetch, InExecute
<1>6. /\ registers \in [Register -> Word] /\ registers["Ir"] = Word0
      /\ Masked(Word0) = ISA!X
  BY AtOperation, RegisterFacts, InstrFacts DEF InFlight, InFetch
<1>7. ISA!Is("JumpI")
  BY DEF ISA!Is, Op
<1>8. ISA!Jumps(ISA!Indirect)
  BY <1>3, <1>4, <1>6, InstrFacts, SameWords
     DEF InFlight, InView, InExecute, Moves, View, Register, Addressing, Reading,
         Pointing, ISA!Loads, ISA!Stores, ISA!Jumps, ISA!Falls
<1>9. ISA!Execute
  BY <1>3, <1>7, <1>8, Zenon DEF ISA!Execute
<1> QED
  BY <1>5, <1>9

\* A load through a pointer ends with what was read.
LEMMA LoadIEnds ==
  ASSUME IInv, ArchType, InFlight, Ran, ArchStep, ISA!Executing,
         control.micro_pc = 9, Op = "LoadI"
  PROVE  InFlight' /\ ISA!Execute
<1>1. CurrentOp = Execute(Op)[5]
  BY AtOperation
<1>2. CurrentOp = Transfer("Ac", "Mbr") /\ Len(Execute(Op)) = 5
  BY <1>1, ExecutePrograms
<1>3. control'.micro_pc = 0 /\ arch' = View' /\ state' = state
  BY <1>2, AfterOperation DEF ArchStep, Ran
<1>4. Moves("Ac", registers["Mbr"])
  BY <1>2, TransferMoves DEF IInv, Register
<1>5. InFlight'
  BY <1>3 DEF InFlight, InView, InFetch, InExecute
<1>6. /\ registers \in [Register -> Word] /\ registers["Ir"] = Word0
      /\ Masked(Word0) = ISA!X
  BY AtOperation, RegisterFacts, InstrFacts DEF InFlight, InFetch
<1>7. ISA!Is("LoadI")
  BY DEF ISA!Is, Op
<1>8. ISA!Loads(arch.memory[ISA!Indirect])
  BY <1>3, <1>4, <1>6, InstrFacts, SameWords
     DEF InFlight, InView, InExecute, Moves, View, Register, Addressing, Reading,
         Pointing, ISA!Loads, ISA!Stores, ISA!Jumps, ISA!Falls
<1>9. ISA!Execute
  BY <1>3, <1>7, <1>8, Zenon DEF ISA!Execute
<1> QED
  BY <1>5, <1>9

\* A store through a pointer ends with the accumulator where it points.
LEMMA StoreIEnds ==
  ASSUME IInv, ArchType, InFlight, Ran, ArchStep, ISA!Executing,
         control.micro_pc = 9, Op = "StoreI"
  PROVE  InFlight' /\ ISA!Execute
<1>1. CurrentOp = Execute(Op)[5]
  BY AtOperation
<1>2. CurrentOp = WriteMemory /\ Len(Execute(Op)) = 5
  BY <1>1, ExecutePrograms
<1>3. control'.micro_pc = 0 /\ arch' = View' /\ state' = state
  BY <1>2, AfterOperation DEF ArchStep, Ran
<1>4. /\ memory' = [memory EXCEPT ![registers["Mar"]] = registers["Mbr"]]
      /\ UNCHANGED << registers, consumed, outputs >>
  BY <1>2, OtherEffects DEF IInv
<1>5. InFlight'
  BY <1>3 DEF InFlight, InView, InFetch, InExecute
<1>6. /\ registers \in [Register -> Word] /\ registers["Ir"] = Word0
      /\ Masked(Word0) = ISA!X
  BY AtOperation, RegisterFacts, InstrFacts DEF InFlight, InFetch
<1>7. ISA!Is("StoreI")
  BY DEF ISA!Is, Op
<1>8. ISA!Stores(ISA!Indirect)
  <2>1. /\ registers["Ac"] = arch.ac /\ registers["Pc"] = NextAddr(arch.pc)
        /\ memory = arch.memory /\ consumed = arch.consumed
        /\ outputs = arch.outputs
        /\ registers["Mar"] = ISA!Indirect /\ registers["Mbr"] = arch.ac
    BY DEF InFlight, InView, InExecute, Addressing, Reading, Pointing
  <2> QED
    BY <1>3, <1>4, <1>6, <2>1, SameWords
       DEF Moves, View, Register, ISA!Loads, ISA!Stores, ISA!Jumps, ISA!Falls
<1>9. ISA!Execute
  BY <1>3, <1>7, <1>8, Zenon DEF ISA!Execute
<1> QED
  BY <1>5, <1>9

-----------------------------------------------------------------------------
(* The refinement.                                                         *)

\* A view is typed; nothing is journalled; a call goes on only in a machine
\* that executes; and a machine that does not stands where it can be
\* programmed again.
ArchInv ==
  /\ ArchType
  /\ entries = << >> /\ limit = 0
  /\ ~Idle => state \in {"Running", "Stepping"}
  /\ state = "Ready" => control.micro_pc = 0
  /\ state = "Terminated" => arch.consumed = consumed /\ arch.outputs = outputs
  /\ InFlight

\* The host keeps no journal and goes round no register and no word of memory:
\* what marie run does, which leaves the history at its default of none (see
\* mrs-vm/src/lib.rs) and calls no setter of the machine.
ForwardOnly == HistoryLimits \subseteq {0} /\ HostRegisters = {} /\ HostAddrs = {}

\* One of the instruction's operations is done: part-way it shows nothing,
\* and the last one is the instruction.
LEMMA RanImplements ==
  ASSUME IInv, ArchType, InFlight, Ran, ArchStep, ISA!Executing
  PROVE  /\ InFlight'
         /\ ISA!Execute \/ (arch' = arch /\ state' = state)
<1>1. CASE control.micro_pc < 5
  BY <1>1, RunsFetch
<1>2. CASE control.micro_pc >= 5
  <2>0. Op \in Opcode /\ control.micro_pc - 4 \in 1 .. Len(Execute(Op))
        /\ control.micro_pc \in 0 .. 9 /\ CurrentOp = Execute(Op)[control.micro_pc - 4]
    BY <1>2, AtOperation, RegisterFacts
  <2>1. CASE Op \in Addressing /\ control.micro_pc = 5
    BY <2>1, RunsAddressing
  <2>2. CASE Op \in Reading /\ control.micro_pc = 6
    BY <2>2, RunsReading
  <2>3. CASE Op \in Pointing /\ control.micro_pc = 7
    BY <2>3, RunsPointing
  <2>4. CASE Op = "JnS" /\ control.micro_pc # 5
    <3>1. control.micro_pc \in {6, 7, 8, 9}
      BY <2>0, <2>4, <1>2
    <3> QED
      BY <2>4, <3>1, JnSTakesReturn, JnSWritesReturn, JnSJumps, JnSEnds
  <2>5. CASE Op \in {"Load", "Add", "Subt", "JumpI"} /\ control.micro_pc \notin {5, 6}
    <3>1. Len(Execute(Op)) = 3
      BY <2>5, ExecutePrograms
    <3>2. control.micro_pc = 7
      BY <1>2, <2>0, <2>5, <3>1
    <3> QED
      BY <2>5, <3>2, LoadEnds, AddEnds, SubtEnds, JumpIEnds
  <2>6. CASE Op = "Store" /\ control.micro_pc # 5
    <3>1. Len(Execute(Op)) = 3
      BY <2>6, ExecutePrograms
    <3>2. control.micro_pc \in {6, 7}
      BY <1>2, <2>0, <2>6, <3>1
    <3> QED
      BY <2>6, <3>2, StoreTakes, StoreEnds
  <2>7. CASE Op \in Pointing /\ control.micro_pc \notin {5, 6, 7}
    <3>1. control.micro_pc \in {8, 9}
      BY <1>2, <2>0, <2>7
    <3> QED
      BY <2>7, <3>1, PointedRead, StoreITakes, AddIEnds, LoadIEnds, StoreIEnds
         DEF Pointing
  <2>8. CASE Op \in {"Input", "Output", "SkipCond"}
    <3>1. Len(Execute(Op)) = 2
      BY <2>8, ExecutePrograms
    <3>2. control.micro_pc \in {5, 6}
      BY <1>2, <2>0, <3>1
    <3> QED
      BY <2>8, <3>2, InputReads, InputEnds, OutputTakes, OutputEnds, SkipCompares,
         SkipEnds
  <2>9. CASE Op \in {"Jump", "LoadImmi"}
    <3>1. Len(Execute(Op)) = 1
      BY <2>9, ExecutePrograms
    <3>2. control.micro_pc = 5
      BY <1>2, <2>0, <3>1
    <3> QED
      BY <2>9, <3>2, JumpEnds, LoadImmiEnds
  <2>10. CASE Op = "Halt"
    <3>1. CurrentOp = Plain("Halt")
      BY <2>0, <2>10, ExecutePrograms
    <3> QED
      BY <3>1, OtherEffects DEF IInv
  <2> QED
    BY <1>2, <2>0, <2>1, <2>2, <2>3, <2>4, <2>5, <2>6, <2>7, <2>8, <2>9, <2>10,
       OpcodeNames
       DEF Addressing, Reading, Pointing
<1> QED
  BY <1>1, <1>2, RegisterFacts

\* What leaves the machine where it is shows nothing.
LEMMA StaysInFlight ==
  ASSUME InFlight, ArchStep, UNCHANGED << core, consumed, outputs >>
  PROVE  InFlight' /\ arch' = arch
<1>1. arch' = arch
  BY DEF ArchStep, InFlight, InView, View, core
<1> QED
  BY <1>1 DEF InFlight, InView, InFetch, InExecute, View, core, Word0, Op,
              ISA!Instr, ISA!X, ISA!Indirect

\* A fault, a halt or a wait happens before anything of its instruction.
LEMMA RefrainedImplements ==
  ASSUME IInv, ArchInv, Refrained, ArchStep, ISA!Executing
  PROVE  /\ ArchInv'
         /\ state' = state \/ ISA!Terminate
<1>1. InFlight' /\ arch' = arch
  BY StaysInFlight DEF ArchInv, Refrained, device
<1>2. ASSUME state' = "Terminated", state' # state
      PROVE  /\ ISA!Terminate
             /\ arch.consumed = consumed /\ arch.outputs = outputs
  <2>1. CASE control.micro_pc >= 5
    <3>1. /\ Op \in Opcode /\ CurrentOp = Execute(Op)[control.micro_pc - 4]
          /\ control.micro_pc - 4 \in 1 .. Len(Execute(Op))
      BY <2>1, AtOperation DEF ArchInv
    <3>2. CurrentOp.op \in {"ReadInput", "WriteOutput", "Halt"}
      BY <1>2, <2>1, RegisterFacts, CurrentOpFacts DEF Refrained
    <3>3. Op \in {"Halt", "Input", "Output"} /\ (Op = "Input" => control.micro_pc # 6)
      BY <2>1, <3>1, <3>2, ExecuteFacts
    <3>4. arch.consumed = consumed /\ arch.outputs = outputs
      BY <2>1, <3>3, RegisterFacts DEF ArchInv, InFlight, InView
    <3> QED
      BY <1>1, <1>2, <3>3, <3>4 DEF ISA!Terminate, Op
  <2>2. CASE control.micro_pc < 5
    <3>1. control.micro_pc = 4 /\ Decode(registers["Ir"]) = NoInstruction
      <4>1. control.micro_pc + 1 \in 1 .. 5
            /\ CurrentOp = FetchDecode[control.micro_pc + 1]
        BY <2>2, RegisterFacts, FetchFacts DEF CurrentOp
      <4>2. CurrentOp.op \notin {"ReadInput", "WriteOutput", "Halt"}
        BY <4>1 DEF FetchDecode, Transfer, Plain, ReadMemory, IncrementPc
      <4> QED
        BY <1>2, <4>2, RegisterFacts, CurrentOpFacts DEF Refrained
    <3>2. ISA!Instr = NoInstruction /\ ISA!NoInstruction = NoInstruction
      BY <3>1, InstrFacts, SameWords DEF ArchInv, InFlight, InFetch
    <3>3. arch.consumed = consumed /\ arch.outputs = outputs
      BY <3>1 DEF ArchInv, InFlight, InView
    <3> QED
      BY <1>1, <1>2, <3>2, <3>3 DEF ISA!Terminate
  <2> QED
    BY <2>1, <2>2, RegisterFacts
<1> QED
  BY <1>1, <1>2 DEF ArchInv, ArchType, Refrained, journal, core, device, Idle

\* Every step of the machine is one of the instruction set's, or none.
LEMMA ArchStepImplements ==
  ASSUME ForwardOnly, IInv, ArchInv, [ArchNext]_<< vars, arch >>
  PROVE  ArchInv' /\ [ISA!Next]_(ISA!ivars)
<1>0. IInv'
  BY NextType DEF ArchNext
<1> DEFINE Stays == ArchInv' /\ UNCHANGED << state, arch >>
<1>1. Stays => [ISA!Next]_(ISA!ivars)
  BY DEF ISA!ivars
<1>2. CASE UNCHANGED << vars, arch >>
  <2>1. Stays
    BY <1>2
       DEF vars, core, journal, device, ArchInv, ArchType, InFlight, InView, InFetch,
           InExecute, View, Word0, Op, ISA!Instr, ISA!X, ISA!Indirect, Idle
  <2> QED
    BY <1>1, <2>1
<1>3. ASSUME ArchStep, MicroStep
      PROVE  ArchInv' /\ [ISA!Next]_(ISA!ivars)
  <2>1. Ran \/ Refrained
    BY <1>3, MicroStepOutcome DEF IInv
  <2>2. ~Idle /\ ISA!Executing
    <3>1. ~Idle
      BY <2>1 DEF Ran, Refrained, Issuing, Idle, NoCall
    <3> QED
      BY <3>1 DEF ArchInv, ISA!Executing
  <2>3. CASE Ran
    <3>1. /\ InFlight'
          /\ ISA!Execute \/ (arch' = arch /\ state' = state)
      BY <1>3, <2>2, <2>3, RanImplements DEF ArchInv
    <3>2. ArchType'
      <4>1. View' \in [ac : Word, pc : Addr, memory : [Addr -> Word],
                       consumed : Seq(Word), outputs : Seq(Word)]
        BY <1>0 DEF IInv, TypeOK, RegisterFile, Register, View
      <4> QED
        BY <1>3, <4>1 DEF ArchStep, ArchInv, ArchType
    <3>3. state' = state /\ limit' = limit /\ entries' = entries
      BY <2>3 DEF Ran, ArchInv
    <3>4. ArchInv'
      BY <2>2, <3>1, <3>2, <3>3 DEF ArchInv
    <3> QED
      BY <1>1, <3>1, <3>4 DEF ISA!Next, ISA!ivars
  <2>4. CASE Refrained
    <3>1. ArchInv' /\ (state' = state \/ ISA!Terminate)
      BY <1>3, <2>2, <2>4, RefrainedImplements
    <3>2. arch' = arch
      BY <1>3, <2>4, StaysInFlight DEF ArchInv, Refrained, device
    <3> QED
      BY <1>1, <3>1, <3>2 DEF ISA!Next, ISA!ivars
  <2> QED
    BY <2>1, <2>3, <2>4
<1>4. ASSUME ArchStep, UNCHANGED << core, consumed, outputs >>, limit' = limit,
             entries' = entries, state' = state, ~Idle' => ~Idle \/ state \in {"Running", "Stepping"}
      PROVE  ArchInv' /\ [ISA!Next]_(ISA!ivars)
  <2>1. InFlight' /\ arch' = arch
    BY <1>4, StaysInFlight DEF ArchInv
  <2> QED
    BY <1>1, <1>4, <2>1 DEF ArchInv, ArchType, core
<1>5. ASSUME ArchStep, SuspendRun
      PROVE  ArchInv' /\ [ISA!Next]_(ISA!ivars)
  <2>1. /\ UNCHANGED << core, consumed, outputs >> /\ limit' = limit
        /\ entries' = entries /\ state' = state /\ ~Idle
    BY <1>5 DEF SuspendRun, journal, device, Idle, NoCall
  <2> QED
    BY <1>4, <1>5, <2>1
<1>6. ASSUME ArchStep, MicroStepBack
      PROVE  ArchInv' /\ [ISA!Next]_(ISA!ivars)
  <2>1. RefuseNoHistory
    BY <1>6
       DEF ArchInv, MicroStepBack, UndoNothing, UndoRegister, UndoMemory, UndoInput,
           UndoOutput, RefuseInput, RefuseOutput, Undoes
  <2>2. /\ UNCHANGED << core, consumed, outputs >> /\ limit' = limit
        /\ entries' = entries /\ state' = state /\ ~Idle
    BY <2>1 DEF RefuseNoHistory, Refused, Undoing, journal, device, Idle, NoCall
  <2> QED
    BY <1>4, <1>6, <2>2
<1>7. ASSUME ArchStep, Calls
      PROVE  ArchInv' /\ [ISA!Next]_(ISA!ivars)
  <2>1. /\ UNCHANGED << core, consumed, outputs >> /\ limit' = limit
        /\ entries' = entries /\ state' = state /\ state \in {"Running", "Stepping"}
    BY <1>7
       DEF Calls, CallRun, CallRunBounded, CallStep, CallMicroStep, CallStepBack,
           CallMicroStepBack, Begin, journal, device
  <2> QED
    BY <1>4, <1>7, <2>1
<1>8. ASSUME ArchStep, Boot \/ Debug \/ Pause \/ Resume
      PROVE  ArchInv' /\ [ISA!Next]_(ISA!ivars)
  <2>1. /\ UNCHANGED << core, consumed, outputs >> /\ limit' = limit
        /\ entries' = entries /\ state' \in {"Running", "Stepping"}
    BY <1>8 DEF Boot, Debug, Pause, Resume, Transition, journal, device
  <2>2. InFlight' /\ arch' = arch
    BY <1>8, <2>1, StaysInFlight DEF ArchInv
  <2>3. ArchInv'
    BY <2>1, <2>2 DEF ArchInv, ArchType
  <2> QED
    BY <2>1, <2>2, <2>3 DEF ISA!Next, ISA!Control, ISA!ivars
<1>9. ASSUME ArchStep, SetHistoryLimit \/ ClearHistory \/ SetBreakpoints \/ FeedInput
      PROVE  ArchInv' /\ [ISA!Next]_(ISA!ivars)
  <2>1. /\ UNCHANGED << core, consumed, outputs >> /\ state' = state
        /\ Idle /\ call' = call
    BY <1>9 DEF SetHistoryLimit, ClearHistory, SetBreakpoints, FeedInput, core, journal,
                device
  <2>2. limit' = limit /\ entries' = entries
    <3>1. CASE SetHistoryLimit
      <4>1. PICK n \in HistoryLimits : limit' = n /\ entries' = Latest(entries, n)
        BY <3>1 DEF SetHistoryLimit
      <4>2. n = 0
        BY DEF ForwardOnly
      <4>3. Latest(<< >>, 0) = << >>
        BY EmptySeq, SubSeqEmpty DEF Latest
      <4> QED
        BY <4>1, <4>2, <4>3 DEF ArchInv
    <3> QED
      BY <1>9, <3>1 DEF ArchInv, ClearHistory, SetBreakpoints, FeedInput, journal
  <2>3. ~Idle' => FALSE
    BY <2>1 DEF Idle
  <2> QED
    BY <1>4, <1>9, <2>1, <2>2, <2>3
<1>10. ASSUME ArchStep, FlashProgram \/ FlashMemory \/ LoadProgram \/ Reset \/ ResetWithProgram
       PROVE  ArchInv' /\ [ISA!Next]_(ISA!ivars)
  <2>1. /\ state \in {"Ready", "Terminated"} /\ state' = "Ready"
        /\ consumed' = consumed /\ outputs' = outputs /\ limit' = limit
        /\ entries' = << >> /\ control'.micro_pc = 0 /\ Idle /\ call' = call
    <3>1. CASE FlashProgram \/ LoadProgram \/ Reset \/ ResetWithProgram
      BY <3>1
         DEF FlashProgram, LoadProgram, Reset, ResetWithProgram, RewindTo, FreshControl,
             device
    <3>2. CASE FlashMemory
      BY <3>2 DEF FlashMemory, ArchInv, journal, device
    <3> QED
      BY <1>10, <3>1, <3>2
  <2>2. arch' = View'
    BY <1>10, <2>1 DEF ArchStep
  <2>3. InFlight'
    BY <2>1, <2>2 DEF InFlight, InView, InFetch, InExecute
  <2>4. ArchType'
    BY <1>0, <2>2 DEF IInv, TypeOK, RegisterFile, Register, View, ArchType
  <2>5. arch.consumed = consumed /\ arch.outputs = outputs
    BY <2>1 DEF ArchInv, InFlight, InView, View
  <2>6. ArchInv'
    BY <2>1, <2>3, <2>4 DEF ArchInv, Idle
  <2>7. ISA!Program
    BY <2>1, <2>2, <2>5 DEF ISA!Program, ISA!Executing, View
  <2> QED
    BY <2>6, <2>7 DEF ISA!Next
<1>11. ~PokeRegister /\ ~PokeMemory
  BY DEF ForwardOnly, PokeRegister, PokeMemory
<1> QED
  BY <1>2, <1>3, <1>5, <1>6, <1>7, <1>8, <1>9, <1>10, <1>11
     DEF ArchNext, Next, Turn, Host, ArchStep

\* A machine begins at a boundary.
LEMMA ArchBegins ==
  ASSUME NEW image \in [Addr -> Word], NEW entry \in Addr, InitWith(image, entry),
         arch = View
  PROVE  IInv /\ ArchInv /\ ISA!Init
<1>1. IInv
  BY BeginsType
<1>2. registers["Ac"] = 0 /\ registers["Pc"] = entry /\ control.micro_pc = 0
  BY WordFacts DEF InitWith, ZeroRegisters, Register, FreshControl
<1>3. ArchInv
  BY <1>1, <1>2
     DEF InitWith, IInv, TypeOK, RegisterFile, Register, View, ArchInv, ArchType, InFlight,
         InView, InFetch, InExecute, Idle
<1>4. ISA!Init
  BY <1>2, SameWords DEF InitWith, View, ISA!Init
<1> QED
  BY <1>1, <1>3, <1>4

\* ImplementsISA: for every size of memory, every device and every order of
\* the calls a host may make, the micro-operations of an instruction with the
\* stalls, faults, pauses and refusals between them are one atomic step of
\* the instruction set or none, and the machine stops only where the
\* instruction set says it may.
THEOREM MicrocodeImplementsISA ==
  ASSUME ForwardOnly
  PROVE  ArchSpec => ImplementsISA
<1>1. ArchInit => IInv /\ ArchInv /\ ISA!Init
  BY ArchBegins, ZeroType, WordFacts, ConstantsAssumption DEF ArchInit, Init
<1>2. IInv /\ ArchInv /\ [ArchNext]_<< vars, arch >>
        => IInv' /\ ArchInv' /\ [ISA!Next]_(ISA!ivars)
  <2>1. [ArchNext]_<< vars, arch >> => [Next]_vars
    BY DEF ArchNext
  <2> QED
    BY <2>1, NextType, ArchStepImplements
<1> QED
  BY <1>1, <1>2, PTL DEF ArchSpec, ImplementsISA, ISA!Spec

-----------------------------------------------------------------------------
(* The control-flow graph.                                                 *)

\* Edges stay among the words of the program, or say that they do not.
LEMMA EdgeFacts ==
  ASSUME NEW p, p.origin \in Nat, Len(p.words) \in Nat
  PROVE  /\ \A i, offset : StepEdge(p, i, offset).edge = "Word" =>
                             StepEdge(p, i, offset).index \in Indices(p)
         /\ \A a : TargetEdge(p, a).edge = "Word" =>
                     TargetEdge(p, a).index \in Indices(p)
<1>1. ASSUME NEW i, NEW offset, StepEdge(p, i, offset).edge = "Word"
      PROVE  StepEdge(p, i, offset).index \in Indices(p)
  BY <1>1 DEF StepEdge, ToWord, OffEnd
<1>2. ASSUME NEW a, TargetEdge(p, a).edge = "Word"
      PROVE  TargetEdge(p, a).index \in Indices(p)
  <2>1. a \in Occupied(p)
    BY <1>2 DEF TargetEdge, ToWord, Outside
  <2>2. TargetEdge(p, a).index = IndexOf(p, a)
    BY <2>1 DEF TargetEdge, ToWord
  <2>3. PICK i \in Indices(p) : a = AddressAt(p, i)
    BY <2>1 DEF Occupied
  <2>4. IndexOf(p, a) = i
    BY <2>3 DEF IndexOf, AddressAt, Indices
  <2> QED
    BY <2>2, <2>4
<1> QED
  BY <1>1, <1>2

\* Words lead to words of the program.
LEMMA NextWordsType ==
  ASSUME NEW p, p.origin \in Nat, Len(p.words) \in Nat, NEW i
  PROVE  NextWords(p, i) \subseteq Indices(p)
<1> SUFFICES ASSUME NEW e \in Edges(p, i), e.edge = "Word"
             PROVE  e.index \in Indices(p)
  BY DEF NextWords
<1> DEFINE op == EffectiveOpcode(p, i)
<1>1. CASE op \in {"None", "Halt"}
  BY <1>1, Zenon DEF Edges
<1>2. CASE op = "Jump"
  <2>1. Edges(p, i) = {TargetEdge(p, OperandAt(p, i))}
    BY <1>2, Zenon DEF Edges
  <2> QED
    BY <2>1, EdgeFacts
<1>3. CASE op = "JnS"
  <2>1. Edges(p, i) = {TargetEdge(p, NextAddr(OperandAt(p, i)))}
    BY <1>3, Zenon DEF Edges
  <2> QED
    BY <2>1, EdgeFacts
<1>4. CASE op = "JumpI"
  <2>1. Edges(p, i) = {Unknown}
    BY <1>4, Zenon DEF Edges
  <2> QED
    BY <2>1 DEF Unknown
<1>5. CASE op = "SkipCond"
  <2>1. Edges(p, i) = {StepEdge(p, i, 1), StepEdge(p, i, 2)}
    BY <1>5, Zenon DEF Edges
  <2> QED
    BY <2>1, EdgeFacts
<1>6. CASE op \notin {"None", "Halt", "Jump", "JnS", "JumpI", "SkipCond"}
  <2>1. Edges(p, i) = {StepEdge(p, i, 1)}
    BY <1>6, Zenon DEF Edges
  <2> QED
    BY <2>1, EdgeFacts
<1> QED
  BY <1>1, <1>2, <1>3, <1>4, <1>5, <1>6

\* What one round of marking adds.
Spread(p, from) == from \cup UNION { NextWords(p, i) : i \in from }

\* mark_reachable, round by round.
LEMMA ReachableRecursion ==
  ASSUME NEW p, p.origin \in Nat, Len(p.words) \in Nat
  PROVE  \E within \in [Nat -> SUBSET Indices(p)] :
           /\ within[0] = {1} \cap Indices(p)
           /\ \A n \in Nat : within[n + 1] = Spread(p, within[n])
           /\ Reachable(p) = within[Len(p.words)]
<1> DEFINE S == SUBSET Indices(p)
           start == {1} \cap Indices(p)
           step == [n \in Nat |-> [from \in S |-> Spread(p, from)]]
           Body(g) == [n \in Nat |->
                         IF n = 0 THEN {1} \cap Indices(p)
                         ELSE LET nearer == g[n - 1]
                              IN  nearer \cup UNION { NextWords(p, i) : i \in nearer }]
           within == CHOOSE g : g = Body(g)
<1>1. start \in S /\ step \in Steps(S)
  BY NextWordsType DEF Spread, Steps
<1> HIDE DEF start, step, S
<1>2. PICK f \in [Nat -> S] : Recurs(f, start, step)
  BY <1>1, RecursionExists
<1>3. ASSUME NEW n \in Nat
      PROVE  f[n + 1] = Spread(p, f[n])
  <2>1. f[n] \in S
    BY <1>2
  <2> QED
    BY <1>2, <2>1 DEF step, Recurs
<1>4. f = Body(f)
  <2>1. ASSUME NEW n \in Nat
        PROVE  f[n] = Body(f)[n]
    <3>1. CASE n = 0
      BY <1>2, <3>1 DEF start, Recurs
    <3>2. CASE n # 0
      <4>1. n - 1 \in Nat /\ (n - 1) + 1 = n
        BY <3>2
      <4>2. f[n] = Spread(p, f[n - 1])
        BY <1>3, <4>1
      <4> QED
        BY <3>2, <4>2 DEF Spread
    <3> QED
      BY <3>1, <3>2
  <2>2. f = [n \in Nat |-> f[n]] /\ Body(f) = [n \in Nat |-> Body(f)[n]]
    BY <1>2
  <2> QED
    BY <2>1, <2>2
<1>5. within = Body(within)
  BY <1>4
<1>6. Reachable(p) = within[Len(p.words)]
  BY DEF Reachable
<1>7. within[0] = start
  <2> HIDE DEF within
  <2> QED
    BY <1>5 DEF start
<1>8. \A n \in Nat : within[n + 1] = Spread(p, within[n])
  <2> HIDE DEF within
  <2> TAKE n \in Nat
  <2>1. n + 1 \in Nat /\ n + 1 # 0 /\ (n + 1) - 1 = n
    OBVIOUS
  <2>2. within[n + 1] = Body(within)[n + 1]
    BY <1>5
  <2>3. Body(within)[n + 1] = Spread(p, within[n])
    BY <2>1 DEF Spread
  <2> QED
    BY <2>2, <2>3
<1> HIDE DEF within
<1>9. \A n \in Nat : within[n] = f[n]
  <2> DEFINE P == { n \in Nat : within[n] = f[n] }
  <2>1. 0 \in P
    BY <1>2, <1>7 DEF Recurs
  <2>2. ASSUME NEW n \in Nat, n \in P
        PROVE  n + 1 \in P
    BY <1>3, <1>8, <2>2
  <2> HIDE DEF P
  <2>3. \A n \in Nat : n \in P
    BY <2>1, <2>2, SetInduction
  <2> QED
    BY <2>3 DEF P
<1>10. Reachable(p) = f[Len(p.words)]
  BY <1>6, <1>9
<1>11. f[0] = {1} \cap Indices(p)
  BY <1>2 DEF start, Recurs
<1> QED
  BY <1>2, <1>3, <1>10, <1>11 DEF S

\* What is reachable are words of the program, the first among them, and all
\* that their edges lead to: as many rounds as there are words are enough.
LEMMA ReachableFacts ==
  ASSUME NEW p, p.origin \in Nat, Len(p.words) \in Nat
  PROVE  /\ Reachable(p) \subseteq Indices(p)
         /\ Len(p.words) > 0 => 1 \in Reachable(p)
         /\ \A i \in Reachable(p) : NextWords(p, i) \subseteq Reachable(p)
<1> DEFINE N == Len(p.words)
<1>0. N \in Nat /\ Indices(p) = 1 .. N
  BY DEF Indices
<1>1. PICK within \in [Nat -> SUBSET Indices(p)] :
        /\ within[0] = {1} \cap Indices(p)
        /\ \A n \in Nat : within[n + 1] = Spread(p, within[n])
        /\ Reachable(p) = within[N]
  BY ReachableRecursion
<1> HIDE DEF N
<1>2. \A n \in Nat : within[n] \subseteq within[n + 1]
  BY <1>1 DEF Spread
<1>3. IsFiniteSet(Indices(p)) /\ Cardinality(Indices(p)) = N
  BY <1>0, FS_Interval
<1>4. \A n \in Nat : IsFiniteSet(within[n]) /\ Cardinality(within[n]) \in Nat
                     /\ Cardinality(within[n]) <= N
  BY <1>0, <1>1, <1>3, FS_Subset, FS_CardinalityType
<1>5. CASE N = 0
  BY <1>0, <1>1, <1>5 DEF N
<1>6. CASE N > 0
  <2> DEFINE Full(n) == within[n + 1] = within[n]
             P == { n \in Nat : Full(n) \/ Cardinality(within[n]) >= n + 1 }
  <2>0. {1} \cap Indices(p) = {1}
    <3>1. 1 \in Indices(p)
      BY <1>0, <1>6
    <3> QED
      BY <3>1
  <2>1. 0 \in P
    <3>1. within[0] = {1}
      BY <1>1, <2>0
    <3>2. Cardinality({1}) = 1
      BY FS_Singleton
    <3>3. Cardinality(within[0]) >= 0 + 1
      BY <3>1, <3>2
    <3> QED
      BY <3>3
  <2>2. ASSUME NEW n \in Nat, n \in P
        PROVE  n + 1 \in P
    <3>0. n + 1 \in Nat
      OBVIOUS
    <3>1. /\ n + 1 \in Nat
          /\ within[(n + 1) + 1] = Spread(p, within[n + 1])
          /\ within[n + 1] = Spread(p, within[n])
      BY <1>1, <3>0
    <3>2. CASE Full(n)
      BY <3>1, <3>2
    <3>3. CASE ~Full(n)
      <4>1. Cardinality(within[n]) >= n + 1
        BY <2>2, <3>3
      <4>2. within[n] \subseteq within[n + 1] /\ within[n] # within[n + 1]
        BY <1>2, <3>3
      <4>3. Cardinality(within[n]) < Cardinality(within[n + 1])
        <5>1. /\ IsFiniteSet(within[n + 1])
              /\ Cardinality(within[n]) \in Nat /\ Cardinality(within[n + 1]) \in Nat
          BY <1>4, <3>1
        <5>2. Cardinality(within[n]) <= Cardinality(within[n + 1])
          BY <4>2, <5>1, FS_Subset
        <5>3. Cardinality(within[n]) # Cardinality(within[n + 1])
          BY <4>2, <5>1, FS_Subset
        <5> QED
          BY <5>1, <5>2, <5>3
      <4> QED
        BY <1>4, <3>1, <4>1, <4>3
    <3> QED
      BY <3>2, <3>3
  <2> HIDE DEF P
  <2>3. \A n \in Nat : n \in P
    BY <2>1, <2>2, SetInduction
  <2>4. Full(N)
    <3>1. N \in P
      BY <1>0, <2>3
    <3> QED
      BY <1>0, <1>4, <3>1 DEF P
  <2>5. \A n \in Nat : 1 \in within[n]
    <3> DEFINE Q == { n \in Nat : 1 \in within[n] }
    <3>1. 0 \in Q
      BY <1>1, <2>0
    <3>2. \A n \in Nat : n \in Q => n + 1 \in Q
      BY <1>2
    <3> HIDE DEF Q
    <3>3. \A n \in Nat : n \in Q
      BY <3>1, <3>2, SetInduction
    <3> QED
      BY <3>3 DEF Q
  <2>6. \A i \in within[N] : NextWords(p, i) \subseteq within[N]
    BY <1>0, <1>1, <2>4 DEF Spread
  <2> QED
    BY <1>0, <1>1, <2>5, <2>6 DEF N
<1> QED
  BY <1>0, <1>5, <1>6

\* A program as the linter is given it.
Written(p) ==
  /\ p.origin \in Addr
  /\ p.origin + Len(p.words) <= MemoryWords
  /\ p.words \in Seq(Word)
  /\ p.mnemonics \in [Indices(p) -> ListingMnemonic]
  /\ \A i \in CodeWords(p) : Decode(p.words[i]).opcode = EffectiveOpcode(p, i)

\* An empty one is one.
LEMMA NoListingWritten == Written(NoListing)
<1>1. /\ NoListing.origin = 0 /\ NoListing.words = << >> /\ NoListing.mnemonics = << >>
  BY DEF NoListing, Listing
<1>2. Indices(NoListing) = {}
  BY <1>1 DEF Indices
<1>3. << >> \in [{} -> ListingMnemonic]
  OBVIOUS
<1> QED
  BY <1>1, <1>2, <1>3, WordFacts DEF Written, CodeWords, Addr

\* The words of a program lie in memory one after the other.
LEMMA AddressFacts ==
  ASSUME NEW p, Written(p)
  PROVE  /\ p.origin \in Nat /\ Len(p.words) \in Nat
         /\ \A i \in Indices(p) : /\ AddressAt(p, i) \in Addr /\ AddressAt(p, i) \in Occupied(p)
                                 /\ i \in Nat /\ i >= 1 /\ i <= Len(p.words)
                                 /\ AddressAt(p, i) = p.origin + i - 1
                                 /\ IndexOf(p, AddressAt(p, i)) = i
                                 /\ p.words[i] \in Word
         /\ \A a \in Occupied(p) : /\ IndexOf(p, a) \in Indices(p)
                                  /\ AddressAt(p, IndexOf(p, a)) = a
<1>1. p.origin \in Nat /\ Len(p.words) \in Nat /\ p.origin + Len(p.words) <= MemoryWords
  BY WordFacts DEF Written, Addr
<1>2. ASSUME NEW i \in Indices(p)
      PROVE  /\ AddressAt(p, i) \in Addr /\ AddressAt(p, i) \in Occupied(p)
             /\ i \in Nat /\ i >= 1 /\ i <= Len(p.words)
             /\ AddressAt(p, i) = p.origin + i - 1
             /\ IndexOf(p, AddressAt(p, i)) = i
             /\ p.words[i] \in Word
  <2>1. i \in Nat /\ i >= 1 /\ i <= Len(p.words)
    BY <1>1 DEF Indices
  <2>2. AddressAt(p, i) = p.origin + i - 1
    BY DEF AddressAt
  <2>3. AddressAt(p, i) \in Addr
    BY <1>1, <2>1, <2>2, WordFacts DEF Addr
  <2>4. IndexOf(p, AddressAt(p, i)) = i
    BY <1>1, <2>1, <2>2 DEF IndexOf
  <2>5. p.words[i] \in Word
    BY DEF Written, Indices
  <2> QED
    BY <2>1, <2>2, <2>3, <2>4, <2>5 DEF Occupied
<1>3. ASSUME NEW a \in Occupied(p)
      PROVE  IndexOf(p, a) \in Indices(p) /\ AddressAt(p, IndexOf(p, a)) = a
  <2>1. PICK i \in Indices(p) : a = AddressAt(p, i)
    BY DEF Occupied
  <2> QED
    BY <1>2, <2>1
<1> QED
  BY <1>1, <1>2, <1>3

\* Where an instruction goes that goes on to the next word, or the next but
\* one.
LEMMA StepLeads ==
  ASSUME NEW p, Written(p), NEW i \in Indices(p), listing = p
  PROVE  /\ LeadsTo(StepEdge(p, i, 1), NextAddr(AddressAt(p, i)))
         /\ LeadsTo(StepEdge(p, i, 2), NextAddr(NextAddr(AddressAt(p, i))))
<1> DEFINE a == AddressAt(p, i)
           n == Len(p.words)
<1>1. /\ p.origin \in Nat /\ n \in Nat /\ i \in Nat /\ i >= 1 /\ i <= n
      /\ a = p.origin + i - 1 /\ p.origin + n <= MemoryWords
      /\ MemoryWords \in Nat /\ MemoryWords >= 4
  <2>1. MemoryWords \in Nat /\ MemoryWords >= 4
    BY MemoryWordsAssumption
  <2> QED
    BY <2>1, AddressFacts DEF Written
<1> HIDE DEF a, n
<1>2. \A x \in Nat : x < MemoryWords => Masked(x) = x
  BY <1>1 DEF Masked
<1>3. Masked(MemoryWords) = 0 /\ Masked(MemoryWords + 1) = 1
  BY <1>1 DEF Masked
<1>4. Indices(p) = 1 .. n
  BY DEF Indices, n
<1>5. \A j \in Indices(p) : AddressAt(p, j) = p.origin + j - 1
  BY DEF AddressAt
<1>6. AddressAt(p, n) = p.origin + n - 1
  BY DEF AddressAt
<1>7. /\ \A j : LeadsTo(ToWord(j), p.origin + j - 1)
      /\ LeadsTo(OffEnd, Masked(p.origin + n - 1 + 1))
      /\ LeadsTo(OffEnd, Masked(p.origin + n - 1 + 2))
  BY <1>6 DEF LeadsTo, ToWord, OffEnd, AddressAt, n
<1>8. NextAddr(a) = Masked(a + 1) /\ NextAddr(NextAddr(a)) = Masked(Masked(a + 1) + 1)
  BY DEF NextAddr, Masked
<1>9. LeadsTo(StepEdge(p, i, 1), NextAddr(a))
  <2>1. CASE i < n
    <3>1. StepEdge(p, i, 1) = ToWord(i + 1)
      BY <1>1, <1>4, <2>1 DEF StepEdge
    <3>2. NextAddr(a) = p.origin + (i + 1) - 1
      BY <1>1, <1>2, <1>8, <2>1
    <3> QED
      BY <1>7, <3>1, <3>2
  <2>2. CASE i = n
    <3>1. StepEdge(p, i, 1) = OffEnd
      BY <1>1, <1>4, <2>2 DEF StepEdge
    <3> QED
      BY <1>1, <1>7, <1>8, <2>2, <3>1
  <2> QED
    BY <1>1, <2>1, <2>2
<1>10. LeadsTo(StepEdge(p, i, 2), NextAddr(NextAddr(a)))
  <2>1. CASE i + 1 < n
    <3>1. StepEdge(p, i, 2) = ToWord(i + 2)
      BY <1>1, <1>4, <2>1 DEF StepEdge
    <3>2. Masked(a + 1) = a + 1
      BY <1>1, <1>2, <2>1
    <3>3. Masked(a + 1 + 1) = p.origin + (i + 2) - 1
      BY <1>1, <1>2, <2>1
    <3> QED
      BY <1>7, <1>8, <3>1, <3>2, <3>3
  <2>2. CASE i + 1 = n
    <3>1. StepEdge(p, i, 2) = OffEnd
      BY <1>1, <1>4, <2>2 DEF StepEdge
    <3>2. Masked(a + 1) = a + 1 /\ a + 1 + 1 = p.origin + n - 1 + 1
      BY <1>1, <1>2, <2>2
    <3> QED
      BY <1>7, <1>8, <3>1, <3>2
  <2>3. CASE i = n
    <3>1. StepEdge(p, i, 2) = OffEnd
      BY <1>1, <1>4, <2>3 DEF StepEdge
    <3>2. Masked(Masked(a + 1) + 1) = Masked(p.origin + n - 1 + 2)
      <4>1. CASE a + 1 = MemoryWords
        BY <1>1, <1>2, <1>3, <2>3, <4>1
      <4>2. CASE a + 1 < MemoryWords
        BY <1>1, <1>2, <2>3, <4>2
      <4> QED
        BY <1>1, <4>1, <4>2
    <3> QED
      BY <1>7, <1>8, <3>1, <3>2
  <2> QED
    BY <1>1, <2>1, <2>2, <2>3
<1> QED
  BY <1>9, <1>10 DEF a

\* Where one goes that jumps.
LEMMA TargetLeads ==
  ASSUME NEW p, Written(p), NEW a \in Addr, listing = p
  PROVE  LeadsTo(TargetEdge(p, a), a)
<1>1. CASE a \in Occupied(p)
  BY <1>1, AddressFacts DEF TargetEdge, LeadsTo, ToWord
<1>2. CASE a \notin Occupied(p)
  BY <1>2 DEF TargetEdge, LeadsTo, Outside
<1> QED
  BY <1>1, <1>2

\* At a written instruction the machine decodes what was written.
LEMMA DecodesWritten ==
  ASSUME ArchType, Written(listing), AtWrittenCode,
         NEW i, i = IndexOf(listing, arch.pc)
  PROVE  /\ i \in Indices(listing) /\ AddressAt(listing, i) = arch.pc
         /\ Op = EffectiveOpcode(listing, i)
         /\ ISA!Instr # NoInstruction => ISA!X = OperandAt(listing, i)
<1>1. i \in Indices(listing) /\ AddressAt(listing, i) = arch.pc
  BY AddressFacts DEF AtWrittenCode
<1>2. Word0 = listing.words[i]
  BY DEF AtWrittenCode, Word0
<1>3. Op = EffectiveOpcode(listing, i)
  BY <1>2, InstrFacts DEF Written, AtWrittenCode, Op
<1> QED
  BY <1>1, <1>2, <1>3, InstrFacts DEF OperandAt

\* An instruction of the program goes where the graph has an edge for it, and
\* writes only where it says.
LEMMA ExecuteFollows ==
  ASSUME ArchType, Written(listing), AtWrittenCode, ISA!Execute,
         NEW i, i = IndexOf(listing, arch.pc)
  PROVE  /\ \E e \in Edges(listing, i) : LeadsTo(e, arch'.pc)
         /\ \A a \in Addr :
              arch'.memory[a] # arch.memory[a] =>
                \/ EffectiveOpcode(listing, i) = "StoreI"
                \/ /\ EffectiveOpcode(listing, i) \in {"JnS", "Store"}
                   /\ a = OperandAt(listing, i)
<1> DEFINE p == listing
           Follows == \E e \in Edges(p, i) : LeadsTo(e, arch'.pc)
           Writes == \A a \in Addr :
              arch'.memory[a] # arch.memory[a] =>
                \/ EffectiveOpcode(p, i) = "StoreI"
                \/ /\ EffectiveOpcode(p, i) \in {"JnS", "Store"}
                   /\ a = OperandAt(p, i)
<1>0. /\ i \in Indices(p) /\ AddressAt(p, i) = arch.pc
      /\ Op = EffectiveOpcode(p, i)
      /\ arch.memory \in [Addr -> Word] /\ ISA!X \in Addr /\ ISA!Indirect \in Addr
      /\ \A x : ISA!NextAddr(x) = NextAddr(x)
  BY DecodesWritten, InstrFacts, SameWords
<1>1. ASSUME NEW op \in Opcode, ISA!Is(op)
      PROVE  EffectiveOpcode(p, i) = op /\ Op = op /\ ISA!X = OperandAt(p, i)
  <2>1. Op = op
    BY <1>1 DEF ISA!Is, Op
  <2>2. "None" \notin Opcode
    BY OpcodeNames
  <2>3. ISA!Instr # NoInstruction
    BY <2>1, <2>2 DEF Op, NoInstruction
  <2> QED
    BY <1>0, <2>1, <2>3, DecodesWritten
<1>2. ASSUME EffectiveOpcode(p, i) \notin {"None", "Halt", "Jump", "JnS", "JumpI", "SkipCond"},
             arch'.pc = NextAddr(arch.pc)
      PROVE  Follows
  <2>1. Edges(p, i) = {StepEdge(p, i, 1)}
    BY <1>2, Zenon DEF Edges
  <2> QED
    BY <1>0, <1>2, <2>1, StepLeads
<1>3. CASE ISA!Is("JnS") /\ arch'.pc = ISA!NextAddr(ISA!X)
           /\ arch'.memory = [arch.memory EXCEPT ![ISA!X] = ISA!NextAddr(arch.pc)]
  <2>1. EffectiveOpcode(p, i) = "JnS" /\ ISA!X = OperandAt(p, i)
    BY <1>1, <1>3, OpcodeNames
  <2>2. Edges(p, i) = {TargetEdge(p, NextAddr(OperandAt(p, i)))}
    BY <2>1, Zenon DEF Edges
  <2>3. Follows
    BY <1>0, <1>3, <2>1, <2>2, TargetLeads, NextAddrType
  <2>4. Writes
    BY <1>0, <1>3, <2>1
  <2> QED
    BY <2>3, <2>4
<1>4. CASE ISA!Is("Store") /\ ISA!Stores(ISA!X)
  <2>1. EffectiveOpcode(p, i) = "Store" /\ ISA!X = OperandAt(p, i)
    BY <1>1, <1>4, OpcodeNames
  <2>2. Follows
    BY <1>0, <1>2, <1>4, <2>1 DEF ISA!Stores, ISA!Falls
  <2>3. Writes
    BY <1>0, <1>4, <2>1 DEF ISA!Stores
  <2> QED
    BY <2>2, <2>3
<1>5. CASE ISA!Is("StoreI") /\ ISA!Stores(ISA!Indirect)
  <2>1. EffectiveOpcode(p, i) = "StoreI"
    BY <1>1, <1>5, OpcodeNames
  <2>2. Follows
    BY <1>0, <1>2, <1>5, <2>1 DEF ISA!Stores, ISA!Falls
  <2> QED
    BY <2>1, <2>2
<1>6. CASE /\ \E op \in {"Load", "Add", "Subt", "Input", "Output", "LoadImmi", "AddI", "LoadI"} :
                ISA!Is(op)
           /\ ISA!Falls /\ arch'.memory = arch.memory
  <2>1. EffectiveOpcode(p, i)
          \in {"Load", "Add", "Subt", "Input", "Output", "LoadImmi", "AddI", "LoadI"}
    BY <1>1, <1>6, OpcodeNames
  <2>2. Follows
    BY <1>0, <1>2, <1>6, <2>1 DEF ISA!Falls
  <2> QED
    BY <1>6, <2>2
<1>7. CASE ISA!Is("SkipCond") /\ arch'.memory = arch.memory
           /\ arch'.pc \in {ISA!NextAddr(arch.pc), ISA!NextAddr(ISA!NextAddr(arch.pc))}
  <2>1. EffectiveOpcode(p, i) = "SkipCond"
    BY <1>1, <1>7, OpcodeNames
  <2>2. Edges(p, i) = {StepEdge(p, i, 1), StepEdge(p, i, 2)}
    BY <2>1, Zenon DEF Edges
  <2> QED
    BY <1>0, <1>7, <2>2, StepLeads
<1>8. CASE ISA!Is("Jump") /\ ISA!Jumps(ISA!X)
  <2>1. EffectiveOpcode(p, i) = "Jump" /\ ISA!X = OperandAt(p, i)
    BY <1>1, <1>8, OpcodeNames
  <2>2. Edges(p, i) = {TargetEdge(p, OperandAt(p, i))}
    BY <2>1, Zenon DEF Edges
  <2>3. Follows
    BY <1>0, <1>8, <2>1, <2>2, TargetLeads DEF ISA!Jumps
  <2> QED
    BY <1>8, <2>3 DEF ISA!Jumps
<1>9. CASE ISA!Is("JumpI") /\ ISA!Jumps(ISA!Indirect)
  <2>1. EffectiveOpcode(p, i) = "JumpI"
    BY <1>1, <1>9, OpcodeNames
  <2>2. Edges(p, i) = {Unknown}
    BY <2>1, Zenon DEF Edges
  <2>3. LeadsTo(Unknown, arch'.pc)
    BY Zenon DEF LeadsTo, Unknown
  <2> QED
    BY <1>9, <2>2, <2>3 DEF ISA!Jumps
<1> QED
  BY <1>3, <1>4, <1>5, <1>6, <1>7, <1>8, <1>9
     DEF ISA!Execute, ISA!Loads, ISA!Jumps

-----------------------------------------------------------------------------
(* Runs of a linted program.                                               *)

\* What makes the linter sure of a program.
Clean ==
  /\ listing.words # << >>
  /\ report.exact /\ report.leaves = {} /\ report.rewrites = {}

\* The machine stands at a reachable word, all of which are as written.
OnPath ==
  /\ arch.pc \in Occupied(listing)
  /\ IndexOf(listing, arch.pc) \in Reachable(listing)
  /\ \A j \in Reachable(listing) :
       arch.memory[AddressAt(listing, j)] = listing.words[j]
  /\ report.endless => outcome # "Halted"

LintedInv ==
  /\ Written(listing) /\ report = Report(listing)
  /\ Clean => OnPath

\* On the path of a clean program every word is code.
LEMMA CleanFacts ==
  ASSUME Written(listing), report = Report(listing), Clean, OnPath
  PROVE  /\ AtWrittenCode
         /\ \A i \in Reachable(listing) : i \in CodeWords(listing) /\ i \in Indices(listing)
         /\ IndexOf(listing, arch.pc) \notin report.dead
<1>1. Reachable(listing) \subseteq Indices(listing)
  BY AddressFacts, ReachableFacts
<1>2. FallsIntoData(listing) = {}
  BY DEF Clean, Report
<1>3. \A i \in Reachable(listing) : i \in CodeWords(listing)
  BY <1>1, <1>2 DEF FallsIntoData, DataWords
<1>4. AddressAt(listing, IndexOf(listing, arch.pc)) = arch.pc
  BY AddressFacts DEF OnPath
<1>5. AtWrittenCode
  BY <1>3, <1>4 DEF OnPath, AtWrittenCode
<1>6. IndexOf(listing, arch.pc) \notin report.dead
  BY DEF OnPath, Report, UnreachableInstruction
<1> QED
  BY <1>1, <1>3, <1>5, <1>6

\* An instruction of a clean program leads to another.
LEMMA CleanStep ==
  ASSUME ArchType, Written(listing), report = Report(listing), Clean, OnPath,
         ISA!Execute
  PROVE  /\ arch'.pc \in Occupied(listing)
         /\ IndexOf(listing, arch'.pc) \in Reachable(listing)
         /\ \A j \in Reachable(listing) :
              arch'.memory[AddressAt(listing, j)] = listing.words[j]
<1> DEFINE p == listing
           i == IndexOf(p, arch.pc)
<1>0. AtWrittenCode /\ i \in Reachable(p) /\ i \in CodeWords(p) /\ i \in Indices(p)
  BY CleanFacts DEF OnPath
<1> HIDE DEF i
<1>1. PICK e \in Edges(p, i) : LeadsTo(e, arch'.pc)
  BY <1>0, ExecuteFollows DEF i
<1>2. /\ p.mnemonics[i] \notin {"JumpI", "StoreI"}
      /\ EffectiveOpcode(p, i) \notin {"JumpI", "StoreI"}
  <2>1. p.mnemonics[i] \notin {"JumpI", "StoreI"}
    BY <1>0 DEF Clean, Report, Exact
  <2> QED
    BY <2>1 DEF EffectiveOpcode
<1>3. e.edge = "Word"
  <2>1. OffEnd \notin Edges(p, i)
    BY <1>0 DEF Clean, Report, FallsOffEnd
  <2>2. e.edge # "Outside"
    BY <1>0 DEF Clean, Report, JumpsOutside
  <2>3. CASE EffectiveOpcode(p, i) \in {"None", "Halt"}
    BY <1>1, <2>3, Zenon DEF Edges
  <2>4. CASE EffectiveOpcode(p, i) \in {"Jump", "JnS"}
    <3>1. \E a : e = TargetEdge(p, a)
      BY <1>1, <2>4, Zenon DEF Edges
    <3> QED
      BY <2>2, <3>1 DEF TargetEdge, ToWord, Outside
  <2>5. CASE EffectiveOpcode(p, i) \notin {"None", "Halt", "Jump", "JnS"}
    <3>1. \E k : e = StepEdge(p, i, k)
      <4>1. CASE EffectiveOpcode(p, i) = "SkipCond"
        BY <1>1, <4>1, Zenon DEF Edges
      <4>2. CASE EffectiveOpcode(p, i) # "SkipCond"
        BY <1>1, <1>2, <2>5, <4>2, Zenon DEF Edges
      <4> QED
        BY <4>1, <4>2
    <3> QED
      BY <1>1, <2>1, <3>1 DEF StepEdge, ToWord
  <2> QED
    BY <2>3, <2>4, <2>5
<1>4. /\ e.index \in NextWords(p, i) /\ e.index \in Reachable(p)
      /\ e.index \in Indices(p)
  <2>1. e.index \in NextWords(p, i)
    BY <1>1, <1>3 DEF NextWords
  <2> QED
    BY <1>0, <2>1, AddressFacts, ReachableFacts
<1>5. arch'.pc = AddressAt(p, e.index)
  BY <1>1, <1>3 DEF LeadsTo
<1>6. arch'.pc \in Occupied(p) /\ IndexOf(p, arch'.pc) \in Reachable(p)
  BY <1>4, <1>5, AddressFacts
<1>7. ASSUME NEW j \in Reachable(p)
      PROVE  arch'.memory[AddressAt(p, j)] = p.words[j]
  <2>1. j \in CodeWords(p) /\ j \in Indices(p)
    BY CleanFacts
  <2> DEFINE a == AddressAt(p, j)
  <2>2. a \in Addr /\ a \in Occupied(p) /\ IndexOf(p, a) = j
    BY <2>1, AddressFacts
  <2>3. arch.memory[a] = p.words[j]
    BY DEF OnPath
  <2>4. ASSUME EffectiveOpcode(p, i) \in {"JnS", "Store"}, a = OperandAt(p, i)
        PROVE  FALSE
    <3>1. JnsOverwritesCode(p) = {} /\ SelfModifyingCode(p) = {}
      BY DEF Clean, Report
    <3> QED
      BY <1>0, <2>1, <2>2, <2>4, <3>1 DEF JnsOverwritesCode, SelfModifyingCode
  <2>5. arch'.memory[a] = arch.memory[a]
    <3> HIDE DEF a
    <3> QED
      BY <1>0, <1>2, <2>2, <2>4, ExecuteFollows DEF i
  <2> QED
    BY <2>3, <2>5
<1> QED
  BY <1>6, <1>7

\* Only the micro-operation of a Halt halts.
LEMMA OnlyHaltHalts ==
  ASSUME Next, outcome' = "Halted", outcome # "Halted"
  PROVE  Issues("Halt")
<1>1. CASE MicroStep
  <2>1. ASSUME NEW effect, NEW decoded, NEW comparison, Executed(effect, decoded, comparison)
        PROVE  FALSE
    <3>1. CASE \/ call.api = "micro_step"
               \/ call.api = "step" /\ AdvancedMicroPc(decoded) = 0
      BY <2>1, <3>1 DEF Executed, Returns
    <3>2. CASE ~ \/ call.api = "micro_step"
                 \/ call.api = "step" /\ AdvancedMicroPc(decoded) = 0
      BY <2>1, <3>2 DEF Executed
    <3> QED
      BY <3>1, <3>2
  <2>2. ~ \/ ExecuteRegisterWrite \/ ExecuteWriteMemory \/ ExecuteDecode
          \/ ExecuteCompare \/ ExecuteNoSkip \/ ExecuteReadInput \/ ExecuteWriteOutput
    BY <2>1
       DEF ExecuteRegisterWrite, ExecuteWriteMemory, ExecuteDecode, ExecuteCompare,
           ExecuteNoSkip, ExecuteReadInput, ExecuteWriteOutput
  <2>3. ~ \/ FaultInvalidOpcode \/ StallOnInput \/ FaultOnInput \/ FaultOnOutput
    BY DEF FaultInvalidOpcode, StallOnInput, FaultOnInput, FaultOnOutput, Stopped, Returns
  <2> QED
    BY <1>1, <2>2, <2>3 DEF MicroStep, ExecuteHalt
<1>2. CASE SuspendRun
  BY <1>2 DEF SuspendRun, Returns
<1>3. CASE MicroStepBack
  <2>1. Undone => FALSE
    <3>1. CASE call.api = "micro_step_back" \/ control'.micro_pc = 0
      BY <3>1 DEF Undone, Returns
    <3>2. CASE ~(call.api = "micro_step_back" \/ control'.micro_pc = 0)
      BY <3>2 DEF Undone
    <3> QED
      BY <3>1, <3>2
  <2> QED
    BY <1>3, <2>1
       DEF MicroStepBack, UndoNothing, UndoRegister, UndoMemory, UndoInput, UndoOutput,
           RefuseNoHistory, RefuseInput, RefuseOutput, Refused, Returns
<1>4. CASE Calls
  BY <1>4
     DEF Calls, CallRun, CallRunBounded, CallStep, CallMicroStep, CallStepBack,
         CallMicroStepBack, Begin
<1>5. CASE Host
  BY <1>5
     DEF Host, Boot, Debug, Pause, Resume, Transition, FlashProgram, FlashMemory,
         LoadProgram, Reset, ResetWithProgram, RewindTo, SetHistoryLimit, ClearHistory,
         SetBreakpoints, PokeRegister, PokeMemory, FeedInput
<1> QED
  BY <1>1, <1>2, <1>3, <1>4, <1>5 DEF Next, Turn

\* A halt is at a Halt.
LEMMA HaltsAtHalt ==
  ASSUME IInv, ArchInv, Issues("Halt")
  PROVE  Op = "Halt"
<1>1. CurrentOp.op = "Halt"
  BY DEF Issues
<1>2. CASE control.micro_pc < 5
  <2>1. control.micro_pc + 1 \in 1 .. 5
        /\ CurrentOp = FetchDecode[control.micro_pc + 1]
    BY <1>2, RegisterFacts, FetchFacts DEF CurrentOp
  <2> QED
    BY <1>1, <2>1 DEF FetchDecode, Transfer, Plain, ReadMemory, IncrementPc
<1>3. CASE control.micro_pc >= 5
  BY <1>1, <1>3, AtOperation, ExecuteFacts DEF ArchInv
<1> QED
  BY <1>2, <1>3, RegisterFacts

\* A boundary that moves without a reset is an instruction executed.
LEMMA BoundaryMoves ==
  ASSUME ForwardOnly, IInv, ArchInv, [ArchNext]_<< vars, arch >>, arch' # arch,
         state' # "Ready"
  PROVE  ISA!Execute
<1>1. ArchType /\ ArchType' /\ [ISA!Next]_(ISA!ivars)
  BY ArchStepImplements DEF ArchInv
<1>2. ASSUME UNCHANGED << arch.ac, arch.pc, arch.memory, arch.consumed, arch.outputs >>
      PROVE  FALSE
  BY <1>1, <1>2 DEF ArchType
<1>3. ~UNCHANGED ISA!ivars /\ ~ISA!Terminate /\ ~ISA!Control /\ ~ISA!Program
  BY <1>2 DEF ISA!ivars, ISA!Terminate, ISA!Control, ISA!Program
<1> QED
  BY <1>1, <1>3 DEF ISA!Next

\* The machine of a linted program is the machine.
LEMMA LintedIsArch ==
  ASSUME [LintedNext]_<< vars, arch, listing, report >>
  PROVE  [ArchNext]_<< vars, arch >>
BY DEF LintedNext

\* A program that the linter is sure of keeps on its path.
LEMMA LintedStep ==
  ASSUME ForwardOnly, IInv, ArchInv, LintedInv,
         [LintedNext]_<< vars, arch, listing, report >>
  PROVE  LintedInv'
<1>0. [ArchNext]_<< vars, arch >>
  BY LintedIsArch
<1>1. CASE state' = "Ready" /\ arch' # arch
  <2>1. listing' = NoListing /\ report' = Report(NoListing)
    BY <1>1 DEF LintedNext
  <2>2. Written(listing') /\ report' = Report(listing')
    BY <2>1, NoListingWritten
  <2>3. listing'.words = << >>
    BY <2>1 DEF NoListing, Listing
  <2> QED
    BY <2>2, <2>3 DEF LintedInv, Clean
<1>2. CASE ~(state' = "Ready" /\ arch' # arch)
  <2>1. listing' = listing /\ report' = report
    BY <1>2 DEF LintedNext
  <2>2. Written(listing') /\ report' = Report(listing')
    BY <2>1 DEF LintedInv
  <2>3. ASSUME Clean
        PROVE  OnPath'
    <3>0. Written(listing) /\ report = Report(listing) /\ OnPath /\ ArchType
      BY <2>3 DEF LintedInv, ArchInv
    <3>1. ASSUME outcome' = "Halted", outcome # "Halted"
          PROVE  Op = "Halt"
      <4>1. Next
        BY <1>0, <3>1 DEF ArchNext, vars
      <4> QED
        BY <3>1, <4>1, OnlyHaltHalts, HaltsAtHalt
    <3>2. CASE arch' = arch
      <4>1. ASSUME report.endless, outcome' = "Halted"
            PROVE  FALSE
        <5>1. Op = "Halt"
          BY <3>0, <3>1, <4>1 DEF OnPath
        <5> DEFINE i == IndexOf(listing, arch.pc)
        <5>2. i \in Indices(listing) /\ EffectiveOpcode(listing, i) = "Halt"
          BY <2>3, <3>0, <5>1, CleanFacts, DecodesWritten
        <5>3. listing.mnemonics[i] = "Halt"
          BY <5>2 DEF EffectiveOpcode
        <5> HIDE DEF i
        <5>4. MissingHalt(listing) = {}
          BY <5>2, <5>3 DEF MissingHalt
        <5> QED
          BY <3>0, <4>1, <5>4 DEF Report
      <4> QED
        BY <2>1, <3>0, <3>2, <4>1 DEF OnPath
    <3>3. CASE arch' # arch
      <4>1. ISA!Execute
        BY <1>0, <1>2, <3>3, BoundaryMoves
      <4>2. /\ arch'.pc \in Occupied(listing)
            /\ IndexOf(listing, arch'.pc) \in Reachable(listing)
            /\ \A j \in Reachable(listing) :
                 arch'.memory[AddressAt(listing, j)] = listing.words[j]
        BY <2>3, <3>0, <4>1, CleanStep
      <4>3. Op # "Halt"
        BY <4>1, OpcodeNames DEF ISA!Execute, ISA!Is, Op
      <4>4. report.endless => outcome' # "Halted"
        BY <3>0, <3>1, <4>3 DEF OnPath
      <4> QED
        BY <2>1, <4>2, <4>4 DEF OnPath
    <3> QED
      BY <3>2, <3>3
  <2> QED
    BY <2>1, <2>2, <2>3 DEF LintedInv, Clean
<1> QED
  BY <1>1, <1>2

\* A program begins on its path.
LEMMA LintedBegins ==
  ASSUME LintedInit
  PROVE  IInv /\ ArchInv /\ ISA!Init /\ LintedInv
<1>1. Written(listing)
  BY ListingsAssumption DEF LintedInit, Written
<1>2. Contents(listing) \in [Addr -> Word] /\ listing.origin \in Addr
  BY <1>1, AddressFacts, WordFacts DEF Contents, Written
<1>3. IInv /\ ArchInv /\ ISA!Init
  BY <1>2, ArchBegins DEF LintedInit
<1>4. /\ outcome # "Halted" /\ memory = Contents(listing)
      /\ registers["Pc"] = listing.origin
  BY DEF LintedInit, InitWith, ZeroRegisters, Register
<1>5. arch.memory = Contents(listing) /\ arch.pc = listing.origin
  BY <1>4 DEF LintedInit, View
<1>6. ASSUME Clean
      PROVE  OnPath
  <2>1. Len(listing.words) > 0
    BY <1>1, <1>6 DEF Written, Clean
  <2>2. /\ 1 \in Reachable(listing) /\ 1 \in Indices(listing)
        /\ Reachable(listing) \subseteq Indices(listing)
    <3>1. 1 \in Indices(listing)
      BY <1>1, <2>1, AddressFacts DEF Indices
    <3> QED
      BY <1>1, <2>1, <3>1, AddressFacts, ReachableFacts
  <2>3. AddressAt(listing, 1) = listing.origin
    BY <1>1, <2>2, AddressFacts
  <2>4. arch.pc \in Occupied(listing) /\ IndexOf(listing, arch.pc) = 1
    BY <1>1, <1>5, <2>2, <2>3, AddressFacts
  <2>5. ASSUME NEW j \in Indices(listing)
        PROVE  arch.memory[AddressAt(listing, j)] = listing.words[j]
    BY <1>1, <1>5, AddressFacts DEF Contents
  <2> QED
    BY <1>4, <2>2, <2>4, <2>5 DEF OnPath
<1> QED
  BY <1>1, <1>3, <1>6 DEF LintedInit, LintedInv

\* The invariants of the machine, of its instruction set and of its program.
LEMMA LintedInvariant ==
  ASSUME ForwardOnly
  PROVE  LintedSpec => [](IInv /\ ArchInv /\ LintedInv)
<1>1. LintedInit => IInv /\ ArchInv /\ LintedInv
  BY LintedBegins
<1>2. IInv /\ ArchInv /\ LintedInv /\ [LintedNext]_<< vars, arch, listing, report >>
        => IInv' /\ ArchInv' /\ LintedInv'
  <2>1. [ArchNext]_<< vars, arch >> => [Next]_vars
    BY DEF ArchNext
  <2> QED
    BY <2>1, LintedIsArch, NextType, ArchStepImplements, LintedStep
<1> QED
  BY <1>1, <1>2, PTL DEF LintedSpec

\* ImplementsISA again, of the machine that runs a linted program.
THEOREM LintedRunsImplementISA ==
  ASSUME ForwardOnly
  PROVE  LintedSpec => ImplementsISA
<1>1. LintedInit => ISA!Init
  BY LintedBegins
<1>2. IInv /\ ArchInv /\ LintedInv /\ [LintedNext]_<< vars, arch, listing, report >>
        => [ISA!Next]_(ISA!ivars)
  BY LintedIsArch, ArchStepImplements
<1> QED
  BY <1>1, <1>2, LintedInvariant, PTL DEF LintedSpec, ImplementsISA, ISA!Spec

\* ExecutionFollowsEdges: whatever program was written, every instruction of it
\* that completes goes where cfg::edges has an edge for it.
THEOREM RunsFollowEdges ==
  ASSUME ForwardOnly
  PROVE  LintedSpec => ExecutionFollowsEdges
<1> DEFINE Follows ==
      arch' # arch /\ AtWrittenCode /\ listing' = listing =>
        \E e \in Edges(listing, IndexOf(listing, arch.pc)) : LeadsTo(e, arch'.pc)
<1>1. ASSUME IInv, ArchInv, LintedInv, [LintedNext]_<< vars, arch, listing, report >>,
             arch' # arch, AtWrittenCode, listing' = listing
      PROVE  \E e \in Edges(listing, IndexOf(listing, arch.pc)) : LeadsTo(e, arch'.pc)
  <2>1. listing # NoListing
    <3>1. Indices(NoListing) = {}
      BY DEF NoListing, Listing, Indices
    <3> QED
      BY <1>1, <3>1 DEF AtWrittenCode, Occupied
  <2>2. state' # "Ready"
    BY <1>1, <2>1 DEF LintedNext
  <2>3. ISA!Execute
    BY <1>1, <2>2, LintedIsArch, BoundaryMoves
  <2> QED
    BY <1>1, <2>3, ExecuteFollows DEF ArchInv, LintedInv
<1>2. IInv /\ ArchInv /\ LintedInv /\ [LintedNext]_<< vars, arch, listing, report >>
        => [Follows]_<< vars, arch, listing, report >>
  BY <1>1
<1> QED
  BY <1>2, LintedInvariant, PTL DEF LintedSpec, ExecutionFollowsEdges

\* CleanProgramStaysInCode: for every program in which the linter finds its
\* graph exact, no path out of the code and no write into code, and however
\* long it runs.
THEOREM CleanProgramsStayInCode ==
  ASSUME ForwardOnly
  PROVE  LintedSpec => []CleanProgramStaysInCode
<1>1. LintedInv => CleanProgramStaysInCode
  <2> SUFFICES ASSUME LintedInv, Clean
               PROVE  /\ AtWrittenCode
                      /\ IndexOf(listing, arch.pc) \notin report.dead
                      /\ report.endless => outcome # "Halted"
    BY DEF CleanProgramStaysInCode, Clean
  <2>1. Written(listing) /\ report = Report(listing) /\ OnPath
    BY DEF LintedInv
  <2> QED
    BY <2>1, CleanFacts DEF OnPath
<1> QED
  BY <1>1, LintedInvariant, PTL
=============================================================================
