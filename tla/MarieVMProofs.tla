----------------------------- MODULE MarieVMProofs -----------------------------
(***************************************************************************)
(* Proofs about the machine of MarieVM, for every memory size and every    *)
(* choice of what its host may do.                                         *)
(***************************************************************************)
EXTENDS MarieVM, SequenceTheorems, TLAPS

-----------------------------------------------------------------------------
(* Words.                                                                  *)

\* The sets of words and addresses are not empty, and an address is a word.
LEMMA WordFacts ==
  /\ MemoryWords \in Nat /\ MemoryWords > 0
  /\ WordCount \in Nat /\ WordCount > 0
  /\ Addr \subseteq Word /\ Word \subseteq Nat
  /\ 0 \in Addr
BY MemoryWordsAssumption DEF Addr, Word, WordCount

\* A remainder is below its modulus.
LEMMA ModRange == \A x \in Int, n \in Nat : n > 0 => x % n \in 0 .. n - 1
OBVIOUS

\* A quotient of naturals is a natural.
LEMMA DivRange == \A x, n \in Nat : n > 0 => x \div n \in Nat
OBVIOUS

\* Masking leaves an address, whatever is masked.
LEMMA MaskedType == \A x \in Int : Masked(x) \in Addr
BY ModRange, WordFacts DEF Masked, Addr

\* The address after an address is an address: the last wraps to the first.
LEMMA NextAddrType == \A a \in Addr : NextAddr(a) \in Addr
BY ModRange, WordFacts DEF NextAddr, Addr

\* The ALU wraps: whatever it is given, its result is a word.
LEMMA AluType ==
  \A x, y \in Word : /\ AluAdd(x, y) \in Word
                    /\ AluSub(x, y) \in Word
                    /\ LoadImmediate(x) \in Word
<1> TAKE x, y \in Word
<1>1. x \in Int /\ y \in Int
  BY WordFacts
<1>2. LoadImmediate(x) \in Word
  BY <1>1, MaskedType, WordFacts DEF LoadImmediate
<1>3. (x + y) % WordCount \in Word /\ (x - y) % WordCount \in Word
  BY <1>1, ModRange, WordFacts DEF Word
<1> QED
  BY <1>2, <1>3 DEF AluAdd, AluSub

-----------------------------------------------------------------------------
(* Decoding.                                                               *)

\* The opcodes, by name.
LEMMA OpcodeNames ==
  Opcode = { "JnS", "Load", "Store", "Add", "Subt", "Input", "Output", "Halt",
             "SkipCond", "Jump", "LoadImmi", "AddI", "JumpI", "LoadI",
             "StoreI" }
BY DEF Opcode, OpcodeOrder

\* The latch before the first Decode is no instruction.
LEMMA NoInstructionIsNone == NoInstruction \notin Instruction
BY OpcodeNames DEF NoInstruction, Instruction

\* Every word decodes to an instruction or to none.
LEMMA DecodeType ==
  \A w \in Word : Decode(w) \in Instruction \cup {NoInstruction}
<1> TAKE w \in Word
<1> DEFINE nibble == w \div MemoryWords
<1>1. nibble \in Nat
  BY DivRange, WordFacts
<1>2. Masked(w) \in Addr
  BY MaskedType, WordFacts
<1>3. CASE nibble < 15
  <2>1. nibble + 1 \in 1 .. 15
    BY <1>1, <1>3
  <2>2. OpcodeOrder[nibble + 1] \in Opcode
    BY <2>1 DEF Opcode
  <2> QED
    BY <1>2, <1>3, <2>2 DEF Decode, Instruction
<1> QED
  BY <1>3 DEF Decode

-----------------------------------------------------------------------------
(* Micro-programs.                                                         *)

\* The micro-operations the micro-programs are written with.
LEMMA MicroOps ==
  /\ \A t, s \in Register : Transfer(t, s) \in MicroOp
  /\ \A n \in PlainNames : Plain(n) \in MicroOp
  /\ ReadMemory \in MicroOp /\ WriteMemory \in MicroOp
  /\ IncrementPc \in MicroOp
BY DEF MicroOp, ReadMemory, WriteMemory, IncrementPc, PlainNames

\* The name of an operation tells it apart from the others.
LEMMA MicroOpNames ==
  ASSUME NEW m \in MicroOp
  PROVE  \/ m.op = "Transfer" /\ m.target \in Register /\ m.source \in Register
         \/ m.op \in PlainNames
BY DEF MicroOp, Transfer, Plain, PlainNames

\* The fetch phase is five operations long and ends in the only Decode.
LEMMA FetchFacts ==
  /\ Len(FetchDecode) = 5
  /\ \A i \in 1 .. 5 :
       /\ FetchDecode[i] \in MicroOp
       /\ FetchDecode[i].op # "Compare"
       /\ FetchDecode[i].op = "Decode" <=> i = 5
<1>1. \A i \in 1 .. 5 : FetchDecode[i] \in MicroOp
  BY MicroOps DEF FetchDecode, Register, PlainNames
<1> QED
  BY <1>1 DEF FetchDecode, Transfer, Plain, ReadMemory, IncrementPc

\* An execute phase is one to five operations long, decodes nothing, and
\* compares only for a Skipcond.
LEMMA ExecuteFacts ==
  ASSUME NEW opcode \in Opcode
  PROVE  /\ Len(Execute(opcode)) \in 1 .. 5
         /\ \A i \in 1 .. Len(Execute(opcode)) :
              /\ Execute(opcode)[i] \in MicroOp
              /\ Execute(opcode)[i].op # "Decode"
              /\ Execute(opcode)[i].op = "Compare" => opcode = "SkipCond"
              /\ Execute(opcode)[i].op = "ReadInput" => opcode = "Input" /\ i = 1
              /\ Execute(opcode)[i].op = "WriteOutput" => opcode = "Output"
              /\ Execute(opcode)[i].op = "Halt" => opcode = "Halt"
<1> DEFINE ops == Execute(opcode)
           Typed == /\ Len(ops) \in 1 .. 5
                    /\ \A i \in 1 .. Len(ops) : ops[i] \in MicroOp
           Named == \A i \in 1 .. Len(ops) :
                      /\ ops[i].op # "Decode"
                      /\ ops[i].op = "Compare" => opcode = "SkipCond"
                      /\ ops[i].op = "ReadInput" => opcode = "Input" /\ i = 1
                      /\ ops[i].op = "WriteOutput" => opcode = "Output"
                      /\ ops[i].op = "Halt" => opcode = "Halt"
<1> SUFFICES Typed /\ Named
  OBVIOUS
<1>1. CASE opcode = "JnS"
  <2>1. ops = << Transfer("Mar", "Ir"), Transfer("Mbr", "Pc"),
               WriteMemory, Transfer("Pc", "Mar"), IncrementPc >>
    BY <1>1, Zenon DEF Execute
  <2>2. Typed
    BY <2>1, MicroOps DEF Register, PlainNames
  <2>3. Named
    BY <1>1, <2>1, SMTT(30)
       DEF Transfer, Plain, ReadMemory, WriteMemory, IncrementPc
  <2> QED
    BY <2>2, <2>3
<1>2. CASE opcode = "Load"
  <2>1. ops = << Transfer("Mar", "Ir"), ReadMemory, Transfer("Ac",
               "Mbr") >>
    BY <1>2, Zenon DEF Execute
  <2>2. Typed
    BY <2>1, MicroOps DEF Register, PlainNames
  <2>3. Named
    BY <1>2, <2>1, SMTT(30)
       DEF Transfer, Plain, ReadMemory, WriteMemory, IncrementPc
  <2> QED
    BY <2>2, <2>3
<1>3. CASE opcode = "Store"
  <2>1. ops = << Transfer("Mar", "Ir"), Transfer("Mbr", "Ac"),
               WriteMemory >>
    BY <1>3, Zenon DEF Execute
  <2>2. Typed
    BY <2>1, MicroOps DEF Register, PlainNames
  <2>3. Named
    BY <1>3, <2>1, SMTT(30)
       DEF Transfer, Plain, ReadMemory, WriteMemory, IncrementPc
  <2> QED
    BY <2>2, <2>3
<1>4. CASE opcode = "Add"
  <2>1. ops = << Transfer("Mar", "Ir"), ReadMemory, Plain("Add") >>
    BY <1>4, Zenon DEF Execute
  <2>2. Typed
    BY <2>1, MicroOps DEF Register, PlainNames
  <2>3. Named
    BY <1>4, <2>1, SMTT(30)
       DEF Transfer, Plain, ReadMemory, WriteMemory, IncrementPc
  <2> QED
    BY <2>2, <2>3
<1>5. CASE opcode = "Subt"
  <2>1. ops = << Transfer("Mar", "Ir"), ReadMemory, Plain("Subtract")
               >>
    BY <1>5, Zenon DEF Execute
  <2>2. Typed
    BY <2>1, MicroOps DEF Register, PlainNames
  <2>3. Named
    BY <1>5, <2>1, SMTT(30)
       DEF Transfer, Plain, ReadMemory, WriteMemory, IncrementPc
  <2> QED
    BY <2>2, <2>3
<1>6. CASE opcode = "Input"
  <2>1. ops = << Plain("ReadInput"), Transfer("Ac", "In") >>
    BY <1>6, Zenon DEF Execute
  <2>2. Typed
    BY <2>1, MicroOps DEF Register, PlainNames
  <2>3. Named
    BY <1>6, <2>1, SMTT(30)
       DEF Transfer, Plain, ReadMemory, WriteMemory, IncrementPc
  <2> QED
    BY <2>2, <2>3
<1>7. CASE opcode = "Output"
  <2>1. ops = << Transfer("Out", "Ac"), Plain("WriteOutput") >>
    BY <1>7, Zenon DEF Execute
  <2>2. Typed
    BY <2>1, MicroOps DEF Register, PlainNames
  <2>3. Named
    BY <1>7, <2>1, SMTT(30)
       DEF Transfer, Plain, ReadMemory, WriteMemory, IncrementPc
  <2> QED
    BY <2>2, <2>3
<1>8. CASE opcode = "Halt"
  <2>1. ops = << Plain("Halt") >>
    BY <1>8, Zenon DEF Execute
  <2>2. Typed
    BY <2>1, MicroOps DEF Register, PlainNames
  <2>3. Named
    BY <1>8, <2>1, SMTT(30)
       DEF Transfer, Plain, ReadMemory, WriteMemory, IncrementPc
  <2> QED
    BY <2>2, <2>3
<1>9. CASE opcode = "SkipCond"
  <2>1. ops = << Plain("Compare"), Plain("SkipIfComparison") >>
    BY <1>9, Zenon DEF Execute
  <2>2. Typed
    BY <2>1, MicroOps DEF Register, PlainNames
  <2>3. Named
    BY <1>9, <2>1, SMTT(30)
       DEF Transfer, Plain, ReadMemory, WriteMemory, IncrementPc
  <2> QED
    BY <2>2, <2>3
<1>10. CASE opcode = "Jump"
  <2>1. ops = << Transfer("Pc", "Ir") >>
    BY <1>10, Zenon DEF Execute
  <2>2. Typed
    BY <2>1, MicroOps DEF Register, PlainNames
  <2>3. Named
    BY <1>10, <2>1, SMTT(30)
       DEF Transfer, Plain, ReadMemory, WriteMemory, IncrementPc
  <2> QED
    BY <2>2, <2>3
<1>11. CASE opcode = "LoadImmi"
  <2>1. ops = << Plain("LoadImmediate") >>
    BY <1>11, Zenon DEF Execute
  <2>2. Typed
    BY <2>1, MicroOps DEF Register, PlainNames
  <2>3. Named
    BY <1>11, <2>1, SMTT(30)
       DEF Transfer, Plain, ReadMemory, WriteMemory, IncrementPc
  <2> QED
    BY <2>2, <2>3
<1>12. CASE opcode = "AddI"
  <2>1. ops = << Transfer("Mar", "Ir"), ReadMemory, Transfer("Mar",
               "Mbr"), ReadMemory, Plain("Add") >>
    BY <1>12, Zenon DEF Execute
  <2>2. Typed
    BY <2>1, MicroOps DEF Register, PlainNames
  <2>3. Named
    BY <1>12, <2>1, SMTT(30)
       DEF Transfer, Plain, ReadMemory, WriteMemory, IncrementPc
  <2> QED
    BY <2>2, <2>3
<1>13. CASE opcode = "JumpI"
  <2>1. ops = << Transfer("Mar", "Ir"), ReadMemory, Transfer("Pc",
               "Mbr") >>
    BY <1>13, Zenon DEF Execute
  <2>2. Typed
    BY <2>1, MicroOps DEF Register, PlainNames
  <2>3. Named
    BY <1>13, <2>1, SMTT(30)
       DEF Transfer, Plain, ReadMemory, WriteMemory, IncrementPc
  <2> QED
    BY <2>2, <2>3
<1>14. CASE opcode = "LoadI"
  <2>1. ops = << Transfer("Mar", "Ir"), ReadMemory, Transfer("Mar",
               "Mbr"), ReadMemory, Transfer("Ac", "Mbr") >>
    BY <1>14, Zenon DEF Execute
  <2>2. Typed
    BY <2>1, MicroOps DEF Register, PlainNames
  <2>3. Named
    BY <1>14, <2>1, SMTT(30)
       DEF Transfer, Plain, ReadMemory, WriteMemory, IncrementPc
  <2> QED
    BY <2>2, <2>3
<1>15. CASE opcode = "StoreI"
  <2>1. ops = << Transfer("Mar", "Ir"), ReadMemory, Transfer("Mar",
               "Mbr"), Transfer("Mbr", "Ac"), WriteMemory >>
    BY <1>15, Zenon DEF Execute
  <2>2. Typed
    BY <2>1, MicroOps DEF Register, PlainNames
  <2>3. Named
    BY <1>15, <2>1, SMTT(30)
       DEF Transfer, Plain, ReadMemory, WriteMemory, IncrementPc
  <2> QED
    BY <2>2, <2>3
<1> QED
  BY <1>1, <1>2, <1>3, <1>4, <1>5, <1>6, <1>7, <1>8, <1>9, <1>10, <1>11,
     <1>12, <1>13, <1>14, <1>15, OpcodeNames

\* The micro-program of each instruction.
LEMMA ExecutePrograms ==
  /\ Execute("JnS") = << Transfer("Mar", "Ir"), Transfer("Mbr", "Pc"), WriteMemory,
                         Transfer("Pc", "Mar"), IncrementPc >>
  /\ Execute("Load") = << Transfer("Mar", "Ir"), ReadMemory, Transfer("Ac", "Mbr") >>
  /\ Execute("Store") = << Transfer("Mar", "Ir"), Transfer("Mbr", "Ac"), WriteMemory >>
  /\ Execute("Add") = << Transfer("Mar", "Ir"), ReadMemory, Plain("Add") >>
  /\ Execute("Subt") = << Transfer("Mar", "Ir"), ReadMemory, Plain("Subtract") >>
  /\ Execute("Input") = << Plain("ReadInput"), Transfer("Ac", "In") >>
  /\ Execute("Output") = << Transfer("Out", "Ac"), Plain("WriteOutput") >>
  /\ Execute("Halt") = << Plain("Halt") >>
  /\ Execute("SkipCond") = << Plain("Compare"), Plain("SkipIfComparison") >>
  /\ Execute("Jump") = << Transfer("Pc", "Ir") >>
  /\ Execute("LoadImmi") = << Plain("LoadImmediate") >>
  /\ Execute("AddI") = << Transfer("Mar", "Ir"), ReadMemory, Transfer("Mar", "Mbr"),
                          ReadMemory, Plain("Add") >>
  /\ Execute("JumpI") = << Transfer("Mar", "Ir"), ReadMemory, Transfer("Pc", "Mbr") >>
  /\ Execute("LoadI") = << Transfer("Mar", "Ir"), ReadMemory, Transfer("Mar", "Mbr"),
                           ReadMemory, Transfer("Ac", "Mbr") >>
  /\ Execute("StoreI") = << Transfer("Mar", "Ir"), ReadMemory, Transfer("Mar", "Mbr"),
                            Transfer("Mbr", "Ac"), WriteMemory >>
BY Zenon DEF Execute

-----------------------------------------------------------------------------
(* The inductive invariant.                                                *)

\* The micro-program counter points at an operation of the cycle.
InCycle(c) ==
  \/ c.micro_pc < Len(FetchDecode)
  \/ /\ c.decoded # NoInstruction
     /\ c.micro_pc < CycleLength(c.decoded.opcode)

\* Not only the control state but every one that can be restored is so.
IInv ==
  /\ TypeOK
  /\ InCycle(control)
  /\ \A i \in 1 .. Len(entries) : InCycle(entries[i].control)

-----------------------------------------------------------------------------
(* Sequences, indexed from their end.                                      *)

\* What is left when the last element of a sequence is popped.
LEMMA FrontFacts ==
  ASSUME NEW S, NEW s \in Seq(S)
  PROVE  /\ Front(s) \in Seq(S)
         /\ s # << >> => Len(s) \in Nat /\ Len(s) >= 1 /\ Len(Front(s)) = Len(s) - 1
         /\ s = << >> => Len(s) = 0 /\ Front(s) = << >>
         /\ \A i \in 1 .. Len(Front(s)) : Front(s)[i] = s[i]
<1>1. Len(s) \in Nat /\ \A i \in 1 .. Len(s) : s[i] \in S
  OBVIOUS
<1>2. /\ Front(s) \in Seq(S)
      /\ Len(Front(s)) = IF 1 <= Len(s) - 1 THEN Len(s) - 1 ELSE 0
      /\ \A i \in 1 .. Len(s) - 1 : Front(s)[i] = s[i]
  BY <1>1, SubSeqProperties DEF Front
<1>3. CASE s = << >>
  <2>1. Front(s) = << >>
    BY <1>3, SubSeqEmpty DEF Front
  <2> QED
    BY <1>2, <1>3, <2>1
<1>4. CASE s # << >>
  <2>1. Len(s) \in Nat /\ Len(s) >= 1
    BY <1>1, <1>4, EmptySeq
  <2>2. Len(Front(s)) = Len(s) - 1
    <3>1. \A n \in Nat :
            n >= 1 => (IF 1 <= n - 1 THEN n - 1 ELSE 0) = n - 1
      OBVIOUS
    <3> QED
      BY <1>2, <2>1, <3>1
  <2>3. \A i \in 1 .. Len(Front(s)) : Front(s)[i] = s[i]
    BY <1>2, <2>2
  <2> QED
    BY <1>2, <1>4, <2>1, <2>2, <2>3
<1> QED
  BY <1>3, <1>4

\* Popping what was just pushed gives the sequence back.
LEMMA FrontOfAppend ==
  ASSUME NEW S, NEW s \in Seq(S), NEW e \in S
  PROVE  Front(Append(s, e)) = s /\ Last(Append(s, e)) = e
<1> DEFINE t == Append(s, e)
<1>1. /\ t \in Seq(S) /\ t # << >> /\ Len(t) = Len(s) + 1
      /\ Len(s) \in Nat
      /\ \A i \in 1 .. Len(s) : t[i] = s[i]
      /\ t[Len(s) + 1] = e
  BY AppendProperties
<1> HIDE DEF t
<1>2. /\ Front(t) \in Seq(S)
      /\ Len(Front(t)) = Len(t) - 1
      /\ \A i \in 1 .. Len(Front(t)) : Front(t)[i] = t[i]
  BY <1>1, FrontFacts
<1>3. Len(Front(t)) = Len(s)
  BY <1>1, <1>2
<1>4. \A i \in 1 .. Len(s) : Front(t)[i] = s[i]
  BY <1>1, <1>2, <1>3
<1>5. Front(t) = s
  BY <1>2, <1>3, <1>4, SeqEqual
<1>6. Last(t) = e
  BY <1>1 DEF Last
<1> QED
  BY <1>5, <1>6 DEF t

\* Every element has a distance from the end.
LEMMA FromEnd ==
  ASSUME NEW S, NEW s \in Seq(S), NEW i \in 1 .. Len(s)
  PROVE  \E k \in 0 .. Len(s) - 1 : i = Len(s) - k
<1>1. Len(s) \in Nat
  OBVIOUS
<1>2. Len(s) - i \in 0 .. Len(s) - 1 /\ i = Len(s) - (Len(s) - i)
  BY <1>1
<1> QED
  BY <1>2

\* Latest keeps at most n elements, and they are the newest ones: element
\* by element it agrees with the sequence, counted from the end.
LEMMA LatestFacts ==
  ASSUME NEW S, NEW s \in Seq(S), NEW n \in Nat
  PROVE  /\ Latest(s, n) \in Seq(S)
         /\ Len(Latest(s, n)) = IF Len(s) < n THEN Len(s) ELSE n
         /\ \A k \in 0 .. Len(Latest(s, n)) - 1 :
              Latest(s, n)[Len(Latest(s, n)) - k] = s[Len(s) - k]
<1> DEFINE m == IF Len(s) < n THEN Len(s) ELSE n
           first == Len(s) - m + 1
<1>0. Len(s) \in Nat
  OBVIOUS
<1>1. m \in 0 .. Len(s) /\ first \in 1 .. Len(s) + 1
  <2>1. CASE Len(s) < n
    BY <1>0, <2>1
  <2>2. CASE ~(Len(s) < n)
    BY <1>0, <2>2
  <2> QED
    BY <2>1, <2>2
<1>2. \A i \in first .. Len(s) : s[i] \in S
  BY <1>1, ElementOfSeq
<1>3. Latest(s, n) = SubSeq(s, first, Len(s))
  BY DEF Latest
<1>4. /\ Latest(s, n) \in Seq(S)
      /\ Len(Latest(s, n)) = IF first <= Len(s) THEN Len(s) - first + 1 ELSE 0
      /\ \A i \in 1 .. Len(s) - first + 1 : Latest(s, n)[i] = s[first + i - 1]
  <2> HIDE DEF first
  <2> QED
    BY <1>0, <1>1, <1>2, <1>3, SubSeqProperties
<1>5. Len(Latest(s, n)) = m
  BY <1>0, <1>1, <1>4
<1>6. ASSUME NEW k \in 0 .. m - 1
      PROVE  Latest(s, n)[m - k] = s[Len(s) - k]
  <2>1. m - k \in 1 .. Len(s) - first + 1
    BY <1>0, <1>1
  <2>2. first + (m - k) - 1 = Len(s) - k
    BY <1>0, <1>1
  <2> QED
    BY <1>4, <2>1, <2>2
<1> QED
  BY <1>4, <1>5, <1>6

\* History::record never exceeds the limit, puts the new entry last and
\* keeps the newest of the others in their order.
LEMMA RecordedFacts ==
  ASSUME NEW S, entries \in Seq(S), limit \in Nat, Len(entries) <= limit,
         NEW e \in S
  PROVE  /\ Recorded(e) \in Seq(S)
         /\ Len(Recorded(e)) <= limit
         /\ Len(Recorded(e)) <= Len(entries) + 1
         /\ \A k \in 0 .. Len(Recorded(e)) - 1 :
              Recorded(e)[Len(Recorded(e)) - k]
                = IF k = 0 THEN e ELSE entries[Len(entries) - k + 1]
<1>1. CASE limit = 0
  BY <1>1 DEF Recorded
<1>2. CASE limit # 0 /\ Len(entries) = limit
  <2>1. /\ Tail(entries) \in Seq(S)
        /\ Len(Tail(entries)) = Len(entries) - 1
        /\ \A i \in 1 .. Len(Tail(entries)) : Tail(entries)[i] = entries[i + 1]
    BY <1>2, HeadTailProperties, EmptySeq
  <2>2. Recorded(e) = Append(Tail(entries), e)
    BY <1>2 DEF Recorded
  <2> QED
    BY <1>2, <2>1, <2>2
<1>3. CASE limit # 0 /\ Len(entries) # limit
  <2>1. Recorded(e) = Append(entries, e)
    BY <1>3 DEF Recorded
  <2> QED
    BY <1>3, <2>1
<1> QED
  BY <1>1, <1>2, <1>3

-----------------------------------------------------------------------------
(* Registers.                                                              *)

\* A masked write keeps the 12-bit registers on the address lines.
LEMMA WriteType ==
  ASSUME NEW regs \in RegisterFile, NEW r \in Register, NEW bits \in Word
  PROVE  Write(regs, r, bits) \in RegisterFile
<1>1. Masked(bits) \in Addr
  BY MaskedType, WordFacts
<1>2. regs \in [Register -> Word] /\ regs["Pc"] \in Addr /\ regs["Mar"] \in Addr
  BY DEF RegisterFile
<1> QED
  BY <1>1, <1>2, WordFacts DEF Write, RegisterFile, Register

\* An address is what it is masked to, so writing back what a register held
\* is exact, whatever was written to it in between.
LEMMA MaskedAddr == \A a \in Addr : Masked(a) = a
BY WordFacts DEF Masked, Addr

\* Writing a register and then its old value back leaves the register file
\* as it was, the masked registers included.
LEMMA WriteRestores ==
  ASSUME NEW regs \in RegisterFile, NEW r \in Register, NEW bits \in Word
  PROVE  Write(Write(regs, r, bits), r, regs[r]) = regs
<1>1. regs \in [Register -> Word] /\ regs["Pc"] \in Addr /\ regs["Mar"] \in Addr
  BY DEF RegisterFile
<1>2. r \in {"Pc", "Mar"} => Masked(regs[r]) = regs[r]
  BY <1>1, MaskedAddr
<1> QED
  BY <1>1, <1>2 DEF Write

-----------------------------------------------------------------------------
(* The micro-program counter.                                              *)

\* A cycle is the five fetch operations and one to five execute operations.
LEMMA CycleLengthType ==
  \A opcode \in Opcode : /\ CycleLength(opcode) \in 6 .. 10
                         /\ CycleLength(opcode) = 5 + Len(Execute(opcode))
<1> TAKE opcode \in Opcode
<1>1. CycleLength(opcode) = 5 + Len(Execute(opcode))
  BY FetchFacts DEF CycleLength
<1>2. Len(Execute(opcode)) \in 1 .. 5
  BY ExecuteFacts
<1>3. \A n \in 1 .. 5 : 5 + n \in 6 .. 10
  OBVIOUS
<1> QED
  BY <1>1, <1>2, <1>3

\* In a cycle there is always an operation to execute; the Decode is the
\* last of the fetch phase, and a Compare belongs to a Skipcond.
LEMMA CurrentOpFacts ==
  ASSUME control \in Control, InCycle(control)
  PROVE  /\ HasMicroOp
         /\ CurrentOp \in MicroOp
         /\ CurrentOp.op = "Decode" <=> control.micro_pc = 4
         /\ control.micro_pc > 4 => control.decoded \in Instruction
         /\ CurrentOp.op = "Compare" =>
              control.micro_pc > 4 /\ control.decoded.opcode = "SkipCond"
<1>1. control.micro_pc \in 0 .. 9
  BY DEF Control
<1>2. HasMicroOp
  BY DEF InCycle, HasMicroOp
<1>3. CASE control.micro_pc < 5
  <2>1. control.micro_pc + 1 \in 1 .. 5
    BY <1>1, <1>3
  <2>2. CurrentOp = FetchDecode[control.micro_pc + 1]
    BY <1>3, FetchFacts DEF CurrentOp
  <2> QED
    BY <1>1, <1>2, <1>3, <2>1, <2>2, FetchFacts
<1>4. CASE control.micro_pc >= 5
  <2>1. /\ control.decoded \in Instruction
        /\ control.micro_pc < CycleLength(control.decoded.opcode)
    BY <1>1, <1>4, FetchFacts DEF InCycle, Control
  <2>2. control.decoded.opcode \in Opcode
    BY <2>1 DEF Instruction
  <2>3. control.micro_pc - 4 \in 1 .. Len(Execute(control.decoded.opcode))
    BY <1>1, <1>4, <2>1, <2>2, CycleLengthType, ExecuteFacts
  <2>4. CurrentOp = Execute(control.decoded.opcode)[control.micro_pc - 4]
    BY <1>1, <1>4, FetchFacts DEF CurrentOp
  <2> QED
    BY <1>1, <1>2, <1>4, <2>1, <2>2, <2>3, <2>4, ExecuteFacts
<1> QED
  BY <1>1, <1>3, <1>4

\* Advancing stays in the cycle of what has been decoded by then.
LEMMA AdvancedFacts ==
  ASSUME control \in Control, InCycle(control),
         NEW decoded \in Instruction \cup {NoInstruction},
         control.micro_pc = 4 => decoded \in Instruction,
         control.micro_pc > 4 => decoded = control.decoded
  PROVE  /\ AdvancedMicroPc(decoded) \in 0 .. 9
         /\ \A c : c.micro_pc = AdvancedMicroPc(decoded) /\ c.decoded = decoded
                     => InCycle(c)
<1> DEFINE next == control.micro_pc + 1
           length == IF decoded = NoInstruction THEN 5
                     ELSE CycleLength(decoded.opcode)
<1>1. control.micro_pc \in 0 .. 9
  BY DEF Control
<1>2. decoded # NoInstruction => CycleLength(decoded.opcode) \in 6 .. 10
  BY CycleLengthType DEF Instruction
<1>3. AdvancedMicroPc(decoded) = IF next >= length THEN 0 ELSE next
  BY FetchFacts DEF AdvancedMicroPc
<1>4. CASE next >= length
  BY <1>3, <1>4, FetchFacts DEF InCycle
<1>5. CASE next < length
  <2>1. AdvancedMicroPc(decoded) = next
    BY <1>1, <1>2, <1>3, <1>5
  <2>2. next \in 1 .. 9
    BY <1>1, <1>2, <1>5
  <2>3. decoded = NoInstruction => next < 5
    BY <1>5
  <2> QED
    BY <1>2, <1>5, <2>1, <2>2, <2>3, FetchFacts DEF InCycle
<1> QED
  BY <1>1, <1>2, <1>4, <1>5

-----------------------------------------------------------------------------
(* Executing one micro-operation.                                          *)

\* Every bit pattern that a micro-operation writes to a register is a word.
LEMMA RegisterWriteType ==
  ASSUME TypeOK, InCycle(control), WritesRegister
  PROVE  /\ Target \in Register
         /\ Bits \in Word
<1>1. CurrentOp \in MicroOp
  BY CurrentOpFacts DEF TypeOK
<1>2. /\ registers \in [Register -> Word]
      /\ registers["Pc"] \in Addr /\ registers["Mar"] \in Addr
      /\ memory \in [Addr -> Word]
  BY DEF TypeOK, RegisterFile
<1>3. CASE CurrentOp.op = "Transfer"
  <2>1. CurrentOp.target \in Register /\ CurrentOp.source \in Register
    BY <1>1, <1>3, MicroOpNames DEF PlainNames
  <2>2. Target = CurrentOp.target /\ Bits = registers[CurrentOp.source]
    BY <1>3, Zenon DEF Target, Bits
  <2> QED
    BY <1>2, <2>1, <2>2
<1>4. CASE CurrentOp.op = "ReadMemory"
  <2>1. Target = "Mbr" /\ Bits = memory[registers["Mar"]]
    BY <1>4, Zenon DEF Target, Bits
  <2> QED
    BY <1>2, <2>1 DEF Register
<1>5. CASE CurrentOp.op \in {"IncrementPc", "SkipIfComparison"}
  <2>1. Target = "Pc" /\ Bits = NextAddr(registers["Pc"])
    BY <1>5, Zenon DEF Target, Bits
  <2> QED
    BY <1>2, <2>1, NextAddrType, WordFacts DEF Register
<1>6. CASE CurrentOp.op = "Add"
  <2>1. Target = "Ac" /\ Bits = AluAdd(registers["Ac"], registers["Mbr"])
    BY <1>6, Zenon DEF Target, Bits
  <2> QED
    BY <1>2, <2>1, AluType DEF Register
<1>7. CASE CurrentOp.op = "Subtract"
  <2>1. Target = "Ac" /\ Bits = AluSub(registers["Ac"], registers["Mbr"])
    BY <1>7, Zenon DEF Target, Bits
  <2> QED
    BY <1>2, <2>1, AluType DEF Register
<1>8. CASE CurrentOp.op = "LoadImmediate"
  <2>1. Target = "Ac" /\ Bits = LoadImmediate(registers["Ir"])
    BY <1>8, Zenon DEF Target, Bits
  <2> QED
    BY <1>2, <2>1, AluType DEF Register
<1> QED
  BY <1>3, <1>4, <1>5, <1>6, <1>7, <1>8 DEF WritesRegister

\* The parts of the invariant that Executed has a hand in.
Tracked ==
  /\ state \in {"Ready", "Running", "Stepping", "Terminated"}
  /\ control \in Control /\ InCycle(control)
  /\ entries \in Seq(Entry)
  /\ \A i \in 1 .. Len(entries) : InCycle(entries[i].control)
  /\ limit \in Nat /\ Len(entries) <= limit
  /\ breakpoints \subseteq Addr
  /\ call \in Call
  /\ past \in Seq(Snapshot)

\* The rest of it.
Machine ==
  /\ registers \in RegisterFile
  /\ memory \in [Addr -> Word]
  /\ inputs \in Seq(Word) /\ outputs \in Seq(Word) /\ consumed \in Seq(Word)
  /\ canvas \in [DisplayAddr -> Word]

\* The parts of the inductive invariant, before and after a step.
LEMMA IInvParts ==
  /\ IInv <=> Tracked /\ Machine
  /\ IInv' <=> Tracked' /\ Machine'
BY DEF IInv, TypeOK, Tracked, Machine

\* The state an undo must restore is a snapshot.
LEMMA NowType ==
  ASSUME IInv
  PROVE  Now \in Snapshot
BY DEF IInv, TypeOK, Now, Snapshot

\* No call in progress is a legal value of `call`.
LEMMA NoCallType == NoCall \in Call
BY DEF NoCall, Call

\* Moving on in a call's loop leaves a legal call record.
LEMMA CallType ==
  ASSUME NEW c \in Call, NEW within \in BOOLEAN, NEW done \in Nat
  PROVE  [c EXCEPT !.within = within, !.done = done] \in Call
BY DEF Call

\* The Ok branch of micro_step: when what it is given has the right type,
\* it leaves the control state part-way through a cycle or at a boundary, and
\* a journal of well-formed entries within its limit.
LEMMA ExecutedTracked ==
  ASSUME IInv,
         NEW effect \in Effect,
         NEW decoded \in Instruction \cup {NoInstruction},
         NEW comparison \in BOOLEAN,
         control.micro_pc = 4 => decoded \in Instruction,
         control.micro_pc > 4 => decoded = control.decoded,
         Executed(effect, decoded, comparison)
  PROVE  Tracked'
<1> DEFINE entry == [control |-> control, micro_op |-> CurrentOp,
                     effect |-> effect]
           next == AdvancedMicroPc(decoded)
<1>0. /\ control \in Control /\ InCycle(control)
      /\ \A i \in 1 .. Len(entries) : InCycle(entries[i].control)
      /\ entries \in Seq(Entry) /\ limit \in Nat /\ Len(entries) <= limit
      /\ past \in Seq(Snapshot) /\ registers \in RegisterFile
      /\ call \in Call
  BY DEF IInv, TypeOK
<1>1. next \in 0 .. 9
  BY <1>0, AdvancedFacts
<1>2. control' = [micro_pc |-> next, instruction_address |-> CurrentAddress,
                  decoded |-> decoded, comparison |-> comparison]
  BY DEF Executed
<1>3. CurrentAddress \in Addr
  BY <1>0 DEF CurrentAddress, RegisterFile, Control
<1>4. control' \in Control
  BY <1>1, <1>2, <1>3 DEF Control
<1>5. InCycle(control')
  BY <1>0, <1>2, AdvancedFacts
<1>6. entry \in Entry
  BY <1>0, CurrentOpFacts DEF Entry
<1>7. entries' = Recorded(entry)
  BY DEF Executed
<1>8. /\ entries' \in Seq(Entry)
      /\ Len(entries') <= limit
      /\ \A k \in 0 .. Len(entries') - 1 :
           entries'[Len(entries') - k]
             = IF k = 0 THEN entry ELSE entries[Len(entries) - k + 1]
      /\ Len(entries') <= Len(entries) + 1
  BY <1>0, <1>6, <1>7, RecordedFacts
<1>9. \A i \in 1 .. Len(entries') : InCycle(entries'[i].control)
  <2> TAKE i \in 1 .. Len(entries')
  <2>1. Len(entries) \in Nat /\ Len(entries') \in Nat
    BY <1>0, <1>8
  <2>2. PICK k \in 0 .. Len(entries') - 1 : i = Len(entries') - k
    BY <1>8, FromEnd
  <2>3. CASE k = 0
    <3>1. entries'[i] = entry
      BY <1>8, <2>2, <2>3
    <3>2. entry.control = control
      OBVIOUS
    <3> QED
      BY <1>0, <3>1, <3>2
  <2>4. CASE k > 0
    <3>1. entries'[i] = entries[Len(entries) - k + 1]
      <4>1. entries'[Len(entries') - k]
              = IF k = 0 THEN entry ELSE entries[Len(entries) - k + 1]
        BY <1>8
      <4>2. k # 0
        BY <2>4
      <4> HIDE DEF entry
      <4> QED
        BY <4>1, <4>2, <2>2
    <3>2. Len(entries) - k + 1 \in 1 .. Len(entries)
      BY <1>8, <2>1, <2>2, <2>4
    <3> QED
      BY <1>0, <3>1, <3>2
  <2> QED
    BY <2>2, <2>3, <2>4
<1>10. past' \in Seq(Snapshot)
  <2>1. Append(past, Now) \in Seq(Snapshot)
    BY <1>0, NowType
  <2>2. past' = Latest(Append(past, Now), Len(entries'))
    BY DEF Executed
  <2>3. Len(entries') \in Nat
    BY <1>8
  <2> QED
    BY <2>1, <2>2, <2>3, LatestFacts
<1>11. call' \in Call
  <2> DEFINE done == IF call.api = "run" /\ next = 0 /\ call.done < DoneCap
                     THEN call.done + 1 ELSE call.done
             within == ~(next = 0)
  <2>1. done \in Nat
    BY <1>0 DEF Call
  <2>2. within \in BOOLEAN
    OBVIOUS
  <2>3. \/ call' = NoCall
        \/ call' = [call EXCEPT !.within = within, !.done = done]
    BY DEF Executed, Returns
  <2> HIDE DEF done, within
  <2> QED
    BY <1>0, <2>1, <2>2, <2>3, NoCallType, CallType
<1> QED
  BY <1>0, <1>4, <1>5, <1>8, <1>9, <1>10, <1>11 DEF IInv, TypeOK, Tracked, Executed

\* What each operation remembers for its undo is a well-formed effect.
LEMMA EffectType ==
  /\ NoEffect \in Effect
  /\ \A r \in Register, w \in Word :
       [kind |-> "Register", register |-> r, previous |-> w] \in Effect
  /\ \A a \in Addr, w \in Word :
       [kind |-> "Memory", address |-> a, previous |-> w] \in Effect
  /\ \A w, v \in Word :
       [kind |-> "InputRead", previous |-> w, value |-> v] \in Effect
  /\ \A v \in Word : [kind |-> "OutputWritten", value |-> v] \in Effect
BY DEF Effect

\* notify_display leaves a picture of words.
LEMMA PaintedType ==
  ASSUME canvas \in [DisplayAddr -> Word],
         NEW a \in Addr, NEW old \in Word, NEW new \in Word
  PROVE  Painted(a, old, new) \in [DisplayAddr -> Word]
BY DEF Painted

\* A step of micro_step keeps the inductive invariant.
LEMMA MicroStepType ==
  ASSUME IInv, MicroStep
  PROVE  IInv'
<1>1. /\ control \in Control /\ InCycle(control)
      /\ registers \in RegisterFile /\ registers \in [Register -> Word]
      /\ registers["Mar"] \in Addr
      /\ memory \in [Addr -> Word]
      /\ inputs \in Seq(Word) /\ outputs \in Seq(Word) /\ consumed \in Seq(Word)
      /\ canvas \in [DisplayAddr -> Word]
  BY DEF IInv, TypeOK, RegisterFile
<1>2. /\ control.decoded \in Instruction \cup {NoInstruction}
      /\ control.comparison \in BOOLEAN
  BY <1>1 DEF Control
<1>3. /\ CurrentOp.op = "Decode" <=> control.micro_pc = 4
      /\ control.micro_pc > 4 => control.decoded \in Instruction
  BY <1>1, CurrentOpFacts
<1>4. ASSUME NEW effect \in Effect, NEW comparison \in BOOLEAN,
             CurrentOp.op # "Decode",
             Executed(effect, control.decoded, comparison)
      PROVE  Tracked'
  BY <1>2, <1>3, <1>4, ExecutedTracked
<1>5. SUFFICES Tracked' /\ Machine'
  BY IInvParts
<1>6. CASE ExecuteRegisterWrite
  <2>1. Target \in Register /\ Bits \in Word
    BY <1>1, <1>6, RegisterWriteType DEF IInv, ExecuteRegisterWrite
  <2>2. RegisterEffect(Target) \in Effect
    BY <1>1, <2>1, EffectType DEF RegisterEffect
  <2>3. CurrentOp.op # "Decode"
    BY <1>6 DEF ExecuteRegisterWrite, WritesRegister
  <2>4. Tracked'
    BY <1>2, <1>4, <1>6, <2>2, <2>3 DEF ExecuteRegisterWrite
  <2>5. registers' \in RegisterFile
    BY <1>1, <1>6, <2>1, WriteType DEF ExecuteRegisterWrite
  <2> QED
    BY <1>1, <1>6, <2>4, <2>5 DEF ExecuteRegisterWrite, Machine, device
<1>7. CASE ExecuteWriteMemory
  <2>1. registers["Mbr"] \in Word /\ memory[registers["Mar"]] \in Word
    BY <1>1 DEF Register
  <2>2. Tracked'
    BY <1>1, <1>2, <1>4, <1>7, <2>1, EffectType
       DEF ExecuteWriteMemory, Issues
  <2>3. memory' \in [Addr -> Word]
    BY <1>1, <1>7, <2>1 DEF ExecuteWriteMemory
  <2>4. canvas' \in [DisplayAddr -> Word]
    BY <1>1, <1>7, <2>1, PaintedType DEF ExecuteWriteMemory
  <2> QED
    BY <1>1, <1>7, <2>2, <2>3, <2>4 DEF ExecuteWriteMemory, Machine
<1>8. CASE ExecuteDecode
  <2>1. registers["Ir"] \in Word
    BY <1>1 DEF Register
  <2>2. Decode(registers["Ir"]) \in Instruction
    BY <1>8, <2>1, DecodeType DEF ExecuteDecode
  <2>3. control.micro_pc = 4
    BY <1>3, <1>8 DEF ExecuteDecode, Issues
  <2>4. Tracked'
    BY <1>2, <1>8, <2>2, <2>3, EffectType, ExecutedTracked
       DEF ExecuteDecode
  <2> QED
    BY <1>1, <1>8, <2>4 DEF ExecuteDecode, Machine, device
<1>9. CASE ExecuteCompare
  <2> DEFINE holds == Holds(ConditionOf(control.decoded.operand),
                            registers["Ac"])
  <2>1. holds \in BOOLEAN
    BY DEF Holds
  <2>2. Tracked'
    <3> HIDE DEF holds
    <3> QED
      BY <1>4, <1>9, <2>1, EffectType DEF ExecuteCompare, Issues, holds
  <2> QED
    BY <1>1, <1>9, <2>2 DEF ExecuteCompare, Machine, device
<1>10. CASE ExecuteNoSkip
  <2>1. Tracked'
    BY <1>2, <1>4, <1>10, EffectType DEF ExecuteNoSkip, Issues
  <2> QED
    BY <1>1, <1>10, <2>1 DEF ExecuteNoSkip, Machine, device
<1>11. CASE ExecuteReadInput
  <2>1. Head(inputs) \in Word /\ Tail(inputs) \in Seq(Word)
    BY <1>1, <1>11 DEF ExecuteReadInput
  <2>2. Tracked'
    BY <1>1, <1>2, <1>4, <1>11, <2>1, EffectType
       DEF ExecuteReadInput, Issues, Register
  <2>3. registers' \in RegisterFile
    BY <1>1, <1>11, <2>1 DEF ExecuteReadInput, RegisterFile, Register
  <2> QED
    BY <1>1, <1>11, <2>1, <2>2, <2>3 DEF ExecuteReadInput, Machine
<1>12. CASE ExecuteWriteOutput
  <2>1. registers["Out"] \in Word
    BY <1>1 DEF Register
  <2>2. Tracked'
    BY <1>2, <1>4, <1>12, <2>1, EffectType DEF ExecuteWriteOutput, Issues
  <2> QED
    BY <1>1, <1>12, <2>1, <2>2 DEF ExecuteWriteOutput, Machine
<1>13. ASSUME NEW value, Stopped(value)
       PROVE  Tracked' /\ Machine'
  BY <1>13, NoCallType
     DEF IInv, TypeOK, Stopped, Returns, Tracked, Machine, core, journal,
         device, InCycle
<1>14. CASE \/ FaultInvalidOpcode \/ StallOnInput \/ FaultOnInput
            \/ FaultOnOutput \/ ExecuteHalt
  BY <1>13, <1>14
     DEF FaultInvalidOpcode, StallOnInput, FaultOnInput, FaultOnOutput,
         ExecuteHalt
<1> QED
  BY <1>6, <1>7, <1>8, <1>9, <1>10, <1>11, <1>12, <1>14 DEF MicroStep

-----------------------------------------------------------------------------
(* Undoing one micro-operation.                                            *)

\* The entry an undo takes is well formed, and its control state is one the
\* machine can be in.
LEMMA LastEntry ==
  ASSUME IInv, entries # << >>
  PROVE  /\ Last(entries) \in Entry
         /\ Last(entries).control \in Control
         /\ InCycle(Last(entries).control)
         /\ Last(entries).effect \in Effect
<1>1. entries \in Seq(Entry)
  BY DEF IInv, TypeOK
<1>2. Len(entries) \in 1 .. Len(entries)
  BY <1>1, EmptySeq
<1>3. Last(entries) \in Entry /\ InCycle(Last(entries).control)
  BY <1>1, <1>2, ElementOfSeq DEF IInv, Last
<1> QED
  BY <1>3 DEF Entry

\* What each kind of effect carries.
LEMMA EffectFields ==
  ASSUME NEW e \in Effect
  PROVE  /\ e.kind = "Register" => e.register \in Register /\ e.previous \in Word
         /\ e.kind = "Memory" => e.address \in Addr /\ e.previous \in Word
         /\ e.kind = "InputRead" => e.previous \in Word /\ e.value \in Word
         /\ e.kind = "OutputWritten" => e.value \in Word
BY DEF Effect, NoEffect

\* The bookkeeping half of micro_step_back keeps the types of what it
\* changes.
LEMMA UndoneTracked ==
  ASSUME IInv, entries # << >>, Undone
  PROVE  Tracked'
<1>1. /\ entries \in Seq(Entry) /\ past \in Seq(Snapshot) /\ call \in Call
      /\ limit \in Nat /\ Len(entries) <= limit
      /\ \A i \in 1 .. Len(entries) : InCycle(entries[i].control)
  BY DEF IInv, TypeOK
<1>2. /\ entries' = Front(entries) /\ limit' = limit
      /\ entries' \in Seq(Entry)
      /\ Len(entries') = Len(entries) - 1
      /\ \A i \in 1 .. Len(entries') : entries'[i] = entries[i]
  BY <1>1, FrontFacts DEF Undone
<1>3. /\ Len(entries') <= limit'
      /\ \A i \in 1 .. Len(entries') : InCycle(entries'[i].control)
  BY <1>1, <1>2
<1>4. control' \in Control /\ InCycle(control')
  BY LastEntry DEF Undone
<1>5. past' \in Seq(Snapshot)
  BY <1>1, FrontFacts DEF Undone
<1>6. call' \in Call
  <2>1. call' = NoCall \/ call' = [call EXCEPT !.done = call.done + 1]
    BY DEF Undone, Returns
  <2>2. call.done + 1 \in Nat
    BY <1>1 DEF Call
  <2>3. [call EXCEPT !.done = call.done + 1] \in Call
    BY <1>1, <2>2 DEF Call
  <2> QED
    BY <2>1, <2>3, NoCallType
<1> QED
  BY <1>1, <1>2, <1>3, <1>4, <1>5, <1>6 DEF IInv, TypeOK, Tracked, Undone

\* A step of micro_step_back keeps the inductive invariant.
LEMMA MicroStepBackType ==
  ASSUME IInv, MicroStepBack
  PROVE  IInv'
<1> DEFINE effect == Last(entries).effect
<1>1. /\ registers \in RegisterFile /\ memory \in [Addr -> Word]
      /\ inputs \in Seq(Word) /\ outputs \in Seq(Word) /\ consumed \in Seq(Word)
      /\ canvas \in [DisplayAddr -> Word]
  BY DEF IInv, TypeOK
<1>2. ASSUME NEW kind, Undoes(kind)
      PROVE  /\ entries # << >> /\ effect.kind = kind /\ effect \in Effect
             /\ kind = "Register" =>
                  effect.register \in Register /\ effect.previous \in Word
             /\ kind = "Memory" =>
                  effect.address \in Addr /\ effect.previous \in Word
             /\ kind = "InputRead" =>
                  effect.previous \in Word /\ effect.value \in Word
  BY <1>2, LastEntry, EffectFields DEF Undoes
<1>3. ASSUME NEW kind, Undoes(kind), Undone
      PROVE  Tracked'
  BY <1>3, UndoneTracked DEF Undoes
<1>4. SUFFICES Tracked' /\ Machine'
  BY IInvParts
<1>5. CASE UndoNothing
  BY <1>1, <1>3, <1>5 DEF UndoNothing, Machine, device
<1>6. CASE UndoRegister
  <2>1. registers' \in RegisterFile
    BY <1>1, <1>2, <1>6, WriteType DEF UndoRegister
  <2> QED
    BY <1>1, <1>3, <1>6, <2>1 DEF UndoRegister, Machine, device
<1>7. CASE UndoMemory
  <2>1. effect.address \in Addr /\ effect.previous \in Word
    BY <1>2, <1>7 DEF UndoMemory
  <2>2. memory' \in [Addr -> Word] /\ canvas' \in [DisplayAddr -> Word]
    BY <1>1, <1>7, <2>1, PaintedType DEF UndoMemory
  <2> QED
    BY <1>1, <1>3, <1>7, <2>2 DEF UndoMemory, Machine
<1>8. CASE UndoInput
  <2>1. effect.previous \in Word /\ effect.value \in Word
    BY <1>2, <1>8 DEF UndoInput
  <2>2. registers' \in RegisterFile
    BY <1>1, <1>8, <2>1, WriteType DEF UndoInput, Register
  <2>3. inputs' \in Seq(Word) /\ consumed' \in Seq(Word)
    BY <1>1, <1>8, <2>1, FrontFacts DEF UndoInput
  <2> QED
    BY <1>1, <1>3, <1>8, <2>2, <2>3 DEF UndoInput, Machine
<1>9. CASE UndoOutput
  <2>1. outputs' \in Seq(Word)
    BY <1>1, <1>9, FrontFacts DEF UndoOutput
  <2> QED
    BY <1>1, <1>3, <1>9, <2>1 DEF UndoOutput, Machine
<1>10. ASSUME NEW error, Refused(error)
       PROVE  Tracked' /\ Machine'
  BY <1>10, NoCallType
     DEF IInv, TypeOK, Refused, Returns, Tracked, Machine, core, journal,
         device, InCycle
<1>11. CASE RefuseNoHistory \/ RefuseInput \/ RefuseOutput
  BY <1>10, <1>11 DEF RefuseNoHistory, RefuseInput, RefuseOutput
<1> QED
  BY <1>5, <1>6, <1>7, <1>8, <1>9, <1>11 DEF MicroStepBack

-----------------------------------------------------------------------------
(* What the caller does between two turns.                                 *)

\* Starting a call with any budget keeps the inductive invariant.
LEMMA BeginType ==
  ASSUME IInv,
         NEW api \in {"run", "step", "micro_step", "step_back",
                      "micro_step_back"},
         NEW budget \in Nat \cup {NoBudget},
         Begin(api, budget)
  PROVE  IInv'
<1>1. control.micro_pc \in 0 .. 9
  BY DEF IInv, TypeOK, Control
<1>2. call' \in Call
  BY <1>1 DEF Begin, Call
<1> QED
  BY <1>2 DEF Begin, IInv, TypeOK, InCycle, core, journal, device

\* Starting a call, and giving a run back before its next instruction, keep
\* the inductive invariant.
LEMMA CallsType ==
  ASSUME IInv, Calls \/ SuspendRun
  PROVE  IInv'
<1>1. ASSUME NEW api \in {"run", "step", "micro_step", "step_back",
                          "micro_step_back"},
             NEW budget \in Nat \cup {NoBudget},
             Begin(api, budget)
      PROVE  IInv'
  BY <1>1, BeginType
<1>2. CASE Calls
  <2>1. \A max \in Budgets : max \in Nat
    BY ConstantsAssumption
  <2> QED
    BY <1>1, <1>2, <2>1
       DEF Calls, CallRun, CallRunBounded, CallStep, CallMicroStep,
           CallStepBack, CallMicroStepBack
<1>3. CASE SuspendRun
  BY <1>3, NoCallType
     DEF SuspendRun, Returns, IInv, TypeOK, InCycle, core, journal, device
<1> QED
  BY <1>2, <1>3

\* A freshly loaded machine is at the start of an instruction, with an
\* empty journal.
LEMMA RewoundType ==
  ASSUME IInv, NEW regs \in RegisterFile, NEW entry \in Addr,
         RewindTo(regs, entry),
         state' \in {"Ready", "Running", "Stepping", "Terminated"},
         memory' \in [Addr -> Word]
  PROVE  IInv'
<1>1. /\ entries' = << >> /\ past' = << >> /\ Len(entries') = 0
      /\ control' = FreshControl(entry)
  BY DEF RewindTo
<1>2. registers' \in RegisterFile
  BY WordFacts DEF RewindTo, RegisterFile, Register
<1>3. control' \in Control /\ InCycle(control')
  BY <1>1, FetchFacts DEF FreshControl, Control, InCycle
<1> QED
  BY <1>1, <1>2, <1>3 DEF RewindTo, IInv, TypeOK, device

\* Cleared registers and cleared memory have their types.
LEMMA ZeroType ==
  ZeroRegisters \in RegisterFile /\ ZeroMemory \in [Addr -> Word]
BY WordFacts DEF ZeroRegisters, ZeroMemory, RegisterFile, Register

\* Loading and resetting keep the inductive invariant.
LEMMA LoadType ==
  ASSUME IInv,
         FlashProgram \/ LoadProgram \/ Reset \/ ResetWithProgram
  PROVE  IInv'
<1>1. registers \in RegisterFile /\ memory \in [Addr -> Word]
  BY DEF IInv, TypeOK
<1>2. CASE FlashProgram
  BY <1>1, <1>2, ConstantsAssumption, RewoundType DEF FlashProgram
<1>3. CASE LoadProgram
  <2>1. PICK origin \in EntryPoints, words \in Programs :
          /\ memory' = [a \in Addr |->
               IF a \in origin .. origin + Len(words) - 1
               THEN words[a - origin + 1] ELSE memory[a]]
          /\ RewindTo(registers, origin)
    BY <1>3 DEF LoadProgram
  <2>2. origin \in Addr /\ origin \in Nat /\ words \in Seq(Word)
    BY <2>1, ConstantsAssumption, WordFacts
  <2>3. ASSUME NEW a \in Addr, a \in origin .. origin + Len(words) - 1
        PROVE  words[a - origin + 1] \in Word
    <3>1. a - origin + 1 \in 1 .. Len(words)
      BY <2>2, <2>3
    <3> QED
      BY <2>2, <3>1, ElementOfSeq
  <2>4. memory' \in [Addr -> Word]
    BY <1>1, <2>1, <2>3
  <2> QED
    BY <1>1, <1>3, <2>1, <2>2, <2>4, RewoundType DEF LoadProgram
<1>4. CASE Reset
  BY <1>4, ZeroType, WordFacts, RewoundType DEF Reset
<1>5. CASE ResetWithProgram
  BY <1>5, ZeroType, ConstantsAssumption, RewoundType DEF ResetWithProgram
<1> QED
  BY <1>2, <1>3, <1>4, <1>5

\* Whatever a host does between two calls keeps the inductive invariant.
LEMMA HostType ==
  ASSUME IInv, Host
  PROVE  IInv'
<1> USE DEF IInv, TypeOK, core, journal, device, InCycle
<1>1. CASE Boot \/ Debug \/ Pause \/ Resume
  BY <1>1 DEF Boot, Debug, Pause, Resume, Transition
<1>2. CASE FlashProgram \/ LoadProgram \/ Reset \/ ResetWithProgram
  BY <1>2, LoadType
<1>3. CASE FlashMemory
  <2>1. memory' \in [Addr -> Word] /\ past' \in Seq(Snapshot)
    BY <1>3, ConstantsAssumption DEF FlashMemory
  <2> QED
    BY <1>3, <2>1 DEF FlashMemory
<1>4. CASE SetHistoryLimit
  <2>1. PICK n \in HistoryLimits :
          /\ limit' = n
          /\ entries' = Latest(entries, n)
          /\ past' = Latest(past, n)
    BY <1>4 DEF SetHistoryLimit
  <2>2. n \in Nat
    BY ConstantsAssumption
  <2>3. entries' \in Seq(Entry) /\ past' \in Seq(Snapshot)
    BY <2>1, <2>2, LatestFacts
  <2>4. Len(entries') <= n
    BY <2>1, <2>2, LatestFacts
  <2>5. ASSUME NEW i \in 1 .. Len(entries')
        PROVE  InCycle(entries'[i].control)
    <3>1. PICK k \in 0 .. Len(entries') - 1 : i = Len(entries') - k
      BY <2>3, FromEnd
    <3>2. entries'[i] = entries[Len(entries) - k]
      BY <2>1, <2>2, <3>1, LatestFacts
    <3>3. /\ Len(entries) \in Nat /\ Len(entries') \in Nat
          /\ Len(entries') <= Len(entries)
      BY <2>1, <2>2, <2>3, LatestFacts
    <3>4. Len(entries) - k \in 1 .. Len(entries)
      BY <3>1, <3>3
    <3> QED
      BY <3>2, <3>4
  <2> QED
    BY <1>4, <2>1, <2>2, <2>3, <2>4, <2>5 DEF SetHistoryLimit
<1>5. CASE ClearHistory
  BY <1>5 DEF ClearHistory
<1>6. CASE SetBreakpoints
  BY <1>6, ConstantsAssumption DEF SetBreakpoints
<1>7. CASE PokeRegister
  BY <1>7, ConstantsAssumption, WriteType DEF PokeRegister
<1>8. CASE PokeMemory
  BY <1>8, ConstantsAssumption DEF PokeMemory
<1>9. CASE FeedInput
  BY <1>9, ConstantsAssumption DEF FeedInput
<1> QED
  BY <1>1, <1>2, <1>3, <1>4, <1>5, <1>6, <1>7, <1>8, <1>9 DEF Host

-----------------------------------------------------------------------------
(* The invariant holds throughout.                                         *)

\* A machine that begins with an image satisfies the inductive invariant.
LEMMA BeginsType ==
  ASSUME NEW image \in [Addr -> Word], NEW entry \in Addr, InitWith(image, entry)
  PROVE  IInv
<1>1. registers \in RegisterFile
  BY WordFacts DEF InitWith, ZeroRegisters, RegisterFile, Register
<1>2. control \in Control /\ InCycle(control)
  BY FetchFacts DEF InitWith, FreshControl, Control, InCycle
<1>3. canvas \in [DisplayAddr -> Word]
  BY WordFacts DEF InitWith
<1> QED
  BY <1>1, <1>2, <1>3, NoCallType DEF InitWith, IInv, TypeOK

\* So does every new one.
LEMMA InitType ==
  ASSUME Init
  PROVE  IInv
BY BeginsType, ZeroType, WordFacts, ConstantsAssumption DEF Init

\* Every step keeps the inductive invariant.
LEMMA NextType ==
  ASSUME IInv, [Next]_vars
  PROVE  IInv'
<1>1. CASE UNCHANGED vars
  BY <1>1 DEF vars, core, journal, device, IInv, TypeOK, InCycle
<1> QED
  BY <1>1, MicroStepType, MicroStepBackType, CallsType, HostType
     DEF Next, Turn

\* The inductive invariant holds of every reachable state: types, and a
\* micro-program counter that lies inside the cycle of what is decoded, now and
\* in every control state the journal remembers.
THEOREM Invariance == Spec => []IInv
BY InitType, NextType, PTL DEF Spec

\* Every variable keeps its type: in particular PC and MAR never hold more
\* than the address lines carry, and the journal never outgrows its limit.
THEOREM TypeCorrectness == Spec => []TypeOK
<1>1. IInv => TypeOK
  BY DEF IInv
<1> QED
  BY <1>1, Invariance, PTL

\* The machine can always go on: neither panic of the execution core is
\* reachable, for any program, host behaviour and history limit.
THEOREM NeverPanics == Spec => []NoPanic
<1>1. IInv => NoPanic
  BY CurrentOpFacts DEF IInv, TypeOK, NoPanic
<1> QED
  BY <1>1, Invariance, PTL

-----------------------------------------------------------------------------
(* What one micro-operation does.                                          *)

\* The call that issued it goes on, or is answered.
Answered ==
  IF call.api = "micro_step" \/ (call.api = "step" /\ control'.micro_pc = 0)
  THEN Returns("Stepped")
  ELSE /\ call' = [call EXCEPT
            !.within = control'.micro_pc # 0,
            !.done = IF call.api = "run" /\ control'.micro_pc = 0 /\ @ < DoneCap
                     THEN @ + 1 ELSE @]
       /\ outcome' = outcome

\* A micro-operation that was executed.
Ran ==
  /\ Issuing
  /\ state' = state
  /\ registers' = IF WritesRegister THEN Write(registers, Target, Bits)
                  ELSE IF CurrentOp.op = "ReadInput"
                       THEN [registers EXCEPT !["In"] = Head(inputs)]
                       ELSE registers
  /\ memory' = IF CurrentOp.op = "WriteMemory"
               THEN [memory EXCEPT ![registers["Mar"]] = registers["Mbr"]]
               ELSE memory
  /\ consumed' = IF CurrentOp.op = "ReadInput"
                 THEN Append(consumed, Head(inputs)) ELSE consumed
  /\ CurrentOp.op = "ReadInput" => inputs # << >>
  /\ outputs' = IF CurrentOp.op = "WriteOutput"
                THEN Append(outputs, registers["Out"]) ELSE outputs
  /\ control'.decoded = IF CurrentOp.op = "Decode" THEN Decode(registers["Ir"])
                        ELSE control.decoded
  /\ CurrentOp.op = "Decode" => Decode(registers["Ir"]) # NoInstruction
  /\ control'.comparison =
       IF CurrentOp.op = "Compare"
       THEN Holds(ConditionOf(control.decoded.operand), registers["Ac"])
       ELSE control.comparison
  /\ control'.micro_pc = AdvancedMicroPc(control'.decoded)
  /\ CurrentOp.op # "Halt"
  /\ limit' = limit /\ (limit = 0 => entries' = entries)
  /\ Answered
  /\ call' = NoCall \/ call'.api = call.api

\* A micro-operation that was not: it faulted, halted or has to wait.
Refrained ==
  /\ Issuing
  /\ UNCHANGED << core, journal, device, past >>
  /\ call' = NoCall
  /\ outcome' \in {"AwaitingInput", "InvalidOpcode", "IoFault", "Halted"}
  /\ \/ state' = state
     \/ /\ state' = "Terminated"
        /\ \/ CurrentOp.op \in {"ReadInput", "WriteOutput", "Halt"}
           \/ CurrentOp.op = "Decode" /\ Decode(registers["Ir"]) = NoInstruction

\* The operations that write a register are none of the others.
LEMMA MicroStepOutcome ==
  ASSUME TypeOK, MicroStep
  PROVE  Ran \/ Refrained
<1>1. ASSUME NEW effect, NEW decoded, NEW comparison,
             Executed(effect, decoded, comparison), Issuing
      PROVE  /\ state' = state /\ limit' = limit
             /\ limit = 0 => entries' = entries
             /\ Answered
             /\ call' = NoCall \/ call'.api = call.api
             /\ control'.decoded = decoded /\ control'.comparison = comparison
             /\ control'.micro_pc = AdvancedMicroPc(control'.decoded)
  <2>1. call' = NoCall \/ call'.api = call.api
    <3>1. CASE \/ call.api = "micro_step"
               \/ call.api = "step" /\ AdvancedMicroPc(decoded) = 0
      BY <1>1, <3>1 DEF Executed, Returns
    <3>2. CASE ~ \/ call.api = "micro_step"
                 \/ call.api = "step" /\ AdvancedMicroPc(decoded) = 0
      BY <1>1, <3>2 DEF Executed, TypeOK, Call
    <3> QED
      BY <3>1, <3>2
  <2>2. control'.micro_pc = AdvancedMicroPc(decoded)
    BY <1>1 DEF Executed
  <2>3. Answered
    BY <1>1, <2>2 DEF Executed, Answered
  <2> QED
    BY <1>1, <2>1, <2>3 DEF Executed, Recorded
<1>2. CASE ExecuteRegisterWrite
  BY <1>1, <1>2 DEF ExecuteRegisterWrite, Ran, WritesRegister, device
<1>3. CASE ExecuteWriteMemory
  BY <1>1, <1>3 DEF ExecuteWriteMemory, Issues, Ran, WritesRegister
<1>4. CASE ExecuteDecode
  BY <1>1, <1>4 DEF ExecuteDecode, Issues, Ran, WritesRegister, device
<1>5. CASE ExecuteCompare
  BY <1>1, <1>5 DEF ExecuteCompare, Issues, Ran, WritesRegister, device
<1>6. CASE ExecuteNoSkip
  BY <1>1, <1>6 DEF ExecuteNoSkip, Issues, Ran, WritesRegister, device
<1>7. CASE ExecuteReadInput
  BY <1>1, <1>7 DEF ExecuteReadInput, Issues, Ran, WritesRegister
<1>8. CASE ExecuteWriteOutput
  BY <1>1, <1>8 DEF ExecuteWriteOutput, Issues, Ran, WritesRegister
<1>9. CASE FaultInvalidOpcode \/ StallOnInput \/ FaultOnInput
           \/ FaultOnOutput \/ ExecuteHalt
  BY <1>9
     DEF FaultInvalidOpcode, StallOnInput, FaultOnInput, FaultOnOutput,
         ExecuteHalt, Issues, Stopped, Returns, Refrained
<1> QED
  BY <1>2, <1>3, <1>4, <1>5, <1>6, <1>7, <1>8, <1>9 DEF MicroStep

\* A micro-operation that writes one register and changes nothing else that
\* a later one can see.
Moves(r, bits) ==
  /\ registers' = [registers EXCEPT ![r] = bits]
  /\ UNCHANGED << memory, consumed, outputs >>
  /\ control'.decoded = control.decoded
  /\ control'.comparison = control.comparison

\* What a register transfer moves: address registers take the address lines.
LEMMA TransferMoves ==
  ASSUME TypeOK, Ran, NEW t \in Register, NEW s \in Register,
         CurrentOp = Transfer(t, s)
  PROVE  Moves(t, IF t \in {"Pc", "Mar"} THEN Masked(registers[s]) ELSE registers[s])
<1>1. CurrentOp.op = "Transfer" /\ CurrentOp.target = t /\ CurrentOp.source = s
  BY DEF Transfer
<1>2. WritesRegister /\ Target = t /\ Bits = registers[s]
  BY <1>1, Zenon DEF WritesRegister, Target, Bits
<1> QED
  BY <1>1, <1>2 DEF Ran, Moves, Write

\* What the operations without operands move.
LEMMA PlainMoves ==
  ASSUME TypeOK, Ran
  PROVE  /\ CurrentOp = ReadMemory => Moves("Mbr", memory[registers["Mar"]])
         /\ CurrentOp = IncrementPc => Moves("Pc", NextAddr(registers["Pc"]))
         /\ CurrentOp = Plain("Add") =>
              Moves("Ac", AluAdd(registers["Ac"], registers["Mbr"]))
         /\ CurrentOp = Plain("Subtract") =>
              Moves("Ac", AluSub(registers["Ac"], registers["Mbr"]))
         /\ CurrentOp = Plain("LoadImmediate") =>
              Moves("Ac", Masked(registers["Ir"]))
         /\ CurrentOp = Plain("SkipIfComparison") =>
              Moves("Pc", IF control.comparison THEN NextAddr(registers["Pc"])
                          ELSE registers["Pc"])
<1>1. /\ registers \in [Register -> Word] /\ registers["Pc"] \in Addr
  BY DEF TypeOK, RegisterFile
<1>2. \A a \in Addr : Masked(NextAddr(a)) = NextAddr(a)
  BY NextAddrType, MaskedAddr
<1>3. CASE CurrentOp = ReadMemory
  <2>1. CurrentOp.op = "ReadMemory"
    BY <1>3 DEF ReadMemory, Plain
  <2>2. WritesRegister /\ Target = "Mbr" /\ Bits = memory[registers["Mar"]]
    BY <2>1, Zenon DEF WritesRegister, Target, Bits
  <2>3. Moves("Mbr", memory[registers["Mar"]])
    BY <2>1, <2>2 DEF Ran, Moves, Write
  <2> QED
    BY <1>3, <2>3 DEF ReadMemory, Plain, IncrementPc
<1>4. CASE CurrentOp = IncrementPc
  <2>1. CurrentOp.op = "IncrementPc"
    BY <1>4 DEF IncrementPc, Plain
  <2>2. WritesRegister /\ Target = "Pc" /\ Bits = NextAddr(registers["Pc"])
    BY <2>1, Zenon DEF WritesRegister, Target, Bits
  <2>3. Moves("Pc", NextAddr(registers["Pc"]))
    BY <1>1, <1>2, <2>1, <2>2 DEF Ran, Moves, Write
  <2> QED
    BY <1>4, <2>3 DEF ReadMemory, Plain, IncrementPc
<1>5. CASE CurrentOp = Plain("Add")
  <2>1. CurrentOp.op = "Add"
    BY <1>5 DEF Plain
  <2>2. WritesRegister /\ Target = "Ac"
        /\ Bits = AluAdd(registers["Ac"], registers["Mbr"])
    BY <2>1, Zenon DEF WritesRegister, Target, Bits
  <2>3. Moves("Ac", AluAdd(registers["Ac"], registers["Mbr"]))
    BY <2>1, <2>2 DEF Ran, Moves, Write
  <2> QED
    BY <1>5, <2>3 DEF ReadMemory, Plain, IncrementPc
<1>6. CASE CurrentOp = Plain("Subtract")
  <2>1. CurrentOp.op = "Subtract"
    BY <1>6 DEF Plain
  <2>2. WritesRegister /\ Target = "Ac"
        /\ Bits = AluSub(registers["Ac"], registers["Mbr"])
    BY <2>1, Zenon DEF WritesRegister, Target, Bits
  <2>3. Moves("Ac", AluSub(registers["Ac"], registers["Mbr"]))
    BY <2>1, <2>2 DEF Ran, Moves, Write
  <2> QED
    BY <1>6, <2>3 DEF ReadMemory, Plain, IncrementPc
<1>7. CASE CurrentOp = Plain("LoadImmediate")
  <2>1. CurrentOp.op = "LoadImmediate"
    BY <1>7 DEF Plain
  <2>2. WritesRegister /\ Target = "Ac" /\ Bits = LoadImmediate(registers["Ir"])
    BY <2>1, Zenon DEF WritesRegister, Target, Bits
  <2>3. Moves("Ac", Masked(registers["Ir"]))
    BY <2>1, <2>2 DEF Ran, Moves, Write, LoadImmediate
  <2> QED
    BY <1>7, <2>3 DEF ReadMemory, Plain, IncrementPc
<1>8. CASE CurrentOp = Plain("SkipIfComparison")
  <2>1. CurrentOp.op = "SkipIfComparison"
    BY <1>8 DEF Plain
  <2>2. control.comparison => WritesRegister /\ Target = "Pc"
                              /\ Bits = NextAddr(registers["Pc"])
    BY <2>1, Zenon DEF WritesRegister, Target, Bits
  <2>3. ~control.comparison => ~WritesRegister
    BY <2>1 DEF WritesRegister
  <2>4. Moves("Pc", IF control.comparison THEN NextAddr(registers["Pc"])
                    ELSE registers["Pc"])
    <3>1. CASE control.comparison
      BY <1>1, <1>2, <2>1, <2>2, <3>1 DEF Ran, Moves, Write
    <3>2. CASE ~control.comparison
      BY <1>1, <2>1, <2>3, <3>2 DEF Ran, Moves
    <3> QED
      BY <3>1, <3>2
  <2> QED
    BY <1>8, <2>4 DEF ReadMemory, Plain, IncrementPc
<1> QED
  BY <1>3, <1>4, <1>5, <1>6, <1>7, <1>8

-----------------------------------------------------------------------------
(* The journal leads back exactly.                                         *)

\* Executing an operation puts the machine as it was behind the machine as it
\* is, on the line as in the journal.
LEMMA ExecutedAgo ==
  ASSUME IInv, NEW effect \in Effect, NEW decoded, NEW comparison,
         Executed(effect, decoded, comparison)
  PROVE  /\ entries' \in Seq(Entry) /\ Len(entries') \in Nat
         /\ Len(entries') <= Len(entries) + 1
         /\ \A k \in 0 .. Len(entries') - 1 :
              entries'[Len(entries') - k]
                = IF k = 0
                  THEN [control |-> control, micro_op |-> CurrentOp, effect |-> effect]
                  ELSE entries[Len(entries) - k + 1]
         /\ past' \in Seq(Snapshot) /\ Len(past') \in Nat
         /\ Len(past') <= Len(past) + 1
         /\ Len(past') <= Len(entries')
         /\ \A k \in 1 .. Len(past') : Ago(k)' = Ago(k - 1)
<1> DEFINE entry == [control |-> control, micro_op |-> CurrentOp,
                     effect |-> effect]
           line == Append(past, Now)
<1>1. /\ control \in Control /\ InCycle(control)
      /\ entries \in Seq(Entry) /\ limit \in Nat /\ Len(entries) <= limit
      /\ past \in Seq(Snapshot)
      /\ Len(past) \in Nat /\ Len(entries) \in Nat
  BY DEF IInv, TypeOK
<1>2. entry \in Entry
  BY <1>1, CurrentOpFacts DEF Entry
<1>3. /\ entries' \in Seq(Entry) /\ Len(entries') \in Nat
      /\ Len(entries') <= Len(entries) + 1
      /\ \A k \in 0 .. Len(entries') - 1 :
           entries'[Len(entries') - k]
             = IF k = 0 THEN entry ELSE entries[Len(entries) - k + 1]
  <2>1. entries' = Recorded(entry)
    BY DEF Executed
  <2> QED
    BY <1>1, <1>2, <2>1, RecordedFacts
<1>4. /\ line \in Seq(Snapshot)
      /\ Len(line) = Len(past) + 1
      /\ line[Len(past) + 1] = Now
      /\ \A i \in 1 .. Len(past) : line[i] = past[i]
  BY <1>1, NowType
<1>5. /\ past' \in Seq(Snapshot) /\ Len(past') \in Nat
      /\ Len(past') <= Len(past) + 1
      /\ Len(past') <= Len(entries')
      /\ \A k \in 0 .. Len(past') - 1 :
           past'[Len(past') - k] = line[Len(past) + 1 - k]
  <2>1. past' = Latest(line, Len(entries'))
    BY DEF Executed
  <2> HIDE DEF line
  <2>2. /\ past' \in Seq(Snapshot)
        /\ Len(past') = IF Len(line) < Len(entries')
                        THEN Len(line) ELSE Len(entries')
        /\ \A k \in 0 .. Len(past') - 1 :
             past'[Len(past') - k] = line[Len(line) - k]
    BY <1>3, <1>4, <2>1, LatestFacts
  <2>3. Len(past') \in Nat /\ Len(past') <= Len(line)
                          /\ Len(past') <= Len(entries')
    BY <1>1, <1>3, <1>4, <2>2
  <2> QED
    BY <1>4, <2>2, <2>3
<1>6. ASSUME NEW k \in 1 .. Len(past')
      PROVE  Ago(k)' = Ago(k - 1)
  <2>1. Ago(k)' = past'[Len(past') - (k - 1)]
    BY <1>5 DEF Ago
  <2>2. past'[Len(past') - (k - 1)] = line[Len(past) + 1 - (k - 1)]
    <3>1. k - 1 \in 0 .. Len(past') - 1
      BY <1>5
    <3> HIDE DEF line
    <3> QED
      BY <1>5, <3>1
  <2>3. CASE k = 1
    BY <1>1, <1>4, <2>1, <2>2, <2>3 DEF Ago
  <2>4. CASE k > 1
    <3>1. Len(past) + 1 - (k - 1) \in 1 .. Len(past)
      BY <1>1, <1>5, <2>4
    <3>2. Ago(k - 1) = past[Len(past) + 1 - (k - 1)]
      BY <1>1, <2>4 DEF Ago
    <3> QED
      BY <1>4, <2>1, <2>2, <3>1, <3>2
  <2> QED
    BY <2>3, <2>4
<1> QED
  BY <1>3, <1>5, <1>6

\* Recording what undoes the step just made keeps the line unbroken.
LEMMA ExecutedExact ==
  ASSUME IInv, JournalExact,
         NEW effect \in Effect, NEW decoded, NEW comparison,
         Executed(effect, decoded, comparison),
         UndoneBy([control |-> control, micro_op |-> CurrentOp,
                   effect |-> effect], Now') = Now
  PROVE  JournalExact'
<1> DEFINE entry == [control |-> control, micro_op |-> CurrentOp,
                     effect |-> effect]
<1>1. Len(past) \in Nat /\ Len(entries) \in Nat
  BY DEF IInv, TypeOK
<1>3. /\ Len(entries') \in Nat
      /\ \A k \in 0 .. Len(entries') - 1 :
           entries'[Len(entries') - k]
             = IF k = 0 THEN entry ELSE entries[Len(entries) - k + 1]
  BY ExecutedAgo
<1>5. /\ Len(past') \in Nat
      /\ Len(past') <= Len(past) + 1
      /\ Len(past') <= Len(entries')
  BY ExecutedAgo
<1>6. \A k \in 1 .. Len(past') : Ago(k)' = Ago(k - 1)
  BY ExecutedAgo
<1>7. ASSUME NEW k \in 0 .. Len(past') - 1
      PROVE  UndoneBy(entries'[Len(entries') - k], Ago(k)') = Ago(k + 1)'
  <2>1. k \in 0 .. Len(entries') - 1 /\ k + 1 \in 1 .. Len(past')
    BY <1>3, <1>5
  <2>2. CASE k = 0
    <3>1. Ago(k)' = Now' /\ Ago(k + 1)' = Now
      BY <1>6, <2>1, <2>2 DEF Ago
    <3> QED
      BY <1>3, <2>1, <2>2, <3>1
  <2>3. CASE k > 0
    <3>1. Ago(k)' = Ago(k - 1) /\ Ago(k + 1)' = Ago(k)
      BY <1>6, <2>1, <2>3
    <3>2. k - 1 \in 0 .. Len(past) - 1
      BY <1>1, <1>5, <2>1, <2>3
    <3>3. UndoneBy(entries[Len(entries) - (k - 1)], Ago(k - 1)) = Ago(k)
      BY <3>2 DEF JournalExact
    <3>4. entries'[Len(entries') - k] = entries[Len(entries) - (k - 1)]
      BY <1>1, <1>3, <2>1, <2>3
    <3> QED
      BY <3>1, <3>3, <3>4
  <2> QED
    BY <2>2, <2>3
<1> QED
  BY <1>5, <1>7 DEF JournalExact

\* Nothing that leaves machine and line alone can break it.
LEMMA UntouchedExact ==
  ASSUME JournalExact, entries' = entries, Now' = Now,
         past' = past \/ past' = << >>
  PROVE  JournalExact'
BY DEF JournalExact, Ago

\* The undo of a step is recorded in the same breath as the step.
LEMMA MicroStepExact ==
  ASSUME IInv, JournalExact, MicroStep
  PROVE  JournalExact'
<1>1. /\ registers \in RegisterFile /\ registers \in [Register -> Word]
      /\ registers["Mar"] \in Addr /\ memory \in [Addr -> Word]
      /\ inputs \in Seq(Word) /\ outputs \in Seq(Word) /\ consumed \in Seq(Word)
  BY DEF IInv, TypeOK, RegisterFile
<1>2. CASE ExecuteRegisterWrite
  <2>1. Target \in Register /\ Bits \in Word
    BY <1>2, RegisterWriteType DEF IInv, ExecuteRegisterWrite
  <2>2. RegisterEffect(Target) \in Effect
    BY <1>1, <2>1, EffectType DEF RegisterEffect
  <2>3. Write(registers', Target, registers[Target]) = registers
    BY <1>1, <1>2, <2>1, WriteRestores DEF ExecuteRegisterWrite
  <2>4. UndoneBy([control |-> control, micro_op |-> CurrentOp,
                  effect |-> RegisterEffect(Target)], Now') = Now
    BY <1>2, <2>3
       DEF ExecuteRegisterWrite, UndoneBy, RegisterEffect, Now, device
  <2> QED
    BY <1>2, <2>2, <2>4, ExecutedExact DEF ExecuteRegisterWrite
<1>3. CASE ExecuteWriteMemory
  <2> DEFINE effect == [kind |-> "Memory", address |-> registers["Mar"],
                        previous |-> memory[registers["Mar"]]]
  <2>1. effect \in Effect
    BY <1>1, EffectType
  <2>2. [memory' EXCEPT ![registers["Mar"]] = memory[registers["Mar"]]]
          = memory
    BY <1>1, <1>3 DEF ExecuteWriteMemory
  <2>3. UndoneBy([control |-> control, micro_op |-> CurrentOp,
                  effect |-> effect], Now') = Now
    BY <1>3, <2>2 DEF ExecuteWriteMemory, UndoneBy, Now
  <2> QED
    BY <1>3, <2>1, <2>3, ExecutedExact DEF ExecuteWriteMemory
<1>4. ASSUME NEW decoded, NEW comparison,
             Executed(NoEffect, decoded, comparison),
             UNCHANGED << registers, memory, device >>
      PROVE  JournalExact'
  <2>1. UndoneBy([control |-> control, micro_op |-> CurrentOp,
                  effect |-> NoEffect], Now') = Now
    BY <1>4 DEF UndoneBy, NoEffect, Now, device
  <2> QED
    BY <1>4, <2>1, EffectType, ExecutedExact
<1>5. CASE ExecuteDecode \/ ExecuteCompare \/ ExecuteNoSkip
  BY <1>4, <1>5 DEF ExecuteDecode, ExecuteCompare, ExecuteNoSkip
<1>6. CASE ExecuteReadInput
  <2> DEFINE effect == [kind |-> "InputRead", previous |-> registers["In"],
                        value |-> Head(inputs)]
  <2>1. Head(inputs) \in Word
    BY <1>1, <1>6 DEF ExecuteReadInput
  <2>2. effect \in Effect
    BY <1>1, <2>1, EffectType DEF Register
  <2>3. Write(registers', "In", registers["In"]) = registers
    BY <1>1, <1>6 DEF ExecuteReadInput, Write, Register
  <2>4. Front(consumed') = consumed
    BY <1>1, <1>6, <2>1, FrontOfAppend DEF ExecuteReadInput
  <2>5. UndoneBy([control |-> control, micro_op |-> CurrentOp,
                  effect |-> effect], Now') = Now
    BY <1>6, <2>3, <2>4 DEF ExecuteReadInput, UndoneBy, Now
  <2> QED
    BY <1>6, <2>2, <2>5, ExecutedExact DEF ExecuteReadInput
<1>7. CASE ExecuteWriteOutput
  <2> DEFINE effect == [kind |-> "OutputWritten", value |-> registers["Out"]]
  <2>1. registers["Out"] \in Word
    BY <1>1 DEF Register
  <2>2. effect \in Effect
    BY <2>1, EffectType
  <2>3. Front(outputs') = outputs
    BY <1>1, <1>7, <2>1, FrontOfAppend DEF ExecuteWriteOutput
  <2>4. UndoneBy([control |-> control, micro_op |-> CurrentOp,
                  effect |-> effect], Now') = Now
    BY <1>7, <2>3 DEF ExecuteWriteOutput, UndoneBy, Now
  <2> QED
    BY <1>7, <2>2, <2>4, ExecutedExact DEF ExecuteWriteOutput
<1>8. CASE \/ FaultInvalidOpcode \/ StallOnInput \/ FaultOnInput
           \/ FaultOnOutput \/ ExecuteHalt
  <2>1. UNCHANGED << core, journal, breakpoints, device, past >>
    BY <1>8 DEF FaultInvalidOpcode, StallOnInput, FaultOnInput,
                FaultOnOutput, ExecuteHalt, Stopped
  <2> QED
    BY <2>1, UntouchedExact DEF core, journal, device, Now
<1> QED
  BY <1>2, <1>3, <1>5, <1>6, <1>7, <1>8 DEF MicroStep

\* An undo does to the machine what UndoneBy says.
LEMMA UndoneByLast ==
  ASSUME IInv, MicroStepBack
  PROVE  \/ /\ entries # << >> /\ Undone
            /\ Now' = UndoneBy(Last(entries), Now)
         \/ UNCHANGED << core, journal, device, past >> /\ call' = NoCall
<1> USE DEF UndoneBy, Now, Undoes, Undone
<1>1. CASE UndoNothing
  BY <1>1 DEF UndoNothing, device
<1>2. CASE UndoRegister
  BY <1>2 DEF UndoRegister, device
<1>3. CASE UndoMemory
  BY <1>3 DEF UndoMemory
<1>4. CASE UndoInput
  BY <1>4 DEF UndoInput
<1>5. CASE UndoOutput
  BY <1>5 DEF UndoOutput
<1>6. CASE RefuseNoHistory \/ RefuseInput \/ RefuseOutput
  BY <1>6 DEF RefuseNoHistory, RefuseInput, RefuseOutput, Refused, Returns
<1> QED
  BY <1>1, <1>2, <1>3, <1>4, <1>5, <1>6 DEF MicroStepBack

\* Undoing the last operation takes the machine back along its line.
LEMMA UndoneAgo ==
  ASSUME IInv, JournalExact, entries # << >>, Undone,
         Now' = UndoneBy(Last(entries), Now), past # << >>
  PROVE  /\ past' = Front(past) /\ Now' = Last(past)
         /\ Len(past) >= 1 /\ Len(past') = Len(past) - 1
         /\ Len(entries) >= 1 /\ Len(entries') = Len(entries) - 1
         /\ \A i \in 1 .. Len(entries') : entries'[i] = entries[i]
         /\ \A k \in 0 .. Len(past') : Ago(k)' = Ago(k + 1)
<1>0. /\ entries \in Seq(Entry) /\ past \in Seq(Snapshot)
      /\ Len(entries) \in Nat /\ Len(past) \in Nat
      /\ Len(past) <= Len(entries)
  BY DEF IInv, TypeOK, JournalExact
<1>1. /\ past' = Front(past) /\ entries' = Front(entries)
      /\ Len(past) >= 1 /\ Len(past') = Len(past) - 1
      /\ \A i \in 1 .. Len(past') : past'[i] = past[i]
  BY <1>0, FrontFacts DEF Undone
<1>2. /\ Len(entries) >= 1 /\ Len(entries') = Len(entries) - 1
      /\ \A i \in 1 .. Len(entries') : entries'[i] = entries[i]
  BY <1>0, FrontFacts DEF Undone
<1>3. Now' = Last(past)
  <2>1. UndoneBy(entries[Len(entries) - 0], Ago(0)) = Ago(0 + 1)
    BY <1>0, <1>1 DEF JournalExact
  <2>2. Ago(0) = Now /\ Ago(0 + 1) = past[Len(past)]
    BY <1>0 DEF Ago
  <2>3. entries[Len(entries) - 0] = Last(entries)
    BY <1>0 DEF Last
  <2> QED
    BY <2>1, <2>2, <2>3 DEF Last
<1>4. ASSUME NEW k \in 0 .. Len(past')
      PROVE  Ago(k)' = Ago(k + 1)
  <2>1. CASE k = 0
    BY <1>0, <1>3, <2>1 DEF Ago, Last
  <2>2. CASE k > 0
    <3>1. Len(past') - k + 1 \in 1 .. Len(past')
      BY <1>0, <1>1, <2>2
    <3>2. Len(past') - k + 1 = Len(past) - (k + 1) + 1
      BY <1>0, <1>1
    <3> QED
      BY <1>1, <2>2, <3>1, <3>2 DEF Ago
  <2> QED
    BY <2>1, <2>2
<1> QED
  BY <1>1, <1>2, <1>3, <1>4

\* Stepping backwards keeps the journal exact, and takes the machine to the
\* last state on its line, or beyond the line, or nowhere.
LEMMA MicroStepBackExact ==
  ASSUME IInv, JournalExact, MicroStepBack
  PROVE  /\ JournalExact'
         /\ \/ past = << >> /\ past' = << >>
            \/ past # << >> /\ Now' = Last(past) /\ past' = Front(past)
            \/ Now' = Now /\ past' = past
<1>1. CASE UNCHANGED << core, journal, device, past >>
  BY <1>1, UntouchedExact DEF core, journal, device, Now
<1>2. CASE /\ entries # << >> /\ Undone
           /\ Now' = UndoneBy(Last(entries), Now)
  <2>1. /\ entries \in Seq(Entry) /\ past \in Seq(Snapshot)
        /\ Len(entries) \in Nat /\ Len(past) \in Nat
        /\ Len(past) <= Len(entries)
    BY DEF IInv, TypeOK, JournalExact
  <2>2. CASE past = << >>
    <3>1. past' = << >> /\ Len(past') = 0
      BY <1>2, <2>2 DEF Undone
    <3>2. Len(entries') \in Nat
      BY <1>2, <2>1, FrontFacts DEF Undone
    <3> QED
      BY <2>2, <3>1, <3>2 DEF JournalExact
  <2>3. CASE past # << >>
    <3>1. /\ Len(past) >= 1 /\ Len(past') = Len(past) - 1
          /\ Now' = Last(past) /\ past' = Front(past)
      BY <1>2, <2>3, UndoneAgo
    <3>2. /\ Len(entries) >= 1 /\ Len(entries') = Len(entries) - 1
          /\ \A i \in 1 .. Len(entries') : entries'[i] = entries[i]
      BY <1>2, <2>3, UndoneAgo
    <3>4. \A k \in 0 .. Len(past') : Ago(k)' = Ago(k + 1)
      BY <1>2, <2>3, UndoneAgo
    <3>5. ASSUME NEW k \in 0 .. Len(past') - 1
          PROVE  UndoneBy(entries'[Len(entries') - k], Ago(k)') = Ago(k + 1)'
      <4>1. k + 1 \in 0 .. Len(past) - 1
        BY <2>1, <3>1
      <4>2. UndoneBy(entries[Len(entries) - (k + 1)], Ago(k + 1))
              = Ago((k + 1) + 1)
        BY <4>1 DEF JournalExact
      <4>3. entries'[Len(entries') - k] = entries[Len(entries) - (k + 1)]
        <5>1. Len(entries') - k \in 1 .. Len(entries')
          BY <2>1, <3>1, <3>2, <4>1
        <5>2. Len(entries') - k = Len(entries) - (k + 1)
          BY <2>1, <3>2
        <5> QED
          BY <3>2, <5>1, <5>2
      <4>4. Ago(k)' = Ago(k + 1) /\ Ago(k + 1)' = Ago((k + 1) + 1)
        BY <3>4, <2>1, <3>1
      <4> QED
        BY <4>2, <4>3, <4>4
    <3>6. Len(past') <= Len(entries')
      BY <2>1, <3>1, <3>2
    <3> QED
      BY <2>3, <3>1, <3>5, <3>6 DEF JournalExact
  <2> QED
    BY <2>2, <2>3
<1> QED
  BY <1>1, <1>2, UndoneByLast

\* Forgetting the oldest entries leaves the newest as they are.
LEMMA SetHistoryLimitAgo ==
  ASSUME IInv, JournalExact, SetHistoryLimit
  PROVE  /\ Len(entries') \in Nat /\ Len(past') \in Nat /\ Len(entries') <= Len(entries)
         /\ Len(past') <= Len(past) /\ Len(past') <= Len(entries')
         /\ \A k \in 0 .. Len(entries') - 1 :
              entries'[Len(entries') - k] = entries[Len(entries) - k]
         /\ \A k \in 0 .. Len(past') : Ago(k)' = Ago(k)
<1>1. /\ entries \in Seq(Entry) /\ past \in Seq(Snapshot)
      /\ Len(entries) \in Nat /\ Len(past) \in Nat
      /\ Len(past) <= Len(entries)
  BY DEF IInv, TypeOK, JournalExact
<1>2. PICK n \in Nat : entries' = Latest(entries, n) /\ past' = Latest(past, n)
  BY ConstantsAssumption DEF SetHistoryLimit
<1>3. /\ Len(entries') = IF Len(entries) < n THEN Len(entries) ELSE n
      /\ \A k \in 0 .. Len(entries') - 1 :
           entries'[Len(entries') - k] = entries[Len(entries) - k]
  BY <1>1, <1>2, LatestFacts
<1>4. /\ Len(past') = IF Len(past) < n THEN Len(past) ELSE n
      /\ \A k \in 0 .. Len(past') - 1 :
           past'[Len(past') - k] = past[Len(past) - k]
  BY <1>1, <1>2, LatestFacts
<1>5. /\ Len(entries') \in Nat /\ Len(past') \in Nat
      /\ Len(entries') <= Len(entries)
      /\ Len(past') <= Len(past) /\ Len(past') <= Len(entries')
  BY <1>1, <1>3, <1>4
<1>6. Now' = Now
  BY DEF SetHistoryLimit, Now, core, device
<1>7. ASSUME NEW k \in 0 .. Len(past')
      PROVE  Ago(k)' = Ago(k)
  <2>1. CASE k = 0
    BY <1>6, <2>1 DEF Ago
  <2>2. CASE k > 0
    <3>1. k - 1 \in 0 .. Len(past') - 1
      BY <1>5, <2>2
    <3>2. past'[Len(past') - (k - 1)] = past[Len(past) - (k - 1)]
      BY <1>4, <3>1
    <3>3. /\ Len(past') - (k - 1) = Len(past') - k + 1
          /\ Len(past) - (k - 1) = Len(past) - k + 1
      BY <1>1, <1>5
    <3> QED
      BY <2>2, <3>2, <3>3 DEF Ago
  <2> QED
    BY <2>1, <2>2
<1> QED
  BY <1>3, <1>5, <1>7

\* So the journal still leads back along the line.
LEMMA SetHistoryLimitExact ==
  ASSUME IInv, JournalExact, SetHistoryLimit
  PROVE  JournalExact'
<1>1. Len(entries) \in Nat /\ Len(past) \in Nat /\ Len(past) <= Len(entries)
  BY DEF IInv, TypeOK, JournalExact
<1>3. \A k \in 0 .. Len(entries') - 1 :
        entries'[Len(entries') - k] = entries[Len(entries) - k]
  BY SetHistoryLimitAgo
<1>5. /\ Len(entries') \in Nat /\ Len(past') \in Nat
      /\ Len(past') <= Len(past) /\ Len(past') <= Len(entries')
  BY SetHistoryLimitAgo
<1>7. \A k \in 0 .. Len(past') : Ago(k)' = Ago(k)
  BY SetHistoryLimitAgo
<1>8. ASSUME NEW k \in 0 .. Len(past') - 1
      PROVE  UndoneBy(entries'[Len(entries') - k], Ago(k)') = Ago(k + 1)'
  <2>1. k \in 0 .. Len(past) - 1 /\ k \in 0 .. Len(entries') - 1
    BY <1>1, <1>5
  <2>2. UndoneBy(entries[Len(entries) - k], Ago(k)) = Ago(k + 1)
    BY <2>1 DEF JournalExact
  <2>3. Ago(k)' = Ago(k) /\ Ago(k + 1)' = Ago(k + 1)
    BY <1>5, <1>7
  <2> QED
    BY <1>3, <2>1, <2>2, <2>3
<1> QED
  BY <1>5, <1>8 DEF JournalExact

\* Whatever a host does between two calls keeps the journal exact.
LEMMA HostExact ==
  ASSUME IInv, JournalExact, Calls \/ SuspendRun \/ Host
  PROVE  JournalExact'
<1>0. Len(entries) \in Nat
  BY DEF IInv, TypeOK
<1>1. CASE Calls \/ SuspendRun
  <2>1. UNCHANGED << core, journal, device, past >>
    BY <1>1
       DEF Calls, CallRun, CallRunBounded, CallStep, CallMicroStep,
           CallStepBack, CallMicroStepBack, Begin, SuspendRun
  <2> QED
    BY <2>1, UntouchedExact DEF core, journal, device, Now
<1>2. CASE Boot \/ Debug \/ Pause \/ Resume \/ SetBreakpoints \/ FeedInput
  <2>1. entries' = entries /\ Now' = Now /\ past' = past
    BY <1>2
       DEF Boot, Debug, Pause, Resume, Transition, SetBreakpoints, FeedInput,
           core, journal, device, Now
  <2> QED
    BY <2>1, UntouchedExact
<1>3. CASE \/ FlashProgram \/ FlashMemory \/ LoadProgram \/ Reset
           \/ ResetWithProgram \/ ClearHistory \/ PokeRegister \/ PokeMemory
  <2>1. past' = << >> /\ (entries' = entries \/ entries' = << >>)
    BY <1>3
       DEF FlashProgram, FlashMemory, LoadProgram, Reset, ResetWithProgram,
           ClearHistory, PokeRegister, PokeMemory, RewindTo, journal
  <2>2. Len(past') = 0 /\ Len(entries') \in Nat
    BY <1>0, <2>1
  <2> QED
    BY <2>2 DEF JournalExact
<1>4. CASE SetHistoryLimit
  BY <1>4, SetHistoryLimitExact
<1> QED
  BY <1>1, <1>2, <1>3, <1>4 DEF Host

\* Every step keeps the journal exact.
LEMMA NextExact ==
  ASSUME IInv, JournalExact, [Next]_vars
  PROVE  JournalExact'
<1>1. CASE UNCHANGED vars
  BY <1>1, UntouchedExact DEF vars, core, journal, device, Now
<1> QED
  BY <1>1, MicroStepExact, MicroStepBackExact, HostExact DEF Next, Turn

\* Rewinding is exact, entry by entry, for every program and every history
\* limit: undoing the last k entries restores the machine of k operations
\* ago, registers, memory, control state and device position.
THEOREM JournalIsExact == Spec => []JournalExact
<1>1. Init => JournalExact
  <2> SUFFICES ASSUME Init PROVE JournalExact
    OBVIOUS
  <2>1. past = << >> /\ entries = << >>
    BY DEF Init, InitWith
  <2> QED
    BY <2>1 DEF JournalExact
<1>2. IInv /\ JournalExact /\ [Next]_vars => JournalExact'
  BY NextExact
<1> QED
  BY <1>1, <1>2, Invariance, PTL DEF Spec

-----------------------------------------------------------------------------
(* The machine implements Timeline.                                        *)

\* A line that is kept whole is kept.
LEMMA KeepsAll ==
  ASSUME NEW S, NEW s \in Seq(S)
  PROVE  TL!Keeps(s, s)
<1>1. Len(s) \in Nat /\ Len(s) - Len(s) + 1 = 1
  OBVIOUS
<1> QED
  BY <1>1, SubSeqFull DEF TL!Keeps

\* A line that is cut is kept as nothing.
LEMMA KeepsNone ==
  ASSUME NEW S, NEW s \in Seq(S)
  PROVE  TL!Keeps(<< >>, s)
<1>1. Len(s) \in Nat /\ Len(<< >>) = 0 /\ Len(s) - 0 + 1 > Len(s)
  OBVIOUS
<1> QED
  BY <1>1, SubSeqEmpty DEF TL!Keeps

\* What History::set_limit leaves is the newest part of the line.
LEMMA KeepsLatest ==
  ASSUME NEW S, NEW s \in Seq(S), NEW n \in Nat
  PROVE  TL!Keeps(Latest(s, n), s)
<1>1. /\ Len(Latest(s, n)) = IF Len(s) < n THEN Len(s) ELSE n
      /\ Len(s) \in Nat
  BY LatestFacts
<1> DEFINE m == Len(Latest(s, n))
<1>2. m \in Nat /\ m <= Len(s)
  BY <1>1, SMT
<1>3. Latest(s, n) = SubSeq(s, Len(s) - m + 1, Len(s))
  <2>1. CASE Len(s) < n
    <3>1. Latest(s, n) = s /\ m = Len(s)
      BY <1>1, <2>1 DEF Latest
    <3>2. Len(s) - m + 1 = 1
      BY <1>1, <3>1
    <3> QED
      BY <3>1, <3>2, SubSeqFull
  <2>2. CASE ~(Len(s) < n)
    BY <1>1, <2>2 DEF Latest
  <2> QED
    BY <2>1, <2>2
<1> QED
  BY <1>2, <1>3 DEF TL!Keeps

\* A step of the machine that is not a step backwards is an Advance, a
\* Forget, a Replace or a refused step.
LEMMA StepsAlongTimeline ==
  ASSUME IInv, JournalExact, [Next]_vars
  PROVE  [TL!Next]_(TL!tvars)
<1>1. past \in Seq(Snapshot) /\ Len(past) \in Nat
  BY DEF IInv, TypeOK
<1>2. TL!Keeps(past, past) /\ TL!Keeps(<< >>, past)
  BY <1>1, KeepsAll, KeepsNone
<1>3. Idle => ~Undoing
  BY DEF Idle, NoCall, Undoing
<1>4. ASSUME Now' = Now, past' = past
      PROVE  TL!Next
  BY <1>2, <1>4 DEF TL!Next, TL!Forget, TL!Refuse
<1>5. CASE MicroStep
  <2>1. ASSUME NEW effect, NEW decoded, NEW comparison,
               Executed(effect, decoded, comparison), ~Undoing
        PROVE  TL!Next
    <3>1. Append(past, Now) \in Seq(Snapshot)
      BY <1>1, NowType
    <3>2. Len(entries') \in Nat
      BY <1>5, MicroStepType DEF IInv, TypeOK
    <3>3. TL!Keeps(past', Append(past, Now))
      BY <2>1, <3>1, <3>2, KeepsLatest DEF Executed
    <3> QED
      BY <2>1, <3>3 DEF TL!Next, TL!Advance
  <2>2. Issuing => ~Undoing
    BY DEF Issuing, Undoing
  <2>3. CASE \/ ExecuteRegisterWrite \/ ExecuteWriteMemory \/ ExecuteDecode
             \/ ExecuteCompare \/ ExecuteNoSkip \/ ExecuteReadInput
             \/ ExecuteWriteOutput
    BY <2>1, <2>2, <2>3
       DEF ExecuteRegisterWrite, ExecuteWriteMemory, ExecuteDecode,
           ExecuteCompare, ExecuteNoSkip, ExecuteReadInput,
           ExecuteWriteOutput, Issues
  <2>4. CASE \/ FaultInvalidOpcode \/ StallOnInput \/ FaultOnInput
             \/ FaultOnOutput \/ ExecuteHalt
    <3>1. UNCHANGED << core, device, past >>
      BY <2>4 DEF FaultInvalidOpcode, StallOnInput, FaultOnInput,
                  FaultOnOutput, ExecuteHalt, Stopped
    <3> QED
      BY <1>4, <3>1 DEF core, device, Now
  <2> QED
    BY <1>5, <2>3, <2>4 DEF MicroStep
<1>6. CASE MicroStepBack
  <2>1. Undoing
    BY <1>6
       DEF MicroStepBack, UndoNothing, UndoRegister, UndoMemory, UndoInput,
           UndoOutput, RefuseNoHistory, RefuseInput, RefuseOutput, Undoes
  <2> QED
    BY <1>6, <2>1, MicroStepBackExact
       DEF TL!Next, TL!Back, TL!BackBeyond, TL!Refuse, TL!Last, TL!Front,
           Last, Front
<1>7. CASE Calls \/ SuspendRun
  <2>1. UNCHANGED << core, device, past >>
    BY <1>7
       DEF Calls, CallRun, CallRunBounded, CallStep, CallMicroStep,
           CallStepBack, CallMicroStepBack, Begin, SuspendRun
  <2> QED
    BY <1>4, <2>1 DEF core, device, Now
<1>8. CASE Host
  <2>1. Idle
    BY <1>8
       DEF Host, Boot, Debug, Pause, Resume, Transition, FlashProgram,
           FlashMemory, LoadProgram, Reset, ResetWithProgram,
           SetHistoryLimit, ClearHistory, SetBreakpoints, PokeRegister,
           PokeMemory, FeedInput
  <2>2. CASE Boot \/ Debug \/ Pause \/ Resume \/ SetBreakpoints \/ FeedInput
    <3>1. Now' = Now /\ past' = past
      BY <2>2
         DEF Boot, Debug, Pause, Resume, Transition, SetBreakpoints,
             FeedInput, core, device, Now
    <3> QED
      BY <1>4, <3>1
  <2>3. CASE \/ FlashProgram \/ FlashMemory \/ LoadProgram \/ Reset
             \/ ResetWithProgram \/ ClearHistory \/ PokeRegister \/ PokeMemory
    <3>1. past' = << >>
      BY <2>3
         DEF FlashProgram, FlashMemory, LoadProgram, Reset, ResetWithProgram,
             ClearHistory, PokeRegister, PokeMemory, RewindTo
    <3> QED
      BY <1>3, <2>1, <3>1 DEF TL!Next, TL!Replace
  <2>4. CASE SetHistoryLimit
    <3>1. PICK n \in Nat : past' = Latest(past, n)
      BY <2>4, ConstantsAssumption DEF SetHistoryLimit
    <3>2. Now' = Now
      BY <2>4 DEF SetHistoryLimit, Now, core, device
    <3>3. TL!Keeps(past', past)
      BY <1>1, <3>1, KeepsLatest
    <3> QED
      BY <1>3, <2>1, <3>2, <3>3 DEF TL!Next, TL!Forget
  <2> QED
    BY <1>8, <2>2, <2>3, <2>4 DEF Host
<1>9. CASE UNCHANGED vars
  BY <1>9 DEF vars, core, journal, device, TL!tvars, Now, Undoing
<1> QED
  BY <1>5, <1>6, <1>7, <1>8, <1>9 DEF Next, Turn

\* The machine of mrs-vm implements Timeline: stepping backwards retraces
\* the machine's own past states, one at a time, or refuses to move.
THEOREM RewindingRefinesTimeline == Spec => RewindsAlongTimeline
<1>1. Init => TL!Init
  BY DEF Init, InitWith, TL!Init, Undoing, NoCall
<1>2. IInv /\ JournalExact /\ [Next]_vars => [TL!Next]_(TL!tvars)
  BY StepsAlongTimeline
<1> QED
  BY <1>1, <1>2, Invariance, JournalIsExact, PTL
     DEF Spec, RewindsAlongTimeline, TL!Spec

-----------------------------------------------------------------------------
(* The picture.                                                            *)

\* A pixel drawn right stays right: whatever a call does to display memory,
\* forwards or backwards, it tells the device, for every program and every
\* history limit.
THEOREM PictureIsTracked == Spec => PictureStaysRight
<1> DEFINE Stays == \A a \in DisplayAddr :
                      canvas[a] = memory[a] => canvas'[a] = memory'[a]
<1>1. ASSUME memory' = memory, canvas' = canvas
      PROVE  Stays
  BY <1>1
<1>2. ASSUME IInv, NEW address \in Addr, NEW value \in Word,
             memory' = [memory EXCEPT ![address] = value],
             canvas' = Painted(address, memory[address], value)
      PROVE  Stays
  <2>1. memory \in [Addr -> Word] /\ canvas \in [DisplayAddr -> Word]
    BY <1>2 DEF IInv, TypeOK
  <2> SUFFICES ASSUME NEW a \in DisplayAddr, canvas[a] = memory[a]
               PROVE  canvas'[a] = memory'[a]
    OBVIOUS
  <2>2. a \in Addr
    BY DisplayOriginAssumption, MemoryWordsAssumption DEF DisplayAddr, Addr
  <2> QED
    BY <1>2, <2>1, <2>2 DEF Painted
<1>3. IInv /\ [Next]_vars => [~Idle => Stays]_vars
  <2> SUFFICES ASSUME IInv, Next, ~Idle
               PROVE  Stays
    OBVIOUS
  <2>1. CASE ExecuteWriteMemory
    <3>1. registers["Mar"] \in Addr /\ registers["Mbr"] \in Word
      BY DEF IInv, TypeOK, RegisterFile, Register
    <3>2. /\ memory' = [memory EXCEPT ![registers["Mar"]] = registers["Mbr"]]
          /\ canvas' = Painted(registers["Mar"], memory[registers["Mar"]],
                               registers["Mbr"])
      BY <2>1 DEF ExecuteWriteMemory
    <3> HIDE DEF Stays
    <3> QED
      BY <1>2, <3>1, <3>2
  <2>2. CASE UndoMemory
    <3>1. entries # << >> /\ Last(entries).effect.kind = "Memory"
      BY <2>2 DEF UndoMemory, Undoes
    <3>2. /\ Last(entries).effect.address \in Addr
          /\ Last(entries).effect.previous \in Word
      BY <3>1, LastEntry, EffectFields
    <3> QED
      BY <1>2, <2>2, <3>2 DEF UndoMemory
  <2>3. CASE \/ ExecuteRegisterWrite \/ ExecuteDecode \/ ExecuteCompare
             \/ ExecuteNoSkip \/ ExecuteReadInput \/ ExecuteWriteOutput
             \/ FaultInvalidOpcode \/ StallOnInput \/ FaultOnInput
             \/ FaultOnOutput \/ ExecuteHalt
    <3>1. memory' = memory /\ canvas' = canvas
      BY <2>3
         DEF ExecuteRegisterWrite, ExecuteDecode, ExecuteCompare,
             ExecuteNoSkip, ExecuteReadInput, ExecuteWriteOutput,
             FaultInvalidOpcode, StallOnInput, FaultOnInput, FaultOnOutput,
             ExecuteHalt, Stopped, core, device
    <3> QED
      BY <1>1, <3>1
  <2>4. CASE \/ SuspendRun \/ UndoNothing \/ UndoRegister \/ UndoInput
             \/ UndoOutput \/ RefuseNoHistory \/ RefuseInput \/ RefuseOutput
    <3>1. memory' = memory /\ canvas' = canvas
      BY <2>4
         DEF SuspendRun, UndoNothing, UndoRegister, UndoInput, UndoOutput,
             RefuseNoHistory, RefuseInput, RefuseOutput, Refused, core, device
    <3> QED
      BY <1>1, <3>1
  <2>5. ~Calls /\ ~Host
    BY DEF Calls, CallRun, CallRunBounded, CallStep, CallMicroStep,
           CallStepBack, CallMicroStepBack, Begin, Host, Boot, Debug, Pause,
           Resume, Transition, FlashProgram, FlashMemory, LoadProgram, Reset,
           ResetWithProgram, SetHistoryLimit, ClearHistory, SetBreakpoints,
           PokeRegister, PokeMemory, FeedInput
  <2> QED
    BY <2>1, <2>2, <2>3, <2>4, <2>5 DEF Next, Turn, MicroStep, MicroStepBack
<1> QED
  BY <1>3, Invariance, PTL DEF Spec, PictureStaysRight

-----------------------------------------------------------------------------
(* step_back goes back one instruction.                                    *)

\* Control state d is the one after c in a cycle of an instruction.
NextAfter(c, d) ==
  \/ d.micro_pc = c.micro_pc + 1
  \/ /\ d.micro_pc = 0 /\ c.micro_pc >= 5
     /\ c.micro_pc + 1 = CycleLength(c.decoded.opcode)

\* The control state k entries ago.
ControlAgo(k) == IF k = 0 THEN control ELSE entries[Len(entries) - k + 1].control

\* The journal has no gaps, whatever the host poked, evicted or forgot.
Chained == \A k \in 0 .. Len(entries) - 1 : NextAfter(ControlAgo(k + 1), ControlAgo(k))

WordAt(b) == b.memory[b.registers["Pc"]]

\* Machine s is part-way through the instruction that begins at machine b.
Fetched(s, b) ==
  LET m == s.control.micro_pc
  IN  /\ m = 1 => s.memory = b.memory /\ s.registers["Mar"] = b.registers["Pc"]
      /\ m = 2 => s.registers["Mbr"] = WordAt(b)
      /\ m \in {3, 4} => s.registers["Ir"] = WordAt(b)
      /\ m >= 5 => s.control.decoded = Decode(WordAt(b))

\* So is every machine of the line whose instruction begins on it.
Trailed ==
  \A k \in 0 .. Len(past), j \in 0 .. Len(past) :
    j = k + Ago(k).control.micro_pc => Fetched(Ago(k), Ago(j))

\* How far step_back is: what is left of the instruction and what has been
\* undone of it are the part that ran, or the whole.
BackCounted ==
  call.api = "step_back" =>
    IF call.done = 0 THEN control.micro_pc = call.from
    ELSE /\ control.micro_pc > 0
         /\ call.from > 0 => call.done + control.micro_pc = call.from
         /\ \A j \in 0 .. Len(past) : call.from = 0 /\ j = control.micro_pc =>
              call.done + j = CycleLength(Decode(WordAt(Ago(j))).opcode)

\* The machines of the line are typed.
LEMMA AgoType ==
  ASSUME IInv, NEW k \in 0 .. Len(past)
  PROVE  Ago(k) \in Snapshot /\ Ago(k).control \in Control
         /\ Ago(k).control.micro_pc \in 0 .. 9
<1>1. past \in Seq(Snapshot) /\ Len(past) \in Nat
  BY DEF IInv, TypeOK
<1>2. Ago(k) \in Snapshot
  <2>1. CASE k = 0
    BY <2>1, NowType DEF Ago
  <2>2. CASE k # 0
    <3>1. Len(past) - k + 1 \in 1 .. Len(past)
      BY <1>1, <2>2
    <3> QED
      BY <1>1, <2>2, <3>1 DEF Ago
  <2> QED
    BY <2>1, <2>2
<1> QED
  BY <1>2 DEF Snapshot, Control

\* Going on by one operation.
Advances ==
  /\ Len(entries') \in Nat /\ Len(entries') <= Len(entries) + 1
  /\ \A k \in 1 .. Len(entries') : ControlAgo(k)' = ControlAgo(k - 1)
  /\ Len(past') \in Nat /\ Len(past') <= Len(past) + 1
  /\ \A k \in 1 .. Len(past') : Ago(k)' = Ago(k - 1)

LEMMA ExecutedAdvances ==
  ASSUME IInv, NEW effect \in Effect, NEW decoded, NEW comparison,
         Executed(effect, decoded, comparison)
  PROVE  Advances
<1>1. Len(entries) \in Nat
  BY DEF IInv, TypeOK
<1>2. ASSUME NEW k \in 1 .. Len(entries')
      PROVE  ControlAgo(k)' = ControlAgo(k - 1)
  <2>1. Len(entries') \in Nat /\ k - 1 \in 0 .. Len(entries') - 1
    BY ExecutedAgo
  <2>2. entries'[Len(entries') - (k - 1)]
          = IF k - 1 = 0
            THEN [control |-> control, micro_op |-> CurrentOp, effect |-> effect]
            ELSE entries[Len(entries) - (k - 1) + 1]
    BY <2>1, ExecutedAgo
  <2>3. ControlAgo(k)' = entries'[Len(entries') - (k - 1)].control
    BY <2>1 DEF ControlAgo
  <2> QED
    BY <1>1, <2>1, <2>2, <2>3 DEF ControlAgo
<1> QED
  BY <1>2, ExecutedAgo DEF Advances

\* A micro-operation goes on by one, or is as if it had not been tried.
LEMMA MicroStepAdvances ==
  ASSUME IInv, MicroStep
  PROVE  Advances \/ UNCHANGED << core, journal, device, past >>
<1>1. /\ registers \in [Register -> Word] /\ registers["Mar"] \in Addr
      /\ memory \in [Addr -> Word] /\ inputs \in Seq(Word)
  BY DEF IInv, TypeOK, RegisterFile
<1>2. CASE ExecuteRegisterWrite
  <2>1. Target \in Register
    BY <1>2, RegisterWriteType DEF IInv, ExecuteRegisterWrite
  <2>2. RegisterEffect(Target) \in Effect
    BY <1>1, <2>1, EffectType DEF RegisterEffect
  <2> QED
    BY <1>2, <2>2, ExecutedAdvances DEF ExecuteRegisterWrite
<1>3. CASE ExecuteWriteMemory
  <2>1. [kind |-> "Memory", address |-> registers["Mar"],
         previous |-> memory[registers["Mar"]]] \in Effect
    BY <1>1, EffectType
  <2> QED
    BY <1>3, <2>1, ExecutedAdvances DEF ExecuteWriteMemory
<1>4. CASE ExecuteDecode
  BY <1>4, EffectType, ExecutedAdvances DEF ExecuteDecode
<1>5. CASE ExecuteCompare
  BY <1>5, EffectType, ExecutedAdvances DEF ExecuteCompare
<1>6. CASE ExecuteNoSkip
  BY <1>6, EffectType, ExecutedAdvances DEF ExecuteNoSkip
<1>7. CASE ExecuteReadInput
  <2>1. [kind |-> "InputRead", previous |-> registers["In"],
         value |-> Head(inputs)] \in Effect
    BY <1>1, <1>7, EffectType DEF ExecuteReadInput, Register
  <2> QED
    BY <1>7, <2>1, ExecutedAdvances DEF ExecuteReadInput
<1>8. CASE ExecuteWriteOutput
  <2>1. [kind |-> "OutputWritten", value |-> registers["Out"]] \in Effect
    BY <1>1, EffectType DEF Register
  <2> QED
    BY <1>8, <2>1, ExecutedAdvances DEF ExecuteWriteOutput
<1>9. CASE \/ FaultInvalidOpcode \/ StallOnInput \/ FaultOnInput
           \/ FaultOnOutput \/ ExecuteHalt
  BY <1>9 DEF FaultInvalidOpcode, StallOnInput, FaultOnInput, FaultOnOutput,
              ExecuteHalt, Stopped
<1> QED
  BY <1>2, <1>3, <1>4, <1>5, <1>6, <1>7, <1>8, <1>9 DEF MicroStep

\* Going back by one.
LEMMA UndoneRetreats ==
  ASSUME IInv, entries # << >>, Undone
  PROVE  /\ Len(entries) \in Nat /\ Len(entries) >= 1 /\ Len(entries') = Len(entries) - 1
         /\ \A k \in 0 .. Len(entries') : ControlAgo(k)' = ControlAgo(k + 1)
<1>1. entries \in Seq(Entry) /\ entries' = Front(entries) /\ Len(entries) \in Nat
  BY DEF IInv, TypeOK, Undone
<1>2. /\ Len(entries) >= 1 /\ Len(entries') = Len(entries) - 1
      /\ \A i \in 1 .. Len(entries') : entries'[i] = entries[i]
  BY <1>1, FrontFacts
<1>3. ASSUME NEW k \in 0 .. Len(entries')
      PROVE  ControlAgo(k)' = ControlAgo(k + 1)
  <2>1. CASE k = 0
    BY <1>1, <2>1 DEF ControlAgo, Undone, Last
  <2>2. CASE k # 0
    <3>1. Len(entries') - k + 1 \in 1 .. Len(entries')
      BY <1>1, <1>2, <2>2
    <3>2. Len(entries') - k + 1 = Len(entries) - (k + 1) + 1
      BY <1>1, <1>2
    <3> QED
      BY <1>1, <1>2, <2>2, <3>1, <3>2 DEF ControlAgo
  <2> QED
    BY <2>1, <2>2
<1> QED
  BY <1>1, <1>2, <1>3

\* A micro-operation takes the control state to the one after it.
LEMMA RanFollows ==
  ASSUME IInv, Ran
  PROVE  /\ NextAfter(control, control')
         /\ control.micro_pc \in 0 .. 9
         /\ control'.micro_pc # 0 => control'.micro_pc = control.micro_pc + 1
<1>1. control \in Control /\ InCycle(control) /\ control.micro_pc \in 0 .. 9
  BY DEF IInv, TypeOK, Control
<1>2. /\ CurrentOp.op = "Decode" <=> control.micro_pc = 4
      /\ control.micro_pc > 4 => control.decoded \in Instruction
      /\ control.decoded \in Instruction \cup {NoInstruction}
  BY <1>1, CurrentOpFacts DEF Control
<1>3. control'.micro_pc = AdvancedMicroPc(control'.decoded)
  BY DEF Ran
<1>4. CASE control.micro_pc < 4
  <2>1. control'.decoded = control.decoded
    BY <1>2, <1>4 DEF Ran
  <2>2. control'.decoded # NoInstruction => CycleLength(control'.decoded.opcode) \in 6 .. 10
    BY <1>2, <2>1, CycleLengthType DEF Instruction
  <2>3. control'.micro_pc = control.micro_pc + 1
    BY <1>1, <1>3, <1>4, <2>2, FetchFacts DEF AdvancedMicroPc
  <2> QED
    BY <1>1, <2>3 DEF NextAfter
<1>5. CASE control.micro_pc = 4
  <2>1. control'.decoded = Decode(registers["Ir"]) /\ control'.decoded # NoInstruction
    BY <1>2, <1>5 DEF Ran
  <2>2. registers["Ir"] \in Word
    BY DEF IInv, TypeOK, RegisterFile, Register
  <2>3. control'.decoded \in Instruction
    BY <2>1, <2>2, DecodeType
  <2>4. CycleLength(control'.decoded.opcode) \in 6 .. 10
    BY <2>3, CycleLengthType DEF Instruction
  <2>5. control'.micro_pc = 5
    BY <1>3, <1>5, <2>1, <2>4 DEF AdvancedMicroPc
  <2> QED
    BY <1>1, <1>5, <2>5 DEF NextAfter
<1>6. CASE control.micro_pc > 4
  <2>1. control'.decoded = control.decoded /\ control.decoded \in Instruction
    BY <1>2, <1>6 DEF Ran
  <2>2. CycleLength(control.decoded.opcode) \in 6 .. 10 /\ control.decoded # NoInstruction
    BY <2>1, CycleLengthType, NoInstructionIsNone DEF Instruction
  <2>3. control.micro_pc < CycleLength(control.decoded.opcode)
    BY <1>1, <1>6, FetchFacts DEF InCycle
  <2> QED
    BY <1>1, <1>3, <1>6, <2>1, <2>2, <2>3 DEF AdvancedMicroPc, NextAfter
<1> QED
  BY <1>1, <1>4, <1>5, <1>6

\* And keeps the machine on the instruction it began.
LEMMA RanFetches ==
  ASSUME IInv, Ran, control'.micro_pc # 0, NEW b, Fetched(Now, b),
         control.micro_pc = 0 => b = Now
  PROVE  Fetched(Now', b)
<1>1. /\ control \in Control /\ InCycle(control) /\ control.micro_pc \in 0 .. 9
      /\ registers \in [Register -> Word] /\ registers["Pc"] \in Addr
  BY DEF IInv, TypeOK, Control, RegisterFile
<1>2. control'.micro_pc = control.micro_pc + 1
  BY RanFollows
<1>3. /\ Now'.control = control' /\ Now'.registers = registers' /\ Now'.memory = memory'
      /\ Now.control = control /\ Now.registers = registers /\ Now.memory = memory
  BY DEF Now
<1>4. control.micro_pc < 5 => CurrentOp = FetchDecode[control.micro_pc + 1]
  BY <1>1, FetchFacts DEF CurrentOp
<1>5. CASE control.micro_pc = 0
  <2>1. CurrentOp = Transfer("Mar", "Pc")
    BY <1>4, <1>5 DEF FetchDecode
  <2>2. Moves("Mar", Masked(registers["Pc"]))
    BY <2>1, TransferMoves DEF IInv, Register
  <2>3. Masked(registers["Pc"]) = registers["Pc"]
    BY <1>1, MaskedAddr
  <2> QED
    BY <1>1, <1>2, <1>3, <1>5, <2>2, <2>3 DEF Fetched, Moves, Register
<1>6. CASE control.micro_pc = 1
  <2>1. CurrentOp = ReadMemory
    BY <1>4, <1>6 DEF FetchDecode
  <2>2. Moves("Mbr", memory[registers["Mar"]])
    BY <2>1, PlainMoves DEF IInv
  <2> QED
    BY <1>1, <1>2, <1>3, <1>6, <2>2 DEF Fetched, Moves, Register, WordAt
<1>7. CASE control.micro_pc = 2
  <2>1. CurrentOp = Transfer("Ir", "Mbr")
    BY <1>4, <1>7 DEF FetchDecode
  <2>2. Moves("Ir", registers["Mbr"])
    BY <2>1, TransferMoves DEF IInv, Register
  <2> QED
    BY <1>1, <1>2, <1>3, <1>7, <2>2 DEF Fetched, Moves, Register, WordAt
<1>8. CASE control.micro_pc = 3
  <2>1. CurrentOp = IncrementPc
    BY <1>4, <1>8 DEF FetchDecode
  <2>2. Moves("Pc", NextAddr(registers["Pc"]))
    BY <2>1, PlainMoves DEF IInv
  <2> QED
    BY <1>1, <1>2, <1>3, <1>8, <2>2 DEF Fetched, Moves, Register, WordAt
<1>9. CASE control.micro_pc = 4
  <2>1. control'.decoded = Decode(registers["Ir"])
    BY <1>1, <1>9, CurrentOpFacts DEF Ran
  <2> QED
    BY <1>1, <1>2, <1>3, <1>9, <2>1 DEF Fetched
<1>10. CASE control.micro_pc > 4
  <2>1. control'.decoded = control.decoded
    BY <1>1, <1>10, CurrentOpFacts DEF Ran
  <2> QED
    BY <1>1, <1>2, <1>3, <1>10, <2>1 DEF Fetched
<1> QED
  BY <1>1, <1>5, <1>6, <1>7, <1>8, <1>9, <1>10

\* The invariant of stepping backwards.
BackInv == JournalExact /\ Chained /\ Trailed /\ BackCounted

\* An empty line begins no instruction but the next.
LEMMA EmptyTrail ==
  ASSUME IInv', past' = << >>
  PROVE  Trailed'
<1>1. Len(past') = 0 /\ control'.micro_pc \in 0 .. 9
  BY DEF IInv, TypeOK, Control
<1>2. SUFFICES ASSUME 0 = 0 + Ago(0)'.control.micro_pc
               PROVE  Fetched(Ago(0)', Ago(0)')
  BY <1>1 DEF Trailed
<1>3. Ago(0)'.control.micro_pc = 0
  BY <1>1, <1>2 DEF Ago, Now
<1> QED
  BY <1>3 DEF Fetched

\* Nothing that leaves machine, journal and line alone can break it.
LEMMA UntouchedBack ==
  ASSUME IInv', Chained, Trailed, control' = control, entries' = entries, Now' = Now,
         past' = past \/ past' = << >>
  PROVE  Chained' /\ Trailed'
<1>1. Chained'
  BY DEF Chained, ControlAgo
<1>2. CASE past' = past
  <2>1. \A k : Ago(k)' = Ago(k)
    BY <1>2 DEF Ago
  <2> QED
    BY <1>1, <1>2, <2>1 DEF Trailed
<1> QED
  BY <1>1, <1>2, EmptyTrail

\* Going on keeps it.
LEMMA AdvanceBack ==
  ASSUME IInv, IInv', Chained, Trailed, Ran, Advances
  PROVE  Chained' /\ Trailed'
<1>1. /\ Len(entries) \in Nat /\ Len(past) \in Nat
      /\ Len(past') \in Nat /\ Len(past') <= Len(past) + 1
  BY DEF IInv, TypeOK, Advances
<1>2. ASSUME NEW k \in 0 .. Len(entries') - 1
      PROVE  NextAfter(ControlAgo(k + 1)', ControlAgo(k)')
  <2>1. ControlAgo(k + 1)' = ControlAgo(k)
    BY <1>1 DEF Advances
  <2>2. CASE k = 0
    BY <2>1, <2>2, RanFollows DEF ControlAgo
  <2>3. CASE k # 0
    <3>1. k - 1 \in 0 .. Len(entries) - 1 /\ k \in 1 .. Len(entries')
      BY <1>1, <2>3 DEF Advances
    <3>2. NextAfter(ControlAgo((k - 1) + 1), ControlAgo(k - 1))
      BY <3>1 DEF Chained
    <3>3. ControlAgo(k)' = ControlAgo(k - 1) /\ (k - 1) + 1 = k
      BY <3>1 DEF Advances
    <3> QED
      BY <2>1, <3>2, <3>3
  <2> QED
    BY <2>2, <2>3
<1>3. Chained'
  BY <1>2 DEF Chained
<1>4. ASSUME NEW k \in 0 .. Len(past'), NEW j \in 0 .. Len(past'),
             j = k + Ago(k)'.control.micro_pc
      PROVE  Fetched(Ago(k)', Ago(j)')
  <2>1. CASE k = 0
    <3>1. /\ Ago(k)' = Now' /\ Now'.control = control' /\ Now.control = control
          /\ Ago(0) = Now
      BY <2>1 DEF Ago, Now
    <3>2. control.micro_pc \in 0 .. 9 /\ control'.micro_pc \in 0 .. 9
      BY DEF IInv, TypeOK, Control
    <3>3. CASE control'.micro_pc = 0
      BY <3>1, <3>3 DEF Fetched
    <3>4. CASE control'.micro_pc # 0
      <4> DEFINE i == control.micro_pc
      <4>1. j = i + 1
        BY <1>4, <2>1, <3>1, <3>2, <3>4, RanFollows
      <4>2. j \in 1 .. Len(past') /\ j - 1 = i /\ i \in 0 .. Len(past)
        <5>1. i \in 0 .. 9 /\ j \in 0 .. Len(past')
          BY <1>4, <3>2
        <5> HIDE DEF i
        <5> QED
          BY <1>1, <4>1, <5>1
      <4>3. Ago(j)' = Ago(j - 1)
        BY <4>2 DEF Advances
      <4>4. Fetched(Ago(0), Ago(i))
        <5>1. i = 0 + Ago(0).control.micro_pc /\ 0 \in 0 .. Len(past)
          BY <1>1, <3>1, <3>2
        <5> HIDE DEF i
        <5> QED
          BY <4>2, <5>1 DEF Trailed
      <4>5. i = 0 => Ago(i) = Now
        BY DEF Ago
      <4> QED
        BY <3>1, <3>4, <4>2, <4>3, <4>4, <4>5, RanFetches
    <3> QED
      BY <3>3, <3>4
  <2>2. CASE k # 0
    <3>1. k - 1 \in 0 .. Len(past) /\ k \in 1 .. Len(past')
      BY <1>1, <2>2 DEF Advances
    <3>2. Ago(k)' = Ago(k - 1)
      BY <3>1 DEF Advances
    <3>3. Ago(k - 1).control.micro_pc \in 0 .. 9
      BY <3>1, AgoType
    <3>4. j = k + Ago(k - 1).control.micro_pc /\ j \in 0 .. Len(past')
      BY <1>4, <3>2
    <3>5. /\ j - 1 = (k - 1) + Ago(k - 1).control.micro_pc
          /\ j - 1 \in 0 .. Len(past) /\ j \in 1 .. Len(past')
      <4> DEFINE m == Ago(k - 1).control.micro_pc
      <4>1. m \in 0 .. 9 /\ j = k + m
        BY <3>3, <3>4
      <4> HIDE DEF m
      <4>2. /\ j - 1 = (k - 1) + m
            /\ j - 1 \in 0 .. Len(past) /\ j \in 1 .. Len(past')
        BY <1>1, <3>1, <3>4, <4>1
      <4> QED
        BY <4>2 DEF m
    <3>6. Ago(j)' = Ago(j - 1)
      BY <3>5 DEF Advances
    <3>7. Fetched(Ago(k - 1), Ago(j - 1))
      BY <3>1, <3>5 DEF Trailed
    <3> QED
      BY <3>2, <3>6, <3>7
  <2> QED
    BY <2>1, <2>2
<1>5. Trailed'
  BY <1>4 DEF Trailed
<1> QED
  BY <1>3, <1>5

\* Going back keeps it.
LEMMA RetreatBack ==
  ASSUME IInv, IInv', JournalExact, Chained, Trailed, entries # << >>, Undone,
         Now' = UndoneBy(Last(entries), Now)
  PROVE  Chained' /\ Trailed'
<1>1. Len(past) \in Nat /\ Len(past') \in Nat
  BY DEF IInv, TypeOK
<1>2. ASSUME NEW k \in 0 .. Len(entries') - 1
      PROVE  NextAfter(ControlAgo(k + 1)', ControlAgo(k)')
  <2>1. k + 1 \in 0 .. Len(entries') /\ k \in 0 .. Len(entries')
        /\ k + 1 \in 0 .. Len(entries) - 1
    BY UndoneRetreats
  <2> QED
    BY <2>1, UndoneRetreats DEF Chained
<1>3. Chained'
  BY <1>2 DEF Chained
<1>4. CASE past = << >>
  BY <1>3, <1>4, EmptyTrail DEF Undone
<1>5. CASE past # << >>
  <2>1. /\ Len(past') = Len(past) - 1 /\ Len(past) >= 1
        /\ \A k \in 0 .. Len(past') : Ago(k)' = Ago(k + 1)
    BY <1>5, UndoneAgo
  <2>2. ASSUME NEW k \in 0 .. Len(past'), NEW j \in 0 .. Len(past'),
               j = k + Ago(k)'.control.micro_pc
        PROVE  Fetched(Ago(k)', Ago(j)')
    <3>1. /\ Ago(k)' = Ago(k + 1) /\ k + 1 \in 0 .. Len(past)
          /\ Ago(j)' = Ago(j + 1) /\ j + 1 \in 0 .. Len(past)
      BY <1>1, <2>1
    <3>2. Ago(k + 1).control.micro_pc \in 0 .. 9
      BY <3>1, AgoType
    <3>3. j = k + Ago(k + 1).control.micro_pc
      BY <2>2, <3>1
    <3>4. j + 1 = (k + 1) + Ago(k + 1).control.micro_pc
      <4> DEFINE m == Ago(k + 1).control.micro_pc
      <4>1. m \in 0 .. 9 /\ j = k + m
        BY <3>2, <3>3
      <4> HIDE DEF m
      <4>2. j + 1 = (k + 1) + m
        BY <4>1
      <4> QED
        BY <4>2 DEF m
    <3>5. Fetched(Ago(k + 1), Ago(j + 1))
      BY <3>1, <3>4 DEF Trailed
    <3> QED
      BY <3>1, <3>5
  <2> QED
    BY <1>3, <2>2 DEF Trailed
<1> QED
  BY <1>4, <1>5

\* Forgetting the oldest entries keeps it.
LEMMA SetHistoryLimitBack ==
  ASSUME IInv, IInv', JournalExact, Chained, Trailed, SetHistoryLimit
  PROVE  Chained' /\ Trailed'
<1>1. /\ Len(entries) \in Nat /\ Len(past) \in Nat
      /\ Len(entries') \in Nat /\ Len(past') \in Nat
      /\ Len(entries') <= Len(entries) /\ Len(past') <= Len(past)
      /\ control' = control
  BY SetHistoryLimitAgo DEF IInv, TypeOK, SetHistoryLimit, core
<1>2. ASSUME NEW k \in 0 .. Len(entries')
      PROVE  ControlAgo(k)' = ControlAgo(k)
  <2>1. CASE k = 0
    BY <1>1, <2>1 DEF ControlAgo
  <2>2. CASE k # 0
    <3>1. k - 1 \in 0 .. Len(entries') - 1
      BY <1>1, <2>2
    <3>2. entries'[Len(entries') - (k - 1)] = entries[Len(entries) - (k - 1)]
      BY <3>1, SetHistoryLimitAgo
    <3>3. /\ Len(entries') - (k - 1) = Len(entries') - k + 1
          /\ Len(entries) - (k - 1) = Len(entries) - k + 1
      BY <1>1
    <3> QED
      BY <2>2, <3>2, <3>3 DEF ControlAgo
  <2> QED
    BY <2>1, <2>2
<1>3. Chained'
  <2> SUFFICES ASSUME NEW k \in 0 .. Len(entries') - 1
               PROVE  NextAfter(ControlAgo(k + 1)', ControlAgo(k)')
    BY DEF Chained
  <2>1. k \in 0 .. Len(entries') /\ k + 1 \in 0 .. Len(entries')
        /\ k \in 0 .. Len(entries) - 1
    BY <1>1
  <2> QED
    BY <1>2, <2>1 DEF Chained
<1>4. ASSUME NEW k \in 0 .. Len(past'), NEW j \in 0 .. Len(past'),
             j = k + Ago(k)'.control.micro_pc
      PROVE  Fetched(Ago(k)', Ago(j)')
  <2>1. /\ Ago(k)' = Ago(k) /\ Ago(j)' = Ago(j)
        /\ k \in 0 .. Len(past) /\ j \in 0 .. Len(past)
    BY <1>1, SetHistoryLimitAgo
  <2>2. j = k + Ago(k).control.micro_pc
    BY <1>4, <2>1
  <2> QED
    BY <2>1, <2>2 DEF Trailed
<1>5. Trailed'
  BY <1>4 DEF Trailed
<1> QED
  BY <1>3, <1>5

\* What one undo does to the count, and what it has undone when it returns.
LEMMA UndoCounts ==
  ASSUME IInv, IInv', BackInv, entries # << >>, Undone, call.api = "step_back",
         Now' = UndoneBy(Last(entries), Now)
  PROVE  /\ BackCounted'
         /\ control'.micro_pc = 0 =>
              /\ call.from > 0 => call.done + 1 = call.from
              /\ call.from = 0 /\ past # << >> =>
                   call.done + 1
                     = CycleLength(Decode(memory'[registers'["Pc"]]).opcode)
<1>1. /\ call \in Call /\ call.done \in Nat /\ call.from \in 0 .. 9
      /\ control.micro_pc \in 0 .. 9 /\ control'.micro_pc \in 0 .. 9
      /\ InCycle(control') /\ control' \in Control
      /\ Len(past) \in Nat /\ Len(past') \in Nat
  BY DEF IInv, TypeOK, Control, Call
<1>2. NextAfter(control', control)
  <2>1. 0 \in 0 .. Len(entries) - 1 /\ 0 \in 0 .. Len(entries')
    BY UndoneRetreats
  <2>2. NextAfter(ControlAgo(0 + 1), ControlAgo(0))
    BY <2>1 DEF BackInv, Chained
  <2>3. ControlAgo(0)' = ControlAgo(0 + 1)
    BY <2>1, UndoneRetreats
  <2> QED
    BY <2>2, <2>3 DEF ControlAgo
<1>3. past # << >> => /\ Len(past') = Len(past) - 1 /\ Len(past) >= 1
                      /\ \A k \in 0 .. Len(past') : Ago(k)' = Ago(k + 1)
  BY UndoneAgo DEF BackInv
<1>4. past = << >> => Len(past) = 0 /\ Len(past') = 0
  BY DEF Undone
<1>5. CASE call.done = 0 /\ call.from = 0
  <2>1. /\ control.micro_pc = 0 /\ control'.micro_pc >= 5
        /\ control'.micro_pc + 1 = CycleLength(control'.decoded.opcode)
    BY <1>1, <1>2, <1>5 DEF BackInv, BackCounted, NextAfter
  <2>2. call' = [call EXCEPT !.done = 1]
    BY <1>1, <1>5, <2>1 DEF Undone
  <2>3. /\ call'.api = "step_back" /\ call'.done = 1 /\ call'.from = 0
    BY <1>1, <1>5, <2>2 DEF Call
  <2>4. ASSUME NEW j \in 0 .. Len(past'), j = control'.micro_pc
        PROVE  1 + j = CycleLength(Decode(WordAt(Ago(j)')).opcode)
    <3>1. Trailed'
      BY RetreatBack DEF BackInv
    <3>2. Ago(0)' = Now' /\ Now'.control = control' /\ 0 \in 0 .. Len(past')
      BY <1>1 DEF Ago, Now
    <3>3. j = 0 + Ago(0)'.control.micro_pc
      BY <1>1, <2>4, <3>2
    <3>4. Fetched(Now', Ago(j)')
      BY <3>1, <3>2, <3>3 DEF Trailed
    <3> QED
      BY <2>1, <2>4, <3>2, <3>4, <1>1 DEF Fetched
  <2>5. control'.micro_pc > 0
    BY <1>1, <2>1
  <2>6. BackCounted'
    BY <2>3, <2>4, <2>5 DEF BackCounted, WordAt
  <2> QED
    BY <2>1, <2>6
<1>6. CASE ~(call.done = 0 /\ call.from = 0)
  <2>1. /\ control.micro_pc > 0
        /\ call.from > 0 => call.done + control.micro_pc = call.from
        /\ \A j \in 0 .. Len(past) : call.from = 0 /\ j = control.micro_pc =>
             call.done + j = CycleLength(Decode(WordAt(Ago(j))).opcode)
    BY <1>1, <1>6 DEF BackInv, BackCounted
  <2>2. control'.micro_pc = control.micro_pc - 1
    BY <1>1, <1>2, <2>1 DEF NextAfter
  <2>3. CASE control'.micro_pc = 0
    <3>1. call' = NoCall
      BY <2>3 DEF Undone, Returns
    <3>2. ASSUME call.from = 0, past # << >>
          PROVE  call.done + 1 = CycleLength(Decode(memory'[registers'["Pc"]]).opcode)
      <4>1. control.micro_pc = 1 /\ Ago(0)' = Ago(0 + 1) /\ 1 \in 0 .. Len(past)
        BY <1>1, <1>3, <2>2, <2>3, <3>2
      <4>2. Ago(1).memory = memory' /\ Ago(1).registers = registers'
        BY <4>1 DEF Ago, Now
      <4>3. call.done + 1 = CycleLength(Decode(WordAt(Ago(1))).opcode)
        BY <2>1, <3>2, <4>1
      <4> QED
        BY <4>2, <4>3 DEF WordAt
    <3> QED
      BY <1>1, <2>1, <2>2, <2>3, <3>1, <3>2 DEF BackCounted, NoCall
  <2>4. CASE control'.micro_pc # 0
    <3>1. call' = [call EXCEPT !.done = @ + 1]
      BY <2>4 DEF Undone
    <3>2. /\ call'.done = call.done + 1 /\ call'.from = call.from
          /\ call'.api = "step_back" /\ call'.done # 0
      BY <1>1, <3>1 DEF Call
    <3>3. ASSUME NEW j \in 0 .. Len(past'), j = control'.micro_pc, call.from = 0
          PROVE  call'.done + j = CycleLength(Decode(WordAt(Ago(j)')).opcode)
      <4>1. past # << >>
        BY <1>1, <1>4, <2>4, <3>3
      <4>2. j + 1 = control.micro_pc /\ j + 1 \in 0 .. Len(past) /\ Ago(j)' = Ago(j + 1)
        BY <1>1, <1>3, <2>2, <3>3, <4>1
      <4>3. call.done + (j + 1) = CycleLength(Decode(WordAt(Ago(j + 1))).opcode)
        BY <2>1, <3>3, <4>2
      <4>4. call'.done + j = call.done + (j + 1)
        BY <1>1, <3>2
      <4> QED
        BY <4>2, <4>3, <4>4
    <3>4. call.from > 0 => call'.done + control'.micro_pc = call'.from
      BY <1>1, <2>1, <2>2, <3>2
    <3>5. control'.micro_pc > 0
      BY <1>1, <2>4
    <3>6. BackCounted'
      BY <3>2, <3>3, <3>4, <3>5 DEF BackCounted, WordAt
    <3> QED
      BY <2>4, <3>6
  <2> QED
    BY <2>3, <2>4
<1> QED
  BY <1>5, <1>6

\* A micro-operation keeps it.
LEMMA MicroStepKeepsBack ==
  ASSUME IInv, IInv', BackInv, MicroStep
  PROVE  Chained' /\ Trailed' /\ BackCounted'
<1>1. Issuing /\ (call' = NoCall \/ call'.api = call.api)
  BY MicroStepOutcome DEF IInv, Ran, Refrained
<1>2. BackCounted'
  BY <1>1 DEF BackCounted, Issuing, NoCall
<1>3. CASE UNCHANGED << core, journal, device, past >>
  <2>1. control' = control /\ entries' = entries /\ Now' = Now /\ past' = past
    BY <1>3 DEF core, journal, device, Now
  <2> QED
    BY <1>2, <2>1, UntouchedBack DEF BackInv
<1>4. CASE Advances /\ ~ UNCHANGED << core, journal, device, past >>
  <2>1. Ran
    BY <1>4, MicroStepOutcome DEF IInv, Refrained
  <2> QED
    BY <1>2, <1>4, <2>1, AdvanceBack DEF BackInv
<1> QED
  BY <1>3, <1>4, MicroStepAdvances

\* An undo keeps it.
LEMMA MicroStepBackKeepsBack ==
  ASSUME IInv, IInv', BackInv, MicroStepBack
  PROVE  Chained' /\ Trailed' /\ BackCounted'
<1>1. CASE UNCHANGED << core, journal, device, past >> /\ call' = NoCall
  <2>1. control' = control /\ entries' = entries /\ Now' = Now /\ past' = past
    BY <1>1 DEF core, journal, device, Now
  <2>2. BackCounted'
    BY <1>1 DEF BackCounted, NoCall
  <2> QED
    BY <2>1, <2>2, UntouchedBack DEF BackInv
<1>2. CASE /\ entries # << >> /\ Undone
           /\ Now' = UndoneBy(Last(entries), Now)
  <2>1. Chained' /\ Trailed'
    BY <1>2, RetreatBack DEF BackInv
  <2>2. CASE call.api = "step_back"
    BY <1>2, <2>1, <2>2, UndoCounts
  <2>3. CASE call.api = "micro_step_back"
    <3>1. call' = NoCall
      BY <1>2, <2>3 DEF Undone, Returns
    <3> QED
      BY <2>1, <3>1 DEF BackCounted, NoCall
  <2>4. Undoing
    BY DEF MicroStepBack, UndoNothing, UndoRegister, UndoMemory, UndoInput,
           UndoOutput, RefuseNoHistory, RefuseInput, RefuseOutput, Undoes
  <2> QED
    BY <2>2, <2>3, <2>4 DEF Undoing
<1> QED
  BY <1>1, <1>2, UndoneByLast

\* So do the caller, between two turns and between two calls.
LEMMA HostKeepsBack ==
  ASSUME IInv, IInv', BackInv, Calls \/ SuspendRun \/ Host
  PROVE  Chained' /\ Trailed' /\ BackCounted'
<1>1. CASE Calls \/ SuspendRun
  <2>1. UNCHANGED << core, journal, device, past >>
    BY <1>1
       DEF Calls, CallRun, CallRunBounded, CallStep, CallMicroStep,
           CallStepBack, CallMicroStepBack, Begin, SuspendRun
  <2>2. control' = control /\ entries' = entries /\ Now' = Now /\ past' = past
    BY <2>1 DEF core, journal, device, Now
  <2>3. \/ call' = NoCall
        \/ call'.done = 0 /\ call'.from = control.micro_pc
    BY <1>1
       DEF Calls, CallRun, CallRunBounded, CallStep, CallMicroStep,
           CallStepBack, CallMicroStepBack, Begin, SuspendRun, Returns
  <2>4. BackCounted'
    BY <2>2, <2>3 DEF BackCounted, NoCall
  <2> QED
    BY <2>2, <2>4, UntouchedBack DEF BackInv
<1>2. ASSUME Host
      PROVE  call' = NoCall
  BY <1>2
     DEF Host, Boot, Debug, Pause, Resume, Transition, FlashProgram,
         FlashMemory, LoadProgram, Reset, ResetWithProgram, RewindTo,
         SetHistoryLimit, ClearHistory, SetBreakpoints, PokeRegister,
         PokeMemory, FeedInput, Idle
<1>3. ASSUME Host
      PROVE  BackCounted'
  BY <1>2, <1>3 DEF BackCounted, NoCall
<1>4. CASE Boot \/ Debug \/ Pause \/ Resume \/ SetBreakpoints \/ FeedInput
  <2>1. control' = control /\ entries' = entries /\ Now' = Now /\ past' = past
    BY <1>4
       DEF Boot, Debug, Pause, Resume, Transition, SetBreakpoints, FeedInput,
           core, journal, device, Now
  <2> QED
    BY <1>3, <1>4, <2>1, UntouchedBack DEF BackInv, Host
<1>5. CASE \/ FlashProgram \/ FlashMemory \/ LoadProgram \/ Reset
           \/ ResetWithProgram \/ ClearHistory \/ PokeRegister \/ PokeMemory
  <2>1. /\ past' = << >>
        /\ entries' = << >> \/ (entries' = entries /\ control' = control)
    BY <1>5
       DEF FlashProgram, FlashMemory, LoadProgram, Reset, ResetWithProgram,
           ClearHistory, PokeRegister, PokeMemory, RewindTo, journal
  <2>2. Chained'
    <3>1. CASE entries' = << >>
      BY <3>1 DEF Chained
    <3>2. CASE entries' = entries /\ control' = control
      BY <3>2 DEF Chained, ControlAgo, BackInv
    <3> QED
      BY <2>1, <3>1, <3>2
  <2> QED
    BY <1>3, <1>5, <2>1, <2>2, EmptyTrail DEF Host
<1>6. CASE SetHistoryLimit
  BY <1>3, <1>6, SetHistoryLimitBack DEF BackInv, Host
<1> QED
  BY <1>1, <1>4, <1>5, <1>6 DEF Host

\* The invariant of stepping backwards holds of every reachable state.
LEMMA BackInvariance == Spec => []BackInv
<1>1. Init => Chained /\ Trailed /\ BackCounted
  <2> SUFFICES ASSUME Init PROVE Chained /\ Trailed /\ BackCounted
    OBVIOUS
  <2>1. /\ past = << >> /\ entries = << >> /\ call = NoCall
        /\ control.micro_pc = 0
    BY DEF Init, InitWith, FreshControl
  <2>2. Chained /\ BackCounted
    BY <2>1 DEF Chained, BackCounted, NoCall
  <2>3. Len(past) = 0 /\ Ago(0).control.micro_pc = 0
    BY <2>1 DEF Ago, Now
  <2>4. Fetched(Ago(0), Ago(0))
    BY <2>3 DEF Fetched
  <2>5. Trailed
    BY <2>3, <2>4 DEF Trailed
  <2> QED
    BY <2>2, <2>5
<1>2. IInv /\ IInv' /\ BackInv /\ [Next]_vars => Chained' /\ Trailed' /\ BackCounted'
  <2> SUFFICES ASSUME IInv, IInv', BackInv, [Next]_vars
               PROVE  Chained' /\ Trailed' /\ BackCounted'
    OBVIOUS
  <2>1. CASE UNCHANGED vars
    <3>1. /\ control' = control /\ entries' = entries /\ Now' = Now
          /\ past' = past /\ call' = call
      BY <2>1 DEF vars, core, journal, device, Now
    <3>2. Chained' /\ Trailed'
      BY <3>1, UntouchedBack DEF BackInv
    <3>3. BackCounted'
      BY <3>1 DEF BackInv, BackCounted, Ago
    <3> QED
      BY <3>2, <3>3
  <2> QED
    BY <2>1, MicroStepKeepsBack, MicroStepBackKeepsBack, HostKeepsBack
       DEF Next, Turn
<1> QED
  BY <1>1, <1>2, Invariance, JournalIsExact, PTL DEF Spec, BackInv

\* step_back has no answer before it returns.
Unanswered == call.api = "step_back" => outcome = "None"

LEMMA BackUnanswered == Spec => []Unanswered
<1>1. Init => Unanswered
  BY DEF Init, InitWith, NoCall, Unanswered
<1>2. IInv /\ Unanswered /\ [Next]_vars => Unanswered'
  <2> SUFFICES ASSUME IInv, Unanswered, [Next]_vars, call'.api = "step_back"
               PROVE  outcome' = "None"
    BY DEF Unanswered
  <2>1. call' # NoCall
    BY DEF NoCall
  <2>2. CASE UNCHANGED vars
    BY <2>2 DEF vars, Unanswered
  <2>3. CASE Calls
    BY <2>3 DEF Calls, CallRun, CallRunBounded, CallStep, CallMicroStep,
                CallStepBack, CallMicroStepBack, Begin
  <2>4. CASE MicroStep
    BY <2>1, <2>4, MicroStepOutcome DEF IInv, Ran, Refrained, Issuing
  <2>5. CASE SuspendRun
    BY <2>1, <2>5 DEF SuspendRun, Returns
  <2>6. CASE MicroStepBack
    <3>1. Undone
      BY <2>1, <2>6, UndoneByLast
    <3>2. call' = [call EXCEPT !.done = call.done + 1] /\ outcome' = outcome
      BY <2>1, <3>1 DEF Undone, Returns
    <3>3. call'.api = call.api
      BY <3>2 DEF IInv, TypeOK, Call
    <3> QED
      BY <3>2, <3>3 DEF Unanswered
  <2>7. CASE Host
    BY <2>1, <2>7
       DEF Host, Boot, Debug, Pause, Resume, Transition, FlashProgram,
           FlashMemory, LoadProgram, Reset, ResetWithProgram, RewindTo,
           SetHistoryLimit, ClearHistory, SetBreakpoints, PokeRegister,
           PokeMemory, FeedInput, Idle
  <2> QED
    BY <2>2, <2>3, <2>4, <2>5, <2>6, <2>7 DEF Next, Turn
<1> QED
  BY <1>1, <1>2, Invariance, PTL DEF Spec

\* step_back is exact: from a boundary it undoes the very instruction that
\* ended there, from within an instruction the very part that ran, whatever
\* the program, whatever the limit of the journal, and whatever the host
\* poked, loaded and forgot before.
THEOREM StepsBackExactly == Spec => StepBackExact
<1> DEFINE Exactly ==
             call.api = "step_back" /\ outcome' = "Undone" =>
               /\ control'.micro_pc = 0
               /\ call.from > 0 => call.done + 1 = call.from
               /\ call.from = 0 /\ past # << >> =>
                    call.done + 1
                      = CycleLength(Decode(memory'[registers'["Pc"]]).opcode)
<1>1. IInv /\ IInv' /\ BackInv /\ Unanswered /\ [Next]_vars => [Exactly]_vars
  <2> SUFFICES ASSUME IInv, IInv', BackInv, Unanswered, Next, call.api = "step_back",
                      outcome' = "Undone"
               PROVE  Exactly
    OBVIOUS
  <2>1. MicroStepBack
    BY DEF Next, Calls, Turn, Host, Idle, NoCall, CallRun, CallRunBounded,
           CallStep, CallMicroStep, CallStepBack, CallMicroStepBack, Begin,
           MicroStep, ExecuteRegisterWrite, ExecuteWriteMemory, ExecuteDecode,
           ExecuteCompare, ExecuteNoSkip, ExecuteReadInput,
           ExecuteWriteOutput, FaultInvalidOpcode, StallOnInput, FaultOnInput,
           FaultOnOutput, ExecuteHalt, Issues, Issuing, SuspendRun,
           Boot, Debug, Pause, Resume, Transition, FlashProgram, FlashMemory,
           LoadProgram, Reset, ResetWithProgram, SetHistoryLimit,
           ClearHistory, SetBreakpoints, PokeRegister, PokeMemory, FeedInput
  <2>2. ~ (RefuseNoHistory \/ RefuseInput \/ RefuseOutput)
    BY DEF RefuseNoHistory, RefuseInput, RefuseOutput, Refused, Returns
  <2>3. Undone
    BY <2>1, <2>2
       DEF MicroStepBack, UndoNothing, UndoRegister, UndoMemory, UndoInput,
           UndoOutput
  <2>4. entries # << >> /\ Now' = UndoneBy(Last(entries), Now)
    <3>1. entries # << >>
      BY <2>1, <2>2
         DEF MicroStepBack, UndoNothing, UndoRegister, UndoMemory, UndoInput,
             UndoOutput, Undoes
    <3>2. CASE UNCHANGED << core, journal, device, past >>
      <4>1. Len(entries) \in Nat /\ Len(entries') = Len(entries) - 1
        BY <2>3, <3>1, UndoneRetreats
      <4> QED
        BY <3>2, <4>1 DEF journal
    <3> QED
      BY <2>1, <3>1, <3>2, UndoneByLast
  <2>5. control'.micro_pc = 0
    BY <2>3 DEF Undone, Unanswered, Returns
  <2> QED
    BY <2>3, <2>4, <2>5, UndoCounts
<1>2. Spec => [](IInv /\ BackInv /\ Unanswered)
  BY Invariance, BackInvariance, BackUnanswered, PTL
<1> QED
  BY <1>1, <1>2, PTL DEF Spec, StepBackExact
=============================================================================
