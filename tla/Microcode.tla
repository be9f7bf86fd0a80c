------------------------------ MODULE Microcode ------------------------------
(***************************************************************************)
(* The micro-programs of the control unit (mrs-vm/src/microcode.rs): every *)
(* instruction is the five-operation fetch-and-decode phase followed by    *)
(* the fixed program of its opcode.                                        *)
(***************************************************************************)
EXTENDS MarieWord, Sequences

Register == {"Ac", "Pc", "Ir", "Mar", "Mbr", "In", "Out"}

\* A register transfer, and an operation without register operands.
Transfer(to, from) == [op |-> "Transfer", target |-> to, source |-> from]
Plain(name) == [op |-> name]

PlainNames ==
  { "ReadMemory", "WriteMemory", "IncrementPc", "Decode", "Add", "Subtract",
    "LoadImmediate", "Compare", "SkipIfComparison", "ReadInput",
    "WriteOutput", "Halt" }

MicroOp ==
  { Transfer(t, s) : t, s \in Register } \cup { Plain(n) : n \in PlainNames }

ReadMemory == Plain("ReadMemory")
WriteMemory == Plain("WriteMemory")
IncrementPc == Plain("IncrementPc")

FetchDecode ==
  << Transfer("Mar", "Pc"), ReadMemory, Transfer("Ir", "Mbr"), IncrementPc,
     Plain("Decode") >>

\* The execute phase selected by a decoded opcode.
Execute(opcode) ==
  CASE opcode = "JnS" ->
         << Transfer("Mar", "Ir"), Transfer("Mbr", "Pc"), WriteMemory,
            Transfer("Pc", "Mar"), IncrementPc >>
    [] opcode = "Load" ->
         << Transfer("Mar", "Ir"), ReadMemory, Transfer("Ac", "Mbr") >>
    [] opcode = "Store" ->
         << Transfer("Mar", "Ir"), Transfer("Mbr", "Ac"), WriteMemory >>
    [] opcode = "Add" ->
         << Transfer("Mar", "Ir"), ReadMemory, Plain("Add") >>
    [] opcode = "Subt" ->
         << Transfer("Mar", "Ir"), ReadMemory, Plain("Subtract") >>
    [] opcode = "Input" -> << Plain("ReadInput"), Transfer("Ac", "In") >>
    [] opcode = "Output" -> << Transfer("Out", "Ac"), Plain("WriteOutput") >>
    [] opcode = "Halt" -> << Plain("Halt") >>
    [] opcode = "SkipCond" -> << Plain("Compare"), Plain("SkipIfComparison") >>
    [] opcode = "Jump" -> << Transfer("Pc", "Ir") >>
    [] opcode = "LoadImmi" -> << Plain("LoadImmediate") >>
    [] opcode = "AddI" ->
         << Transfer("Mar", "Ir"), ReadMemory, Transfer("Mar", "Mbr"),
            ReadMemory, Plain("Add") >>
    [] opcode = "JumpI" ->
         << Transfer("Mar", "Ir"), ReadMemory, Transfer("Pc", "Mbr") >>
    [] opcode = "LoadI" ->
         << Transfer("Mar", "Ir"), ReadMemory, Transfer("Mar", "Mbr"),
            ReadMemory, Transfer("Ac", "Mbr") >>
    [] opcode = "StoreI" ->
         << Transfer("Mar", "Ir"), ReadMemory, Transfer("Mar", "Mbr"),
            Transfer("Mbr", "Ac"), WriteMemory >>

CycleLength(opcode) == Len(FetchDecode) + Len(Execute(opcode))
=============================================================================
