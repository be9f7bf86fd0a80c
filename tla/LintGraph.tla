------------------------------ MODULE LintGraph ------------------------------
(***************************************************************************)
(* The control-flow graph of mrs-lint (cfg.rs) and the lints that read it  *)
(* (lints/flow.rs, lints/hazards.rs), as operators on a listing: an        *)
(* assembled program by its origin, the mnemonic each word was written     *)
(* with, and the words.  Words are numbered from 1; the code numbers them  *)
(* from 0.                                                                 *)
(***************************************************************************)
EXTENDS MarieWord, Sequences

DataDirective == {"Dec", "Oct", "Hex", "Adr"}
ListingMnemonic == Opcode \cup DataDirective \cup {"Clear"}

Listing(origin, mnemonics, words) ==
  [origin |-> origin, mnemonics |-> mnemonics, words |-> words]

Indices(p) == 1 .. Len(p.words)
AddressAt(p, i) == p.origin + i - 1
OperandAt(p, i) == Masked(p.words[i])

\* classify: what a word holds, by the line that wrote it.
Kind(p, i) == IF p.mnemonics[i] \in DataDirective THEN "Data" ELSE "Code"
CodeWords(p) == { i \in Indices(p) : Kind(p, i) = "Code" }
DataWords(p) == Indices(p) \ CodeWords(p)

\* effective_opcode: Clear executes as LoadImmi.
EffectiveOpcode(p, i) ==
  IF p.mnemonics[i] = "Clear" THEN "LoadImmi"
  ELSE IF p.mnemonics[i] \in Opcode THEN p.mnemonics[i] ELSE "None"

\* Cfg::exact.
Exact(p) == \A i \in Indices(p) : p.mnemonics[i] \notin {"JumpI", "StoreI"}

-----------------------------------------------------------------------------
(* Edges.                                                                  *)

ToWord(i) == [edge |-> "Word", index |-> i]
Outside(a) == [edge |-> "Outside", address |-> a]
OffEnd == [edge |-> "OffEnd"]
Unknown == [edge |-> "Unknown"]

\* step, and target with index_of: the words of a program do not wrap.
StepEdge(p, i, offset) ==
  IF i + offset \in Indices(p) THEN ToWord(i + offset) ELSE OffEnd

Occupied(p) == { AddressAt(p, i) : i \in Indices(p) }
IndexOf(p, address) == address - p.origin + 1

TargetEdge(p, address) ==
  IF address \in Occupied(p) THEN ToWord(IndexOf(p, address)) ELSE Outside(address)

\* A faulty JnS that goes on at its return slot.
EdgesToSlot(p, i) ==
  CASE EffectiveOpcode(p, i) \in {"None", "Halt"} -> {}
    [] EffectiveOpcode(p, i) \in {"Jump", "JnS"} -> {TargetEdge(p, OperandAt(p, i))}
    [] EffectiveOpcode(p, i) = "JumpI" -> {Unknown}
    [] EffectiveOpcode(p, i) = "SkipCond" -> {StepEdge(p, i, 1), StepEdge(p, i, 2)}
    [] OTHER -> {StepEdge(p, i, 1)}

\* edges: where control can go from a word; from data, nowhere.
Edges(p, i) ==
  CASE EffectiveOpcode(p, i) \in {"None", "Halt"} -> {}
    [] EffectiveOpcode(p, i) = "Jump" -> {TargetEdge(p, OperandAt(p, i))}
    [] EffectiveOpcode(p, i) = "JnS" -> {TargetEdge(p, NextAddr(OperandAt(p, i)))}
    [] EffectiveOpcode(p, i) = "JumpI" -> {Unknown}
    [] EffectiveOpcode(p, i) = "SkipCond" -> {StepEdge(p, i, 1), StepEdge(p, i, 2)}
    [] OTHER -> {StepEdge(p, i, 1)}

NextWords(p, i) == { e.index : e \in { f \in Edges(p, i) : f.edge = "Word" } }

\* mark_reachable: from the first word, as far as word edges lead.
Reachable(p) ==
  LET within[n \in Nat] ==
        IF n = 0 THEN {1} \cap Indices(p)
        ELSE LET nearer == within[n - 1]
             IN  nearer \cup UNION { NextWords(p, i) : i \in nearer }
  IN  within[Len(p.words)]

-----------------------------------------------------------------------------
(* The lints, by the words they report.                                    *)

FallsIntoData(p) == Reachable(p) \cap DataWords(p)

FallsOffEnd(p) == { i \in Reachable(p) \cap CodeWords(p) : OffEnd \in Edges(p, i) }

JumpsOutside(p) ==
  { i \in Reachable(p) : \E e \in Edges(p, i) : e.edge = "Outside" }

UnreachableInstruction(p) ==
  IF Exact(p) THEN CodeWords(p) \ Reachable(p) ELSE {}

\* The low bits of a condition select nothing.
MaskedSkipcond(p) ==
  { i \in Indices(p) :
      EffectiveOpcode(p, i) = "SkipCond" /\ OperandAt(p, i) % (MemoryWords \div 4) # 0 }

\* The return slot of a call holds an instruction, reachable or not.
JnsOverwritesCode(p) ==
  { i \in Indices(p) :
      /\ EffectiveOpcode(p, i) = "JnS"
      /\ OperandAt(p, i) \in Occupied(p)
      /\ IndexOf(p, OperandAt(p, i)) \in CodeWords(p) }

\* A faulty lint that looks at stores before it knows where they stand.
SelfModifyingCodeAbove(p) ==
  { i \in Indices(p) :
      /\ EffectiveOpcode(p, i) = "Store"
      /\ OperandAt(p, i) \in Occupied(p)
      /\ IndexOf(p, OperandAt(p, i)) \in CodeWords(p) \cap Reachable(p)
      /\ IndexOf(p, OperandAt(p, i)) > i }

\* A store into an instruction that runs.
SelfModifyingCode(p) ==
  { i \in Indices(p) :
      /\ EffectiveOpcode(p, i) = "Store"
      /\ OperandAt(p, i) \in Occupied(p)
      /\ IndexOf(p, OperandAt(p, i)) \in CodeWords(p) \cap Reachable(p) }

MissingHalt(p) ==
  IF \E i \in Indices(p) : p.mnemonics[i] = "Halt" THEN {} ELSE {1} \cap Indices(p)
=============================================================================
