------------------------------- MODULE MarieArch -------------------------------
(***************************************************************************)
(* The micro-coded machine implements the instruction set: MarieVM with a  *)
(* history variable that holds the programmer's view of the machine at the *)
(* last instruction boundary, where MarieISA sees it.  Stepping backwards  *)
(* is Timeline's subject: HistoryLimits is {0} here, so it is refused.     *)
(***************************************************************************)
EXTENDS MarieVM

VARIABLE arch     \* history variable: the programmer's view at the boundary

View == [ac |-> registers["Ac"], pc |-> registers["Pc"], memory |-> memory,
         consumed |-> consumed, outputs |-> outputs]

ArchInit == Init /\ arch = View
ArchNext == Next /\ arch' = IF control'.micro_pc = 0 THEN View' ELSE arch

ArchSpec == ArchInit /\ [][ArchNext]_<< vars, arch >>

\* Every instruction, run micro-operation by micro-operation with stalls,
\* faults and debugger calls in between, is one step of the instruction set,
\* and the machine only ever stops where the instruction set says it may.
ISA == INSTANCE MarieISA WITH
  ac <- arch.ac, pc <- arch.pc, memory <- arch.memory,
  consumed <- arch.consumed, outputs <- arch.outputs
ImplementsISA == ISA!Spec
=============================================================================
