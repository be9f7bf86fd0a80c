------------------------------- MODULE MarieISA -------------------------------
(***************************************************************************)
(* The instruction set a MARIE programmer is promised: one atomic step per *)
(* instruction over the accumulator, the program counter, memory and the   *)
(* device.  There is no MAR, MBR or IR here, no micro-program counter and  *)
(* no journal.                                                             *)
(***************************************************************************)
EXTENDS MarieWord, Sequences

VARIABLES
  state,        \* Ready, Running, Stepping or Terminated
  ac, pc, memory,
  consumed,     \* words read from the device
  outputs       \* words written to it

ivars == << state, ac, pc, memory, consumed, outputs >>

Init ==
  /\ state = "Ready" /\ ac = 0 /\ pc \in Addr /\ memory \in [Addr -> Word]
  /\ consumed = << >> /\ outputs = << >>

Executing == state \in {"Running", "Stepping"}

Instr == Decode(memory[pc])
X == Instr.operand
Indirect == Masked(memory[X])

Is(opcode) == Executing /\ Instr.opcode = opcode
Falls == pc' = NextAddr(pc)

\* The instruction leaves the accumulator holding v.
Loads(v) == ac' = v /\ Falls /\ UNCHANGED << memory, consumed, outputs >>
Stores(a) ==
  /\ memory' = [memory EXCEPT ![a] = ac]
  /\ Falls /\ UNCHANGED << ac, consumed, outputs >>
Jumps(a) == pc' = a /\ UNCHANGED << ac, memory, consumed, outputs >>

Execute ==
  /\ \/ /\ Is("JnS")
        /\ memory' = [memory EXCEPT ![X] = NextAddr(pc)]
        /\ pc' = NextAddr(X)
        /\ UNCHANGED << ac, consumed, outputs >>
     \/ Is("Load") /\ Loads(memory[X])
     \/ Is("Store") /\ Stores(X)
     \/ Is("Add") /\ Loads(AluAdd(ac, memory[X]))
     \/ Is("Subt") /\ Loads(AluSub(ac, memory[X]))
     \/ /\ Is("Input")
        /\ ac' \in Word
        /\ consumed' = Append(consumed, ac')
        /\ Falls /\ UNCHANGED << memory, outputs >>
     \/ /\ Is("Output")
        /\ outputs' = Append(outputs, ac)
        /\ Falls /\ UNCHANGED << ac, memory, consumed >>
     \/ /\ Is("SkipCond")
        /\ Jumps(IF Holds(ConditionOf(X), ac) THEN NextAddr(NextAddr(pc))
                 ELSE NextAddr(pc))
     \/ Is("Jump") /\ Jumps(X)
     \/ Is("LoadImmi") /\ Loads(X)
     \/ Is("AddI") /\ Loads(AluAdd(ac, memory[Indirect]))
     \/ Is("JumpI") /\ Jumps(Indirect)
     \/ Is("LoadI") /\ Loads(memory[Indirect])
     \/ Is("StoreI") /\ Stores(Indirect)
  /\ UNCHANGED state

\* Only a Halt, an unassigned opcode and the device can end a program, and
\* then nothing of the instruction has happened.
Terminate ==
  /\ Executing
  /\ Instr = NoInstruction \/ Instr.opcode \in {"Halt", "Input", "Output"}
  /\ state' = "Terminated"
  /\ UNCHANGED << ac, pc, memory, consumed, outputs >>

\* Into the machine, between running and stepping, and back into a stopped
\* one with the debugger.
Control ==
  /\ state' \in {"Running", "Stepping"}
  /\ UNCHANGED << ac, pc, memory, consumed, outputs >>

\* Only a machine that is not executing is programmed or reset.
Program ==
  /\ ~Executing /\ state' = "Ready"
  /\ UNCHANGED << consumed, outputs >>

Next == Execute \/ Terminate \/ Control \/ Program

Spec == Init /\ [][Next]_ivars
=============================================================================
