------------------------------- MODULE MarieVM -------------------------------
(***************************************************************************)
(* The MARIE virtual machine of mrs-vm at the grain of its micro-          *)
(* operations: the four type-states of MarieVM<IO, S>, the core with its   *)
(* registers, memory, control state and undo journal, and every operation  *)
(* of the public API that changes them.  A call that loops inside the      *)
(* machine (run, step, step_back) is a record in `call` and one action per *)
(* turn of its loop; between two turns nothing but the device can act, and *)
(* while a call is in progress its caller can do nothing else.             *)
(*                                                                         *)
(* The I/O device is any implementation of MarieVmIODevice: what a poll,   *)
(* an output, an unread or an unwrite answers is a nondeterministic choice *)
(* over what the trait's contract allows.                                  *)
(***************************************************************************)
EXTENDS Microcode, SequencesExt

CONSTANTS
  NewImages,       \* memory images new_with_program may be given
  Images,          \* full memory images a host may flash
  Programs,        \* shorter programs a host may load: sequences of words
  EntryPoints,     \* entry points a host may flash a program with
  HostWords,       \* words a host may poke into a register or into memory
  HostRegisters,   \* the registers, and
  HostAddrs,       \* the addresses it may poke them into
  HistoryLimits,   \* limits a host may pass to set_history_limit
  BreakpointSets,  \* breakpoint sets a host may install
  Budgets,         \* max_steps a host may pass to run_bounded
  InputWords,      \* words a host may feed to the device
  MaxFed,          \* bound: how many words are fed in one behaviour
  MaxOutputs,      \* bound: beyond it the device reports an output error
  DoneCap          \* bound: a run counts its instructions this far, which is
                   \* far enough to tell whether any budget is spent

ASSUME ConstantsAssumption ==
  /\ NewImages \subseteq [Addr -> Word]
  /\ Images \subseteq [Addr -> Word]
  /\ Programs \subseteq Seq(Word)
  /\ EntryPoints \subseteq Addr
  /\ HostWords \subseteq Word
  /\ HostRegisters \subseteq Register
  /\ HostAddrs \subseteq Addr
  /\ HistoryLimits \subseteq Nat
  /\ BreakpointSets \subseteq SUBSET Addr
  /\ DoneCap \in Nat \ {0}
  /\ Budgets \subseteq 0 .. DoneCap
  /\ InputWords \subseteq Word
  /\ MaxFed \in Nat
  /\ MaxOutputs \in Nat

VARIABLES
  state,        \* the type-state S
  registers,
  memory,
  control,      \* micro_pc, instruction_address, decoded, comparison
  entries,      \* the journal: History::entries, most recent last
  limit,        \* History::limit
  breakpoints,
  inputs,       \* words the device has and has not yet handed over
  outputs,      \* words the device has been given
  canvas,       \* the picture a frontend draws from display_write
  call,         \* the API call in progress
  outcome,      \* what the last API call returned
  consumed,     \* history variable: words read on the current timeline
  past          \* history variable: the machine before each undoable step

core == << registers, memory, control >>
journal == << entries, limit >>
device == << inputs, outputs, canvas, consumed >>
vars == << state, core, journal, breakpoints, device, call, outcome, past >>

-----------------------------------------------------------------------------
(* Calls.                                                                  *)

\* max_steps of an unbounded run.
NoBudget == -1

\* `done` counts instructions for a run and undone operations for a
\* step_back; `within` says that core.step is part-way through its loop;
\* `from` remembers the micro-program counter the call began at.
NoCall == [api |-> "idle", budget |-> NoBudget, done |-> 0,
           within |-> FALSE, from |-> 0]

Idle == call = NoCall

Begin(api, budget) ==
  /\ Idle
  /\ call' = [api |-> api, budget |-> budget, done |-> 0, within |-> FALSE,
              from |-> control.micro_pc]
  /\ outcome' = "None"
  /\ UNCHANGED << state, core, journal, breakpoints, device, past >>

CallRun == state = "Running" /\ Begin("run", NoBudget)
CallRunBounded == state = "Running" /\ \E max \in Budgets : Begin("run", max)
CallStep == state = "Stepping" /\ Begin("step", NoBudget)
CallMicroStep == state = "Stepping" /\ Begin("micro_step", NoBudget)
CallStepBack == state = "Stepping" /\ Begin("step_back", NoBudget)
CallMicroStepBack == state = "Stepping" /\ Begin("micro_step_back", NoBudget)

Returns(value) == call' = NoCall /\ outcome' = value

-----------------------------------------------------------------------------
(* The journal.                                                            *)

\* The last n elements: what popping from the front leaves.
Latest(s, n) == SubSeq(s, Len(s) - (IF Len(s) < n THEN Len(s) ELSE n) + 1, Len(s))

\* A faulty record that makes room by dropping the newest entry.
RecordedDroppingNewest(entry) ==
  IF limit = 0 THEN entries
  ELSE Append(IF Len(entries) = limit THEN Front(entries) ELSE entries, entry)

\* History::record.
Recorded(entry) ==
  IF limit = 0 THEN entries
  ELSE Append(IF Len(entries) = limit THEN Tail(entries) ELSE entries, entry)

\* Everything a micro-operation may change and an undo must restore.
Now == [registers |-> registers, memory |-> memory, control |-> control,
        consumed |-> consumed, outputs |-> outputs]

-----------------------------------------------------------------------------
(* Executing one micro-operation: MarieVMCore::micro_step.                 *)

HasMicroOp ==
  \/ control.micro_pc < Len(FetchDecode)
  \/ /\ control.decoded # NoInstruction
     /\ control.micro_pc < CycleLength(control.decoded.opcode)

\* current_micro_op.
CurrentOp ==
  IF control.micro_pc < Len(FetchDecode)
  THEN FetchDecode[control.micro_pc + 1]
  ELSE Execute(control.decoded.opcode)[control.micro_pc - Len(FetchDecode) + 1]

\* instruction_address moves when a new instruction begins.
CurrentAddress ==
  IF control.micro_pc = 0 THEN registers["Pc"] ELSE control.instruction_address

\* A faulty wrap that lets the micro-program counter reach the cycle length.
AdvancedPastEnd(decoded) ==
  LET next == control.micro_pc + 1
      length == IF decoded = NoInstruction THEN Len(FetchDecode)
                ELSE CycleLength(decoded.opcode)
  IN  IF next > length THEN 0 ELSE next

\* advance_micro_pc, with the cycle length of what is decoded by then.
AdvancedMicroPc(decoded) ==
  LET next == control.micro_pc + 1
      length == IF decoded = NoInstruction THEN Len(FetchDecode)
                ELSE CycleLength(decoded.opcode)
  IN  IF next >= length THEN 0 ELSE next

\* A faulty register file without the 12-bit masks.
WriteUnmasked(regs, r, bits) == [regs EXCEPT ![r] = bits]

\* Registers::write.
Write(regs, r, bits) ==
  [regs EXCEPT ![r] = IF r \in {"Pc", "Mar"} THEN Masked(bits) ELSE bits]

\* A faulty test that lets a slice run over a breakpoint once more.
AtBreakpointLate ==
  /\ call.done > 1
  /\ control.micro_pc = 0
  /\ registers["Pc"] \in breakpoints

\* The two tests at the top of run_inner's loop.
BudgetSpent == call.budget # NoBudget /\ call.done >= call.budget
AtBreakpoint ==
  /\ call.done > 0
  /\ control.micro_pc = 0
  /\ registers["Pc"] \in breakpoints

\* The call in progress is about to execute a micro-operation.
Issuing ==
  /\ call.api \in {"run", "step", "micro_step"}
  /\ call.api = "run" /\ ~call.within => ~BudgetSpent /\ ~AtBreakpoint
  /\ HasMicroOp

Issues(name) == Issuing /\ CurrentOp.op = name

\* The Ok branch: record the entry, advance, and let the caller's loop see
\* that an operation was executed.
Executed(effect, decoded, comparison) ==
  LET next == AdvancedMicroPc(decoded)
      finished == next = 0
  IN  /\ control' = [micro_pc |-> next,
                     instruction_address |-> CurrentAddress,
                     decoded |-> decoded,
                     comparison |-> comparison]
      /\ entries' = Recorded([control |-> control, micro_op |-> CurrentOp,
                              effect |-> effect])
      /\ past' = Latest(Append(past, Now), Len(entries'))
      /\ IF call.api = "micro_step" \/ (call.api = "step" /\ finished)
         THEN Returns("Stepped")
         ELSE /\ call' = [call EXCEPT
                   !.within = ~finished,
                   !.done = IF call.api = "run" /\ finished /\ @ < DoneCap
                            THEN @ + 1 ELSE @]
              /\ UNCHANGED outcome
      /\ UNCHANGED << state, limit, breakpoints >>

\* The Err branch: the control state is put back and the call returns.
Stopped(value) ==
  /\ Returns(value)
  /\ state' = IF value = "AwaitingInput" THEN state ELSE "Terminated"
  /\ UNCHANGED << core, journal, breakpoints, device, past >>

\* A faulty SkipIfComparison that does not look at the latch.
WritesRegisterAlways ==
  CurrentOp.op \in {"Transfer", "ReadMemory", "IncrementPc", "Add", "Subtract",
                   "LoadImmediate", "SkipIfComparison"}

\* The operations whose effect is a register write: which, and what bits.
WritesRegister ==
  \/ CurrentOp.op \in {"Transfer", "ReadMemory", "IncrementPc", "Add",
                       "Subtract", "LoadImmediate"}
  \/ CurrentOp.op = "SkipIfComparison" /\ control.comparison

Target ==
  CASE CurrentOp.op = "Transfer" -> CurrentOp.target
    [] CurrentOp.op = "ReadMemory" -> "Mbr"
    [] CurrentOp.op \in {"IncrementPc", "SkipIfComparison"} -> "Pc"
    [] CurrentOp.op \in {"Add", "Subtract", "LoadImmediate"} -> "Ac"

Bits ==
  CASE CurrentOp.op = "Transfer" -> registers[CurrentOp.source]
    [] CurrentOp.op = "ReadMemory" -> memory[registers["Mar"]]
    [] CurrentOp.op \in {"IncrementPc", "SkipIfComparison"} ->
         NextAddr(registers["Pc"])
    [] CurrentOp.op = "Add" -> AluAdd(registers["Ac"], registers["Mbr"])
    [] CurrentOp.op = "Subtract" -> AluSub(registers["Ac"], registers["Mbr"])
    [] CurrentOp.op = "LoadImmediate" -> LoadImmediate(registers["Ir"])

NoEffect == [kind |-> "None"]
\* A faulty effect that remembers the value written, not the one before it.
RegisterEffectAfter(r) ==
  [kind |-> "Register", register |-> r, previous |-> registers'[r]]

RegisterEffect(r) ==
  [kind |-> "Register", register |-> r, previous |-> registers[r]]

ExecuteRegisterWrite ==
  /\ Issuing
  /\ WritesRegister
  /\ registers' = Write(registers, Target, Bits)
  /\ Executed(RegisterEffect(Target), control.decoded, control.comparison)
  /\ UNCHANGED << memory, device >>

\* notify_display: a pixel that really changed is reported to the device.
Painted(address, previous, current) ==
  IF previous # current /\ address \in DisplayAddr
  THEN [canvas EXCEPT ![address] = current] ELSE canvas

ExecuteWriteMemory ==
  LET address == registers["Mar"]
      value == registers["Mbr"]
  IN  /\ Issues("WriteMemory")
      /\ memory' = [memory EXCEPT ![address] = value]
      /\ canvas' = Painted(address, memory[address], value)
      /\ Executed([kind |-> "Memory", address |-> address,
                   previous |-> memory[address]],
                  control.decoded, control.comparison)
      /\ UNCHANGED << registers, inputs, outputs, consumed >>

ExecuteDecode ==
  /\ Issues("Decode")
  /\ Decode(registers["Ir"]) # NoInstruction
  /\ Executed(NoEffect, Decode(registers["Ir"]), control.comparison)
  /\ UNCHANGED << registers, memory, device >>

FaultInvalidOpcode ==
  /\ Issues("Decode")
  /\ Decode(registers["Ir"]) = NoInstruction
  /\ Stopped("InvalidOpcode")

ExecuteCompare ==
  /\ Issues("Compare")
  /\ control.decoded.opcode = "SkipCond"
  /\ Executed(NoEffect, control.decoded,
              Holds(ConditionOf(control.decoded.operand), registers["Ac"]))
  /\ UNCHANGED << registers, memory, device >>

ExecuteNoSkip ==
  /\ Issues("SkipIfComparison")
  /\ ~control.comparison
  /\ Executed(NoEffect, control.decoded, control.comparison)
  /\ UNCHANGED << registers, memory, device >>

\* poll_input answers Ready(Ok(value)).
ExecuteReadInput ==
  /\ Issues("ReadInput")
  /\ inputs # << >>
  /\ inputs' = Tail(inputs)
  /\ consumed' = Append(consumed, Head(inputs))
  /\ registers' = [registers EXCEPT !["In"] = Head(inputs)]
  /\ Executed([kind |-> "InputRead", previous |-> registers["In"],
               value |-> Head(inputs)],
              control.decoded, control.comparison)
  /\ UNCHANGED << memory, outputs, canvas >>

\* poll_input answers Pending, or Ready(Err(error)), which Eof is one of.
StallOnInput == Issues("ReadInput") /\ Stopped("AwaitingInput")
FaultOnInput == Issues("ReadInput") /\ Stopped("IoFault")

ExecuteWriteOutput ==
  /\ Issues("WriteOutput")
  /\ Len(outputs) < MaxOutputs
  /\ outputs' = Append(outputs, registers["Out"])
  /\ Executed([kind |-> "OutputWritten", value |-> registers["Out"]],
              control.decoded, control.comparison)
  /\ UNCHANGED << registers, memory, inputs, canvas, consumed >>

FaultOnOutput == Issues("WriteOutput") /\ Stopped("IoFault")

ExecuteHalt == Issues("Halt") /\ Stopped("Halted")

MicroStep ==
  \/ ExecuteRegisterWrite \/ ExecuteWriteMemory \/ ExecuteDecode
  \/ ExecuteCompare \/ ExecuteNoSkip \/ ExecuteReadInput
  \/ ExecuteWriteOutput \/ FaultInvalidOpcode \/ StallOnInput
  \/ FaultOnInput \/ FaultOnOutput \/ ExecuteHalt

\* run_inner gives up before the next instruction.
SuspendRun ==
  /\ call.api = "run"
  /\ ~call.within
  /\ \/ BudgetSpent /\ Returns("StepLimit")
     \/ ~BudgetSpent /\ AtBreakpoint /\ Returns("Breakpoint")
  /\ UNCHANGED << state, core, journal, breakpoints, device, past >>

-----------------------------------------------------------------------------
(* Undoing one micro-operation: MarieVMCore::micro_step_back, and the loop *)
(* of step_back around it.                                                 *)

Undoing == call.api \in {"step_back", "micro_step_back"}

\* An entry of kind `kind` is the one to undo.
Undoes(kind) ==
  /\ Undoing
  /\ entries # << >>
  /\ Last(entries).effect.kind = kind

\* Faulty undos: one leaves the comparison latch alone, one looks for the
\* instruction boundary before the entry is undone, one reads the last entry
\* without popping it.
UndoneKeepingLatch ==
  /\ control' = [Last(entries).control EXCEPT !.comparison = control.comparison]
  /\ entries' = Front(entries)
  /\ past' = IF past = << >> THEN << >> ELSE Front(past)
  /\ IF call.api = "micro_step_back" \/ control'.micro_pc = 0
     THEN Returns("Undone")
     ELSE /\ call' = [call EXCEPT !.done = @ + 1]
          /\ UNCHANGED outcome
  /\ UNCHANGED << state, limit, breakpoints >>

UndoneOneShort ==
  /\ control' = Last(entries).control
  /\ entries' = Front(entries)
  /\ past' = IF past = << >> THEN << >> ELSE Front(past)
  /\ IF call.api = "micro_step_back" \/ control.micro_pc = 0
     THEN Returns("Undone")
     ELSE /\ call' = [call EXCEPT !.done = @ + 1]
          /\ UNCHANGED outcome
  /\ UNCHANGED << state, limit, breakpoints >>

UndoneUnpopped ==
  /\ control' = Last(entries).control
  /\ past' = IF past = << >> THEN << >> ELSE Front(past)
  /\ IF call.api = "micro_step_back" \/ control'.micro_pc = 0
     THEN Returns("Undone")
     ELSE /\ call' = [call EXCEPT !.done = @ + 1]
          /\ UNCHANGED outcome
  /\ UNCHANGED << state, journal, breakpoints >>

\* The control state is restored, the entry popped, and step_back goes on
\* until the machine is at an instruction boundary.
Undone ==
  /\ control' = Last(entries).control
  /\ entries' = Front(entries)
  /\ past' = IF past = << >> THEN << >> ELSE Front(past)
  /\ IF call.api = "micro_step_back" \/ control'.micro_pc = 0
     THEN Returns("Undone")
     ELSE /\ call' = [call EXCEPT !.done = @ + 1]
          /\ UNCHANGED outcome
  /\ UNCHANGED << state, limit, breakpoints >>

\* Err(StepBackError): nothing is touched, and step_back stops where it is.
Refused(error) ==
  /\ Returns(error)
  /\ UNCHANGED << state, core, journal, breakpoints, device, past >>

UndoNothing ==
  /\ Undoes("None")
  /\ Undone
  /\ UNCHANGED << registers, memory, device >>

UndoRegister ==
  LET effect == Last(entries).effect
  IN  /\ Undoes("Register")
      /\ registers' = Write(registers, effect.register, effect.previous)
      /\ Undone
      /\ UNCHANGED << memory, device >>

\* A faulty undo that does not tell the frontend.
UndoMemoryUnseen ==
  LET effect == Last(entries).effect
  IN  /\ Undoes("Memory")
      /\ memory' = [memory EXCEPT ![effect.address] = effect.previous]
      /\ Undone
      /\ UNCHANGED << registers, device >>

UndoMemory ==
  LET effect == Last(entries).effect
  IN  /\ Undoes("Memory")
      /\ memory' = [memory EXCEPT ![effect.address] = effect.previous]
      /\ canvas' = Painted(effect.address, memory[effect.address],
                           effect.previous)
      /\ Undone
      /\ UNCHANGED << registers, inputs, outputs, consumed >>

\* A faulty device interface that queues the value it takes back last.
UndoInputBehind ==
  LET effect == Last(entries).effect
  IN  /\ Undoes("InputRead")
      /\ inputs' = Append(inputs, effect.value)
      /\ consumed' = Front(consumed)
      /\ registers' = Write(registers, "In", effect.previous)
      /\ Undone
      /\ UNCHANGED << memory, outputs, canvas >>

\* unread_input answers true: the device takes the value back.
UndoInput ==
  LET effect == Last(entries).effect
  IN  /\ Undoes("InputRead")
      /\ inputs' = << effect.value >> \o inputs
      /\ consumed' = Front(consumed)
      /\ registers' = Write(registers, "In", effect.previous)
      /\ Undone
      /\ UNCHANGED << memory, outputs, canvas >>

\* unwrite_output answers true, which VecIo does only for its last value.
UndoOutput ==
  LET effect == Last(entries).effect
  IN  /\ Undoes("OutputWritten")
      /\ outputs # << >> /\ Last(outputs) = effect.value
      /\ outputs' = Front(outputs)
      /\ Undone
      /\ UNCHANGED << registers, memory, inputs, canvas, consumed >>

RefuseNoHistory == Undoing /\ entries = << >> /\ Refused("NoHistory")
RefuseInput == Undoes("InputRead") /\ Refused("IrreversibleInput")
RefuseOutput == Undoes("OutputWritten") /\ Refused("IrreversibleOutput")

MicroStepBack ==
  \/ UndoNothing \/ UndoRegister \/ UndoMemory \/ UndoInput \/ UndoOutput
  \/ RefuseNoHistory \/ RefuseInput \/ RefuseOutput

-----------------------------------------------------------------------------
(* Type-state transitions.                                                 *)

Transition(from, to) ==
  /\ Idle
  /\ state \in from
  /\ state' = to
  /\ UNCHANGED << core, journal, breakpoints, device, call, outcome, past >>

Boot == Transition({"Ready"}, "Running")
Debug == Transition({"Ready", "Terminated"}, "Stepping")
Pause == Transition({"Running"}, "Stepping")
Resume == Transition({"Stepping"}, "Running")

-----------------------------------------------------------------------------
(* Loading and resetting.                                                  *)

ZeroRegisters == [r \in Register |-> 0]
ZeroMemory == [a \in Addr |-> 0]

FreshControl(entry) ==
  [micro_pc |-> 0, instruction_address |-> entry,
   decoded |-> NoInstruction, comparison |-> FALSE]

\* A faulty rewind_to that forgets the micro-program counter.
RewindToMidCycle(regs, entry) ==
  /\ registers' = [regs EXCEPT !["Pc"] = entry]
  /\ control' = [FreshControl(entry) EXCEPT !.micro_pc = control.micro_pc]
  /\ entries' = << >>
  /\ past' = << >>
  /\ UNCHANGED << limit, breakpoints, device, call, outcome >>

\* rewind_to, over the registers it is left.
RewindTo(regs, entry) ==
  /\ registers' = [regs EXCEPT !["Pc"] = entry]
  /\ control' = FreshControl(entry)
  /\ entries' = << >>
  /\ past' = << >>
  /\ UNCHANGED << limit, breakpoints, device, call, outcome >>

FlashProgram ==
  /\ Idle /\ state = "Ready"
  /\ \E image \in Images, entry \in EntryPoints :
       /\ memory' = image
       /\ RewindTo(registers, entry)
  /\ UNCHANGED state

\* flash_memory leaves the program counter and the control state alone.
FlashMemory ==
  /\ Idle /\ state = "Ready"
  /\ \E image \in Images : memory' = image
  /\ past' = << >>
  /\ UNCHANGED << state, registers, control, journal, breakpoints, device,
                  call, outcome >>

\* load_program; a program that would run past the end changes nothing.
LoadProgram ==
  /\ Idle /\ state = "Ready"
  /\ \E origin \in EntryPoints, words \in Programs :
       /\ origin + Len(words) <= MemoryWords
       /\ memory' = [a \in Addr |->
            IF a \in origin .. origin + Len(words) - 1
            THEN words[a - origin + 1] ELSE memory[a]]
       /\ RewindTo(registers, origin)
  /\ UNCHANGED state

\* Ready::reset, and Terminated::reset, which also leaves the type-state.
Reset ==
  /\ Idle /\ state \in {"Ready", "Terminated"}
  /\ state' = "Ready"
  /\ memory' = ZeroMemory
  /\ RewindTo(ZeroRegisters, 0)

ResetWithProgram ==
  /\ Idle /\ state = "Terminated"
  /\ state' = "Ready"
  /\ \E image \in Images, entry \in EntryPoints :
       /\ memory' = image
       /\ RewindTo(ZeroRegisters, entry)

-----------------------------------------------------------------------------
(* What a host may do between calls, in any type-state.                    *)

SetHistoryLimit ==
  /\ Idle
  /\ \E n \in HistoryLimits :
       /\ limit' = n
       /\ entries' = Latest(entries, n)
       /\ past' = Latest(past, n)
  /\ UNCHANGED << state, core, breakpoints, device, call, outcome >>

ClearHistory ==
  /\ Idle
  /\ entries' = << >>
  /\ past' = << >>
  /\ UNCHANGED << state, core, limit, breakpoints, device, call, outcome >>

SetBreakpoints ==
  /\ Idle
  /\ breakpoints' \in BreakpointSets
  /\ UNCHANGED << state, core, journal, device, call, outcome, past >>

\* registers_mut and memory_mut go round the journal and the display hook,
\* so what was recorded before no longer leads back to where it came from.
PokeRegister ==
  /\ Idle
  /\ \E r \in HostRegisters, word \in HostWords :
       registers' = Write(registers, r, word)
  /\ past' = << >>
  /\ UNCHANGED << state, memory, control, journal, breakpoints, device, call,
                  outcome >>

PokeMemory ==
  /\ Idle
  /\ \E a \in HostAddrs, word \in HostWords :
       memory' = [memory EXCEPT ![a] = word]
  /\ past' = << >>
  /\ UNCHANGED << state, registers, control, journal, breakpoints, device,
                  call, outcome >>

\* io_mut: more input for a device that reported Pending.
FeedInput ==
  /\ Idle
  /\ Len(consumed) + Len(inputs) < MaxFed
  /\ \E word \in InputWords : inputs' = Append(inputs, word)
  /\ UNCHANGED << state, core, journal, breakpoints, outputs, canvas,
                  consumed, call, outcome, past >>

-----------------------------------------------------------------------------
(* The specification.                                                      *)

\* MarieVM::new, and new_with_program.
InitWith(image, entry) ==
  /\ state = "Ready"
  /\ registers = [ZeroRegisters EXCEPT !["Pc"] = entry]
  /\ memory = image
  /\ control = FreshControl(entry)
  /\ entries = << >> /\ limit = 0
  /\ breakpoints = {}
  /\ inputs = << >> /\ outputs = << >> /\ consumed = << >>
  /\ canvas = [a \in DisplayAddr |-> 0]
  /\ call = NoCall /\ outcome = "None"
  /\ past = << >>

Init ==
  \/ InitWith(ZeroMemory, 0)
  \/ \E image \in NewImages, entry \in EntryPoints : InitWith(image, entry)

Calls ==
  \/ CallRun \/ CallRunBounded \/ CallStep \/ CallMicroStep
  \/ CallStepBack \/ CallMicroStepBack

\* One turn of the loop of the call in progress.
Turn == MicroStep \/ SuspendRun \/ MicroStepBack

Host ==
  \/ Boot \/ Debug \/ Pause \/ Resume
  \/ FlashProgram \/ FlashMemory \/ LoadProgram \/ Reset \/ ResetWithProgram
  \/ SetHistoryLimit \/ ClearHistory \/ SetBreakpoints
  \/ PokeRegister \/ PokeMemory \/ FeedInput

Next == Calls \/ Turn \/ Host

Spec == Init /\ [][Next]_vars

-----------------------------------------------------------------------------
(* Properties.                                                             *)

\* The registers hold words of their own width, the journal never exceeds
\* its limit, and every variable has its type.
RegisterFile ==
  { f \in [Register -> Word] : f["Pc"] \in Addr /\ f["Mar"] \in Addr }

Control ==
  [micro_pc : 0 .. 9, instruction_address : Addr,
   decoded : Instruction \cup {NoInstruction}, comparison : BOOLEAN]

Effect ==
  {NoEffect}
    \cup [kind : {"Register"}, register : Register, previous : Word]
    \cup [kind : {"Memory"}, address : Addr, previous : Word]
    \cup [kind : {"InputRead"}, previous : Word, value : Word]
    \cup [kind : {"OutputWritten"}, value : Word]

Entry == [control : Control, micro_op : MicroOp, effect : Effect]

Snapshot ==
  [registers : RegisterFile, memory : [Addr -> Word], control : Control,
   consumed : Seq(Word), outputs : Seq(Word)]

Call ==
  [api : {"idle", "run", "step", "micro_step", "step_back", "micro_step_back"},
   budget : Nat \cup {NoBudget}, done : Nat, within : BOOLEAN, from : 0 .. 9]

TypeOK ==
  /\ state \in {"Ready", "Running", "Stepping", "Terminated"}
  /\ registers \in RegisterFile
  /\ memory \in [Addr -> Word]
  /\ control \in Control
  /\ entries \in Seq(Entry)
  /\ limit \in Nat /\ Len(entries) <= limit
  /\ breakpoints \subseteq Addr
  /\ inputs \in Seq(Word) /\ outputs \in Seq(Word) /\ consumed \in Seq(Word)
  /\ canvas \in [DisplayAddr -> Word]
  /\ call \in Call
  /\ past \in Seq(Snapshot)

\* Rewinding keeps the promise of Timeline: while a call steps backwards the
\* machine goes back to the very state each operation left, registers,
\* memory, control state and device position alike, or does not move.
TL == INSTANCE Timeline WITH now <- Now, past <- past, rewinding <- Undoing
RewindsAlongTimeline == TL!Spec

\* Neither the unreachable! of micro_step nor the expect of Compare can be
\* reached, whatever the host loads, pokes, rewinds or forgets between two
\* calls: there is always a micro-operation to run, and a Compare is only
\* ever run for a Skipcond.
NoPanic ==
  /\ HasMicroOp
  /\ CurrentOp.op = "Compare" => control.decoded.opcode = "SkipCond"

\* Undoing entry e, seen as a function of the machine it is undone on.
UndoneBy(e, s) ==
  LET effect == e.effect
  IN  [registers |->
         IF effect.kind = "Register"
         THEN Write(s.registers, effect.register, effect.previous)
         ELSE IF effect.kind = "InputRead"
              THEN Write(s.registers, "In", effect.previous)
              ELSE s.registers,
       memory |->
         IF effect.kind = "Memory"
         THEN [s.memory EXCEPT ![effect.address] = effect.previous]
         ELSE s.memory,
       control |-> e.control,
       consumed |->
         IF effect.kind = "InputRead" THEN Front(s.consumed) ELSE s.consumed,
       outputs |->
         IF effect.kind = "OutputWritten" THEN Front(s.outputs) ELSE s.outputs]

\* The machine k undoable operations ago.
Ago(k) == IF k = 0 THEN Now ELSE past[Len(past) - k + 1]

\* The journal leads back exactly: entry by entry, from the machine as it is
\* now, through every machine there was since the host last went round the
\* journal, however many operations were evicted, forgotten or undone and
\* redone in between.
JournalExact ==
  /\ Len(past) <= Len(entries)
  /\ \A k \in 0 .. Len(past) - 1 :
       UndoneBy(entries[Len(entries) - k], Ago(k)) = Ago(k + 1)

\* unread_input is only ever handed the last value read, and unwrite_output
\* the last one written, which io.rs guarantees to devices: rewinding never
\* crosses an exchange with the device that it does not also undo.
DeviceGuarantee ==
  entries # << >> =>
    LET effect == Last(entries).effect
    IN  /\ effect.kind = "InputRead" =>
             consumed # << >> /\ Last(consumed) = effect.value
        /\ effect.kind = "OutputWritten" =>
             outputs # << >> /\ Last(outputs) = effect.value

\* step_back from a boundary undoes exactly the instruction that ended
\* there, and part-way through an instruction exactly the part that ran:
\* whatever the host pokes, loads or forgets in between, as long as what the
\* instruction was read from is still on the line back.
StepBackExact ==
  [][call.api = "step_back" /\ outcome' = "Undone" =>
       /\ control'.micro_pc = 0
       /\ call.from > 0 => call.done + 1 = call.from
       /\ call.from = 0 /\ past # << >> =>
            call.done + 1
              = CycleLength(Decode(memory'[registers'["Pc"]]).opcode)]_vars

\* A pixel that a frontend draws right stays right while the machine runs,
\* steps or rewinds: every change of display memory reaches the hook.
PictureStaysRight ==
  [][~Idle =>
       \A a \in DisplayAddr : canvas[a] = memory[a] => canvas'[a] = memory'[a]
    ]_vars
=============================================================================
