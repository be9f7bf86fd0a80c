------------------------------ MODULE RunDrivers ------------------------------
(***************************************************************************)
(* `marie run` (bin/marie/src/run.rs): a file is loaded into a new machine *)
(* on a terminal (StdinIo), and one of three loops drives it: without      *)
(* interruption, in slices with the display redrawn between them, or by    *)
(* micro-operations at a slider speed.  The Ctrl-C handler is armed from   *)
(* the start and for good; it runs on a thread of its own.  The registers  *)
(* printed at the end, the cursor movements of a redraw and the length of  *)
(* a sleep are left out.                                                   *)
(***************************************************************************)
EXTENDS MarieVM, Loading

CONSTANTS
  Files,         \* the program files
  Origins,       \* values of --origin, Unset included
  Arguments,     \* the other arguments of a run
  Slice,         \* SLICE of `uninterrupted`: 1_000_000 instructions
  MaxPresses,    \* bound: how often Ctrl-C is pressed
  CountCap       \* bound: how far instructions are counted: past any limit

\* --max-steps; --speed as the micro-operations of a batch, Unset without it
\* and for the unlimited level; --display; --refresh.
Argument ==
  [max : Nat \cup {Unset}, speed : (Nat \ {0}) \cup {Unset},
   display : BOOLEAN, refresh : Nat]

ASSUME DriversAssumption ==
  /\ Origins \subseteq Addr \cup {Unset}
  /\ Arguments \subseteq Argument
  /\ Slice \in 1 .. DoneCap
  /\ \A a \in Arguments : a.refresh \in 0 .. DoneCap
  /\ MaxPresses \in Nat
  /\ CountCap \in Nat /\ \A a \in Arguments : a.max < CountCap
  /\ \A f \in Files :
       \/ /\ f.format = "Asm"
          /\ f.words \in Seq(Word) /\ f.org \in Addr \cup {Unset}
          /\ OrZero(f.org) + Len(f.words) <= MemoryWords
       \/ /\ f.format = "Bin"
          /\ f.bytes \in Seq(Byte)

VARIABLES
  file, option, args,
  at,          \* where the main thread is
  executed,    \* the loops' own count of instructions
  left,        \* steps left in pace's batch
  drawn,       \* the picture last drawn: `previous` while a loop runs
  stop,        \* Interrupt::stop
  presses,
  result,      \* how `run` ended
  completed    \* history variable: instructions the machine has completed

inputs_ == << file, option, args >>
loop == << executed, left, drawn >>
interrupt == << stop, presses >>
rvars == << vars, inputs_, at, loop, interrupt, result, completed >>

DisplayWords == [a \in DisplayAddr |-> memory[a]]
NoPicture == << >>

Paced == args.speed # Unset
Animated == ~Paced /\ args.display

Counted(n) == IF n > CountCap THEN CountCap ELSE n

\* The main thread goes on without the machine.
Goes(to) == at' = to /\ UNCHANGED << vars, inputs_, completed, result >>
Ends(how) ==
  /\ at' = "done" /\ result' = how
  /\ UNCHANGED << vars, inputs_, completed, executed, left >>

-----------------------------------------------------------------------------
(* Loading, and the choice of a loop.                                      *)

Refuse ==
  /\ at = "load"
  /\ LoadFault(file, option) # "None"
  /\ Ends(LoadFault(file, option))
  /\ UNCHANGED << drawn, interrupt >>

\* Program::install: a full image is flashed, anything else is loaded.
Install ==
  /\ at = "load"
  /\ LoadFault(file, option) = "None"
  /\ LET program == Loaded(file, option)
     IN  /\ program.load_at + Len(program.words) <= MemoryWords
         /\ memory' = IF program.full_image THEN Placed(program.words, 0)
                      ELSE [a \in Addr |->
                              IF a \in program.load_at ..
                                         program.load_at + Len(program.words) - 1
                              THEN program.words[a - program.load_at + 1]
                              ELSE memory[a]]
         /\ RewindTo(registers, program.entry)
  /\ at' = "start"
  /\ UNCHANGED << state, inputs_, loop, interrupt, result, completed >>

\* The machine is handed to the loop, which draws the first picture.
Start ==
  /\ at = "start"
  /\ IF Paced THEN Debug /\ at' = "batch" ELSE Boot /\ at' = "loop"
  /\ drawn' = IF args.display THEN DisplayWords ELSE drawn
  /\ UNCHANGED << inputs_, executed, left, interrupt, result, completed >>

-----------------------------------------------------------------------------
(* uninterrupted and animate.                                              *)

\* A faulty slice that does not look at the budget.
SliceUnlimited == IF Animated THEN args.refresh ELSE Slice

\* min(SLICE or --refresh, what the budget leaves).
SliceSize ==
  LET most == IF Animated THEN args.refresh ELSE Slice
      rest == args.max - executed
  IN  IF args.max = Unset \/ most <= rest THEN most ELSE rest

\* The flag is seen: animate draws and reports, uninterrupted returns.
SliceInterrupted ==
  /\ at = "loop" /\ stop
  /\ IF Animated
     THEN Ends("interrupted") /\ drawn' = DisplayWords
     ELSE Goes("report") /\ UNCHANGED loop
  /\ UNCHANGED interrupt

SliceRefused ==
  /\ at = "loop" /\ ~stop /\ SliceSize = 0
  /\ IF Animated THEN Ends("limit") ELSE Goes("report") /\ UNCHANGED << executed, left >>
  /\ UNCHANGED << drawn, interrupt >>

RunSlice ==
  /\ at = "loop" /\ ~stop /\ SliceSize > 0
  /\ Begin("run", SliceSize)
  /\ at' = "slice"
  /\ UNCHANGED << inputs_, loop, interrupt, result, completed >>

\* A faulty loop that does not count the slice.
SliceSpentUncounted ==
  /\ at = "slice" /\ Idle /\ outcome = "StepLimit"
  /\ drawn' = IF Animated THEN DisplayWords ELSE drawn
  /\ Goes("loop")
  /\ UNCHANGED << executed, left, interrupt >>

\* The slice is spent; animate redraws a picture that changed.
SliceSpent ==
  /\ at = "slice" /\ Idle /\ outcome = "StepLimit"
  /\ executed' = Counted(executed + SliceSize)
  /\ drawn' = IF Animated THEN DisplayWords ELSE drawn
  /\ Goes("loop")
  /\ UNCHANGED << left, interrupt >>

\* A faulty end that does not look at the picture again.
FinishUndrawn ==
  /\ at \in {"slice", "micro"} /\ Idle /\ state = "Terminated"
  /\ Ends(IF outcome = "Halted" THEN "halted" ELSE "fault")
  /\ UNCHANGED << drawn, interrupt >>

\* The program ended, in either loop and in pace.
Finish ==
  /\ at \in {"slice", "micro"} /\ Idle /\ state = "Terminated"
  /\ Ends(IF outcome = "Halted" THEN "halted" ELSE "fault")
  /\ drawn' = IF args.display THEN DisplayWords ELSE drawn
  /\ UNCHANGED interrupt

\* `run` on what uninterrupted returned: the flag decides what is reported.
ReportSuspended ==
  /\ at = "report"
  /\ Ends(IF stop THEN "interrupted" ELSE "limit")
  /\ UNCHANGED << drawn, interrupt >>

-----------------------------------------------------------------------------
(* pace.                                                                   *)

PaceInterrupted ==
  /\ at = "batch" /\ stop
  /\ Ends("interrupted")
  /\ drawn' = IF args.display THEN DisplayWords ELSE drawn
  /\ UNCHANGED interrupt

\* A faulty batch that never looks at the flag.
BeginBatchUnheeding ==
  /\ at = "batch"
  /\ left' = args.speed
  /\ Goes("step")
  /\ UNCHANGED << executed, drawn, interrupt >>

BeginBatch ==
  /\ at = "batch" /\ ~stop
  /\ left' = args.speed
  /\ Goes("step")
  /\ UNCHANGED << executed, drawn, interrupt >>

\* The batch is over, or is cut short by its 20 ms or by a press; whatever
\* changed is redrawn, and the thread sleeps if the level has a delay.
EndBatch ==
  /\ at = "step"
  /\ drawn' = IF args.display THEN DisplayWords ELSE drawn
  /\ Goes("batch")
  /\ UNCHANGED << executed, left, interrupt >>

PaceSpent == args.max # Unset /\ executed >= args.max

PaceLimit ==
  /\ at = "step" /\ left > 0 /\ ~stop /\ PaceSpent
  /\ Ends("limit")
  /\ UNCHANGED << drawn, interrupt >>

PaceStep ==
  /\ at = "step" /\ left > 0 /\ ~stop /\ ~PaceSpent
  /\ Begin("micro_step", NoBudget)
  /\ at' = "micro"
  /\ UNCHANGED << inputs_, loop, interrupt, result, completed >>

\* A faulty count of micro-operations for instructions.
PaceSteppedEach ==
  /\ at = "micro" /\ Idle /\ outcome = "Stepped"
  /\ executed' = Counted(executed + 1)
  /\ left' = left - 1
  /\ Goes("step")
  /\ UNCHANGED << drawn, interrupt >>

\* An instruction is counted when the machine is back at a boundary.
PaceStepped ==
  /\ at = "micro" /\ Idle /\ outcome = "Stepped"
  /\ executed' = IF control.micro_pc = 0 THEN Counted(executed + 1) ELSE executed
  /\ left' = left - 1
  /\ Goes("step")
  /\ UNCHANGED << drawn, interrupt >>

-----------------------------------------------------------------------------
(* The machine, the terminal and the handler.                              *)

\* StdinIo is blocked in read_line.
Waiting == at \in {"slice", "micro"} /\ Issues("ReadInput") /\ inputs = << >>

\* A turn of the machine.  StdinIo never stalls and no breakpoint is set, so
\* a run is suspended by its budget only; a read fails at the end of input,
\* and an output only at the bound MaxOutputs.
DriverTurn ==
  /\ at \in {"slice", "micro"}
  /\ Turn
  /\ outcome' # "AwaitingInput"
  /\ outcome' = "IoFault" => Waiting \/ Issues("WriteOutput")
  /\ completed' = IF control' # control /\ control'.micro_pc = 0
                  THEN Counted(completed + 1) ELSE completed
  /\ UNCHANGED << inputs_, at, loop, interrupt, result >>

TypeLine ==
  /\ Waiting
  /\ Len(consumed) < MaxFed
  /\ \E word \in InputWords : inputs' = << word >>
  /\ UNCHANGED << state, core, journal, breakpoints, outputs, canvas, consumed,
                  call, outcome, past, inputs_, at, loop, interrupt, result,
                  completed >>

\* The handler's swap: the first press sets the flag, the second ends the
\* process wherever the main thread is.
Press ==
  /\ at # "done" /\ presses < MaxPresses
  /\ presses' = presses + 1
  /\ IF stop THEN at' = "done" /\ result' = "killed" /\ UNCHANGED stop
     ELSE stop' = TRUE /\ UNCHANGED << at, result >>
  /\ UNCHANGED << vars, inputs_, loop, completed >>

-----------------------------------------------------------------------------
(* The specification.                                                      *)

DriverInit ==
  /\ InitWith(ZeroMemory, 0)
  /\ file \in Files /\ option \in Origins /\ args \in Arguments
  /\ at = "load"
  /\ executed = 0 /\ left = 0
  /\ drawn = NoPicture
  /\ stop = FALSE /\ presses = 0
  /\ result = "none" /\ completed = 0

Main ==
  \/ Refuse \/ Install \/ Start
  \/ SliceInterrupted \/ SliceRefused \/ RunSlice \/ SliceSpent \/ Finish
  \/ ReportSuspended
  \/ PaceInterrupted \/ BeginBatch \/ EndBatch \/ PaceLimit \/ PaceStep
  \/ PaceStepped
  \/ DriverTurn

DriverNext == Main \/ TypeLine \/ Press

DriverSpec == DriverInit /\ [][DriverNext]_rvars

\* The main thread is scheduled, except that a read of the terminal may block
\* for ever; and not every batch uses up its 20 ms before its first step.
FairDriverSpec ==
  /\ DriverSpec
  /\ WF_rvars(Main /\ ~Waiting)
  /\ SF_rvars(PaceStep \/ PaceLimit)

-----------------------------------------------------------------------------
(* Properties.                                                             *)

\* The file a run was given stands in memory as it was written, with the
\* program counter where the program begins: a source file, the full image
\* and the bare words `marie asm` writes of it start the same machine.  (Source
\* without ORG under an --origin other than 0 is left out: the code drops the
\* option there, and the documentation says that it is honoured.)
StartsAsMeant ==
  at = "start" =>
    \A source \in Files :
      source.format = "Asm" /\ RunsAs(file, option, source) =>
        /\ memory = Placed(source.words, OrZero(source.org))
        /\ registers["Pc"] = OrZero(source.org)

\* Nothing of the machine moves once --max-steps instructions have completed,
\* whichever loop drives it and wherever its slices and batches end.
BudgetKept ==
  [][args.max # Unset /\ completed >= args.max /\ at # "load" => UNCHANGED core]_rvars

\* What is reported of an interrupted run is how many instructions the
\* machine completed, and the limit is only reported when it is spent.  (A
\* --refresh of 0 is taken for a spent limit.)
ReportsTruly ==
  /\ result = "interrupted" => executed = completed
  /\ result = "limit" /\ (Animated => args.refresh > 0) => completed = args.max

\* The picture left on the terminal is the display of the machine that
\* stopped.  (A paced run that reaches its limit ends without a redraw.)
FinalPicture ==
  /\ result \in {"halted", "fault", "interrupted", "limit"}
  /\ args.display
  /\ ~(Paced /\ result = "limit")
  => drawn = DisplayWords

\* A press ends the run, at every speed and whatever the program does: only
\* a read of the terminal can put it off.
PressEndsRun == stop ~> (at = "done" \/ Waiting)

\* A run with a budget ends by itself.
BudgetEndsRun == args.max # Unset ~> (at = "done" \/ Waiting)
=============================================================================
