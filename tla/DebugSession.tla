----------------------------- MODULE DebugSession -----------------------------
(***************************************************************************)
(* `marie debug` (bin/marie/src/debug.rs) over the machine of MarieVM, and *)
(* the Ctrl-C handler of bin/marie/src/interrupt.rs, which runs on a       *)
(* thread of its own.  The main thread is at the prompt, inside a command  *)
(* that makes one call of the machine, or somewhere in `continue`, which   *)
(* runs the machine in slices and looks at the stop flag between them.     *)
(***************************************************************************)
EXTENDS MarieVM

CONSTANTS
  Slice,         \* SLICE: instructions per slice of `continue`, 200_000
  HistoryLimit,  \* --history, 100_000 by default
  MaxPresses,    \* bound: how often Ctrl-C is pressed
  MaxContinues   \* bound: how often `continue` is typed

ASSUME SessionAssumption ==
  /\ Slice \in 1 .. DoneCap
  /\ HistoryLimit \in Nat
  /\ MaxPresses \in Nat
  /\ MaxContinues \in Nat

VARIABLES
  at,          \* where the main thread is
  slot,        \* the session's Option<Machine>: "Some" or "None"
  stop, armed, \* the two flags of Interrupt
  pressed,     \* Ctrl-C presses the handler has not dealt with
  handler,     \* where the handler thread is: waiting, or past its first load
  presses,     \* Ctrl-C presses so far
  run,         \* history variable: how many `continue`s were started
  loadedIn,    \* history variable: the run the handler found armed
  stopFrom,    \* history variable: the run whose press set the flag
  fresh        \* history variable: nothing ran since `continue` was typed

interrupt == << stop, armed >>
thread == << pressed, handler, presses, loadedIn, stopFrom >>
history == << run, fresh >>
svars == << vars, at, slot, interrupt, thread, history >>

-----------------------------------------------------------------------------
(* Commands of one call.                                                   *)

AtPrompt == at = "prompt"
Stepping == slot = "Some" /\ state = "Stepping"

\* step and stepi move the machine out of the slot for the call.
TakeAndCall(Starts) ==
  /\ AtPrompt /\ Stepping
  /\ Starts
  /\ at' = "command" /\ slot' = "None"
  /\ UNCHANGED << interrupt, thread, history >>

Step == TakeAndCall(CallStep)
StepI == TakeAndCall(CallMicroStep)

\* back and backi borrow it in place; a stopped machine goes back to the
\* debugger first.
Reopen ==
  /\ AtPrompt /\ slot = "Some" /\ state = "Terminated"
  /\ Debug
  /\ at' \in {"back", "backi"}
  /\ UNCHANGED << slot, interrupt, thread, history >>

Back(Starts, name) ==
  /\ at = name \/ (AtPrompt /\ Stepping)
  /\ Starts
  /\ at' = "command"
  /\ UNCHANGED << slot, interrupt, thread, history >>

StepBack == Back(CallStepBack, "back")
StepBackI == Back(CallMicroStepBack, "backi")

CommandDone ==
  /\ at = "command" /\ Idle
  /\ at' = "prompt" /\ slot' = "Some"
  /\ UNCHANGED << vars, interrupt, thread, history >>

Break ==
  /\ AtPrompt /\ slot = "Some"
  /\ \E a \in Addr : breakpoints' \in {breakpoints \cup {a}, breakpoints \ {a}}
  /\ breakpoints' \in BreakpointSets
  /\ UNCHANGED << state, core, journal, device, call, outcome, past, at, slot,
                  interrupt, thread, history >>

-----------------------------------------------------------------------------
(* continue.                                                               *)

\* `machine.take()` has already emptied the slot when the pattern fails.
ContinueStopped ==
  /\ AtPrompt /\ ~Stepping
  /\ slot' = "None"
  /\ UNCHANGED << vars, at, interrupt, thread, history >>

\* Interrupt::arm clears a stale flag, then arms.
ContinueArm ==
  /\ AtPrompt /\ Stepping
  /\ run < MaxContinues
  /\ slot' = "None" /\ at' = "arming"
  /\ stop' = FALSE
  /\ run' = run + 1 /\ fresh' = TRUE
  /\ UNCHANGED << vars, armed, thread >>

Armed ==
  /\ at = "arming"
  /\ armed' = TRUE
  /\ Resume
  /\ at' = "loop"
  /\ UNCHANGED << slot, stop, thread, history >>

\* The machine is put back, and the guard dropped.
Ends == slot' = "Some" /\ at' = "disarming"

Interrupted ==
  /\ at = "loop" /\ stop
  /\ Pause
  /\ Ends
  /\ UNCHANGED << interrupt, thread, history >>

\* A faulty loop that never looks at the stop flag.
RunSliceUnheeding ==
  /\ at = "loop"
  /\ Begin("run", Slice)
  /\ at' = "slice"
  /\ UNCHANGED << slot, interrupt, thread, history >>

RunSlice ==
  /\ at = "loop" /\ ~stop
  /\ Begin("run", Slice)
  /\ at' = "slice"
  /\ UNCHANGED << slot, interrupt, thread, history >>

\* A faulty loop that begins each slice with a clean flag.
SliceSpentClearing ==
  /\ at = "slice" /\ Idle /\ outcome = "StepLimit"
  /\ at' = "loop" /\ stop' = FALSE
  /\ UNCHANGED << vars, slot, armed, thread, history >>

SliceSpent ==
  /\ at = "slice" /\ Idle /\ outcome = "StepLimit"
  /\ at' = "loop"
  /\ UNCHANGED << vars, slot, interrupt, thread, history >>

SliceSuspended ==
  /\ at = "slice" /\ Idle /\ outcome \in {"Breakpoint", "AwaitingInput"}
  /\ Pause
  /\ Ends
  /\ UNCHANGED << interrupt, thread, history >>

\* A faulty way out that leaks the guard.
SliceStoppedLeakingGuard ==
  /\ at = "slice" /\ Idle /\ state = "Terminated"
  /\ slot' = "Some" /\ at' = "prompt"
  /\ UNCHANGED << vars, interrupt, thread, history >>

SliceStopped ==
  /\ at = "slice" /\ Idle /\ state = "Terminated"
  /\ Ends
  /\ UNCHANGED << vars, interrupt, thread, history >>

\* Armed::drop, a store at a time.
Disarm ==
  /\ at = "disarming"
  /\ armed' = FALSE /\ at' = "clearing"
  /\ UNCHANGED << vars, slot, stop, thread, history >>

Clear ==
  /\ at = "clearing"
  /\ stop' = FALSE /\ at' = "prompt"
  /\ UNCHANGED << vars, slot, armed, thread, history >>

-----------------------------------------------------------------------------
(* The machine's own turns.  ReplayIo never stalls: prompt_stdin blocks    *)
(* until a line that holds a value is typed or the input ends.  It takes   *)
(* back whatever it exchanged, and writing to it cannot fail.              *)

\* The main thread is blocked in read_line.
Waiting == at \in {"command", "slice"} /\ Issues("ReadInput") /\ inputs = << >>

SessionTurn ==
  /\ at \in {"command", "slice"}
  /\ Turn
  /\ outcome' \notin {"AwaitingInput", "IrreversibleInput", "IrreversibleOutput"}
  /\ outcome' = "IoFault" => Waiting
  /\ fresh' = (fresh /\ control' = control)
  /\ UNCHANGED << at, slot, interrupt, thread, run >>

\* A line is typed: one word, or with --input utf16 as many as the line has
\* code units.
TypeLine ==
  /\ Waiting
  /\ \E words \in TupleOf(InputWords, 1) \cup TupleOf(InputWords, 2) :
       /\ Len(consumed) + Len(words) <= MaxFed
       /\ inputs' = words
  /\ UNCHANGED << state, core, journal, breakpoints, outputs, canvas, consumed,
                  call, outcome, past, at, slot, interrupt, thread, history >>

-----------------------------------------------------------------------------
(* Ctrl-C.                                                                 *)

Press ==
  /\ at # "exited" /\ presses < MaxPresses
  /\ presses' = presses + 1
  /\ pressed' = pressed + 1
  /\ UNCHANGED << vars, at, slot, interrupt, handler, loadedIn, stopFrom,
                  history >>

\* std::process::exit, from either thread.
Exit ==
  /\ at' = "exited"
  /\ UNCHANGED << vars, slot, interrupt, thread, history >>

Quit == AtPrompt /\ Exit

HandlerLoads ==
  /\ at # "exited" /\ handler = "waiting" /\ pressed > 0
  /\ IF ~armed THEN Exit
     ELSE /\ handler' = "loaded" /\ loadedIn' = run
          /\ UNCHANGED << vars, at, slot, interrupt, pressed, presses, stopFrom,
                          history >>

HandlerSwaps ==
  /\ at # "exited" /\ handler = "loaded"
  /\ IF stop THEN Exit
     ELSE /\ stop' = TRUE /\ stopFrom' = loadedIn
          /\ handler' = "waiting" /\ pressed' = pressed - 1
          /\ UNCHANGED << vars, at, slot, armed, presses, loadedIn, history >>

-----------------------------------------------------------------------------
(* The specification.                                                      *)

\* debug::run: the program is installed, the journal and the breakpoints are
\* set up, and the machine is handed to the debugger.
SessionInit ==
  /\ state = "Stepping"
  /\ registers = ZeroRegisters
  /\ memory \in NewImages
  /\ control = FreshControl(0)
  /\ entries = << >> /\ limit = HistoryLimit /\ past = << >>
  /\ breakpoints \in BreakpointSets
  /\ inputs = << >> /\ outputs = << >> /\ consumed = << >>
  /\ canvas = [a \in DisplayAddr |-> 0]
  /\ call = NoCall /\ outcome = "None"
  /\ at = "prompt" /\ slot = "Some"
  /\ stop = FALSE /\ armed = FALSE
  /\ pressed = 0 /\ handler = "waiting" /\ presses = 0
  /\ run = 0 /\ loadedIn = 0 /\ stopFrom = 0 /\ fresh = FALSE

\* What the user types.
Command ==
  \/ Step \/ StepI \/ Reopen \/ StepBack \/ StepBackI \/ Break
  \/ ContinueStopped \/ ContinueArm \/ Quit

\* What the main thread does on its own.
Main ==
  \/ CommandDone \/ Armed \/ Interrupted \/ RunSlice \/ SliceSpent
  \/ SliceSuspended \/ SliceStopped \/ Disarm \/ Clear \/ SessionTurn

Handler == HandlerLoads \/ HandlerSwaps

SessionNext == Command \/ Main \/ Handler \/ TypeLine \/ Press

SessionSpec == SessionInit /\ [][SessionNext]_svars

\* Both threads are scheduled, but a read of the terminal may block for ever:
\* nobody has to type, press or end the input.
FairSessionSpec ==
  SessionSpec /\ WF_svars(Main /\ ~Waiting) /\ WF_svars(Handler)

-----------------------------------------------------------------------------
(* Properties.                                                             *)

\* As long as a run is armed, no step wipes a press that was accepted, whether
\* it ends a slice, begins one, disarms, or is the handler's.
PressKeptWhileArmed == [][stop /\ armed => stop']_svars

\* An accepted press ends the run: the machine comes back to the prompt, or
\* the process exits, even if the program loops for ever.  Only a program
\* that reads the terminal can put it off, until a line is typed.
PressEndsRun == [](stop /\ at \in {"loop", "slice"} =>
                     <>(at \in {"prompt", "exited"} \/ Waiting))

\* Every command and every slice comes back from the machine, forwards and
\* backwards, whatever the program does: an instruction always comes to an
\* end.  Only a read of the terminal can hold it up.
CommandsReturn == [](~Idle => <>(Idle \/ Waiting \/ at = "exited"))

\* Inside a slice no instruction begins at a breakpoint.
Begins == at = "slice" /\ control.micro_pc = 0 /\ control' # control
BreakpointsHonouredInSlice ==
  [][Begins /\ registers["Pc"] \in breakpoints => call.done = 0]_svars

\* Back at the prompt the handler is disarmed, so Ctrl-C quits there.
DisarmedAtPrompt == AtPrompt => ~armed

-----------------------------------------------------------------------------
(* What the documentation says and the code does not do.                   *)

\* "run until a breakpoint, a halt, or a fault" (help of `continue`): no
\* instruction begins at a breakpoint but the one `continue` was typed at.
BreakpointsHonoured ==
  [][Begins /\ registers["Pc"] \in breakpoints => fresh]_svars

\* "Every arm must put the machine back: taking it and dropping it on a
\* non-matching pattern would empty the slot for good."
SlotKept == AtPrompt => slot = "Some"

\* "a stale press is not carried forward": the press that interrupts a run
\* was found by the handler while that run was armed.
StalePressDropped == at = "loop" /\ stop => stopFrom = run
=============================================================================
