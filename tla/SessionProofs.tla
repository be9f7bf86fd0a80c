----------------------------- MODULE SessionProofs -----------------------------
(***************************************************************************)
(* Proofs about the debugger session of DebugSession, for every program,   *)
(* slice and journal limit, and however often Ctrl-C is pressed.           *)
(***************************************************************************)
EXTENDS DebugSession, MarieVMProofs

-----------------------------------------------------------------------------
(* The machine under a session.                                            *)

\* What a session does to the machine is a turn of its, the begin of a call,
\* a change of type-state, a breakpoint, a line of input, or nothing.
SliceBegins == Begin("run", Slice)
CallBegins ==
  CallStep \/ CallMicroStep \/ CallStepBack \/ CallMicroStepBack \/ SliceBegins
BreakpointSet ==
  /\ breakpoints' \in BreakpointSets
  /\ UNCHANGED << state, core, journal, device, call, outcome, past >>
InputTyped ==
  /\ \E words \in TupleOf(InputWords, 1) \cup TupleOf(InputWords, 2) :
       inputs' = words
  /\ UNCHANGED << state, core, journal, breakpoints, outputs, canvas, consumed,
                  call, outcome, past >>

\* Every step of the session is one of these to the machine; only a turn of
\* its own, in a command or a slice, changes the machine's control state.
LEMMA SessionMovesMachine ==
  ASSUME [SessionNext]_svars
  PROVE  \/ Turn /\ SessionTurn
         \/ CallBegins
         \/ Debug \/ Pause \/ Resume \/ BreakpointSet \/ InputTyped
         \/ UNCHANGED vars
<1>1. CASE UNCHANGED svars
  BY <1>1 DEF svars
<1>2. CASE Command
  BY <1>2
     DEF Command, Step, StepI, TakeAndCall, Reopen, StepBack, StepBackI, Back,
         Break, ContinueStopped, ContinueArm, Quit, Exit, CallBegins,
         BreakpointSet
<1>3. CASE Main
  BY <1>3
     DEF Main, CommandDone, Armed, Interrupted, RunSlice, SliceSpent,
         SliceSuspended, SliceStopped, Disarm, Clear, SessionTurn, CallBegins,
         SliceBegins
<1>4. CASE Handler \/ Press
  BY <1>4 DEF Handler, HandlerLoads, HandlerSwaps, Exit, Press
<1>5. CASE TypeLine
  BY <1>5 DEF TypeLine, InputTyped
<1> QED
  BY <1>1, <1>2, <1>3, <1>4, <1>5 DEF SessionNext

\* The machine of a session starts out within the machine's invariant.
LEMMA SessionInitType ==
  ASSUME SessionInit
  PROVE  IInv /\ JournalExact
<1>1. registers \in RegisterFile /\ memory \in [Addr -> Word]
  BY ZeroType, ConstantsAssumption DEF SessionInit
<1>2. control \in Control /\ InCycle(control)
  BY WordFacts, FetchFacts DEF SessionInit, FreshControl, Control, InCycle
<1>3. canvas \in [DisplayAddr -> Word]
  BY WordFacts DEF SessionInit
<1>4. breakpoints \subseteq Addr /\ limit \in Nat
  BY ConstantsAssumption, SessionAssumption DEF SessionInit
<1>5. entries = << >> /\ past = << >>
  BY DEF SessionInit
<1>6. IInv
  BY <1>1, <1>2, <1>3, <1>4, <1>5, NoCallType DEF SessionInit, IInv, TypeOK
<1>7. JournalExact
  BY <1>5 DEF JournalExact
<1> QED
  BY <1>6, <1>7

\* A typed line is a sequence of words.
LEMMA TypedWords ==
  ASSUME NEW n \in {1, 2}, NEW words \in TupleOf(InputWords, n)
  PROVE  words \in Seq(Word)
BY ConstantsAssumption DEF TupleOf

\* Every step of a session keeps the machine's invariant and its journal
\* exact.
LEMMA SessionKeepsMachine ==
  ASSUME IInv, JournalExact, [SessionNext]_svars
  PROVE  IInv' /\ JournalExact'
<1>1. CASE Turn
  BY <1>1, MicroStepType, MicroStepBackType, CallsType, MicroStepExact,
     MicroStepBackExact, HostExact DEF Turn
<1>2. CASE CallStep \/ CallMicroStep \/ CallStepBack \/ CallMicroStepBack
  BY <1>2, CallsType, HostExact DEF Calls
<1>3. CASE SliceBegins
  <2>1. control.micro_pc \in 0 .. 9 /\ Slice \in Nat
    BY SessionAssumption, ConstantsAssumption DEF IInv, TypeOK, Control
  <2>2. call' \in Call
    BY <1>3, <2>1 DEF SliceBegins, Begin, Call
  <2>3. IInv'
    BY <1>3, <2>2
       DEF SliceBegins, Begin, IInv, TypeOK, InCycle, core, journal, device
  <2>4. JournalExact'
    BY <1>3, UntouchedExact
       DEF SliceBegins, Begin, core, journal, device, Now
  <2> QED
    BY <2>3, <2>4
<1>4. CASE Debug \/ Pause \/ Resume
  BY <1>4, HostType, HostExact DEF Host
<1>5. CASE BreakpointSet
  <2>1. IInv'
    BY <1>5, ConstantsAssumption
       DEF BreakpointSet, IInv, TypeOK, InCycle, core, journal, device
  <2> QED
    BY <1>5, <2>1, UntouchedExact DEF BreakpointSet, core, journal, device, Now
<1>6. CASE InputTyped
  <2>1. inputs' \in Seq(Word)
    BY <1>6, TypedWords DEF InputTyped
  <2>2. IInv'
    BY <1>6, <2>1 DEF InputTyped, IInv, TypeOK, InCycle, core, journal
  <2> QED
    BY <1>6, <2>2, UntouchedExact DEF InputTyped, core, journal, Now
<1>7. CASE UNCHANGED vars
  <2>1. [Next]_vars
    BY <1>7
  <2> QED
    BY <2>1, NextType, NextExact
<1> QED
  BY <1>1, <1>2, <1>3, <1>4, <1>5, <1>6, <1>7, SessionMovesMachine
     DEF CallBegins

\* The debugger never reaches a panic of the execution core, and what `back`
\* and `backi` undo is exactly what was done, for every program, history
\* limit and sequence of commands, Ctrl-C included.
THEOREM SessionKeepsJournalExact == SessionSpec => [](NoPanic /\ JournalExact)
<1>1. IInv => NoPanic
  BY CurrentOpFacts DEF IInv, TypeOK, NoPanic
<1>2. IInv /\ JournalExact /\ [SessionNext]_svars => IInv' /\ JournalExact'
  BY SessionKeepsMachine
<1>3. SessionInit => IInv /\ JournalExact
  BY SessionInitType
<1> QED
  BY <1>1, <1>2, <1>3, PTL DEF SessionSpec

-----------------------------------------------------------------------------
(* The two threads.                                                        *)

\* The main thread is where a run is armed.
MayBeArmed == at \in {"loop", "slice", "disarming", "exited"}

\* Outside a run the handler is disarmed; this is inductive, and says what
\* DisarmedAtPrompt needs of the way there.
ThreadInv == armed => MayBeArmed

\* Every step of either thread keeps ThreadInv.
LEMMA ThreadStep ==
  ASSUME ThreadInv, [SessionNext]_svars
  PROVE  ThreadInv'
<1> USE DEF ThreadInv, MayBeArmed, AtPrompt
<1>1. CASE UNCHANGED svars
  BY <1>1 DEF svars, interrupt
<1>2. CASE Command
  BY <1>2
     DEF Command, Step, StepI, TakeAndCall, Reopen, StepBack, StepBackI, Back,
         Break, ContinueStopped, ContinueArm, Quit, Exit, interrupt
<1>3. CASE Main
  BY <1>3
     DEF Main, CommandDone, Armed, Interrupted, RunSlice, SliceSpent,
         SliceSuspended, SliceStopped, Ends, Disarm, Clear, SessionTurn,
         interrupt
<1>4. CASE Handler \/ Press
  BY <1>4 DEF Handler, HandlerLoads, HandlerSwaps, Exit, Press, interrupt
<1>5. CASE TypeLine
  BY <1>5 DEF TypeLine, interrupt
<1> QED
  BY <1>1, <1>2, <1>3, <1>4, <1>5 DEF SessionNext

\* ThreadInv holds of every reachable state of a session.
THEOREM ThreadInvariance == SessionSpec => []ThreadInv
<1>1. SessionInit => ThreadInv
  BY DEF SessionInit, ThreadInv
<1> QED
  BY <1>1, ThreadStep, PTL DEF SessionSpec

\* Whenever the debugger is back at the prompt the handler is disarmed, so
\* Ctrl-C quits there: no way out of `continue` leaks the guard.
THEOREM PromptIsDisarmed == SessionSpec => []DisarmedAtPrompt
<1>1. ThreadInv => DisarmedAtPrompt
  BY DEF ThreadInv, MayBeArmed, DisarmedAtPrompt, AtPrompt
<1> QED
  BY <1>1, ThreadInvariance, PTL

\* A step that lowers the stop flag is one of `arm` or of `drop`, and the
\* handler is disarmed at both.
LEMMA StopKept ==
  ASSUME ThreadInv, [SessionNext]_svars
  PROVE  stop /\ armed => stop'
<1> SUFFICES ASSUME stop, armed
             PROVE  stop'
  OBVIOUS
<1> USE DEF ThreadInv, MayBeArmed, AtPrompt
<1>1. CASE UNCHANGED svars
  BY <1>1 DEF svars, interrupt
<1>2. CASE Command
  BY <1>2
     DEF Command, Step, StepI, TakeAndCall, Reopen, StepBack, StepBackI, Back,
         Break, ContinueStopped, ContinueArm, Quit, Exit, interrupt
<1>3. CASE Main
  BY <1>3
     DEF Main, CommandDone, Armed, Interrupted, RunSlice, SliceSpent,
         SliceSuspended, SliceStopped, Ends, Disarm, Clear, SessionTurn,
         interrupt
<1>4. CASE Handler \/ Press
  BY <1>4 DEF Handler, HandlerLoads, HandlerSwaps, Exit, Press, interrupt
<1>5. CASE TypeLine
  BY <1>5 DEF TypeLine, interrupt
<1> QED
  BY <1>1, <1>2, <1>3, <1>4, <1>5 DEF SessionNext

\* No step of an armed run wipes a press that was accepted: neither thread
\* does, nor the end of a slice.
THEOREM PressIsKept == SessionSpec => PressKeptWhileArmed
<1>1. ThreadInv /\ [SessionNext]_svars => [stop /\ armed => stop']_svars
  BY StopKept
<1> QED
  BY <1>1, ThreadInvariance, PTL DEF SessionSpec, PressKeptWhileArmed

-----------------------------------------------------------------------------
(* Breakpoints.                                                            *)

\* A call that is part-way through an instruction goes forwards, and the
\* micro-program counter says so too.
Midway == call.within => control.micro_pc # 0 /\ ~Undoing

\* In a slice the call is the slice's run, or has come back; Midway says why
\* run_inner's test is made wherever an instruction begins.
SliceInv ==
  /\ call \in Call
  /\ Midway
  /\ at = "slice" => call.api \in {"idle", "run"}

\* What moving on does to the record of the call.
LEMMA AdvancedCall ==
  ASSUME NEW c \in Call, NEW within \in BOOLEAN, NEW done \in Nat,
         NEW d \in Call, d = [c EXCEPT !.within = within, !.done = done]
  PROVE  d.api = c.api /\ d.within = within
BY DEF Call

\* The Ok branch of micro_step keeps the call in step with the counter.
LEMMA ExecutedCall ==
  ASSUME call \in Call, Issuing,
         NEW effect, NEW decoded, NEW comparison,
         Executed(effect, decoded, comparison)
  PROVE  Midway' /\ call'.api \in {"idle", call.api}
<1> DEFINE next == AdvancedMicroPc(decoded)
           finished == next = 0
           done == IF call.api = "run" /\ finished /\ call.done < DoneCap
                   THEN call.done + 1 ELSE call.done
<1>1. control'.micro_pc = next
  BY DEF Executed
<1>2. CASE call' = NoCall
  BY <1>2 DEF NoCall, Midway
<1>3. CASE call' = [call EXCEPT !.within = ~finished, !.done = done]
  <2>1. done \in Nat
    BY DEF Call
  <2>2. call' = [call EXCEPT !.within = ~finished, !.done = done]
    BY <1>3
  <2> HIDE DEF finished, done
  <2>3. call' \in Call
    BY <2>1, <2>2, CallType DEF finished
  <2>4. call'.api = call.api /\ call'.within = ~finished
    BY <2>1, <2>2 DEF Call, finished
  <2> QED
    BY <1>1, <2>4 DEF Midway, Undoing, Issuing, finished
<1>4. \/ call' = NoCall
      \/ call' = [call EXCEPT !.within = ~finished, !.done = done]
  BY DEF Executed, Returns
<1> QED
  BY <1>2, <1>3, <1>4

\* A turn of the machine keeps Midway, stays in its call or comes back from
\* it, and a run begins no instruction at a breakpoint but its first.
LEMMA TurnCall ==
  ASSUME call \in Call, Midway, Turn
  PROVE  /\ Midway' /\ call'.api \in {"idle", call.api}
         /\ call.api = "run" /\ control.micro_pc = 0 /\ control' # control =>
              ~AtBreakpoint
<1>1. CASE \/ ExecuteRegisterWrite \/ ExecuteWriteMemory \/ ExecuteDecode
           \/ ExecuteCompare \/ ExecuteNoSkip \/ ExecuteReadInput
           \/ ExecuteWriteOutput
  <2>1. /\ Issuing
        /\ \E effect, decoded, comparison : Executed(effect, decoded, comparison)
    BY <1>1
       DEF ExecuteRegisterWrite, ExecuteWriteMemory, ExecuteDecode,
           ExecuteCompare, ExecuteNoSkip, ExecuteReadInput, ExecuteWriteOutput,
           Issues
  <2> QED
    BY <2>1, ExecutedCall DEF Issuing, Midway
<1>2. ASSUME NEW value, Returns(value), UNCHANGED control
      PROVE  Midway' /\ call'.api = "idle" /\ control' = control
  BY <1>2 DEF Returns, NoCall, Midway
<1>3. CASE \/ FaultInvalidOpcode \/ StallOnInput \/ FaultOnInput
           \/ FaultOnOutput \/ ExecuteHalt
  BY <1>2, <1>3
     DEF FaultInvalidOpcode, StallOnInput, FaultOnInput, FaultOnOutput,
         ExecuteHalt, Stopped, core
<1>4. CASE SuspendRun
  BY <1>2, <1>4 DEF SuspendRun, core
<1>5. CASE RefuseNoHistory \/ RefuseInput \/ RefuseOutput
  BY <1>2, <1>5 DEF RefuseNoHistory, RefuseInput, RefuseOutput, Refused, core
<1>6. CASE UndoNothing \/ UndoRegister \/ UndoMemory \/ UndoInput \/ UndoOutput
  <2>1. Undoing /\ Undone
    BY <1>6
       DEF UndoNothing, UndoRegister, UndoMemory, UndoInput, UndoOutput, Undoes
  <2>2. call' = NoCall \/ call' = [call EXCEPT !.done = @ + 1]
    BY <2>1 DEF Undone, Returns
  <2>3. CASE call' = NoCall
    BY <2>1, <2>3 DEF NoCall, Midway, Undoing
  <2>4. CASE call' = [call EXCEPT !.done = @ + 1]
    <3>1. call'.api = call.api /\ call'.within = call.within
      BY <2>4 DEF Call
    <3> QED
      BY <2>1, <3>1 DEF Midway, Undoing
  <2> QED
    BY <2>2, <2>3, <2>4
<1> QED
  BY <1>1, <1>3, <1>4, <1>5, <1>6 DEF Turn, MicroStep, MicroStepBack

\* Every step of a session keeps SliceInv.
LEMMA SliceStep ==
  ASSUME IInv, IInv', SliceInv, [SessionNext]_svars
  PROVE  SliceInv'
<1>1. call' \in Call
  BY DEF IInv, TypeOK
<1>2. CASE Turn /\ SessionTurn
  BY <1>1, <1>2, TurnCall DEF SessionTurn, SliceInv
<1>3. ASSUME UNCHANGED << call, control >>, at' = "slice" => at = "slice"
      PROVE  SliceInv'
  BY <1>3 DEF SliceInv, Midway, Undoing
<1>4. CASE UNCHANGED svars
  BY <1>3, <1>4 DEF svars, vars, core
<1>5. ASSUME NEW api, NEW budget, Begin(api, budget),
             at' # "slice" \/ api = "run"
      PROVE  SliceInv'
  BY <1>1, <1>5 DEF Begin, SliceInv, Midway
<1>6. CASE Command
  BY <1>3, <1>5, <1>6
     DEF Command, Step, StepI, TakeAndCall, Reopen, StepBack, StepBackI, Back,
         Break, ContinueStopped, ContinueArm, Quit, Exit, CallStep,
         CallMicroStep, CallStepBack, CallMicroStepBack, Debug, Transition,
         vars, core
<1>7. CASE Main /\ ~SessionTurn
  BY <1>3, <1>5, <1>7
     DEF Main, CommandDone, Armed, Interrupted, RunSlice, SliceSpent,
         SliceSuspended, SliceStopped, Ends, Disarm, Clear, Pause, Resume,
         Transition, vars, core
<1>8. CASE Handler \/ Press
  BY <1>3, <1>8
     DEF Handler, HandlerLoads, HandlerSwaps, Exit, Press, vars, core
<1>9. CASE TypeLine
  BY <1>3, <1>9 DEF TypeLine, core
<1> QED
  BY <1>2, <1>4, <1>6, <1>7, <1>8, <1>9 DEF SessionNext, Main, SessionTurn

\* Of all the steps of a session, only a turn of the machine moves it.
LEMMA SliceMoves ==
  ASSUME SliceInv, [SessionNext]_svars
  PROVE  Begins /\ registers["Pc"] \in breakpoints => call.done = 0
<1> SUFFICES ASSUME Begins, registers["Pc"] \in breakpoints
             PROVE  call.done = 0
  OBVIOUS
<1>1. Turn /\ SessionTurn
  <2>1. control' # control
    BY DEF Begins
  <2> QED
    BY <2>1, SessionMovesMachine
       DEF CallBegins, CallStep, CallMicroStep, CallStepBack,
           CallMicroStepBack, SliceBegins, Begin, Debug, Pause, Resume,
           Transition, BreakpointSet, InputTyped, core, vars
<1>2. call.api = "run"
  <2>1. call.api # "idle"
    BY <1>1
       DEF Turn, MicroStep, SuspendRun, MicroStepBack, ExecuteRegisterWrite,
           ExecuteWriteMemory, ExecuteDecode, ExecuteCompare, ExecuteNoSkip,
           ExecuteReadInput, ExecuteWriteOutput, FaultInvalidOpcode,
           StallOnInput, FaultOnInput, FaultOnOutput, ExecuteHalt, Issues,
           Issuing, UndoNothing, UndoRegister, UndoMemory, UndoInput,
           UndoOutput, RefuseNoHistory, RefuseInput, RefuseOutput, Undoes,
           Undoing
  <2> QED
    BY <2>1 DEF SliceInv, Begins
<1>3. ~AtBreakpoint
  BY <1>1, <1>2, TurnCall DEF SliceInv, Begins
<1> QED
  BY <1>3 DEF AtBreakpoint, Begins, SliceInv, Call

\* Inside a slice of `continue` no instruction begins at a breakpoint, but
\* for the slice's own first, whatever the slice's length and wherever in an
\* instruction it was started.
THEOREM SlicesHonourBreakpoints == SessionSpec => BreakpointsHonouredInSlice
<1>1. SessionInit => IInv /\ JournalExact /\ SliceInv
  <2>1. SessionInit => IInv /\ JournalExact
    BY SessionInitType
  <2>2. SessionInit => SliceInv
    BY NoCallType DEF SessionInit, SliceInv, Midway, NoCall
  <2> QED
    BY <2>1, <2>2
<1>2. IInv /\ JournalExact /\ SliceInv /\ [SessionNext]_svars
        => IInv' /\ JournalExact' /\ SliceInv'
  BY SessionKeepsMachine, SliceStep
<1>3. SliceInv /\ [SessionNext]_svars =>
        [Begins /\ registers["Pc"] \in breakpoints => call.done = 0]_svars
  BY SliceMoves
<1> QED
  BY <1>1, <1>2, <1>3, PTL DEF SessionSpec, BreakpointsHonouredInSlice
=============================================================================
