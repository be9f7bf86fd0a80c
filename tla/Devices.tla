------------------------------- MODULE Devices -------------------------------
(***************************************************************************)
(* The devices of this repository under the machine of MarieVM: the        *)
(* scripted VecIo, Flaky around one, the terminal's StdinIo, and the       *)
(* debugger's ReplayIo (bin/marie/src/debug.rs).  MarieVM lets a device    *)
(* answer in any way its contract allows; here each answers as its code    *)
(* does.  `inputs` is VecIo's queue of inputs, StdinIo's pending, and      *)
(* ReplayIo's pending followed by its typed.                               *)
(***************************************************************************)
EXTENDS MarieVM

CONSTANTS
  Kinds,     \* the devices a machine may be made with
  Stall      \* Flaky::stall

ASSUME DevicesAssumption ==
  /\ Kinds \subseteq {"VecIo", "Flaky", "StdinIo", "ReplayIo"}
  /\ Stall \in 0 .. 255

VARIABLES
  kind,
  remaining,   \* Flaky::remaining
  replay,      \* how many of the inputs are in ReplayIo::pending
  frontier     \* history variable: how many words ReplayIo has ever handed over

dvars == << vars, kind, remaining, replay, frontier >>

Terminal == kind \in {"StdinIo", "ReplayIo"}
Polling == Issues("ReadInput")

\* prompt_stdin has nothing queued and is blocked in read_line.
Blocked == Terminal /\ Polling /\ inputs = << >>

-----------------------------------------------------------------------------
(* The answers to one step of the machine.                                 *)

\* What Flaky::poll_input leaves in `remaining`.
RemainingAfterPoll ==
  IF kind = "Flaky" /\ Polling
  THEN IF remaining > 0 THEN remaining - 1 ELSE Stall
  ELSE remaining

\* poll_input.  VecIo is Eof when it is empty; Flaky says Pending for as long
\* as it has stalls left; a terminal is Eof only when it has nothing queued.
PollAnswers ==
  Polling =>
    IF kind = "Flaky" /\ remaining > 0
    THEN outcome' = "AwaitingInput"
    ELSE /\ outcome' # "AwaitingInput"
         /\ inputs # << >> => outcome' # "IoFault"

\* output: none of them fails before the bound is reached.
OutputAnswers ==
  Issues("WriteOutput") /\ Len(outputs) < MaxOutputs => outcome' # "IoFault"

TakesBack == kind \in {"VecIo", "Flaky", "ReplayIo"}

\* unread_input, which by default is refused.
UnreadAnswers ==
  Undoes("InputRead") => (outcome' = "IrreversibleInput") = ~TakesBack

\* A faulty unwrite_output that looks at the first value.
UnwriteAnswersFirst ==
  Undoes("OutputWritten") =>
    (outcome' = "IrreversibleOutput")
      = ~(TakesBack /\ outputs # << >>
            /\ Head(outputs) = Last(entries).effect.value)

\* unwrite_output: only the value that really is the last one is retracted.
UnwriteAnswers ==
  Undoes("OutputWritten") =>
    (outcome' = "IrreversibleOutput")
      = ~(TakesBack /\ outputs # << >>
            /\ Last(outputs) = Last(entries).effect.value)

Reads == consumed' # consumed /\ Polling
Unreads == consumed' # consumed /\ Undoing

\* Flaky::unread_input restores the counter.
RemainingAfter ==
  IF kind = "Flaky" /\ Unreads THEN Stall ELSE RemainingAfterPoll

\* A faulty ReplayIo that looks at what was typed before what was pushed back.
ReplayAfterTypedFirst ==
  IF kind # "ReplayIo" THEN replay
  ELSE IF Reads /\ replay = Len(inputs) THEN replay - 1
       ELSE IF Unreads THEN replay + 1 ELSE replay

\* ReplayIo::poll_input takes from pending first; unread_input puts there.
ReplayAfter ==
  IF kind # "ReplayIo" THEN replay
  ELSE IF Reads /\ replay > 0 THEN replay - 1
       ELSE IF Unreads THEN replay + 1 ELSE replay

-----------------------------------------------------------------------------
(* The steps.                                                              *)

\* A turn of the machine against this device.
DeviceTurn ==
  /\ Turn
  /\ PollAnswers /\ OutputAnswers /\ UnreadAnswers /\ UnwriteAnswers
  /\ remaining' = RemainingAfter
  /\ replay' = ReplayAfter
  /\ frontier' = IF kind = "ReplayIo" /\ Len(consumed') > frontier
                 THEN Len(consumed') ELSE frontier
  /\ UNCHANGED kind

\* Words a line may decode to: one, or in the UTF-16 mode one for each code
\* unit.  A line that is blank, or no literal, asks again.
Decoded == TupleOf(InputWords, 1) \cup TupleOf(InputWords, 2)

TypeLine ==
  /\ Blocked
  /\ \E words \in Decoded :
       /\ Len(consumed) + Len(words) <= MaxFed
       /\ inputs' = words
  /\ UNCHANGED << state, core, journal, breakpoints, outputs, canvas, consumed,
                  call, outcome, past, kind, remaining, replay, frontier >>

\* Everything else a host does; only a scripted device can be fed between
\* two calls.
DeviceHost ==
  /\ Calls \/ Host
  /\ Terminal => UNCHANGED inputs
  /\ UNCHANGED << kind, remaining, replay, frontier >>

DeviceInit ==
  /\ Init
  /\ kind \in Kinds
  /\ remaining = Stall
  /\ replay = 0
  /\ frontier = 0

DeviceNext == DeviceTurn \/ TypeLine \/ DeviceHost

DeviceSpec == DeviceInit /\ [][DeviceNext]_dvars

-----------------------------------------------------------------------------
(* Properties.                                                             *)

\* No call loses, duplicates or reorders input, whatever stalls, faults and
\* rewinds it goes through; only a terminal gets more of it during a call.
InputsConserved ==
  [][~Idle /\ ~Blocked => consumed' \o inputs' = consumed \o inputs]_dvars

\* A device that keeps what it exchanged is always able to take it back:
\* rewinding over it is refused for want of history only, whatever was
\* evicted, cleared or rewound before.  VecIo and ReplayIo refuse a value
\* that is not their last, so the machine must never offer one.
RewindsOverDevice ==
  [][TakesBack => outcome' \notin {"IrreversibleInput", "IrreversibleOutput"}]_dvars

\* ReplayIo announces a word as replayed exactly when it was read before:
\* what it holds back is what rewinding went back over, and neither a new
\* line nor a reset of the machine gets mixed up with it.
ReplaysWhatWasRead ==
  kind = "ReplayIo" => replay = frontier - Len(consumed)
=============================================================================
