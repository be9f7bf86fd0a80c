# A verification of marie-rs

marie-rs is a MARIE toolchain: a virtual machine that runs at the grain of
micro-operations and can be stepped backwards, an assembler, a linter, a
language server and a command line. This directory holds TLA+ models of its
parts, TLC configurations that check them on small instances, and proofs,
checked by TLAPS, of what matters most for every instance.

## The system

| Component | State it keeps | Operations | Talks to | Modelled in |
|---|---|---|---|---|
| Execution core (`mrs-vm/src/lib.rs`) | registers, memory, micro-program counter, decoded instruction, instruction address, comparison latch | one micro-operation forwards or backwards, an instruction, a run with or without a budget, load, reset | the device, the journal, the breakpoints | `MarieVM`, `MarieArch` |
| Type-states (`states.rs`) | Ready, Running, Stepping or Terminated | `boot`, `debug`, `pause`, `resume`, and every run outcome | the caller, who loses the machine to each transition | `MarieVM` |
| Undo journal (`history.rs`) | a bounded queue of entries | record, pop, set limit, clear | the core | `MarieVM`, `Timeline` |
| Microcode (`microcode.rs`) | constant | fetch-decode phase, fifteen micro-programs | the core | `Microcode` |
| I/O devices (`io.rs`, ReplayIo in `debug.rs`) | queues of words, a stall counter | poll, output, unread, unwrite, display hook | the core, the terminal | `MarieVM`, `Devices` |
| Debugger session (`bin/marie/src/debug.rs`) | an `Option` holding the machine | one command at a time; `continue` runs slices | the machine, the Ctrl-C handler | `DebugSession` |
| Ctrl-C handler (`interrupt.rs`) | two flags shared by two threads | arm, disarm, a press | the session, the run drivers | `DebugSession`, `RunDrivers` |
| Run drivers (`run.rs`, `speed.rs`) | instructions executed so far, the picture last drawn | run to the end, animate, pace | the machine, the handler, the terminal | `RunDrivers` |
| Program loading (`input.rs`, `image.rs`, `asm.rs`) | none | encode, decode, choose load address and entry, install | the assembler, the machine | `Loading` |
| Lexer (`lexer.rs`, `span.rs`) | none | split a line, tokenize a file | the parser, the server | `Lexer`, `Encoding` |
| Literals (`mrs-core/src/literal.rs`) | none | parse in a base, or with a prefix | the assembler, the terminal | `Literals` |
| Assembler (`mrs-asm`) | location counter, symbols, items, source map, diagnostics | pass one over lines, pass two over items | the command line, the linter, the server | `Assembler` |
| Linter (`mrs-lint`, `mrs-asm/src/lint.rs`) | a control-flow graph | the lints | the assembler | `LintGraph`, `LintedRuns`, `Features` |
| Features (`mrs-lsp/src/features`) | none | rename, quick fixes, tokens, ... | the analysis of a document | `Features`, `Encoding` |
| Language server (`mrs-lsp`, `marie-lsp`) | open documents, negotiated encoding | requests, notifications, shutdown | the editor, two I/O threads | `LanguageServer`, `Encoding` |

`PROJECT.json` lists every component with its status.

**What is hard here.** Rewinding: the journal is bounded, can be resized,
cleared or disabled part-way through an instruction, and may be refused by the
device part-way through an undo. A micro-program counter that indexes whatever
instruction is latched. Input that stalls, is retried, and is given back. Slices
of a run whose ends coincide with breakpoints, stops or reads. A signal handler
on its own thread that races with arming and disarming. Two passes of the
assembler that must agree on addresses, also at the end of memory, and edits of
a source file that must not change what it means. Static claims about programs
that rewrite themselves. Places that are counted in bytes on one side and in
units of three encodings on the other. A server that gets its messages in
whatever order the editor sends them, and must end however the editor does.

## Modules

| Module | Models | Built on |
|---|---|---|
| `MarieWord` | words, addresses, decoding, ALU, skip conditions | |
| `Microcode` | the fetch phase and the micro-programs | `MarieWord` |
| `Timeline` | *abstract*: what stepping backwards promises | |
| `MarieVM` | the machine: core, journal, type-states, device, host | `Microcode`, `Timeline` |
| `MarieISA` | *abstract*: the instruction set, one step per instruction | `MarieWord` |
| `MarieArch` | the machine with the programmer's view at each boundary | `MarieVM`, `MarieISA` |
| `Devices` | the machine over each device of the repository | `MarieVM` |
| `DebugSession` | `marie debug` with its Ctrl-C handler | `MarieVM` |
| `Loading` | image files, and what a file and `--origin` load | `MarieWord` |
| `RunDrivers` | `marie run`: three loops, a terminal, Ctrl-C | `MarieVM`, `Loading` |
| `Encoding` | bytes, lines, and positions in three encodings | |
| `Lexer` | how a line is split, its tokens, and the regular expression | `Encoding` |
| `Literals` | how a literal becomes a word, and what it means | `MarieWord` |
| `Typing` | lines and literals as they are typed, piece by piece | `Lexer`, `Literals` |
| `Assembler` | both passes of the assembler, and what a source file means | `MarieWord` |
| `LintGraph` | the control-flow graph and the lints on it | `MarieWord` |
| `LintedRuns` | the machine running a program the linter has seen | `MarieArch`, `LintGraph` |
| `Features` | the assembler's lints, rename, quick fixes | `Assembler`, `LintGraph` |
| `LanguageServer` | editor, server and the pipes between them | `Encoding` |
| `MarieVMProofs`, `ArchProofs`, `DeviceProofs`, `SessionProofs`, `DriverProofs`, `AssemblerProofs`, `ServerProofs` | theorems about the module of that name; `ArchProofs` is about `MarieArch` and `LintedRuns`, `AssemblerProofs` about `Assembler` and `Features`, `ServerProofs` about `LanguageServer` and `Typing` | `TLAPS` |
| `Induction` | induction over the naturals in a form the provers can use | `WellFoundedInduction` |
| `MCMarieVM`, `MCMarieArch`, `MCDevices`, `MCDebugSession`, `MCRunDrivers`, `MCAssembler`, `MCLanguageServer` | instances for TLC | |

### MarieVM

A call of the API that loops inside the machine is a record in `call`, begun by
`CallRun`, `CallStep`, ... and carried on by one action per turn of its loop
(`MicroStep`, `SuspendRun`, `MicroStepBack`) until `Returns` makes it idle
again. The Rust types allow a host to touch the machine only between two calls,
which is the guard `Idle` of every `Host` action. Control state (`micro_pc`,
`instruction_address`, `decoded`, `comparison`) is one record because the
journal saves and restores it as one.

* `Executed` is the `Ok` branch of `micro_step`: the entry is recorded with the
  control state *before* the operation, and the counter advances by the cycle
  length of what is decoded *after* it. `Stopped` is the `Err` branch.
* Each effect kind has its action forwards (`ExecuteRegisterWrite`,
  `ExecuteWriteMemory`, ...) and backwards (`UndoRegister`, `UndoMemory`, ...).
* The device is any implementation of `MarieVmIODevice`: a poll may answer,
  stall or fail; unread and unwrite may be refused. `inputs`, `outputs` and
  `canvas` are what such a device holds.
* `consumed` and `past` are history variables: what was read on the current
  timeline, and the machine before each operation the journal still covers.
  `past` is cut when a host goes round the journal (`registers_mut`,
  `memory_mut`, `flash_memory`), because nothing is promised across that.

Words are `16 * MemoryWords` bit patterns with an opcode nibble above an
address-wide operand, so `MemoryWords = 4096` is the code's machine and a small
`MemoryWords` keeps every mask and wrap at a smaller width.

### Devices

`MarieVM` lets a device answer in any way its contract allows; `Devices` keeps
only the answers the code of `kind` gives. `inputs` is the device's queue:
`VecIo::inputs`, `StdinIo::pending`, or ReplayIo's `pending` (of which there are
`replay`) followed by its `typed`. Flaky's counter is `remaining`. A terminal is
blocked in `read_line` (`Blocked`) until `TypeLine` gives it one or two words,
the second being what the UTF-16 mode leaves queued.

### RunDrivers and Loading

`at` is where the main thread is in `run.rs`: loading, at the head of a loop, in
a slice or a micro-operation of the machine, reporting. The machine is the one
of `MarieVM`, under the restrictions that `run` puts it to: no breakpoint, a
device that never stalls. A press is one step, the handler's swap, since here it
is armed from the start; the second press ends the process wherever it is. A
batch of `pace` ends after its steps, at a press, or at any point, which is what
a clock of 20 ms comes to. `executed` is the count the code keeps, `completed`
what the machine really did. `Loading` takes a source file for the words and the
ORG it assembles to, and bytes of half a word for bytes.

### DebugSession

The main thread (`at`) is at the prompt, in a command of one call, or in
`continue`: arming, the loop's test of the flag, a slice, disarming. `slot` is
the session's `Option<Machine>`. The handler thread is two steps, its load of
`armed` and its swap of `stop`, and `Armed::drop` is two stores. `ReplayIo` does
not stall: it blocks in `read_line` (`Waiting`) until a line is typed.

### Assembler

`PassOne` reads one line per step, in the order of `parser::parse` and
`parse_statement`: what was stopped, the line form, ORG, the next address, the
label, the source map, and only then END. `AssembleItem` turns one item into a
word and, on the way, records the reference or the fault. A line is what
`lexer::split_line` makes of it, and an operand is a numeral by its value or a
name: the characters themselves are the subject of `Lexer` and `Literals`.

The second half of the module says what a file *means*, without passes: which
lines become words, which address a label is, what each word is, and which
files are well formed. `AssemblesSource` and `ReportsExactly` compare the two.

### Features, LintGraph, LintedRuns

An edit (a rename, a quick fix, taking a lint's advice) is modelled by the file
it leads to, and that file is asked for its meaning: `After(edited)` is an
INSTANCE of `Assembler` over it. `LintGraph` defines `Edges`, `Reachable` and the
lints on a listing, that is the words with the mnemonics they were written with;
`LintedRuns` sets the machine going on the same words and keeps the findings in
`report`, so that a claim about a program can be held against what it does.

### Lexer, Literals, Typing, Encoding

A character is what the code tells apart about it: space, comma, slash, the
letters of ORG, a hexadecimal digit, and how many bytes and UTF-16 units it
takes. `SplitLine` makes the choices of the search in the order of the code;
`Matches` and `Preferred` are the regular expression that `lexer.rs` quotes, all
matches and the order of preference of a backtracking engine. `Readings` says
what a literal means without parsing it. `Typing` builds texts a piece at a
time, so that TLC meets each in a state of its own.

### LanguageServer

The message loop is one action per message: each takes the head of `toServer`
and appends to `toEditor` what is sent. `documents` is the server's, `buffers`
the editor's; nothing relates them but the messages. The two I/O threads of
`lsp-server` are external: the pipe and the thread that serves it are one queue,
`exitRead` says that the reader has ended at an exit, and `Join` waits for both.
The editor may edit, close what is not open, ask about any place, go on talking
after shutdown, close the pipe, or die. A feature is modelled by the text it
answers from and the byte it takes the position for.

## Runs

| Run | Checks | Shows |
|---|---|---|
| `vm_rewind` | `TypeOK`, `JournalExact`, `RewindsAlongTimeline`, `StepBackExact`, `PictureStaysRight` | stepping backwards retraces the machine's own past exactly, and the frontend's picture stays right |
| `vm_device` | `DeviceGuarantee`, `ReplaysWhatWasRead`, `InputsConserved`, `RewindsOverDevice` | a device is only asked to take back its latest exchange, no input is lost or reordered, and over each device rewinding and replaying do what they say |
| `vm_host` | `NoPanic` | a host that loads, pokes, resets and resizes between any two calls cannot make the core panic |
| `isa_programs` | `ImplementsISA`, `ExecutionFollowsEdges`, `CleanProgramStaysInCode` | micro-programs implement the instruction set; control goes only where the linter's graph has an edge; a program the flow lints are silent about runs only what was written, and nothing that is called unreachable |
| `session_interrupt` | `DisarmedAtPrompt`, `PressKeptWhileArmed`, `PressEndsRun`, `CommandsReturn`, `BreakpointsHonouredInSlice` | Ctrl-C stops a run without being lost to a race, and every command returns |
| `drivers` | `StartsAsMeant`, `ReportsTruly`, `FinalPicture`, `BudgetKept`, `PressEndsRun`, `BudgetEndsRun` | source, image and bare words start the same machine; `--max-steps` is exact in each loop; reports are true; a press or a spent budget ends the run |
| `asm_sources` | `TypeOK`, `LayoutConsistent`, `ReportsExactly`, `AssemblesSource`, `RenameKeepsProgram`, `LintAdviceIsExact`, `FixesAreSafe`, `SplitsAsSpecified`, `TokensCoverLine`, `LiteralsReadRight` | addresses, labels and source map agree; errors are reported for exactly the files that are not well formed; the image is what the file means; edits keep it; a line splits where the regular expression does; a literal is what it means |
| `server` | `AnswersCurrentText`, `SquigglesCurrent`, `PositionsAgree`, `PositionsClamped`, `TokensDecode`, `Settles` | answers and findings are about the text and the characters the editor means, in every encoding; nothing goes unanswered; the process ends |

The runs `session_breakpoint`, `session_slot`, `session_stale` and `asm_full`
each check one sentence of the repository that the code does not keep;
`PROJECT.json` lists the finding.

**Disagreements without a run.** Seen while modelling; the models do what the
code does, and no property claims these cases.

* The journal entry of an instruction's first micro-operation carries the
  address of the instruction before it, because `micro_step` takes the snapshot
  first (`history.rs:104` says otherwise).
* During the fetch phase `decoded_instruction` answers with the previous
  instruction (`mrs-vm/src/lib.rs:217`).
* A debugger that waits for input inside `continue` cannot be interrupted
  before a line is typed: `docs/cli.md:141` says Ctrl-C interrupts a running
  `continue`, `prompt_stdin` blocks in `read_line` (`io.rs:209`).
* `address_at_or_after` may answer with the address of the `END` line, where
  there is no word (`source_map.rs:42`).
* `--refresh 0` ends an animated run as "step limit reached" (`run.rs:205`).
  `ReportsTruly` leaves that case out.
* A paced run that reaches `--max-steps` inside a batch ends without the redraw
  every other end makes (`run.rs:260`). `FinalPicture` leaves it out.
* `--origin` is dropped for a source file without ORG (`load_source` takes the
  assembly's origin, which is zero, `input.rs:181`), where the help of the option
  (`input.rs:48`) and the comment at `input.rs:165` have it honoured; and it is an
  error for a file with another ORG, where the help says that it is ignored.
  `Loaded` and `LoadFault` do so too. `StartsAsMeant` claims neither: of a source
  file it speaks when there is no `--origin`, or one that names the address where
  the file begins anyway.
* Flaky does not forward `display_write`, so a device inside it never hears of a
  pixel, where `io.rs:74` says that a frontend stays correct while rewinding.
* `Cfg::exact` (`cfg.rs:11`) is said of a graph that has every edge unless the
  program goes through memory; a direct Store or JnS into code changes edges
  too. `CleanProgramStaysInCode` therefore asks the two lints about overwriting
  to be silent as well.
* The quick fix for masked condition bits is offered on a label too, if its text
  is hexadecimal, and takes the digits for the condition, where the program tests
  the label's address: `Skipcond BAD` with `BAD` at 003 becomes `Skipcond 800`
  (`actions.rs:79`, and `actions.rs:4` promises "obviously-safe rewrites", "nothing
  that guesses at intent"). `MaskedLines` and `MaskedSkipcondFix` offer it, and
  the files of `asm_sources` hold such labels. Of these, `FixesAreSafe` claims
  only that the file assembles and that the new condition has no ignored bits;
  claimed that the same condition is tested, it is violated by a file of two
  lines, `C, Skipcond A` and `A, Add 3`, where `A` is read as the condition 3.

**Bounds.** Every bound is a constant with `bound:` in its comment.

* The machine: four words of memory hold a call and return, a loop, a
  self-modifying store, a pointer and a display pixel, and make PC + 1 wrap.
  A limit of 11 entries holds one whole instruction of the longest kind and part
  of the next, so that every position of eviction within an instruction happens;
  8 for the devices hold two exchanges that follow one another, no more. Two words of input and two of output
  distinguish order. A stall of one is what makes a poll happen twice.
* The session: two `continue`s and two presses are what the races between runs
  need; a slice of two instructions puts its end at every address of a
  three-instruction loop.
* The drivers: budgets of 0, 2 and 3 instructions against slices and refreshes
  of 1 and 2 put the limit at, before and after a slice's end; batches of 1 and 3
  micro-operations end inside instructions; two presses are one that interrupts
  and one that kills. Instructions are counted up to `CountCap` = 4, past any of
  these budgets.
* The assembler: *every* file of up to four lines over eleven lines of layout,
  which fill a memory of eight words and run past it from an ORG, and of up to
  three lines over twenty-three of operands. Lines and literals: everything of
  up to four pieces, a piece being a character, ORG, three digits, or two digits
  that stand at the limits of a word of seven bits.
* The server: two files and two messages besides the handshake and leaving are
  enough for an edit to race a question, a close to meet an edit and one file to
  be taken for another; the encodings are tried on every text of up to four
  characters of each width.

Deadlock is not checked where the system stops: a session that has quit, a file
that is assembled, a program that has run, a process that has ended.

**Fairness.** `FairSessionSpec` and `FairDriverSpec` say that the threads of the
program are scheduled, except that a read of the terminal may block for ever.
`FairDriverSpec` adds strong fairness of a paced step: the model may end a batch
at any time, and without it each would end before its first step, as if 20 ms
never sufficed for one micro-operation. `ServerSpec` says that the server and an
editor that listens go on as long as either can; it takes a timeout of the wait
for exit as possible at any time, and gives an editor no obligation to speak.
Nothing makes a user type or press.

## Proofs

`MarieVMProofs` proves, for every memory size, program, host, device, journal
limit and budget (assumptions: `ConstantsAssumption` and the two of
`MarieWord`, which say only that the constants have their types and that the
skip condition's two bits fit the operand):

* `Invariance` and `TypeCorrectness`. `TypeOK` is not inductive: a
  micro-program counter is only in range for what is decoded. `IInv` adds
  `InCycle`, for the machine and for every control state in the journal, since
  an undo makes any of them current.
* `NeverPanics`: from `InCycle`, `CurrentOp` is always defined and is a
  `Compare` only for a `SkipCond`.
* `JournalIsExact`: each step keeps `JournalExact`. Executing adds a last entry
  whose undo is the state before it; eviction and `set_limit` keep the newest
  entries on both sides; undoing removes one from each; everything a host does
  behind the journal's back cuts `past`.
* `RewindingRefinesTimeline`: every step maps to a step of `Timeline` or a
  stutter, from `JournalIsExact`.
* `PictureIsTracked`: every write of memory made by a call passes through
  `Painted`.
* `StepsBackExactly`: that `step_back` undoes one whole instruction, or the part
  of one that ran. The invariant, `BackInv`, says of the journal that each
  control state is followed by the next one of a cycle (`Chained`, which survives
  eviction and pokes because both only cut), of the line back that a machine
  part-way through an instruction still carries the word it was fetched from, in
  MAR, MBR, IR or the decoded latch (`Trailed`), and of the call in progress that
  what it has undone and what it has yet to undo are one cycle (`BackCounted`).
  The length of the cycle is claimed as long as the fetch is still on the line:
  a host that poked the machine after it may have put another word there.

The module begins with the facts about words and micro-programs it rests on, and
`MicroStepOutcome` says once what a micro-operation does, as one formula (`Ran`)
or nothing (`Refrained`); every other module of proofs works from that.

`ArchProofs` proves that the micro-coded machine implements the instruction set,
micro-operation by micro-operation. `InFlight` says, for each micro-program
counter, what registers, memory and latch hold in terms of the programmer's view
at the last boundary; executing moves it from one counter to the next
(`MicrocodeImplementsISA`, and `LintedRunsImplementISA` for the loaded program).
`RunsFollowEdges` follows from it and from the linter's table of successors.
`CleanProgramsStayInCode` needs the reachable set of the graph, which the linter
computes by iteration: `Induction` gives induction over the naturals as a
statement about a set of numbers, without the operator parameter that the
library's theorem has, and with it the iteration is shown to reach a fixed point
within as many rounds as there are words, so that an edge never leaves it. These
four are proved under `ForwardOnly`: the journal is not turned on and no host
pokes the machine, which is how `marie run` uses it (`run.rs` sets no limit, and
the default is none). Stepping backwards is `StepsBackExactly`'s subject.
`ListingsAssumption` says of a listing what an assembly is: it fits, and the word
of a line with an instruction decodes to that instruction.

`DriverProofs` proves of `marie run`, for every set of files and options, every
slice, refresh and batch, and any timing of the presses (`DriversAssumption`:
options have their types, files hold bytes, and a source is one that assembles,
so that it fits in memory, which `mrs-asm/src/lib.rs:182` says of every
assembly):

* `StartsTheSame`: `DecodesEncoded`, that decoding an image undoes encoding it,
  is arithmetic for any size of byte; with it each of the three ways a program
  is stored puts the same words at the same addresses.
* `BudgetIsKept` and `RunsReportTruly`: what a loop counts and what the machine
  completes differ while a call is in progress. `SliceTallied` says that they
  differ by the instructions the call has done, which are never more than it was
  given, and `MicroTallied` that they differ by the one a last micro-operation
  completed. A press may come at any of these points.
* `PictureIsFinal`: the picture is up to date whenever a loop tests the flag or
  the budget.

`AssemblerProofs` proves, for every memory size and every source file (the
assumptions are `LabelsAssumption`, that the kinds of label are distinct and the
sources are sequences of lines, and those of `MarieWord`), `AssemblerTypes` and
`LayoutIsConsistent` from `AssemblerInvariance`. Its inductive invariant adds
`Bounded`: what is placed lies on a line already read, so that the next line and
the next address are new to both directions of the source map; END has stopped
the pass, so that a label one past the last item is not overtaken by an item;
and what was handed out fits in memory. `PassesOver` covers the six actions that
place nothing, `OriginPlacesNothing` says why ORG may move the origin,
`EndKeeps` and `ItemKeeps` that a new label, line and item agree, and
`AssembleKeeps` that the second pass touches only references.

`ErrorsAreExact` and `ImageIsMeaning` compare the passes with what a source file
means without passes, and hold of every file too, from `ReadingInvariance`. Its
invariant `Meant` has two halves. As long as nothing was reported, `ReadAsMeant`
says that what is there is what the lines read so far mean: the pass has stopped
if and only if an END was read (`LinesRead`); the origin is that of the one ORG,
above every word (`OriginRead`); the items are the lines that become words, and
the k-th has k - 1 of them above it (`ItemsRead`); the symbols are the labels of
those lines and of END, each at the address its line will have (`LabelsRead`);
and the words are what the lines mean (`WordsRead`). Once something was reported,
the file is not well formed: each of the reporting actions comes with the part of
`WellFormed` it refutes (`OriginRefused`, `TooLargeRefused`, `LabelRefused`,
`FaultRefused`). Addresses are counts of lines, so the steps rest on
`CountBelow`, and that two lines are too many on `AtMostOne`. The second pass is
where forward references are settled: with all lines read the symbols are the
labels a file defines (`SymbolsMeant`), so a statement has a fault if and only if
it is not well formed (`FaultMeant`), and its word is what it means
(`WordMeant`).

Of `Features`, with `HexAssumption`, it proves `RenameIsSafe`, `AdviceIsExact` and
`FixesAreSound` from `TellingInvariance`: `Told` adds to the above what the second
pass recorded: references are the lines that name a label, a report names a line
with that fault, and what trails END is dead. An edit changes one line, or a label throughout, and
leaves every line where it stands, so the meanings of the two files are compared
line by line (`EditLayout`, `EditWellFormed`, `EditMeaning`, `EditProgram`). For a
masked condition `ConditionFixed` takes what the text reads as, numeral or label,
and `ConditionKept` shows that what is left of it has no ignored bits and is the
same condition; only of a numeral is it also what the program tested.

`DeviceProofs` proves `DevicesAreGuaranteed` of the machine with any device, and
of the four devices (with `DevicesAssumption`) `InputIsConserved`,
`RewindingIsNotRefused` and `ReplayIsTrue`. That the last entry agrees with the
last exchange is not inductive: after an undo the entry before it must agree
too. `Traces` says so of the whole journal, once for reads and once for writes:
there is a position in what was exchanged for every entry, non-decreasing, one
further at each entry of that kind and unmoved at the others, and the last one
is the end. `TracedExchange` and `TracedOther` carry it over a new entry,
`TracedLast` over an undo, and `TracedShift` over an eviction, which only drops
positions from the front.
`Obliging` and `Replaying` are the two small invariants the devices add; the
first follows from `Traces` because VecIo and ReplayIo refuse a value only when
it is not their last.

`SessionProofs` proves of the debugger, over any program and any timing of the
presses: `PromptIsDisarmed` and `PressIsKept` from `ThreadInv` (the handler is
armed only between `arm` and the guard's drop, or once the process exits);
`SlicesHonourBreakpoints` from `SliceInv`, whose `Midway` says that a call which
is inside an instruction has a micro-program counter past the fetch, so the
breakpoint test is only skipped at the first instruction of a slice; and
`SessionKeepsJournalExact`, which shows that every move of the session is a move
of `MarieVM` or leaves it alone, and so carries over its invariant, `NoPanic`
and `JournalExact`.

`ServerProofs` proves of the language server, for every set of files, texts and
messages and every length of a session (`TextsAssumption`, and
`FindingsAssumption`, that what the analysis finds spans characters of the text,
as the spans of `lexer.rs` and `parser.rs` do):

* `AnswersAreCurrent` and `SquigglesAreCurrent` from `ServerInv`. Neither is
  inductive, since everything is decided by what is still in the two pipes.
  `Becomes` says what a queue of messages will have made of a value when it has
  arrived: the last message that touches it, or the value itself. `TextsArrive`
  says so of the server's documents, for the buffer the editor has now, and for
  each request under way up to its place in the queue, with the buffer it was
  asked about; `SquigglesArrive` of the squiggles, in the other pipe. `Numbers`
  says that responses and then requests under way carry the numbers behind the
  last answer heard, without a gap, as long as the server serves; after shutdown
  what is left unread has no answer, but no answer comes out of turn either.
  `Settled` says that the encoding changes once, before anything is said in it,
  and that the editor speaks it or is still to hear of it.
* `PlacesAgree` and `PlacesAreClamped`, of every text. They rest on the lemmas of
  the module's first part, by induction over the characters (`Tallies`,
  `Newlines`): bytes grow from character to character, the line starts are the
  bytes behind the newlines, so that the line of a byte is the number of newlines
  before it, and a line begins and ends where the client has it begin and end
  (`PositionIs`, `OffsetOfPosition`, `OffsetClampedWell`). The first two theorems
  use them too: a request names a place, and a finding two.
* `TokensDecodeBack`, of every text too: the n-th token is about the n-th
  character that is no newline (`Nth`), is told by the distance from that
  character's place to the one before (`TokensAre`, along the server's loop), and
  adding the distances up leads back to it (`PlacesAre`, along the client's). That
  no distance falls below zero, which the code's unsigned subtraction needs, is
  that places advance (`PlacesAdvance`).

It also proves of the lexer and the literal parser, for every line and every text
(`PiecesAssumption`: what is typed is characters, and a line holds no newline),
by `TypedOK`, that a text which is typed is one they may be given:

* `SearchIsExpression`: the search of the code is that of the regular expression
  `lexer.rs` quotes. A match is told apart by where its leading space ends,
  which the code never looks for: it tries a label behind all of that space,
  then no label, then labels that begin with some of it. `MatchIs` unfolds a
  match into its choices, `WordBegins` and `OperandsAre` say that each choice of
  space in the expression that leads anywhere is the one the code makes,
  `BodyIsBest`, `WithLabelIsBest` and `StatementIsBest` that what the code
  returns is preferred to every other match with the same, and then with any,
  leading choice; `FirstMatchIs` that there is one such match only.
* `LinesAreCovered`. `Tiles` says of tokens that they follow one another from one
  character to another and leave out nothing but space between: a token between
  spaces tiles its part (`TilesToken`), and two parts that meet tile what they
  make together (`TilesBoth`). So the body of a statement is tiled by mnemonic,
  operand and comment (`BodyTiles`), with the label and its comma before it
  (`LabelledTiles`), an ORG by its parts (`OriginTiles`), what is not understood by
  one token (`UnknownTiles`), and every line (`LineTiles`), at whatever byte it
  begins; bytes turn back into characters because they grow with them
  (`PlaceIs`). Of two lines, `TwiceSplits` says where the newline is found,
  `TwiceBases` at which byte the second begins.
* `LiteralsAreRead`. `PartsAre` says where trimming and the sign leave the parser:
  at the first character, the first behind a sign, and the last. Every reading of
  the text, which may have its sign and its digits anywhere, has them there
  (`BehindSign`, `WithoutSign`), so that a text has one reading or none
  (`ReadingsAre`), and none with one prefix when it begins with another
  (`PrefixedLeft`). `NumeralValue` says that digits added up from the first, as
  `from_str_radix` does, are worth what they are by their weights from the last:
  with k digits to go, the sum so far times the weight of those and their value
  make the whole. `FinishRight` then compares the magnitude with the range.

Every invariant and every action property that a passing run checks is thus
stated by a theorem. Only model-checked: everything about liveness
(`PressEndsRun`, `CommandsReturn`, `BudgetEndsRun`, `Settles`), which is beyond
TLAPS here.

## Not modelled, and the plan

Nothing of the plan is left. Left out for good, as they keep no state a property
could be about: the wording and layout of diagnostics and reports, lint levels
and the two lints about spelling, argument parsing and file I/O of the command
line, disassembly listings, the pixel layout of the display, hover, completion,
inlay hints and document symbols of the language server, and the editor
integrations. Of the language server also: the error a refused rename is answered
with (it is an answer like any other), initialization parameters that cannot be
read (`main` returns before there is a server), and an editor that speaks before
it is greeted, which `initialize_start` of `lsp-server` answers.
