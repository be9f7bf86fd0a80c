----------------------------- MODULE DriverProofs -----------------------------
(***************************************************************************)
(* Proofs about `marie run`: the machine of a driver is the machine of the *)
(* core's own invariant, what a loop counts is what the machine completed  *)
(* whichever loop it is, and a program stored as source, as a full image   *)
(* or as bare words starts the same machine.                               *)
(***************************************************************************)
EXTENDS RunDrivers, MarieVMProofs

-----------------------------------------------------------------------------
(* The image format.                                                       *)

\* A quotient and a remainder make the dividend again.
LEMMA Divides ==
  \A x, n, q, r \in Nat : n > 0 /\ q = x \div n /\ r = x % n => x = n * q + r
<1> SUFFICES ASSUME NEW x \in Nat, NEW n \in Nat, NEW q \in Nat, NEW r \in Nat,
                    n > 0, q = x \div n, r = x % n
             PROVE  x = n * q + r
  OBVIOUS
<1> QED
  BY Z3

\* A word is two bytes.
LEMMA HalvesType ==
  /\ ByteCount \in Nat /\ ByteCount > 0
  /\ \A w \in Word : w % ByteCount \in Byte /\ w \div ByteCount \in Byte
<1>1. ByteCount \in Nat /\ ByteCount * ByteCount = WordCount /\ ByteCount > 0
  <2>1. ByteCount # 0
    BY ByteAssumption, WordFacts
  <2> QED
    BY <2>1, ByteAssumption
<1> SUFFICES ASSUME NEW w \in Word
             PROVE  w % ByteCount \in Byte /\ w \div ByteCount \in Byte
  BY <1>1
<1>2. w \in Nat /\ w < ByteCount * ByteCount
  BY <1>1, WordFacts DEF Word
<1>3. PICK q \in Nat, r \in 0 .. ByteCount - 1 :
        q = w \div ByteCount /\ r = w % ByteCount
  BY <1>1, <1>2, ModRange, DivRange
<1>4. q < ByteCount
  <2>0. w = ByteCount * q + r
    BY <1>1, <1>2, <1>3, Divides
  <2>1. SUFFICES ASSUME q >= ByteCount PROVE FALSE
    BY <1>1, <1>3
  <2>2. ByteCount * q >= ByteCount * ByteCount
    BY <1>1, <2>1
  <2> QED
    BY <1>1, <1>2, <2>0, <2>2
<1> QED
  BY <1>1, <1>3, <1>4 DEF Byte

\* Two bytes are a word.
LEMMA JoinedType ==
  \A x, y \in Byte : x + ByteCount * y \in Word
<1> TAKE x, y \in Byte
<1>1. /\ ByteCount \in Nat /\ ByteCount > 0
      /\ ByteCount * ByteCount = WordCount
      /\ x \in Nat /\ y \in Nat /\ x <= ByteCount - 1 /\ y <= ByteCount - 1
  BY HalvesType, ByteAssumption DEF Byte
<1>2. ByteCount * y <= ByteCount * (ByteCount - 1)
  BY <1>1
<1>3. ByteCount * (ByteCount - 1) = ByteCount * ByteCount - ByteCount
  BY <1>1
<1>4. ByteCount * y \in Nat
  BY <1>1
<1> QED
  BY <1>1, <1>2, <1>3, <1>4 DEF Word

\* Half of twice a length, and the two places of a word.
LEMMA Places ==
  \A n \in Nat :
    /\ (2 * n) \div 2 = n /\ (2 * n) % 2 = 0
    /\ (2 * n - 1) % 2 = 1 \/ n = 0
    /\ (2 * n - 1 + 1) \div 2 = n
OBVIOUS

\* The encoding of words is bytes, two for each.
LEMMA EncodedType ==
  ASSUME NEW words \in Seq(Word)
  PROVE  /\ EncodeWords(words) \in Seq(Byte)
         /\ Len(EncodeWords(words)) = 2 * Len(words)
<1> DEFINE f == EncodeWords(words)
           n == 2 * Len(words)
<1>1. Len(words) \in Nat /\ n \in Nat
  OBVIOUS
<1>2. ASSUME NEW i \in 1 .. n
      PROVE  f[i] \in Byte
  <2>1. CASE i % 2 = 1
    <3>1. (i + 1) \div 2 \in 1 .. Len(words)
      BY <1>1, <2>1
    <3>2. words[(i + 1) \div 2] \in Word
      BY <3>1, ElementOfSeq
    <3>3. words[(i + 1) \div 2] % ByteCount \in Byte
      BY <3>2, HalvesType
    <3> QED
      BY <2>1, <3>3 DEF EncodeWords
  <2>2. CASE i % 2 # 1
    <3>1. i \div 2 \in 1 .. Len(words)
      BY <1>1, <2>2
    <3>2. words[i \div 2] \in Word
      BY <3>1, ElementOfSeq
    <3>3. words[i \div 2] \div ByteCount \in Byte
      BY <3>2, HalvesType
    <3> QED
      BY <2>2, <3>3 DEF EncodeWords
  <2> QED
    BY <2>1, <2>2
<1>3. f \in [1 .. n -> Byte]
  BY <1>2 DEF EncodeWords
<1> HIDE DEF n, f
<1>4. f \in Seq(Byte) /\ Len(f) = n
  BY <1>1, <1>3
<1> QED
  BY <1>4 DEF n, f

\* The decoding of bytes is words, one for two.
LEMMA DecodedType ==
  ASSUME NEW bytes \in Seq(Byte)
  PROVE  /\ DecodeWords(bytes) \in Seq(Word)
         /\ Len(DecodeWords(bytes)) = Len(bytes) \div 2
<1> DEFINE f == DecodeWords(bytes)
           n == Len(bytes) \div 2
<1>1. Len(bytes) \in Nat /\ n \in Nat
  OBVIOUS
<1>2. ASSUME NEW i \in 1 .. n
      PROVE  f[i] \in Word
  <2>1. 2 * i - 1 \in 1 .. Len(bytes) /\ 2 * i \in 1 .. Len(bytes)
    BY <1>1
  <2>2. bytes[2 * i - 1] \in Byte /\ bytes[2 * i] \in Byte
    BY <2>1, ElementOfSeq
  <2> QED
    BY <2>2, JoinedType DEF DecodeWords
<1>3. f \in [1 .. n -> Word]
  BY <1>2 DEF DecodeWords
<1> HIDE DEF n, f
<1>4. f \in Seq(Word) /\ Len(f) = n
  BY <1>1, <1>3
<1> QED
  BY <1>4 DEF n, f

\* What is read of an image that was written is what was written.
LEMMA DecodesEncoded ==
  ASSUME NEW words \in Seq(Word)
  PROVE  DecodeWords(EncodeWords(words)) = words
<1> DEFINE bytes == EncodeWords(words)
<1>1. /\ bytes \in Seq(Byte) /\ Len(bytes) = 2 * Len(words)
      /\ Len(words) \in Nat
  BY EncodedType
<1>2. Len(bytes) \div 2 = Len(words)
  BY <1>1, Places
<1>3. ASSUME NEW i \in 1 .. Len(words)
      PROVE  DecodeWords(bytes)[i] = words[i]
  <2>1. words[i] \in Word
    BY ElementOfSeq
  <2>2. /\ 2 * i - 1 \in 1 .. 2 * Len(words) /\ 2 * i \in 1 .. 2 * Len(words)
        /\ (2 * i - 1) % 2 = 1 /\ (2 * i) % 2 = 0
        /\ (2 * i - 1 + 1) \div 2 = i /\ (2 * i) \div 2 = i
    BY <1>1, Places
  <2>3. bytes[2 * i - 1] = words[i] % ByteCount
    BY <2>2 DEF EncodeWords
  <2>4. bytes[2 * i] = words[i] \div ByteCount
    BY <2>2 DEF EncodeWords
  <2> HIDE DEF bytes
  <2>5. words[i] \in Nat /\ ByteCount \in Nat /\ ByteCount > 0
    BY <2>1, HalvesType, WordFacts
  <2>6. PICK low \in Nat : low = words[i] % ByteCount
    BY <2>5, ModRange
  <2>7. PICK high \in Nat : high = words[i] \div ByteCount
    BY <2>5, DivRange
  <2>8. PICK word \in Nat : word = words[i]
    BY <2>5
  <2>9. word = ByteCount * high + low /\ ByteCount * high \in Nat
    <3>1. word \in Nat /\ low = word % ByteCount /\ high = word \div ByteCount
      BY <2>6, <2>7, <2>8, Zenon
    <3>2. word = ByteCount * high + low
      BY <2>5, <3>1, Divides
    <3>3. ByteCount * high \in Nat
      BY <2>5
    <3> QED
      BY <3>2, <3>3
  <2>10. DecodeWords(bytes)[i] = bytes[2 * i - 1] + ByteCount * bytes[2 * i]
    BY <1>2 DEF DecodeWords
  <2>11. DecodeWords(bytes)[i] = low + ByteCount * high
    BY <2>3, <2>4, <2>6, <2>7, <2>10
  <2> QED
    BY <2>8, <2>9, <2>11
<1>4. /\ DecodeWords(bytes) \in Seq(Word)
      /\ Len(DecodeWords(bytes)) = Len(words)
  BY <1>1, <1>2, DecodedType
<1> HIDE DEF bytes
<1>5. DecodeWords(bytes) = words
  BY <1>3, <1>4
<1> QED
  BY <1>5 DEF bytes

-----------------------------------------------------------------------------
(* The inductive invariant.                                                *)

\* The command line, and how far it lets the machine go.
Given ==
  /\ file \in Files /\ option \in Origins /\ args \in Arguments
  /\ stop \in BOOLEAN
  /\ executed \in 0 .. CountCap
  /\ args.max # Unset => executed <= args.max

\* Where the main thread is, which loop drives the machine, and whether a
\* call of it is in progress.
Driving ==
  /\ at \in {"load", "start", "loop", "slice", "report", "batch", "step",
             "micro", "done"}
  /\ at \in {"loop", "slice", "report"} => ~Paced
  /\ at \in {"batch", "step", "micro"} => Paced
  /\ at \notin {"slice", "micro", "done"} => Idle
  /\ at \in {"load", "start"} => executed = 0
  /\ at = "load" => memory = ZeroMemory
  /\ at # "done" => result = "none"

\* Between two calls the loop has counted what has completed.
Tallied ==
  at \notin {"slice", "micro", "done"} => completed = executed

\* Within a slice what the call has done is still to be counted; the call
\* has been given no more than is left.
SliceTallied ==
  at = "slice" =>
    /\ SliceSize > 0
    /\ Idle \/ /\ call.api = "run" /\ call.budget = SliceSize
               /\ call.done <= SliceSize
               /\ call.within => call.done < SliceSize
               /\ completed = Counted(executed + call.done)
    /\ Idle /\ outcome = "StepLimit" => completed = Counted(executed + SliceSize)

\* Within a batch the last operation is still to be counted if it was the
\* last of an instruction.
MicroTallied ==
  at = "micro" =>
    /\ args.max # Unset => executed < args.max
    /\ Idle \/ (call.api = "micro_step" /\ completed = executed)
    /\ Idle /\ outcome = "Stepped" =>
         completed = IF control.micro_pc = 0 THEN Counted(executed + 1) ELSE executed

\* What is on the screen and what is known of the end.
Shown ==
  /\ at = "loop" /\ Animated => drawn = DisplayWords
  /\ at = "report" => ~Animated
  /\ at = "report" /\ ~stop => args.max # Unset /\ executed = args.max

DInv == Given /\ Driving /\ Tallied /\ SliceTallied /\ MicroTallied /\ Shown

-----------------------------------------------------------------------------
(* The machine under a driver.                                             *)

\* What the arguments of a run are.
LEMMA GivenType ==
  ASSUME Given
  PROVE  /\ args.max \in Nat \cup {Unset} /\ args.refresh \in 0 .. DoneCap
         /\ args.display \in BOOLEAN /\ args.max < CountCap
         /\ option \in Addr \cup {Unset}
         /\ executed \in Nat /\ CountCap \in Nat /\ DoneCap \in Nat
         /\ Slice \in 1 .. DoneCap
<1>1. args \in Argument /\ args \in Arguments
  BY DriversAssumption DEF Given
<1>2. args.max \in Nat \cup {Unset} /\ args.display \in BOOLEAN
  BY <1>1 DEF Argument
<1>3. args.refresh \in 0 .. DoneCap /\ args.max < CountCap
  BY <1>1, DriversAssumption
<1>4. option \in Addr \cup {Unset}
  BY DriversAssumption DEF Given
<1>5. CountCap \in Nat /\ DoneCap \in Nat /\ Slice \in 1 .. DoneCap
  BY DriversAssumption, ConstantsAssumption
<1>6. executed \in Nat
  BY <1>5 DEF Given
<1> QED
  BY <1>2, <1>3, <1>4, <1>5, <1>6

\* Unset is no address and no number.
LEMMA OrZeroType ==
  \A origin \in Addr \cup {Unset} : OrZero(origin) \in Addr
BY WordFacts DEF OrZero

\* What a file is loaded as.
LEMMA LoadedType ==
  ASSUME NEW f \in Files, NEW o \in Addr \cup {Unset}
  PROVE  /\ Loaded(f, o).words \in Seq(Word)
         /\ Loaded(f, o).load_at \in Addr /\ Loaded(f, o).entry \in Addr
<1>1. CASE f.format = "Asm"
  <2>1. f.words \in Seq(Word) /\ f.org \in Addr \cup {Unset}
    BY <1>1, DriversAssumption
  <2> QED
    BY <1>1, <2>1, OrZeroType DEF Loaded
<1>2. CASE f.format # "Asm"
  <2>1. f.bytes \in Seq(Byte)
    BY <1>2, DriversAssumption
  <2>2. DecodeWords(f.bytes) \in Seq(Word)
    BY <2>1, DecodedType
  <2> QED
    BY <1>2, <2>2, OrZeroType, WordFacts DEF Loaded
<1> QED
  BY <1>1, <1>2

\* A placement of words is a memory.
LEMMA PlacedType ==
  ASSUME NEW words \in Seq(Word), NEW from \in Nat, NEW rest \in [Addr -> Word]
  PROVE  [a \in Addr |-> IF a \in from .. from + Len(words) - 1
                         THEN words[a - from + 1] ELSE rest[a]]
           \in [Addr -> Word]
<1>1. ASSUME NEW a \in Addr, a \in from .. from + Len(words) - 1
      PROVE  words[a - from + 1] \in Word
  <2>1. a - from + 1 \in 1 .. Len(words)
    BY <1>1
  <2> QED
    BY <2>1, ElementOfSeq
<1> QED
  BY <1>1

LEMMA PlacedIsMemory ==
  ASSUME NEW words \in Seq(Word), NEW from \in Nat
  PROVE  Placed(words, from) \in [Addr -> Word]
<1>1. ASSUME NEW a \in Addr, a \in from .. from + Len(words) - 1
      PROVE  words[a - from + 1] \in Word
  <2>1. a - from + 1 \in 1 .. Len(words)
    BY <1>1
  <2> QED
    BY <2>1, ElementOfSeq
<1> QED
  BY <1>1, WordFacts DEF Placed

\* A turn of the machine under a driver executes a micro-operation, or not,
\* or gives the machine back; an instruction is counted when it completes.
LEMMA TurnOutcome ==
  ASSUME IInv, DriverTurn, ~Undoing
  PROVE  \/ /\ Ran
            /\ completed' = IF control'.micro_pc = 0 THEN Counted(completed + 1)
                            ELSE completed
         \/ Refrained /\ completed' = completed
         \/ SuspendRun /\ completed' = completed
<1>1. MicroStep \/ SuspendRun
  BY DEF DriverTurn, Turn, MicroStepBack, UndoNothing, UndoRegister,
         UndoMemory, UndoInput, UndoOutput, RefuseNoHistory, RefuseInput,
         RefuseOutput, Undoes
<1>2. CASE Ran
  <2>1. control' # control
    BY <1>2, RanFollows DEF NextAfter
  <2> QED
    BY <1>2, <2>1 DEF DriverTurn
<1>3. CASE Refrained
  BY <1>3 DEF DriverTurn, Refrained, core
<1>4. CASE SuspendRun
  BY <1>4 DEF DriverTurn, SuspendRun, core
<1> QED
  BY <1>1, <1>2, <1>3, <1>4, MicroStepOutcome DEF IInv

\* Under a driver the machine keeps its own invariant.
LEMMA DriverMachine ==
  ASSUME IInv, Given, SliceTallied, [DriverNext]_rvars
  PROVE  IInv'
<1>1. ASSUME UNCHANGED vars
      PROVE  IInv'
  BY <1>1, NextType
<1>2. CASE UNCHANGED rvars
  BY <1>1, <1>2 DEF rvars
<1>3. CASE Install
  <2> DEFINE program == Loaded(file, option)
  <2>1. /\ program.words \in Seq(Word) /\ program.load_at \in Nat
        /\ program.entry \in Addr
    <3>1. file \in Files /\ option \in Addr \cup {Unset}
      BY GivenType DEF Given
    <3> HIDE DEF program
    <3>2. program.words \in Seq(Word) /\ program.load_at \in Addr /\ program.entry \in Addr
      BY <3>1, LoadedType DEF program
    <3> QED
      BY <3>2, WordFacts
  <2>2. /\ memory' = IF program.full_image THEN Placed(program.words, 0)
                     ELSE [a \in Addr |->
                             IF a \in program.load_at ..
                                        program.load_at + Len(program.words) - 1
                             THEN program.words[a - program.load_at + 1]
                             ELSE memory[a]]
        /\ RewindTo(registers, program.entry)
        /\ state' = state
    BY <1>3 DEF Install
  <2> HIDE DEF program
  <2>3. registers \in RegisterFile /\ memory \in [Addr -> Word]
        /\ state \in {"Ready", "Running", "Stepping", "Terminated"}
    BY DEF IInv, TypeOK
  <2>4. memory' \in [Addr -> Word]
    BY <2>1, <2>2, <2>3, PlacedType, PlacedIsMemory
  <2> QED
    BY <2>1, <2>2, <2>3, <2>4, RewoundType
<1>4. CASE Start
  <2>1. Debug \/ Boot
    BY <1>4 DEF Start
  <2> QED
    BY <2>1, HostType DEF Host
<1>5. CASE RunSlice
  <2>1. SliceSize \in Nat
    BY <1>5, GivenType DEF RunSlice, SliceSize, Given, Unset
  <2> QED
    BY <1>5, <2>1, BeginType DEF RunSlice
<1>6. CASE PaceStep
  BY <1>6, BeginType DEF PaceStep
<1>7. CASE DriverTurn
  <2>1. Next
    BY <1>7 DEF DriverTurn, Next
  <2> QED
    BY <2>1, NextType
<1>8. CASE TypeLine
  <2>1. inputs' \in Seq(Word)
    BY <1>8, ConstantsAssumption DEF TypeLine
  <2> QED
    BY <1>8, <2>1 DEF TypeLine, IInv, TypeOK, InCycle, core, journal
<1>9. CASE \/ Refuse \/ SliceInterrupted \/ SliceRefused \/ SliceSpent \/ Finish
           \/ ReportSuspended \/ PaceInterrupted \/ BeginBatch \/ EndBatch
           \/ PaceLimit \/ PaceStepped \/ Press
  BY <1>1, <1>9
     DEF Refuse, SliceInterrupted, SliceRefused, SliceSpent, Finish,
         ReportSuspended, PaceInterrupted, BeginBatch, EndBatch, PaceLimit,
         PaceStepped, Press, Ends, Goes
<1> QED
  BY <1>2, <1>3, <1>4, <1>5, <1>6, <1>7, <1>8, <1>9 DEF DriverNext, Main

-----------------------------------------------------------------------------
(* The driver's own invariant.                                             *)

\* A slice is no more than what is left of the budget, and no more than the
\* machine counts.
LEMMA SliceFits ==
  ASSUME Given
  PROVE  /\ SliceSize \in Nat /\ SliceSize <= DoneCap
         /\ args.max # Unset => executed + SliceSize <= args.max
<1>1. /\ args.max \in Nat \cup {Unset} /\ args.refresh \in 0 .. DoneCap
      /\ executed \in Nat /\ DoneCap \in Nat /\ Slice \in 1 .. DoneCap
      /\ args.max # Unset => executed <= args.max
  BY GivenType DEF Given
<1> DEFINE most == IF Animated THEN args.refresh ELSE Slice
<1>2. most \in Nat /\ most <= DoneCap
  BY <1>1
<1>3. SliceSize = IF args.max = Unset \/ most <= args.max - executed THEN most
                  ELSE args.max - executed
  BY DEF SliceSize
<1> HIDE DEF most
<1> QED
  BY <1>1, <1>2, <1>3 DEF Unset

\* Counting stops at the bound.
LEMMA CountedType ==
  ASSUME NEW n \in Nat
  PROVE  /\ Counted(n) \in 0 .. CountCap
         /\ n <= CountCap => Counted(n) = n
         /\ Counted(Counted(n) + 1) = Counted(n + 1)
         /\ \A m \in Nat : m < CountCap /\ Counted(n) >= m => n >= m
BY DriversAssumption DEF Counted

\* Nothing but a turn is taken by the machine.
LEMMA Outside ==
  ASSUME \/ Refuse \/ SliceInterrupted \/ SliceRefused \/ SliceSpent \/ Finish
         \/ ReportSuspended \/ PaceInterrupted \/ BeginBatch \/ EndBatch
         \/ PaceLimit \/ PaceStepped \/ Press
  PROVE  UNCHANGED << vars, inputs_, completed >>
BY DEF Refuse, SliceInterrupted, SliceRefused, SliceSpent, Finish,
       ReportSuspended, PaceInterrupted, BeginBatch, EndBatch, PaceLimit,
       PaceStepped, Press, Ends, Goes

\* The machine's turns, and its calls, are not the driver's business.
LEMMA DriverGiven ==
  ASSUME DInv, [DriverNext]_rvars
  PROVE  Given'
<1>1. Given /\ executed \in Nat /\ CountCap \in Nat /\ args.max < CountCap
      /\ args.max \in Nat \cup {Unset}
  BY GivenType DEF DInv
<1>2. UNCHANGED inputs_ /\ stop' \in BOOLEAN
  <2>1. stop \in BOOLEAN
    BY <1>1 DEF Given
  <2> QED
    BY <2>1
     DEF DriverNext, Main, Refuse, Install, Start, SliceInterrupted,
         SliceRefused, RunSlice, SliceSpent, Finish, ReportSuspended,
         PaceInterrupted, BeginBatch, EndBatch, PaceLimit, PaceStep,
         PaceStepped, DriverTurn, TypeLine, Press, Ends, Goes, rvars, interrupt
<1>3. /\ executed' \in 0 .. CountCap
      /\ args.max # Unset => executed' <= args.max
  <2>1. CASE SliceSpent
    <3>1. SliceSize \in Nat /\ (args.max # Unset => executed + SliceSize <= args.max)
      BY <1>1, SliceFits
    <3>2. executed' = Counted(executed + SliceSize) /\ executed + SliceSize \in Nat
      BY <1>1, <2>1, <3>1 DEF SliceSpent
    <3>3. executed' \in 0 .. CountCap
      BY <3>2, CountedType
    <3>4. args.max # Unset => executed' = executed + SliceSize
      BY <1>1, <3>1, <3>2 DEF Counted
    <3> QED
      BY <3>1, <3>3, <3>4
  <2>2. CASE PaceStepped
    <3>1. args.max # Unset => executed < args.max
      BY <2>2 DEF PaceStepped, DInv, MicroTallied
    <3>2. executed' = executed \/ executed' = Counted(executed + 1)
      BY <2>2 DEF PaceStepped
    <3>3. executed \in 0 .. CountCap
      BY <1>1 DEF Given
    <3> QED
      BY <1>1, <3>1, <3>2, <3>3 DEF Counted, Unset
  <2>3. CASE ~SliceSpent /\ ~PaceStepped
    <3>1. executed' = executed
      BY <2>3
       DEF DriverNext, Main, Refuse, Install, Start, SliceInterrupted,
           SliceRefused, RunSlice, Finish, ReportSuspended,
           PaceInterrupted, BeginBatch, EndBatch, PaceLimit, PaceStep,
           DriverTurn, TypeLine, Press, Ends, Goes, rvars, loop
    <3> QED
      BY <1>1, <3>1 DEF Given
  <2> QED
    BY <2>1, <2>2, <2>3
<1> QED
  BY <1>1, <1>2, <1>3 DEF Given, inputs_

\* Where the main thread goes.
LEMMA DriverDriving ==
  ASSUME DInv, [DriverNext]_rvars
  PROVE  Driving'
<1> USE DEF DInv, Driving
<1>1. CASE UNCHANGED rvars
  BY <1>1 DEF rvars, vars, core, inputs_, loop, Paced, Idle
<1>2. CASE Install
  BY <1>2 DEF Install, RewindTo, Paced, Idle, inputs_, loop
<1>3. CASE Start
  BY <1>3 DEF Start, Boot, Debug, Transition, Paced, Idle, inputs_
<1>4. CASE RunSlice \/ PaceStep
  BY <1>4 DEF RunSlice, PaceStep, Begin, Paced, inputs_, loop
<1>5. CASE DriverTurn
  BY <1>5 DEF DriverTurn, Paced, inputs_, loop
<1>6. CASE TypeLine
  BY <1>6 DEF TypeLine, Waiting, Paced, inputs_, loop
<1>7. CASE Press
  BY <1>7 DEF Press, Paced, inputs_, loop, vars, core, Idle
<1>8. CASE \/ Refuse \/ SliceInterrupted \/ SliceRefused \/ SliceSpent \/ Finish
           \/ ReportSuspended \/ PaceInterrupted \/ BeginBatch \/ EndBatch
           \/ PaceLimit \/ PaceStepped
  <2>1. UNCHANGED << vars, inputs_, completed >>
    BY <1>8, Outside
  <2>2. Paced' = Paced /\ Idle' = Idle
    BY <2>1 DEF vars, inputs_, Paced, Idle
  <2>3. \/ at' = "done"
        \/ /\ at' = "report" /\ at = "loop" /\ result' = result
        \/ /\ at' = "loop" /\ at = "slice" /\ Idle /\ result' = result
        \/ /\ at' = "step" /\ at = "batch" /\ result' = result
        \/ /\ at' = "batch" /\ at = "step" /\ result' = result
        \/ /\ at' = "step" /\ at = "micro" /\ Idle /\ result' = result
    BY <1>8
     DEF Refuse, SliceInterrupted, SliceRefused, SliceSpent, Finish,
         ReportSuspended, PaceInterrupted, BeginBatch, EndBatch, PaceLimit,
         PaceStepped, Ends, Goes
  <2> QED
    BY <2>2, <2>3
<1> QED
  BY <1>1, <1>2, <1>3, <1>4, <1>5, <1>6, <1>7, <1>8 DEF DriverNext, Main

\* Between two calls the count is right.
LEMMA DriverTallied ==
  ASSUME DInv, [DriverNext]_rvars
  PROVE  Tallied'
<1> USE DEF DInv, Tallied
<1>1. CASE UNCHANGED rvars
  BY <1>1 DEF rvars, loop
<1>2. CASE Install \/ Start \/ TypeLine
  BY <1>2 DEF Install, Start, TypeLine, loop, Waiting
<1>3. CASE RunSlice \/ PaceStep \/ DriverTurn
  BY <1>3 DEF RunSlice, PaceStep, DriverTurn
<1>4. CASE SliceSpent
  BY <1>4 DEF SliceSpent, SliceTallied, Goes
<1>5. CASE PaceStepped
  BY <1>5 DEF PaceStepped, MicroTallied, Goes
<1>6. CASE \/ Refuse \/ SliceInterrupted \/ SliceRefused \/ Finish
           \/ ReportSuspended \/ PaceInterrupted \/ BeginBatch \/ EndBatch
           \/ PaceLimit \/ Press
  BY <1>6
     DEF Refuse, SliceInterrupted, SliceRefused, Finish, ReportSuspended,
         PaceInterrupted, BeginBatch, EndBatch, PaceLimit, Press, Ends, Goes,
         loop
<1> QED
  BY <1>1, <1>2, <1>3, <1>4, <1>5, <1>6 DEF DriverNext, Main

\* The size of a slice is fixed while it runs.
LEMMA SameSlice ==
  ASSUME args' = args, executed' = executed
  PROVE  SliceSize' = SliceSize
BY DEF SliceSize, Animated, Paced

\* Within a slice nothing completed is lost, and nothing runs over.
LEMMA DriverSliceTallied ==
  ASSUME IInv, DInv, [DriverNext]_rvars
  PROVE  SliceTallied'
<1>1. /\ Given /\ SliceTallied /\ Tallied /\ executed \in Nat /\ CountCap \in Nat
      /\ SliceSize \in Nat /\ SliceSize <= DoneCap /\ DoneCap \in Nat
      /\ executed \in 0 .. CountCap
  BY SliceFits, GivenType DEF DInv, Given
<1>2. ASSUME UNCHANGED << call, outcome, completed, args, executed >>, at' = at
      PROVE  SliceTallied'
  <2>1. SliceSize' = SliceSize
    BY <1>2, SameSlice
  <2> QED
    BY <1>1, <1>2, <2>1 DEF SliceTallied, Idle
<1>3. CASE at' # "slice"
  BY <1>3 DEF SliceTallied
<1>4. CASE UNCHANGED rvars
  BY <1>2, <1>4 DEF rvars, vars, inputs_, loop
<1>5. CASE TypeLine
  BY <1>2, <1>5 DEF TypeLine, inputs_, loop
<1>6. CASE Press /\ at' = "slice"
  BY <1>2, <1>6 DEF Press, vars, inputs_, loop
<1>7. CASE RunSlice
  <2>1. SliceSize' = SliceSize
    BY <1>7, SameSlice DEF RunSlice, inputs_, loop
  <2>2. call' = [api |-> "run", budget |-> SliceSize, done |-> 0,
                 within |-> FALSE, from |-> control.micro_pc]
    BY <1>7 DEF RunSlice, Begin
  <2>3. call'.api = "run" /\ call'.budget = SliceSize /\ call'.done = 0
        /\ call'.within = FALSE /\ ~Idle'
    BY <2>2 DEF Idle, NoCall
  <2>4. completed' = executed' /\ executed' = executed /\ SliceSize > 0
    BY <1>1, <1>7 DEF RunSlice, Tallied, loop
  <2>5. Counted(executed' + 0) = executed'
    BY <1>1, <2>4 DEF Counted
  <2> QED
    BY <1>1, <2>1, <2>3, <2>4, <2>5 DEF SliceTallied
<1>8. CASE DriverTurn /\ at' = "slice"
  <2>1. at = "slice" /\ SliceSize' = SliceSize /\ executed' = executed /\ args' = args
    BY <1>8, SameSlice DEF DriverTurn, inputs_, loop
  <2>2. ~Idle
    BY <1>8
       DEF DriverTurn, Turn, Idle, NoCall, SuspendRun, MicroStep,
           ExecuteRegisterWrite, ExecuteWriteMemory, ExecuteDecode,
           ExecuteCompare, ExecuteNoSkip, ExecuteReadInput,
           ExecuteWriteOutput, FaultInvalidOpcode, StallOnInput, FaultOnInput,
           FaultOnOutput, ExecuteHalt, Issues, Issuing, MicroStepBack,
           UndoNothing, UndoRegister, UndoMemory, UndoInput, UndoOutput,
           RefuseNoHistory, RefuseInput, RefuseOutput, Undoes, Undoing
  <2>3. /\ call.api = "run" /\ call.budget = SliceSize
        /\ call.done <= SliceSize /\ SliceSize > 0
        /\ call.within => call.done < SliceSize
        /\ completed = Counted(executed + call.done)
    BY <1>1, <2>1, <2>2 DEF SliceTallied
  <2>4. call \in Call /\ call.done \in Nat /\ ~Undoing
    BY <2>3 DEF IInv, TypeOK, Call, Undoing
  <2>5. CASE /\ Ran
             /\ completed' = IF control'.micro_pc = 0 THEN Counted(completed + 1)
                             ELSE completed
    <3>1. call.done < SliceSize
      <4>1. CASE call.within
        BY <2>3, <4>1
      <4>2. CASE ~call.within
        <5>1. ~BudgetSpent
          BY <2>3, <2>5, <4>2 DEF Ran, Issuing
        <5> QED
          BY <1>1, <2>3, <2>4, <5>1 DEF BudgetSpent, NoBudget
      <4> QED
        BY <4>1, <4>2
    <3>2. call' = [call EXCEPT
                !.within = control'.micro_pc # 0,
                !.done = IF call.api = "run" /\ control'.micro_pc = 0
                            /\ call.done < DoneCap
                         THEN call.done + 1 ELSE call.done]
      BY <2>3, <2>5 DEF Ran, Answered
    <3>3. /\ call'.api = "run" /\ call'.budget = SliceSize
          /\ call'.done = IF control'.micro_pc = 0 THEN call.done + 1
                          ELSE call.done
          /\ control'.micro_pc = 0 => ~call'.within
      <4>1. call.done < DoneCap
        BY <1>1, <2>4, <3>1
      <4>2. call'.api = call.api /\ call'.budget = call.budget
        BY <2>4, <3>2 DEF Call
      <4>3. call'.done = IF call.api = "run" /\ control'.micro_pc = 0
                            /\ call.done < DoneCap
                         THEN call.done + 1 ELSE call.done
        BY <2>4, <3>2 DEF Call
      <4>4. call'.within = (control'.micro_pc # 0)
        BY <2>4, <3>2 DEF Call
      <4> QED
        BY <2>3, <4>1, <4>2, <4>3, <4>4
    <3>4. ~Idle' /\ call'.done <= SliceSize
          /\ (call'.within => call'.done < SliceSize)
      <4>1. ~Idle'
        BY <3>3 DEF Idle, NoCall
      <4>2. CASE control'.micro_pc = 0
        <5>1. call'.done = call.done + 1 /\ ~call'.within
          BY <3>3, <4>2
        <5> QED
          BY <1>1, <2>4, <3>1, <4>1, <5>1
      <4>3. CASE control'.micro_pc # 0
        <5>1. call'.done = call.done
          BY <3>3, <4>3
        <5> QED
          BY <1>1, <2>4, <3>1, <4>1, <5>1
      <4> QED
        BY <4>2, <4>3
    <3>5. completed' = Counted(executed + call'.done)
      <4>1. executed + call.done \in Nat
        BY <1>1, <2>4
      <4>2. CASE control'.micro_pc = 0
        <5>1. completed' = Counted(Counted(executed + call.done) + 1)
          BY <2>3, <2>5, <4>2
        <5>2. completed' = Counted((executed + call.done) + 1)
          BY <4>1, <5>1, CountedType
        <5>3. (executed + call.done) + 1 = executed + call'.done
          BY <1>1, <2>4, <3>3, <4>2
        <5> QED
          BY <5>2, <5>3
      <4>3. CASE control'.micro_pc # 0
        BY <2>3, <2>5, <3>3, <4>3
      <4> QED
        BY <4>2, <4>3
    <3> QED
      BY <2>1, <2>3, <3>3, <3>4, <3>5 DEF SliceTallied
  <2>6. CASE Refrained
    BY <2>1, <2>3, <2>6 DEF Refrained, SliceTallied, Idle
  <2>7. CASE SuspendRun /\ completed' = completed
    <3>1. Idle' /\ (outcome' = "StepLimit" => BudgetSpent)
      BY <2>7 DEF SuspendRun, Returns, Idle
    <3>2. BudgetSpent => call.done = SliceSize
      BY <1>1, <2>3, <2>4 DEF BudgetSpent
    <3> QED
      BY <2>1, <2>3, <2>7, <3>1, <3>2 DEF SliceTallied
  <2> QED
    BY <1>8, <2>4, <2>5, <2>6, <2>7, TurnOutcome
<1>9. \/ UNCHANGED rvars \/ TypeLine \/ Press \/ RunSlice \/ DriverTurn
      \/ at' # "slice"
  BY DEF DriverNext, Main, Refuse, Install, Start, SliceInterrupted,
         SliceRefused, SliceSpent, Finish, ReportSuspended, PaceInterrupted,
         BeginBatch, EndBatch, PaceLimit, PaceStep, PaceStepped, Ends, Goes
<1> QED
  BY <1>3, <1>4, <1>5, <1>6, <1>7, <1>8, <1>9

\* Within a batch an instruction is counted with its last operation.
LEMMA DriverMicroTallied ==
  ASSUME IInv, DInv, [DriverNext]_rvars
  PROVE  MicroTallied'
<1>1. /\ Given /\ MicroTallied /\ Tallied
      /\ args.max \in Nat \cup {Unset} /\ executed \in Nat
  BY GivenType DEF DInv
<1>2. ASSUME UNCHANGED << call, outcome, completed, args, executed, control >>,
             at' = at
      PROVE  MicroTallied'
  BY <1>1, <1>2 DEF MicroTallied, Idle
<1>3. CASE at' # "micro"
  BY <1>3 DEF MicroTallied
<1>4. CASE UNCHANGED rvars
  BY <1>2, <1>4 DEF rvars, vars, core, inputs_, loop
<1>5. CASE TypeLine
  BY <1>2, <1>5 DEF TypeLine, inputs_, loop, core
<1>6. CASE Press /\ at' = "micro"
  BY <1>2, <1>6 DEF Press, vars, core, inputs_, loop
<1>7. CASE PaceStep
  <2>1. call' = [api |-> "micro_step", budget |-> NoBudget, done |-> 0,
                 within |-> FALSE, from |-> control.micro_pc]
    BY <1>7 DEF PaceStep, Begin
  <2>2. call'.api = "micro_step" /\ ~Idle'
    BY <2>1 DEF Idle, NoCall
  <2>3. UNCHANGED << args, executed, completed >> /\ completed = executed
    BY <1>1, <1>7 DEF PaceStep, inputs_, loop, Tallied
  <2>4. args.max # Unset => executed < args.max
    BY <1>1, <1>7 DEF PaceStep, PaceSpent
  <2> QED
    BY <2>2, <2>3, <2>4 DEF MicroTallied
<1>8. CASE DriverTurn /\ at' = "micro"
  <2>1. at = "micro" /\ executed' = executed /\ args' = args
    BY <1>8 DEF DriverTurn, inputs_, loop
  <2>2. ~Idle
    BY <1>8
       DEF DriverTurn, Turn, Idle, NoCall, SuspendRun, MicroStep,
           ExecuteRegisterWrite, ExecuteWriteMemory, ExecuteDecode,
           ExecuteCompare, ExecuteNoSkip, ExecuteReadInput,
           ExecuteWriteOutput, FaultInvalidOpcode, StallOnInput, FaultOnInput,
           FaultOnOutput, ExecuteHalt, Issues, Issuing, MicroStepBack,
           UndoNothing, UndoRegister, UndoMemory, UndoInput, UndoOutput,
           RefuseNoHistory, RefuseInput, RefuseOutput, Undoes, Undoing
  <2>3. /\ call.api = "micro_step" /\ completed = executed
        /\ args.max # Unset => executed < args.max
    BY <1>1, <2>1, <2>2 DEF MicroTallied
  <2>4. ~Undoing
    BY <2>3 DEF Undoing
  <2>5. CASE /\ Ran
             /\ completed' = IF control'.micro_pc = 0 THEN Counted(completed + 1)
                             ELSE completed
    <3>1. call' = NoCall
      BY <2>3, <2>5 DEF Ran, Answered, Returns
    <3> QED
      BY <2>1, <2>3, <2>5, <3>1 DEF MicroTallied, Idle
  <2>6. CASE Refrained
    BY <2>1, <2>3, <2>6 DEF Refrained, MicroTallied, Idle
  <2>7. ~SuspendRun
    BY <2>3 DEF SuspendRun
  <2> QED
    BY <1>8, <2>4, <2>5, <2>6, <2>7, TurnOutcome
<1>9. \/ UNCHANGED rvars \/ TypeLine \/ Press \/ PaceStep \/ DriverTurn
      \/ at' # "micro"
  BY DEF DriverNext, Main, Refuse, Install, Start, SliceInterrupted,
         SliceRefused, SliceSpent, RunSlice, Finish, ReportSuspended,
         PaceInterrupted, BeginBatch, EndBatch, PaceLimit, PaceStepped, Ends,
         Goes
<1> QED
  BY <1>3, <1>4, <1>5, <1>6, <1>7, <1>8, <1>9

\* What is on the screen between two slices, and why a loop came back.
LEMMA DriverShown ==
  ASSUME DInv, [DriverNext]_rvars
  PROVE  Shown'
<1>1. /\ Given /\ Shown /\ Driving /\ executed \in Nat
      /\ args.max \in Nat \cup {Unset} /\ Slice \in 1 .. DoneCap /\ DoneCap \in Nat
      /\ args.max # Unset => executed <= args.max
      /\ args.display \in BOOLEAN
  BY GivenType DEF DInv, Given
<1>2. ASSUME UNCHANGED << args, executed, memory, drawn, stop >>, at' = at
      PROVE  Shown'
  BY <1>1, <1>2 DEF Shown, Animated, Paced, DisplayWords
<1>3. CASE at' \notin {"loop", "report"}
  BY <1>3 DEF Shown
<1>4. CASE UNCHANGED rvars
  BY <1>2, <1>4 DEF rvars, vars, core, inputs_, loop, interrupt
<1>5. CASE Press /\ at' \in {"loop", "report"}
  <2>1. /\ at' = at /\ stop' = TRUE
        /\ UNCHANGED << args, executed, memory, drawn >>
    BY <1>5 DEF Press, vars, core, inputs_, loop
  <2> QED
    BY <1>1, <2>1 DEF Shown, Animated, Paced, DisplayWords
<1>6. CASE Start
  BY <1>1, <1>6
     DEF Start, Shown, Animated, Paced, DisplayWords, Boot, Debug, Transition,
         core, inputs_
<1>7. CASE SliceSpent
  BY <1>1, <1>7
     DEF SliceSpent, Goes, Shown, Animated, Paced, DisplayWords, vars, core,
         inputs_
<1>8. CASE SliceInterrupted
  BY <1>1, <1>8
     DEF SliceInterrupted, Goes, Ends, Shown, Animated, Paced, inputs_, interrupt
<1>9. CASE SliceRefused
  <2>1. CASE Animated
    BY <2>1, <1>9 DEF SliceRefused, Ends, Shown
  <2>2. CASE ~Animated
    <3>1. SliceSize = 0
      BY <1>9 DEF SliceRefused
    <3>2. args.max # Unset /\ executed = args.max
      <4>1. SliceSize = IF args.max = Unset \/ Slice <= args.max - executed
                        THEN Slice ELSE args.max - executed
        BY <2>2 DEF SliceSize
      <4> QED
        BY <1>1, <3>1, <4>1
    <3>3. at' = "report" /\ args' = args /\ executed' = executed
      BY <1>9, <2>2 DEF SliceRefused, Goes, inputs_
    <3> QED
      BY <2>2, <3>2, <3>3 DEF Shown, Animated, Paced
  <2> QED
    BY <2>1, <2>2
<1>10. \/ UNCHANGED rvars \/ Press \/ Start \/ SliceSpent \/ SliceInterrupted
       \/ SliceRefused \/ at' \notin {"loop", "report"}
  BY DEF DriverNext, Main, Refuse, Install, RunSlice, Finish,
         ReportSuspended, PaceInterrupted, BeginBatch, EndBatch, PaceLimit,
         PaceStep, PaceStepped, DriverTurn, TypeLine, Waiting, Ends, Goes
<1> QED
  BY <1>3, <1>4, <1>5, <1>6, <1>7, <1>8, <1>9, <1>10

\* The invariant of a driver holds of every reachable state.
LEMMA DriverInvariance == DriverSpec => [](IInv /\ DInv)
<1>1. DriverInit => IInv /\ DInv
  <2> SUFFICES ASSUME DriverInit PROVE IInv /\ DInv
    OBVIOUS
  <2>1. IInv
    BY BeginsType, ZeroType, WordFacts DEF DriverInit
  <2>2. CountCap \in Nat /\ args \in Argument
    BY DriversAssumption DEF DriverInit
  <2>3. args.max \in Nat \cup {Unset}
    BY <2>2 DEF Argument
  <2>4. Given
    <3>1. executed = 0 /\ executed \in 0 .. CountCap
      BY <2>2 DEF DriverInit
    <3>2. args.max # Unset => executed <= args.max
      BY <2>3, <3>1
    <3>3. file \in Files /\ option \in Origins /\ args \in Arguments /\ stop \in BOOLEAN
      BY DEF DriverInit
    <3> QED
      BY <3>1, <3>2, <3>3 DEF Given
  <2>5. Driving /\ Tallied /\ SliceTallied /\ MicroTallied /\ Shown
    BY DEF DriverInit, InitWith, Driving, Tallied, SliceTallied, MicroTallied,
           Shown, Idle
  <2> QED
    BY <2>1, <2>4, <2>5 DEF DInv
<1>2. IInv /\ DInv /\ [DriverNext]_rvars => (IInv /\ DInv)'
  <2> SUFFICES ASSUME IInv, DInv, [DriverNext]_rvars
               PROVE  IInv' /\ DInv'
    OBVIOUS
  <2>1. IInv'
    BY DriverMachine DEF DInv
  <2> QED
    BY <2>1, DriverGiven, DriverDriving, DriverTallied, DriverSliceTallied,
       DriverMicroTallied, DriverShown DEF DInv
<1> QED
  BY <1>1, <1>2, PTL DEF DriverSpec

-----------------------------------------------------------------------------
(* What a run promises.                                                    *)

\* Once a run has ended nothing moves.
LEMMA Ended ==
  ASSUME at = "done", [DriverNext]_rvars
  PROVE  UNCHANGED rvars
BY DEF DriverNext, Main, Refuse, Install, Start, SliceInterrupted,
       SliceRefused, RunSlice, SliceSpent, Finish, ReportSuspended,
       PaceInterrupted, BeginBatch, EndBatch, PaceLimit, PaceStep,
       PaceStepped, DriverTurn, TypeLine, Press, Waiting

\* --max-steps is exact: whichever loop drives the machine, it does not move
\* once that many instructions have completed.
THEOREM BudgetIsKept == DriverSpec => BudgetKept
<1> DEFINE Still == args.max # Unset /\ completed >= args.max /\ at # "load"
                      => UNCHANGED core
<1>1. IInv /\ DInv /\ [DriverNext]_rvars => [Still]_rvars
  <2> SUFFICES ASSUME IInv, DInv, DriverNext, args.max # Unset,
                      completed >= args.max, at # "load"
               PROVE  UNCHANGED core
    OBVIOUS
  <2>1. /\ executed \in Nat /\ CountCap \in Nat /\ args.max \in Nat
        /\ args.max < CountCap /\ SliceSize \in Nat
        /\ executed + SliceSize <= args.max
    BY GivenType, SliceFits DEF DInv
  <2>2. CASE DriverTurn
    <3>1. ~Idle
      BY <2>2
         DEF DriverTurn, Turn, Idle, NoCall, SuspendRun, MicroStep,
             ExecuteRegisterWrite, ExecuteWriteMemory, ExecuteDecode,
             ExecuteCompare, ExecuteNoSkip, ExecuteReadInput,
             ExecuteWriteOutput, FaultInvalidOpcode, StallOnInput,
             FaultOnInput, FaultOnOutput, ExecuteHalt, Issues, Issuing,
             MicroStepBack, UndoNothing, UndoRegister, UndoMemory, UndoInput,
             UndoOutput, RefuseNoHistory, RefuseInput, RefuseOutput, Undoes,
             Undoing
    <3>2. at \in {"slice", "micro"}
      BY <2>2 DEF DriverTurn
    <3>3. CASE at = "micro"
      <4>1. completed = executed /\ executed < args.max
        BY <3>1, <3>3 DEF DInv, MicroTallied
      <4> QED
        BY <2>1, <4>1
    <3>4. CASE at = "slice"
      <4>1. /\ call.api = "run" /\ call.budget = SliceSize
            /\ call.done <= SliceSize /\ (call.within => call.done < SliceSize)
            /\ completed = Counted(executed + call.done)
        BY <3>1, <3>4 DEF DInv, SliceTallied
      <4>2. call.done \in Nat /\ ~Undoing
        BY <4>1 DEF IInv, TypeOK, Call, Undoing
      <4>3. executed + call.done >= args.max
        BY <2>1, <4>1, <4>2, CountedType
      <4>4. call.done = SliceSize
        BY <2>1, <4>1, <4>2, <4>3
      <4>5. BudgetSpent /\ ~call.within
        BY <2>1, <4>1, <4>2, <4>4 DEF BudgetSpent, NoBudget
      <4>6. ~Ran
        BY <4>1, <4>5 DEF Ran, Issuing
      <4> QED
        BY <2>2, <4>2, <4>6, TurnOutcome DEF Refrained, SuspendRun
    <3> QED
      BY <3>2, <3>3, <3>4
  <2>3. CASE Start
    BY <2>3 DEF Start, Boot, Debug, Transition
  <2>4. CASE RunSlice \/ PaceStep
    BY <2>4 DEF RunSlice, PaceStep, Begin
  <2>5. CASE Install
    BY <2>5 DEF Install
  <2>6. CASE TypeLine
    BY <2>6 DEF TypeLine
  <2>7. CASE \/ Refuse \/ SliceInterrupted \/ SliceRefused \/ SliceSpent
             \/ Finish \/ ReportSuspended \/ PaceInterrupted \/ BeginBatch
             \/ EndBatch \/ PaceLimit \/ PaceStepped \/ Press
    BY <2>7, Outside DEF vars
  <2> QED
    BY <2>2, <2>3, <2>4, <2>5, <2>6, <2>7 DEF DriverNext, Main
<1> QED
  BY <1>1, DriverInvariance, PTL DEF DriverSpec, BudgetKept

\* What is reported is what ran, in every loop and wherever a press lands.
THEOREM RunsReportTruly == DriverSpec => []ReportsTruly
<1>1. DriverInit => ReportsTruly
  BY DEF DriverInit, ReportsTruly
<1>2. DInv /\ DInv' /\ ReportsTruly /\ [DriverNext]_rvars => ReportsTruly'
  <2> SUFFICES ASSUME DInv, DInv', ReportsTruly, [DriverNext]_rvars
               PROVE  ReportsTruly'
    OBVIOUS
  <2>0. /\ executed \in Nat /\ args.max \in Nat \cup {Unset}
        /\ args.refresh \in Nat /\ Slice \in Nat /\ Slice > 0
        /\ args.max # Unset => executed <= args.max
    <3>1. DoneCap \in Nat
      BY ConstantsAssumption
    <3> QED
      BY <3>1, GivenType DEF DInv, Given
  <2>1. CASE at = "done"
    <3>1. UNCHANGED rvars
      BY <2>1, Ended
    <3> QED
      BY <3>1 DEF rvars, inputs_, loop, ReportsTruly, Animated, Paced
  <2>2. CASE at' # "done"
    BY <2>2 DEF DInv, Driving, ReportsTruly
  <2>3. CASE UNCHANGED rvars
    BY <2>3 DEF rvars, inputs_, loop, ReportsTruly, Animated, Paced
  <2>4. CASE Refuse
    BY <2>4 DEF Refuse, Ends, ReportsTruly, LoadFault, DecodeFault
  <2>5. CASE Press /\ at' = "done"
    BY <2>5 DEF Press, ReportsTruly, DInv, Driving
  <2>6. CASE Finish
    BY <2>6 DEF Finish, Ends, ReportsTruly
  <2>7. CASE SliceInterrupted \/ PaceInterrupted
    BY <2>7
       DEF SliceInterrupted, PaceInterrupted, Ends, Goes, ReportsTruly, DInv,
           Tallied, Driving
  <2>8. CASE ReportSuspended
    BY <2>8 DEF ReportSuspended, Ends, ReportsTruly, DInv, Tallied, Shown, inputs_
  <2>9. CASE PaceLimit
    <3>1. completed = executed /\ executed = args.max
      BY <2>0, <2>9 DEF PaceLimit, PaceSpent, DInv, Tallied
    <3> QED
      BY <2>9, <3>1 DEF PaceLimit, Ends, ReportsTruly, inputs_
  <2>10. CASE SliceRefused /\ at' = "done"
    <3>1. Animated /\ result' = "limit" /\ UNCHANGED << inputs_, completed >>
      BY <2>10 DEF SliceRefused, Ends, Goes
    <3>2. completed = executed /\ SliceSize = 0
      BY <2>10 DEF SliceRefused, DInv, Tallied
    <3>3. args.refresh > 0 => args.max # Unset /\ executed = args.max
      BY <2>0, <3>1, <3>2 DEF SliceSize
    <3> QED
      BY <2>10, <3>1, <3>2, <3>3 DEF ReportsTruly, inputs_, Animated, Paced
  <2>11. \/ UNCHANGED rvars \/ Refuse \/ Press \/ Finish \/ SliceInterrupted
         \/ PaceInterrupted \/ ReportSuspended \/ PaceLimit \/ SliceRefused
         \/ at' # "done"
    BY DEF DriverNext, Main, Install, Start, RunSlice, SliceSpent, BeginBatch,
           EndBatch, PaceStep, PaceStepped, DriverTurn, TypeLine, Waiting, Goes
  <2> QED
    BY <2>2, <2>3, <2>4, <2>5, <2>6, <2>7, <2>8, <2>9, <2>10, <2>11
<1> QED
  BY <1>1, <1>2, DriverInvariance, PTL DEF DriverSpec

\* The last picture drawn is the display as the machine left it.
THEOREM PictureIsFinal == DriverSpec => []FinalPicture
<1>1. DriverInit => FinalPicture
  BY DEF DriverInit, FinalPicture
<1>2. DInv /\ DInv' /\ FinalPicture /\ [DriverNext]_rvars => FinalPicture'
  <2> SUFFICES ASSUME DInv, DInv', FinalPicture, [DriverNext]_rvars
               PROVE  FinalPicture'
    OBVIOUS
  <2>1. CASE UNCHANGED rvars
    BY <2>1
       DEF rvars, vars, core, inputs_, loop, FinalPicture, Paced, DisplayWords
  <2>2. CASE at' # "done"
    BY <2>2 DEF DInv, Driving, FinalPicture
  <2>3. CASE Refuse
    BY <2>3 DEF Refuse, Ends, FinalPicture, LoadFault, DecodeFault
  <2>4. CASE Press /\ at' = "done"
    BY <2>4 DEF Press, FinalPicture, DInv, Driving
  <2>5. CASE Finish \/ PaceInterrupted
    BY <2>5
       DEF Finish, PaceInterrupted, Ends, FinalPicture, DisplayWords, vars,
           core, inputs_
  <2>6. CASE SliceInterrupted /\ at' = "done"
    BY <2>6
       DEF SliceInterrupted, Ends, Goes, FinalPicture, DisplayWords, vars, core
  <2>7. CASE ReportSuspended
    BY <2>7
       DEF ReportSuspended, Ends, FinalPicture, DInv, Shown, Driving, Animated,
           inputs_
  <2>8. CASE PaceLimit
    BY <2>8 DEF PaceLimit, Ends, FinalPicture, DInv, Driving, Paced, inputs_
  <2>9. CASE SliceRefused /\ at' = "done"
    BY <2>9
       DEF SliceRefused, Ends, Goes, FinalPicture, DInv, Shown, DisplayWords,
           vars, core
  <2>10. \/ UNCHANGED rvars \/ Refuse \/ Press \/ Finish \/ SliceInterrupted
         \/ PaceInterrupted \/ ReportSuspended \/ PaceLimit \/ SliceRefused
         \/ at' # "done"
    BY DEF DriverNext, Main, Install, Start, RunSlice, SliceSpent, BeginBatch,
           EndBatch, PaceStep, PaceStepped, DriverTurn, TypeLine, Waiting, Goes
  <2> QED
    BY <2>1, <2>2, <2>3, <2>4, <2>5, <2>6, <2>7, <2>8, <2>9, <2>10
<1> QED
  BY <1>1, <1>2, DriverInvariance, PTL DEF DriverSpec

\* A placement from an address on, from zero on of the words of a memory.
LEMMA PlacedImage ==
  ASSUME NEW image \in [Addr -> Word]
  PROVE  /\ [i \in 1 .. MemoryWords |-> image[i - 1]] \in Seq(Word)
         /\ Len([i \in 1 .. MemoryWords |-> image[i - 1]]) = MemoryWords
         /\ Placed([i \in 1 .. MemoryWords |-> image[i - 1]], 0) = image
<1> DEFINE words == [i \in 1 .. MemoryWords |-> image[i - 1]]
<1>1. MemoryWords \in Nat /\ Addr = 0 .. MemoryWords - 1
  BY WordFacts DEF Addr
<1>2. \A i \in 1 .. MemoryWords : i - 1 \in Addr /\ words[i] = image[i - 1]
  BY <1>1
<1>3. words \in [1 .. MemoryWords -> Word]
  BY <1>1, <1>2
<1>4. words \in Seq(Word) /\ Len(words) = MemoryWords
  <2> HIDE DEF words
  <2> QED
    BY <1>1, <1>3
<1>5. Placed(words, 0) = image
  <2> HIDE DEF words
  <2>1. ASSUME NEW a \in Addr
        PROVE  Placed(words, 0)[a] = image[a]
    <3>1. a \in 0 .. 0 + Len(words) - 1 /\ a - 0 + 1 \in 1 .. MemoryWords
          /\ (a - 0 + 1) - 1 = a
      BY <1>1, <1>4
    <3>2. words[a - 0 + 1] = image[a]
      BY <1>2, <3>1
    <3> QED
      BY <3>1, <3>2 DEF Placed
  <2>2. Placed(words, 0) = [a \in Addr |-> Placed(words, 0)[a]]
    BY DEF Placed
  <2> QED
    BY <2>1, <2>2
<1> QED
  BY <1>4, <1>5

\* A program loaded into an empty memory is placed there.
LEMMA InstallPlaces ==
  ASSUME memory = ZeroMemory, NEW words \in Seq(Word), NEW from \in Addr
  PROVE  [a \in Addr |-> IF a \in from .. from + Len(words) - 1
                         THEN words[a - from + 1] ELSE memory[a]]
           = Placed(words, from)
BY DEF Placed, ZeroMemory

\* A file loads as the source it runs as.
LEMMA LoadsAsMeant ==
  ASSUME Given, NEW source \in Files, source.format = "Asm",
         RunsAs(file, option, source)
  PROVE  LET program == Loaded(file, option)
             origin == OrZero(source.org)
         IN  /\ program.entry = origin
             /\ IF program.full_image
                THEN Placed(program.words, 0) = Placed(source.words, origin)
                ELSE program.words = source.words /\ program.load_at = origin
<1> DEFINE origin == OrZero(source.org)
           program == Loaded(file, option)
<1>1. /\ source.words \in Seq(Word) /\ source.org \in Addr \cup {Unset}
      /\ origin + Len(source.words) <= MemoryWords
      /\ origin \in Addr /\ origin \in Nat /\ Len(source.words) \in Nat
      /\ MemoryWords \in Nat /\ MemoryWords > 0
  <2>1. /\ source.words \in Seq(Word) /\ source.org \in Addr \cup {Unset}
        /\ origin + Len(source.words) <= MemoryWords
    BY DriversAssumption
  <2>2. origin \in Addr
    BY <2>1, OrZeroType
  <2> HIDE DEF origin
  <2> QED
    BY <2>1, <2>2, WordFacts
<1>2. CASE file = source
  BY <1>2 DEF Loaded
<1>3. CASE file = WrittenImage(source) /\ OrZero(option) = origin
  <2> DEFINE image == Placed(source.words, origin)
             words == [i \in 1 .. MemoryWords |-> image[i - 1]]
  <2>1. image \in [Addr -> Word]
    BY <1>1, PlacedIsMemory
  <2>2. words \in Seq(Word) /\ Len(words) = MemoryWords /\ Placed(words, 0) = image
    <3> HIDE DEF image
    <3> QED
      BY <2>1, PlacedImage
  <2>3. file.format = "Bin" /\ file.bytes = EncodeWords(words)
    BY <1>3 DEF WrittenImage, Bin, EncodeImage
  <2> HIDE DEF image, words
  <2>4. DecodeWords(file.bytes) = words /\ Len(file.bytes) = 2 * MemoryWords
    BY <2>2, <2>3, DecodesEncoded, EncodedType
  <2>5. /\ program.words = words /\ program.full_image = TRUE
        /\ program.entry = OrZero(option)
    BY <2>3, <2>4 DEF Loaded, IsFullImage
  <2> QED
    BY <1>3, <2>2, <2>5 DEF image
<1>4. CASE file = WrittenBare(source) /\ OrZero(option) = origin
  <2>1. file.format = "Bin" /\ file.bytes = EncodeWords(source.words)
    BY <1>4 DEF WrittenBare, Bin
  <2>2. /\ DecodeWords(file.bytes) = source.words
        /\ Len(file.bytes) = 2 * Len(source.words)
    BY <1>1, <2>1, DecodesEncoded, EncodedType
  <2>3. /\ program.words = source.words /\ program.entry = OrZero(option)
        /\ program.full_image = (Len(file.bytes) = 2 * MemoryWords)
        /\ program.load_at = IF Len(file.bytes) = 2 * MemoryWords THEN 0
                             ELSE OrZero(option)
    BY <2>1, <2>2 DEF Loaded, IsFullImage
  <2>4. CASE Len(file.bytes) = 2 * MemoryWords
    <3>1. origin = 0
      BY <1>1, <2>2, <2>4
    <3> HIDE DEF program, origin
    <3> QED
      BY <1>4, <2>3, <2>4, <3>1 DEF program, origin
  <2>5. CASE Len(file.bytes) # 2 * MemoryWords
    BY <1>4, <2>3, <2>5
  <2> QED
    BY <2>4, <2>5
<1> QED
  BY <1>2, <1>3, <1>4 DEF RunsAs

\* A program is the same machine whichever way it is stored: as source, as
\* the full image or as the bare words that were written of it.
THEOREM StartsTheSame == DriverSpec => []StartsAsMeant
<1>1. DriverInit => StartsAsMeant
  BY DEF DriverInit, StartsAsMeant
<1>2. IInv /\ DInv /\ StartsAsMeant /\ [DriverNext]_rvars => StartsAsMeant'
  <2> SUFFICES ASSUME IInv, DInv, StartsAsMeant, [DriverNext]_rvars
               PROVE  StartsAsMeant'
    OBVIOUS
  <2>1. CASE at' # "start"
    BY <2>1 DEF StartsAsMeant
  <2>2. CASE UNCHANGED << memory, registers, file, option, at >>
    BY <2>2 DEF StartsAsMeant
  <2>3. CASE Install
    <3> DEFINE program == Loaded(file, option)
    <3>1. /\ memory' = IF program.full_image THEN Placed(program.words, 0)
                       ELSE [a \in Addr |->
                               IF a \in program.load_at ..
                                          program.load_at + Len(program.words) - 1
                               THEN program.words[a - program.load_at + 1]
                               ELSE memory[a]]
          /\ registers' = [registers EXCEPT !["Pc"] = program.entry]
          /\ file' = file /\ option' = option
      BY <2>3 DEF Install, RewindTo, inputs_
    <3>2. memory = ZeroMemory /\ Given /\ registers \in [Register -> Word]
      BY <2>3 DEF Install, DInv, Driving, IInv, TypeOK, RegisterFile
    <3>3. /\ file \in Files /\ option \in Addr \cup {Unset}
      BY <3>2, GivenType DEF Given
    <3> HIDE DEF program
    <3>4. program.words \in Seq(Word) /\ program.load_at \in Addr
      BY <3>3, LoadedType DEF program
    <3>5. memory' = IF program.full_image THEN Placed(program.words, 0)
                    ELSE Placed(program.words, program.load_at)
      BY <3>1, <3>2, <3>4, InstallPlaces
    <3>6. registers'["Pc"] = program.entry
      BY <3>1, <3>2 DEF Register
    <3>7. ASSUME NEW source \in Files, source.format = "Asm",
                 RunsAs(file, option, source)
          PROVE  /\ memory' = Placed(source.words, OrZero(source.org))
                 /\ registers'["Pc"] = OrZero(source.org)
      BY <3>2, <3>5, <3>6, <3>7, LoadsAsMeant DEF program
    <3> QED
      BY <3>1, <3>7 DEF StartsAsMeant
  <2>4. \/ UNCHANGED << memory, registers, file, option, at >> \/ Install
        \/ at' # "start"
    BY DEF DriverNext, Main, Refuse, Start, SliceInterrupted,
           SliceRefused, SliceSpent, RunSlice, Finish, ReportSuspended,
           PaceInterrupted, BeginBatch, EndBatch, PaceLimit, PaceStep,
           PaceStepped, DriverTurn, TypeLine, Waiting, Press, Ends, Goes,
           rvars, vars, core, inputs_
  <2> QED
    BY <2>1, <2>2, <2>3, <2>4
<1> QED
  BY <1>1, <1>2, DriverInvariance, PTL DEF DriverSpec
===============================================================================
