------------------------------ MODULE DeviceProofs ------------------------------
(***************************************************************************)
(* Proofs about the machine and its devices: that rewinding hands each     *)
(* exchange back to the device in the reverse of the order it was made in, *)
(* and what follows for the devices of Devices.                            *)
(***************************************************************************)
EXTENDS Devices, MarieVMProofs

-----------------------------------------------------------------------------
(* The journal against what was exchanged.                                 *)

\* pos[i] is how much of `log` had been exchanged after entry i of `es`: the
\* entries of kind k are, in their order, the end of the log.
Tracing(es, log, k, pos) ==
  /\ pos \in [0 .. Len(es) -> Nat]
  /\ pos[Len(es)] = Len(log)
  /\ \A i, j \in 0 .. Len(es) : i <= j => pos[i] <= pos[j]
  /\ \A i \in 1 .. Len(es) :
       IF es[i].effect.kind = k
       THEN pos[i] = pos[i - 1] + 1 /\ log[pos[i]] = es[i].effect.value
       ELSE pos[i] = pos[i - 1]

Traced(es, log, k) == \E pos : Tracing(es, log, k, pos)

\* A journal without entries traces any log.
LEMMA TracedEmpty ==
  ASSUME NEW S, NEW log \in Seq(S), NEW k
  PROVE  Traced(<< >>, log, k)
<1> DEFINE pos == [i \in 0 .. 0 |-> Len(log)]
<1>1. Tracing(<< >>, log, k, pos)
  BY DEF Tracing
<1> QED
  BY <1>1 DEF Traced

\* Whatever is left when entries are evicted from the front still traces it.
LEMMA TracedShift ==
  ASSUME NEW es \in Seq(Entry), NEW fs \in Seq(Entry), NEW S,
         NEW log \in Seq(S), NEW k, Traced(es, log, k),
         NEW gone \in Nat, Len(es) = Len(fs) + gone,
         \A i \in 1 .. Len(fs) : fs[i] = es[i + gone]
  PROVE  Traced(fs, log, k)
<1>1. PICK pos : Tracing(es, log, k, pos)
  BY DEF Traced
<1> DEFINE qos == [i \in 0 .. Len(fs) |-> pos[i + gone]]
<1>2. Len(fs) \in Nat /\ Len(es) \in Nat
  OBVIOUS
<1>3. \A i \in 0 .. Len(fs) : i + gone \in 0 .. Len(es)
  BY <1>2
<1>4. qos \in [0 .. Len(fs) -> Nat]
  BY <1>1, <1>3 DEF Tracing
<1>5. qos[Len(fs)] = Len(log)
  BY <1>1, <1>2 DEF Tracing
<1>6. \A i, j \in 0 .. Len(fs) : i <= j => qos[i] <= qos[j]
  BY <1>1, <1>2, <1>3 DEF Tracing
<1>7. ASSUME NEW i \in 1 .. Len(fs)
      PROVE  IF fs[i].effect.kind = k
             THEN qos[i] = qos[i - 1] + 1 /\ log[qos[i]] = fs[i].effect.value
             ELSE qos[i] = qos[i - 1]
  <2>1. /\ i + gone \in 1 .. Len(es) /\ fs[i] = es[i + gone]
        /\ qos[i] = pos[i + gone] /\ qos[i - 1] = pos[(i + gone) - 1]
    BY <1>2
  <2> QED
    BY <1>1, <2>1 DEF Tracing
<1>8. Tracing(fs, log, k, qos)
  BY <1>4, <1>5, <1>6, <1>7 DEF Tracing
<1> QED
  BY <1>8 DEF Traced

\* An operation of another kind leaves the log alone.
LEMMA TracedOther ==
  ASSUME NEW es \in Seq(Entry), NEW e \in Entry, NEW S,
         NEW log \in Seq(S), NEW k, Traced(es, log, k), e.effect.kind # k
  PROVE  Traced(Append(es, e), log, k)
<1>1. PICK pos : Tracing(es, log, k, pos)
  BY DEF Traced
<1> DEFINE n == Len(es)
           fs == Append(es, e)
           qos == [i \in 0 .. n + 1 |-> IF i = n + 1 THEN Len(log) ELSE pos[i]]
<1>2. /\ n \in Nat /\ Len(fs) = n + 1 /\ fs[n + 1] = e
      /\ \A i \in 1 .. n : fs[i] = es[i]
      /\ Len(log) \in Nat
  OBVIOUS
<1>3. /\ pos \in [0 .. n -> Nat] /\ pos[n] = Len(log)
      /\ \A i, j \in 0 .. n : i <= j => pos[i] <= pos[j]
  BY <1>1 DEF Tracing
<1>4. /\ qos[n + 1] = Len(log)
      /\ \A i \in 0 .. n : qos[i] = pos[i]
  BY <1>2
<1>5. qos \in [0 .. n + 1 -> Nat]
  BY <1>2, <1>3
<1> HIDE DEF n, fs, qos
<1>6. \A i, j \in 0 .. n + 1 : i <= j => qos[i] <= qos[j]
  BY <1>2, <1>3, <1>4
<1>7. ASSUME NEW i \in 1 .. n + 1
      PROVE  IF fs[i].effect.kind = k
             THEN qos[i] = qos[i - 1] + 1 /\ log[qos[i]] = fs[i].effect.value
             ELSE qos[i] = qos[i - 1]
  <2>1. CASE i = n + 1
    BY <1>2, <1>3, <1>4, <2>1
  <2>2. CASE i \in 1 .. n
    <3>1. fs[i] = es[i] /\ qos[i] = pos[i] /\ qos[i - 1] = pos[i - 1]
      BY <1>2, <1>4, <2>2
    <3> QED
      BY <1>1, <2>2, <3>1 DEF Tracing, n
  <2> QED
    BY <1>2, <2>1, <2>2
<1>8. Tracing(fs, log, k, qos)
  BY <1>2, <1>4, <1>5, <1>6, <1>7 DEF Tracing
<1> QED
  BY <1>8 DEF Traced, fs

\* An exchange is recorded and logged together.
LEMMA TracedExchange ==
  ASSUME NEW es \in Seq(Entry), NEW e \in Entry, NEW S,
         NEW log \in Seq(S), NEW k, Traced(es, log, k), e.effect.kind = k,
         e.effect.value \in S
  PROVE  Traced(Append(es, e), Append(log, e.effect.value), k)
<1>1. PICK pos : Tracing(es, log, k, pos)
  BY DEF Traced
<1> DEFINE n == Len(es)
           fs == Append(es, e)
           more == Append(log, e.effect.value)
           qos == [i \in 0 .. n + 1 |-> IF i = n + 1 THEN Len(log) + 1 ELSE pos[i]]
<1>2. /\ n \in Nat /\ Len(fs) = n + 1 /\ fs[n + 1] = e
      /\ \A i \in 1 .. n : fs[i] = es[i]
      /\ Len(log) \in Nat /\ Len(more) = Len(log) + 1
      /\ more[Len(log) + 1] = e.effect.value
      /\ \A i \in 1 .. Len(log) : more[i] = log[i]
  OBVIOUS
<1>3. /\ pos \in [0 .. n -> Nat] /\ pos[n] = Len(log)
      /\ \A i, j \in 0 .. n : i <= j => pos[i] <= pos[j]
  BY <1>1 DEF Tracing
<1>4. /\ qos[n + 1] = Len(log) + 1
      /\ \A i \in 0 .. n : qos[i] = pos[i]
  BY <1>2
<1>5. qos \in [0 .. n + 1 -> Nat]
  BY <1>2, <1>3
<1> HIDE DEF n, fs, more, qos
<1>6. \A i, j \in 0 .. n + 1 : i <= j => qos[i] <= qos[j]
  BY <1>2, <1>3, <1>4
<1>7. ASSUME NEW i \in 1 .. n + 1
      PROVE  IF fs[i].effect.kind = k
             THEN qos[i] = qos[i - 1] + 1 /\ more[qos[i]] = fs[i].effect.value
             ELSE qos[i] = qos[i - 1]
  <2>1. CASE i = n + 1
    BY <1>2, <1>3, <1>4, <2>1
  <2>2. CASE i \in 1 .. n
    <3>1. fs[i] = es[i] /\ qos[i] = pos[i] /\ qos[i - 1] = pos[i - 1]
      BY <1>2, <1>4, <2>2
    <3>2. pos[i] \in Nat /\ pos[i - 1] \in Nat /\ pos[i] <= Len(log)
      BY <1>2, <1>3, <2>2
    <3>3. fs[i].effect.kind = k =>
            pos[i] = pos[i - 1] + 1 /\ log[pos[i]] = fs[i].effect.value
      BY <1>1, <2>2, <3>1 DEF Tracing, n
    <3>4. fs[i].effect.kind # k => pos[i] = pos[i - 1]
      BY <1>1, <2>2, <3>1 DEF Tracing, n
    <3>5. CASE fs[i].effect.kind = k
      <4>1. pos[i] \in 1 .. Len(log)
        BY <1>2, <3>2, <3>3, <3>5
      <4> QED
        BY <1>2, <3>1, <3>3, <3>5, <4>1
    <3> QED
      BY <3>1, <3>4, <3>5
  <2> QED
    BY <1>2, <2>1, <2>2
<1>8. Tracing(fs, more, k, qos)
  BY <1>2, <1>4, <1>5, <1>6, <1>7 DEF Tracing
<1> QED
  BY <1>8 DEF Traced, fs, more

\* The last entry, when it is an exchange, is the last of the log; and what
\* is left without either still traces.
LEMMA TracedLast ==
  ASSUME NEW es \in Seq(Entry), es # << >>, NEW S,
         NEW log \in Seq(S), NEW k, Traced(es, log, k)
  PROVE  /\ Last(es).effect.kind = k =>
              /\ log # << >> /\ Last(log) = Last(es).effect.value
              /\ Traced(Front(es), Front(log), k)
         /\ Last(es).effect.kind # k => Traced(Front(es), log, k)
<1>1. PICK pos : Tracing(es, log, k, pos)
  BY DEF Traced
<1> DEFINE n == Len(es)
           fs == Front(es)
           qos == [i \in 0 .. n - 1 |-> pos[i]]
<1>2. /\ n \in Nat /\ n >= 1 /\ Last(es) = es[n]
      /\ fs \in Seq(Entry) /\ Len(fs) = n - 1
      /\ \A i \in 1 .. n - 1 : fs[i] = es[i]
      /\ Len(log) \in Nat
  BY FrontFacts DEF Last
<1>3. /\ pos \in [0 .. n -> Nat] /\ pos[n] = Len(log)
      /\ \A i, j \in 0 .. n : i <= j => pos[i] <= pos[j]
  BY <1>1 DEF Tracing
<1>4. /\ qos \in [0 .. n - 1 -> Nat]
      /\ \A i \in 0 .. n - 1 : qos[i] = pos[i]
  BY <1>2, <1>3
<1>5. \A i \in 1 .. n - 1 :
        IF fs[i].effect.kind = k
        THEN pos[i] = pos[i - 1] + 1 /\ log[pos[i]] = fs[i].effect.value
        ELSE pos[i] = pos[i - 1]
  BY <1>1, <1>2 DEF Tracing
<1>6. IF Last(es).effect.kind = k
      THEN pos[n] = pos[n - 1] + 1 /\ log[pos[n]] = Last(es).effect.value
      ELSE pos[n] = pos[n - 1]
  BY <1>1, <1>2 DEF Tracing
<1> HIDE DEF n, fs, qos
<1>7. \A i, j \in 0 .. n - 1 : i <= j => qos[i] <= qos[j]
  BY <1>2, <1>3, <1>4
<1>8. CASE Last(es).effect.kind = k
  <2>1. Len(log) >= 1 /\ log # << >> /\ Last(log) = Last(es).effect.value
    BY <1>2, <1>3, <1>6, <1>8 DEF Last
  <2>2. /\ Front(log) \in Seq(S) /\ Len(Front(log)) = Len(log) - 1
        /\ \A i \in 1 .. Len(log) - 1 : Front(log)[i] = log[i]
    BY <2>1, FrontFacts
  <2>3. qos[n - 1] = Len(Front(log))
    BY <1>2, <1>3, <1>4, <1>6, <1>8, <2>2
  <2>4. ASSUME NEW i \in 1 .. n - 1
        PROVE  IF fs[i].effect.kind = k
               THEN /\ qos[i] = qos[i - 1] + 1
                    /\ Front(log)[qos[i]] = fs[i].effect.value
               ELSE qos[i] = qos[i - 1]
    <3>1. qos[i] = pos[i] /\ qos[i - 1] = pos[i - 1]
      BY <1>2, <1>4
    <3>2. pos[i] \in Nat /\ pos[i - 1] \in Nat /\ pos[i] <= Len(log) - 1
      BY <1>2, <1>4, <1>7, <2>2, <2>3, <3>1
    <3>3. fs[i].effect.kind = k => pos[i] \in 1 .. Len(log) - 1
      BY <1>2, <1>5, <3>2
    <3> QED
      BY <1>5, <2>2, <3>1, <3>3
  <2>5. Tracing(fs, Front(log), k, qos)
    BY <1>2, <1>4, <1>7, <2>3, <2>4 DEF Tracing
  <2> QED
    BY <1>8, <2>1, <2>5 DEF Traced, fs
<1>9. CASE Last(es).effect.kind # k
  <2>1. qos[n - 1] = Len(log)
    BY <1>2, <1>3, <1>4, <1>6, <1>9
  <2>2. \A i \in 1 .. n - 1 : qos[i] = pos[i] /\ qos[i - 1] = pos[i - 1]
    BY <1>2, <1>4
  <2>3. Tracing(fs, log, k, qos)
    BY <1>2, <1>4, <1>5, <1>7, <2>1, <2>2 DEF Tracing
  <2> QED
    BY <1>9, <2>3 DEF Traced, fs
<1> QED
  BY <1>8, <1>9

-----------------------------------------------------------------------------
(* The machine keeps both logs traced.                                     *)

\* What was read and what was written are the exchanges in the journal, in
\* their order, after whatever the journal no longer covers.
Traces ==
  /\ Traced(entries, consumed, "InputRead")
  /\ Traced(entries, outputs, "OutputWritten")

\* Recording is an append followed by an eviction.
LEMMA TracedRecorded ==
  ASSUME IInv, NEW e \in Entry, NEW S, NEW log \in Seq(S), NEW k,
         Traced(Append(entries, e), log, k)
  PROVE  Traced(Recorded(e), log, k)
<1> DEFINE es == Append(entries, e)
           fs == Recorded(e)
           gone == Len(es) - Len(fs)
<1>1. entries \in Seq(Entry) /\ limit \in Nat /\ Len(entries) <= limit
  BY DEF IInv, TypeOK
<1>2. /\ fs \in Seq(Entry) /\ es \in Seq(Entry)
      /\ Len(fs) \in Nat /\ Len(es) = Len(entries) + 1 /\ Len(entries) \in Nat
      /\ Len(fs) <= Len(entries) + 1
      /\ \A i \in 0 .. Len(fs) - 1 :
           fs[Len(fs) - i] = IF i = 0 THEN e ELSE entries[Len(entries) - i + 1]
      /\ es[Len(entries) + 1] = e
      /\ \A i \in 1 .. Len(entries) : es[i] = entries[i]
  BY <1>1, RecordedFacts
<1>3. gone \in Nat /\ Len(es) = Len(fs) + gone
  BY <1>2
<1> HIDE DEF es, fs
<1>4. ASSUME NEW i \in 1 .. Len(fs)
      PROVE  fs[i] = es[i + gone]
  <2> DEFINE j == Len(fs) - i
  <2>1. j \in 0 .. Len(fs) - 1 /\ i = Len(fs) - j
    BY <1>2
  <2>2. i + gone = Len(entries) - j + 1
    BY <1>2, <2>1
  <2>3. fs[i] = IF j = 0 THEN e ELSE entries[Len(entries) - j + 1]
    BY <1>2, <2>1
  <2> HIDE DEF j
  <2>4. CASE j = 0
    BY <1>2, <2>2, <2>3, <2>4
  <2>5. CASE j # 0
    <3>1. Len(entries) - j + 1 \in 1 .. Len(entries)
      BY <1>2, <2>1, <2>5
    <3> QED
      BY <1>2, <2>2, <2>3, <2>5, <3>1
  <2> QED
    BY <2>4, <2>5
<1>5. Traced(es, log, k)
  BY DEF es
<1>6. Traced(fs, log, k)
  <2> HIDE DEF gone
  <2> QED
    BY <1>2, <1>3, <1>4, <1>5, TracedShift
<1> QED
  BY <1>6 DEF fs

\* What Executed records is a well-formed entry.
LEMMA ExecutedEntry ==
  ASSUME IInv, NEW effect \in Effect, NEW decoded, NEW comparison,
         Executed(effect, decoded, comparison)
  PROVE  \E e \in Entry : e.effect = effect /\ entries' = Recorded(e)
<1> DEFINE e == [control |-> control, micro_op |-> CurrentOp, effect |-> effect]
<1>1. CurrentOp \in MicroOp
  BY CurrentOpFacts DEF IInv, TypeOK
<1>2. e \in Entry /\ e.effect = effect
  BY <1>1 DEF Entry, IInv, TypeOK
<1>3. entries' = Recorded(e)
  BY DEF Executed
<1> QED
  BY <1>2, <1>3

\* An operation that exchanges nothing keeps both logs traced.
LEMMA SilentTraces ==
  ASSUME IInv, Traces, NEW effect \in Effect, NEW decoded, NEW comparison,
         Executed(effect, decoded, comparison),
         effect.kind \notin {"InputRead", "OutputWritten"},
         UNCHANGED << consumed, outputs >>
  PROVE  Traces'
<1>1. PICK e \in Entry : e.effect = effect /\ entries' = Recorded(e)
  BY ExecutedEntry
<1>2. entries \in Seq(Entry) /\ consumed \in Seq(Word) /\ outputs \in Seq(Word)
  BY DEF IInv, TypeOK
<1>3. /\ Traced(Append(entries, e), consumed, "InputRead")
      /\ Traced(Append(entries, e), outputs, "OutputWritten")
  BY <1>1, <1>2, TracedOther DEF Traces
<1> QED
  BY <1>1, <1>2, <1>3, TracedRecorded DEF Traces

\* A step of micro_step keeps both logs traced.
LEMMA MicroStepTraces ==
  ASSUME IInv, Traces, MicroStep
  PROVE  Traces'
<1>1. /\ registers \in [Register -> Word] /\ registers["Mar"] \in Addr
      /\ memory \in [Addr -> Word] /\ entries \in Seq(Entry)
      /\ inputs \in Seq(Word) /\ outputs \in Seq(Word) /\ consumed \in Seq(Word)
  BY DEF IInv, TypeOK, RegisterFile
<1>2. CASE ExecuteRegisterWrite
  <2>1. Target \in Register
    BY <1>2, RegisterWriteType DEF IInv, ExecuteRegisterWrite
  <2>2. RegisterEffect(Target) \in Effect
    BY <1>1, <2>1, EffectType DEF RegisterEffect
  <2>3. RegisterEffect(Target).kind = "Register"
    BY DEF RegisterEffect
  <2> QED
    BY <1>2, <2>2, <2>3, SilentTraces DEF ExecuteRegisterWrite, device
<1>3. CASE ExecuteWriteMemory
  <2> DEFINE effect == [kind |-> "Memory", address |-> registers["Mar"],
                        previous |-> memory[registers["Mar"]]]
  <2>1. effect \in Effect /\ effect.kind = "Memory"
    BY <1>1, EffectType
  <2>2. /\ Executed(effect, control.decoded, control.comparison)
        /\ UNCHANGED << consumed, outputs >>
    BY <1>3 DEF ExecuteWriteMemory
  <2> HIDE DEF effect
  <2> QED
    BY <2>1, <2>2, SilentTraces
<1>4. CASE ExecuteDecode \/ ExecuteCompare \/ ExecuteNoSkip
  <2>1. NoEffect \in Effect /\ NoEffect.kind = "None"
    BY EffectType DEF NoEffect
  <2>2. /\ \E decoded, comparison : Executed(NoEffect, decoded, comparison)
        /\ UNCHANGED << consumed, outputs >>
    BY <1>4 DEF ExecuteDecode, ExecuteCompare, ExecuteNoSkip, device
  <2> QED
    BY <2>1, <2>2, SilentTraces
<1>5. CASE ExecuteReadInput
  <2> DEFINE effect == [kind |-> "InputRead", previous |-> registers["In"],
                        value |-> Head(inputs)]
  <2>1. Head(inputs) \in Word
    BY <1>1, <1>5 DEF ExecuteReadInput
  <2>2. effect \in Effect /\ effect.kind = "InputRead"
          /\ effect.value = Head(inputs)
    BY <1>1, <2>1, EffectType DEF Register
  <2>3. /\ Executed(effect, control.decoded, control.comparison)
        /\ consumed' = Append(consumed, Head(inputs)) /\ outputs' = outputs
    BY <1>5 DEF ExecuteReadInput
  <2> HIDE DEF effect
  <2>4. PICK e \in Entry : e.effect = effect /\ entries' = Recorded(e)
    BY <2>2, <2>3, ExecutedEntry
  <2>5. /\ Traced(Append(entries, e), consumed', "InputRead")
        /\ Traced(Append(entries, e), outputs, "OutputWritten")
    BY <1>1, <2>1, <2>2, <2>3, <2>4, TracedExchange, TracedOther DEF Traces
  <2>6. consumed' \in Seq(Word)
    BY <1>1, <2>1, <2>3
  <2> QED
    BY <1>1, <2>3, <2>4, <2>5, <2>6, TracedRecorded DEF Traces
<1>6. CASE ExecuteWriteOutput
  <2> DEFINE effect == [kind |-> "OutputWritten", value |-> registers["Out"]]
  <2>1. registers["Out"] \in Word
    BY <1>1 DEF Register
  <2>2. effect \in Effect /\ effect.kind = "OutputWritten"
          /\ effect.value = registers["Out"]
    BY <2>1, EffectType
  <2>3. /\ Executed(effect, control.decoded, control.comparison)
        /\ outputs' = Append(outputs, registers["Out"]) /\ consumed' = consumed
    BY <1>6 DEF ExecuteWriteOutput
  <2> HIDE DEF effect
  <2>4. PICK e \in Entry : e.effect = effect /\ entries' = Recorded(e)
    BY <2>2, <2>3, ExecutedEntry
  <2>5. /\ Traced(Append(entries, e), outputs', "OutputWritten")
        /\ Traced(Append(entries, e), consumed, "InputRead")
    BY <1>1, <2>1, <2>2, <2>3, <2>4, TracedExchange, TracedOther DEF Traces
  <2>6. outputs' \in Seq(Word)
    BY <1>1, <2>1, <2>3
  <2> QED
    BY <1>1, <2>3, <2>4, <2>5, <2>6, TracedRecorded DEF Traces
<1>7. CASE \/ FaultInvalidOpcode \/ StallOnInput \/ FaultOnInput
           \/ FaultOnOutput \/ ExecuteHalt
  BY <1>7
     DEF FaultInvalidOpcode, StallOnInput, FaultOnInput, FaultOnOutput,
         ExecuteHalt, Stopped, journal, device, Traces
<1> QED
  BY <1>2, <1>3, <1>4, <1>5, <1>6, <1>7 DEF MicroStep

\* A step of micro_step_back keeps both logs traced.
LEMMA MicroStepBackTraces ==
  ASSUME IInv, Traces, MicroStepBack
  PROVE  Traces'
<1>1. entries \in Seq(Entry) /\ consumed \in Seq(Word) /\ outputs \in Seq(Word)
  BY DEF IInv, TypeOK
<1>2. CASE RefuseNoHistory \/ RefuseInput \/ RefuseOutput
  BY <1>2
     DEF RefuseNoHistory, RefuseInput, RefuseOutput, Refused, journal, device,
         Traces
<1>3. ASSUME NEW k, Undoes(k), Undone
      PROVE  /\ entries # << >> /\ Last(entries).effect.kind = k
             /\ entries' = Front(entries)
  BY <1>3 DEF Undoes, Undone
<1>4. CASE UndoNothing \/ UndoRegister \/ UndoMemory
  <2>1. /\ entries # << >> /\ entries' = Front(entries)
        /\ Last(entries).effect.kind \in {"None", "Register", "Memory"}
        /\ UNCHANGED << consumed, outputs >>
    BY <1>3, <1>4 DEF UndoNothing, UndoRegister, UndoMemory, device
  <2> QED
    BY <1>1, <2>1, TracedLast DEF Traces
<1>5. CASE UndoInput
  <2>1. /\ entries # << >> /\ entries' = Front(entries)
        /\ Last(entries).effect.kind = "InputRead"
        /\ consumed' = Front(consumed) /\ outputs' = outputs
    BY <1>3, <1>5 DEF UndoInput
  <2> QED
    BY <1>1, <2>1, TracedLast DEF Traces
<1>6. CASE UndoOutput
  <2>1. /\ entries # << >> /\ entries' = Front(entries)
        /\ Last(entries).effect.kind = "OutputWritten"
        /\ outputs' = Front(outputs) /\ consumed' = consumed
    BY <1>3, <1>6 DEF UndoOutput
  <2> QED
    BY <1>1, <2>1, TracedLast DEF Traces
<1> QED
  BY <1>2, <1>4, <1>5, <1>6 DEF MicroStepBack

\* Neither a call that begins nor a host exchanges anything; a host may evict.
LEMMA HostTraces ==
  ASSUME IInv, Traces, Calls \/ SuspendRun \/ Host
  PROVE  Traces'
<1>1. entries \in Seq(Entry) /\ consumed \in Seq(Word) /\ outputs \in Seq(Word)
  BY DEF IInv, TypeOK
<1>2. UNCHANGED << consumed, outputs >>
  BY DEF Calls, CallRun, CallRunBounded, CallStep, CallMicroStep, CallStepBack,
         CallMicroStepBack, Begin, SuspendRun, Host, Boot, Debug, Pause, Resume,
         Transition, FlashProgram, FlashMemory, LoadProgram, Reset,
         ResetWithProgram, RewindTo, SetHistoryLimit, ClearHistory,
         SetBreakpoints, PokeRegister, PokeMemory, FeedInput, device
<1>3. \/ entries' = entries \/ entries' = << >> \/ SetHistoryLimit
  BY DEF Calls, CallRun, CallRunBounded, CallStep, CallMicroStep, CallStepBack,
         CallMicroStepBack, Begin, SuspendRun, Host, Boot, Debug, Pause, Resume,
         Transition, FlashProgram, FlashMemory, LoadProgram, Reset,
         ResetWithProgram, RewindTo, ClearHistory, SetBreakpoints,
         PokeRegister, PokeMemory, FeedInput, journal
<1>4. CASE entries' = entries
  BY <1>2, <1>4 DEF Traces
<1>5. CASE entries' = << >>
  BY <1>1, <1>2, <1>5, TracedEmpty DEF Traces
<1>6. CASE SetHistoryLimit
  <2>1. PICK n \in Nat : entries' = Latest(entries, n)
    BY <1>6, ConstantsAssumption DEF SetHistoryLimit
  <2> DEFINE fs == Latest(entries, n)
             gone == Len(entries) - Len(fs)
  <2>2. /\ fs \in Seq(Entry) /\ Len(fs) \in Nat /\ Len(entries) \in Nat
        /\ Len(fs) <= Len(entries)
        /\ \A k \in 0 .. Len(fs) - 1 : fs[Len(fs) - k] = entries[Len(entries) - k]
    <3>1. /\ Latest(entries, n) \in Seq(Entry)
          /\ Len(Latest(entries, n)) = IF Len(entries) < n THEN Len(entries) ELSE n
          /\ \A k \in 0 .. Len(Latest(entries, n)) - 1 :
               Latest(entries, n)[Len(Latest(entries, n)) - k] = entries[Len(entries) - k]
      BY <1>1, LatestFacts
    <3>2. Len(entries) \in Nat
      BY <1>1
    <3> HIDE DEF fs
    <3>3. fs = Latest(entries, n)
      BY DEF fs
    <3> QED
      BY <3>1, <3>2, <3>3
  <2>3. gone \in Nat /\ Len(entries) = Len(fs) + gone
    BY <2>2
  <2> HIDE DEF fs
  <2>4. ASSUME NEW i \in 1 .. Len(fs)
        PROVE  fs[i] = entries[i + gone]
    <3>1. /\ Len(fs) - i \in 0 .. Len(fs) - 1
          /\ Len(fs) - (Len(fs) - i) = i
          /\ Len(entries) - (Len(fs) - i) = i + gone
      BY <2>2
    <3>2. fs[Len(fs) - (Len(fs) - i)] = entries[Len(entries) - (Len(fs) - i)]
      BY <2>2, <3>1
    <3> QED
      BY <3>1, <3>2
  <2> HIDE DEF gone
  <2>5. Traced(fs, consumed, "InputRead") /\ Traced(fs, outputs, "OutputWritten")
    BY <1>1, <2>2, <2>3, <2>4, TracedShift DEF Traces
  <2> QED
    BY <1>2, <2>1, <2>5 DEF Traces, fs
<1> QED
  BY <1>3, <1>4, <1>5, <1>6

\* Tracing is more than the devices ask for.
LEMMA TracesGuarantee ==
  ASSUME IInv, Traces
  PROVE  DeviceGuarantee
<1>1. entries \in Seq(Entry) /\ consumed \in Seq(Word) /\ outputs \in Seq(Word)
  BY DEF IInv, TypeOK
<1> QED
  BY <1>1, TracedLast DEF Traces, DeviceGuarantee

\* A new machine has exchanged nothing.
LEMMA InitTraces ==
  ASSUME Init
  PROVE  Traces
<1>1. entries = << >> /\ consumed = << >> /\ outputs = << >>
  BY DEF Init, InitWith
<1>2. << >> \in Seq(Word)
  OBVIOUS
<1> QED
  BY <1>1, <1>2, TracedEmpty DEF Traces

\* Over any device, whatever its host does, rewinding only ever offers the
\* device its own latest exchange: what io.rs guarantees to who implements
\* unread_input and unwrite_output.
THEOREM DevicesAreGuaranteed == Spec => []DeviceGuarantee
<1>1. Traces /\ IInv /\ [Next]_vars => Traces'
  <2> SUFFICES ASSUME Traces, IInv, [Next]_vars
               PROVE  Traces'
    OBVIOUS
  <2>1. CASE UNCHANGED vars
    BY <2>1 DEF vars, journal, device, Traces
  <2> QED
    BY <2>1, MicroStepTraces, MicroStepBackTraces, HostTraces DEF Next, Turn
<1>2. IInv /\ Traces => DeviceGuarantee
  BY TracesGuarantee
<1> QED
  BY <1>1, <1>2, InitTraces, Invariance, PTL DEF Spec

-----------------------------------------------------------------------------
(* The devices of Devices.                                                 *)

\* A line typed is a sequence of words.
LEMMA DecodedWords ==
  ASSUME NEW words \in Decoded
  PROVE  words \in Seq(Word)
<1>1. PICK n \in {1, 2} : words \in [1 .. n -> InputWords]
  BY DEF Decoded, TupleOf
<1>2. words \in [1 .. n -> Word]
  BY <1>1, ConstantsAssumption
<1> QED
  BY <1>2

\* Every step over a device keeps the machine's invariant and the traces.
LEMMA DeviceKeeps ==
  ASSUME IInv, Traces, [DeviceNext]_dvars
  PROVE  IInv' /\ Traces'
<1>1. CASE DeviceTurn \/ DeviceHost
  <2>1. Next
    BY <1>1 DEF DeviceTurn, DeviceHost, Next
  <2>2. IInv'
    BY <2>1, NextType
  <2> QED
    BY <2>1, <2>2, MicroStepTraces, MicroStepBackTraces, HostTraces DEF Next, Turn
<1>2. CASE TypeLine
  <2>1. inputs' \in Seq(Word)
    BY <1>2, DecodedWords DEF TypeLine
  <2>2. UNCHANGED << state, core, journal, breakpoints, outputs, canvas,
                     consumed, call, outcome, past >>
    BY <1>2 DEF TypeLine
  <2> QED
    BY <2>1, <2>2 DEF IInv, TypeOK, InCycle, Traces, core, journal
<1>3. CASE UNCHANGED dvars
  <2>1. UNCHANGED vars
    BY <1>3 DEF dvars
  <2> QED
    BY <2>1, NextType DEF vars, journal, device, Traces
<1> QED
  BY <1>1, <1>2, <1>3 DEF DeviceNext

\* The machine's invariant and the traces hold over each device.
LEMMA DeviceTraces == DeviceSpec => [](IInv /\ Traces)
<1>1. DeviceInit => IInv /\ Traces
  BY InitType, InitTraces DEF DeviceInit
<1>2. IInv /\ Traces /\ [DeviceNext]_dvars => (IInv /\ Traces)'
  BY DeviceKeeps
<1> QED
  BY <1>1, <1>2, PTL DEF DeviceSpec

\* Reading moves a word from what is waiting to what was read, and undoing a
\* read moves it back to where it was.
LEMMA ReadConserves ==
  ASSUME NEW S, NEW read \in Seq(S), NEW waiting \in Seq(S)
  PROVE  /\ waiting # << >> =>
              Append(read, Head(waiting)) \o Tail(waiting) = read \o waiting
         /\ read # << >> =>
              Front(read) \o (<< Last(read) >> \o waiting) = read \o waiting
<1>1. ASSUME waiting # << >>
      PROVE  Append(read, Head(waiting)) \o Tail(waiting) = read \o waiting
  <2> DEFINE s == Append(read, Head(waiting)) \o Tail(waiting)
             t == read \o waiting
  <2>1. /\ Head(waiting) \in S /\ Tail(waiting) \in Seq(S)
        /\ Len(waiting) \in Nat /\ Len(waiting) >= 1 /\ Len(read) \in Nat
        /\ Len(Tail(waiting)) = Len(waiting) - 1
        /\ Head(waiting) = waiting[1]
        /\ \A i \in 1 .. Len(waiting) - 1 : Tail(waiting)[i] = waiting[i + 1]
    BY <1>1, HeadTailProperties, EmptySeq
  <2>2. /\ Append(read, Head(waiting)) \in Seq(S)
        /\ Len(Append(read, Head(waiting))) = Len(read) + 1
        /\ \A i \in 1 .. Len(read) : Append(read, Head(waiting))[i] = read[i]
        /\ Append(read, Head(waiting))[Len(read) + 1] = waiting[1]
    BY <2>1, AppendProperties
  <2>3. /\ s \in Seq(S) /\ t \in Seq(S)
        /\ Len(s) = Len(read) + Len(waiting) /\ Len(t) = Len(read) + Len(waiting)
    BY <2>1, <2>2, ConcatProperties
  <2>4. \A i \in 1 .. Len(read) + Len(waiting) :
          s[i] = IF i <= Len(read) + 1 THEN Append(read, Head(waiting))[i]
                 ELSE Tail(waiting)[i - (Len(read) + 1)]
    BY <2>1, <2>2, ConcatProperties
  <2>5. \A i \in 1 .. Len(read) + Len(waiting) :
          t[i] = IF i <= Len(read) THEN read[i] ELSE waiting[i - Len(read)]
    BY <2>1, ConcatProperties
  <2> HIDE DEF s, t
  <2>6. ASSUME NEW i \in 1 .. Len(read) + Len(waiting)
        PROVE  s[i] = t[i]
    <3>1. CASE i <= Len(read)
      BY <2>1, <2>2, <2>4, <2>5, <3>1
    <3>2. CASE i = Len(read) + 1
      BY <2>1, <2>2, <2>4, <2>5, <3>2
    <3>3. CASE i > Len(read) + 1
      <4>1. /\ i - (Len(read) + 1) \in 1 .. Len(waiting) - 1
            /\ (i - (Len(read) + 1)) + 1 = i - Len(read)
        BY <2>1, <3>3
      <4>2. Tail(waiting)[i - (Len(read) + 1)] = waiting[i - Len(read)]
        BY <2>1, <4>1
      <4> QED
        BY <2>1, <2>4, <2>5, <3>3, <4>2
    <3> QED
      BY <2>1, <3>1, <3>2, <3>3
  <2>7. s = t
    BY <2>3, <2>6, SeqEqual
  <2> QED
    BY <2>7 DEF s, t
<1>2. ASSUME read # << >>
      PROVE  Front(read) \o (<< Last(read) >> \o waiting) = read \o waiting
  <2> DEFINE w == << Last(read) >> \o waiting
             s == Front(read) \o w
             t == read \o waiting
  <2>1. /\ Len(read) \in Nat /\ Len(read) >= 1 /\ Len(waiting) \in Nat
        /\ Front(read) \in Seq(S) /\ Len(Front(read)) = Len(read) - 1
        /\ \A i \in 1 .. Len(read) - 1 : Front(read)[i] = read[i]
        /\ Last(read) = read[Len(read)] /\ Last(read) \in S
    BY <1>2, FrontFacts DEF Last
  <2>2. << Last(read) >> \in Seq(S) /\ Len(<< Last(read) >>) = 1
    BY <2>1
  <2>3. /\ w \in Seq(S) /\ Len(w) = 1 + Len(waiting)
        /\ \A i \in 1 .. 1 + Len(waiting) :
             w[i] = IF i <= 1 THEN read[Len(read)] ELSE waiting[i - 1]
    BY <2>1, <2>2, ConcatProperties
  <2> HIDE DEF w
  <2>4. /\ s \in Seq(S) /\ t \in Seq(S)
        /\ Len(s) = Len(read) + Len(waiting) /\ Len(t) = Len(read) + Len(waiting)
    <3>0. Front(read) \in Seq(S) /\ w \in Seq(S)
      BY <2>1, <2>3
    <3>1. /\ s \in Seq(S) /\ Len(s) = Len(Front(read)) + Len(w)
          /\ t \in Seq(S) /\ Len(t) = Len(read) + Len(waiting)
      BY <3>0, ConcatProperties
    <3>2. Len(Front(read)) + Len(w) = Len(read) + Len(waiting)
      BY <2>1, <2>3
    <3> QED
      BY <3>1, <3>2
  <2>5. \A i \in 1 .. Len(read) + Len(waiting) :
          s[i] = IF i <= Len(read) - 1 THEN Front(read)[i]
                 ELSE w[i - (Len(read) - 1)]
    BY <2>1, <2>3, ConcatProperties
  <2>6. \A i \in 1 .. Len(read) + Len(waiting) :
          t[i] = IF i <= Len(read) THEN read[i] ELSE waiting[i - Len(read)]
    BY <2>1, ConcatProperties
  <2> HIDE DEF s, t
  <2>7. ASSUME NEW i \in 1 .. Len(read) + Len(waiting)
        PROVE  s[i] = t[i]
    <3>1. CASE i <= Len(read) - 1
      BY <2>1, <2>5, <2>6, <3>1
    <3>2. CASE i = Len(read)
      BY <2>1, <2>3, <2>5, <2>6, <3>2
    <3>3. CASE i > Len(read)
      <4>1. /\ i - (Len(read) - 1) \in 2 .. 1 + Len(waiting)
            /\ (i - (Len(read) - 1)) - 1 = i - Len(read)
        BY <2>1, <3>3
      <4>2. w[i - (Len(read) - 1)] = waiting[i - Len(read)]
        BY <2>1, <2>3, <4>1
      <4> QED
        BY <2>1, <2>5, <2>6, <3>3, <4>2
    <3> QED
      BY <2>1, <3>1, <3>2, <3>3
  <2>8. s = t
    BY <2>4, <2>7, SeqEqual
  <2> QED
    BY <2>8 DEF s, t, w
<1> QED
  BY <1>1, <1>2

\* A turn of the machine conserves its input.
LEMMA TurnConserves ==
  ASSUME IInv, DeviceGuarantee, Turn
  PROVE  consumed' \o inputs' = consumed \o inputs
<1>1. inputs \in Seq(Word) /\ consumed \in Seq(Word)
  BY DEF IInv, TypeOK
<1>2. CASE ExecuteReadInput
  BY <1>1, <1>2, ReadConserves DEF ExecuteReadInput
<1>3. CASE UndoInput
  <2>1. consumed # << >> /\ Last(consumed) = Last(entries).effect.value
    BY <1>3 DEF UndoInput, Undoes, DeviceGuarantee
  <2>2. consumed' = Front(consumed) /\ inputs' = << Last(consumed) >> \o inputs
    BY <1>3, <2>1 DEF UndoInput
  <2> QED
    BY <1>1, <2>1, <2>2, ReadConserves
<1>4. CASE MicroStep /\ ~ExecuteReadInput
  <2>1. UNCHANGED << inputs, consumed >>
    BY <1>4
       DEF MicroStep, ExecuteRegisterWrite, ExecuteWriteMemory, ExecuteDecode,
           ExecuteCompare, ExecuteNoSkip, ExecuteWriteOutput,
           FaultInvalidOpcode, StallOnInput, FaultOnInput, FaultOnOutput,
           ExecuteHalt, Stopped, device
  <2> QED
    BY <2>1
<1>5. CASE (MicroStepBack /\ ~UndoInput) \/ SuspendRun
  <2>1. UNCHANGED << inputs, consumed >>
    BY <1>5
       DEF MicroStepBack, UndoNothing, UndoRegister, UndoMemory, UndoOutput,
           RefuseNoHistory, RefuseInput, RefuseOutput, Refused, SuspendRun,
           device
  <2> QED
    BY <2>1
<1> QED
  BY <1>2, <1>3, <1>4, <1>5 DEF Turn

\* No call loses, duplicates or reorders a word of input, for every program
\* and each of the devices, whatever stalls, faults and rewinds it goes
\* through.
THEOREM InputIsConserved == DeviceSpec => InputsConserved
<1>1. ASSUME IInv, Traces, [DeviceNext]_dvars
      PROVE  [~Idle /\ ~Blocked => consumed' \o inputs' = consumed \o inputs]_dvars
  <2>1. CASE DeviceTurn
    BY <1>1, <2>1, TracesGuarantee, TurnConserves DEF DeviceTurn
  <2>2. CASE DeviceHost
    BY <2>2
       DEF DeviceHost, Calls, CallRun, CallRunBounded, CallStep, CallMicroStep,
           CallStepBack, CallMicroStepBack, Begin, Host, Boot, Debug, Pause,
           Resume, Transition, FlashProgram, FlashMemory, LoadProgram, Reset,
           ResetWithProgram, SetHistoryLimit, ClearHistory, SetBreakpoints,
           PokeRegister, PokeMemory, FeedInput
  <2>3. CASE TypeLine
    BY <2>3 DEF TypeLine
  <2> QED
    BY <1>1, <2>1, <2>2, <2>3 DEF DeviceNext
<1> QED
  BY <1>1, DeviceTraces, PTL DEF DeviceSpec, InputsConserved

-----------------------------------------------------------------------------
(* Devices that keep what they exchanged.                                  *)

\* A device that takes back never leaves a call refused for its sake, and
\* while a call goes on there is no answer yet.
Obliging == TakesBack => outcome \notin {"IrreversibleInput", "IrreversibleOutput"}

\* Every step over a device keeps Obliging.
LEMMA DeviceObliges ==
  ASSUME IInv, Traces, Obliging, [DeviceNext]_dvars
  PROVE  Obliging'
<1> SUFFICES ASSUME TakesBack'
             PROVE  outcome' \notin {"IrreversibleInput", "IrreversibleOutput"}
  BY DEF Obliging
<1>1. kind' = kind /\ TakesBack
  BY DEF DeviceNext, DeviceTurn, DeviceHost, TypeLine, dvars, TakesBack
<1>2. outcome \notin {"IrreversibleInput", "IrreversibleOutput"}
  BY <1>1 DEF Obliging
<1>3. CASE UNCHANGED outcome
  BY <1>2, <1>3
<1>4. CASE DeviceTurn
  <2>1. Turn /\ UnreadAnswers /\ UnwriteAnswers /\ DeviceGuarantee
    BY <1>4, TracesGuarantee DEF DeviceTurn
  <2>2. CASE RefuseInput
    <3>1. Undoes("InputRead") /\ outcome' = "IrreversibleInput"
      BY <2>2 DEF RefuseInput, Refused, Returns
    <3>2. (outcome' = "IrreversibleInput") = ~TakesBack
      BY ONLY <2>1, <3>1 DEF UnreadAnswers
    <3>3. ~TakesBack
      BY ONLY <3>1, <3>2, Zenon
    <3> QED
      BY <1>1, <3>3
  <2>3. CASE RefuseOutput
    <3>1. Undoes("OutputWritten") /\ outcome' = "IrreversibleOutput"
      BY <2>3 DEF RefuseOutput, Refused, Returns
    <3>2. outputs # << >> /\ Last(outputs) = Last(entries).effect.value
      BY <2>1, <3>1 DEF Undoes, DeviceGuarantee
    <3>3. (outcome' = "IrreversibleOutput")
            = ~(TakesBack /\ outputs # << >>
                  /\ Last(outputs) = Last(entries).effect.value)
      BY ONLY <2>1, <3>1 DEF UnwriteAnswers
    <3>4. ~(TakesBack /\ outputs # << >>
              /\ Last(outputs) = Last(entries).effect.value)
      BY ONLY <3>1, <3>3, Zenon
    <3> QED
      BY <1>1, <3>2, <3>4
  <2>4. CASE RefuseNoHistory \/ SuspendRun
    BY <2>4 DEF RefuseNoHistory, Refused, SuspendRun, Returns
  <2>5. CASE \/ UndoNothing \/ UndoRegister \/ UndoMemory \/ UndoInput
             \/ UndoOutput
    <3>1. Undone
      BY <2>5 DEF UndoNothing, UndoRegister, UndoMemory, UndoInput, UndoOutput
    <3>2. outcome' = "Undone" \/ UNCHANGED outcome
      BY <3>1 DEF Undone, Returns
    <3> QED
      BY <1>3, <3>2
  <2>6. CASE \/ ExecuteRegisterWrite \/ ExecuteWriteMemory \/ ExecuteDecode
             \/ ExecuteCompare \/ ExecuteNoSkip \/ ExecuteReadInput
             \/ ExecuteWriteOutput
    <3>1. \E effect, decoded, comparison : Executed(effect, decoded, comparison)
      BY <2>6
         DEF ExecuteRegisterWrite, ExecuteWriteMemory, ExecuteDecode,
             ExecuteCompare, ExecuteNoSkip, ExecuteReadInput,
             ExecuteWriteOutput
    <3>2. outcome' = "Stepped" \/ UNCHANGED outcome
      BY <3>1 DEF Executed, Returns
    <3> QED
      BY <1>3, <3>2
  <2>7. CASE \/ FaultInvalidOpcode \/ StallOnInput \/ FaultOnInput
             \/ FaultOnOutput \/ ExecuteHalt
    BY <2>7
       DEF FaultInvalidOpcode, StallOnInput, FaultOnInput, FaultOnOutput,
           ExecuteHalt, Stopped, Returns
  <2> QED
    BY <2>1, <2>2, <2>3, <2>4, <2>5, <2>6, <2>7
       DEF Turn, MicroStep, MicroStepBack
<1>5. CASE DeviceHost
  <2>1. outcome' = "None" \/ UNCHANGED outcome
    BY <1>5
       DEF DeviceHost, Calls, CallRun, CallRunBounded, CallStep, CallMicroStep,
           CallStepBack, CallMicroStepBack, Begin, Host, Boot, Debug, Pause,
           Resume, Transition, FlashProgram, FlashMemory, LoadProgram, Reset,
           ResetWithProgram, RewindTo, SetHistoryLimit, ClearHistory,
           SetBreakpoints, PokeRegister, PokeMemory, FeedInput
  <2> QED
    BY <1>3, <2>1
<1>6. CASE TypeLine \/ UNCHANGED dvars
  BY <1>3, <1>6 DEF TypeLine, dvars, vars
<1> QED
  BY <1>4, <1>5, <1>6 DEF DeviceNext

\* Over a device that keeps what it exchanged, rewinding is never refused for
\* the device's sake, whatever was evicted, cleared or rewound before.
THEOREM RewindingIsNotRefused == DeviceSpec => RewindsOverDevice
<1>1. DeviceInit => Obliging
  BY DEF DeviceInit, Init, InitWith, Obliging
<1>2. Obliging /\ (IInv /\ Traces) /\ [DeviceNext]_dvars => Obliging'
  BY DeviceObliges
<1>3. Obliging' /\ [DeviceNext]_dvars =>
        [TakesBack => outcome' \notin {"IrreversibleInput", "IrreversibleOutput"}]_dvars
  BY DEF DeviceNext, DeviceTurn, DeviceHost, TypeLine, dvars, TakesBack, Obliging
<1> QED
  BY <1>1, <1>2, <1>3, DeviceTraces, PTL DEF DeviceSpec, RewindsOverDevice

-----------------------------------------------------------------------------
(* ReplayIo.                                                               *)

\* What ReplayIo holds back to replay is what rewinding went back over.
Replaying == replay \in Nat /\ frontier \in Nat /\ ReplaysWhatWasRead

\* What a turn does to the words that were read.
LEMMA TurnReads ==
  ASSUME IInv, Traces, Turn
  PROVE  \/ Polling /\ Len(consumed') = Len(consumed) + 1
         \/ Undoing /\ Len(consumed') = Len(consumed) - 1
         \/ consumed' = consumed
<1>1. inputs \in Seq(Word) /\ consumed \in Seq(Word) /\ DeviceGuarantee
  BY TracesGuarantee DEF IInv, TypeOK
<1>2. CASE ExecuteReadInput
  BY <1>1, <1>2 DEF ExecuteReadInput, Polling
<1>3. CASE UndoInput
  <2>1. consumed # << >> /\ consumed' = Front(consumed) /\ Undoing
    BY <1>1, <1>3 DEF UndoInput, Undoes, DeviceGuarantee
  <2> QED
    BY <1>1, <2>1, FrontFacts
<1>4. CASE MicroStep /\ ~ExecuteReadInput
  BY <1>4
     DEF MicroStep, ExecuteRegisterWrite, ExecuteWriteMemory, ExecuteDecode,
         ExecuteCompare, ExecuteNoSkip, ExecuteWriteOutput,
         FaultInvalidOpcode, StallOnInput, FaultOnInput, FaultOnOutput,
         ExecuteHalt, Stopped, device
<1>5. CASE (MicroStepBack /\ ~UndoInput) \/ SuspendRun
  BY <1>5
     DEF MicroStepBack, UndoNothing, UndoRegister, UndoMemory, UndoOutput,
         RefuseNoHistory, RefuseInput, RefuseOutput, Refused, SuspendRun, device
<1> QED
  BY <1>2, <1>3, <1>4, <1>5 DEF Turn

\* Every step over a device keeps Replaying.
LEMMA DeviceReplays ==
  ASSUME IInv, Traces, Replaying, [DeviceNext]_dvars
  PROVE  Replaying'
<1>1. consumed \in Seq(Word) /\ Len(consumed) \in Nat
  BY DEF IInv, TypeOK
<1>2. CASE DeviceTurn
  <2>1. /\ Turn /\ kind' = kind /\ replay' = ReplayAfter
        /\ frontier' = IF kind = "ReplayIo" /\ Len(consumed') > frontier
                       THEN Len(consumed') ELSE frontier
    BY <1>2 DEF DeviceTurn
  <2>2. ~(Polling /\ Undoing)
    BY DEF Polling, Issues, Issuing, Undoing
  <2>3. /\ Reads <=> consumed' # consumed /\ Polling
        /\ Unreads <=> consumed' # consumed /\ Undoing
    BY DEF Reads, Unreads
  <2>4. CASE kind # "ReplayIo"
    BY <2>1, <2>4 DEF Replaying, ReplaysWhatWasRead, ReplayAfter
  <2>5. CASE kind = "ReplayIo"
    <3>1. replay = frontier - Len(consumed) /\ replay \in Nat /\ frontier \in Nat
      BY <2>5 DEF Replaying, ReplaysWhatWasRead
    <3>2. replay' = IF Reads /\ replay > 0 THEN replay - 1
                    ELSE IF Unreads THEN replay + 1 ELSE replay
      BY <2>1, <2>5 DEF ReplayAfter
    <3>3. frontier' = IF Len(consumed') > frontier THEN Len(consumed') ELSE frontier
      BY <2>1, <2>5
    <3>4. CASE Polling /\ Len(consumed') = Len(consumed) + 1
      <4>1. Reads /\ ~Unreads
        BY <1>1, <2>2, <2>3, <3>4
      <4> QED
        BY <1>1, <2>1, <3>1, <3>2, <3>3, <3>4, <4>1
           DEF Replaying, ReplaysWhatWasRead
    <3>5. CASE Undoing /\ Len(consumed') = Len(consumed) - 1
      <4>1. Unreads /\ ~Reads
        BY <1>1, <2>2, <2>3, <3>5
      <4> QED
        BY <1>1, <2>1, <3>1, <3>2, <3>3, <3>5, <4>1
           DEF Replaying, ReplaysWhatWasRead
    <3>6. CASE consumed' = consumed
      <4>1. ~Reads /\ ~Unreads
        BY <2>3, <3>6
      <4> QED
        BY <1>1, <2>1, <3>1, <3>2, <3>3, <3>6, <4>1
           DEF Replaying, ReplaysWhatWasRead
    <3> QED
      BY <2>1, <3>4, <3>5, <3>6, TurnReads
  <2> QED
    BY <2>4, <2>5
<1>3. ASSUME UNCHANGED << kind, replay, frontier, consumed >>
      PROVE  Replaying'
  BY <1>3 DEF Replaying, ReplaysWhatWasRead
<1>4. CASE DeviceHost
  <2>1. UNCHANGED consumed
    BY <1>4
       DEF DeviceHost, Calls, CallRun, CallRunBounded, CallStep, CallMicroStep,
           CallStepBack, CallMicroStepBack, Begin, Host, Boot, Debug, Pause,
           Resume, Transition, FlashProgram, FlashMemory, LoadProgram, Reset,
           ResetWithProgram, RewindTo, SetHistoryLimit, ClearHistory,
           SetBreakpoints, PokeRegister, PokeMemory, FeedInput, device
  <2> QED
    BY <1>3, <1>4, <2>1 DEF DeviceHost
<1>5. CASE TypeLine \/ UNCHANGED dvars
  BY <1>3, <1>5 DEF TypeLine, dvars, vars, device
<1> QED
  BY <1>2, <1>4, <1>5 DEF DeviceNext

\* ReplayIo announces a word as replayed exactly when the program had read it
\* before, for every program and however far it was rewound.
THEOREM ReplayIsTrue == DeviceSpec => []ReplaysWhatWasRead
<1>1. DeviceInit => Replaying
  BY DEF DeviceInit, Init, InitWith, Replaying, ReplaysWhatWasRead
<1>2. Replaying /\ (IInv /\ Traces) /\ [DeviceNext]_dvars => Replaying'
  BY DeviceReplays
<1>3. Replaying => ReplaysWhatWasRead
  BY DEF Replaying
<1> QED
  BY <1>1, <1>2, <1>3, DeviceTraces, PTL DEF DeviceSpec
=============================================================================
