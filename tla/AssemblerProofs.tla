--------------------------- MODULE AssemblerProofs ---------------------------
(***************************************************************************)
(* Proofs about Assembler: for every memory size and every source file,    *)
(* both passes keep addresses, labels, items and source map consistent;    *)
(* an error is reported of exactly the files that are not well formed, and *)
(* the image of any other file is what the file means.  Then about         *)
(* Features: the advice of the lints is exact, and the rename and the      *)
(* quick fixes lead to files that assemble to what they should.            *)
(***************************************************************************)
EXTENDS Features, FiniteSetTheorems, TLAPS

\* What LayoutConsistent needs to be inductive: items and END lie on lines
\* already read, an END has stopped the pass, and what was handed out so far
\* fits in memory.
Bounded ==
  /\ NextAddress <= MemoryWords
  /\ \A i \in 1 .. Len(items) : items[i].line < position
  /\ ~stopped => end = NoLine
  /\ end < position

IInv == TypeOK /\ LayoutConsistent /\ Bounded

DiagnosticList == Seq([code : Codes, line : Nat \ {0}])

-----------------------------------------------------------------------------
(* Facts about lines and words.                                            *)

\* A statement has a label, a mnemonic and an operand of the right kinds.
LEMMA StatementFacts ==
  ASSUME NEW t \in Line, t.form = "Statement"
  PROVE  /\ t.label \in Labels \cup DigitLabels \cup SpacedLabels \cup {NoLabel}
         /\ t.mnemonic \in Mnemonic
         /\ t.operand \in Operand
  BY DEF Line, Empty, Comment, Malformed

\* The line of an ORG has an address of the machine.
LEMMA OriginFacts ==
  ASSUME NEW t \in Line, t.form = "Origin"
  PROVE  t.address \in Addr
  BY DEF Line, Empty, Comment, Malformed

\* Reporting keeps the list of diagnostics well typed.
LEMMA ReportFacts ==
  ASSUME NEW code \in Codes, NEW line \in Nat \ {0},
         diagnostics \in DiagnosticList, Report(code, line)
  PROVE  diagnostics' \in DiagnosticList
  BY DEF Report, DiagnosticList

\* An encoded instruction is a word.
LEMMA EncodeFacts ==
  ASSUME NEW opcode \in Opcode, NEW operand \in Addr
  PROVE  Encode(opcode, operand) \in Word
<1> DEFINE i == CHOOSE i \in 1 .. 15 : OpcodeOrder[i] = opcode
<1>1. \E j \in 1 .. 15 : OpcodeOrder[j] = opcode
  BY DEF Opcode
<1>2. i \in 1 .. 15
  BY <1>1
<1>3. MemoryWords \in Nat
  BY MemoryWordsAssumption
<1> HIDE DEF i
<1>4. \A k \in 1 .. 15 : (k - 1) * MemoryWords \in 0 .. 14 * MemoryWords
  <2> TAKE k \in 1 .. 15
  <2>1. k \in {1, 2, 3, 4, 5, 6, 7, 8, 9, 10, 11, 12, 13, 14, 15}
    OBVIOUS
  <2> QED
    BY <2>1, <1>3
<1>5. (i - 1) * MemoryWords \in 0 .. 14 * MemoryWords
  BY <1>2, <1>4
<1>6. Encode(opcode, operand) = (i - 1) * MemoryWords + operand
  BY DEF Encode, i
<1> DEFINE x == (i - 1) * MemoryWords
<1>7. x \in 0 .. 14 * MemoryWords
  BY <1>5
<1> HIDE DEF x
<1> QED
  BY <1>3, <1>6, <1>7 DEF x, Word, WordCount, Addr

\* Every fault has a code, and every item a word.
LEMMA FaultFacts ==
  ASSUME NEW item
  PROVE  Fault(item) \in Codes \cup {"None"}
  BY DEF Fault, LiteralFault, InstructionFault, OperandFault, Codes

LEMMA WordFacts ==
  ASSUME NEW item \in ItemRecord,
         \A l \in DOMAIN symbols : symbols[l].address \in Addr
  PROVE  WordFor(item) \in Word
<1>1. MemoryWords \in Nat \ {0}
  BY MemoryWordsAssumption
<1>2. WordCount \in Nat \ {0}
  BY <1>1 DEF WordCount
<1>3. 0 \in Word /\ 0 \in Addr
  BY <1>1, <1>2 DEF Word, Addr
<1>4. CASE Fault(item) # "None"
  BY <1>3, <1>4 DEF WordFor
<1>5. CASE item.mnemonic \in LiteralDirective /\ Fault(item) = "None"
  <2>1. item.operand.kind = "Number" /\ item.operand \in Operand
    BY <1>5 DEF Fault, LiteralFault, Readable, ItemRecord
  <2>2. item.operand.value \in Int
    BY <2>1 DEF Operand, NoOperand
  <2>3. item.operand.value % WordCount \in Word
    BY <1>2, <2>2 DEF Word
  <2> QED
    BY <1>5, <2>3 DEF WordFor
<1>6. CASE item.mnemonic \notin LiteralDirective /\ Fault(item) = "None"
  <2> DEFINE operand == AliasedOperand(item)
             address == IF operand.kind = "Name"
                        THEN symbols[operand.text].address
                        ELSE IF operand.kind = "Number" THEN operand.value
                        ELSE 0
  <2>1. AliasedOpcode(item) \in Opcode
    BY <1>6 DEF Fault, InstructionFault
  <2>2. address \in Addr
    <3>1. CASE operand = NoOperand
      BY <1>3, <3>1 DEF NoOperand
    <3>2. CASE operand # NoOperand
      <4>1. OperandFault(operand) = "None"
        BY <1>6, <2>1, <3>2 DEF Fault, InstructionFault
      <4>2. operand \in Operand
        BY DEF AliasedOperand, ItemRecord, Operand, Number
      <4>3. CASE operand.kind = "Number"
        <5>1. operand.value \in Addr
          BY <4>1, <4>3 DEF OperandFault, AddressLiteral
        <5> QED
          BY <4>3, <5>1
      <4>4. CASE operand.kind # "Number"
        <5>1. operand.kind = "Name" /\ operand.text \in DOMAIN symbols
          BY <4>1, <4>4 DEF OperandFault, AddressLiteral
        <5> QED
          BY <5>1
      <4> QED
        BY <4>3, <4>4
    <3> QED
      BY <3>1, <3>2
  <2>3. WordFor(item) = Encode(AliasedOpcode(item), address)
    BY <1>6 DEF WordFor
  <2> QED
    BY <2>1, <2>2, <2>3, EncodeFacts
<1> QED
  BY <1>4, <1>5, <1>6

-----------------------------------------------------------------------------
(* The invariant is inductive.                                             *)

\* What is known of the lines read so far stays known after one more.
LEMMA OneMoreLine ==
  ASSUME TypeOK, Parsing, position' = position + 1, source' = source
  PROVE  /\ position' \in 1 .. Len(source') + 1
         /\ \A a \in DOMAIN lineOf : lineOf[a] \in 1 .. position' - 1
         /\ DOMAIN addressOf \subseteq 1 .. position' - 1
<1>1. position \in Nat \ {0} /\ Len(source) \in Nat /\ position <= Len(source)
  BY DEF TypeOK, Parsing
<1>2. 1 .. position - 1 \subseteq 1 .. position' - 1
  BY <1>1
<1>3. position' \in 1 .. Len(source') + 1
  BY <1>1
<1> QED
  BY <1>2, <1>3 DEF TypeOK

\* A line that gives out nothing: what an editor may meet between two words,
\* and everything after the pass stopped.
LEMMA PassesOver ==
  ASSUME IInv, Parsing, Advance,
         UNCHANGED << origin, items, end, symbols, map >>,
         trailing' \in Nat, stopped' \in BOOLEAN, stopped => stopped',
         diagnostics' \in DiagnosticList
  PROVE  IInv'
<1>1. /\ position \in 1 .. Len(source) /\ position' = position + 1
      /\ UNCHANGED << source, words, origin, items, end, symbols, lineOf,
                      addressOf >>
  BY DEF IInv, TypeOK, Parsing, Advance, map
<1>2. TypeOK'
  <2>1. /\ trailing' \in Nat /\ stopped' \in BOOLEAN
        /\ diagnostics' \in Seq([code : Codes, line : Nat \ {0}])
    BY DEF DiagnosticList
  <2> QED
    BY <1>1, <2>1, OneMoreLine DEF IInv, TypeOK
<1>3. LayoutConsistent'
  <2>1. UNCHANGED << NextAddress, OriginAddress >>
    BY <1>1 DEF NextAddress, OriginAddress
  <2>2. ItemsConsecutive'
    BY <1>1, <2>1 DEF IInv, LayoutConsistent, ItemsConsecutive
  <2>3. LabelsPlaced'
    BY <1>1, <2>1 DEF IInv, LayoutConsistent, LabelsPlaced
  <2>4. SourceMapInverse'
    BY <1>1 DEF IInv, LayoutConsistent, SourceMapInverse
  <2>5. SourceMapComplete'
    BY <1>1 DEF IInv, LayoutConsistent, SourceMapComplete
  <2> QED
    BY <2>2, <2>3, <2>4, <2>5 DEF LayoutConsistent
<1>4. Bounded'
  <2>1. UNCHANGED NextAddress
    BY <1>1 DEF NextAddress, OriginAddress
  <2>2. \A i \in 1 .. Len(items) : items[i].line \in Nat \ {0}
    <3> TAKE i \in 1 .. Len(items)
    <3>1. items[i] \in ItemRecord
      BY DEF IInv, TypeOK
    <3> QED
      BY <3>1 DEF ItemRecord
  <2>3. position \in Nat /\ end \in Nat
    BY DEF IInv, TypeOK
  <2>4. \A i \in 1 .. Len(items) : items[i].line < position'
    BY <1>1, <2>2, <2>3 DEF IInv, Bounded
  <2>5. ~stopped' => end' = NoLine
    <3>1. ~stopped => end = NoLine
      BY DEF IInv, Bounded
    <3> QED
      BY <1>1, <3>1, Zenon
  <2>6. end' < position'
    BY <1>1, <2>3 DEF IInv, Bounded
  <2> QED
    BY <1>1, <2>1, <2>4, <2>5, <2>6 DEF IInv, Bounded
<1> QED
  BY <1>2, <1>3, <1>4 DEF IInv

\* Adding zero changes no integer.
LEMMA PlusZero == \A x \in Int : x + 0 = x
  OBVIOUS

\* Before the first word nothing has been placed, so an origin may move all.
LEMMA OriginPlacesNothing ==
  ASSUME IInv, ParseOrigin
  PROVE  IInv'
<1>1. /\ position \in 1 .. Len(source) /\ position' = position + 1
      /\ UNCHANGED << source, words, items, end, symbols, lineOf, addressOf,
                      trailing, stopped, diagnostics >>
      /\ items = << >> /\ ~stopped /\ end = NoLine
  BY DEF IInv, TypeOK, ParseOrigin, Reads, Parsing, Advance, map,
     OriginAllowed, Bounded
<1>2. origin' \in Addr
  <2>1. Text \in Line
    BY <1>1 DEF IInv, TypeOK, Text
  <2> QED
    BY <2>1, OriginFacts DEF ParseOrigin, Reads
<1>3. Len(items) = 0 /\ 1 .. Len(items) = {}
  BY <1>1
<1>4. DOMAIN addressOf = {} /\ DOMAIN lineOf = {}
  <2>1. DOMAIN addressOf = {}
    BY <1>1, <1>3 DEF IInv, LayoutConsistent, SourceMapComplete
  <2> QED
    BY <2>1 DEF IInv, LayoutConsistent, SourceMapInverse
<1>5. DOMAIN symbols = {}
  <2> SUFFICES ASSUME NEW l \in DOMAIN symbols PROVE FALSE
    OBVIOUS
  <2>1. symbols[l].line \in Nat \ {0}
    BY DEF IInv, TypeOK, Symbol
  <2>2. symbols[l].line = end
    BY <1>3 DEF IInv, LayoutConsistent, LabelsPlaced
  <2> QED
    BY <1>1, <2>1, <2>2 DEF NoLine
<1>6. TypeOK'
  <2>1. Parsing
    BY DEF ParseOrigin, Reads
  <2> QED
    BY <1>1, <1>2, <2>1, OneMoreLine DEF IInv, TypeOK
<1>7. LayoutConsistent'
  <2>1. ItemsConsecutive'
    BY <1>1, <1>3 DEF ItemsConsecutive
  <2>2. LabelsPlaced'
    BY <1>1, <1>5 DEF LabelsPlaced
  <2>3. SourceMapInverse'
    BY <1>1, <1>4 DEF SourceMapInverse
  <2>4. SourceMapComplete'
    BY <1>1, <1>3 DEF IInv, LayoutConsistent, SourceMapComplete
  <2> QED
    BY <2>1, <2>2, <2>3, <2>4 DEF LayoutConsistent
<1>8. Bounded'
  <2>1. MemoryWords \in Nat \ {0} /\ 0 <= MemoryWords
    BY MemoryWordsAssumption
  <2>2. NextAddress' <= MemoryWords
    <3>1. NextAddress' = origin'
      <4>1. origin' \in Int /\ origin' # -1
        BY <1>2, <2>1 DEF Addr
      <4>2. Len(items') = 0
        BY <1>1, <1>3
      <4>3. OriginAddress' = origin'
        BY <4>1 DEF OriginAddress, NoOrigin
      <4>4. NextAddress' = origin' + 0
        BY <4>2, <4>3, Zenon DEF NextAddress
      <4> QED
        BY <4>1, <4>4, PlusZero
    <3> QED
      BY <1>2, <2>1, <3>1 DEF Addr
  <2>3. end' < position'
    BY <1>1 DEF IInv, TypeOK, Bounded
  <2> QED
    BY <1>1, <1>3, <2>2, <2>3 DEF Bounded
<1> QED
  BY <1>6, <1>7, <1>8 DEF IInv

\* An accepted statement: its label and its line are placed at NextAddress,
\* which no line, label or item had before.
LEMMA DefineAndMapFacts ==
  ASSUME IInv, DefineAndMap
  PROVE  /\ position \in 1 .. Len(source) /\ position \notin DOMAIN addressOf
         /\ NextAddress \in Addr /\ NextAddress \notin DOMAIN lineOf
         /\ end = NoLine /\ ~stopped
         /\ Text.label \in Labels \cup {NoLabel}
         /\ Text.mnemonic \in Mnemonic /\ Text.operand \in Operand
<1>1. position \in 1 .. Len(source) /\ ~stopped
  BY DEF IInv, TypeOK, DefineAndMap, Reads, Parsing
<1>2. position \notin DOMAIN addressOf
  <2>1. DOMAIN addressOf \subseteq 1 .. position - 1
    BY DEF IInv, TypeOK
  <2> QED
    BY <1>1, <2>1
<1>3. NextAddress \in Addr
  <2>1. ~(NextAddress >= MemoryWords)
    BY DEF DefineAndMap, MemoryFull
  <2>2. OriginAddress \in Nat
    BY DEF IInv, TypeOK, OriginAddress, Addr, NoOrigin
  <2>3. Len(items) \in Nat
    BY DEF IInv, TypeOK
  <2>4. NextAddress \in Nat
    BY <2>2, <2>3 DEF NextAddress
  <2> QED
    BY <2>1, <2>4, MemoryWordsAssumption DEF Addr
<1>4. end = NoLine
  BY <1>1 DEF IInv, Bounded
<1>5. NextAddress \notin DOMAIN lineOf
  <2> SUFFICES ASSUME NextAddress \in DOMAIN lineOf PROVE FALSE
    OBVIOUS
  <2>1. /\ lineOf[NextAddress] \in DOMAIN addressOf
        /\ addressOf[lineOf[NextAddress]] = NextAddress
    BY DEF IInv, LayoutConsistent, SourceMapInverse
  <2>2. PICK i \in 1 .. Len(items) : items[i].line = lineOf[NextAddress]
    BY <1>4, <2>1 DEF IInv, LayoutConsistent, SourceMapComplete
  <2>3. items[i].address = NextAddress
    BY <2>1, <2>2 DEF IInv, LayoutConsistent, SourceMapComplete
  <2>4. items[i].address = OriginAddress + i - 1
    BY DEF IInv, LayoutConsistent, ItemsConsecutive
  <2>5. OriginAddress \in Int /\ Len(items) \in Nat
    BY DEF IInv, TypeOK, OriginAddress, Addr, NoOrigin
  <2> QED
    BY <2>2, <2>3, <2>4, <2>5 DEF NextAddress
<1>6. /\ Text.label \in Labels \cup DigitLabels \cup SpacedLabels \cup {NoLabel}
      /\ Text.mnemonic \in Mnemonic /\ Text.operand \in Operand
  <2>1. Text \in Line
    BY <1>1 DEF IInv, TypeOK, Text
  <2>2. Text.form = "Statement"
    BY DEF DefineAndMap, Reads
  <2> QED
    BY <2>1, <2>2, StatementFacts
<1>7. Text.label \notin DigitLabels /\ Text.label \notin SpacedLabels
  BY DEF DefineAndMap, LabelFault
<1> QED
  BY <1>1, <1>2, <1>3, <1>4, <1>5, <1>6, <1>7

\* SourceMap::insert of a new address and a new line keeps the two indexes
\* inverse to each other.
LEMMA SourceMapExtended ==
  ASSUME IInv, DefineAndMap, position' = position + 1
  PROVE  /\ SourceMapInverse'
         /\ DOMAIN addressOf' = DOMAIN addressOf \cup {position}
         /\ addressOf'[position] = NextAddress
         /\ \A l \in DOMAIN addressOf : addressOf'[l] = addressOf[l]
         /\ DOMAIN lineOf' \subseteq Addr
         /\ \A a \in DOMAIN lineOf' : lineOf'[a] \in 1 .. position' - 1
         /\ DOMAIN addressOf' \subseteq 1 .. position' - 1
         /\ \A l \in DOMAIN addressOf' : addressOf'[l] \in Addr
<1>1. /\ position \notin DOMAIN addressOf /\ NextAddress \notin DOMAIN lineOf
      /\ NextAddress \in Addr
      /\ position \in Nat \ {0}
  <2>1. position \in 1 .. Len(source)
    BY DefineAndMapFacts
  <2> QED
    BY <2>1, DefineAndMapFacts
<1>2. /\ DOMAIN lineOf' = DOMAIN lineOf \cup {NextAddress}
      /\ lineOf'[NextAddress] = position
      /\ \A a \in DOMAIN lineOf : lineOf'[a] = lineOf[a]
  <2>1. lineOf' = Insert(lineOf, NextAddress, position)
    BY DEF DefineAndMap
  <2> QED
    BY <1>1, <2>1 DEF Insert
<1>3. /\ DOMAIN addressOf' = DOMAIN addressOf \cup {position}
      /\ addressOf'[position] = NextAddress
      /\ \A l \in DOMAIN addressOf : addressOf'[l] = addressOf[l]
  <2>1. addressOf' = Insert(addressOf, position, NextAddress)
    BY DEF DefineAndMap
  <2> QED
    BY <1>1, <2>1 DEF Insert
<1>4. SourceMapInverse'
  <2>1. /\ \A a \in DOMAIN lineOf :
             lineOf[a] \in DOMAIN addressOf /\ addressOf[lineOf[a]] = a
        /\ \A l \in DOMAIN addressOf :
             addressOf[l] \in DOMAIN lineOf /\ lineOf[addressOf[l]] = l
    BY DEF IInv, LayoutConsistent, SourceMapInverse
  <2>2. \A a \in DOMAIN lineOf' :
          lineOf'[a] \in DOMAIN addressOf' /\ addressOf'[lineOf'[a]] = a
    BY <1>2, <1>3, <2>1
  <2>3. \A l \in DOMAIN addressOf' :
          addressOf'[l] \in DOMAIN lineOf' /\ lineOf'[addressOf'[l]] = l
    BY <1>2, <1>3, <2>1
  <2> QED
    BY <2>2, <2>3 DEF SourceMapInverse
<1>5. /\ DOMAIN lineOf \subseteq Addr
      /\ \A a \in DOMAIN lineOf : lineOf[a] \in 1 .. position - 1
      /\ DOMAIN addressOf \subseteq 1 .. position - 1
      /\ \A l \in DOMAIN addressOf : addressOf[l] \in Addr
  BY DEF IInv, TypeOK
<1>6. /\ position \in 1 .. position' - 1
      /\ 1 .. position - 1 \subseteq 1 .. position' - 1
  BY <1>1
<1>7. \A a \in DOMAIN lineOf' : lineOf'[a] \in 1 .. position' - 1
  BY <1>2, <1>5, <1>6
<1>8. DOMAIN addressOf' \subseteq 1 .. position' - 1
  BY <1>3, <1>5, <1>6
<1> QED
  BY <1>1, <1>2, <1>3, <1>4, <1>5, <1>7, <1>8

\* SymbolTable::define adds the new label at the new address and keeps the
\* rest.
LEMMA SymbolsExtended ==
  ASSUME IInv, DefineAndMap
  PROVE  /\ DOMAIN symbols' \subseteq Labels
         /\ \A l \in DOMAIN symbols' : symbols'[l] \in Symbol
         /\ \A l \in DOMAIN symbols' :
              \/ l \in DOMAIN symbols /\ symbols'[l] = symbols[l]
              \/ /\ l = Text.label
                 /\ symbols'[l].line = position
                 /\ symbols'[l].address = NextAddress
<1>1. /\ DOMAIN symbols \subseteq Labels
      /\ \A l \in DOMAIN symbols : symbols[l] \in Symbol
  BY DEF IInv, TypeOK
<1>2. /\ Text.label \in Labels \cup {NoLabel} /\ NextAddress \in Addr
      /\ position \in Nat \ {0}
  <2>1. position \in 1 .. Len(source)
    BY DefineAndMapFacts
  <2> QED
    BY <2>1, DefineAndMapFacts
<1>3. CASE Text.label = NoLabel
  <2>1. symbols' = symbols
    BY <1>3 DEF DefineAndMap
  <2> QED
    BY <1>1, <2>1
<1>4. CASE Text.label # NoLabel
  <2> DEFINE s == [address |-> NextAddress, line |-> position,
                   references |-> << >>]
  <2>1. symbols' = Insert(symbols, Text.label, s)
    BY <1>4 DEF DefineAndMap
  <2>2. s \in Symbol
    BY <1>2 DEF Symbol
  <2>3. s.address = NextAddress /\ s.line = position
    OBVIOUS
  <2> HIDE DEF s
  <2>4. /\ DOMAIN symbols' = DOMAIN symbols \cup {Text.label}
        /\ symbols'[Text.label] = s
        /\ \A l \in DOMAIN symbols :
             l # Text.label => symbols'[l] = symbols[l]
    BY <2>1 DEF Insert
  <2> QED
    BY <1>1, <1>2, <1>4, <2>2, <2>3, <2>4
<1> QED
  BY <1>3, <1>4

\* Before END every label stands on the line of an item.
LEMMA LabelsOnItems ==
  ASSUME IInv, end = NoLine, NEW l \in DOMAIN symbols
  PROVE  \E i \in 1 .. Len(items) :
           /\ items[i].label = l
           /\ items[i].line = symbols[l].line
           /\ items[i].address = symbols[l].address
<1>1. symbols[l].line \in Nat \ {0}
  BY DEF IInv, TypeOK, Symbol
<1> QED
  BY <1>1 DEF IInv, LayoutConsistent, LabelsPlaced, NoLine

\* Items have addresses and lines that are numbers.
LEMMA ItemFacts ==
  ASSUME TypeOK, NEW i \in 1 .. Len(items)
  PROVE  items[i].address \in Nat /\ items[i].line \in Nat \ {0}
<1>1. items[i] \in ItemRecord
  BY DEF TypeOK
<1>2. items[i].address \in Addr /\ items[i].line \in Nat \ {0}
  BY <1>1 DEF ItemRecord
<1> QED
  BY <1>2, MemoryWordsAssumption DEF Addr

\* END: its label and its line go one past the last item, and what was laid
\* out stays.
LEMMA EndKeeps ==
  ASSUME IInv, ParseEnd
  PROVE  IInv'
<1>1. DefineAndMap
  BY DEF ParseEnd
<1>2. /\ position' = position + 1 /\ end' = position /\ stopped' = TRUE
      /\ UNCHANGED << source, words, origin, items, trailing, diagnostics >>
  BY DEF ParseEnd, Advance
<1>3. /\ position \in Nat \ {0} /\ end = NoLine /\ Parsing
      /\ position \in 1 .. Len(source)
  <2>1. position \in 1 .. Len(source) /\ end = NoLine
    BY <1>1, DefineAndMapFacts
  <2> QED
    BY <2>1 DEF Parsing
<1>4. UNCHANGED << NextAddress, OriginAddress >>
  BY <1>2 DEF NextAddress, OriginAddress
<1>5. /\ SourceMapInverse'
      /\ DOMAIN addressOf' = DOMAIN addressOf \cup {position}
      /\ \A l \in DOMAIN addressOf : addressOf'[l] = addressOf[l]
      /\ DOMAIN lineOf' \subseteq Addr
      /\ \A a \in DOMAIN lineOf' : lineOf'[a] \in 1 .. position' - 1
      /\ DOMAIN addressOf' \subseteq 1 .. position' - 1
      /\ \A l \in DOMAIN addressOf' : addressOf'[l] \in Addr
  BY <1>1, <1>2, SourceMapExtended
<1>6. TypeOK'
  <2>1. /\ DOMAIN symbols' \subseteq Labels
        /\ \A l \in DOMAIN symbols' : symbols'[l] \in Symbol
    BY <1>1, SymbolsExtended
  <2>2. position' \in 1 .. Len(source') + 1
    BY <1>2, <1>3, OneMoreLine DEF IInv
  <2>3. end' \in Nat /\ stopped' \in BOOLEAN
    BY <1>2, <1>3
  <2>4. /\ source' \in Seq(Line) /\ origin' \in Addr \cup {NoOrigin}
        /\ items' \in Seq(ItemRecord) /\ trailing' \in Nat
        /\ words' \in Seq(Word)
        /\ diagnostics' \in Seq([code : Codes, line : Nat \ {0}])
    BY <1>2 DEF IInv, TypeOK
  <2> QED
    BY <1>5, <2>1, <2>2, <2>3, <2>4 DEF TypeOK
<1>7. ItemsConsecutive'
  BY <1>2, <1>4 DEF IInv, LayoutConsistent, ItemsConsecutive
<1>8. LabelsPlaced'
  <2> SUFFICES ASSUME NEW l \in DOMAIN symbols'
               PROVE  \/ \E i \in 1 .. Len(items) :
                           /\ items[i].label = l
                           /\ items[i].line = symbols'[l].line
                           /\ items[i].address = symbols'[l].address
                      \/ symbols'[l].line = end' /\ symbols'[l].address = NextAddress
    BY <1>2, <1>4 DEF LabelsPlaced
  <2>1. CASE l \in DOMAIN symbols /\ symbols'[l] = symbols[l]
    BY <1>3, <2>1, LabelsOnItems
  <2>2. CASE symbols'[l].line = position /\ symbols'[l].address = NextAddress
    BY <1>2, <2>2
  <2> QED
    BY <1>1, <2>1, <2>2, SymbolsExtended
<1>9. SourceMapComplete'
  <2>1. /\ \A i \in 1 .. Len(items) :
             items[i].line \in DOMAIN addressOf
               /\ addressOf[items[i].line] = items[i].address
        /\ DOMAIN addressOf
             = { items[i].line : i \in 1 .. Len(items) } \cup ({end} \ {NoLine})
    BY DEF IInv, LayoutConsistent, SourceMapComplete
  <2>2. \A i \in 1 .. Len(items') :
          items'[i].line \in DOMAIN addressOf'
            /\ addressOf'[items'[i].line] = items'[i].address
    BY <1>2, <1>5, <2>1
  <2>3. {end'} \ {NoLine} = {position} /\ {end} \ {NoLine} = {}
    BY <1>2, <1>3 DEF NoLine
  <2>4. DOMAIN addressOf'
          = { items'[i].line : i \in 1 .. Len(items') } \cup ({end'} \ {NoLine})
    BY <1>2, <1>5, <2>1, <2>3
  <2> QED
    BY <2>2, <2>4 DEF SourceMapComplete
<1>10. Bounded'
  <2>1. \A i \in 1 .. Len(items) : items[i].line < position'
    <3> TAKE i \in 1 .. Len(items)
    <3>1. items[i].line \in Nat
      BY ItemFacts DEF IInv
    <3>2. items[i].line < position
      BY DEF IInv, Bounded
    <3> QED
      BY <1>2, <1>3, <3>1, <3>2
  <2>2. NextAddress' <= MemoryWords
    BY <1>4 DEF IInv, Bounded
  <2>3. end' < position'
    BY <1>2, <1>3
  <2> QED
    BY <1>2, <2>1, <2>2, <2>3 DEF Bounded
<1> QED
  BY <1>5, <1>6, <1>7, <1>8, <1>9, <1>10 DEF IInv, LayoutConsistent

\* Any other statement: one item more, at the address its line and its label
\* are given.
LEMMA ItemKeeps ==
  ASSUME IInv, ParseItem
  PROVE  IInv'
<1> DEFINE item == [label |-> Text.label, mnemonic |-> Text.mnemonic,
                    operand |-> Text.operand, address |-> NextAddress,
                    line |-> position]
           n == Len(items)
<1>1. DefineAndMap
  BY DEF ParseItem
<1>2. /\ position' = position + 1 /\ items' = Append(items, item)
      /\ UNCHANGED << source, words, origin, end, trailing, stopped,
                      diagnostics >>
  BY DEF ParseItem, Advance
<1>3. /\ position \in Nat \ {0} /\ end = NoLine /\ Parsing
      /\ position \in 1 .. Len(source) /\ NextAddress \in Addr
  <2>1. /\ position \in 1 .. Len(source) /\ end = NoLine
        /\ NextAddress \in Addr
    BY <1>1, DefineAndMapFacts
  <2> QED
    BY <2>1 DEF Parsing
<1>4. item \in ItemRecord
  <2>1. /\ Text.label \in Labels \cup {NoLabel}
        /\ Text.mnemonic \in Mnemonic /\ Text.operand \in Operand
    BY <1>1, DefineAndMapFacts
  <2>2. Text.mnemonic # "End"
    BY DEF ParseItem
  <2> QED
    BY <1>3, <2>1, <2>2 DEF ItemRecord
<1>5. /\ item.label = Text.label /\ item.line = position
      /\ item.address = NextAddress
  OBVIOUS
<1> HIDE DEF item
<1>6. items \in Seq(ItemRecord) /\ n \in Nat
  BY DEF IInv, TypeOK
<1>7. /\ items' \in Seq(ItemRecord) /\ Len(items') = n + 1
      /\ items'[n + 1] = item
      /\ \A i \in 1 .. n : items'[i] = items[i]
  BY <1>2, <1>4, <1>6
<1>8. OriginAddress' = OriginAddress /\ OriginAddress \in Nat
  BY <1>2, MemoryWordsAssumption DEF IInv, TypeOK, OriginAddress, Addr, NoOrigin
<1>9. 1 .. n + 1 = (1 .. n) \cup {n + 1}
  BY <1>6
<1> HIDE DEF n
<1>10. NextAddress = OriginAddress + n /\ NextAddress' = OriginAddress + n + 1
  BY <1>6, <1>7, <1>8 DEF NextAddress, n
<1>11. /\ SourceMapInverse'
       /\ DOMAIN addressOf' = DOMAIN addressOf \cup {position}
       /\ addressOf'[position] = NextAddress
       /\ \A l \in DOMAIN addressOf : addressOf'[l] = addressOf[l]
       /\ DOMAIN lineOf' \subseteq Addr
       /\ \A a \in DOMAIN lineOf' : lineOf'[a] \in 1 .. position' - 1
       /\ DOMAIN addressOf' \subseteq 1 .. position' - 1
       /\ \A l \in DOMAIN addressOf' : addressOf'[l] \in Addr
  BY <1>1, <1>2, SourceMapExtended
<1>12. TypeOK'
  <2>1. /\ DOMAIN symbols' \subseteq Labels
        /\ \A l \in DOMAIN symbols' : symbols'[l] \in Symbol
    BY <1>1, SymbolsExtended
  <2>2. position' \in 1 .. Len(source') + 1
    BY <1>2, <1>3, OneMoreLine DEF IInv
  <2>3. /\ source' \in Seq(Line) /\ origin' \in Addr \cup {NoOrigin}
        /\ end' \in Nat /\ trailing' \in Nat /\ stopped' \in BOOLEAN
        /\ words' \in Seq(Word)
        /\ diagnostics' \in Seq([code : Codes, line : Nat \ {0}])
    BY <1>2 DEF IInv, TypeOK
  <2> QED
    BY <1>7, <1>11, <2>1, <2>2, <2>3 DEF TypeOK
<1>13. ItemsConsecutive'
  <2>1. \A i \in 1 .. n + 1 : items'[i].address = OriginAddress + i - 1
    <3>1. \A i \in 1 .. n : items[i].address = OriginAddress + i - 1
      BY DEF IInv, LayoutConsistent, ItemsConsecutive, n
    <3>2. item.address = OriginAddress + (n + 1) - 1
      BY <1>5, <1>6, <1>8, <1>10 DEF n
    <3> QED
      BY <1>7, <1>9, <3>1, <3>2
  <2>2. \A i, j \in 1 .. n + 1 : i < j => items'[i].line < items'[j].line
    <3> SUFFICES ASSUME NEW i \in 1 .. n + 1, NEW j \in 1 .. n + 1, i < j
                 PROVE  items'[i].line < items'[j].line
      OBVIOUS
    <3>1. n \in Nat
      BY <1>6 DEF n
    <3>2. i \in 1 .. n
      BY <3>1
    <3>3. CASE j = n + 1
      <4>1. items[i].line < position
        BY <3>2 DEF IInv, Bounded, n
      <4> QED
        BY <1>5, <1>7, <3>2, <3>3, <4>1
    <3>4. CASE j \in 1 .. n
      <4>1. items[i].line < items[j].line
        BY <3>2, <3>4 DEF IInv, LayoutConsistent, ItemsConsecutive, n
      <4> QED
        BY <1>7, <3>2, <3>4, <4>1
    <3> QED
      BY <1>9, <3>3, <3>4
  <2> QED
    BY <1>7, <1>8, <2>1, <2>2 DEF ItemsConsecutive
<1>14. LabelsPlaced'
  <2> SUFFICES ASSUME NEW l \in DOMAIN symbols'
               PROVE  \E i \in 1 .. n + 1 :
                        /\ items'[i].label = l
                        /\ items'[i].line = symbols'[l].line
                        /\ items'[i].address = symbols'[l].address
    BY <1>7 DEF LabelsPlaced
  <2>1. CASE l \in DOMAIN symbols /\ symbols'[l] = symbols[l]
    <3>1. PICK i \in 1 .. n :
            /\ items[i].label = l
            /\ items[i].line = symbols[l].line
            /\ items[i].address = symbols[l].address
      BY <1>3, <2>1, LabelsOnItems DEF n
    <3>2. i \in 1 .. n + 1 /\ items'[i] = items[i]
      BY <1>7, <1>9, <3>1
    <3> QED
      BY <2>1, <3>1, <3>2
  <2>2. CASE /\ l = Text.label
             /\ symbols'[l].line = position
             /\ symbols'[l].address = NextAddress
    <3>1. n + 1 \in 1 .. n + 1 /\ items'[n + 1] = item
      BY <1>7, <1>9
    <3> QED
      BY <1>5, <2>2, <3>1
  <2> QED
    BY <1>1, <2>1, <2>2, SymbolsExtended
<1>15. SourceMapComplete'
  <2>1. /\ \A i \in 1 .. n :
             items[i].line \in DOMAIN addressOf
               /\ addressOf[items[i].line] = items[i].address
        /\ DOMAIN addressOf
             = { items[i].line : i \in 1 .. n } \cup ({end} \ {NoLine})
    BY DEF IInv, LayoutConsistent, SourceMapComplete, n
  <2>2. \A i \in 1 .. n + 1 :
          items'[i].line \in DOMAIN addressOf'
            /\ addressOf'[items'[i].line] = items'[i].address
    BY <1>5, <1>7, <1>9, <1>11, <2>1
  <2>3. {end'} \ {NoLine} = {} /\ {end} \ {NoLine} = {}
    BY <1>2, <1>3
  <2>4. { items'[i].line : i \in 1 .. n + 1 }
          = { items[i].line : i \in 1 .. n } \cup {position}
    BY <1>5, <1>7, <1>9
  <2>5. DOMAIN addressOf'
          = { items'[i].line : i \in 1 .. n + 1 } \cup ({end'} \ {NoLine})
    BY <1>11, <2>1, <2>3, <2>4
  <2> QED
    BY <1>7, <2>2, <2>5 DEF SourceMapComplete
<1>16. Bounded'
  <2>1. \A i \in 1 .. n + 1 : items'[i].line < position'
    <3> TAKE i \in 1 .. n + 1
    <3>1. CASE i = n + 1
      BY <1>2, <1>3, <1>5, <1>7, <3>1
    <3>2. CASE i \in 1 .. n
      <4>1. items[i].line \in Nat
        BY <3>2, ItemFacts DEF IInv, n
      <4>2. items[i].line < position
        BY <3>2 DEF IInv, Bounded, n
      <4> QED
        BY <1>2, <1>3, <1>7, <3>2, <4>1, <4>2
    <3> QED
      BY <1>9, <3>1, <3>2
  <2>2. NextAddress' <= MemoryWords
    <3>1. NextAddress' = NextAddress + 1
      BY <1>6, <1>8, <1>10 DEF n
    <3> QED
      BY <1>3, <3>1, MemoryWordsAssumption DEF Addr
  <2>3. end' < position'
    BY <1>2, <1>3 DEF NoLine
  <2>4. ~stopped' => end' = NoLine
    BY <1>2, <1>3
  <2> QED
    BY <1>7, <2>1, <2>2, <2>3, <2>4 DEF Bounded
<1> QED
  BY <1>11, <1>12, <1>13, <1>14, <1>15, <1>16 DEF IInv, LayoutConsistent

\* The second pass looks at an item.
LEMMA ItemAssembled ==
  ASSUME IInv, AssembleItem
  PROVE  Item \in ItemRecord /\ Len(words) + 1 \in 1 .. Len(items)
<1>1. /\ words \in Seq(Word) /\ items \in Seq(ItemRecord)
      /\ Len(words) < Len(items)
  BY DEF IInv, TypeOK, AssembleItem, Assembling
<1>2. Len(words) \in Nat /\ Len(items) \in Nat
  BY <1>1
<1>3. Len(words) + 1 \in 1 .. Len(items)
  BY <1>1, <1>2
<1> QED
  BY <1>1, <1>3 DEF Item

\* It notes who refers to a label and moves none.
LEMMA OnlyReferences ==
  ASSUME IInv, AssembleItem
  PROVE  /\ DOMAIN symbols' = DOMAIN symbols
         /\ \A l \in DOMAIN symbols :
              /\ symbols'[l] \in Symbol
              /\ symbols'[l].address = symbols[l].address
              /\ symbols'[l].line = symbols[l].line
<1>1. \A l \in DOMAIN symbols : symbols[l] \in Symbol
  BY DEF IInv, TypeOK
<1>2. CASE ~Referenced(Item)
  <2>1. symbols' = symbols
    BY <1>2 DEF AssembleItem
  <2> QED
    BY <1>1, <2>1
<1>3. CASE Referenced(Item)
  <2>1. symbols' = [symbols EXCEPT ![Item.operand.text].references =
                      Append(@, Item.line)]
    BY <1>3 DEF AssembleItem
  <2>2. Item.line \in Nat \ {0}
    BY ItemAssembled DEF ItemRecord
  <2>3. DOMAIN symbols' = DOMAIN symbols
    BY <2>1
  <2>4. ASSUME NEW l \in DOMAIN symbols
        PROVE  /\ symbols'[l] \in Symbol
               /\ symbols'[l].address = symbols[l].address
               /\ symbols'[l].line = symbols[l].line
    <3>1. symbols[l] \in Symbol
      BY <1>1
    <3>2. CASE l # Item.operand.text
      <4>1. symbols'[l] = symbols[l]
        BY <2>1, <3>2
      <4> QED
        BY <3>1, <4>1
    <3>3. CASE l = Item.operand.text
      <4>1. symbols'[l] = [symbols[l] EXCEPT !.references =
                             Append(symbols[l].references, Item.line)]
        BY <2>1, <3>3
      <4>2. Append(symbols[l].references, Item.line) \in Seq(Nat \ {0})
        <5>1. symbols[l].references \in Seq(Nat \ {0})
          BY <3>1 DEF Symbol
        <5> QED
          BY <2>2, <5>1
      <4> QED
        BY <3>1, <4>1, <4>2 DEF Symbol
    <3> QED
      BY <3>2, <3>3
  <2> QED
    BY <2>3, <2>4
<1> QED
  BY <1>2, <1>3

\* The second pass moves nothing: it appends a word, and notes references
\* and faults.
LEMMA AssembleKeeps ==
  ASSUME IInv, AssembleItem
  PROVE  IInv'
<1>1. UNCHANGED << source, position, origin, items, end, trailing, stopped,
                   lineOf, addressOf, NextAddress, OriginAddress >>
  BY DEF AssembleItem, program, map, NextAddress, OriginAddress
<1>2. Item \in ItemRecord
  BY ItemAssembled
<1>3. words' \in Seq(Word)
  <2>1. \A l \in DOMAIN symbols : symbols[l].address \in Addr
    BY DEF IInv, TypeOK, Symbol
  <2>2. WordFor(Item) \in Word
    BY <1>2, <2>1, WordFacts
  <2>3. words \in Seq(Word) /\ words' = Append(words, WordFor(Item))
    BY DEF IInv, TypeOK, AssembleItem
  <2> QED
    BY <2>2, <2>3
<1>4. diagnostics' \in Seq([code : Codes, line : Nat \ {0}])
  <2>1. diagnostics \in DiagnosticList
    BY DEF IInv, TypeOK, DiagnosticList
  <2>2. CASE Fault(Item) = "None"
    BY <2>1, <2>2 DEF AssembleItem, DiagnosticList
  <2>3. CASE Fault(Item) # "None"
    <3>1. Fault(Item) \in Codes
      BY <2>3, FaultFacts
    <3>2. Item.line \in Nat \ {0}
      BY <1>2 DEF ItemRecord
    <3>3. Report(Fault(Item), Item.line)
      BY <2>3 DEF AssembleItem
    <3> QED
      BY <2>1, <3>1, <3>2, <3>3, ReportFacts DEF DiagnosticList
  <2> QED
    BY <2>2, <2>3
<1>5. /\ DOMAIN symbols' = DOMAIN symbols
      /\ \A l \in DOMAIN symbols :
           /\ symbols'[l] \in Symbol
           /\ symbols'[l].address = symbols[l].address
           /\ symbols'[l].line = symbols[l].line
  BY OnlyReferences
<1>6. TypeOK'
  BY <1>1, <1>3, <1>4, <1>5 DEF IInv, TypeOK
<1>7. LayoutConsistent'
  <2>1. ItemsConsecutive'
    BY <1>1 DEF IInv, LayoutConsistent, ItemsConsecutive
  <2>2. LabelsPlaced'
    BY <1>1, <1>5 DEF IInv, LayoutConsistent, LabelsPlaced
  <2>3. SourceMapInverse' /\ SourceMapComplete'
    BY <1>1 DEF IInv, LayoutConsistent, SourceMapInverse, SourceMapComplete
  <2> QED
    BY <2>1, <2>2, <2>3 DEF LayoutConsistent
<1>8. Bounded'
  BY <1>1 DEF IInv, Bounded
<1> QED
  BY <1>6, <1>7, <1>8 DEF IInv

-----------------------------------------------------------------------------
(* The theorems.                                                           *)

\* Nothing is laid out before the first line is read.
LEMMA InitFacts ==
  ASSUME Init
  PROVE  IInv
<1>1. source \in Seq(Line)
  BY LabelsAssumption DEF Init
<1>2. Len(source) \in Nat /\ MemoryWords \in Nat \ {0}
  BY <1>1, MemoryWordsAssumption
<1>3. /\ position = 1 /\ end = 0 /\ trailing = 0 /\ stopped = FALSE
      /\ origin = NoOrigin
      /\ items = << >> /\ symbols = << >> /\ words = << >>
      /\ lineOf = << >> /\ addressOf = << >> /\ diagnostics = << >>
  BY DEF Init, NoLine
<1>4. /\ DOMAIN symbols = {} /\ DOMAIN lineOf = {} /\ DOMAIN addressOf = {}
      /\ Len(items) = 0 /\ 1 .. Len(items) = {}
  BY <1>3
<1>5. TypeOK
  <2>1. items \in Seq(ItemRecord) /\ words \in Seq(Word)
        /\ diagnostics \in Seq([code : Codes, line : Nat \ {0}])
    BY <1>3
  <2>2. position \in 1 .. Len(source) + 1
    BY <1>2, <1>3
  <2>3. end \in Nat /\ trailing \in Nat /\ stopped \in BOOLEAN
    BY <1>3
  <2>4. DOMAIN symbols \subseteq Labels /\ DOMAIN lineOf \subseteq Addr
        /\ DOMAIN addressOf \subseteq 1 .. position - 1
    BY <1>4
  <2>5. /\ \A l \in DOMAIN symbols : symbols[l] \in Symbol
        /\ \A a \in DOMAIN lineOf : lineOf[a] \in 1 .. position - 1
        /\ \A l \in DOMAIN addressOf : addressOf[l] \in Addr
    BY <1>4
  <2>6. origin \in Addr \cup {NoOrigin}
    BY <1>3
  <2> QED
    BY <1>1, <2>1, <2>2, <2>3, <2>4, <2>5, <2>6 DEF TypeOK
<1>6. LayoutConsistent
  <2>1. ItemsConsecutive /\ LabelsPlaced /\ SourceMapInverse
    BY <1>4 DEF ItemsConsecutive, LabelsPlaced, SourceMapInverse
  <2>2. SourceMapComplete
    BY <1>3, <1>4 DEF SourceMapComplete, NoLine
  <2> QED
    BY <2>1, <2>2 DEF LayoutConsistent
<1>7. Bounded
  <2>1. OriginAddress = 0
    BY <1>3 DEF OriginAddress
  <2>2. NextAddress = 0
    BY <1>4, <2>1, PlusZero DEF NextAddress
  <2> QED
    BY <1>2, <1>3, <1>4, <2>2 DEF Bounded, NoLine
<1> QED
  BY <1>5, <1>6, <1>7 DEF IInv

\* Every step of either pass keeps the invariant.
LEMMA StepKeeps ==
  ASSUME IInv, [Next]_vars
  PROVE  IInv'
<1>0. diagnostics \in DiagnosticList /\ trailing \in Nat /\ stopped \in BOOLEAN
  BY DEF IInv, TypeOK, DiagnosticList
<1>1. CASE SkipDeadLine
  <2>1. position \in Nat
    BY DEF IInv, TypeOK
  <2>2. trailing' \in Nat
    BY <1>0, <1>1, <2>1 DEF SkipDeadLine
  <2>3. /\ Parsing /\ Advance /\ stopped' = stopped
        /\ diagnostics' = diagnostics
        /\ UNCHANGED << origin, items, end, symbols, map >>
    BY <1>1 DEF SkipDeadLine
  <2> QED
    BY <1>0, <2>2, <2>3, PassesOver
<1>2. CASE SkipBlankLine
  <2>1. /\ Parsing /\ Advance /\ stopped' = stopped /\ trailing' = trailing
        /\ diagnostics' = diagnostics
        /\ UNCHANGED << origin, items, end, symbols, map >>
    BY <1>2 DEF SkipBlankLine, Reads, program
  <2> QED
    BY <1>0, <2>1, PassesOver
<1>3. ASSUME NEW code \in Codes, Parsing, Advance,
             Report(code, position),
             UNCHANGED << origin, items, end, trailing, symbols, map >>,
             stopped' \in BOOLEAN, stopped => stopped'
      PROVE  IInv'
  <2>1. position \in Nat \ {0}
    BY DEF IInv, TypeOK
  <2>2. diagnostics' \in DiagnosticList
    BY <1>0, <1>3, <2>1, ReportFacts
  <2> QED
    BY <1>0, <1>3, <2>2, PassesOver
<1>4. CASE RejectMalformedLine
  <2>1. "MALFORMED_LINE" \in Codes
    BY DEF Codes
  <2> QED
    BY <1>0, <1>3, <1>4, <2>1 DEF RejectMalformedLine, Reads, program
<1>5. CASE ParseOrigin
  BY <1>5, OriginPlacesNothing
<1>6. CASE RejectOrigin
  <2>1. "UNEXPECTED_ORIGIN" \in Codes
    BY DEF Codes
  <2> QED
    BY <1>0, <1>3, <1>6, <2>1 DEF RejectOrigin, Reads, program
<1>7. CASE RefuseTooLarge
  <2>1. "PROGRAM_TOO_LARGE" \in Codes
    BY DEF Codes
  <2> QED
    BY <1>0, <1>3, <1>7, <2>1 DEF RefuseTooLarge, Reads
<1>8. CASE SkipRejectedLabel
  <2>1. LabelFault \in Codes
    BY <1>8 DEF SkipRejectedLabel, LabelFault, Codes
  <2> QED
    BY <1>0, <1>3, <1>8, <2>1 DEF SkipRejectedLabel, Reads, program
<1>9. CASE ParseEnd
  BY <1>9, EndKeeps
<1>10. CASE ParseItem
  BY <1>10, ItemKeeps
<1>11. CASE AssembleItem
  BY <1>11, AssembleKeeps
<1>12. CASE UNCHANGED vars
  <2>1. UNCHANGED << source, position, origin, items, end, trailing, stopped,
                     symbols, lineOf, addressOf, words, diagnostics,
                     NextAddress, OriginAddress >>
    BY <1>12 DEF vars, program, map, NextAddress, OriginAddress
  <2>2. TypeOK'
    BY <2>1 DEF IInv, TypeOK
  <2>3. LayoutConsistent'
    BY <2>1 DEF IInv, LayoutConsistent, ItemsConsecutive, LabelsPlaced,
       SourceMapInverse, SourceMapComplete
  <2>4. Bounded'
    BY <2>1 DEF IInv, Bounded
  <2> QED
    BY <2>2, <2>3, <2>4 DEF IInv
<1> QED
  BY <1>1, <1>2, <1>4, <1>5, <1>6, <1>7, <1>8, <1>9, <1>10, <1>11, <1>12
     DEF Next, PassOne

\* The inductive invariant of the two passes.
THEOREM AssemblerInvariance == Spec => []IInv
<1>1. Init => IInv
  BY InitFacts
<1>2. IInv /\ [Next]_vars => IInv'
  BY StepKeeps
<1> QED
  BY <1>1, <1>2, PTL DEF Spec

\* Every address that is handed out is an address of the machine and every
\* word a word of it, for every source file.
THEOREM AssemblerTypes == Spec => []TypeOK
<1>1. IInv => TypeOK
  BY DEF IInv
<1> QED
  BY <1>1, AssemblerInvariance, PTL

\* Addresses, labels, items and source map tell the same story at every
\* point of both passes, for every source file, whatever is wrong with it.
THEOREM LayoutIsConsistent == Spec => []LayoutConsistent
<1>1. IInv => LayoutConsistent
  BY DEF IInv
<1> QED
  BY <1>1, AssemblerInvariance, PTL

-----------------------------------------------------------------------------
(* What a file means, and counting its lines.                              *)

\* The one line of a set that has one.
One(S) == CHOOSE i \in S : TRUE

\* What a source file means does not change while it is read.
LEMMA MeaningStays ==
  ASSUME source' = source
  PROVE  /\ EndLines' = EndLines /\ Live' = Live /\ FirstEnd' = FirstEnd
         /\ WordLines' = WordLines /\ OrgLines' = OrgLines
         /\ BaseAddress' = BaseAddress
         /\ \A i : AddressOfLine(i)' = AddressOfLine(i)
         /\ \A l : LabelLines(l)' = LabelLines(l)
         /\ \A s : WellFormedStatement(s)' <=> WellFormedStatement(s)
         /\ \A s : MeaningOfStatement(s)' = MeaningOfStatement(s)
         /\ WellFormed' <=> WellFormed
<1>1. EndLines' = EndLines
  BY DEF EndLines, IsEnd, IsStatement
<1>2. Live' = Live
  BY <1>1 DEF Live
<1>3. FirstEnd' = FirstEnd
  BY <1>1 DEF FirstEnd
<1>4. WordLines' = WordLines /\ OrgLines' = OrgLines
  BY <1>2 DEF WordLines, OrgLines, IsStatement
<1>5. BaseAddress' = BaseAddress
  <2>1. BaseAddress = IF OrgLines = {} THEN 0 ELSE source[One(OrgLines)].address
    BY DEF BaseAddress, One
  <2>2. BaseAddress'
          = IF OrgLines' = {} THEN 0 ELSE source'[One(OrgLines')].address
    BY DEF BaseAddress, One
  <2> QED
    BY <1>4, <2>1, <2>2
<1>6. \A i : AddressOfLine(i)' = AddressOfLine(i)
  BY <1>4, <1>5 DEF AddressOfLine
<1>7. \A l : LabelLines(l)' = LabelLines(l)
  BY <1>3, <1>4 DEF LabelLines
<1>8. \A s : WellFormedStatement(s)' <=> WellFormedStatement(s)
  BY <1>7 DEF WellFormedStatement, WellFormedOperand, Defined
<1>9. \A s : MeaningOfStatement(s)' = MeaningOfStatement(s)
  <2>1. ASSUME NEW l PROVE MeaningOfLabel(l)' = MeaningOfLabel(l)
    <3>1. MeaningOfLabel(l) = AddressOfLine(One(LabelLines(l)))
      BY DEF MeaningOfLabel, One
    <3>2. MeaningOfLabel(l)'
            = BaseAddress' + Cardinality({ j \in WordLines' : j < One(LabelLines(l)') })
      BY DEF MeaningOfLabel, AddressOfLine, One
    <3>3. MeaningOfLabel(l)
            = BaseAddress + Cardinality({ j \in WordLines : j < One(LabelLines(l)) })
      BY <3>1 DEF AddressOfLine
    <3> QED
      BY <1>4, <1>5, <1>7, <3>2, <3>3
  <2>2. ASSUME NEW o PROVE Value(o)' = Value(o)
    <3>1. MeaningOfLabel(o.text)' = MeaningOfLabel(o.text)
      BY <2>1
    <3> QED
      BY <3>1, Zenon DEF Value
  <2>3. ASSUME NEW s PROVE MeaningOfStatement(s)' = MeaningOfStatement(s)
    <3>1. Value(s.operand)' = Value(s.operand)
      BY <2>2
    <3> QED
      BY <3>1, Zenon DEF MeaningOfStatement
  <2> QED
    BY <2>3
<1>10. WellFormed' <=> WellFormed
  BY <1>2, <1>3, <1>4, <1>6, <1>7, <1>8 DEF WellFormed
<1> QED
  BY <1>1, <1>2, <1>3, <1>4, <1>5, <1>6, <1>7, <1>8, <1>9, <1>10

\* Counting the elements of a set of lines below a line.
LEMMA CountBelow ==
  ASSUME NEW n \in Nat, NEW W \in SUBSET (1 .. n), NEW p \in Nat
  PROVE  /\ IsFiniteSet({ j \in W : j < p })
         /\ Cardinality({ j \in W : j < p }) \in Nat
         /\ p \in W => Cardinality({ j \in W : j < p + 1 })
                          = Cardinality({ j \in W : j < p }) + 1
         /\ p \notin W => { j \in W : j < p + 1 } = { j \in W : j < p }
<1> DEFINE B == { j \in W : j < p }
<1>1. IsFiniteSet(1 .. n)
  BY FS_Interval
<1>2. IsFiniteSet(B) /\ B \subseteq 1 .. n
  BY <1>1, FS_Subset
<1>3. Cardinality(B) \in Nat
  BY <1>2, FS_CardinalityType
<1>a. \A j \in W : j < p + 1 <=> j < p \/ j = p
  <2> TAKE j \in W
  <2>1. j \in Int
    OBVIOUS
  <2> QED
    BY <2>1
<1>4. ASSUME p \in W
      PROVE  Cardinality({ j \in W : j < p + 1 }) = Cardinality(B) + 1
  <2>1. { j \in W : j < p + 1 } = B \cup {p}
    BY <1>a, <1>4
  <2>2. p \notin B
    OBVIOUS
  <2> QED
    BY <1>2, <2>1, <2>2, FS_AddElement
<1>5. ASSUME p \notin W
      PROVE  { j \in W : j < p + 1 } = B
  BY <1>a, <1>5
<1> QED
  BY <1>2, <1>3, <1>4, <1>5

\* A set has at most one element if and only if no two differ.
LEMMA AtMostOne ==
  ASSUME NEW S, IsFiniteSet(S)
  PROVE  Cardinality(S) <= 1 <=> \A i, j \in S : i = j
<1>1. ASSUME NEW i \in S, NEW j \in S, i # j, Cardinality(S) <= 1
      PROVE  FALSE
  <2>1. IsFiniteSet({i}) /\ Cardinality({i}) = 1
    BY FS_Singleton
  <2>2. Cardinality({i} \cup {j}) = 2
    BY <1>1, <2>1, FS_AddElement
  <2>3. {i} \cup {j} \subseteq S
    OBVIOUS
  <2>4. Cardinality({i} \cup {j}) <= Cardinality(S)
    BY <2>3, FS_Subset
  <2>5. Cardinality(S) \in Nat
    BY FS_CardinalityType
  <2> QED
    BY <1>1, <2>2, <2>4, <2>5
<1>2. ASSUME \A i, j \in S : i = j
      PROVE  Cardinality(S) <= 1
  <2>1. CASE S = {}
    BY <2>1, FS_EmptySet
  <2>2. CASE S # {}
    <3>1. PICK i \in S : TRUE
      BY <2>2
    <3>2. S = {i}
      BY <1>2, <3>1
    <3>3. Cardinality(S) = 1
      BY <3>2, FS_Singleton
    <3> QED
      BY <3>3
  <2> QED
    BY <2>1, <2>2
<1> QED
  BY <1>1, <1>2

-----------------------------------------------------------------------------
(* What both passes have made of the lines they have read.                 *)

\* The lines before a line that become words, and where they put it.
WordsBefore(i) == { j \in WordLines : j < i }
PlaceOf(i) == OriginAddress + Cardinality(WordsBefore(i))

\* The first pass stops at the first END, and no line was malformed.
LinesRead ==
  /\ stopped <=> \E e \in EndLines : e < position
  /\ \A i \in Live : i < position => source[i].form # "Malformed"

\* The origin is that of the one ORG, which came before every word.
OriginRead ==
  /\ \A k \in OrgLines : k < position => origin = source[k].address
  /\ origin # NoOrigin => \E k \in OrgLines : k < position
  /\ \A k, m \in OrgLines : k < position /\ m < position => k = m
  /\ \A k \in OrgLines, j \in WordLines : k < position /\ j < position => k < j

\* The items are the lines that become words, in their order.
ItemOfLine(k, i) ==
  /\ i \in WordsBefore(position)
  /\ Cardinality(WordsBefore(i)) = k - 1
  /\ source[i].label = items[k].label
  /\ source[i].mnemonic = items[k].mnemonic
  /\ source[i].operand = items[k].operand

ItemsRead ==
  /\ Len(items) = Cardinality(WordsBefore(position))
  /\ \A i \in WordsBefore(position) : \E k \in 1 .. Len(items) : items[k].line = i
  /\ \A k \in 1 .. Len(items) : ItemOfLine(k, items[k].line)

\* The symbols are the labels of those lines and of END, each where its line
\* is placed.
LabelsRead ==
  /\ \A i \in WordLines \cup FirstEnd : i < position =>
       /\ PlaceOf(i) \in Addr
       /\ source[i].label \in DOMAIN symbols \cup {NoLabel}
       /\ source[i].label # NoLabel => symbols[source[i].label].line = i
  /\ \A l \in DOMAIN symbols :
       /\ symbols[l].line \in LabelLines(l) /\ symbols[l].line < position
       /\ symbols[l].address = PlaceOf(symbols[l].line)

\* The words are what the lines mean.
WordsRead ==
  /\ Len(words) <= Len(items)
  /\ words # << >> => ~Parsing
  /\ \A k \in 1 .. Len(words) :
       /\ WellFormedStatement(source[items[k].line])
       /\ words[k] = MeaningOfStatement(source[items[k].line])

\* What the first pass has made of the lines it has read.
LayoutRead == LinesRead /\ OriginRead /\ ItemsRead /\ LabelsRead

ReadAsMeant == LayoutRead /\ WordsRead

\* Without an error so far, what was read is what it means; with one, the
\* file is not well formed.
Meant == IF diagnostics = << >> THEN ReadAsMeant ELSE ~WellFormed

-----------------------------------------------------------------------------
(* Facts about the lines of a source file.                                 *)

\* The lines that count are lines of the file; those of a label and of an ORG
\* can be counted.
LEMMA LinesFacts ==
  ASSUME source \in Seq(Line)
  PROVE  /\ Len(source) \in Nat
         /\ EndLines \subseteq 1 .. Len(source)
         /\ WordLines \in SUBSET (1 .. Len(source))
         /\ FirstEnd \subseteq EndLines
         /\ OrgLines \subseteq 1 .. Len(source)
         /\ IsFiniteSet(OrgLines)
         /\ \A l : LabelLines(l) \subseteq 1 .. Len(source) /\ IsFiniteSet(LabelLines(l))
         /\ \A k \in OrgLines : source[k].address \in Addr
         /\ BaseAddress \in Nat
<1>1. Len(source) \in Nat
  OBVIOUS
<1>2. /\ EndLines \subseteq 1 .. Len(source) /\ FirstEnd \subseteq EndLines
      /\ WordLines \subseteq 1 .. Len(source) /\ OrgLines \subseteq 1 .. Len(source)
  BY DEF EndLines, FirstEnd, WordLines, OrgLines, Live
<1>3. IsFiniteSet(1 .. Len(source))
  BY <1>1, FS_Interval
<1>4. \A l : LabelLines(l) \subseteq 1 .. Len(source)
  BY <1>2 DEF LabelLines
<1>5. \A k \in OrgLines : source[k].address \in Addr
  <2> TAKE k \in OrgLines
  <2>1. source[k] \in Line /\ source[k].form = "Origin"
    BY <1>2 DEF OrgLines
  <2> QED
    BY <2>1, OriginFacts
<1>6. BaseAddress \in Nat
  <2>1. CASE OrgLines = {}
    BY <2>1 DEF BaseAddress
  <2>2. CASE OrgLines # {}
    <3>1. (CHOOSE i \in OrgLines : TRUE) \in OrgLines
      BY <2>2
    <3>2. source[CHOOSE i \in OrgLines : TRUE].address \in Addr
      BY <1>5, <3>1
    <3> QED
      BY <2>2, <3>2, MemoryWordsAssumption DEF BaseAddress, Addr
  <2> QED
    BY <2>1, <2>2
<1> QED
  BY <1>1, <1>2, <1>3, <1>4, <1>5, <1>6, FS_Subset

\* The line read next, while nothing has ended the file: which of the lines
\* that count it is.
LEMMA NextLine ==
  ASSUME TypeOK, LinesRead, Parsing, ~stopped
  PROVE  /\ position \in 1 .. Len(source)
         /\ \A e \in EndLines : position <= e
         /\ Text.form = "Malformed" => position \in Live
         /\ Text.form = "Origin" <=> position \in OrgLines
         /\ Text.form = "Statement" /\ Text.mnemonic # "End" <=> position \in WordLines
         /\ Text.form = "Statement" /\ Text.mnemonic = "End" <=> position \in FirstEnd
         /\ position \in EndLines <=> position \in FirstEnd
<1>1. position \in 1 .. Len(source) /\ source \in Seq(Line) /\ Len(source) \in Nat
  BY DEF TypeOK, Parsing
<1>2. \A e \in EndLines : e \in Int /\ position <= e
  <2> TAKE e \in EndLines
  <2>1. e \in 1 .. Len(source)
    BY DEF EndLines
  <2>2. ~(e < position)
    BY DEF LinesRead
  <2> QED
    BY <1>1, <2>1, <2>2
<1>3. position \in EndLines <=> Text.form = "Statement" /\ Text.mnemonic = "End"
  BY <1>1 DEF EndLines, IsEnd, IsStatement, Text
<1>4. position \in EndLines <=> position \in FirstEnd
  BY <1>2 DEF FirstEnd
<1>5. position \in Live <=> position \notin EndLines
  <2>1. ASSUME position \notin EndLines PROVE position \in Live
    <3>1. \A e \in EndLines : position < e
      BY <1>1, <1>2, <2>1
    <3> QED
      BY <1>1, <3>1 DEF Live
  <2>2. ASSUME position \in EndLines PROVE position \notin Live
    BY <1>1, <2>2 DEF Live
  <2> QED
    BY <2>1, <2>2
<1>6. Text = source[position]
  BY DEF Text
<1>7. position \in WordLines <=> Text.form = "Statement" /\ Text.mnemonic # "End"
  BY <1>3, <1>5, <1>6 DEF WordLines, IsStatement
<1>8. position \in OrgLines <=> Text.form = "Origin"
  BY <1>3, <1>5, <1>6 DEF OrgLines
<1> QED
  BY <1>1, <1>2, <1>3, <1>4, <1>5, <1>7, <1>8

\* A line below END counts for nothing.
LEMMA DeadLine ==
  ASSUME TypeOK, LinesRead, Parsing, stopped
  PROVE  position \notin Live \cup WordLines \cup OrgLines \cup FirstEnd
<1>1. PICK e \in EndLines : e < position
  BY DEF LinesRead
<1>2. e \in Int /\ position \in Int
  BY DEF EndLines, TypeOK
<1>3. ~(position < e) /\ ~(position <= e)
  BY <1>1, <1>2
<1>4. position \notin Live
  BY <1>3 DEF Live
<1>5. position \notin FirstEnd
  BY <1>3 DEF FirstEnd
<1> QED
  BY <1>4, <1>5 DEF WordLines, OrgLines

-----------------------------------------------------------------------------
(* A line after another, while there is no error.                          *)

\* The words of the lines read, counted.
LEMMA CountFacts ==
  ASSUME TypeOK, NEW p \in Nat
  PROVE  /\ Cardinality(WordsBefore(p)) \in Nat
         /\ p \in WordLines => Cardinality({ j \in WordLines : j < p + 1 })
                                  = Cardinality(WordsBefore(p)) + 1
         /\ p \notin WordLines => { j \in WordLines : j < p + 1 } = WordsBefore(p)
<1>1. Len(source) \in Nat /\ WordLines \in SUBSET (1 .. Len(source))
  BY LinesFacts DEF TypeOK
<1> QED
  BY <1>1, CountBelow DEF WordsBefore

\* One line more is before the next position, and no other.
LEMMA OneLineMore ==
  ASSUME TypeOK, position' = position + 1
  PROVE  /\ position \in Nat
         /\ \A i \in Int : i < position' <=> i < position \/ i = position
<1>1. position \in Nat
  BY DEF TypeOK
<1> QED
  BY <1>1

\* A line that is no ORG says nothing of the origin.
LEMMA OriginStays ==
  ASSUME TypeOK, OriginRead, source' = source, origin' = origin,
         position' = position + 1, position \notin OrgLines
  PROVE  OriginRead'
<1>1. OrgLines' = OrgLines /\ WordLines' = WordLines
  BY MeaningStays
<1>2. OrgLines \subseteq Int /\ WordLines \subseteq Int /\ position \in Int
  BY LinesFacts DEF TypeOK
<1>3. \A k \in OrgLines : k < position' <=> k < position
  BY <1>2, OneLineMore
<1>4. \A k \in OrgLines, j \in WordLines : k < position' /\ j < position' => k < j
  <2> TAKE k \in OrgLines, j \in WordLines
  <2> HAVE k < position' /\ j < position'
  <2>1. k < position
    BY <1>3
  <2>2. CASE j < position
    BY <2>1, <2>2 DEF OriginRead
  <2>3. CASE j = position
    BY <2>1, <2>3
  <2> QED
    BY <1>2, <2>2, <2>3, OneLineMore
<1> QED
  BY <1>1, <1>3, <1>4 DEF OriginRead

\* A line that becomes no word adds none.
LEMMA ItemsStay ==
  ASSUME TypeOK, ItemsRead, source' = source, items' = items,
         position' = position + 1, position \notin WordLines
  PROVE  ItemsRead'
<1>1. WordLines' = WordLines /\ WordLines \subseteq Int
  BY MeaningStays, LinesFacts DEF TypeOK
<1>2. WordsBefore(position)' = WordsBefore(position)
  BY <1>1, OneLineMore DEF WordsBefore
<1>3. \A k \in 1 .. Len(items) : ItemOfLine(k, items[k].line)'
  <2> TAKE k \in 1 .. Len(items)
  <2>1. ItemOfLine(k, items[k].line)
    BY DEF ItemsRead
  <2>2. Cardinality({ j \in WordLines' : j < items'[k].line }) = k - 1
    BY <1>1, <2>1 DEF ItemOfLine, WordsBefore
  <2>3. items'[k].line \in WordsBefore(position)'
    BY <1>2, <2>1 DEF ItemOfLine
  <2> QED
    BY <2>1, <2>2, <2>3 DEF ItemOfLine, WordsBefore
<1> QED
  BY <1>2, <1>3 DEF ItemsRead

\* A line that gives out nothing and means nothing.
LEMMA MeaninglessLine ==
  ASSUME TypeOK, ReadAsMeant, Parsing, Advance,
         UNCHANGED << origin, items, symbols, stopped >>,
         position \notin WordLines \cup FirstEnd \cup OrgLines,
         position \in Live => Text.form # "Malformed",
         position \in EndLines => stopped
  PROVE  ReadAsMeant'
<1>1. /\ position \in 1 .. Len(source) /\ source \in Seq(Line)
      /\ Len(source) \in Nat
      /\ position' = position + 1 /\ source' = source /\ words' = words
      /\ origin' = origin /\ items' = items /\ symbols' = symbols
      /\ stopped' = stopped /\ Text = source[position]
  BY DEF TypeOK, Parsing, Advance, Text
<1>2. \A i \in Int : i < position' <=> i < position \/ i = position
  BY <1>1, OneLineMore
<1>3. /\ EndLines' = EndLines /\ Live' = Live /\ WordLines' = WordLines
      /\ OrgLines' = OrgLines /\ FirstEnd' = FirstEnd
      /\ \A l : LabelLines(l)' = LabelLines(l)
  BY <1>1, MeaningStays
<1>4. /\ EndLines \subseteq Int /\ Live \subseteq Int /\ WordLines \subseteq Int
      /\ OrgLines \subseteq Int /\ FirstEnd \subseteq Int
      /\ \A l : LabelLines(l) \subseteq Int
  <2>1. 1 .. Len(source) \subseteq Int
    BY <1>1
  <2> QED
    BY <1>1, <2>1, LinesFacts DEF Live
<1>5. LinesRead'
  <2>1. (\E e \in EndLines : e < position') <=> \E e \in EndLines : e < position
    <3>1. CASE position \in EndLines
      <4>1. \E e \in EndLines : e < position
        BY <3>1 DEF ReadAsMeant, LayoutRead, LinesRead
      <4> QED
        BY <1>2, <1>4, <4>1
    <3>2. CASE position \notin EndLines
      BY <1>2, <1>4, <3>2
    <3> QED
      BY <3>1, <3>2
  <2>2. \A i \in Live : i < position' => source[i].form # "Malformed"
    BY <1>1, <1>2, <1>4 DEF ReadAsMeant, LayoutRead, LinesRead
  <2>3. stopped' <=> \E e \in EndLines' : e < position'
    <3>1. stopped <=> \E e \in EndLines : e < position
      BY DEF ReadAsMeant, LayoutRead, LinesRead
    <3>2. stopped' <=> stopped
      <4>1. stopped' = stopped
        BY <1>1
      <4> QED
        BY <4>1
    <3>3. (\E e \in EndLines' : e < position') <=> \E e \in EndLines : e < position
      BY <1>3, <2>1
    <3> QED
      BY <3>1, <3>2, <3>3, Zenon
  <2>4. \A i \in Live' : i < position' => source'[i].form # "Malformed"
    BY <1>1, <1>3, <2>2, Zenon
  <2> QED
    BY <2>3, <2>4 DEF LinesRead
<1>6. OriginRead'
  BY <1>1, OriginStays DEF ReadAsMeant, LayoutRead
<1>7. ItemsRead'
  BY <1>1, ItemsStay DEF ReadAsMeant, LayoutRead
<1>8. LabelsRead'
  <2>1. LabelsRead
    BY DEF ReadAsMeant, LayoutRead
  <2>2. \A i : PlaceOf(i)' = PlaceOf(i)
    <3>1. OriginAddress' = OriginAddress
      BY <1>1 DEF OriginAddress
    <3> QED
      BY <1>3, <3>1 DEF PlaceOf, WordsBefore
  <2>3. \A i \in WordLines \cup FirstEnd : i < position' <=> i < position
    BY <1>2, <1>4
  <2>4. \A l \in DOMAIN symbols : symbols[l].line < position'
    <3> TAKE l \in DOMAIN symbols
    <3>1. symbols[l].line \in LabelLines(l) /\ symbols[l].line < position
      BY <2>1 DEF LabelsRead
    <3> QED
      BY <1>2, <1>4, <3>1
  <2>5. \A l \in DOMAIN symbols :
          symbols[l].address
            = OriginAddress + Cardinality({ j \in WordLines : j < symbols[l].line })
    BY <2>1 DEF LabelsRead, PlaceOf, WordsBefore
  <2>6. OriginAddress' = OriginAddress
    BY <1>1 DEF OriginAddress
  <2>7. \A l \in DOMAIN symbols' :
          /\ symbols'[l].line \in LabelLines(l)' /\ symbols'[l].line < position'
          /\ symbols'[l].address
               = OriginAddress' + Cardinality({ j \in WordLines' : j < symbols'[l].line })
    BY <1>1, <1>3, <2>1, <2>4, <2>5, <2>6 DEF LabelsRead
  <2>8. \A i \in WordLines' \cup FirstEnd' : i < position' =>
          /\ PlaceOf(i)' \in Addr
          /\ source'[i].label \in DOMAIN symbols' \cup {NoLabel}
          /\ source'[i].label # NoLabel => symbols'[source'[i].label].line = i
    BY <1>1, <1>3, <2>1, <2>2, <2>3 DEF LabelsRead
  <2> QED
    BY <2>7, <2>8 DEF LabelsRead, PlaceOf, WordsBefore
<1>9. WordsRead'
  <2>1. words = << >> /\ Len(words) <= Len(items)
    BY DEF ReadAsMeant, LayoutRead, WordsRead
  <2> QED
    BY <1>1, <2>1 DEF WordsRead
<1> QED
  BY <1>5, <1>6, <1>7, <1>8, <1>9 DEF ReadAsMeant, LayoutRead

\* An ORG before every word places them all.
LEMMA OriginMeant ==
  ASSUME IInv, ReadAsMeant, ParseOrigin
  PROVE  ReadAsMeant'
<1>1. /\ position' = position + 1 /\ source' = source /\ words' = words
      /\ origin' = Text.address /\ items' = items /\ symbols' = symbols
      /\ stopped' = stopped /\ items = << >> /\ origin = NoOrigin /\ ~stopped
      /\ Parsing /\ Text.form = "Origin" /\ Text = source[position] /\ TypeOK
  BY DEF ParseOrigin, Reads, Advance, OriginAllowed, Text, IInv
<1>2. /\ position \in OrgLines /\ position \notin WordLines
      /\ position \notin EndLines /\ position \in 1 .. Len(source)
      /\ \A e \in EndLines : position <= e
  BY <1>1, NextLine DEF ReadAsMeant, LayoutRead
<1>3. /\ EndLines' = EndLines /\ Live' = Live /\ WordLines' = WordLines
      /\ OrgLines' = OrgLines /\ FirstEnd' = FirstEnd
  BY <1>1, MeaningStays
<1>4. /\ EndLines \subseteq Int /\ Live \subseteq Int /\ WordLines \subseteq Int
      /\ OrgLines \subseteq Int /\ FirstEnd \subseteq EndLines /\ position \in Int
  <2>1. Len(source) \in Nat /\ 1 .. Len(source) \subseteq Int
    BY <1>1 DEF TypeOK
  <2>2. source \in Seq(Line)
    BY <1>1 DEF TypeOK
  <2> QED
    BY <1>2, <2>1, <2>2, LinesFacts DEF Live
<1>5. \A i \in Int : i < position' <=> i < position \/ i = position
  BY <1>1, OneLineMore
<1>6. LinesRead'
  <2>1. ~stopped' /\ \A e \in EndLines' : ~(e < position')
    <3>1. ~stopped'
      <4>1. stopped' = stopped /\ ~stopped
        BY <1>1
      <4> QED
        BY <4>1
    <3>2. \A e \in EndLines : ~(e < position')
      BY <1>1, <1>2, <1>4
    <3> QED
      BY <1>3, <3>1, <3>2
  <2>2. \A i \in Live : i < position' => source[i].form # "Malformed"
    BY <1>1, <1>4, <1>5 DEF ReadAsMeant, LayoutRead, LinesRead
  <2>3. \A i \in Live' : i < position' => source'[i].form # "Malformed"
    BY <1>1, <1>3, <2>2, Zenon
  <2> QED
    BY <2>1, <2>3 DEF LinesRead
<1>7. \A i \in WordLines : ~(i < position)
  <2>1. WordsBefore(position) = {}
    BY <1>1 DEF ReadAsMeant, LayoutRead, ItemsRead
  <2> QED
    BY <2>1 DEF WordsBefore
<1>8. \A k \in OrgLines : ~(k < position)
  <2> SUFFICES ASSUME NEW k \in OrgLines, k < position PROVE FALSE
    OBVIOUS
  <2>1. source[k].address \in Addr
    BY <1>1, LinesFacts DEF TypeOK
  <2>2. source[k].address = NoOrigin
    BY <1>1 DEF ReadAsMeant, LayoutRead, OriginRead
  <2> QED
    BY <2>1, <2>2, MemoryWordsAssumption DEF Addr, NoOrigin
<1>9. OriginRead'
  <2>1. \A k \in OrgLines : k < position' <=> k = position
    BY <1>4, <1>5, <1>8
  <2>2. \A j \in WordLines : ~(j < position')
    BY <1>2, <1>4, <1>5, <1>7
  <2>3. position < position'
    BY <1>1, <1>4
  <2> QED
    BY <1>1, <1>2, <1>3, <2>1, <2>2, <2>3 DEF OriginRead
<1>10. ItemsRead'
  BY <1>1, <1>2, ItemsStay DEF ReadAsMeant, LayoutRead
<1>11. LabelsRead'
  <2>1. \A i \in WordLines \cup FirstEnd : ~(i < position')
    <3>1. \A e \in FirstEnd : ~(e < position')
      BY <1>1, <1>2, <1>4
    <3> QED
      BY <1>2, <1>4, <1>5, <1>7, <3>1
  <2>2. DOMAIN symbols = {}
    <3> SUFFICES ASSUME NEW l \in DOMAIN symbols PROVE FALSE
      OBVIOUS
    <3>1. symbols[l].line \in LabelLines(l) /\ symbols[l].line < position
      BY DEF ReadAsMeant, LayoutRead, LabelsRead
    <3>2. symbols[l].line \in WordLines \cup FirstEnd
      BY <3>1 DEF LabelLines
    <3> QED
      BY <1>4, <1>5, <2>1, <3>1, <3>2
  <2> QED
    BY <1>1, <1>3, <2>1, <2>2 DEF LabelsRead
<1>12. WordsRead'
  <2>1. words = << >> /\ Len(words) <= Len(items)
    BY <1>1 DEF ReadAsMeant, LayoutRead, WordsRead
  <2> QED
    BY <1>1, <2>1 DEF WordsRead
<1> QED
  BY <1>6, <1>9, <1>10, <1>11, <1>12 DEF ReadAsMeant, LayoutRead

\* A statement's label is new, and everything else stays defined as it was.
LEMMA DefineFacts ==
  ASSUME IInv, DefineAndMap
  PROVE  /\ DOMAIN symbols' = DOMAIN symbols \cup ({Text.label} \ {NoLabel})
         /\ \A l \in DOMAIN symbols : symbols'[l] = symbols[l]
         /\ Text.label \notin DOMAIN symbols
         /\ Text.label # NoLabel =>
              symbols'[Text.label].line = position
                /\ symbols'[Text.label].address = NextAddress
         /\ NoLabel \notin DOMAIN symbols
<1>1. NoLabel \notin DOMAIN symbols
  BY LabelsAssumption DEF IInv, TypeOK
<1>2. Text.label \notin DOMAIN symbols
  BY DEF DefineAndMap, LabelFault
<1>3. CASE Text.label = NoLabel
  <2>1. symbols' = symbols
    BY <1>3 DEF DefineAndMap
  <2> QED
    BY <1>1, <1>2, <1>3, <2>1
<1>4. CASE Text.label # NoLabel
  <2> DEFINE s == [address |-> NextAddress, line |-> position,
                   references |-> << >>]
  <2>1. symbols' = Insert(symbols, Text.label, s)
    BY <1>4 DEF DefineAndMap
  <2>2. s.address = NextAddress /\ s.line = position
    OBVIOUS
  <2> HIDE DEF s
  <2>3. /\ DOMAIN symbols' = DOMAIN symbols \cup {Text.label}
        /\ symbols'[Text.label] = s
        /\ \A l \in DOMAIN symbols : l # Text.label => symbols'[l] = symbols[l]
    BY <2>1 DEF Insert
  <2> QED
    BY <1>1, <1>2, <1>4, <2>2, <2>3
<1> QED
  BY <1>3, <1>4

\* Its line is placed where its label is.
LEMMA LabelsMeant ==
  ASSUME IInv, ReadAsMeant, DefineAndMap, Advance, origin' = origin,
         position \in WordLines \cup FirstEnd
  PROVE  LabelsRead'
<1>1. /\ position' = position + 1 /\ source' = source
      /\ Text = source[position] /\ TypeOK /\ LabelsRead
      /\ position \in Int /\ position < position'
  BY DEF Advance, Text, IInv, TypeOK, ReadAsMeant, LayoutRead
<1>2. /\ WordLines' = WordLines /\ FirstEnd' = FirstEnd
      /\ \A l : LabelLines(l)' = LabelLines(l)
  BY <1>1, MeaningStays
<1>3. /\ WordLines \subseteq Int /\ FirstEnd \subseteq Int
      /\ \A l : LabelLines(l) \subseteq Int
  BY <1>1, LinesFacts DEF TypeOK
<1>4. \A i \in Int : i < position' <=> i < position \/ i = position
  BY <1>1, OneLineMore
<1>5. \A i : PlaceOf(i)' = PlaceOf(i)
  <2>1. OriginAddress' = OriginAddress
    BY DEF OriginAddress
  <2> QED
    BY <1>2, <2>1 DEF PlaceOf, WordsBefore
<1>6. PlaceOf(position) = NextAddress /\ NextAddress \in Addr
      /\ Text.label \in Labels \cup {NoLabel}
  <2>1. Len(items) = Cardinality(WordsBefore(position))
    BY DEF ReadAsMeant, LayoutRead, ItemsRead
  <2> QED
    BY <2>1, DefineAndMapFacts DEF PlaceOf, NextAddress
<1>7. /\ DOMAIN symbols' = DOMAIN symbols \cup ({Text.label} \ {NoLabel})
      /\ \A l \in DOMAIN symbols : symbols'[l] = symbols[l]
      /\ Text.label \notin DOMAIN symbols
      /\ Text.label # NoLabel =>
           symbols'[Text.label].line = position
             /\ symbols'[Text.label].address = NextAddress
      /\ NoLabel \notin DOMAIN symbols
  BY DefineFacts
<1>8. \A i \in WordLines \cup FirstEnd : i < position' =>
        /\ PlaceOf(i) \in Addr
        /\ source[i].label \in DOMAIN symbols' \cup {NoLabel}
        /\ source[i].label # NoLabel => symbols'[source[i].label].line = i
  <2> TAKE i \in WordLines \cup FirstEnd
  <2> HAVE i < position'
  <2>1. CASE i < position
    <3>1. /\ PlaceOf(i) \in Addr
          /\ source[i].label \in DOMAIN symbols \cup {NoLabel}
          /\ source[i].label # NoLabel => symbols[source[i].label].line = i
      BY <1>1, <2>1 DEF LabelsRead
    <3> QED
      BY <1>7, <3>1
  <2>2. CASE i = position
    BY <1>1, <1>6, <1>7, <2>2
  <2> QED
    BY <1>3, <1>4, <2>1, <2>2
<1>9. \A l \in DOMAIN symbols' :
        /\ symbols'[l].line \in LabelLines(l) /\ symbols'[l].line < position'
        /\ symbols'[l].address
             = OriginAddress + Cardinality({ j \in WordLines : j < symbols'[l].line })
  <2> TAKE l \in DOMAIN symbols'
  <2>1. CASE l \in DOMAIN symbols
    <3>1. /\ symbols[l].line \in LabelLines(l) /\ symbols[l].line < position
          /\ symbols[l].address
               = OriginAddress + Cardinality({ j \in WordLines : j < symbols[l].line })
      BY <1>1, <2>1 DEF LabelsRead, PlaceOf, WordsBefore
    <3>2. symbols[l].line < position'
      BY <1>3, <1>4, <3>1
    <3> QED
      BY <1>7, <2>1, <3>1, <3>2
  <2>2. CASE l = Text.label /\ l # NoLabel
    <3>1. position \in LabelLines(l)
      BY <1>1, <2>2 DEF LabelLines
    <3>2. symbols'[l].line = position /\ symbols'[l].address = NextAddress
      BY <1>7, <2>2
    <3>3. NextAddress = OriginAddress + Cardinality({ j \in WordLines : j < position })
      BY <1>6 DEF PlaceOf, WordsBefore
    <3> QED
      BY <1>1, <3>1, <3>2, <3>3
  <2> QED
    BY <1>7, <2>1, <2>2
<1>10. OriginAddress' = OriginAddress
  BY DEF OriginAddress
<1>11. \A l \in DOMAIN symbols' :
        /\ symbols'[l].line \in LabelLines(l)' /\ symbols'[l].line < position'
        /\ symbols'[l].address
             = OriginAddress' + Cardinality({ j \in WordLines' : j < symbols'[l].line })
  BY <1>2, <1>9, <1>10
<1>12. \A i \in WordLines' \cup FirstEnd' : i < position' =>
        /\ PlaceOf(i)' \in Addr
        /\ source'[i].label \in DOMAIN symbols' \cup {NoLabel}
        /\ source'[i].label # NoLabel => symbols'[source'[i].label].line = i
  BY <1>1, <1>2, <1>5, <1>8
<1> QED
  BY <1>11, <1>12 DEF LabelsRead, PlaceOf, WordsBefore

\* The first END stops the pass, and its label stands past the last word.
LEMMA EndMeant ==
  ASSUME IInv, ReadAsMeant, ParseEnd
  PROVE  ReadAsMeant'
<1>1. /\ position' = position + 1 /\ source' = source /\ words' = words
      /\ origin' = origin /\ items' = items /\ stopped' = TRUE
      /\ Text = source[position] /\ TypeOK /\ DefineAndMap /\ Advance
      /\ Parsing /\ ~stopped /\ Text.form = "Statement" /\ Text.mnemonic = "End"
  BY DEF ParseEnd, DefineAndMap, Reads, Advance, Text, IInv
<1>2. /\ position \in FirstEnd /\ position \in EndLines
      /\ position \notin OrgLines /\ position \notin WordLines
      /\ position \in 1 .. Len(source)
  BY <1>1, NextLine DEF ReadAsMeant, LayoutRead
<1>3. EndLines' = EndLines /\ Live' = Live
  BY <1>1, MeaningStays
<1>4. Live \subseteq Int /\ position \in Int /\ position < position'
  <2>1. Len(source) \in Nat /\ 1 .. Len(source) \subseteq Int
    BY <1>1 DEF TypeOK
  <2> QED
    BY <1>1, <1>2, <2>1 DEF Live
<1>5. LinesRead'
  <2>1. stopped' /\ \E e \in EndLines' : e < position'
    BY <1>1, <1>2, <1>3, <1>4
  <2>2. \A i \in Live : i < position' => source[i].form # "Malformed"
    BY <1>1, <1>4, OneLineMore DEF ReadAsMeant, LayoutRead, LinesRead
  <2>3. \A i \in Live' : i < position' => source'[i].form # "Malformed"
    BY <1>1, <1>3, <2>2, Zenon
  <2> QED
    BY <2>1, <2>3 DEF LinesRead
<1>6. OriginRead'
  BY <1>1, <1>2, OriginStays DEF ReadAsMeant, LayoutRead
<1>7. ItemsRead'
  BY <1>1, <1>2, ItemsStay DEF ReadAsMeant, LayoutRead
<1>8. LabelsRead'
  BY <1>1, <1>2, LabelsMeant
<1>9. WordsRead'
  <2>1. words = << >> /\ Len(words) <= Len(items)
    BY <1>1 DEF ReadAsMeant, LayoutRead, WordsRead
  <2> QED
    BY <1>1, <2>1 DEF WordsRead
<1> QED
  BY <1>5, <1>6, <1>7, <1>8, <1>9 DEF ReadAsMeant, LayoutRead

\* Any other statement is the next item.
LEMMA ItemMeant ==
  ASSUME IInv, ReadAsMeant, ParseItem
  PROVE  ReadAsMeant'
<1> DEFINE item == [label |-> Text.label, mnemonic |-> Text.mnemonic,
                    operand |-> Text.operand, address |-> NextAddress,
                    line |-> position]
           n == Len(items)
<1>1. /\ position' = position + 1 /\ source' = source /\ words' = words
      /\ origin' = origin /\ items' = Append(items, item)
      /\ stopped' = stopped
      /\ Text = source[position] /\ TypeOK /\ DefineAndMap /\ Advance
      /\ Parsing /\ ~stopped /\ Text.form = "Statement" /\ Text.mnemonic # "End"
  BY DEF ParseItem, DefineAndMap, Reads, Advance, Text, IInv
<1>2. /\ position \in WordLines /\ position \notin OrgLines
      /\ position \notin EndLines /\ position \in 1 .. Len(source)
      /\ \A e \in EndLines : position <= e
  BY <1>1, NextLine DEF ReadAsMeant, LayoutRead
<1>3. EndLines' = EndLines /\ Live' = Live /\ WordLines' = WordLines
  BY <1>1, MeaningStays
<1>4. /\ Live \subseteq Int /\ EndLines \subseteq Int /\ WordLines \subseteq Int
      /\ position \in Nat /\ position < position'
  <2>1. Len(source) \in Nat /\ 1 .. Len(source) \subseteq Int
    BY <1>1 DEF TypeOK
  <2> QED
    BY <1>1, <1>2, <2>1 DEF Live, EndLines, WordLines
<1>5. LinesRead'
  <2>1. ~stopped' /\ \A e \in EndLines' : ~(e < position')
    <3>1. ~stopped'
      <4>1. stopped' = stopped /\ ~stopped
        BY <1>1
      <4> QED
        BY <4>1
    <3>2. \A e \in EndLines : ~(e < position')
      BY <1>1, <1>2, <1>4
    <3> QED
      BY <1>3, <3>1, <3>2
  <2>2. \A i \in Live : i < position' => source[i].form # "Malformed"
    BY <1>1, <1>4, OneLineMore DEF ReadAsMeant, LayoutRead, LinesRead
  <2>3. \A i \in Live' : i < position' => source'[i].form # "Malformed"
    BY <1>1, <1>3, <2>2, Zenon
  <2> QED
    BY <2>1, <2>3 DEF LinesRead
<1>6. OriginRead'
  BY <1>1, <1>2, OriginStays DEF ReadAsMeant, LayoutRead
<1>7. /\ Len(items') = n + 1 /\ items'[n + 1] = item /\ n \in Nat
      /\ \A k \in 1 .. n : items'[k] = items[k]
      /\ 1 .. n + 1 = (1 .. n) \cup {n + 1}
  <2>1. items \in Seq(ItemRecord)
    BY <1>1 DEF TypeOK
  <2> QED
    BY <1>1, <2>1
<1>8. /\ item.label = Text.label /\ item.mnemonic = Text.mnemonic
      /\ item.operand = Text.operand /\ item.line = position
  OBVIOUS
<1> HIDE DEF item, n
<1>9. ItemsRead'
  <2>1. /\ n = Cardinality(WordsBefore(position))
        /\ \A i \in WordsBefore(position) : \E k \in 1 .. n : items[k].line = i
        /\ \A k \in 1 .. n : ItemOfLine(k, items[k].line)
    BY DEF ReadAsMeant, LayoutRead, ItemsRead, n
  <2>2. /\ WordsBefore(position)' = WordsBefore(position) \cup {position}
        /\ Cardinality({ j \in WordLines' : j < position' }) = n + 1
    <3>1. WordsBefore(position)' = WordsBefore(position) \cup {position}
      BY <1>2, <1>3, <1>4, <1>1, OneLineMore DEF WordsBefore
    <3>2. Cardinality({ j \in WordLines : j < position + 1 }) = n + 1
      BY <1>1, <1>2, <1>4, <2>1, CountFacts
    <3> QED
      BY <1>1, <1>3, <3>1, <3>2
  <2>3. \A k \in 1 .. n + 1 :
          /\ items'[k].line \in WordsBefore(position)'
          /\ Cardinality({ j \in WordLines' : j < items'[k].line }) = k - 1
          /\ source'[items'[k].line].label = items'[k].label
          /\ source'[items'[k].line].mnemonic = items'[k].mnemonic
          /\ source'[items'[k].line].operand = items'[k].operand
    <3> TAKE k \in 1 .. n + 1
    <3>1. CASE k \in 1 .. n
      <4>1. ItemOfLine(k, items[k].line) /\ items'[k] = items[k]
        BY <1>7, <2>1, <3>1
      <4>2. /\ items[k].line \in WordsBefore(position)
            /\ Cardinality({ j \in WordLines : j < items[k].line }) = k - 1
            /\ source[items[k].line].label = items[k].label
            /\ source[items[k].line].mnemonic = items[k].mnemonic
            /\ source[items[k].line].operand = items[k].operand
        BY <4>1 DEF ItemOfLine, WordsBefore
      <4> QED
        BY <1>1, <1>3, <2>2, <4>1, <4>2
    <3>2. CASE k = n + 1
      <4>1. items'[k] = item /\ n = k - 1
        BY <1>7, <3>2
      <4>2. Cardinality({ j \in WordLines : j < position }) = k - 1
        BY <2>1, <4>1 DEF WordsBefore
      <4> QED
        BY <1>1, <1>3, <1>8, <2>2, <4>1, <4>2
    <3> QED
      BY <1>7, <3>1, <3>2
  <2>4. \A i \in WordsBefore(position)' : \E k \in 1 .. n + 1 : items'[k].line = i
    <3> TAKE i \in WordsBefore(position)'
    <3>1. CASE i \in WordsBefore(position)
      <4>1. PICK k \in 1 .. n : items[k].line = i
        BY <2>1, <3>1
      <4> QED
        BY <1>7, <4>1
    <3>2. CASE i = position
      BY <1>7, <1>8, <3>2
    <3> QED
      BY <2>2, <3>1, <3>2
  <2>5. Cardinality(WordsBefore(position)') = n + 1
    BY <2>2 DEF WordsBefore
  <2>6. \A k \in 1 .. n + 1 : ItemOfLine(k, items[k].line)'
    BY <2>3 DEF ItemOfLine, WordsBefore
  <2> QED
    BY <1>7, <2>4, <2>5, <2>6 DEF ItemsRead
<1>10. LabelsRead'
  BY <1>1, <1>2, LabelsMeant
<1>11. WordsRead'
  <2>1. words = << >> /\ Len(words) = 0
    BY <1>1 DEF ReadAsMeant, LayoutRead, WordsRead
  <2> QED
    BY <1>1, <1>7, <2>1 DEF WordsRead
<1> QED
  BY <1>5, <1>6, <1>9, <1>10, <1>11 DEF ReadAsMeant, LayoutRead

-----------------------------------------------------------------------------
(* An error is reported of a file that is not well formed.                 *)

\* A second ORG, or one below a word.
LEMMA OriginRefused ==
  ASSUME IInv, ReadAsMeant, RejectOrigin
  PROVE  ~WellFormed
<1>1. /\ Parsing /\ ~stopped /\ Text.form = "Origin" /\ TypeOK
      /\ items # << >> \/ origin # NoOrigin
  BY DEF RejectOrigin, Reads, OriginAllowed, IInv
<1>2. position \in OrgLines /\ position \in Int
  BY <1>1, NextLine DEF ReadAsMeant, LayoutRead
<1>3. CASE items # << >>
  <2>1. 1 \in 1 .. Len(items)
    BY <1>1, <1>3 DEF TypeOK
  <2>2. items[1].line \in WordsBefore(position)
    BY <2>1 DEF ReadAsMeant, LayoutRead, ItemsRead, ItemOfLine
  <2>3. items[1].line \in WordLines /\ items[1].line < position
    BY <2>2 DEF WordsBefore
  <2>4. items[1].line \in Int
    BY <2>1, <1>1, ItemFacts
  <2>5. ~(position < items[1].line)
    BY <1>2, <2>3, <2>4
  <2> QED
    BY <1>2, <2>3, <2>5 DEF WellFormed
<1>4. CASE origin # NoOrigin
  <2>1. PICK k \in OrgLines : k < position
    BY <1>4 DEF ReadAsMeant, LayoutRead, OriginRead
  <2>2. k # position
    BY <1>2, <2>1
  <2>3. ~(Cardinality(OrgLines) <= 1)
    BY <1>1, <1>2, <2>1, <2>2, AtMostOne, LinesFacts DEF TypeOK
  <2> QED
    BY <2>3 DEF WellFormed
<1> QED
  BY <1>1, <1>3, <1>4

\* A well-formed file places its lines no lower than they are placed so far.
LEMMA OriginIsBase ==
  ASSUME TypeOK, OriginRead, \A k, m \in OrgLines : k = m
  PROVE  /\ OriginAddress \in Nat
         /\ OriginAddress <= BaseAddress
         /\ (\A k \in OrgLines : k < position) => OriginAddress = BaseAddress
<1>1. OriginAddress \in Nat /\ BaseAddress \in Nat
  BY LinesFacts, MemoryWordsAssumption DEF TypeOK, OriginAddress, Addr, NoOrigin
<1>2. CASE origin = NoOrigin
  <2>1. OriginAddress = 0
    BY <1>2 DEF OriginAddress
  <2>2. \A k \in OrgLines : ~(k < position)
    <3> SUFFICES ASSUME NEW k \in OrgLines, k < position PROVE FALSE
      OBVIOUS
    <3>1. source[k].address \in Addr /\ source[k].address = NoOrigin
      BY <1>2, LinesFacts DEF TypeOK, OriginRead
    <3> QED
      BY <3>1, MemoryWordsAssumption DEF Addr, NoOrigin
  <2>3. (\A k \in OrgLines : k < position) => OrgLines = {}
    BY <2>2
  <2>4. OrgLines = {} => BaseAddress = 0
    BY DEF BaseAddress
  <2> QED
    BY <1>1, <2>1, <2>3, <2>4
<1>3. CASE origin # NoOrigin
  <2>1. PICK k \in OrgLines : k < position
    BY <1>3 DEF OriginRead
  <2>2. (CHOOSE i \in OrgLines : TRUE) \in OrgLines
    BY <2>1
  <2>3. (CHOOSE i \in OrgLines : TRUE) = k
    BY <2>1, <2>2
  <2>4. OrgLines # {}
    BY <2>1
  <2>5. BaseAddress = source[k].address
    BY <2>3, <2>4 DEF BaseAddress
  <2>6. origin = source[k].address
    BY <2>1 DEF OriginRead
  <2>7. OriginAddress = BaseAddress
    BY <1>3, <2>5, <2>6 DEF OriginAddress
  <2> QED
    BY <1>1, <2>7
<1> QED
  BY <1>2, <1>3

\* A statement with no address left to stand at.
LEMMA TooLargeRefused ==
  ASSUME IInv, ReadAsMeant, RefuseTooLarge
  PROVE  ~WellFormed
<1> SUFFICES ASSUME WellFormed PROVE FALSE
  OBVIOUS
<1>1. /\ Parsing /\ ~stopped /\ Text.form = "Statement" /\ TypeOK
      /\ NextAddress >= MemoryWords
  BY DEF RefuseTooLarge, Reads, MemoryFull, IInv
<1>2. position \in WordLines \cup FirstEnd
  BY <1>1, NextLine DEF ReadAsMeant, LayoutRead
<1>3. AddressOfLine(position) \in Addr
  BY <1>2 DEF WellFormed
<1>4. \A k, m \in OrgLines : k = m
  BY <1>1, AtMostOne, LinesFacts DEF WellFormed, TypeOK
<1>5. OriginAddress \in Nat /\ BaseAddress \in Nat /\ OriginAddress <= BaseAddress
  BY <1>1, <1>4, OriginIsBase, LinesFacts DEF ReadAsMeant, LayoutRead, TypeOK
<1>6. /\ AddressOfLine(position) = BaseAddress + Len(items)
      /\ NextAddress = OriginAddress + Len(items) /\ Len(items) \in Nat
  BY <1>1 DEF AddressOfLine, ReadAsMeant, LayoutRead, ItemsRead, WordsBefore,
     NextAddress, TypeOK
<1>7. MemoryWords \in Nat
  BY MemoryWordsAssumption
<1> QED
  BY <1>1, <1>3, <1>5, <1>6, <1>7 DEF Addr

\* A label that is none, or defined before.
LEMMA LabelRefused ==
  ASSUME IInv, ReadAsMeant, SkipRejectedLabel
  PROVE  ~WellFormed
<1> SUFFICES ASSUME WellFormed PROVE FALSE
  OBVIOUS
<1>1. /\ Parsing /\ ~stopped /\ Text.form = "Statement" /\ TypeOK
      /\ LabelFault # "None" /\ Text = source[position] /\ position \in Int
  BY DEF SkipRejectedLabel, Reads, IInv, TypeOK, Text
<1>2. position \in WordLines \cup FirstEnd
  BY <1>1, NextLine DEF ReadAsMeant, LayoutRead
<1>3. Text.label \in Labels \cup {NoLabel}
  BY <1>1, <1>2 DEF WellFormed
<1>4. Text.label \notin DigitLabels /\ Text.label \notin SpacedLabels
  BY <1>3, LabelsAssumption
<1>5. Text.label \in DOMAIN symbols
  BY <1>1, <1>4 DEF LabelFault
<1>6. Text.label \in Labels
  BY <1>1, <1>5 DEF TypeOK
<1> DEFINE S == LabelLines(Text.label)
<1>7. symbols[Text.label].line \in S /\ symbols[Text.label].line < position
  BY <1>5 DEF ReadAsMeant, LayoutRead, LabelsRead
<1>8. position \in S
  BY <1>1, <1>2 DEF LabelLines
<1>9. symbols[Text.label].line # position
  BY <1>1, <1>7
<1>10. Cardinality(S) <= 1
  BY <1>6 DEF WellFormed
<1>11. IsFiniteSet(S)
  BY <1>1, LinesFacts DEF TypeOK
<1> HIDE DEF S
<1> QED
  BY <1>7, <1>8, <1>9, <1>10, <1>11, AtMostOne

-----------------------------------------------------------------------------
(* The second pass.                                                        *)

\* With all lines read, the symbols are the labels a file defines, at the
\* addresses it gives them.
LEMMA SymbolsMeant ==
  ASSUME TypeOK, LayoutRead, ~Parsing
  PROVE  /\ BaseAddress = OriginAddress
         /\ \A i : PlaceOf(i) = AddressOfLine(i)
         /\ \A l \in Labels : Defined(l) <=> l \in DOMAIN symbols
         /\ \A l \in DOMAIN symbols : /\ LabelLines(l) = {symbols[l].line}
                                      /\ MeaningOfLabel(l) = symbols[l].address
<1>1. source \in Seq(Line) /\ Len(source) \in Nat /\ position = Len(source) + 1
  BY DEF TypeOK, Parsing
<1>2. \A i \in 1 .. Len(source) : i < position
  BY <1>1
<1>3. \A k \in OrgLines : k < position
  BY <1>1, <1>2, LinesFacts
<1>4. \A k, m \in OrgLines : k = m
  BY <1>3 DEF LayoutRead, OriginRead
<1>5. BaseAddress = OriginAddress
  BY <1>3, <1>4, OriginIsBase DEF LayoutRead
<1>6. \A i : PlaceOf(i) = AddressOfLine(i)
  BY <1>5 DEF PlaceOf, AddressOfLine, WordsBefore
<1>7. \A i \in WordLines \cup FirstEnd : i < position
  BY <1>1, <1>2, LinesFacts
<1>8. \A l \in Labels : Defined(l) => l \in DOMAIN symbols
  <2> SUFFICES ASSUME NEW l \in Labels, NEW i \in LabelLines(l)
               PROVE  l \in DOMAIN symbols
    BY DEF Defined
  <2>1. i \in WordLines \cup FirstEnd /\ source[i].label = l
    BY DEF LabelLines
  <2>2. source[i].label \in DOMAIN symbols \cup {NoLabel}
    BY <1>7, <2>1 DEF LayoutRead, LabelsRead
  <2>3. l # NoLabel
    BY LabelsAssumption
  <2> QED
    BY <2>1, <2>2, <2>3
<1>9. \A l \in DOMAIN symbols : /\ LabelLines(l) = {symbols[l].line}
                                /\ MeaningOfLabel(l) = symbols[l].address
  <2> TAKE l \in DOMAIN symbols
  <2>1. symbols[l].line \in LabelLines(l)
    BY DEF LayoutRead, LabelsRead
  <2>2. ASSUME NEW i \in LabelLines(l) PROVE symbols[l].line = i
    <3>1. i \in WordLines \cup FirstEnd /\ source[i].label = l
      BY <2>2 DEF LabelLines
    <3>2. l # NoLabel
      BY LabelsAssumption DEF TypeOK
    <3> QED
      BY <1>7, <3>1, <3>2 DEF LayoutRead, LabelsRead
  <2>3. LabelLines(l) = {symbols[l].line}
    BY <2>1, <2>2
  <2>4. (CHOOSE i \in LabelLines(l) : TRUE) \in LabelLines(l)
    BY <2>1
  <2>5. (CHOOSE i \in LabelLines(l) : TRUE) = symbols[l].line
    BY <2>3, <2>4
  <2>6. MeaningOfLabel(l) = AddressOfLine(symbols[l].line)
    BY <2>5 DEF MeaningOfLabel
  <2>7. symbols[l].address = PlaceOf(symbols[l].line)
    BY DEF LayoutRead, LabelsRead
  <2> QED
    BY <1>6, <2>3, <2>6, <2>7
<1>10. \A l \in Labels : l \in DOMAIN symbols => Defined(l)
  BY <1>9 DEF Defined
<1> QED
  BY <1>5, <1>6, <1>8, <1>9, <1>10

\* An operand finds an address if and only if it is well formed.
LEMMA OperandMeant ==
  ASSUME TypeOK, LayoutRead, ~Parsing, NEW o \in Operand
  PROVE  o # NoOperand /\ OperandFault(o) = "None" <=> WellFormedOperand(o)
<1>1. CASE o = NoOperand
  BY <1>1 DEF WellFormedOperand, NoOperand
<1>2. CASE o.kind = "Number"
  <2>1. o.value \in Int /\ o # NoOperand
    BY <1>2 DEF Operand, NoOperand
  <2>2. o.value \in Addr => o.value >= 0
    BY MemoryWordsAssumption DEF Addr
  <2>3. OperandFault(o) = "None" <=> o.value \in Addr
    BY <1>2, <2>1, <2>2 DEF OperandFault, AddressLiteral
  <2> QED
    BY <1>2, <2>1, <2>3 DEF WellFormedOperand
<1>3. CASE o.kind = "Name"
  <2>1. o.text \in Labels => (Defined(o.text) <=> o.text \in DOMAIN symbols)
    BY SymbolsMeant
  <2>2. o.text \in DOMAIN symbols => o.text \in Labels
    BY DEF TypeOK
  <2>3. o # NoOperand
    BY <1>3 DEF NoOperand
  <2>4. OperandFault(o) = "None" <=> o.text \in DOMAIN symbols
    BY <1>3 DEF OperandFault, AddressLiteral
  <2>5. WellFormedOperand(o) <=> o.text \in Labels /\ Defined(o.text)
    BY <1>3 DEF WellFormedOperand
  <2> QED
    BY <2>1, <2>2, <2>3, <2>4, <2>5
<1> QED
  BY <1>1, <1>2, <1>3 DEF Operand

\* The second pass has a fault to report of exactly the statements that are
\* not well formed.
LEMMA FaultMeant ==
  ASSUME TypeOK, LayoutRead, ~Parsing, NEW item \in ItemRecord, NEW s,
         s.mnemonic = item.mnemonic, s.operand = item.operand
  PROVE  Fault(item) = "None" <=> WellFormedStatement(s)
<1> DEFINE m == item.mnemonic
           o == item.operand
<1>1. m \in Mnemonic /\ o \in Operand /\ m = s.mnemonic /\ o = s.operand
  BY DEF ItemRecord
<1>2. CASE m \in LiteralDirective
  <2>1. m # "Clear" /\ m \notin Opcode \cup {"Adr"}
        /\ m \notin {"Input", "Output", "Halt"}
    BY <1>2 DEF LiteralDirective, Opcode, OpcodeOrder
  <2>2. WellFormedStatement(s)
          <=> /\ o.kind = "Number"
              /\ o.value \in (IF m = "Dec" THEN -(WordCount \div 2) ELSE 0) .. WordCount - 1
    BY <1>1, <1>2, <2>1 DEF WellFormedStatement
  <2>3. Fault(item) = "None"
          <=> o # NoOperand /\ Readable(m, o) /\ InWordRange(o.value)
    BY <1>2 DEF Fault, LiteralFault
  <2>4. CASE o.kind # "Number"
    BY <2>2, <2>3, <2>4 DEF Readable
  <2>5. CASE o.kind = "Number"
    <3>1. o.value \in Int /\ o # NoOperand
      BY <1>1, <2>5 DEF Operand, NoOperand
    <3>2. WordCount \in Nat /\ -(WordCount \div 2) <= 0 /\ -(WordCount \div 2) \in Int
      <4>1. MemoryWords \in Nat /\ WordCount = 16 * MemoryWords
        BY MemoryWordsAssumption DEF WordCount
      <4>2. WordCount \div 2 = 8 * MemoryWords
        BY <4>1
      <4> QED
        BY <4>1, <4>2
    <3> DEFINE v == o.value
               half == -(WordCount \div 2)
    <3>3. Readable(m, o) /\ InWordRange(v)
            <=> (v < 0 => m = "Dec") /\ half <= v /\ v <= WordCount - 1
      BY <2>5, <3>1, <3>2 DEF Readable, InWordRange
    <3>4. v \in Int /\ half \in Int /\ half <= 0 /\ WordCount \in Nat
      BY <3>1, <3>2
    <3> HIDE DEF v, half
    <3>5. v \in (IF m = "Dec" THEN half ELSE 0) .. WordCount - 1
            <=> (v < 0 => m = "Dec") /\ half <= v /\ v <= WordCount - 1
      BY <3>4
    <3> QED
      BY <2>2, <2>3, <2>5, <3>1, <3>3, <3>5 DEF v, half
  <2> QED
    BY <2>4, <2>5
<1>3. CASE m = "Clear"
  <2>1. WellFormedStatement(s)
    BY <1>1, <1>3 DEF WellFormedStatement
  <2>2. AliasedOpcode(item) = "LoadImmi" /\ AliasedOperand(item) = Number(0)
    <3>1. AliasedOpcode(item) = "LoadImmi"
      BY <1>3, Zenon DEF AliasedOpcode
    <3> QED
      BY <1>3, <3>1 DEF AliasedOperand
  <2>3. "LoadImmi" \in Opcode /\ TakesOperand("LoadImmi")
        /\ m \notin LiteralDirective
    BY <1>3 DEF Opcode, OpcodeOrder, TakesOperand, LiteralDirective
  <2>4. Number(0) # NoOperand /\ OperandFault(Number(0)) = "None"
    <3>1. 0 \in Addr
      BY MemoryWordsAssumption DEF Addr
    <3> QED
      BY <3>1 DEF Number, NoOperand, OperandFault, AddressLiteral
  <2>5. Fault(item) = "None"
    BY <2>2, <2>3, <2>4 DEF Fault, InstructionFault
  <2> QED
    BY <2>1, <2>5
<1>4. CASE m \notin LiteralDirective \cup {"Clear"}
  <2>1. AliasedOpcode(item) = (IF m = "Adr" THEN "JnS" ELSE m)
    <3>1. CASE m = "Adr"
      BY <1>4, <3>1, Zenon DEF AliasedOpcode
    <3>2. CASE m # "Adr"
      <4>1. AliasedOpcode(item) = item.mnemonic
        BY <1>4, <3>2, Zenon DEF AliasedOpcode
      <4> QED
        BY <3>2, <4>1
    <3> QED
      BY <3>1, <3>2
  <2>2. AliasedOperand(item) = o
    BY <1>4 DEF AliasedOperand
  <2>3. o # NoOperand /\ OperandFault(o) = "None" <=> WellFormedOperand(o)
    BY <1>1, OperandMeant
  <2>4. CASE m = "Adr"
    <3>1. AliasedOpcode(item) = "JnS" /\ "JnS" \in Opcode /\ TakesOperand("JnS")
      BY <2>1, <2>4 DEF Opcode, OpcodeOrder, TakesOperand
    <3>2. Fault(item) = "None" <=> o # NoOperand /\ OperandFault(o) = "None"
      BY <1>4, <2>2, <3>1 DEF Fault, InstructionFault
    <3>3. WellFormedStatement(s) <=> WellFormedOperand(o)
      BY <1>1, <2>4 DEF WellFormedStatement, LiteralDirective
    <3> QED
      BY <2>3, <3>2, <3>3
  <2>5. CASE m \in {"Input", "Output", "Halt"}
    <3>1. AliasedOpcode(item) = m /\ m \in Opcode /\ ~TakesOperand(m)
      BY <2>1, <2>5 DEF Opcode, OpcodeOrder, TakesOperand
    <3>2. Fault(item) = "None" <=> o = NoOperand
      BY <1>4, <2>2, <3>1 DEF Fault, InstructionFault
    <3>3. WellFormedStatement(s) <=> o = NoOperand
      BY <1>1, <1>4, <2>5 DEF WellFormedStatement
    <3> QED
      BY <3>2, <3>3
  <2>6. CASE m \in Opcode \ {"Input", "Output", "Halt"}
    <3>1. m # "Adr"
      BY <2>6 DEF Opcode, OpcodeOrder
    <3>2. AliasedOpcode(item) = m /\ m \in Opcode /\ TakesOperand(m)
      BY <2>1, <2>6, <3>1 DEF TakesOperand
    <3>3. Fault(item) = "None" <=> o # NoOperand /\ OperandFault(o) = "None"
      BY <1>4, <2>2, <3>2 DEF Fault, InstructionFault
    <3>4. WellFormedStatement(s) <=> WellFormedOperand(o)
      BY <1>1, <1>4, <2>6 DEF WellFormedStatement
    <3> QED
      BY <2>3, <3>3, <3>4
  <2>7. CASE m \notin Opcode \cup {"Adr"}
    <3>1. {"Input", "Output", "Halt"} \subseteq Opcode
      BY DEF Opcode, OpcodeOrder
    <3>2. AliasedOpcode(item) \notin Opcode
      BY <2>1, <2>7
    <3>3. Fault(item) # "None"
      BY <1>4, <3>2 DEF Fault, InstructionFault
    <3>4. ~WellFormedStatement(s)
      BY <1>1, <1>4, <2>7, <3>1 DEF WellFormedStatement
    <3> QED
      BY <3>3, <3>4
  <2> QED
    BY <2>4, <2>5, <2>6, <2>7
<1> QED
  BY <1>2, <1>3, <1>4

\* The JnS opcode is the zero nibble.
LEMMA JnSIsZero ==
  ASSUME NEW a \in Int
  PROVE  Encode("JnS", a) = a
<1> DEFINE i == CHOOSE i \in 1 .. 15 : OpcodeOrder[i] = "JnS"
<1>1. OpcodeOrder[1] = "JnS" /\ 1 \in 1 .. 15
  BY DEF OpcodeOrder
<1>2. \A k \in 1 .. 15 : OpcodeOrder[k] = "JnS" => k = 1
  <2> TAKE k \in 1 .. 15
  <2>1. k \in {1, 2, 3, 4, 5, 6, 7, 8, 9, 10, 11, 12, 13, 14, 15}
    OBVIOUS
  <2> QED
    BY <2>1 DEF OpcodeOrder
<1>3. i = 1
  BY <1>1, <1>2
<1>4. Encode("JnS", a) = (i - 1) * MemoryWords + a
  BY DEF Encode
<1> HIDE DEF i
<1> QED
  BY <1>3, <1>4, MemoryWordsAssumption

\* Its word is what it means.
LEMMA WordMeant ==
  ASSUME TypeOK, LayoutRead, ~Parsing, NEW item \in ItemRecord, NEW s,
         s.mnemonic = item.mnemonic, s.operand = item.operand,
         Fault(item) = "None"
  PROVE  WordFor(item) = MeaningOfStatement(s)
<1> DEFINE m == item.mnemonic
           o == item.operand
<1>1. m \in Mnemonic \ {"End"} /\ o \in Operand /\ m = s.mnemonic /\ o = s.operand
  BY DEF ItemRecord
<1>2. CASE m \in LiteralDirective
  <2>1. m # "Clear" /\ m # "Adr"
    BY <1>2 DEF LiteralDirective
  <2>2. m \notin Opcode
    BY <1>2 DEF LiteralDirective, Opcode, OpcodeOrder
  <2>3. MeaningOfStatement(s) = s.operand.value % WordCount
    BY <1>1, <1>2, <2>1, <2>2, Zenon DEF MeaningOfStatement
  <2>4. WordFor(item) = o.value % WordCount
    BY <1>2 DEF WordFor
  <2> QED
    BY <1>1, <2>3, <2>4
<1>3. CASE m = "Clear"
  <2>1. m # "Adr" /\ m \notin LiteralDirective /\ m \notin Opcode
    BY <1>3 DEF LiteralDirective, Opcode, OpcodeOrder
  <2>2. AliasedOpcode(item) = "LoadImmi"
    BY <1>3, Zenon DEF AliasedOpcode
  <2>3. AliasedOperand(item).kind = "Number" /\ AliasedOperand(item).value = 0
    BY <1>3 DEF AliasedOperand, Number
  <2>4. WordFor(item) = Encode("LoadImmi", 0)
    BY <2>1, <2>2, <2>3 DEF WordFor
  <2>5. MeaningOfStatement(s) = Encode("LoadImmi", 0)
    BY <1>1, <1>3, <2>1, Zenon DEF MeaningOfStatement
  <2> QED
    BY <2>4, <2>5
<1>4. CASE m \notin LiteralDirective \cup {"Clear"}
  <2> DEFINE v == IF o.kind = "Name" THEN symbols[o.text].address
                  ELSE IF o.kind = "Number" THEN o.value ELSE 0
  <2>1. AliasedOperand(item) = o
    BY <1>4 DEF AliasedOperand
  <2>2. WordFor(item) = Encode(AliasedOpcode(item), v)
    BY <1>4, <2>1 DEF WordFor
  <2>3. AliasedOpcode(item) \in Opcode
    BY <1>4 DEF Fault, InstructionFault
  <2>4. AliasedOpcode(item) = (IF m = "Adr" THEN "JnS" ELSE m)
    <3>1. CASE m = "Adr"
      BY <1>4, <3>1, Zenon DEF AliasedOpcode
    <3>2. CASE m # "Adr"
      <4>1. AliasedOpcode(item) = item.mnemonic
        BY <1>4, <3>2, Zenon DEF AliasedOpcode
      <4> QED
        BY <3>2, <4>1
    <3> QED
      BY <3>1, <3>2
  <2>5. o # NoOperand /\ TakesOperand(AliasedOpcode(item)) => OperandFault(o) = "None"
    BY <1>4, <2>1, <2>3 DEF Fault, InstructionFault
  <2>6. o # NoOperand => TakesOperand(AliasedOpcode(item))
    BY <1>4, <2>1, <2>3 DEF Fault, InstructionFault
  <2>7. Value(o) = v /\ v \in Int
    <3>1. CASE o.kind = "Number"
      <4>1. Value(o) = o.value
        BY <3>1, Zenon DEF Value
      <4>2. o.value \in Int
        BY <1>1, <3>1 DEF Operand, NoOperand
      <4> QED
        BY <3>1, <4>1, <4>2
    <3>2. CASE o.kind = "Name"
      <4>1. Value(o) = MeaningOfLabel(o.text)
        <5>1. o.kind # "Number"
          BY <3>2
        <5> QED
          BY <3>2, <5>1, Zenon DEF Value
      <4>2. o # NoOperand
        BY <3>2 DEF NoOperand
      <4>3. OperandFault(o) = "None"
        BY <2>5, <2>6, <4>2
      <4>4. o.text \in DOMAIN symbols
        BY <3>2, <4>3 DEF OperandFault, AddressLiteral
      <4>5. MeaningOfLabel(o.text) = symbols[o.text].address
        BY <4>4, SymbolsMeant
      <4>6. symbols[o.text].address \in Addr
        BY <4>4 DEF TypeOK, Symbol
      <4> QED
        BY <3>2, <4>1, <4>5, <4>6, MemoryWordsAssumption DEF Addr
    <3>3. CASE o.kind # "Number" /\ o.kind # "Name"
      <4>1. Value(o) = 0
        BY <3>3, Zenon DEF Value
      <4> QED
        BY <3>3, <4>1
    <3> QED
      BY <3>1, <3>2, <3>3
  <2> HIDE DEF v
  <2>8. CASE m = "Adr"
    <3>1. MeaningOfStatement(s) = Value(s.operand)
      <4>1. m # "Clear" /\ m \notin LiteralDirective /\ m \notin Opcode
        BY <2>8 DEF LiteralDirective, Opcode, OpcodeOrder
      <4> QED
        BY <1>1, <2>8, <4>1, Zenon DEF MeaningOfStatement
    <3>2. WordFor(item) = Encode("JnS", v)
      BY <2>2, <2>4, <2>8
    <3> QED
      BY <1>1, <2>7, <3>1, <3>2, JnSIsZero
  <2>9. CASE m # "Adr"
    <3>1. m \in Opcode
      BY <2>3, <2>4, <2>9
    <3>2. m # "Clear" /\ m # "Adr" /\ m \notin LiteralDirective
      BY <1>4, <2>9
    <3>3. MeaningOfStatement(s) = Encode(s.mnemonic, Value(s.operand))
      BY <1>1, <3>1, <3>2, Zenon DEF MeaningOfStatement
    <3> QED
      BY <1>1, <2>2, <2>4, <2>7, <2>9, <3>3
  <2> QED
    BY <2>8, <2>9
<1> QED
  BY <1>2, <1>3, <1>4

\* The statement an item was read from.
LEMMA ItemSource ==
  ASSUME IInv, LayoutRead, NEW k \in 1 .. Len(items)
  PROVE  /\ items[k].line \in WordLines
         /\ source[items[k].line].mnemonic = items[k].mnemonic
         /\ source[items[k].line].operand = items[k].operand
<1>1. ItemOfLine(k, items[k].line)
  BY DEF LayoutRead, ItemsRead
<1> QED
  BY <1>1 DEF ItemOfLine, WordsBefore

\* What was made of the lines stays while no line is read.
LEMMA LayoutStays ==
  ASSUME TypeOK, LayoutRead,
         UNCHANGED << source, position, origin, items, stopped >>,
         DOMAIN symbols' = DOMAIN symbols,
         \A l \in DOMAIN symbols : /\ symbols'[l].address = symbols[l].address
                                   /\ symbols'[l].line = symbols[l].line
  PROVE  LayoutRead'
<1>1. /\ EndLines' = EndLines /\ Live' = Live /\ FirstEnd' = FirstEnd
      /\ WordLines' = WordLines /\ OrgLines' = OrgLines
      /\ \A l : LabelLines(l)' = LabelLines(l)
      /\ \A t : WellFormedStatement(t)' <=> WellFormedStatement(t)
      /\ \A t : MeaningOfStatement(t)' = MeaningOfStatement(t)
  BY MeaningStays
<1>2. LinesRead' /\ OriginRead'
  <2>1. stopped' <=> stopped
    <3>1. stopped' = stopped
      OBVIOUS
    <3> QED
      BY <3>1
  <2>2. stopped <=> \E e \in EndLines : e < position
    BY DEF LayoutRead, LinesRead
  <2>3. stopped' <=> \E e \in EndLines' : e < position'
    <3>1. (\E e \in EndLines' : e < position') <=> \E e \in EndLines : e < position
      BY <1>1
    <3> QED
      BY <2>1, <2>2, <3>1, Zenon
  <2>4. \A i \in Live' : i < position' => source'[i].form # "Malformed"
    <3>1. \A i \in Live : i < position => source[i].form # "Malformed"
      BY DEF LayoutRead, LinesRead
    <3> QED
      BY <1>1, <3>1
  <2>5. LinesRead'
    BY <2>3, <2>4 DEF LinesRead
  <2>6. OriginRead'
    BY <1>1 DEF LayoutRead, OriginRead
  <2> QED
    BY <2>5, <2>6
<1>3. ItemsRead'
  <2>1. WordsBefore(position)' = WordsBefore(position)
    BY <1>1 DEF WordsBefore
  <2>2. \A k \in 1 .. Len(items) : ItemOfLine(k, items[k].line)'
    BY <1>1 DEF LayoutRead, ItemsRead, ItemOfLine, WordsBefore
  <2> QED
    BY <2>1, <2>2 DEF LayoutRead, ItemsRead
<1>4. LabelsRead'
  <2>1. /\ DOMAIN symbols' = DOMAIN symbols
        /\ \A l \in DOMAIN symbols :
             /\ symbols'[l].address = symbols[l].address
             /\ symbols'[l].line = symbols[l].line
    OBVIOUS
  <2>2. OriginAddress' = OriginAddress
    BY DEF OriginAddress
  <2>3. NoLabel \notin DOMAIN symbols
    BY LabelsAssumption DEF TypeOK
  <2>4. \A i \in WordLines' \cup FirstEnd' : i < position' =>
          /\ PlaceOf(i)' \in Addr
          /\ source'[i].label \in DOMAIN symbols' \cup {NoLabel}
          /\ source'[i].label # NoLabel => symbols'[source'[i].label].line = i
    <3>1. \A i : PlaceOf(i)' = PlaceOf(i)
      BY <1>1, <2>2 DEF PlaceOf, WordsBefore
    <3>2. \A i \in WordLines \cup FirstEnd : i < position =>
            /\ PlaceOf(i) \in Addr
            /\ source[i].label \in DOMAIN symbols \cup {NoLabel}
            /\ source[i].label # NoLabel => symbols'[source[i].label].line = i
      BY <2>1 DEF LayoutRead, LabelsRead
    <3> QED
      BY <1>1, <2>1, <3>1, <3>2
  <2>5. \A l \in DOMAIN symbols' :
          /\ symbols'[l].line \in LabelLines(l)' /\ symbols'[l].line < position'
          /\ symbols'[l].address
               = OriginAddress' + Cardinality({ j \in WordLines' : j < symbols'[l].line })
    <3>1. \A l \in DOMAIN symbols :
            /\ symbols[l].line \in LabelLines(l) /\ symbols[l].line < position
            /\ symbols[l].address
                 = OriginAddress + Cardinality({ j \in WordLines : j < symbols[l].line })
      BY DEF LayoutRead, LabelsRead, PlaceOf, WordsBefore
    <3> QED
      BY <1>1, <2>1, <2>2, <3>1
  <2> QED
    BY <2>4, <2>5 DEF LabelsRead, PlaceOf, WordsBefore
<1> QED
  BY <1>2, <1>3, <1>4 DEF LayoutRead

\* An item without a fault becomes the word its line means.
LEMMA AssembleMeant ==
  ASSUME IInv, ReadAsMeant, AssembleItem, Fault(Item) = "None"
  PROVE  ReadAsMeant'
<1> DEFINE n == Len(words)
           s == source[items[n + 1].line]
<1>1. /\ UNCHANGED << source, position, origin, items, stopped >>
      /\ words' = Append(words, WordFor(Item)) /\ ~Parsing /\ TypeOK
      /\ Item = items[n + 1]
  BY DEF AssembleItem, Assembling, program, IInv, Item
<1>2. Item \in ItemRecord /\ n + 1 \in 1 .. Len(items) /\ n \in Nat
      /\ Len(items) \in Nat /\ words \in Seq(Word)
  BY ItemAssembled DEF IInv, TypeOK
<1>3. s.mnemonic = Item.mnemonic /\ s.operand = Item.operand
  BY <1>1, <1>2, ItemSource DEF ReadAsMeant
<1>4. WellFormedStatement(s) /\ WordFor(Item) = MeaningOfStatement(s)
  <2>1. WellFormedStatement(s)
    BY <1>1, <1>2, <1>3, FaultMeant DEF ReadAsMeant
  <2>2. WordFor(Item) = MeaningOfStatement(s)
    BY <1>1, <1>2, <1>3, WordMeant DEF ReadAsMeant
  <2> QED
    BY <2>1, <2>2
<1>5. /\ \A t : WellFormedStatement(t)' <=> WellFormedStatement(t)
      /\ \A t : MeaningOfStatement(t)' = MeaningOfStatement(t)
  BY <1>1, MeaningStays
<1>6. LayoutRead'
  <2>1. /\ DOMAIN symbols' = DOMAIN symbols
        /\ \A l \in DOMAIN symbols : /\ symbols'[l].address = symbols[l].address
                                     /\ symbols'[l].line = symbols[l].line
    BY OnlyReferences
  <2> QED
    BY <1>1, <2>1, LayoutStays DEF ReadAsMeant
<1>7. WordsRead'
  <2>1. /\ Len(words') = n + 1 /\ words'[n + 1] = WordFor(Item)
        /\ \A k \in 1 .. n : words'[k] = words[k]
        /\ 1 .. n + 1 = (1 .. n) \cup {n + 1}
    <3>1. WordFor(Item) \in Word
      <4>1. \A l \in DOMAIN symbols : symbols[l].address \in Addr
        BY <1>1 DEF TypeOK, Symbol
      <4> QED
        BY <1>2, <4>1, WordFacts
    <3> QED
      BY <1>1, <1>2, <3>1
  <2>2. \A k \in 1 .. n : /\ WellFormedStatement(source[items[k].line])
                          /\ words[k] = MeaningOfStatement(source[items[k].line])
    BY DEF ReadAsMeant, LayoutRead, WordsRead
  <2>3. ~Parsing'
    BY <1>1 DEF Parsing
  <2> HIDE DEF n
  <2>4. \A k \in 1 .. n + 1 : /\ WellFormedStatement(source[items[k].line])
                              /\ words'[k] = MeaningOfStatement(source[items[k].line])
    BY <1>4, <2>1, <2>2
  <2>5. n + 1 <= Len(items)
    BY <1>2
  <2>6. \A k \in 1 .. Len(words') :
          /\ WellFormedStatement(source[items[k].line])'
          /\ words'[k] = MeaningOfStatement(source[items[k].line])'
    <3> TAKE k \in 1 .. Len(words')
    <3>1. /\ WellFormedStatement(source[items[k].line])
          /\ words'[k] = MeaningOfStatement(source[items[k].line])
      BY <2>1, <2>4
    <3>2. /\ WellFormedStatement(source[items[k].line])'
               <=> WellFormedStatement(source[items[k].line])
          /\ MeaningOfStatement(source[items[k].line])'
               = MeaningOfStatement(source[items[k].line])
      BY <1>1, <1>5
    <3> QED
      BY <3>1, <3>2
  <2> QED
    BY <1>1, <2>1, <2>3, <2>5, <2>6 DEF WordsRead
<1> QED
  BY <1>6, <1>7 DEF ReadAsMeant

\* One with a fault is on a line that is not well formed.
LEMMA FaultRefused ==
  ASSUME IInv, LayoutRead, AssembleItem, Fault(Item) # "None"
  PROVE  ~WellFormed
<1>1. ~Parsing /\ TypeOK /\ Item = items[Len(words) + 1]
  BY DEF AssembleItem, Assembling, IInv, Item
<1>2. Item \in ItemRecord /\ Len(words) + 1 \in 1 .. Len(items)
  BY ItemAssembled
<1>3. /\ Item.line \in WordLines
      /\ source[Item.line].mnemonic = Item.mnemonic
      /\ source[Item.line].operand = Item.operand
  BY <1>1, <1>2, ItemSource
<1>4. ~WellFormedStatement(source[Item.line])
  BY <1>1, <1>2, <1>3, FaultMeant
<1> QED
  BY <1>3, <1>4 DEF WellFormed

\* Nothing is read before the first line.
LEMMA InitMeant ==
  ASSUME Init
  PROVE  Meant
<1>1. /\ TypeOK /\ position = 1 /\ origin = NoOrigin /\ items = << >>
      /\ symbols = << >> /\ words = << >> /\ diagnostics = << >>
      /\ stopped = FALSE
  BY InitFacts DEF IInv, Init
<1>2. source \in Seq(Line) /\ Len(source) \in Nat
  BY <1>1 DEF TypeOK
<1>3. \A i \in 1 .. Len(source) : ~(i < position)
  BY <1>1, <1>2
<1>4. LinesRead
  BY <1>1, <1>3 DEF LinesRead, EndLines, Live
<1>5. OriginRead
  <2>1. \A k \in OrgLines : ~(k < position)
    BY <1>2, <1>3, LinesFacts
  <2> QED
    BY <1>1, <2>1 DEF OriginRead
<1>6. ItemsRead
  <2>1. WordsBefore(position) = {}
    BY <1>2, <1>3, LinesFacts DEF WordsBefore
  <2>2. Cardinality(WordsBefore(position)) = 0
    BY <2>1, FS_EmptySet
  <2> QED
    BY <1>1, <2>1, <2>2 DEF ItemsRead
<1>7. LabelsRead
  <2>1. \A i \in WordLines \cup FirstEnd : ~(i < position)
    BY <1>2, <1>3, LinesFacts
  <2>2. DOMAIN symbols = {}
    BY <1>1
  <2> QED
    BY <2>1, <2>2 DEF LabelsRead
<1>8. WordsRead
  BY <1>1 DEF WordsRead
<1> QED
  BY <1>1, <1>4, <1>5, <1>6, <1>7, <1>8 DEF Meant, ReadAsMeant, LayoutRead

\* The first pass reports an error only of a file that is not well formed.
LEMMA RefusalMeant ==
  ASSUME IInv, ReadAsMeant,
         RejectMalformedLine \/ RejectOrigin \/ RefuseTooLarge \/ SkipRejectedLabel
  PROVE  ~WellFormed
<1>1. CASE RejectMalformedLine
  <2>1. Parsing /\ ~stopped /\ Text.form = "Malformed" /\ TypeOK
    BY <1>1 DEF RejectMalformedLine, Reads, IInv
  <2>2. position \in Live
    BY <2>1, NextLine DEF ReadAsMeant, LayoutRead
  <2> QED
    BY <2>1, <2>2 DEF WellFormed, Text
<1> QED
  BY <1>1, OriginRefused, TooLargeRefused, LabelRefused

\* A step that reports.
LEMMA ReportMeant ==
  ASSUME diagnostics \in DiagnosticList, NEW code, NEW line,
         Report(code, line)
  PROVE  diagnostics' # << >>
<1>1. Len(diagnostics') = Len(diagnostics) + 1 /\ Len(diagnostics) \in Nat
  BY DEF Report, DiagnosticList
<1> QED
  BY <1>1

\* Every step keeps what was read as it is meant, or refuses the file.
LEMMA StepMeant ==
  ASSUME IInv, Meant, [Next]_vars
  PROVE  Meant'
<1>1. diagnostics \in DiagnosticList /\ TypeOK
  BY DEF IInv, TypeOK, DiagnosticList
<1>2. source' = source
  BY DEF Next, PassOne, SkipDeadLine, SkipBlankLine, RejectMalformedLine,
     ParseOrigin, RejectOrigin, RefuseTooLarge, SkipRejectedLabel, ParseEnd,
     ParseItem, AssembleItem, Advance, vars
<1>3. WellFormed' <=> WellFormed
  BY <1>2, MeaningStays
<1>4. CASE diagnostics # << >>
  <2>1. ASSUME NEW code, NEW line, Report(code, line)
        PROVE  diagnostics' # << >>
    BY <1>1, <2>1, ReportMeant
  <2>2. diagnostics' # << >>
    <3>1. diagnostics' = diagnostics
            \/ \E code, line : Report(code, line)
      BY DEF Next, PassOne, SkipDeadLine, SkipBlankLine, RejectMalformedLine,
         ParseOrigin, RejectOrigin, RefuseTooLarge, SkipRejectedLabel,
         ParseEnd, ParseItem, AssembleItem, vars
    <3> QED
      BY <1>4, <2>1, <3>1
  <2>3. ~WellFormed
    BY <1>4 DEF Meant
  <2> QED
    BY <1>3, <2>2, <2>3 DEF Meant
<1>5. CASE diagnostics = << >>
  <2>0. ReadAsMeant
    BY <1>5 DEF Meant
  <2>1. CASE SkipDeadLine \/ SkipBlankLine
    <3>1. /\ Parsing /\ Advance /\ diagnostics' = diagnostics
          /\ UNCHANGED << origin, items, symbols, stopped >>
      BY <2>1 DEF SkipDeadLine, SkipBlankLine, Reads, program
    <3>2. CASE stopped
      <4>1. position \notin Live \cup WordLines \cup OrgLines \cup FirstEnd
        BY <1>1, <2>0, <3>1, <3>2, DeadLine DEF ReadAsMeant, LayoutRead
      <4> QED
        BY <1>1, <1>5, <2>0, <3>1, <3>2, <4>1, MeaninglessLine DEF Meant
    <3>3. CASE ~stopped
      <4>1. Text.form = "Empty" \/ Text.form = "Comment"
        BY <2>1, <3>3 DEF SkipDeadLine, SkipBlankLine, Reads
      <4>2. /\ position \notin WordLines \cup FirstEnd \cup OrgLines
            /\ position \notin EndLines /\ Text.form # "Malformed"
        BY <1>1, <2>0, <3>1, <3>3, <4>1, NextLine DEF ReadAsMeant, LayoutRead
      <4> QED
        BY <1>1, <1>5, <2>0, <3>1, <4>2, MeaninglessLine DEF Meant
    <3> QED
      BY <3>2, <3>3
  <2>2. CASE RejectMalformedLine \/ RejectOrigin \/ RefuseTooLarge
             \/ SkipRejectedLabel
    <3>1. \E code, line : Report(code, line)
      BY <2>2 DEF RejectMalformedLine, RejectOrigin, RefuseTooLarge,
         SkipRejectedLabel
    <3>2. diagnostics' # << >>
      BY <1>1, <3>1, ReportMeant
    <3>3. ~WellFormed
      BY <2>0, <2>2, RefusalMeant
    <3> QED
      BY <1>3, <3>2, <3>3 DEF Meant
  <2>3. CASE ParseOrigin
    BY <1>5, <2>0, <2>3, OriginMeant DEF Meant, ParseOrigin
  <2>4. CASE ParseEnd
    BY <1>5, <2>0, <2>4, EndMeant DEF Meant, ParseEnd
  <2>5. CASE ParseItem
    BY <1>5, <2>0, <2>5, ItemMeant DEF Meant, ParseItem
  <2>6. CASE AssembleItem /\ Fault(Item) = "None"
    BY <1>5, <2>0, <2>6, AssembleMeant DEF Meant, AssembleItem
  <2>7. CASE AssembleItem /\ Fault(Item) # "None"
    <3>1. Report(Fault(Item), Item.line)
      BY <2>7 DEF AssembleItem
    <3>2. diagnostics' # << >>
      BY <1>1, <3>1, ReportMeant
    <3>3. ~WellFormed
      BY <2>0, <2>7, FaultRefused DEF ReadAsMeant
    <3> QED
      BY <1>3, <3>2, <3>3 DEF Meant
  <2>8. CASE UNCHANGED vars
    <3>1. UNCHANGED << source, position, origin, items, stopped, symbols,
                       words, diagnostics >>
      BY <2>8 DEF vars, program
    <3>2. /\ EndLines' = EndLines /\ Live' = Live /\ FirstEnd' = FirstEnd
          /\ WordLines' = WordLines /\ OrgLines' = OrgLines
          /\ \A l : LabelLines(l)' = LabelLines(l)
          /\ \A t : WellFormedStatement(t)' <=> WellFormedStatement(t)
          /\ \A t : MeaningOfStatement(t)' = MeaningOfStatement(t)
      BY <3>1, MeaningStays
    <3>3. OriginAddress' = OriginAddress
      BY <3>1 DEF OriginAddress
    <3>4. LinesRead'
      <4>1. stopped' <=> stopped
        <5>1. stopped' = stopped
          BY <3>1
        <5> QED
          BY <5>1
      <4>2. stopped <=> \E e \in EndLines : e < position
        BY <2>0 DEF ReadAsMeant, LayoutRead, LinesRead
      <4>3. (\E e \in EndLines' : e < position') <=> \E e \in EndLines : e < position
        BY <3>1, <3>2
      <4>4. \A i \in Live' : i < position' => source'[i].form # "Malformed"
        BY <2>0, <3>1, <3>2 DEF ReadAsMeant, LayoutRead, LinesRead
      <4>5. stopped' <=> \E e \in EndLines' : e < position'
        BY <4>1, <4>2, <4>3, Zenon
      <4> QED
        BY <4>4, <4>5 DEF LinesRead
    <3>5. OriginRead'
      BY <2>0, <3>1, <3>2 DEF ReadAsMeant, LayoutRead, OriginRead
    <3>6. ItemsRead'
      BY <2>0, <3>1, <3>2
         DEF ReadAsMeant, LayoutRead, ItemsRead, ItemOfLine, WordsBefore
    <3>7. LabelsRead'
      BY <2>0, <3>1, <3>2, <3>3
         DEF ReadAsMeant, LayoutRead, LabelsRead, PlaceOf, WordsBefore
    <3>8. WordsRead'
      <4>1. WordsRead
        BY <2>0 DEF ReadAsMeant, LayoutRead
      <4> QED
        BY <3>1, <3>2, <4>1 DEF WordsRead, Parsing
    <3> QED
      BY <1>5, <3>1, <3>4, <3>5, <3>6, <3>7, <3>8
         DEF Meant, ReadAsMeant, LayoutRead
  <2> QED
    BY <2>1, <2>2, <2>3, <2>4, <2>5, <2>6, <2>7, <2>8 DEF Next, PassOne
<1> QED
  BY <1>4, <1>5

-----------------------------------------------------------------------------
(* What the passes promise.                                                *)

\* After the last line.
LEMMA AllRead ==
  ASSUME TypeOK, ~Parsing
  PROVE  /\ source \in Seq(Line) /\ Len(source) \in Nat
         /\ position = Len(source) + 1
BY DEF TypeOK, Parsing

\* What is well formed of a file apart from its statements.
WellLaidOut ==
  /\ \A i \in Live : source[i].form # "Malformed"
  /\ Cardinality(OrgLines) <= 1
  /\ \A i \in OrgLines, j \in WordLines : i < j
  /\ \A i \in WordLines \cup FirstEnd : source[i].label \in Labels \cup {NoLabel}
  /\ \A l \in Labels : Cardinality(LabelLines(l)) <= 1
  /\ \A i \in WordLines \cup FirstEnd : AddressOfLine(i) \in Addr

\* A file the first pass has read to its end without an error is.
LEMMA AcceptsLayout ==
  ASSUME TypeOK, LayoutRead, ~Parsing
  PROVE  /\ WellLaidOut
         /\ \A i \in WordLines : \E k \in 1 .. Len(items) : items[k].line = i
<1>2. source \in Seq(Line) /\ Len(source) \in Nat
      /\ \A i \in 1 .. Len(source) : i < position
  <2>1. source \in Seq(Line) /\ Len(source) \in Nat /\ position = Len(source) + 1
    BY AllRead
  <2> QED
    BY <2>1
<1>3. \A i \in Live \cup WordLines \cup OrgLines \cup FirstEnd : i < position
  BY <1>2, LinesFacts DEF Live
<1>4. \A i \in Live : source[i].form # "Malformed"
  BY <1>3 DEF LayoutRead, LinesRead
<1>5. Cardinality(OrgLines) <= 1
  <2>1. \A k, m \in OrgLines : k = m
    BY <1>3 DEF LayoutRead, OriginRead
  <2> QED
    BY <1>2, <2>1, AtMostOne, LinesFacts
<1>6. \A i \in OrgLines, j \in WordLines : i < j
  BY <1>3 DEF LayoutRead, OriginRead
<1>7. \A i \in WordLines \cup FirstEnd : source[i].label \in Labels \cup {NoLabel}
  <2>1. DOMAIN symbols \subseteq Labels
    BY DEF TypeOK
  <2> QED
    BY <1>3, <2>1 DEF LayoutRead, LabelsRead
<1>8. \A l \in Labels : Cardinality(LabelLines(l)) <= 1
  <2> TAKE l \in Labels
  <2>1. CASE l \in DOMAIN symbols
    <3>1. LabelLines(l) = {symbols[l].line}
      BY <2>1, SymbolsMeant
    <3>2. Cardinality(LabelLines(l)) = 1
      BY <3>1, FS_Singleton
    <3> QED
      BY <3>2
  <2>2. CASE l \notin DOMAIN symbols
    <3>1. LabelLines(l) = {}
      BY <2>2, SymbolsMeant DEF Defined
    <3>2. Cardinality(LabelLines(l)) = 0
      BY <3>1, FS_EmptySet
    <3> QED
      BY <3>2
  <2> QED
    BY <2>1, <2>2
<1>9. \A i \in WordLines \cup FirstEnd : AddressOfLine(i) \in Addr
  <2> TAKE i \in WordLines \cup FirstEnd
  <2>1. PlaceOf(i) \in Addr
    BY <1>3 DEF LayoutRead, LabelsRead
  <2>2. PlaceOf(i) = AddressOfLine(i)
    BY SymbolsMeant
  <2> QED
    BY <2>1, <2>2
<1>10. \A i \in WordLines : \E k \in 1 .. Len(items) : items[k].line = i
  <2> TAKE i \in WordLines
  <2>1. i \in WordsBefore(position)
    BY <1>3 DEF WordsBefore
  <2> QED
    BY <2>1 DEF LayoutRead, ItemsRead
<1> QED
  BY <1>4, <1>5, <1>6, <1>7, <1>8, <1>9, <1>10 DEF WellLaidOut

\* With all read and no error, the file is well formed.
LEMMA AcceptsWellFormed ==
  ASSUME IInv, ReadAsMeant, Finished
  PROVE  WellFormed
<1>1. TypeOK /\ ~Parsing /\ Len(words) = Len(items) /\ Len(items) \in Nat
  <2>1. Len(words) \in Nat /\ Len(items) \in Nat
    BY DEF IInv, TypeOK
  <2>2. ~(Len(words) < Len(items)) /\ Len(words) <= Len(items)
    BY DEF Finished, Assembling, ReadAsMeant, WordsRead
  <2> QED
    BY <2>1, <2>2 DEF IInv, Finished
<1>2. /\ WellLaidOut
      /\ \A i \in WordLines : \E k \in 1 .. Len(items) : items[k].line = i
  BY <1>1, AcceptsLayout DEF ReadAsMeant
<1>3. \A i \in WordLines : WellFormedStatement(source[i])
  BY <1>1, <1>2 DEF ReadAsMeant, WordsRead
<1> QED
  BY <1>2, <1>3 DEF WellFormed, WellLaidOut

\* And its image is what it means.
LEMMA ImageMeant ==
  ASSUME IInv, ReadAsMeant, Finished, Succeeded
  PROVE  Image = MeaningOfSource
<1> DEFINE n == Len(items)
<1>1. TypeOK /\ ~Parsing /\ Len(words) = n /\ n \in Nat
  <2>1. Len(words) \in Nat /\ Len(items) \in Nat
    BY DEF IInv, TypeOK
  <2>2. ~(Len(words) < Len(items)) /\ Len(words) <= Len(items)
    BY DEF Finished, Assembling, ReadAsMeant, LayoutRead, WordsRead
  <2> QED
    BY <2>1, <2>2 DEF IInv, Finished
<1>2. BaseAddress = OriginAddress /\ OriginAddress \in Nat
  <2>1. source \in Seq(Line)
    BY <1>1 DEF TypeOK
  <2> QED
    BY <1>1, <2>1, SymbolsMeant, LinesFacts DEF ReadAsMeant
<1>3. OriginAddress + n <= MemoryWords /\ MemoryWords \in Nat
  BY MemoryWordsAssumption DEF IInv, Bounded, NextAddress
<1>4. \A i \in WordLines : i \in WordsBefore(position)
  <2>1. source \in Seq(Line) /\ Len(source) \in Nat /\ position = Len(source) + 1
    BY <1>1, AllRead
  <2>2. \A i \in 1 .. Len(source) : i < position
    BY <2>1
  <2> QED
    BY <2>1, <2>2, LinesFacts DEF WordsBefore
<1>5. \A k \in 1 .. n : /\ items[k].line \in WordLines
                        /\ AddressOfLine(items[k].line) = OriginAddress + (k - 1)
  <2> TAKE k \in 1 .. n
  <2>1. ItemOfLine(k, items[k].line)
    BY DEF ReadAsMeant, LayoutRead, ItemsRead
  <2> QED
    BY <1>2, <2>1 DEF ItemOfLine, WordsBefore, AddressOfLine
<1>6. \A i \in WordLines : \E k \in 1 .. n : items[k].line = i
  BY <1>4 DEF ReadAsMeant, LayoutRead, ItemsRead
<1>7. \A k \in 1 .. n : words[k] = MeaningOfStatement(source[items[k].line])
  BY <1>1 DEF ReadAsMeant, LayoutRead, WordsRead
<1> DEFINE Laid(a) == IF a \in OriginAddress .. OriginAddress + n - 1
                      THEN words[a - OriginAddress + 1] ELSE 0
           Means(a) == IF \E i \in WordLines : AddressOfLine(i) = a
                       THEN MeaningOfStatement(
                              source[CHOOSE i \in WordLines : AddressOfLine(i) = a])
                       ELSE 0
<1>8. ASSUME NEW a \in Addr
      PROVE  Laid(a) = Means(a)
  <2>0. a \in Int
    BY MemoryWordsAssumption DEF Addr
  <2>1. CASE a \in OriginAddress .. OriginAddress + n - 1
    <3> DEFINE k == a - OriginAddress + 1
               c == CHOOSE i \in WordLines : AddressOfLine(i) = a
    <3>1. k \in 1 .. n /\ a = OriginAddress + (k - 1)
      BY <1>1, <1>2, <2>0, <2>1
    <3>2. items[k].line \in WordLines /\ AddressOfLine(items[k].line) = a
      BY <1>5, <3>1
    <3>3. c \in WordLines /\ AddressOfLine(c) = a
      BY <3>2
    <3>4. Means(a) = MeaningOfStatement(source[c]) /\ Laid(a) = words[k]
      BY <2>1, <3>2
    <3> HIDE DEF c, k, Means, Laid
    <3>5. PICK j \in 1 .. n : items[j].line = c
      BY <1>6, <3>3
    <3>6. OriginAddress + (j - 1) = OriginAddress + (k - 1)
      BY <1>5, <3>1, <3>3, <3>5
    <3>7. j = k
      BY <1>1, <1>2, <3>1, <3>6
    <3> QED
      BY <1>7, <3>1, <3>4, <3>5, <3>7
  <2>2. CASE a \notin OriginAddress .. OriginAddress + n - 1
    <3>1. ~\E i \in WordLines : AddressOfLine(i) = a
      <4> SUFFICES ASSUME NEW i \in WordLines, AddressOfLine(i) = a PROVE FALSE
        OBVIOUS
      <4>1. PICK k \in 1 .. n : items[k].line = i
        BY <1>6
      <4>2. a = OriginAddress + (k - 1)
        BY <1>5, <4>1
      <4> HIDE DEF n
      <4> QED
        BY <1>1, <1>2, <2>2, <4>2
    <3> QED
      BY <2>2, <3>1
  <2> QED
    BY <2>1, <2>2
<1>9. Image = [a \in Addr |-> Laid(a)]
  BY <1>1, <1>3 DEF Image
<1>10. MeaningOfSource = [a \in Addr |-> Means(a)]
  BY DEF MeaningOfSource
<1> HIDE DEF Laid, Means
<1> QED
  BY <1>8, <1>9, <1>10

\* The inductive invariant of what both passes have read: what was read is
\* what it means, or the file is not well formed.
THEOREM ReadingInvariance == Spec => [](IInv /\ Meant)
<1>1. Init => IInv /\ Meant
  BY InitFacts, InitMeant
<1>2. (IInv /\ Meant) /\ [Next]_vars => (IInv /\ Meant)'
  BY StepKeeps, StepMeant
<1> QED
  BY <1>1, <1>2, PTL DEF Spec

\* An error is reported for exactly the files that are not well formed, for
\* every memory size and every source file.
THEOREM ErrorsAreExact == Spec => []ReportsExactly
<1>1. IInv /\ Meant => ReportsExactly
  <2> SUFFICES ASSUME IInv, Meant, Finished
               PROVE  Succeeded <=> WellFormed
    BY DEF ReportsExactly
  <2>1. CASE Succeeded
    BY <2>1, AcceptsWellFormed DEF Meant, Succeeded
  <2>2. CASE ~Succeeded
    BY <2>2 DEF Meant, Succeeded
  <2> QED
    BY <2>1, <2>2
<1> QED
  BY <1>1, ReadingInvariance, PTL

\* The image of a file without errors is what the file means: forward
\* references, aliases and a label on END alike.
THEOREM ImageIsMeaning == Spec => []AssemblesSource
<1>1. IInv /\ Meant => AssemblesSource
  BY ImageMeant DEF AssemblesSource, Meant, Succeeded
<1> QED
  BY <1>1, ReadingInvariance, PTL

-----------------------------------------------------------------------------
(* What the second pass has told: its faults, who refers to a label, and   *)
(* where the text after END begins.                                        *)

\* The codes of parser.rs, which the second pass does not use.
FirstPassCodes ==
  { "MALFORMED_LINE", "UNEXPECTED_ORIGIN", "PROGRAM_TOO_LARGE",
    "LABEL_STARTS_WITH_DIGIT", "LABEL_CONTAINS_WHITESPACE", "DUPLICATE_LABEL" }

\* None of them has been reported.
FirstPassClean ==
  \A d \in 1 .. Len(diagnostics) : diagnostics[d].code \notin FirstPassCodes

\* A diagnostic is the fault of an item.
Tells(d, k) ==
  /\ Fault(items[k]) # "None"
  /\ diagnostics[d].code = Fault(items[k])
  /\ diagnostics[d].line = items[k].line

\* A file the first pass has no error in is laid out as it means, and what is
\* reported are the faults of the items assembled.
FaultsTold ==
  FirstPassClean =>
    /\ Parsing => diagnostics = << >>
    /\ LayoutRead
    /\ Len(words) <= Len(items)
    /\ \A k \in 1 .. Len(words) : Fault(items[k]) # "None" =>
         \E d \in 1 .. Len(diagnostics) : Tells(d, k)
    /\ \A d \in 1 .. Len(diagnostics) : \E k \in 1 .. Len(words) : Tells(d, k)

\* An item assembled refers to a label.
Refers(k, l) == Referenced(items[k]) /\ items[k].operand.text = l

\* The references of a label are the lines of those items.
ReferencesTold ==
  /\ Parsing => words = << >>
  /\ Len(words) <= Len(items)
  /\ \A l \in DOMAIN symbols :
       References(l) = { items[k].line : k \in { j \in 1 .. Len(words) : Refers(j, l) } }

\* The text after END is below an END.
TrailingDead ==
  trailing # NoLine =>
    /\ trailing \in 1 .. Len(source)
    /\ diagnostics = << >> => \E e \in EndLines : e < trailing

\* What the references, the faults and the trailing text tell of the file, at
\* every step of either pass.
Told == FaultsTold /\ ReferencesTold /\ TrailingDead

\* A fault is told by the labels there are.
LEMMA FaultStays ==
  ASSUME DOMAIN symbols' = DOMAIN symbols, NEW item
  PROVE  Fault(item)' = Fault(item) /\ (Referenced(item)' <=> Referenced(item))
<1>1. Fault(item)' = Fault(item)
  BY DEF Fault, LiteralFault, InstructionFault, OperandFault, Readable, AliasedOperand
<1> QED
  BY <1>1 DEF Referenced

\* A report adds the last of the diagnostics.
LEMMA ReportAdds ==
  ASSUME diagnostics \in DiagnosticList, NEW code, NEW line, Report(code, line)
  PROVE  /\ Len(diagnostics') = Len(diagnostics) + 1 /\ Len(diagnostics) \in Nat
         /\ diagnostics'[Len(diagnostics) + 1].code = code
         /\ diagnostics'[Len(diagnostics) + 1].line = line
         /\ \A d \in 1 .. Len(diagnostics) : diagnostics'[d] = diagnostics[d]
BY DEF Report, DiagnosticList

\* A step of the first pass: its reports are its own.
LEMMA PassOneReports ==
  ASSUME PassOne, IInv
  PROVE  diagnostics' = diagnostics \/ \E code \in FirstPassCodes : Report(code, position)
<1>1. ASSUME SkipRejectedLabel
      PROVE  LabelFault \in FirstPassCodes /\ Report(LabelFault, position)
  BY <1>1 DEF SkipRejectedLabel, LabelFault, FirstPassCodes
<1>2. /\ "MALFORMED_LINE" \in FirstPassCodes /\ "UNEXPECTED_ORIGIN" \in FirstPassCodes
      /\ "PROGRAM_TOO_LARGE" \in FirstPassCodes
  BY DEF FirstPassCodes
<1> QED
  BY <1>1, <1>2 DEF PassOne, SkipDeadLine, SkipBlankLine, RejectMalformedLine, ParseOrigin,
     RejectOrigin, RefuseTooLarge, ParseEnd, ParseItem

\* What every step leaves, and what only one of the passes changes.
LEMMA StepsKeep ==
  ASSUME [Next]_vars
  PROVE  /\ source' = source
         /\ PassOne => Parsing /\ position' = position + 1 /\ words' = words
         /\ ~PassOne => UNCHANGED << position, origin, items, stopped, trailing >>
         /\ ~PassOne => UNCHANGED vars \/ AssembleItem
<1>1. CASE PassOne
  <2>1. Parsing /\ Advance
    BY <1>1 DEF PassOne, SkipDeadLine, SkipBlankLine, RejectMalformedLine, ParseOrigin,
       RejectOrigin, RefuseTooLarge, SkipRejectedLabel, ParseEnd, ParseItem, DefineAndMap,
       Reads
  <2> QED
    BY <1>1, <2>1 DEF Advance
<1>2. CASE AssembleItem
  <2>1. UNCHANGED << source, position, origin, items, stopped, trailing >> /\ ~Parsing
    BY <1>2 DEF AssembleItem, Assembling, program
  <2>2. ~PassOne
    BY <2>1 DEF PassOne, SkipDeadLine, SkipBlankLine, RejectMalformedLine, ParseOrigin,
       RejectOrigin, RefuseTooLarge, SkipRejectedLabel, ParseEnd, ParseItem, DefineAndMap,
       Reads
  <2> QED
    BY <1>2, <2>1, <2>2
<1>3. CASE UNCHANGED vars /\ ~PassOne
  BY <1>3 DEF vars, program
<1> QED
  BY <1>1, <1>2, <1>3 DEF Next

\* Every step keeps what is told of the faults.
LEMMA FaultsStayTold ==
  ASSUME IInv, Meant, FaultsTold, Parsing => words = << >>, [Next]_vars
  PROVE  FaultsTold'
<1>0. /\ diagnostics \in DiagnosticList /\ TypeOK /\ Len(words) \in Nat
      /\ Len(items) \in Nat /\ words \in Seq(Word)
  BY DEF IInv, TypeOK, DiagnosticList
<1> SUFFICES ASSUME FirstPassClean' PROVE FaultsTold'
  BY DEF FaultsTold
<1>1. ASSUME NEW code, NEW line, Report(code, line)
      PROVE  FirstPassClean /\ code \notin FirstPassCodes
  <2>1. /\ Len(diagnostics') = Len(diagnostics) + 1 /\ Len(diagnostics) \in Nat
        /\ diagnostics'[Len(diagnostics) + 1].code = code
        /\ \A d \in 1 .. Len(diagnostics) : diagnostics'[d] = diagnostics[d]
    BY <1>0, <1>1, ReportAdds
  <2>2. \A d \in 1 .. Len(diagnostics) + 1 : diagnostics'[d].code \notin FirstPassCodes
    BY <2>1 DEF FirstPassClean
  <2> QED
    BY <2>1, <2>2 DEF FirstPassClean
<1>2. CASE PassOne
  <2>1. diagnostics' = diagnostics
    BY <1>1, <1>2, PassOneReports
  <2>2. FirstPassClean
    BY <2>1 DEF FirstPassClean
  <2>3. diagnostics = << >> /\ words' = << >>
    BY <1>2, <2>2, StepsKeep DEF FaultsTold
  <2>4. Meant'
    BY StepMeant
  <2>5. LayoutRead'
    BY <2>1, <2>3, <2>4 DEF Meant, ReadAsMeant
  <2>6. Len(diagnostics') = 0 /\ Len(words') = 0 /\ Len(items') \in Nat
    <3>1. IInv'
      BY StepKeeps
    <3> QED
      BY <2>1, <2>3, <3>1 DEF IInv, TypeOK
  <2> QED
    BY <2>1, <2>3, <2>5, <2>6 DEF FaultsTold
<1>3. CASE UNCHANGED vars
  <2>1. UNCHANGED << source, position, origin, items, stopped, symbols, words, diagnostics >>
    BY <1>3 DEF vars, program
  <2>2. FirstPassClean
    BY <2>1 DEF FirstPassClean
  <2>3. LayoutRead'
    BY <1>0, <2>1, <2>2, LayoutStays DEF FaultsTold
  <2>4. \A k \in 1 .. Len(words) : Fault(items[k])' = Fault(items[k])
    BY <2>1, FaultStays
  <2>5. \A d, k : Tells(d, k)' <=> Tells(d, k)
    BY <2>1, FaultStays DEF Tells
  <2> QED
    BY <2>1, <2>2, <2>3, <2>4, <2>5 DEF FaultsTold, Parsing
<1>4. CASE AssembleItem
  <2>0. PICK n \in Nat, e \in Nat : n = Len(words) /\ e = Len(diagnostics)
    BY <1>0 DEF DiagnosticList
  <2>1. /\ UNCHANGED << source, position, origin, items, stopped >> /\ ~Parsing
        /\ n < Len(items) /\ words' = Append(words, WordFor(Item)) /\ Item = items[n + 1]
    BY <1>4, <2>0 DEF AssembleItem, Assembling, program, Item
  <2>2. Len(words') = n + 1
    BY <1>0, <2>0, <2>1
  <2>3. /\ DOMAIN symbols' = DOMAIN symbols
        /\ \A l \in DOMAIN symbols : /\ symbols'[l].address = symbols[l].address
                                     /\ symbols'[l].line = symbols[l].line
    BY <1>4, OnlyReferences
  <2>4. FirstPassClean
    <3>1. CASE diagnostics' = diagnostics
      BY <3>1 DEF FirstPassClean
    <3>2. CASE diagnostics' # diagnostics
      BY <1>1, <1>4, <3>2 DEF AssembleItem
    <3> QED
      BY <3>1, <3>2
  <2>5. LayoutRead'
    BY <1>0, <2>0, <2>1, <2>3, <2>4, LayoutStays DEF FaultsTold
  <2>6. \A k : Fault(items[k])' = Fault(items[k])
    BY <2>1, <2>3, FaultStays
  <2>7. /\ e \in Nat /\ \A d \in 1 .. e : diagnostics'[d] = diagnostics[d]
        /\ Fault(Item) = "None" => Len(diagnostics') = e
        /\ Fault(Item) # "None" =>
             /\ Len(diagnostics') = e + 1 /\ diagnostics'[e + 1].code = Fault(Item)
             /\ diagnostics'[e + 1].line = Item.line
    <3>1. CASE Fault(Item) = "None"
      <4>1. diagnostics' = diagnostics
        BY <1>4, <3>1 DEF AssembleItem
      <4> QED
        BY <2>0, <3>1, <4>1
    <3>2. CASE Fault(Item) # "None"
      <4>1. Report(Fault(Item), Item.line)
        BY <1>4, <3>2 DEF AssembleItem
      <4> QED
        BY <1>0, <2>0, <3>2, <4>1, ReportAdds
    <3> QED
      BY <3>1, <3>2
  <2>8. \A d \in 1 .. e, k \in 1 .. n : Tells(d, k)' <=> Tells(d, k)
    BY <2>1, <2>6, <2>7 DEF Tells
  <2>9. Fault(Item) # "None" => Tells(e + 1, n + 1)'
    BY <2>1, <2>6, <2>7 DEF Tells
  <2>10. /\ 1 .. n + 1 = (1 .. n) \cup {n + 1} /\ n \in Nat
         /\ 1 .. e + 1 = (1 .. e) \cup {e + 1} /\ n + 1 <= Len(items)
    <3>1. n + 1 <= Len(items)
      BY <1>0, <2>0, <2>1
    <3> QED
      BY <3>1
  <2>11. \A k \in 1 .. n + 1 : Fault(items[k]) # "None" =>
           \E d \in 1 .. Len(diagnostics') : Tells(d, k)'
    <3> SUFFICES ASSUME NEW k \in 1 .. n + 1, Fault(items[k]) # "None"
                 PROVE  \E d \in 1 .. Len(diagnostics') : Tells(d, k)'
      OBVIOUS
    <3>1. CASE k = n + 1
      <4>1. Len(diagnostics') = e + 1
        BY <2>1, <2>7, <3>1
      <4> QED
        BY <2>1, <2>9, <2>10, <3>1, <4>1
    <3>2. CASE k \in 1 .. n
      <4>1. PICK d \in 1 .. e : Tells(d, k)
        BY <2>0, <2>4, <3>2 DEF FaultsTold
      <4>2. d \in 1 .. Len(diagnostics')
        BY <2>7, <2>10
      <4> QED
        BY <2>8, <3>2, <4>1, <4>2
    <3> QED
      BY <2>10, <3>1, <3>2
  <2>12. \A d \in 1 .. Len(diagnostics') : \E k \in 1 .. n + 1 : Tells(d, k)'
    <3> SUFFICES ASSUME NEW d \in 1 .. Len(diagnostics')
                 PROVE  \E k \in 1 .. n + 1 : Tells(d, k)'
      OBVIOUS
    <3>1. CASE d \in 1 .. e
      <4>1. PICK k \in 1 .. n : Tells(d, k)
        BY <2>0, <2>4, <3>1 DEF FaultsTold
      <4> QED
        BY <2>8, <2>10, <3>1, <4>1
    <3>2. CASE d \notin 1 .. e
      <4>1. Fault(Item) # "None" /\ d = e + 1
        BY <2>7, <2>10, <3>2
      <4> QED
        BY <2>9, <2>10, <4>1
    <3> QED
      BY <3>1, <3>2
  <2>13. ~Parsing'
    BY <2>1 DEF Parsing
  <2>14. \A k \in 1 .. Len(words') : Fault(items[k])' # "None" =>
           \E d \in 1 .. Len(diagnostics') : Tells(d, k)'
    BY <2>2, <2>6, <2>11
  <2> QED
    BY <2>1, <2>2, <2>5, <2>10, <2>12, <2>13, <2>14 DEF FaultsTold
<1> QED
  BY <1>2, <1>3, <1>4, StepsKeep

\* Every step keeps what is told of the references.
LEMMA ReferencesStayTold ==
  ASSUME IInv, ReferencesTold, [Next]_vars
  PROVE  ReferencesTold'
<1>0. /\ TypeOK /\ Len(words) \in Nat /\ Len(items) \in Nat /\ words \in Seq(Word)
      /\ Len(source) \in Nat /\ position \in Nat
  BY DEF IInv, TypeOK
<1>1. CASE PassOne
  <2>1. words' = << >> /\ words = << >> /\ Len(words') = 0
    BY <1>1, StepsKeep DEF ReferencesTold
  <2>2. Len(items') \in Nat
    <3>1. IInv'
      BY StepKeeps
    <3> QED
      BY <3>1 DEF IInv, TypeOK
  <2>3. \A l \in DOMAIN symbols' :
          \/ l \in DOMAIN symbols /\ symbols'[l].references = symbols[l].references
          \/ symbols'[l].references = << >>
    <3>1. CASE symbols' = symbols
      BY <3>1
    <3>2. CASE DefineAndMap /\ Text.label # NoLabel
      <4> DEFINE s == [address |-> NextAddress, line |-> position, references |-> << >>]
      <4>1. symbols' = Insert(symbols, Text.label, s)
        BY <3>2 DEF DefineAndMap
      <4>2. s.references = << >>
        OBVIOUS
      <4> HIDE DEF s
      <4> QED
        BY <4>1, <4>2 DEF Insert
    <3> QED
      BY <1>1, <3>1, <3>2 DEF PassOne, SkipDeadLine, SkipBlankLine, RejectMalformedLine,
         ParseOrigin, RejectOrigin, RefuseTooLarge, SkipRejectedLabel, ParseEnd, ParseItem,
         DefineAndMap
  <2>4. \A l \in DOMAIN symbols' : References(l)' = {}
    <3> SUFFICES ASSUME NEW l \in DOMAIN symbols'
                 PROVE  References(l)' = {}
      OBVIOUS
    <3>1. CASE symbols'[l].references = << >>
      BY <3>1 DEF References
    <3>2. CASE l \in DOMAIN symbols /\ symbols'[l].references = symbols[l].references
      <4>1. References(l) = {}
        BY <2>1, <3>2 DEF ReferencesTold
      <4>2. References(l)' = References(l)
        BY <3>2 DEF References
      <4> QED
        BY <4>1, <4>2
    <3> QED
      BY <2>3, <3>1, <3>2
  <2> QED
    BY <2>1, <2>2, <2>4 DEF ReferencesTold
<1>2. CASE UNCHANGED vars
  <2>1. UNCHANGED << source, position, items, symbols, words >>
    BY <1>2 DEF vars, program
  <2>2. \A k, l : Refers(k, l)' <=> Refers(k, l)
    BY <2>1, FaultStays DEF Refers
  <2>3. \A l : References(l)' = References(l)
    BY <2>1 DEF References
  <2> QED
    BY <2>1, <2>2, <2>3 DEF ReferencesTold, Parsing
<1>3. CASE AssembleItem
  <2>0. PICK n \in Nat : n = Len(words)
    BY <1>0
  <2>1. /\ UNCHANGED << source, position, items >> /\ ~Parsing /\ n < Len(items)
        /\ words' = Append(words, WordFor(Item)) /\ Item = items[n + 1]
    BY <1>3, <2>0 DEF AssembleItem, Assembling, program, Item
  <2>2. Len(words') = n + 1
    BY <1>0, <2>0, <2>1
  <2>3. DOMAIN symbols' = DOMAIN symbols
    BY <1>3, OnlyReferences
  <2>4. \A k, l : Refers(k, l)' <=> Refers(k, l)
    BY <2>1, <2>3, FaultStays DEF Refers
  <2>5. /\ 1 .. n + 1 = (1 .. n) \cup {n + 1} /\ n + 1 <= Len(items)
    <3>1. n + 1 <= Len(items)
      BY <1>0, <2>1
    <3> QED
      BY <3>1
  <2>6. \A l \in DOMAIN symbols :
          References(l) = { items[k].line : k \in { j \in 1 .. n : Refers(j, l) } }
    BY <2>0 DEF ReferencesTold
  <2>7. \A l \in DOMAIN symbols :
          References(l)' = References(l) \cup { items[k].line : k \in { j \in {n + 1} : Refers(j, l) } }
    <3> SUFFICES ASSUME NEW l \in DOMAIN symbols
                 PROVE  References(l)' = References(l) \cup
                          { items[k].line : k \in { j \in {n + 1} : Refers(j, l) } }
      OBVIOUS
    <3>1. CASE Refers(n + 1, l)
      <4>1. Referenced(Item) /\ Item.operand.text = l
        BY <2>1, <3>1 DEF Refers
      <4> DEFINE r == symbols[l].references
      <4>2. symbols'[l].references = Append(r, Item.line)
        <5>1. symbols' = [symbols EXCEPT ![l].references = Append(@, Item.line)]
          BY <1>3, <4>1 DEF AssembleItem
        <5>2. symbols[l] \in Symbol
          BY <1>0 DEF TypeOK
        <5>3. symbols'[l] = [symbols[l] EXCEPT !.references = Append(@, Item.line)]
          BY <5>1
        <5> QED
          BY <5>2, <5>3 DEF Symbol
      <4>3. r \in Seq(Nat \ {0}) /\ Item.line \in Nat \ {0}
        BY <1>0, <1>3, ItemAssembled DEF TypeOK, Symbol, ItemRecord
      <4> HIDE DEF r
      <4>4. { Append(r, Item.line)[k] : k \in 1 .. Len(Append(r, Item.line)) }
              = { r[k] : k \in 1 .. Len(r) } \cup {Item.line}
        <5>1. Len(r) \in Nat /\ Len(Append(r, Item.line)) = Len(r) + 1
          BY <4>3
        <5>2. 1 .. Len(r) + 1 = (1 .. Len(r)) \cup {Len(r) + 1}
          BY <5>1
        <5>3. /\ \A k \in 1 .. Len(r) : Append(r, Item.line)[k] = r[k]
              /\ Append(r, Item.line)[Len(r) + 1] = Item.line
          BY <4>3
        <5> QED
          BY <5>1, <5>2, <5>3
      <4>5. References(l)' = References(l) \cup {Item.line}
        <5>1. References(l)' = { Append(r, Item.line)[k] : k \in 1 .. Len(Append(r, Item.line)) }
          BY <4>2 DEF References
        <5>2. References(l) = { r[k] : k \in 1 .. Len(r) }
          BY DEF References, r
        <5> QED
          BY <4>4, <5>1, <5>2
      <4>6. { items[k].line : k \in { j \in {n + 1} : Refers(j, l) } } = {Item.line}
        BY <2>1, <3>1
      <4> QED
        BY <4>5, <4>6
    <3>2. CASE ~Refers(n + 1, l)
      <4>1. ~(Referenced(Item) /\ Item.operand.text = l)
        BY <2>1, <3>2 DEF Refers
      <4>2. symbols'[l] = symbols[l]
        BY <1>3, <4>1 DEF AssembleItem
      <4>3. References(l)' = References(l)
        BY <4>2 DEF References
      <4>4. { items[k].line : k \in { j \in {n + 1} : Refers(j, l) } } = {}
        BY <3>2
      <4> QED
        BY <4>3, <4>4
    <3> QED
      BY <3>1, <3>2
  <2>8. ASSUME NEW l \in DOMAIN symbols
        PROVE  { items[k].line : k \in { j \in 1 .. n + 1 : Refers(j, l) } }
                 = { items[k].line : k \in { j \in 1 .. n : Refers(j, l) } }
                     \cup { items[k].line : k \in { j \in {n + 1} : Refers(j, l) } }
    BY <2>5
  <2>9. \A l \in DOMAIN symbols :
          References(l)' = { items[k].line : k \in { j \in 1 .. n + 1 : Refers(j, l) } }
    BY <2>6, <2>7, <2>8
  <2>10. ~Parsing'
    BY <2>1 DEF Parsing
  <2>11. \A l \in DOMAIN symbols' :
           References(l)' = { items'[k].line : k \in { j \in 1 .. Len(words') : Refers(j, l)' } }
    BY <2>1, <2>2, <2>3, <2>4, <2>9
  <2> QED
    BY <2>1, <2>2, <2>5, <2>10, <2>11 DEF ReferencesTold
<1> QED
  BY <1>1, <1>2, <1>3, StepsKeep

\* What is dead stays so, and what is found dead is below an END.
LEMMA TrailingStaysDead ==
  ASSUME IInv, Meant, TrailingDead, [Next]_vars
  PROVE  TrailingDead'
<1>1. source' = source /\ EndLines' = EndLines /\ TypeOK /\ diagnostics \in DiagnosticList
  BY StepsKeep, MeaningStays DEF IInv, TypeOK, DiagnosticList
<1>2. diagnostics' = << >> => diagnostics = << >>
  <2> SUFFICES ASSUME diagnostics' # diagnostics PROVE diagnostics' # << >>
    OBVIOUS
  <2>1. \E code, line : Report(code, line)
    BY DEF Next, PassOne, SkipDeadLine, SkipBlankLine, RejectMalformedLine,
       ParseOrigin, RejectOrigin, RefuseTooLarge, SkipRejectedLabel,
       ParseEnd, ParseItem, AssembleItem, vars
  <2> QED
    BY <1>1, <2>1, ReportMeant
<1>3. CASE trailing' = trailing
  BY <1>1, <1>2, <1>3 DEF TrailingDead
<1>4. CASE trailing' # trailing
  <2>1. SkipDeadLine /\ trailing' = position /\ Parsing /\ stopped
    BY <1>4 DEF Next, PassOne, SkipDeadLine, SkipBlankLine, RejectMalformedLine,
       ParseOrigin, RejectOrigin, RefuseTooLarge, SkipRejectedLabel,
       ParseEnd, ParseItem, AssembleItem, vars, program
  <2>2. trailing' \in 1 .. Len(source')
    BY <1>1, <2>1 DEF TypeOK, Parsing
  <2>3. diagnostics' = << >> => \E e \in EndLines' : e < trailing'
    BY <1>1, <1>2, <2>1 DEF Meant, ReadAsMeant, LayoutRead, LinesRead
  <2> QED
    BY <2>2, <2>3 DEF TrailingDead
<1> QED
  BY <1>3, <1>4

\* Nothing has been told at first.
LEMMA InitTold ==
  ASSUME Init
  PROVE  Told
<1>1. /\ IInv /\ Meant /\ words = << >> /\ diagnostics = << >> /\ symbols = << >>
      /\ trailing = NoLine /\ items = << >>
  BY InitFacts, InitMeant DEF Init
<1>2. Len(words) = 0 /\ Len(diagnostics) = 0 /\ Len(items) = 0 /\ DOMAIN symbols = {}
  BY <1>1
<1>3. FaultsTold
  BY <1>1, <1>2 DEF FaultsTold, Meant, ReadAsMeant
<1>4. ReferencesTold
  BY <1>1, <1>2 DEF ReferencesTold
<1>5. TrailingDead
  BY <1>1 DEF TrailingDead
<1> QED
  BY <1>3, <1>4, <1>5 DEF Told

\* The inductive invariant of what the second pass tells.
THEOREM TellingInvariance == Spec => [](IInv /\ Meant /\ Told)
<1>1. Init => IInv /\ Meant /\ Told
  BY InitFacts, InitMeant, InitTold
<1>2. (IInv /\ Meant /\ Told) /\ [Next]_vars => (IInv /\ Meant /\ Told)'
  <2> SUFFICES ASSUME IInv, Meant, Told, [Next]_vars
               PROVE  (IInv /\ Meant /\ Told)'
    OBVIOUS
  <2>1. IInv' /\ Meant'
    BY StepKeeps, StepMeant
  <2>2. FaultsTold' /\ ReferencesTold' /\ TrailingDead'
    <3>1. FaultsTold'
      BY FaultsStayTold DEF Told, ReferencesTold
    <3>2. ReferencesTold'
      BY ReferencesStayTold DEF Told
    <3>3. TrailingDead'
      BY TrailingStaysDead DEF Told
    <3> QED
      BY <3>1, <3>2, <3>3
  <2> QED
    BY <2>1, <2>2 DEF Told
<1> QED
  BY <1>1, <1>2, PTL DEF Spec

-----------------------------------------------------------------------------
(* Edited files.                                                           *)

\* What a file means is made of the same pieces, whatever the file.
LEMMA SamePieces ==
  ASSUME NEW edited
  PROVE  /\ After(edited)!Addr = Addr /\ After(edited)!WordCount = WordCount
         /\ After(edited)!Opcode = Opcode
         /\ After(edited)!LiteralDirective = LiteralDirective
         /\ After(edited)!NoLabel = NoLabel /\ After(edited)!NoOperand = NoOperand
         /\ \A S : After(edited)!Cardinality(S) = Cardinality(S)
         /\ \A opcode, operand : After(edited)!Encode(opcode, operand) = Encode(opcode, operand)
<1>1. After(edited)!Addr = Addr /\ After(edited)!WordCount = WordCount
  BY DEF After!Addr, Addr, After!WordCount, WordCount
<1>2. After(edited)!Opcode = Opcode
  BY DEF After!Opcode, Opcode, After!OpcodeOrder, OpcodeOrder
<1>3. /\ After(edited)!LiteralDirective = LiteralDirective
      /\ After(edited)!NoLabel = NoLabel /\ After(edited)!NoOperand = NoOperand
  BY DEF After!LiteralDirective, LiteralDirective, After!NoLabel, NoLabel,
     After!NoOperand, NoOperand
<1>4. ASSUME NEW S
      PROVE  After(edited)!Cardinality(S) = Cardinality(S)
  BY DEF After!Cardinality, Cardinality
<1>5. ASSUME NEW opcode, NEW operand
      PROVE  After(edited)!Encode(opcode, operand) = Encode(opcode, operand)
  BY DEF After!Encode, Encode, After!OpcodeOrder, OpcodeOrder
<1> QED
  BY <1>1, <1>2, <1>3, <1>4, <1>5

\* An edit that leaves where statements, ORG and END stand, except that it may
\* take away what is below an END.
SameLines(edited) ==
  /\ Len(edited) \in Nat /\ Len(edited) <= Len(source)
  /\ Len(edited) < Len(source) => \E e \in EndLines : e <= Len(edited)
  /\ \A i \in 1 .. Len(edited) :
       /\ edited[i].form = source[i].form
       /\ source[i].form = "Origin" => edited[i].address = source[i].address
       /\ source[i].form = "Statement" =>
            (edited[i].mnemonic = "End" <=> source[i].mnemonic = "End")

\* The lines of a label in it.
LabelsOf(edited, l) == { i \in WordLines \cup FirstEnd : edited[i].label = l }

\* An edit that keeps the lines keeps where everything is placed.
LEMMA EditLayout ==
  ASSUME NEW edited, SameLines(edited), source \in Seq(Line)
  PROVE  /\ After(edited)!Live = Live
         /\ After(edited)!FirstEnd = FirstEnd /\ After(edited)!WordLines = WordLines
         /\ After(edited)!OrgLines = OrgLines
         /\ \A i : After(edited)!AddressOfLine(i) = AddressOfLine(i)
         /\ \A l : After(edited)!LabelLines(l) = LabelsOf(edited, l)
         /\ Live \cup FirstEnd \subseteq 1 .. Len(edited)
<1> DEFINE n == Len(edited)
<1>0. /\ n \in Nat /\ Len(source) \in Nat /\ n <= Len(source)
      /\ 1 .. n \subseteq 1 .. Len(source)
      /\ \A i \in 1 .. Len(source) : i \in Int /\ (i \notin 1 .. n => n < i)
  <2>1. n \in Nat /\ Len(source) \in Nat /\ n <= Len(source)
    BY DEF SameLines
  <2> HIDE DEF n
  <2> QED
    BY <2>1
<1>a. n # Len(source) => \E e \in EndLines : e <= n
  BY <1>0 DEF SameLines
<1>b. \A i \in 1 .. n :
        /\ edited[i].form = source[i].form
        /\ source[i].form = "Origin" => edited[i].address = source[i].address
        /\ source[i].form = "Statement" =>
             (edited[i].mnemonic = "End" <=> source[i].mnemonic = "End")
  BY DEF SameLines
<1>1. After(edited)!EndLines = { e \in EndLines : e \in 1 .. n }
  <2>1. After(edited)!EndLines = { i \in 1 .. n : edited[i].form = "Statement" /\ edited[i].mnemonic = "End" }
    BY DEF After!EndLines, After!IsEnd, After!IsStatement
  <2>2. EndLines = { i \in 1 .. Len(source) : source[i].form = "Statement" /\ source[i].mnemonic = "End" }
    BY DEF EndLines, IsEnd, IsStatement
  <2> HIDE DEF n
  <2> QED
    BY <1>0, <1>b, <2>1, <2>2
<1>c. /\ EndLines \subseteq 1 .. Len(source) /\ Live \subseteq 1 .. Len(source)
      /\ FirstEnd \subseteq EndLines
  BY DEF EndLines, Live, FirstEnd
<1>d. Live \cup FirstEnd \subseteq 1 .. n
  <2>1. CASE n = Len(source)
    BY <1>c, <2>1
  <2>2. CASE n # Len(source)
    <3>1. PICK e \in EndLines : e <= n
      BY <1>a, <2>2
    <3>2. \A i \in Live : i < e
      BY DEF Live
    <3>3. \A i \in FirstEnd : i <= e
      BY DEF FirstEnd
    <3>4. e \in 1 .. Len(source)
      BY <1>c
    <3> HIDE DEF n
    <3>5. ASSUME NEW i \in 1 .. Len(source), i <= e PROVE i \in 1 .. n
      BY <1>0, <3>1, <3>4, <3>5
    <3>6. \A i \in Live \cup FirstEnd : i \in 1 .. Len(source) /\ i <= e
      BY <1>0, <1>c, <3>2, <3>3, <3>4
    <3> QED
      BY <3>5, <3>6
  <2> QED
    BY <2>1, <2>2
<1>2. After(edited)!Live = Live
  <2>1. After(edited)!Live = { i \in 1 .. n : \A e \in After(edited)!EndLines : i < e }
    BY DEF After!Live
  <2>2. Live = { i \in 1 .. Len(source) : \A e \in EndLines : i < e }
    BY DEF Live
  <2> HIDE DEF n
  <2>3. ASSUME NEW i \in 1 .. n, \A e \in EndLines : e \in 1 .. n => i < e
        PROVE  \A e \in EndLines : i < e
    <3> TAKE e \in EndLines
    <3>1. CASE e \in 1 .. n
      BY <2>3, <3>1
    <3>2. CASE e \notin 1 .. n
      <4>1. e \in Int /\ n < e
        BY <1>0, <1>c, <3>2
      <4> QED
        BY <1>0, <2>3, <4>1
    <3> QED
      BY <3>1, <3>2
  <2> QED
    BY <1>0, <1>1, <1>d, <2>1, <2>2, <2>3
<1>3. After(edited)!FirstEnd = FirstEnd
  <2>1. After(edited)!FirstEnd
          = { e \in After(edited)!EndLines : \A f \in After(edited)!EndLines : e <= f }
    BY DEF After!FirstEnd
  <2>2. FirstEnd = { e \in EndLines : \A f \in EndLines : e <= f }
    BY DEF FirstEnd
  <2> HIDE DEF n
  <2>3. ASSUME NEW e \in 1 .. n, \A f \in EndLines : f \in 1 .. n => e <= f
        PROVE  \A f \in EndLines : e <= f
    <3> TAKE f \in EndLines
    <3>1. CASE f \in 1 .. n
      BY <2>3, <3>1
    <3>2. CASE f \notin 1 .. n
      <4>1. f \in Int /\ n < f
        BY <1>0, <1>c, <3>2
      <4> QED
        BY <1>0, <2>3, <4>1
    <3> QED
      BY <3>1, <3>2
  <2> QED
    BY <1>1, <1>d, <2>1, <2>2, <2>3
<1>4. After(edited)!WordLines = WordLines
  <2>1. After(edited)!WordLines = { i \in Live : edited[i].form = "Statement" }
    BY <1>2 DEF After!WordLines, After!IsStatement
  <2>2. WordLines = { i \in Live : source[i].form = "Statement" }
    BY DEF WordLines, IsStatement
  <2> HIDE DEF n
  <2> QED
    BY <1>b, <1>d, <2>1, <2>2
<1>5. After(edited)!OrgLines = OrgLines
  <2>1. After(edited)!OrgLines = { i \in Live : edited[i].form = "Origin" }
    BY <1>2 DEF After!OrgLines
  <2>2. OrgLines = { i \in Live : source[i].form = "Origin" }
    BY DEF OrgLines
  <2> HIDE DEF n
  <2> QED
    BY <1>b, <1>d, <2>1, <2>2
<1>6. After(edited)!BaseAddress = BaseAddress
  <2>1. BaseAddress = IF OrgLines = {} THEN 0 ELSE source[One(OrgLines)].address
    BY DEF BaseAddress, One
  <2>2. After(edited)!BaseAddress = IF OrgLines = {} THEN 0 ELSE edited[One(OrgLines)].address
    BY <1>5 DEF After!BaseAddress, One
  <2>3. OrgLines # {} => One(OrgLines) \in OrgLines
    BY DEF One
  <2>4. \A i \in OrgLines : edited[i].address = source[i].address
    BY <1>b, <1>d DEF OrgLines
  <2> QED
    BY <2>1, <2>2, <2>3, <2>4
<1>7. ASSUME NEW i
      PROVE  After(edited)!AddressOfLine(i) = AddressOfLine(i)
  <2>1. After(edited)!AddressOfLine(i)
          = After(edited)!BaseAddress + After(edited)!Cardinality({ j \in WordLines : j < i })
    BY <1>4 DEF After!AddressOfLine
  <2>2. AddressOfLine(i) = BaseAddress + Cardinality({ j \in WordLines : j < i })
    BY DEF AddressOfLine
  <2> QED
    BY <1>6, <2>1, <2>2, SamePieces
<1>8. ASSUME NEW l
      PROVE  After(edited)!LabelLines(l) = LabelsOf(edited, l)
  BY <1>3, <1>4 DEF After!LabelLines, LabelsOf
<1> QED
  BY <1>2, <1>3, <1>4, <1>5, <1>7, <1>8, <1>d

\* Such an edit leaves a file well formed if and only if its labels are well
\* formed and its statements are.
LEMMA EditWellFormed ==
  ASSUME NEW edited, SameLines(edited), source \in Seq(Line), WellLaidOut
  PROVE  After(edited)!WellFormed
           <=> /\ \A i \in WordLines \cup FirstEnd : edited[i].label \in Labels \cup {NoLabel}
               /\ \A l \in Labels : Cardinality(LabelsOf(edited, l)) <= 1
               /\ \A i \in WordLines : After(edited)!WellFormedStatement(edited[i])
<1>1. /\ After(edited)!Live = Live
      /\ After(edited)!FirstEnd = FirstEnd /\ After(edited)!WordLines = WordLines
      /\ After(edited)!OrgLines = OrgLines
      /\ \A i : After(edited)!AddressOfLine(i) = AddressOfLine(i)
      /\ \A l : After(edited)!LabelLines(l) = LabelsOf(edited, l)
      /\ Live \subseteq 1 .. Len(edited)
  BY EditLayout
<1>2. \A i \in Live : edited[i].form # "Malformed"
  BY <1>1 DEF WellLaidOut, SameLines
<1>3. /\ Cardinality(OrgLines) <= 1
      /\ \A i \in OrgLines, j \in WordLines : i < j
      /\ \A i \in WordLines \cup FirstEnd : AddressOfLine(i) \in Addr
  BY DEF WellLaidOut
<1>4. /\ After(edited)!Addr = Addr /\ After(edited)!NoLabel = NoLabel
      /\ \A S : After(edited)!Cardinality(S) = Cardinality(S)
  BY SamePieces
<1> QED
  BY <1>1, <1>2, <1>3, <1>4 DEF After!WellFormed

\* A statement that is well formed among some labels is among more, and a
\* statement means what it did when its labels do.
DefinedIn(edited, l) == LabelsOf(edited, l) # {}

\* A statement of the edited file is well formed, by the labels of that file.
WellFormedIn(edited, s) ==
  \/ s.mnemonic = "Clear"
  \/ s.mnemonic \in {"Input", "Output", "Halt"} /\ s.operand = NoOperand
  \/ /\ s.mnemonic \in (Opcode \cup {"Adr"}) \ {"Input", "Output", "Halt"}
     /\ \/ s.operand.kind = "Number" /\ s.operand.value \in Addr
        \/ /\ s.operand.kind = "Name" /\ s.operand.text \in Labels
           /\ DefinedIn(edited, s.operand.text)
  \/ /\ s.mnemonic \in LiteralDirective
     /\ s.operand.kind = "Number"
     /\ s.operand.value \in
          (IF s.mnemonic = "Dec" THEN -(WordCount \div 2) ELSE 0) .. WordCount - 1

\* That is what the edited file's own definition says.
LEMMA EditStatement ==
  ASSUME NEW edited, SameLines(edited), source \in Seq(Line), NEW s
  PROVE  After(edited)!WellFormedStatement(s) <=> WellFormedIn(edited, s)
<1>1. \A l : After(edited)!Defined(l) <=> DefinedIn(edited, l)
  BY EditLayout DEF After!Defined, DefinedIn
<1>2. /\ After(edited)!Addr = Addr /\ After(edited)!WordCount = WordCount
      /\ After(edited)!Opcode = Opcode /\ After(edited)!NoOperand = NoOperand
      /\ After(edited)!LiteralDirective = LiteralDirective
  BY SamePieces
<1> QED
  BY <1>1, <1>2 DEF After!WellFormedStatement, After!WellFormedOperand, WellFormedIn

\* A statement means in the edited file what another means in the source when
\* both ask for the same number, or for labels on the same lines.
LEMMA EditMeaning ==
  ASSUME NEW edited, SameLines(edited), source \in Seq(Line), NEW s, NEW t,
         s.mnemonic = t.mnemonic,
         \/ s.mnemonic = "Clear"
         \/ s.operand = t.operand /\ s.operand.kind # "Name"
         \/ /\ s.operand.kind = "Name" /\ t.operand.kind = "Name"
            /\ s.mnemonic \in Opcode \cup {"Adr"}
            /\ LabelsOf(edited, s.operand.text) = LabelLines(t.operand.text)
  PROVE  After(edited)!MeaningOfStatement(s) = MeaningOfStatement(t)
<1>1. /\ After(edited)!WordCount = WordCount
      /\ After(edited)!Opcode = Opcode
      /\ After(edited)!LiteralDirective = LiteralDirective
      /\ \A opcode, operand : After(edited)!Encode(opcode, operand) = Encode(opcode, operand)
  BY SamePieces
<1>2. CASE s.mnemonic = "Clear"
  <2>1. MeaningOfStatement(t) = Encode("LoadImmi", 0)
    <3>1. /\ t.mnemonic = "Clear" /\ t.mnemonic # "Adr"
          /\ t.mnemonic \notin LiteralDirective /\ t.mnemonic \notin Opcode
      BY <1>2 DEF LiteralDirective, Opcode, OpcodeOrder
    <3> QED
      BY <3>1, Zenon DEF MeaningOfStatement
  <2>2. After(edited)!MeaningOfStatement(s) = After(edited)!Encode("LoadImmi", 0)
    <3>1. /\ s.mnemonic = "Clear" /\ s.mnemonic # "Adr"
          /\ s.mnemonic \notin After(edited)!LiteralDirective
          /\ s.mnemonic \notin After(edited)!Opcode
      <4>1. s.mnemonic \notin LiteralDirective /\ s.mnemonic \notin Opcode
        BY <1>2 DEF LiteralDirective, Opcode, OpcodeOrder
      <4> QED
        BY <1>1, <1>2, <4>1
    <3> QED
      BY <3>1, Zenon DEF After!MeaningOfStatement
  <2> QED
    BY <1>1, <2>1, <2>2
<1>3. CASE s.operand = t.operand /\ s.operand.kind # "Name"
  <2>1. After(edited)!Value(s.operand) = Value(t.operand)
    BY <1>3, Zenon DEF After!Value, Value
  <2> QED
    BY <1>1, <1>3, <2>1, Zenon DEF After!MeaningOfStatement, MeaningOfStatement
<1>4. CASE /\ s.operand.kind = "Name" /\ t.operand.kind = "Name"
           /\ s.mnemonic \in Opcode \cup {"Adr"}
           /\ LabelsOf(edited, s.operand.text) = LabelLines(t.operand.text)
  <2>1. After(edited)!MeaningOfLabel(s.operand.text) = MeaningOfLabel(t.operand.text)
    <3>1. After(edited)!LabelLines(s.operand.text) = LabelLines(t.operand.text)
      BY <1>4, EditLayout
    <3>2. After(edited)!MeaningOfLabel(s.operand.text)
            = After(edited)!AddressOfLine(One(After(edited)!LabelLines(s.operand.text)))
      BY DEF After!MeaningOfLabel, One
    <3>3. MeaningOfLabel(t.operand.text) = AddressOfLine(One(LabelLines(t.operand.text)))
      BY DEF MeaningOfLabel, One
    <3> QED
      BY <3>1, <3>2, <3>3, EditLayout
  <2>2. After(edited)!Value(s.operand) = Value(t.operand)
    <3>1. s.operand.kind # "Number" /\ t.operand.kind # "Number"
      BY <1>4
    <3> QED
      BY <1>4, <2>1, <3>1, Zenon DEF After!Value, Value
  <2>3. CASE s.mnemonic = "Adr"
    <3>1. /\ s.mnemonic # "Clear" /\ s.mnemonic \notin LiteralDirective
          /\ s.mnemonic \notin Opcode
      BY <2>3 DEF LiteralDirective, Opcode, OpcodeOrder
    <3>2. MeaningOfStatement(t) = Value(t.operand)
      <4>1. /\ t.mnemonic = "Adr" /\ t.mnemonic # "Clear"
            /\ t.mnemonic \notin LiteralDirective /\ t.mnemonic \notin Opcode
        BY <2>3, <3>1
      <4> QED
        BY <4>1, Zenon DEF MeaningOfStatement
    <3>3. After(edited)!MeaningOfStatement(s) = After(edited)!Value(s.operand)
      <4>1. /\ s.mnemonic # "Clear" /\ s.mnemonic \notin After(edited)!LiteralDirective
            /\ s.mnemonic \notin After(edited)!Opcode
        BY <1>1, <3>1
      <4> QED
        BY <2>3, <4>1, Zenon DEF After!MeaningOfStatement
    <3> QED
      BY <2>2, <3>2, <3>3
  <2>4. CASE s.mnemonic \in Opcode
    <3>1. s.mnemonic # "Clear" /\ s.mnemonic # "Adr" /\ s.mnemonic \notin LiteralDirective
      BY <2>4 DEF LiteralDirective, Opcode, OpcodeOrder
    <3>2. MeaningOfStatement(t) = Encode(t.mnemonic, Value(t.operand))
      <4>1. /\ t.mnemonic \in Opcode /\ t.mnemonic # "Clear" /\ t.mnemonic # "Adr"
            /\ t.mnemonic \notin LiteralDirective
        BY <2>4, <3>1
      <4> QED
        BY <4>1, Zenon DEF MeaningOfStatement
    <3>3. After(edited)!MeaningOfStatement(s)
            = After(edited)!Encode(s.mnemonic, After(edited)!Value(s.operand))
      <4>1. /\ s.mnemonic \in After(edited)!Opcode
            /\ s.mnemonic \notin After(edited)!LiteralDirective
        BY <1>1, <2>4, <3>1
      <4> QED
        BY <3>1, <4>1, Zenon DEF After!MeaningOfStatement
    <3> QED
      BY <1>1, <2>2, <3>2, <3>3
  <2> QED
    BY <1>4, <2>3, <2>4
<1> QED
  BY <1>2, <1>3, <1>4

\* Two files with the same lines and the same statements on them mean the
\* same.
LEMMA EditProgram ==
  ASSUME NEW edited, SameLines(edited), source \in Seq(Line),
         \A i \in WordLines :
           After(edited)!MeaningOfStatement(edited[i]) = MeaningOfStatement(source[i])
  PROVE  After(edited)!MeaningOfSource = MeaningOfSource
<1> DEFINE At(a) == CHOOSE i \in WordLines : AddressOfLine(i) = a
           Before(a) == IF \E i \in WordLines : AddressOfLine(i) = a
                        THEN MeaningOfStatement(source[At(a)]) ELSE 0
           Then(a) == IF \E i \in WordLines : AddressOfLine(i) = a
                      THEN After(edited)!MeaningOfStatement(edited[At(a)]) ELSE 0
<1>1. MeaningOfSource = [a \in Addr |-> Before(a)]
  BY DEF MeaningOfSource
<1>2. After(edited)!MeaningOfSource = [a \in Addr |-> Then(a)]
  <2>1. After(edited)!Addr = Addr /\ After(edited)!WordLines = WordLines
        /\ \A i : After(edited)!AddressOfLine(i) = AddressOfLine(i)
    BY SamePieces, EditLayout
  <2> QED
    BY <2>1 DEF After!MeaningOfSource
<1>3. ASSUME NEW a \in Addr
      PROVE  Before(a) = Then(a)
  <2>1. CASE \E i \in WordLines : AddressOfLine(i) = a
    <3>1. At(a) \in WordLines
      BY <2>1
    <3> HIDE DEF At
    <3> QED
      BY <3>1
  <2>2. CASE ~\E i \in WordLines : AddressOfLine(i) = a
    BY <2>2
  <2> QED
    BY <2>1, <2>2
<1> HIDE DEF Before, Then
<1> QED
  BY <1>1, <1>2, <1>3

-----------------------------------------------------------------------------
(* What is known of a file that assembles.                                 *)

\* The lines that are statements.
StatementLine ==
  [form : {"Statement"},
   label : Labels \cup DigitLabels \cup SpacedLabels \cup {NoLabel},
   mnemonic : Mnemonic, operand : Operand]

\* A statement asks for a label.
AsksFor(s, l) ==
  /\ s.mnemonic \in Opcode \cup {"Adr"}
  /\ s.operand.kind = "Name" /\ s.operand.text = l

\* What is on a line that becomes a word, and on the first END.
LEMMA StatementLines ==
  ASSUME source \in Seq(Line), NEW i \in WordLines \cup FirstEnd
  PROVE  /\ i \in 1 .. Len(source) /\ source[i] \in StatementLine
         /\ i \in WordLines <=> source[i].mnemonic # "End"
<1>1. i \in 1 .. Len(source)
  BY LinesFacts
<1>2. source[i].form = "Statement"
  BY DEF WordLines, FirstEnd, EndLines, IsEnd, IsStatement
<1>3. source[i] \in StatementLine
  <2>1. source[i] \in Line
    BY <1>1
  <2> QED
    BY <1>2, <2>1 DEF Line, Empty, Comment, Malformed, StatementLine
<1>4. i \in WordLines => source[i].mnemonic # "End"
  <2> SUFFICES ASSUME i \in WordLines, source[i].mnemonic = "End" PROVE FALSE
    OBVIOUS
  <2>1. i \in EndLines
    BY <1>1, <1>2 DEF EndLines, IsEnd, IsStatement
  <2>2. i < i
    BY <2>1 DEF WordLines, Live
  <2> QED
    BY <1>1, <2>2
<1>5. i \notin WordLines => source[i].mnemonic = "End"
  BY DEF FirstEnd, EndLines, IsEnd
<1> QED
  BY <1>1, <1>3, <1>4, <1>5

\* A well-formed statement that names a label and is no Clear asks for it.
LEMMA NamesAskFor ==
  ASSUME NEW s \in StatementLine, WellFormedStatement(s), s.operand.kind = "Name",
         s.mnemonic # "Clear"
  PROVE  /\ s.mnemonic \in (Opcode \cup {"Adr"}) \ {"Input", "Output", "Halt"}
         /\ s.operand.text \in Labels /\ Defined(s.operand.text)
BY DEF WellFormedStatement, WellFormedOperand, NoOperand

\* What is known of a file that was assembled without an error.
LEMMA AssembledFacts ==
  ASSUME IInv, Meant, Told, Assembles
  PROVE  /\ source \in Seq(Line) /\ Len(source) \in Nat
         /\ WellFormed /\ WellLaidOut
         /\ TypeOK /\ LayoutRead /\ ~Parsing /\ diagnostics = << >>
         /\ Len(words) = Len(items)
         /\ DOMAIN symbols \subseteq Labels
         /\ \A l \in Labels : Defined(l) <=> l \in DOMAIN symbols
         /\ \A l \in DOMAIN symbols : LabelLines(l) = {symbols[l].line}
         /\ \A i \in WordLines : \E k \in 1 .. Len(items) : items[k].line = i
         /\ \A k \in 1 .. Len(items) :
              /\ items[k] \in ItemRecord /\ items[k].line \in WordLines
              /\ source[items[k].line].mnemonic = items[k].mnemonic
              /\ source[items[k].line].operand = items[k].operand
<1>1. TypeOK /\ Finished /\ diagnostics = << >> /\ ReadAsMeant
  BY DEF IInv, Assembles, Succeeded, Meant
<1>2. LayoutRead /\ ~Parsing /\ WellFormed
  BY <1>1, AcceptsWellFormed DEF ReadAsMeant, Finished
<1>3. Len(words) = Len(items)
  <2>1. Len(words) \in Nat /\ Len(items) \in Nat
    BY <1>1 DEF TypeOK
  <2>2. ~(Len(words) < Len(items)) /\ Len(words) <= Len(items)
    BY <1>1 DEF Finished, Assembling, ReadAsMeant, WordsRead
  <2> QED
    BY <2>1, <2>2
<1>4. source \in Seq(Line) /\ Len(source) \in Nat /\ DOMAIN symbols \subseteq Labels
  BY <1>1 DEF TypeOK
<1>5. /\ WellLaidOut
      /\ \A i \in WordLines : \E k \in 1 .. Len(items) : items[k].line = i
  BY <1>1, <1>2, AcceptsLayout
<1>6. /\ \A l \in Labels : Defined(l) <=> l \in DOMAIN symbols
      /\ \A l \in DOMAIN symbols : LabelLines(l) = {symbols[l].line}
  BY <1>1, <1>2, SymbolsMeant
<1>7. \A k \in 1 .. Len(items) : items[k] \in ItemRecord
  BY <1>1 DEF TypeOK
<1> QED
  BY <1>1, <1>2, <1>3, <1>4, <1>5, <1>6, <1>7, ItemSource

\* The references recorded of a label are the statements that ask for it.
LEMMA ReferencesMeant ==
  ASSUME IInv, Meant, Told, Assembles, NEW l \in DOMAIN symbols
  PROVE  References(l) = { i \in WordLines : AsksFor(source[i], l) }
<1>1. /\ source \in Seq(Line) /\ WellFormed /\ TypeOK /\ LayoutRead /\ ~Parsing
      /\ Len(words) = Len(items)
      /\ \A i \in WordLines : \E k \in 1 .. Len(items) : items[k].line = i
      /\ \A k \in 1 .. Len(items) :
           /\ items[k] \in ItemRecord /\ items[k].line \in WordLines
           /\ source[items[k].line].mnemonic = items[k].mnemonic
           /\ source[items[k].line].operand = items[k].operand
  BY AssembledFacts
<1>2. References(l) = { items[k].line : k \in { j \in 1 .. Len(items) : Refers(j, l) } }
  BY <1>1 DEF Told, ReferencesTold
<1>3. ASSUME NEW k \in 1 .. Len(items)
      PROVE  Refers(k, l) <=> AsksFor(source[items[k].line], l)
  <2> DEFINE s == source[items[k].line]
             item == items[k]
  <2>1. /\ s.mnemonic = item.mnemonic /\ s.operand = item.operand /\ item \in ItemRecord
        /\ items[k].line \in WordLines
    BY <1>1
  <2>2. WellFormedStatement(s) /\ s \in StatementLine
    BY <1>1, <2>1, StatementLines DEF WellFormed
  <2>3. Fault(item) = "None"
    BY <1>1, <2>1, <2>2, FaultMeant
  <2>4. ASSUME Refers(k, l) PROVE AsksFor(s, l)
    <3>1. item.mnemonic \notin LiteralDirective /\ AliasedOperand(item).kind = "Name"
          /\ item.operand.text = l
      BY <2>4 DEF Refers, Referenced
    <3>2. item.mnemonic # "Clear"
      BY <3>1 DEF AliasedOperand, Number
    <3>3. item.operand.kind = "Name"
      BY <3>1, <3>2 DEF AliasedOperand
    <3> HIDE DEF s, item
    <3> QED
      BY <2>1, <2>2, <3>1, <3>2, <3>3, NamesAskFor DEF AsksFor
  <2>5. ASSUME AsksFor(s, l) PROVE Refers(k, l)
    <3>1. item.mnemonic \notin LiteralDirective /\ item.mnemonic # "Clear"
      BY <2>1, <2>5 DEF AsksFor, LiteralDirective, Opcode, OpcodeOrder
    <3>2. AliasedOperand(item) = item.operand
      BY <3>1 DEF AliasedOperand
    <3> QED
      BY <2>1, <2>3, <2>5, <3>1, <3>2 DEF AsksFor, Refers, Referenced
  <2> QED
    BY <2>4, <2>5
<1> QED
  BY <1>1, <1>2, <1>3

\* An edit of one line.
Edited(i, s) == [source EXCEPT ![i] = s]

\* It keeps the lines, as long as an END stays an END.
LEMMA OneLineEdit ==
  ASSUME source \in Seq(Line), NEW i \in WordLines \cup FirstEnd, NEW s \in StatementLine,
         s.mnemonic = "End" <=> source[i].mnemonic = "End"
  PROVE  /\ SameLines(Edited(i, s))
         /\ Edited(i, s)[i] = s
         /\ \A j \in WordLines \cup FirstEnd : j # i => Edited(i, s)[j] = source[j]
<1>1. i \in 1 .. Len(source) /\ source[i] \in StatementLine /\ Len(source) \in Nat
  BY StatementLines
<1>2. /\ Len(Edited(i, s)) = Len(source) /\ Edited(i, s)[i] = s
      /\ \A j \in 1 .. Len(source) : j # i => Edited(i, s)[j] = source[j]
  BY <1>1 DEF Edited
<1>3. WordLines \cup FirstEnd \subseteq 1 .. Len(source)
  BY LinesFacts
<1>4. SameLines(Edited(i, s))
  BY <1>1, <1>2 DEF SameLines, StatementLine
<1> QED
  BY <1>2, <1>3, <1>4

\* An edit of what a statement does, and not of its label: the file stays well
\* laid out, and is well formed if its new statement is.
LEMMA StatementEdit ==
  ASSUME source \in Seq(Line), NEW i \in WordLines, NEW s \in StatementLine,
         s.mnemonic # "End", s.label = source[i].label,
         WellLaidOut, \A j \in WordLines : j # i => WellFormedStatement(source[j])
  PROVE  /\ SameLines(Edited(i, s)) /\ Edited(i, s)[i] = s
         /\ \A l : LabelsOf(Edited(i, s), l) = LabelLines(l)
         /\ After(Edited(i, s))!WellFormed <=> WellFormedStatement(s)
<1>1. /\ SameLines(Edited(i, s)) /\ Edited(i, s)[i] = s
      /\ \A j \in WordLines \cup FirstEnd : j # i => Edited(i, s)[j] = source[j]
  <2>1. i \in WordLines \cup FirstEnd
    OBVIOUS
  <2>2. s.mnemonic = "End" <=> source[i].mnemonic = "End"
    BY <2>1, StatementLines
  <2> QED
    BY <2>1, <2>2, OneLineEdit
<1>2. \A j \in WordLines \cup FirstEnd : Edited(i, s)[j].label = source[j].label
  BY <1>1
<1>3. \A l : LabelsOf(Edited(i, s), l) = LabelLines(l)
  BY <1>2 DEF LabelsOf, LabelLines
<1>4. \A l : DefinedIn(Edited(i, s), l) <=> Defined(l)
  BY <1>3 DEF DefinedIn, Defined
<1>5. \A t : After(Edited(i, s))!WellFormedStatement(t) <=> WellFormedStatement(t)
  <2> TAKE t
  <2>1. After(Edited(i, s))!WellFormedStatement(t) <=> WellFormedIn(Edited(i, s), t)
    BY <1>1, EditStatement
  <2>2. WellFormedIn(Edited(i, s), t) <=> WellFormedStatement(t)
    BY <1>4 DEF WellFormedIn, WellFormedStatement, WellFormedOperand
  <2> QED
    BY <2>1, <2>2
<1>6. /\ \A j \in WordLines \cup FirstEnd : Edited(i, s)[j].label \in Labels \cup {NoLabel}
      /\ \A l \in Labels : Cardinality(LabelsOf(Edited(i, s), l)) <= 1
  BY <1>2, <1>3 DEF WellLaidOut
<1>7. (\A j \in WordLines : After(Edited(i, s))!WellFormedStatement(Edited(i, s)[j]))
        <=> WellFormedStatement(s)
  BY <1>1, <1>5
<1> QED
  BY <1>1, <1>3, <1>6, <1>7, EditWellFormed

-----------------------------------------------------------------------------
(* Edits that keep the program.                                            *)

\* An edit that keeps what every statement does and which lines the label it
\* asks for stands on.
LEMMA EditKeepsProgram ==
  ASSUME source \in Seq(Line), WellFormed, WellLaidOut,
         NEW edited, SameLines(edited),
         \A i \in WordLines \cup FirstEnd : edited[i].label \in Labels \cup {NoLabel},
         \A l \in Labels : Cardinality(LabelsOf(edited, l)) <= 1,
         \A i \in WordLines :
           /\ edited[i].mnemonic = source[i].mnemonic
           /\ \/ source[i].mnemonic = "Clear"
              \/ edited[i].operand = source[i].operand /\ source[i].operand.kind # "Name"
              \/ /\ edited[i].operand.kind = "Name" /\ source[i].operand.kind = "Name"
                 /\ edited[i].operand.text \in Labels
                 /\ LabelsOf(edited, edited[i].operand.text)
                      = LabelLines(source[i].operand.text)
  PROVE  SameProgram(edited)
<1>1. ASSUME NEW i \in WordLines
      PROVE  /\ WellFormedIn(edited, edited[i])
             /\ After(edited)!MeaningOfStatement(edited[i]) = MeaningOfStatement(source[i])
  <2> DEFINE s == edited[i]
             t == source[i]
  <2>1. t \in StatementLine /\ WellFormedStatement(t) /\ s.mnemonic = t.mnemonic
    BY StatementLines DEF WellFormed
  <2>2. CASE t.mnemonic = "Clear"
    <3>1. s.mnemonic = "Clear"
      BY <2>1, <2>2
    <3>2. WellFormedIn(edited, s)
      BY <3>1 DEF WellFormedIn
    <3> HIDE DEF s, t
    <3>3. After(edited)!MeaningOfStatement(s) = MeaningOfStatement(t)
      <4>1. \/ s.mnemonic = "Clear"
            \/ s.operand = t.operand /\ s.operand.kind # "Name"
            \/ /\ s.operand.kind = "Name" /\ t.operand.kind = "Name"
               /\ s.mnemonic \in Opcode \cup {"Adr"}
               /\ LabelsOf(edited, s.operand.text) = LabelLines(t.operand.text)
        BY <3>1
      <4> QED
        BY <2>1, <4>1, EditMeaning
    <3> QED
      BY <3>2, <3>3 DEF s, t
  <2>3. CASE s.operand = t.operand /\ t.operand.kind # "Name"
    <3> HIDE DEF s, t
    <3>1. WellFormedIn(edited, s)
      BY <2>1, <2>3 DEF WellFormedIn, WellFormedStatement, WellFormedOperand
    <3>2. After(edited)!MeaningOfStatement(s) = MeaningOfStatement(t)
      BY <2>1, <2>3, EditMeaning
    <3> QED
      BY <3>1, <3>2 DEF s, t
  <2>4. CASE /\ s.operand.kind = "Name" /\ t.operand.kind = "Name"
             /\ s.operand.text \in Labels /\ t.mnemonic # "Clear"
             /\ LabelsOf(edited, s.operand.text) = LabelLines(t.operand.text)
    <3> HIDE DEF s, t
    <3>1. /\ t.mnemonic \in (Opcode \cup {"Adr"}) \ {"Input", "Output", "Halt"}
          /\ Defined(t.operand.text)
      BY <2>1, <2>4, NamesAskFor
    <3>2. WellFormedIn(edited, s)
      BY <2>1, <2>4, <3>1 DEF WellFormedIn, DefinedIn, Defined
    <3>3. After(edited)!MeaningOfStatement(s) = MeaningOfStatement(t)
      BY <2>1, <2>4, <3>1, EditMeaning
    <3> QED
      BY <3>2, <3>3 DEF s, t
  <2> QED
    BY <2>2, <2>3, <2>4
<1>2. After(edited)!WellFormed
  BY <1>1, EditWellFormed, EditStatement
<1>3. After(edited)!MeaningOfSource = MeaningOfSource
  BY <1>1, EditProgram
<1> QED
  BY <1>2, <1>3 DEF SameProgram

-----------------------------------------------------------------------------
(* The lints' advice.                                                      *)

\* A label taken away from its line.
Unlabelled(i) == [source[i] EXCEPT !.label = NoLabel]

\* A label can be taken away when nothing refers to it, and only then.
LEMMA LabelRemoved ==
  ASSUME IInv, Meant, Told, Assembles, NEW i \in WordLines \cup FirstEnd,
         source[i].label # NoLabel
  PROVE  /\ source[i].label \in DOMAIN symbols
         /\ symbols[source[i].label].line = i
         /\ References(source[i].label) = {} => SameProgram(Edited(i, Unlabelled(i)))
         /\ References(source[i].label) # {}
              => ~After(Edited(i, Unlabelled(i)))!WellFormed
<1> DEFINE l == source[i].label
           e == Edited(i, Unlabelled(i))
<1>1. /\ source \in Seq(Line) /\ WellFormed /\ WellLaidOut
      /\ \A m \in Labels : Defined(m) <=> m \in DOMAIN symbols
      /\ \A m \in DOMAIN symbols : LabelLines(m) = {symbols[m].line}
  BY AssembledFacts
<1>2. l \in Labels /\ l # NoLabel
  BY <1>1 DEF WellFormed
<1>3. i \in LabelLines(l)
  BY DEF LabelLines
<1>4. l \in DOMAIN symbols /\ LabelLines(l) = {i} /\ symbols[l].line = i
  <2> HIDE DEF l
  <2>1. l \in DOMAIN symbols
    BY <1>1, <1>2, <1>3 DEF Defined
  <2>2. LabelLines(l) = {symbols[l].line}
    BY <1>1, <2>1
  <2> QED
    BY <1>3, <2>1, <2>2
<1>5. /\ Unlabelled(i) \in StatementLine /\ Unlabelled(i).label = NoLabel
      /\ Unlabelled(i).mnemonic = source[i].mnemonic
      /\ Unlabelled(i).operand = source[i].operand
  <2>1. source[i] \in StatementLine
    BY <1>1, StatementLines
  <2> QED
    BY <2>1 DEF Unlabelled, StatementLine
<1>6. /\ SameLines(e) /\ e[i] = Unlabelled(i)
      /\ \A j \in WordLines \cup FirstEnd : j # i => e[j] = source[j]
  BY <1>1, <1>5, OneLineEdit
<1>7. /\ \A j \in WordLines \cup FirstEnd :
           /\ e[j].mnemonic = source[j].mnemonic /\ e[j].operand = source[j].operand
           /\ e[j].label = IF j = i THEN NoLabel ELSE source[j].label
  BY <1>5, <1>6
<1> HIDE DEF e
<1>8. LabelsOf(e, l) = {}
  <2>1. \A j \in WordLines \cup FirstEnd : source[j].label = l => j = i
    BY <1>4 DEF LabelLines
  <2> HIDE DEF l
  <2> QED
    BY <1>2, <1>7, <2>1 DEF LabelsOf
<1>9. ASSUME NEW m, m # l, m # NoLabel
      PROVE  LabelsOf(e, m) = LabelLines(m)
  BY <1>7, <1>9 DEF LabelsOf, LabelLines
<1>10. \A j \in WordLines \cup FirstEnd : e[j].label \in Labels \cup {NoLabel}
  BY <1>1, <1>7 DEF WellFormed
<1>11. \A m \in Labels : Cardinality(LabelsOf(e, m)) <= 1
  <2> TAKE m \in Labels
  <2>1. CASE m = l
    BY <1>8, <2>1, FS_EmptySet
  <2>2. CASE m # l
    <3>1. m # NoLabel
      BY LabelsAssumption
    <3>2. LabelsOf(e, m) = LabelLines(m)
      BY <1>9, <2>2, <3>1
    <3> QED
      BY <1>1, <3>2 DEF WellLaidOut
  <2> QED
    BY <2>1, <2>2
<1>12. References(l) = { j \in WordLines : AsksFor(source[j], l) }
  BY <1>4, ReferencesMeant
<1>13. ASSUME References(l) = {}
       PROVE  SameProgram(e)
  <2>1. ASSUME NEW j \in WordLines
        PROVE  /\ e[j].mnemonic = source[j].mnemonic
               /\ \/ source[j].mnemonic = "Clear"
                  \/ e[j].operand = source[j].operand /\ source[j].operand.kind # "Name"
                  \/ /\ e[j].operand.kind = "Name" /\ source[j].operand.kind = "Name"
                     /\ e[j].operand.text \in Labels
                     /\ LabelsOf(e, e[j].operand.text) = LabelLines(source[j].operand.text)
    <3>1. e[j].mnemonic = source[j].mnemonic /\ e[j].operand = source[j].operand
      BY <1>7
    <3>2. CASE source[j].operand.kind = "Name" /\ source[j].mnemonic # "Clear"
      <4>1. source[j] \in StatementLine /\ WellFormedStatement(source[j])
        BY <1>1, StatementLines DEF WellFormed
      <4>2. source[j].mnemonic \in Opcode \cup {"Adr"} /\ source[j].operand.text \in Labels
        BY <3>2, <4>1, NamesAskFor
      <4>3. source[j].operand.text # l
        BY <1>12, <1>13, <3>2, <4>2 DEF AsksFor
      <4>4. source[j].operand.text # NoLabel
        BY <4>2, LabelsAssumption
      <4>5. LabelsOf(e, source[j].operand.text) = LabelLines(source[j].operand.text)
        BY <1>9, <4>3, <4>4
      <4> QED
        BY <3>1, <3>2, <4>2, <4>5
    <3> QED
      BY <3>1, <3>2
  <2> QED
    BY <1>1, <1>6, <1>10, <1>11, <2>1, EditKeepsProgram
<1>14. ASSUME References(l) # {}
       PROVE  ~After(e)!WellFormed
  <2>1. PICK j \in WordLines : AsksFor(source[j], l)
    BY <1>12, <1>14
  <2>2. e[j].mnemonic = source[j].mnemonic /\ e[j].operand = source[j].operand
    BY <1>7
  <2>3. ~WellFormedIn(e, e[j])
    <3>1. e[j].mnemonic \notin LiteralDirective /\ e[j].mnemonic # "Clear"
      BY <2>1, <2>2 DEF AsksFor, LiteralDirective, Opcode, OpcodeOrder
    <3>2. e[j].operand # NoOperand /\ e[j].operand.kind = "Name" /\ e[j].operand.text = l
      BY <2>1, <2>2 DEF AsksFor, NoOperand
    <3> HIDE DEF l
    <3> QED
      BY <1>8, <3>1, <3>2 DEF WellFormedIn, DefinedIn
  <2>4. ~After(e)!WellFormedStatement(e[j])
    BY <1>1, <1>6, <2>3, EditStatement
  <2> QED
    BY <1>1, <1>6, <2>4, EditWellFormed
<1> QED
  BY <1>4, <1>13, <1>14 DEF e

\* What a statement asks for is taken away.
Bare(i) == [source[i] EXCEPT !.operand = NoOperand]

\* An operand can be taken away from a Clear, and from nothing else.
LEMMA OperandRemoved ==
  ASSUME IInv, Meant, Told, Assembles, NEW i \in WordLines,
         source[i].operand # NoOperand
  PROVE  /\ After(Edited(i, Bare(i)))!WellFormed <=> source[i].mnemonic = "Clear"
         /\ source[i].mnemonic = "Clear" => SameProgram(Edited(i, Bare(i)))
<1>1. source \in Seq(Line) /\ WellFormed /\ WellLaidOut
  BY AssembledFacts
<1>2. i \in WordLines \cup FirstEnd
  OBVIOUS
<1>3. source[i] \in StatementLine /\ source[i].mnemonic # "End"
  BY <1>1, <1>2, StatementLines
<1>4. /\ Bare(i) \in StatementLine /\ Bare(i).label = source[i].label
      /\ Bare(i).mnemonic = source[i].mnemonic /\ Bare(i).operand = NoOperand
  BY <1>3 DEF Bare, StatementLine, Operand
<1>5. \A j \in WordLines : WellFormedStatement(source[j])
  BY <1>1 DEF WellFormed
<1>6. /\ SameLines(Edited(i, Bare(i))) /\ Edited(i, Bare(i))[i] = Bare(i)
      /\ \A l : LabelsOf(Edited(i, Bare(i)), l) = LabelLines(l)
      /\ After(Edited(i, Bare(i)))!WellFormed <=> WellFormedStatement(Bare(i))
  BY <1>1, <1>3, <1>4, <1>5, StatementEdit
<1>7. WellFormedStatement(Bare(i)) <=> source[i].mnemonic = "Clear"
  <2>1. WellFormedStatement(source[i])
    BY <1>5
  <2>2. source[i].mnemonic \notin {"Input", "Output", "Halt"}
    BY <2>1 DEF WellFormedStatement, LiteralDirective
  <2>3. NoOperand.kind # "Number" /\ NoOperand.kind # "Name"
    BY DEF NoOperand
  <2> QED
    BY <1>4, <2>2, <2>3 DEF WellFormedStatement, WellFormedOperand
<1>8. ASSUME source[i].mnemonic = "Clear"
      PROVE  SameProgram(Edited(i, Bare(i)))
  <2> DEFINE e == Edited(i, Bare(i))
  <2>1. \A j \in WordLines \cup FirstEnd : j # i => e[j] = source[j]
    BY <1>1, <1>2, <1>3, <1>4, OneLineEdit
  <2>2. SameLines(e) /\ e[i] = Bare(i) /\ \A l : LabelsOf(e, l) = LabelLines(l)
    BY <1>6
  <2> HIDE DEF e
  <2>3. \A j \in WordLines \cup FirstEnd : e[j].label \in Labels \cup {NoLabel}
    BY <1>1, <1>4, <2>1, <2>2 DEF WellFormed
  <2>4. \A l \in Labels : Cardinality(LabelsOf(e, l)) <= 1
    BY <1>1, <2>2 DEF WellLaidOut
  <2>5. ASSUME NEW j \in WordLines
        PROVE  /\ e[j].mnemonic = source[j].mnemonic
               /\ \/ source[j].mnemonic = "Clear"
                  \/ e[j].operand = source[j].operand /\ source[j].operand.kind # "Name"
                  \/ /\ e[j].operand.kind = "Name" /\ source[j].operand.kind = "Name"
                     /\ e[j].operand.text \in Labels
                     /\ LabelsOf(e, e[j].operand.text) = LabelLines(source[j].operand.text)
    <3>1. CASE j = i
      BY <1>4, <1>8, <2>2, <3>1
    <3>2. CASE j # i
      <4>1. e[j] = source[j]
        BY <2>1, <3>2
      <4>2. source[j] \in StatementLine /\ WellFormedStatement(source[j])
        BY <1>1, <1>5, StatementLines
      <4>3. source[j].operand.kind = "Name" /\ source[j].mnemonic # "Clear"
              => source[j].operand.text \in Labels
        BY <4>2, NamesAskFor
      <4> QED
        BY <2>2, <4>1, <4>3
    <3> QED
      BY <3>1, <3>2
  <2> QED
    BY <1>1, <2>2, <2>3, <2>4, <2>5, EditKeepsProgram DEF e
<1> QED
  BY <1>6, <1>7, <1>8

\* The text from the first dead line on is cut off.
LEMMA DeadTextCut ==
  ASSUME IInv, Meant, Told, Assembles, trailing # NoLine
  PROVE  SameProgram(SubSeq(source, 1, trailing - 1))
<1> DEFINE e == SubSeq(source, 1, trailing - 1)
<1>1. source \in Seq(Line) /\ Len(source) \in Nat /\ WellFormed /\ WellLaidOut
      /\ diagnostics = << >>
  BY AssembledFacts
<1>2. trailing \in 1 .. Len(source) /\ \E f \in EndLines : f < trailing
  BY <1>1 DEF Told, TrailingDead
<1>3. /\ Len(e) = trailing - 1 /\ Len(e) \in Nat /\ Len(e) <= Len(source)
      /\ \A i \in 1 .. Len(e) : e[i] = source[i]
  BY <1>1, <1>2
<1> HIDE DEF e
<1>4. SameLines(e)
  <2>1. \E f \in EndLines : f <= Len(e)
    <3>1. PICK f \in EndLines : f < trailing
      BY <1>2
    <3>2. f \in Int
      BY DEF EndLines
    <3> QED
      BY <1>2, <1>3, <3>1, <3>2
  <2> QED
    BY <1>3, <2>1 DEF SameLines
<1>5. \A i \in WordLines \cup FirstEnd : e[i] = source[i]
  <2>1. Live \cup FirstEnd \subseteq 1 .. Len(e)
    BY <1>1, <1>4, EditLayout
  <2> QED
    BY <1>3, <2>1 DEF WordLines
<1>6. \A l : LabelsOf(e, l) = LabelLines(l)
  BY <1>5 DEF LabelsOf, LabelLines
<1>7. /\ \A i \in WordLines \cup FirstEnd : e[i].label \in Labels \cup {NoLabel}
      /\ \A l \in Labels : Cardinality(LabelsOf(e, l)) <= 1
  BY <1>1, <1>5, <1>6 DEF WellLaidOut
<1>8. ASSUME NEW j \in WordLines
      PROVE  /\ e[j].mnemonic = source[j].mnemonic
             /\ \/ source[j].mnemonic = "Clear"
                \/ e[j].operand = source[j].operand /\ source[j].operand.kind # "Name"
                \/ /\ e[j].operand.kind = "Name" /\ source[j].operand.kind = "Name"
                   /\ e[j].operand.text \in Labels
                   /\ LabelsOf(e, e[j].operand.text) = LabelLines(source[j].operand.text)
  <2>1. e[j] = source[j]
    BY <1>5
  <2>2. source[j] \in StatementLine /\ WellFormedStatement(source[j])
    BY <1>1, StatementLines DEF WellFormed
  <2>3. source[j].operand.kind = "Name" /\ source[j].mnemonic # "Clear"
          => source[j].operand.text \in Labels
    BY <2>2, NamesAskFor
  <2> QED
    BY <1>6, <2>1, <2>3
<1> QED
  BY <1>1, <1>4, <1>7, <1>8, EditKeepsProgram DEF e

\* What the lints of mrs-asm call useless can be taken away, and nothing else
\* of its kind can.
LEMMA AdviceMeant ==
  ASSUME IInv, Meant, Told
  PROVE  LintAdviceIsExact
<1> SUFFICES ASSUME Assembles PROVE LintAdviceIsExact
  BY DEF LintAdviceIsExact
<1>1. /\ source \in Seq(Line) /\ WellFormed
      /\ \A m \in DOMAIN symbols : LabelLines(m) = {symbols[m].line}
      /\ DOMAIN symbols \subseteq Labels
      /\ \A i \in WordLines : \E k \in 1 .. Len(items) : items[k].line = i
      /\ \A k \in 1 .. Len(items) :
           /\ items[k].line \in WordLines
           /\ source[items[k].line].mnemonic = items[k].mnemonic
           /\ source[items[k].line].operand = items[k].operand
  BY AssembledFacts
<1>2. \A i : [source EXCEPT ![i].label = NoLabel] = Edited(i, Unlabelled(i))
  BY DEF Edited, Unlabelled
<1>3. \A i : WithOperand(i, NoOperand) = Edited(i, Bare(i))
  BY DEF Edited, Bare, WithOperand
<1>4. ASSUME NEW m \in DOMAIN symbols
      PROVE  /\ symbols[m].line \in WordLines \cup FirstEnd
             /\ source[symbols[m].line].label = m /\ m # NoLabel
  BY <1>1, LabelsAssumption DEF LabelLines
<1>5. ASSUME NEW i \in WordLines \cup FirstEnd, source[i].label # NoLabel
      PROVE  i \in UnusedLabel <=> References(source[i].label) = {}
  <2>1. source[i].label \in DOMAIN symbols /\ symbols[source[i].label].line = i
    BY <1>5, LabelRemoved
  <2> QED
    BY <1>4, <2>1 DEF UnusedLabel
<1>6. \A i \in UnusedLabel : i \in WordLines \cup FirstEnd /\ source[i].label # NoLabel
  BY <1>4 DEF UnusedLabel
<1>7. \A i \in WordLines \cup FirstEnd : source[i].label # NoLabel =>
        (i \in UnusedLabel <=> After([source EXCEPT ![i].label = NoLabel])!WellFormed)
  <2> SUFFICES ASSUME NEW i \in WordLines \cup FirstEnd, source[i].label # NoLabel
               PROVE  i \in UnusedLabel
                        <=> After([source EXCEPT ![i].label = NoLabel])!WellFormed
    OBVIOUS
  <2>1. i \in UnusedLabel <=> After(Edited(i, Unlabelled(i)))!WellFormed
    BY <1>5, LabelRemoved DEF SameProgram
  <2> QED
    BY <1>2, <2>1
<1>8. \A i \in UnusedLabel : SameProgram([source EXCEPT ![i].label = NoLabel])
  <2> TAKE i \in UnusedLabel
  <2>1. SameProgram(Edited(i, Unlabelled(i)))
    BY <1>5, <1>6, LabelRemoved
  <2> QED
    BY <1>2, <2>1
<1>9. /\ IgnoredOperand \subseteq WordLines
      /\ \A i \in WordLines : i \in IgnoredOperand
           <=> source[i].mnemonic = "Clear" /\ source[i].operand # NoOperand
  BY <1>1 DEF IgnoredOperand
<1>10. \A i \in WordLines : source[i].operand # NoOperand =>
         (i \in IgnoredOperand <=> After(WithOperand(i, NoOperand))!WellFormed)
  <2> SUFFICES ASSUME NEW i \in WordLines, source[i].operand # NoOperand
               PROVE  i \in IgnoredOperand <=> After(WithOperand(i, NoOperand))!WellFormed
    OBVIOUS
  <2>1. i \in IgnoredOperand <=> After(Edited(i, Bare(i)))!WellFormed
    BY <1>9, OperandRemoved
  <2> QED
    BY <1>3, <2>1
<1>11. \A i \in IgnoredOperand : SameProgram(WithOperand(i, NoOperand))
  <2> TAKE i \in IgnoredOperand
  <2>1. SameProgram(Edited(i, Bare(i)))
    BY <1>9, OperandRemoved
  <2> QED
    BY <1>3, <2>1
<1>12. UnreachableCode # {} => SameProgram(SubSeq(source, 1, trailing - 1))
  BY DeadTextCut DEF UnreachableCode
<1> QED
  BY <1>7, <1>8, <1>10, <1>11, <1>12 DEF LintAdviceIsExact

\* What the lints of mrs-asm call useless can be taken away without changing
\* the program, and nothing else of its kind can, for every memory size and
\* every source file.
THEOREM AdviceIsExact == Spec => []LintAdviceIsExact
BY AdviceMeant, TellingInvariance, PTL

-----------------------------------------------------------------------------
(* Rename.                                                                 *)

\* A function on 1 .. n is a sequence of length n.
LEMMA SeqOfLength ==
  ASSUME NEW S, NEW n \in Nat, NEW f \in [1 .. n -> S]
  PROVE  f \in Seq(S) /\ Len(f) = n
OBVIOUS

\* What a rename makes of a statement.
LEMMA RenamedLines ==
  ASSUME source \in Seq(Line), NEW l, NEW name \in Labels
  PROVE  /\ SameLines(Renamed(l, name))
         /\ \A i \in WordLines \cup FirstEnd :
              /\ Renamed(l, name)[i].mnemonic = source[i].mnemonic
              /\ Renamed(l, name)[i].label
                   = IF i = symbols[l].line THEN name ELSE source[i].label
              /\ Renamed(l, name)[i].operand
                   = IF i \in References(l) THEN Name(name) ELSE source[i].operand
<1> DEFINE e == Renamed(l, name)
           R == References(l)
           d == symbols[l].line
<1>1. Len(source) \in Nat /\ DOMAIN source = 1 .. Len(source)
  OBVIOUS
<1>2. \A i \in 1 .. Len(source) : source[i].form = "Statement" => source[i] \in StatementLine
  <2> TAKE i \in 1 .. Len(source)
  <2>1. source[i] \in Line
    OBVIOUS
  <2> QED
    BY <2>1 DEF Line, Empty, Comment, Malformed, StatementLine
<1>3. e = [i \in 1 .. Len(source) |->
             IF source[i].form # "Statement" THEN source[i]
             ELSE [source[i] EXCEPT
                     !.label = IF i = d THEN name ELSE @,
                     !.operand = IF i \in R THEN Name(name) ELSE @]]
  BY <1>1 DEF Renamed
<1> HIDE DEF e, R, d
<1>4. Len(e) = Len(source)
  <2> DEFINE n == Len(source)
             S == {e[i] : i \in 1 .. n}
  <2>1. e \in [1 .. n -> S]
    BY <1>1, <1>3
  <2> HIDE DEF n, S
  <2>2. n \in Nat
    BY <1>1 DEF n
  <2> QED
    BY <2>1, <2>2, SeqOfLength DEF n
<1>5. ASSUME NEW i \in 1 .. Len(source), source[i].form = "Statement"
      PROVE  /\ e[i].form = "Statement" /\ e[i].mnemonic = source[i].mnemonic
             /\ e[i].label = IF i = d THEN name ELSE source[i].label
             /\ e[i].operand = IF i \in R THEN Name(name) ELSE source[i].operand
  <2>1. source[i] \in StatementLine
    BY <1>2, <1>5
  <2>2. e[i] = [source[i] EXCEPT
                  !.label = IF i = d THEN name ELSE @,
                  !.operand = IF i \in R THEN Name(name) ELSE @]
    BY <1>3, <1>5
  <2> QED
    BY <1>5, <2>1, <2>2 DEF StatementLine
<1>6. ASSUME NEW i \in 1 .. Len(source), source[i].form # "Statement"
      PROVE  e[i] = source[i]
  BY <1>3, <1>6
<1>7. SameLines(e)
  <2>1. \A i \in 1 .. Len(source) :
          /\ e[i].form = source[i].form
          /\ source[i].form = "Origin" => e[i].address = source[i].address
          /\ source[i].form = "Statement" =>
               (e[i].mnemonic = "End" <=> source[i].mnemonic = "End")
    BY <1>5, <1>6
  <2> QED
    BY <1>1, <1>4, <2>1 DEF SameLines
<1>8. \A i \in WordLines \cup FirstEnd : i \in 1 .. Len(source) /\ source[i].form = "Statement"
  BY StatementLines DEF StatementLine
<1> QED
  BY <1>5, <1>7, <1>8 DEF e, R, d

\* A rename that is not refused keeps the program.
LEMMA RenameMeant ==
  ASSUME IInv, Meant, Told
  PROVE  RenameKeepsProgram
<1> SUFFICES ASSUME Assembles, NEW l \in DOMAIN symbols,
                    NEW name \in Labels \cup DigitLabels \cup SpacedLabels,
                    ~RenameRefused(l, name)
             PROVE  SameProgram(Renamed(l, name))
  BY DEF RenameKeepsProgram
<1> DEFINE e == Renamed(l, name)
           d == symbols[l].line
<1>1. /\ source \in Seq(Line) /\ WellFormed /\ WellLaidOut
      /\ DOMAIN symbols \subseteq Labels
      /\ \A m \in Labels : Defined(m) <=> m \in DOMAIN symbols
      /\ LabelLines(l) = {d}
  BY AssembledFacts
<1>2. name \in Labels /\ name # NoLabel /\ l \in Labels /\ l # NoLabel
      /\ (name = l \/ ~Defined(name))
  BY <1>1, LabelsAssumption DEF RenameRefused, RenameError
<1>3. References(l) = { i \in WordLines : AsksFor(source[i], l) }
  BY ReferencesMeant
<1>4. /\ SameLines(e)
      /\ \A i \in WordLines \cup FirstEnd :
           /\ e[i].mnemonic = source[i].mnemonic
           /\ e[i].label = IF i = d THEN name ELSE source[i].label
           /\ e[i].operand = IF i \in References(l) THEN Name(name) ELSE source[i].operand
  BY <1>1, <1>2, RenamedLines
<1> HIDE DEF e, d
<1>5. /\ d \in WordLines \cup FirstEnd /\ source[d].label = l
      /\ \A i \in WordLines \cup FirstEnd : source[i].label = l => i = d
  BY <1>1 DEF LabelLines
<1>6. \A i \in WordLines \cup FirstEnd : source[i].label = name => i = d
  <2> SUFFICES ASSUME NEW i \in WordLines \cup FirstEnd, source[i].label = name
               PROVE  i = d
    OBVIOUS
  <2>1. Defined(name)
    BY DEF Defined, LabelLines
  <2> QED
    BY <1>2, <1>5, <2>1
<1>7. LabelsOf(e, name) = {d}
  BY <1>4, <1>5, <1>6 DEF LabelsOf
<1>8. ASSUME NEW m, m # l, m # name
      PROVE  LabelsOf(e, m) = LabelLines(m)
  BY <1>4, <1>5, <1>8 DEF LabelsOf, LabelLines
<1>9. l # name => LabelsOf(e, l) = {}
  BY <1>4, <1>5 DEF LabelsOf
<1>10. \A i \in WordLines \cup FirstEnd : e[i].label \in Labels \cup {NoLabel}
  BY <1>1, <1>2, <1>4 DEF WellLaidOut
<1>11. \A m \in Labels : Cardinality(LabelsOf(e, m)) <= 1
  <2> TAKE m \in Labels
  <2>1. CASE m = name
    <3>1. Cardinality({d}) = 1
      BY FS_Singleton
    <3>2. LabelsOf(e, m) = {d}
      BY <1>7, <2>1
    <3> QED
      BY <3>1, <3>2
  <2>2. CASE m # name /\ m = l
    BY <1>9, <2>2, FS_EmptySet
  <2>3. CASE m # name /\ m # l
    BY <1>1, <1>8, <2>3 DEF WellLaidOut
  <2> QED
    BY <2>1, <2>2, <2>3
<1>12. ASSUME NEW j \in WordLines
       PROVE  /\ e[j].mnemonic = source[j].mnemonic
              /\ \/ source[j].mnemonic = "Clear"
                 \/ e[j].operand = source[j].operand /\ source[j].operand.kind # "Name"
                 \/ /\ e[j].operand.kind = "Name" /\ source[j].operand.kind = "Name"
                    /\ e[j].operand.text \in Labels
                    /\ LabelsOf(e, e[j].operand.text) = LabelLines(source[j].operand.text)
  <2>1. e[j].mnemonic = source[j].mnemonic
    BY <1>4
  <2>2. CASE j \in References(l)
    <3>1. e[j].operand.kind = "Name" /\ e[j].operand.text = name
      BY <1>4, <2>2 DEF Name
    <3>2. source[j].operand.kind = "Name" /\ source[j].operand.text = l
      BY <1>3, <2>2 DEF AsksFor
    <3> QED
      BY <1>1, <1>2, <1>7, <2>1, <3>1, <3>2
  <2>3. CASE /\ j \notin References(l) /\ source[j].operand.kind = "Name"
             /\ source[j].mnemonic # "Clear"
    <3>1. e[j].operand = source[j].operand
      BY <1>4, <2>3
    <3>2. source[j] \in StatementLine /\ WellFormedStatement(source[j])
      BY <1>1, StatementLines DEF WellFormed
    <3>3. /\ source[j].mnemonic \in Opcode \cup {"Adr"}
          /\ source[j].operand.text \in Labels /\ Defined(source[j].operand.text)
      BY <2>3, <3>2, NamesAskFor
    <3>4. source[j].operand.text # l
      BY <1>3, <2>3, <3>3 DEF AsksFor
    <3>5. source[j].operand.text # name
      BY <1>2, <3>3, <3>4
    <3>6. LabelsOf(e, source[j].operand.text) = LabelLines(source[j].operand.text)
      BY <1>8, <3>4, <3>5
    <3> QED
      BY <2>1, <2>3, <3>1, <3>3, <3>6
  <2>4. CASE j \notin References(l) /\ source[j].operand.kind # "Name"
    BY <1>4, <2>1, <2>4
  <2> QED
    BY <2>1, <2>2, <2>3, <2>4
<1> QED
  BY <1>1, <1>4, <1>10, <1>11, <1>12, EditKeepsProgram DEF e

\* A rename that rename_error and the check of the existing names let through
\* (features/navigation.rs) leaves the program as it was, for every file, every
\* label of it and every new name.
THEOREM RenameIsSafe == Spec => []RenameKeepsProgram
BY RenameMeant, TellingInvariance, PTL

-----------------------------------------------------------------------------
(* Quick fixes.                                                            *)

\* An encoded instruction decodes as it was written.
LEMMA DecodeEncoded ==
  ASSUME NEW opcode \in Opcode, NEW operand \in Addr
  PROVE  /\ Decode(Encode(opcode, operand)).opcode = opcode
         /\ Masked(Encode(opcode, operand)) = operand
<1> DEFINE i == CHOOSE i \in 1 .. 15 : OpcodeOrder[i] = opcode
<1>1. \E j \in 1 .. 15 : OpcodeOrder[j] = opcode
  BY DEF Opcode
<1>2. i \in 1 .. 15 /\ OpcodeOrder[i] = opcode
  BY <1>1
<1>3. MemoryWords \in Nat \ {0} /\ operand \in 0 .. MemoryWords - 1
  BY MemoryWordsAssumption DEF Addr
<1>4. Encode(opcode, operand) = (i - 1) * MemoryWords + operand
  BY DEF Encode
<1> HIDE DEF i
<1>5. ASSUME NEW k \in 0 .. 14
      PROVE  /\ (k * MemoryWords + operand) \div MemoryWords = k
             /\ (k * MemoryWords + operand) % MemoryWords = operand
  <2>1. k \in {0, 1, 2, 3, 4, 5, 6, 7, 8, 9, 10, 11, 12, 13, 14}
    OBVIOUS
  <2>2. /\ MemoryWords \in Nat /\ MemoryWords > 0 /\ operand \in Int /\ 0 <= operand
        /\ operand < MemoryWords
    BY <1>3
  <2> QED
    BY <2>1, <2>2
<1>6. i - 1 \in 0 .. 14
  BY <1>2
<1>7. /\ Encode(opcode, operand) \div MemoryWords = i - 1
      /\ Encode(opcode, operand) % MemoryWords = operand
  BY <1>4, <1>5, <1>6
<1>8. i - 1 < 15 /\ (i - 1) + 1 = i
  BY <1>2
<1> QED
  BY <1>2, <1>7, <1>8 DEF Decode, Masked

\* A condition without its ignored bits is the condition it was.
LEMMA ConditionKept ==
  ASSUME NEW v \in Addr
  PROVE  /\ v - (v % (MemoryWords \div 4)) \in Addr
         /\ (v - (v % (MemoryWords \div 4))) % (MemoryWords \div 4) = 0
         /\ ConditionOf(v - (v % (MemoryWords \div 4))) = ConditionOf(v)
<1> DEFINE q == MemoryWords \div 4
<1>1. MemoryWords \in Nat \ {0} /\ MemoryWords % 4 = 0
  BY MemoryWordsAssumption
<1>2. q \in Nat \ {0} /\ MemoryWords = 4 * q
  BY <1>1
<1>3. v \in Nat /\ v < MemoryWords
  BY <1>1 DEF Addr
<1> HIDE DEF q
<1>4. \E k \in 0 .. 3, r \in 0 .. q - 1 : v = k * q + r
  <2>1. CASE v < q
    <3>1. v = 0 * q + v /\ v \in 0 .. q - 1
      BY <1>2, <1>3, <2>1
    <3> QED
      BY <3>1
  <2>2. CASE q <= v /\ v < 2 * q
    <3>1. v = 1 * q + (v - q) /\ v - q \in 0 .. q - 1
      BY <1>2, <1>3, <2>2
    <3> QED
      BY <3>1
  <2>3. CASE 2 * q <= v /\ v < 3 * q
    <3>1. v = 2 * q + (v - 2 * q) /\ v - 2 * q \in 0 .. q - 1
      BY <1>2, <1>3, <2>3
    <3> QED
      BY <3>1
  <2>4. CASE 3 * q <= v
    <3>1. v = 3 * q + (v - 3 * q) /\ v - 3 * q \in 0 .. q - 1
      BY <1>2, <1>3, <2>4
    <3> QED
      BY <3>1
  <2> QED
    BY <1>2, <1>3, <2>1, <2>2, <2>3, <2>4
<1>5. PICK k \in 0 .. 3, r \in 0 .. q - 1 : v = k * q + r
  BY <1>4
<1>6. k \in {0, 1, 2, 3}
  BY <1>5
<1>7. /\ (k * q + r) % q = r /\ (k * q + r) \div q = k /\ (k * q) \div q = k
      /\ k * q \in Nat
  BY <1>2, <1>5, <1>6
<1>8. v - (v % q) = k * q
  <2>1. k * q \in Int /\ r \in Int
    BY <1>5, <1>7
  <2>2. v % q = r /\ v = k * q + r
    BY <1>5, <1>7
  <2> DEFINE x == k * q
  <2>3. x \in Int /\ v = x + r
    BY <2>1, <2>2
  <2> HIDE DEF x
  <2>4. v - r = x
    BY <2>1, <2>3
  <2> QED
    BY <2>2, <2>4 DEF x
<1>9. (v - (v % q)) \div q = v \div q
  BY <1>5, <1>7, <1>8
<1>10. k * q \in Addr /\ (k * q) % q = 0
  BY <1>2, <1>6 DEF Addr
<1> QED
  BY <1>8, <1>9, <1>10 DEF ConditionOf, q

\* Masking makes an address of any number, and leaves an address alone.
LEMMA MaskedAddress ==
  /\ \A n \in Nat : Masked(n) \in Addr
  /\ \A a \in Addr : Masked(a) = a
BY MemoryWordsAssumption DEF Masked, Addr

\* A statement with another operand.
Taking(i, operand) == [source[i] EXCEPT !.operand = operand]

\* Another address for a statement that takes one.
LEMMA OperandEdit ==
  ASSUME source \in Seq(Line), NEW i \in WordLines, NEW v \in Addr,
         WellLaidOut, \A j \in WordLines : j # i => WellFormedStatement(source[j]),
         source[i].mnemonic \in (Opcode \cup {"Adr"}) \ {"Input", "Output", "Halt"}
  PROVE  LET edited == WithOperand(i, Number(v))
         IN  /\ edited[i] = Taking(i, Number(v)) /\ SameLines(edited)
             /\ After(edited)!WellFormed
<1>1. i \in WordLines \cup FirstEnd
  OBVIOUS
<1>2. source[i] \in StatementLine /\ source[i].mnemonic # "End"
  BY <1>1, StatementLines
<1>3. v \in Int
  BY MemoryWordsAssumption DEF Addr
<1>4. Number(v) \in Operand /\ Number(v).kind = "Number" /\ Number(v).value = v
  BY <1>3 DEF Operand, Number
<1>5. /\ Taking(i, Number(v)) \in StatementLine
      /\ Taking(i, Number(v)).mnemonic = source[i].mnemonic
      /\ Taking(i, Number(v)).operand = Number(v)
      /\ Taking(i, Number(v)).label = source[i].label
  BY <1>2, <1>4 DEF Taking, StatementLine
<1>6. WellFormedStatement(Taking(i, Number(v)))
  <2>1. WellFormedOperand(Number(v))
    BY <1>4 DEF WellFormedOperand
  <2> QED
    BY <1>5, <2>1 DEF WellFormedStatement
<1>7. WithOperand(i, Number(v)) = Edited(i, Taking(i, Number(v)))
  BY DEF WithOperand, Edited, Taking
<1>8. /\ SameLines(Edited(i, Taking(i, Number(v))))
      /\ Edited(i, Taking(i, Number(v)))[i] = Taking(i, Number(v))
      /\ After(Edited(i, Taking(i, Number(v))))!WellFormed
  BY <1>2, <1>5, <1>6, StatementEdit
<1> QED
  BY <1>7, <1>8

\* The one fault of a file is that of one statement.
LEMMA OneFault ==
  ASSUME IInv, Told, Finished, Len(diagnostics) = 1,
         diagnostics[1].code = "UNKNOWN_LABEL"
  PROVE  /\ source \in Seq(Line) /\ WellLaidOut
         /\ diagnostics[1].line \in WordLines
         /\ source[diagnostics[1].line].mnemonic
              \in (Opcode \cup {"Adr"}) \ {"Input", "Output", "Halt"}
         /\ \A j \in WordLines :
              j # diagnostics[1].line => WellFormedStatement(source[j])
<1>1. TypeOK /\ ~Parsing
  BY DEF IInv, Finished
<1>2. FirstPassClean
  <2>1. "UNKNOWN_LABEL" \notin FirstPassCodes
    BY DEF FirstPassCodes
  <2>2. \A d \in 1 .. 1 : d = 1
    OBVIOUS
  <2> QED
    BY <2>1, <2>2 DEF FirstPassClean
<1>3. /\ LayoutRead /\ Len(words) <= Len(items)
      /\ \A k \in 1 .. Len(words) : Fault(items[k]) # "None" =>
           \E d \in 1 .. Len(diagnostics) : Tells(d, k)
      /\ \A d \in 1 .. Len(diagnostics) : \E k \in 1 .. Len(words) : Tells(d, k)
  BY <1>2 DEF Told, FaultsTold
<1>4. Len(words) = Len(items)
  <2>1. Len(words) \in Nat /\ Len(items) \in Nat
    BY <1>1 DEF TypeOK
  <2>2. ~(Len(words) < Len(items))
    BY DEF Finished, Assembling
  <2> QED
    BY <1>3, <2>1, <2>2
<1>5. /\ source \in Seq(Line) /\ WellLaidOut
      /\ \A i \in WordLines : \E k \in 1 .. Len(items) : items[k].line = i
  BY <1>1, <1>3, AcceptsLayout DEF TypeOK
<1>6. PICK k \in 1 .. Len(items) : Tells(1, k)
  BY <1>3, <1>4
<1>7. /\ items[k] \in ItemRecord
      /\ items[k].line = diagnostics[1].line /\ Fault(items[k]) = "UNKNOWN_LABEL"
      /\ items[k].line \in WordLines
      /\ source[items[k].line].mnemonic = items[k].mnemonic
  BY <1>1, <1>3, <1>6, ItemSource DEF Tells, TypeOK
<1>8. items[k].mnemonic \in (Opcode \cup {"Adr"}) \ {"Input", "Output", "Halt"}
  <2> DEFINE item == items[k]
  <2>1. item.mnemonic \notin LiteralDirective
    BY <1>7 DEF Fault, LiteralFault
  <2>2. InstructionFault(item) = "UNKNOWN_LABEL"
    BY <1>7, <2>1 DEF Fault
  <2> HIDE DEF item
  <2>3. /\ AliasedOpcode(item) \in Opcode /\ TakesOperand(AliasedOpcode(item))
        /\ OperandFault(AliasedOperand(item)) = "UNKNOWN_LABEL"
    BY <2>2 DEF InstructionFault
  <2>4. item.mnemonic # "Clear"
    <3> SUFFICES ASSUME item.mnemonic = "Clear" PROVE FALSE
      OBVIOUS
    <3>1. AliasedOperand(item) = Number(0)
      BY DEF AliasedOperand
    <3>2. 0 \in Addr
      BY MemoryWordsAssumption DEF Addr
    <3> QED
      BY <2>3, <3>1, <3>2 DEF OperandFault, AddressLiteral, Number
  <2>5. item.mnemonic # "Adr" => AliasedOpcode(item) = item.mnemonic
    BY <2>4, Zenon DEF AliasedOpcode
  <2> QED
    BY <2>3, <2>5 DEF TakesOperand, item
<1>9. ASSUME NEW j \in WordLines, j # diagnostics[1].line
      PROVE  WellFormedStatement(source[j])
  <2>1. PICK m \in 1 .. Len(items) : items[m].line = j
    BY <1>5
  <2>2. /\ items[m] \in ItemRecord
        /\ source[j].mnemonic = items[m].mnemonic
        /\ source[j].operand = items[m].operand
    BY <1>1, <1>3, <2>1, ItemSource DEF TypeOK
  <2>3. Fault(items[m]) = "None"
    <3> SUFFICES ASSUME Fault(items[m]) # "None" PROVE FALSE
      OBVIOUS
    <3>1. \E d \in 1 .. 1 : Tells(d, m)
      BY <1>3, <1>4
    <3>2. Tells(1, m)
      <4>1. \A d \in 1 .. 1 : d = 1
        OBVIOUS
      <4> QED
        BY <3>1, <4>1
    <3> QED
      BY <1>9, <2>1, <3>2 DEF Tells
  <2> QED
    BY <1>1, <1>3, <2>2, <2>3, FaultMeant
<1> QED
  BY <1>5, <1>7, <1>8, <1>9

\* Reading a hexadecimal name as an address repairs the file.
LEMMA UnknownLabelRepaired ==
  ASSUME IInv, Told, Finished, Len(diagnostics) = 1, NEW edited \in UnknownLabelFixes
  PROVE  After(edited)!WellFormed
<1>1. PICK k \in 1 .. 1 :
        /\ diagnostics[k].code = "UNKNOWN_LABEL"
        /\ source[diagnostics[k].line].operand.text \in DOMAIN HexValue
        /\ HexValue[source[diagnostics[k].line].operand.text] < MemoryWords
        /\ edited = WithOperand(diagnostics[k].line,
                      Number(HexValue[source[diagnostics[k].line].operand.text]))
  BY DEF UnknownLabelFixes
<1>2. k = 1
  OBVIOUS
<1> DEFINE i == diagnostics[1].line
           v == HexValue[source[i].operand.text]
<1>3. v \in Addr
  <2>1. v \in Nat /\ v < MemoryWords
    BY <1>1, <1>2, HexAssumption
  <2> HIDE DEF v
  <2> QED
    BY <2>1, MemoryWordsAssumption DEF Addr
<1>4. /\ source \in Seq(Line) /\ WellLaidOut /\ i \in WordLines
      /\ source[i].mnemonic \in (Opcode \cup {"Adr"}) \ {"Input", "Output", "Halt"}
      /\ \A j \in WordLines : j # i => WellFormedStatement(source[j])
  BY <1>1, <1>2, OneFault
<1>5. edited = WithOperand(i, Number(v))
  BY <1>1, <1>2
<1> HIDE DEF i, v
<1> QED
  BY <1>3, <1>4, <1>5, OperandEdit

\* The word of a statement of one of the instructions with a number.
LEMMA MeaningOfNumber ==
  ASSUME NEW s, s.mnemonic = "SkipCond", s.operand.kind = "Number"
  PROVE  MeaningOfStatement(s) = Encode("SkipCond", s.operand.value)
<1>1. /\ "SkipCond" \in Opcode /\ "SkipCond" \notin LiteralDirective
      /\ s.mnemonic # "Clear" /\ s.mnemonic # "Adr"
  BY DEF Opcode, OpcodeOrder, LiteralDirective
<1>2. Value(s.operand) = s.operand.value
  BY Zenon DEF Value
<1> QED
  BY <1>1, <1>2, Zenon DEF MeaningOfStatement

\* The fix of a condition with ignored bits is a condition without, and the
\* one that was tested if it was a numeral.
LEMMA ConditionFixed ==
  ASSUME IInv, Meant, Told, Assembles, NEW i \in MaskedLines
  PROVE  LET e == MaskedSkipcondFix(i)
             after == After(e)!MeaningOfStatement(e[i])
         IN  /\ After(e)!WellFormed
             /\ Decode(after).opcode = "SkipCond"
             /\ Masked(after) % (MemoryWords \div 4) = 0
             /\ source[i].operand.kind = "Number" =>
                  ConditionOf(Masked(after))
                    = ConditionOf(Masked(MeaningOfStatement(source[i])))
<1> DEFINE n == ReadAsHex(source[i].operand)
           v == Masked(n)
           w == v - (v % (MemoryWords \div 4))
           e == MaskedSkipcondFix(i)
<1>1. /\ source \in Seq(Line) /\ WellFormed /\ WellLaidOut
      /\ Len(words) = Len(items)
      /\ \A k \in 1 .. Len(items) :
           /\ items[k].line \in WordLines
           /\ source[items[k].line].mnemonic = items[k].mnemonic
  BY AssembledFacts
<1>2. i \in WordLines /\ source[i].mnemonic = "SkipCond"
  <2>1. PICK k \in MaskedSkipcond(Assembled) : i = items[k].line
    BY DEF MaskedLines, ItemLines
  <2>2. k \in 1 .. Len(items) /\ EffectiveOpcode(Assembled, k) = "SkipCond"
    BY <1>1, <2>1 DEF MaskedSkipcond, Indices, Assembled, Listing
  <2>3. items[k].mnemonic = "SkipCond"
    BY <2>2 DEF EffectiveOpcode, Assembled, Listing
  <2> QED
    BY <1>1, <2>1, <2>2, <2>3
<1>3. "SkipCond" \in Opcode \ {"Input", "Output", "Halt"}
  BY DEF Opcode, OpcodeOrder
<1>4. WellFormedOperand(source[i].operand)
  <2>1. WellFormedStatement(source[i])
    BY <1>1, <1>2 DEF WellFormed
  <2>2. "SkipCond" \notin LiteralDirective
    BY DEF LiteralDirective
  <2> QED
    BY <1>2, <1>3, <2>1, <2>2 DEF WellFormedStatement
<1>5. source[i].operand.kind = "Number" =>
        n = source[i].operand.value /\ source[i].operand.value \in Addr
  BY <1>4 DEF WellFormedOperand, ReadAsHex
<1>6. n \in Nat
  <2>1. CASE source[i].operand.kind = "Name"
    BY <2>1, HexAssumption DEF MaskedLines, ReadAsHex
  <2>2. CASE source[i].operand.kind = "Number"
    BY <1>5, <2>2, MemoryWordsAssumption DEF Addr
  <2> QED
    BY <1>4, <2>1, <2>2 DEF WellFormedOperand
<1> HIDE DEF n
<1>7. v \in Addr /\ (source[i].operand.kind = "Number" => v = source[i].operand.value)
  BY <1>5, <1>6, MaskedAddress
<1> HIDE DEF v
<1>8. w \in Addr /\ w % (MemoryWords \div 4) = 0 /\ ConditionOf(w) = ConditionOf(v)
  BY <1>7, ConditionKept
<1>9. e = WithOperand(i, Number(w))
  BY DEF MaskedSkipcondFix, CanonicalCondition, v, n
<1> HIDE DEF w, e
<1>10. \A j \in WordLines : WellFormedStatement(source[j])
  BY <1>1 DEF WellFormed
<1>11. e[i] = Taking(i, Number(w)) /\ SameLines(e) /\ After(e)!WellFormed
  BY <1>1, <1>2, <1>3, <1>8, <1>9, <1>10, OperandEdit
<1>12. /\ Taking(i, Number(w)).mnemonic = "SkipCond"
       /\ Taking(i, Number(w)).operand.kind = "Number"
       /\ Taking(i, Number(w)).operand.value = w
  <2>1. source[i] \in StatementLine
    BY <1>1, <1>2, StatementLines
  <2> QED
    BY <1>2, <2>1 DEF Taking, StatementLine, Number
<1>13. After(e)!MeaningOfStatement(e[i]) = Encode("SkipCond", w)
  <2> DEFINE t == Taking(i, Number(w))
  <2>1. t.mnemonic = "SkipCond" /\ t.operand.kind = "Number" /\ t.operand.value = w
    BY <1>12
  <2> HIDE DEF t
  <2>2. t.operand.kind # "Name"
    BY <2>1
  <2>3. After(e)!MeaningOfStatement(t) = MeaningOfStatement(t)
    BY <1>1, <1>11, <2>2, EditMeaning
  <2> QED
    BY <1>11, <2>1, <2>3, MeaningOfNumber DEF t
<1>14. source[i].operand.kind = "Number" =>
         MeaningOfStatement(source[i]) = Encode("SkipCond", v)
  BY <1>2, <1>7, MeaningOfNumber
<1>15. /\ Decode(Encode("SkipCond", w)).opcode = "SkipCond"
       /\ Masked(Encode("SkipCond", w)) = w /\ Masked(Encode("SkipCond", v)) = v
  BY <1>3, <1>7, <1>8, DecodeEncoded
<1> QED
  BY <1>8, <1>11, <1>13, <1>14, <1>15 DEF e

\* A statement that jumps where another asks.
Jumping(i) == [source[i] EXCEPT !.mnemonic = "Jump"]

\* The fix of a condition that is a label is the jump to that label.
LEMMA ConditionToJump ==
  ASSUME IInv, Meant, Told, Assembles, NEW i \in SkipcondLabelLines
  PROVE  /\ After(SkipcondLabelFix(i))!WellFormed
         /\ After(SkipcondLabelFix(i))!MeaningOfStatement(SkipcondLabelFix(i)[i])
              = Encode("Jump", MeaningOfLabel(source[i].operand.text))
<1> DEFINE e == SkipcondLabelFix(i)
           t == Jumping(i)
<1>1. /\ source \in Seq(Line) /\ WellFormed /\ WellLaidOut
      /\ \A k \in 1 .. Len(items) : items[k].line \in WordLines
  BY AssembledFacts
<1>2. /\ i \in WordLines /\ source[i].mnemonic = "SkipCond"
      /\ source[i].operand.kind = "Name"
  BY <1>1 DEF SkipcondLabelLines, ItemLines
<1>3. \A j \in WordLines : WellFormedStatement(source[j])
  BY <1>1 DEF WellFormed
<1>4. source[i] \in StatementLine
  BY <1>1, <1>2, StatementLines
<1>5. /\ "Jump" \in Opcode \ {"Input", "Output", "Halt"} /\ "Jump" \notin LiteralDirective
      /\ "Jump" \in Mnemonic
  BY DEF Opcode, OpcodeOrder, LiteralDirective, Mnemonic
<1>6. /\ t \in StatementLine /\ t.mnemonic = "Jump" /\ t.operand = source[i].operand
      /\ t.label = source[i].label
  BY <1>4, <1>5 DEF Jumping, StatementLine
<1>7. e = Edited(i, t)
  BY DEF SkipcondLabelFix, Edited, Jumping
<1> HIDE DEF e, t
<1>8. WellFormedStatement(t)
  <2>1. source[i].operand.text \in Labels /\ Defined(source[i].operand.text)
    BY <1>2, <1>3, <1>4, NamesAskFor
  <2>2. WellFormedOperand(t.operand)
    BY <1>2, <1>6, <2>1 DEF WellFormedOperand
  <2> QED
    BY <1>5, <1>6, <2>2 DEF WellFormedStatement
<1>9. /\ SameLines(e) /\ e[i] = t /\ \A l : LabelsOf(e, l) = LabelLines(l)
      /\ After(e)!WellFormed
  <2>1. t.mnemonic # "End"
    BY <1>6
  <2> QED
    BY <1>1, <1>2, <1>3, <1>6, <1>7, <1>8, <2>1, StatementEdit
<1>10. After(e)!MeaningOfStatement(t) = MeaningOfStatement(t)
  <2>1. t.operand.kind = "Name" /\ t.mnemonic \in Opcode \cup {"Adr"}
    BY <1>2, <1>5, <1>6
  <2>2. LabelsOf(e, t.operand.text) = LabelLines(t.operand.text)
    BY <1>9
  <2> QED
    BY <1>1, <1>9, <2>1, <2>2, EditMeaning
<1>11. MeaningOfStatement(t) = Encode("Jump", MeaningOfLabel(source[i].operand.text))
  <2>1. Value(t.operand) = MeaningOfLabel(t.operand.text)
    <3>1. t.operand.kind = "Name" /\ t.operand.kind # "Number"
      BY <1>2, <1>6
    <3> QED
      BY <3>1, Zenon DEF Value
  <2>2. t.mnemonic # "Clear" /\ t.mnemonic # "Adr" /\ t.mnemonic \notin LiteralDirective
        /\ t.mnemonic \in Opcode
    BY <1>5, <1>6
  <2>3. MeaningOfStatement(t) = Encode(t.mnemonic, Value(t.operand))
    BY <2>2, Zenon DEF MeaningOfStatement
  <2> QED
    BY <1>6, <2>1, <2>3
<1> QED
  BY <1>9, <1>10, <1>11 DEF e

\* The three fixes together.
LEMMA FixesMeant ==
  ASSUME IInv, Meant, Told
  PROVE  FixesAreSafe
<1>1. Finished /\ Len(diagnostics) = 1 =>
        \A edited \in UnknownLabelFixes : After(edited)!WellFormed
  BY UnknownLabelRepaired
<1> QED
  BY <1>1, ConditionFixed, ConditionToJump DEF FixesAreSafe

\* The quick fixes of features/actions.rs lead to files that assemble, and to
\* the statements they announce, for every memory size and every source file.
THEOREM FixesAreSound == Spec => []FixesAreSafe
BY FixesMeant, TellingInvariance, PTL
=============================================================================
