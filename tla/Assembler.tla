------------------------------ MODULE Assembler ------------------------------
(***************************************************************************)
(* The two passes of mrs-asm.  The first (parser::parse) reads a source    *)
(* line by line, gives each statement the next address, and defines its    *)
(* label; the second (assembler::assemble_program) turns each statement    *)
(* into one word, looking labels up.  A line is taken after                *)
(* lexer::split_line: it is one of the four line forms, and the text of a  *)
(* label, mnemonic or operand is what the passes tell apart about it.      *)
(* Lines are numbered from 1; the code numbers them from 0.                *)
(***************************************************************************)
EXTENDS MarieWord, Sequences, FiniteSets

CONSTANTS
  Labels,        \* names a label may have
  DigitLabels,   \* names that begin with a digit and are no hex numeral
  SpacedLabels,  \* names with whitespace in them
  Sources        \* the source files to assemble

-----------------------------------------------------------------------------
(* The forms of a line.                                                    *)

\* An empty line, and one with nothing but a comment: both LineForm::Blank.
Empty == [form |-> "Empty"]
Comment == [form |-> "Comment"]
Malformed == [form |-> "Malformed"]

\* An ORG with its three hexadecimal digits.
Org(address) == [form |-> "Origin", address |-> address]

Statement(label, mnemonic, operand) ==
  [form |-> "Statement", label |-> label, mnemonic |-> mnemonic,
   operand |-> operand]

NoLabel == "no label"

\* DEC, OCT and HEX, and the two directives that stand for an instruction.
LiteralDirective == {"Dec", "Oct", "Hex"}
Alias == {"Adr", "Clear"}

\* A mnemonic by what it names; "Org" is an ORG that is not of the Origin
\* form, and "Unknown" anything else.
Mnemonic == Opcode \cup LiteralDirective \cup Alias \cup {"End", "Org", "Unknown"}

\* An operand is a numeral, by its value in the base its statement reads it
\* in, or a text that is a numeral in none.
Number(n) == [kind |-> "Number", value |-> n]
Name(text) == [kind |-> "Name", text |-> text]
NoOperand == [kind |-> "None"]

Operand ==
  [kind : {"Number"}, value : Int]
    \cup [kind : {"Name"}, text : Labels \cup DigitLabels]
    \cup {NoOperand}

Line ==
  {Empty, Comment, Malformed}
    \cup [form : {"Origin"}, address : Addr]
    \cup [form : {"Statement"},
          label : Labels \cup DigitLabels \cup SpacedLabels \cup {NoLabel},
          mnemonic : Mnemonic, operand : Operand]

ASSUME LabelsAssumption ==
  /\ Labels \cap (DigitLabels \cup SpacedLabels) = {}
  /\ NoLabel \notin Labels \cup DigitLabels \cup SpacedLabels
  /\ Sources \subseteq Seq(Line)

VARIABLES
  source,
  position,      \* the line the first pass reads next
  origin,        \* Program::origin, or NoOrigin
  items,         \* Program::items
  end,           \* the line of Program::end, or NoLine
  trailing,      \* the first line of Program::trailing, or NoLine
  stopped,       \* parse's flag
  symbols,       \* SymbolTable: label -> its address, line and references
  lineOf,        \* SourceMap::by_address
  addressOf,     \* SourceMap::by_line
  words,         \* what the second pass has emitted
  diagnostics

program == << origin, items, end, trailing, stopped >>
map == << lineOf, addressOf >>
vars == << source, position, program, symbols, map, words, diagnostics >>

NoOrigin == -1
NoLine == 0

\* Program::origin_address.
OriginAddress == IF origin = NoOrigin THEN 0 ELSE origin

Report(code, line) ==
  diagnostics' = Append(diagnostics, [code |-> code, line |-> line])

\* BTreeMap::insert.
Insert(map_, key, value) ==
  [k \in DOMAIN map_ \cup {key} |-> IF k = key THEN value ELSE map_[k]]

-----------------------------------------------------------------------------
(* The first pass.                                                         *)

Parsing == position <= Len(source)
Text == source[position]
Advance == position' = position + 1 /\ UNCHANGED << source, words >>

\* A line of an accepted form, before anything stopped the pass.
Reads(form) == Parsing /\ ~stopped /\ Text.form = form

\* Everything after the pass stopped is invisible; only where it begins is
\* recorded.  A comment is text too.
SkipDeadLine ==
  /\ Parsing /\ stopped
  /\ trailing' = IF trailing = NoLine /\ Text # Empty THEN position ELSE trailing
  /\ Advance
  /\ UNCHANGED << origin, items, end, stopped, symbols, map, diagnostics >>

SkipBlankLine ==
  /\ Reads("Empty") \/ Reads("Comment")
  /\ Advance
  /\ UNCHANGED << program, symbols, map, diagnostics >>

RejectMalformedLine ==
  /\ Reads("Malformed")
  /\ Report("MALFORMED_LINE", position)
  /\ Advance
  /\ UNCHANGED << program, symbols, map >>

\* A faulty test that takes a second ORG before the first word.
OriginAllowedTwice == items = << >>

\* parse_origin: only before any word, and only once.
OriginAllowed == items = << >> /\ origin = NoOrigin

ParseOrigin ==
  /\ Reads("Origin")
  /\ OriginAllowed
  /\ origin' = Text.address
  /\ Advance
  /\ UNCHANGED << items, end, trailing, stopped, symbols, map, diagnostics >>

RejectOrigin ==
  /\ Reads("Origin")
  /\ ~OriginAllowed
  /\ Report("UNEXPECTED_ORIGIN", position)
  /\ Advance
  /\ UNCHANGED << program, symbols, map >>

\* A faulty location counter that leaves the origin out.
NextAddressFromZero == Len(items)

\* next_address, which is None past the end of memory.
NextAddress == OriginAddress + Len(items)

\* A faulty bound that lets one word past the end.
MemoryFullLate == NextAddress > MemoryWords

MemoryFull == NextAddress >= MemoryWords

\* Past the end of memory: reported once, and nothing more is read.  END has
\* not been looked for yet.
RefuseTooLarge ==
  /\ Reads("Statement")
  /\ MemoryFull
  /\ Report("PROGRAM_TOO_LARGE", position)
  /\ stopped' = TRUE
  /\ Advance
  /\ UNCHANGED << origin, items, end, trailing, symbols, map >>

\* define_label's three refusals, in its order.
LabelFault ==
  IF Text.label \in DigitLabels THEN "LABEL_STARTS_WITH_DIGIT"
  ELSE IF Text.label \in SpacedLabels THEN "LABEL_CONTAINS_WHITESPACE"
  ELSE IF Text.label \in DOMAIN symbols THEN "DUPLICATE_LABEL"
  ELSE "None"

\* A faulty order: the source map is told of the line before its label is
\* looked at.
SkipRejectedLabelMapped ==
  /\ Reads("Statement")
  /\ ~MemoryFull
  /\ LabelFault # "None"
  /\ Report(LabelFault, position)
  /\ lineOf' = Insert(lineOf, NextAddress, position)
  /\ addressOf' = Insert(addressOf, position, NextAddress)
  /\ Advance
  /\ UNCHANGED << program, symbols >>

\* A rejected label takes its whole line with it, an END included.
SkipRejectedLabel ==
  /\ Reads("Statement")
  /\ ~MemoryFull
  /\ LabelFault # "None"
  /\ Report(LabelFault, position)
  /\ Advance
  /\ UNCHANGED << program, symbols, map >>

\* What an accepted statement does before END is looked for: SymbolTable::
\* define and SourceMap::insert.
DefineAndMap ==
  /\ Reads("Statement")
  /\ ~MemoryFull
  /\ LabelFault = "None"
  /\ symbols' = IF Text.label = NoLabel THEN symbols
                ELSE Insert(symbols, Text.label,
                       [address |-> NextAddress, line |-> position,
                        references |-> << >>])
  /\ lineOf' = Insert(lineOf, NextAddress, position)
  /\ addressOf' = Insert(addressOf, position, NextAddress)

ParseEnd ==
  /\ DefineAndMap
  /\ Text.mnemonic = "End"
  /\ end' = position
  /\ stopped' = TRUE
  /\ Advance
  /\ UNCHANGED << origin, items, trailing, diagnostics >>

ParseItem ==
  /\ DefineAndMap
  /\ Text.mnemonic # "End"
  /\ items' = Append(items,
       [label |-> Text.label, mnemonic |-> Text.mnemonic,
        operand |-> Text.operand, address |-> NextAddress,
        line |-> position])
  /\ Advance
  /\ UNCHANGED << origin, end, trailing, stopped, diagnostics >>

PassOne ==
  \/ SkipDeadLine \/ SkipBlankLine \/ RejectMalformedLine
  \/ ParseOrigin \/ RejectOrigin
  \/ RefuseTooLarge \/ SkipRejectedLabel \/ ParseEnd \/ ParseItem

-----------------------------------------------------------------------------
(* The second pass.                                                        *)

Assembling == ~Parsing /\ Len(words) < Len(items)
Item == items[Len(words) + 1]

\* Opcode::takes_operand.
TakesOperand(opcode) == opcode \notin {"Input", "Output", "Halt"}

\* Instruction::encode.
Encode(opcode, operand) ==
  ((CHOOSE i \in 1 .. 15 : OpcodeOrder[i] = opcode) - 1) * MemoryWords + operand

\* A faulty parse_word that takes a sign in every base.
ReadableSigned(radix, operand) == operand.kind = "Number"

\* literal::parse_word: only a decimal literal may have a sign.
Readable(radix, operand) ==
  operand.kind = "Number" /\ (operand.value < 0 => radix = "Dec")
InWordRange(n) == n \in -(WordCount \div 2) .. WordCount - 1

LiteralFault(item) ==
  IF item.operand = NoOperand THEN "MISSING_OPERAND"
  ELSE IF ~Readable(item.mnemonic, item.operand) THEN "MALFORMED_LITERAL"
  ELSE IF ~InWordRange(item.operand.value) THEN "LITERAL_OUT_OF_RANGE"
  ELSE "None"

\* A faulty Clear that keeps the operand it was written with, if any.
AliasedOperandKept(item) ==
  IF item.mnemonic = "Clear" /\ item.operand = NoOperand
  THEN Number(0) ELSE item.operand

\* resolve_alias: ADR is JnS, and Clear is LoadImmi 0 whatever it was given.
AliasedOpcode(item) ==
  CASE item.mnemonic = "Adr" -> "JnS"
    [] item.mnemonic = "Clear" -> "LoadImmi"
    [] OTHER -> item.mnemonic
AliasedOperand(item) ==
  IF item.mnemonic = "Clear" THEN Number(0) ELSE item.operand

\* looks_like_address_literal: a sign is no digit.
AddressLiteral(operand) == operand.kind = "Number" /\ operand.value >= 0

\* resolve_operand.
OperandFault(operand) ==
  IF AddressLiteral(operand)
  THEN IF operand.value \in Addr THEN "None" ELSE "ADDRESS_OUT_OF_RANGE"
  ELSE IF operand.kind = "Name" /\ operand.text \in DOMAIN symbols THEN "None"
  ELSE "UNKNOWN_LABEL"

InstructionFault(item) ==
  LET opcode == AliasedOpcode(item)
      operand == AliasedOperand(item)
  IN  IF opcode \notin Opcode THEN "UNKNOWN_MNEMONIC"
      ELSE IF TakesOperand(opcode)
      THEN IF operand = NoOperand THEN "MISSING_OPERAND" ELSE OperandFault(operand)
      ELSE IF operand = NoOperand THEN "None" ELSE "UNEXPECTED_OPERAND"

Fault(item) ==
  IF item.mnemonic \in LiteralDirective THEN LiteralFault(item)
  ELSE InstructionFault(item)

\* A faulty lookup that leaves the aliases' operands out.
ReferencedByOpcode(item) ==
  /\ item.mnemonic \in Opcode
  /\ Fault(item) = "None"
  /\ AliasedOperand(item).kind = "Name"

\* The item asks the symbol table for a label it has.
Referenced(item) ==
  /\ item.mnemonic \notin LiteralDirective
  /\ Fault(item) = "None"
  /\ AliasedOperand(item).kind = "Name"

\* assemble_item: a word for every item, zero for one that has a fault.
WordFor(item) ==
  LET operand == AliasedOperand(item)
      address == IF operand.kind = "Name" THEN symbols[operand.text].address
                 ELSE IF operand.kind = "Number" THEN operand.value ELSE 0
  IN  IF Fault(item) # "None" THEN 0
      ELSE IF item.mnemonic \in LiteralDirective
      THEN item.operand.value % WordCount
      ELSE Encode(AliasedOpcode(item), address)

AssembleItem ==
  /\ Assembling
  /\ words' = Append(words, WordFor(Item))
  /\ IF Fault(Item) = "None" THEN UNCHANGED diagnostics
     ELSE Report(Fault(Item), Item.line)
  /\ symbols' =
       IF Referenced(Item)
       THEN [symbols EXCEPT ![Item.operand.text].references =
               Append(@, Item.line)]
       ELSE symbols
  /\ UNCHANGED << source, position, program, map >>

Finished == ~Parsing /\ ~Assembling

\* Assembly::succeeded and Assembly::image.
Succeeded == diagnostics = << >>
NoImage == << >>
Image ==
  IF Succeeded /\ OriginAddress + Len(words) <= MemoryWords
  THEN [a \in Addr |->
          IF a \in OriginAddress .. OriginAddress + Len(words) - 1
          THEN words[a - OriginAddress + 1] ELSE 0]
  ELSE NoImage

-----------------------------------------------------------------------------
(* The specification.                                                      *)

Init ==
  /\ source \in Sources
  /\ position = 1
  /\ origin = NoOrigin /\ items = << >> /\ end = NoLine /\ trailing = NoLine
  /\ stopped = FALSE
  /\ symbols = << >>
  /\ lineOf = << >> /\ addressOf = << >>
  /\ words = << >>
  /\ diagnostics = << >>

Next == PassOne \/ AssembleItem

Spec == Init /\ [][Next]_vars

-----------------------------------------------------------------------------
(* Properties.                                                             *)

Codes ==
  { "MALFORMED_LINE", "UNEXPECTED_ORIGIN", "PROGRAM_TOO_LARGE",
    "LABEL_STARTS_WITH_DIGIT", "LABEL_CONTAINS_WHITESPACE", "DUPLICATE_LABEL",
    "MISSING_OPERAND", "MALFORMED_LITERAL", "LITERAL_OUT_OF_RANGE",
    "UNKNOWN_MNEMONIC", "UNEXPECTED_OPERAND", "ADDRESS_OUT_OF_RANGE",
    "UNKNOWN_LABEL" }

ItemRecord ==
  [label : Labels \cup {NoLabel}, mnemonic : Mnemonic \ {"End"},
   operand : Operand, address : Addr, line : Nat \ {0}]

Symbol == [address : Addr, line : Nat \ {0}, references : Seq(Nat \ {0})]

\* Every address that is handed out is an address of the machine, every word
\* a word, and every variable has its type.
TypeOK ==
  /\ source \in Seq(Line)
  /\ position \in 1 .. Len(source) + 1
  /\ origin \in Addr \cup {NoOrigin}
  /\ items \in Seq(ItemRecord)
  /\ end \in Nat /\ trailing \in Nat
  /\ stopped \in BOOLEAN
  /\ DOMAIN symbols \subseteq Labels
  /\ \A l \in DOMAIN symbols : symbols[l] \in Symbol
  /\ DOMAIN lineOf \subseteq Addr
  /\ \A a \in DOMAIN lineOf : lineOf[a] \in 1 .. position - 1
  /\ DOMAIN addressOf \subseteq 1 .. position - 1
  /\ \A l \in DOMAIN addressOf : addressOf[l] \in Addr
  /\ words \in Seq(Word)
  /\ diagnostics \in Seq([code : Codes, line : Nat \ {0}])

\* The items stand at consecutive addresses from the origin, in the order of
\* their lines, whatever lines were skipped or rejected between them.
ItemsConsecutive ==
  /\ \A i \in 1 .. Len(items) : items[i].address = OriginAddress + i - 1
  /\ \A i, j \in 1 .. Len(items) : i < j => items[i].line < items[j].line

\* A label is the address of the item on its own line, or one past the last
\* item when it stands on the END line, and each label is defined once.
LabelsPlaced ==
  \A l \in DOMAIN symbols :
    \/ \E i \in 1 .. Len(items) :
         /\ items[i].label = l
         /\ items[i].line = symbols[l].line
         /\ items[i].address = symbols[l].address
    \/ symbols[l].line = end /\ symbols[l].address = NextAddress

\* The source map is a bijection: what a debugger reads in one direction it
\* reads back in the other.
SourceMapInverse ==
  /\ \A a \in DOMAIN lineOf :
       lineOf[a] \in DOMAIN addressOf /\ addressOf[lineOf[a]] = a
  /\ \A l \in DOMAIN addressOf :
       addressOf[l] \in DOMAIN lineOf /\ lineOf[addressOf[l]] = l

\* It maps the lines of the items to their addresses, and END's.
SourceMapComplete ==
  /\ \A i \in 1 .. Len(items) :
       items[i].line \in DOMAIN addressOf
         /\ addressOf[items[i].line] = items[i].address
  /\ DOMAIN addressOf
       = { items[i].line : i \in 1 .. Len(items) } \cup ({end} \ {NoLine})

\* At every point of either pass, addresses, labels, items and source map
\* tell the same story, however many lines were in error.
LayoutConsistent ==
  ItemsConsecutive /\ LabelsPlaced /\ SourceMapInverse /\ SourceMapComplete

-----------------------------------------------------------------------------
(* What a source file means, read off the file without passes.             *)

IsStatement(i) == source[i].form = "Statement"
IsEnd(i) == IsStatement(i) /\ source[i].mnemonic = "End"

\* The lines before the first END, and those of them that become words.
EndLines == { i \in 1 .. Len(source) : IsEnd(i) }
Live == { i \in 1 .. Len(source) : \A e \in EndLines : i < e }
FirstEnd == { e \in EndLines : \A f \in EndLines : e <= f }
WordLines == { i \in Live : IsStatement(i) }
OrgLines == { i \in Live : source[i].form = "Origin" }

BaseAddress ==
  IF OrgLines = {} THEN 0 ELSE source[CHOOSE i \in OrgLines : TRUE].address
AddressOfLine(i) == BaseAddress + Cardinality({ j \in WordLines : j < i })

LabelLines(l) ==
  { i \in WordLines \cup FirstEnd : source[i].label = l }
Defined(l) == LabelLines(l) # {}
MeaningOfLabel(l) == AddressOfLine(CHOOSE i \in LabelLines(l) : TRUE)

\* The well-formed statements.
WellFormedOperand(o) ==
  \/ o.kind = "Number" /\ o.value \in Addr
  \/ o.kind = "Name" /\ o.text \in Labels /\ Defined(o.text)

WellFormedStatement(s) ==
  \/ s.mnemonic = "Clear"
  \/ s.mnemonic \in {"Input", "Output", "Halt"} /\ s.operand = NoOperand
  \/ /\ s.mnemonic \in (Opcode \cup {"Adr"}) \ {"Input", "Output", "Halt"}
     /\ WellFormedOperand(s.operand)
  \/ /\ s.mnemonic \in LiteralDirective
     /\ s.operand.kind = "Number"
     /\ s.operand.value \in
          (IF s.mnemonic = "Dec" THEN -(WordCount \div 2) ELSE 0) .. WordCount - 1

\* A file the assembler accepts.  An END needs an address to stand at, as
\* every statement does.
WellFormed ==
  /\ \A i \in Live : source[i].form # "Malformed"
  /\ Cardinality(OrgLines) <= 1
  /\ \A i \in OrgLines, j \in WordLines : i < j
  /\ \A i \in WordLines \cup FirstEnd :
       source[i].label \in Labels \cup {NoLabel}
  /\ \A l \in Labels : Cardinality(LabelLines(l)) <= 1
  /\ \A i \in WordLines \cup FirstEnd : AddressOfLine(i) \in Addr
  /\ \A i \in WordLines : WellFormedStatement(source[i])

Value(o) ==
  CASE o.kind = "Number" -> o.value
    [] o.kind = "Name" -> MeaningOfLabel(o.text)
    [] OTHER -> 0

MeaningOfStatement(s) ==
  CASE s.mnemonic = "Clear" -> Encode("LoadImmi", 0)
    [] s.mnemonic = "Adr" -> Value(s.operand)
    [] s.mnemonic \in LiteralDirective -> s.operand.value % WordCount
    [] s.mnemonic \in Opcode -> Encode(s.mnemonic, Value(s.operand))

MeaningOfSource ==
  [a \in Addr |->
     IF \E i \in WordLines : AddressOfLine(i) = a
     THEN MeaningOfStatement(
            source[CHOOSE i \in WordLines : AddressOfLine(i) = a])
     ELSE 0]

\* An error is reported for exactly the files that are not well formed:
\* nothing is turned into a silent zero, and nothing below END matters.
ReportsExactly == Finished => (Succeeded <=> WellFormed)

\* The image of a file without errors is what the file means, forward
\* references, aliases and labels on END alike.
AssemblesSource == Finished /\ Succeeded => Image = MeaningOfSource

-----------------------------------------------------------------------------
(* What the documentation says and the code does not do.                   *)

\* "No runnable program is rejected by the difference" (Assembly::image): a
\* program is only called too large when its words do not fit.
OnlyTooLargeRejected ==
  (\E i \in 1 .. Len(diagnostics) : diagnostics[i].code = "PROGRAM_TOO_LARGE")
    => BaseAddress + Cardinality(WordLines) > MemoryWords
=============================================================================
