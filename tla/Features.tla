------------------------------- MODULE Features -------------------------------
(***************************************************************************)
(* What is offered on an assembled file: the lints of mrs-asm and the      *)
(* advice they give, the quick fixes and the rename of mrs-lsp (features/  *)
(* actions.rs, navigation.rs).  An edit is the file it leads to.           *)
(***************************************************************************)
EXTENDS Assembler, LintGraph

CONSTANT HexValue     \* the names that are hexadecimal digits, by their value

ASSUME HexAssumption == \A text \in DOMAIN HexValue : HexValue[text] \in Nat

\* The finished assembly as the graph takes it.
Assembled ==
  Listing(OriginAddress, [i \in 1 .. Len(items) |-> items[i].mnemonic], words)

References(label) ==
  { symbols[label].references[k] : k \in 1 .. Len(symbols[label].references) }

-----------------------------------------------------------------------------
(* The lints of mrs-asm, by the lines they report.                         *)

\* A label nothing refers to.
UnusedLabel == { symbols[l].line : l \in { m \in DOMAIN symbols : References(m) = {} } }

\* The text after END: all of it, from its first line on.
UnreachableCode ==
  IF end # NoLine /\ trailing # NoLine THEN trailing .. Len(source) ELSE {}

\* A faulty lint that takes both aliases for Clear.
IgnoredOperandAlias ==
  { items[i].line : i \in { j \in 1 .. Len(items) :
      items[j].mnemonic \in Alias /\ items[j].operand # NoOperand } }

\* An operand of Clear.
IgnoredOperand ==
  { items[i].line : i \in { j \in 1 .. Len(items) :
      items[j].mnemonic = "Clear" /\ items[j].operand # NoOperand } }

-----------------------------------------------------------------------------
(* Rename.                                                                 *)

\* rename_error: what no label can be called.
RenameError(name) == name \in DigitLabels \cup SpacedLabels

\* A rename is also refused to a name that exists.
RenameRefused(label, name) ==
  RenameError(name) \/ (name # label /\ name \in DOMAIN symbols)

\* rename: the definition and every recorded reference.
Renamed(label, name) ==
  [i \in DOMAIN source |->
     IF source[i].form # "Statement" THEN source[i]
     ELSE [source[i] EXCEPT
             !.label = IF i = symbols[label].line THEN name ELSE @,
             !.operand = IF i \in References(label) THEN Name(name) ELSE @]]

-----------------------------------------------------------------------------
(* Quick fixes.                                                            *)

\* A faulty operand for the last condition, which begins with a letter.
CanonicalConditionBare(operand) ==
  IF ConditionOf(operand) = "NonZero" THEN Name("C00")
  ELSE Number(operand - (operand % (MemoryWords \div 4)))

\* SkipCondition::to_operand, written as a literal.
CanonicalCondition(operand) ==
  Number(operand - (operand % (MemoryWords \div 4)))

WithOperand(i, operand) == [source EXCEPT ![i].operand = operand]

\* An unknown label that is hexadecimal is read as the address.
UnknownLabelFixes ==
  { WithOperand(i, Number(HexValue[source[i].operand.text])) :
      i \in { diagnostics[k].line : k \in { j \in 1 .. Len(diagnostics) :
                /\ diagnostics[j].code = "UNKNOWN_LABEL"
                /\ source[diagnostics[j].line].operand.kind = "Name"
                /\ source[diagnostics[j].line].operand.text \in DOMAIN HexValue
                /\ HexValue[source[diagnostics[j].line].operand.text] < MemoryWords } } }

ItemLines(indices) == { items[i].line : i \in indices }

\* What the text of an operand is as hexadecimal: a label may be digits, too.
ReadAsHex(operand) ==
  IF operand.kind = "Name" THEN HexValue[operand.text] ELSE operand.value

\* A condition with bits that are ignored becomes the condition it is read as.
\* The text is read anew, whether it is a numeral or a label.
MaskedLines ==
  { i \in ItemLines(MaskedSkipcond(Assembled)) :
      source[i].operand.kind = "Name" =>
        /\ source[i].operand.text \in DOMAIN HexValue
        /\ HexValue[source[i].operand.text] < WordCount }
MaskedSkipcondFix(i) ==
  WithOperand(i, CanonicalCondition(Masked(ReadAsHex(source[i].operand))))

\* A condition that is a label becomes a jump to it.
SkipcondLabelLines ==
  { i \in ItemLines(1 .. Len(items)) :
      /\ source[i].mnemonic = "SkipCond"
      /\ source[i].operand.kind = "Name"
      /\ source[i].operand.text \in DOMAIN symbols }
SkipcondLabelFix(i) == [source EXCEPT ![i].mnemonic = "Jump"]

-----------------------------------------------------------------------------
(* Properties.                                                             *)

\* The same questions asked of an edited file.
After(edited) == INSTANCE Assembler WITH source <- edited

SameProgram(edited) ==
  After(edited)!WellFormed /\ After(edited)!MeaningOfSource = MeaningOfSource

Assembles == Finished /\ Succeeded

\* A rename the server accepts is one the assembler accepts, and it leaves
\* the program as it was, whatever the label stands on (an END line, a line
\* that refers to itself) and whatever else has its name.
RenameKeepsProgram ==
  Assembles =>
    \A l \in DOMAIN symbols, name \in Labels \cup DigitLabels \cup SpacedLabels :
      ~RenameRefused(l, name) => SameProgram(Renamed(l, name))

\* What the lints of mrs-asm call useless can be taken away without changing
\* the program, and nothing else of its kind can: a label, an operand, the
\* text below END.
LintAdviceIsExact ==
  Assembles =>
    /\ \A i \in WordLines \cup FirstEnd :
         source[i].label # NoLabel =>
           (i \in UnusedLabel
              <=> After([source EXCEPT ![i].label = NoLabel])!WellFormed)
    /\ \A i \in UnusedLabel : SameProgram([source EXCEPT ![i].label = NoLabel])
    /\ \A i \in WordLines :
         source[i].operand # NoOperand =>
           (i \in IgnoredOperand <=> After(WithOperand(i, NoOperand))!WellFormed)
    /\ \A i \in IgnoredOperand : SameProgram(WithOperand(i, NoOperand))
    /\ UnreachableCode # {} => SameProgram(SubSeq(source, 1, trailing - 1))

\* A quick fix leads to a file that assembles.  It repairs an operand read as
\* a label; it makes of a condition with ignored bits one without, and of a
\* numeral the condition that was tested; and it makes of a condition that is
\* a label the jump to it.  (A label that reads as hexadecimal is left out of
\* the second claim: the fix takes its digits for the condition, where the
\* program tests the address the label stands for.)
FixesAreSafe ==
  /\ Finished /\ Len(diagnostics) = 1 =>
       \A edited \in UnknownLabelFixes : After(edited)!WellFormed
  /\ Assembles =>
       /\ \A i \in MaskedLines :
            LET edited == MaskedSkipcondFix(i)
                before == MeaningOfStatement(source[i])
                after == After(edited)!MeaningOfStatement(edited[i])
            IN  /\ After(edited)!WellFormed
                /\ Decode(after).opcode = "SkipCond"
                /\ Masked(after) % (MemoryWords \div 4) = 0
                /\ source[i].operand.kind = "Number" =>
                     ConditionOf(Masked(after)) = ConditionOf(Masked(before))
       /\ \A i \in SkipcondLabelLines :
            LET edited == SkipcondLabelFix(i)
            IN  /\ After(edited)!WellFormed
                /\ After(edited)!MeaningOfStatement(edited[i])
                     = Encode("Jump", MeaningOfLabel(source[i].operand.text))
=============================================================================
