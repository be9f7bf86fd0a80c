----------------------------- MODULE MCAssembler -----------------------------
(***************************************************************************)
(* Small instances of Assembler for TLC: every source file of a few lines  *)
(* over an alphabet of lines; and, while nothing is being assembled, every *)
(* line and every literal one can type of a few pieces.                    *)
(***************************************************************************)
EXTENDS Features, Typing

CONSTANTS A, B, C, Digit, Spaced

CONSTANTS
  MaxLines,         \* bound: the length of a file of layout lines
  MaxOperandLines   \* bound: the length of a file of operand lines

\* Lines about where words, labels, ORG and END stand.
LayoutLines ==
  { Empty, Malformed, Org(MemoryWords - 2), Org(MemoryWords - 1),
    Statement(A, "Load", Name(B)), Statement(B, "Dec", Number(5)),
    Statement(NoLabel, "Jump", Name(A)), Statement(Digit, "Halt", NoOperand),
    Statement(NoLabel, "End", NoOperand), Statement(A, "End", NoOperand),
    Statement(Spaced, "End", NoOperand) }

\* Lines about what becomes of an operand.
OperandLines ==
  { Comment, Statement(A, "Add", Number(3)),
    Statement(NoLabel, "Load", Number(MemoryWords)), Statement(NoLabel, "Load", Number(-1)),
    Statement(NoLabel, "Store", NoOperand), Statement(NoLabel, "Subt", Name(Digit)),
    Statement(B, "Halt", NoOperand), Statement(NoLabel, "Output", Name(A)),
    Statement(NoLabel, "Clear", Name(A)), Statement(NoLabel, "Clear", NoOperand),
    Statement(NoLabel, "Adr", Name(B)), Statement(NoLabel, "Org", Number(1)),
    Statement(NoLabel, "Unknown", NoOperand), Statement(NoLabel, "Dec", Number(-(WordCount \div 2))),
    Statement(NoLabel, "Dec", Number(-(WordCount \div 2) - 1)), Statement(NoLabel, "Dec", Name(A)),
    Statement(NoLabel, "Hex", Number(WordCount - 1)), Statement(NoLabel, "Hex", Number(WordCount)),
    Statement(NoLabel, "Oct", Number(-1)), Statement(NoLabel, "Hex", NoOperand),
    Statement(NoLabel, "SkipCond", Number(1)),
    Statement(NoLabel, "SkipCond", Number(MemoryWords - 1)),
    Statement(C, "SkipCond", Name(A)) }

LabelNames == {A, B, C}

\* A is the hexadecimal digit of an address, C is none that fits.
HexNames == A :> 3 @@ C :> MemoryWords
DigitNames == {Digit}
SpacedNames == {Spaced}
LayoutSources == BoundedSeq(LayoutLines, MaxLines)
OperandSources == BoundedSeq(OperandLines, MaxOperandLines)
BothSources == LayoutSources \cup OperandSources

\* A line splits at spaces, a comma and a slash, and ORG is told by three
\* letters and three digits; a space may be longer than one byte.
PiecesOfLine ==
  { <<"space">>, <<"nbsp">>, <<"comma">>, <<"slash">>, <<"letter">>,
    <<"o", "r", "g">>, <<"hex">>, <<"hex", "hex", "hex">> }

\* 0x, 0o and 0b, b also a digit, 8 beyond octal; and what stands at the
\* limits of a word: -64 and -65 in two bases, 127 and 128.
PiecesOfLiteral ==
  { <<c>> : c \in {" ", "-", "+", "0", "1", "8", "b", "x", "o"} }
    \cup { <<"6", "4">>, <<"6", "5">>, <<"4", "0">>, <<"4", "1">>, <<"2", "7">>, <<"2", "8">> }

\* Files are assembled with nothing typed, and lines typed with no file.
Idle == [what |-> "Line", text |-> << >>, pieces |-> 0]
AssembleOrTypeInit ==
  /\ Init /\ TypingInit
  /\ source = << >> \/ typed = Idle
AssembleOrTypeNext ==
  \/ typed = Idle /\ Next /\ UNCHANGED typed
  \/ source = << >> /\ TypePiece /\ UNCHANGED vars
AssembleOrType == AssembleOrTypeInit /\ [][AssembleOrTypeNext]_<<vars, typed>>
=============================================================================
