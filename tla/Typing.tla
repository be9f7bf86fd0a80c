-------------------------------- MODULE Typing --------------------------------
(***************************************************************************)
(* A line of source, or a literal, as it comes to be, piece by piece: what *)
(* the lexer and the literal parser make of everything one can type.       *)
(***************************************************************************)
EXTENDS Lexer, Literals

CONSTANTS
  LinePieces,      \* what a line is put together of
  LiteralPieces,   \* and a literal
  MaxPieces        \* bound: the pieces of either

\* A line holds no newline.
ASSUME PiecesAssumption ==
  /\ LinePieces \subseteq Seq(Character \ {Newline})
  /\ LiteralPieces \subseteq Seq(STRING)

VARIABLE typed

TypingInit == \E what \in {"Line", "Literal"} :
  typed = [what |-> what, text |-> << >>, pieces |-> 0]

TypePiece ==
  /\ typed.pieces < MaxPieces
  /\ \E piece \in (IF typed.what = "Line" THEN LinePieces ELSE LiteralPieces) :
       typed' = [typed EXCEPT !.text = @ \o piece, !.pieces = @ + 1]

TypingSpec == TypingInit /\ [][TypePiece]_typed

-----------------------------------------------------------------------------
(* Properties.                                                             *)

IsLine == typed.what = "Line"
IsLiteral == typed.what = "Literal"

\* A line that is neither blank nor an ORG is split where the regular
\* expression would split it, and rejected where it would not match: the
\* search of the code is the search of the expression.
SplitsAsSpecified ==
  IsLine =>
    LET line == typed.text
        form == SplitLine(line)
    IN  form.form \in {"Statement", "Malformed"} =>
          IF Matches(line) = {} THEN form.form = "Malformed"
          ELSE /\ form.form = "Statement"
               /\ FirstMatch(line)[2] = form.label
               /\ FirstMatch(line)[3] = form.mnemonic
               /\ FirstMatch(line)[4] = form.operand

\* The tokens of a line follow one another, end at characters, and leave out
\* nothing but space; two lines have the tokens of both.
Covers(tokens, line) ==
  LET begins(k) == CHOOSE i \in 1 .. Len(line) + 1 : ByteOf(line, i) = tokens[k].span[1]
      ends(k) == CHOOSE i \in 1 .. Len(line) + 1 : ByteOf(line, i) = tokens[k].span[2]
  IN  /\ \A k \in DOMAIN tokens : \A b \in {1, 2} :
           tokens[k].span[b] \in { ByteOf(line, i) : i \in 1 .. Len(line) + 1 }
      /\ \A k \in DOMAIN tokens : begins(k) < ends(k)
      /\ \A k, l \in DOMAIN tokens : k < l => ends(k) <= begins(l)
      /\ \A i \in DOMAIN line :
           line[i] \notin Space => \E k \in DOMAIN tokens : i \in begins(k) .. ends(k) - 1

TokensCoverLine ==
  IsLine =>
    LET line == typed.text
        behind == ByteOf(line, Len(line) + 1) + 1
    IN  /\ Covers(LineTokens(line, 0), line)
        /\ Tokenize(line \o <<Newline>> \o line)
             = LineTokens(line, 0) \o LineTokens(line, behind)

\* A literal is read as what it means, with any space and sign its reader
\* takes, at both ends of the range of a word; and nothing else is read.
LiteralsReadRight ==
  IsLiteral =>
    /\ \A radix \in Radix \ {"Decimal"} :
         RightFor(ParseWord(typed.text, radix),
                  Readings(typed.text, BaseOf[radix], {}, << >>))
    /\ RightFor(ParseWord(typed.text, "Decimal"),
                Readings(typed.text, 10, {"-"}, << >>))
    /\ RightFor(ParsePrefixedWord(typed.text),
                Readings(typed.text, 10, {"-", "+"}, << >>)
                  \cup Readings(typed.text, 16, {"-", "+"}, << "0", "x" >>)
                  \cup Readings(typed.text, 8, {"-", "+"}, << "0", "o" >>)
                  \cup Readings(typed.text, 2, {"-", "+"}, << "0", "b" >>))
=============================================================================
