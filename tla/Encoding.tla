------------------------------- MODULE Encoding -------------------------------
(***************************************************************************)
(* Places in a text.  The assembler counts bytes of UTF-8 (span.rs); a     *)
(* client of the language server counts lines, and columns in units of an  *)
(* encoding that is negotiated (encoding.rs).  A text is a sequence of     *)
(* characters, and a character is what the encodings tell apart about it.  *)
(***************************************************************************)
EXTENDS Integers, Sequences, SequencesExt, FiniteSets, FiniteSetsExt

PositionEncoding == {"Utf8", "Utf16", "Utf32"}

\* Characters by what is told apart about them: a letter of ORG in either
\* case, a hexadecimal digit, any other of one byte, and characters of two to
\* four bytes, of which the last takes a surrogate pair.
Newline == "newline"
Ascii == {Newline, "space", "comma", "slash", "o", "r", "g", "hex", "letter"}
Character == Ascii \cup {"two", "nbsp", "three", "four"}

Bytes(c) ==
  CASE c \in Ascii -> 1
    [] c \in {"two", "nbsp"} -> 2
    [] c = "three" -> 3
    [] c = "four" -> 4

Width(encoding, c) ==
  CASE encoding = "Utf8" -> Bytes(c)
    [] encoding = "Utf16" -> IF c = "four" THEN 2 ELSE 1
    [] encoding = "Utf32" -> 1

Measure(encoding, text) ==
  LET upTo[k \in 0 .. Len(text)] ==
        IF k = 0 THEN 0 ELSE upTo[k - 1] + Width(encoding, text[k])
  IN  upTo[Len(text)]

\* PositionEncoding::negotiate: an offer of none is as no offer.
Negotiate(offered) ==
  IF "Utf8" \in offered THEN "Utf8"
  ELSE IF "Utf32" \in offered THEN "Utf32"
  ELSE "Utf16"

-----------------------------------------------------------------------------
(* LineIndex.                                                              *)

\* The byte at which the i-th character begins; the last is where text ends.
ByteOf(text, i) == Measure("Utf8", SubSeq(text, 1, i - 1))
Length(text) == Measure("Utf8", text)

\* LineIndex::new.
LineStarts(text) ==
  {0} \cup { ByteOf(text, i + 1) : i \in { k \in DOMAIN text : text[k] = Newline } }
LineCount(text) == Cardinality(LineStarts(text))

\* line_start and line_end, of a line there is.
LineStart(text, line) ==
  CHOOSE b \in LineStarts(text) : Cardinality({ c \in LineStarts(text) : c < b }) = line
LineEnd(text, line) ==
  IF line + 1 < LineCount(text) THEN LineStart(text, line + 1) - 1 ELSE Length(text)

\* line_of, whose search finds the line or the one after it.
LineOf(text, offset) == Cardinality({ b \in LineStarts(text) : b <= offset }) - 1

\* str::get, empty where the code falls back on that.
Slice(text, from, to) ==
  IF /\ from <= to
     /\ {from, to} \subseteq { ByteOf(text, i) : i \in 1 .. Len(text) + 1 }
  THEN LET index(b) == CHOOSE i \in 1 .. Len(text) + 1 : ByteOf(text, i) = b
       IN  SubSeq(text, index(from), index(to) - 1)
  ELSE << >>

-----------------------------------------------------------------------------
(* Positions.                                                              *)

\* A faulty column that counts bytes.
PositionInBytes(text, offset, encoding) ==
  LET line == LineOf(text, offset)
  IN  [line |-> line, character |-> offset - LineStart(text, line)]

Position(text, offset, encoding) ==
  LET line == LineOf(text, offset)
  IN  [line |-> line,
       character |-> Measure(encoding, Slice(text, LineStart(text, line), offset))]

NoOffset == -1

\* A faulty search that stops at the character a column falls into.
OffsetRoundingDown(text, position, encoding) ==
  IF position.line >= LineCount(text) THEN NoOffset
  ELSE LET start == LineStart(text, position.line)
           line == Slice(text, start, LineEnd(text, position.line))
           reached == { i \in 1 .. Len(line) :
                          Measure(encoding, SubSeq(line, 1, i)) > position.character }
       IN  IF reached = {} THEN LineEnd(text, position.line)
           ELSE start + ByteOf(line, Min(reached))

\* Positions::offset: the first character at or past the column.
Offset(text, position, encoding) ==
  IF position.line >= LineCount(text) THEN NoOffset
  ELSE LET start == LineStart(text, position.line)
           line == Slice(text, start, LineEnd(text, position.line))
           reached == { i \in 1 .. Len(line) :
                          Measure(encoding, SubSeq(line, 1, i - 1)) >= position.character }
       IN  IF reached = {} THEN LineEnd(text, position.line)
           ELSE start + ByteOf(line, Min(reached))

\* offset_clamped and span_clamped.
OffsetClamped(text, position, encoding) ==
  LET offset == Offset(text, position, encoding)
  IN  IF offset # NoOffset THEN offset
      ELSE IF position.line >= LineCount(text) THEN Length(text) ELSE 0

SpanClamped(text, range, encoding) ==
  LET offsets == { OffsetClamped(text, range[k], encoding) : k \in DOMAIN range }
  IN  << Min(offsets), Max(offsets) >>

-----------------------------------------------------------------------------
(* Semantic tokens.                                                        *)

\* A faulty column, taken from the token before also on a new line.
DeltaCarried(start, before) ==
  [line |-> start.line - before.line, start |-> start.character - before.character]

\* The columns are relative on a line, and begin anew on the next.
Delta(start, before) ==
  [line |-> start.line - before.line,
   start |-> IF start.line = before.line THEN start.character - before.character
             ELSE start.character]

\* Positions::position of where a span begins, and Positions::length.
TokenStart(text, span, encoding) == Position(text, span[1], encoding)
TokenLength(text, span, encoding) ==
  Measure(encoding, Slice(text, span[1], span[2]))

\* semantic_tokens, of spans in the order of the text: an empty one is left
\* out, any other is told by its distance from the one before.
FirstPlace == [line |-> 0, character |-> 0]
SemanticTokens(text, spans, encoding) ==
  LET upTo[k \in 0 .. Len(spans)] ==
        IF k = 0 THEN [data |-> << >>, before |-> FirstPlace]
        ELSE IF TokenLength(text, spans[k], encoding) = 0 THEN upTo[k - 1]
        ELSE [data |-> Append(upTo[k - 1].data,
                [delta |-> Delta(TokenStart(text, spans[k], encoding), upTo[k - 1].before),
                 length |-> TokenLength(text, spans[k], encoding)]),
              before |-> TokenStart(text, spans[k], encoding)]
  IN  upTo[Len(spans)].data

-----------------------------------------------------------------------------
(* Where the i-th character is, as a client reckons.                       *)

LineOfCharacter(text, i) ==
  Cardinality({ k \in 1 .. i - 1 : text[k] = Newline })
LineBegin(text, i) == Max({0} \cup { k \in 1 .. i - 1 : text[k] = Newline }) + 1
ClientPosition(text, i, encoding) ==
  [line |-> LineOfCharacter(text, i),
   character |-> Measure(encoding, SubSeq(text, LineBegin(text, i), i - 1))]

\* Where a client puts each token: on the line of the one before, or so many
\* lines below it.
TokenPlaces(tokens) ==
  LET at[k \in 0 .. Len(tokens)] ==
        IF k = 0 THEN FirstPlace
        ELSE [line |-> at[k - 1].line + tokens[k].delta.line,
              character |-> tokens[k].delta.start
                + IF tokens[k].delta.line = 0 THEN at[k - 1].character ELSE 0]
  IN  at

\* A span of every character, empty where a line ends; how many of the first
\* i are not.
CharacterSpans(text) ==
  [k \in 1 .. Len(text) |->
     << ByteOf(text, k), ByteOf(text, IF text[k] = Newline THEN k ELSE k + 1) >>]
VisibleUpTo(text, i) == Cardinality({ k \in 1 .. i : text[k] # Newline })
=============================================================================
