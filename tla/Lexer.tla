-------------------------------- MODULE Lexer --------------------------------
(***************************************************************************)
(* How a line is split (lexer.rs): the search the code makes for the parts *)
(* of a statement, the tokens of it, and the regular expression it stands  *)
(* for.  A part is << from, to >>, from the character it begins with to    *)
(* the one after it; a token is in bytes.                                  *)
(***************************************************************************)
EXTENDS Encoding

Space == {"space", "nbsp"}
Hexadecimal == {"hex"}
NoPart == << >>

\* Cursor::at and skip_whitespace.
At(line, i) == IF i \in DOMAIN line THEN line[i] ELSE "end"
SkipWhitespace(line, i) ==
  Min({ k \in i .. Len(line) + 1 : At(line, k) \notin Space })

\* A word from i to e: characters that are neither space nor comma.
IsWord(line, i, e) ==
  i < e /\ \A k \in i .. e - 1 : line[k] \notin Space \cup {"comma"}

-----------------------------------------------------------------------------
(* The three forms.                                                        *)

MalformedLine == [form |-> "Malformed"]
BlankLine(comment) == [form |-> "Blank", comment |-> comment]
OriginLine(keyword, digits, comment) ==
  [form |-> "Origin", keyword |-> keyword, digits |-> digits, comment |-> comment]
StatementLine(label, mnemonic, operand, comment) ==
  [form |-> "Statement", label |-> label, mnemonic |-> mnemonic,
   operand |-> operand, comment |-> comment]

\* Cursor::tail: nothing is left but a comment.
TailMatches(line, i) == At(line, SkipWhitespace(line, i)) \in {"slash", "end"}
Tail_(line, i) ==
  LET k == SkipWhitespace(line, i)
  IN  IF At(line, k) = "slash" THEN << k, Len(line) + 1 >> ELSE NoPart

\* Cursor::origin: exactly three digits.
OriginKeyword(line) == SkipWhitespace(line, 1)
OriginDigits(line) == SkipWhitespace(line, OriginKeyword(line) + 3)
IsOrigin(line) ==
  LET s == OriginKeyword(line)
      d == OriginDigits(line)
  IN  /\ s + 2 <= Len(line) /\ SubSeq(line, s, s + 2) = << "o", "r", "g" >>
      /\ At(line, s + 3) \in Space
      /\ d + 2 <= Len(line) /\ \A k \in d .. d + 2 : line[k] \in Hexadecimal
      /\ TailMatches(line, d + 3)

\* Cursor::after_mnemonic: an operand, the shortest, before none.
OperandEnds(line, i) ==
  LET s == SkipWhitespace(line, i)
  IN  { e \in s .. Len(line) + 1 :
          At(line, i) \in Space /\ IsWord(line, s, e) /\ TailMatches(line, e) }
OperandAfter(line, i) ==
  IF OperandEnds(line, i) = {} THEN NoPart
  ELSE << SkipWhitespace(line, i), Min(OperandEnds(line, i)) >>

MnemonicEnds(line, s) ==
  { e \in s .. Len(line) + 1 :
      IsWord(line, s, e) /\ (OperandEnds(line, e) # {} \/ TailMatches(line, e)) }

\* A faulty search that takes the longest mnemonic.
BodyLongest(line, i, label) ==
  LET s == SkipWhitespace(line, i)
      e == Max(MnemonicEnds(line, s))
      operand == OperandAfter(line, e)
  IN  IF MnemonicEnds(line, s) = {} THEN MalformedLine
      ELSE StatementLine(label, << s, e >>, operand,
             Tail_(line, IF operand = NoPart THEN e ELSE operand[2]))

\* Cursor::body: the shortest mnemonic that leaves something acceptable.
Body(line, i, label) ==
  LET s == SkipWhitespace(line, i)
      e == Min(MnemonicEnds(line, s))
      operand == OperandAfter(line, e)
  IN  IF MnemonicEnds(line, s) = {} THEN MalformedLine
      ELSE StatementLine(label, << s, e >>, operand,
             Tail_(line, IF operand = NoPart THEN e ELSE operand[2]))

\* Cursor::with_label: up to the first comma or slash, which is a comma.
WithLabel(line, i) ==
  LET e == Min({ k \in i .. Len(line) + 1 : At(line, k) \in {"comma", "slash", "end"} })
  IN  IF At(line, e) = "comma" /\ e # i THEN Body(line, e + 1, << i, e >>)
      ELSE MalformedLine

FirstOf(forms) ==
  LET found == { k \in DOMAIN forms : forms[k] # MalformedLine }
  IN  IF found = {} THEN MalformedLine ELSE forms[Min(found)]

\* Cursor::statement: a label after all the leading space, none, and labels
\* that begin with some of it.
StatementOf(line) ==
  LET leading == SkipWhitespace(line, 1)
  IN  FirstOf(<< WithLabel(line, leading), Body(line, leading, NoPart) >>
                \o [k \in 1 .. leading - 1 |-> WithLabel(line, leading - k)])

\* split_line.
SplitLine(line) ==
  IF TailMatches(line, 1) THEN BlankLine(Tail_(line, 1))
  ELSE IF IsOrigin(line)
  THEN OriginLine(<< OriginKeyword(line), OriginKeyword(line) + 3 >>,
                  << OriginDigits(line), OriginDigits(line) + 3 >>,
                  Tail_(line, OriginDigits(line) + 3))
  ELSE StatementOf(line)

-----------------------------------------------------------------------------
(* Tokens.                                                                 *)

\* trim_end and trim_start, in characters.
Trimmed(line) ==
  LET texts == { i \in DOMAIN line : line[i] \notin Space }
  IN  IF texts = {} THEN NoPart ELSE << Min(texts), Max(texts) + 1 >>

Token(line, base, kind, part) ==
  IF part = NoPart THEN << >>
  ELSE << [kind |-> kind,
           span |-> << base + ByteOf(line, part[1]), base + ByteOf(line, part[2]) >>] >>

\* push_line_tokens, of a line whose first byte is at base.
TokensOf(form, line, base) ==
  LET token(kind, part) == Token(line, base, kind, part)
  IN  CASE form.form = "Blank" -> token("Comment", form.comment)
        [] form.form = "Origin" ->
             token("OriginKeyword", form.keyword) \o token("Operand", form.digits)
               \o token("Comment", form.comment)
        [] form.form = "Statement" ->
             token("Label", form.label)
               \o token("Comma", IF form.label = NoPart THEN NoPart
                                 ELSE << form.label[2], form.label[2] + 1 >>)
               \o token("Mnemonic", form.mnemonic) \o token("Operand", form.operand)
               \o token("Comment", form.comment)
        [] OTHER -> token("Unknown", Trimmed(line))

LineTokens(line, base) == TokensOf(SplitLine(line), line, base)

\* source.split('\n').
LineCuts(text) == {0, Len(text) + 1} \cup { i \in DOMAIN text : text[i] = Newline }
LineAfter(text, cut) ==
  SubSeq(text, cut + 1, Min({ i \in LineCuts(text) : i > cut }) - 1)

\* A faulty base that leaves the newlines out.
LineBaseJoined(text, cut) ==
  ByteOf(text, cut + 1) - Cardinality({ i \in 1 .. cut : text[i] = Newline })

LineBase(text, cut) == ByteOf(text, cut + 1)

\* tokenize.
Tokenize(text) ==
  LET upTo[i \in 0 .. Len(text) + 1] ==
        (IF i = 0 THEN << >> ELSE upTo[i - 1])
          \o (IF i \in LineCuts(text) \ {Len(text) + 1}
              THEN LineTokens(LineAfter(text, i), LineBase(text, i)) ELSE << >>)
  IN  upTo[Len(text) + 1]

-----------------------------------------------------------------------------
(* The regular expression of a statement, as lexer.rs quotes it.           *)

\*   ^\s*(?:(?<label>[^,/]+),)?\s*(?<operator>[^\s,]+?)
\*     (?:\s+(?<operand>[^\s,]+?))?\s*(?:/.*)?$
\* A match is << where \s* ends, label or NoPart, operator, operand or NoPart >>;
\* of several, what is greedy is longest, what is lazy is shortest, a part that
\* may be left out is there, and earlier parts decide first.

Spaces(line, i) == { e \in i .. Len(line) + 1 : \A k \in i .. e - 1 : line[k] \in Space }
Words(line, i) == { e \in i .. Len(line) + 1 : IsWord(line, i, e) }
LabelEnds(line, i) ==
  { e \in i + 1 .. Len(line) :
      line[e] = "comma" /\ \A k \in i .. e - 1 : line[k] \notin {"comma", "slash"} }

Operands(line, m) ==
  { operand \in {NoPart} \cup { p \in (m + 1 .. Len(line)) \X (m + 2 .. Len(line) + 1) :
                                  p[1] \in Spaces(line, m) /\ p[2] \in Words(line, p[1]) } :
      TailMatches(line, IF operand = NoPart THEN m ELSE operand[2]) }

Matches(line) ==
  UNION { UNION { UNION { UNION {
    { << w, label, << s, m >>, operand >> : operand \in Operands(line, m) } :
      m \in Words(line, s) } :
      s \in Spaces(line, IF label = NoPart THEN w ELSE label[2] + 1) } :
      label \in {NoPart} \cup { << w, e >> : e \in LabelEnds(line, w) } } :
      w \in Spaces(line, 1) }

\* The first part in which two matches differ decides.
PreferredPart(greedy, p, q) ==
  \/ q = NoPart
  \/ p # NoPart /\ p[1] > q[1]
  \/ p # NoPart /\ p[1] = q[1] /\ (IF greedy THEN p[2] > q[2] ELSE p[2] < q[2])
Preferred(p, q) ==
  \/ p[1] > q[1]
  \/ p[1] = q[1] /\ p[2] # q[2] /\ PreferredPart(TRUE, p[2], q[2])
  \/ p[1] = q[1] /\ p[2] = q[2] /\ p[3] # q[3] /\ PreferredPart(FALSE, p[3], q[3])
  \/ /\ p[1] = q[1] /\ p[2] = q[2] /\ p[3] = q[3]
     /\ p[4] # q[4] /\ PreferredPart(FALSE, p[4], q[4])

FirstMatch(line) ==
  CHOOSE p \in Matches(line) : \A q \in Matches(line) \ {p} : Preferred(p, q)
=============================================================================
