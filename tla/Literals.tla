------------------------------- MODULE Literals -------------------------------
(***************************************************************************)
(* How a literal becomes a word (literal.rs): in the base of a directive,  *)
(* and with a prefix as it is typed.  A literal is a sequence of           *)
(* characters: digits, signs, spaces, the x and the o of a prefix.         *)
(***************************************************************************)
EXTENDS MarieWord, Sequences

Digits == << "0", "1", "2", "3", "4", "5", "6", "7",
             "8", "9", "a", "b", "c", "d", "e", "f" >>

BaseOf == [Binary |-> 2, Octal |-> 8, Decimal |-> 10, Hexadecimal |-> 16]
Radix == DOMAIN BaseOf

\* char::is_digit and to_digit.
IsDigit(c, base) == \E d \in 1 .. base : Digits[d] = c
DigitValue(c) == (CHOOSE d \in 1 .. 16 : Digits[d] = c) - 1

-----------------------------------------------------------------------------
(* The parser.                                                             *)

\* trim_start and trim.
TrimStart(text) ==
  IF \A i \in DOMAIN text : text[i] = " " THEN << >>
  ELSE LET first == CHOOSE i \in DOMAIN text :
                      text[i] # " " /\ \A k \in 1 .. i - 1 : text[k] = " "
       IN  SubSeq(text, first, Len(text))
TrimText(text) ==
  LET rest == TrimStart(text)
  IN  IF rest = << >> THEN << >>
      ELSE LET last == CHOOSE i \in DOMAIN rest :
                         rest[i] # " " /\ \A k \in i + 1 .. Len(rest) : rest[k] = " "
           IN  SubSeq(rest, 1, last)

BeginsWith(text, c) == text # << >> /\ Head(text) = c

\* split_sign and split_prefixed_sign: only the second takes a plus.
Negative(text) == BeginsWith(TrimText(text), "-")
Unsigned(text, signs) ==
  LET trimmed == TrimText(text)
  IN  IF trimmed # << >> /\ Head(trimmed) \in signs THEN TrimStart(Tail(trimmed))
      ELSE trimmed

Ok(word) == [error |-> "None", word |-> word]
Err(error) == [error |-> error]

\* u32::from_str_radix.
Magnitude(digits, base) ==
  LET upTo[k \in 0 .. Len(digits)] ==
        IF k = 0 THEN 0 ELSE upTo[k - 1] * base + DigitValue(digits[k])
  IN  upTo[Len(digits)]

\* A faulty limit that is the same on both sides of zero.
LimitSymmetric(negative) == WordCount - 1

Limit(negative) == IF negative THEN WordCount \div 2 ELSE WordCount - 1

\* finish.
Finish(negative, digits, radix) ==
  IF digits = << >> THEN Err("Empty")
  ELSE IF \E i \in DOMAIN digits : ~IsDigit(digits[i], BaseOf[radix])
  THEN Err("InvalidDigit")
  ELSE LET magnitude == Magnitude(digits, BaseOf[radix])
       IN  IF magnitude > Limit(negative) THEN Err("OutOfRange")
           ELSE Ok(IF negative THEN (-magnitude) % WordCount ELSE magnitude)

\* parse_word.
ParseWord(text, radix) ==
  IF Negative(text) /\ radix # "Decimal" THEN Err("UnexpectedSign")
  ELSE Finish(Negative(text), Unsigned(text, {"-"}), radix)

\* parse_prefixed_word.
PrefixRadix(body) ==
  IF Len(body) < 2 \/ Head(body) # "0" THEN "Decimal"
  ELSE CASE body[2] = "x" -> "Hexadecimal" [] body[2] = "o" -> "Octal"
         [] body[2] = "b" -> "Binary" [] OTHER -> "Decimal"
ParsePrefixedWord(text) ==
  LET body == Unsigned(text, {"-", "+"})
      radix == PrefixRadix(body)
  IN  Finish(Negative(text),
        IF radix = "Decimal" THEN body ELSE SubSeq(body, 3, Len(body)), radix)

-----------------------------------------------------------------------------
(* What a literal means: spaces, a sign, spaces, digits, spaces.           *)

IsSpaces(text) == \A i \in DOMAIN text : text[i] = " "
IsNumeral(text, base) == text # << >> /\ \A i \in DOMAIN text : IsDigit(text[i], base)

\* The value of a numeral, digit by digit from its last, each by its weight.
ValueOf(text, base) ==
  LET weight[i \in 1 .. Len(text) + 1] ==
        IF i > Len(text) THEN 1 ELSE weight[i + 1] * base
      place[i \in 1 .. Len(text) + 1] ==
        IF i > Len(text) THEN 0
        ELSE DigitValue(text[i]) * weight[i + 1] + place[i + 1]
  IN  place[1]

\* The readings of a text as a sign and a numeral after a prefix.
Readings(text, base, signs, prefix) ==
  { [negative |-> text[r[1]] = "-", value |-> ValueOf(SubSeq(text, r[2], r[3]), base)] :
      r \in { t \in (DOMAIN text) \X (DOMAIN text) \X (DOMAIN text) :
        /\ text[t[1]] \in signs /\ IsSpaces(SubSeq(text, 1, t[1] - 1))
        /\ t[1] + Len(prefix) < t[2]
        /\ SubSeq(text, t[2] - Len(prefix), t[2] - 1) = prefix
        /\ IsSpaces(SubSeq(text, t[1] + 1, t[2] - Len(prefix) - 1))
        /\ IsNumeral(SubSeq(text, t[2], t[3]), base)
        /\ IsSpaces(SubSeq(text, t[3] + 1, Len(text))) } }
  \cup
  { [negative |-> FALSE, value |-> ValueOf(SubSeq(text, r[1], r[2]), base)] :
      r \in { t \in (DOMAIN text) \X (DOMAIN text) :
        /\ Len(prefix) < t[1]
        /\ SubSeq(text, t[1] - Len(prefix), t[1] - 1) = prefix
        /\ IsSpaces(SubSeq(text, 1, t[1] - Len(prefix) - 1))
        /\ IsNumeral(SubSeq(text, t[1], t[2]), base)
        /\ IsSpaces(SubSeq(text, t[2] + 1, Len(text))) } }

InRange(reading) ==
  reading.value <= IF reading.negative THEN WordCount \div 2 ELSE WordCount - 1
WordOf(reading) ==
  (IF reading.negative THEN -reading.value ELSE reading.value) % WordCount

\* A result is right for the readings a text has: the word of one in range, or
\* the error that tells a text without a reading from one out of range.
RightFor(result, readings) ==
  IF readings = {} THEN result.error \notin {"None", "OutOfRange"}
  ELSE \E reading \in readings :
         IF InRange(reading) THEN result = Ok(WordOf(reading))
         ELSE result = Err("OutOfRange")
=============================================================================
