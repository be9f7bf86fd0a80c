--------------------------- MODULE MCLanguageServer ---------------------------
(***************************************************************************)
(* Small instances of LanguageServer and Encoding for TLC.                 *)
(***************************************************************************)
EXTENDS LanguageServer

CONSTANTS U, V

CONSTANT MaxProbe   \* bound: the length of the texts for the encodings alone

Files == {U, V}

\* A finding behind a character that each encoding measures differently, and
\* one on the second line.
FileTexts == { << "four", "two" >>, << Newline, "two" >> }

\* The characters of two bytes are the findings.
FindingsOf(text) ==
  { << ByteOf(text, i), ByteOf(text, i + 1) >> : i \in { k \in DOMAIN text : text[k] = "two" } }

EncodingOffers == { {}, {"Utf8", "Utf16"}, {"Utf16", "Utf32"} }
Probes == BoundedSeq({Newline, "letter", "two", "three", "four"}, MaxProbe)
=============================================================================
