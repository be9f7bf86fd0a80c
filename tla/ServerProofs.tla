----------------------------- MODULE ServerProofs -----------------------------
(***************************************************************************)
(* Proofs about the language server and the lexer.                         *)
(*                                                                         *)
(* Of the server, for every set of files, every text,                      *)
(* whatever the analysis finds in it, and any number of messages: that the *)
(* answers and the squiggles an editor gets are about what it has, and     *)
(* that a place in a text is the same place on both sides.                 *)
(*                                                                         *)
(* First the texts: bytes, lines and columns as the server and as a client *)
(* reckon them.  Then the two queues: what is still under way in them will *)
(* make of either side's documents, squiggles and numbers of requests what *)
(* the other side has.                                                     *)
(*                                                                         *)
(* Of the lexer, for every line: its search is the search of the regular   *)
(* expression it stands for, and its tokens cover the line.  Of literals,  *)
(* for every text: the parsers take it for what it means.                  *)
(***************************************************************************)
EXTENDS LanguageServer, Typing, Induction, FiniteSetTheorems, SequenceTheorems

-----------------------------------------------------------------------------
(* Texts.                                                                  *)

\* Every character has a width, of one to four units.
LEMMA WidthType ==
  ASSUME NEW e \in PositionEncoding, NEW c \in Character
  PROVE  Width(e, c) \in 1 .. 4
<1>1. Bytes(c) \in 1 .. 4
  BY DEF Bytes, Character, Ascii
<1> QED
  BY <1>1 DEF Width, PositionEncoding

\* What the characters of a text measure, added up to each of them.
Tallies(e, s, f) ==
  /\ f \in [0 .. Len(s) -> Nat]
  /\ f[0] = 0
  /\ \A k \in 1 .. Len(s) : f[k] = f[k - 1] + Width(e, s[k])

\* The measure of a text is a sum.
LEMMA MeasureIs ==
  ASSUME NEW e \in PositionEncoding, NEW s \in Seq(Character)
  PROVE  \E f : Tallies(e, s, f) /\ Measure(e, s) = f[Len(s)]
<1> DEFINE W == [k \in 1 .. Len(s) |-> Width(e, s[k])]
           step == [n \in Nat |-> [v \in Nat |->
                      v + (IF n + 1 \in 1 .. Len(s) THEN W[n + 1] ELSE 0)]]
           Unrolled(g) == [k \in 0 .. Len(s) |->
                         IF k = 0 THEN 0 ELSE g[k - 1] + Width(e, s[k])]
           upTo == CHOOSE g : g = Unrolled(g)
<1>0. Len(s) \in Nat /\ \A k \in 1 .. Len(s) : s[k] \in Character
  OBVIOUS
<1>1. \A k \in 1 .. Len(s) : W[k] = Width(e, s[k]) /\ W[k] \in Nat
  BY <1>0, WidthType
<1> HIDE DEF W
<1>2. step \in Steps(Nat)
  BY <1>1 DEF Steps
<1>3. PICK h \in [Nat -> Nat] : Recurs(h, 0, step)
  BY <1>2, RecursionExists, 0 \in Nat
<1> DEFINE f == [k \in 0 .. Len(s) |-> h[k]]
<1>4. f \in [0 .. Len(s) -> Nat] /\ \A k \in 0 .. Len(s) : f[k] = h[k]
  BY <1>0, <1>3
<1>5. f[0] = 0
  BY <1>0, <1>3, <1>4 DEF Recurs
<1>6. ASSUME NEW k \in 1 .. Len(s)
      PROVE  f[k] = f[k - 1] + Width(e, s[k])
  <2>1. k - 1 \in Nat /\ k - 1 \in 0 .. Len(s) /\ k \in 0 .. Len(s) /\ (k - 1) + 1 = k
    BY <1>0
  <2>2. h[k] = step[k - 1][h[k - 1]]
    BY <1>3, <2>1 DEF Recurs
  <2>3. step[k - 1][h[k - 1]] = h[k - 1] + W[k]
    BY <1>1, <1>3, <2>1
  <2> QED
    BY <1>1, <1>4, <2>1, <2>2, <2>3
<1> HIDE DEF f, step
<1>7. f = Unrolled(f)
  <2>1. ASSUME NEW k \in 0 .. Len(s)
        PROVE  f[k] = IF k = 0 THEN 0 ELSE f[k - 1] + Width(e, s[k])
    <3>1. CASE k = 0
      BY <1>5, <3>1
    <3>2. CASE k # 0
      <4>1. k \in 1 .. Len(s)
        BY <1>0, <3>2
      <4> QED
        BY <1>6, <3>2, <4>1
    <3> QED
      BY <3>1, <3>2
  <2> QED
    BY <1>4, <2>1
<1>8. upTo = Unrolled(upTo)
  BY <1>7
<1>9. Measure(e, s) = upTo[Len(s)]
  BY DEF Measure
<1> HIDE DEF upTo
<1>10. \A k \in 0 .. Len(s) : upTo[k] = IF k = 0 THEN 0 ELSE upTo[k - 1] + Width(e, s[k])
  BY <1>8
<1> HIDE DEF Unrolled
<1>11. \A n \in Nat : n <= Len(s) => upTo[n] = f[n]
  <2> DEFINE P == { n \in Nat : n <= Len(s) => upTo[n] = f[n] }
  <2>1. 0 \in P
    BY <1>0, <1>5, <1>10
  <2>2. ASSUME NEW n \in Nat, n \in P
        PROVE  n + 1 \in P
    <3>1. ASSUME n + 1 <= Len(s)
          PROVE  upTo[n + 1] = f[n + 1]
      <4>1. /\ n + 1 \in 1 .. Len(s) /\ n + 1 \in 0 .. Len(s) /\ (n + 1) - 1 = n
            /\ n + 1 # 0 /\ n <= Len(s)
        BY <1>0, <3>1
      <4>2. f[n + 1] = f[n] + Width(e, s[n + 1])
        BY <1>6, <4>1
      <4>3. upTo[n + 1] = upTo[n] + Width(e, s[n + 1])
        BY <1>10, <4>1
      <4> QED
        BY <2>2, <4>1, <4>2, <4>3
    <3>2. n + 1 \in Nat
      OBVIOUS
    <3> QED
      BY <3>1, <3>2, Zenon
  <2> HIDE DEF P
  <2>3. \A n \in Nat : n \in P
    BY <2>1, <2>2, SetInduction
  <2> QED
    BY <2>3 DEF P
<1>12. Measure(e, s) = f[Len(s)]
  BY <1>0, <1>9, <1>11
<1> QED
  BY <1>4, <1>5, <1>6, <1>12 DEF Tallies

\* A part of a text measures what is added up in it.
LEMMA MeasureOfPart ==
  ASSUME NEW e \in PositionEncoding, NEW s \in Seq(Character), NEW f,
         Tallies(e, s, f), NEW a \in 1 .. Len(s) + 1, NEW b \in a - 1 .. Len(s)
  PROVE  Measure(e, SubSeq(s, a, b)) = f[b] - f[a - 1]
<1> DEFINE p == SubSeq(s, a, b)
           n == b - a + 1
<1>0. Len(s) \in Nat /\ a \in Nat /\ b \in Nat /\ n \in Nat /\ a + n = b + 1
  OBVIOUS
<1>1. p \in Seq(Character) /\ Len(p) = n /\ \A i \in 1 .. n : p[i] = s[a + i - 1]
  <2>1. \A i \in a .. b : s[i] \in Character
    BY <1>0
  <2>2. a <= b + 1
    BY <1>0
  <2> QED
    BY <1>0, <2>1, <2>2, SubSeqProperties
<1> HIDE DEF p
<1>2. PICK g : Tallies(e, p, g) /\ Measure(e, p) = g[n]
  BY <1>1, MeasureIs
<1>3. \A i \in Nat : i <= n => g[i] = f[a - 1 + i] - f[a - 1]
  <2> DEFINE P == { i \in Nat : i <= n => g[i] = f[a - 1 + i] - f[a - 1] }
  <2>1. 0 \in P
    <3>1. a - 1 \in 0 .. Len(s) /\ a - 1 + 0 = a - 1
      BY <1>0
    <3>2. f[a - 1] \in Nat /\ g[0] = 0
      BY <1>2, <3>1 DEF Tallies
    <3>3. g[0] = f[a - 1] - f[a - 1]
      BY <3>2
    <3> QED
      BY <3>1, <3>3
  <2>2. ASSUME NEW i \in Nat, i \in P
        PROVE  i + 1 \in P
    <3> SUFFICES ASSUME i + 1 <= n
                 PROVE  g[i + 1] = f[a - 1 + (i + 1)] - f[a - 1]
      OBVIOUS
    <3> DEFINE m == a - 1 + (i + 1)
    <3>1. /\ i + 1 \in 1 .. n /\ (i + 1) - 1 = i /\ i \in 0 .. n /\ i <= n
          /\ m \in 1 .. Len(s) /\ m - 1 = a - 1 + i /\ m - 1 \in 0 .. Len(s)
          /\ a + (i + 1) - 1 = m /\ a - 1 \in 0 .. Len(s)
      BY <1>0
    <3>2. g[i + 1] = g[i] + Width(e, p[i + 1])
      BY <1>1, <1>2, <3>1 DEF Tallies
    <3>3. p[i + 1] = s[m]
      BY <1>1, <3>1
    <3>4. f[m] = f[m - 1] + Width(e, s[m])
      BY <3>1 DEF Tallies
    <3>5. f[m - 1] \in Nat /\ f[a - 1] \in Nat /\ Width(e, s[m]) \in Nat
      <4>1. s[m] \in Character
        BY <3>1
      <4>2. Width(e, s[m]) \in 1 .. 4
        BY <4>1, WidthType
      <4>3. f[m - 1] \in Nat /\ f[a - 1] \in Nat
        BY <3>1 DEF Tallies
      <4> QED
        BY <4>2, <4>3
    <3>6. g[i] = f[m - 1] - f[a - 1]
      BY <2>2, <3>1
    <3> HIDE DEF m
    <3>7. g[i + 1] = f[m] - f[a - 1]
      BY <3>2, <3>3, <3>4, <3>5, <3>6
    <3> QED
      BY <3>7 DEF m
  <2> HIDE DEF P
  <2>3. \A i \in Nat : i \in P
    BY <2>1, <2>2, SetInduction
  <2> QED
    BY <2>3 DEF P
<1>4. a - 1 + n = b /\ n <= n
  BY <1>0
<1> QED
  BY <1>0, <1>2, <1>3, <1>4 DEF p

\* Later places are further on.
LEMMA TalliesGrow ==
  ASSUME NEW e \in PositionEncoding, NEW s \in Seq(Character), NEW f,
         Tallies(e, s, f), NEW i \in 0 .. Len(s), NEW j \in 0 .. Len(s)
  PROVE  /\ i < j <=> f[i] < f[j]
         /\ i = j <=> f[i] = f[j]
         /\ i <= j => f[j] >= f[i] + (j - i)
<1>0. Len(s) \in Nat /\ \A k \in 0 .. Len(s) : f[k] \in Nat
  <2>1. Len(s) \in Nat
    OBVIOUS
  <2> QED
    BY <2>1 DEF Tallies
<1>1. ASSUME NEW m \in 0 .. Len(s)
      PROVE  \A n \in Nat : m + n <= Len(s) => f[m + n] >= f[m] + n
  <2> DEFINE P == { n \in Nat : m + n <= Len(s) => f[m + n] >= f[m] + n }
  <2>1. 0 \in P
    BY <1>0
  <2>2. ASSUME NEW n \in Nat, n \in P
        PROVE  n + 1 \in P
    <3> SUFFICES ASSUME m + (n + 1) <= Len(s)
                 PROVE  f[m + (n + 1)] >= f[m] + (n + 1)
      OBVIOUS
    <3> DEFINE k == m + (n + 1)
    <3>1. k \in 1 .. Len(s) /\ k - 1 = m + n /\ k - 1 \in 0 .. Len(s) /\ m + n <= Len(s)
      BY <1>0
    <3>2. s[k] \in Character
      BY <3>1
    <3>3. f[k] = f[k - 1] + Width(e, s[k]) /\ Width(e, s[k]) \in Nat /\ Width(e, s[k]) >= 1
      <4>1. Width(e, s[k]) \in 1 .. 4
        BY <3>2, WidthType
      <4>2. f[k] = f[k - 1] + Width(e, s[k])
        BY <3>1 DEF Tallies
      <4> QED
        BY <4>1, <4>2
    <3>4. f[k - 1] >= f[m] + n
      BY <2>2, <3>1
    <3>5. f[k - 1] \in Nat /\ f[m] \in Nat
      BY <1>0, <3>1
    <3> HIDE DEF k
    <3>6. f[k] >= f[m] + (n + 1)
      BY <3>3, <3>4, <3>5
    <3> QED
      BY <3>6 DEF k
  <2> HIDE DEF P
  <2>3. \A n \in Nat : n \in P
    BY <2>1, <2>2, SetInduction
  <2> QED
    BY <2>3 DEF P
<1>2. ASSUME NEW m \in 0 .. Len(s), NEW n \in 0 .. Len(s), m <= n
      PROVE  f[n] >= f[m] + (n - m)
  <2>1. n - m \in Nat /\ m + (n - m) = n
    BY <1>0, <1>2
  <2>2. m + (n - m) <= Len(s) => f[m + (n - m)] >= f[m] + (n - m)
    BY <1>1, <2>1
  <2> QED
    BY <1>0, <2>1, <2>2
<1>3. i <= j => f[j] >= f[i] + (j - i)
  BY <1>2
<1>4. j <= i => f[i] >= f[j] + (i - j)
  BY <1>2
<1>5. f[i] \in Nat /\ f[j] \in Nat /\ i \in Nat /\ j \in Nat
  BY <1>0
<1> QED
  BY <1>3, <1>4, <1>5

\* What a text measures up to each of its characters.
Tally(e, s) == [k \in 0 .. Len(s) |-> Measure(e, SubSeq(s, 1, k))]

LEMMA TallyFacts ==
  ASSUME NEW e \in PositionEncoding, NEW s \in Seq(Character)
  PROVE  /\ Tallies(e, s, Tally(e, s))
         /\ Measure(e, s) = Tally(e, s)[Len(s)]
         /\ \A a \in 1 .. Len(s) + 1 : \A b \in a - 1 .. Len(s) :
              Measure(e, SubSeq(s, a, b)) = Tally(e, s)[b] - Tally(e, s)[a - 1]
<1>1. PICK f : Tallies(e, s, f) /\ Measure(e, s) = f[Len(s)]
  BY MeasureIs
<1>2. \A a \in 1 .. Len(s) + 1 : \A b \in a - 1 .. Len(s) :
        Measure(e, SubSeq(s, a, b)) = f[b] - f[a - 1]
  BY <1>1, MeasureOfPart
<1>3. Tally(e, s) = f
  <2>0. Len(s) \in Nat
    OBVIOUS
  <2>1. f \in [0 .. Len(s) -> Nat] /\ f[0] = 0
    BY <1>1 DEF Tallies
  <2>2. ASSUME NEW k \in 0 .. Len(s)
        PROVE  Measure(e, SubSeq(s, 1, k)) = f[k]
    <3>1. 1 \in 1 .. Len(s) + 1 /\ k \in 1 - 1 .. Len(s) /\ 1 - 1 = 0
      BY <2>0
    <3>2. Measure(e, SubSeq(s, 1, k)) = f[k] - f[1 - 1]
      BY <1>2, <3>1
    <3>3. f[k] \in Nat
      BY <2>1
    <3> QED
      BY <2>1, <3>1, <3>2, <3>3
  <2> QED
    BY <2>1, <2>2 DEF Tally
<1> QED
  BY <1>1, <1>2, <1>3

\* The bytes at which characters begin.
LEMMA ByteOfIs ==
  ASSUME NEW text \in Seq(Character), NEW i \in 1 .. Len(text) + 1
  PROVE  /\ ByteOf(text, i) = Tally("Utf8", text)[i - 1]
         /\ ByteOf(text, i) \in Nat
<1>1. i - 1 \in 0 .. Len(text)
  OBVIOUS
<1>2. Tallies("Utf8", text, Tally("Utf8", text))
  BY TallyFacts DEF PositionEncoding
<1>3. Tally("Utf8", text)[i - 1] = ByteOf(text, i)
  BY <1>1 DEF Tally, ByteOf
<1>4. Tally("Utf8", text)[i - 1] \in Nat
  BY <1>1, <1>2 DEF Tallies
<1> QED
  BY <1>3, <1>4

LEMMA ByteOfOrder ==
  ASSUME NEW text \in Seq(Character),
         NEW i \in 1 .. Len(text) + 1, NEW j \in 1 .. Len(text) + 1
  PROVE  /\ i < j <=> ByteOf(text, i) < ByteOf(text, j)
         /\ i = j <=> ByteOf(text, i) = ByteOf(text, j)
         /\ i <= j <=> ByteOf(text, i) <= ByteOf(text, j)
<1> DEFINE m == i - 1
           n == j - 1
           f == Tally("Utf8", text)
<1>1. m \in 0 .. Len(text) /\ n \in 0 .. Len(text)
  OBVIOUS
<1>2. Tallies("Utf8", text, f)
  BY TallyFacts DEF PositionEncoding
<1>3. ByteOf(text, i) = f[m] /\ ByteOf(text, j) = f[n]
  BY ByteOfIs
<1>4. ByteOf(text, i) \in Nat /\ ByteOf(text, j) \in Nat
  BY ByteOfIs
<1>5. (i < j <=> m < n) /\ (i = j <=> m = n)
  OBVIOUS
<1> HIDE DEF m, n, f
<1>6. (m < n <=> f[m] < f[n]) /\ (m = n <=> f[m] = f[n])
  BY <1>1, <1>2, TalliesGrow DEF PositionEncoding
<1> QED
  BY <1>3, <1>4, <1>5, <1>6

LEMMA ByteOfEnds ==
  ASSUME NEW text \in Seq(Character)
  PROVE  /\ ByteOf(text, 1) = 0
         /\ ByteOf(text, Len(text) + 1) = Length(text)
         /\ \A i \in 1 .. Len(text) :
              text[i] = Newline => ByteOf(text, i + 1) = ByteOf(text, i) + 1
<1>0. Len(text) \in Nat /\ "Utf8" \in PositionEncoding
  BY DEF PositionEncoding
<1>1. Tallies("Utf8", text, Tally("Utf8", text))
  BY <1>0, TallyFacts
<1>2. Measure("Utf8", text) = Tally("Utf8", text)[Len(text)]
  BY <1>0, TallyFacts
<1>3. ByteOf(text, 1) = 0
  <2>1. 1 \in 1 .. Len(text) + 1 /\ 1 - 1 = 0
    BY <1>0
  <2>2. ByteOf(text, 1) = Tally("Utf8", text)[1 - 1]
    BY <2>1, ByteOfIs
  <2> QED
    BY <1>1, <2>1, <2>2 DEF Tallies
<1>4. ByteOf(text, Len(text) + 1) = Length(text)
  <2>1. Len(text) + 1 \in 1 .. Len(text) + 1 /\ (Len(text) + 1) - 1 = Len(text)
    BY <1>0
  <2>2. ByteOf(text, Len(text) + 1) = Tally("Utf8", text)[(Len(text) + 1) - 1]
    BY <2>1, ByteOfIs
  <2> QED
    BY <1>2, <2>1, <2>2 DEF Length
<1>5. ASSUME NEW i \in 1 .. Len(text), text[i] = Newline
      PROVE  ByteOf(text, i + 1) = ByteOf(text, i) + 1
  <2>1. i \in 1 .. Len(text) + 1 /\ i + 1 \in 1 .. Len(text) + 1 /\ (i + 1) - 1 = i
    BY <1>0
  <2>2. Width("Utf8", Newline) = 1
    BY DEF Width, Bytes, Ascii, Newline
  <2>3. /\ ByteOf(text, i + 1) = Tally("Utf8", text)[(i + 1) - 1]
        /\ ByteOf(text, i) = Tally("Utf8", text)[i - 1]
    BY <2>1, ByteOfIs
  <2>4. Tally("Utf8", text)[i] = Tally("Utf8", text)[i - 1] + Width("Utf8", text[i])
    BY <1>1 DEF Tallies
  <2> QED
    BY <1>5, <2>1, <2>2, <2>3, <2>4
<1> QED
  BY <1>3, <1>4, <1>5

-----------------------------------------------------------------------------
(* Lines.                                                                  *)

\* The newlines before the i-th character.
Newlines(text, i) == { k \in 1 .. i - 1 : text[k] = Newline }

LEMMA NewlinesFinite ==
  ASSUME NEW text \in Seq(Character), NEW i \in 1 .. Len(text) + 1
  PROVE  /\ IsFiniteSet(Newlines(text, i))
         /\ Newlines(text, i) \in SUBSET (1 .. Len(text))
         /\ LineOfCharacter(text, i) = Cardinality(Newlines(text, i))
         /\ LineOfCharacter(text, i) \in Nat
<1>1. 1 \in Int /\ i - 1 \in Int
  OBVIOUS
<1>2. IsFiniteSet(1 .. i - 1)
  BY <1>1, FS_Interval
<1>3. Newlines(text, i) \in SUBSET (1 .. i - 1)
  BY DEF Newlines
<1>4. IsFiniteSet(Newlines(text, i))
  BY <1>2, <1>3, FS_Subset
<1>5. Newlines(text, i) \in SUBSET (1 .. Len(text))
  BY <1>3
<1>6. LineOfCharacter(text, i) = Cardinality(Newlines(text, i))
  BY DEF LineOfCharacter, Newlines
<1> QED
  BY <1>4, <1>5, <1>6, FS_CardinalityType

\* Where lines begin: with the text, and behind each newline.
Starts(text) == {1} \cup { k + 1 : k \in { k \in DOMAIN text : text[k] = Newline } }

LEMMA StartsAre ==
  ASSUME NEW text \in Seq(Character)
  PROVE  /\ \A l : l \in Starts(text) <=>
                   /\ l \in 1 .. Len(text) + 1
                   /\ l = 1 \/ text[l - 1] = Newline
         /\ LineStarts(text) = { ByteOf(text, l) : l \in Starts(text) }
<1>0. Len(text) \in Nat /\ DOMAIN text = 1 .. Len(text)
  OBVIOUS
<1>1. ASSUME NEW l \in Starts(text)
      PROVE  l \in 1 .. Len(text) + 1 /\ (l = 1 \/ text[l - 1] = Newline)
  <2>1. CASE l = 1
    BY <1>0, <2>1
  <2>2. CASE l # 1
    <3>1. PICK k \in DOMAIN text : text[k] = Newline /\ l = k + 1
      BY <2>2 DEF Starts
    <3>2. l - 1 = k /\ l \in 1 .. Len(text) + 1
      BY <1>0, <3>1
    <3> QED
      BY <3>1, <3>2
  <2> QED
    BY <2>1, <2>2
<1>2. ASSUME NEW l \in 1 .. Len(text) + 1, l = 1 \/ text[l - 1] = Newline
      PROVE  l \in Starts(text)
  <2>1. CASE l = 1
    BY <2>1 DEF Starts
  <2>2. CASE l # 1
    <3>1. l - 1 \in DOMAIN text /\ l = (l - 1) + 1
      BY <1>0, <2>2
    <3> QED
      BY <1>2, <2>2, <3>1 DEF Starts
  <2> QED
    BY <2>1, <2>2
<1>3. LineStarts(text) = { ByteOf(text, l) : l \in Starts(text) }
  <2>1. 0 = ByteOf(text, 1)
    BY ByteOfEnds
  <2> DEFINE N == { k \in DOMAIN text : text[k] = Newline }
  <2>2. LineStarts(text) = {0} \cup { ByteOf(text, k + 1) : k \in N }
    BY DEF LineStarts
  <2>3. Starts(text) = {1} \cup { k + 1 : k \in N }
    BY DEF Starts
  <2> HIDE DEF N
  <2> QED
    BY <2>1, <2>2, <2>3
<1> QED
  BY <1>1, <1>2, <1>3

\* The lines that begin up to a character are those of the newlines before it.
LEMMA StartsCounted ==
  ASSUME NEW text \in Seq(Character), NEW i \in 1 .. Len(text) + 1
  PROVE  LET before == { b \in LineStarts(text) : b <= ByteOf(text, i) }
         IN  /\ IsFiniteSet(before)
             /\ Cardinality(before) = LineOfCharacter(text, i) + 1
<1> DEFINE N == Newlines(text, i)
           T == { ByteOf(text, k + 1) : k \in N }
           g == [k \in N |-> ByteOf(text, k + 1)]
           before == { b \in LineStarts(text) : b <= ByteOf(text, i) }
<1>0. Len(text) \in Nat
  OBVIOUS
<1>1. \A k \in N : k \in 1 .. Len(text) /\ k + 1 \in 1 .. Len(text) + 1 /\ k + 1 <= i /\ 1 < k + 1
  BY DEF Newlines
<1>2. g \in Bijection(N, T)
  <2>1. g \in [N -> T] /\ \A t \in T : \E k \in N : g[k] = t
    OBVIOUS
  <2>2. ASSUME NEW k \in N, NEW m \in N, g[k] = g[m]
        PROVE  k = m
    <3>1. ByteOf(text, k + 1) = ByteOf(text, m + 1)
      BY <2>2
    <3>2. k + 1 = m + 1
      BY <1>1, <3>1, ByteOfOrder
    <3> QED
      BY <1>1, <3>2
  <2> HIDE DEF g, T, N
  <2> QED
    BY <2>1, <2>2 DEF Bijection, Injection, Surjection, IsInjective
<1>3. IsFiniteSet(T) /\ Cardinality(T) = Cardinality(N)
  BY <1>2, NewlinesFinite, FS_Bijection DEF ExistsBijection
<1>4. 0 \notin T
  <2> SUFFICES ASSUME NEW k \in N, ByteOf(text, k + 1) = 0
               PROVE  FALSE
    OBVIOUS
  <2>1. 1 \in 1 .. Len(text) + 1 /\ ByteOf(text, 1) = 0
    BY <1>0, ByteOfEnds
  <2>2. 1 = k + 1
    BY <1>1, <2>1, ByteOfOrder
  <2> QED
    BY <1>1, <2>2
<1>5. before = T \cup {0}
  <2>1. ASSUME NEW b \in before
        PROVE  b \in T \cup {0}
    <3>1. PICK l \in Starts(text) : b = ByteOf(text, l)
      BY StartsAre
    <3>2. l \in 1 .. Len(text) + 1 /\ (l = 1 \/ text[l - 1] = Newline)
      BY StartsAre
    <3>3. l <= i
      BY <3>1, <3>2, ByteOfOrder
    <3>4. CASE l = 1
      BY <3>1, <3>4, ByteOfEnds
    <3>5. CASE l # 1
      <4>1. l - 1 \in N /\ (l - 1) + 1 = l
        BY <3>2, <3>3, <3>5 DEF Newlines
      <4>2. ByteOf(text, (l - 1) + 1) \in T
        BY <4>1
      <4> QED
        BY <3>1, <4>1, <4>2
    <3> QED
      BY <3>4, <3>5
  <2>2. ASSUME NEW k \in N
        PROVE  ByteOf(text, k + 1) \in before
    <3>1. ByteOf(text, k + 1) <= ByteOf(text, i)
      BY <1>1, ByteOfOrder
    <3>2. (k + 1) - 1 = k /\ text[k] = Newline
      BY <1>1 DEF Newlines
    <3>3. k + 1 \in Starts(text)
      BY <1>1, <3>2, StartsAre
    <3> QED
      BY <3>1, <3>3, StartsAre
  <2>3. 0 \in before
    <3>1. 1 \in 1 .. Len(text) + 1 /\ 1 <= i
      BY <1>0
    <3>2. 1 \in Starts(text) /\ ByteOf(text, 1) = 0
      BY <3>1, StartsAre, ByteOfEnds
    <3>3. ByteOf(text, 1) <= ByteOf(text, i)
      BY <3>1, ByteOfOrder
    <3> QED
      BY <3>2, <3>3, StartsAre
  <2> HIDE DEF before
  <2> QED
    BY <2>1, <2>2, <2>3
<1> HIDE DEF T, before
<1>6. IsFiniteSet(before) /\ Cardinality(before) = Cardinality(N) + 1
  BY <1>3, <1>4, <1>5, FS_AddElement
<1> QED
  BY <1>6, NewlinesFinite DEF before

\* The same of what begins before a line does.
LEMMA StartsBefore ==
  ASSUME NEW text \in Seq(Character), NEW l \in Starts(text)
  PROVE  Cardinality({ b \in LineStarts(text) : b < ByteOf(text, l) })
           = LineOfCharacter(text, l)
<1> DEFINE upTo == { b \in LineStarts(text) : b <= ByteOf(text, l) }
           below == { b \in LineStarts(text) : b < ByteOf(text, l) }
<1>1. l \in 1 .. Len(text) + 1
  BY StartsAre
<1>2. IsFiniteSet(upTo) /\ Cardinality(upTo) = LineOfCharacter(text, l) + 1
  BY <1>1, StartsCounted
<1>3. ByteOf(text, l) \in upTo
  BY <1>1, ByteOfIs, StartsAre
<1>4. below = upTo \ {ByteOf(text, l)}
  <2>1. \A b \in LineStarts(text) : b \in Nat
    BY StartsAre, ByteOfIs
  <2> QED
    BY <1>1, <2>1, ByteOfIs
<1> HIDE DEF upTo, below
<1>5. Cardinality(below) = Cardinality(upTo) - 1
  BY <1>2, <1>3, <1>4, FS_RemoveElement
<1> QED
  BY <1>1, <1>2, <1>5, NewlinesFinite DEF below

\* A set of naturals up to a bound has a greatest one.
LEMMA GreatestNatural ==
  ASSUME NEW S \in SUBSET Nat, S # {}, NEW n \in Nat, \A s \in S : s <= n
  PROVE  Max(S) \in S /\ \A s \in S : Max(S) >= s
<1> DEFINE T == { n - s : s \in S }
<1>1. T \in SUBSET Nat /\ T # {}
  <2>1. \A s \in S : n - s \in Nat
    OBVIOUS
  <2> QED
    BY <2>1
<1> HIDE DEF T
<1>2. PICK t \in T : \A u \in T : t <= u
  BY <1>1, LeastNatural
<1>3. PICK m \in S : t = n - m
  BY <1>2 DEF T
<1>4. \A s \in S : m >= s
  <2> SUFFICES ASSUME NEW s \in S
               PROVE  m >= s
    OBVIOUS
  <2>1. t <= n - s
    BY <1>2 DEF T
  <2> QED
    BY <1>3, <2>1
<1> QED
  BY <1>3, <1>4, Zenon DEF Max

LEMMA LineBeginIs ==
  ASSUME NEW text \in Seq(Character), NEW i \in 1 .. Len(text) + 1
  PROVE  /\ LineBegin(text, i) \in Starts(text)
         /\ LineBegin(text, i) \in 1 .. i
         /\ \A k \in LineBegin(text, i) .. i - 1 : text[k] # Newline
<1> DEFINE S == {0} \cup Newlines(text, i)
           m == Max(S)
<1>1. S \in SUBSET Nat /\ S # {} /\ i \in Nat /\ \A s \in S : s <= i
  BY DEF Newlines
<1> HIDE DEF S
<1>2. m \in S /\ \A s \in S : m >= s
  BY <1>1, GreatestNatural
<1> HIDE DEF m
<1>3. LineBegin(text, i) = m + 1
  BY DEF LineBegin, Newlines, S, m
<1>4. m + 1 \in 1 .. i /\ (m + 1 = 1 \/ text[(m + 1) - 1] = Newline)
  <2>1. CASE m = 0
    BY <2>1
  <2>2. CASE m # 0
    <3>1. m \in 1 .. i - 1 /\ text[m] = Newline /\ (m + 1) - 1 = m
      BY <1>2, <2>2 DEF S, Newlines
    <3> QED
      BY <3>1
  <2> QED
    BY <2>1, <2>2
<1>5. m + 1 \in 1 .. Len(text) + 1
  BY <1>4
<1>6. m + 1 \in Starts(text)
  BY <1>4, <1>5, StartsAre
<1>7. ASSUME NEW k \in m + 1 .. i - 1, text[k] = Newline
      PROVE  FALSE
  <2>1. m \in Nat
    BY <1>1, <1>2
  <2>2. k \in S
    BY <1>7, <2>1 DEF S, Newlines
  <2> QED
    BY <1>2, <2>1, <2>2
<1> QED
  BY <1>3, <1>4, <1>6, <1>7

\* Where a later line begins, more lines have.
LEMMA LaterLine ==
  ASSUME NEW text \in Seq(Character), NEW i \in 1 .. Len(text) + 1,
         NEW j \in 1 .. Len(text) + 1
  PROVE  /\ i <= j => LineOfCharacter(text, i) <= LineOfCharacter(text, j)
         /\ i < j /\ j \in Starts(text) =>
              LineOfCharacter(text, i) < LineOfCharacter(text, j)
         /\ i <= j /\ (\A k \in i .. j - 1 : text[k] # Newline) =>
              LineOfCharacter(text, i) = LineOfCharacter(text, j)
<1>0. Len(text) \in Nat
  OBVIOUS
<1>1. /\ IsFiniteSet(Newlines(text, j)) /\ IsFiniteSet(Newlines(text, i))
      /\ LineOfCharacter(text, i) = Cardinality(Newlines(text, i))
      /\ LineOfCharacter(text, j) = Cardinality(Newlines(text, j))
      /\ LineOfCharacter(text, i) \in Nat /\ LineOfCharacter(text, j) \in Nat
  BY NewlinesFinite
<1>2. i <= j => Newlines(text, i) \in SUBSET Newlines(text, j)
  BY DEF Newlines
<1>3. ASSUME i < j, j \in Starts(text)
      PROVE  Newlines(text, i) # Newlines(text, j)
  <2>1. text[j - 1] = Newline
    BY <1>3, StartsAre
  <2>2. j - 1 \in Newlines(text, j) /\ j - 1 \notin Newlines(text, i)
    BY <1>3, <2>1 DEF Newlines
  <2> QED
    BY <2>2
<1>4. ASSUME i <= j, \A k \in i .. j - 1 : text[k] # Newline
      PROVE  Newlines(text, i) = Newlines(text, j)
  <2>1. ASSUME NEW k \in Newlines(text, j)
        PROVE  k \in Newlines(text, i)
    <3>1. k \in 1 .. j - 1 /\ text[k] = Newline
      BY DEF Newlines
    <3>2. ~(k \in i .. j - 1)
      BY <1>4, <3>1
    <3> QED
      BY <3>1, <3>2 DEF Newlines
  <2> QED
    BY <1>2, <1>4, <2>1
<1>5. i <= j => Cardinality(Newlines(text, i)) <= Cardinality(Newlines(text, j))
  BY <1>1, <1>2, FS_Subset
<1>6. i < j /\ j \in Starts(text) =>
        Cardinality(Newlines(text, i)) # Cardinality(Newlines(text, j))
  BY <1>1, <1>2, <1>3, FS_Subset
<1> QED
  BY <1>1, <1>4, <1>5, <1>6

\* The line of a byte, and the byte of a line.
LEMMA LineOfIs ==
  ASSUME NEW text \in Seq(Character), NEW i \in 1 .. Len(text) + 1
  PROVE  LineOf(text, ByteOf(text, i)) = LineOfCharacter(text, i)
<1> DEFINE n == Cardinality({ b \in LineStarts(text) : b <= ByteOf(text, i) })
<1>1. n = LineOfCharacter(text, i) + 1 /\ LineOfCharacter(text, i) \in Nat
  BY StartsCounted, NewlinesFinite
<1>2. LineOf(text, ByteOf(text, i)) = n - 1
  BY DEF LineOf
<1> HIDE DEF n
<1> QED
  BY <1>1, <1>2

LEMMA LineStartIs ==
  ASSUME NEW text \in Seq(Character), NEW l \in Starts(text)
  PROVE  LineStart(text, LineOfCharacter(text, l)) = ByteOf(text, l)
<1> DEFINE below(b) == Cardinality({ c \in LineStarts(text) : c < b })
           n == LineOfCharacter(text, l)
<1>1. ByteOf(text, l) \in LineStarts(text) /\ below(ByteOf(text, l)) = n
  BY StartsAre, StartsBefore
<1>2. ASSUME NEW b \in LineStarts(text), below(b) = n
      PROVE  b = ByteOf(text, l)
  <2>1. PICK j \in Starts(text) : b = ByteOf(text, j)
    BY StartsAre
  <2>2. LineOfCharacter(text, j) = n
    BY <1>2, <2>1, StartsBefore
  <2>3. j \in 1 .. Len(text) + 1 /\ l \in 1 .. Len(text) + 1
    BY StartsAre
  <2>4. ~(j < l) /\ ~(l < j)
    BY <2>2, <2>3, LaterLine, NewlinesFinite
  <2>5. j = l
    BY <2>3, <2>4
  <2> QED
    BY <2>1, <2>5
<1>3. LineStart(text, n) = CHOOSE b \in LineStarts(text) : below(b) = n
  BY DEF LineStart
<1> HIDE DEF below, n
<1> QED
  BY <1>1, <1>2, <1>3 DEF n

\* There is one line more than newlines.
LEMMA LineCountIs ==
  ASSUME NEW text \in Seq(Character)
  PROVE  LineCount(text) = LineOfCharacter(text, Len(text) + 1) + 1
<1> DEFINE e == Len(text) + 1
<1>1. e \in 1 .. Len(text) + 1 /\ \A l \in 1 .. Len(text) + 1 : l <= e
  OBVIOUS
<1> HIDE DEF e
<1>2. \A b \in LineStarts(text) : b <= ByteOf(text, e)
  BY <1>1, StartsAre, ByteOfOrder
<1>3. LineStarts(text) = { b \in LineStarts(text) : b <= ByteOf(text, e) }
  BY <1>2
<1>4. Cardinality({ b \in LineStarts(text) : b <= ByteOf(text, e) })
        = LineOfCharacter(text, e) + 1
  BY <1>1, StartsCounted
<1>5. LineCount(text) = LineOfCharacter(text, e) + 1
  BY <1>3, <1>4 DEF LineCount
<1> QED
  BY <1>5 DEF e

\* The place of a line's end: at its newline, or where the text ends.
Stops(text, i, z) ==
  /\ z \in i .. Len(text) + 1
  /\ z = Len(text) + 1 \/ text[z] = Newline
  /\ \A k \in i .. z - 1 : text[k] # Newline

LEMMA LineStops ==
  ASSUME NEW text \in Seq(Character), NEW i \in 1 .. Len(text) + 1
  PROVE  \E z : Stops(text, i, z)
<1> DEFINE T == { z \in i .. Len(text) + 1 : z = Len(text) + 1 \/ text[z] = Newline }
<1>0. Len(text) \in Nat
  OBVIOUS
<1>1. T \in SUBSET Nat /\ T # {}
  <2>1. Len(text) + 1 \in T
    BY <1>0
  <2> QED
    BY <2>1
<1>2. PICK z \in T : \A m \in T : z <= m
  BY <1>1, LeastNatural
<1>3. ASSUME NEW k \in i .. z - 1, text[k] = Newline
      PROVE  FALSE
  <2>1. k \in T /\ k < z
    BY <1>3
  <2> QED
    BY <1>2, <2>1
<1> QED
  BY <1>2, <1>3 DEF Stops

LEMMA LineEndIs ==
  ASSUME NEW text \in Seq(Character), NEW i \in 1 .. Len(text) + 1,
         NEW z, Stops(text, i, z)
  PROVE  /\ LineEnd(text, LineOfCharacter(text, i)) = ByteOf(text, z)
         /\ LineOfCharacter(text, i) < LineCount(text)
         /\ LineOfCharacter(text, z) = LineOfCharacter(text, i)
<1> DEFINE n == LineOfCharacter(text, i)
           e == Len(text) + 1
<1>0. Len(text) \in Nat /\ e \in 1 .. Len(text) + 1 /\ i <= e
  OBVIOUS
<1>1. z \in 1 .. Len(text) + 1 /\ i <= z /\ z <= e
  BY DEF Stops
<1>2. LineOfCharacter(text, z) = n
  BY <1>1, LaterLine DEF Stops
<1>3. n \in Nat /\ LineOfCharacter(text, e) \in Nat /\ n <= LineOfCharacter(text, e)
  BY <1>0, NewlinesFinite, LaterLine
<1>4. LineCount(text) = LineOfCharacter(text, e) + 1
  BY LineCountIs
<1>5. CASE z = e
  <2>1. ~(n + 1 < LineCount(text))
    BY <1>2, <1>3, <1>4, <1>5
  <2>2. ByteOf(text, e) = Length(text)
    BY ByteOfEnds
  <2> QED
    BY <1>2, <1>3, <1>4, <1>5, <2>1, <2>2 DEF LineEnd
<1>6. CASE z # e
  <2>1. z \in 1 .. Len(text) /\ z + 1 \in 1 .. Len(text) + 1 /\ (z + 1) - 1 = z
    BY <1>1, <1>6
  <2>2. text[z] = Newline
    BY <1>6 DEF Stops
  <2>3. z + 1 \in Starts(text)
    BY <2>1, <2>2, StartsAre
  <2>4. Newlines(text, z + 1) = Newlines(text, z) \cup {z} /\ z \notin Newlines(text, z)
    BY <2>1, <2>2 DEF Newlines
  <2>5. LineOfCharacter(text, z + 1) = n + 1
    BY <1>1, <1>2, <2>1, <2>4, NewlinesFinite, FS_AddElement
  <2>6. LineOfCharacter(text, z + 1) <= LineOfCharacter(text, e)
    BY <1>0, <2>1, LaterLine
  <2>7. n + 1 < LineCount(text)
    BY <1>3, <1>4, <2>5, <2>6
  <2>8. LineStart(text, n + 1) = ByteOf(text, z) + 1
    BY <2>1, <2>2, <2>3, <2>5, LineStartIs, ByteOfEnds
  <2>9. ByteOf(text, z) \in Nat
    BY <1>1, ByteOfIs
  <2>10. LineEnd(text, n) = LineStart(text, n + 1) - 1
    BY <2>7 DEF LineEnd
  <2> HIDE DEF n
  <2>11. LineEnd(text, n) = ByteOf(text, z)
    BY <2>8, <2>9, <2>10
  <2>12. n < LineCount(text)
    BY <1>3, <1>4
  <2> QED
    BY <1>2, <2>11, <2>12 DEF n
<1> QED
  BY <1>5, <1>6

\* What is sliced at characters is the characters between.
LEMMA SliceIs ==
  ASSUME NEW text \in Seq(Character),
         NEW a \in 1 .. Len(text) + 1, NEW b \in a .. Len(text) + 1
  PROVE  Slice(text, ByteOf(text, a), ByteOf(text, b)) = SubSeq(text, a, b - 1)
<1> DEFINE Reached(c) == CHOOSE i \in 1 .. Len(text) + 1 : ByteOf(text, i) = c
<1>1. b \in 1 .. Len(text) + 1 /\ a <= b
  OBVIOUS
<1>2. Reached(ByteOf(text, a)) = a
  BY <1>1, ByteOfOrder
<1>3. Reached(ByteOf(text, b)) = b
  BY <1>1, ByteOfOrder
<1>4. ByteOf(text, a) <= ByteOf(text, b)
  BY <1>1, ByteOfOrder
<1>5. {ByteOf(text, a), ByteOf(text, b)} \subseteq { ByteOf(text, i) : i \in 1 .. Len(text) + 1 }
  BY <1>1
<1>6. Slice(text, ByteOf(text, a), ByteOf(text, b))
        = SubSeq(text, Reached(ByteOf(text, a)), Reached(ByteOf(text, b)) - 1)
  BY <1>4, <1>5, Zenon DEF Slice
<1> HIDE DEF Reached
<1> QED
  BY <1>2, <1>3, <1>6

\* Where a line begins, its characters begin.
LEMMA LineStartOf ==
  ASSUME NEW text \in Seq(Character), NEW i \in 1 .. Len(text) + 1
  PROVE  LineStart(text, LineOfCharacter(text, i)) = ByteOf(text, LineBegin(text, i))
<1> DEFINE a == LineBegin(text, i)
<1>1. a \in Starts(text) /\ a \in 1 .. i /\ \A k \in a .. i - 1 : text[k] # Newline
  BY LineBeginIs
<1>2. a \in 1 .. Len(text) + 1 /\ a <= i
  BY <1>1
<1> HIDE DEF a
<1>3. LineOfCharacter(text, a) = LineOfCharacter(text, i)
  BY <1>1, <1>2, LaterLine
<1>4. LineStart(text, LineOfCharacter(text, a)) = ByteOf(text, a)
  BY <1>1, LineStartIs
<1> QED
  BY <1>3, <1>4 DEF a

\* The server reckons the place of a character as its client does.
LEMMA PositionIs ==
  ASSUME NEW text \in Seq(Character), NEW e \in PositionEncoding,
         NEW i \in 1 .. Len(text) + 1
  PROVE  Position(text, ByteOf(text, i), e) = ClientPosition(text, i, e)
<1> DEFINE a == LineBegin(text, i)
<1>1. a \in 1 .. i
  BY LineBeginIs
<1>2. a \in 1 .. Len(text) + 1 /\ i \in a .. Len(text) + 1
  BY <1>1
<1>3. LineStart(text, LineOfCharacter(text, i)) = ByteOf(text, a)
  BY LineStartOf
<1>4. Slice(text, ByteOf(text, a), ByteOf(text, i)) = SubSeq(text, a, i - 1)
  BY <1>2, SliceIs
<1>5. LineOf(text, ByteOf(text, i)) = LineOfCharacter(text, i)
  BY LineOfIs
<1> QED
  BY <1>3, <1>4, <1>5 DEF Position, ClientPosition

\* A part of a part.
LEMMA PartOfPart ==
  ASSUME NEW s \in Seq(Character), NEW a \in 1 .. Len(s) + 1,
         NEW b \in a - 1 .. Len(s), NEW k \in 0 .. b - a + 1
  PROVE  SubSeq(SubSeq(s, a, b), 1, k) = SubSeq(s, a, a + k - 1)
<1>0. Len(s) \in Nat /\ a \in Nat /\ b \in Nat /\ k \in Nat
  OBVIOUS
<1>1. CASE k = 0
  <2>1. 1 \in Int /\ k \in Int /\ k < 1 /\ a \in Int /\ a + k - 1 \in Int /\ a + k - 1 < a
    BY <1>0, <1>1
  <2>2. SubSeq(SubSeq(s, a, b), 1, k) = << >>
    BY <2>1, SubSeqEmpty
  <2>3. SubSeq(s, a, a + k - 1) = << >>
    BY <2>1, SubSeqEmpty
  <2> QED
    BY <2>2, <2>3
<1>2. CASE k # 0
  <2>1. a \in 1 .. Len(s) /\ b \in 1 .. Len(s) /\ 1 \in 1 .. b - a + 1 /\ k \in 1 .. b - a + 1
    BY <1>0, <1>2
  <2>2. SubSeq(SubSeq(s, a, b), 1, k) = SubSeq(s, a + 1 - 1, a + k - 1)
    BY <2>1, SubSeqOfSubSeq
  <2>3. a + 1 - 1 = a
    BY <1>0
  <2> QED
    BY <2>2, <2>3
<1> QED
  BY <1>1, <1>2

\* How far a character is into its line, when it begins at the a-th.
Into(e, text, a, j) == Measure(e, SubSeq(text, a, j - 1))

LEMMA IntoGrows ==
  ASSUME NEW text \in Seq(Character), NEW e \in PositionEncoding,
         NEW a \in 1 .. Len(text) + 1,
         NEW j \in a .. Len(text) + 1, NEW k \in a .. Len(text) + 1
  PROVE  /\ Into(e, text, a, j) \in Nat
         /\ j < k => Into(e, text, a, j) < Into(e, text, a, k)
         /\ Into(e, text, a, a) = 0
<1> DEFINE f == Tally(e, text)
           m == j - 1
           n == k - 1
           o == a - 1
<1>1. /\ Tallies(e, text, f)
      /\ \A x \in 1 .. Len(text) + 1 : \A b \in x - 1 .. Len(text) :
           Measure(e, SubSeq(text, x, b)) = f[b] - f[x - 1]
  BY TallyFacts
<1>2. /\ m \in 0 .. Len(text) /\ n \in 0 .. Len(text) /\ o \in 0 .. Len(text)
      /\ m \in a - 1 .. Len(text) /\ n \in a - 1 .. Len(text) /\ o \in a - 1 .. Len(text)
      /\ o <= m /\ (j < k <=> m < n)
  OBVIOUS
<1>3. /\ Into(e, text, a, j) = f[m] - f[o] /\ Into(e, text, a, k) = f[n] - f[o]
      /\ Into(e, text, a, a) = f[o] - f[o]
  BY <1>1, <1>2 DEF Into
<1> HIDE DEF f, m, n, o
<1>4. f[m] \in Nat /\ f[n] \in Nat /\ f[o] \in Nat
  BY <1>1, <1>2 DEF Tallies
<1>5. o < m <=> f[o] < f[m]
  BY <1>1, <1>2, TalliesGrow
<1>6. o = m <=> f[o] = f[m]
  BY <1>1, <1>2, TalliesGrow
<1>7. m < n <=> f[m] < f[n]
  BY <1>1, <1>2, TalliesGrow
<1>8. f[o] <= f[m]
  <2>1. o < m \/ o = m
    BY <1>2
  <2> QED
    BY <1>4, <1>5, <1>6, <2>1
<1> QED
  BY <1>2, <1>3, <1>4, <1>7, <1>8

\* j is the first character of i's line at or past a column, or its end.
Reaches(e, text, i, column, j) ==
  LET a == LineBegin(text, i)
  IN  /\ \E z : /\ Stops(text, i, z)
                /\ j \in a .. z
                /\ Into(e, text, a, j) >= column \/ j = z
      /\ \A k \in a .. j - 1 : Into(e, text, a, k) < column

\* Every column of every line reaches a character, and there the server looks.
LEMMA OffsetIs ==
  ASSUME NEW text \in Seq(Character), NEW e \in PositionEncoding,
         NEW i \in 1 .. Len(text) + 1, NEW column \in Nat
  PROVE  \E j \in 1 .. Len(text) + 1 :
           /\ Reaches(e, text, i, column, j)
           /\ Offset(text, [line |-> LineOfCharacter(text, i), character |-> column], e)
                = ByteOf(text, j)
<1> DEFINE a == LineBegin(text, i)
<1>0. Len(text) \in Nat
  OBVIOUS
<1>1. a \in 1 .. i
  BY LineBeginIs
<1>2. PICK z : Stops(text, i, z)
  BY LineStops
<1> DEFINE n == z - a
           line == SubSeq(text, a, z - 1)
           reached == { k \in 1 .. n : Into(e, text, a, a + k - 1) >= column }
           position == [line |-> LineOfCharacter(text, i), character |-> column]
<1>3. /\ z \in i .. Len(text) + 1 /\ a \in 1 .. Len(text) + 1 /\ z \in a .. Len(text) + 1
      /\ z - 1 \in a - 1 .. Len(text) /\ n \in Nat /\ z \in 1 .. Len(text) + 1
  BY <1>0, <1>1, <1>2 DEF Stops
<1>4. /\ LineStart(text, LineOfCharacter(text, i)) = ByteOf(text, a)
      /\ LineEnd(text, LineOfCharacter(text, i)) = ByteOf(text, z)
      /\ LineOfCharacter(text, i) < LineCount(text)
  BY <1>2, LineStartOf, LineEndIs
<1>5. Slice(text, ByteOf(text, a), ByteOf(text, z)) = line
  BY <1>3, SliceIs
<1>6. /\ \A m \in a .. z - 1 : text[m] \in Character
      /\ a \in Int /\ z - 1 \in Int
  BY <1>0, <1>3
<1>7. line \in Seq(Character) /\ Len(line) = n
  BY <1>3, <1>6, SubSeqProperties
<1> HIDE DEF a, line
<1>8. ASSUME NEW k \in 1 .. n
      PROVE  Measure(e, SubSeq(line, 1, k - 1)) = Into(e, text, a, a + k - 1)
  <2>1. k - 1 \in 0 .. (z - 1) - a + 1 /\ a + (k - 1) - 1 = (a + k - 1) - 1
    BY <1>3
  <2>2. SubSeq(SubSeq(text, a, z - 1), 1, k - 1) = SubSeq(text, a, a + (k - 1) - 1)
    BY <1>3, <2>1, PartOfPart
  <2> QED
    BY <2>1, <2>2 DEF line, Into
<1>9. reached = { k \in 1 .. Len(line) : Measure(e, SubSeq(line, 1, k - 1)) >= column }
  BY <1>7, <1>8
<1>10. Offset(text, position, e) =
         IF reached = {} THEN ByteOf(text, z)
         ELSE ByteOf(text, a) + ByteOf(line, Min(reached))
  <2>1. ~(position.line >= LineCount(text))
    <3>1. LineCount(text) \in Nat /\ LineOfCharacter(text, i) \in Nat
      <4>1. Len(text) + 1 \in 1 .. Len(text) + 1
        BY <1>0
      <4> QED
        BY <4>1, LineCountIs, NewlinesFinite
    <3> QED
      BY <1>4, <3>1
  <2> HIDE DEF reached
  <2>2. /\ LineStart(text, position.line) = ByteOf(text, a)
        /\ LineEnd(text, position.line) = ByteOf(text, z)
        /\ position.character = column
    BY <1>4
  <2> HIDE DEF position
  <2> QED
    BY <1>5, <1>9, <2>1, <2>2 DEF Offset
<1>11. CASE reached = {}
  <2>1. \A k \in a .. z - 1 : Into(e, text, a, k) < column
    <3> SUFFICES ASSUME NEW k \in a .. z - 1
                 PROVE  Into(e, text, a, k) < column
      OBVIOUS
    <3>1. k - a + 1 \in 1 .. n /\ a + (k - a + 1) - 1 = k /\ k \in a .. Len(text) + 1
      BY <1>3
    <3>2. ~(Into(e, text, a, k) >= column)
      BY <1>11, <3>1
    <3>3. Into(e, text, a, k) \in Nat
      BY <1>3, <3>1, IntoGrows
    <3> QED
      BY <3>2, <3>3
  <2>2. z \in a .. z
    BY <1>3
  <2>3. Reaches(e, text, i, column, z)
    BY <1>2, <2>1, <2>2 DEF Reaches, a
  <2> QED
    BY <1>3, <1>10, <1>11, <2>3
<1>12. CASE reached # {}
  <2> DEFINE k == Min(reached)
             j == a + k - 1
  <2>1. reached \in SUBSET Nat
    BY <1>3
  <2>2. PICK m \in reached : \A x \in reached : m <= x
    BY <1>12, <2>1, LeastNatural
  <2>3. k \in reached /\ \A x \in reached : k <= x
    <3> HIDE DEF reached
    <3> QED
      BY <2>2, Zenon DEF Min
  <2> HIDE DEF k
  <2>4. /\ k \in 1 .. n /\ Into(e, text, a, j) >= column
        /\ j \in a .. z /\ j \in 1 .. Len(text) + 1 /\ j \in a .. Len(text) + 1
    BY <1>3, <2>3
  <2>5. \A y \in a .. j - 1 : Into(e, text, a, y) < column
    <3> SUFFICES ASSUME NEW y \in a .. j - 1
                 PROVE  Into(e, text, a, y) < column
      OBVIOUS
    <3>1. /\ y - a + 1 \in 1 .. n /\ a + (y - a + 1) - 1 = y /\ y \in a .. Len(text) + 1
          /\ y - a + 1 < k
      BY <1>3, <2>4
    <3>2. y - a + 1 \notin reached
      BY <2>3, <2>4, <3>1
    <3>3. ~(Into(e, text, a, y) >= column)
      BY <3>1, <3>2
    <3>4. Into(e, text, a, y) \in Nat
      BY <1>3, <3>1, IntoGrows
    <3> QED
      BY <3>3, <3>4
  <2>6. Reaches(e, text, i, column, j)
    BY <1>2, <2>4, <2>5 DEF Reaches, a
  <2>7. ByteOf(text, a) + ByteOf(line, k) = ByteOf(text, j)
    <3> DEFINE f == Tally("Utf8", text)
    <3>1. Measure("Utf8", SubSeq(text, a, a + (k - 1) - 1)) = f[a + (k - 1) - 1] - f[a - 1]
      <4>1. a + (k - 1) - 1 \in a - 1 .. Len(text)
        BY <1>3, <2>4
      <4> QED
        BY <1>3, <4>1, TallyFacts DEF PositionEncoding
    <3>2. SubSeq(SubSeq(text, a, z - 1), 1, k - 1) = SubSeq(text, a, a + (k - 1) - 1)
      <4>1. k - 1 \in 0 .. (z - 1) - a + 1
        BY <1>3, <2>4
      <4> QED
        BY <1>3, <4>1, PartOfPart
    <3>3. ByteOf(line, k) = f[a + (k - 1) - 1] - f[a - 1]
      BY <3>1, <3>2 DEF ByteOf, line
    <3>4. /\ ByteOf(text, a) = f[a - 1] /\ ByteOf(text, j) = f[j - 1]
          /\ ByteOf(text, a) \in Nat /\ ByteOf(text, j) \in Nat
      BY <1>3, <2>4, ByteOfIs
    <3>5. j - 1 = a + (k - 1) - 1
      BY <1>3, <2>4
    <3> HIDE DEF f, j
    <3> QED
      BY <3>3, <3>4, <3>5
  <2> HIDE DEF j, reached
  <2>8. Offset(text, position, e) = ByteOf(text, j)
    BY <1>10, <1>12, <2>7 DEF k
  <2> QED
    BY <2>4, <2>6, <2>8
<1> QED
  BY <1>11, <1>12

\* What the server finds where its client says a character is.
LEMMA OffsetOfPosition ==
  ASSUME NEW text \in Seq(Character), NEW e \in PositionEncoding,
         NEW i \in 1 .. Len(text) + 1
  PROVE  Offset(text, ClientPosition(text, i, e), e) = ByteOf(text, i)
<1> DEFINE a == LineBegin(text, i)
           column == Into(e, text, a, i)
<1>0. Len(text) \in Nat
  OBVIOUS
<1>1. a \in 1 .. i
  BY LineBeginIs
<1>2. a \in 1 .. Len(text) + 1 /\ i \in a .. Len(text) + 1
  BY <1>1
<1>3. ClientPosition(text, i, e) = [line |-> LineOfCharacter(text, i), character |-> column]
  BY DEF ClientPosition, Into
<1> HIDE DEF a
<1>4. column \in Nat
  BY <1>2, IntoGrows
<1>5. PICK j \in 1 .. Len(text) + 1 :
        /\ Reaches(e, text, i, column, j)
        /\ Offset(text, [line |-> LineOfCharacter(text, i), character |-> column], e)
             = ByteOf(text, j)
  BY <1>4, OffsetIs
<1> HIDE DEF column
<1>6. PICK z : /\ Stops(text, i, z) /\ j \in a .. z
               /\ Into(e, text, a, j) >= column \/ j = z
  BY <1>5 DEF Reaches, a
<1>7. j \in a .. Len(text) + 1 /\ z \in i .. Len(text) + 1
  BY <1>2, <1>6 DEF Stops
<1>8. ~(j < i)
  <2> SUFFICES ASSUME j < i
               PROVE  FALSE
    OBVIOUS
  <2>1. Into(e, text, a, j) < column
    BY <1>2, <1>7, IntoGrows DEF column
  <2>2. j # z
    BY <1>7
  <2>3. Into(e, text, a, j) \in Nat
    BY <1>2, <1>7, IntoGrows
  <2> QED
    BY <1>4, <1>6, <2>1, <2>2, <2>3
<1>9. ~(i < j)
  <2> SUFFICES ASSUME i < j
               PROVE  FALSE
    OBVIOUS
  <2>1. i \in a .. j - 1
    BY <1>2, <1>7
  <2>2. Into(e, text, a, i) < column
    BY <1>5, <2>1 DEF Reaches, a
  <2> QED
    BY <1>4, <2>2 DEF column
<1>10. i = j
  BY <1>7, <1>8, <1>9
<1> QED
  BY <1>3, <1>5, <1>10

\* The characters of a line begin where it does.
LEMMA SameLine ==
  ASSUME NEW text \in Seq(Character), NEW i \in 1 .. Len(text) + 1,
         NEW z, Stops(text, i, z), NEW j \in LineBegin(text, i) .. z
  PROVE  /\ j \in 1 .. Len(text) + 1
         /\ LineBegin(text, j) = LineBegin(text, i)
         /\ LineOfCharacter(text, j) = LineOfCharacter(text, i)
<1> DEFINE a == LineBegin(text, i)
           b == LineBegin(text, j)
<1>0. Len(text) \in Nat
  OBVIOUS
<1>1. a \in Starts(text) /\ a \in 1 .. i /\ \A k \in a .. i - 1 : text[k] # Newline
  BY LineBeginIs
<1>2. z \in i .. Len(text) + 1 /\ \A k \in i .. z - 1 : text[k] # Newline
  BY DEF Stops
<1>3. j \in 1 .. Len(text) + 1 /\ a \in 1 .. Len(text) + 1 /\ a <= j
  BY <1>0, <1>1, <1>2
<1>4. b \in Starts(text) /\ b \in 1 .. j /\ \A k \in b .. j - 1 : text[k] # Newline
  BY <1>3, LineBeginIs
<1>5. \A k \in a .. z - 1 : text[k] # Newline
  <2> SUFFICES ASSUME NEW k \in a .. z - 1
               PROVE  text[k] # Newline
    OBVIOUS
  <2>1. k \in a .. i - 1 \/ k \in i .. z - 1
    BY <1>1, <1>2
  <2> QED
    BY <1>1, <1>2, <2>1
<1>6. j <= z
  BY <1>1, <1>2
<1> HIDE DEF a, b
<1>7. ~(b < a)
  <2> SUFFICES ASSUME b < a
               PROVE  FALSE
    OBVIOUS
  <2>1. text[a - 1] = Newline
    BY <1>1, <1>4, StartsAre
  <2>2. a - 1 \in b .. j - 1
    BY <1>3, <1>4
  <2> QED
    BY <1>4, <2>1, <2>2
<1>8. ~(a < b)
  <2> SUFFICES ASSUME a < b
               PROVE  FALSE
    OBVIOUS
  <2>1. text[b - 1] = Newline
    BY <1>1, <1>4, StartsAre
  <2>2. b - 1 \in a .. z - 1
    BY <1>1, <1>2, <1>4, <1>6
  <2> QED
    BY <1>5, <2>1, <2>2
<1>9. a = b
  BY <1>1, <1>4, <1>7, <1>8
<1>10. LineOfCharacter(text, a) = LineOfCharacter(text, i)
  BY <1>1, <1>3, LaterLine
<1>11. \A k \in a .. j - 1 : text[k] # Newline
  BY <1>4, <1>9
<1>12. LineOfCharacter(text, a) = LineOfCharacter(text, j)
  BY <1>3, <1>11, LaterLine
<1> QED
  BY <1>3, <1>9, <1>10, <1>12 DEF a, b

\* Every line has a character, or its end.
LEMMA EveryLine ==
  ASSUME NEW text \in Seq(Character), NEW line \in Nat, line < LineCount(text)
  PROVE  \E i \in 1 .. Len(text) + 1 : LineOfCharacter(text, i) = line
<1> DEFINE T == { i \in 1 .. Len(text) + 1 : LineOfCharacter(text, i) >= line }
           e == Len(text) + 1
<1>0. Len(text) \in Nat /\ e \in 1 .. Len(text) + 1
  OBVIOUS
<1>1. \A i \in 1 .. Len(text) + 1 : LineOfCharacter(text, i) \in Nat
  BY NewlinesFinite
<1>2. LineOfCharacter(text, e) >= line
  BY <1>0, <1>1, LineCountIs
<1>3. T \in SUBSET Nat /\ T # {}
  BY <1>0, <1>2
<1>4. PICK i \in T : \A m \in T : i <= m
  BY <1>3, LeastNatural
<1>5. i \in 1 .. Len(text) + 1 /\ LineOfCharacter(text, i) >= line
  BY <1>4
<1>6. CASE i = 1
  <2>1. Newlines(text, i) = {}
    BY <1>6 DEF Newlines
  <2>2. LineOfCharacter(text, i) = 0
    BY <1>5, <2>1, NewlinesFinite, FS_EmptySet
  <2> QED
    BY <1>5, <2>2
<1>7. CASE i # 1
  <2> DEFINE h == i - 1
  <2>1. h \in 1 .. Len(text) + 1 /\ h \in 1 .. Len(text) /\ i = h + 1 /\ h < i
    BY <1>0, <1>5, <1>7
  <2>2. h \notin T
    BY <1>4, <1>5, <2>1
  <2>3. LineOfCharacter(text, h) < line
    BY <1>1, <2>1, <2>2
  <2>4. Newlines(text, i) \subseteq Newlines(text, h) \cup {h}
    BY <2>1 DEF Newlines
  <2>5. /\ IsFiniteSet(Newlines(text, h) \cup {h})
        /\ Cardinality(Newlines(text, h) \cup {h}) <= LineOfCharacter(text, h) + 1
    <3>1. IsFiniteSet(Newlines(text, h)) /\ Cardinality(Newlines(text, h)) = LineOfCharacter(text, h)
      BY <2>1, NewlinesFinite
    <3>2. IsFiniteSet(Newlines(text, h) \cup {h})
      BY <3>1, FS_AddElement
    <3>3. Cardinality(Newlines(text, h) \cup {h})
            = IF h \in Newlines(text, h) THEN Cardinality(Newlines(text, h))
              ELSE Cardinality(Newlines(text, h)) + 1
      BY <3>1, FS_AddElement
    <3>4. LineOfCharacter(text, h) \in Nat
      BY <1>1, <2>1
    <3> HIDE DEF h
    <3> QED
      BY <3>1, <3>2, <3>3, <3>4
  <2>6. Cardinality(Newlines(text, i)) <= Cardinality(Newlines(text, h) \cup {h})
    BY <2>4, <2>5, FS_Subset
  <2>7. LineOfCharacter(text, i) = Cardinality(Newlines(text, i)) /\ LineOfCharacter(text, i) \in Nat
    BY <1>5, NewlinesFinite
  <2>8. LineOfCharacter(text, h) \in Nat /\ Cardinality(Newlines(text, h) \cup {h}) \in Nat
    BY <1>1, <2>1, <2>5, FS_CardinalityType
  <2> HIDE DEF h
  <2> QED
    BY <1>5, <2>3, <2>5, <2>6, <2>7, <2>8
<1> QED
  BY <1>5, <1>6, <1>7

\* What offset_clamped makes of a position.
ClampedWell(text, position, e, offset) ==
  /\ \E i \in 1 .. Len(text) + 1 :
       /\ offset = ByteOf(text, i)
       /\ position.line < LineCount(text) =>
            LET there == ClientPosition(text, i, e)
            IN  /\ there.line = position.line
                /\ there.character < position.character =>
                     offset = LineEnd(text, position.line)
                /\ there.character > 0 =>
                     ClientPosition(text, i - 1, e).character < position.character
  /\ position.line = LineCount(text) => offset = Length(text)

LEMMA OffsetClampedWell ==
  ASSUME NEW text \in Seq(Character), NEW e \in PositionEncoding,
         NEW line \in 0 .. LineCount(text), NEW column \in Nat
  PROVE  LET position == [line |-> line, character |-> column]
         IN  ClampedWell(text, position, e, OffsetClamped(text, position, e))
<1> DEFINE position == [line |-> line, character |-> column]
<1>0. /\ position.line = line /\ position.character = column
      /\ Len(text) + 1 \in 1 .. Len(text) + 1 /\ Len(text) \in Nat
  OBVIOUS
<1>00. LineCount(text) \in Nat /\ line \in Nat
  BY <1>0, LineCountIs, NewlinesFinite
<1>1. ASSUME line < LineCount(text)
      PROVE  ClampedWell(text, position, e, OffsetClamped(text, position, e))
  <2>1. PICK i \in 1 .. Len(text) + 1 : LineOfCharacter(text, i) = line
    BY <1>1, <1>00, EveryLine
  <2>2. PICK j \in 1 .. Len(text) + 1 :
          /\ Reaches(e, text, i, column, j)
          /\ Offset(text, [line |-> LineOfCharacter(text, i), character |-> column], e)
               = ByteOf(text, j)
    BY OffsetIs
  <2>3. Offset(text, position, e) = ByteOf(text, j)
    BY <2>1, <2>2
  <2> HIDE DEF position
  <2> DEFINE a == LineBegin(text, i)
  <2>4. PICK z : /\ Stops(text, i, z)
                 /\ j \in a .. z
                 /\ Into(e, text, a, j) >= column \/ j = z
    BY <2>2 DEF Reaches
  <2>5. \A k \in a .. j - 1 : Into(e, text, a, k) < column
    BY <2>2 DEF Reaches
  <2>6. LineBegin(text, j) = a /\ LineOfCharacter(text, j) = line
    BY <2>1, <2>4, SameLine
  <2>7. ClientPosition(text, j, e) = [line |-> line, character |-> Into(e, text, a, j)]
    BY <2>6 DEF ClientPosition, Into
  <2>8. ByteOf(text, j) \in Nat /\ a \in 1 .. i
    BY ByteOfIs, LineBeginIs
  <2>9. OffsetClamped(text, position, e) = ByteOf(text, j)
    BY <2>3, <2>8 DEF OffsetClamped, NoOffset
  <2>10. LineEnd(text, line) = ByteOf(text, z)
    BY <2>1, <2>4, LineEndIs
  <2>11. a \in 1 .. Len(text) + 1 /\ j \in a .. Len(text) + 1 /\ a \in a .. Len(text) + 1
    BY <2>4, <2>8
  <2> HIDE DEF a
  <2>12. Into(e, text, a, j) \in Nat /\ Into(e, text, a, a) = 0
    BY <2>11, IntoGrows
  <2>13. ASSUME Into(e, text, a, j) < column
         PROVE  ByteOf(text, j) = LineEnd(text, line)
    BY <2>4, <2>10, <2>12, <2>13
  <2>14. ASSUME Into(e, text, a, j) > 0
         PROVE  ClientPosition(text, j - 1, e).character < column
    <3>1. j # a
      BY <2>12, <2>14
    <3>2. j - 1 \in a .. j - 1 /\ j - 1 \in a .. z
      <4>1. z \in Int /\ j \in Int /\ a \in Int /\ a <= j
        BY <2>4, <2>11 DEF Stops
      <4> QED
        BY <2>4, <3>1, <4>1
    <3>3. LineBegin(text, j - 1) = a
      BY <2>4, <3>2, SameLine DEF a
    <3>4. ClientPosition(text, j - 1, e).character = Into(e, text, a, j - 1)
      BY <3>3 DEF ClientPosition, Into
    <3> QED
      BY <2>5, <3>2, <3>4
  <2>15. line # LineCount(text)
    BY <1>1, <1>00
  <2>16. /\ ClientPosition(text, j, e).line = line
         /\ ClientPosition(text, j, e).character = Into(e, text, a, j)
    BY <2>7
  <2>17. ClampedWell(text, position, e, ByteOf(text, j))
    BY <1>0, <2>13, <2>14, <2>15, <2>16 DEF ClampedWell
  <2> QED
    BY <2>9, <2>17
<1>2. ASSUME ~(line < LineCount(text))
      PROVE  ClampedWell(text, position, e, OffsetClamped(text, position, e))
  <2>1. line = LineCount(text) /\ position.line >= LineCount(text)
    BY <1>2, <1>0, <1>00
  <2> HIDE DEF position
  <2>2. Offset(text, position, e) = NoOffset
    BY <2>1 DEF Offset
  <2>3. OffsetClamped(text, position, e) = Length(text)
    BY <2>1, <2>2 DEF OffsetClamped
  <2>4. Length(text) = ByteOf(text, Len(text) + 1)
    BY ByteOfEnds
  <2>5. ~(position.line < LineCount(text))
    BY <1>0, <1>2
  <2>6. ClampedWell(text, position, e, Length(text))
    BY <1>0, <2>4, <2>5 DEF ClampedWell
  <2> QED
    BY <2>3, <2>6
<1> QED
  <2>1. ClampedWell(text, position, e, OffsetClamped(text, position, e))
    BY <1>1, <1>2
  <2> QED
    BY <2>1

\* A clamped range is a span of the text.
LEMMA SpanClampedWell ==
  ASSUME NEW text \in Seq(Character), NEW e, NEW p, NEW q,
         \E i \in 1 .. Len(text) + 1 : OffsetClamped(text, p, e) = ByteOf(text, i),
         \E i \in 1 .. Len(text) + 1 : OffsetClamped(text, q, e) = ByteOf(text, i)
  PROVE  LET span == SpanClamped(text, << p, q >>, e)
         IN  0 <= span[1] /\ span[1] <= span[2] /\ span[2] <= Length(text)
<1> DEFINE b == OffsetClamped(text, p, e)
           c == OffsetClamped(text, q, e)
           offsets == { OffsetClamped(text, << p, q >>[k], e) : k \in DOMAIN << p, q >> }
<1>1. b \in Nat /\ c \in Nat /\ b <= Length(text) /\ c <= Length(text)
  <2>1. ASSUME NEW i \in 1 .. Len(text) + 1
        PROVE  ByteOf(text, i) \in Nat /\ ByteOf(text, i) <= Length(text)
    <3>1. Len(text) + 1 \in 1 .. Len(text) + 1 /\ i <= Len(text) + 1
      OBVIOUS
    <3>2. ByteOf(text, i) <= ByteOf(text, Len(text) + 1)
      BY <3>1, ByteOfOrder
    <3> QED
      BY <3>2, ByteOfIs, ByteOfEnds
  <2> QED
    BY <2>1
<1> HIDE DEF b, c
<1>2. offsets = {b, c}
  <2>1. DOMAIN << p, q >> = {1, 2}
    OBVIOUS
  <2>2. offsets = { OffsetClamped(text, << p, q >>[1], e), OffsetClamped(text, << p, q >>[2], e) }
    BY <2>1
  <2> QED
    BY <2>2 DEF b, c
<1>3. SpanClamped(text, << p, q >>, e) = << Min(offsets), Max(offsets) >>
  BY DEF SpanClamped
<1> HIDE DEF offsets
<1>4. Min({b, c}) \in {b, c} /\ \A x \in {b, c} : Min({b, c}) <= x
  <2>1. \E x \in {b, c} : \A y \in {b, c} : x <= y
    BY <1>1
  <2> QED
    BY <2>1, Zenon DEF Min
<1>5. Max({b, c}) \in {b, c} /\ \A x \in {b, c} : Max({b, c}) >= x
  <2>1. \E x \in {b, c} : \A y \in {b, c} : x >= y
    BY <1>1
  <2> QED
    BY <2>1, Zenon DEF Max
<1> DEFINE m == Min({b, c})
           n == Max({b, c})
<1>6. SpanClamped(text, << p, q >>, e)[1] = m /\ SpanClamped(text, << p, q >>, e)[2] = n
  BY <1>2, <1>3
<1>7. m \in Nat /\ n \in Nat /\ m <= n /\ n <= Length(text)
  <2> HIDE DEF m, n
  <2>1. m \in {b, c} /\ n \in {b, c} /\ n >= b /\ m <= b
    BY <1>4, <1>5 DEF m, n
  <2> QED
    BY <1>1, <2>1
<1> QED
  BY <1>6, <1>7

-----------------------------------------------------------------------------
(* Tokens.                                                                 *)

\* The count of what is seen in a text, character by character.
LEMMA VisibleCounts ==
  ASSUME NEW text \in Seq(Character)
  PROVE  /\ VisibleUpTo(text, 0) = 0
         /\ \A k \in 0 .. Len(text) : VisibleUpTo(text, k) \in Nat
         /\ \A k \in 1 .. Len(text) :
              VisibleUpTo(text, k) =
                IF text[k] = Newline THEN VisibleUpTo(text, k - 1)
                ELSE VisibleUpTo(text, k - 1) + 1
<1> DEFINE Seen(k) == { i \in 1 .. k : text[i] # Newline }
<1>0. Len(text) \in Nat
  OBVIOUS
<1>1. \A k \in Int : VisibleUpTo(text, k) = Cardinality(Seen(k))
  BY DEF VisibleUpTo
<1>2. ASSUME NEW k \in 0 .. Len(text)
      PROVE  IsFiniteSet(Seen(k)) /\ Cardinality(Seen(k)) \in Nat
  <2>1. IsFiniteSet(1 .. k)
    BY FS_Interval
  <2>2. Seen(k) \subseteq 1 .. k
    OBVIOUS
  <2>3. IsFiniteSet(Seen(k))
    BY <2>1, <2>2, FS_Subset
  <2> QED
    BY <2>3, FS_CardinalityType
<1>3. VisibleUpTo(text, 0) = 0
  <2>1. Seen(0) = {} /\ 0 \in Int
    OBVIOUS
  <2>2. Cardinality({}) = 0
    BY FS_EmptySet
  <2> HIDE DEF Seen
  <2> QED
    BY <1>1, <2>1, <2>2
<1>4. ASSUME NEW k \in 1 .. Len(text)
      PROVE  VisibleUpTo(text, k) =
                IF text[k] = Newline THEN VisibleUpTo(text, k - 1)
                ELSE VisibleUpTo(text, k - 1) + 1
  <2>1. k - 1 \in 0 .. Len(text) /\ k \in Int /\ k - 1 \in Int
    OBVIOUS
  <2>2. CASE text[k] = Newline
    <3>1. Seen(k) = Seen(k - 1)
      BY <2>1, <2>2
    <3> HIDE DEF Seen
    <3> QED
      BY <1>1, <2>1, <2>2, <3>1
  <2>3. CASE text[k] # Newline
    <3>1. Seen(k) = Seen(k - 1) \cup {k} /\ k \notin Seen(k - 1)
      BY <2>1, <2>3
    <3> HIDE DEF Seen
    <3>2. Cardinality(Seen(k)) = Cardinality(Seen(k - 1)) + 1
      BY <1>2, <2>1, <3>1, FS_AddElement
    <3> QED
      BY <1>1, <2>1, <2>3, <3>2
  <2> QED
    BY <2>2, <2>3
<1> HIDE DEF Seen
<1> QED
  BY <1>1, <1>2, <1>3, <1>4

\* It grows with each character that is seen.
LEMMA VisibleGrows ==
  ASSUME NEW text \in Seq(Character), NEW i \in 0 .. Len(text), NEW j \in i .. Len(text)
  PROVE  /\ VisibleUpTo(text, i) <= VisibleUpTo(text, j)
         /\ i < j /\ text[j] # Newline => VisibleUpTo(text, i) < VisibleUpTo(text, j)
<1> DEFINE V(k) == VisibleUpTo(text, k)
<1>0. Len(text) \in Nat /\ \A k \in 0 .. Len(text) : V(k) \in Nat
  BY VisibleCounts
<1>1. \A k \in 1 .. Len(text) : V(k) = IF text[k] = Newline THEN V(k - 1) ELSE V(k - 1) + 1
  BY VisibleCounts
<1> HIDE DEF V
<1>2. \A n \in Nat : i + n <= Len(text) => V(i) <= V(i + n)
  <2> DEFINE P == { n \in Nat : i + n <= Len(text) => V(i) <= V(i + n) }
  <2>1. 0 \in P
    BY <1>0
  <2>2. ASSUME NEW n \in Nat, n \in P
        PROVE  n + 1 \in P
    <3> SUFFICES ASSUME i + (n + 1) <= Len(text)
                 PROVE  V(i) <= V(i + (n + 1))
      OBVIOUS
    <3> DEFINE m == i + (n + 1)
    <3>1. m \in 1 .. Len(text) /\ m - 1 = i + n /\ i + n <= Len(text) /\ m - 1 \in 0 .. Len(text)
      BY <1>0
    <3>2. V(i) <= V(m - 1) /\ V(m - 1) \in Nat /\ V(i) \in Nat
      BY <1>0, <2>2, <3>1
    <3> HIDE DEF m
    <3>3. V(m) = V(m - 1) \/ V(m) = V(m - 1) + 1
      BY <1>1, <3>1
    <3>4. V(i) <= V(m)
      BY <3>2, <3>3
    <3> QED
      BY <3>4 DEF m
  <2> HIDE DEF P
  <2>3. \A n \in Nat : n \in P
    BY <2>1, <2>2, SetInduction
  <2> QED
    BY <2>3 DEF P
<1>3. \A k \in i .. Len(text) : V(i) <= V(k)
  <2> SUFFICES ASSUME NEW k \in i .. Len(text)
               PROVE  V(i) <= V(k)
    OBVIOUS
  <2>1. k - i \in Nat /\ i + (k - i) = k /\ k <= Len(text)
    BY <1>0
  <2>2. i + (k - i) <= Len(text) => V(i) <= V(i + (k - i))
    BY <1>2, <2>1
  <2> QED
    BY <2>1, <2>2
<1>4. ASSUME i < j, text[j] # Newline
      PROVE  V(i) < V(j)
  <2>1. j \in 1 .. Len(text) /\ j - 1 \in i .. Len(text) /\ j - 1 \in 0 .. Len(text)
    BY <1>0, <1>4
  <2>2. V(j) = V(j - 1) + 1
    BY <1>1, <1>4, <2>1
  <2>3. V(i) <= V(j - 1) /\ V(i) \in Nat /\ V(j - 1) \in Nat
    BY <1>0, <1>3, <2>1
  <2> QED
    BY <2>2, <2>3
<1> QED
  BY <1>3, <1>4 DEF V

\* The n-th character that is seen.
IsNth(text, n, i) == i \in 1 .. Len(text) /\ text[i] # Newline /\ VisibleUpTo(text, i) = n
Nth(text, n) == CHOOSE i \in 1 .. Len(text) : IsNth(text, n, i)

LEMMA NthIs ==
  ASSUME NEW text \in Seq(Character)
  PROVE  /\ \A i \in 1 .. Len(text) :
              text[i] # Newline =>
                /\ Nth(text, VisibleUpTo(text, i)) = i
                /\ VisibleUpTo(text, i) \in 1 .. VisibleUpTo(text, Len(text))
         /\ \A n \in 1 .. VisibleUpTo(text, Len(text)) : IsNth(text, n, Nth(text, n))
<1> DEFINE V(k) == VisibleUpTo(text, k)
<1>0. Len(text) \in Nat /\ \A k \in 0 .. Len(text) : V(k) \in Nat
  BY VisibleCounts
<1>1. V(0) = 0 /\ \A k \in 1 .. Len(text) : V(k) = IF text[k] = Newline THEN V(k - 1) ELSE V(k - 1) + 1
  BY VisibleCounts
<1>2. ASSUME NEW i \in 1 .. Len(text), NEW j \in 1 .. Len(text),
             text[i] # Newline, text[j] # Newline, V(i) = V(j)
      PROVE  i = j
  <2>1. ~(i < j)
    <3> SUFFICES ASSUME i < j
                 PROVE  FALSE
      OBVIOUS
    <3>1. i \in 0 .. Len(text) /\ j \in i .. Len(text)
      BY <1>0
    <3>2. V(i) < V(j)
      BY <1>2, <3>1, VisibleGrows
    <3> QED
      BY <1>0, <1>2, <3>1, <3>2
  <2>2. ~(j < i)
    <3> SUFFICES ASSUME j < i
                 PROVE  FALSE
      OBVIOUS
    <3>1. j \in 0 .. Len(text) /\ i \in j .. Len(text)
      BY <1>0
    <3>2. V(j) < V(i)
      BY <1>2, <3>1, VisibleGrows
    <3> QED
      BY <1>0, <1>2, <3>1, <3>2
  <2> QED
    BY <1>0, <2>1, <2>2
<1>3. ASSUME NEW i \in 1 .. Len(text), text[i] # Newline
      PROVE  Nth(text, V(i)) = i /\ V(i) \in 1 .. V(Len(text))
  <2>1. IsNth(text, V(i), i)
    BY <1>3 DEF IsNth
  <2>2. IsNth(text, V(i), Nth(text, V(i)))
    BY <2>1 DEF Nth
  <2>3. Nth(text, V(i)) = i
    BY <1>2, <1>3, <2>2 DEF IsNth
  <2>4. i \in 0 .. Len(text) /\ Len(text) \in i .. Len(text) /\ 0 \in 0 .. Len(text)
        /\ i \in 0 .. Len(text) /\ 0 < i /\ Len(text) \in 0 .. Len(text)
    BY <1>0
  <2>5. V(i) <= V(Len(text))
    BY <2>4, VisibleGrows
  <2>6. V(0) < V(i)
    BY <1>3, <2>4, VisibleGrows
  <2>7. V(i) \in Nat /\ V(Len(text)) \in Nat
    BY <1>0, <2>4
  <2> HIDE DEF V
  <2> QED
    BY <1>1, <2>3, <2>5, <2>6, <2>7
<1>4. \A k \in Nat : k <= Len(text) => \A n \in 1 .. V(k) : \E i \in 1 .. Len(text) : IsNth(text, n, i)
  <2> DEFINE Q(k) == \A n \in 1 .. V(k) : \E i \in 1 .. Len(text) : IsNth(text, n, i)
             P == { k \in Nat : k <= Len(text) => Q(k) }
  <2>1. 0 \in P
    <3>1. 1 .. V(0) = {}
      BY <1>1
    <3> QED
      BY <3>1
  <2>2. ASSUME NEW k \in Nat, k \in P
        PROVE  k + 1 \in P
    <3> SUFFICES ASSUME k + 1 <= Len(text)
                 PROVE  Q(k + 1)
      <4>1. k + 1 \in Nat
        OBVIOUS
      <4> HIDE DEF Q
      <4> QED
        BY <4>1
    <3>1. k + 1 \in 1 .. Len(text) /\ (k + 1) - 1 = k /\ k <= Len(text)
          /\ k \in 0 .. Len(text) /\ k + 1 \in 0 .. Len(text)
      BY <1>0
    <3>2. Q(k)
      BY <2>2, <3>1, Zenon
    <3>3. V(k) \in Nat /\ V(k + 1) \in Nat
      BY <1>0, <3>1
    <3>4. V(k + 1) = IF text[k + 1] = Newline THEN V(k) ELSE V(k) + 1
      BY <1>1, <3>1
    <3>5. CASE text[k + 1] = Newline
      <4> HIDE DEF V
      <4> QED
        BY <3>2, <3>4, <3>5
    <3>6. CASE text[k + 1] # Newline
      <4>1. IsNth(text, V(k + 1), k + 1)
        BY <3>1, <3>6 DEF IsNth
      <4> HIDE DEF V
      <4>2. \A n \in 1 .. V(k + 1) : n \in 1 .. V(k) \/ n = V(k + 1)
        BY <3>3, <3>4, <3>6
      <4> QED
        BY <3>1, <3>2, <4>1, <4>2
    <3> QED
      BY <3>5, <3>6
  <2> HIDE DEF P
  <2>3. \A k \in Nat : k \in P
    BY <2>1, <2>2, SetInduction
  <2> QED
    BY <2>3 DEF P
<1>5. ASSUME NEW n \in 1 .. V(Len(text))
      PROVE  IsNth(text, n, Nth(text, n))
  <2>1. \E i \in 1 .. Len(text) : IsNth(text, n, i)
    BY <1>0, <1>4
  <2> QED
    BY <2>1 DEF Nth
<1> QED
  BY <1>3, <1>5

\* Further on in a text is on a line below, or to the right.
LEMMA PlacesAdvance ==
  ASSUME NEW text \in Seq(Character), NEW e \in PositionEncoding,
         NEW i \in 1 .. Len(text) + 1, NEW j \in i .. Len(text) + 1
  PROVE  /\ ClientPosition(text, i, e).line \in Nat
         /\ ClientPosition(text, i, e).character \in Nat
         /\ ClientPosition(text, i, e).line <= ClientPosition(text, j, e).line
         /\ ClientPosition(text, i, e).line = ClientPosition(text, j, e).line =>
              ClientPosition(text, i, e).character <= ClientPosition(text, j, e).character
<1> DEFINE a == LineBegin(text, i)
           b == LineBegin(text, j)
<1>0. Len(text) \in Nat /\ j \in 1 .. Len(text) + 1 /\ i <= j
  OBVIOUS
<1>1. /\ a \in Starts(text) /\ a \in 1 .. i /\ \A k \in a .. i - 1 : text[k] # Newline
      /\ b \in Starts(text) /\ b \in 1 .. j /\ \A k \in b .. j - 1 : text[k] # Newline
  BY <1>0, LineBeginIs
<1>2. /\ ClientPosition(text, i, e).line = LineOfCharacter(text, i)
      /\ ClientPosition(text, i, e).character = Into(e, text, a, i)
      /\ ClientPosition(text, j, e).line = LineOfCharacter(text, j)
      /\ ClientPosition(text, j, e).character = Into(e, text, b, j)
  BY DEF ClientPosition, Into
<1> HIDE DEF a, b
<1>3. a \in 1 .. Len(text) + 1 /\ b \in 1 .. Len(text) + 1 /\ a <= i /\ b <= j
      /\ i \in a .. Len(text) + 1 /\ j \in b .. Len(text) + 1
  BY <1>0, <1>1
<1>4. LineOfCharacter(text, i) \in Nat /\ Into(e, text, a, i) \in Nat
  BY <1>3, NewlinesFinite, IntoGrows
<1>5. LineOfCharacter(text, i) <= LineOfCharacter(text, j)
  BY <1>0, LaterLine
<1>6. ASSUME LineOfCharacter(text, i) = LineOfCharacter(text, j)
      PROVE  Into(e, text, a, i) <= Into(e, text, b, j)
  <2>1. /\ LineOfCharacter(text, a) = LineOfCharacter(text, i)
        /\ LineOfCharacter(text, b) = LineOfCharacter(text, j)
        /\ LineOfCharacter(text, a) \in Nat
    BY <1>0, <1>1, <1>3, LaterLine, NewlinesFinite
  <2>2. ~(a < b)
    BY <1>1, <1>3, <1>6, <2>1, LaterLine
  <2>3. ~(b < a)
    BY <1>1, <1>3, <1>6, <2>1, LaterLine
  <2>4. a = b
    BY <1>3, <2>2, <2>3
  <2>5. i \in a .. Len(text) + 1 /\ j \in a .. Len(text) + 1
    BY <1>3, <2>4
  <2>6. Into(e, text, a, i) \in Nat /\ Into(e, text, a, j) \in Nat
        /\ (i < j => Into(e, text, a, i) < Into(e, text, a, j))
    BY <1>3, <2>5, IntoGrows
  <2>7. i < j \/ i = j
    BY <1>0
  <2> QED
    BY <2>4, <2>6, <2>7
<1> QED
  BY <1>2, <1>4, <1>5, <1>6

\* What a client is told of each character.
LEMMA SpanFacts ==
  ASSUME NEW text \in Seq(Character), NEW e \in PositionEncoding, NEW k \in 1 .. Len(text)
  PROVE  /\ TokenStart(text, CharacterSpans(text)[k], e) = ClientPosition(text, k, e)
         /\ TokenLength(text, CharacterSpans(text)[k], e) =
              IF text[k] = Newline THEN 0 ELSE Width(e, text[k])
         /\ Width(e, text[k]) \in 1 .. 4
<1> DEFINE m == IF text[k] = Newline THEN k ELSE k + 1
           span == << ByteOf(text, k), ByteOf(text, m) >>
           f == Tally(e, text)
<1>0. Len(text) \in Nat /\ text[k] \in Character
  OBVIOUS
<1>1. CharacterSpans(text)[k] = span
  BY DEF CharacterSpans
<1>2. k \in 1 .. Len(text) + 1 /\ m \in k .. Len(text) + 1 /\ m - 1 \in k - 1 .. Len(text)
  BY <1>0
<1>3. Width(e, text[k]) \in 1 .. 4
  BY <1>0, WidthType
<1>4. TokenStart(text, span, e) = ClientPosition(text, k, e)
  BY <1>2, PositionIs DEF TokenStart
<1>5. Slice(text, ByteOf(text, k), ByteOf(text, m)) = SubSeq(text, k, m - 1)
  BY <1>2, SliceIs
<1>6. TokenLength(text, span, e) = Measure(e, SubSeq(text, k, m - 1))
  BY <1>5 DEF TokenLength
<1>7. /\ Tallies(e, text, f)
      /\ \A x \in 1 .. Len(text) + 1 : \A b \in x - 1 .. Len(text) :
           Measure(e, SubSeq(text, x, b)) = f[b] - f[x - 1]
  BY TallyFacts
<1> HIDE DEF f
<1>8. Measure(e, SubSeq(text, k, m - 1)) = f[m - 1] - f[k - 1]
  BY <1>2, <1>7
<1>9. f[k - 1] \in Nat /\ f[k] = f[k - 1] + Width(e, text[k])
  BY <1>0, <1>7 DEF Tallies
<1>10. CASE text[k] = Newline
  <2>1. m - 1 = k - 1
    BY <1>10
  <2>2. Measure(e, SubSeq(text, k, m - 1)) = 0
    BY <1>8, <1>9, <2>1
  <2> QED
    BY <1>1, <1>3, <1>4, <1>6, <1>10, <2>2
<1>11. CASE text[k] # Newline
  <2>1. m - 1 = k
    BY <1>11
  <2>2. Measure(e, SubSeq(text, k, m - 1)) = Width(e, text[k])
    BY <1>3, <1>8, <1>9, <2>1
  <2> QED
    BY <1>1, <1>3, <1>4, <1>6, <1>11, <2>2
<1> QED
  BY <1>10, <1>11
\* The places and the tokens a client is to have, by the character.
NthPlace(text, n, e) ==
  IF n = 0 THEN FirstPlace ELSE ClientPosition(text, Nth(text, n), e)
NthToken(text, n, e) ==
  [delta |-> Delta(NthPlace(text, n, e), NthPlace(text, n - 1, e)),
   length |-> Width(e, text[Nth(text, n)])]

\* The tokens of a text, one for each character that is seen.
LEMMA TokensAre ==
  ASSUME NEW text \in Seq(Character), NEW e \in PositionEncoding
  PROVE  SemanticTokens(text, CharacterSpans(text), e)
           = [n \in 1 .. VisibleUpTo(text, Len(text)) |-> NthToken(text, n, e)]
<1> DEFINE spans == CharacterSpans(text)
           Unrolled(g) == [k \in 0 .. Len(spans) |->
             IF k = 0 THEN [data |-> << >>, before |-> FirstPlace]
             ELSE IF TokenLength(text, spans[k], e) = 0 THEN g[k - 1]
             ELSE [data |-> Append(g[k - 1].data,
                     [delta |-> Delta(TokenStart(text, spans[k], e), g[k - 1].before),
                      length |-> TokenLength(text, spans[k], e)]),
                   before |-> TokenStart(text, spans[k], e)]]
           upTo == CHOOSE g : g = Unrolled(g)
           V(k) == VisibleUpTo(text, k)
           T(m) == [n \in 1 .. m |-> NthToken(text, n, e)]
           Reached(k) == [data |-> T(V(k)), before |-> NthPlace(text, V(k), e)]
           f == [k \in 0 .. Len(spans) |-> Reached(k)]
<1>0. Len(text) \in Nat /\ Len(spans) = Len(text)
  BY DEF CharacterSpans
<1>1. /\ V(0) = 0 /\ \A k \in 0 .. Len(text) : V(k) \in Nat
      /\ \A k \in 1 .. Len(text) : V(k) = IF text[k] = Newline THEN V(k - 1) ELSE V(k - 1) + 1
  BY VisibleCounts
<1>2. \A k \in 1 .. Len(text) : text[k] # Newline => Nth(text, V(k)) = k
  BY NthIs
<1>3. \A k \in 1 .. Len(text) :
        /\ TokenStart(text, spans[k], e) = ClientPosition(text, k, e)
        /\ TokenLength(text, spans[k], e) = IF text[k] = Newline THEN 0 ELSE Width(e, text[k])
        /\ Width(e, text[k]) \in 1 .. 4
  BY SpanFacts
<1>4. SemanticTokens(text, spans, e) = upTo[Len(spans)].data
  BY DEF SemanticTokens
<1> HIDE DEF spans, V
<1>5. ASSUME NEW m \in Nat
      PROVE  Append(T(m), NthToken(text, m + 1, e)) = T(m + 1)
  <2> DEFINE R(n) == NthToken(text, n, e)
  <2>1. Append([n \in 1 .. m |-> R(n)], R(m + 1)) = [n \in 1 .. m + 1 |-> R(n)]
    <3> HIDE DEF R
    <3> QED
      OBVIOUS
  <2> QED
    BY <2>1
<1>6. ASSUME NEW k \in 0 .. Len(spans), NEW g, k # 0 => g[k - 1] = Reached(k - 1)
      PROVE  Reached(k) = Unrolled(g)[k]
  <2>1. CASE k = 0
    <3>1. T(V(0)) = << >>
      <4>1. 1 .. V(0) = {}
        BY <1>1
      <4> QED
        BY <4>1
    <3>2. NthPlace(text, V(0), e) = FirstPlace
      BY <1>1 DEF NthPlace
    <3> HIDE DEF T
    <3>3. Unrolled(g)[k] = [data |-> << >>, before |-> FirstPlace]
      BY <2>1
    <3> HIDE DEF Unrolled
    <3> QED
      BY <2>1, <3>1, <3>2, <3>3
  <2>2. CASE k # 0
    <3>1. k \in 1 .. Len(text)
      BY <1>0, <2>2
    <3>2. CASE text[k] = Newline
      <4>1. TokenLength(text, spans[k], e) = 0 /\ V(k) = V(k - 1)
        BY <1>1, <1>3, <3>1, <3>2
      <4>2. Unrolled(g)[k] = g[k - 1]
        BY <2>2, <4>1
      <4> HIDE DEF Unrolled, T
      <4> QED
        BY <1>6, <2>2, <4>1, <4>2
    <3>3. CASE text[k] # Newline
      <4> DEFINE m == V(k - 1)
                 start == TokenStart(text, spans[k], e)
                 length == TokenLength(text, spans[k], e)
      <4>1. /\ length = Width(e, text[k]) /\ length # 0
            /\ V(k) = m + 1 /\ Nth(text, m + 1) = k /\ m \in Nat
            /\ start = ClientPosition(text, k, e)
        <5>1. k - 1 \in 0 .. Len(text)
          BY <3>1
        <5>2. m \in Nat /\ V(k) = m + 1
          BY <1>1, <3>1, <3>3, <5>1
        <5>3. Nth(text, m + 1) = k
          BY <1>2, <3>1, <3>3, <5>2
        <5>4. length = Width(e, text[k]) /\ Width(e, text[k]) \in 1 .. 4
          BY <1>3, <3>1, <3>3
        <5>5. start = ClientPosition(text, k, e)
          BY <1>3, <3>1
        <5> HIDE DEF m, length, start
        <5>6. length # 0
          BY <5>4
        <5> QED
          BY <5>2, <5>3, <5>4, <5>5, <5>6
      <4>2. Unrolled(g)[k] =
              [data |-> Append(g[k - 1].data,
                 [delta |-> Delta(start, g[k - 1].before), length |-> length]),
               before |-> start]
        BY <2>2, <4>1
      <4>3. g[k - 1].data = T(m) /\ g[k - 1].before = NthPlace(text, m, e)
        <5>1. g[k - 1] = Reached(k - 1)
          BY <1>6, <2>2
        <5> HIDE DEF T
        <5> QED
          BY <5>1
      <4> HIDE DEF Unrolled, length, start
      <4>4. (m + 1) - 1 = m /\ m + 1 # 0
        BY <4>1
      <4>5. NthPlace(text, m + 1, e) = start
        BY <4>1, <4>4 DEF NthPlace
      <4>6. [delta |-> Delta(start, g[k - 1].before), length |-> length]
              = NthToken(text, m + 1, e)
        BY <4>1, <4>3, <4>4, <4>5, Zenon DEF NthToken
      <4>7. Append(T(m), NthToken(text, m + 1, e)) = T(m + 1)
        BY <1>5, <4>1
      <4> HIDE DEF T, m
      <4>8. Unrolled(g)[k] = [data |-> T(m + 1), before |-> start]
        BY <4>2, <4>3, <4>6, <4>7
      <4> QED
        BY <4>1, <4>5, <4>8
    <3> QED
      BY <3>2, <3>3
  <2> QED
    BY <2>1, <2>2
<1> HIDE DEF Reached
<1>7. \A k \in 0 .. Len(spans) : f[k] = Reached(k)
  OBVIOUS
<1>8. f = Unrolled(f)
  <2>1. ASSUME NEW k \in 0 .. Len(spans)
        PROVE  f[k] = Unrolled(f)[k]
    <3>1. k # 0 => f[k - 1] = Reached(k - 1)
      BY <1>0, <1>7
    <3> HIDE DEF f, Unrolled
    <3> QED
      BY <1>6, <1>7, <3>1
  <2>2. /\ DOMAIN f = 0 .. Len(spans) /\ f = [k \in DOMAIN f |-> f[k]]
        /\ DOMAIN Unrolled(f) = 0 .. Len(spans) /\ Unrolled(f) = [k \in DOMAIN Unrolled(f) |-> Unrolled(f)[k]]
    OBVIOUS
  <2> HIDE DEF f, Unrolled
  <2> QED
    BY <2>1, <2>2
<1> HIDE DEF f
<1>9. upTo = Unrolled(upTo)
  <2> HIDE DEF Unrolled
  <2> QED
    BY <1>8
<1> HIDE DEF upTo, Unrolled
<1>10. \A k \in Nat : k <= Len(spans) => upTo[k] = Reached(k)
  <2> DEFINE P == { k \in Nat : k <= Len(spans) => upTo[k] = Reached(k) }
  <2>1. 0 \in P
    <3>1. 0 \in 0 .. Len(spans)
      BY <1>0
    <3>2. Reached(0) = Unrolled(upTo)[0]
      BY <1>6, <3>1
    <3> QED
      BY <1>9, <3>2
  <2>2. ASSUME NEW k \in Nat, k \in P
        PROVE  k + 1 \in P
    <3> SUFFICES ASSUME k + 1 <= Len(spans)
                 PROVE  upTo[k + 1] = Reached(k + 1)
      OBVIOUS
    <3>1. k + 1 \in 0 .. Len(spans) /\ (k + 1) - 1 = k /\ k <= Len(spans)
      BY <1>0
    <3>2. Reached(k + 1) = Unrolled(upTo)[k + 1]
      BY <1>6, <2>2, <3>1
    <3> QED
      BY <1>9, <3>2
  <2> HIDE DEF P
  <2>3. \A k \in Nat : k \in P
    BY <2>1, <2>2, SetInduction
  <2> QED
    BY <2>3 DEF P
<1>11. upTo[Len(spans)] = Reached(Len(spans))
  BY <1>0, <1>10
<1>12. SemanticTokens(text, spans, e) = T(V(Len(text)))
  BY <1>0, <1>4, <1>11 DEF Reached
<1> QED
  BY <1>12 DEF spans, V
\* Its places, each not before the last, on the line or in it.
LEMMA NthPlaces ==
  ASSUME NEW text \in Seq(Character), NEW e \in PositionEncoding,
         NEW n \in 0 .. VisibleUpTo(text, Len(text))
  PROVE  /\ NthPlace(text, n, e) \in [line : Nat, character : Nat]
         /\ n # 0 =>
              LET there == NthPlace(text, n, e)
                  before == NthPlace(text, n - 1, e)
              IN  /\ before.line <= there.line
                  /\ before.line = there.line => before.character <= there.character
<1> DEFINE M == VisibleUpTo(text, Len(text))
<1>0. Len(text) \in Nat /\ M \in Nat
  BY VisibleCounts
<1> HIDE DEF M
<1>1. FirstPlace \in [line : Nat, character : Nat]
  BY DEF FirstPlace
<1>2. ASSUME NEW m \in 1 .. M
      PROVE  /\ IsNth(text, m, Nth(text, m)) /\ Nth(text, m) \in 1 .. Len(text) + 1
             /\ NthPlace(text, m, e) = ClientPosition(text, Nth(text, m), e)
             /\ NthPlace(text, m, e) \in [line : Nat, character : Nat]
  <2>1. IsNth(text, m, Nth(text, m))
    BY NthIs DEF M
  <2>2. Nth(text, m) \in 1 .. Len(text) + 1
    BY <1>0, <2>1 DEF IsNth
  <2>3. NthPlace(text, m, e) = ClientPosition(text, Nth(text, m), e)
    BY <1>0 DEF NthPlace
  <2> DEFINE there == ClientPosition(text, Nth(text, m), e)
  <2>4. there.line \in Nat /\ there.character \in Nat
    <3>1. Nth(text, m) \in Nth(text, m) .. Len(text) + 1
      BY <1>0, <2>2
    <3> QED
      BY <2>2, <3>1, PlacesAdvance
  <2>5. there = [line |-> there.line, character |-> there.character]
    BY DEF ClientPosition
  <2> HIDE DEF there
  <2>6. there \in [line : Nat, character : Nat]
    BY <2>4, <2>5
  <2> QED
    BY <2>1, <2>2, <2>3, <2>6 DEF there
<1>3. CASE n = 0
  BY <1>1, <1>3 DEF NthPlace
<1>4. CASE n = 1
  <2>1. n \in 1 .. M /\ n - 1 = 0
    BY <1>4 DEF M
  <2>2. NthPlace(text, n - 1, e) = FirstPlace
    BY <2>1 DEF NthPlace
  <2>3. NthPlace(text, n, e) \in [line : Nat, character : Nat]
    BY <1>2, <2>1
  <2>4. FirstPlace.line = 0 /\ FirstPlace.character = 0
    BY DEF FirstPlace
  <2> QED
    BY <2>2, <2>3, <2>4
<1>5. CASE n > 1
  <2>1. n \in 1 .. M /\ n - 1 \in 1 .. M
    BY <1>0, <1>5 DEF M
  <2> DEFINE i == Nth(text, n - 1)
             j == Nth(text, n)
  <2>2. /\ IsNth(text, n - 1, i) /\ i \in 1 .. Len(text) + 1
        /\ NthPlace(text, n - 1, e) = ClientPosition(text, i, e)
    BY <1>2, <2>1
  <2>3. /\ IsNth(text, n, j) /\ j \in 1 .. Len(text) + 1
        /\ NthPlace(text, n, e) = ClientPosition(text, j, e)
        /\ NthPlace(text, n, e) \in [line : Nat, character : Nat]
    BY <1>2, <2>1
  <2> HIDE DEF i, j
  <2>4. ~(j < i)
    <3> SUFFICES ASSUME j < i
                 PROVE  FALSE
      OBVIOUS
    <3>1. j \in 0 .. Len(text) /\ i \in j .. Len(text)
      BY <1>0, <2>2, <2>3 DEF IsNth
    <3>2. VisibleUpTo(text, j) <= VisibleUpTo(text, i)
      BY <3>1, VisibleGrows
    <3>3. VisibleUpTo(text, i) = n - 1 /\ VisibleUpTo(text, j) = n
      BY <2>2, <2>3 DEF IsNth
    <3> QED
      BY <3>2, <3>3
  <2>5. j \in i .. Len(text) + 1
    BY <1>0, <2>2, <2>3, <2>4
  <2>6. /\ ClientPosition(text, i, e).line <= ClientPosition(text, j, e).line
        /\ ClientPosition(text, i, e).line = ClientPosition(text, j, e).line =>
             ClientPosition(text, i, e).character <= ClientPosition(text, j, e).character
    BY <2>2, <2>5, PlacesAdvance
  <2> QED
    BY <2>2, <2>3, <2>6
<1> QED
  BY <1>3, <1>4, <1>5

\* One distance on from a place.
LEMMA DeltaIs ==
  ASSUME NEW there \in [line : Nat, character : Nat],
         NEW before \in [line : Nat, character : Nat]
  PROVE  LET delta == Delta(there, before)
         IN  /\ there = [line |-> before.line + delta.line,
                         character |-> delta.start
                           + IF delta.line = 0 THEN before.character ELSE 0]
             /\ before.line <= there.line => delta.line >= 0
             /\ (before.line = there.line => before.character <= there.character) =>
                  delta.start >= 0
<1> DEFINE delta == Delta(there, before)
<1>1. /\ there.line \in Nat /\ there.character \in Nat
      /\ before.line \in Nat /\ before.character \in Nat
      /\ there = [line |-> there.line, character |-> there.character]
  OBVIOUS
<1>2. delta.line = there.line - before.line
  BY DEF Delta
<1>3. delta.start = IF there.line = before.line THEN there.character - before.character
                    ELSE there.character
  BY DEF Delta
<1> HIDE DEF delta
<1>4. before.line + delta.line = there.line
  BY <1>1, <1>2
<1>5. delta.line = 0 <=> there.line = before.line
  BY <1>1, <1>2
<1>6. (delta.start + IF delta.line = 0 THEN before.character ELSE 0) = there.character
  BY <1>1, <1>3, <1>5
<1>7. before.line <= there.line => delta.line >= 0
  BY <1>1, <1>2
<1>8. (before.line = there.line => before.character <= there.character) => delta.start >= 0
  BY <1>1, <1>3
<1>9. there = [line |-> before.line + delta.line,
               character |-> delta.start + IF delta.line = 0 THEN before.character ELSE 0]
  BY <1>1, <1>4, <1>6
<1> QED
  BY <1>7, <1>8, <1>9 DEF delta

\* Where a client puts the tokens.
LEMMA PlacesAre ==
  ASSUME NEW text \in Seq(Character), NEW e \in PositionEncoding
  PROVE  LET places == TokenPlaces(SemanticTokens(text, CharacterSpans(text), e))
         IN  \A n \in 0 .. VisibleUpTo(text, Len(text)) :
               places[n] = NthPlace(text, n, e)
<1> DEFINE tokens == SemanticTokens(text, CharacterSpans(text), e)
           M == VisibleUpTo(text, Len(text))
           Unrolled(g) == [k \in 0 .. Len(tokens) |->
             IF k = 0 THEN FirstPlace
             ELSE [line |-> g[k - 1].line + tokens[k].delta.line,
                   character |-> tokens[k].delta.start
                     + IF tokens[k].delta.line = 0 THEN g[k - 1].character ELSE 0]]
           at == CHOOSE g : g = Unrolled(g)
           Reached(k) == NthPlace(text, k, e)
           f == [k \in 0 .. Len(tokens) |-> Reached(k)]
<1>0. M \in Nat
  BY VisibleCounts
<1>1. TokenPlaces(tokens) = at
  BY DEF TokenPlaces
<1>2. tokens = [n \in 1 .. M |-> NthToken(text, n, e)]
  BY TokensAre
<1>3. \A n \in 0 .. M :
        /\ Reached(n) \in [line : Nat, character : Nat]
        /\ n # 0 => /\ Reached(n - 1).line <= Reached(n).line
                    /\ Reached(n - 1).line = Reached(n).line => Reached(n - 1).character <= Reached(n).character
  BY NthPlaces
<1> HIDE DEF tokens, M
<1>4. Len(tokens) = M /\ \A n \in 1 .. M : tokens[n].delta = Delta(Reached(n), Reached(n - 1))
  BY <1>0, <1>2 DEF NthToken
<1>5. Reached(0) = FirstPlace
  BY DEF NthPlace
<1> HIDE DEF Reached
<1>6. ASSUME NEW k \in 0 .. M, NEW g, k # 0 => g[k - 1] = Reached(k - 1)
      PROVE  Reached(k) = Unrolled(g)[k]
  <2>1. CASE k = 0
    BY <1>4, <1>5, <2>1
  <2>2. CASE k # 0
    <3> DEFINE there == Reached(k)
               before == Reached(k - 1)
               delta == tokens[k].delta
    <3>1. k \in 1 .. M /\ k - 1 \in 0 .. M
      BY <1>0, <2>2
    <3>2. there \in [line : Nat, character : Nat] /\ before \in [line : Nat, character : Nat]
      BY <1>3, <3>1
    <3>3. delta = Delta(there, before) /\ g[k - 1] = before
      BY <1>4, <1>6, <2>2, <3>1
    <3>4. Unrolled(g)[k] = [line |-> g[k - 1].line + delta.line,
                        character |-> delta.start
                          + IF delta.line = 0 THEN g[k - 1].character ELSE 0]
      BY <1>4, <2>2
    <3> HIDE DEF there, before, delta, Unrolled
    <3>5. there = [line |-> before.line + delta.line,
                   character |-> delta.start
                     + IF delta.line = 0 THEN before.character ELSE 0]
      BY <3>2, <3>3, DeltaIs
    <3>6. there = Unrolled(g)[k]
      BY <3>3, <3>4, <3>5
    <3> QED
      BY <3>6 DEF there
  <2> QED
    BY <2>1, <2>2
<1>7. \A k \in 0 .. M : f[k] = Reached(k)
  BY <1>4
<1>8. f = Unrolled(f)
  <2>1. ASSUME NEW k \in 0 .. M
        PROVE  f[k] = Unrolled(f)[k]
    <3>1. k # 0 => f[k - 1] = Reached(k - 1)
      BY <1>0, <1>7
    <3> HIDE DEF f, Unrolled
    <3> QED
      BY <1>6, <1>7, <3>1
  <2>2. /\ DOMAIN f = 0 .. M /\ f = [k \in DOMAIN f |-> f[k]]
        /\ DOMAIN Unrolled(f) = 0 .. M /\ Unrolled(f) = [k \in DOMAIN Unrolled(f) |-> Unrolled(f)[k]]
    BY <1>4
  <2> HIDE DEF f, Unrolled
  <2> QED
    BY <2>1, <2>2
<1> HIDE DEF f
<1>9. at = Unrolled(at)
  <2> HIDE DEF Unrolled
  <2> QED
    BY <1>8
<1> HIDE DEF at, Unrolled
<1>10. \A k \in Nat : k <= M => at[k] = Reached(k)
  <2> DEFINE P == { k \in Nat : k <= M => at[k] = Reached(k) }
  <2>1. 0 \in P
    <3>1. 0 \in 0 .. M
      BY <1>0
    <3>2. Reached(0) = Unrolled(at)[0]
      BY <1>6, <3>1
    <3> QED
      BY <1>9, <3>2
  <2>2. ASSUME NEW k \in Nat, k \in P
        PROVE  k + 1 \in P
    <3> SUFFICES ASSUME k + 1 <= M
                 PROVE  at[k + 1] = Reached(k + 1)
      OBVIOUS
    <3>1. k + 1 \in 0 .. M /\ (k + 1) - 1 = k /\ k <= M
      BY <1>0
    <3>2. Reached(k + 1) = Unrolled(at)[k + 1]
      BY <1>6, <2>2, <3>1
    <3> QED
      BY <1>9, <3>2
  <2> HIDE DEF P
  <2>3. \A k \in Nat : k \in P
    BY <2>1, <2>2, SetInduction
  <2> QED
    BY <2>3 DEF P
<1>11. \A k \in 0 .. M : at[k] = Reached(k)
  BY <1>0, <1>10
<1> QED
  BY <1>1, <1>11 DEF tokens, M, Reached

-----------------------------------------------------------------------------
(* The messages.                                                           *)

Contents == {NoDocument} \cup [open : {TRUE}, text : Texts, version : Nat]

Phases == {"Starting", "Greeted", "Running", "Leaving", "Returned", "Stopped", "Failed"}
Editors == {"Offline", "Greeting", "Ready", "Leaving", "Gone", "Dead"}

\* What the editor asks, and all that it sends.
Greetings == [kind : {"Initialize"}, offered : Offers]
Farewells == [kind : {"Shutdown"}]
Questions ==
  [kind : {"Request"}, method : {"Feature", "Unknown", "Unparsable"}, uri : Uris,
   buffer : Contents, at : Nat,
   position : { ClientPosition(text, i, e) : text \in Texts, i \in Nat, e \in PositionEncoding }
                \cup {[line |-> 0, character |-> 0]}]
Asking == Greetings \cup Farewells \cup Questions
Numbered ==
  { m \in [kind : {"Initialize", "Shutdown", "Request"}, id : Nat, params : Asking] :
      m.kind = m.params.kind }
Opened == [kind : {"DidOpen"}, uri : Uris, text : Texts, version : Nat]
Changed == [kind : {"DidChange"}, uri : Uris, changes : Changes, version : Nat]
Closed == [kind : {"DidClose"}, uri : Uris]
Bare == [kind : {"Initialized", "Exit", "Other"}]
Incoming == Numbered \cup Opened \cup Changed \cup Closed \cup Bare

\* What the server answers and publishes.
Ranges(document, e) ==
  IF ~document.open THEN {}
  ELSE { [k \in 1 .. 2 |-> Position(document.text, span[k], e)] :
           span \in Findings(document.text) }
Results ==
  {Null, Error} \cup [answer : {"Encoding"}, encoding : PositionEncoding]
    \cup { [answer |-> "Feature", text |-> text, offset |-> Offset(text, question.position, e)] :
             text \in Texts, question \in Questions, e \in PositionEncoding }
Responses == [kind : {"Response"}, id : Nat, result : Results]
Publications ==
  [kind : {"Diagnostics"}, uri : Uris,
   ranges : { Ranges(document, e) : document \in Contents, e \in PositionEncoding }]
Outgoing == Responses \cup Publications

TypeOK ==
  /\ phase \in Phases /\ editor \in Editors
  /\ encoding \in PositionEncoding /\ agreed \in PositionEncoding
  /\ documents \in [Uris -> Contents] /\ buffers \in [Uris -> Contents]
  /\ toServer \in Seq(Incoming) /\ toEditor \in Seq(Outgoing)
  /\ exitRead \in BOOLEAN
  /\ shown \in [Uris -> { Ranges(document, e) : document \in Contents, e \in PositionEncoding }]
  /\ asked \in Seq(Asking) /\ answers \in Seq(Responses)
  /\ sends \in Nat

\* A queue that is given something, and one that something is taken from.
LEMMA QueueAppend ==
  ASSUME NEW S, NEW q \in Seq(S), NEW m \in S
  PROVE  /\ Append(q, m) \in Seq(S)
         /\ DOMAIN Append(q, m) = 1 .. Len(q) + 1
         /\ Len(Append(q, m)) = Len(q) + 1
         /\ Len(q) \in Nat /\ DOMAIN q = 1 .. Len(q)
         /\ \A j \in 1 .. Len(q) : Append(q, m)[j] = q[j]
         /\ Append(q, m)[Len(q) + 1] = m
  OBVIOUS

LEMMA QueueTail ==
  ASSUME NEW S, NEW q \in Seq(S), q # << >>
  PROVE  /\ Head(q) \in S /\ Head(q) = q[1] /\ 1 \in DOMAIN q
         /\ Tail(q) \in Seq(S)
         /\ Len(Tail(q)) = Len(q) - 1 /\ Len(Tail(q)) \in Nat /\ Len(q) \in Nat
         /\ DOMAIN q = 1 .. Len(q) /\ DOMAIN Tail(q) = 1 .. Len(q) - 1
         /\ \A j \in 1 .. Len(q) - 1 : Tail(q)[j] = q[j + 1]
  OBVIOUS

LEMMA QueueConcat ==
  ASSUME NEW S, NEW q \in Seq(S)
  PROVE  /\ q \o << >> = q
         /\ \A m \in S : q \o << m >> = Append(q, m)
  OBVIOUS

LEMMA IncomingKinds ==
  ASSUME NEW m \in Incoming
  PROVE  /\ m.kind = "Initialize" \/ m.kind = "Shutdown" \/ m.kind = "Request" => m \in Numbered
         /\ m.kind = "DidOpen" => m \in Opened
         /\ m.kind = "DidChange" => m \in Changed
         /\ m.kind = "DidClose" => m \in Closed
<1>1. CASE m \in Numbered
  BY <1>1 DEF Numbered
<1>2. CASE m \in Opened
  BY <1>2 DEF Opened
<1>3. CASE m \in Changed
  BY <1>3 DEF Changed
<1>4. CASE m \in Closed
  BY <1>4 DEF Closed
<1>5. CASE m \in Bare
  BY <1>5 DEF Bare
<1> QED
  BY <1>1, <1>2, <1>3, <1>4, <1>5 DEF Incoming

LEMMA OutgoingKinds ==
  ASSUME NEW m \in Outgoing
  PROVE  /\ m.kind = "Response" <=> m \in Responses
         /\ m.kind = "Diagnostics" <=> m \in Publications
  BY DEF Outgoing, Responses, Publications

\* The last of some changes is a text.
LEMMA LastChange ==
  ASSUME NEW changes \in Changes, changes # << >>
  PROVE  Last(changes) \in Texts
<1>1. CASE \E t \in Texts : changes = << t >>
  BY <1>1 DEF Last
<1>2. CASE changes \in Texts \X Texts
  <2>1. PICK s \in Texts, t \in Texts : changes = << s, t >>
    BY <1>2
  <2> QED
    BY <2>1 DEF Last
<1> QED
  BY <1>1, <1>2 DEF Changes

LEMMA ContentsType ==
  /\ NoDocument \in Contents /\ NoDocument.open = FALSE
  /\ \A text \in Texts : \A version \in Nat :
       /\ Document(text, version) \in Contents
       /\ Document(text, version).open = TRUE
       /\ Document(text, version).text = text
  /\ \A d \in Contents : d.open \in BOOLEAN /\ (d.open => d.text \in Texts)
<1>1. NoDocument \in Contents /\ NoDocument.open = FALSE
  BY DEF Contents, NoDocument
<1>2. ASSUME NEW text \in Texts, NEW version \in Nat
      PROVE  /\ Document(text, version) \in Contents
             /\ Document(text, version).open = TRUE
             /\ Document(text, version).text = text
  BY DEF Contents, Document
<1>3. ASSUME NEW d \in Contents
      PROVE  d.open \in BOOLEAN /\ (d.open => d.text \in Texts)
  <2>1. CASE d = NoDocument
    BY <1>1, <2>1
  <2>2. CASE d \in [open : {TRUE}, text : Texts, version : Nat]
    BY <2>2
  <2> QED
    BY <2>1, <2>2 DEF Contents
<1> QED
  BY <1>1, <1>2, <1>3

LEMMA NegotiateType ==
  ASSUME NEW offered
  PROVE  Negotiate(offered) \in PositionEncoding
  BY DEF Negotiate, PositionEncoding

\* A message is taken, and at most one sent.
LEMMA TakesType ==
  ASSUME TypeOK, toServer # << >>, NEW replies, Takes(replies),
         replies = << >> \/ \E m \in Outgoing : replies = << m >>
  PROVE  /\ toServer' \in Seq(Incoming) /\ toEditor' \in Seq(Outgoing)
         /\ exitRead' \in BOOLEAN
         /\ UNCHANGED << editor, agreed, buffers, shown, asked, answers, sends >>
<1>1. toServer' \in Seq(Incoming)
  BY QueueTail DEF TypeOK, Takes
<1>2. toEditor' \in Seq(Outgoing)
  <2>1. toEditor \in Seq(Outgoing) /\ toEditor' = toEditor \o replies
    BY DEF TypeOK, Takes
  <2>2. CASE replies = << >>
    BY <2>1, <2>2, QueueConcat
  <2>3. CASE \E m \in Outgoing : replies = << m >>
    <3>1. PICK m \in Outgoing : replies = << m >>
      BY <2>3
    <3>2. toEditor' = Append(toEditor, m)
      BY <2>1, <3>1, QueueConcat
    <3> QED
      BY <2>1, <3>2, QueueAppend
  <2> QED
    BY <2>2, <2>3
<1>3. exitRead' \in BOOLEAN
  <2>1. exitRead' = (Head(toServer).kind = "Exit")
    BY DEF Takes
  <2> QED
    BY <2>1
<1> QED
  BY <1>1, <1>2, <1>3 DEF Takes, client

\* What is answered, and published.
LEMMA AnswerType ==
  ASSUME TypeOK, NEW question \in Asking, question.kind = "Request"
  PROVE  Answer(question) \in Results
<1>1. question \in Questions
  BY DEF Asking, Greetings, Farewells
<1>2. question.uri \in Uris /\ documents[question.uri] \in Contents
  BY <1>1 DEF Questions, TypeOK
<1> DEFINE document == documents[question.uri]
<1>3. CASE question.method = "Unparsable"
  BY <1>3 DEF Answer, Results
<1>4. CASE question.method # "Unparsable" /\ (question.method = "Unknown" \/ ~document.open)
  BY <1>4 DEF Answer, Results
<1>5. CASE question.method # "Unparsable" /\ ~(question.method = "Unknown" \/ ~document.open)
  <2>1. Answer(question) = [answer |-> "Feature", text |-> document.text,
                            offset |-> Offset(document.text, question.position, encoding)]
    BY <1>5, Zenon DEF Answer
  <2>2. document.text \in Texts /\ encoding \in PositionEncoding
    BY <1>2, <1>5, ContentsType DEF TypeOK
  <2> HIDE DEF document
  <2> DEFINE S == { [answer |-> "Feature", text |-> text,
                     offset |-> Offset(text, q.position, e)] :
                      text \in Texts, q \in Questions, e \in PositionEncoding }
  <2>3. [answer |-> "Feature", text |-> document.text,
         offset |-> Offset(document.text, question.position, encoding)] \in S
    <3>1. \A text \in Texts : \A q \in Questions : \A e \in PositionEncoding :
            [answer |-> "Feature", text |-> text, offset |-> Offset(text, q.position, e)] \in S
      OBVIOUS
    <3> HIDE DEF S
    <3> QED
      BY <1>1, <2>2, <3>1
  <2>4. S \subseteq Results
    BY DEF Results
  <2> HIDE DEF S
  <2> QED
    BY <2>1, <2>3, <2>4
<1> QED
  BY <1>3, <1>4, <1>5

LEMMA PublishedType ==
  ASSUME TypeOK, NEW uri \in Uris, NEW document \in Contents
  PROVE  /\ Published(uri, document) \in Publications
         /\ Published(uri, document) \in Outgoing
         /\ Published(uri, document).ranges = Ranges(document, encoding)
         /\ Published(uri, document).uri = uri
         /\ Published(uri, document).kind = "Diagnostics"
<1>1. Published(uri, document)
        = [kind |-> "Diagnostics", uri |-> uri, ranges |-> Ranges(document, encoding)]
  BY DEF Published, Ranges
<1>2. encoding \in PositionEncoding
  BY DEF TypeOK
<1> QED
  BY <1>1, <1>2 DEF Publications, Outgoing

LEMMA TypeInit == ServerInit => TypeOK
<1> SUFFICES ASSUME ServerInit PROVE TypeOK
  OBVIOUS
<1>1. [uri \in Uris |-> NoDocument] \in [Uris -> Contents]
  BY ContentsType
<1>2. {} \in { Ranges(document, e) : document \in Contents, e \in PositionEncoding }
  <2>1. Ranges(NoDocument, "Utf16") = {}
    BY DEF Ranges, NoDocument
  <2> QED
    BY <2>1, ContentsType DEF PositionEncoding
<1>3. [uri \in Uris |-> {}]
        \in [Uris -> { Ranges(document, e) : document \in Contents, e \in PositionEncoding }]
  BY <1>2
<1>4. /\ documents \in [Uris -> Contents] /\ buffers \in [Uris -> Contents]
      /\ shown \in [Uris -> { Ranges(document, e) : document \in Contents, e \in PositionEncoding }]
  BY <1>1, <1>3 DEF ServerInit
<1>5. /\ phase \in Phases /\ editor \in Editors
      /\ encoding \in PositionEncoding /\ agreed \in PositionEncoding
  BY DEF ServerInit, Phases, Editors, PositionEncoding
<1>6. /\ toServer \in Seq(Incoming) /\ toEditor \in Seq(Outgoing)
      /\ asked \in Seq(Asking) /\ answers \in Seq(Responses)
      /\ exitRead \in BOOLEAN /\ sends \in Nat
  <2>1. /\ toServer = << >> /\ toEditor = << >> /\ asked = << >> /\ answers = << >>
        /\ exitRead = FALSE /\ sends = 0
    BY DEF ServerInit
  <2> QED
    BY <2>1, EmptySeq
<1> QED
  BY <1>4, <1>5, <1>6 DEF TypeOK

\* The server's steps.
LEMMA TypeServer ==
  ASSUME TypeOK, Server
  PROVE  TypeOK'
<1>0. /\ phase \in Phases /\ encoding \in PositionEncoding
      /\ documents \in [Uris -> Contents]
      /\ toServer # << >> => Head(toServer) \in Incoming
      /\ toServer \in Seq(Incoming)
  BY QueueTail DEF TypeOK
\* What is left to show of a step that takes a message.
<1>1. ASSUME toServer # << >>, NEW replies, Takes(replies),
             replies = << >> \/ \E m \in Outgoing : replies = << m >>,
             phase' \in Phases, encoding' \in PositionEncoding,
             documents' \in [Uris -> Contents]
      PROVE  TypeOK'
  <2>1. /\ toServer' \in Seq(Incoming) /\ toEditor' \in Seq(Outgoing)
        /\ exitRead' \in BOOLEAN
        /\ UNCHANGED << editor, agreed, buffers, shown, asked, answers, sends >>
    BY <1>1, TakesType
  <2> QED
    BY <1>1, <2>1 DEF TypeOK
<1>2. \A d \in Contents : \A uri \in Uris :
        [documents EXCEPT ![uri] = d] \in [Uris -> Contents]
  BY <1>0
<1>3. \A r \in Results : toServer # << >> /\ Head(toServer) \in Numbered => Response(r) \in Outgoing
  BY DEF Response, Numbered, Outgoing, Responses
<1>4. CASE Initialize
  <2>1. toServer # << >> /\ Head(toServer) \in Numbered
    BY <1>0, <1>4, IncomingKinds DEF Initialize, Receives
  <2>2. encoding' \in PositionEncoding
    BY <1>4, NegotiateType DEF Initialize
  <2>3. [answer |-> "Encoding", encoding |-> encoding'] \in Results
    BY <2>2 DEF Results
  <2>4. Response([answer |-> "Encoding", encoding |-> encoding']) \in Outgoing
    BY <1>3, <2>1, <2>3
  <2>5. Takes(<< Response([answer |-> "Encoding", encoding |-> encoding']) >>)
    BY <1>4 DEF Initialize
  <2>6. phase' \in Phases /\ documents' \in [Uris -> Contents]
    BY <1>0, <1>4 DEF Initialize, Phases
  <2> QED
    BY <1>1, <2>1, <2>2, <2>4, <2>5, <2>6
<1>5. CASE Initialized
  <2>1. toServer # << >> /\ Takes(<< >>)
    BY <1>5 DEF Initialized, Receives
  <2>2. phase' \in Phases /\ encoding' \in PositionEncoding /\ documents' \in [Uris -> Contents]
    BY <1>0, <1>5 DEF Initialized, Phases
  <2> QED
    BY <1>1, <2>1, <2>2
\* The same of a step that sets a document.
<1>6. ASSUME toServer # << >>, NEW uri \in Uris, NEW d \in Contents, Sets(uri, d)
      PROVE  TypeOK'
  <2>1. Takes(<< Published(uri, d) >>) /\ Published(uri, d) \in Outgoing
    BY <1>6, PublishedType DEF Sets
  <2>2. phase' \in Phases /\ encoding' \in PositionEncoding /\ documents' \in [Uris -> Contents]
    BY <1>0, <1>2, <1>6 DEF Sets
  <2> QED
    BY <1>1, <1>6, <2>1, <2>2
<1>7. CASE DidOpen
  <2> DEFINE message == Head(toServer)
  <2>1. toServer # << >> /\ message \in Opened
    BY <1>0, <1>7, IncomingKinds DEF DidOpen, Handles, Receives
  <2>2. message.uri \in Uris /\ Document(message.text, message.version) \in Contents
    BY <2>1, ContentsType DEF Opened
  <2>3. Sets(message.uri, Document(message.text, message.version))
    BY <1>7 DEF DidOpen
  <2> HIDE DEF message
  <2> QED
    BY <1>6, <2>1, <2>2, <2>3
<1>8. CASE DidChange
  <2> DEFINE message == Head(toServer)
  <2>1. toServer # << >> /\ message \in Changed
    BY <1>0, <1>8, IncomingKinds DEF DidChange, Handles, Receives
  <2>2. CASE message.changes = << >>
    <3>1. Takes(<< >>) /\ UNCHANGED server
      BY <1>8, <2>2 DEF DidChange
    <3>2. phase' \in Phases /\ encoding' \in PositionEncoding /\ documents' \in [Uris -> Contents]
      BY <1>0, <3>1 DEF server
    <3> QED
      BY <1>1, <2>1, <3>1, <3>2
  <2>3. CASE message.changes # << >>
    <3>1. /\ message.uri \in Uris /\ message.version \in Nat
          /\ Current(message.changes) \in Texts
      BY <2>1, <2>3, LastChange DEF Changed, Current
    <3>2. Document(Current(message.changes), message.version) \in Contents
      BY <3>1, ContentsType
    <3>3. Sets(message.uri, Document(Current(message.changes), message.version))
      BY <1>8, <2>3 DEF DidChange
    <3> HIDE DEF message
    <3> QED
      BY <1>6, <2>1, <3>1, <3>2, <3>3
  <2> QED
    BY <2>2, <2>3
<1>9. CASE DidClose
  <2> DEFINE message == Head(toServer)
  <2>1. toServer # << >> /\ message \in Closed
    BY <1>0, <1>9, IncomingKinds DEF DidClose, Handles, Receives
  <2>2. message.uri \in Uris /\ NoDocument \in Contents
    BY <2>1, ContentsType DEF Closed
  <2>3. Sets(message.uri, NoDocument)
    BY <1>9 DEF DidClose
  <2> HIDE DEF message
  <2> QED
    BY <1>6, <2>1, <2>2, <2>3
<1>10. CASE Ignore
  <2>1. toServer # << >> /\ Takes(<< >>) /\ UNCHANGED server
    BY <1>10 DEF Ignore, Handles, Receives
  <2>2. phase' \in Phases /\ encoding' \in PositionEncoding /\ documents' \in [Uris -> Contents]
    BY <1>0, <2>1 DEF server
  <2> QED
    BY <1>1, <2>1, <2>2
<1>11. CASE Dispatch
  <2>1. toServer # << >> /\ Head(toServer) \in Numbered /\ Head(toServer).kind = "Request"
    BY <1>0, <1>11, IncomingKinds DEF Dispatch, Handles, Receives
  <2>2. Answer(Head(toServer).params) \in Results
    <3> DEFINE question == Head(toServer).params
    <3>1. question \in Asking /\ question.kind = "Request"
      BY <2>1 DEF Numbered
    <3> HIDE DEF question
    <3>2. Answer(question) \in Results
      BY <3>1, AnswerType
    <3> QED
      BY <3>2 DEF question
  <2>3. Response(Answer(Head(toServer).params)) \in Outgoing
    BY <1>3, <2>1, <2>2
  <2>4. Takes(<< Response(Answer(Head(toServer).params)) >>) /\ UNCHANGED server
    BY <1>11 DEF Dispatch
  <2>5. phase' \in Phases /\ encoding' \in PositionEncoding /\ documents' \in [Uris -> Contents]
    BY <1>0, <2>4 DEF server
  <2> QED
    BY <1>1, <2>1, <2>3, <2>4, <2>5
<1>12. CASE Shutdown
  <2>1. toServer # << >> /\ Head(toServer) \in Numbered
    BY <1>0, <1>12, IncomingKinds DEF Shutdown, Handles, Receives
  <2>2. Takes(<< Response(Null) >>) /\ Response(Null) \in Outgoing
    BY <1>3, <1>12, <2>1 DEF Shutdown, Results
  <2>3. phase' \in Phases /\ encoding' \in PositionEncoding /\ documents' \in [Uris -> Contents]
    BY <1>0, <1>12 DEF Shutdown, Phases
  <2> QED
    BY <1>1, <2>1, <2>2, <2>3
<1>13. CASE ExitInTurn \/ Unexpected \/ SendFails
  <2>1. toServer # << >> /\ Takes(<< >>)
    BY <1>13 DEF ExitInTurn, Unexpected, SendFails, Handles, Receives
  <2>2. phase' \in Phases /\ encoding' \in PositionEncoding /\ documents' \in [Uris -> Contents]
    BY <1>0, <1>13 DEF ExitInTurn, Unexpected, SendFails, Fails, Phases
  <2> QED
    BY <1>1, <2>1, <2>2
<1>14. CASE EndOfMessages \/ WaitedForExit \/ Join
  <2>1. /\ UNCHANGED << toServer, toEditor, exitRead, client >>
        /\ UNCHANGED << encoding, documents >>
    BY <1>14 DEF EndOfMessages, WaitedForExit, Join, Fails
  <2>2. phase' \in Phases
    BY <1>14 DEF EndOfMessages, WaitedForExit, Join, Fails, Phases
  <2> QED
    BY <2>1, <2>2 DEF TypeOK, client
<1> QED
  BY <1>4, <1>5, <1>7, <1>8, <1>9, <1>10, <1>11, <1>12, <1>13, <1>14 DEF Server

\* What the editor asks.
AboutFile(uri, method, i) ==
  [kind |-> "Request", method |-> method, uri |-> uri,
   buffer |-> buffers[uri], at |-> i,
   position |-> IF buffers[uri].open
                THEN ClientPosition(buffers[uri].text, i, agreed)
                ELSE [line |-> 0, character |-> 0]]

LEMMA AboutFileType ==
  ASSUME TypeOK, NEW uri \in Uris, NEW i \in Nat,
         NEW method \in {"Feature", "Unknown", "Unparsable"}
  PROVE  AboutFile(uri, method, i) \in Questions
<1> DEFINE P == { ClientPosition(text, n, e) : text \in Texts, n \in Nat, e \in PositionEncoding }
                  \cup {[line |-> 0, character |-> 0]}
<1>1. buffers[uri] \in Contents /\ agreed \in PositionEncoding
  BY DEF TypeOK
<1>2. \A text \in Texts : \A n \in Nat : \A e \in PositionEncoding :
        ClientPosition(text, n, e) \in P
  OBVIOUS
<1>3. [line |-> 0, character |-> 0] \in P
  OBVIOUS
<1>4. Questions = [kind : {"Request"}, method : {"Feature", "Unknown", "Unparsable"}, uri : Uris,
                   buffer : Contents, at : Nat, position : P]
  BY DEF Questions
<1> HIDE DEF P
<1> DEFINE place == IF buffers[uri].open
                    THEN ClientPosition(buffers[uri].text, i, agreed)
                    ELSE [line |-> 0, character |-> 0]
<1>5. place \in P
  BY <1>1, <1>2, <1>3, ContentsType
<1> HIDE DEF place
<1>6. AboutFile(uri, method, i)
        = [kind |-> "Request", method |-> method, uri |-> uri,
           buffer |-> buffers[uri], at |-> i, position |-> place]
  BY DEF AboutFile, place
<1> QED
  BY <1>1, <1>4, <1>5, <1>6

\* What the editor sends, one thing in a step, as the cases of a proof.
Enquires(message) ==
  /\ message \in Asking
  /\ Asks(message)
  /\ UNCHANGED buffers
  /\ sends' \in Nat

Notifies(message, uri) ==
  /\ Sends(message)
  /\ UNCHANGED << asked, editor >>
  /\ sends' \in Nat
  /\ editor \in {"Ready", "Leaving"}
  /\ \/ message \in Opened /\ message.uri = uri
        /\ buffers' = [buffers EXCEPT ![uri] = Document(message.text, message.version)]
     \/ message \in Changed /\ message.uri = uri /\ message.changes # << >>
        /\ buffers' = [buffers EXCEPT ![uri] = Document(Last(message.changes), message.version)]
     \/ message \in Changed /\ message.changes = << >> /\ UNCHANGED buffers
     \/ message \in Closed /\ message.uri = uri
        /\ buffers' = [buffers EXCEPT ![uri] = NoDocument]
     \/ message = [kind |-> "Other"] /\ UNCHANGED buffers

SpeakCases ==
  \/ /\ editor = "Offline" /\ editor' = "Greeting"
     /\ \E offered \in Offers : Enquires([kind |-> "Initialize", offered |-> offered])
  \/ /\ editor \in {"Ready", "Leaving"} /\ UNCHANGED editor
     /\ \E uri \in Uris : \E i \in Nat : \E method \in {"Feature", "Unknown", "Unparsable"} :
          /\ i \in 1 .. IF buffers[uri].open THEN Len(buffers[uri].text) + 1 ELSE 1
          /\ Enquires(AboutFile(uri, method, i))
  \/ /\ editor = "Ready" /\ editor' = "Leaving"
     /\ Enquires([kind |-> "Shutdown"])
  \/ \E message : \E uri \in Uris : Notifies(message, uri)
  \/ /\ editor \in {"Ready", "Leaving"} /\ editor' = "Gone"
     /\ Sends([kind |-> "Exit"]) /\ UNCHANGED << buffers, asked, sends >>
  \/ Break

LEMMA SpeakSplits ==
  ASSUME TypeOK, Speak
  PROVE  SpeakCases
<1>0. sends \in Nat /\ sends + 1 \in Nat
  BY DEF TypeOK
<1>1. CASE Greet
  <2>1. PICK offered \in Offers : Asks([kind |-> "Initialize", offered |-> offered])
    BY <1>1 DEF Greet
  <2>2. [kind |-> "Initialize", offered |-> offered] \in Asking
    BY DEF Asking, Greetings
  <2>3. Enquires([kind |-> "Initialize", offered |-> offered])
    BY <1>0, <1>1, <2>1, <2>2 DEF Greet, Enquires
  <2> QED
    BY <1>1, <2>3 DEF Greet, SpeakCases
<1>2. CASE Mention
  <2>1. PICK uri \in Uris : TRUE
    BY TextsAssumption
  <2>2. Notifies([kind |-> "Other"], uri)
    BY <1>0, <1>2 DEF Mention, Talks, Counts, Notifies
  <2> QED
    BY <2>2 DEF SpeakCases
<1>3. CASE Leave
  <2>1. [kind |-> "Shutdown"] \in Asking
    BY DEF Asking, Farewells
  <2>2. Enquires([kind |-> "Shutdown"])
    BY <1>0, <1>3, <2>1 DEF Leave, Enquires
  <2> QED
    BY <1>3, <2>2 DEF Leave, SpeakCases
<1>4. CASE Exit
  BY <1>4 DEF Exit, SpeakCases
<1>5. CASE Break
  BY <1>5 DEF SpeakCases
<1>6. ASSUME NEW uri \in Uris, NEW text \in Texts, Open(uri, text)
      PROVE  SpeakCases
  <2> DEFINE message == [kind |-> "DidOpen", uri |-> uri, text |-> text, version |-> sends]
  <2>1. message \in Opened /\ message.uri = uri /\ message.text = text /\ message.version = sends
    BY <1>0 DEF Opened
  <2>2. /\ Sends(message) /\ UNCHANGED << asked, editor >> /\ sends' = sends + 1
        /\ editor \in {"Ready", "Leaving"}
        /\ buffers' = [buffers EXCEPT ![uri] = Document(text, sends)]
    BY <1>6 DEF Open, Talks, Counts
  <2> HIDE DEF message
  <2>3. Notifies(message, uri)
    BY <1>0, <2>1, <2>2 DEF Notifies
  <2> QED
    BY <2>3 DEF SpeakCases
<1>7. ASSUME NEW uri \in Uris, NEW changes \in Changes, Edit(uri, changes)
      PROVE  SpeakCases
  <2> DEFINE message == [kind |-> "DidChange", uri |-> uri, changes |-> changes, version |-> sends]
  <2>1. /\ message \in Changed /\ message.uri = uri
        /\ message.changes = changes /\ message.version = sends
    BY <1>0 DEF Changed
  <2>2. /\ Sends(message) /\ UNCHANGED << asked, editor >> /\ sends' = sends + 1
        /\ editor \in {"Ready", "Leaving"}
        /\ buffers' = IF changes = << >> THEN buffers
                      ELSE [buffers EXCEPT ![uri] = Document(Last(changes), sends)]
    BY <1>7 DEF Edit, Talks, Counts
  <2> HIDE DEF message
  <2>3. Notifies(message, uri)
    <3>1. CASE changes = << >>
      BY <1>0, <2>1, <2>2, <3>1 DEF Notifies
    <3>2. CASE changes # << >>
      BY <1>0, <2>1, <2>2, <3>2 DEF Notifies
    <3> QED
      BY <3>1, <3>2
  <2> QED
    BY <2>3 DEF SpeakCases
<1>8. ASSUME NEW uri \in Uris, Close(uri)
      PROVE  SpeakCases
  <2> DEFINE message == [kind |-> "DidClose", uri |-> uri]
  <2>1. message \in Closed /\ message.uri = uri
    BY DEF Closed
  <2>2. /\ Sends(message) /\ UNCHANGED << asked, editor >> /\ sends' = sends + 1
        /\ editor \in {"Ready", "Leaving"}
        /\ buffers' = [buffers EXCEPT ![uri] = NoDocument]
    BY <1>8 DEF Close, Talks, Counts
  <2> HIDE DEF message
  <2>3. Notifies(message, uri)
    BY <1>0, <2>1, <2>2 DEF Notifies
  <2> QED
    BY <2>3 DEF SpeakCases
<1>9. ASSUME NEW uri \in Uris, NEW method \in {"Feature", "Unknown", "Unparsable"},
             NEW i, i \in Int /\ 1 <= i, Ask(uri, method, i)
      PROVE  SpeakCases
  <2>1. /\ editor \in {"Ready", "Leaving"} /\ UNCHANGED << editor, buffers >>
        /\ sends' = sends + 1
        /\ Asks(AboutFile(uri, method, i))
        /\ i <= IF buffers[uri].open THEN Len(buffers[uri].text) + 1 ELSE 1
    BY <1>9 DEF Ask, Talks, Counts, AboutFile
  <2>2. i \in Nat
    BY <1>9
  <2>3. AboutFile(uri, method, i) \in Asking
    BY <2>2, AboutFileType DEF Asking
  <2>4. Enquires(AboutFile(uri, method, i))
    BY <1>0, <2>1, <2>3 DEF Enquires
  <2>5. i \in 1 .. IF buffers[uri].open THEN Len(buffers[uri].text) + 1 ELSE 1
    <3>1. CASE buffers[uri].open
      <4>1. buffers[uri].text \in Seq(Character)
        BY <3>1, ContentsType, TextsAssumption DEF TypeOK
      <4>2. Len(buffers[uri].text) \in Nat
        BY <4>1
      <4> QED
        BY <1>9, <2>1, <3>1, <4>2
    <3>2. CASE ~buffers[uri].open
      BY <1>9, <2>1, <3>2
    <3> QED
      BY <3>1, <3>2
  <2> QED
    BY <2>1, <2>2, <2>4, <2>5 DEF SpeakCases
<1>10. ASSUME NEW uri \in Uris, \E i \in 1 .. Max({ Len(t) : t \in Texts }) + 1 : Ask(uri, "Feature", i)
       PROVE  SpeakCases
  <2>1. PICK i \in 1 .. Max({ Len(t) : t \in Texts }) + 1 : Ask(uri, "Feature", i)
    BY <1>10
  <2>2. i \in Int /\ 1 <= i
    OBVIOUS
  <2> QED
    BY <1>9, <2>1, <2>2
<1>11. ASSUME NEW method \in {"Unknown", "Unparsable"}, Ask(CHOOSE uri \in Uris : TRUE, method, 1)
       PROVE  SpeakCases
  <2> DEFINE uri == CHOOSE u \in Uris : TRUE
  <2>1. uri \in Uris /\ Ask(uri, method, 1)
    BY <1>11, TextsAssumption
  <2> HIDE DEF uri
  <2> QED
    BY <1>9, <2>1
<1> QED
  BY <1>1, <1>2, <1>3, <1>4, <1>5, <1>6, <1>7, <1>8, <1>10, <1>11 DEF Speak

\* The messages of the editor are messages.
LEMMA AsksNumbered ==
  ASSUME TypeOK, NEW message \in Asking
  PROVE  /\ [kind |-> message.kind, id |-> Len(asked) + 1, params |-> message] \in Numbered
         /\ [kind |-> message.kind, id |-> Len(asked) + 1, params |-> message] \in Incoming
<1>1. Len(asked) + 1 \in Nat
  BY DEF TypeOK
<1>2. message.kind \in {"Initialize", "Shutdown", "Request"}
  BY DEF Asking, Greetings, Farewells, Questions
<1> QED
  BY <1>1, <1>2 DEF Numbered, Incoming

LEMMA BareTypes ==
  \A kind \in {"Initialized", "Exit", "Other"} :
    [kind |-> kind] \in Bare /\ [kind |-> kind] \in Incoming
  BY DEF Bare, Incoming

LEMMA NotifiesType ==
  ASSUME TypeOK, NEW message, NEW uri \in Uris, Notifies(message, uri)
  PROVE  message \in Incoming /\ buffers' \in [Uris -> Contents]
<1>1. buffers \in [Uris -> Contents]
  BY DEF TypeOK
<1>2. ASSUME NEW d \in Contents, buffers' = [buffers EXCEPT ![uri] = d]
      PROVE  buffers' \in [Uris -> Contents]
  BY <1>1, <1>2
<1>3. CASE /\ message \in Opened
           /\ buffers' = [buffers EXCEPT ![uri] = Document(message.text, message.version)]
  <2>1. Document(message.text, message.version) \in Contents
    BY <1>3, ContentsType DEF Opened
  <2> QED
    BY <1>2, <1>3, <2>1 DEF Incoming
<1>4. CASE /\ message \in Changed /\ message.changes # << >>
           /\ buffers' = [buffers EXCEPT ![uri] = Document(Last(message.changes), message.version)]
  <2>1. Last(message.changes) \in Texts /\ message.version \in Nat
    BY <1>4, LastChange DEF Changed
  <2>2. Document(Last(message.changes), message.version) \in Contents
    BY <2>1, ContentsType
  <2> QED
    BY <1>2, <1>4, <2>2 DEF Incoming
<1>5. CASE message \in Changed /\ UNCHANGED buffers
  BY <1>1, <1>5 DEF Incoming
<1>6. CASE message \in Closed /\ buffers' = [buffers EXCEPT ![uri] = NoDocument]
  BY <1>2, <1>6, ContentsType DEF Incoming
<1>7. CASE message = [kind |-> "Other"] /\ UNCHANGED buffers
  BY <1>1, <1>7, BareTypes
<1> QED
  BY <1>3, <1>4, <1>5, <1>6, <1>7 DEF Notifies

\* The editor's steps.
LEMMA TypeSpeak ==
  ASSUME TypeOK, Speak
  PROVE  TypeOK'
<1>1. ASSUME NEW message \in Incoming, Sends(message), asked' \in Seq(Asking),
             buffers' \in [Uris -> Contents], editor' \in Editors, sends' \in Nat
      PROVE  TypeOK'
  <2>1. toServer' \in Seq(Incoming)
    BY <1>1, QueueAppend DEF TypeOK, Sends
  <2> QED
    BY <1>1, <2>1 DEF TypeOK, Sends, server
<1>2. ASSUME NEW message, Enquires(message), editor' \in Editors
      PROVE  TypeOK'
  <2> DEFINE sent == [kind |-> message.kind, id |-> Len(asked) + 1, params |-> message]
  <2>1. /\ message \in Asking /\ Sends(sent) /\ asked' = Append(asked, message)
        /\ UNCHANGED buffers /\ sends' \in Nat
    BY <1>2 DEF Enquires, Asks
  <2>2. sent \in Incoming
    BY <2>1, AsksNumbered
  <2>3. asked' \in Seq(Asking) /\ buffers' \in [Uris -> Contents]
    BY <2>1, QueueAppend DEF TypeOK
  <2> HIDE DEF sent
  <2> QED
    BY <1>1, <1>2, <2>1, <2>2, <2>3
<1>3. ASSUME NEW message, NEW uri \in Uris, Notifies(message, uri)
      PROVE  TypeOK'
  <2>1. message \in Incoming /\ buffers' \in [Uris -> Contents]
    BY <1>3, NotifiesType
  <2>2. Sends(message) /\ asked' \in Seq(Asking) /\ editor' \in Editors /\ sends' \in Nat
    BY <1>3 DEF Notifies, TypeOK
  <2> QED
    BY <1>1, <2>1, <2>2
<1>4. CASE /\ editor \in {"Ready", "Leaving"} /\ editor' = "Gone"
           /\ Sends([kind |-> "Exit"]) /\ UNCHANGED << buffers, asked, sends >>
  <2>1. /\ asked' \in Seq(Asking) /\ buffers' \in [Uris -> Contents]
        /\ editor' \in Editors /\ sends' \in Nat
    BY <1>4 DEF TypeOK, Editors
  <2> QED
    BY <1>1, <1>4, <2>1, BareTypes
<1>5. CASE Break
  BY <1>5 DEF Break, TypeOK, server, Editors
<1>6. SpeakCases
  BY SpeakSplits
<1>7. \A e \in {"Greeting", "Leaving"} : e \in Editors
  BY DEF Editors
<1>8. editor \in Editors
  BY DEF TypeOK
<1> QED
  BY <1>2, <1>3, <1>4, <1>5, <1>6, <1>7, <1>8 DEF SpeakCases

\* What comes is taken in.
LEMMA HearTakes ==
  ASSUME TypeOK, Hear
  PROVE  /\ toEditor # << >> /\ toEditor' = Tail(toEditor)
         /\ UNCHANGED << server, exitRead, buffers, asked, sends >>
         /\ \/ /\ Head(toEditor) \in Publications
               /\ shown' = [shown EXCEPT ![Head(toEditor).uri] = Head(toEditor).ranges]
               /\ UNCHANGED << toServer, editor, agreed, answers >>
            \/ /\ Head(toEditor) \in Responses
               /\ Head(toEditor).result.answer # "Encoding"
               /\ answers' = Append(answers, Head(toEditor))
               /\ UNCHANGED << toServer, editor, agreed, shown >>
            \/ /\ Head(toEditor) \in Responses
               /\ Head(toEditor).result.answer = "Encoding"
               /\ answers' = Append(answers, Head(toEditor))
               /\ agreed' = Head(toEditor).result.encoding
               /\ UNCHANGED shown
               /\ \/ /\ editor = "Greeting" /\ editor' = "Ready"
                     /\ toServer' = Append(toServer, [kind |-> "Initialized"])
                  \/ UNCHANGED << editor, toServer >>
<1>1. toEditor # << >> /\ Head(toEditor) \in Outgoing
  BY QueueTail DEF TypeOK, Hear, HearDiagnostics, HearResponse, HearWelcome, Hears
<1>2. CASE HearDiagnostics
  <2>1. Head(toEditor) \in Publications
    BY <1>1, <1>2, OutgoingKinds DEF HearDiagnostics, Hears
  <2> QED
    BY <1>1, <1>2, <2>1 DEF HearDiagnostics, Hears
<1>3. CASE HearResponse
  <2>1. Head(toEditor) \in Responses
    BY <1>1, <1>3, OutgoingKinds DEF HearResponse, Hears
  <2> QED
    BY <1>1, <1>3, <2>1 DEF HearResponse, Hears
<1>4. CASE HearWelcome
  <2>1. Head(toEditor) \in Responses
    BY <1>1, <1>4, OutgoingKinds DEF HearWelcome
  <2> QED
    BY <1>1, <1>4, <2>1 DEF HearWelcome
<1> QED
  BY <1>2, <1>3, <1>4 DEF Hear

\* A response with an encoding names one.
LEMMA WelcomeType ==
  ASSUME NEW r \in Responses, r.result.answer = "Encoding"
  PROVE  r.result.encoding \in PositionEncoding
<1>1. r.result \in Results
  BY DEF Responses
<1> DEFINE S == { [answer |-> "Feature", text |-> text, offset |-> Offset(text, question.position, e)] :
                    text \in Texts, question \in Questions, e \in PositionEncoding }
<1>2. \A s \in S : s.answer # "Encoding"
  OBVIOUS
<1>3. Results = {Null, Error} \cup [answer : {"Encoding"}, encoding : PositionEncoding] \cup S
  BY DEF Results
<1> HIDE DEF S
<1>4. r.result # Null /\ r.result # Error /\ r.result \notin S
  BY <1>2 DEF Null, Error
<1> QED
  BY <1>1, <1>3, <1>4

LEMMA TypeHear ==
  ASSUME TypeOK, Hear
  PROVE  TypeOK'
<1>1. /\ toEditor # << >> /\ toEditor' = Tail(toEditor)
      /\ UNCHANGED << server, exitRead, buffers, asked, sends >>
  BY HearTakes
<1>2. toEditor' \in Seq(Outgoing)
  BY <1>1, QueueTail DEF TypeOK
<1>3. CASE /\ Head(toEditor) \in Publications
           /\ shown' = [shown EXCEPT ![Head(toEditor).uri] = Head(toEditor).ranges]
           /\ UNCHANGED << toServer, editor, agreed, answers >>
  <2> DEFINE R == { Ranges(document, e) : document \in Contents, e \in PositionEncoding }
  <2>1. Head(toEditor).uri \in Uris /\ Head(toEditor).ranges \in R
    BY <1>3 DEF Publications
  <2>2. shown \in [Uris -> R]
    BY DEF TypeOK
  <2> HIDE DEF R
  <2>3. shown' \in [Uris -> R]
    BY <1>3, <2>1, <2>2
  <2> QED
    BY <1>1, <1>2, <1>3, <2>3 DEF TypeOK, server, R
<1>4. CASE Head(toEditor) \in Responses /\ answers' = Append(answers, Head(toEditor)) /\ UNCHANGED shown
  <2>1. answers' \in Seq(Responses)
    BY <1>4, QueueAppend DEF TypeOK
  <2>2. CASE UNCHANGED << toServer, editor, agreed >>
    BY <1>1, <1>2, <1>4, <2>1, <2>2 DEF TypeOK, server
  <2>3. CASE /\ agreed' = Head(toEditor).result.encoding
             /\ Head(toEditor).result.answer = "Encoding"
             /\ \/ /\ editor = "Greeting" /\ editor' = "Ready"
                   /\ toServer' = Append(toServer, [kind |-> "Initialized"])
                \/ UNCHANGED << editor, toServer >>
    <3>1. agreed' \in PositionEncoding
      BY <1>4, <2>3, WelcomeType
    <3>2. toServer' \in Seq(Incoming)
      <4>1. toServer \in Seq(Incoming) /\ [kind |-> "Initialized"] \in Incoming
        BY BareTypes DEF TypeOK
      <4> QED
        BY <2>3, <4>1, QueueAppend
    <3>3. editor' \in Editors
      BY <2>3 DEF TypeOK, Editors
    <3> QED
      BY <1>1, <1>2, <1>4, <2>1, <3>1, <3>2, <3>3 DEF TypeOK, server
  <2> QED
    BY <1>4, <2>2, <2>3, HearTakes DEF Publications, Responses
<1> QED
  BY <1>3, <1>4, HearTakes

LEMMA TypeStep ==
  ASSUME TypeOK, [ServerNext]_serverVars
  PROVE  TypeOK'
<1>1. CASE UNCHANGED serverVars
  BY <1>1 DEF serverVars, server, client, TypeOK
<1> QED
  BY <1>1, TypeServer, TypeSpeak, TypeHear DEF ServerNext

-----------------------------------------------------------------------------
(* Requests and responses by their numbers.                                *)

HasId(m) == m.kind \in {"Initialize", "Shutdown", "Request"}
Requests(q) == { j \in DOMAIN q : HasId(q[j]) }
Replies(q) == { j \in DOMAIN q : q[j].kind = "Response" }
InOrder(q, J) == \A i \in J, j \in J : i < j => q[i].id < q[j].id

\* Of N requests n have been answered and heard: the responses under way are
\* those that follow, without a gap.
RepliesFollow(out, n, N) ==
  /\ InOrder(out, Replies(out))
  /\ \A i \in Replies(out) : out[i].id \in n + 1 .. N
  /\ \A i \in Replies(out) : \A d \in n + 1 .. out[i].id : \E j \in Replies(out) : out[j].id = d

\* The requests under way follow on them, up to the last.
RequestsFollow(in, out, n, N) ==
  /\ InOrder(in, Requests(in))
  /\ \A j \in Requests(in) :
       /\ in[j].id \in n + 1 .. N
       /\ \A i \in Replies(out) : out[i].id < in[j].id
  /\ \A d \in n + 1 .. N :
       \/ \E i \in Replies(out) : out[i].id = d
       \/ \E j \in Requests(in) : in[j].id = d

\* The numbers of messages, and where they are when one is added or taken.
LEMMA IdTypes ==
  /\ \A m \in Incoming : HasId(m) => m \in Numbered /\ m.id \in Nat
  /\ \A m \in Incoming : m \in Numbered => HasId(m)
  /\ \A m \in Outgoing : m.kind = "Response" => m.id \in Nat
<1>1. ASSUME NEW m \in Incoming, HasId(m)
      PROVE  m \in Numbered /\ m.id \in Nat
  <2>1. m \in Numbered
    BY <1>1, IncomingKinds DEF HasId
  <2> QED
    BY <2>1 DEF Numbered
<1>2. ASSUME NEW m \in Outgoing, m.kind = "Response"
      PROVE  m.id \in Nat
  BY <1>2, OutgoingKinds DEF Responses
<1>3. ASSUME NEW m \in Numbered
      PROVE  HasId(m)
  BY DEF HasId, Numbered
<1> QED
  BY <1>1, <1>2, <1>3

LEMMA RequestsAppend ==
  ASSUME NEW in \in Seq(Incoming), NEW m \in Incoming
  PROVE  /\ HasId(m) => Requests(Append(in, m)) = Requests(in) \cup {Len(in) + 1}
         /\ ~HasId(m) => Requests(Append(in, m)) = Requests(in)
         /\ \A j \in Requests(in) :
              /\ Append(in, m)[j] = in[j]
              /\ j \in Nat /\ j < Len(in) + 1 /\ in[j].id \in Nat
<1> DEFINE q == Append(in, m)
<1>1. /\ DOMAIN q = 1 .. Len(in) + 1 /\ DOMAIN in = 1 .. Len(in) /\ Len(in) \in Nat
      /\ \A j \in 1 .. Len(in) : q[j] = in[j]
      /\ q[Len(in) + 1] = m
  BY QueueAppend
<1>2. \A j \in 1 .. Len(in) : in[j] \in Incoming
  OBVIOUS
<1> HIDE DEF q
<1>3. \A j \in Requests(in) : j \in 1 .. Len(in) /\ q[j] = in[j] /\ in[j].id \in Nat
  BY <1>1, <1>2, IdTypes DEF Requests
<1>4. \A j : j \in Requests(q) <=> j \in Requests(in) \/ (j = Len(in) + 1 /\ HasId(m))
  BY <1>1 DEF Requests
<1>5. HasId(m) => Requests(q) = Requests(in) \cup {Len(in) + 1}
  BY <1>4
<1>6. ~(HasId(m)) => Requests(q) = Requests(in)
  BY <1>4
<1>7. \A j \in Requests(in) :
        q[j] = in[j] /\ j \in Nat /\ j < Len(in) + 1 /\ in[j].id \in Nat
  BY <1>1, <1>3
<1> QED
  BY <1>5, <1>6, <1>7 DEF q

LEMMA RepliesAppend ==
  ASSUME NEW out \in Seq(Outgoing), NEW m \in Outgoing
  PROVE  /\ m.kind = "Response" => Replies(Append(out, m)) = Replies(out) \cup {Len(out) + 1}
         /\ m.kind # "Response" => Replies(Append(out, m)) = Replies(out)
         /\ \A j \in Replies(out) :
              /\ Append(out, m)[j] = out[j]
              /\ j \in Nat /\ j < Len(out) + 1 /\ out[j].id \in Nat
<1> DEFINE q == Append(out, m)
<1>1. /\ DOMAIN q = 1 .. Len(out) + 1 /\ DOMAIN out = 1 .. Len(out) /\ Len(out) \in Nat
      /\ \A j \in 1 .. Len(out) : q[j] = out[j]
      /\ q[Len(out) + 1] = m
  BY QueueAppend
<1>2. \A j \in 1 .. Len(out) : out[j] \in Outgoing
  OBVIOUS
<1> HIDE DEF q
<1>3. \A j \in Replies(out) : j \in 1 .. Len(out) /\ q[j] = out[j] /\ out[j].id \in Nat
  BY <1>1, <1>2, IdTypes DEF Replies
<1>4. \A j : j \in Replies(q) <=> j \in Replies(out) \/ (j = Len(out) + 1 /\ m.kind = "Response")
  BY <1>1 DEF Replies
<1>5. m.kind = "Response" => Replies(q) = Replies(out) \cup {Len(out) + 1}
  BY <1>4
<1>6. ~(m.kind = "Response") => Replies(q) = Replies(out)
  BY <1>4
<1>7. \A j \in Replies(out) :
        q[j] = out[j] /\ j \in Nat /\ j < Len(out) + 1 /\ out[j].id \in Nat
  BY <1>1, <1>3
<1> QED
  BY <1>5, <1>6, <1>7 DEF q

LEMMA RequestsTail ==
  ASSUME NEW in \in Seq(Incoming), in # << >>
  PROVE  /\ \A j : j \in Requests(Tail(in)) <=> j \in Nat /\ j # 0 /\ j + 1 \in Requests(in)
         /\ \A j \in Requests(Tail(in)) : Tail(in)[j] = in[j + 1]
         /\ 1 \in Requests(in) <=> HasId(Head(in))
         /\ Head(in) = in[1]
         /\ \A j \in Requests(in) : j \in Nat /\ j # 0 /\ in[j].id \in Nat
<1>1. /\ Head(in) = in[1] /\ Len(in) \in Nat /\ 1 \in DOMAIN in
      /\ DOMAIN in = 1 .. Len(in) /\ DOMAIN Tail(in) = 1 .. Len(in) - 1
      /\ \A j \in 1 .. Len(in) - 1 : Tail(in)[j] = in[j + 1]
      /\ \A j \in 1 .. Len(in) : in[j] \in Incoming
  BY QueueTail
<1> DEFINE q == Tail(in)
<1> HIDE DEF q
<1>2. \A j : j \in Requests(q) <=> j \in Nat /\ j # 0 /\ j + 1 \in Requests(in)
  <2>1. ASSUME NEW j, j \in Requests(q)
        PROVE  j \in Nat /\ j # 0 /\ j + 1 \in Requests(in)
    <3>1. j \in 1 .. Len(in) - 1 /\ HasId(q[j])
      BY <1>1, <2>1 DEF Requests, q
    <3>2. j + 1 \in 1 .. Len(in) /\ q[j] = in[j + 1]
      BY <1>1, <3>1 DEF q
    <3> QED
      BY <1>1, <3>1, <3>2 DEF Requests
  <2>2. ASSUME NEW j \in Nat, j # 0, j + 1 \in Requests(in)
        PROVE  j \in Requests(q)
    <3>1. j + 1 \in 1 .. Len(in) /\ HasId(in[j + 1])
      BY <1>1, <2>2 DEF Requests
    <3>2. j \in 1 .. Len(in) - 1 /\ q[j] = in[j + 1]
      BY <1>1, <2>2, <3>1 DEF q
    <3> QED
      BY <1>1, <3>1, <3>2 DEF Requests, q
  <2> QED
    BY <2>1, <2>2
<1>3. \A j \in Requests(q) : q[j] = in[j + 1]
  BY <1>1 DEF Requests, q
<1>4. \A j \in Requests(in) : j \in Nat /\ j # 0 /\ in[j].id \in Nat
  BY <1>1, IdTypes DEF Requests
<1> QED
  BY <1>1, <1>2, <1>3, <1>4 DEF Requests, q

LEMMA RepliesTail ==
  ASSUME NEW out \in Seq(Outgoing), out # << >>
  PROVE  /\ \A j : j \in Replies(Tail(out)) <=> j \in Nat /\ j # 0 /\ j + 1 \in Replies(out)
         /\ \A j \in Replies(Tail(out)) : Tail(out)[j] = out[j + 1]
         /\ 1 \in Replies(out) <=> Head(out).kind = "Response"
         /\ Head(out) = out[1]
         /\ \A j \in Replies(out) : j \in Nat /\ j # 0 /\ out[j].id \in Nat
<1>1. /\ Head(out) = out[1] /\ Len(out) \in Nat /\ 1 \in DOMAIN out
      /\ DOMAIN out = 1 .. Len(out) /\ DOMAIN Tail(out) = 1 .. Len(out) - 1
      /\ \A j \in 1 .. Len(out) - 1 : Tail(out)[j] = out[j + 1]
      /\ \A j \in 1 .. Len(out) : out[j] \in Outgoing
  BY QueueTail
<1> DEFINE q == Tail(out)
<1> HIDE DEF q
<1>2. \A j : j \in Replies(q) <=> j \in Nat /\ j # 0 /\ j + 1 \in Replies(out)
  <2>1. ASSUME NEW j, j \in Replies(q)
        PROVE  j \in Nat /\ j # 0 /\ j + 1 \in Replies(out)
    <3>1. j \in 1 .. Len(out) - 1 /\ q[j].kind = "Response"
      BY <1>1, <2>1 DEF Replies, q
    <3>2. j + 1 \in 1 .. Len(out) /\ q[j] = out[j + 1]
      BY <1>1, <3>1 DEF q
    <3> QED
      BY <1>1, <3>1, <3>2 DEF Replies
  <2>2. ASSUME NEW j \in Nat, j # 0, j + 1 \in Replies(out)
        PROVE  j \in Replies(q)
    <3>1. j + 1 \in 1 .. Len(out) /\ out[j + 1].kind = "Response"
      BY <1>1, <2>2 DEF Replies
    <3>2. j \in 1 .. Len(out) - 1 /\ q[j] = out[j + 1]
      BY <1>1, <2>2, <3>1 DEF q
    <3> QED
      BY <1>1, <3>1, <3>2 DEF Replies, q
  <2> QED
    BY <2>1, <2>2
<1>3. \A j \in Replies(q) : q[j] = out[j + 1]
  BY <1>1 DEF Replies, q
<1>4. \A j \in Replies(out) : j \in Nat /\ j # 0 /\ out[j].id \in Nat
  BY <1>1, IdTypes DEF Replies
<1> QED
  BY <1>1, <1>2, <1>3, <1>4 DEF Replies, q

\* A request is answered: its number goes from the one queue to the other.
LEMMA NumberAnswered ==
  ASSUME NEW in \in Seq(Incoming), NEW out \in Seq(Outgoing), NEW n \in Nat, NEW N \in Nat,
         in # << >>, HasId(Head(in)), NEW r \in Responses, r.id = Head(in).id,
         RepliesFollow(out, n, N), RequestsFollow(in, out, n, N)
  PROVE  /\ RepliesFollow(Append(out, r), n, N)
         /\ RequestsFollow(Tail(in), Append(out, r), n, N)
<1> DEFINE o == Append(out, r)
           t == Tail(in)
           l == Len(out) + 1
<1>1. r \in Outgoing /\ r.kind = "Response" /\ l \in Nat /\ o[l] = r
  BY QueueAppend DEF Outgoing, Responses
<1>2. /\ Replies(o) = Replies(out) \cup {l}
      /\ \A j \in Replies(out) : o[j] = out[j] /\ j \in Nat /\ j < l /\ out[j].id \in Nat
  BY <1>1, RepliesAppend
<1>3. /\ \A j : j \in Requests(t) <=> j \in Nat /\ j # 0 /\ j + 1 \in Requests(in)
      /\ \A j \in Requests(t) : t[j] = in[j + 1]
      /\ 1 \in Requests(in) /\ Head(in) = in[1]
      /\ \A j \in Requests(in) : j \in Nat /\ j # 0 /\ in[j].id \in Nat
  BY RequestsTail
<1> HIDE DEF o, t, l
<1>4. r.id = in[1].id /\ r.id \in n + 1 .. N /\ \A i \in Replies(out) : out[i].id < r.id
  BY <1>3 DEF RequestsFollow
<1>5. ASSUME NEW j \in Requests(t)
      PROVE  t[j].id \in n + 1 .. N /\ t[j].id > r.id /\ \A i \in Replies(out) : out[i].id < t[j].id
  <2>1. j + 1 \in Requests(in) /\ 1 < j + 1 /\ t[j] = in[j + 1]
    BY <1>3
  <2>2. in[1].id < in[j + 1].id
    BY <1>3, <2>1 DEF RequestsFollow, InOrder
  <2>3. in[j + 1].id \in n + 1 .. N /\ \A i \in Replies(out) : out[i].id < in[j + 1].id
    BY <2>1 DEF RequestsFollow
  <2> QED
    BY <1>3, <1>4, <2>1, <2>2, <2>3
<1>6. InOrder(o, Replies(o))
  <2> SUFFICES ASSUME NEW i \in Replies(o), NEW j \in Replies(o), i < j
               PROVE  o[i].id < o[j].id
    BY DEF InOrder
  <2>1. CASE j = l
    <3>1. i \in Replies(out)
      BY <1>1, <1>2, <2>1
    <3> QED
      BY <1>1, <1>2, <1>4, <2>1, <3>1
  <2>2. CASE j # l
    <3>0. j \in Replies(out)
      BY <1>2, <2>2
    <3>1. j \in Replies(out) /\ i # l
      BY <1>1, <1>2, <3>0
    <3>2. i \in Replies(out)
      BY <1>2, <3>1
    <3> QED
      BY <1>2, <3>1, <3>2 DEF RepliesFollow, InOrder
  <2> QED
    BY <2>1, <2>2
<1>7. \A i \in Replies(o) : o[i].id \in n + 1 .. N
  BY <1>1, <1>2, <1>4 DEF RepliesFollow
\* Below the number of the first request, all are responses.
<1>8. ASSUME NEW d \in n + 1 .. N, d < r.id
      PROVE  \E j \in Replies(out) : out[j].id = d
  <2> SUFFICES ASSUME NEW j \in Requests(in), in[j].id = d
               PROVE  FALSE
    BY DEF RequestsFollow
  <2>1. j # 1 /\ j \in Nat /\ j # 0
    BY <1>3, <1>4, <1>8
  <2>2. in[1].id < in[j].id
    BY <1>3, <2>1 DEF RequestsFollow, InOrder
  <2> QED
    BY <1>3, <1>4, <1>8, <2>2
<1>9. \A d \in n + 1 .. N : d <= r.id => \E j \in Replies(o) : o[j].id = d
  <2> SUFFICES ASSUME NEW d \in n + 1 .. N, d <= r.id
               PROVE  \E j \in Replies(o) : o[j].id = d
    OBVIOUS
  <2>1. CASE d = r.id
    BY <1>1, <1>2, <2>1
  <2>2. CASE d # r.id
    <3>1. d < r.id
      BY <1>4, <2>2
    <3> QED
      BY <1>2, <1>8, <3>1
  <2> QED
    BY <2>1, <2>2
<1>10. \A i \in Replies(o) : \A d \in n + 1 .. o[i].id : \E j \in Replies(o) : o[j].id = d
  <2> SUFFICES ASSUME NEW i \in Replies(o), NEW d \in n + 1 .. o[i].id
               PROVE  \E j \in Replies(o) : o[j].id = d
    OBVIOUS
  <2>1. o[i].id <= r.id /\ o[i].id \in n + 1 .. N
    BY <1>1, <1>2, <1>4, <1>7
  <2>2. d \in n + 1 .. N /\ d <= r.id
    BY <1>4, <2>1
  <2> QED
    BY <1>9, <2>2
<1>11. RepliesFollow(o, n, N)
  BY <1>6, <1>7, <1>10 DEF RepliesFollow
<1>12. InOrder(t, Requests(t))
  <2> SUFFICES ASSUME NEW i \in Requests(t), NEW j \in Requests(t), i < j
               PROVE  t[i].id < t[j].id
    BY DEF InOrder
  <2>1. /\ i + 1 \in Requests(in) /\ j + 1 \in Requests(in) /\ i + 1 < j + 1
        /\ t[i] = in[i + 1] /\ t[j] = in[j + 1]
    BY <1>3
  <2> QED
    BY <2>1 DEF RequestsFollow, InOrder
<1>13. \A j \in Requests(t) : \A i \in Replies(o) : o[i].id < t[j].id
  BY <1>1, <1>2, <1>4, <1>5
<1>14. ASSUME NEW d \in n + 1 .. N
       PROVE  \/ \E i \in Replies(o) : o[i].id = d
              \/ \E j \in Requests(t) : t[j].id = d
  <2>1. CASE d <= r.id
    BY <1>9, <2>1
  <2>2. CASE \E i \in Replies(out) : out[i].id = d
    BY <1>2, <2>2
  <2>3. CASE d > r.id /\ \E j \in Requests(in) : in[j].id = d
    <3>1. PICK j \in Requests(in) : in[j].id = d
      BY <2>3
    <3>2. j # 1 /\ j \in Nat /\ j # 0
      BY <1>3, <1>4, <2>3, <3>1
    <3>3. j - 1 \in Nat /\ j - 1 # 0 /\ (j - 1) + 1 = j
      BY <3>2
    <3>4. j - 1 \in Requests(t) /\ t[j - 1] = in[j]
      BY <1>3, <3>3
    <3> QED
      BY <3>1, <3>4
  <2>4. d <= r.id \/ d > r.id
    BY <1>4
  <2> QED
    BY <2>1, <2>2, <2>3, <2>4 DEF RequestsFollow
<1>15. RequestsFollow(t, o, n, N)
  BY <1>5, <1>12, <1>13, <1>14 DEF RequestsFollow
<1> QED
  BY <1>11, <1>15 DEF o, t

\* What has no number is taken from the one queue, or added to the other.
LEMMA NumberSkipped ==
  ASSUME NEW in \in Seq(Incoming), NEW out, NEW n \in Nat, NEW N \in Nat,
         in # << >>, ~HasId(Head(in)), RequestsFollow(in, out, n, N)
  PROVE  RequestsFollow(Tail(in), out, n, N)
<1> DEFINE t == Tail(in)
<1>1. /\ \A j : j \in Requests(t) <=> j \in Nat /\ j # 0 /\ j + 1 \in Requests(in)
      /\ \A j \in Requests(t) : t[j] = in[j + 1]
      /\ 1 \notin Requests(in)
      /\ \A j \in Requests(in) : j \in Nat /\ j # 0 /\ in[j].id \in Nat
  BY RequestsTail
<1> HIDE DEF t
<1>2. InOrder(t, Requests(t))
  <2> SUFFICES ASSUME NEW i \in Requests(t), NEW j \in Requests(t), i < j
               PROVE  t[i].id < t[j].id
    BY DEF InOrder
  <2>1. /\ i + 1 \in Requests(in) /\ j + 1 \in Requests(in) /\ i + 1 < j + 1
        /\ t[i] = in[i + 1] /\ t[j] = in[j + 1]
    BY <1>1
  <2> QED
    BY <2>1 DEF RequestsFollow, InOrder
<1>3. ASSUME NEW j \in Requests(t)
      PROVE  t[j].id \in n + 1 .. N /\ \A i \in Replies(out) : out[i].id < t[j].id
  BY <1>1 DEF RequestsFollow
<1>4. ASSUME NEW j \in Requests(in)
      PROVE  \E i \in Requests(t) : t[i].id = in[j].id
  <2>1. j \in Nat /\ j # 0 /\ j # 1
    BY <1>1
  <2>2. j - 1 \in Nat /\ j - 1 # 0 /\ (j - 1) + 1 = j
    BY <2>1
  <2>3. j - 1 \in Requests(t) /\ t[j - 1] = in[j]
    BY <1>1, <2>2
  <2> QED
    BY <2>3
<1>5. RequestsFollow(t, out, n, N)
  BY <1>2, <1>3, <1>4 DEF RequestsFollow
<1> QED
  BY <1>5 DEF t

LEMMA NumberPublished ==
  ASSUME NEW in, NEW out \in Seq(Outgoing), NEW n \in Nat, NEW N \in Nat,
         NEW m \in Publications
  PROVE  /\ RepliesFollow(out, n, N) => RepliesFollow(Append(out, m), n, N)
         /\ RequestsFollow(in, out, n, N) => RequestsFollow(in, Append(out, m), n, N)
<1> DEFINE o == Append(out, m)
<1>1. m \in Outgoing /\ m.kind # "Response"
  BY DEF Outgoing, Publications
<1>2. /\ Replies(o) = Replies(out)
      /\ \A j \in Replies(out) : o[j] = out[j]
  BY <1>1, RepliesAppend
<1> HIDE DEF o
<1>3. RepliesFollow(out, n, N) => RepliesFollow(o, n, N)
  BY <1>2 DEF RepliesFollow, InOrder
<1>4. RequestsFollow(in, out, n, N) => RequestsFollow(in, o, n, N)
  BY <1>2 DEF RequestsFollow
<1> QED
  BY <1>3, <1>4 DEF o

\* A response is heard: it is the next.
LEMMA NumberHeard ==
  ASSUME NEW in, NEW out \in Seq(Outgoing), NEW n \in Nat, NEW N \in Nat,
         out # << >>, Head(out) \in Responses, RepliesFollow(out, n, N)
  PROVE  /\ Head(out).id = n + 1 /\ n + 1 <= N
         /\ RepliesFollow(Tail(out), n + 1, N)
         /\ RequestsFollow(in, out, n, N) => RequestsFollow(in, Tail(out), n + 1, N)
<1> DEFINE t == Tail(out)
<1>1. /\ \A j : j \in Replies(t) <=> j \in Nat /\ j # 0 /\ j + 1 \in Replies(out)
      /\ \A j \in Replies(t) : t[j] = out[j + 1]
      /\ 1 \in Replies(out) /\ Head(out) = out[1]
      /\ \A j \in Replies(out) : j \in Nat /\ j # 0 /\ out[j].id \in Nat
  BY RepliesTail DEF Responses
<1> HIDE DEF t
<1>2. out[1].id \in n + 1 .. N
  BY <1>1 DEF RepliesFollow
<1>3. \A j \in Replies(out) : j # 1 => out[1].id < out[j].id
  BY <1>1 DEF RepliesFollow, InOrder
<1>4. out[1].id = n + 1
  <2>1. n + 1 \in n + 1 .. out[1].id
    BY <1>2
  <2>2. PICK j \in Replies(out) : out[j].id = n + 1
    BY <1>1, <2>1 DEF RepliesFollow
  <2> QED
    BY <1>2, <1>3, <2>2
<1>5. ASSUME NEW j \in Replies(out), j # 1
      PROVE  j - 1 \in Replies(t) /\ t[j - 1] = out[j]
  <2>1. j - 1 \in Nat /\ j - 1 # 0 /\ (j - 1) + 1 = j
    BY <1>1, <1>5
  <2> QED
    BY <1>1, <2>1
<1>6. ASSUME NEW d \in n + 2 .. N, \E j \in Replies(out) : out[j].id = d
      PROVE  \E j \in Replies(t) : t[j].id = d
  <2>1. PICK j \in Replies(out) : out[j].id = d
    BY <1>6
  <2>2. j # 1
    BY <1>4, <2>1
  <2> QED
    BY <1>5, <2>1, <2>2
<1>7. ASSUME NEW j \in Replies(t)
      PROVE  t[j].id \in n + 2 .. N /\ j + 1 \in Replies(out) /\ t[j] = out[j + 1]
  <2>1. j + 1 \in Replies(out) /\ j + 1 # 1 /\ t[j] = out[j + 1]
    BY <1>1
  <2>2. out[1].id < out[j + 1].id /\ out[j + 1].id \in n + 1 .. N
    BY <1>3, <2>1 DEF RepliesFollow
  <2> QED
    BY <1>4, <2>1, <2>2
<1>8. RepliesFollow(t, n + 1, N)
  <2>1. InOrder(t, Replies(t))
    <3> SUFFICES ASSUME NEW i \in Replies(t), NEW j \in Replies(t), i < j
                 PROVE  t[i].id < t[j].id
      BY DEF InOrder
    <3>1. i + 1 < j + 1
      BY <1>1
    <3> QED
      BY <1>7, <3>1 DEF RepliesFollow, InOrder
  <2>2. \A i \in Replies(t) : t[i].id \in (n + 1) + 1 .. N
    BY <1>7
  <2>3. ASSUME NEW i \in Replies(t), NEW d \in (n + 1) + 1 .. t[i].id
        PROVE  \E j \in Replies(t) : t[j].id = d
    <3>1. d \in n + 2 .. N /\ d \in n + 1 .. t[i].id
      BY <1>7
    <3>2. \E j \in Replies(out) : out[j].id = d
      BY <1>7, <3>1 DEF RepliesFollow
    <3> QED
      BY <1>6, <3>1, <3>2
  <2> QED
    BY <2>1, <2>2, <2>3 DEF RepliesFollow
<1>9. ASSUME RequestsFollow(in, out, n, N)
      PROVE  RequestsFollow(in, t, n + 1, N)
  <2>1. InOrder(in, Requests(in))
    BY <1>9 DEF RequestsFollow
  <2>2. ASSUME NEW j \in Requests(in)
        PROVE  in[j].id \in (n + 1) + 1 .. N /\ \A i \in Replies(t) : t[i].id < in[j].id
    <3>1. in[j].id \in n + 1 .. N /\ \A i \in Replies(out) : out[i].id < in[j].id
      BY <1>9 DEF RequestsFollow
    <3>2. out[1].id < in[j].id
      BY <1>1, <3>1
    <3> QED
      BY <1>4, <1>7, <3>1, <3>2
  <2>3. ASSUME NEW d \in (n + 1) + 1 .. N
        PROVE  \/ \E i \in Replies(t) : t[i].id = d
               \/ \E j \in Requests(in) : in[j].id = d
    <3>1. d \in n + 2 .. N /\ d \in n + 1 .. N
      OBVIOUS
    <3> QED
      BY <1>6, <1>9, <3>1 DEF RequestsFollow
  <2> QED
    BY <2>1, <2>2, <2>3 DEF RequestsFollow
<1> QED
  BY <1>1, <1>2, <1>4, <1>8, <1>9 DEF t

LEMMA NumberShown ==
  ASSUME NEW in, NEW out \in Seq(Outgoing), NEW n \in Nat, NEW N \in Nat,
         out # << >>, Head(out) \in Publications
  PROVE  /\ RepliesFollow(out, n, N) => RepliesFollow(Tail(out), n, N)
         /\ RequestsFollow(in, out, n, N) => RequestsFollow(in, Tail(out), n, N)
<1> DEFINE t == Tail(out)
<1>0. Head(out).kind # "Response"
  BY DEF Publications
<1>1. /\ \A j : j \in Replies(t) <=> j \in Nat /\ j # 0 /\ j + 1 \in Replies(out)
      /\ \A j \in Replies(t) : t[j] = out[j + 1]
      /\ 1 \notin Replies(out)
      /\ \A j \in Replies(out) : j \in Nat /\ j # 0 /\ out[j].id \in Nat
  BY <1>0, RepliesTail
<1> HIDE DEF t
<1>2. ASSUME NEW j \in Replies(out)
      PROVE  j - 1 \in Replies(t) /\ t[j - 1] = out[j]
  <2>1. j - 1 \in Nat /\ j - 1 # 0 /\ (j - 1) + 1 = j
    BY <1>1
  <2> QED
    BY <1>1, <2>1
<1>3. ASSUME RepliesFollow(out, n, N)
      PROVE  RepliesFollow(t, n, N)
  <2>1. InOrder(t, Replies(t))
    <3> SUFFICES ASSUME NEW i \in Replies(t), NEW j \in Replies(t), i < j
                 PROVE  t[i].id < t[j].id
      BY DEF InOrder
    <3>1. /\ i + 1 < j + 1 /\ i + 1 \in Replies(out) /\ j + 1 \in Replies(out)
          /\ t[i] = out[i + 1] /\ t[j] = out[j + 1]
      BY <1>1
    <3> QED
      BY <1>3, <3>1 DEF RepliesFollow, InOrder
  <2>2. \A i \in Replies(t) : t[i].id \in n + 1 .. N
    BY <1>1, <1>3 DEF RepliesFollow
  <2>3. ASSUME NEW i \in Replies(t), NEW d \in n + 1 .. t[i].id
        PROVE  \E j \in Replies(t) : t[j].id = d
    <3>1. i + 1 \in Replies(out) /\ t[i] = out[i + 1]
      BY <1>1
    <3>2. PICK j \in Replies(out) : out[j].id = d
      BY <1>3, <3>1 DEF RepliesFollow
    <3> QED
      BY <1>2, <3>2
  <2> QED
    BY <2>1, <2>2, <2>3 DEF RepliesFollow
<1>4. ASSUME RequestsFollow(in, out, n, N)
      PROVE  RequestsFollow(in, t, n, N)
  <2>1. ASSUME NEW j \in Requests(in)
        PROVE  in[j].id \in n + 1 .. N /\ \A i \in Replies(t) : t[i].id < in[j].id
    BY <1>1, <1>4 DEF RequestsFollow
  <2>2. ASSUME NEW d \in n + 1 .. N
        PROVE  \/ \E i \in Replies(t) : t[i].id = d
               \/ \E j \in Requests(in) : in[j].id = d
    BY <1>2, <1>4 DEF RequestsFollow
  <2> QED
    BY <1>4, <2>1, <2>2 DEF RequestsFollow
<1> QED
  BY <1>3, <1>4 DEF t

\* The editor sends something without a number, or with the next.
LEMMA NumberSent ==
  ASSUME NEW in \in Seq(Incoming), NEW out, NEW n \in Nat, NEW N \in Nat,
         NEW m \in Incoming, ~HasId(m), RequestsFollow(in, out, n, N)
  PROVE  RequestsFollow(Append(in, m), out, n, N)
<1> DEFINE q == Append(in, m)
<1>1. Requests(q) = Requests(in) /\ \A j \in Requests(in) : q[j] = in[j]
  BY RequestsAppend
<1> HIDE DEF q
<1>2. RequestsFollow(q, out, n, N)
  BY <1>1 DEF RequestsFollow, InOrder
<1> QED
  BY <1>2 DEF q

LEMMA NumberAsked ==
  ASSUME NEW in \in Seq(Incoming), NEW out \in Seq(Outgoing), NEW n \in Nat, NEW N \in Nat,
         n <= N, NEW m \in Incoming, HasId(m), m.id = N + 1, RepliesFollow(out, n, N)
  PROVE  /\ RepliesFollow(out, n, N + 1)
         /\ RequestsFollow(in, out, n, N) => RequestsFollow(Append(in, m), out, n, N + 1)
<1>1. RepliesFollow(out, n, N + 1)
  BY DEF RepliesFollow
<1> DEFINE q == Append(in, m)
           l == Len(in) + 1
<1>2. /\ Requests(q) = Requests(in) \cup {l} /\ l \in Nat /\ q[l] = m
      /\ \A j \in Requests(in) : q[j] = in[j] /\ j \in Nat /\ j < l /\ in[j].id \in Nat
  <2>1. l \in Nat /\ q[l] = m
    BY QueueAppend
  <2>2. /\ Requests(q) = Requests(in) \cup {l}
        /\ \A j \in Requests(in) : q[j] = in[j] /\ j \in Nat /\ j < l /\ in[j].id \in Nat
    BY RequestsAppend
  <2> QED
    BY <2>1, <2>2
<1>3. \A i \in Replies(out) : out[i].id \in n + 1 .. N
  BY DEF RepliesFollow
<1> HIDE DEF q, l
<1>4. ASSUME RequestsFollow(in, out, n, N)
      PROVE  RequestsFollow(q, out, n, N + 1)
  <2>1. ASSUME NEW j \in Requests(in)
        PROVE  /\ q[j].id \in n + 1 .. N
               /\ \A i \in Replies(out) : out[i].id < q[j].id
    BY <1>2, <1>4 DEF RequestsFollow
  <2>2. \A i \in Replies(out) : out[i].id < q[l].id
    BY <1>2, <1>3
  <2>3. InOrder(q, Requests(q))
    <3> SUFFICES ASSUME NEW i \in Requests(q), NEW j \in Requests(q), i < j
                 PROVE  q[i].id < q[j].id
      BY DEF InOrder
    <3>0. i # l
      <4> SUFFICES ASSUME i = l
                   PROVE  FALSE
        OBVIOUS
      <4>1. CASE j = l
        BY <1>2, <4>1
      <4>2. CASE j # l
        <5>1. j \in Requests(in)
          BY <1>2, <4>2
        <5> QED
          BY <1>2, <5>1
      <4> QED
        BY <4>1, <4>2
    <3>1. i \in Requests(in)
      BY <1>2, <3>0
    <3>2. CASE j = l
      <4>1. q[i].id \in n + 1 .. N
        BY <2>1, <3>1
      <4>2. q[j].id = N + 1
        BY <1>2, <3>2
      <4> QED
        BY <4>1, <4>2
    <3>3. CASE j # l
      <4>1. j \in Requests(in)
        BY <1>2, <3>3
      <4> QED
        BY <1>2, <1>4, <3>1, <4>1 DEF RequestsFollow, InOrder
    <3> QED
      BY <3>2, <3>3
  <2>4. ASSUME NEW d \in n + 1 .. N + 1
        PROVE  \/ \E i \in Replies(out) : out[i].id = d
               \/ \E j \in Requests(q) : q[j].id = d
    <3>1. CASE d = N + 1
      BY <1>2, <3>1
    <3>2. CASE d # N + 1
      <4>1. d \in n + 1 .. N
        BY <3>2
      <4> QED
        BY <1>2, <1>4, <4>1 DEF RequestsFollow
    <3> QED
      BY <3>1, <3>2
  <2>5. ASSUME NEW j \in Requests(q)
        PROVE  q[j].id \in n + 1 .. N + 1 /\ \A i \in Replies(out) : out[i].id < q[j].id
    <3>1. CASE j = l
      BY <1>2, <2>2, <3>1
    <3>2. CASE j # l
      <4>1. j \in Requests(in)
        BY <1>2, <3>2
      <4> QED
        BY <2>1, <4>1
    <3> QED
      BY <3>1, <3>2
  <2> QED
    BY <2>3, <2>4, <2>5 DEF RequestsFollow
<1> QED
  BY <1>1, <1>4 DEF q

-----------------------------------------------------------------------------
(* What messages under way will have set when they have arrived.           *)

\* The messages of a queue at the places of T set something to the values v:
\* behind the first n of them it is d, if it has been `start' before them.
Becomes(T, v, start, n, d) ==
  \/ (\A i \in 1 .. n : i \notin T) /\ d = start
  \/ \E i \in 1 .. n : i \in T /\ v[i] = d /\ \A k \in i + 1 .. n : k \notin T

LEMMA BecomesLonger ==
  ASSUME NEW T, NEW v, NEW U, NEW w, NEW n \in Nat, NEW start, NEW d,
         \A i \in 1 .. n : (i \in U <=> i \in T) /\ v[i] = w[i],
         Becomes(T, v, start, n, d)
  PROVE  /\ Becomes(U, w, start, n, d)
         /\ n + 1 \notin U => Becomes(U, w, start, n + 1, d)
<1>1. CASE (\A i \in 1 .. n : i \notin T) /\ d = start
  BY <1>1 DEF Becomes
<1>2. CASE \E i \in 1 .. n : i \in T /\ v[i] = d /\ \A k \in i + 1 .. n : k \notin T
  <2>1. PICK i \in 1 .. n : i \in T /\ v[i] = d /\ \A k \in i + 1 .. n : k \notin T
    BY <1>2
  <2>2. i \in U /\ w[i] = d /\ \A k \in i + 1 .. n : k \notin U
    BY <2>1
  <2>3. i \in 1 .. n + 1 /\ (n + 1 \notin U => \A k \in i + 1 .. n + 1 : k \notin U)
    BY <2>2
  <2> QED
    BY <2>2, <2>3 DEF Becomes
<1> QED
  BY <1>1, <1>2 DEF Becomes

LEMMA BecomesLast ==
  ASSUME NEW U, NEW w, NEW n \in Nat, NEW start, n + 1 \in U
  PROVE  Becomes(U, w, start, n + 1, w[n + 1])
<1>1. n + 1 \in 1 .. n + 1 /\ \A k \in (n + 1) + 1 .. n + 1 : k \notin U
  OBVIOUS
<1> QED
  BY <1>1 DEF Becomes

LEMMA BecomesTaken ==
  ASSUME NEW T, NEW v, NEW U, NEW w, NEW n \in Nat, NEW start, NEW d, NEW later,
         \A i \in 1 .. n : (i \in U <=> i + 1 \in T) /\ w[i] = v[i + 1],
         1 \in T => later = v[1],
         1 \notin T => later = start,
         Becomes(T, v, start, n + 1, d)
  PROVE  Becomes(U, w, later, n, d)
<1>1. CASE (\A i \in 1 .. n + 1 : i \notin T) /\ d = start
  <2>1. \A i \in 1 .. n : i \notin U
    BY <1>1
  <2>2. 1 \notin T
    BY <1>1
  <2> QED
    BY <1>1, <2>1, <2>2 DEF Becomes
<1>2. CASE \E i \in 1 .. n + 1 : i \in T /\ v[i] = d /\ \A k \in i + 1 .. n + 1 : k \notin T
  <2>1. PICK i \in 1 .. n + 1 : i \in T /\ v[i] = d /\ \A k \in i + 1 .. n + 1 : k \notin T
    BY <1>2
  <2>2. CASE i = 1
    <3>1. \A k \in 1 .. n : k \notin U
      BY <2>1, <2>2
    <3> QED
      BY <2>1, <2>2, <3>1 DEF Becomes
  <2>3. CASE i # 1
    <3>1. i - 1 \in 1 .. n /\ (i - 1) + 1 = i
      BY <2>3
    <3>2. i - 1 \in U /\ w[i - 1] = d
      BY <2>1, <3>1
    <3>3. \A k \in (i - 1) + 1 .. n : k \notin U
      BY <2>1
    <3> QED
      BY <3>1, <3>2, <3>3 DEF Becomes
  <2> QED
    BY <2>2, <2>3
<1> QED
  BY <1>1, <1>2 DEF Becomes

\* The messages that set a document, and to what.
Touches(m, uri) ==
  \/ m.kind \in {"DidOpen", "DidClose"} /\ m.uri = uri
  \/ m.kind = "DidChange" /\ m.uri = uri /\ m.changes # << >>
Leaves(m) ==
  IF m.kind = "DidOpen" THEN Document(m.text, m.version)
  ELSE IF m.kind = "DidChange" THEN Document(Last(m.changes), m.version)
  ELSE NoDocument
Touching(q, uri) == { j \in DOMAIN q : Touches(q[j], uri) }
Left(q) == [j \in DOMAIN q |-> Leaves(q[j])]

\* The server comes to have what the editor has, and when it comes to a
\* question, what the editor had.
TextsFollow(in, uri, document, buffer) ==
  /\ Becomes(Touching(in, uri), Left(in), document, Len(in), buffer)
  /\ \A j \in DOMAIN in : in[j].kind = "Request" /\ in[j].params.uri = uri =>
       Becomes(Touching(in, uri), Left(in), document, j - 1, in[j].params.buffer)

LEMMA TextsTaken ==
  ASSUME NEW in \in Seq(Incoming), in # << >>, NEW uri, NEW document, NEW buffer,
         TextsFollow(in, uri, document, buffer)
  PROVE  TextsFollow(Tail(in), uri,
                     IF Touches(Head(in), uri) THEN Leaves(Head(in)) ELSE document, buffer)
<1> DEFINE t == Tail(in)
           T == Touching(in, uri)
           U == Touching(t, uri)
           v == Left(in)
           w == Left(t)
           later == IF Touches(Head(in), uri) THEN Leaves(Head(in)) ELSE document
<1>1. /\ Head(in) = in[1] /\ Len(in) \in Nat /\ 1 \in DOMAIN in
      /\ DOMAIN in = 1 .. Len(in) /\ DOMAIN t = 1 .. Len(in) - 1
      /\ \A j \in 1 .. Len(in) - 1 : t[j] = in[j + 1]
      /\ Len(t) = Len(in) - 1 /\ Len(in) - 1 \in Nat /\ Len(t) + 1 = Len(in)
  BY QueueTail
<1> HIDE DEF t
<1>2. \A i \in 1 .. Len(t) : (i \in U <=> i + 1 \in T) /\ w[i] = v[i + 1]
  <2> SUFFICES ASSUME NEW i \in 1 .. Len(t)
               PROVE  (i \in U <=> i + 1 \in T) /\ w[i] = v[i + 1]
    OBVIOUS
  <2>1. i \in DOMAIN t /\ i + 1 \in DOMAIN in /\ t[i] = in[i + 1]
    BY <1>1
  <2> QED
    BY <2>1 DEF Touching, Left
<1>3. (1 \in T => later = v[1]) /\ (1 \notin T => later = document)
  BY <1>1 DEF Touching, Left
<1> HIDE DEF T, U, v, w, later
<1>4. ASSUME NEW n \in 0 .. Len(t), NEW d, Becomes(T, v, document, n + 1, d)
      PROVE  Becomes(U, w, later, n, d)
  <2>1. n \in Nat /\ \A i \in 1 .. n : (i \in U <=> i + 1 \in T) /\ w[i] = v[i + 1]
    BY <1>1, <1>2
  <2> QED
    BY <1>3, <1>4, <2>1, BecomesTaken
<1>5. Becomes(U, w, later, Len(t), buffer)
  <2>1. Becomes(T, v, document, Len(t) + 1, buffer) /\ Len(t) \in 0 .. Len(t)
    BY <1>1 DEF TextsFollow, T, v
  <2> QED
    BY <1>4, <2>1
<1>6. ASSUME NEW j \in DOMAIN t, t[j].kind = "Request", t[j].params.uri = uri
      PROVE  Becomes(U, w, later, j - 1, t[j].params.buffer)
  <2>1. /\ j + 1 \in DOMAIN in /\ t[j] = in[j + 1] /\ (j + 1) - 1 = (j - 1) + 1
        /\ j - 1 \in 0 .. Len(t)
    BY <1>1
  <2>2. Becomes(T, v, document, (j + 1) - 1, in[j + 1].params.buffer)
    BY <1>6, <2>1 DEF TextsFollow, T, v
  <2> QED
    BY <1>4, <2>1, <2>2
<1> QED
  BY <1>5, <1>6 DEF TextsFollow, U, w, t, later

LEMMA TextsSent ==
  ASSUME NEW in \in Seq(Incoming), NEW m \in Incoming, NEW uri, NEW document, NEW buffer,
         TextsFollow(in, uri, document, buffer),
         m.kind = "Request" /\ m.params.uri = uri => m.params.buffer = buffer
  PROVE  TextsFollow(Append(in, m), uri, document,
                     IF Touches(m, uri) THEN Leaves(m) ELSE buffer)
<1> DEFINE q == Append(in, m)
           T == Touching(in, uri)
           U == Touching(q, uri)
           v == Left(in)
           w == Left(q)
           n == Len(in)
           later == IF Touches(m, uri) THEN Leaves(m) ELSE buffer
<1>1. /\ DOMAIN q = 1 .. n + 1 /\ DOMAIN in = 1 .. n /\ n \in Nat /\ Len(q) = n + 1
      /\ \A j \in 1 .. n : q[j] = in[j]
      /\ q[n + 1] = m
  BY QueueAppend
<1> HIDE DEF q
<1>2. \A i \in 1 .. n : (i \in U <=> i \in T) /\ v[i] = w[i]
  <2> SUFFICES ASSUME NEW i \in 1 .. n
               PROVE  (i \in U <=> i \in T) /\ v[i] = w[i]
    OBVIOUS
  <2>1. i \in DOMAIN q /\ i \in DOMAIN in /\ q[i] = in[i]
    BY <1>1
  <2> QED
    BY <2>1 DEF Touching, Left
<1>3. (n + 1 \in U <=> Touches(m, uri)) /\ w[n + 1] = Leaves(m)
  <2>1. n + 1 \in DOMAIN q
    BY <1>1
  <2> QED
    BY <1>1, <2>1 DEF Touching, Left
<1>4. Becomes(T, v, document, n, buffer)
  BY DEF TextsFollow
<1> HIDE DEF T, U, v, w, n
<1>5. Becomes(U, w, document, n, buffer)
  BY <1>1, <1>2, <1>4, BecomesLonger
<1>6. Becomes(U, w, document, n + 1, later)
  <2>1. CASE Touches(m, uri)
    BY <1>1, <1>3, <2>1, BecomesLast
  <2>2. CASE ~Touches(m, uri)
    BY <1>1, <1>2, <1>3, <1>4, <2>2, BecomesLonger
  <2> QED
    BY <2>1, <2>2
<1>7. ASSUME NEW j \in DOMAIN q, q[j].kind = "Request", q[j].params.uri = uri
      PROVE  Becomes(U, w, document, j - 1, q[j].params.buffer)
  <2>1. CASE j = n + 1
    <3>1. j - 1 = n /\ q[j].params.buffer = buffer
      BY <1>1, <1>7, <2>1
    <3> QED
      BY <1>5, <3>1
  <2>2. CASE j # n + 1
    <3>1. j \in 1 .. n /\ j - 1 \in Nat /\ q[j] = in[j]
      BY <1>1, <2>2
    <3>2. Becomes(T, v, document, j - 1, in[j].params.buffer)
      BY <1>1, <1>7, <3>1 DEF TextsFollow, T, v
    <3>3. \A i \in 1 .. j - 1 : (i \in U <=> i \in T) /\ v[i] = w[i]
      BY <1>1, <1>2, <3>1
    <3> QED
      BY <3>1, <3>2, <3>3, BecomesLonger
  <2> QED
    BY <2>1, <2>2
<1> QED
  BY <1>1, <1>6, <1>7 DEF TextsFollow, U, w, q, later

\* The same of the squiggles of a file.
Publishing(q, uri) == { j \in DOMAIN q : q[j].kind = "Diagnostics" /\ q[j].uri = uri }
Spans(q) == [j \in DOMAIN q |-> q[j].ranges]
SquigglesFollow(out, uri, now, then) ==
  Becomes(Publishing(out, uri), Spans(out), now, Len(out), then)

LEMMA SquigglesSent ==
  ASSUME NEW out \in Seq(Outgoing), NEW m \in Outgoing, NEW uri, NEW now, NEW then,
         SquigglesFollow(out, uri, now, then)
  PROVE  SquigglesFollow(Append(out, m), uri, now,
                         IF m.kind = "Diagnostics" /\ m.uri = uri THEN m.ranges ELSE then)
<1> DEFINE q == Append(out, m)
           T == Publishing(out, uri)
           U == Publishing(q, uri)
           v == Spans(out)
           w == Spans(q)
           n == Len(out)
<1>1. /\ DOMAIN q = 1 .. n + 1 /\ DOMAIN out = 1 .. n /\ n \in Nat /\ Len(q) = n + 1
      /\ \A j \in 1 .. n : q[j] = out[j]
      /\ q[n + 1] = m
  BY QueueAppend
<1> HIDE DEF q
<1>2. \A i \in 1 .. n : (i \in U <=> i \in T) /\ v[i] = w[i]
  <2> SUFFICES ASSUME NEW i \in 1 .. n
               PROVE  (i \in U <=> i \in T) /\ v[i] = w[i]
    OBVIOUS
  <2>1. i \in DOMAIN q /\ i \in DOMAIN out /\ q[i] = out[i]
    BY <1>1
  <2> QED
    BY <2>1 DEF Publishing, Spans
<1>3. (n + 1 \in U <=> m.kind = "Diagnostics" /\ m.uri = uri) /\ w[n + 1] = m.ranges
  <2>1. n + 1 \in DOMAIN q
    BY <1>1
  <2> QED
    BY <1>1, <2>1 DEF Publishing, Spans
<1>4. Becomes(T, v, now, n, then)
  BY DEF SquigglesFollow
<1> HIDE DEF T, U, v, w, n
<1>5. CASE m.kind = "Diagnostics" /\ m.uri = uri
  <2>1. Becomes(U, w, now, n + 1, m.ranges)
    <3>1. n + 1 \in U
      BY <1>3, <1>5
    <3> QED
      BY <1>1, <1>3, <3>1, BecomesLast
  <2> QED
    BY <1>1, <1>5, <2>1 DEF SquigglesFollow, U, w, q
<1>6. CASE ~(m.kind = "Diagnostics" /\ m.uri = uri)
  <2>1. Becomes(U, w, now, n + 1, then)
    BY <1>1, <1>2, <1>3, <1>4, <1>6, BecomesLonger
  <2> QED
    BY <1>1, <1>6, <2>1 DEF SquigglesFollow, U, w, q
<1> QED
  BY <1>5, <1>6

LEMMA SquigglesHeard ==
  ASSUME NEW out \in Seq(Outgoing), out # << >>, NEW uri, NEW now, NEW then,
         SquigglesFollow(out, uri, now, then)
  PROVE  SquigglesFollow(Tail(out), uri,
           IF Head(out).kind = "Diagnostics" /\ Head(out).uri = uri THEN Head(out).ranges ELSE now,
           then)
<1> DEFINE t == Tail(out)
           T == Publishing(out, uri)
           U == Publishing(t, uri)
           v == Spans(out)
           w == Spans(t)
           n == Len(t)
           later == IF Head(out).kind = "Diagnostics" /\ Head(out).uri = uri
                    THEN Head(out).ranges ELSE now
<1>1. /\ Head(out) = out[1] /\ 1 \in DOMAIN out
      /\ DOMAIN out = 1 .. n + 1 /\ DOMAIN t = 1 .. n
      /\ \A j \in 1 .. n : t[j] = out[j + 1]
      /\ n \in Nat /\ n + 1 = Len(out)
  BY QueueTail
<1> HIDE DEF t
<1>2. \A i \in 1 .. n : (i \in U <=> i + 1 \in T) /\ w[i] = v[i + 1]
  <2> SUFFICES ASSUME NEW i \in 1 .. n
               PROVE  (i \in U <=> i + 1 \in T) /\ w[i] = v[i + 1]
    OBVIOUS
  <2>1. i \in DOMAIN t /\ i + 1 \in DOMAIN out /\ t[i] = out[i + 1]
    BY <1>1
  <2> QED
    BY <2>1 DEF Publishing, Spans
<1>3. (1 \in T => later = v[1]) /\ (1 \notin T => later = now)
  BY <1>1 DEF Publishing, Spans
<1>4. Becomes(T, v, now, n + 1, then)
  BY <1>1 DEF SquigglesFollow
<1> HIDE DEF T, U, v, w, n, later
<1>5. Becomes(U, w, later, n, then)
  BY <1>1, <1>2, <1>3, <1>4, BecomesTaken
<1> QED
  BY <1>5 DEF SquigglesFollow, U, w, n, t, later

-----------------------------------------------------------------------------
(* The invariant.                                                          *)

Serving == phase \in {"Starting", "Greeted", "Running"}

\* A request about a file is answered with what the editor had in it.
Expected(question) ==
  IF question.buffer.open
  THEN [answer |-> "Feature", text |-> question.buffer.text,
        offset |-> ByteOf(question.buffer.text, question.at)]
  ELSE Null
Right(r, question) ==
  question.kind = "Request" /\ question.method = "Feature" => r.result = Expected(question)

\* The responses heard and under way are right, the requests under way what
\* has been asked.
Heard(replies, questions) ==
  \A k \in DOMAIN replies : replies[k].id = k /\ Right(replies[k], questions[k])
AllRight(out, questions) ==
  \A i \in Replies(out) : Right(out[i], questions[out[i].id])
Known(in, questions) ==
  \A j \in Requests(in) :
    in[j].id \in 1 .. Len(questions) /\ in[j].params = questions[in[j].id]

Numbers ==
  /\ Len(answers) <= Len(asked)
  /\ Heard(answers, asked)
  /\ RepliesFollow(toEditor, Len(answers), Len(asked))
  /\ AllRight(toEditor, asked)
  /\ Known(toServer, asked)
  /\ Serving => RequestsFollow(toServer, toEditor, Len(answers), Len(asked))

\* What is asked names a place of the text in the encoding agreed.
Places ==
  \A k \in DOMAIN asked : asked[k].kind = "Request" =>
    /\ phase # "Starting"
    /\ asked[k].buffer.open =>
         /\ asked[k].at \in 1 .. Len(asked[k].buffer.text) + 1
         /\ asked[k].position = ClientPosition(asked[k].buffer.text, asked[k].at, encoding)

TextsArrive ==
  Serving => \A uri \in Uris : TextsFollow(toServer, uri, documents[uri], buffers[uri])

SquigglesArrive ==
  \A uri \in Uris :
    SquigglesFollow(toEditor, uri, shown[uri], Ranges(documents[uri], encoding))

\* The encoding is settled once, before anything is said in it.
Welcomes(q) == { i \in Replies(q) : q[i].result.answer = "Encoding" }
Settled ==
  /\ phase = "Starting" =>
       /\ toEditor = << >>
       /\ editor \in {"Offline", "Greeting", "Gone", "Dead"}
       /\ \A uri \in Uris : documents[uri] = NoDocument
  /\ \A i \in Welcomes(toEditor) : toEditor[i].result.encoding = encoding
  /\ editor \in {"Ready", "Leaving"} => agreed = encoding /\ phase # "Starting"
  /\ agreed = encoding \/ Welcomes(toEditor) # {}

ServerInv ==
  TypeOK /\ Numbers /\ Places /\ TextsArrive /\ SquigglesArrive /\ Settled

\* What the server does, as the cases of a proof.
ServerCases ==
  \/ /\ phase = "Starting" /\ phase' = "Greeted"
     /\ toServer # << >> /\ Head(toServer) \in Numbered /\ Head(toServer).kind = "Initialize"
     /\ encoding' \in PositionEncoding /\ UNCHANGED documents
     /\ Takes(<< Response([answer |-> "Encoding", encoding |-> encoding']) >>)
  \/ /\ phase = "Running" /\ toServer # << >> /\ ~HasId(Head(toServer))
     /\ \E uri \in Uris :
          /\ Touches(Head(toServer), uri)
          /\ Leaves(Head(toServer)) \in Contents
          /\ Sets(uri, Leaves(Head(toServer)))
  \/ /\ phase \in {"Greeted", "Running"} /\ phase' = "Running"
     /\ toServer # << >> /\ ~HasId(Head(toServer))
     /\ \A uri \in Uris : ~Touches(Head(toServer), uri)
     /\ Takes(<< >>) /\ UNCHANGED << encoding, documents >>
  \/ /\ phase = "Running" /\ UNCHANGED server
     /\ toServer # << >> /\ Head(toServer) \in Numbered /\ Head(toServer).kind = "Request"
     /\ Takes(<< Response(Answer(Head(toServer).params)) >>)
  \/ /\ phase = "Running" /\ phase' = "Leaving" /\ UNCHANGED << encoding, documents >>
     /\ toServer # << >> /\ Head(toServer) \in Numbered /\ Head(toServer).kind = "Shutdown"
     /\ Takes(<< Response(Null) >>)
  \/ /\ phase' \in {"Leaving", "Returned", "Stopped", "Failed"}
     /\ UNCHANGED << encoding, documents >>
     /\ \/ toServer # << >> /\ Takes(<< >>)
        \/ UNCHANGED << toServer, toEditor, client >>

LEMMA ServerSplits ==
  ASSUME TypeOK, Server
  PROVE  ServerCases
<1> DEFINE message == Head(toServer)
<1>0. toServer # << >> => message \in Incoming
  BY QueueTail DEF TypeOK
<1>1. CASE Initialize
  <2>1. toServer # << >> /\ message \in Numbered /\ message.kind = "Initialize"
    BY <1>0, <1>1, IncomingKinds DEF Initialize, Receives
  <2>2. encoding' \in PositionEncoding
    BY <1>1, NegotiateType DEF Initialize
  <2> QED
    BY <1>1, <2>1, <2>2 DEF Initialize, ServerCases
<1>2. CASE Initialized
  <2>1. toServer # << >> /\ message.kind = "Initialized"
    BY <1>2 DEF Initialized, Receives
  <2>2. ~HasId(message) /\ \A uri \in Uris : ~Touches(message, uri)
    BY <2>1 DEF HasId, Touches
  <2> QED
    BY <1>2, <2>1, <2>2 DEF Initialized, ServerCases
\* The same of a step that sets a document.
<1>3. ASSUME phase = "Running", toServer # << >>, ~HasId(message),
             NEW uri \in Uris, Touches(message, uri), Leaves(message) \in Contents,
             Sets(uri, Leaves(message))
      PROVE  ServerCases
  BY <1>3 DEF ServerCases
<1>4. CASE DidOpen
  <2>1. phase = "Running" /\ toServer # << >> /\ message \in Opened /\ message.kind = "DidOpen"
    BY <1>0, <1>4, IncomingKinds DEF DidOpen, Handles, Receives
  <2>2. /\ message.uri \in Uris /\ Document(message.text, message.version) \in Contents
        /\ Leaves(message) = Document(message.text, message.version)
    BY <2>1, ContentsType DEF Opened, Leaves
  <2>3. Sets(message.uri, Document(message.text, message.version))
    BY <1>4 DEF DidOpen
  <2>4. ~HasId(message) /\ Touches(message, message.uri)
    BY <2>1 DEF HasId, Touches
  <2> HIDE DEF message
  <2> QED
    BY <1>3, <2>1, <2>2, <2>3, <2>4
<1>5. CASE DidChange
  <2>1. phase = "Running" /\ toServer # << >> /\ message \in Changed /\ message.kind = "DidChange"
    BY <1>0, <1>5, IncomingKinds DEF DidChange, Handles, Receives
  <2>2. ~HasId(message)
    BY <2>1 DEF HasId
  <2>3. CASE message.changes = << >>
    <3>1. Takes(<< >>) /\ UNCHANGED server
      BY <1>5, <2>3 DEF DidChange
    <3>2. \A uri \in Uris : ~Touches(message, uri)
      BY <2>1, <2>3 DEF Touches
    <3> QED
      BY <2>1, <2>2, <3>1, <3>2 DEF ServerCases, server
  <2>4. CASE message.changes # << >>
    <3>1. /\ message.uri \in Uris /\ message.version \in Nat
          /\ Last(message.changes) \in Texts
      BY <2>1, <2>4, LastChange DEF Changed
    <3>2. /\ Document(Last(message.changes), message.version) \in Contents
          /\ Leaves(message) = Document(Last(message.changes), message.version)
      BY <2>1, <3>1, ContentsType DEF Leaves
    <3>3. Sets(message.uri, Document(Last(message.changes), message.version))
      BY <1>5, <2>4 DEF DidChange, Current
    <3>4. Touches(message, message.uri)
      BY <2>1, <2>4 DEF Touches
    <3> HIDE DEF message
    <3> QED
      BY <1>3, <2>1, <2>2, <3>1, <3>2, <3>3, <3>4
  <2> QED
    BY <2>3, <2>4
<1>6. CASE DidClose
  <2>1. phase = "Running" /\ toServer # << >> /\ message \in Closed /\ message.kind = "DidClose"
    BY <1>0, <1>6, IncomingKinds DEF DidClose, Handles, Receives
  <2>2. message.uri \in Uris /\ NoDocument \in Contents /\ Leaves(message) = NoDocument
    BY <2>1, ContentsType DEF Closed, Leaves
  <2>3. Sets(message.uri, NoDocument)
    BY <1>6 DEF DidClose
  <2>4. ~HasId(message) /\ Touches(message, message.uri)
    BY <2>1 DEF HasId, Touches
  <2> HIDE DEF message
  <2> QED
    BY <1>3, <2>1, <2>2, <2>3, <2>4
<1>7. CASE Ignore
  <2>1. phase = "Running" /\ toServer # << >> /\ message.kind \in {"Other", "Exit"}
    BY <1>7 DEF Ignore, Handles, Receives
  <2>2. ~HasId(message) /\ \A uri \in Uris : ~Touches(message, uri)
    BY <2>1 DEF HasId, Touches
  <2>3. Takes(<< >>) /\ UNCHANGED server
    BY <1>7 DEF Ignore
  <2> QED
    BY <2>1, <2>2, <2>3 DEF ServerCases, server
<1>8. CASE Dispatch
  <2>1. /\ phase = "Running" /\ toServer # << >>
        /\ message \in Numbered /\ message.kind = "Request"
    BY <1>0, <1>8, IncomingKinds DEF Dispatch, Handles, Receives
  <2> QED
    BY <1>8, <2>1 DEF Dispatch, ServerCases
<1>9. CASE Shutdown
  <2>1. /\ phase = "Running" /\ toServer # << >>
        /\ message \in Numbered /\ message.kind = "Shutdown"
    BY <1>0, <1>9, IncomingKinds DEF Shutdown, Handles, Receives
  <2> QED
    BY <1>9, <2>1 DEF Shutdown, ServerCases
<1>10. CASE ExitInTurn \/ Unexpected \/ SendFails
  <2>1. toServer # << >> /\ Takes(<< >>)
    BY <1>10 DEF ExitInTurn, Unexpected, SendFails, Handles, Receives
  <2>2. /\ phase' \in {"Leaving", "Returned", "Stopped", "Failed"}
        /\ UNCHANGED << encoding, documents >>
    BY <1>10 DEF ExitInTurn, Unexpected, SendFails, Fails
  <2> QED
    BY <2>1, <2>2 DEF ServerCases
<1>11. CASE EndOfMessages \/ WaitedForExit \/ Join
  <2>1. UNCHANGED << toServer, toEditor, client >>
    BY <1>11 DEF EndOfMessages, WaitedForExit, Join
  <2>2. /\ phase' \in {"Leaving", "Returned", "Stopped", "Failed"}
        /\ UNCHANGED << encoding, documents >>
    BY <1>11 DEF EndOfMessages, WaitedForExit, Join, Fails
  <2> QED
    BY <2>1, <2>2 DEF ServerCases
<1> QED
  BY <1>1, <1>2, <1>4, <1>5, <1>6, <1>7, <1>8, <1>9, <1>10, <1>11 DEF Server

LEMMA InvInit == ServerInit => ServerInv
<1> SUFFICES ASSUME ServerInit PROVE ServerInv
  OBVIOUS
<1>1. TypeOK
  BY TypeInit
<1>2. /\ toServer = << >> /\ toEditor = << >> /\ asked = << >> /\ answers = << >>
      /\ phase = "Starting" /\ editor = "Offline" /\ agreed = encoding
  BY DEF ServerInit
<1>3. \A uri \in Uris : documents[uri] = NoDocument /\ buffers[uri] = NoDocument /\ shown[uri] = {}
  BY DEF ServerInit
<1>4. /\ DOMAIN toServer = {} /\ DOMAIN toEditor = {} /\ DOMAIN asked = {} /\ DOMAIN answers = {}
      /\ Len(asked) = 0 /\ Len(answers) = 0 /\ Len(toServer) = 0 /\ Len(toEditor) = 0
  BY <1>2
<1>5. Requests(toServer) = {} /\ Replies(toEditor) = {} /\ Welcomes(toEditor) = {}
  BY <1>4 DEF Requests, Replies, Welcomes
<1>6. Numbers
  <2>1. \A d : d \notin 0 + 1 .. 0
    OBVIOUS
  <2>2. RepliesFollow(toEditor, 0, 0) /\ RequestsFollow(toServer, toEditor, 0, 0)
    BY <1>5, <2>1 DEF RepliesFollow, RequestsFollow, InOrder
  <2> QED
    BY <1>4, <1>5, <2>2 DEF Numbers, Heard, AllRight, Known
<1>7. Places
  BY <1>4 DEF Places
<1>8. TextsArrive
  BY <1>3, <1>4 DEF TextsArrive, TextsFollow, Becomes
<1>9. SquigglesArrive
  <2>1. Ranges(NoDocument, encoding) = {}
    BY DEF Ranges, NoDocument
  <2>2. \A T, v : Becomes(T, v, {}, 0, {})
    BY DEF Becomes
  <2> SUFFICES ASSUME NEW uri \in Uris
               PROVE  SquigglesFollow(toEditor, uri, shown[uri], Ranges(documents[uri], encoding))
    BY DEF SquigglesArrive
  <2>3. shown[uri] = {} /\ Ranges(documents[uri], encoding) = {} /\ Len(toEditor) = 0
    BY <1>3, <1>4, <2>1
  <2> QED
    BY <2>2, <2>3 DEF SquigglesFollow
<1>10. Settled
  BY <1>2, <1>3, <1>5 DEF Settled
<1> QED
  BY <1>1, <1>6, <1>7, <1>8, <1>9, <1>10 DEF ServerInv

\* Taking and giving preserve what the messages say.
LEMMA KnownTail ==
  ASSUME NEW in \in Seq(Incoming), in # << >>, NEW questions, Known(in, questions)
  PROVE  Known(Tail(in), questions)
<1>1. /\ \A j : j \in Requests(Tail(in)) <=> j \in Nat /\ j # 0 /\ j + 1 \in Requests(in)
      /\ \A j \in Requests(Tail(in)) : Tail(in)[j] = in[j + 1]
  BY RequestsTail
<1> QED
  BY <1>1 DEF Known

LEMMA KnownSent ==
  ASSUME NEW in \in Seq(Incoming), NEW m \in Incoming, ~HasId(m),
         NEW questions, Known(in, questions)
  PROVE  Known(Append(in, m), questions)
<1>1. /\ Requests(Append(in, m)) = Requests(in)
      /\ \A j \in Requests(in) : Append(in, m)[j] = in[j]
  BY RequestsAppend
<1> QED
  BY <1>1 DEF Known

LEMMA KnownAsked ==
  ASSUME NEW in \in Seq(Incoming), NEW m \in Incoming, HasId(m),
         NEW questions \in Seq(Asking), NEW question \in Asking,
         m.id = Len(questions) + 1, m.params = question,
         Known(in, questions)
  PROVE  Known(Append(in, m), Append(questions, question))
<1> DEFINE q == Append(in, m)
           all == Append(questions, question)
<1>1. /\ Requests(q) = Requests(in) \cup {Len(in) + 1}
      /\ \A j \in Requests(in) : q[j] = in[j]
  BY RequestsAppend
<1>2. q[Len(in) + 1] = m
  BY QueueAppend
<1>3. /\ Len(all) = Len(questions) + 1 /\ Len(questions) \in Nat
      /\ \A k \in 1 .. Len(questions) : all[k] = questions[k]
      /\ all[Len(questions) + 1] = question
  OBVIOUS
<1> HIDE DEF q, all
<1> SUFFICES ASSUME NEW j \in Requests(q)
             PROVE  q[j].id \in 1 .. Len(all) /\ q[j].params = all[q[j].id]
  BY DEF Known, q, all
<1>4. CASE j \in Requests(in)
  <2>1. in[j].id \in 1 .. Len(questions) /\ in[j].params = questions[in[j].id] /\ q[j] = in[j]
    BY <1>1, <1>4 DEF Known
  <2>2. all[in[j].id] = questions[in[j].id] /\ in[j].id \in 1 .. Len(all)
    BY <1>3, <2>1
  <2> QED
    BY <2>1, <2>2
<1>5. CASE j = Len(in) + 1
  <2>1. q[j] = m /\ Len(questions) + 1 \in 1 .. Len(all)
    BY <1>2, <1>3, <1>5
  <2> QED
    BY <1>3, <2>1
<1> QED
  BY <1>1, <1>4, <1>5

LEMMA RightTail ==
  ASSUME NEW out \in Seq(Outgoing), out # << >>, NEW questions, AllRight(out, questions)
  PROVE  AllRight(Tail(out), questions)
<1>1. /\ \A j : j \in Replies(Tail(out)) <=> j \in Nat /\ j # 0 /\ j + 1 \in Replies(out)
      /\ \A j \in Replies(Tail(out)) : Tail(out)[j] = out[j + 1]
  BY RepliesTail
<1> QED
  BY <1>1 DEF AllRight

LEMMA RightSent ==
  ASSUME NEW out \in Seq(Outgoing), NEW m \in Outgoing, NEW questions,
         m.kind = "Response" => Right(m, questions[m.id]), AllRight(out, questions)
  PROVE  AllRight(Append(out, m), questions)
<1> DEFINE q == Append(out, m)
<1>1. /\ m.kind = "Response" => Replies(q) = Replies(out) \cup {Len(out) + 1}
      /\ m.kind # "Response" => Replies(q) = Replies(out)
      /\ \A j \in Replies(out) : q[j] = out[j]
  BY RepliesAppend
<1>2. q[Len(out) + 1] = m
  BY QueueAppend
<1> HIDE DEF q
<1>3. AllRight(q, questions)
  BY <1>1, <1>2 DEF AllRight
<1> QED
  BY <1>3 DEF q

LEMMA RightAsked ==
  ASSUME NEW out, NEW questions \in Seq(Asking), NEW question \in Asking, NEW n \in Nat,
         RepliesFollow(out, n, Len(questions)), AllRight(out, questions)
  PROVE  AllRight(out, Append(questions, question))
<1> DEFINE all == Append(questions, question)
<1>1. \A k \in 1 .. Len(questions) : all[k] = questions[k]
  OBVIOUS
<1>2. \A i \in Replies(out) : out[i].id \in 1 .. Len(questions)
  BY DEF RepliesFollow
<1> HIDE DEF all
<1>3. AllRight(out, all)
  BY <1>1, <1>2 DEF AllRight
<1> QED
  BY <1>3 DEF all

LEMMA HeardAsked ==
  ASSUME NEW replies \in Seq(Responses), NEW questions \in Seq(Asking), NEW question \in Asking,
         Len(replies) <= Len(questions), Heard(replies, questions)
  PROVE  Heard(replies, Append(questions, question))
<1> DEFINE all == Append(questions, question)
<1>1. \A k \in 1 .. Len(questions) : all[k] = questions[k]
  OBVIOUS
<1>2. \A k \in DOMAIN replies : k \in 1 .. Len(questions)
  OBVIOUS
<1> HIDE DEF all
<1>3. Heard(replies, all)
  BY <1>1, <1>2 DEF Heard
<1> QED
  BY <1>3 DEF all

LEMMA HeardMore ==
  ASSUME NEW replies \in Seq(Responses), NEW questions, NEW r \in Responses,
         r.id = Len(replies) + 1, Right(r, questions[r.id]), Heard(replies, questions)
  PROVE  Heard(Append(replies, r), questions)
<1> DEFINE all == Append(replies, r)
<1>1. /\ DOMAIN all = 1 .. Len(replies) + 1 /\ DOMAIN replies = 1 .. Len(replies)
      /\ Len(replies) \in Nat
      /\ \A k \in 1 .. Len(replies) : all[k] = replies[k]
      /\ all[Len(replies) + 1] = r
  BY QueueAppend
<1> HIDE DEF all
<1>2. Heard(all, questions)
  BY <1>1 DEF Heard
<1> QED
  BY <1>2 DEF all

\* What the server takes, and sends.
LEMMA TakesOne ==
  ASSUME TypeOK, NEW m \in Outgoing, Takes(<< m >>)
  PROVE  /\ toServer' = Tail(toServer) /\ toEditor' = Append(toEditor, m)
         /\ UNCHANGED << editor, agreed, buffers, shown, asked, answers, sends >>
<1>1. toEditor' = Append(toEditor, m)
  BY QueueConcat DEF TypeOK, Takes
<1> QED
  BY <1>1 DEF Takes, client

LEMMA TakesNone ==
  ASSUME TypeOK, Takes(<< >>)
  PROVE  /\ toServer' = Tail(toServer) /\ toEditor' = toEditor
         /\ UNCHANGED << editor, agreed, buffers, shown, asked, answers, sends >>
<1>1. toEditor' = toEditor
  BY QueueConcat DEF TypeOK, Takes
<1> QED
  BY <1>1 DEF Takes, client

LEMMA ResponseType ==
  ASSUME NEW m \in Numbered, m = Head(toServer), NEW r \in Results
  PROVE  /\ Response(r) \in Responses /\ Response(r) \in Outgoing
         /\ Response(r).kind = "Response"
         /\ Response(r).id = m.id /\ Response(r).result = r
  BY DEF Response, Numbered, Outgoing, Responses

\* What it sets, and publishes.
LEMMA SetsTakes ==
  ASSUME TypeOK, NEW uri \in Uris, NEW document \in Contents, Sets(uri, document)
  PROVE  /\ toServer' = Tail(toServer)
         /\ \E m \in Publications :
              /\ m.uri = uri /\ m.ranges = Ranges(document, encoding)
              /\ m \in Outgoing /\ m.kind = "Diagnostics"
              /\ toEditor' = Append(toEditor, m)
         /\ UNCHANGED << editor, agreed, buffers, shown, asked, answers, sends, phase, encoding >>
         /\ documents'[uri] = document
         /\ \A other \in Uris : other # uri => documents'[other] = documents[other]
<1> DEFINE m == Published(uri, document)
<1>1. /\ m \in Publications /\ m \in Outgoing /\ m.ranges = Ranges(document, encoding)
      /\ m.uri = uri /\ m.kind = "Diagnostics"
  BY PublishedType
<1>2. Takes(<< m >>) /\ UNCHANGED << phase, encoding >>
      /\ documents' = [documents EXCEPT ![uri] = document]
  BY DEF Sets
<1> HIDE DEF m
<1>3. /\ toServer' = Tail(toServer) /\ toEditor' = Append(toEditor, m)
      /\ UNCHANGED << editor, agreed, buffers, shown, asked, answers, sends >>
  BY <1>1, <1>2, TakesOne
<1>4. /\ documents'[uri] = document
      /\ \A other \in Uris : other # uri => documents'[other] = documents[other]
  BY <1>2 DEF TypeOK
<1> QED
  BY <1>1, <1>2, <1>3, <1>4

-----------------------------------------------------------------------------
(* The steps of the server.                                                *)

\* A request is a response, of a feature the right one.
LEMMA AnswerRight ==
  ASSUME ServerInv, phase = "Running", toServer # << >>,
         Head(toServer) \in Numbered, Head(toServer).kind = "Request"
  PROVE  /\ Answer(Head(toServer).params) \in Results
         /\ Answer(Head(toServer).params).answer # "Encoding"
         /\ LET question == Head(toServer).params
            IN  question.method = "Feature" => Answer(question) = Expected(question)
<1> DEFINE question == Head(toServer).params
<1>1. question \in Questions /\ question.kind = "Request"
  BY DEF Numbered, Asking, Greetings, Farewells
<1>2. Answer(question) \in Results
  <2>1. TypeOK /\ question \in Asking
    BY <1>1 DEF ServerInv, Asking
  <2> HIDE DEF question
  <2> QED
    BY <1>1, <2>1, AnswerType
<1>3. question.uri \in Uris /\ question.buffer \in Contents
  BY <1>1 DEF Questions
<1>4. HasId(Head(toServer)) /\ toServer[1] = Head(toServer) /\ 1 \in DOMAIN toServer
  BY QueueTail DEF ServerInv, TypeOK, HasId
<1>5. 1 \in Requests(toServer)
  BY <1>4 DEF Requests
<1>6. Head(toServer).id \in 1 .. Len(asked) /\ question = asked[Head(toServer).id]
  BY <1>4, <1>5 DEF ServerInv, Numbers, Known
\* The document is what the editor had in the file.
<1>7. documents[question.uri] = question.buffer
  <2>1. TextsFollow(toServer, question.uri, documents[question.uri], buffers[question.uri])
    BY <1>3 DEF ServerInv, TextsArrive, Serving
  <2>2. Becomes(Touching(toServer, question.uri), Left(toServer),
                documents[question.uri], 1 - 1, question.buffer)
    BY <1>1, <1>4, <2>1 DEF TextsFollow
  <2>3. \A i : i \notin 1 .. 1 - 1
    OBVIOUS
  <2> QED
    BY <2>2, <2>3 DEF Becomes
\* And the position names the place in it.
<1>8. question.buffer.open =>
        Offset(question.buffer.text, question.position, encoding)
          = ByteOf(question.buffer.text, question.at)
  <2> SUFFICES ASSUME question.buffer.open
               PROVE  Offset(question.buffer.text, question.position, encoding)
                        = ByteOf(question.buffer.text, question.at)
    OBVIOUS
  <2>1. Head(toServer).id \in DOMAIN asked
    BY <1>6 DEF ServerInv, TypeOK
  <2>2. /\ question.at \in 1 .. Len(question.buffer.text) + 1
        /\ question.position = ClientPosition(question.buffer.text, question.at, encoding)
    BY <1>1, <1>6, <2>1 DEF ServerInv, Places
  <2>3. question.buffer.text \in Seq(Character) /\ encoding \in PositionEncoding
    BY <1>3, ContentsType, TextsAssumption DEF ServerInv, TypeOK
  <2> HIDE DEF question
  <2> QED
    BY <2>2, <2>3, OffsetOfPosition
<1> HIDE DEF question
<1>9. CASE question.method = "Unparsable"
  <2>1. Answer(question) = Error
    BY <1>9, Zenon DEF Answer
  <2> QED
    BY <1>2, <1>9, <2>1 DEF Error, question
<1>10. CASE question.method # "Unparsable" /\ (question.method = "Unknown" \/ ~documents[question.uri].open)
  <2>1. Answer(question) = Null
    BY <1>10 DEF Answer
  <2>2. question.method = "Feature" => Null = Expected(question)
    BY <1>7, <1>10 DEF Expected
  <2> QED
    BY <1>2, <2>1, <2>2 DEF Null, question
<1>11. CASE question.method # "Unparsable" /\ ~(question.method = "Unknown" \/ ~documents[question.uri].open)
  <2>1. Answer(question)
          = [answer |-> "Feature", text |-> question.buffer.text,
             offset |-> Offset(question.buffer.text, question.position, encoding)]
    BY <1>7, <1>11, Zenon DEF Answer
  <2>2. Answer(question) = Expected(question)
    BY <1>7, <1>8, <1>11, <2>1 DEF Expected
  <2>3. Answer(question).answer # "Encoding"
    BY <2>1
  <2> QED
    BY <1>2, <2>2, <2>3 DEF question
<1> QED
  BY <1>9, <1>10, <1>11

\* A response goes out for the request that comes in.
LEMMA ServerAnswers ==
  ASSUME ServerInv, Serving, toServer # << >>, Head(toServer) \in Numbered,
         NEW r \in Results, Takes(<< Response(r) >>),
         LET question == Head(toServer).params
         IN  question.kind = "Request" /\ question.method = "Feature" => r = Expected(question),
         phase' # "Starting"
  PROVE  /\ Numbers'
         /\ toServer' = Tail(toServer) /\ HasId(Head(toServer))
         /\ \E m \in Responses : m.result = r /\ m \in Outgoing /\ m.kind = "Response"
              /\ toEditor' = Append(toEditor, m)
         /\ UNCHANGED << editor, agreed, buffers, shown, asked, answers, sends >>
<1> DEFINE m == Response(r)
           n == Len(answers)
           N == Len(asked)
<1>0. TypeOK /\ toServer \in Seq(Incoming) /\ toEditor \in Seq(Outgoing) /\ n \in Nat /\ N \in Nat
  BY DEF ServerInv, TypeOK
<1>1. /\ m \in Responses /\ m \in Outgoing /\ m.kind = "Response"
      /\ m.id = Head(toServer).id /\ m.result = r
  BY ResponseType
<1>2. /\ toServer' = Tail(toServer) /\ toEditor' = Append(toEditor, m)
      /\ UNCHANGED << editor, agreed, buffers, shown, asked, answers, sends >>
  BY <1>0, <1>1, TakesOne
<1>3. HasId(Head(toServer)) /\ toServer[1] = Head(toServer) /\ 1 \in Requests(toServer)
  BY <1>0, QueueTail DEF HasId, Numbered, Requests
<1>4. Head(toServer).params = asked[m.id]
  BY <1>1, <1>3 DEF ServerInv, Numbers, Known
<1>5. Right(m, asked[m.id])
  BY <1>1, <1>4 DEF Right
<1> HIDE DEF m
<1>6. /\ Len(answers) <= Len(asked) /\ Heard(answers, asked)
      /\ RepliesFollow(toEditor, n, N) /\ AllRight(toEditor, asked) /\ Known(toServer, asked)
      /\ RequestsFollow(toServer, toEditor, n, N)
  BY DEF ServerInv, Numbers
<1>7. /\ RepliesFollow(Append(toEditor, m), n, N)
      /\ RequestsFollow(Tail(toServer), Append(toEditor, m), n, N)
  <2> HIDE DEF n, N
  <2> QED
    BY <1>0, <1>1, <1>3, <1>6, NumberAnswered
<1>8. AllRight(Append(toEditor, m), asked) /\ Known(Tail(toServer), asked)
  BY <1>0, <1>1, <1>5, <1>6, RightSent, KnownTail
<1>9. Numbers'
  BY <1>2, <1>6, <1>7, <1>8 DEF Numbers
<1> QED
  BY <1>1, <1>2, <1>3, <1>9

\* What is taken and not answered.
LEMMA NumbersTaken ==
  ASSUME ServerInv, toServer # << >>,
         toServer' = Tail(toServer), UNCHANGED << asked, answers >>,
         \/ UNCHANGED toEditor
         \/ \E m \in Publications : toEditor' = Append(toEditor, m),
         Serving' => Serving /\ ~HasId(Head(toServer))
  PROVE  Numbers'
<1> DEFINE n == Len(answers)
           N == Len(asked)
<1>0. toServer \in Seq(Incoming) /\ toEditor \in Seq(Outgoing) /\ n \in Nat /\ N \in Nat
  BY DEF ServerInv, TypeOK
<1>1. /\ Len(answers) <= Len(asked) /\ Heard(answers, asked)
      /\ RepliesFollow(toEditor, n, N) /\ AllRight(toEditor, asked) /\ Known(toServer, asked)
      /\ Serving => RequestsFollow(toServer, toEditor, n, N)
  BY DEF ServerInv, Numbers
<1>2. Known(Tail(toServer), asked)
  BY <1>0, <1>1, KnownTail
<1> HIDE DEF n, N
<1>3. Serving' => RequestsFollow(Tail(toServer), toEditor, n, N)
  BY <1>0, <1>1, NumberSkipped
<1>4. CASE UNCHANGED toEditor
  BY <1>1, <1>2, <1>3, <1>4 DEF Numbers, n, N
<1>5. CASE \E m \in Publications : toEditor' = Append(toEditor, m)
  <2>1. PICK m \in Publications : toEditor' = Append(toEditor, m)
    BY <1>5
  <2>2. m \in Outgoing /\ m.kind # "Response"
    BY DEF Outgoing, Publications
  <2>3. /\ RepliesFollow(Append(toEditor, m), n, N)
        /\ Serving' => RequestsFollow(Tail(toServer), Append(toEditor, m), n, N)
    BY <1>0, <1>1, <1>3, <2>1, NumberPublished
  <2>4. AllRight(Append(toEditor, m), asked)
    BY <1>0, <1>1, <2>2, RightSent
  <2> QED
    BY <1>1, <1>2, <2>1, <2>3, <2>4 DEF Numbers, n, N
<1> QED
  BY <1>4, <1>5

LEMMA TextsTakenStep ==
  ASSUME ServerInv, toServer # << >>, toServer' = Tail(toServer), UNCHANGED buffers,
         Serving' => Serving,
         \A uri \in Uris :
           documents'[uri] = IF Touches(Head(toServer), uri) THEN Leaves(Head(toServer))
                             ELSE documents[uri]
  PROVE  TextsArrive'
<1> SUFFICES ASSUME Serving', NEW uri \in Uris
             PROVE  TextsFollow(Tail(toServer), uri, documents'[uri], buffers[uri])
  BY DEF TextsArrive
<1>1. TextsFollow(toServer, uri, documents[uri], buffers[uri])
  BY DEF ServerInv, TextsArrive
<1>2. toServer \in Seq(Incoming)
  BY DEF ServerInv, TypeOK
<1>3. documents'[uri] = IF Touches(Head(toServer), uri) THEN Leaves(Head(toServer))
                        ELSE documents[uri]
  OBVIOUS
<1> QED
  BY <1>1, <1>2, <1>3, TextsTaken

\* What is said of the files by another message than a publication.
LEMMA SquigglesKept ==
  ASSUME ServerInv,
         \/ UNCHANGED toEditor
         \/ \E m \in Outgoing : m.kind = "Response" /\ toEditor' = Append(toEditor, m),
         UNCHANGED shown,
         \A uri \in Uris : Ranges(documents[uri], encoding)' = Ranges(documents[uri], encoding)
  PROVE  SquigglesArrive'
<1> SUFFICES ASSUME NEW uri \in Uris
             PROVE  SquigglesFollow(toEditor', uri, shown[uri], Ranges(documents[uri], encoding))
  BY DEF SquigglesArrive
<1>1. SquigglesFollow(toEditor, uri, shown[uri], Ranges(documents[uri], encoding))
  BY DEF ServerInv, SquigglesArrive
<1>2. CASE UNCHANGED toEditor
  BY <1>1, <1>2
<1>3. CASE \E m \in Outgoing : m.kind = "Response" /\ toEditor' = Append(toEditor, m)
  <2>1. PICK m \in Outgoing : m.kind = "Response" /\ toEditor' = Append(toEditor, m)
    BY <1>3
  <2>2. toEditor \in Seq(Outgoing)
    BY DEF ServerInv, TypeOK
  <2> QED
    BY <1>1, <2>1, <2>2, SquigglesSent
<1> QED
  BY <1>2, <1>3

\* The welcome is said once, and what follows it is none.
LEMMA WelcomesAppend ==
  ASSUME NEW out \in Seq(Outgoing), NEW m \in Outgoing
  PROVE  /\ m.kind = "Response" /\ m.result.answer = "Encoding" =>
              Welcomes(Append(out, m)) = Welcomes(out) \cup {Len(out) + 1}
         /\ ~(m.kind = "Response" /\ m.result.answer = "Encoding") =>
              Welcomes(Append(out, m)) = Welcomes(out)
         /\ \A i \in Welcomes(out) : Append(out, m)[i] = out[i]
         /\ Append(out, m)[Len(out) + 1] = m
<1> DEFINE q == Append(out, m)
<1>1. /\ DOMAIN q = 1 .. Len(out) + 1 /\ DOMAIN out = 1 .. Len(out) /\ Len(out) \in Nat
      /\ \A j \in 1 .. Len(out) : q[j] = out[j]
      /\ q[Len(out) + 1] = m
  BY QueueAppend
<1> HIDE DEF q
<1>2. \A j : j \in Welcomes(q) <=>
        j \in Welcomes(out)
          \/ (j = Len(out) + 1 /\ m.kind = "Response" /\ m.result.answer = "Encoding")
  BY <1>1 DEF Welcomes, Replies
<1>3. \A i \in Welcomes(out) : q[i] = out[i]
  BY <1>1 DEF Welcomes, Replies
<1>4. m.kind = "Response" /\ m.result.answer = "Encoding" =>
        Welcomes(q) = Welcomes(out) \cup {Len(out) + 1}
  BY <1>2
<1>5. ~(m.kind = "Response" /\ m.result.answer = "Encoding") => Welcomes(q) = Welcomes(out)
  <2> SUFFICES ASSUME ~(m.kind = "Response" /\ m.result.answer = "Encoding")
               PROVE  Welcomes(q) = Welcomes(out)
    OBVIOUS
  <2>1. \A j : j \in Welcomes(q) <=> j \in Welcomes(out)
    BY <1>2
  <2>2. Welcomes(q) \subseteq Welcomes(out) /\ Welcomes(out) \subseteq Welcomes(q)
    BY <2>1
  <2> QED
    BY <2>2
<1> QED
  BY <1>1, <1>3, <1>4, <1>5 DEF q

LEMMA SettledKept ==
  ASSUME ServerInv, phase # "Starting", phase' # "Starting",
         UNCHANGED << encoding, editor, agreed >>,
         \/ UNCHANGED toEditor
         \/ \E m \in Outgoing :
              /\ ~(m.kind = "Response" /\ m.result.answer = "Encoding")
              /\ toEditor' = Append(toEditor, m)
  PROVE  Settled'
<1>1. toEditor \in Seq(Outgoing)
  BY DEF ServerInv, TypeOK
<1>2. /\ \A i \in Welcomes(toEditor) : toEditor[i].result.encoding = encoding
      /\ editor \in {"Ready", "Leaving"} => agreed = encoding
      /\ agreed = encoding \/ Welcomes(toEditor) # {}
  BY DEF ServerInv, Settled
<1>3. CASE UNCHANGED toEditor
  BY <1>2, <1>3 DEF Settled
<1>4. CASE \E m \in Outgoing :
             /\ ~(m.kind = "Response" /\ m.result.answer = "Encoding")
             /\ toEditor' = Append(toEditor, m)
  <2>1. PICK m \in Outgoing : /\ ~(m.kind = "Response" /\ m.result.answer = "Encoding")
                              /\ toEditor' = Append(toEditor, m)
    BY <1>4
  <2>2. /\ Welcomes(toEditor') = Welcomes(toEditor)
        /\ \A i \in Welcomes(toEditor) : toEditor'[i] = toEditor[i]
    BY <1>1, <2>1, WelcomesAppend
  <2> QED
    BY <1>2, <2>2 DEF Settled
<1> QED
  BY <1>3, <1>4

LEMMA InvServer ==
  ASSUME ServerInv, Server
  PROVE  ServerInv'
<1> DEFINE message == Head(toServer)
<1>0. /\ TypeOK /\ TypeOK' /\ ServerCases
      /\ toServer \in Seq(Incoming) /\ toEditor \in Seq(Outgoing)
  BY TypeServer, ServerSplits DEF ServerInv, TypeOK
\* The places asked for change with the encoding only.
<1>1. ASSUME UNCHANGED asked,
             phase # "Starting" => phase' # "Starting" /\ UNCHANGED encoding
      PROVE  Places'
  <2>1. ASSUME NEW k \in DOMAIN asked, asked[k].kind = "Request"
        PROVE  phase # "Starting"
    BY <2>1 DEF ServerInv, Places
  <2> QED
    BY <1>1, <2>1 DEF ServerInv, Places
\* The handshake.
<1>2. CASE /\ phase = "Starting" /\ phase' = "Greeted"
           /\ toServer # << >> /\ message \in Numbered /\ message.kind = "Initialize"
           /\ encoding' \in PositionEncoding /\ UNCHANGED documents
           /\ Takes(<< Response([answer |-> "Encoding", encoding |-> encoding']) >>)
  <2> DEFINE r == [answer |-> "Encoding", encoding |-> encoding']
  <2>1. r \in Results /\ r.answer = "Encoding" /\ r.encoding = encoding'
    BY <1>2 DEF Results
  <2>2. Takes(<< Response(r) >>)
    BY <1>2
  <2> HIDE DEF r
  <2>3. message.params.kind # "Request" /\ Serving /\ phase' # "Starting"
    BY <1>2 DEF Numbered, Serving
  <2>4. /\ Numbers' /\ toServer' = Tail(toServer) /\ HasId(message)
        /\ \E m \in Responses : m.result = r /\ m \in Outgoing /\ m.kind = "Response"
             /\ toEditor' = Append(toEditor, m)
        /\ UNCHANGED << editor, agreed, buffers, shown, asked, answers, sends >>
    BY <1>2, <2>1, <2>2, <2>3, ServerAnswers
  <2>5. PICK m \in Responses : m.result = r /\ m \in Outgoing /\ m.kind = "Response"
                                 /\ toEditor' = Append(toEditor, m)
    BY <2>4
  <2>6. /\ toEditor = << >> /\ editor \in {"Offline", "Greeting", "Gone", "Dead"}
        /\ \A uri \in Uris : documents[uri] = NoDocument
    BY <1>2 DEF ServerInv, Settled
  <2>7. Places'
    BY <1>1, <1>2, <2>4
  <2>8. TextsArrive'
    <3>1. \A uri \in Uris : ~Touches(message, uri)
      BY <1>2 DEF Touches
    <3> QED
      BY <1>2, <2>3, <2>4, <3>1, TextsTakenStep
  <2>9. SquigglesArrive'
    <3>1. \A e : Ranges(NoDocument, e) = {}
      BY DEF Ranges, NoDocument
    <3>2. \A uri \in Uris : Ranges(documents[uri], encoding)' = Ranges(documents[uri], encoding)
      BY <1>2, <2>6, <3>1
    <3> QED
      BY <2>4, <2>5, <3>2, SquigglesKept
  <2>10. Settled'
    <3>1. DOMAIN toEditor = {} /\ Len(toEditor) = 0
      BY <2>6
    <3>2. Welcomes(toEditor) = {}
      BY <3>1 DEF Welcomes, Replies
    <3>3. Welcomes(toEditor') = {1} /\ toEditor'[1].result.encoding = encoding'
      <4>1. m.kind = "Response" /\ m.result.answer = "Encoding" /\ m.result.encoding = encoding'
        BY <2>1, <2>5
      <4>2. /\ Welcomes(Append(toEditor, m)) = Welcomes(toEditor) \cup {Len(toEditor) + 1}
            /\ Append(toEditor, m)[Len(toEditor) + 1] = m
        BY <1>0, <2>5, <4>1, WelcomesAppend
      <4>3. Welcomes(Append(toEditor, m)) = {1} /\ Append(toEditor, m)[1] = m
        BY <3>1, <3>2, <4>2
      <4> QED
        BY <2>5, <4>1, <4>3
    <3> QED
      BY <1>2, <2>4, <2>6, <3>3 DEF Settled
  <2> QED
    BY <1>0, <2>4, <2>7, <2>8, <2>9, <2>10 DEF ServerInv
\* A document is set.
<1>3. CASE /\ phase = "Running" /\ toServer # << >> /\ ~HasId(message)
           /\ \E uri \in Uris :
                /\ Touches(message, uri)
                /\ Leaves(message) \in Contents
                /\ Sets(uri, Leaves(message))
  <2>1. PICK uri \in Uris : /\ Touches(message, uri)
                            /\ Leaves(message) \in Contents
                            /\ Sets(uri, Leaves(message))
    BY <1>3
  <2>2. /\ toServer' = Tail(toServer)
        /\ \E m \in Publications :
             /\ m.uri = uri /\ m.ranges = Ranges(Leaves(message), encoding)
             /\ m \in Outgoing /\ m.kind = "Diagnostics"
             /\ toEditor' = Append(toEditor, m)
        /\ UNCHANGED << editor, agreed, buffers, shown, asked, answers, sends, phase, encoding >>
        /\ documents'[uri] = Leaves(message)
        /\ \A other \in Uris : other # uri => documents'[other] = documents[other]
    BY <1>0, <2>1, SetsTakes
  <2>3. PICK m \in Publications :
             /\ m.uri = uri /\ m.ranges = Ranges(Leaves(message), encoding)
             /\ m \in Outgoing /\ m.kind = "Diagnostics"
             /\ toEditor' = Append(toEditor, m)
    BY <2>2
  <2>4. \A other \in Uris : Touches(message, other) <=> other = uri
    BY <2>1 DEF Touches
  <2>5. Numbers'
    <3>1. Serving' => Serving
      BY <2>2 DEF Serving
    <3> QED
      BY <1>3, <2>2, <2>3, <3>1, NumbersTaken
  <2>6. Places'
    BY <1>1, <2>2
  <2>7. TextsArrive'
    <3>1. Serving' => Serving
      BY <2>2 DEF Serving
    <3>2. \A other \in Uris :
            documents'[other] = IF Touches(message, other) THEN Leaves(message) ELSE documents[other]
      BY <2>2, <2>4
    <3> QED
      BY <1>3, <2>2, <3>1, <3>2, TextsTakenStep
  <2>8. SquigglesArrive'
    <3> SUFFICES ASSUME NEW other \in Uris
                 PROVE  SquigglesFollow(toEditor', other, shown[other],
                                        Ranges(documents'[other], encoding))
      BY <2>2 DEF SquigglesArrive
    <3>1. SquigglesFollow(toEditor, other, shown[other], Ranges(documents[other], encoding))
      BY DEF ServerInv, SquigglesArrive
    <3>2. SquigglesFollow(toEditor', other, shown[other],
            IF m.kind = "Diagnostics" /\ m.uri = other THEN m.ranges
            ELSE Ranges(documents[other], encoding))
      BY <1>0, <2>3, <3>1, SquigglesSent
    <3> QED
      BY <2>2, <2>3, <3>2
  <2>9. Settled'
    <3>1. ~(m.kind = "Response" /\ m.result.answer = "Encoding")
      BY <2>3
    <3> QED
      BY <1>3, <2>2, <2>3, <3>1, SettledKept
  <2> QED
    BY <1>0, <2>5, <2>6, <2>7, <2>8, <2>9 DEF ServerInv
\* What follows of a step that sends at most a response, and sets nothing.
<1>4. ASSUME phase # "Starting", phase' # "Starting",
             UNCHANGED << encoding, documents, editor, agreed, buffers, shown, asked >>,
             \/ UNCHANGED toEditor
             \/ \E m \in Outgoing :
                  /\ m.kind = "Response" /\ m.result.answer # "Encoding"
                  /\ toEditor' = Append(toEditor, m)
      PROVE  Places' /\ SquigglesArrive' /\ Settled'
  <2>1. Places'
    BY <1>1, <1>4
  <2>2. SquigglesArrive'
    <3>1. \A uri \in Uris : Ranges(documents[uri], encoding)' = Ranges(documents[uri], encoding)
      BY <1>4
    <3> QED
      BY <1>4, <3>1, SquigglesKept
  <2>3. Settled'
    BY <1>4, SettledKept
  <2> QED
    BY <2>1, <2>2, <2>3
\* A message that is read, and no more.
<1>5. CASE /\ phase \in {"Greeted", "Running"} /\ phase' = "Running"
           /\ toServer # << >> /\ ~HasId(message)
           /\ \A uri \in Uris : ~Touches(message, uri)
           /\ Takes(<< >>) /\ UNCHANGED << encoding, documents >>
  <2>1. /\ toServer' = Tail(toServer) /\ toEditor' = toEditor
        /\ UNCHANGED << editor, agreed, buffers, shown, asked, answers, sends >>
    BY <1>0, <1>5, TakesNone
  <2>2. Serving' => Serving
    BY <1>5 DEF Serving
  <2>3. Numbers'
    BY <1>5, <2>1, <2>2, NumbersTaken
  <2>4. TextsArrive'
    BY <1>5, <2>1, <2>2, TextsTakenStep
  <2>5. Places' /\ SquigglesArrive' /\ Settled'
    BY <1>4, <1>5, <2>1
  <2> QED
    BY <1>0, <2>3, <2>4, <2>5 DEF ServerInv
\* A question is answered.
<1>6. CASE /\ phase = "Running" /\ UNCHANGED server
           /\ toServer # << >> /\ message \in Numbered /\ message.kind = "Request"
           /\ Takes(<< Response(Answer(message.params)) >>)
  <2> DEFINE r == Answer(message.params)
  <2>1. /\ r \in Results /\ r.answer # "Encoding"
        /\ message.params.method = "Feature" => r = Expected(message.params)
    BY <1>6, AnswerRight
  <2>2. Takes(<< Response(r) >>)
    BY <1>6
  <2> HIDE DEF r
  <2>3. Serving /\ phase' # "Starting" /\ UNCHANGED << phase, encoding, documents >>
    BY <1>6 DEF Serving, server
  <2>4. /\ Numbers' /\ toServer' = Tail(toServer) /\ HasId(message)
        /\ \E m \in Responses : m.result = r /\ m \in Outgoing /\ m.kind = "Response"
             /\ toEditor' = Append(toEditor, m)
        /\ UNCHANGED << editor, agreed, buffers, shown, asked, answers, sends >>
    BY <1>6, <2>1, <2>2, <2>3, ServerAnswers
  <2>5. TextsArrive'
    <3>1. \A uri \in Uris : ~Touches(message, uri)
      BY <1>6 DEF Touches
    <3> QED
      BY <1>6, <2>3, <2>4, <3>1, TextsTakenStep
  <2>6. Places' /\ SquigglesArrive' /\ Settled'
    BY <1>4, <1>6, <2>1, <2>3, <2>4
  <2> QED
    BY <1>0, <2>4, <2>5, <2>6 DEF ServerInv
\* So is a shutdown, and nothing follows it.
<1>7. CASE /\ phase = "Running" /\ phase' = "Leaving" /\ UNCHANGED << encoding, documents >>
           /\ toServer # << >> /\ message \in Numbered /\ message.kind = "Shutdown"
           /\ Takes(<< Response(Null) >>)
  <2>1. Null \in Results /\ Null.answer # "Encoding"
    BY DEF Results, Null
  <2>2. message.params.kind # "Request" /\ Serving /\ phase' # "Starting"
    BY <1>7 DEF Numbered, Serving
  <2>3. /\ Numbers' /\ toServer' = Tail(toServer) /\ HasId(message)
        /\ \E m \in Responses : m.result = Null /\ m \in Outgoing /\ m.kind = "Response"
             /\ toEditor' = Append(toEditor, m)
        /\ UNCHANGED << editor, agreed, buffers, shown, asked, answers, sends >>
    BY <1>7, <2>1, <2>2, ServerAnswers
  <2>4. TextsArrive'
    BY <1>7 DEF TextsArrive, Serving
  <2>5. Places' /\ SquigglesArrive' /\ Settled'
    BY <1>4, <1>7, <2>1, <2>2, <2>3
  <2> QED
    BY <1>0, <2>3, <2>4, <2>5 DEF ServerInv
\* The end.
<1>8. CASE /\ phase' \in {"Leaving", "Returned", "Stopped", "Failed"}
           /\ UNCHANGED << encoding, documents >>
           /\ \/ toServer # << >> /\ Takes(<< >>)
              \/ UNCHANGED << toServer, toEditor, client >>
  <2>0. ~Serving' /\ phase' # "Starting"
    BY <1>8 DEF Serving
  <2>1. /\ UNCHANGED << toEditor, editor, agreed, buffers, shown, asked, answers >>
        /\ \/ UNCHANGED toServer
           \/ toServer # << >> /\ toServer' = Tail(toServer)
    BY <1>0, <1>8, TakesNone DEF client
  <2>2. Numbers'
    <3>1. CASE UNCHANGED toServer
      BY <2>0, <2>1, <3>1 DEF ServerInv, Numbers
    <3>2. CASE toServer # << >> /\ toServer' = Tail(toServer)
      BY <2>0, <2>1, <3>2, NumbersTaken
    <3> QED
      BY <2>1, <3>1, <3>2
  <2>3. TextsArrive'
    BY <2>0 DEF TextsArrive
  <2>4. Places'
    BY <1>1, <1>8, <2>0, <2>1
  <2>5. SquigglesArrive'
    BY <1>8, <2>1 DEF ServerInv, SquigglesArrive
  <2>6. Settled'
    BY <1>8, <2>0, <2>1 DEF ServerInv, Settled
  <2> QED
    BY <1>0, <2>2, <2>3, <2>4, <2>5, <2>6 DEF ServerInv
<1> QED
  BY <1>0, <1>2, <1>3, <1>5, <1>6, <1>7, <1>8 DEF ServerCases

-----------------------------------------------------------------------------
(* The steps of the editor.                                                *)

\* It sends something that has no number.
LEMMA NumbersSent ==
  ASSUME ServerInv, NEW m \in Incoming, ~HasId(m), toServer' = Append(toServer, m),
         UNCHANGED << phase, toEditor, asked, answers >>
  PROVE  Numbers'
<1>0. toServer \in Seq(Incoming) /\ Len(answers) \in Nat /\ Len(asked) \in Nat
  BY DEF ServerInv, TypeOK
<1>1. /\ Len(answers) <= Len(asked) /\ Heard(answers, asked)
      /\ RepliesFollow(toEditor, Len(answers), Len(asked)) /\ AllRight(toEditor, asked)
      /\ Known(toServer, asked)
      /\ Serving => RequestsFollow(toServer, toEditor, Len(answers), Len(asked))
  BY DEF ServerInv, Numbers
<1>2. Known(Append(toServer, m), asked)
  BY <1>0, <1>1, KnownSent
<1>3. Serving => RequestsFollow(Append(toServer, m), toEditor, Len(answers), Len(asked))
  BY <1>0, <1>1, NumberSent
<1> QED
  BY <1>1, <1>2, <1>3 DEF Numbers, Serving

LEMMA TextsSentStep ==
  ASSUME ServerInv, NEW m \in Incoming, toServer' = Append(toServer, m),
         UNCHANGED << phase, documents >>,
         \A uri \in Uris :
           /\ m.kind = "Request" /\ m.params.uri = uri => m.params.buffer = buffers[uri]
           /\ buffers'[uri] = IF Touches(m, uri) THEN Leaves(m) ELSE buffers[uri]
  PROVE  TextsArrive'
<1> SUFFICES ASSUME Serving, NEW uri \in Uris
             PROVE  TextsFollow(Append(toServer, m), uri, documents[uri], buffers'[uri])
  BY DEF TextsArrive, Serving
<1>1. TextsFollow(toServer, uri, documents[uri], buffers[uri])
  BY DEF ServerInv, TextsArrive
<1>2. toServer \in Seq(Incoming)
  BY DEF ServerInv, TypeOK
<1>3. /\ m.kind = "Request" /\ m.params.uri = uri => m.params.buffer = buffers[uri]
      /\ buffers'[uri] = IF Touches(m, uri) THEN Leaves(m) ELSE buffers[uri]
  OBVIOUS
<1> QED
  BY <1>1, <1>2, <1>3, TextsSent

\* It asks something: with the next number, and about what it has.
LEMMA InvEnquires ==
  ASSUME ServerInv, TypeOK', NEW message \in Asking, Enquires(message),
         message.kind = "Request" =>
           /\ phase # "Starting" /\ message.uri \in Uris
           /\ message.buffer = buffers[message.uri]
           /\ message.buffer.open =>
                /\ message.at \in 1 .. Len(message.buffer.text) + 1
                /\ message.position = ClientPosition(message.buffer.text, message.at, encoding),
         phase = "Starting" => editor' \in {"Offline", "Greeting", "Gone", "Dead"},
         editor' \in {"Ready", "Leaving"} => editor \in {"Ready", "Leaving"}
  PROVE  ServerInv'
<1> DEFINE m == [kind |-> message.kind, id |-> Len(asked) + 1, params |-> message]
           n == Len(answers)
           N == Len(asked)
<1>0. /\ TypeOK /\ toServer \in Seq(Incoming) /\ toEditor \in Seq(Outgoing)
      /\ asked \in Seq(Asking) /\ answers \in Seq(Responses) /\ n \in Nat /\ N \in Nat
  BY DEF ServerInv, TypeOK
<1>1. /\ m \in Incoming /\ m.kind = message.kind /\ m.id = N + 1 /\ m.params = message
      /\ m \in Numbered
  BY <1>0, AsksNumbered
<1>2. HasId(m)
  BY <1>1, IdTypes
<1>3. /\ toServer' = Append(toServer, m) /\ asked' = Append(asked, message)
      /\ UNCHANGED << server, toEditor, exitRead, agreed, shown, answers, buffers >>
  BY DEF Enquires, Asks, Sends
<1> HIDE DEF m
<1>4. UNCHANGED << phase, encoding, documents >>
  BY <1>3 DEF server
<1>5. /\ n <= N /\ Heard(answers, asked)
      /\ RepliesFollow(toEditor, n, N) /\ AllRight(toEditor, asked) /\ Known(toServer, asked)
      /\ Serving => RequestsFollow(toServer, toEditor, n, N)
  BY DEF ServerInv, Numbers
<1>6. Numbers'
  <2>1. Heard(answers, Append(asked, message))
    BY <1>0, <1>5, HeardAsked
  <2>2. AllRight(toEditor, Append(asked, message))
    BY <1>0, <1>5, RightAsked
  <2>3. Known(Append(toServer, m), Append(asked, message))
    BY <1>0, <1>1, <1>2, <1>5, KnownAsked
  <2>4. /\ RepliesFollow(toEditor, n, N + 1)
        /\ Serving => RequestsFollow(Append(toServer, m), toEditor, n, N + 1)
    <3> HIDE DEF n, N
    <3> QED
      BY <1>0, <1>1, <1>2, <1>5, NumberAsked
  <2>5. Len(asked') = N + 1 /\ n <= N + 1 /\ Serving' = Serving
    BY <1>0, <1>3, <1>4, <1>5 DEF Serving
  <2> QED
    BY <1>3, <2>1, <2>2, <2>3, <2>4, <2>5 DEF Numbers
<1>7. Places'
  <2> SUFFICES ASSUME NEW k \in DOMAIN Append(asked, message),
                      Append(asked, message)[k].kind = "Request"
               PROVE  /\ phase # "Starting"
                      /\ Append(asked, message)[k].buffer.open =>
                           /\ Append(asked, message)[k].at
                                \in 1 .. Len(Append(asked, message)[k].buffer.text) + 1
                           /\ Append(asked, message)[k].position
                                = ClientPosition(Append(asked, message)[k].buffer.text,
                                                 Append(asked, message)[k].at, encoding)
    BY <1>3, <1>4 DEF Places
  <2>1. CASE k = N + 1
    <3>1. Append(asked, message)[k] = message
      BY <1>0, <2>1
    <3> QED
      BY <3>1
  <2>2. CASE k # N + 1
    <3>1. k \in DOMAIN asked /\ Append(asked, message)[k] = asked[k]
      BY <1>0, <2>2
    <3> QED
      BY <3>1 DEF ServerInv, Places
  <2> QED
    BY <2>1, <2>2
<1>8. TextsArrive'
  <2>1. \A uri \in Uris :
          /\ m.kind = "Request" /\ m.params.uri = uri => m.params.buffer = buffers[uri]
          /\ ~Touches(m, uri)
    BY <1>1, <1>2 DEF HasId, Touches
  <2> QED
    BY <1>1, <1>3, <1>4, <2>1, TextsSentStep
<1>9. SquigglesArrive'
  BY <1>3, <1>4 DEF ServerInv, SquigglesArrive
<1>10. Settled'
  BY <1>3, <1>4 DEF ServerInv, Settled
<1> QED
  BY <1>6, <1>7, <1>8, <1>9, <1>10 DEF ServerInv

\* Any other step leaves what has been asked and answered as it is.
LEMMA InvSends ==
  ASSUME ServerInv, TypeOK', NEW m \in Incoming, ~HasId(m), Sends(m), UNCHANGED asked,
         \A uri \in Uris : buffers'[uri] = IF Touches(m, uri) THEN Leaves(m) ELSE buffers[uri],
         phase = "Starting" => editor' \in {"Offline", "Greeting", "Gone", "Dead"},
         editor' \in {"Ready", "Leaving"} => editor \in {"Ready", "Leaving"}
  PROVE  ServerInv'
<1>1. /\ toServer' = Append(toServer, m)
      /\ UNCHANGED << phase, encoding, documents, toEditor, agreed, shown, answers >>
  BY DEF Sends, server
<1>2. Numbers'
  BY <1>1, NumbersSent
<1>3. Places'
  BY <1>1 DEF ServerInv, Places
<1>4. TextsArrive'
  <2>1. m.kind # "Request"
    BY DEF HasId
  <2> QED
    BY <1>1, <2>1, TextsSentStep
<1>5. SquigglesArrive'
  BY <1>1 DEF ServerInv, SquigglesArrive
<1>6. Settled'
  BY <1>1 DEF ServerInv, Settled
<1> QED
  BY <1>2, <1>3, <1>4, <1>5, <1>6 DEF ServerInv

LEMMA NotifiesLeaves ==
  ASSUME TypeOK, NEW message, NEW uri \in Uris, Notifies(message, uri)
  PROVE  /\ message \in Incoming /\ ~HasId(message)
         /\ \A u \in Uris :
              buffers'[u] = IF Touches(message, u) THEN Leaves(message) ELSE buffers[u]
<1>0. message \in Incoming
  BY NotifiesType
<1>00. buffers \in [Uris -> Contents]
  BY DEF TypeOK
<1>1. CASE /\ message \in Opened /\ message.uri = uri
           /\ buffers' = [buffers EXCEPT ![uri] = Document(message.text, message.version)]
  <2>1. message.kind = "DidOpen"
    BY <1>1 DEF Opened
  <2> QED
    BY <1>0, <1>00, <1>1, <2>1 DEF HasId, Touches, Leaves
<1>2. CASE /\ message \in Changed /\ message.uri = uri /\ message.changes # << >>
           /\ buffers' = [buffers EXCEPT ![uri] = Document(Last(message.changes), message.version)]
  <2>1. message.kind = "DidChange"
    BY <1>2 DEF Changed
  <2> QED
    BY <1>0, <1>00, <1>2, <2>1 DEF HasId, Touches, Leaves
<1>3. CASE message \in Changed /\ message.changes = << >> /\ UNCHANGED buffers
  <2>1. message.kind = "DidChange"
    BY <1>3 DEF Changed
  <2> QED
    BY <1>0, <1>3, <2>1 DEF HasId, Touches
<1>4. CASE /\ message \in Closed /\ message.uri = uri
           /\ buffers' = [buffers EXCEPT ![uri] = NoDocument]
  <2>1. message.kind = "DidClose"
    BY <1>4 DEF Closed
  <2> QED
    BY <1>0, <1>00, <1>4, <2>1 DEF HasId, Touches, Leaves
<1>5. CASE message = [kind |-> "Other"] /\ UNCHANGED buffers
  BY <1>0, <1>5 DEF HasId, Touches
<1> QED
  BY <1>1, <1>2, <1>3, <1>4, <1>5 DEF Notifies

LEMMA InvSpeak ==
  ASSUME ServerInv, Speak
  PROVE  ServerInv'
<1>0. TypeOK /\ TypeOK' /\ SpeakCases
  BY TypeSpeak, SpeakSplits DEF ServerInv
\* Who speaks has been welcomed.
<1>1. /\ editor \in {"Ready", "Leaving"} => phase # "Starting" /\ agreed = encoding
      /\ phase = "Starting" => editor \in {"Offline", "Greeting", "Gone", "Dead"}
  BY DEF ServerInv, Settled
<1>2. ASSUME editor = "Offline", editor' = "Greeting", NEW offered \in Offers,
             Enquires([kind |-> "Initialize", offered |-> offered])
      PROVE  ServerInv'
  <2> DEFINE message == [kind |-> "Initialize", offered |-> offered]
  <2>1. message \in Asking /\ message.kind # "Request"
    BY DEF Asking, Greetings
  <2>2. Enquires(message)
    BY <1>2
  <2> HIDE DEF message
  <2>3. editor' \notin {"Ready", "Leaving"} /\ editor' \in {"Offline", "Greeting", "Gone", "Dead"}
    BY <1>2
  <2> QED
    BY <1>0, <2>1, <2>2, <2>3, InvEnquires
<1>3. ASSUME editor \in {"Ready", "Leaving"}, UNCHANGED editor,
             NEW uri \in Uris, NEW i \in Nat, NEW method \in {"Feature", "Unknown", "Unparsable"},
             i \in 1 .. IF buffers[uri].open THEN Len(buffers[uri].text) + 1 ELSE 1,
             Enquires(AboutFile(uri, method, i))
      PROVE  ServerInv'
  <2> DEFINE message == AboutFile(uri, method, i)
  <2>1. message \in Asking
    BY <1>0, AboutFileType DEF Asking
  <2>2. Enquires(message)
    BY <1>3
  <2>3. /\ message.uri = uri /\ message.buffer = buffers[uri] /\ message.at = i
        /\ buffers[uri].open => message.position = ClientPosition(buffers[uri].text, i, agreed)
    BY DEF AboutFile
  <2> HIDE DEF message
  <2>4. /\ phase # "Starting" /\ message.uri \in Uris
        /\ message.buffer = buffers[message.uri]
        /\ message.buffer.open =>
             /\ message.at \in 1 .. Len(message.buffer.text) + 1
             /\ message.position = ClientPosition(message.buffer.text, message.at, encoding)
    BY <1>1, <1>3, <2>3
  <2>5. editor' \in {"Ready", "Leaving"} => editor \in {"Ready", "Leaving"}
    BY <1>3
  <2> QED
    BY <1>0, <2>1, <2>2, <2>4, <2>5, InvEnquires
<1>4. ASSUME editor = "Ready", editor' = "Leaving", Enquires([kind |-> "Shutdown"])
      PROVE  ServerInv'
  <2> DEFINE message == [kind |-> "Shutdown"]
  <2>1. message \in Asking /\ message.kind # "Request"
    BY DEF Asking, Farewells
  <2>2. Enquires(message)
    BY <1>4
  <2> HIDE DEF message
  <2>3. phase # "Starting" /\ editor \in {"Ready", "Leaving"}
    BY <1>1, <1>4
  <2> QED
    BY <1>0, <2>1, <2>2, <2>3, InvEnquires
<1>5. ASSUME NEW message, NEW uri \in Uris, Notifies(message, uri)
      PROVE  ServerInv'
  <2>1. /\ message \in Incoming /\ ~HasId(message)
        /\ \A u \in Uris :
             buffers'[u] = IF Touches(message, u) THEN Leaves(message) ELSE buffers[u]
    BY <1>0, <1>5, NotifiesLeaves
  <2>2. Sends(message) /\ UNCHANGED << asked, editor >> /\ editor \in {"Ready", "Leaving"}
    BY <1>5 DEF Notifies
  <2> QED
    BY <1>0, <1>1, <2>1, <2>2, InvSends
<1>6. ASSUME editor \in {"Ready", "Leaving"}, editor' = "Gone",
             Sends([kind |-> "Exit"]), UNCHANGED << buffers, asked, sends >>
      PROVE  ServerInv'
  <2> DEFINE m == [kind |-> "Exit"]
  <2>1. m \in Incoming /\ ~HasId(m) /\ \A uri \in Uris : ~Touches(m, uri)
    BY BareTypes DEF HasId, Touches
  <2>2. Sends(m)
    BY <1>6
  <2> HIDE DEF m
  <2>3. editor' \notin {"Ready", "Leaving"} /\ editor' \in {"Offline", "Greeting", "Gone", "Dead"}
    BY <1>6
  <2>4. \A uri \in Uris : buffers'[uri] = IF Touches(m, uri) THEN Leaves(m) ELSE buffers[uri]
    BY <1>6, <2>1
  <2> QED
    BY <1>0, <1>6, <2>1, <2>2, <2>3, <2>4, InvSends
<1>7. CASE Break
  <2>1. /\ UNCHANGED << phase, encoding, documents, toServer, toEditor,
                        agreed, buffers, shown, asked, answers >>
        /\ editor' \in {"Gone", "Dead"}
    BY <1>7 DEF Break, server
  <2>2. Numbers'
    BY <2>1 DEF ServerInv, Numbers, Serving
  <2>3. Places' /\ TextsArrive' /\ SquigglesArrive'
    BY <2>1 DEF ServerInv, Places, TextsArrive, SquigglesArrive, Serving
  <2>4. Settled'
    BY <2>1 DEF ServerInv, Settled
  <2> QED
    BY <1>0, <2>2, <2>3, <2>4 DEF ServerInv
<1> QED
  BY <1>0, <1>2, <1>3, <1>4, <1>5, <1>6, <1>7 DEF SpeakCases

\* What is heard of what comes: a response is the next, and right.
LEMMA NumbersHeard ==
  ASSUME ServerInv, toEditor # << >>, toEditor' = Tail(toEditor), UNCHANGED << phase, asked >>,
         \/ UNCHANGED toServer
         \/ \E m \in Incoming : ~HasId(m) /\ toServer' = Append(toServer, m),
         \/ Head(toEditor) \in Publications /\ UNCHANGED answers
         \/ Head(toEditor) \in Responses /\ answers' = Append(answers, Head(toEditor))
  PROVE  Numbers'
<1> DEFINE n == Len(answers)
           N == Len(asked)
           r == Head(toEditor)
<1>0. /\ toServer \in Seq(Incoming) /\ toEditor \in Seq(Outgoing)
      /\ answers \in Seq(Responses) /\ n \in Nat /\ N \in Nat
  BY DEF ServerInv, TypeOK
<1>1. /\ n <= N /\ Heard(answers, asked)
      /\ RepliesFollow(toEditor, n, N) /\ AllRight(toEditor, asked) /\ Known(toServer, asked)
      /\ Serving => RequestsFollow(toServer, toEditor, n, N)
  BY DEF ServerInv, Numbers
<1>2. AllRight(Tail(toEditor), asked)
  BY <1>0, <1>1, RightTail
\* The requests that are there, and that come.
<1>3. /\ Known(toServer', asked)
      /\ Serving => RequestsFollow(toServer', toEditor, n, N)
  <2>1. CASE UNCHANGED toServer
    BY <1>1, <2>1
  <2>2. CASE \E m \in Incoming : ~HasId(m) /\ toServer' = Append(toServer, m)
    <3>1. PICK m \in Incoming : ~HasId(m) /\ toServer' = Append(toServer, m)
      BY <2>2
    <3>2. Known(Append(toServer, m), asked)
      BY <1>0, <1>1, <3>1, KnownSent
    <3> HIDE DEF n, N
    <3>3. Serving => RequestsFollow(Append(toServer, m), toEditor, n, N)
      BY <1>0, <1>1, <3>1, NumberSent
    <3> QED
      BY <3>1, <3>2, <3>3
  <2> QED
    BY <2>1, <2>2
<1>4. CASE r \in Publications /\ UNCHANGED answers
  <2>1. /\ RepliesFollow(Tail(toEditor), n, N)
        /\ Serving => RequestsFollow(toServer', Tail(toEditor), n, N)
    <3> HIDE DEF n, N
    <3> QED
      BY <1>0, <1>1, <1>3, <1>4, NumberShown
  <2> QED
    BY <1>1, <1>2, <1>3, <1>4, <2>1 DEF Numbers, Serving
<1>5. CASE r \in Responses /\ answers' = Append(answers, r)
  <2>1. /\ r.id = n + 1 /\ n + 1 <= N
        /\ RepliesFollow(Tail(toEditor), n + 1, N)
        /\ Serving => RequestsFollow(toServer', Tail(toEditor), n + 1, N)
    <3> HIDE DEF n, N
    <3> QED
      BY <1>0, <1>1, <1>3, <1>5, NumberHeard
  <2>2. 1 \in Replies(toEditor) /\ toEditor[1] = r
    BY <1>0, <1>5, RepliesTail DEF Responses
  <2>3. Right(r, asked[r.id])
    BY <1>1, <2>2 DEF AllRight
  <2>4. Heard(Append(answers, r), asked) /\ Len(Append(answers, r)) = n + 1
    <3> HIDE DEF r
    <3>1. Heard(Append(answers, r), asked)
      <4>1. r.id = Len(answers) + 1 /\ Heard(answers, asked)
        BY <1>1, <2>1
      <4> QED
        BY <1>0, <1>5, <2>3, <4>1, HeardMore
    <3>2. Len(Append(answers, r)) = n + 1
      BY <1>0, <1>5, QueueAppend
    <3> QED
      BY <3>1, <3>2
  <2>5. Len(answers') = n + 1 /\ Heard(answers', asked)
    BY <1>5, <2>4
  <2> QED
    BY <1>2, <1>3, <2>1, <2>5 DEF Numbers, Serving
<1> QED
  BY <1>4, <1>5

LEMMA SquigglesShown ==
  ASSUME ServerInv, toEditor # << >>, toEditor' = Tail(toEditor),
         UNCHANGED << encoding, documents >>,
         \/ /\ Head(toEditor) \in Publications
            /\ shown' = [shown EXCEPT ![Head(toEditor).uri] = Head(toEditor).ranges]
         \/ Head(toEditor) \in Responses /\ UNCHANGED shown
  PROVE  SquigglesArrive'
<1> DEFINE m == Head(toEditor)
<1> SUFFICES ASSUME NEW uri \in Uris
             PROVE  SquigglesFollow(Tail(toEditor), uri, shown'[uri],
                                    Ranges(documents[uri], encoding))
  BY DEF SquigglesArrive
<1>1. toEditor \in Seq(Outgoing)
  BY DEF ServerInv, TypeOK
<1>2. SquigglesFollow(toEditor, uri, shown[uri], Ranges(documents[uri], encoding))
  BY DEF ServerInv, SquigglesArrive
<1>3. SquigglesFollow(Tail(toEditor), uri,
        IF m.kind = "Diagnostics" /\ m.uri = uri THEN m.ranges ELSE shown[uri],
        Ranges(documents[uri], encoding))
  BY <1>1, <1>2, SquigglesHeard
<1>4. shown'[uri] = IF m.kind = "Diagnostics" /\ m.uri = uri THEN m.ranges ELSE shown[uri]
  <2>1. CASE m \in Publications /\ shown' = [shown EXCEPT ![m.uri] = m.ranges]
    <3>1. m.kind = "Diagnostics" /\ uri \in DOMAIN shown
      BY <2>1 DEF Publications, ServerInv, TypeOK
    <3> QED
      BY <2>1, <3>1
  <2>2. CASE m \in Responses /\ UNCHANGED shown
    <3>1. m.kind # "Diagnostics"
      BY <2>2 DEF Responses
    <3> QED
      BY <2>2, <3>1
  <2> QED
    BY <2>1, <2>2
<1> HIDE DEF m
<1> QED
  BY <1>3, <1>4

LEMMA WelcomesTail ==
  ASSUME NEW out \in Seq(Outgoing), out # << >>
  PROVE  /\ \A j \in Welcomes(Tail(out)) : j + 1 \in Welcomes(out) /\ Tail(out)[j] = out[j + 1]
         /\ \A j \in Welcomes(out) : j # 1 => j - 1 \in Welcomes(Tail(out))
         /\ 1 \in Welcomes(out) <=>
              Head(out).kind = "Response" /\ Head(out).result.answer = "Encoding"
         /\ 1 \in Welcomes(out) => Head(out) = out[1]
<1>1. /\ \A j : j \in Replies(Tail(out)) <=> j \in Nat /\ j # 0 /\ j + 1 \in Replies(out)
      /\ \A j \in Replies(Tail(out)) : Tail(out)[j] = out[j + 1]
      /\ 1 \in Replies(out) <=> Head(out).kind = "Response"
      /\ Head(out) = out[1]
      /\ \A j \in Replies(out) : j \in Nat /\ j # 0
  BY RepliesTail
<1>2. ASSUME NEW j \in Welcomes(out), j # 1
      PROVE  j - 1 \in Welcomes(Tail(out))
  <2>1. j \in Replies(out) /\ out[j].result.answer = "Encoding"
    BY DEF Welcomes
  <2>2. j - 1 \in Nat /\ j - 1 # 0 /\ (j - 1) + 1 = j
    BY <1>1, <1>2, <2>1
  <2>3. j - 1 \in Replies(Tail(out)) /\ Tail(out)[j - 1] = out[j]
    BY <1>1, <2>1, <2>2
  <2> QED
    BY <2>1, <2>3 DEF Welcomes
<1> QED
  BY <1>1, <1>2 DEF Welcomes

LEMMA InvHear ==
  ASSUME ServerInv, Hear
  PROVE  ServerInv'
<1> DEFINE m == Head(toEditor)
<1>0. TypeOK /\ TypeOK' /\ toEditor \in Seq(Outgoing)
  BY TypeHear DEF ServerInv, TypeOK
<1>1. /\ toEditor # << >> /\ toEditor' = Tail(toEditor)
      /\ UNCHANGED << phase, encoding, documents, exitRead, buffers, asked, sends >>
      /\ \/ /\ m \in Publications
            /\ shown' = [shown EXCEPT ![m.uri] = m.ranges]
            /\ UNCHANGED << toServer, editor, agreed, answers >>
         \/ /\ m \in Responses /\ m.result.answer # "Encoding"
            /\ answers' = Append(answers, m)
            /\ UNCHANGED << toServer, editor, agreed, shown >>
         \/ /\ m \in Responses /\ m.result.answer = "Encoding"
            /\ answers' = Append(answers, m)
            /\ agreed' = m.result.encoding
            /\ UNCHANGED shown
            /\ \/ /\ editor = "Greeting" /\ editor' = "Ready"
                  /\ toServer' = Append(toServer, [kind |-> "Initialized"])
               \/ UNCHANGED << editor, toServer >>
  BY <1>0, HearTakes DEF server
<1> HIDE DEF m
<1>2. \/ UNCHANGED toServer
      \/ \E n \in Incoming : ~HasId(n) /\ toServer' = Append(toServer, n)
  <2>1. [kind |-> "Initialized"] \in Incoming /\ ~HasId([kind |-> "Initialized"])
    BY BareTypes DEF HasId
  <2> QED
    BY <1>1, <2>1
<1>3. Numbers'
  BY <1>1, <1>2, NumbersHeard DEF m
<1>4. Places'
  BY <1>1 DEF ServerInv, Places
<1>5. TextsArrive'
  <2>1. CASE UNCHANGED toServer
    BY <1>1, <2>1 DEF ServerInv, TextsArrive, Serving
  <2>2. CASE toServer' = Append(toServer, [kind |-> "Initialized"])
    <3> DEFINE n == [kind |-> "Initialized"]
    <3>1. n \in Incoming /\ n.kind # "Request" /\ \A uri \in Uris : ~Touches(n, uri)
      BY BareTypes DEF Touches
    <3>2. toServer' = Append(toServer, n)
      BY <2>2
    <3> HIDE DEF n
    <3> QED
      BY <1>1, <3>1, <3>2, TextsSentStep
  <2> QED
    BY <1>1, <2>1, <2>2
<1>6. SquigglesArrive'
  BY <1>1, SquigglesShown DEF m
<1>7. phase # "Starting"
  BY <1>1 DEF ServerInv, Settled
<1>8. Settled'
  <2>1. /\ \A i \in Welcomes(toEditor) : toEditor[i].result.encoding = encoding
        /\ editor \in {"Ready", "Leaving"} => agreed = encoding
        /\ agreed = encoding \/ Welcomes(toEditor) # {}
    BY DEF ServerInv, Settled
  <2>2. \A i \in Welcomes(toEditor') : toEditor'[i].result.encoding = encoding
    BY <1>0, <1>1, <2>1, WelcomesTail
  <2>3. CASE m \in Responses /\ m.result.answer = "Encoding" /\ agreed' = m.result.encoding
    <3>1. 1 \in Welcomes(toEditor) /\ m = toEditor[1]
      BY <1>0, <1>1, <2>3, WelcomesTail DEF m, Responses
    <3>2. agreed' = encoding
      BY <2>1, <2>3, <3>1
    <3> QED
      BY <1>1, <1>7, <2>2, <3>2 DEF Settled
  <2>4. CASE /\ ~(m.kind = "Response" /\ m.result.answer = "Encoding")
             /\ UNCHANGED << editor, agreed >>
    <3>1. 1 \notin Welcomes(toEditor)
      BY <1>0, <1>1, <2>4, WelcomesTail DEF m
    <3>2. Welcomes(toEditor) # {} => Welcomes(toEditor') # {}
      BY <1>0, <1>1, <3>1, WelcomesTail
    <3> QED
      BY <1>1, <1>7, <2>1, <2>2, <2>4, <3>2 DEF Settled
  <2>5. m \in Publications => m.kind # "Response"
    BY DEF Publications
  <2> QED
    BY <1>1, <2>3, <2>4, <2>5
<1> QED
  BY <1>0, <1>3, <1>4, <1>5, <1>6, <1>8 DEF ServerInv

\* Nothing that happens breaks it.
LEMMA InvStep ==
  ASSUME ServerInv, [ServerNext]_serverVars
  PROVE  ServerInv'
<1>1. CASE UNCHANGED serverVars
  <2>1. /\ UNCHANGED << phase, encoding, documents, toServer, toEditor, exitRead >>
        /\ UNCHANGED << editor, agreed, buffers, shown, asked, answers, sends >>
    BY <1>1 DEF serverVars, server, client
  <2>2. TypeOK'
    BY <1>1, TypeStep DEF ServerInv
  <2>3. Numbers'
    BY <2>1 DEF ServerInv, Numbers, Serving
  <2>4. Places' /\ TextsArrive' /\ SquigglesArrive'
    BY <2>1 DEF ServerInv, Places, TextsArrive, SquigglesArrive, Serving
  <2>5. Settled'
    BY <2>1 DEF ServerInv, Settled
  <2> QED
    BY <2>2, <2>3, <2>4, <2>5 DEF ServerInv
<1> QED
  BY <1>1, InvServer, InvSpeak, InvHear DEF ServerNext

LEMMA ServerInvariant == ServerSpec => []ServerInv
<1>1. ServerInit => ServerInv
  BY InvInit
<1>2. ServerInv /\ [ServerNext]_serverVars => ServerInv'
  BY InvStep
<1> QED
  BY <1>1, <1>2, PTL DEF ServerSpec

\* server.rs and the connection of lsp-server: whatever the editor edits,
\* opens, closes and asks while messages are under way, the k-th answer it
\* hears is the one to its k-th request, and that of a feature is about the
\* text and the place the editor had when it asked: dispatch finds under the
\* file what the notifications before the request have left there, and the
\* position it is given comes to the byte the editor meant.
THEOREM AnswersAreCurrent == ServerSpec => []AnswersCurrentText
<1>1. ServerInv => AnswersCurrentText
  <2> SUFFICES ASSUME ServerInv, NEW k \in DOMAIN answers
               PROVE  /\ answers[k].id = k
                      /\ asked[k].kind = "Request" /\ asked[k].method = "Feature" =>
                           answers[k].result = Expected(asked[k])
    BY DEF AnswersCurrentText, Expected
  <2> QED
    BY DEF ServerInv, Numbers, Heard, Right
<1> QED
  BY <1>1, ServerInvariant, PTL

\* publish: what the editor is told of a file are the findings of the text in
\* it, each at the characters it is about.
LEMMA RangesArePlaces ==
  ASSUME NEW document \in Contents, document.open, NEW e \in PositionEncoding
  PROVE  LET text == document.text
             places == { p \in (1 .. Len(text) + 1) \X (1 .. Len(text) + 1) :
                           << ByteOf(text, p[1]), ByteOf(text, p[2]) >> \in Findings(text) }
         IN  Ranges(document, e)
               = { << ClientPosition(text, p[1], e), ClientPosition(text, p[2], e) >> : p \in places }
<1> DEFINE text == document.text
           places == { p \in (1 .. Len(text) + 1) \X (1 .. Len(text) + 1) :
                         << ByteOf(text, p[1]), ByteOf(text, p[2]) >> \in Findings(text) }
           Reached(span) == [k \in 1 .. 2 |-> Position(text, span[k], e)]
           There(p) == << ClientPosition(text, p[1], e), ClientPosition(text, p[2], e) >>
<1>1. text \in Texts /\ text \in Seq(Character)
  BY ContentsType, TextsAssumption
<1>2. Ranges(document, e) = { Reached(span) : span \in Findings(text) }
  BY DEF Ranges
<1> HIDE DEF text
<1>3. ASSUME NEW i \in 1 .. Len(text) + 1, NEW j \in 1 .. Len(text) + 1
      PROVE  Reached(<< ByteOf(text, i), ByteOf(text, j) >>)
               = << ClientPosition(text, i, e), ClientPosition(text, j, e) >>
  <2>1. /\ Position(text, ByteOf(text, i), e) = ClientPosition(text, i, e)
        /\ Position(text, ByteOf(text, j), e) = ClientPosition(text, j, e)
    BY <1>1, PositionIs
  <2> QED
    BY <2>1
<1>4. ASSUME NEW span \in Findings(text)
      PROVE  \E p \in places : Reached(span) = There(p)
  <2>1. PICK i \in 1 .. Len(text) + 1, j \in 1 .. Len(text) + 1 :
          span = << ByteOf(text, i), ByteOf(text, j) >>
    BY <1>1, FindingsAssumption
  <2> DEFINE p == << i, j >>
  <2>2. p[1] = i /\ p[2] = j /\ p \in (1 .. Len(text) + 1) \X (1 .. Len(text) + 1)
    OBVIOUS
  <2> HIDE DEF p
  <2>3. p \in places
    BY <2>1, <2>2
  <2>4. Reached(span) = There(p)
    BY <1>3, <2>1, <2>2
  <2> QED
    BY <2>3, <2>4
<1>5. ASSUME NEW p \in places
      PROVE  \E span \in Findings(text) : Reached(span) = There(p)
  <2>1. p[1] \in 1 .. Len(text) + 1 /\ p[2] \in 1 .. Len(text) + 1
    OBVIOUS
  <2>2. << ByteOf(text, p[1]), ByteOf(text, p[2]) >> \in Findings(text)
    OBVIOUS
  <2>3. Reached(<< ByteOf(text, p[1]), ByteOf(text, p[2]) >>) = There(p)
    BY <1>3, <2>1
  <2> QED
    BY <2>2, <2>3
<1> HIDE DEF places, Reached, There
<1>6. { Reached(span) : span \in Findings(text) } = { There(p) : p \in places }
  BY <1>4, <1>5
<1> QED
  BY <1>2, <1>6 DEF places, There, text

\* did_open, did_change, did_close and publish: once everything sent has
\* arrived, the squiggles of an open file are the findings of the text in it,
\* at the characters they are about, and a closed file has none.
THEOREM SquigglesAreCurrent == ServerSpec => []SquigglesCurrent
<1>1. ServerInv => SquigglesCurrent
  <2> SUFFICES ASSUME ServerInv, phase = "Running", toServer = << >>, toEditor = << >>,
                      NEW uri \in Uris
               PROVE  LET text == buffers[uri].text
                          places == { p \in (1 .. Len(text) + 1) \X (1 .. Len(text) + 1) :
                                        << ByteOf(text, p[1]), ByteOf(text, p[2]) >> \in Findings(text) }
                      IN  shown[uri] =
                            IF ~buffers[uri].open THEN {}
                            ELSE { << ClientPosition(text, p[1], agreed),
                                      ClientPosition(text, p[2], agreed) >> : p \in places }
    BY DEF SquigglesCurrent
  <2>1. \A T, v, start, d : Becomes(T, v, start, 0, d) => d = start
    BY DEF Becomes
  <2>2. Len(toServer) = 0 /\ Len(toEditor) = 0 /\ DOMAIN toEditor = {}
    OBVIOUS
  <2>3. buffers[uri] = documents[uri]
    BY <2>1, <2>2 DEF ServerInv, TextsArrive, Serving, TextsFollow
  <2>4. shown[uri] = Ranges(documents[uri], encoding)
    BY <2>1, <2>2 DEF ServerInv, SquigglesArrive, SquigglesFollow
  <2>5. agreed = encoding /\ encoding \in PositionEncoding
    <3>1. Welcomes(toEditor) = {}
      BY <2>2 DEF Welcomes, Replies
    <3> QED
      BY <3>1 DEF ServerInv, Settled, TypeOK
  <2>6. documents[uri] \in Contents /\ documents[uri].open \in BOOLEAN
    BY ContentsType DEF ServerInv, TypeOK
  <2>7. CASE ~documents[uri].open
    <3>1. Ranges(documents[uri], encoding) = {}
      BY <2>7 DEF Ranges
    <3> QED
      BY <2>3, <2>4, <2>7, <3>1
  <2>8. CASE documents[uri].open
    <3> DEFINE document == documents[uri]
               text == document.text
               places == { p \in (1 .. Len(text) + 1) \X (1 .. Len(text) + 1) :
                             << ByteOf(text, p[1]), ByteOf(text, p[2]) >> \in Findings(text) }
    <3>1. Ranges(document, encoding)
            = { << ClientPosition(text, p[1], encoding),
                   ClientPosition(text, p[2], encoding) >> : p \in places }
      <4> HIDE DEF document
      <4> QED
        BY <2>5, <2>6, <2>8, RangesArePlaces DEF document
    <3> QED
      BY <2>3, <2>4, <2>5, <2>8, <3>1
  <2> QED
    BY <2>7, <2>8
<1> QED
  BY <1>1, ServerInvariant, PTL

\* encoding.rs and LineIndex: in the encoding the handshake has settled, the
\* position the server makes of a byte is the one the client has for the
\* character there, and back, in every text, whatever comes before it.
THEOREM PlacesAgree == ServerSpec => []PositionsAgree
<1>1. ServerInv => PositionsAgree
  <2> SUFFICES ASSUME ServerInv, Negotiated, NEW text \in ProbeTexts,
                      NEW i \in 1 .. Len(text) + 1
               PROVE  /\ Position(text, ByteOf(text, i), encoding) = ClientPosition(text, i, agreed)
                      /\ Offset(text, ClientPosition(text, i, agreed), encoding) = ByteOf(text, i)
    BY DEF PositionsAgree
  <2>1. agreed = encoding /\ encoding \in PositionEncoding
    BY DEF Negotiated, ServerInv, Settled, TypeOK
  <2>2. text \in Seq(Character)
    BY TextsAssumption
  <2> QED
    BY <2>1, <2>2, PositionIs, OffsetOfPosition
<1> QED
  BY <1>1, ServerInvariant, PTL

\* offset_clamped and span_clamped: a position that is none of the text, behind
\* its lines, behind the end of a line or inside a character, comes to a
\* character of its line or an end, and a range to a span of the text.
THEOREM PlacesAreClamped == ServerSpec => []PositionsClamped
<1>1. ServerInv => PositionsClamped
  <2> SUFFICES ASSUME ServerInv, Negotiated, NEW text \in ProbeTexts,
                      NEW line \in 0 .. LineCount(text),
                      NEW character \in 0 .. Length(text) + 1
               PROVE  LET position == [line |-> line, character |-> character]
                          offset == OffsetClamped(text, position, encoding)
                          span == SpanClamped(text, << position, [line |-> 0, character |-> 1] >>, encoding)
                      IN  /\ \E i \in 1 .. Len(text) + 1 :
                               /\ offset = ByteOf(text, i)
                               /\ line < LineCount(text) =>
                                    LET there == ClientPosition(text, i, agreed)
                                    IN  /\ there.line = line
                                        /\ there.character < character =>
                                             offset = LineEnd(text, line)
                                        /\ there.character > 0 =>
                                             ClientPosition(text, i - 1, agreed).character < character
                          /\ line = LineCount(text) => offset = Length(text)
                          /\ 0 <= span[1] /\ span[1] <= span[2] /\ span[2] <= Length(text)
    BY DEF PositionsClamped
  <2> DEFINE position == [line |-> line, character |-> character]
             other == [line |-> 0, character |-> 1]
  <2>1. agreed = encoding /\ encoding \in PositionEncoding
    BY DEF Negotiated, ServerInv, Settled, TypeOK
  <2>2. text \in Seq(Character)
    BY TextsAssumption
  <2>3. character \in Nat /\ 1 \in Nat
    OBVIOUS
  <2>4. 0 \in 0 .. LineCount(text)
    <3>1. Len(text) + 1 \in 1 .. Len(text) + 1
      BY <2>2
    <3>2. LineCount(text) \in Nat
      BY <2>2, <3>1, LineCountIs, NewlinesFinite
    <3> QED
      BY <3>2
  <2>5. /\ ClampedWell(text, position, encoding, OffsetClamped(text, position, encoding))
        /\ ClampedWell(text, other, encoding, OffsetClamped(text, other, encoding))
    BY <2>1, <2>2, <2>3, <2>4, OffsetClampedWell
  <2>6. position.line = line /\ position.character = character
    OBVIOUS
  <2> HIDE DEF position, other
  <2>7. LET span == SpanClamped(text, << position, other >>, encoding)
        IN  0 <= span[1] /\ span[1] <= span[2] /\ span[2] <= Length(text)
    BY <2>2, <2>5, SpanClampedWell DEF ClampedWell
  <2> QED
    BY <2>1, <2>5, <2>6, <2>7 DEF ClampedWell, position, other
<1> QED
  BY <1>1, ServerInvariant, PTL
\* features/tokens.rs: the tokens an editor is sent, each told by its distance
\* from the one before, are where it has the characters they are about and as
\* long as these, in the encoding the handshake has settled, in every text.
THEOREM TokensDecodeBack == ServerSpec => []TokensDecode
<1>1. ServerInv => TokensDecode
  <2> SUFFICES ASSUME ServerInv, Negotiated, NEW text \in ProbeTexts
               PROVE  LET tokens == SemanticTokens(text, CharacterSpans(text), encoding)
                          places == TokenPlaces(tokens)
                      IN  /\ Len(tokens) = VisibleUpTo(text, Len(text))
                          /\ \A i \in { i \in DOMAIN text : text[i] # Newline } :
                               LET n == VisibleUpTo(text, i)
                               IN  /\ places[n] = ClientPosition(text, i, agreed)
                                   /\ tokens[n].length = Width(agreed, text[i])
                                   /\ tokens[n].delta.line >= 0 /\ tokens[n].delta.start >= 0
    BY DEF TokensDecode
  <2> DEFINE tokens == SemanticTokens(text, CharacterSpans(text), encoding)
             M == VisibleUpTo(text, Len(text))
  <2>1. agreed = encoding /\ encoding \in PositionEncoding
    BY DEF Negotiated, ServerInv, Settled, TypeOK
  <2>2. text \in Seq(Character)
    BY TextsAssumption
  <2>3. M \in Nat
    BY <2>2, VisibleCounts
  <2>4. tokens = [n \in 1 .. M |-> NthToken(text, n, encoding)]
    BY <2>1, <2>2, TokensAre
  <2>5. \A n \in 0 .. M : TokenPlaces(tokens)[n] = NthPlace(text, n, encoding)
    BY <2>1, <2>2, PlacesAre
  <2>6. \A n \in 0 .. M : NthPlace(text, n, encoding) \in [line : Nat, character : Nat]
    BY <2>1, <2>2, NthPlaces
  <2>7. \A i \in 1 .. Len(text) : text[i] # Newline =>
          Nth(text, VisibleUpTo(text, i)) = i /\ VisibleUpTo(text, i) \in 1 .. M
    BY <2>2, NthIs
  <2> HIDE DEF tokens, M
  <2>8. Len(tokens) = M
    BY <2>3, <2>4
  <2>9. ASSUME NEW i \in { i \in DOMAIN text : text[i] # Newline }
        PROVE  LET n == VisibleUpTo(text, i)
               IN  /\ TokenPlaces(tokens)[n] = ClientPosition(text, i, agreed)
                   /\ tokens[n].length = Width(agreed, text[i])
                   /\ tokens[n].delta.line >= 0 /\ tokens[n].delta.start >= 0
    <3> DEFINE n == VisibleUpTo(text, i)
               there == NthPlace(text, n, encoding)
               before == NthPlace(text, n - 1, encoding)
    <3>1. i \in 1 .. Len(text) /\ text[i] # Newline
      BY <2>2
    <3>2. Nth(text, n) = i /\ n \in 1 .. M
      BY <2>7, <3>1
    <3> HIDE DEF n
    <3>3. n \in 0 .. M /\ n - 1 \in 0 .. M /\ n # 0
      BY <2>3, <3>2
    <3>4. there = ClientPosition(text, i, encoding)
      BY <3>2, <3>3 DEF NthPlace
    <3>5. tokens[n] = [delta |-> Delta(there, before), length |-> Width(encoding, text[i])]
      BY <2>4, <3>2 DEF NthToken
    <3>6. /\ before.line <= there.line
          /\ before.line = there.line => before.character <= there.character
      BY <2>1, <2>2, <3>3, NthPlaces DEF M
    <3>7. TokenPlaces(tokens)[n] = there
      BY <2>5, <3>3
    <3>8. there \in [line : Nat, character : Nat] /\ before \in [line : Nat, character : Nat]
      BY <2>6, <3>3
    <3> HIDE DEF there, before
    <3>9. Delta(there, before).line >= 0 /\ Delta(there, before).start >= 0
      BY <3>6, <3>8, DeltaIs
    <3>10. tokens[n].delta = Delta(there, before) /\ tokens[n].length = Width(encoding, text[i])
      BY <3>5
    <3> QED
      BY <2>1, <3>4, <3>7, <3>9, <3>10 DEF n
  <2> QED
    BY <2>8, <2>9 DEF tokens, M
<1> QED
  BY <1>1, ServerInvariant, PTL

-----------------------------------------------------------------------------
(* The lexer: its search for the parts of a line is the search of the      *)
(* regular expression it stands for.                                       *)

\* The least of a set of naturals.
LEMMA LeastIs ==
  ASSUME NEW S \in SUBSET Nat, S # {}
  PROVE  Min(S) \in S /\ \A x \in S : Min(S) <= x
<1>1. \E x \in S : \A y \in S : x <= y
  BY LeastNatural
<1> QED
  BY <1>1 DEF Min

\* The texts that are a line.
LineText == Seq(Character \ {Newline})

\* A character of a line is one, and behind the last there is none.
LEMMA LineFacts ==
  ASSUME NEW line \in LineText
  PROVE  /\ Len(line) \in Nat /\ DOMAIN line = 1 .. Len(line)
         /\ \A i \in 1 .. Len(line) :
              line[i] \in Character \ {Newline} /\ At(line, i) = line[i] /\ line[i] # "end"
         /\ At(line, Len(line) + 1) = "end" /\ "end" \notin Space
<1>1. Len(line) \in Nat /\ DOMAIN line = 1 .. Len(line)
  BY DEF LineText
<1>2. \A i \in 1 .. Len(line) : line[i] \in Character \ {Newline}
  BY DEF LineText
<1>3. "end" \notin Character /\ "end" \notin Space
  BY DEF Character, Ascii, Newline, Space
<1>4. Len(line) + 1 \notin 1 .. Len(line)
  BY <1>1
<1> QED
  BY <1>1, <1>2, <1>3, <1>4 DEF At

\* skip_whitespace stops at the first character that is none.
LEMMA SkipIs ==
  ASSUME NEW line \in LineText, NEW i \in 1 .. Len(line) + 1
  PROVE  /\ SkipWhitespace(line, i) \in i .. Len(line) + 1
         /\ At(line, SkipWhitespace(line, i)) \notin Space
         /\ \A j \in i .. SkipWhitespace(line, i) - 1 : line[j] \in Space
<1> DEFINE S == { k \in i .. Len(line) + 1 : At(line, k) \notin Space }
           k == SkipWhitespace(line, i)
<1>1. Len(line) + 1 \in S /\ S \in SUBSET Nat /\ Len(line) \in Nat
  BY LineFacts
<1>2. k = Min(S)
  BY DEF SkipWhitespace
<1> HIDE DEF k
<1>3. k \in S /\ \A x \in S : k <= x
  BY <1>1, <1>2, LeastIs
<1>4. ASSUME NEW j \in i .. k - 1
      PROVE  line[j] \in Space
  <2>1. j \in 1 .. Len(line) /\ j \in i .. Len(line) + 1 /\ ~(k <= j)
    BY <1>1, <1>3
  <2>2. At(line, j) \in Space
    BY <1>3, <2>1
  <2> QED
    BY <2>1, <2>2, LineFacts
<1> QED
  BY <1>3, <1>4 DEF k

\* Whatever begins in the space that is skipped skips to the same place, and
\* the spaces of the expression are those.
LEMMA SkipSame ==
  ASSUME NEW line \in LineText, NEW i \in 1 .. Len(line) + 1
  PROVE  /\ Spaces(line, i) = i .. SkipWhitespace(line, i)
         /\ \A s \in Spaces(line, i) :
              /\ s \in 1 .. Len(line) + 1
              /\ SkipWhitespace(line, s) = SkipWhitespace(line, i)
              /\ At(line, s) \notin Space => s = SkipWhitespace(line, i)
<1>0. Len(line) \in Nat /\ \A j \in 1 .. Len(line) : At(line, j) = line[j]
  BY LineFacts
<1> DEFINE k == SkipWhitespace(line, i)
<1>1. /\ k \in i .. Len(line) + 1 /\ At(line, k) \notin Space
      /\ \A j \in i .. k - 1 : line[j] \in Space
  BY SkipIs
<1> HIDE DEF k
<1>2. ASSUME NEW s \in Spaces(line, i)
      PROVE  s \in i .. k
  <2>1. s \in i .. Len(line) + 1 /\ \A j \in i .. s - 1 : line[j] \in Space
    BY DEF Spaces
  <2>2. ASSUME k < s PROVE FALSE
    <3>1. k \in i .. s - 1 /\ k \in 1 .. Len(line)
      BY <1>0, <1>1, <2>1, <2>2
    <3> QED
      BY <1>0, <1>1, <2>1, <3>1
  <2> QED
    BY <1>0, <1>1, <2>1, <2>2
<1>3. ASSUME NEW s \in i .. k
      PROVE  s \in Spaces(line, i)
  <2>1. s \in i .. Len(line) + 1 /\ \A j \in i .. s - 1 : j \in i .. k - 1
    BY <1>0, <1>1
  <2> QED
    BY <1>1, <2>1 DEF Spaces
<1>4. ASSUME NEW s \in i .. k
      PROVE  s \in 1 .. Len(line) + 1 /\ SkipWhitespace(line, s) = k
  <2>1. s \in 1 .. Len(line) + 1
    BY <1>0, <1>1
  <2> DEFINE m == SkipWhitespace(line, s)
  <2>2. /\ m \in s .. Len(line) + 1 /\ At(line, m) \notin Space
        /\ \A j \in s .. m - 1 : line[j] \in Space
    BY <2>1, SkipIs
  <2> HIDE DEF m
  <2>3. ASSUME k < m PROVE FALSE
    <3>1. k \in s .. m - 1 /\ k \in 1 .. Len(line)
      BY <1>0, <1>1, <2>2, <2>3
    <3> QED
      BY <1>0, <1>1, <2>2, <3>1
  <2>4. ASSUME m < k PROVE FALSE
    <3>1. m \in i .. k - 1 /\ m \in 1 .. Len(line)
      BY <1>0, <1>1, <2>2, <2>4
    <3> QED
      BY <1>0, <1>1, <2>2, <3>1
  <2>5. m = k
    BY <1>0, <1>1, <2>2, <2>3, <2>4
  <2> QED
    BY <2>1, <2>5 DEF m
<1>5. ASSUME NEW s \in i .. k, At(line, s) \notin Space
      PROVE  s = k
  <2>1. ASSUME s < k PROVE FALSE
    <3>1. s \in i .. k - 1 /\ s \in 1 .. Len(line)
      BY <1>0, <1>1, <2>1
    <3> QED
      BY <1>0, <1>1, <1>5, <3>1
  <2> QED
    BY <1>1, <2>1
<1> QED
  BY <1>2, <1>3, <1>4, <1>5 DEF k

\* A word of the expression begins where space ends.
LEMMA WordBegins ==
  ASSUME NEW line \in LineText, NEW i \in 1 .. Len(line) + 1, NEW s \in Spaces(line, i),
         NEW e \in Words(line, s)
  PROVE  /\ s = SkipWhitespace(line, i) /\ s \in 1 .. Len(line) /\ IsWord(line, s, e)
         /\ e \in s + 1 .. Len(line) + 1
<1>0. Len(line) \in Nat
  BY LineFacts
<1>1. s \in 1 .. Len(line) + 1 /\ (At(line, s) \notin Space => s = SkipWhitespace(line, i))
  BY SkipSame
<1>2. e \in s .. Len(line) + 1 /\ s < e /\ IsWord(line, s, e)
  BY DEF Words, IsWord
<1>3. s \in 1 .. Len(line) /\ s \in s .. e - 1 /\ e \in s + 1 .. Len(line) + 1
  BY <1>0, <1>1, <1>2
<1>4. line[s] \notin Space
  BY <1>2, <1>3 DEF IsWord
<1>5. At(line, s) = line[s]
  BY <1>3, LineFacts
<1> QED
  BY <1>1, <1>2, <1>3, <1>4, <1>5

\* The operands the expression allows are those the code looks for.
LEMMA OperandsAre ==
  ASSUME NEW line \in LineText, NEW m \in 1 .. Len(line) + 1
  PROVE  /\ NoPart \in Operands(line, m) <=> TailMatches(line, m)
         /\ \A e \in OperandEnds(line, m) :
              /\ << SkipWhitespace(line, m), e >> \in Operands(line, m)
              /\ SkipWhitespace(line, m) \in Nat /\ e \in Nat
              /\ m < SkipWhitespace(line, m) /\ SkipWhitespace(line, m) < e
              /\ e <= Len(line) + 1
         /\ \A operand \in Operands(line, m) :
              operand # NoPart =>
                \E e \in OperandEnds(line, m) : operand = << SkipWhitespace(line, m), e >>
<1> DEFINE s == SkipWhitespace(line, m)
           n == Len(line)
<1>0. n \in Nat
  BY LineFacts
<1>1. \A o, e : << o, e >> # NoPart
  BY DEF NoPart
<1>2. NoPart \in Operands(line, m) <=> TailMatches(line, m)
  BY DEF Operands
<1>3. /\ s \in m .. n + 1 /\ At(line, s) \notin Space
  BY SkipIs
<1>4. ASSUME NEW e \in OperandEnds(line, m)
      PROVE  << s, e >> \in Operands(line, m) /\ m < s /\ s < e /\ e <= n + 1 /\ e \in Nat
  <2>1. /\ e \in s .. n + 1 /\ At(line, m) \in Space /\ IsWord(line, s, e)
        /\ TailMatches(line, e)
    BY DEF OperandEnds
  <2>2. s < e /\ s # m
    BY <1>3, <2>1 DEF IsWord
  <2> HIDE DEF n
  <2>3. s \in m + 1 .. n /\ e \in m + 2 .. n + 1
    BY <1>0, <1>3, <2>1, <2>2
  <2>4. s \in Spaces(line, m) /\ e \in Words(line, s)
    <3>1. s \in m .. s
      BY <1>3
    <3>2. s \in Spaces(line, m)
      BY <3>1, SkipSame
    <3> QED
      BY <2>1, <3>2 DEF Words, n
  <2>5. << s, e >>[2] = e
    OBVIOUS
  <2> HIDE DEF s
  <2>6. << s, e >> \in Operands(line, m)
    BY <1>1, <2>1, <2>3, <2>4, <2>5 DEF Operands, n
  <2> QED
    BY <1>0, <1>3, <2>2, <2>3, <2>6
<1>5. ASSUME NEW operand \in Operands(line, m), operand # NoPart
      PROVE  \E e \in OperandEnds(line, m) : operand = << s, e >>
  <2>1. PICK o \in m + 1 .. n, e \in m + 2 .. n + 1 :
          /\ operand = << o, e >> /\ o \in Spaces(line, m) /\ e \in Words(line, o)
    BY <1>5 DEF Operands
  <2>2. TailMatches(line, e)
    <3>1. TailMatches(line, operand[2])
      BY <1>5 DEF Operands
    <3> QED
      BY <2>1, <3>1
  <2>3. o = s /\ IsWord(line, o, e) /\ e \in o + 1 .. n + 1
    BY <2>1, WordBegins
  <2>4. At(line, m) \in Space
    <3>1. m \in m .. o - 1 /\ m \in 1 .. n
      BY <1>0, <2>1
    <3>2. line[m] \in Space
      BY <2>1, <3>1 DEF Spaces
    <3> QED
      BY <3>1, <3>2, LineFacts
  <2>5. e \in s .. n + 1
    BY <1>3, <2>3
  <2>6. e \in OperandEnds(line, m)
    BY <2>2, <2>3, <2>4, <2>5 DEF OperandEnds
  <2> QED
    BY <2>1, <2>3, <2>6
<1> QED
  BY <1>2, <1>3, <1>4, <1>5 DEF s, n

\* So are the mnemonics.
LEMMA MnemonicsAre ==
  ASSUME NEW line \in LineText, NEW s \in 1 .. Len(line) + 1
  PROVE  \A m : m \in MnemonicEnds(line, s)
                  <=> m \in Words(line, s) /\ Operands(line, m) # {}
<1> TAKE m
<1>1. m \in MnemonicEnds(line, s)
        <=> m \in Words(line, s) /\ (OperandEnds(line, m) # {} \/ TailMatches(line, m))
  BY DEF MnemonicEnds, Words
<1>2. m \in Words(line, s) => m \in 1 .. Len(line) + 1
  BY LineFacts DEF Words
<1>3. m \in 1 .. Len(line) + 1 =>
        (Operands(line, m) # {} <=> OperandEnds(line, m) # {} \/ TailMatches(line, m))
  BY OperandsAre
<1> QED
  BY <1>1, <1>2, <1>3

\* Where the space after a label begins.
BehindLabel(w, label) == IF label = NoPart THEN w ELSE label[2] + 1
\* The labels that may begin at w.
LabelsFrom(line, w) == {NoPart} \cup { << w, e >> : e \in LabelEnds(line, w) }

\* A match: where it starts, its label, and what is made of the rest.
LEMMA MatchIs ==
  ASSUME NEW line, NEW q
  PROVE  q \in Matches(line) <=>
           \E w \in Spaces(line, 1) : \E label \in LabelsFrom(line, w) :
             \E s \in Spaces(line, BehindLabel(w, label)) : \E m \in Words(line, s) :
               \E operand \in Operands(line, m) :
                 q = << w, label, << s, m >>, operand >>
BY DEF Matches, LabelsFrom, BehindLabel

\* There is always a place after it.
LEMMA LabelFrom ==
  ASSUME NEW line \in LineText, NEW w \in Spaces(line, 1), NEW label \in LabelsFrom(line, w)
  PROVE  /\ w \in 1 .. Len(line) + 1 /\ w <= SkipWhitespace(line, 1)
         /\ BehindLabel(w, label) \in 1 .. Len(line) + 1
         /\ label # NoPart => /\ label = << w, label[2] >> /\ label[2] \in LabelEnds(line, w)
                              /\ label[2] \in w + 1 .. Len(line)
<1>0. Len(line) \in Nat /\ 1 \in 1 .. Len(line) + 1
  BY LineFacts
<1>1. w \in 1 .. Len(line) + 1 /\ w \in 1 .. SkipWhitespace(line, 1)
  BY <1>0, SkipSame
<1>2. SkipWhitespace(line, 1) \in 1 .. Len(line) + 1
  BY <1>0, SkipIs
<1>3. CASE label = NoPart
  BY <1>0, <1>1, <1>2, <1>3 DEF BehindLabel
<1>4. CASE label # NoPart
  <2>1. PICK e \in LabelEnds(line, w) : label = << w, e >>
    BY <1>4 DEF LabelsFrom
  <2>2. e \in w + 1 .. Len(line) /\ label[2] = e
    BY <2>1 DEF LabelEnds
  <2>3. e + 1 \in 1 .. Len(line) + 1
    BY <1>0, <1>1, <2>2
  <2> QED
    BY <1>0, <1>1, <1>2, <1>4, <2>1, <2>2, <2>3 DEF BehindLabel
<1> QED
  BY <1>3, <1>4

\* Its mnemonic begins where the space behind the label ends.
LEMMA MatchesFrom ==
  ASSUME NEW line \in LineText, NEW w \in Spaces(line, 1), NEW label \in LabelsFrom(line, w),
         NEW q \in Matches(line), q[1] = w, q[2] = label
  PROVE  LET s == SkipWhitespace(line, BehindLabel(w, label))
         IN  \E m \in MnemonicEnds(line, s) : \E operand \in Operands(line, m) :
               q = << w, label, << s, m >>, operand >>
<1> DEFINE i == BehindLabel(w, label)
           s == SkipWhitespace(line, i)
<1>0. Len(line) \in Nat /\ i \in 1 .. Len(line) + 1
  BY LineFacts, LabelFrom
<1>1. s \in 1 .. Len(line) + 1
  BY <1>0, SkipIs
<1>2. \A m : m \in MnemonicEnds(line, s)
               <=> m \in Words(line, s) /\ Operands(line, m) # {}
  BY <1>1, MnemonicsAre
<1>3. \E v \in Spaces(line, 1) : \E l \in LabelsFrom(line, v) :
         \E t \in Spaces(line, BehindLabel(v, l)) : \E m \in Words(line, t) :
           \E operand \in Operands(line, m) :
             q = << v, l, << t, m >>, operand >>
  BY MatchIs
<1>4. PICK v, l, t, m, operand :
        /\ t \in Spaces(line, BehindLabel(v, l)) /\ m \in Words(line, t)
        /\ operand \in Operands(line, m)
        /\ q = << v, l, << t, m >>, operand >>
  BY <1>3
<1>5. v = w /\ l = label
  BY <1>4
<1>6. t \in Spaces(line, i)
  BY <1>4, <1>5
<1>7. t = s
  BY <1>0, <1>4, <1>6, WordBegins
<1> HIDE DEF s, i
<1>8. \E n \in MnemonicEnds(line, s) : \E o \in Operands(line, n) :
        q = << w, label, << s, n >>, o >>
  BY <1>2, <1>4, <1>5, <1>7
<1> QED
  BY <1>8 DEF s, i

\* Where the code finds nothing, the expression does not either.
LEMMA NoMatchBegins ==
  ASSUME NEW line \in LineText, NEW w \in Spaces(line, 1), NEW label \in LabelsFrom(line, w),
         Body(line, BehindLabel(w, label), label) = MalformedLine
  PROVE  \A r \in Matches(line) : ~(r[1] = w /\ r[2] = label)
<1> DEFINE s == SkipWhitespace(line, BehindLabel(w, label))
<1>1. MnemonicEnds(line, s) = {}
  BY DEF Body, MalformedLine, StatementLine
<1> HIDE DEF s
<1>2. ASSUME NEW q \in Matches(line), q[1] = w, q[2] = label
      PROVE  \E m \in MnemonicEnds(line, s) : TRUE
  BY <1>2, MatchesFrom DEF s
<1> QED
  BY <1>1, <1>2

\* What begins at the same place with the same label: the code finds the best
\* of it, or there is none.
LEMMA BodyIsBest ==
  ASSUME NEW line \in LineText, NEW w \in Spaces(line, 1), NEW label \in LabelsFrom(line, w),
         NEW form, form = Body(line, BehindLabel(w, label), label)
  PROVE  /\ form = MalformedLine =>
              \A q \in Matches(line) : ~(q[1] = w /\ q[2] = label)
         /\ form # MalformedLine =>
              /\ form.form = "Statement" /\ form.label = label
              /\ << w, form.label, form.mnemonic, form.operand >> \in Matches(line)
              /\ \A q \in Matches(line) :
                   /\ q[1] = w /\ q[2] = label
                   /\ q # << w, form.label, form.mnemonic, form.operand >>
                   => Preferred(<< w, form.label, form.mnemonic, form.operand >>, q)
<1> DEFINE i == BehindLabel(w, label)
           s == SkipWhitespace(line, i)
           e == Min(MnemonicEnds(line, s))
           o == OperandAfter(line, e)
<1>0. Len(line) \in Nat /\ i \in 1 .. Len(line) + 1
  BY LineFacts, LabelFrom
<1>1. s \in 1 .. Len(line) + 1 /\ s \in Spaces(line, i)
  <2>1. s \in i .. Len(line) + 1 /\ s \in i .. s
    BY <1>0, SkipIs
  <2>2. Spaces(line, i) = i .. s
    BY <1>0, SkipSame
  <2> QED
    BY <1>0, <2>1, <2>2
<1>2. form = IF MnemonicEnds(line, s) = {} THEN MalformedLine
             ELSE StatementLine(label, << s, e >>, o,
                    Tail_(line, IF o = NoPart THEN e ELSE o[2]))
  BY DEF Body
<1>3. \A m : m \in MnemonicEnds(line, s)
               <=> m \in Words(line, s) /\ Operands(line, m) # {}
  BY <1>1, MnemonicsAre
<1>4. ASSUME NEW q \in Matches(line), q[1] = w, q[2] = label
      PROVE  \E m \in MnemonicEnds(line, s) : \E operand \in Operands(line, m) :
               q = << w, label, << s, m >>, operand >>
  BY <1>4, MatchesFrom
<1>5. CASE MnemonicEnds(line, s) = {}
  <2>1. form = MalformedLine
    BY <1>2, <1>5
  <2> QED
    BY <1>4, <1>5, <2>1
<1>6. CASE MnemonicEnds(line, s) # {}
  <2> DEFINE M == MnemonicEnds(line, s)
  <2>1. M \in SUBSET Nat
    BY <1>0, <1>1 DEF MnemonicEnds
  <2>2. e \in M /\ \A m \in M : e <= m
    BY <1>6, <2>1, LeastIs
  <2>3. /\ form # MalformedLine /\ form.form = "Statement" /\ form.label = label
        /\ form.mnemonic = << s, e >> /\ form.operand = o
    BY <1>2, <1>6 DEF StatementLine, MalformedLine
  <2>4. e \in Words(line, s) /\ Operands(line, e) # {} /\ e \in 1 .. Len(line) + 1
    BY <1>0, <1>1, <1>3, <2>2 DEF Words
  <2>5. /\ o \in Operands(line, e)
        /\ \A p \in Operands(line, e) : p # o => PreferredPart(FALSE, o, p)
    <3>0. DEFINE k == SkipWhitespace(line, e)
    <3>1. /\ \A x \in OperandEnds(line, e) : << k, x >> \in Operands(line, e) /\ x \in Nat
          /\ \A p \in Operands(line, e) :
                p # NoPart => \E x \in OperandEnds(line, e) : p = << k, x >>
      BY <2>4, OperandsAre
    <3>2. \A x : << k, x >> # NoPart
      BY DEF NoPart
    <3> HIDE DEF k
    <3>3. CASE OperandEnds(line, e) = {}
      <4>1. o = NoPart
        BY <3>3 DEF OperandAfter
      <4>2. \A p \in Operands(line, e) : p = NoPart
        BY <3>1, <3>3
      <4> HIDE DEF o
      <4> QED
        BY <2>4, <4>1, <4>2
    <3>4. CASE OperandEnds(line, e) # {}
      <4> DEFINE x == Min(OperandEnds(line, e))
      <4>1. OperandEnds(line, e) \in SUBSET Nat
        BY <3>1
      <4>2. x \in OperandEnds(line, e) /\ \A y \in OperandEnds(line, e) : x <= y
        BY <3>4, <4>1, LeastIs
      <4>3. o = << k, x >>
        BY <3>4 DEF OperandAfter, k
      <4> HIDE DEF o, x
      <4>4. o \in Operands(line, e)
        BY <3>1, <4>2, <4>3
      <4>5. ASSUME NEW p \in Operands(line, e), p # o
            PROVE  PreferredPart(FALSE, o, p)
        <5>1. CASE p = NoPart
          BY <5>1 DEF PreferredPart
        <5>2. CASE p # NoPart
          <6>1. PICK y \in OperandEnds(line, e) : p = << k, y >>
            BY <3>1, <5>2
          <6>2. x # y /\ x <= y /\ x \in Nat /\ y \in Nat
            BY <3>1, <4>2, <4>3, <4>5, <6>1
          <6>3. x < y
            BY <6>2
          <6>4. o[1] = k /\ o[2] = x /\ p[1] = k /\ p[2] = y
            BY <4>3, <6>1
          <6> QED
            BY <3>2, <4>3, <6>3, <6>4 DEF PreferredPart
        <5> QED
          BY <5>1, <5>2
      <4> QED
        BY <4>4, <4>5
    <3> QED
      BY <3>3, <3>4
  <2> HIDE DEF i, e, o, M
  <2> DEFINE p == << w, label, << s, e >>, o >>
  <2>6. p \in Matches(line)
    <3>1. \E t \in Spaces(line, BehindLabel(w, label)) : \E m \in Words(line, t) :
             \E operand \in Operands(line, m) : p = << w, label, << t, m >>, operand >>
      <4> HIDE DEF s
      <4> QED
        BY <1>1, <2>4, <2>5 DEF i
    <3> HIDE DEF p, s
    <3> QED
      BY <3>1, MatchIs
  <2>7. ASSUME NEW q \in Matches(line), q[1] = w, q[2] = label, q # p
        PROVE  Preferred(p, q)
    <3>1. PICK m, operand : /\ m \in M /\ operand \in Operands(line, m)
                           /\ q = << w, label, << s, m >>, operand >>
      BY <1>4, <2>7 DEF M
    <3> HIDE DEF s
    <3>2. /\ p[1] = w /\ p[2] = label /\ p[3] = << s, e >> /\ p[4] = o
          /\ q[3] = << s, m >> /\ q[4] = operand
      BY <3>1
    <3>3. CASE m = e
      <4>1. operand # o
        BY <2>7, <3>1, <3>3
      <4>2. PreferredPart(FALSE, o, operand)
        BY <2>5, <3>1, <3>3, <4>1
      <4> HIDE DEF p
      <4> QED
        BY <2>7, <3>2, <3>3, <4>1, <4>2 DEF Preferred
    <3>4. CASE m # e
      <4>1. e \in Nat /\ m \in Nat /\ e <= m
        BY <2>1, <2>2, <3>1
      <4>2. e < m
        BY <3>4, <4>1
      <4>3. << s, e >> # << s, m >> /\ << s, e >> # NoPart
        BY <3>4 DEF NoPart
      <4>4. PreferredPart(FALSE, << s, e >>, << s, m >>)
        BY <4>2, <4>3 DEF PreferredPart
      <4> HIDE DEF p
      <4> QED
        BY <2>7, <3>2, <4>3, <4>4 DEF Preferred
    <3> QED
      BY <3>3, <3>4
  <2> QED
    BY <2>3, <2>6, <2>7
<1> QED
  BY <1>5, <1>6

\* The one label that may begin at w, and what the code does with it.
LEMMA LabelIs ==
  ASSUME NEW line \in LineText, NEW w \in 1 .. Len(line) + 1
  PROVE  /\ LabelEnds(line, w) = {} => WithLabel(line, w) = MalformedLine
         /\ \A e \in LabelEnds(line, w) :
              /\ WithLabel(line, w) = Body(line, e + 1, << w, e >>)
              /\ LabelEnds(line, w) = {e}
<1> DEFINE S == { k \in w .. Len(line) + 1 : At(line, k) \in {"comma", "slash", "end"} }
           m == Min(S)
<1>0. /\ Len(line) \in Nat /\ DOMAIN line = 1 .. Len(line)
      /\ \A k \in 1 .. Len(line) : At(line, k) = line[k] /\ line[k] # "end"
      /\ At(line, Len(line) + 1) = "end"
  BY LineFacts
<1>1. m \in S /\ \A k \in S : m <= k
  <2>1. Len(line) + 1 \in S /\ S \in SUBSET Nat
    BY <1>0
  <2> HIDE DEF S
  <2> QED
    BY <2>1, LeastIs
<1>2. m \in w .. Len(line) + 1 /\ At(line, m) \in {"comma", "slash", "end"}
  BY <1>1
<1>3. WithLabel(line, w) = IF At(line, m) = "comma" /\ m # w
                           THEN Body(line, m + 1, << w, m >>) ELSE MalformedLine
  BY DEF WithLabel
<1> HIDE DEF m
<1>4. ASSUME NEW e \in LabelEnds(line, w)
      PROVE  e = m /\ At(line, m) = "comma" /\ m # w
  <2>1. /\ e \in w + 1 .. Len(line) /\ line[e] = "comma"
        /\ \A k \in w .. e - 1 : line[k] \notin {"comma", "slash"}
    BY DEF LabelEnds
  <2>2. e \in S /\ e \in 1 .. Len(line)
    BY <1>0, <2>1
  <2>3. m <= e
    BY <1>1, <2>2
  <2>4. ASSUME m < e PROVE FALSE
    <3>1. m \in w .. e - 1 /\ m \in 1 .. Len(line)
      BY <1>0, <1>2, <2>1, <2>4
    <3> QED
      BY <1>0, <1>2, <2>1, <3>1
  <2>5. e = m
    BY <1>0, <1>2, <2>1, <2>3, <2>4
  <2> QED
    BY <1>0, <2>1, <2>2, <2>5
<1>5. ASSUME At(line, m) = "comma", m # w
      PROVE  m \in LabelEnds(line, w)
  <2>1. m # Len(line) + 1
    BY <1>0, <1>5
  <2>2. m \in w + 1 .. Len(line) /\ m \in 1 .. Len(line)
    BY <1>0, <1>2, <1>5, <2>1
  <2>3. line[m] = "comma"
    BY <1>0, <1>5, <2>2
  <2>4. ASSUME NEW k \in w .. m - 1, line[k] \in {"comma", "slash"}
        PROVE  FALSE
    <3>1. k \in 1 .. Len(line) /\ k \in w .. Len(line) + 1 /\ ~(m <= k)
      BY <1>0, <2>2
    <3>2. k \in S
      BY <1>0, <2>4, <3>1
    <3> QED
      BY <1>1, <3>1, <3>2
  <2> QED
    BY <2>2, <2>3, <2>4 DEF LabelEnds
<1> QED
  BY <1>3, <1>4, <1>5

\* A function on 1 .. n is a sequence of length n.
LEMMA SeqOfLength ==
  ASSUME NEW S, NEW n \in Nat, NEW f \in [1 .. n -> S]
  PROVE  f \in Seq(S) /\ Len(f) = n
OBVIOUS

\* The first of the forms that is one.
LEMMA FirstOfIs ==
  ASSUME NEW S, NEW forms \in Seq(S)
  PROVE  \/ FirstOf(forms) = MalformedLine /\ \A k \in 1 .. Len(forms) : forms[k] = MalformedLine
         \/ \E k \in 1 .. Len(forms) :
              /\ FirstOf(forms) = forms[k] /\ forms[k] # MalformedLine
              /\ \A j \in 1 .. k - 1 : forms[j] = MalformedLine
<1> DEFINE found == { k \in DOMAIN forms : forms[k] # MalformedLine }
<1>0. Len(forms) \in Nat /\ DOMAIN forms = 1 .. Len(forms)
  OBVIOUS
<1>1. FirstOf(forms) = IF found = {} THEN MalformedLine ELSE forms[Min(found)]
  BY DEF FirstOf
<1>2. CASE found = {}
  BY <1>0, <1>1, <1>2
<1>3. CASE found # {}
  <2>1. found \in SUBSET Nat
    BY <1>0
  <2> DEFINE k == Min(found)
  <2>2. k \in found /\ \A j \in found : k <= j
    <3> HIDE DEF found
    <3> QED
      BY <1>3, <2>1, LeastIs
  <2>3. FirstOf(forms) = forms[k]
    BY <1>1, <1>3
  <2> HIDE DEF k
  <2>4. \A j \in 1 .. k - 1 : forms[j] = MalformedLine
    <3> TAKE j \in 1 .. k - 1
    <3>1. j \in DOMAIN forms /\ ~(k <= j)
      BY <1>0, <2>2
    <3> QED
      BY <2>2, <3>1
  <2> QED
    BY <1>0, <2>2, <2>3, <2>4
<1> QED
  BY <1>2, <1>3

\* A form that is a statement is the best match of all.
BestMatch(line, form) ==
  /\ form # MalformedLine => form.form = "Statement"
  /\ IF form = MalformedLine THEN Matches(line) = {}
     ELSE \E w : LET p == << w, form.label, form.mnemonic, form.operand >>
                 IN  p \in Matches(line) /\ \A q \in Matches(line) \ {p} : Preferred(p, q)

\* Matches are about a place where the line may begin.
LEMMA MatchBegins ==
  ASSUME NEW line \in LineText, NEW q \in Matches(line)
  PROVE  /\ q[1] \in Spaces(line, 1) /\ q[1] \in Nat /\ q[1] <= SkipWhitespace(line, 1)
         /\ q[2] \in LabelsFrom(line, q[1])
<1>1. \E w \in Spaces(line, 1) : \E label \in LabelsFrom(line, w) :
        \E s \in Spaces(line, BehindLabel(w, label)) : \E m \in Words(line, s) :
          \E operand \in Operands(line, m) :
            q = << w, label, << s, m >>, operand >>
  BY MatchIs
<1>2. PICK w, label, mnemonic, operand :
        /\ w \in Spaces(line, 1) /\ label \in LabelsFrom(line, w)
        /\ q = << w, label, mnemonic, operand >>
  BY <1>1
<1>3. w \in 1 .. Len(line) + 1 /\ w <= SkipWhitespace(line, 1)
  BY <1>2, LabelFrom
<1>4. Len(line) \in Nat
  BY LineFacts
<1> QED
  BY <1>2, <1>3, <1>4

\* WithLabel is about the match with a label at its place.
LEMMA WithLabelIsBest ==
  ASSUME NEW line \in LineText, NEW w \in Spaces(line, 1),
         NEW form, form = WithLabel(line, w)
  PROVE  /\ form = MalformedLine =>
              \A q \in Matches(line) : ~(q[1] = w /\ q[2] # NoPart)
         /\ form # MalformedLine =>
              /\ form.form = "Statement" /\ form.label # NoPart
              /\ << w, form.label, form.mnemonic, form.operand >> \in Matches(line)
              /\ \A q \in Matches(line) :
                   /\ q[1] = w /\ q[2] # NoPart
                   /\ q # << w, form.label, form.mnemonic, form.operand >>
                   => Preferred(<< w, form.label, form.mnemonic, form.operand >>, q)
<1>0. w \in 1 .. Len(line) + 1
  <2>1. NoPart \in LabelsFrom(line, w)
    BY DEF LabelsFrom
  <2> QED
    BY <2>1, LabelFrom
<1>1. \A q \in Matches(line) : q[1] = w => q[2] \in LabelsFrom(line, w)
  BY MatchBegins
<1>2. CASE LabelEnds(line, w) = {}
  <2>1. LabelsFrom(line, w) = {NoPart}
    BY <1>2 DEF LabelsFrom
  <2>2. form = MalformedLine
    BY <1>0, <1>2, LabelIs
  <2> QED
    BY <1>1, <2>1, <2>2
<1>3. CASE LabelEnds(line, w) # {}
  <2>1. PICK e : e \in LabelEnds(line, w)
    BY <1>3
  <2> DEFINE label == << w, e >>
  <2>2. label \in LabelsFrom(line, w) /\ LabelsFrom(line, w) = {NoPart, label}
    <3>1. LabelEnds(line, w) = {e}
      BY <1>0, <2>1, LabelIs
    <3> QED
      BY <3>1 DEF LabelsFrom
  <2>3. label # NoPart /\ BehindLabel(w, label) = e + 1
    BY DEF NoPart, BehindLabel
  <2>4. form = Body(line, BehindLabel(w, label), label)
    BY <1>0, <2>1, <2>3, LabelIs
  <2> HIDE DEF label
  <2>5. /\ form = MalformedLine =>
              \A q \in Matches(line) : ~(q[1] = w /\ q[2] = label)
        /\ form # MalformedLine =>
              /\ form.form = "Statement" /\ form.label = label
              /\ << w, form.label, form.mnemonic, form.operand >> \in Matches(line)
              /\ \A q \in Matches(line) :
                   /\ q[1] = w /\ q[2] = label
                   /\ q # << w, form.label, form.mnemonic, form.operand >>
                   => Preferred(<< w, form.label, form.mnemonic, form.operand >>, q)
    BY <2>2, <2>4, BodyIsBest
  <2>6. \A q \in Matches(line) : q[1] = w /\ q[2] # NoPart => q[2] = label
    BY <1>1, <2>2
  <2> QED
    BY <2>3, <2>5, <2>6
<1> QED
  BY <1>2, <1>3

LEMMA StatementIsBest ==
  ASSUME NEW line \in LineText
  PROVE  BestMatch(line, StatementOf(line))
<1> DEFINE d == SkipWhitespace(line, 1)
           labelled == [k \in 1 .. d - 1 |-> WithLabel(line, d - k)]
           first == << WithLabel(line, d), Body(line, d, NoPart) >>
           forms == first \o labelled
           form == FirstOf(forms)
<1>0. Len(line) \in Nat /\ 1 \in 1 .. Len(line) + 1
  BY LineFacts
<1>1. d \in 1 .. Len(line) + 1 /\ Spaces(line, 1) = 1 .. d
  BY <1>0, SkipIs, SkipSame
<1>2. StatementOf(line) = form
  BY DEF StatementOf
<1>3. /\ (\E S : forms \in Seq(S)) /\ Len(forms) = d + 1
      /\ forms[1] = WithLabel(line, d) /\ forms[2] = Body(line, d, NoPart)
      /\ \A k \in 1 .. d - 1 : forms[k + 2] = WithLabel(line, d - k)
  <2> DEFINE S == { WithLabel(line, w) : w \in 1 .. d } \cup { Body(line, d, NoPart) }
  <2>1. labelled \in Seq(S) /\ Len(labelled) = d - 1
    <3>1. labelled \in [1 .. d - 1 -> S]
      BY <1>1
    <3>2. d - 1 \in Nat
      BY <1>1
    <3> HIDE DEF S, labelled, d
    <3> QED
      BY <3>1, <3>2, SeqOfLength
  <2>2. first \in Seq(S) /\ Len(first) = 2
    BY <1>1
  <2>3. \A k \in 1 .. d - 1 : labelled[k] = WithLabel(line, d - k)
    OBVIOUS
  <2>4. first[1] = WithLabel(line, d) /\ first[2] = Body(line, d, NoPart)
    OBVIOUS
  <2>5. d \in Nat /\ d >= 1
    BY <1>1
  <2> HIDE DEF S, labelled, first, d
  <2>a. /\ forms \in Seq(S) /\ Len(forms) = 2 + (d - 1)
        /\ \A k \in 1 .. 2 + (d - 1) :
             forms[k] = IF k <= 2 THEN first[k] ELSE labelled[k - 2]
    <3> HIDE DEF forms
    <3>1. /\ first \o labelled \in Seq(S)
          /\ Len(first \o labelled) = Len(first) + Len(labelled)
          /\ \A k \in 1 .. Len(first) + Len(labelled) : (first \o labelled)[k] =
               IF k <= Len(first) THEN first[k] ELSE labelled[k - Len(first)]
      BY <2>1, <2>2, ConcatProperties
    <3> QED
      BY <2>1, <2>2, <3>1 DEF forms
  <2>b. ASSUME NEW k \in 1 .. d - 1
        PROVE  forms[k + 2] = labelled[k]
    <3>1. k + 2 \in 1 .. 2 + (d - 1) /\ ~(k + 2 <= 2) /\ (k + 2) - 2 = k
      BY <2>5
    <3> QED
      BY <2>a, <3>1
  <2>6. /\ forms \in Seq(S) /\ Len(forms) = 2 + (d - 1)
        /\ \A k \in 1 .. 2 : forms[k] = first[k]
        /\ \A k \in 1 .. d - 1 : forms[k + 2] = labelled[k]
    <3>1. \A k \in 1 .. 2 : k \in 1 .. 2 + (d - 1) /\ k <= 2
      BY <1>1, <2>5
    <3> QED
      BY <2>a, <2>b, <3>1
  <2>7. 2 + (d - 1) = d + 1
    BY <2>5
  <2> QED
    BY <2>3, <2>4, <2>5, <2>6, <2>7
<1> HIDE DEF forms, first, labelled
\* No match without a label begins before the last place.
<1>4. ASSUME Body(line, d, NoPart) = MalformedLine, NEW q \in Matches(line)
      PROVE  q[2] # NoPart
  <2> SUFFICES ASSUME q[2] = NoPart PROVE FALSE
    OBVIOUS
  <2>1. q[1] \in Spaces(line, 1) /\ NoPart \in LabelsFrom(line, q[1])
    BY MatchBegins DEF LabelsFrom
  <2>2. BehindLabel(q[1], NoPart) = q[1]
    BY DEF BehindLabel
  <2>3. Body(line, q[1], NoPart) = Body(line, d, NoPart)
    <3>1. SkipWhitespace(line, q[1]) = d
      BY <1>0, <2>1, SkipSame
    <3>2. SkipWhitespace(line, d) = d
      <4>1. d \in Spaces(line, 1)
        BY <1>1
      <4> QED
        BY <1>0, <4>1, SkipSame
    <3> HIDE DEF d
    <3> QED
      BY <3>1, <3>2 DEF Body
  <2>4. Body(line, BehindLabel(q[1], NoPart), NoPart) = MalformedLine
    BY <1>4, <2>2, <2>3
  <2>5. \A r \in Matches(line) : ~(r[1] = q[1] /\ r[2] = NoPart)
    BY <2>1, <2>4, NoMatchBegins
  <2> QED
    BY <2>5
<1>5. d \in Spaces(line, 1) /\ NoPart \in LabelsFrom(line, d) /\ BehindLabel(d, NoPart) = d
  BY <1>1 DEF LabelsFrom, BehindLabel
\* What begins later is preferred.
<1>6. ASSUME NEW p, NEW q, p[1] > q[1]
      PROVE  Preferred(p, q)
  BY <1>6 DEF Preferred
<1> DEFINE none == forms[2] = MalformedLine
<1>7. CASE \A k \in 1 .. Len(forms) : forms[k] = MalformedLine /\ form = MalformedLine
  <2>1. ASSUME NEW q \in Matches(line) PROVE FALSE
    <3>1. q[1] \in 1 .. d
      BY <1>1, MatchBegins
    <3>2. forms[2] = MalformedLine
      <4>1. 2 \in 1 .. Len(forms)
        BY <1>1, <1>3
      <4> QED
        BY <1>7, <4>1
    <3>3. q[2] # NoPart
      BY <1>3, <1>4, <3>2
    <3>4. WithLabel(line, q[1]) = MalformedLine
      <4>1. CASE q[1] = d
        <5>1. 1 \in 1 .. Len(forms)
          BY <1>1, <1>3
        <5> QED
          BY <1>3, <1>7, <4>1, <5>1
      <4>2. CASE q[1] # d
        <5>1. d - q[1] \in 1 .. d - 1 /\ d - (d - q[1]) = q[1] /\ (d - q[1]) + 2 \in 1 .. d + 1
          BY <1>1, <3>1, <4>2
        <5> HIDE DEF d
        <5> QED
          BY <1>3, <1>7, <5>1
      <4> QED
        BY <4>1, <4>2
    <3> QED
      BY <1>1, <3>1, <3>3, <3>4, WithLabelIsBest
  <2>2. form = MalformedLine
    BY <1>1, <1>3, <1>7
  <2> QED
    BY <1>2, <2>1, <2>2 DEF BestMatch
<1>8. ASSUME NEW k \in 1 .. Len(forms), form = forms[k], forms[k] # MalformedLine,
             \A j \in 1 .. k - 1 : forms[j] = MalformedLine
      PROVE  BestMatch(line, form)
  <2>1. CASE k = 2
    <3> DEFINE p == << d, form.label, form.mnemonic, form.operand >>
    <3>1. form = Body(line, BehindLabel(d, NoPart), NoPart) /\ form # MalformedLine
      BY <1>3, <1>5, <1>8, <2>1
    <3>2. /\ form.form = "Statement" /\ form.label = NoPart /\ p \in Matches(line)
          /\ \A q \in Matches(line) :
               q[1] = d /\ q[2] = NoPart /\ q # p => Preferred(p, q)
      <4> HIDE DEF d, form
      <4> QED
        BY <1>5, <3>1, BodyIsBest
    <3>3. WithLabel(line, d) = MalformedLine
      BY <1>3, <1>8, <2>1
    <3>4. \A q \in Matches(line) : ~(q[1] = d /\ q[2] # NoPart)
      BY <1>5, <3>3, WithLabelIsBest
    <3>5. ASSUME NEW q \in Matches(line), q # p
          PROVE  Preferred(p, q)
      <4>1. q[1] \in Nat /\ q[1] <= d /\ d \in Nat
        BY <1>1, MatchBegins
      <4>2. p[1] = d
        OBVIOUS
      <4>3. q[1] # d => Preferred(p, q)
        BY <1>6, <4>1, <4>2
      <4> QED
        BY <3>2, <3>4, <3>5, <4>3
    <3> QED
      BY <3>1, <3>2, <3>5 DEF BestMatch
  <2>2. CASE k # 2
    <3> DEFINE w == IF k = 1 THEN d ELSE d - (k - 2)
               p == << w, form.label, form.mnemonic, form.operand >>
    <3>1. w \in 1 .. d /\ forms[k] = WithLabel(line, w)
      <4>1. CASE k = 1
        BY <1>1, <1>3, <4>1
      <4>2. CASE k # 1
        <5>1. k - 2 \in 1 .. d - 1 /\ (k - 2) + 2 = k
          BY <1>1, <1>3, <2>2, <4>2
        <5>2. d - (k - 2) \in 1 .. d
          BY <1>1, <5>1
        <5> HIDE DEF d
        <5> QED
          BY <1>3, <4>2, <5>1, <5>2
      <4> QED
        BY <4>1, <4>2
    <3>2. \A v \in 1 .. d : v > w => WithLabel(line, v) = MalformedLine
      <4> TAKE v \in 1 .. d
      <4> SUFFICES ASSUME v > w PROVE WithLabel(line, v) = MalformedLine
        OBVIOUS
      <4>1. k # 1 /\ k - 2 \in 1 .. d - 1 /\ w = d - (k - 2)
        BY <1>1, <1>3, <2>2
      <4>2. CASE v = d
        <5>1. 1 \in 1 .. k - 1
          BY <1>1, <4>1
        <5> QED
          BY <1>3, <1>8, <4>2, <5>1
      <4>3. CASE v # d
        <5>1. d - v \in 1 .. d - 1 /\ d - (d - v) = v /\ (d - v) + 2 \in 1 .. k - 1
          BY <1>1, <4>1, <4>3
        <5> HIDE DEF d, w
        <5> QED
          BY <1>3, <1>8, <5>1
      <4> QED
        BY <4>2, <4>3
    <3>3. k # 1 => \A q \in Matches(line) : q[2] # NoPart
      <4> SUFFICES ASSUME k # 1 PROVE \A q \in Matches(line) : q[2] # NoPart
        OBVIOUS
      <4>1. 2 \in 1 .. k - 1
        BY <1>1, <1>3, <2>2
      <4>2. Body(line, d, NoPart) = MalformedLine
        BY <1>3, <1>8, <4>1
      <4> QED
        BY <1>4, <4>2
    <3>4. k = 1 => w = d
      OBVIOUS
    <3> HIDE DEF w
    <3>5. /\ form # MalformedLine /\ form.form = "Statement" /\ form.label # NoPart
          /\ p \in Matches(line)
          /\ \A q \in Matches(line) :
               q[1] = w /\ q[2] # NoPart /\ q # p => Preferred(p, q)
      <4>1. w \in Spaces(line, 1) /\ form = WithLabel(line, w) /\ form # MalformedLine
        BY <1>1, <1>8, <3>1
      <4> HIDE DEF form, d
      <4> QED
        BY <4>1, WithLabelIsBest
    <3>6. ASSUME NEW q \in Matches(line), q # p
          PROVE  Preferred(p, q)
      <4>1. q[1] \in Spaces(line, 1) /\ q[1] \in 1 .. d /\ q[1] \in Nat /\ w \in Nat
        BY <1>1, <3>1, MatchBegins
      <4>2. p[1] = w /\ p[2] = form.label
        OBVIOUS
      <4>3. CASE q[1] < w
        BY <1>6, <4>1, <4>2, <4>3
      <4>4. CASE q[1] > w
        <5>1. WithLabel(line, q[1]) = MalformedLine
          BY <3>2, <4>1, <4>4
        <5>2. q[2] = NoPart
          BY <4>1, <5>1, WithLabelIsBest
        <5>3. w = d
          BY <3>3, <3>4, <5>2
        <5> QED
          BY <1>1, <4>1, <4>4, <5>3
      <4>5. CASE q[1] = w /\ q[2] # NoPart
        BY <3>5, <3>6, <4>5
      <4>6. CASE q[1] = w /\ q[2] = NoPart
        <5> HIDE DEF p
        <5>1. PreferredPart(TRUE, p[2], q[2])
          BY <4>6 DEF PreferredPart
        <5>2. p[2] # q[2]
          BY <3>5, <4>2, <4>6
        <5> QED
          BY <4>2, <4>6, <5>1, <5>2 DEF Preferred
      <4> QED
        BY <4>1, <4>3, <4>4, <4>5, <4>6
    <3> QED
      BY <3>5, <3>6 DEF BestMatch
  <2> QED
    BY <2>1, <2>2
<1>9. \/ form = MalformedLine /\ \A k \in 1 .. Len(forms) : forms[k] = MalformedLine
      \/ \E k \in 1 .. Len(forms) :
              /\ form = forms[k] /\ forms[k] # MalformedLine
              /\ \A j \in 1 .. k - 1 : forms[j] = MalformedLine
  BY <1>3, FirstOfIs
<1> QED
  BY <1>2, <1>7, <1>8, <1>9

\* What a match is made of.
Part == {NoPart} \cup (Nat \X Nat)

LEMMA MatchType ==
  ASSUME NEW line \in LineText, NEW q \in Matches(line)
  PROVE  /\ q = << q[1], q[2], q[3], q[4] >>
         /\ q[1] \in Nat /\ q[2] \in Part /\ q[3] \in Part /\ q[4] \in Part
<1>0. Len(line) \in Nat
  BY LineFacts
<1>1. \E w \in Spaces(line, 1) : \E label \in LabelsFrom(line, w) :
        \E s \in Spaces(line, BehindLabel(w, label)) : \E m \in Words(line, s) :
          \E operand \in Operands(line, m) :
            q = << w, label, << s, m >>, operand >>
  BY MatchIs
<1>2. PICK w, label, s, m, operand :
        /\ w \in Spaces(line, 1) /\ label \in LabelsFrom(line, w)
        /\ s \in Spaces(line, BehindLabel(w, label)) /\ m \in Words(line, s)
        /\ operand \in Operands(line, m)
        /\ q = << w, label, << s, m >>, operand >>
  BY <1>1
<1>3. /\ w \in Nat /\ BehindLabel(w, label) \in 1 .. Len(line) + 1
      /\ label # NoPart => label = << w, label[2] >> /\ label[2] \in w + 1 .. Len(line)
  BY <1>0, <1>2, LabelFrom
<1>4. label \in Part
  BY <1>0, <1>3 DEF Part
<1>5. s \in 1 .. Len(line) /\ m \in s + 1 .. Len(line) + 1
  BY <1>2, <1>3, WordBegins
<1>6. s \in Nat /\ m \in Nat /\ m \in 1 .. Len(line) + 1
  BY <1>0, <1>5
<1>7. operand \in Part
  <2>1. operand # NoPart =>
           \E e \in OperandEnds(line, m) : operand = << SkipWhitespace(line, m), e >>
    BY <1>2, <1>6, OperandsAre
  <2>2. \A e \in OperandEnds(line, m) : SkipWhitespace(line, m) \in Nat /\ e \in Nat
    BY <1>6, OperandsAre
  <2> QED
    BY <2>1, <2>2 DEF Part
<1>8. << s, m >> \in Part
  BY <1>6 DEF Part
<1> QED
  BY <1>2, <1>3, <1>4, <1>7, <1>8

\* Of two parts one is preferred, never both.
LEMMA PartsOrdered ==
  ASSUME NEW p \in Part, NEW q \in Part, NEW greedy \in BOOLEAN,
         PreferredPart(greedy, p, q), PreferredPart(greedy, q, p)
  PROVE  p = q
<1>1. CASE p = NoPart \/ q = NoPart
  BY <1>1 DEF PreferredPart
<1>2. CASE p # NoPart /\ q # NoPart
  <2>1. PICK a \in Nat, b \in Nat : p = << a, b >>
    BY <1>2 DEF Part
  <2>2. PICK c \in Nat, d \in Nat : q = << c, d >>
    BY <1>2 DEF Part
  <2>3. p[1] = a /\ p[2] = b /\ q[1] = c /\ q[2] = d
    BY <2>1, <2>2
  <2>4. /\ a > c \/ (a = c /\ (IF greedy THEN b > d ELSE b < d))
        /\ c > a \/ (c = a /\ (IF greedy THEN d > b ELSE d < b))
    BY <1>2, <2>3 DEF PreferredPart
  <2>5. CASE greedy
    BY <2>1, <2>2, <2>4, <2>5
  <2>6. CASE ~greedy
    BY <2>1, <2>2, <2>4, <2>6
  <2> QED
    BY <2>5, <2>6
<1> QED
  BY <1>1, <1>2

\* So the match that is preferred to all others is the first.
LEMMA FirstMatchIs ==
  ASSUME NEW line \in LineText, NEW p \in Matches(line),
         \A q \in Matches(line) \ {p} : Preferred(p, q)
  PROVE  FirstMatch(line) = p
<1> DEFINE f == FirstMatch(line)
<1>1. f \in Matches(line) /\ \A q \in Matches(line) \ {f} : Preferred(f, q)
  BY DEF FirstMatch
<1> HIDE DEF f
<1> SUFFICES ASSUME f # p PROVE FALSE
  BY DEF f
<1>2. Preferred(p, f) /\ Preferred(f, p)
  BY <1>1
<1>3. /\ p = << p[1], p[2], p[3], p[4] >> /\ f = << f[1], f[2], f[3], f[4] >>
      /\ p[1] \in Nat /\ p[2] \in Part /\ p[3] \in Part /\ p[4] \in Part
      /\ f[1] \in Nat /\ f[2] \in Part /\ f[3] \in Part /\ f[4] \in Part
  BY <1>1, MatchType
<1>4. p[1] = f[1] /\ ~(p[1] > f[1]) /\ ~(f[1] > p[1])
  <2> DEFINE a == p[1]
             b == f[1]
  <2>1. (a > b \/ a = b) /\ (b > a \/ b = a)
    BY <1>2, Zenon DEF Preferred
  <2>2. a \in Nat /\ b \in Nat
    BY <1>3
  <2> HIDE DEF a, b
  <2>3. a = b /\ ~(a > b) /\ ~(b > a)
    BY <2>1, <2>2
  <2> QED
    BY <2>3 DEF a, b
<1>5. p[2] = f[2]
  <2> SUFFICES ASSUME p[2] # f[2] PROVE FALSE
    OBVIOUS
  <2>1. PreferredPart(TRUE, p[2], f[2]) /\ PreferredPart(TRUE, f[2], p[2])
    BY <1>2, <1>4, Zenon DEF Preferred
  <2> QED
    BY <1>3, <2>1, PartsOrdered
<1>6. p[3] = f[3]
  <2> SUFFICES ASSUME p[3] # f[3] PROVE FALSE
    OBVIOUS
  <2>1. PreferredPart(FALSE, p[3], f[3]) /\ PreferredPart(FALSE, f[3], p[3])
    BY <1>2, <1>4, <1>5, Zenon DEF Preferred
  <2> QED
    BY <1>3, <2>1, PartsOrdered
<1>7. p[4] = f[4]
  <2> SUFFICES ASSUME p[4] # f[4] PROVE FALSE
    OBVIOUS
  <2>1. PreferredPart(FALSE, p[4], f[4]) /\ PreferredPart(FALSE, f[4], p[4])
    BY <1>2, <1>4, <1>5, <1>6, Zenon DEF Preferred
  <2> QED
    BY <1>3, <2>1, PartsOrdered
<1> QED
  BY <1>3, <1>4, <1>5, <1>6, <1>7

\* The forms that are neither blank nor an ORG are those of a statement.
LEMMA SplitIs ==
  ASSUME NEW line, NEW form, form = SplitLine(line),
         form.form \in {"Statement", "Malformed"}
  PROVE  form = StatementOf(line)
<1>1. CASE TailMatches(line, 1)
  <2>1. form.form = "Blank"
    BY <1>1 DEF SplitLine, BlankLine
  <2> QED
    BY <2>1
<1>2. CASE ~TailMatches(line, 1) /\ IsOrigin(line)
  <2>1. form.form = "Origin"
    BY <1>2 DEF SplitLine, OriginLine
  <2> QED
    BY <2>1
<1>3. CASE ~TailMatches(line, 1) /\ ~IsOrigin(line)
  BY <1>3 DEF SplitLine
<1> QED
  BY <1>1, <1>2, <1>3

\* What is typed is a line, or some characters.
TypedOK ==
  /\ IsLine => typed.text \in LineText
  /\ IsLiteral => typed.text \in Seq(STRING)
  /\ typed \in [what : {"Line", "Literal"},
                text : LineText \cup Seq(STRING), pieces : Int]

\* A piece more, and it is still one.
LEMMA TypedStays ==
  ASSUME TypedOK, [TypePiece]_typed
  PROVE  TypedOK'
<1>1. CASE TypePiece
  <2>1. PICK piece \in (IF typed.what = "Line" THEN LinePieces ELSE LiteralPieces) :
          typed' = [typed EXCEPT !.text = @ \o piece, !.pieces = @ + 1]
    BY <1>1 DEF TypePiece
  <2>0. typed = [what |-> typed.what, text |-> typed.text, pieces |-> typed.pieces]
        /\ typed.what \in {"Line", "Literal"} /\ typed.pieces \in Int
    BY DEF TypedOK
  <2>2. typed' = [what |-> typed.what, text |-> typed.text \o piece,
                  pieces |-> typed.pieces + 1]
    BY <2>0, <2>1
  <2>3. CASE typed.what = "Line"
    <3>1. typed.text \in LineText /\ piece \in LineText
      BY <2>1, <2>3, PiecesAssumption DEF TypedOK, IsLine, LineText
    <3>2. typed.text \o piece \in LineText
      BY <3>1 DEF LineText
    <3> QED
      BY <2>0, <2>2, <2>3, <3>2 DEF TypedOK, IsLine, IsLiteral
  <2>4. CASE typed.what = "Literal"
    <3>1. typed.text \in Seq(STRING) /\ piece \in Seq(STRING)
      BY <2>1, <2>4, PiecesAssumption DEF TypedOK, IsLiteral
    <3>2. typed.text \o piece \in Seq(STRING)
      BY <3>1
    <3> QED
      BY <2>0, <2>2, <2>4, <3>2 DEF TypedOK, IsLine, IsLiteral
  <2> QED
    BY <2>3, <2>4 DEF TypedOK
<1>2. CASE UNCHANGED typed
  BY <1>2 DEF TypedOK, IsLine, IsLiteral
<1> QED
  BY <1>1, <1>2

\* However a line or a literal is typed, it is a text the lexer or the literal
\* parser may be given.
THEOREM TypingInvariance == TypingSpec => []TypedOK
<1>1. TypingInit => TypedOK
  <2> SUFFICES ASSUME TypingInit PROVE TypedOK
    OBVIOUS
  <2>1. PICK what \in {"Line", "Literal"} :
          typed = [what |-> what, text |-> << >>, pieces |-> 0]
    BY DEF TypingInit
  <2>2. << >> \in LineText /\ << >> \in Seq(STRING)
    BY DEF LineText
  <2> QED
    BY <2>1, <2>2 DEF TypedOK, IsLine, IsLiteral
<1>2. TypedOK /\ [TypePiece]_typed => TypedOK'
  BY TypedStays
<1> QED
  BY <1>1, <1>2, PTL DEF TypingSpec

\* On every line there is, the search of lexer.rs (label, then the shortest
\* mnemonic, then the shortest operand) finds the parts that a backtracking
\* engine finds with the expression the code quotes, and fails where it would.
THEOREM SearchIsExpression == TypingSpec => []SplitsAsSpecified
<1>1. TypedOK => SplitsAsSpecified
  <2> SUFFICES ASSUME TypedOK, IsLine,
                      SplitLine(typed.text).form \in {"Statement", "Malformed"}
               PROVE  LET line == typed.text
                          form == SplitLine(line)
                      IN  IF Matches(line) = {} THEN form.form = "Malformed"
                          ELSE /\ form.form = "Statement"
                               /\ FirstMatch(line)[2] = form.label
                               /\ FirstMatch(line)[3] = form.mnemonic
                               /\ FirstMatch(line)[4] = form.operand
    BY DEF SplitsAsSpecified
  <2> DEFINE line == typed.text
             form == SplitLine(line)
  <2>1. line \in LineText
    BY DEF TypedOK
  <2>2. form = StatementOf(line)
    BY SplitIs
  <2> HIDE DEF line, form
  <2>3. BestMatch(line, form)
    BY <2>1, <2>2, StatementIsBest
  <2>4. CASE form = MalformedLine
    <3>1. Matches(line) = {} /\ form.form = "Malformed"
      BY <2>3, <2>4 DEF BestMatch, MalformedLine
    <3> QED
      BY <3>1 DEF line, form
  <2>5. CASE form # MalformedLine
    <3>1. PICK w :
            LET p == << w, form.label, form.mnemonic, form.operand >>
            IN  p \in Matches(line) /\ \A q \in Matches(line) \ {p} : Preferred(p, q)
      BY <2>3, <2>5 DEF BestMatch
    <3> DEFINE p == << w, form.label, form.mnemonic, form.operand >>
    <3>2. p[2] = form.label /\ p[3] = form.mnemonic /\ p[4] = form.operand
      OBVIOUS
    <3>3. p \in Matches(line) /\ \A q \in Matches(line) \ {p} : Preferred(p, q)
      BY <3>1
    <3> HIDE DEF p
    <3>4. FirstMatch(line) = p
      BY <2>1, <3>3, FirstMatchIs
    <3>5. form.form = "Statement" /\ Matches(line) # {}
      BY <2>3, <2>5, <3>3 DEF BestMatch
    <3> QED
      BY <3>2, <3>4, <3>5 DEF line, form
  <2> QED
    BY <2>4, <2>5
<1> QED
  BY <1>1, TypingInvariance, PTL

-----------------------------------------------------------------------------
(* The tokens of a line cover it.                                          *)

\* What push_line_tokens makes of a line.
Kinds == {"Comment", "OriginKeyword", "Operand", "Label", "Comma", "Mnemonic", "Unknown"}
LineToken == [kind : Kinds, span : Nat \X Nat]

\* The character at a byte of a line.
PlaceOf(line, byte) == CHOOSE i \in 1 .. Len(line) + 1 : ByteOf(line, i) = byte

\* The characters a token is from and to, in a line that begins at base.
From(line, base, token) == PlaceOf(line, token.span[1] - base)
To(line, base, token) == PlaceOf(line, token.span[2] - base)

\* A token is in its place between two characters of the line.
Placed(line, base, token, a, b) ==
  /\ From(line, base, token) \in a .. b /\ To(line, base, token) \in a .. b
  /\ From(line, base, token) < To(line, base, token)
  /\ token.span = << base + ByteOf(line, From(line, base, token)),
                     base + ByteOf(line, To(line, base, token)) >>

\* Tokens follow one another from a to b and leave out nothing but space.
Tiles(line, base, tokens, a, b) ==
  /\ tokens \in Seq(LineToken)
  /\ \A k \in 1 .. Len(tokens) : Placed(line, base, tokens[k], a, b)
  /\ \A k, l \in 1 .. Len(tokens) :
       k < l => To(line, base, tokens[k]) <= From(line, base, tokens[l])
  /\ \A i \in a .. b - 1 : line[i] \notin Space =>
       \E k \in 1 .. Len(tokens) :
         From(line, base, tokens[k]) <= i /\ i < To(line, base, tokens[k])

\* PlacesOf on a line.
PlacesOf(line) == 1 .. Len(line) + 1

\* A line is a text, of which bytes are measured.
LEMMA LineIsText ==
  ASSUME NEW line \in LineText
  PROVE  line \in Seq(Character)
BY DEF LineText

\* The character at the byte of a character is that character.
LEMMA PlaceIs ==
  ASSUME NEW line \in LineText, NEW base \in Nat, NEW i \in PlacesOf(line)
  PROVE  /\ PlaceOf(line, (base + ByteOf(line, i)) - base) = i
         /\ base + ByteOf(line, i) \in Nat
<1>1. i \in 1 .. Len(line) + 1 /\ line \in Seq(Character)
  BY LineIsText DEF PlacesOf
<1>2. ByteOf(line, i) \in Nat
  BY <1>1, ByteOfIs
<1>3. (base + ByteOf(line, i)) - base = ByteOf(line, i) /\ base + ByteOf(line, i) \in Nat
  BY <1>2
<1>4. \A j \in 1 .. Len(line) + 1 : ByteOf(line, j) = ByteOf(line, i) => j = i
  BY <1>1, ByteOfOrder
<1>5. PlaceOf(line, ByteOf(line, i)) = i
  BY <1>1, <1>4 DEF PlaceOf
<1> QED
  BY <1>3, <1>5

\* Where there is only space, no token is needed.
LEMMA TilesNothing ==
  ASSUME NEW line, NEW base, NEW a, NEW b,
         \A i \in a .. b - 1 : line[i] \in Space
  PROVE  Tiles(line, base, << >>, a, b)
<1>1. << >> \in Seq(LineToken) /\ Len(<< >>) = 0
  OBVIOUS
<1>2. \A k \in 1 .. 0 : FALSE
  OBVIOUS
<1> QED
  BY <1>1, <1>2 DEF Tiles

\* Where there is space before a part and behind it, its token is enough.
LEMMA TilesToken ==
  ASSUME NEW line \in LineText, NEW base \in Nat, NEW kind \in Kinds,
         NEW a \in PlacesOf(line), NEW f \in PlacesOf(line),
         NEW t \in PlacesOf(line), NEW b \in PlacesOf(line),
         a <= f, f < t, t <= b,
         \A i \in a .. f - 1 : line[i] \in Space,
         \A i \in t .. b - 1 : line[i] \in Space
  PROVE  Tiles(line, base, Token(line, base, kind, << f, t >>), a, b)
<1> DEFINE token == [kind |-> kind, span |-> << base + ByteOf(line, f), base + ByteOf(line, t) >>]
           tokens == << token >>
<1>1. Token(line, base, kind, << f, t >>) = tokens
  <2>1. << f, t >> # NoPart
    BY DEF NoPart
  <2> QED
    BY <2>1 DEF Token
<1>2. token \in LineToken
  BY PlaceIs DEF LineToken
<1>3. /\ token.span = << base + ByteOf(line, f), base + ByteOf(line, t) >>
      /\ token.span[1] = base + ByteOf(line, f) /\ token.span[2] = base + ByteOf(line, t)
  OBVIOUS
<1> HIDE DEF token
<1>4. From(line, base, token) = f /\ To(line, base, token) = t
  BY <1>3, PlaceIs DEF From, To
<1>5. Len(line) \in Nat
  BY LineFacts
<1>6. Placed(line, base, token, a, b)
  BY <1>3, <1>4, <1>5 DEF Placed, PlacesOf
<1>7. /\ tokens \in Seq(LineToken) /\ Len(tokens) = 1 /\ tokens[1] = token
      /\ 1 \in 1 .. 1 /\ \A k \in 1 .. 1 : k = 1
  BY <1>2
<1> HIDE DEF tokens
<1>8. ASSUME NEW i \in a .. b - 1, line[i] \notin Space
      PROVE  f <= i /\ i < t
  <2>1. i \notin a .. f - 1 /\ i \notin t .. b - 1
    BY <1>8
  <2> QED
    BY <1>5, <2>1 DEF PlacesOf
<1>9. Tiles(line, base, tokens, a, b)
  BY <1>4, <1>6, <1>7, <1>8 DEF Tiles
<1> QED
  BY <1>1, <1>9

\* Tokens of a part and tokens of the part behind it.
LEMMA TilesBoth ==
  ASSUME NEW line \in LineText, NEW base,
         NEW a \in PlacesOf(line), NEW b \in PlacesOf(line), NEW c \in PlacesOf(line),
         a <= b, b <= c, NEW before, NEW behind,
         Tiles(line, base, before, a, b), Tiles(line, base, behind, b, c)
  PROVE  Tiles(line, base, before \o behind, a, c)
<1> DEFINE tokens == before \o behind
           m == Len(before)
           n == Len(behind)
           F(x) == From(line, base, x)
           T(x) == To(line, base, x)
<1>1. before \in Seq(LineToken) /\ behind \in Seq(LineToken)
  BY DEF Tiles
<1>2. m \in Nat /\ n \in Nat
  BY <1>1
<1>3. /\ tokens \in Seq(LineToken) /\ Len(tokens) = m + n
      /\ \A k \in 1 .. m + n : tokens[k] = IF k <= m THEN before[k] ELSE behind[k - m]
  BY <1>1, ConcatProperties
<1> HIDE DEF tokens
<1>4. /\ \A k \in 1 .. m : Placed(line, base, before[k], a, b)
      /\ \A k, l \in 1 .. m : k < l => T(before[k]) <= F(before[l])
      /\ \A i \in a .. b - 1 : line[i] \notin Space =>
           \E k \in 1 .. m : F(before[k]) <= i /\ i < T(before[k])
  BY DEF Tiles
<1>5. /\ \A k \in 1 .. n : Placed(line, base, behind[k], b, c)
      /\ \A k, l \in 1 .. n : k < l => T(behind[k]) <= F(behind[l])
      /\ \A i \in b .. c - 1 : line[i] \notin Space =>
           \E k \in 1 .. n : F(behind[k]) <= i /\ i < T(behind[k])
  BY DEF Tiles
<1> HIDE DEF m, n
<1>6. a \in Nat /\ b \in Nat /\ c \in Nat
  BY LineFacts DEF PlacesOf
<1>7. /\ \A k \in 1 .. m : tokens[k] = before[k] /\ k \in 1 .. m + n
      /\ \A k \in 1 .. n : tokens[m + k] = behind[k] /\ m + k \in 1 .. m + n
  <2>1. ASSUME NEW k \in 1 .. m
        PROVE  tokens[k] = before[k] /\ k \in 1 .. m + n
    <3>1. k \in 1 .. m + n /\ k <= m
      BY <1>2
    <3> QED
      BY <1>3, <3>1
  <2>2. ASSUME NEW k \in 1 .. n
        PROVE  tokens[m + k] = behind[k] /\ m + k \in 1 .. m + n
    <3>1. m + k \in 1 .. m + n /\ ~(m + k <= m) /\ (m + k) - m = k
      BY <1>2
    <3> QED
      BY <1>3, <3>1
  <2> QED
    BY <2>1, <2>2
<1>8. \A k \in 1 .. m + n : k \in 1 .. m \/ (k - m \in 1 .. n /\ k = m + (k - m))
  BY <1>2
<1>9. ASSUME NEW x, NEW lo \in Nat, NEW hi \in Nat, lo <= hi, a <= lo, hi <= c,
             Placed(line, base, x, lo, hi)
      PROVE  Placed(line, base, x, a, c)
  <2>1. \A i \in lo .. hi : i \in a .. c
    BY <1>6, <1>9
  <2> QED
    BY <1>9, <2>1 DEF Placed
<1>10. ASSUME NEW k \in 1 .. m + n
       PROVE  Placed(line, base, tokens[k], a, c)
  <2>1. CASE k \in 1 .. m
    BY <1>4, <1>6, <1>7, <1>9, <2>1
  <2>2. CASE k - m \in 1 .. n /\ k = m + (k - m)
    <3>1. tokens[k] = behind[k - m]
      BY <1>7, <2>2
    <3> QED
      BY <1>5, <1>6, <1>9, <2>2, <3>1
  <2> QED
    BY <1>8, <2>1, <2>2
<1>11. ASSUME NEW k \in 1 .. m + n, NEW l \in 1 .. m + n, k < l
       PROVE  T(tokens[k]) <= F(tokens[l])
  <2>1. CASE k \in 1 .. m /\ l \in 1 .. m
    BY <1>4, <1>7, <1>11, <2>1
  <2>2. CASE k \in 1 .. m /\ l - m \in 1 .. n /\ l = m + (l - m)
    <3>1. tokens[k] = before[k] /\ tokens[l] = behind[l - m]
      BY <1>7, <2>2
    <3>2. T(before[k]) \in a .. b /\ F(behind[l - m]) \in b .. c
      BY <1>4, <1>5, <2>2 DEF Placed
    <3> HIDE DEF F, T
    <3>3. T(before[k]) <= F(behind[l - m])
      BY <1>6, <3>2
    <3> QED
      BY <3>1, <3>3
  <2>3. CASE k - m \in 1 .. n /\ k = m + (k - m) /\ l - m \in 1 .. n /\ l = m + (l - m)
    <3>1. tokens[k] = behind[k - m] /\ tokens[l] = behind[l - m]
      BY <1>7, <2>3
    <3>2. k - m < l - m
      BY <1>2, <1>11
    <3> QED
      BY <1>5, <2>3, <3>1, <3>2
  <2>4. k - m \in 1 .. n => l \notin 1 .. m
    BY <1>2, <1>11
  <2> QED
    BY <1>8, <2>1, <2>2, <2>3, <2>4
<1>12. ASSUME NEW i \in a .. c - 1, line[i] \notin Space
       PROVE  \E k \in 1 .. m + n : F(tokens[k]) <= i /\ i < T(tokens[k])
  <2>1. CASE i \in a .. b - 1
    <3>1. PICK k \in 1 .. m : F(before[k]) <= i /\ i < T(before[k])
      BY <1>4, <1>12, <2>1
    <3> QED
      BY <1>7, <3>1
  <2>2. CASE i \in b .. c - 1
    <3>1. PICK k \in 1 .. n : F(behind[k]) <= i /\ i < T(behind[k])
      BY <1>5, <1>12, <2>2
    <3> QED
      BY <1>7, <3>1
  <2> QED
    BY <1>6, <2>1, <2>2
<1>13. Tiles(line, base, tokens, a, c)
  BY <1>3, <1>10, <1>11, <1>12 DEF Tiles
<1> QED
  BY <1>13 DEF tokens

\* The comment a line ends with, or the space.
LEMMA TailTiles ==
  ASSUME NEW line \in LineText, NEW base \in Nat, NEW i \in PlacesOf(line),
         TailMatches(line, i)
  PROVE  Tiles(line, base, Token(line, base, "Comment", Tail_(line, i)), i, Len(line) + 1)
<1> DEFINE k == SkipWhitespace(line, i)
           n == Len(line)
<1>1. n \in Nat /\ \A j \in 1 .. n : line[j] # "end" /\ At(line, j) = line[j]
  BY LineFacts
<1>2. /\ k \in i .. n + 1 /\ \A j \in i .. k - 1 : line[j] \in Space
  BY SkipIs DEF PlacesOf
<1>3. i \in 1 .. n + 1 /\ n + 1 \in 1 .. n + 1 /\ k \in 1 .. n + 1 /\ k \in Nat
  BY <1>1, <1>2 DEF PlacesOf
<1>4. At(line, k) \in {"slash", "end"} /\ At(line, n + 1) = "end"
  BY LineFacts DEF TailMatches
<1>5. Tail_(line, i) = IF At(line, k) = "slash" THEN << k, n + 1 >> ELSE NoPart
  BY DEF Tail_
<1> HIDE DEF k, n
<1>6. CASE At(line, k) = "slash"
  <2>1. k # n + 1
    BY <1>4, <1>6
  <2>2. i <= k /\ k < n + 1 /\ n + 1 <= n + 1 /\ \A j \in n + 1 .. (n + 1) - 1 : line[j] \in Space
    BY <1>1, <1>2, <1>3, <2>1
  <2>3. k \in PlacesOf(line) /\ n + 1 \in PlacesOf(line)
    BY <1>3 DEF PlacesOf, n
  <2>4. Tiles(line, base, Token(line, base, "Comment", << k, n + 1 >>), i, n + 1)
    <3>1. "Comment" \in Kinds
      BY DEF Kinds
    <3>2. i \in PlacesOf(line) /\ i <= k /\ k < n + 1 /\ n + 1 <= n + 1
      BY <2>2
    <3> QED
      BY <1>2, <2>2, <2>3, <3>1, <3>2, TilesToken
  <2> QED
    BY <1>5, <1>6, <2>4 DEF n
<1>7. CASE At(line, k) # "slash"
  <2>1. At(line, k) = "end"
    BY <1>4, <1>7
  <2>2. k = n + 1
    BY <1>1, <1>3, <2>1
  <2>3. Tiles(line, base, << >>, i, n + 1)
    BY <1>2, <2>2, TilesNothing
  <2>4. Token(line, base, "Comment", NoPart) = << >>
    BY DEF Token
  <2> QED
    BY <1>5, <1>7, <2>3, <2>4 DEF n
<1> QED
  BY <1>6, <1>7

\* A mnemonic, an operand and a comment follow one another.
LEMMA BodyTiles ==
  ASSUME NEW line \in LineText, NEW base \in Nat, NEW i \in PlacesOf(line), NEW label,
         Body(line, i, label) # MalformedLine
  PROVE  LET form == Body(line, i, label)
         IN  /\ form.form = "Statement" /\ form.label = label
             /\ \E p, q \in PlacesOf(line) :
                  /\ i <= p /\ p <= q /\ q <= Len(line) + 1
                  /\ Tiles(line, base, Token(line, base, "Mnemonic", form.mnemonic), i, p)
                  /\ Tiles(line, base, Token(line, base, "Operand", form.operand), p, q)
                  /\ Tiles(line, base, Token(line, base, "Comment", form.comment), q, Len(line) + 1)
<1> DEFINE s == SkipWhitespace(line, i)
           m == Min(MnemonicEnds(line, s))
           operand == OperandAfter(line, m)
           rest == IF operand = NoPart THEN m ELSE operand[2]
           form == StatementLine(label, << s, m >>, operand, Tail_(line, rest))
           n == Len(line)
<1>0. n \in Nat
  BY LineFacts
<1>1. Body(line, i, label) = form /\ MnemonicEnds(line, s) # {}
  BY DEF Body
<1>2. /\ form.form = "Statement" /\ form.label = label /\ form.mnemonic = << s, m >>
      /\ form.operand = operand /\ form.comment = Tail_(line, rest)
  BY DEF StatementLine
<1>3. s \in i .. n + 1 /\ \A j \in i .. s - 1 : line[j] \in Space
  BY SkipIs DEF PlacesOf
<1>4. m \in MnemonicEnds(line, s)
  <2>1. MnemonicEnds(line, s) \in SUBSET Nat
    BY <1>0, <1>3 DEF MnemonicEnds, PlacesOf
  <2> HIDE DEF s
  <2> QED
    BY <1>1, <2>1, LeastIs
<1> HIDE DEF form
<1>5. /\ m \in s .. n + 1 /\ s < m
      /\ OperandEnds(line, m) # {} \/ TailMatches(line, m)
  BY <1>4 DEF MnemonicEnds, IsWord
<1>6. operand = IF OperandEnds(line, m) = {} THEN NoPart
                ELSE << SkipWhitespace(line, m), Min(OperandEnds(line, m)) >>
  BY DEF OperandAfter
<1> HIDE DEF m, s, operand
<1>7. s \in 1 .. n + 1 /\ m \in 1 .. n + 1 /\ i \in 1 .. n + 1 /\ n + 1 \in 1 .. n + 1
  BY <1>0, <1>3, <1>5 DEF PlacesOf
<1>8. /\ "Mnemonic" \in Kinds /\ "Operand" \in Kinds
      /\ \A x \in 1 .. n + 1 : x \in PlacesOf(line)
  BY DEF Kinds, PlacesOf
<1>9. Tiles(line, base, Token(line, base, "Mnemonic", << s, m >>), i, m)
  <2>1. i <= s /\ m <= m /\ \A j \in m .. m - 1 : line[j] \in Space
    BY <1>3, <1>7
  <2> HIDE DEF n
  <2> QED
    BY <1>3, <1>5, <1>7, <1>8, <2>1, TilesToken
<1>10. /\ rest \in 1 .. n + 1 /\ m <= rest /\ TailMatches(line, rest)
       /\ Tiles(line, base, Token(line, base, "Operand", operand), m, rest)
  <2>1. CASE OperandEnds(line, m) = {}
    <3>1. operand = NoPart /\ rest = m
      BY <1>6, <2>1
    <3>2. Token(line, base, "Operand", operand) = << >>
      BY <3>1 DEF Token
    <3>3. m <= m /\ \A j \in m .. m - 1 : line[j] \in Space
      BY <1>7
    <3>4. Tiles(line, base, << >>, m, m)
      BY <3>3, TilesNothing
    <3> QED
      BY <1>5, <1>7, <2>1, <3>1, <3>2, <3>3, <3>4
  <2>2. CASE OperandEnds(line, m) # {}
    <3> DEFINE o == SkipWhitespace(line, m)
               e == Min(OperandEnds(line, m))
    <3>1. o \in m .. n + 1 /\ \A j \in m .. o - 1 : line[j] \in Space
      BY <1>7, SkipIs
    <3>2. e \in OperandEnds(line, m)
      <4>1. OperandEnds(line, m) \in SUBSET Nat
        BY <1>0, <1>7, <3>1 DEF OperandEnds
      <4> QED
        BY <2>2, <4>1, LeastIs
    <3>3. e \in o .. n + 1 /\ o < e /\ TailMatches(line, e)
      BY <3>2 DEF OperandEnds, IsWord
    <3> HIDE DEF o, e
    <3>4. operand = << o, e >>
      BY <1>6, <2>2 DEF o, e
    <3>5. rest = e
      <4>1. operand # NoPart
        BY <3>4 DEF NoPart
      <4> QED
        BY <3>4, <4>1
    <3>6. /\ o \in 1 .. n + 1 /\ e \in 1 .. n + 1 /\ m <= o /\ e <= e /\ m <= e
          /\ \A j \in e .. e - 1 : line[j] \in Space
      BY <1>0, <1>7, <3>1, <3>3
    <3>7. Tiles(line, base, Token(line, base, "Operand", << o, e >>), m, e)
      <4> HIDE DEF n
      <4> QED
        BY <1>7, <1>8, <3>1, <3>3, <3>6, TilesToken
    <3> QED
      BY <3>3, <3>4, <3>5, <3>6, <3>7
  <2> QED
    BY <2>1, <2>2
<1> HIDE DEF rest
<1>11. Tiles(line, base, Token(line, base, "Comment", Tail_(line, rest)), rest, n + 1)
  BY <1>8, <1>10, TailTiles
<1>12. m \in PlacesOf(line) /\ rest \in PlacesOf(line) /\ i <= m /\ rest <= n + 1
  BY <1>3, <1>5, <1>7, <1>8, <1>10
<1> QED
  BY <1>1, <1>2, <1>9, <1>10, <1>11, <1>12

\* The tokens of each form of a line.
LEMMA TokensOfForm ==
  ASSUME NEW form, NEW line, NEW base
  PROVE  /\ form.form = "Blank" =>
              TokensOf(form, line, base) = Token(line, base, "Comment", form.comment)
         /\ form.form = "Origin" =>
              TokensOf(form, line, base)
                = (Token(line, base, "OriginKeyword", form.keyword)
                    \o Token(line, base, "Operand", form.digits))
                    \o Token(line, base, "Comment", form.comment)
         /\ form.form = "Statement" =>
              TokensOf(form, line, base)
                = (((Token(line, base, "Label", form.label)
                     \o Token(line, base, "Comma", IF form.label = NoPart THEN NoPart
                                                  ELSE << form.label[2], form.label[2] + 1 >>))
                     \o Token(line, base, "Mnemonic", form.mnemonic))
                     \o Token(line, base, "Operand", form.operand))
                     \o Token(line, base, "Comment", form.comment)
         /\ form.form = "Malformed" =>
              TokensOf(form, line, base) = Token(line, base, "Unknown", Trimmed(line))
<1>1. /\ "Blank" # "Origin" /\ "Blank" # "Statement" /\ "Blank" # "Malformed"
      /\ "Origin" # "Statement" /\ "Origin" # "Malformed" /\ "Statement" # "Malformed"
  OBVIOUS
<1>2. CASE form.form = "Blank"
  BY <1>1, <1>2, Zenon DEF TokensOf
<1>3. CASE form.form = "Origin"
  BY <1>1, <1>3, Zenon DEF TokensOf
<1>4. CASE form.form = "Statement"
  BY <1>1, <1>4, Zenon DEF TokensOf
<1>5. CASE form.form = "Malformed"
  BY <1>1, <1>5, Zenon DEF TokensOf
<1> QED
  BY <1>2, <1>3, <1>4, <1>5

\* A statement is a body, or a body behind a label.
LEMMA StatementFrom ==
  ASSUME NEW line \in LineText, StatementOf(line) # MalformedLine
  PROVE  \/ StatementOf(line) = Body(line, SkipWhitespace(line, 1), NoPart)
         \/ \E w \in 1 .. SkipWhitespace(line, 1) : StatementOf(line) = WithLabel(line, w)
<1> DEFINE d == SkipWhitespace(line, 1)
           labelled == [k \in 1 .. d - 1 |-> WithLabel(line, d - k)]
           first == << WithLabel(line, d), Body(line, d, NoPart) >>
           forms == first \o labelled
           S == { WithLabel(line, w) : w \in 1 .. d } \cup { Body(line, d, NoPart) }
<1>1. d \in Nat /\ d >= 1
  <2>1. Len(line) \in Nat /\ 1 \in 1 .. Len(line) + 1
    BY LineFacts
  <2> QED
    BY <2>1, SkipIs
<1>2. StatementOf(line) = FirstOf(forms)
  BY DEF StatementOf
<1>3. forms \in Seq(S)
  <2>1. labelled \in Seq(S)
    <3>1. labelled \in [1 .. d - 1 -> S] /\ d - 1 \in Nat
      BY <1>1
    <3> HIDE DEF S, labelled, d
    <3> QED
      BY <3>1, SeqOfLength
  <2>2. first \in Seq(S)
    BY <1>1
  <2> HIDE DEF S, labelled, first, d
  <2> QED
    BY <2>1, <2>2, ConcatProperties
<1> HIDE DEF forms, d
<1>4. \E k \in 1 .. Len(forms) : StatementOf(line) = forms[k]
  <2> HIDE DEF S
  <2> QED
    BY <1>2, <1>3, FirstOfIs
<1>5. PICK k \in 1 .. Len(forms) : StatementOf(line) = forms[k]
  BY <1>4
<1>6. forms[k] \in S
  <2> HIDE DEF S
  <2> QED
    BY <1>3, <1>5
<1> QED
  BY <1>5, <1>6 DEF d

\* Three groups of tokens behind one.
LEMMA TilesFour ==
  ASSUME NEW line \in LineText, NEW base,
         NEW a \in PlacesOf(line), NEW b \in PlacesOf(line), NEW p \in PlacesOf(line),
         NEW q \in PlacesOf(line), NEW c \in PlacesOf(line),
         a <= b, b <= p, p <= q, q <= c, NEW u, NEW x, NEW y, NEW z,
         Tiles(line, base, u, a, b), Tiles(line, base, x, b, p),
         Tiles(line, base, y, p, q), Tiles(line, base, z, q, c)
  PROVE  Tiles(line, base, ((u \o x) \o y) \o z, a, c)
<1> DEFINE v == u \o x
           w == v \o y
<1>1. a <= p /\ a <= q
  BY LineFacts DEF PlacesOf
<1>2. Tiles(line, base, v, a, p)
  BY TilesBoth
<1> HIDE DEF v
<1>3. Tiles(line, base, w, a, q)
  BY <1>1, <1>2, TilesBoth
<1> HIDE DEF w
<1>4. Tiles(line, base, w \o z, a, c)
  BY <1>1, <1>3, TilesBoth
<1> QED
  BY <1>4 DEF v, w

\* A statement without a label.
LEMMA UnlabelledTiles ==
  ASSUME NEW line \in LineText, NEW base \in Nat,
         Body(line, SkipWhitespace(line, 1), NoPart) # MalformedLine
  PROVE  LET form == Body(line, SkipWhitespace(line, 1), NoPart)
         IN  Tiles(line, base, TokensOf(form, line, base), 1, Len(line) + 1)
<1> DEFINE d == SkipWhitespace(line, 1)
           form == Body(line, d, NoPart)
           x == Token(line, base, "Mnemonic", form.mnemonic)
           y == Token(line, base, "Operand", form.operand)
           z == Token(line, base, "Comment", form.comment)
           n == Len(line)
           u == << >> \o << >>
<1>1. n \in Nat /\ 1 \in 1 .. n + 1
  BY LineFacts
<1>2. d \in 1 .. n + 1 /\ \A j \in 1 .. d - 1 : line[j] \in Space
  BY <1>1, SkipIs
<1> HIDE DEF d
<1>3. d \in PlacesOf(line) /\ 1 \in PlacesOf(line) /\ n + 1 \in PlacesOf(line) /\ 1 <= d
  BY <1>1, <1>2 DEF PlacesOf
<1>4. /\ form.form = "Statement" /\ form.label = NoPart
      /\ \E p, q \in PlacesOf(line) :
           /\ d <= p /\ p <= q /\ q <= n + 1
           /\ Tiles(line, base, x, d, p) /\ Tiles(line, base, y, p, q)
           /\ Tiles(line, base, z, q, n + 1)
  BY <1>3, BodyTiles DEF d
<1>5. TokensOf(form, line, base) = ((u \o x) \o y) \o z
  <2>1. Token(line, base, "Label", NoPart) = << >> /\ Token(line, base, "Comma", NoPart) = << >>
    BY DEF Token
  <2>2. TokensOf(form, line, base)
          = (((Token(line, base, "Label", form.label)
               \o Token(line, base, "Comma", IF form.label = NoPart THEN NoPart
                                            ELSE << form.label[2], form.label[2] + 1 >>))
               \o x) \o y) \o z
    <3> HIDE DEF form
    <3> QED
      BY <1>4, TokensOfForm DEF form
  <2> HIDE DEF form, x, y, z
  <2> QED
    BY <1>4, <2>1, <2>2
<1>6. Tiles(line, base, u, 1, d)
  <2>1. u = << >>
    OBVIOUS
  <2>2. Tiles(line, base, << >>, 1, d)
    BY <1>2, TilesNothing
  <2> QED
    BY <2>1, <2>2
<1> HIDE DEF u, x, y, z, form, n
<1>7. Tiles(line, base, ((u \o x) \o y) \o z, 1, n + 1)
  BY <1>3, <1>4, <1>6, TilesFour
<1> QED
  BY <1>5, <1>7 DEF d, form, n

\* A statement with one.
LEMMA LabelledTiles ==
  ASSUME NEW line \in LineText, NEW base \in Nat, NEW w \in PlacesOf(line),
         \A j \in 1 .. w - 1 : line[j] \in Space,
         WithLabel(line, w) # MalformedLine
  PROVE  Tiles(line, base, TokensOf(WithLabel(line, w), line, base), 1, Len(line) + 1)
<1> DEFINE n == Len(line)
           S == { k \in w .. n + 1 : At(line, k) \in {"comma", "slash", "end"} }
           e == Min(S)
           i == e + 1
           label == << w, e >>
           form == Body(line, i, label)
           v == Token(line, base, "Label", label)
           c == Token(line, base, "Comma", << e, i >>)
           x == Token(line, base, "Mnemonic", form.mnemonic)
           y == Token(line, base, "Operand", form.operand)
           z == Token(line, base, "Comment", form.comment)
           u == v \o c
<1>1. n \in Nat /\ w \in 1 .. n + 1 /\ 1 \in 1 .. n + 1 /\ n + 1 \in 1 .. n + 1
  BY LineFacts DEF PlacesOf
<1>2. At(line, e) = "comma" /\ e # w /\ WithLabel(line, w) = form /\ form # MalformedLine
  BY DEF WithLabel
<1>3. e \in w .. n + 1
  <2>1. S \in SUBSET Nat /\ n + 1 \in S
    BY <1>1, LineFacts
  <2> HIDE DEF S
  <2>2. e \in S
    BY <2>1, LeastIs
  <2> QED
    BY <2>2 DEF S
<1> HIDE DEF e
<1>4. e # n + 1
  BY <1>2, LineFacts
<1>5. /\ e \in 1 .. n + 1 /\ i \in 1 .. n + 1 /\ w < e /\ e < i /\ i <= n + 1
      /\ 1 <= w /\ 1 <= e /\ 1 <= i /\ e <= i /\ e <= e /\ i <= i
      /\ \A j \in e .. e - 1 : line[j] \in Space
      /\ \A j \in i .. i - 1 : line[j] \in Space
  BY <1>1, <1>2, <1>3, <1>4
<1>6. /\ e \in PlacesOf(line) /\ i \in PlacesOf(line) /\ n + 1 \in PlacesOf(line)
      /\ 1 \in PlacesOf(line)
  BY <1>1, <1>5 DEF PlacesOf
<1> HIDE DEF i
<1>7. /\ form.form = "Statement" /\ form.label = label
      /\ \E p, q \in PlacesOf(line) :
           /\ i <= p /\ p <= q /\ q <= n + 1
           /\ Tiles(line, base, x, i, p) /\ Tiles(line, base, y, p, q)
           /\ Tiles(line, base, z, q, n + 1)
  <2> HIDE DEF label
  <2> QED
    BY <1>2, <1>6, BodyTiles
<1>8. "Label" \in Kinds /\ "Comma" \in Kinds
  BY DEF Kinds
<1>9. Tiles(line, base, v, 1, e) /\ Tiles(line, base, c, e, i)
  <2> HIDE DEF n
  <2> QED
    BY <1>5, <1>6, <1>8, TilesToken
<1>10. Tiles(line, base, u, 1, i)
  <2> HIDE DEF v, c, n
  <2> QED
    BY <1>5, <1>6, <1>9, TilesBoth
<1>11. TokensOf(form, line, base) = ((u \o x) \o y) \o z
  <2>1. TokensOf(form, line, base)
          = (((Token(line, base, "Label", form.label)
               \o Token(line, base, "Comma", IF form.label = NoPart THEN NoPart
                                            ELSE << form.label[2], form.label[2] + 1 >>))
               \o x) \o y) \o z
    <3> HIDE DEF form
    <3> QED
      BY <1>7, TokensOfForm DEF form
  <2>2. label # NoPart /\ label[2] = e /\ e + 1 = i
    BY DEF NoPart, i
  <2> HIDE DEF form, x, y, z
  <2> QED
    BY <1>7, <2>1, <2>2
<1> HIDE DEF u, x, y, z, form, n
<1>12. Tiles(line, base, ((u \o x) \o y) \o z, 1, n + 1)
  BY <1>5, <1>6, <1>7, <1>10, TilesFour
<1> QED
  BY <1>2, <1>11, <1>12 DEF n

\* ORG, its digits and a comment.
LEMMA OriginTiles ==
  ASSUME NEW line \in LineText, NEW base \in Nat, IsOrigin(line)
  PROVE  LET form == OriginLine(<< OriginKeyword(line), OriginKeyword(line) + 3 >>,
                                << OriginDigits(line), OriginDigits(line) + 3 >>,
                                Tail_(line, OriginDigits(line) + 3))
         IN  Tiles(line, base, TokensOf(form, line, base), 1, Len(line) + 1)
<1> DEFINE n == Len(line)
           s == OriginKeyword(line)
           d == OriginDigits(line)
           t == s + 3
           e == d + 3
           form == OriginLine(<< s, t >>, << d, e >>, Tail_(line, e))
           x == Token(line, base, "OriginKeyword", << s, t >>)
           y == Token(line, base, "Operand", << d, e >>)
           z == Token(line, base, "Comment", Tail_(line, e))
           v == x \o y
<1>1. n \in Nat /\ 1 \in 1 .. n + 1
  BY LineFacts
<1>2. s \in 1 .. n + 1 /\ \A j \in 1 .. s - 1 : line[j] \in Space
  BY <1>1, SkipIs DEF OriginKeyword
<1>3. s + 2 <= n /\ d + 2 <= n /\ TailMatches(line, e)
  BY DEF IsOrigin
<1>4. d = SkipWhitespace(line, t)
  BY DEF OriginDigits
<1> HIDE DEF s, d
<1>5. t \in 1 .. n + 1
  BY <1>1, <1>2, <1>3
<1>6. d \in t .. n + 1 /\ \A j \in t .. d - 1 : line[j] \in Space
  BY <1>4, <1>5, SkipIs
<1>7. /\ s < t /\ d < e /\ t <= t /\ e <= e /\ 1 <= s /\ t <= d /\ 1 <= t /\ t <= e
      /\ 1 <= e /\ e <= n + 1 /\ d \in 1 .. n + 1 /\ e \in 1 .. n + 1 /\ n + 1 \in 1 .. n + 1
      /\ \A j \in t .. t - 1 : line[j] \in Space
      /\ \A j \in e .. e - 1 : line[j] \in Space
  BY <1>1, <1>2, <1>3, <1>5, <1>6
<1>8. /\ "OriginKeyword" \in Kinds /\ "Operand" \in Kinds
      /\ \A p \in 1 .. n + 1 : p \in PlacesOf(line)
  BY DEF Kinds, PlacesOf
<1>9. TokensOf(form, line, base) = v \o z
  <2>1. /\ form.form = "Origin" /\ form.keyword = << s, t >> /\ form.digits = << d, e >>
        /\ form.comment = Tail_(line, e)
    BY DEF OriginLine
  <2> HIDE DEF form, t, e
  <2>2. TokensOf(form, line, base)
          = (Token(line, base, "OriginKeyword", form.keyword)
              \o Token(line, base, "Operand", form.digits))
              \o Token(line, base, "Comment", form.comment)
    BY <2>1, TokensOfForm
  <2> QED
    BY <2>1, <2>2
<1> HIDE DEF t, e
<1>10. Tiles(line, base, x, 1, t) /\ Tiles(line, base, y, t, e)
  <2> HIDE DEF n
  <2> QED
    BY <1>1, <1>2, <1>5, <1>6, <1>7, <1>8, TilesToken
<1>11. Tiles(line, base, z, e, n + 1)
  BY <1>3, <1>7, <1>8, TailTiles
<1> HIDE DEF x, y, z
<1>12. Tiles(line, base, v, 1, e)
  <2> HIDE DEF n
  <2> QED
    BY <1>1, <1>5, <1>7, <1>8, <1>10, TilesBoth
<1> HIDE DEF v
<1>13. Tiles(line, base, v \o z, 1, n + 1)
  <2> HIDE DEF n
  <2>1. n + 1 \in PlacesOf(line) /\ 1 \in PlacesOf(line) /\ e \in PlacesOf(line)
    BY <1>1, <1>7, <1>8
  <2> QED
    BY <1>7, <1>11, <1>12, <2>1, TilesBoth
<1> HIDE DEF form
<1>14. Tiles(line, base, TokensOf(form, line, base), 1, n + 1)
  BY <1>9, <1>13
<1> QED
  BY <1>14 DEF form, t, e, s, d

\* A line that is not understood is one token without the space around it.
LEMMA UnknownTiles ==
  ASSUME NEW line \in LineText, NEW base \in Nat
  PROVE  Tiles(line, base, Token(line, base, "Unknown", Trimmed(line)), 1, Len(line) + 1)
<1> DEFINE n == Len(line)
           T == { i \in DOMAIN line : line[i] \notin Space }
           f == Min(T)
           l == Max(T)
           t == l + 1
<1>1. n \in Nat /\ DOMAIN line = 1 .. n
  BY LineFacts
<1>2. T \in SUBSET Nat /\ \A j \in 1 .. n : j \in T <=> line[j] \notin Space
  BY <1>1
<1>3. \A j \in T : j \in 1 .. n /\ j <= n
  BY <1>1
<1>4. Trimmed(line) = IF T = {} THEN NoPart ELSE << f, t >>
  BY DEF Trimmed
<1> HIDE DEF T
<1>5. CASE T = {}
  <2>1. Token(line, base, "Unknown", Trimmed(line)) = << >>
    BY <1>4, <1>5 DEF Token
  <2>2. \A j \in 1 .. (n + 1) - 1 : line[j] \in Space
    BY <1>1, <1>2, <1>5
  <2>3. Tiles(line, base, << >>, 1, n + 1)
    BY <2>2, TilesNothing
  <2> QED
    BY <2>1, <2>3
<1>6. CASE T # {}
  <2>1. f \in T /\ \A j \in T : f <= j
    BY <1>2, <1>6, LeastIs
  <2>2. l \in T /\ \A j \in T : l >= j
    BY <1>1, <1>2, <1>3, <1>6, GreatestNatural
  <2> HIDE DEF f, l
  <2>3. /\ f \in 1 .. n + 1 /\ t \in 1 .. n + 1 /\ 1 \in 1 .. n + 1 /\ n + 1 \in 1 .. n + 1
        /\ 1 <= f /\ f < t /\ t <= n + 1
    BY <1>1, <1>3, <2>1, <2>2
  <2>4. \A j \in 1 .. f - 1 : j \in 1 .. n /\ ~(f <= j)
    BY <1>1, <1>3, <2>1
  <2>5. \A j \in t .. (n + 1) - 1 : j \in 1 .. n /\ ~(l >= j)
    BY <1>1, <1>3, <2>2
  <2>6. /\ \A j \in 1 .. f - 1 : line[j] \in Space
        /\ \A j \in t .. (n + 1) - 1 : line[j] \in Space
    BY <1>2, <2>1, <2>2, <2>4, <2>5
  <2>7. "Unknown" \in Kinds /\ \A p \in 1 .. n + 1 : p \in PlacesOf(line)
    BY DEF Kinds, PlacesOf
  <2> HIDE DEF n, t
  <2>8. Tiles(line, base, Token(line, base, "Unknown", << f, t >>), 1, n + 1)
    BY <2>3, <2>6, <2>7, TilesToken
  <2> QED
    BY <1>4, <1>6, <2>8 DEF n
<1> QED
  BY <1>5, <1>6

\* The tokens of a line tile it, whatever the line.
LEMMA LineTiles ==
  ASSUME NEW line \in LineText, NEW base \in Nat
  PROVE  Tiles(line, base, LineTokens(line, base), 1, Len(line) + 1)
<1> DEFINE n == Len(line)
           form == SplitLine(line)
<1>1. n \in Nat /\ 1 \in 1 .. n + 1
  BY LineFacts
<1>2. LineTokens(line, base) = TokensOf(form, line, base)
  BY DEF LineTokens
<1>3. CASE TailMatches(line, 1)
  <2>1. form = BlankLine(Tail_(line, 1))
    BY <1>3 DEF SplitLine
  <2>2. form.form = "Blank" /\ form.comment = Tail_(line, 1)
    BY <2>1 DEF BlankLine
  <2> HIDE DEF form
  <2>3. TokensOf(form, line, base) = Token(line, base, "Comment", Tail_(line, 1))
    BY <2>2, TokensOfForm
  <2>4. 1 \in PlacesOf(line)
    BY <1>1 DEF PlacesOf
  <2> QED
    BY <1>2, <1>3, <2>3, <2>4, TailTiles
<1>4. CASE ~TailMatches(line, 1) /\ IsOrigin(line)
  <2>1. form = OriginLine(<< OriginKeyword(line), OriginKeyword(line) + 3 >>,
                          << OriginDigits(line), OriginDigits(line) + 3 >>,
                          Tail_(line, OriginDigits(line) + 3))
    BY <1>4 DEF SplitLine
  <2> HIDE DEF form
  <2> QED
    BY <1>2, <1>4, <2>1, OriginTiles
<1>5. CASE ~TailMatches(line, 1) /\ ~IsOrigin(line)
  <2>1. form = StatementOf(line)
    BY <1>5 DEF SplitLine
  <2> HIDE DEF form
  <2>2. CASE form = MalformedLine
    <3>1. form.form = "Malformed"
      BY <2>2 DEF MalformedLine
    <3>2. TokensOf(form, line, base) = Token(line, base, "Unknown", Trimmed(line))
      BY <3>1, TokensOfForm
    <3> QED
      BY <1>2, <3>2, UnknownTiles
  <2>3. CASE form # MalformedLine
    <3> DEFINE d == SkipWhitespace(line, 1)
    <3>1. d \in 1 .. n + 1 /\ \A j \in 1 .. d - 1 : line[j] \in Space
      BY <1>1, SkipIs
    <3>2. form = Body(line, d, NoPart) \/ \E w \in 1 .. d : form = WithLabel(line, w)
      BY <2>1, <2>3, StatementFrom
    <3>3. CASE form = Body(line, d, NoPart)
      BY <1>2, <2>3, <3>3, UnlabelledTiles
    <3>4. CASE \E w \in 1 .. d : form = WithLabel(line, w)
      <4>1. PICK w \in 1 .. d : form = WithLabel(line, w)
        BY <3>4
      <4>2. w \in 1 .. n + 1 /\ \A j \in 1 .. w - 1 : j \in 1 .. d - 1
        BY <1>1, <3>1
      <4>3. w \in PlacesOf(line) /\ \A j \in 1 .. w - 1 : line[j] \in Space
        BY <3>1, <4>2 DEF PlacesOf
      <4> QED
        BY <1>2, <2>3, <4>1, <4>3, LabelledTiles
    <3> QED
      BY <3>2, <3>3, <3>4
  <2> QED
    BY <2>2, <2>3
<1> QED
  BY <1>3, <1>4, <1>5

\* Tokens that tile a line cover it.
LEMMA TilesCover ==
  ASSUME NEW line \in LineText, NEW tokens, Tiles(line, 0, tokens, 1, Len(line) + 1)
  PROVE  Covers(tokens, line)
<1> DEFINE begins(k) == CHOOSE i \in 1 .. Len(line) + 1 : ByteOf(line, i) = tokens[k].span[1]
           ends(k) == CHOOSE i \in 1 .. Len(line) + 1 : ByteOf(line, i) = tokens[k].span[2]
           n == Len(line)
<1>1. n \in Nat /\ DOMAIN line = 1 .. n
  BY LineFacts
<1>2. tokens \in Seq(LineToken) /\ DOMAIN tokens = 1 .. Len(tokens)
  BY DEF Tiles
<1>3. ASSUME NEW k \in DOMAIN tokens
      PROVE  /\ begins(k) \in 1 .. n + 1 /\ ends(k) \in 1 .. n + 1 /\ begins(k) < ends(k)
             /\ \A b \in {1, 2} :
                  tokens[k].span[b] \in { ByteOf(line, i) : i \in 1 .. Len(line) + 1 }
             /\ begins(k) = From(line, 0, tokens[k]) /\ ends(k) = To(line, 0, tokens[k])
  <2> DEFINE f == From(line, 0, tokens[k])
             t == To(line, 0, tokens[k])
             span == tokens[k].span
  <2>1. Placed(line, 0, tokens[k], 1, n + 1)
    BY <1>2 DEF Tiles
  <2>2. /\ f \in 1 .. n + 1 /\ t \in 1 .. n + 1 /\ f < t
        /\ span = << 0 + ByteOf(line, f), 0 + ByteOf(line, t) >>
    BY <2>1 DEF Placed
  <2>3. f = PlaceOf(line, span[1] - 0) /\ t = PlaceOf(line, span[2] - 0)
    BY DEF From, To
  <2> HIDE DEF f, t, span
  <2>4. span[1] = 0 + ByteOf(line, f) /\ span[2] = 0 + ByteOf(line, t)
    BY <2>2
  <2>5. ByteOf(line, f) \in Nat /\ ByteOf(line, t) \in Nat
    BY <2>2, LineIsText, ByteOfIs
  <2>6. /\ span[1] = ByteOf(line, f) /\ span[2] = ByteOf(line, t)
        /\ span[1] - 0 = span[1] /\ span[2] - 0 = span[2]
    BY <2>4, <2>5
  <2>7. f = PlaceOf(line, span[1]) /\ t = PlaceOf(line, span[2])
    BY <2>3, <2>6
  <2>8. begins(k) = PlaceOf(line, span[1]) /\ ends(k) = PlaceOf(line, span[2])
    BY DEF PlaceOf, span
  <2>9. span[1] \in { ByteOf(line, i) : i \in 1 .. n + 1 }
        /\ span[2] \in { ByteOf(line, i) : i \in 1 .. n + 1 }
    BY <2>2, <2>6
  <2>10. \A b \in {1, 2} : span[b] \in { ByteOf(line, i) : i \in 1 .. n + 1 }
    BY <2>9
  <2> HIDE DEF begins, ends
  <2>11. begins(k) = f /\ ends(k) = t
    BY <2>7, <2>8
  <2> QED
    BY <2>2, <2>10, <2>11 DEF f, t, span
<1> HIDE DEF begins, ends
<1>4. \A k, l \in DOMAIN tokens : k < l => ends(k) <= begins(l)
  BY <1>2, <1>3 DEF Tiles
<1>5. ASSUME NEW i \in DOMAIN line, line[i] \notin Space
      PROVE  \E k \in DOMAIN tokens : i \in begins(k) .. ends(k) - 1
  <2>1. i \in 1 .. (n + 1) - 1
    BY <1>1
  <2>2. PICK k \in 1 .. Len(tokens) :
          From(line, 0, tokens[k]) <= i /\ i < To(line, 0, tokens[k])
    BY <1>5, <2>1 DEF Tiles
  <2>3. k \in DOMAIN tokens /\ begins(k) <= i /\ i < ends(k)
    BY <1>2, <1>3, <2>2
  <2>4. begins(k) \in Nat /\ ends(k) \in Nat /\ i \in Nat
    BY <1>1, <1>3, <2>1, <2>3
  <2>5. i \in begins(k) .. ends(k) - 1
    BY <2>3, <2>4
  <2> QED
    BY <2>3, <2>5
<1>6. /\ \A k \in DOMAIN tokens : \A b \in {1, 2} :
           tokens[k].span[b] \in { ByteOf(line, i) : i \in 1 .. Len(line) + 1 }
      /\ \A k \in DOMAIN tokens : begins(k) < ends(k)
  BY <1>3
<1> QED
  BY <1>4, <1>5, <1>6 DEF Covers, begins, ends

\* Two lines, the second as the first.
Twice(line) == line \o << Newline >> \o line

\* Its characters: those of the line, a newline, those of the line again.
LEMMA TwiceIs ==
  ASSUME NEW line \in LineText
  PROVE  /\ Twice(line) \in Seq(Character) /\ Len(Twice(line)) = 2 * Len(line) + 1
         /\ \A i \in 1 .. Len(line) :
              Twice(line)[i] = line[i] /\ Twice(line)[Len(line) + 1 + i] = line[i]
         /\ Twice(line)[Len(line) + 1] = Newline
<1> DEFINE n == Len(line)
           one == line \o << Newline >>
           two == one \o line
<1>1. n \in Nat /\ line \in Seq(Character) /\ << Newline >> \in Seq(Character)
      /\ Len(<< Newline >>) = 1 /\ << Newline >>[1] = Newline
  BY LineFacts, LineIsText DEF Character, Ascii
<1>2. /\ one \in Seq(Character) /\ Len(one) = n + 1
      /\ \A i \in 1 .. n + 1 : one[i] = IF i <= n THEN line[i] ELSE << Newline >>[i - n]
  BY <1>1, ConcatProperties
<1> HIDE DEF one
<1>3. /\ two \in Seq(Character) /\ Len(two) = (n + 1) + n
      /\ \A i \in 1 .. (n + 1) + n : two[i] = IF i <= n + 1 THEN one[i] ELSE line[i - (n + 1)]
  <2>1. /\ one \o line \in Seq(Character) /\ Len(one \o line) = Len(one) + Len(line)
        /\ \A i \in 1 .. Len(one) + Len(line) : (one \o line)[i] =
             IF i <= Len(one) THEN one[i] ELSE line[i - Len(one)]
    BY <1>1, <1>2, ConcatProperties
  <2> QED
    BY <1>2, <2>1
<1>4. Twice(line) = two
  BY DEF Twice, one
<1> HIDE DEF two, n
<1>5. \A i \in 1 .. n :
        /\ i \in 1 .. n + 1 /\ i \in 1 .. (n + 1) + n /\ i <= n /\ i <= n + 1
        /\ (n + 1) + i \in 1 .. (n + 1) + n /\ ~((n + 1) + i <= n + 1)
        /\ ((n + 1) + i) - (n + 1) = i
  BY <1>1
<1>6. /\ n + 1 \in 1 .. n + 1 /\ n + 1 \in 1 .. (n + 1) + n /\ ~(n + 1 <= n)
      /\ (n + 1) - n = 1 /\ (n + 1) + n = 2 * n + 1 /\ n + 1 <= n + 1
  BY <1>1
<1>7. \A i \in 1 .. n : two[i] = line[i] /\ two[(n + 1) + i] = line[i]
  BY <1>2, <1>3, <1>5
<1>8. two[n + 1] = Newline
  BY <1>1, <1>2, <1>3, <1>6
<1> QED
  BY <1>3, <1>4, <1>6, <1>7, <1>8 DEF n

\* It splits into those.
LEMMA TwiceSplits ==
  ASSUME NEW line \in LineText
  PROVE  /\ LineCuts(Twice(line)) = {0, Len(line) + 1, 2 * Len(line) + 2}
         /\ LineAfter(Twice(line), 0) = line
         /\ LineAfter(Twice(line), Len(line) + 1) = line
<1> DEFINE n == Len(line)
           text == Twice(line)
           m == n + 1
           k == 2 * n + 2
<1>1. n \in Nat /\ line \in Seq(Character) /\ \A i \in 1 .. n : line[i] # Newline
  BY LineFacts, LineIsText
<1>2. /\ text \in Seq(Character) /\ Len(text) = 2 * n + 1 /\ DOMAIN text = 1 .. 2 * n + 1
      /\ \A i \in 1 .. n : text[i] = line[i] /\ text[m + i] = line[i]
      /\ text[m] = Newline
  BY TwiceIs
<1> HIDE DEF text, n
<1>3. \A i \in DOMAIN text : text[i] = Newline <=> i = m
  <2> TAKE i \in DOMAIN text
  <2>1. i \in 1 .. n \/ i = m \/ (i - m \in 1 .. n /\ i = m + (i - m))
    BY <1>1, <1>2
  <2>2. m \notin 1 .. n
    BY <1>1
  <2> HIDE DEF m
  <2>3. CASE i - m \in 1 .. n /\ i = m + (i - m)
    <3>1. text[i] = line[i - m]
      BY <1>2, <2>3
    <3>2. i # m
      <4>1. n \in Nat
        BY <1>1
      <4>2. m = n + 1
        BY DEF m
      <4> QED
        BY <2>3, <4>1, <4>2
    <3> QED
      BY <1>1, <2>3, <3>1, <3>2
  <2> QED
    BY <1>1, <1>2, <2>1, <2>2, <2>3
<1>4. LineCuts(text) = {0, m, k}
  <2>1. { i \in DOMAIN text : text[i] = Newline } = {m}
    <3>1. m \in DOMAIN text
      BY <1>1, <1>2
    <3> HIDE DEF m
    <3> QED
      BY <1>3, <3>1
  <2>2. Len(text) + 1 = k
    BY <1>1, <1>2
  <2> HIDE DEF m, k
  <2> QED
    BY <2>1, <2>2 DEF LineCuts
<1>5. m \in Nat /\ k \in Nat /\ 0 < m /\ m < k /\ ~(0 > m)
  BY <1>1
<1>6. Min({ i \in LineCuts(text) : i > 0 }) = m /\ Min({ i \in LineCuts(text) : i > m }) = k
  <2>1. { i \in LineCuts(text) : i > 0 } = {m, k} /\ { i \in LineCuts(text) : i > m } = {k}
    <3>1. m > 0 /\ k > 0 /\ ~(0 > 0) /\ ~(0 > m) /\ ~(m > m) /\ k > m
      BY <1>5
    <3> HIDE DEF m, k
    <3> QED
      BY <1>4, <3>1
  <2> HIDE DEF m, k
  <2>2. {m, k} \in SUBSET Nat /\ {k} \in SUBSET Nat /\ {m, k} # {} /\ {k} # {}
    BY <1>5
  <2>3. /\ Min({m, k}) \in {m, k} /\ \A x \in {m, k} : Min({m, k}) <= x
        /\ Min({k}) \in {k}
    BY <2>2, LeastIs
  <2>4. Min({m, k}) = m
    BY <1>5, <2>3
  <2> QED
    BY <2>1, <2>3, <2>4
<1>7. LineAfter(text, 0) = SubSeq(text, 0 + 1, m - 1) /\ LineAfter(text, m) = SubSeq(text, m + 1, k - 1)
  BY <1>6 DEF LineAfter
<1>8. 0 + 1 = 1 /\ m - 1 = n /\ m + 1 = n + 2 /\ k - 1 = 2 * n + 1
  BY <1>1
<1>9. SubSeq(text, 1, n) = line
  <2> DEFINE p == SubSeq(text, 1, n)
  <2>1. \A i \in 1 .. n : text[i] \in Character /\ 1 + i - 1 = i
    BY <1>1, <1>2
  <2>2. p \in Seq(Character) /\ Len(p) = n - 1 + 1 /\ \A i \in 1 .. n - 1 + 1 : p[i] = text[1 + i - 1]
    BY <1>1, <2>1, SubSeqProperties
  <2>3. n - 1 + 1 = n
    BY <1>1
  <2> HIDE DEF p
  <2>4. Len(p) = n /\ \A i \in 1 .. n : p[i] = line[i]
    BY <1>2, <2>1, <2>2, <2>3
  <2>5. p = line
    BY <1>1, <2>2, <2>4 DEF n
  <2> QED
    BY <2>5 DEF p
<1>10. SubSeq(text, n + 2, 2 * n + 1) = line
  <2> DEFINE a == n + 2
             b == 2 * n + 1
             p == SubSeq(text, a, b)
  <2>1. \A i \in a .. b : text[i] \in Character
    BY <1>1, <1>2
  <2>2. \A i \in 1 .. n : a + i - 1 = m + i
    BY <1>1
  <2>3. b - a + 1 = n /\ a \in Nat /\ b \in Nat /\ a <= b + 1
    BY <1>1
  <2> HIDE DEF a, b, m
  <2>4. /\ p \in Seq(Character) /\ Len(p) = b - a + 1
        /\ \A i \in 1 .. b - a + 1 : p[i] = text[a + i - 1]
    BY <2>1, <2>3, SubSeqProperties
  <2> HIDE DEF p
  <2>5. Len(p) = n /\ \A i \in 1 .. n : p[i] = line[i]
    BY <1>2, <2>2, <2>3, <2>4
  <2>6. p = line
    BY <1>1, <2>4, <2>5 DEF n
  <2> QED
    BY <2>6 DEF p, a, b
<1> QED
  BY <1>4, <1>7, <1>8, <1>9, <1>10 DEF text, n

\* The second line begins a byte behind the first.
LEMMA TwiceBases ==
  ASSUME NEW line \in LineText
  PROVE  /\ LineBase(Twice(line), 0) = 0
         /\ LineBase(Twice(line), Len(line) + 1) = ByteOf(line, Len(line) + 1) + 1
         /\ ByteOf(line, Len(line) + 1) \in Nat
<1> DEFINE n == Len(line)
           text == Twice(line)
           f == Tally("Utf8", text)
<1>1. n \in Nat /\ line \in Seq(Character)
  BY LineFacts, LineIsText
<1>2. text \in Seq(Character) /\ Len(text) = 2 * n + 1 /\ text[n + 1] = Newline
  BY TwiceIs
<1>3. SubSeq(text, 1, n) = SubSeq(line, 1, n)
  <2>1. \A i \in 1 .. n : text[i] = line[i]
    BY TwiceIs
  <2>2. \A i \in 1 .. n : text[i] \in Character /\ line[i] \in Character
    BY <1>1, <2>1
  <2> DEFINE p == SubSeq(text, 1, n)
             q == SubSeq(line, 1, n)
  <2> HIDE DEF text, n
  <2>3. /\ p \in Seq(Character) /\ Len(p) = n - 1 + 1 /\ \A i \in 1 .. n - 1 + 1 : p[i] = text[1 + i - 1]
        /\ q \in Seq(Character) /\ Len(q) = n - 1 + 1 /\ \A i \in 1 .. n - 1 + 1 : q[i] = line[1 + i - 1]
    BY <1>1, <2>2, SubSeqProperties
  <2>4. n - 1 + 1 = n /\ \A i \in 1 .. n : 1 + i - 1 = i
    BY <1>1
  <2> HIDE DEF p, q
  <2>5. Len(p) = n /\ Len(q) = n /\ \A i \in 1 .. n : p[i] = q[i]
    BY <2>1, <2>3, <2>4
  <2>6. p = q
    BY <1>1, <2>3, <2>5
  <2> QED
    BY <2>6 DEF p, q
<1>4. f[0] = 0 /\ f[n + 1] = f[(n + 1) - 1] + Width("Utf8", text[n + 1])
  <2>1. Tallies("Utf8", text, f)
    BY <1>2, TallyFacts DEF PositionEncoding
  <2>2. n + 1 \in 1 .. Len(text)
    BY <1>1, <1>2
  <2> HIDE DEF f, text, n
  <2> QED
    BY <2>1, <2>2 DEF Tallies
<1>5. Width("Utf8", Newline) = 1
  <2>1. Bytes(Newline) = 1
    <3>1. Newline \in Ascii
      BY DEF Ascii
    <3>2. Newline \notin {"two", "nbsp"} /\ Newline # "three" /\ Newline # "four"
      BY DEF Newline
    <3> QED
      BY <3>1, <3>2, Zenon DEF Bytes
  <2> QED
    BY <2>1 DEF Width
<1>6. f[n] = ByteOf(line, n + 1)
  <2>1. n \in 0 .. Len(text) /\ (n + 1) - 1 = n
    BY <1>1, <1>2
  <2>2. f[n] = Measure("Utf8", SubSeq(text, 1, n))
    BY <2>1 DEF Tally
  <2> HIDE DEF f, text, n
  <2> QED
    BY <1>3, <2>1, <2>2 DEF ByteOf
<1>7. ByteOf(line, n + 1) \in Nat
  BY <1>1, ByteOfIs
<1>8. LineBase(text, 0) = f[0] /\ LineBase(text, n + 1) = f[n + 1]
  <2>1. /\ 0 + 1 \in 1 .. Len(text) + 1 /\ (0 + 1) - 1 = 0
        /\ (n + 1) + 1 \in 1 .. Len(text) + 1 /\ ((n + 1) + 1) - 1 = n + 1
    BY <1>1, <1>2
  <2>2. /\ ByteOf(text, 0 + 1) = f[(0 + 1) - 1]
        /\ ByteOf(text, (n + 1) + 1) = f[((n + 1) + 1) - 1]
    BY <1>2, <2>1, ByteOfIs
  <2> HIDE DEF f, text, n
  <2> QED
    BY <2>1, <2>2 DEF LineBase
<1>9. (n + 1) - 1 = n
  BY <1>1
<1> HIDE DEF f, text, n
<1>10. LineBase(text, 0) = 0 /\ LineBase(text, n + 1) = ByteOf(line, n + 1) + 1
  BY <1>2, <1>4, <1>5, <1>6, <1>8, <1>9
<1> QED
  BY <1>7, <1>10 DEF text, n

\* No token joins any.
LEMMA NoTokenJoins ==
  ASSUME NEW x \in Seq(LineToken)
  PROVE  << >> \o x = x /\ x \o << >> = x
OBVIOUS

\* So the tokens are those of both, and nothing between them.
LEMMA TwiceTokens ==
  ASSUME NEW line \in LineText
  PROVE  Tokenize(Twice(line))
           = LineTokens(line, 0) \o LineTokens(line, ByteOf(line, Len(line) + 1) + 1)
<1> DEFINE n == Len(line)
           text == Twice(line)
           m == n + 1
           k == 2 * n + 2
           first == LineTokens(line, 0)
           second == LineTokens(line, ByteOf(line, n + 1) + 1)
           both == first \o second
           T(i) == LineTokens(LineAfter(text, i), LineBase(text, i))
           More(i) == IF i \in LineCuts(text) \ {Len(text) + 1} THEN T(i) ELSE << >>
           Unrolled(g) == [i \in 0 .. Len(text) + 1 |->
                             (IF i = 0 THEN << >> ELSE g[i - 1])
                               \o (IF i \in LineCuts(text) \ {Len(text) + 1}
                                   THEN LineTokens(LineAfter(text, i), LineBase(text, i))
                                   ELSE << >>)]
           upTo == CHOOSE g : g = Unrolled(g)
           f == [i \in 0 .. k |-> IF i < m THEN first ELSE both]
<1>1. n \in Nat
  BY LineFacts
<1>2. Len(text) + 1 = k
  <2>1. Len(text) = 2 * n + 1
    BY TwiceIs
  <2> HIDE DEF text, n
  <2> QED
    BY <1>1, <2>1
<1>3. LineCuts(text) \ {k} = {0, m}
  <2>1. LineCuts(text) = {0, m, k}
    BY TwiceSplits
  <2>2. 0 # k /\ m # k
    BY <1>1
  <2> HIDE DEF text, m, k
  <2> QED
    BY <2>1, <2>2
<1>4. T(0) = first /\ T(m) = second
  <2>1. LineAfter(text, 0) = line /\ LineAfter(text, m) = line
    BY TwiceSplits
  <2>2. LineBase(text, 0) = 0 /\ LineBase(text, m) = ByteOf(line, n + 1) + 1
    BY TwiceBases
  <2> HIDE DEF text, m
  <2> QED
    BY <2>1, <2>2
<1>5. first \in Seq(LineToken) /\ second \in Seq(LineToken)
  <2>1. ByteOf(line, n + 1) + 1 \in Nat
    BY TwiceBases
  <2> QED
    BY <2>1, LineTiles DEF Tiles
<1>6. Tokenize(text) = upTo[k]
  <2>1. Tokenize(text) = upTo[Len(text) + 1]
    BY DEF Tokenize
  <2> HIDE DEF upTo, text, k
  <2> QED
    BY <1>2, <2>1
<1>7. \A g : Unrolled(g) = [i \in 0 .. k |-> (IF i = 0 THEN << >> ELSE g[i - 1]) \o More(i)]
  <2> HIDE DEF text, k
  <2> QED
    BY <1>2
<1>8. /\ More(0) = first /\ More(m) = second
      /\ \A i \in 0 .. k : i # 0 /\ i # m => More(i) = << >>
  <2> HIDE DEF T, m, k, first, second, text
  <2> QED
    BY <1>2, <1>3, <1>4
<1>9. m \in 1 .. k /\ 0 \in 0 .. k /\ k \in 0 .. k /\ ~(k < m) /\ 0 < m
  BY <1>1
<1> HIDE DEF More, T, first, second, Unrolled
<1>10. ASSUME NEW i \in 0 .. k
       PROVE  f[i] = (IF i = 0 THEN << >> ELSE f[i - 1]) \o More(i)
  <2>1. CASE i = 0
    <3>1. << >> \o first = first
      BY <1>5, NoTokenJoins
    <3> QED
      BY <1>8, <1>9, <2>1, <3>1
  <2>2. CASE i = m
    <3>1. i # 0 /\ i - 1 \in 0 .. k /\ i - 1 < m /\ ~(i < m)
      BY <1>1, <2>2
    <3>2. f[i - 1] = first /\ f[i] = both
      BY <3>1
    <3> HIDE DEF f, m
    <3> QED
      BY <1>8, <2>2, <3>1, <3>2
  <2>3. CASE i # 0 /\ i # m
    <3>1. i - 1 \in 0 .. k /\ (i < m <=> i - 1 < m)
      BY <1>1, <2>3
    <3>2. f[i] = f[i - 1]
      BY <3>1
    <3>3. f[i - 1] \in Seq(LineToken)
      <4>1. both \in Seq(LineToken)
        BY <1>5
      <4> HIDE DEF both
      <4> QED
        BY <1>5, <3>1, <4>1
    <3> DEFINE before == f[i - 1]
    <3>4. before \o << >> = before
      <4> HIDE DEF before
      <4>1. before \in Seq(LineToken)
        BY <3>3 DEF before
      <4> QED
        BY <4>1, NoTokenJoins
    <3> HIDE DEF f, k, m
    <3> QED
      BY <1>8, <2>3, <3>2, <3>4 DEF before
  <2> QED
    BY <2>1, <2>2, <2>3
<1>11. f = Unrolled(f)
  <2> DEFINE h == [i \in 0 .. k |-> (IF i = 0 THEN << >> ELSE f[i - 1]) \o More(i)]
  <2>1. Unrolled(f) = h
    BY <1>7
  <2>2. f = [i \in 0 .. k |-> f[i]]
    OBVIOUS
  <2>3. \A i \in 0 .. k : f[i] = (IF i = 0 THEN << >> ELSE f[i - 1]) \o More(i)
    BY <1>10
  <2> HIDE DEF f, k
  <2>4. [i \in 0 .. k |-> f[i]] = h
    BY <2>3
  <2> QED
    BY <2>1, <2>2, <2>4
<1>12. upTo = Unrolled(upTo)
  <2> HIDE DEF f
  <2> QED
    BY <1>11
<1> HIDE DEF upTo
<1>13. \A i \in 0 .. k : upTo[i] = (IF i = 0 THEN << >> ELSE upTo[i - 1]) \o More(i)
  <2> DEFINE h == [i \in 0 .. k |-> (IF i = 0 THEN << >> ELSE upTo[i - 1]) \o More(i)]
  <2>1. upTo = h
    BY <1>7, <1>12
  <2>2. \A i \in 0 .. k : h[i] = (IF i = 0 THEN << >> ELSE upTo[i - 1]) \o More(i)
    OBVIOUS
  <2> HIDE DEF h
  <2> QED
    BY <2>1, <2>2
<1>14. k \in Nat
  BY <1>1
<1> HIDE DEF f, k, m
<1>15. \A i \in Nat : i <= k => upTo[i] = f[i]
  <2> DEFINE P == { i \in Nat : i <= k => upTo[i] = f[i] }
  <2>1. 0 \in P
    BY <1>9, <1>10, <1>13
  <2>2. ASSUME NEW i \in Nat, i \in P
        PROVE  i + 1 \in P
    <3>1. ASSUME i + 1 <= k
          PROVE  upTo[i + 1] = f[i + 1]
      <4>1. i + 1 \in 0 .. k /\ i + 1 # 0 /\ (i + 1) - 1 = i /\ i <= k
        BY <1>14, <3>1
      <4>2. upTo[i + 1] = upTo[i] \o More(i + 1) /\ f[i + 1] = f[i] \o More(i + 1)
        BY <1>10, <1>13, <4>1
      <4> QED
        BY <2>2, <4>1, <4>2
    <3> QED
      BY <3>1
  <2> HIDE DEF P
  <2>3. \A i \in Nat : i \in P
    BY <2>1, <2>2, SetInduction
  <2> QED
    BY <2>3 DEF P
<1>16. upTo[k] = both
  <2>1. f[k] = both
    BY <1>9 DEF f
  <2>2. k <= k
    BY <1>14
  <2> QED
    BY <1>14, <1>15, <2>1, <2>2
<1> QED
  BY <1>6, <1>16 DEF first, second

\* On every line there is, of whichever form, the tokens follow one another at
\* characters and leave out nothing but space; and the tokens of two lines are
\* those of both, the second a newline behind the first.
THEOREM LinesAreCovered == TypingSpec => []TokensCoverLine
<1>1. TypedOK => TokensCoverLine
  <2> SUFFICES ASSUME TypedOK, IsLine
               PROVE  LET line == typed.text
                          behind == ByteOf(line, Len(line) + 1) + 1
                      IN  /\ Covers(LineTokens(line, 0), line)
                          /\ Tokenize(line \o << Newline >> \o line)
                               = LineTokens(line, 0) \o LineTokens(line, behind)
    BY DEF TokensCoverLine
  <2> DEFINE line == typed.text
  <2>1. line \in LineText
    BY DEF TypedOK
  <2> HIDE DEF line
  <2>2. Covers(LineTokens(line, 0), line)
    BY <2>1, LineTiles, TilesCover, 0 \in Nat
  <2>3. Tokenize(line \o << Newline >> \o line)
          = LineTokens(line, 0) \o LineTokens(line, ByteOf(line, Len(line) + 1) + 1)
    BY <2>1, TwiceTokens DEF Twice
  <2> QED
    BY <2>2, <2>3 DEF line
<1> QED
  BY <1>1, TypingInvariance, PTL

-----------------------------------------------------------------------------
(* Literals: what is read is what is meant.                                *)

\* A numeral in a base.
Bases == {2, 8, 10, 16}
Numeral(digits, base) ==
  digits \in Seq(STRING) /\ \A i \in 1 .. Len(digits) : IsDigit(digits[i], base)

\* A digit has a value.
LEMMA DigitValueType ==
  ASSUME NEW base \in Bases, NEW c, IsDigit(c, base)
  PROVE  DigitValue(c) \in Nat
<1>1. PICK d \in 1 .. base : Digits[d] = c
  BY DEF IsDigit
<1>2. d \in 1 .. 16
  BY DEF Bases
<1>3. (CHOOSE e \in 1 .. 16 : Digits[e] = c) \in 1 .. 16
  BY <1>1, <1>2
<1>4. \A e \in 1 .. 16 : e - 1 \in Nat
  OBVIOUS
<1> QED
  BY <1>3, <1>4 DEF DigitValue

\* What from_str_radix adds up, digit by digit from the first.
AddsUp(f, digits, base) ==
  /\ f \in [Nat -> Nat] /\ f[0] = 0
  /\ \A k \in 1 .. Len(digits) : f[k] = f[k - 1] * base + DigitValue(digits[k])

\* The magnitude of a numeral is such a sum.
LEMMA MagnitudeIs ==
  ASSUME NEW base \in Bases, NEW digits, Numeral(digits, base)
  PROVE  \E f : AddsUp(f, digits, base) /\ Magnitude(digits, base) = f[Len(digits)]
<1> DEFINE n == Len(digits)
           D == [k \in 1 .. n |-> DigitValue(digits[k])]
           step == [k \in Nat |-> [v \in Nat |->
                      v * base + (IF k + 1 \in 1 .. n THEN D[k + 1] ELSE 0)]]
           Unrolled(g) == [k \in 0 .. n |->
                         IF k = 0 THEN 0 ELSE g[k - 1] * base + DigitValue(digits[k])]
           upTo == CHOOSE g : g = Unrolled(g)
<1>0. n \in Nat /\ \A k \in 1 .. n : IsDigit(digits[k], base)
  BY DEF Numeral
<1>1. \A k \in 1 .. n : D[k] = DigitValue(digits[k]) /\ D[k] \in Nat
  BY <1>0, DigitValueType
<1>2. base \in Nat
  BY DEF Bases
<1> HIDE DEF D, n
<1>3. step \in Steps(Nat)
  BY <1>1, <1>2 DEF Steps
<1>4. PICK h \in [Nat -> Nat] : Recurs(h, 0, step)
  BY <1>3, RecursionExists, 0 \in Nat
<1>5. ASSUME NEW k \in 1 .. n
      PROVE  h[k] = h[k - 1] * base + DigitValue(digits[k])
  <2>1. k - 1 \in Nat /\ (k - 1) + 1 = k
    BY <1>0
  <2>2. h[k] = step[k - 1][h[k - 1]]
    BY <1>4, <2>1 DEF Recurs
  <2>3. step[k - 1][h[k - 1]] = h[k - 1] * base + D[k]
    BY <1>1, <1>4, <2>1
  <2> QED
    BY <1>1, <2>2, <2>3
<1>6. AddsUp(h, digits, base)
  BY <1>4, <1>5 DEF AddsUp, Recurs, n
<1> DEFINE f == [k \in 0 .. n |-> h[k]]
<1> HIDE DEF step
<1>7. f = Unrolled(f)
  <2>1. ASSUME NEW k \in 0 .. n
        PROVE  f[k] = IF k = 0 THEN 0 ELSE f[k - 1] * base + DigitValue(digits[k])
    <3>1. CASE k = 0
      BY <1>4, <3>1 DEF Recurs
    <3>2. CASE k # 0
      <4>1. k \in 1 .. n /\ k - 1 \in 0 .. n
        BY <1>0, <3>2
      <4>2. f[k] = h[k] /\ f[k - 1] = h[k - 1]
        BY <4>1
      <4> QED
        BY <1>5, <3>2, <4>1, <4>2
    <3> QED
      BY <3>1, <3>2
  <2>2. f = [k \in 0 .. n |-> f[k]]
    OBVIOUS
  <2> HIDE DEF f
  <2> QED
    BY <2>1, <2>2
<1>8. upTo = Unrolled(upTo)
  <2> HIDE DEF f
  <2> QED
    BY <1>7
<1>9. Magnitude(digits, base) = upTo[n]
  BY DEF Magnitude, n
<1> HIDE DEF upTo
<1>10. \A k \in 0 .. n : upTo[k] = IF k = 0 THEN 0 ELSE upTo[k - 1] * base + DigitValue(digits[k])
  BY <1>8
<1> HIDE DEF Unrolled, f
<1>11. \A k \in Nat : k <= n => upTo[k] = h[k]
  <2> DEFINE P == { k \in Nat : k <= n => upTo[k] = h[k] }
  <2>1. 0 \in P
    BY <1>0, <1>4, <1>10 DEF Recurs
  <2>2. ASSUME NEW k \in Nat, k \in P
        PROVE  k + 1 \in P
    <3>1. ASSUME k + 1 <= n
          PROVE  upTo[k + 1] = h[k + 1]
      <4>1. k + 1 \in 1 .. n /\ k + 1 \in 0 .. n /\ (k + 1) - 1 = k /\ k + 1 # 0 /\ k <= n
        BY <1>0, <3>1
      <4>2. h[k + 1] = h[k] * base + DigitValue(digits[k + 1])
        BY <1>5, <4>1
      <4>3. upTo[k + 1] = upTo[k] * base + DigitValue(digits[k + 1])
        BY <1>10, <4>1
      <4> QED
        BY <2>2, <4>1, <4>2, <4>3
    <3> QED
      BY <3>1
  <2> HIDE DEF P
  <2>3. \A k \in Nat : k \in P
    BY <2>1, <2>2, SetInduction
  <2> QED
    BY <2>3 DEF P
<1>12. Magnitude(digits, base) = h[n]
  BY <1>0, <1>9, <1>11
<1> QED
  BY <1>6, <1>12 DEF n

\* The weights of the last digits, and what those are worth.
Weighs(w, v, digits, base) ==
  /\ w \in [Nat -> Nat] /\ w[0] = 1
  /\ v \in [Nat -> Nat] /\ v[0] = 0
  /\ \A k \in 0 .. Len(digits) - 1 :
       /\ w[k + 1] = w[k] * base
       /\ v[k + 1] = DigitValue(digits[Len(digits) - k]) * w[k] + v[k]

\* And its value what the digits are worth.
LEMMA ValueIs ==
  ASSUME NEW base \in Bases, NEW digits, Numeral(digits, base)
  PROVE  \E w, v : Weighs(w, v, digits, base) /\ ValueOf(digits, base) = v[Len(digits)]
<1> DEFINE n == Len(digits)
           D == [k \in 1 .. n |-> DigitValue(digits[k])]
           weighs == [k \in Nat |-> [x \in Nat |-> x * base]]
           W(g) == [i \in 1 .. n + 1 |-> IF i > n THEN 1 ELSE g[i + 1] * base]
           weight == CHOOSE g : g = W(g)
           V(g) == [i \in 1 .. n + 1 |->
                      IF i > n THEN 0 ELSE DigitValue(digits[i]) * weight[i + 1] + g[i + 1]]
           place == CHOOSE g : g = V(g)
<1>0. n \in Nat /\ \A k \in 1 .. n : IsDigit(digits[k], base)
  BY DEF Numeral
<1>1. \A k \in 1 .. n : D[k] = DigitValue(digits[k]) /\ D[k] \in Nat
  BY <1>0, DigitValueType
<1>2. base \in Nat
  BY DEF Bases
<1> HIDE DEF D, n
<1>3. weighs \in Steps(Nat) /\ 1 \in Nat
  BY <1>2 DEF Steps
<1>4. PICK w \in [Nat -> Nat] : Recurs(w, 1, weighs)
  BY <1>3, RecursionExists
<1>5. w[0] = 1 /\ \A k \in Nat : w[k + 1] = w[k] * base
  BY <1>4 DEF Recurs
<1> HIDE DEF weighs
<1> DEFINE adds == [k \in Nat |-> [x \in Nat |->
                      (IF n - k \in 1 .. n THEN D[n - k] ELSE 0) * w[k] + x]]
<1>6. adds \in Steps(Nat) /\ 0 \in Nat
  BY <1>1 DEF Steps
<1>7. PICK v \in [Nat -> Nat] : Recurs(v, 0, adds)
  BY <1>6, RecursionExists
<1>8. v[0] = 0 /\ \A k \in 0 .. n - 1 : v[k + 1] = DigitValue(digits[n - k]) * w[k] + v[k]
  <2>1. ASSUME NEW k \in 0 .. n - 1
        PROVE  v[k + 1] = DigitValue(digits[n - k]) * w[k] + v[k]
    <3>1. k \in Nat /\ n - k \in 1 .. n
      BY <1>0
    <3>2. v[k + 1] = adds[k][v[k]]
      BY <1>7, <3>1 DEF Recurs
    <3>3. adds[k][v[k]] = D[n - k] * w[k] + v[k]
      BY <1>7, <3>1
    <3> QED
      BY <1>1, <3>1, <3>2, <3>3
  <2> QED
    BY <1>7, <2>1 DEF Recurs
<1> HIDE DEF adds
<1>9. Weighs(w, v, digits, base)
  <2>1. \A k \in 0 .. n - 1 : w[k + 1] = w[k] * base
    <3>1. \A k \in 0 .. n - 1 : k \in Nat
      BY <1>0
    <3> QED
      BY <1>5, <3>1
  <2> QED
    BY <1>5, <1>8, <2>1 DEF Weighs, n
\* Downwards, as the definition of a value goes.
<1> DEFINE wd == [i \in 1 .. n + 1 |-> w[n + 1 - i]]
           vd == [i \in 1 .. n + 1 |-> v[n + 1 - i]]
<1>10. \A i \in 1 .. n : /\ i + 1 \in 1 .. n + 1 /\ i \in 1 .. n + 1 /\ ~(i > n)
                         /\ n + 1 - (i + 1) \in 0 .. n - 1
                         /\ (n + 1 - (i + 1)) + 1 = n + 1 - i
                         /\ n - (n + 1 - (i + 1)) = i
  BY <1>0
<1>11. n + 1 \in 1 .. n + 1 /\ n + 1 > n /\ n + 1 - (n + 1) = 0
       /\ \A i \in 1 .. n + 1 : i = n + 1 \/ i \in 1 .. n
  BY <1>0
<1>12. wd = W(wd)
  <2>1. ASSUME NEW i \in 1 .. n + 1
        PROVE  wd[i] = IF i > n THEN 1 ELSE wd[i + 1] * base
    <3>1. CASE i = n + 1
      BY <1>5, <1>11, <3>1
    <3>2. CASE i \in 1 .. n
      <4>1. wd[i] = w[n + 1 - i] /\ wd[i + 1] = w[n + 1 - (i + 1)]
        BY <1>10, <3>2
      <4>2. n + 1 - (i + 1) \in Nat
        BY <1>0, <3>2
      <4>3. w[(n + 1 - (i + 1)) + 1] = w[n + 1 - (i + 1)] * base
        BY <1>5, <4>2
      <4> HIDE DEF wd
      <4> QED
        BY <1>10, <3>2, <4>1, <4>3
    <3> QED
      BY <1>11, <3>1, <3>2
  <2>2. wd = [i \in 1 .. n + 1 |-> wd[i]]
    OBVIOUS
  <2> HIDE DEF wd
  <2> QED
    BY <2>1, <2>2
<1>13. weight = W(weight)
  <2> HIDE DEF wd
  <2> QED
    BY <1>12
<1> HIDE DEF weight
<1>14. \A i \in 1 .. n + 1 : weight[i] = IF i > n THEN 1 ELSE weight[i + 1] * base
  BY <1>13
<1> HIDE DEF W
<1>15. \A k \in Nat : k <= n => weight[n + 1 - k] = w[k]
  <2> DEFINE P == { k \in Nat : k <= n => weight[n + 1 - k] = w[k] }
  <2>1. 0 \in P
    <3>1. n + 1 - 0 = n + 1
      BY <1>0
    <3> QED
      BY <1>5, <1>11, <1>14, <3>1
  <2>2. ASSUME NEW k \in Nat, k \in P
        PROVE  k + 1 \in P
    <3>1. ASSUME k + 1 <= n
          PROVE  weight[n + 1 - (k + 1)] = w[k + 1]
      <4> DEFINE i == n + 1 - (k + 1)
      <4>1. i \in 1 .. n + 1 /\ ~(i > n) /\ i + 1 = n + 1 - k /\ k <= n
        BY <1>0, <3>1
      <4> HIDE DEF i
      <4>2. weight[i] = weight[i + 1] * base
        BY <1>14, <4>1
      <4>3. weight[i + 1] = w[k]
        BY <2>2, <4>1
      <4>4. w[k + 1] = w[k] * base
        BY <1>5
      <4> QED
        BY <4>2, <4>3, <4>4 DEF i
    <3> QED
      BY <3>1
  <2> HIDE DEF P
  <2>3. \A k \in Nat : k \in P
    BY <2>1, <2>2, SetInduction
  <2> QED
    BY <2>3 DEF P
<1>16. vd = V(vd)
  <2>1. ASSUME NEW i \in 1 .. n + 1
        PROVE  vd[i] = IF i > n THEN 0 ELSE DigitValue(digits[i]) * weight[i + 1] + vd[i + 1]
    <3>1. CASE i = n + 1
      BY <1>8, <1>11, <3>1
    <3>2. CASE i \in 1 .. n
      <4> DEFINE k == n + 1 - (i + 1)
      <4>1. vd[i] = v[n + 1 - i] /\ vd[i + 1] = v[k]
        BY <1>10, <3>2
      <4>2. k \in 0 .. n - 1 /\ k + 1 = n + 1 - i /\ n - k = i /\ ~(i > n)
            /\ k \in Nat /\ k <= n /\ n + 1 - k = i + 1
        BY <1>0, <3>2
      <4> HIDE DEF k, vd
      <4>3. v[k + 1] = DigitValue(digits[i]) * w[k] + v[k]
        BY <1>8, <4>2
      <4>4. weight[i + 1] = w[k]
        BY <1>15, <4>2
      <4> QED
        BY <4>1, <4>2, <4>3, <4>4
    <3> QED
      BY <1>11, <3>1, <3>2
  <2>2. vd = [i \in 1 .. n + 1 |-> vd[i]]
    OBVIOUS
  <2> HIDE DEF vd
  <2> QED
    BY <2>1, <2>2
<1>17. place = V(place)
  <2> HIDE DEF vd
  <2> QED
    BY <1>16
<1>18. ValueOf(digits, base) = place[1]
  BY DEF ValueOf, place, weight, W, V, n
<1> HIDE DEF place
<1>19. \A i \in 1 .. n + 1 :
         place[i] = IF i > n THEN 0 ELSE DigitValue(digits[i]) * weight[i + 1] + place[i + 1]
  BY <1>17
<1> HIDE DEF V, wd, vd
<1>20. \A k \in Nat : k <= n => place[n + 1 - k] = v[k]
  <2> DEFINE P == { k \in Nat : k <= n => place[n + 1 - k] = v[k] }
  <2>1. 0 \in P
    <3>1. n + 1 - 0 = n + 1
      BY <1>0
    <3> QED
      BY <1>8, <1>11, <1>19, <3>1
  <2>2. ASSUME NEW k \in Nat, k \in P
        PROVE  k + 1 \in P
    <3>1. ASSUME k + 1 <= n
          PROVE  place[n + 1 - (k + 1)] = v[k + 1]
      <4> DEFINE i == n + 1 - (k + 1)
      <4>1. i \in 1 .. n + 1 /\ ~(i > n) /\ i + 1 = n + 1 - k /\ k <= n
            /\ n - k = i /\ k \in 0 .. n - 1
        BY <1>0, <3>1
      <4> HIDE DEF i
      <4>2. place[i] = DigitValue(digits[i]) * weight[i + 1] + place[i + 1]
        BY <1>19, <4>1
      <4>3. place[i + 1] = v[k] /\ weight[i + 1] = w[k]
        BY <1>15, <2>2, <4>1
      <4>4. v[k + 1] = DigitValue(digits[i]) * w[k] + v[k]
        BY <1>8, <4>1
      <4> QED
        BY <4>2, <4>3, <4>4 DEF i
    <3> QED
      BY <3>1
  <2> HIDE DEF P
  <2>3. \A k \in Nat : k \in P
    BY <2>1, <2>2, SetInduction
  <2> QED
    BY <2>3 DEF P
<1>21. n + 1 - n = 1 /\ n <= n
  BY <1>0
<1>22. ValueOf(digits, base) = v[n]
  BY <1>0, <1>18, <1>20, <1>21
<1> QED
  BY <1>9, <1>22 DEF n

\* One step of both.
LEMMA ShiftDigit ==
  ASSUME NEW a \in Nat, NEW b \in Nat, NEW d \in Nat, NEW w \in Nat, NEW v \in Nat
  PROVE  (a * b + d) * w + v = a * (w * b) + (d * w + v)
OBVIOUS

\* Digit by digit from the first or from the last, the value is the same.
LEMMA NumeralValue ==
  ASSUME NEW base \in Bases, NEW digits, Numeral(digits, base)
  PROVE  Magnitude(digits, base) = ValueOf(digits, base)
<1> DEFINE n == Len(digits)
<1>0. n \in Nat /\ base \in Nat /\ \A k \in 1 .. n : DigitValue(digits[k]) \in Nat
  <2>1. n \in Nat /\ \A k \in 1 .. n : IsDigit(digits[k], base)
    BY DEF Numeral
  <2> QED
    BY <2>1, DigitValueType DEF Bases
<1>1. PICK f : AddsUp(f, digits, base) /\ Magnitude(digits, base) = f[n]
  BY MagnitudeIs
<1>2. PICK w, v : Weighs(w, v, digits, base) /\ ValueOf(digits, base) = v[n]
  BY ValueIs
<1> HIDE DEF n
<1>3. \A k \in Nat : k <= n => f[n] = f[n - k] * w[k] + v[k]
  <2> DEFINE P == { k \in Nat : k <= n => f[n] = f[n - k] * w[k] + v[k] }
  <2>1. 0 \in P
    <3>1. w[0] = 1 /\ v[0] = 0 /\ n - 0 = n /\ f[n] \in Nat
      BY <1>0, <1>1, <1>2 DEF AddsUp, Weighs
    <3>2. f[n] = f[n] * 1 + 0
      BY <3>1
    <3> QED
      BY <3>1, <3>2
  <2>2. ASSUME NEW k \in Nat, k \in P
        PROVE  k + 1 \in P
    <3>1. ASSUME k + 1 <= n
          PROVE  f[n] = f[n - (k + 1)] * w[k + 1] + v[k + 1]
      <4> DEFINE j == n - (k + 1)
                 d == DigitValue(digits[n - k])
      <4>1. n - k \in 1 .. n /\ (n - k) - 1 = j /\ k <= n /\ j \in Nat /\ k \in 0 .. n - 1
        BY <1>0, <3>1
      <4>2. d \in Nat
        BY <1>0, <4>1
      <4> HIDE DEF j, d
      <4>3. f[n - k] = f[j] * base + d
        BY <1>1, <4>1 DEF AddsUp, n, d
      <4>4. w[k + 1] = w[k] * base /\ v[k + 1] = d * w[k] + v[k]
        BY <1>2, <4>1 DEF Weighs, n, d
      <4>5. f[j] \in Nat /\ w[k] \in Nat /\ v[k] \in Nat
        BY <1>1, <1>2, <4>1 DEF AddsUp, Weighs
      <4>6. f[n] = f[n - k] * w[k] + v[k]
        BY <2>2, <4>1
      <4>7. (f[j] * base + d) * w[k] + v[k] = f[j] * (w[k] * base) + (d * w[k] + v[k])
        BY <1>0, <4>2, <4>5, ShiftDigit
      <4>8. f[n] = f[j] * w[k + 1] + v[k + 1]
        BY <4>3, <4>4, <4>6, <4>7
      <4> QED
        BY <4>8 DEF j
    <3> QED
      BY <3>1
  <2> HIDE DEF P
  <2>3. \A k \in Nat : k \in P
    BY <2>1, <2>2, SetInduction
  <2> QED
    BY <2>3 DEF P
<1>4. f[n] = f[0] * w[n] + v[n]
  <2>1. n - n = 0 /\ n <= n
    BY <1>0
  <2> QED
    BY <1>0, <1>3, <2>1
<1>5. f[0] = 0 /\ w[n] \in Nat /\ v[n] \in Nat
  BY <1>0, <1>1, <1>2 DEF AddsUp, Weighs
<1>6. f[n] = v[n]
  <2>1. 0 * w[n] + v[n] = v[n]
    BY <1>5
  <2> QED
    BY <1>4, <1>5, <2>1
<1> QED
  BY <1>1, <1>2, <1>6

\* A space in a text.
Blank(text, i) == text[i] = " "

\* A text of spaces.
LEMMA SpacesAre ==
  ASSUME NEW text \in Seq(STRING)
  PROVE  IsSpaces(text) <=> \A i \in 1 .. Len(text) : Blank(text, i)
<1>1. DOMAIN text = 1 .. Len(text)
  OBVIOUS
<1> QED
  BY <1>1, Zenon DEF IsSpaces, Blank

\* A part of a text.
LEMMA PartIs ==
  ASSUME NEW text \in Seq(STRING), NEW a \in 1 .. Len(text) + 1, NEW b \in 0 .. Len(text)
  PROVE  /\ SubSeq(text, a, b) \in Seq(STRING)
         /\ Len(SubSeq(text, a, b)) = IF a <= b THEN b - a + 1 ELSE 0
         /\ \A i \in 1 .. b - a + 1 : SubSeq(text, a, b)[i] = text[a + i - 1]
         /\ DOMAIN SubSeq(text, a, b) = 1 .. Len(SubSeq(text, a, b))
         /\ (SubSeq(text, a, b) = << >>) <=> a > b
<1> DEFINE part == SubSeq(text, a, b)
<1>1. \A i \in a .. b : text[i] \in STRING
  BY Len(text) \in Nat
<1>2. a \in Int /\ b \in Int
  BY Len(text) \in Nat
<1>3. /\ part \in Seq(STRING)
      /\ Len(part) = IF a <= b THEN b - a + 1 ELSE 0
      /\ \A i \in 1 .. b - a + 1 : part[i] = text[a + i - 1]
  BY <1>1, <1>2, SubSeqProperties
<1> HIDE DEF part
<1>4. DOMAIN part = 1 .. Len(part) /\ (part = << >> <=> Len(part) = 0)
  BY <1>3
<1>5. (part = << >>) <=> a > b
  BY <1>2, <1>3, <1>4
<1> QED
  BY <1>3, <1>4, <1>5 DEF part

\* A part of a part.
LEMMA TextOfPart ==
  ASSUME NEW text \in Seq(STRING), NEW a \in 1 .. Len(text), NEW b \in a .. Len(text),
         NEW m \in 1 .. b - a + 2, NEW n \in 0 .. b - a + 1
  PROVE  SubSeq(SubSeq(text, a, b), m, n) = SubSeq(text, a + m - 1, a + n - 1)
<1>0. Len(text) \in Nat
  OBVIOUS
<1>1. CASE m <= n
  <2>1. b \in 1 .. Len(text) /\ m \in 1 .. b - a + 1 /\ n \in 1 .. b - a + 1
    BY <1>0, <1>1
  <2> QED
    BY <2>1, SubSeqOfSubSeq
<1>2. CASE n < m
  <2>1. /\ m \in Int /\ n \in Int /\ a + m - 1 \in Int /\ a + n - 1 \in Int
        /\ a + n - 1 < a + m - 1
    BY <1>0, <1>2
  <2>2. SubSeq(SubSeq(text, a, b), m, n) = << >>
    BY <1>2, <2>1, SubSeqEmpty
  <2>3. SubSeq(text, a + m - 1, a + n - 1) = << >>
    BY <2>1, SubSeqEmpty
  <2> QED
    BY <2>2, <2>3
<1> QED
  BY <1>0, <1>1, <1>2

\* Where there is something in a text, something is first and something last.
LEMMA FirstAndLast ==
  ASSUME NEW text \in Seq(STRING), ~IsSpaces(text)
  PROVE  \E f, l \in 1 .. Len(text) :
           /\ f <= l /\ ~Blank(text, f) /\ ~Blank(text, l)
           /\ \A k \in 1 .. f - 1 : Blank(text, k)
           /\ \A k \in l + 1 .. Len(text) : Blank(text, k)
<1> DEFINE n == Len(text)
           T == { i \in 1 .. n : ~Blank(text, i) }
           B == { n - i : i \in T }
<1>0. n \in Nat /\ DOMAIN text = 1 .. n
  OBVIOUS
<1>1. T \in SUBSET Nat /\ T # {}
  BY <1>0, SpacesAre
<1> HIDE DEF n
<1>2. PICK f \in T : \A i \in T : f <= i
  BY <1>1, LeastNatural
<1>3. B \in SUBSET Nat /\ B # {}
  <2>1. \A i \in T : n - i \in Nat
    BY <1>0
  <2> QED
    BY <1>1, <2>1
<1>4. PICK x \in B : \A y \in B : x <= y
  BY <1>3, LeastNatural
<1>5. PICK l \in T : x = n - l
  OBVIOUS
<1>6. \A i \in T : n - l <= n - i
  BY <1>4, <1>5
<1>7. \A i \in T : i <= l /\ i \in Nat
  BY <1>0, <1>6
<1>8. f <= l
  BY <1>2
<1>9. \A k \in 1 .. f - 1 : Blank(text, k)
  <2> SUFFICES ASSUME NEW k \in 1 .. f - 1, ~Blank(text, k) PROVE FALSE
    OBVIOUS
  <2>1. k \in T /\ ~(f <= k)
    BY <1>0
  <2> QED
    BY <1>2, <2>1
<1>10. \A k \in l + 1 .. n : Blank(text, k)
  <2> SUFFICES ASSUME NEW k \in l + 1 .. n, ~Blank(text, k) PROVE FALSE
    OBVIOUS
  <2>1. k \in T /\ ~(k <= l)
    BY <1>0
  <2> QED
    BY <1>7, <2>1
<1>11. f \in 1 .. n /\ l \in 1 .. n /\ ~Blank(text, f) /\ ~Blank(text, l)
  OBVIOUS
<1> QED
  BY <1>8, <1>9, <1>10, <1>11 DEF n

\* The space before a text is left out.
LEMMA TrimStartIs ==
  ASSUME NEW text \in Seq(STRING)
  PROVE  /\ IsSpaces(text) => TrimStart(text) = << >>
         /\ \A f \in 1 .. Len(text) :
              (~Blank(text, f) /\ \A k \in 1 .. f - 1 : Blank(text, k))
                => TrimStart(text) = SubSeq(text, f, Len(text))
<1>0. Len(text) \in Nat /\ DOMAIN text = 1 .. Len(text)
  OBVIOUS
<1>1. IsSpaces(text) => TrimStart(text) = << >>
  BY DEF IsSpaces, TrimStart
<1>2. ASSUME NEW f \in 1 .. Len(text), ~Blank(text, f), \A k \in 1 .. f - 1 : Blank(text, k)
      PROVE  TrimStart(text) = SubSeq(text, f, Len(text))
  <2> DEFINE first == CHOOSE i \in DOMAIN text :
                        text[i] # " " /\ \A k \in 1 .. i - 1 : text[k] = " "
  <2>1. TrimStart(text) = SubSeq(text, first, Len(text))
    <3>1. f \in DOMAIN text /\ text[f] # " "
      BY <1>0, <1>2 DEF Blank
    <3> QED
      BY <3>1, Zenon DEF TrimStart
  <2>2. first \in DOMAIN text /\ text[first] # " " /\ \A k \in 1 .. first - 1 : text[k] = " "
    <3>1. f \in DOMAIN text /\ text[f] # " " /\ \A k \in 1 .. f - 1 : text[k] = " "
      BY <1>0, <1>2, Zenon DEF Blank
    <3> QED
      BY <3>1, Zenon
  <2> HIDE DEF first
  <2>3. first \in 1 .. Len(text) /\ ~Blank(text, first) /\ \A k \in 1 .. first - 1 : Blank(text, k)
    BY <1>0, <2>2, Zenon DEF Blank
  <2>4. first = f
    <3>1. first < f => first \in 1 .. f - 1
      BY <1>0, <2>3
    <3>2. f < first => f \in 1 .. first - 1
      BY <1>0, <2>3
    <3>3. ~(first < f) /\ ~(f < first)
      BY <1>2, <2>3, <3>1, <3>2
    <3> QED
      BY <1>0, <2>3, <3>3
  <2> QED
    BY <2>1, <2>4
<1> QED
  BY <1>1, <1>2

\* And the space behind it.
LEMMA TrimIs ==
  ASSUME NEW text \in Seq(STRING)
  PROVE  /\ IsSpaces(text) => TrimText(text) = << >>
         /\ \A f, l \in 1 .. Len(text) :
              /\ f <= l /\ ~Blank(text, f) /\ ~Blank(text, l)
              /\ \A k \in 1 .. f - 1 : Blank(text, k)
              /\ \A k \in l + 1 .. Len(text) : Blank(text, k)
              => TrimText(text) = SubSeq(text, f, l)
<1>0. Len(text) \in Nat /\ DOMAIN text = 1 .. Len(text)
  OBVIOUS
<1>1. IsSpaces(text) => TrimText(text) = << >>
  BY TrimStartIs DEF TrimText
<1>2. ASSUME NEW f \in 1 .. Len(text), NEW l \in 1 .. Len(text),
             f <= l, ~Blank(text, f), ~Blank(text, l),
             \A k \in 1 .. f - 1 : Blank(text, k),
             \A k \in l + 1 .. Len(text) : Blank(text, k)
      PROVE  TrimText(text) = SubSeq(text, f, l)
  <2> DEFINE rest == TrimStart(text)
             n == Len(text) - f + 1
             final == CHOOSE i \in DOMAIN rest :
                        rest[i] # " " /\ \A k \in i + 1 .. Len(rest) : rest[k] = " "
  <2>1. rest # << >> => TrimText(text) = SubSeq(rest, 1, final)
    BY Zenon DEF TrimText
  <2> HIDE DEF final
  <2>2. rest = SubSeq(text, f, Len(text))
    BY <1>2, TrimStartIs
  <2> HIDE DEF rest
  <2>3. /\ rest \in Seq(STRING) /\ Len(rest) = n /\ DOMAIN rest = 1 .. n /\ rest # << >>
        /\ \A i \in 1 .. n : rest[i] = text[f + i - 1]
    <3>1. f \in 1 .. Len(text) + 1 /\ Len(text) \in 0 .. Len(text) /\ f <= Len(text) /\ ~(f > Len(text))
      BY <1>0
    <3>2. /\ rest \in Seq(STRING)
          /\ Len(rest) = IF f <= Len(text) THEN Len(text) - f + 1 ELSE 0
          /\ \A i \in 1 .. Len(text) - f + 1 : rest[i] = text[f + i - 1]
          /\ DOMAIN rest = 1 .. Len(rest)
          /\ (rest = << >>) <=> f > Len(text)
      BY <2>2, <3>1, PartIs
    <3> QED
      BY <3>1, <3>2
  <2>4. TrimText(text) = SubSeq(rest, 1, final)
    BY <2>1, <2>3
  <2> DEFINE m == l - f + 1
  <2>5. m \in 1 .. n /\ f + m - 1 = l /\ n \in Nat
    BY <1>0, <1>2
  <2>6. rest[m] = text[l]
    BY <2>3, <2>5
  <2>7. \A k \in m + 1 .. n : k \in 1 .. n /\ f + k - 1 \in l + 1 .. Len(text)
    BY <1>0, <1>2
  <2> HIDE DEF n, m
  <2>8. ~Blank(rest, m) /\ \A k \in m + 1 .. n : Blank(rest, k)
    <3>1. \A k \in m + 1 .. n : rest[k] = text[f + k - 1]
      BY <2>3, <2>7
    <3> QED
      BY <1>2, <2>6, <2>7, <3>1, Zenon DEF Blank
  <2>10. final \in 1 .. n /\ ~Blank(rest, final) /\ \A k \in final + 1 .. n : Blank(rest, k)
    <3>1. \E i \in DOMAIN rest : rest[i] # " " /\ \A k \in i + 1 .. Len(rest) : rest[k] = " "
      BY <2>3, <2>5, <2>8, Zenon DEF Blank
    <3>2. /\ final \in DOMAIN rest /\ rest[final] # " "
          /\ \A k \in final + 1 .. Len(rest) : rest[k] = " "
      BY <3>1, Zenon DEF final
    <3> HIDE DEF final
    <3> QED
      BY <2>3, <3>2, Zenon DEF Blank
  <2> HIDE DEF final
  <2>11. final = m
    <3>1. final < m => m \in final + 1 .. n
      BY <2>5, <2>10
    <3>2. m < final => final \in m + 1 .. n
      BY <2>5, <2>10
    <3>3. ~(final < m) /\ ~(m < final)
      BY <2>8, <2>10, <3>1, <3>2
    <3> QED
      BY <2>5, <2>10, <3>3
  <2>9. SubSeq(rest, 1, l - f + 1) = SubSeq(text, f, l)
    <3>1. /\ Len(text) \in f .. Len(text) /\ 1 \in 1 .. Len(text) - f + 2
          /\ l - f + 1 \in 0 .. Len(text) - f + 1
      BY <1>0, <1>2
    <3>2. f + 1 - 1 = f /\ f + (l - f + 1) - 1 = l
      BY <1>0
    <3>3. SubSeq(rest, 1, l - f + 1) = SubSeq(text, f + 1 - 1, f + (l - f + 1) - 1)
      BY <2>2, <3>1, TextOfPart
    <3> QED
      BY <3>2, <3>3
  <2> QED
    BY <2>4, <2>9, <2>11 DEF m
<1> QED
  BY <1>1, <1>2

\* A space in a part is one in the text.
LEMMA BlankPart ==
  ASSUME NEW text \in Seq(STRING), NEW a \in 1 .. Len(text) + 1, NEW b \in 0 .. Len(text),
         NEW i \in 1 .. b - a + 1
  PROVE  Blank(SubSeq(text, a, b), i) <=> Blank(text, a + i - 1)
<1>1. SubSeq(text, a, b)[i] = text[a + i - 1]
  BY PartIs
<1> QED
  BY <1>1, Zenon DEF Blank

\* A part of spaces.
LEMMA SpacesPart ==
  ASSUME NEW text \in Seq(STRING), NEW a \in 1 .. Len(text) + 1, NEW b \in 0 .. Len(text)
  PROVE  IsSpaces(SubSeq(text, a, b)) <=> \A k \in a .. b : Blank(text, k)
<1> DEFINE part == SubSeq(text, a, b)
           n == IF a <= b THEN b - a + 1 ELSE 0
<1>1. part \in Seq(STRING) /\ Len(part) = n
  BY PartIs
<1>2. \A i \in 1 .. b - a + 1 : Blank(part, i) <=> Blank(text, a + i - 1)
  BY BlankPart
<1> HIDE DEF part
<1>3. Len(text) \in Nat
  OBVIOUS
<1>4. \A i \in 1 .. n : i \in 1 .. b - a + 1 /\ a + i - 1 \in a .. b
  BY <1>3
<1>5. \A k \in a .. b : k - a + 1 \in 1 .. n /\ k - a + 1 \in 1 .. b - a + 1
                        /\ a + (k - a + 1) - 1 = k
  BY <1>3
<1>6. IsSpaces(part) <=> \A i \in 1 .. n : Blank(part, i)
  BY <1>1, SpacesAre
<1> HIDE DEF n
<1>7. (\A i \in 1 .. n : Blank(part, i)) => \A k \in a .. b : Blank(text, k)
  <2> SUFFICES ASSUME \A i \in 1 .. n : Blank(part, i), NEW k \in a .. b
               PROVE  Blank(text, k)
    OBVIOUS
  <2>1. Blank(part, k - a + 1)
    BY <1>5
  <2>2. Blank(text, a + (k - a + 1) - 1)
    BY <1>2, <1>5, <2>1
  <2> QED
    BY <1>5, <2>2
<1>8. (\A k \in a .. b : Blank(text, k)) => \A i \in 1 .. n : Blank(part, i)
  BY <1>2, <1>4
<1> QED
  BY <1>6, <1>7, <1>8 DEF part

\* A part that is a numeral.
LEMMA NumeralPart ==
  ASSUME NEW text \in Seq(STRING), NEW a \in 1 .. Len(text) + 1, NEW b \in 0 .. Len(text),
         NEW base
  PROVE  IsNumeral(SubSeq(text, a, b), base)
           <=> a <= b /\ \A k \in a .. b : IsDigit(text[k], base)
<1> DEFINE part == SubSeq(text, a, b)
           n == IF a <= b THEN b - a + 1 ELSE 0
<1>1. /\ part \in Seq(STRING) /\ Len(part) = n /\ DOMAIN part = 1 .. Len(part)
      /\ (part = << >>) <=> a > b
      /\ \A i \in 1 .. b - a + 1 : part[i] = text[a + i - 1]
  BY PartIs
<1> HIDE DEF part
<1>3. Len(text) \in Nat
  OBVIOUS
<1>4. \A i \in 1 .. n : i \in 1 .. b - a + 1 /\ a + i - 1 \in a .. b
  BY <1>3
<1>5. \A k \in a .. b : k - a + 1 \in 1 .. n /\ k - a + 1 \in 1 .. b - a + 1
                        /\ a + (k - a + 1) - 1 = k
  BY <1>3
<1>6. a > b <=> ~(a <= b)
  BY <1>3
<1> HIDE DEF n
<1>7. (\A i \in 1 .. n : IsDigit(part[i], base)) => \A k \in a .. b : IsDigit(text[k], base)
  <2> SUFFICES ASSUME \A i \in 1 .. n : IsDigit(part[i], base), NEW k \in a .. b
               PROVE  IsDigit(text[k], base)
    OBVIOUS
  <2>1. IsDigit(part[k - a + 1], base)
    BY <1>5
  <2>2. part[k - a + 1] = text[a + (k - a + 1) - 1]
    BY <1>1, <1>5
  <2> QED
    BY <1>5, <2>1, <2>2
<1>8. (\A k \in a .. b : IsDigit(text[k], base)) => \A i \in 1 .. n : IsDigit(part[i], base)
  <2> SUFFICES ASSUME \A k \in a .. b : IsDigit(text[k], base), NEW i \in 1 .. n
               PROVE  IsDigit(part[i], base)
    OBVIOUS
  <2>1. part[i] = text[a + i - 1]
    BY <1>1, <1>4
  <2> QED
    BY <1>4, <2>1
<1>9. IsNumeral(part, base) <=> part # << >> /\ \A i \in 1 .. n : IsDigit(part[i], base)
  BY <1>1, Zenon DEF IsNumeral
<1> QED
  BY <1>1, <1>6, <1>7, <1>8, <1>9 DEF part

\* Whether a character is a sign.
Signed(text, signs, i) == text[i] \in signs

\* Where a text has its first character, the first behind a sign, and its last.
Parts(text, signs, f, b, l) ==
  /\ f \in 1 .. Len(text) /\ l \in f .. Len(text) /\ b \in f .. l + 1
  /\ ~Blank(text, f) /\ ~Blank(text, l)
  /\ \A k \in 1 .. f - 1 : Blank(text, k)
  /\ \A k \in l + 1 .. Len(text) : Blank(text, k)
  /\ ~Signed(text, signs, f) => b = f
  /\ Signed(text, signs, f) =>
       f < b /\ (\A k \in f + 1 .. b - 1 : Blank(text, k)) /\ (b <= l => ~Blank(text, b))

\* A text that is not only space has such places, and they are where the parser
\* is left when it has trimmed the text and taken the sign.
LEMMA PartsAre ==
  ASSUME NEW text \in Seq(STRING), ~IsSpaces(text), NEW signs
  PROVE  \E f, b, l : /\ Parts(text, signs, f, b, l)
                      /\ Negative(text) <=> text[f] = "-"
                      /\ Unsigned(text, signs) = SubSeq(text, b, l)
<1> DEFINE n == Len(text)
<1>0. n \in Nat
  OBVIOUS
<1>1. PICK f \in 1 .. n, l \in 1 .. n :
        /\ f <= l /\ ~Blank(text, f) /\ ~Blank(text, l)
        /\ \A k \in 1 .. f - 1 : Blank(text, k)
        /\ \A k \in l + 1 .. n : Blank(text, k)
  BY FirstAndLast
<1> DEFINE trimmed == SubSeq(text, f, l)
<1>2. TrimText(text) = trimmed
  BY <1>1, TrimIs
<1>3. l \in f .. n /\ f \in 1 .. n + 1 /\ l \in 0 .. n /\ ~(f > l)
  BY <1>0, <1>1
<1>4. trimmed # << >> /\ Head(trimmed) = text[f] /\ Tail(trimmed) = SubSeq(text, f + 1, l)
  BY <1>3, PartIs, HeadTailOfSubSeq
<1>5. Negative(text) <=> text[f] = "-"
  <2> HIDE DEF trimmed
  <2> QED
    BY <1>2, <1>4, Zenon DEF Negative, BeginsWith
<1>6. Unsigned(text, signs) = IF Signed(text, signs, f) THEN TrimStart(SubSeq(text, f + 1, l)) ELSE trimmed
  <2> HIDE DEF trimmed
  <2> QED
    BY <1>2, <1>4, Zenon DEF Unsigned, Signed
<1>7. CASE ~Signed(text, signs, f)
  <2>1. Parts(text, signs, f, f, l)
    <3>1. f \in f .. l + 1
      BY <1>0, <1>3
    <3> QED
      BY <1>1, <1>3, <1>7, <3>1 DEF Parts
  <2> QED
    BY <1>5, <1>6, <1>7, <2>1
<1>8. CASE Signed(text, signs, f)
  <2> DEFINE rest == SubSeq(text, f + 1, l)
             m == l - f
  <2>0. f + 1 \in 1 .. n + 1 /\ l \in 0 .. n /\ l - (f + 1) + 1 = m /\ m \in Nat
    BY <1>0, <1>1
  <2>1. rest \in Seq(STRING) /\ Len(rest) = IF f + 1 <= l THEN l - (f + 1) + 1 ELSE 0
    BY <2>0, PartIs
  <2>2. Len(rest) = m
    <3> HIDE DEF rest
    <3> QED
      BY <1>0, <1>1, <2>1
  <2>3. CASE IsSpaces(rest)
    <3>1. \A k \in f + 1 .. l : Blank(text, k)
      BY <2>0, <2>3, SpacesPart
    <3>2. TrimStart(rest) = << >>
      BY <2>1, <2>3, TrimStartIs
    <3>3. SubSeq(text, l + 1, l) = << >>
      <4>1. l + 1 \in Int /\ l \in Int /\ l < l + 1
        BY <1>0
      <4> QED
        BY <4>1, SubSeqEmpty
    <3>4. Parts(text, signs, f, l + 1, l)
      <4>1. l + 1 \in f .. l + 1 /\ f < l + 1 /\ (l + 1) - 1 = l /\ ~(l + 1 <= l)
        BY <1>0, <1>3
      <4> QED
        BY <1>1, <1>3, <1>8, <3>1, <4>1 DEF Parts
    <3> QED
      BY <1>5, <1>6, <1>8, <3>2, <3>3, <3>4
  <2>4. CASE ~IsSpaces(rest)
    <3>1. PICK g \in 1 .. m : ~Blank(rest, g) /\ \A k \in 1 .. g - 1 : Blank(rest, k)
      <4> HIDE DEF rest, m
      <4> QED
        BY <2>1, <2>2, <2>4, FirstAndLast
    <3>2. TrimStart(rest) = SubSeq(rest, g, m)
      <4> HIDE DEF rest, m
      <4> QED
        BY <2>1, <2>2, <3>1, TrimStartIs
    <3>3. SubSeq(rest, g, m) = SubSeq(text, f + g, l)
      <4>1. /\ f + 1 \in 1 .. n /\ l \in f + 1 .. n
            /\ g \in 1 .. l - (f + 1) + 2 /\ m \in 0 .. l - (f + 1) + 1
            /\ (f + 1) + g - 1 = f + g /\ (f + 1) + m - 1 = l
        BY <1>0, <1>3
      <4>2. SubSeq(rest, g, m) = SubSeq(text, (f + 1) + g - 1, (f + 1) + m - 1)
        <5> HIDE DEF m
        <5> QED
          BY <4>1, TextOfPart
      <4> QED
        BY <4>1, <4>2
    <3>4. \A i \in 1 .. m : Blank(rest, i) <=> Blank(text, f + i)
      <4> TAKE i \in 1 .. m
      <4>1. i \in 1 .. l - (f + 1) + 1 /\ (f + 1) + i - 1 = f + i
        BY <2>0
      <4>2. Blank(rest, i) <=> Blank(text, (f + 1) + i - 1)
        BY <2>0, <4>1, BlankPart
      <4> QED
        BY <4>1, <4>2
    <3>5. ~Blank(text, f + g)
      BY <3>1, <3>4
    <3>6. \A k \in f + 1 .. f + g - 1 : Blank(text, k)
      <4> TAKE k \in f + 1 .. f + g - 1
      <4>1. k - f \in 1 .. g - 1 /\ k - f \in 1 .. m /\ f + (k - f) = k
        BY <1>0
      <4> HIDE DEF rest
      <4>2. Blank(text, f + (k - f))
        BY <3>1, <3>4, <4>1
      <4> QED
        BY <4>1, <4>2
    <3>7. Parts(text, signs, f, f + g, l)
      <4>1. f + g \in f .. l + 1 /\ f < f + g
        BY <1>0, <1>3
      <4> QED
        BY <1>1, <1>3, <1>8, <3>5, <3>6, <4>1 DEF Parts
    <3> QED
      BY <1>5, <1>6, <1>8, <3>2, <3>3, <3>7
  <2> QED
    BY <2>3, <2>4
<1> QED
  BY <1>7, <1>8

\* What a prefix may be.
BasePrefixes == {<< >>, << "0", "x" >>, << "0", "o" >>, << "0", "b" >>}

\* The signs.
Signs == {"-", "+"}

\* A digit is neither a space nor a sign nor what makes a prefix.
LEMMA DigitChars ==
  ASSUME NEW base \in Bases, NEW c, IsDigit(c, base)
  PROVE  c # " " /\ c \notin Signs /\ c \notin {"x", "o"} /\ (base = 10 => c # "b")
<1> DEFINE Others == {" ", "-", "+", "x", "o"}
<1>1. PICK d \in 1 .. base : Digits[d] = c
  BY DEF IsDigit
<1>2. d \in 1 .. 16 /\ (base = 10 => d \in 1 .. 10)
  BY <1>1 DEF Bases
<1>3. \A e \in 1 .. 10 : e = 1 \/ e = 2 \/ e = 3 \/ e = 4 \/ e = 5 \/ e = 6 \/ e = 7 \/ e = 8
                         \/ e = 9 \/ e = 10
  OBVIOUS
<1>4. \A e \in 1 .. 16 : e \in 1 .. 10 \/ e = 11 \/ e = 12 \/ e = 13 \/ e = 14 \/ e = 15 \/ e = 16
  OBVIOUS
<1>5. /\ Digits[1] = "0" /\ Digits[2] = "1" /\ Digits[3] = "2" /\ Digits[4] = "3"
      /\ Digits[5] = "4" /\ Digits[6] = "5" /\ Digits[7] = "6" /\ Digits[8] = "7"
      /\ Digits[9] = "8" /\ Digits[10] = "9" /\ Digits[11] = "a" /\ Digits[12] = "b"
      /\ Digits[13] = "c" /\ Digits[14] = "d" /\ Digits[15] = "e" /\ Digits[16] = "f"
  BY DEF Digits
<1>6. \A e \in 1 .. 10 : Digits[e] \notin Others /\ Digits[e] # "b"
  BY <1>3, <1>5
<1>7. \A e \in 1 .. 16 : Digits[e] \notin Others
  BY <1>4, <1>5, <1>6
<1>8. c \notin Others /\ (base = 10 => c # "b")
  BY <1>1, <1>2, <1>6, <1>7
<1> QED
  BY <1>8 DEF Signs

\* A prefix and a numeral to k from q, behind nothing but space from behind a,
\* and before nothing but space.
Follows(text, base, prefix, a, q, k) ==
  /\ a < q /\ SubSeq(text, q, q + Len(prefix) - 1) = prefix
  /\ \A i \in a + 1 .. q - 1 : Blank(text, i)
  /\ IsNumeral(SubSeq(text, q + Len(prefix), k), base)
  /\ \A i \in k + 1 .. Len(text) : Blank(text, i)

\* As the readings of a text state it.
LEMMA FollowsIs ==
  ASSUME NEW text \in Seq(STRING), NEW base, NEW prefix, Len(prefix) \in Nat,
         NEW a \in 0 .. Len(text), NEW j \in 1 .. Len(text), NEW k \in 1 .. Len(text),
         a + Len(prefix) < j
  PROVE  (/\ SubSeq(text, j - Len(prefix), j - 1) = prefix
          /\ IsSpaces(SubSeq(text, a + 1, j - Len(prefix) - 1))
          /\ IsNumeral(SubSeq(text, j, k), base)
          /\ IsSpaces(SubSeq(text, k + 1, Len(text))))
         <=> Follows(text, base, prefix, a, j - Len(prefix), k)
<1> DEFINE n == Len(text)
           p == Len(prefix)
           q == j - p
<1>0. n \in Nat
  OBVIOUS
<1>1. /\ a + 1 \in 1 .. n + 1 /\ q - 1 \in 0 .. n /\ k + 1 \in 1 .. n + 1 /\ n \in 0 .. n
      /\ a < q /\ q + p = j /\ q + p - 1 = j - 1
  BY <1>0
<1>2. IsSpaces(SubSeq(text, a + 1, q - 1)) <=> \A i \in a + 1 .. q - 1 : Blank(text, i)
  <2> HIDE DEF n, p, q
  <2> QED
    BY <1>1, SpacesPart DEF n
<1>3. IsSpaces(SubSeq(text, k + 1, n)) <=> \A i \in k + 1 .. n : Blank(text, i)
  BY <1>1, SpacesPart
<1>4. Follows(text, base, prefix, a, q, k) <=>
        (/\ a < q /\ SubSeq(text, q, q + p - 1) = prefix
         /\ \A i \in a + 1 .. q - 1 : Blank(text, i)
         /\ IsNumeral(SubSeq(text, q + p, k), base)
         /\ \A i \in k + 1 .. n : Blank(text, i))
  BY Zenon DEF Follows
<1> HIDE DEF n, p, q
<1>5. Follows(text, base, prefix, a, q, k) <=>
        (/\ SubSeq(text, q, j - 1) = prefix
         /\ IsSpaces(SubSeq(text, a + 1, q - 1))
         /\ IsNumeral(SubSeq(text, j, k), base)
         /\ IsSpaces(SubSeq(text, k + 1, n)))
  BY <1>1, <1>2, <1>3, <1>4
<1> QED
  BY <1>5 DEF q, p, n

\* Where such a part begins and ends there is neither space nor sign.
LEMMA FollowsEnds ==
  ASSUME NEW text \in Seq(STRING), NEW base \in Bases, NEW prefix \in BasePrefixes,
         NEW a \in 0 .. Len(text), NEW q \in 1 .. Len(text), NEW k \in 1 .. Len(text),
         q + Len(prefix) \in 1 .. Len(text), Follows(text, base, prefix, a, q, k)
  PROVE  /\ q + Len(prefix) <= k /\ Len(prefix) \in Nat /\ ~Blank(text, q) /\ ~Blank(text, k)
         /\ \A signs \in SUBSET Signs : ~Signed(text, signs, q)
<1> DEFINE n == Len(text)
           p == Len(prefix)
<1>0. n \in Nat /\ ((prefix = << >> /\ p = 0) \/ (p = 2 /\ prefix[1] = "0"))
  BY DEF BasePrefixes
<1>1. p \in Nat
  BY <1>0
<1>2. q + p <= k /\ \A i \in q + p .. k : IsDigit(text[i], base)
  <2>1. q + p \in 1 .. n + 1 /\ k \in 0 .. n
    BY <1>0
  <2> QED
    BY <2>1, NumeralPart DEF Follows
<1>3. k \in q + p .. k /\ q + p \in q + p .. k
  BY <1>1, <1>2
<1>4. ~Blank(text, k)
  BY <1>2, <1>3, DigitChars DEF Blank
<1>5. text[q] # " " /\ text[q] \notin Signs
  <2>1. CASE p = 0
    <3>1. q + p = q
      BY <2>1
    <3> QED
      BY <1>2, <1>3, <3>1, DigitChars
  <2>2. CASE p = 2 /\ prefix[1] = "0"
    <3>1. q \in 1 .. n + 1 /\ q + p - 1 \in 0 .. n /\ 1 \in 1 .. (q + p - 1) - q + 1 /\ q + 1 - 1 = q
      BY <1>0, <2>2
    <3>2. SubSeq(text, q, q + p - 1)[1] = text[q + 1 - 1]
      <4> HIDE DEF p
      <4> QED
        BY <3>1, PartIs
    <3>3. text[q] = "0"
      BY <2>2, <3>1, <3>2 DEF Follows
    <3> QED
      BY <3>3 DEF Signs
  <2> QED
    BY <1>0, <2>1, <2>2
<1>6. ~Blank(text, q) /\ \A signs \in SUBSET Signs : ~Signed(text, signs, q)
  BY <1>5, Zenon DEF Blank, Signed
<1> QED
  BY <1>1, <1>2, <1>4, <1>6

\* Space ends at one character.
LEMMA SameFirst ==
  ASSUME NEW text, NEW a \in Int, NEW f \in Int, NEW g \in Int, a < f, a < g,
         ~Blank(text, f), ~Blank(text, g),
         \A i \in a + 1 .. f - 1 : Blank(text, i), \A i \in a + 1 .. g - 1 : Blank(text, i)
  PROVE  f = g
<1>1. f < g => f \in a + 1 .. g - 1
  OBVIOUS
<1>2. g < f => g \in a + 1 .. f - 1
  OBVIOUS
<1>3. ~(f < g) /\ ~(g < f)
  BY <1>1, <1>2
<1> QED
  BY <1>3

\* And begins again behind one.
LEMMA SameLast ==
  ASSUME NEW text, NEW n \in Int, NEW f \in Int, NEW g \in Int, f <= n, g <= n,
         ~Blank(text, f), ~Blank(text, g),
         \A i \in f + 1 .. n : Blank(text, i), \A i \in g + 1 .. n : Blank(text, i)
  PROVE  f = g
<1>1. f < g => g \in f + 1 .. n
  OBVIOUS
<1>2. g < f => f \in g + 1 .. n
  OBVIOUS
<1>3. ~(f < g) /\ ~(g < f)
  BY <1>1, <1>2
<1> QED
  BY <1>3

\* A text has the numeral behind the prefix that a reader is left with.
Read(text, base, prefix, b, l) ==
  /\ b + Len(prefix) <= l /\ SubSeq(text, b, b + Len(prefix) - 1) = prefix
  /\ IsNumeral(SubSeq(text, b + Len(prefix), l), base)

\* A reading from j to k, with a sign at i.
ReadBehind(text, base, signs, prefix, i, j, k) ==
  /\ text[i] \in signs /\ IsSpaces(SubSeq(text, 1, i - 1))
  /\ i + Len(prefix) < j
  /\ SubSeq(text, j - Len(prefix), j - 1) = prefix
  /\ IsSpaces(SubSeq(text, i + 1, j - Len(prefix) - 1))
  /\ IsNumeral(SubSeq(text, j, k), base)
  /\ IsSpaces(SubSeq(text, k + 1, Len(text)))

\* And without one.
ReadWithout(text, base, prefix, j, k) ==
  /\ Len(prefix) < j
  /\ SubSeq(text, j - Len(prefix), j - 1) = prefix
  /\ IsSpaces(SubSeq(text, 1, j - Len(prefix) - 1))
  /\ IsNumeral(SubSeq(text, j, k), base)
  /\ IsSpaces(SubSeq(text, k + 1, Len(text)))

\* Behind a sign, there is at most one.
LEMMA BehindSign ==
  ASSUME NEW text \in Seq(STRING), NEW base \in Bases, NEW prefix \in BasePrefixes,
         NEW signs \in SUBSET Signs, NEW f, NEW b, NEW l, Parts(text, signs, f, b, l),
         NEW i \in 1 .. Len(text), NEW j \in 1 .. Len(text), NEW k \in 1 .. Len(text)
  PROVE  ReadBehind(text, base, signs, prefix, i, j, k)
         <=> /\ Signed(text, signs, f) /\ Read(text, base, prefix, b, l)
             /\ i = f /\ j = b + Len(prefix) /\ k = l
<1> DEFINE n == Len(text)
           p == Len(prefix)
           q == j - p
<1>0. n \in Nat /\ p \in Nat
  BY DEF BasePrefixes
<1>1. /\ f \in 1 .. n /\ l \in f .. n /\ b \in f .. l + 1
      /\ ~Blank(text, f) /\ ~Blank(text, l)
      /\ \A m \in 1 .. f - 1 : Blank(text, m)
      /\ \A m \in l + 1 .. n : Blank(text, m)
      /\ Signed(text, signs, f) =>
           f < b /\ (\A m \in f + 1 .. b - 1 : Blank(text, m)) /\ (b <= l => ~Blank(text, b))
  BY DEF Parts
<1>2. IsSpaces(SubSeq(text, 1, i - 1)) <=> \A m \in 1 .. i - 1 : Blank(text, m)
  <2>1. 1 \in 1 .. n + 1 /\ i - 1 \in 0 .. n
    BY <1>0
  <2> QED
    BY <2>1, SpacesPart
<1>3. Signed(text, signs, i) <=> text[i] \in signs
  BY Zenon DEF Signed
<1>4. i + p < j => ((/\ SubSeq(text, q, j - 1) = prefix
                     /\ IsSpaces(SubSeq(text, i + 1, q - 1))
                     /\ IsNumeral(SubSeq(text, j, k), base)
                     /\ IsSpaces(SubSeq(text, k + 1, n)))
                    <=> Follows(text, base, prefix, i, q, k))
  <2> SUFFICES ASSUME i + p < j
               PROVE  (/\ SubSeq(text, q, j - 1) = prefix
                       /\ IsSpaces(SubSeq(text, i + 1, q - 1))
                       /\ IsNumeral(SubSeq(text, j, k), base)
                       /\ IsSpaces(SubSeq(text, k + 1, n)))
                      <=> Follows(text, base, prefix, i, q, k)
    OBVIOUS
  <2>1. i \in 0 .. n
    BY <1>0
  <2> QED
    BY <1>0, <2>1, FollowsIs
<1>5. ASSUME Signed(text, signs, i), \A m \in 1 .. i - 1 : Blank(text, m),
             i + p < j, Follows(text, base, prefix, i, q, k)
      PROVE  /\ Signed(text, signs, f) /\ Read(text, base, prefix, b, l)
             /\ i = f /\ j = b + p /\ k = l
  <2>1. ~Blank(text, i)
    <3>1. " " \notin Signs
      BY DEF Signs
    <3> QED
      BY <1>5, <3>1, Zenon DEF Signed, Blank
  <2>2. i = f
    <3>1. 0 \in Int /\ i \in Int /\ f \in Int /\ 0 < i /\ 0 < f /\ 0 + 1 = 1
      BY <1>0, <1>1
    <3> QED
      BY <1>1, <1>5, <2>1, <3>1, SameFirst
  <2>3. i \in 0 .. n /\ q \in 1 .. n /\ q + p \in 1 .. n /\ q + p = j
    BY <1>0, <1>5
  <2>4. q + p <= k /\ ~Blank(text, q) /\ ~Blank(text, k)
    <3> HIDE DEF q
    <3> QED
      BY <1>5, <2>3, FollowsEnds
  <2>5. /\ f < q /\ \A m \in f + 1 .. q - 1 : Blank(text, m)
        /\ \A m \in k + 1 .. n : Blank(text, m)
        /\ SubSeq(text, q, q + p - 1) = prefix
        /\ IsNumeral(SubSeq(text, q + p, k), base)
    <3> HIDE DEF q
    <3> QED
      BY <1>5, <2>2 DEF Follows
  <2> HIDE DEF q, p, n
  <2>6. k = l
    <3>1. n \in Int /\ k \in Int /\ l \in Int /\ k <= n /\ l <= n
      BY <1>0, <1>1 DEF n
    <3> QED
      BY <1>1, <2>4, <2>5, <3>1, SameLast
  <2>7. Signed(text, signs, f)
    BY <1>5, <2>2
  <2>8. b <= l
    <3> SUFFICES ASSUME b = l + 1 PROVE FALSE
      BY <1>0, <1>1
    <3>1. q <= l /\ q \in f + 1 .. b - 1
      BY <1>0, <1>1, <2>3, <2>4, <2>5, <2>6
    <3> QED
      BY <1>1, <2>4, <2>7, <3>1
  <2>9. q = b
    <3>1. f \in Int /\ q \in Int /\ b \in Int /\ f < b
      BY <1>0, <1>1, <2>3, <2>7
    <3> QED
      BY <1>1, <2>4, <2>5, <2>7, <2>8, <3>1, SameFirst
  <2>10. Read(text, base, prefix, b, l)
    BY <2>4, <2>5, <2>6, <2>9 DEF Read, p
  <2> QED
    BY <2>2, <2>3, <2>6, <2>7, <2>9, <2>10
<1>6. ASSUME Signed(text, signs, f), Read(text, base, prefix, b, l), i = f, j = b + p, k = l
      PROVE  /\ Signed(text, signs, i) /\ \A m \in 1 .. i - 1 : Blank(text, m)
             /\ i + p < j /\ Follows(text, base, prefix, i, q, k)
  <2>1. q = b /\ i + p < j /\ f < b
    BY <1>0, <1>1, <1>6
  <2> HIDE DEF q, p, n
  <2>2. Follows(text, base, prefix, i, q, k)
    BY <1>1, <1>6, <2>1 DEF Follows, Read, n
  <2> QED
    BY <1>1, <1>6, <2>1, <2>2
<1>7. (/\ Signed(text, signs, i) /\ \A m \in 1 .. i - 1 : Blank(text, m)
       /\ i + p < j /\ Follows(text, base, prefix, i, q, k))
      <=> /\ Signed(text, signs, f) /\ Read(text, base, prefix, b, l)
          /\ i = f /\ j = b + p /\ k = l
  BY <1>5, <1>6
<1>8. ReadBehind(text, base, signs, prefix, i, j, k)
        <=> (/\ text[i] \in signs /\ IsSpaces(SubSeq(text, 1, i - 1))
             /\ i + p < j
             /\ SubSeq(text, q, j - 1) = prefix
             /\ IsSpaces(SubSeq(text, i + 1, q - 1))
             /\ IsNumeral(SubSeq(text, j, k), base)
             /\ IsSpaces(SubSeq(text, k + 1, n)))
  BY Zenon DEF ReadBehind
<1> HIDE DEF n, p, q
<1>9. ReadBehind(text, base, signs, prefix, i, j, k)
        <=> (/\ Signed(text, signs, f) /\ Read(text, base, prefix, b, l)
             /\ i = f /\ j = b + p /\ k = l)
  BY <1>2, <1>3, <1>4, <1>7, <1>8, Zenon
<1> QED
  BY <1>9, Zenon DEF p

\* Without one, too.
LEMMA WithoutSign ==
  ASSUME NEW text \in Seq(STRING), NEW base \in Bases, NEW prefix \in BasePrefixes,
         NEW signs \in SUBSET Signs, NEW f, NEW b, NEW l, Parts(text, signs, f, b, l),
         NEW j \in 1 .. Len(text), NEW k \in 1 .. Len(text)
  PROVE  ReadWithout(text, base, prefix, j, k)
         <=> /\ ~Signed(text, signs, f) /\ Read(text, base, prefix, b, l)
             /\ j = b + Len(prefix) /\ k = l
<1> DEFINE n == Len(text)
           p == Len(prefix)
           q == j - p
<1>0. n \in Nat /\ p \in Nat
  BY DEF BasePrefixes
<1>1. /\ f \in 1 .. n /\ l \in f .. n /\ b \in f .. l + 1
      /\ ~Blank(text, f) /\ ~Blank(text, l)
      /\ \A m \in 1 .. f - 1 : Blank(text, m)
      /\ \A m \in l + 1 .. n : Blank(text, m)
      /\ ~Signed(text, signs, f) => b = f
  BY DEF Parts
<1>4. p < j => ((/\ SubSeq(text, q, j - 1) = prefix
                 /\ IsSpaces(SubSeq(text, 1, q - 1))
                 /\ IsNumeral(SubSeq(text, j, k), base)
                 /\ IsSpaces(SubSeq(text, k + 1, n)))
                <=> Follows(text, base, prefix, 0, q, k))
  <2> SUFFICES ASSUME p < j
               PROVE  (/\ SubSeq(text, q, j - 1) = prefix
                       /\ IsSpaces(SubSeq(text, 1, q - 1))
                       /\ IsNumeral(SubSeq(text, j, k), base)
                       /\ IsSpaces(SubSeq(text, k + 1, n)))
                      <=> Follows(text, base, prefix, 0, q, k)
    OBVIOUS
  <2>1. 0 \in 0 .. n /\ 0 + p < j /\ 0 + 1 = 1
    BY <1>0
  <2>2. (/\ SubSeq(text, q, j - 1) = prefix
         /\ IsSpaces(SubSeq(text, 0 + 1, q - 1))
         /\ IsNumeral(SubSeq(text, j, k), base)
         /\ IsSpaces(SubSeq(text, k + 1, n)))
        <=> Follows(text, base, prefix, 0, q, k)
    BY <1>0, <2>1, FollowsIs
  <2> QED
    BY <2>1, <2>2
<1>5. ASSUME p < j, Follows(text, base, prefix, 0, q, k)
      PROVE  /\ ~Signed(text, signs, f) /\ Read(text, base, prefix, b, l)
             /\ j = b + p /\ k = l
  <2>3. 0 \in 0 .. n /\ q \in 1 .. n /\ q + p \in 1 .. n /\ q + p = j
    BY <1>0, <1>5
  <2>4. q + p <= k /\ ~Blank(text, q) /\ ~Blank(text, k) /\ ~Signed(text, signs, q)
    <3> HIDE DEF q
    <3> QED
      BY <1>5, <2>3, FollowsEnds
  <2>5. /\ 0 < q /\ \A m \in 0 + 1 .. q - 1 : Blank(text, m)
        /\ \A m \in k + 1 .. n : Blank(text, m)
        /\ SubSeq(text, q, q + p - 1) = prefix
        /\ IsNumeral(SubSeq(text, q + p, k), base)
    <3> HIDE DEF q
    <3> QED
      BY <1>5 DEF Follows
  <2> HIDE DEF q, p, n
  <2>6. k = l
    <3>1. n \in Int /\ k \in Int /\ l \in Int /\ k <= n /\ l <= n
      BY <1>0, <1>1 DEF n
    <3> QED
      BY <1>1, <2>4, <2>5, <3>1, SameLast
  <2>7. q = f
    <3>1. 0 \in Int /\ f \in Int /\ q \in Int /\ 0 < f /\ 0 + 1 = 1
      BY <1>0, <1>1, <2>3
    <3> QED
      BY <1>1, <2>4, <2>5, <3>1, SameFirst
  <2>9. ~Signed(text, signs, f) /\ b = q
    BY <1>1, <2>4, <2>7
  <2>10. Read(text, base, prefix, b, l)
    BY <2>4, <2>5, <2>6, <2>9 DEF Read, p
  <2> QED
    BY <2>3, <2>6, <2>9, <2>10
<1>6. ASSUME ~Signed(text, signs, f), Read(text, base, prefix, b, l), j = b + p, k = l
      PROVE  p < j /\ Follows(text, base, prefix, 0, q, k)
  <2>1. q = b /\ p < j /\ 0 < b /\ b = f /\ 0 + 1 = 1
    BY <1>0, <1>1, <1>6
  <2> HIDE DEF q, p, n
  <2>2. Follows(text, base, prefix, 0, q, k)
    BY <1>1, <1>6, <2>1 DEF Follows, Read, n
  <2> QED
    BY <2>1, <2>2
<1>7. (p < j /\ Follows(text, base, prefix, 0, q, k))
      <=> /\ ~Signed(text, signs, f) /\ Read(text, base, prefix, b, l)
          /\ j = b + p /\ k = l
  BY <1>5, <1>6
<1>8. ReadWithout(text, base, prefix, j, k)
        <=> (/\ p < j
             /\ SubSeq(text, q, j - 1) = prefix
             /\ IsSpaces(SubSeq(text, 1, q - 1))
             /\ IsNumeral(SubSeq(text, j, k), base)
             /\ IsSpaces(SubSeq(text, k + 1, n)))
  BY Zenon DEF ReadWithout
<1> HIDE DEF n, p, q
<1>9. ReadWithout(text, base, prefix, j, k)
        <=> (/\ ~Signed(text, signs, f) /\ Read(text, base, prefix, b, l)
             /\ j = b + p /\ k = l)
  BY <1>4, <1>7, <1>8, Zenon
<1> QED
  BY <1>9, Zenon DEF p

\* So a text has one reading or none.
LEMMA ReadingsAre ==
  ASSUME NEW text \in Seq(STRING), NEW base \in Bases, NEW prefix \in BasePrefixes,
         NEW signs \in SUBSET Signs, NEW f, NEW b, NEW l, Parts(text, signs, f, b, l)
  PROVE  Readings(text, base, signs, prefix) =
           IF Read(text, base, prefix, b, l)
           THEN {[negative |-> Signed(text, signs, f) /\ text[f] = "-",
                  value |-> ValueOf(SubSeq(text, b + Len(prefix), l), base)]}
           ELSE {}
<1> DEFINE n == Len(text)
           p == Len(prefix)
           D == DOMAIN text
           c == b + p
           Behind == { t \in D \X D \X D : ReadBehind(text, base, signs, prefix, t[1], t[2], t[3]) }
           Without == { t \in D \X D : ReadWithout(text, base, prefix, t[1], t[2]) }
           V(r) == [negative |-> text[r[1]] = "-", value |-> ValueOf(SubSeq(text, r[2], r[3]), base)]
           W(r) == [negative |-> FALSE, value |-> ValueOf(SubSeq(text, r[1], r[2]), base)]
           signed == Signed(text, signs, f)
           read == Read(text, base, prefix, b, l)
<1>0. n \in Nat /\ p \in Nat /\ D = 1 .. n /\ f \in 1 .. n /\ l \in f .. n /\ b \in f .. l + 1
  BY DEF BasePrefixes, Parts
<1>1. Readings(text, base, signs, prefix) = { V(r) : r \in Behind } \cup { W(r) : r \in Without }
  BY Zenon DEF Readings, ReadBehind, ReadWithout
<1>2. \A t \in D \X D \X D : t \in Behind <=> signed /\ read /\ t[1] = f /\ t[2] = c /\ t[3] = l
  <2> SUFFICES ASSUME NEW t \in D \X D \X D
               PROVE  t \in Behind <=> signed /\ read /\ t[1] = f /\ t[2] = c /\ t[3] = l
    OBVIOUS
  <2>1. t[1] \in 1 .. n /\ t[2] \in 1 .. n /\ t[3] \in 1 .. n
    BY <1>0
  <2>2. ReadBehind(text, base, signs, prefix, t[1], t[2], t[3])
        <=> signed /\ read /\ t[1] = f /\ t[2] = c /\ t[3] = l
    BY <2>1, BehindSign
  <2> HIDE DEF D, c, p, n, signed, read
  <2> QED
    BY <2>2
<1>3. \A t \in D \X D : t \in Without <=> ~signed /\ read /\ t[1] = c /\ t[2] = l
  <2> SUFFICES ASSUME NEW t \in D \X D
               PROVE  t \in Without <=> ~signed /\ read /\ t[1] = c /\ t[2] = l
    OBVIOUS
  <2>1. t[1] \in 1 .. n /\ t[2] \in 1 .. n
    BY <1>0
  <2>2. ReadWithout(text, base, prefix, t[1], t[2])
        <=> ~signed /\ read /\ t[1] = c /\ t[2] = l
    BY <2>1, WithoutSign
  <2> HIDE DEF D, c, p, n, signed, read
  <2> QED
    BY <2>2
<1>4. Behind \subseteq D \X D \X D /\ Without \subseteq D \X D
  <2> HIDE DEF D, p, n
  <2> QED
    BY Zenon
<1>5. V(<< f, c, l >>) = [negative |-> text[f] = "-", value |-> ValueOf(SubSeq(text, c, l), base)]
  OBVIOUS
<1>6. W(<< c, l >>) = [negative |-> FALSE, value |-> ValueOf(SubSeq(text, c, l), base)]
  OBVIOUS
<1>7. read => c \in D /\ f \in D /\ l \in D
  BY <1>0 DEF Read
<1> HIDE DEF V, W, Behind, Without, signed, read, c, p, n
<1>8. CASE ~read
  <2>1. Behind = {} /\ Without = {}
    BY <1>2, <1>3, <1>4, <1>8
  <2>2. Readings(text, base, signs, prefix) = {}
    BY <1>1, <2>1
  <2> QED
    BY <1>8, <2>2 DEF read
<1>9. CASE read /\ signed
  <2>1. Behind = {<< f, c, l >>}
    <3>1. << f, c, l >> \in Behind
      <4>1. << f, c, l >> \in D \X D \X D
        BY <1>7, <1>9
      <4> QED
        BY <1>2, <1>9, <4>1
    <3>2. \A t \in Behind : t = << f, c, l >>
      <4> TAKE t \in Behind
      <4>1. t \in D \X D \X D
        BY <1>4
      <4>2. t[1] = f /\ t[2] = c /\ t[3] = l
        BY <1>2, <4>1
      <4> HIDE DEF D
      <4> QED
        BY <4>1, <4>2
    <3> QED
      BY <3>1, <3>2
  <2>2. Without = {}
    BY <1>3, <1>4, <1>9
  <2>3. Readings(text, base, signs, prefix) = {V(<< f, c, l >>)}
    BY <1>1, <2>1, <2>2
  <2>4. (signed /\ text[f] = "-") = (text[f] = "-")
    BY <1>9
  <2> QED
    BY <1>5, <1>9, <2>3, <2>4, Zenon DEF read, signed, c, p
<1>10. CASE read /\ ~signed
  <2>1. Without = {<< c, l >>}
    <3>1. << c, l >> \in Without
      <4>1. << c, l >> \in D \X D
        BY <1>7, <1>10
      <4> QED
        BY <1>3, <1>10, <4>1
    <3>2. \A t \in Without : t = << c, l >>
      <4> TAKE t \in Without
      <4>1. t \in D \X D
        BY <1>4
      <4>2. t[1] = c /\ t[2] = l
        BY <1>3, <4>1
      <4> HIDE DEF D
      <4> QED
        BY <4>1, <4>2
    <3> QED
      BY <3>1, <3>2
  <2>2. Behind = {}
    BY <1>2, <1>4, <1>10
  <2>3. Readings(text, base, signs, prefix) = {W(<< c, l >>)}
    BY <1>1, <2>1, <2>2
  <2>4. (signed /\ text[f] = "-") = FALSE
    BY <1>10
  <2> QED
    BY <1>6, <1>10, <2>3, <2>4, Zenon DEF read, signed, c, p
<1> QED
  BY <1>8, <1>9, <1>10

\* A text of spaces has none.
LEMMA NothingToRead ==
  ASSUME NEW text \in Seq(STRING), IsSpaces(text), NEW base \in Bases, NEW prefix \in BasePrefixes,
         NEW signs \in SUBSET Signs
  PROVE  Readings(text, base, signs, prefix) = {}
<1>1. \A i, k \in DOMAIN text : ~IsNumeral(SubSeq(text, i, k), base)
  <2> SUFFICES ASSUME NEW i \in DOMAIN text, NEW k \in DOMAIN text,
                      IsNumeral(SubSeq(text, i, k), base)
               PROVE  FALSE
    OBVIOUS
  <2>1. /\ i \in 1 .. Len(text) /\ i \in 1 .. Len(text) + 1 /\ k \in 0 .. Len(text)
        /\ k \in 1 .. Len(text)
    OBVIOUS
  <2>2. i <= k /\ \A m \in i .. k : IsDigit(text[m], base)
    BY <2>1, NumeralPart
  <2>3. IsDigit(text[i], base)
    BY <2>1, <2>2, i \in Int
  <2>4. text[i] # " "
    BY <2>3, DigitChars
  <2> QED
    BY <2>4, Zenon DEF IsSpaces
<1>2. \A t \in (DOMAIN text) \X (DOMAIN text) \X (DOMAIN text) : ~IsNumeral(SubSeq(text, t[2], t[3]), base)
  <2> TAKE t \in (DOMAIN text) \X (DOMAIN text) \X (DOMAIN text)
  <2>1. t[2] \in DOMAIN text /\ t[3] \in DOMAIN text
    OBVIOUS
  <2> QED
    BY <1>1, <2>1
<1>3. \A t \in (DOMAIN text) \X (DOMAIN text) : ~IsNumeral(SubSeq(text, t[1], t[2]), base)
  <2> TAKE t \in (DOMAIN text) \X (DOMAIN text)
  <2>1. t[1] \in DOMAIN text /\ t[2] \in DOMAIN text
    OBVIOUS
  <2> QED
    BY <1>1, <2>1
<1> QED
  BY <1>2, <1>3, Zenon DEF Readings

\* The base of a radix.
LEMMA BaseIs ==
  ASSUME NEW radix \in Radix
  PROVE  BaseOf[radix] \in Bases
BY DEF Radix, BaseOf, Bases

\* What is left of a literal has a reading when it is a numeral.
ReadingOf(negative, digits, base) ==
  IF IsNumeral(digits, base) THEN {[negative |-> negative, value |-> ValueOf(digits, base)]}
  ELSE {}

\* finish is right about it: empty, no numeral, out of range or a word.
LEMMA FinishRight ==
  ASSUME NEW negative \in BOOLEAN, NEW digits \in Seq(STRING), NEW radix \in Radix
  PROVE  RightFor(Finish(negative, digits, radix), ReadingOf(negative, digits, BaseOf[radix]))
<1> DEFINE base == BaseOf[radix]
           result == Finish(negative, digits, radix)
<1>0. base \in Bases
  BY BaseIs
<1>1. CASE digits = << >>
  <2>1. result = Err("Empty")
    BY <1>1, Zenon DEF Finish
  <2>2. ReadingOf(negative, digits, base) = {}
    BY <1>1, Zenon DEF ReadingOf, IsNumeral
  <2>3. Err("Empty").error \notin {"None", "OutOfRange"}
    BY DEF Err
  <2> HIDE DEF result
  <2> QED
    BY <2>1, <2>2, <2>3, Zenon DEF RightFor, result
<1>2. CASE digits # << >> /\ \E i \in DOMAIN digits : ~IsDigit(digits[i], base)
  <2>1. result = Err("InvalidDigit")
    BY <1>2, Zenon DEF Finish
  <2>2. ReadingOf(negative, digits, base) = {}
    BY <1>2, Zenon DEF ReadingOf, IsNumeral
  <2>3. Err("InvalidDigit").error \notin {"None", "OutOfRange"}
    BY DEF Err
  <2> HIDE DEF result
  <2> QED
    BY <2>1, <2>2, <2>3, Zenon DEF RightFor, result
<1>3. CASE digits # << >> /\ ~\E i \in DOMAIN digits : ~IsDigit(digits[i], base)
  <2> DEFINE v == ValueOf(digits, base)
             reading == [negative |-> negative, value |-> v]
             limit == IF negative THEN WordCount \div 2 ELSE WordCount - 1
  <2>1. IsNumeral(digits, base)
    BY <1>3, Zenon DEF IsNumeral
  <2>2. Numeral(digits, base)
    <3>1. DOMAIN digits = 1 .. Len(digits)
      OBVIOUS
    <3> QED
      BY <1>3, <3>1, Zenon DEF Numeral
  <2>3. Magnitude(digits, base) = v
    BY <1>0, <2>2, NumeralValue
  <2>4. v \in Nat
    <3>1. PICK f : AddsUp(f, digits, base) /\ Magnitude(digits, base) = f[Len(digits)]
      BY <1>0, <2>2, MagnitudeIs
    <3>2. f \in [Nat -> Nat] /\ Len(digits) \in Nat
      BY <3>1 DEF AddsUp
    <3> HIDE DEF v
    <3> QED
      BY <2>3, <3>1, <3>2
  <2>5. limit \in Int /\ Limit(negative) = limit
    <3>1. WordCount \in Nat
      BY MemoryWordsAssumption DEF WordCount
    <3> QED
      BY <3>1 DEF Limit
  <2>6. result = IF v > limit THEN Err("OutOfRange")
                 ELSE Ok(IF negative THEN (-v) % WordCount ELSE v)
    <3> HIDE DEF v, limit
    <3> QED
      BY <1>3, <2>3, <2>5, Zenon DEF Finish
  <2>7. InRange(reading) <=> v <= limit
    <3> HIDE DEF v
    <3> QED
      BY DEF InRange
  <2>8. WordOf(reading) = (IF negative THEN -v ELSE v) % WordCount
    <3> HIDE DEF v
    <3> QED
      BY DEF WordOf
  <2> HIDE DEF v, reading, result, limit, base
  <2>9. IF InRange(reading) THEN result = Ok(WordOf(reading)) ELSE result = Err("OutOfRange")
    <3>1. CASE v <= limit
      <4>1. ~(v > limit)
        BY <2>4, <2>5, <3>1
      <4>2. WordOf(reading) = IF negative THEN (-v) % WordCount ELSE v
        <5>1. CASE negative
          BY <2>8, <5>1
        <5>2. CASE ~negative
          <6>1. WordCount \in Nat /\ limit = WordCount - 1
            BY <5>2, MemoryWordsAssumption DEF WordCount, limit
          <6>2. v \in 0 .. WordCount - 1 /\ WordCount > 0
            BY <2>4, <3>1, <6>1
          <6>3. v % WordCount = v
            BY <6>1, <6>2
          <6> QED
            BY <2>8, <5>2, <6>3
        <5> QED
          BY <5>1, <5>2
      <4> QED
        BY <2>6, <2>7, <3>1, <4>1, <4>2
    <3>2. CASE ~(v <= limit)
      <4>1. v > limit
        BY <2>4, <2>5, <3>2
      <4> QED
        BY <2>6, <2>7, <3>2, <4>1
    <3> QED
      BY <3>1, <3>2
  <2>10. ReadingOf(negative, digits, base) = {reading}
    BY <2>1, Zenon DEF ReadingOf, reading, v
  <2>11. RightFor(result, {reading})
    <3>1. {reading} # {} /\ reading \in {reading}
      OBVIOUS
    <3> QED
      BY <2>9, <3>1, Zenon DEF RightFor
  <2> QED
    BY <2>10, <2>11 DEF result, base
<1> QED
  BY <1>1, <1>2, <1>3

\* A text is signed as negative or not.
SignIs(text, signs, f, negative) == negative = (Signed(text, signs, f) /\ text[f] = "-")

\* What is left of a text behind a prefix is read as the text is.
LEMMA ReadingLeft ==
  ASSUME NEW text \in Seq(STRING), NEW base \in Bases, NEW prefix \in BasePrefixes,
         NEW signs \in SUBSET Signs, NEW f, NEW b \in Int, NEW l \in Int, Parts(text, signs, f, b, l),
         b + Len(prefix) - 1 <= l, SubSeq(text, b, b + Len(prefix) - 1) = prefix,
         NEW negative, SignIs(text, signs, f, negative)
  PROVE  Readings(text, base, signs, prefix) =
           ReadingOf(negative, SubSeq(text, b + Len(prefix), l), base)
<1> DEFINE c == b + Len(prefix)
           digits == SubSeq(text, c, l)
<1>1. Readings(text, base, signs, prefix) =
        IF Read(text, base, prefix, b, l)
        THEN {[negative |-> Signed(text, signs, f) /\ text[f] = "-",
               value |-> ValueOf(digits, base)]}
        ELSE {}
  BY ReadingsAre
<1>2. /\ Len(prefix) \in Nat /\ Len(text) \in Nat /\ f \in 1 .. Len(text)
      /\ l \in f .. Len(text) /\ b \in f .. l + 1
  BY DEF BasePrefixes, Parts
<1>3. c \in 1 .. Len(text) + 1 /\ l \in 0 .. Len(text)
  BY <1>2
<1> HIDE DEF c
<1>4. IsNumeral(digits, base) => c <= l
  BY <1>3, NumeralPart
<1> HIDE DEF digits
<1>5. Read(text, base, prefix, b, l) <=> IsNumeral(digits, base)
  BY <1>4 DEF Read, c, digits
<1> QED
  BY <1>1, <1>5, Zenon DEF ReadingOf, SignIs, digits, c

\* Of a text of spaces nothing is left.
LEMMA NothingLeft ==
  ASSUME NEW text \in Seq(STRING), IsSpaces(text), NEW signs
  PROVE  Negative(text) = FALSE /\ Unsigned(text, signs) = << >>
<1>1. TrimText(text) = << >>
  BY TrimIs
<1> QED
  BY <1>1, Zenon DEF Negative, BeginsWith, Unsigned

\* A text that begins with no digit is no numeral.
LEMMA NoNumeral ==
  ASSUME NEW text \in Seq(STRING), NEW base \in Bases, NEW a \in 1 .. Len(text),
         NEW b \in 0 .. Len(text), NEW i \in a .. b, ~IsDigit(text[i], base)
  PROVE  ~IsNumeral(SubSeq(text, a, b), base)
<1>1. a \in 1 .. Len(text) + 1
  OBVIOUS
<1> QED
  BY <1>1, NumeralPart

\* Without a prefix.
LEMMA PlainReading ==
  ASSUME NEW text \in Seq(STRING), NEW base \in Bases,
         NEW signs \in SUBSET Signs, NEW f, NEW b, NEW l, Parts(text, signs, f, b, l),
         NEW negative, SignIs(text, signs, f, negative)
  PROVE  Readings(text, base, signs, << >>) = ReadingOf(negative, SubSeq(text, b, l), base)
<1> DEFINE none == << >>
<1>1. none \in BasePrefixes /\ Len(none) = 0
  BY DEF BasePrefixes
<1>2. b \in Int /\ l \in Int /\ b <= l + 1
  BY DEF Parts
<1>3. SubSeq(text, b, b - 1) = none
  BY <1>2, SubSeqEmpty
<1> HIDE DEF none
<1>4. b + Len(none) = b /\ b + Len(none) - 1 = b - 1 /\ b + Len(none) - 1 <= l
  BY <1>1, <1>2
<1>5. SubSeq(text, b, b + Len(none) - 1) = none
  BY <1>3, <1>4
<1>6. Readings(text, base, signs, none) =
        ReadingOf(negative, SubSeq(text, b + Len(none), l), base)
  <2>1. none \in BasePrefixes
    BY <1>1
  <2>2. b + Len(none) - 1 <= l
    BY <1>4
  <2> QED
    BY <1>2, <1>5, <2>1, <2>2, ReadingLeft
<1>7. Readings(text, base, signs, none) =
        ReadingOf(negative, SubSeq(text, b, l), base)
  BY <1>4, <1>6
<1> QED
  BY <1>7 DEF none

\* parse_word is right in every radix but that of signed numerals.
LEMMA UnsignedRight ==
  ASSUME NEW text \in Seq(STRING), NEW radix \in Radix \ {"Decimal"}
  PROVE  RightFor(ParseWord(text, radix), Readings(text, BaseOf[radix], {}, << >>))
<1> DEFINE base == BaseOf[radix]
<1>0. base \in Bases /\ radix \in Radix /\ << >> \in BasePrefixes /\ {} \in SUBSET Signs
  BY BaseIs DEF BasePrefixes
<1> HIDE DEF base
<1>1. CASE IsSpaces(text)
  <2>1. Readings(text, base, {}, << >>) = {}
    BY <1>0, <1>1, NothingToRead
  <2>2. Negative(text) = FALSE /\ Unsigned(text, {"-"}) = << >>
    BY <1>1, NothingLeft
  <2>3. ParseWord(text, radix) = Finish(FALSE, << >>, radix)
    BY <2>2, Zenon DEF ParseWord
  <2>4. ReadingOf(FALSE, << >>, base) = {}
    BY Zenon DEF ReadingOf, IsNumeral
  <2>5. RightFor(Finish(FALSE, << >>, radix), ReadingOf(FALSE, << >>, base))
    <3>1. FALSE \in BOOLEAN /\ << >> \in Seq(STRING)
      OBVIOUS
    <3> QED
      BY <1>0, <3>1, FinishRight DEF base
  <2> QED
    BY <2>1, <2>3, <2>4, <2>5 DEF base
<1>2. CASE ~IsSpaces(text)
  <2>1. PICK f, b, l : /\ Parts(text, {"-"}, f, b, l)
                       /\ Negative(text) <=> text[f] = "-"
                       /\ Unsigned(text, {"-"}) = SubSeq(text, b, l)
    BY <1>2, PartsAre
  <2>2. Signed(text, {"-"}, f) <=> text[f] = "-"
    BY Zenon DEF Signed
  <2>3. ~Signed(text, {}, f)
    BY Zenon DEF Signed
  <2>4. f \in 1 .. Len(text) /\ l \in f .. Len(text) /\ f <= l
    BY <2>1 DEF Parts
  <2>5. Parts(text, {}, f, f, l)
    <3>1. f \in f .. l + 1
      BY <2>4
    <3> QED
      BY <2>1, <2>3, <2>4, <3>1 DEF Parts
  <2>6. Readings(text, base, {}, << >>) = ReadingOf(FALSE, SubSeq(text, f, l), base)
    <3>1. SignIs(text, {}, f, FALSE)
      BY <2>3 DEF SignIs
    <3>2. base \in Bases /\ {} \in SUBSET Signs
      BY <1>0
    <3> DEFINE none == {}
               positive == FALSE
    <3>3. SignIs(text, none, f, positive) /\ Parts(text, none, f, f, l) /\ none \in SUBSET Signs
      BY <2>5, <3>1, <3>2
    <3> HIDE DEF none, positive
    <3>4. Readings(text, base, none, << >>) = ReadingOf(positive, SubSeq(text, f, l), base)
      BY <3>2, <3>3, PlainReading
    <3> QED
      BY <3>4 DEF none, positive
  <2>7. CASE Negative(text)
    <3>1. ParseWord(text, radix) = Err("UnexpectedSign")
      BY <2>7, Zenon DEF ParseWord
    <3>2. ~IsDigit(text[f], base)
      <4>1. text[f] \in Signs
        BY <2>1, <2>7 DEF Signs
      <4> QED
        BY <1>0, <4>1, DigitChars
    <3>3. ~IsNumeral(SubSeq(text, f, l), base)
      <4>1. l \in 0 .. Len(text) /\ f \in f .. l
        BY <2>4
      <4> QED
        BY <1>0, <2>4, <3>2, <4>1, NoNumeral
    <3>4. Readings(text, base, {}, << >>) = {}
      BY <2>6, <3>3, Zenon DEF ReadingOf
    <3>5. Err("UnexpectedSign").error \notin {"None", "OutOfRange"}
      BY DEF Err
    <3> QED
      BY <3>1, <3>4, <3>5, Zenon DEF RightFor, base
  <2>8. CASE ~Negative(text)
    <3>1. b = f
      BY <2>1, <2>2, <2>8 DEF Parts
    <3>2. ParseWord(text, radix) = Finish(FALSE, SubSeq(text, f, l), radix)
      <4>1. Negative(text) = FALSE
        BY <2>8 DEF Negative, BeginsWith
      <4> QED
        BY <2>1, <3>1, <4>1, Zenon DEF ParseWord
    <3>3. FALSE \in BOOLEAN /\ SubSeq(text, f, l) \in Seq(STRING)
      <4>1. f \in 1 .. Len(text) + 1 /\ l \in 0 .. Len(text)
        BY <2>4
      <4> QED
        BY <4>1, PartIs
    <3>4. RightFor(Finish(FALSE, SubSeq(text, f, l), radix),
                   ReadingOf(FALSE, SubSeq(text, f, l), base))
      BY <1>0, <3>3, FinishRight DEF base
    <3> QED
      BY <2>6, <3>2, <3>4 DEF base
  <2> QED
    BY <2>7, <2>8
<1> QED
  BY <1>1, <1>2

\* And of those.
LEMMA DecimalRight ==
  ASSUME NEW text \in Seq(STRING)
  PROVE  RightFor(ParseWord(text, "Decimal"), Readings(text, 10, {"-"}, << >>))
<1>0. /\ 10 \in Bases /\ "Decimal" \in Radix /\ BaseOf["Decimal"] = 10
      /\ << >> \in BasePrefixes /\ {"-"} \in SUBSET Signs
  BY DEF Bases, Radix, BaseOf, BasePrefixes, Signs
<1>1. ParseWord(text, "Decimal") = Finish(Negative(text), Unsigned(text, {"-"}), "Decimal")
  BY Zenon DEF ParseWord
<1>2. CASE IsSpaces(text)
  <2>1. Readings(text, 10, {"-"}, << >>) = {}
    BY <1>0, <1>2, NothingToRead
  <2>2. Negative(text) = FALSE /\ Unsigned(text, {"-"}) = << >>
    BY <1>2, NothingLeft
  <2>3. ReadingOf(FALSE, << >>, 10) = {}
    BY Zenon DEF ReadingOf, IsNumeral
  <2>4. RightFor(Finish(FALSE, << >>, "Decimal"), ReadingOf(FALSE, << >>, 10))
    <3>1. FALSE \in BOOLEAN /\ << >> \in Seq(STRING)
      OBVIOUS
    <3> QED
      BY <1>0, <3>1, FinishRight
  <2> QED
    BY <1>1, <2>1, <2>2, <2>3, <2>4
<1>3. CASE ~IsSpaces(text)
  <2>1. PICK f, b, l : /\ Parts(text, {"-"}, f, b, l)
                       /\ Negative(text) <=> text[f] = "-"
                       /\ Unsigned(text, {"-"}) = SubSeq(text, b, l)
    BY <1>3, PartsAre
  <2>2. SignIs(text, {"-"}, f, Negative(text))
    <3>1. Negative(text) \in BOOLEAN
      BY DEF Negative, BeginsWith
    <3> QED
      BY <2>1, <3>1 DEF Signed, SignIs
  <2>3. /\ f \in 1 .. Len(text) /\ l \in f .. Len(text) /\ b \in f .. l + 1
        /\ b \in 1 .. Len(text) + 1 /\ l \in 0 .. Len(text) /\ b <= l + 1
    BY <2>1 DEF Parts
  <2>4. Readings(text, 10, {"-"}, << >>) = ReadingOf(Negative(text), SubSeq(text, b, l), 10)
    BY <1>0, <2>1, <2>2, PlainReading
  <2>5. Negative(text) \in BOOLEAN /\ SubSeq(text, b, l) \in Seq(STRING)
    <3>1. SubSeq(text, b, l) \in Seq(STRING)
      BY <2>3, PartIs
    <3> QED
      BY <3>1 DEF Negative, BeginsWith
  <2>6. RightFor(Finish(Negative(text), SubSeq(text, b, l), "Decimal"),
                 ReadingOf(Negative(text), SubSeq(text, b, l), 10))
    BY <1>0, <2>5, FinishRight
  <2> QED
    BY <1>1, <2>1, <2>4, <2>6
<1> QED
  BY <1>2, <1>3

\* What the prefix of a base ends with.
Marks == {"x", "o", "b"}

\* What is left begins with such a prefix.
BeginsBase(text, b, l, ch) == b + 1 <= l /\ text[b] = "0" /\ text[b + 1] = ch

\* Then there is a reading in that base, and else none.
LEMMA PrefixedReading ==
  ASSUME NEW text \in Seq(STRING), NEW base \in Bases, NEW ch \in Marks,
         NEW signs \in SUBSET Signs, NEW f, NEW b, NEW l, Parts(text, signs, f, b, l),
         NEW negative, SignIs(text, signs, f, negative)
  PROVE  Readings(text, base, signs, << "0", ch >>) =
           IF BeginsBase(text, b, l, ch) THEN ReadingOf(negative, SubSeq(text, b + 2, l), base)
           ELSE {}
<1> DEFINE prefix == << "0", ch >>
<1>1. prefix \in BasePrefixes /\ Len(prefix) = 2
  BY DEF BasePrefixes, Marks
<1>2. /\ b \in 1 .. Len(text) + 1 /\ l \in 1 .. Len(text) /\ b \in Int /\ l \in Int
      /\ Len(text) \in Nat
  BY DEF Parts
<1>3. b + 1 <= l => /\ b \in 1 .. Len(text) + 1 /\ b + 1 \in 0 .. Len(text)
                    /\ 1 \in 1 .. (b + 1) - b + 1 /\ 2 \in 1 .. (b + 1) - b + 1
                    /\ b + 1 - 1 = b /\ b + 2 - 1 = b + 1 /\ b <= b + 1 /\ (b + 1) - b + 1 = 2
  BY <1>2
<1>4. b + 1 <= l => (SubSeq(text, b, b + 1) = prefix <=> text[b] = "0" /\ text[b + 1] = ch)
  <2> SUFFICES ASSUME b + 1 <= l
               PROVE  SubSeq(text, b, b + 1) = prefix <=> text[b] = "0" /\ text[b + 1] = ch
    OBVIOUS
  <2> DEFINE part == SubSeq(text, b, b + 1)
  <2>1. /\ part \in Seq(STRING)
        /\ Len(part) = IF b <= b + 1 THEN (b + 1) - b + 1 ELSE 0
        /\ \A i \in 1 .. (b + 1) - b + 1 : part[i] = text[b + i - 1]
    BY <1>3, PartIs
  <2> HIDE DEF part
  <2>2. Len(part) = 2 /\ part[1] = text[b] /\ part[2] = text[b + 1]
    <3>1. part[1] = text[b + 1 - 1] /\ part[2] = text[b + 2 - 1]
      BY <1>3, <2>1
    <3> QED
      BY <1>3, <2>1, <3>1
  <2>3. part = << part[1], part[2] >>
    BY <2>1, <2>2
  <2>4. part = << "0", ch >> <=> part[1] = "0" /\ part[2] = ch
    BY <2>3
  <2> QED
    BY <2>2, <2>4 DEF part
<1> HIDE DEF prefix
<1>5. b + Len(prefix) = b + 2 /\ b + Len(prefix) - 1 = b + 1
  BY <1>1, <1>2
<1>6. prefix \in BasePrefixes
  BY <1>1
<1>7. b \in Int /\ l \in Int
  BY <1>2
<1>8. CASE BeginsBase(text, b, l, ch)
  <2>1. b + Len(prefix) - 1 <= l
    BY <1>5, <1>8 DEF BeginsBase
  <2>3. SubSeq(text, b, b + Len(prefix) - 1) = prefix
    BY <1>4, <1>5, <1>8 DEF BeginsBase
  <2>2. Readings(text, base, signs, prefix) =
          ReadingOf(negative, SubSeq(text, b + Len(prefix), l), base)
    BY <1>6, <1>7, <2>1, <2>3, ReadingLeft
  <2> QED
    BY <1>5, <1>8, <2>2 DEF prefix
<1>9. CASE ~BeginsBase(text, b, l, ch)
  <2>1. ~Read(text, base, prefix, b, l)
    <3> SUFFICES ASSUME Read(text, base, prefix, b, l) PROVE FALSE
      OBVIOUS
    <3>1. b + 2 <= l /\ SubSeq(text, b, b + 1) = prefix
      BY <1>5 DEF Read
    <3>2. b + 1 <= l
      BY <1>2, <3>1
    <3> QED
      BY <1>4, <1>9, <3>1, <3>2 DEF BeginsBase
  <2>2. Readings(text, base, signs, prefix) = {}
    BY <1>1, <2>1, ReadingsAre
  <2> QED
    BY <1>9, <2>2 DEF prefix
<1> QED
  BY <1>8, <1>9

\* A text that begins with a prefix is no decimal.
LEMMA NoDecimal ==
  ASSUME NEW text \in Seq(STRING), NEW ch \in Marks,
         NEW b \in 1 .. Len(text) + 1, NEW l \in 1 .. Len(text), NEW negative, BeginsBase(text, b, l, ch)
  PROVE  ReadingOf(negative, SubSeq(text, b, l), 10) = {}
<1>1. /\ b + 1 \in b .. l /\ b \in 1 .. Len(text) /\ l \in 0 .. Len(text)
      /\ text[b + 1] = ch
  BY DEF BeginsBase
<1>2. 10 \in Bases
  BY DEF Bases
<1>3. ~IsDigit(text[b + 1], 10)
  BY <1>1, <1>2, DigitChars DEF Marks
<1>4. ~IsNumeral(SubSeq(text, b, l), 10)
  BY <1>1, <1>2, <1>3, NoNumeral
<1> QED
  BY <1>4, Zenon DEF ReadingOf

\* The radix parse_prefixed_word goes by, and what it leaves.
LEMMA PrefixRadixIs ==
  ASSUME NEW text \in Seq(STRING), NEW b \in 1 .. Len(text) + 1, NEW l \in 1 .. Len(text),
         b <= l + 1
  PROVE  /\ PrefixRadix(SubSeq(text, b, l)) =
              IF BeginsBase(text, b, l, "x") THEN "Hexadecimal"
              ELSE IF BeginsBase(text, b, l, "o") THEN "Octal"
              ELSE IF BeginsBase(text, b, l, "b") THEN "Binary" ELSE "Decimal"
         /\ b + 1 <= l => SubSeq(SubSeq(text, b, l), 3, Len(SubSeq(text, b, l)))
                            = SubSeq(text, b + 2, l)
<1> DEFINE body == SubSeq(text, b, l)
<1>1. Len(text) \in Nat /\ l \in 0 .. Len(text)
  OBVIOUS
<1>2. Len(body) = IF b <= l THEN l - b + 1 ELSE 0
  BY <1>1, PartIs
<1>3. \A i \in 1 .. l - b + 1 : body[i] = text[b + i - 1]
  BY <1>1, PartIs
<1>4. CASE ~(b + 1 <= l)
  <2>1. Len(body) < 2
    <3> HIDE DEF body
    <3> QED
      BY <1>1, <1>2, <1>4
  <2>2. PrefixRadix(body) = "Decimal"
    BY <2>1, Zenon DEF PrefixRadix
  <2>3. \A ch : ~BeginsBase(text, b, l, ch)
    BY <1>4 DEF BeginsBase
  <2> QED
    BY <1>4, <2>2, <2>3
<1>5. CASE b + 1 <= l
  <2>1. /\ b \in 1 .. Len(text) /\ l \in b .. Len(text) /\ 3 \in 1 .. l - b + 2
        /\ l - b + 1 \in 0 .. l - b + 1 /\ 2 \in 1 .. l - b + 1 /\ b + 2 - 1 = b + 1
        /\ b + 3 - 1 = b + 2 /\ b + (l - b + 1) - 1 = l /\ b <= l /\ ~(l - b + 1 < 2)
    BY <1>1, <1>5
  <2>2. Len(body) = l - b + 1
    <3> HIDE DEF body
    <3> QED
      BY <1>2, <2>1
  <2>3. Head(body) = text[b]
    BY <2>1, HeadTailOfSubSeq
  <2>4. body[2] = text[b + 1]
    <3>1. body[2] = text[b + 2 - 1]
      BY <1>3, <2>1
    <3> QED
      BY <2>1, <3>1
  <2>5. SubSeq(body, 3, Len(body)) = SubSeq(text, b + 2, l)
    <3>1. SubSeq(body, 3, l - b + 1) = SubSeq(text, b + 3 - 1, b + (l - b + 1) - 1)
      BY <2>1, TextOfPart
    <3> HIDE DEF body
    <3> QED
      BY <2>1, <2>2, <3>1
  <2> HIDE DEF body
  <2>6. ~(Len(body) < 2)
    BY <2>1, <2>2
  <2>7. PrefixRadix(body) =
          IF text[b] # "0" THEN "Decimal"
          ELSE CASE text[b + 1] = "x" -> "Hexadecimal" [] text[b + 1] = "o" -> "Octal"
                 [] text[b + 1] = "b" -> "Binary" [] OTHER -> "Decimal"
    BY <2>3, <2>4, <2>6, Zenon DEF PrefixRadix
  <2>8. \A ch : BeginsBase(text, b, l, ch) <=> text[b] = "0" /\ text[b + 1] = ch
    BY <1>5, Zenon DEF BeginsBase
  <2>9. PrefixRadix(body) =
              IF BeginsBase(text, b, l, "x") THEN "Hexadecimal"
              ELSE IF BeginsBase(text, b, l, "o") THEN "Octal"
              ELSE IF BeginsBase(text, b, l, "b") THEN "Binary" ELSE "Decimal"
    <3>1. CASE text[b] # "0"
      BY <2>7, <2>8, <3>1
    <3>2. CASE text[b] = "0" /\ text[b + 1] = "x"
      <4>1. text[b + 1] # "o" /\ text[b + 1] # "b"
        BY <3>2
      <4> QED
        BY <2>7, <2>8, <3>2, <4>1, Zenon
    <3>3. CASE text[b] = "0" /\ text[b + 1] = "o"
      <4>1. text[b + 1] # "x" /\ text[b + 1] # "b"
        BY <3>3
      <4> QED
        BY <2>7, <2>8, <3>3, <4>1, Zenon
    <3>4. CASE text[b] = "0" /\ text[b + 1] = "b"
      <4>1. text[b + 1] # "x" /\ text[b + 1] # "o"
        BY <3>4
      <4> QED
        BY <2>7, <2>8, <3>4, <4>1, Zenon
    <3>5. CASE text[b] = "0" /\ text[b + 1] # "x" /\ text[b + 1] # "o" /\ text[b + 1] # "b"
      BY <2>7, <2>8, <3>5, Zenon
    <3> QED
      BY <3>1, <3>2, <3>3, <3>4, <3>5
  <2> QED
    BY <2>5, <2>9 DEF body
<1> QED
  BY <1>4, <1>5

\* All the readings a literal with a prefix may have.
PrefixedReadings(text) ==
  Readings(text, 10, {"-", "+"}, << >>)
    \cup Readings(text, 16, {"-", "+"}, << "0", "x" >>)
    \cup Readings(text, 8, {"-", "+"}, << "0", "o" >>)
    \cup Readings(text, 2, {"-", "+"}, << "0", "b" >>)

\* Of those, parse_prefixed_word is left with the one there is.
LEMMA PrefixedLeft ==
  ASSUME NEW text \in Seq(STRING), NEW f, NEW b, NEW l, Parts(text, Signs, f, b, l),
         NEW negative \in BOOLEAN, SignIs(text, Signs, f, negative)
  PROVE  LET body == SubSeq(text, b, l)
             radix == PrefixRadix(body)
             digits == IF radix = "Decimal" THEN body ELSE SubSeq(body, 3, Len(body))
         IN  /\ radix \in Radix /\ digits \in Seq(STRING)
             /\ PrefixedReadings(text) = ReadingOf(negative, digits, BaseOf[radix])
<1> DEFINE body == SubSeq(text, b, l)
           X == BeginsBase(text, b, l, "x")
           O == BeginsBase(text, b, l, "o")
           B == BeginsBase(text, b, l, "b")
           behind == SubSeq(text, b + 2, l)
           radix == PrefixRadix(body)
           digits == IF radix = "Decimal" THEN body ELSE SubSeq(body, 3, Len(body))
<1>1. /\ b \in 1 .. Len(text) + 1 /\ l \in 1 .. Len(text) /\ b <= l + 1 /\ l \in 0 .. Len(text)
      /\ b + 1 <= l => b + 2 \in 1 .. Len(text) + 1
  BY DEF Parts
<1>2. Signs \in SUBSET Signs /\ 10 \in Bases /\ 16 \in Bases /\ 8 \in Bases /\ 2 \in Bases
      /\ "x" \in Marks /\ "o" \in Marks /\ "b" \in Marks
  BY DEF Bases, Marks
<1>3. Readings(text, 10, Signs, << >>) = ReadingOf(negative, body, 10)
  <2>1. Signs \in SUBSET Signs /\ 10 \in Bases
    BY <1>2
  <2> QED
    BY <2>1, PlainReading
<1>4. \A base \in Bases, ch \in Marks :
        Readings(text, base, Signs, << "0", ch >>) =
          IF BeginsBase(text, b, l, ch) THEN ReadingOf(negative, behind, base) ELSE {}
  <2>1. Signs \in SUBSET Signs
    OBVIOUS
  <2> QED
    BY <2>1, PrefixedReading
<1>5. /\ Readings(text, 16, Signs, << "0", "x" >>) = IF X THEN ReadingOf(negative, behind, 16) ELSE {}
      /\ Readings(text, 8, Signs, << "0", "o" >>) = IF O THEN ReadingOf(negative, behind, 8) ELSE {}
      /\ Readings(text, 2, Signs, << "0", "b" >>) = IF B THEN ReadingOf(negative, behind, 2) ELSE {}
  BY <1>2, <1>4, Zenon
<1>6. (X \/ O \/ B) => ReadingOf(negative, body, 10) = {}
  <2>1. \A ch \in Marks : BeginsBase(text, b, l, ch) => ReadingOf(negative, body, 10) = {}
    BY <1>1, NoDecimal
  <2> QED
    BY <1>2, <2>1, Zenon
<1>7. /\ X => ~O /\ ~B
      /\ O => ~X /\ ~B
      /\ B => ~X /\ ~O
  BY DEF BeginsBase
<1>8. radix = IF X THEN "Hexadecimal" ELSE IF O THEN "Octal" ELSE IF B THEN "Binary" ELSE "Decimal"
  BY <1>1, PrefixRadixIs, Zenon
<1>9. (X \/ O \/ B) => b + 1 <= l
  BY Zenon DEF BeginsBase
<1>10. b + 1 <= l => SubSeq(body, 3, Len(body)) = behind
  BY <1>1, PrefixRadixIs
<1>11. /\ BaseOf["Hexadecimal"] = 16 /\ BaseOf["Octal"] = 8 /\ BaseOf["Binary"] = 2
       /\ BaseOf["Decimal"] = 10
       /\ {"Hexadecimal", "Octal", "Binary", "Decimal"} \subseteq Radix
  BY DEF BaseOf, Radix
<1>12. body \in Seq(STRING) /\ (b + 1 <= l => behind \in Seq(STRING))
  <2>1. body \in Seq(STRING)
    BY <1>1, PartIs
  <2>2. ASSUME b + 1 <= l PROVE behind \in Seq(STRING)
    BY <1>1, <2>2, PartIs
  <2> QED
    BY <2>1, <2>2
<1>13. PrefixedReadings(text) =
         ReadingOf(negative, body, 10)
           \cup (IF X THEN ReadingOf(negative, behind, 16) ELSE {})
           \cup (IF O THEN ReadingOf(negative, behind, 8) ELSE {})
           \cup (IF B THEN ReadingOf(negative, behind, 2) ELSE {})
  BY <1>3, <1>5, Zenon DEF PrefixedReadings, Signs
<1> HIDE DEF body, behind, X, O, B, radix
<1>14. CASE X
  <2>1. radix = "Hexadecimal" /\ digits = behind
    BY <1>8, <1>9, <1>10, <1>14
  <2>2. PrefixedReadings(text) = ReadingOf(negative, behind, 16)
    BY <1>6, <1>7, <1>13, <1>14
  <2> HIDE DEF digits
  <2>3. radix \in Radix /\ digits \in Seq(STRING)
    BY <1>9, <1>11, <1>12, <1>14, <2>1
  <2>4. PrefixedReadings(text) = ReadingOf(negative, digits, BaseOf[radix])
    BY <1>11, <2>1, <2>2
  <2> QED
    BY <2>3, <2>4 DEF digits, radix, body
<1>15. CASE O
  <2>1. radix = "Octal" /\ digits = behind
    BY <1>7, <1>8, <1>9, <1>10, <1>15
  <2>2. PrefixedReadings(text) = ReadingOf(negative, behind, 8)
    BY <1>6, <1>7, <1>13, <1>15
  <2> HIDE DEF digits
  <2>3. radix \in Radix /\ digits \in Seq(STRING)
    BY <1>9, <1>11, <1>12, <1>15, <2>1
  <2>4. PrefixedReadings(text) = ReadingOf(negative, digits, BaseOf[radix])
    BY <1>11, <2>1, <2>2
  <2> QED
    BY <2>3, <2>4 DEF digits, radix, body
<1>16. CASE B
  <2>1. radix = "Binary" /\ digits = behind
    BY <1>7, <1>8, <1>9, <1>10, <1>16
  <2>2. PrefixedReadings(text) = ReadingOf(negative, behind, 2)
    BY <1>6, <1>7, <1>13, <1>16
  <2> HIDE DEF digits
  <2>3. radix \in Radix /\ digits \in Seq(STRING)
    BY <1>9, <1>11, <1>12, <1>16, <2>1
  <2>4. PrefixedReadings(text) = ReadingOf(negative, digits, BaseOf[radix])
    BY <1>11, <2>1, <2>2
  <2> QED
    BY <2>3, <2>4 DEF digits, radix, body
<1>17. CASE ~X /\ ~O /\ ~B
  <2>1. radix = "Decimal" /\ digits = body
    BY <1>8, <1>17
  <2>2. PrefixedReadings(text) = ReadingOf(negative, body, 10)
    BY <1>13, <1>17
  <2> HIDE DEF digits
  <2>3. radix \in Radix /\ digits \in Seq(STRING)
    BY <1>11, <1>12, <2>1
  <2>4. PrefixedReadings(text) = ReadingOf(negative, digits, BaseOf[radix])
    BY <1>11, <2>1, <2>2
  <2> QED
    BY <2>3, <2>4 DEF digits, radix, body
<1> QED
  BY <1>14, <1>15, <1>16, <1>17

\* So it is right.
LEMMA PrefixedRight ==
  ASSUME NEW text \in Seq(STRING)
  PROVE  RightFor(ParsePrefixedWord(text), PrefixedReadings(text))
<1> DEFINE body == Unsigned(text, {"-", "+"})
           radix == PrefixRadix(body)
           digits == IF radix = "Decimal" THEN body ELSE SubSeq(body, 3, Len(body))
<1>1. ParsePrefixedWord(text) = Finish(Negative(text), digits, radix)
  BY Zenon DEF ParsePrefixedWord
<1> HIDE DEF body
<1>2. CASE IsSpaces(text)
  <2>1. Negative(text) = FALSE /\ body = << >>
    BY <1>2, NothingLeft DEF body
  <2>2. radix = "Decimal"
    <3>1. Len(<< >>) < 2
      OBVIOUS
    <3> QED
      BY <2>1, <3>1, Zenon DEF PrefixRadix
  <2>3. ParsePrefixedWord(text) = Finish(FALSE, << >>, "Decimal")
    BY <1>1, <2>1, <2>2, Zenon
  <2>4. PrefixedReadings(text) = {}
    <3>1. /\ {"-", "+"} \in SUBSET Signs /\ 10 \in Bases /\ 16 \in Bases /\ 8 \in Bases /\ 2 \in Bases
          /\ << >> \in BasePrefixes /\ << "0", "x" >> \in BasePrefixes
          /\ << "0", "o" >> \in BasePrefixes /\ << "0", "b" >> \in BasePrefixes
      BY DEF Signs, Bases, BasePrefixes
    <3>2. \A base \in Bases, prefix \in BasePrefixes, signs \in SUBSET Signs :
            Readings(text, base, signs, prefix) = {}
      BY <1>2, NothingToRead
    <3>3. /\ Readings(text, 10, {"-", "+"}, << >>) = {}
          /\ Readings(text, 16, {"-", "+"}, << "0", "x" >>) = {}
          /\ Readings(text, 8, {"-", "+"}, << "0", "o" >>) = {}
          /\ Readings(text, 2, {"-", "+"}, << "0", "b" >>) = {}
      BY <3>1, <3>2, Zenon
    <3> QED
      BY <3>3, Zenon DEF PrefixedReadings
  <2>5. RightFor(Finish(FALSE, << >>, "Decimal"), ReadingOf(FALSE, << >>, BaseOf["Decimal"]))
    <3>1. FALSE \in BOOLEAN /\ << >> \in Seq(STRING) /\ "Decimal" \in Radix
      BY DEF Radix, BaseOf
    <3> QED
      BY <3>1, FinishRight
  <2>6. ReadingOf(FALSE, << >>, BaseOf["Decimal"]) = {}
    BY Zenon DEF ReadingOf, IsNumeral
  <2> QED
    BY <2>3, <2>4, <2>5, <2>6
<1>3. CASE ~IsSpaces(text)
  <2>1. PICK f, b, l : /\ Parts(text, Signs, f, b, l)
                       /\ Negative(text) <=> text[f] = "-"
                       /\ Unsigned(text, Signs) = SubSeq(text, b, l)
    BY <1>3, PartsAre
  <2>2. Negative(text) \in BOOLEAN
    BY DEF Negative, BeginsWith
  <2>3. SignIs(text, Signs, f, Negative(text))
    BY <2>1, <2>2 DEF SignIs, Signed, Signs
  <2>4. body = SubSeq(text, b, l)
    BY <2>1 DEF body, Signs
  <2>5. /\ radix \in Radix /\ digits \in Seq(STRING)
        /\ PrefixedReadings(text) = ReadingOf(Negative(text), digits, BaseOf[radix])
    BY <2>1, <2>2, <2>3, <2>4, PrefixedLeft
  <2> HIDE DEF radix, digits
  <2>6. RightFor(Finish(Negative(text), digits, radix), ReadingOf(Negative(text), digits, BaseOf[radix]))
    BY <2>2, <2>5, FinishRight
  <2> QED
    BY <1>1, <2>5, <2>6
<1> QED
  BY <1>2, <1>3

\* Whatever is typed as a literal, the reader of a directive takes it for what
\* it means in its base, and parse_prefixed_word for what it means with its
\* prefix: the word of the one reading it has when that is in range, and an
\* error of the right kind when it has none or one that is not.
THEOREM LiteralsAreRead == TypingSpec => []LiteralsReadRight
<1>1. TypedOK => LiteralsReadRight
  <2> SUFFICES ASSUME TypedOK, IsLiteral PROVE LiteralsReadRight
    BY DEF LiteralsReadRight
  <2> DEFINE text == typed.text
  <2>1. text \in Seq(STRING)
    BY DEF TypedOK
  <2> HIDE DEF text
  <2>2. \A radix \in Radix \ {"Decimal"} :
          RightFor(ParseWord(text, radix), Readings(text, BaseOf[radix], {}, << >>))
    BY <2>1, UnsignedRight
  <2>3. RightFor(ParseWord(text, "Decimal"), Readings(text, 10, {"-"}, << >>))
    BY <2>1, DecimalRight
  <2>4. RightFor(ParsePrefixedWord(text), PrefixedReadings(text))
    BY <2>1, PrefixedRight
  <2> QED
    BY <2>2, <2>3, <2>4, Zenon DEF LiteralsReadRight, PrefixedReadings, text
<1> QED
  BY <1>1, TypingInvariance, PTL
=============================================================================
