------------------------------- MODULE Loading -------------------------------
(***************************************************************************)
(* How a program file becomes the contents of a machine: the memory image  *)
(* format (mrs-core/src/image.rs), what `marie asm` writes, and what       *)
(* input.rs makes of a file and of --origin.  A byte is half a word: with  *)
(* ByteCount = 256 the image format is the code's.  Source files are those *)
(* that assemble, and stand for the words and the ORG they assemble to.    *)
(***************************************************************************)
EXTENDS MarieWord, Sequences

CONSTANT ByteCount

ASSUME ByteAssumption == ByteCount \in Nat /\ ByteCount * ByteCount = WordCount

Byte == 0 .. ByteCount - 1

-----------------------------------------------------------------------------
(* The image format.                                                       *)

\* encode_words, little-endian.
EncodeWords(words) ==
  [i \in 1 .. 2 * Len(words) |->
     IF i % 2 = 1 THEN words[(i + 1) \div 2] % ByteCount
     ELSE words[i \div 2] \div ByteCount]

EncodeImage(image) == EncodeWords([i \in 1 .. MemoryWords |-> image[i - 1]])

\* decode_words, and its two refusals.
DecodeFault(bytes) ==
  IF Len(bytes) % 2 # 0 THEN "OddLength"
  ELSE IF Len(bytes) \div 2 > MemoryWords THEN "TooLarge" ELSE "None"

DecodeWords(bytes) ==
  [i \in 1 .. Len(bytes) \div 2 |-> bytes[2 * i - 1] + ByteCount * bytes[2 * i]]

IsFullImage(bytes) == Len(bytes) = 2 * MemoryWords

-----------------------------------------------------------------------------
(* Files and options.                                                      *)

\* No --origin, and no ORG.
Unset == -1
OrZero(origin) == IF origin = Unset THEN 0 ELSE origin

Source(words, org) == [format |-> "Asm", words |-> words, org |-> org]
Bin(bytes) == [format |-> "Bin", bytes |-> bytes]

\* Memory with words from an address on, and zeros elsewhere: Assembly::image,
\* and what load_program leaves in a new machine.
Placed(words, at_) ==
  [a \in Addr |-> IF a \in at_ .. at_ + Len(words) - 1
                  THEN words[a - at_ + 1] ELSE 0]

\* What `marie asm -o` writes for a source file, with and without --bare.
WrittenImage(file) == Bin(EncodeImage(Placed(file.words, OrZero(file.org))))
WrittenBare(file) == Bin(EncodeWords(file.words))

\* load_image's and load_source's refusals.
LoadFault(file, option) ==
  IF file.format = "Asm"
  THEN IF option # Unset /\ file.org # Unset /\ file.org # option
       THEN "OriginConflict" ELSE "None"
  ELSE IF DecodeFault(file.bytes) # "None" THEN DecodeFault(file.bytes)
       ELSE IF /\ ~IsFullImage(file.bytes)
               /\ Len(DecodeWords(file.bytes)) + OrZero(option) > MemoryWords
            THEN "DoesNotFit" ELSE "None"

\* A faulty load that begins a full image at zero, whatever --origin says.
LoadedFromZero(file, option) ==
  IF file.format = "Asm"
  THEN [words |-> file.words, load_at |-> OrZero(file.org),
        entry |-> OrZero(file.org), full_image |-> FALSE]
  ELSE LET full == IsFullImage(file.bytes)
           to == IF full THEN 0 ELSE OrZero(option)
       IN  [words |-> DecodeWords(file.bytes), load_at |-> to, entry |-> to,
            full_image |-> full]

\* load: the words, where they go and where execution begins.  Source goes to
\* its ORG, or to zero; --origin is not looked at again.
Loaded(file, option) ==
  IF file.format = "Asm"
  THEN [words |-> file.words, load_at |-> OrZero(file.org),
        entry |-> OrZero(file.org), full_image |-> FALSE]
  ELSE LET full == IsFullImage(file.bytes)
       IN  [words |-> DecodeWords(file.bytes),
            load_at |-> IF full THEN 0 ELSE OrZero(option),
            entry |-> OrZero(option), full_image |-> full]

-----------------------------------------------------------------------------
(* What a file means.                                                      *)

\* The source a file was written from, and the --origin with which it is said
\* to run as that source does.  Any other --origin begins an image elsewhere, is
\* refused for source with an ORG, and ought to move source without.
RunsAs(file, option, source) ==
  \/ file = source /\ option \in {Unset, OrZero(source.org)}
  \/ /\ file \in {WrittenImage(source), WrittenBare(source)}
     /\ OrZero(option) = OrZero(source.org)
=============================================================================
