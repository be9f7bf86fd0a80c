----------------------------- MODULE MCMarieArch -----------------------------
(***************************************************************************)
(* Every program of four words drawn from a set that between them holds    *)
(* each opcode, so that every instruction meets operands, accumulators and *)
(* program counters its neighbours left behind; and every program of three *)
(* words about what the linter tells apart, the last one code or data.     *)
(***************************************************************************)
EXTENDS LintedRuns

\* opcode nibble n with operand x.
W(n, x) == n * MemoryWords + x

\* Calls, stores and jumps into one another's words; arithmetic over code;
\* conditions on both sides of every skip; pointers; and what stops.
FlowWords == { W(0, 2), W(2, 1), W(9, 3), W(12, 1) }
ArithmeticWords == { W(1, 3), W(3, 0), W(4, 1), W(5, 0) }
SkipWords == { W(8, 0), W(8, 2), W(10, 1) }
IndirectWords == { W(11, 0), W(13, 2), W(14, 1) }
StopWords == { W(8, 1), W(8, 3), W(6, 0), W(7, 0), W(15, 0) }

Programs4(words, first) == { p \in [1 .. 4 -> words] : p[1] = first }

FullPrograms ==
  Programs4(FlowWords, W(0, 2)) \cup Programs4(ArithmeticWords, W(5, 0))
    \cup Programs4(SkipWords, W(10, 1))
    \cup Programs4(IndirectWords, W(13, 2))
    \cup Programs4(StopWords, W(6, 0))

\* Stores into code and into data, calls, loops, skips and stops.
LintWords == { W(2, 1), W(2, 3), W(8, 1), W(9, 1), W(0, 2), W(7, 0) }
LintPrograms == [1 .. 3 -> LintWords]

Mnemonic(word) ==
  IF Decode(word) = NoInstruction THEN "Hex"
  ELSE IF word = W(10, 0) THEN "Clear" ELSE Decode(word).opcode

\* The words from the one numbered d on are data.
WrittenAs(words, origin, d) ==
  Listing(origin, [i \in DOMAIN words |-> IF i >= d THEN "Hex" ELSE Mnemonic(words[i])],
          words)

MCListings ==
  { WrittenAs(p, 0, 5) : p \in FullPrograms }
    \cup { WrittenAs(p, 1, d) : p \in LintPrograms, d \in {3, 4} }
=============================================================================
