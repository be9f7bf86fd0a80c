------------------------------ MODULE LintedRuns ------------------------------
(***************************************************************************)
(* What the linter says of a program, and what the program then does: the  *)
(* machine of MarieArch runs a program the linter has looked at, which is  *)
(* the whole of memory but for zeros, until it is reset.                   *)
(***************************************************************************)
EXTENDS MarieArch, LintGraph

CONSTANT Listings      \* the programs, as they were written

ASSUME ListingsAssumption ==
  \A p \in Listings :
    /\ p.origin \in Addr
    /\ p.origin + Len(p.words) <= MemoryWords
    /\ p.words \in Seq(Word)
    /\ p.mnemonics \in [Indices(p) -> ListingMnemonic]
    /\ \A i \in CodeWords(p) : Decode(p.words[i]).opcode = EffectiveOpcode(p, i)

VARIABLES
  listing,    \* the program in memory, or NoListing
  report      \* what the linter found in it

NoListing == Listing(0, << >>, << >>)

\* The findings a flow of control can contradict.
Report(p) ==
  [exact |-> Exact(p),
   dead |-> UnreachableInstruction(p),
   endless |-> MissingHalt(p) # {},
   leaves |-> FallsIntoData(p) \cup FallsOffEnd(p) \cup JumpsOutside(p),
   rewrites |-> JnsOverwritesCode(p) \cup SelfModifyingCode(p)]

Contents(p) ==
  [a \in Addr |-> IF a \in Occupied(p) THEN p.words[IndexOf(p, a)] ELSE 0]

\* A program is loaded at its origin and begins there.
LintedInit ==
  /\ listing \in Listings
  /\ InitWith(Contents(listing), listing.origin)
  /\ arch = View
  /\ report = Report(listing)

\* A reset takes the program out of the machine.
LintedNext ==
  /\ ArchNext
  /\ IF state' = "Ready" /\ arch' # arch
     THEN listing' = NoListing /\ report' = Report(NoListing)
     ELSE UNCHANGED << listing, report >>

LintedSpec == LintedInit /\ [][LintedNext]_<< vars, arch, listing, report >>

-----------------------------------------------------------------------------
(* Properties.                                                             *)

\* The machine is at the beginning of an instruction of the program that
\* stands in memory as it was written.
AtWrittenCode ==
  /\ arch.pc \in Occupied(listing)
  /\ IndexOf(listing, arch.pc) \in CodeWords(listing)
  /\ arch.memory[arch.pc] = listing.words[IndexOf(listing, arch.pc)]

\* An edge that leads to an address.
LeadsTo(e, a) ==
  CASE e.edge = "Word" -> a = AddressAt(listing, e.index)
    [] e.edge = "Outside" -> a = e.address
    [] e.edge = "OffEnd" ->
         a \in { Masked(AddressAt(listing, Len(listing.words)) + k) : k \in {1, 2} }
    [] OTHER -> TRUE

\* Every instruction that completes goes where the graph has an edge for it,
\* or is one the graph does not claim to see: no micro-program moves the
\* program counter in a way the linter's table of successors leaves out.
ExecutionFollowsEdges ==
  [][arch' # arch /\ AtWrittenCode /\ listing' = listing =>
       \E e \in Edges(listing, IndexOf(listing, arch.pc)) :
         LeadsTo(e, arch'.pc)]_<< vars, arch, listing, report >>

\* A program with a graph that is exact, in which no path leaves the code and
\* nothing writes over code that runs, never runs anything else: at every
\* boundary the machine stands at a word the linter does not call dead, and
\* the word is the instruction that was written there.  It does not halt if
\* the linter says so.
CleanProgramStaysInCode ==
  /\ listing.words # << >>
  /\ report.exact /\ report.leaves = {} /\ report.rewrites = {}
  => /\ AtWrittenCode
     /\ IndexOf(listing, arch.pc) \notin report.dead
     /\ report.endless => outcome # "Halted"
=============================================================================
