------------------------------- MODULE Timeline -------------------------------
(***************************************************************************)
(* What stepping backwards promises: a machine that moves along a line of  *)
(* its own past states.  `past` is the part of the line that can still be  *)
(* walked back, oldest first.  Moving on lengthens it and may let go of    *)
(* its oldest part; while the machine is being rewound it either goes back *)
(* to the very state it came from, or does not move at all.                *)
(***************************************************************************)
EXTENDS Naturals, Sequences, SequencesExt

VARIABLES
  now,         \* the machine
  past,        \* the states it can be taken back to
  rewinding    \* a call that steps backwards is in progress

tvars == << now, past, rewinding >>

Init == past = << >> /\ rewinding = FALSE

\* t is what is left of s when its oldest elements are let go of.
Keeps(t, s) ==
  Len(t) <= Len(s) /\ t = SubSeq(s, Len(s) - Len(t) + 1, Len(s))

\* The machine runs on, leaving its state behind it.
Advance == ~rewinding /\ Keeps(past', Append(past, now))

\* Nothing moves, but the limit may shrink or the line be cut.
Forget == now' = now /\ ~rewinding /\ Keeps(past', past)

\* The machine is replaced, or changed behind the journal's back.
Replace == ~rewinding /\ past' = << >>

Back == rewinding /\ past # << >> /\ now' = Last(past) /\ past' = Front(past)

\* Nothing is promised of operations older than the last Replace.
BackBeyond == rewinding /\ past = << >> /\ past' = << >>

Refuse == rewinding /\ now' = now /\ past' = past

Next == Advance \/ Forget \/ Replace \/ Back \/ BackBeyond \/ Refuse

Spec == Init /\ [][Next]_tvars
=============================================================================
