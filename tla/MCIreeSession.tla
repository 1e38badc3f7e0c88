-------------------------- MODULE MCIreeSession --------------------------
(* Small instances of IreeSession for TLC. *)
EXTENDS IreeSession

CONSTANTS a, b, pad, zero, idle

TwoTokens == {a, b}

SeqsUpTo(n) == UNION {[1..m -> Tokens] : m \in 0..n}

\* Every prompt, the empty one and one longer than the session allows included.
AllPrompts == SeqsUpTo(MaxSeq + 1)

\* Two prompts of every length, which differ in their order of tokens too.
SomePrompts ==
  UNION {{[i \in 1..m |-> a], [i \in 1..m |-> IF i % 2 = 1 THEN b ELSE a]} :
           m \in 0..(MaxSeq + 1)}
===========================================================================
