---------------------------- MODULE ClientText ------------------------------
(***************************************************************************)
(* The text of a client before its caret, as the front ends see it: a      *)
(* sequence of letters, each the number of the key that wrote it.          *)
(***************************************************************************)
EXTENDS SequencesExt, Integers

\* The text t without its last b letters, and then the letters s.
Rewritten(t, b, s) == SubSeq(t, 1, Len(t) - b) \o s

\* How many items of the sequence q are in S.
HowMany(q, S) == Cardinality({i \in 1 .. Len(q) : q[i] \in S})

\* c letters written by key n.
Letters(n, c) == [i \in 1 .. c |-> n]
=============================================================================
