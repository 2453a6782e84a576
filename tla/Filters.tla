------------------------------ MODULE Filters -------------------------------
(* Filters of sequences.  They do what SelectSeq does, and unlike it have a *)
(* definition that a proof can expand.                                      *)
EXTENDS SequencesExt

\* The elements of s that are in V, in their order.
Keep(s, V) == FlattenSeq([i \in DOMAIN s |-> IF s[i] \in V THEN <<s[i]>> ELSE <<>>])

\* The elements of s that pass the test, in their order.
Where(s, Test(_)) == Keep(s, {x \in ToSet(s) : Test(x)})
=============================================================================
