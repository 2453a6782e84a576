--------------------------- MODULE MCSealedOutput ---------------------------
(* Model-checking instance: firmware contents and images are interchangeable. *)
EXTENDS SealedOutput, TLC

Symmetry == Permutations(Firmwares) \cup Permutations(Images) \cup Permutations(Cmds)
=============================================================================
