--------------------------- MODULE MCKernelCache ----------------------------
(* Small instances of KernelCache for TLC. *)
EXTENDS KernelCache, TLC

\* Runs are interchangeable, and so are the package lists.
Symmetry == Permutations(Runs) \cup Permutations(Packages)
=============================================================================
