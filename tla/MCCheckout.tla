----------------------------- MODULE MCCheckout -----------------------------
(* Small instances of Checkout for TLC. *)
EXTENDS Checkout, TLC

\* Builds are interchangeable: none is named anywhere in the specification.
Symmetry == Permutations(Builds)
=============================================================================
