------------------------------ MODULE MCSessions ----------------------------
(***************************************************************************)
(* Requests that may be any handler and are interchangeable.               *)
(***************************************************************************)
EXTENDS Sessions, TLC

Symmetry == Permutations(Requests)

=============================================================================
