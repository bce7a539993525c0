--------------------------- MODULE MCBreakpoints ---------------------------
(* Instances of Breakpoints for TLC. *)
EXTENDS Breakpoints, TLC

\* addresses are interchangeable
Addresses == Permutations(Nodes) \cup Permutations(Trees)
=============================================================================
