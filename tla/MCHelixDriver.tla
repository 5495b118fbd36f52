--------------------------- MODULE MCHelixDriver ---------------------------
(* HelixDriver with two processes that build the same executable.            *)
EXTENDS HelixDriver, TLC

CONSTANTS p1, p2, o1

MCProcs   == {p1, p2}
MCOutputs == {o1}

(* The processes have no order.                                             *)
MCSymmetry == Permutations(MCProcs)

=============================================================================
