---------------------------- MODULE MCBinaryPrinter ----------------------------
(***************************************************************************)
(* Two processes, one with two modules and one with a single one, and      *)
(* three names for temporary files: as many as there are modules, so that  *)
(* a name is used again after its file is removed.                         *)
(***************************************************************************)
EXTENDS BinaryPrinter, TLC

CONSTANTS p1, p2, n1, n2, n3

MCNMod  == [p \in {p1, p2} |-> IF p = p1 THEN 2 ELSE 1]
Symmetric == Permutations({n1, n2, n3})
===============================================================================
