---------------------------- MODULE MCConversion ----------------------------
(* Small instances of Conversion.                                          *)
EXTENDS Conversion, TLC

CONSTANTS r1, r2

Symmetry == Permutations(Runs)
=============================================================================
