---------------------------- MODULE MCDesktopApp ----------------------------
(***************************************************************************)
(* Small instances of DesktopApp.                                          *)
(***************************************************************************)
EXTENDS DesktopApp, TLC

CONSTANTS f1, f2, c1, c2

Symmetry == Permutations(Calls)
=============================================================================
