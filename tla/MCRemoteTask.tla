---------------------------- MODULE MCRemoteTask ----------------------------
(***************************************************************************)
(* A small instance of RemoteTask: one plan of each retention.             *)
(***************************************************************************)
EXTENDS RemoteTask, TLC

CONSTANTS kept, dropped, s1, s2

Symmetry == Permutations(Slots)
=============================================================================
