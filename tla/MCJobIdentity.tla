---------------------------- MODULE MCJobIdentity ----------------------------
(* Small instances of JobIdentity. *)
EXTENDS JobIdentity, TLC

Symmetry == Permutations(Callers) \cup Permutations(Fingerprints)
=============================================================================
