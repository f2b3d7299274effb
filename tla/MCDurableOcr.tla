---------------------------- MODULE MCDurableOcr ----------------------------
(***************************************************************************)
(* Small instances of DurableOcr.  A provider answers x or y, with a raw   *)
(* artifact each, or z, without one; native text has none either.          *)
(***************************************************************************)
EXTENDS DurableOcr, TLC

CONSTANTS native, x, y, z, rx, ry

RawArtifact == [d \in Evidence |-> CASE d = x -> rx [] d = y -> ry [] OTHER -> Null]

Symmetry == Permutations(Processes)
=============================================================================
