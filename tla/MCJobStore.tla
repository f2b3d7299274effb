----------------------------- MODULE MCJobStore -----------------------------
(* An instance of JobStore for TLC.                                        *)
EXTENDS JobStore

CONSTANTS a, b, x, y
=============================================================================
