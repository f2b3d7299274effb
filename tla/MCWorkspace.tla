---------------------------- MODULE MCWorkspace ----------------------------
(* Small instances of Workspace.                                           *)
EXTENDS Workspace, TLC

CONSTANTS p1, p2, p3
=============================================================================
