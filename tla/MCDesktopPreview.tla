-------------------------- MODULE MCDesktopPreview --------------------------
(***************************************************************************)
(* A small instance of DesktopPreview: the previews by themselves, the     *)
(* estimates by themselves, and one of each with a conversion.             *)
(***************************************************************************)
EXTENDS DesktopPreview

CONSTANTS s1, s2

Budget(c, p, e, o, v) ==
  [change |-> c, preview |-> p, estimate |-> e, open |-> o, convert |-> v]
MCBudgets ==
  {Budget(2, 2, 0, 2, 0), Budget(0, 1, 2, 2, 1), Budget(1, 1, 1, 1, 1), Budget(1, 0, 2, 1, 2)}
=============================================================================
