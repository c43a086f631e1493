-------------------------- MODULE MCFindingLifecycle --------------------------
(***************************************************************************)
(* A rule with two selectors.                                              *)
(***************************************************************************)
EXTENDS FindingLifecycle

CONSTANTS rule, s1, s2
=============================================================================
