--------------------------- MODULE MCSourceHistory ---------------------------
(***************************************************************************)
(* One source over a few hours, with two baseline slots.                   *)
(***************************************************************************)
EXTENDS SourceHistory

CONSTANTS none, empty, a
=============================================================================
