---------------------------- MODULE MCServeLoop ----------------------------
(***************************************************************************)
(* Two instances, two scrapes and three cycles.                            *)
(***************************************************************************)
EXTENDS ServeLoop
=============================================================================
