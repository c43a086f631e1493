---------------------------- MODULE MCSecureFile ----------------------------
(***************************************************************************)
(* Two writers of two values on one path, on either platform.              *)
(***************************************************************************)
EXTENDS SecureFile, TLC

CONSTANTS w1, w2, v1, v2

MCWriters == {w1, w2}
MCValues == {v1, v2}
=============================================================================
