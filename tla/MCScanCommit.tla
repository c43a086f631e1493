---------------------------- MODULE MCScanCommit ----------------------------
(***************************************************************************)
(* Small fleets of deadair processes for ScanCommit: which processes there *)
(* are, what they write and what they scan is chosen by each .cfg.         *)
(***************************************************************************)
EXTENDS ScanCommit, TLC

CONSTANTS p1, p2, p3, t1, t2, none, empty, a

OneTarget == [p \in Scans |-> [i \in Instances |-> t1]]

JsonScans == [p \in Scans |-> <<"json">>]

\* A scan on the terminal, a serve loop and a candidate scan.
MixedOutputs ==
    [p \in Scans |-> IF p = p1 THEN <<"text">> ELSE IF p \in Serving THEN <<"publish">> ELSE <<"json">>]

\* A file of an earlier version that has seen one low scan of every source.
OldFile == {[target |-> None,
             src |-> [s \in Sources |-> [snap |-> [schema |-> a, origin |-> None], streak |-> 1]]]}

\* A scan that prints its summary on the terminal.
TextScans == [p \in Scans |-> <<"text">>]
=============================================================================
