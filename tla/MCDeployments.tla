---------------------------- MODULE MCDeployments ----------------------------
(***************************************************************************)
(* Two deployments of deadair whose processes overlap on their state       *)
(* files.  The .cfg describes the first, of one source and one file: a     *)
(* serve loop, and a scan with --json-out and --json.  In the second, a    *)
(* fleet scan and a candidate scan were given the same two state files for *)
(* the same backends the other way round; an earlier version may have left *)
(* the files.                                                              *)
(***************************************************************************)
EXTENDS ScanCommit

CONSTANTS p1, p2, t1, t2, none, empty, a

VARIABLE deployment

ServeOutputs == [p \in Scans |-> IF p = p1 THEN <<"publish">> ELSE <<"file", "json">>]

OneTarget == [p \in Scans |-> <<t1>>]

\* A file of an earlier version.
OldFile == [target |-> None,
            src |-> [s \in Sources |-> [snap |-> [schema |-> empty, origin |-> None], streak |-> 0]]]

Swapped == INSTANCE ScanCommit WITH
    Candidates <- {p2}, Serving <- {},
    Outputs <- [p \in Scans |-> <<"json">>],
    TargetOf <- [p \in Scans |-> IF p = p1 THEN <<t1, t2>> ELSE <<t2, t1>>],
    Targets <- {t1, t2}, Fleet <- 2, FleetFile <- TRUE, Schemas <- {empty}, MaxRemaps <- 0,
    Legacy <- {OldFile}

\* Volumes are normal in the second deployment: what is in question there is whose history
\* a file holds.
Steady ==
    \A p \in Scans, i \in 1..2, s \in Sources : mem[p][i] # None => mem[p][i].src[s].streak = 0

DeploymentsInit ==
    \/ deployment = "serve" /\ Init
    \/ deployment = "swapped" /\ Swapped!Init

DeploymentsNext ==
    /\ \/ deployment = "serve" /\ Next
       \/ deployment = "swapped" /\ Swapped!Next /\ Steady'
    /\ UNCHANGED deployment

DeploymentsSpec == DeploymentsInit /\ [][DeploymentsNext]_<<vars, deployment>>
=============================================================================
