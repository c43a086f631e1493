------------------------------ MODULE MCReporting ------------------------------
(***************************************************************************)
(* A rule with two selectors; gates without a policy, with acceptances,    *)
(* and with a threshold; windows within a day and over midnight.           *)
(***************************************************************************)
EXTENDS Reporting

CONSTANTS rule, none, s1, s2

MCPolicies ==
    {NoPolicy,
     [gates |-> Classes, accepted |-> {Starved, Degraded(s1, "stale"), MissingField(s2)}, spares |-> FALSE],
     [gates |-> Classes, accepted |-> {}, spares |-> TRUE]}

MCWindows == {w \in Window : w.days \in {{}, {0}, {6}, {0, 2}}}
=============================================================================
