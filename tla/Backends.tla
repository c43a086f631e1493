-------------------------------- MODULE Backends --------------------------------
(***************************************************************************)
(* internal/backend: a scan reads one SIEM through the adapter its         *)
(* configuration selects.  Of an adapter, what runs concurrently and what  *)
(* is concluded from its answers are looked at by themselves, as nothing   *)
(* but the answers passes from one to the other: "search" is a call of the *)
(* Elastic or the OpenSearch adapter, "client" the requests of the         *)
(* Sentinel adapter, "query" what it takes a rule to read, "rule" its      *)
(* evidence for that.                                                      *)
(***************************************************************************)
EXTENDS SentinelClient, KqlDependencies

CONSTANTS
    Rules, MaxChanges,
    RuleIds, PageSize, Streams, Indices, Selections, MaxClusterChanges

VARIABLES
    backend,
    inputs, optional, state, setting, changes, step, functions, inventory, alias, probe,
    verdict, seen,
    product, installed, data, lacking, clusterChanges, reading, page, rules, stats, docs,
    last, searchContext, searchCall, task, answer, fields, started, cut, grown, been,
    uncounted

Resolution == INSTANCE SentinelResolution

Search == INSTANCE SearchBackend WITH
    MaxChanges <- MaxClusterChanges, changes <- clusterChanges, step <- reading,
    context <- searchContext, call <- searchCall, seen <- been

ASSUME BackendsAssumption ==
    /\ Resolution!SentinelResolutionAssumption
    /\ Search!SearchBackendAssumption

resolutionVars ==
    <<inputs, optional, state, setting, changes, step, functions, inventory, alias, probe,
      verdict, seen>>
searchVars ==
    <<product, installed, data, lacking, clusterChanges, reading, page, rules, stats, docs,
      last, searchContext, searchCall, task, answer, fields, started, cut, grown, been,
      uncounted>>

vars == <<backend, clientVars, resolutionVars, kqlVars, searchVars>>

NoRule ==
    /\ inputs = {} /\ optional = {}
    /\ state = [d \in Resolution!Deps |-> "ok"]
    /\ setting = Resolution!NoSetting

NoQuery == program = <<>> /\ known = {} /\ resolution = Unanalysed

NoCluster ==
    /\ product = "elastic" /\ reading = "done"
    /\ installed = <<>> /\ lacking = {}
    /\ data = [s \in Search!Sources |-> "absent"]

Init ==
    /\ backend \in {"client", "query", "rule", "search"}
    /\ ClientInit
    /\ IF backend = "rule" THEN Resolution!WorldInit ELSE NoRule
    /\ Resolution!ScanInit
    /\ IF backend = "query" THEN ProgramInit ELSE NoQuery
    /\ IF backend = "search" THEN Search!ClusterInit ELSE NoCluster
    /\ Search!CallInit

Next ==
    \/ /\ backend = "client"
       /\ ClientNext
       /\ UNCHANGED <<backend, resolutionVars, kqlVars, searchVars>>
    \/ /\ backend = "rule"
       /\ Resolution!ResolutionNext
       /\ UNCHANGED <<backend, clientVars, kqlVars, searchVars>>
    \/ /\ backend = "query"
       /\ KqlNext
       /\ UNCHANGED <<backend, clientVars, resolutionVars, searchVars>>
    \/ /\ backend = "search"
       /\ Search!SearchNext
       /\ UNCHANGED <<backend, clientVars, resolutionVars, kqlVars>>

Spec == Init /\ [][Next]_vars /\ ClientFairness

\* Queries only.
QuerySpec == backend = "query" /\ Init /\ [][Next]_vars

-----------------------------------------------------------------------------
(* Properties: those of the parts, and of SentinelClient and KqlDependencies. *)

\* Whatever a scan concludes about a rule's inputs is true of them, although permissions are
\* only visible in what a query leaves out and evidence may be missing anywhere
\* (client.go 2526-2529, 1374-1376; remote.go 309-314).
VerdictIsTrue == Resolution!VerdictIsTrue

\* Whatever changes in the cluster while it is read, the evidence of a call is true of
\* something the cluster was during the call (elastic/client.go 781-947, opensearch 208-259).
SearchEvidenceIsTrue == Search!SearchEvidenceIsTrue
=============================================================================
