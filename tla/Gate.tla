---------------------------------- MODULE Gate ----------------------------------
(***************************************************************************)
(* internal/report and cli: a scan as a gate.  It judges all installed     *)
(* rules, a candidate rule, or the difference to an earlier report, by a   *)
(* policy whose acceptances expire while the world changes.                *)
(***************************************************************************)
EXTENDS FindingLifecycle

CONSTANTS
    Policies,       \* policies that may be given
    GateGaps,       \* bound: gaps in the evidence of one scan
    GateChanges     \* bound: changes of the world

Classes == {"dead-detection", "impaired-detection", "source-degraded", "partial-input",
            "unused-telemetry"}

\* An acceptance is of one finding; "spares" that the rule's severity is below the threshold.
Policy == [gates: SUBSET Classes, accepted: SUBSET FindingIds, spares: BOOLEAN]

ASSUME GateAssumption ==
    /\ Policies \subseteq Policy
    /\ GateGaps \in Nat /\ GateChanges \in Nat

VARIABLES
    backend,    \* "elastic" or "sentinel"
    longer,     \* sources whose max_stale exceeds the window of the freshness evidence
    policy,
    expired,    \* the acceptances have expired
    baseline,   \* what fails in the report that diff is given as the older one
    outcome     \* of the last gate

-----------------------------------------------------------------------------
(* Policy *)

RuleFindings ==
    {Disconnected, PlanIncompatible, Starved}
        \cup UNION {{MissingField(s), LagBlind(s), SelectorEmpty(s)} : s \in Sources}

\* LoadPolicy, at the time of the scan.
Accepted == IF expired THEN {} ELSE policy.accepted

\* apply.
Gates(f) ==
    /\ f \notin Accepted
    /\ f.class \in policy.gates
    /\ ~(policy.spares /\ f \in RuleFindings)

\* Without a policy, ExitCode, CandidateExitCode and findingRegresses count these.
NoPolicy ==
    [gates |-> {"dead-detection", "impaired-detection", "source-degraded"},
     accepted |-> {}, spares |-> FALSE]

-----------------------------------------------------------------------------
(* What the backends know.  Sentinel's rules declare no fields; it withholds  *)
(* unused telemetry, and counts events in a window, so that an empty table is *)
(* stale.                                                                     *)

\* Nothing is known of a table without events in the window if it may be silent for longer.
Unsettled == {s \in longer : feed[s] = "empty"}

\* freshnessRequests are for the sources that an enabled rule consumes.
Unmeasured(gaps) == Unsettled \cup (Sources \ Consumed(gaps))

GapsOf(gaps) ==
    IF backend = "elastic" THEN gaps
    ELSE gaps \cup ({"fields"} \X Sources) \cup ({"health"} \X Unmeasured(gaps))

Shown(findings) ==
    IF backend = "elastic" THEN findings
    ELSE {f \in findings : f.reason \notin {"unused", "empty"}}
            \cup {Degraded(f.source, "stale") : f \in {x \in findings : x.reason = "empty"}}

GateFindings(gaps) == Shown(Findings(GapsOf(gaps)))

\* Mutant: the threshold of the source is not looked at.
FreshnessAssessedIfRead(gaps) == \A s \in Matched(gaps) : <<"health", s>> \notin gaps

\* collectFreshnessEvidence, which only Sentinel provides.
FreshnessAssessed(gaps) == \A s \in Matched(gaps) : <<"health", s>> \notin GapsOf(gaps)

FieldsIncomplete(gaps) == backend = "elastic" /\ ~FieldsRead(gaps)

\* Elastic asks no sample of an index it knows to be empty; Sentinel gets an empty one.
LagIncomplete(gaps) ==
    \E s \in Matched(gaps) :
        /\ ~Sampled(gaps, s)
        /\ ~(feed[s] = "empty" /\ <<IF backend = "elastic" THEN "health" ELSE "lag", s>> \notin gaps)

-----------------------------------------------------------------------------
(* Exit codes *)

NoOutcome == [kind |-> "none", code |-> "none", complete |-> FALSE, excused |-> FALSE]

\* The findings that fail, once the policy is applied to those of a scan.
Failing(gaps) == {f \in GateFindings(gaps) : Gates(f)}

ExitCode(failing) == IF failing # {} THEN "findings" ELSE "healthy"

\* What was not assessed fails a candidate.
CandidateExitCode(gaps, failing) ==
    IF \/ ~ResolutionAssessed(gaps)
       \/ backend = "sentinel" /\ Resolved(gaps) # {} /\ ~FreshnessAssessed(gaps)
       \/ FieldsIncomplete(gaps)
       \/ LagIncomplete(gaps)
       \/ Uncertain(gaps)
    THEN "error"
    ELSE IF failing \cap RuleFindings # {} THEN "findings" ELSE "healthy"

\* Diff: findings that are new and fail, or did not fail and do.
Regressions(failing) == failing \ baseline

\* Where nobody measures freshness, or downtime is declared, a silent source passes.
Excused(gaps) ==
    \E s \in Sources : <<"downtime", s>> \in gaps \/ (backend = "elastic" /\ <<"health", s>> \in gaps)

Exit(kind, code, gaps) ==
    outcome' = [kind |-> kind, code |-> code, complete |-> gaps = {}, excused |-> Excused(gaps)]

\* runScan.
GateScan(gaps, failing) ==
    /\ \/ Exit("installed", ExitCode(failing), gaps)
       \/ Exit("candidate", CandidateExitCode(gaps, failing), gaps)
    /\ UNCHANGED <<enabled, present, feed, lacking, lagging, unfit, changes, report, active>>
    /\ UNCHANGED <<backend, longer, policy, expired, baseline>>

\* runDiff of an older report and one of now.
Compare(gaps, failing) ==
    /\ Exit("diff", IF Regressions(failing) # {} THEN "findings" ELSE "healthy", gaps)
    /\ UNCHANGED <<enabled, present, feed, lacking, lagging, unfit, changes, report, active>>
    /\ UNCHANGED <<backend, longer, policy, expired, baseline>>

\* The report of a scan is kept, and is the older one from now on.
Keep(failing) ==
    /\ baseline' = failing
    /\ outcome' = NoOutcome
    /\ UNCHANGED <<enabled, present, feed, lacking, lagging, unfit, changes, report, active>>
    /\ UNCHANGED <<backend, longer, policy, expired>>

Expire ==
    /\ ~expired
    /\ expired' = TRUE
    /\ outcome' = NoOutcome
    /\ UNCHANGED <<enabled, present, feed, lacking, lagging, unfit, changes, report, active>>
    /\ UNCHANGED <<backend, longer, policy, baseline>>

\* What is silent for longer than the window has no events in it.
Alter ==
    /\ changes < GateChanges
    /\ \/ Switch
       \/ \E s \in Sources :
             \/ Relist(s) \/ Remap(s) \/ Delay(s)
             \/ backend = "sentinel" /\ Replan(s)
             \/ \E f \in {"ok", "empty"} \cup {x \in {"stale"} : s \notin longer} : Feed(s, f)
    /\ outcome' = NoOutcome
    /\ UNCHANGED <<backend, longer, policy, expired, baseline>>

GateInit ==
    /\ Init
    /\ backend \in {"elastic", "sentinel"}
    /\ longer \in IF backend = "sentinel" THEN SUBSET Sources ELSE {{}}
    /\ policy \in Policies
    /\ expired = FALSE
    /\ baseline = {}
    /\ outcome = NoOutcome

GateLosses == {gaps \in Losses : Cardinality(gaps) <= GateGaps}

Judge(gaps) ==
    LET failing == Failing(gaps)
    IN  /\ outcome = NoOutcome
        /\ GateScan(gaps, failing) \/ Compare(gaps, failing) \/ Keep(failing)

\* The process of the gate is gone, and the next one may run.
Exited ==
    /\ outcome # NoOutcome
    /\ outcome' = NoOutcome
    /\ UNCHANGED <<enabled, present, feed, lacking, lagging, unfit, changes, report, active>>
    /\ UNCHANGED <<backend, longer, policy, expired, baseline>>

GateNext == Alter \/ Expire \/ Exited \/ \E gaps \in GateLosses : Judge(gaps)

-----------------------------------------------------------------------------

\* True findings of which the backend has no evidence.
Unknowable ==
    {f \in TrueFindings :
        \/ backend = "sentinel" /\ f.reason \in {"missing-fields", "unused"}
        \/ backend = "sentinel" /\ f.reason \in DegradedStatus /\ ~Runs
        \/ f.source \in Unsettled
        \/ Unsettled # {} /\ f = Starved}

Excepted == IF outcome.kind = "diff" THEN baseline ELSE {}

\* An acceptance counts until it expires.
Wanted(f) ==
    /\ f.class \in policy.gates
    /\ policy.spares => f \notin RuleFindings
    /\ f \in policy.accepted => expired

\* The true findings that a gate should fail for.
Due == {f \in Shown(TrueFindings \ (Unknowable \cup Overshadowed)) : Wanted(f)} \ Excepted

(* A gate fails only for a finding that is true and that neither the policy nor  *)
(* the older report excepts; having all its evidence, it does fail for one; and  *)
(* a candidate passes only if its rule is neither dead nor impaired, whatever    *)
(* evidence was missing (policy.go 269-303, report.go 1569-1624, diff.go         *)
(* 100-118; docs/usage.md 434-436, 561-564, 570-572).                            *)
ExitIsTrue ==
    /\ outcome.code = "findings" =>
          \E f \in Shown(TrueFindings) \ Excepted :
              Wanted(f) /\ (outcome.kind = "candidate" => f \in RuleFindings)
    /\ outcome.code = "healthy" /\ outcome.complete =>
          Due \cap (IF outcome.kind = "candidate" THEN RuleFindings ELSE FindingIds) = {}
    /\ outcome.code = "healthy" /\ outcome.kind = "candidate" /\ ~outcome.excused =>
          (Due \cup {f \in TrueFindings \cap {Starved} : Wanted(f)}) \cap RuleFindings = {}
=============================================================================
