--------------------------- MODULE FindingLifecycle ---------------------------
(***************************************************************************)
(* internal/report: the verdicts of a scan on one detection rule and its   *)
(* sources, the findings they become, and what the state file remembers of *)
(* findings between scans.                                                 *)
(*                                                                         *)
(* The rule has one index selector per source and one required field, and  *)
(* windows on event time.  No rule can run that reads a table whose plan   *)
(* keeps it from analytics, which only a Sentinel workspace has.  A scan   *)
(* sees the world through evidence that may have gaps, and its report      *)
(* stands until the world changes.  State entries of recovered findings    *)
(* only keep dates and counts, and are left out; so are volume and schema  *)
(* findings, which repeat a verdict of SourceHistory.                      *)
(***************************************************************************)
EXTENDS Naturals, FiniteSets

CONSTANTS
    Sources,        \* one per selector of the rule
    InScope,        \* the sources the filters leave in the report
    Rule,           \* stands where a finding, or a gap, has no source
    MaxGaps,        \* bound: gaps in the evidence of one scan
    MaxChanges      \* bound: changes of the world

ASSUME FindingLifecycleAssumption ==
    /\ InScope \subseteq Sources
    /\ Rule \notin Sources
    /\ MaxGaps \in Nat /\ MaxChanges \in Nat

VARIABLES
    (* the world *)
    enabled,    \* the rule is enabled
    present,    \* the sources that exist
    feed,       \* of each source, how recent its events are
    lacking,    \* the sources without the required field
    lagging,    \* the sources whose ingest lag exceeds the rule's margin
    unfit,      \* the sources whose table plan keeps rules from reading them
    changes,
    (* the program *)
    report,     \* findings and recovered findings of the last scan
    active      \* the state file's active findings

world == <<enabled, present, feed, lacking, lagging, unfit, changes>>
vars == <<world, report, active>>

-----------------------------------------------------------------------------
(* Findings.  The identity of a finding is what stableFindingID hashes. *)

Finding(class, reason, source) == [class |-> class, reason |-> reason, source |-> source]

Disconnected == Finding("dead-detection", "disconnected", Rule)
PlanIncompatible == Finding("dead-detection", "source-plan-incompatible", Rule)
Starved == Finding("dead-detection", "starved", Rule)
MissingField(s) == Finding("impaired-detection", "missing-fields", s)
LagBlind(s) == Finding("impaired-detection", "lag-blind-window", s)
Degraded(s, status) == Finding("source-degraded", status, s)
SelectorEmpty(s) == Finding("partial-input", "selector-empty", s)
Unused(s) == Finding("unused-telemetry", "unused", s)

DegradedStatus == {"stale", "empty"}

FindingIds ==
    {Disconnected, PlanIncompatible, Starved}
        \cup UNION {{MissingField(s), LagBlind(s), SelectorEmpty(s), Unused(s),
                     Degraded(s, "stale"), Degraded(s, "empty")} : s \in Sources}

NoReport == [findings |-> {}, recovered |-> {}, complete |-> FALSE]

-----------------------------------------------------------------------------
(* Evidence.  A gap names what one scan does not get to see:                *)
(*   resolution  the backend does not resolve the rule's input              *)
(*   diagnostic  nor the selector of one source by itself                   *)
(*   inventory   the source appeared after the inventory was read           *)
(*   health      its document count and last event are unknown              *)
(*   fields, lag the field or ingest-lag evidence could not be read         *)
(* and "downtime" that a declared window covers the source.                 *)

Gaps == ({"resolution"} \X {Rule})
            \cup ({"diagnostic", "inventory", "health", "downtime", "fields", "lag"}
                      \X Sources)

\* What one scan may lose.
Losses == {{}} \cup {{gap[i] : i \in 1..MaxGaps} : gap \in [1..MaxGaps -> Gaps]}

Inventory(gaps) == {s \in present : <<"inventory", s>> \notin gaps}
Listed(gaps) == Inventory(gaps) \cap InScope

\* One input that exists and cannot be read keeps the whole rule from running.
Blocked == present \cap unfit # {}

\* The authoritative resolution says so.
Incompatible(gaps) == <<"resolution", Rule>> \notin gaps /\ Blocked

\* Its targets; none otherwise means that it came out empty.
Resolved(gaps) == IF <<"resolution", Rule>> \in gaps \/ Blocked THEN {} ELSE present

\* Mutant: a resolved target that the inventory lacks is passed over.
UncertainByResolver(gaps) ==
    /\ enabled
    /\ \/ <<"resolution", Rule>> \in gaps
       \/ \E s \in Sources : <<"diagnostic", s>> \in gaps

\* The rule is listed as unmapped: an input could not be resolved, or a resolved
\* target is not in the inventory.
Uncertain(gaps) ==
    /\ enabled
    /\ \/ <<"resolution", Rule>> \in gaps
       \/ \E s \in Sources : <<"diagnostic", s>> \in gaps
       \/ ~ (Resolved(gaps) \subseteq Inventory(gaps))

Matched(gaps) == Resolved(gaps) \cap Inventory(gaps)

\* Check.Evaluate.
Status(gaps, s) ==
    CASE <<"health", s>> \in gaps -> "unknown"
      [] <<"health", s>> \notin gaps /\ feed[s] = "ok" -> "ok"
      [] OTHER -> IF <<"downtime", s>> \in gaps THEN "maintenance" ELSE feed[s]

\* A source of unknown freshness keeps the rule alive.
AllDegraded(gaps) ==
    /\ Matched(gaps) # {}
    /\ \A s \in Matched(gaps) : Status(gaps, s) \in DegradedStatus

Assessable(gaps) == enabled /\ ~Uncertain(gaps)

\* The rule gets as far as the checks for reduced visibility.
Live(gaps) == Assessable(gaps) /\ Matched(gaps) # {} /\ ~AllDegraded(gaps)

\* Mutant: the lag of a silent source is not asked for.
SampledIfFresh(gaps, s) ==
    s \in Matched(gaps) /\ feed[s] = "ok" /\ <<"lag", s>> \notin gaps

\* A paired sample of recent events exists, so there is a measured lag.
Sampled(gaps, s) ==
    s \in Matched(gaps) /\ feed[s] # "empty" /\ <<"lag", s>> \notin gaps

-----------------------------------------------------------------------------
(* Verdicts *)

DeadFindings(gaps) ==
    IF ~Assessable(gaps) THEN {}
    ELSE {f \in {PlanIncompatible} : Incompatible(gaps)}
            \cup {f \in {Disconnected} : Matched(gaps) = {} /\ ~Incompatible(gaps)}
            \cup {f \in {Starved} : AllDegraded(gaps)}

FieldsRead(gaps) == \A s \in Matched(gaps) : <<"fields", s>> \notin gaps

ImpairedFindings(gaps) ==
    IF ~Live(gaps) THEN {}
    ELSE {MissingField(s) : s \in {x \in Matched(gaps) \cap lacking : FieldsRead(gaps)}}
            \cup {LagBlind(s) : s \in {x \in lagging : Sampled(gaps, x)}}

\* Mutant: every status is a finding.
SourceFindingsOfAll(gaps) == {Degraded(s, Status(gaps, s)) : s \in Listed(gaps)}

SourceFindings(gaps) ==
    UNION {{Degraded(s, status) : status \in {Status(gaps, s)} \cap DegradedStatus}
              : s \in Listed(gaps)}

\* One selector matches nothing while the rule has another input.
PartialFindings(gaps) ==
    IF ~Assessable(gaps) \/ Matched(gaps) = {} THEN {}
    ELSE {SelectorEmpty(s) : s \in Sources \ present}

HasTelemetry(gaps, s) == feed[s] # "empty" /\ <<"health", s>> \notin gaps

\* unusedTelemetryAssessment: complete unless an enabled rule's input is uncertain.
UnusedComplete(gaps) == ~Uncertain(gaps)

\* The edges of the graph.
Consumed(gaps) == IF enabled THEN Matched(gaps) ELSE {}

UnusedFindings(gaps) ==
    IF ~UnusedComplete(gaps) THEN {}
    ELSE {Unused(s) : s \in {x \in Listed(gaps) \ Consumed(gaps) : HasTelemetry(gaps, x)}}

Findings(gaps) ==
    DeadFindings(gaps) \cup ImpairedFindings(gaps) \cup SourceFindings(gaps)
        \cup PartialFindings(gaps) \cup UnusedFindings(gaps)

-----------------------------------------------------------------------------
(* Recovery: findingRecoveryConfirmed.  A finding that a scan does not show is *)
(* closed only if the scan's evidence says so.                                 *)

\* runtimeAssessments: the source resolution of all enabled rules was assessed.
ResolutionAssessed(gaps) ==
    /\ enabled
    /\ <<"resolution", Rule>> \notin gaps
    /\ \A s \in Sources : <<"diagnostic", s>> \notin gaps

ResolutionSettled(gaps) == ResolutionAssessed(gaps) /\ ~Uncertain(gaps)

\* collectIngestLagEvidence: an empty source needs no sample, any other does.
LagAssessed(gaps) ==
    /\ enabled
    /\ \E s \in Matched(gaps) : Sampled(gaps, s)
    /\ \A s \in Matched(gaps) :
          Sampled(gaps, s) \/ (feed[s] = "empty" /\ <<"health", s>> \notin gaps)

\* ruleHasAuthoritativeResolved.
InputRecovered(gaps) == ResolutionSettled(gaps) /\ Resolved(gaps) # {}

\* Mutant: any resolved source is taken for a healthy one.
StarvedRecoveredByAny(gaps) == ResolutionSettled(gaps) /\ Listed(gaps) # {}

StarvedRecovered(gaps) ==
    /\ ResolutionSettled(gaps)
    /\ \E s \in Resolved(gaps) \cap Listed(gaps) : Status(gaps, s) = "ok"

\* Starved rules have no required-field evidence.
MissingFieldRecovered(gaps, s) ==
    Live(gaps) /\ FieldsRead(gaps) /\ s \in Matched(gaps) \ lacking

\* Only that the lag was measured is asked, not what it is.
LagRecovered(gaps, s) ==
    ~Uncertain(gaps) /\ LagAssessed(gaps) /\ s \in Listed(gaps) /\ Sampled(gaps, s)

DegradedRecovered(gaps, s) == s \in Listed(gaps) /\ Status(gaps, s) = "ok"

UnusedRecovered(gaps, s) == UnusedComplete(gaps) /\ s \in Listed(gaps) \cap Consumed(gaps)

\* Mutant: the selector is looked for among the authoritative resolutions, where a
\* rule with several selectors has none of its own.
SelectorRecoveredNever(gaps, s) == FALSE

SelectorRecovered(gaps, s) == ResolutionSettled(gaps) /\ s \in present \ unfit

RecoveryConfirmed(gaps, f) ==
    \/ f.reason \in {"disconnected", "source-plan-incompatible"} /\ InputRecovered(gaps)
    \/ f.reason = "starved" /\ StarvedRecovered(gaps)
    \/ f.reason = "missing-fields" /\ MissingFieldRecovered(gaps, f.source)
    \/ f.reason = "lag-blind-window" /\ LagRecovered(gaps, f.source)
    \/ f.reason \in DegradedStatus /\ DegradedRecovered(gaps, f.source)
    \/ f.reason = "selector-empty" /\ SelectorRecovered(gaps, f.source)
    \/ f.reason = "unused" /\ UnusedRecovered(gaps, f.source)

-----------------------------------------------------------------------------
(* Actions *)

\* Scans begin while all is well; changes lead to any other world.
Init ==
    /\ enabled = TRUE
    /\ present = Sources
    /\ feed = [s \in Sources |-> "ok"]
    /\ lacking = {}
    /\ lagging = {}
    /\ unfit = {}
    /\ changes = 0
    /\ report = NoReport
    /\ active = {}

\* applyFindingLifecycle, then the save of the state file, which may fail.  It drops what
\* was last seen longer ago than the retention: after a long pause ("late") all that this
\* scan does not show.  saves are the ways this may end.
Scan(gaps, saves) ==
    LET found == Findings(gaps)
        over == {f \in active \ found : RecoveryConfirmed(gaps, f)}
    IN  /\ report' = [findings |-> found, recovered |-> over, complete |-> gaps = {}]
        /\ \/ "done" \in saves /\ active' = (active \cup found) \ over
           \/ "late" \in saves /\ active' = found
           \/ "failed" \in saves /\ UNCHANGED active
        /\ UNCHANGED world

Change ==
    /\ changes < MaxChanges
    /\ changes' = changes + 1
    /\ report' = NoReport
    /\ UNCHANGED active

\* The rule is switched on or off.
Switch ==
    /\ Change
    /\ enabled' = ~enabled
    /\ UNCHANGED <<present, feed, lacking, lagging, unfit>>

\* A source is created or deleted.
Relist(s) ==
    /\ Change
    /\ present' = IF s \in present THEN present \ {s} ELSE present \cup {s}
    /\ UNCHANGED <<enabled, feed, lacking, lagging, unfit>>

\* Its events stop, come back, or are deleted.
Feed(s, f) ==
    /\ s \in present
    /\ f # feed[s]
    /\ Change
    /\ feed' = [feed EXCEPT ![s] = f]
    /\ UNCHANGED <<enabled, present, lacking, lagging, unfit>>

\* Its mapping loses or gains the field.
Remap(s) ==
    /\ s \in present
    /\ Change
    /\ lacking' = IF s \in lacking THEN lacking \ {s} ELSE lacking \cup {s}
    /\ UNCHANGED <<enabled, present, feed, lagging, unfit>>

\* Its lag passes the rule's margin, in either direction.
Delay(s) ==
    /\ s \in present
    /\ Change
    /\ lagging' = IF s \in lagging THEN lagging \ {s} ELSE lagging \cup {s}
    /\ UNCHANGED <<enabled, present, feed, lacking, unfit>>

\* Its table moves to another plan.
Replan(s) ==
    /\ s \in present
    /\ Change
    /\ unfit' = IF s \in unfit THEN unfit \ {s} ELSE unfit \cup {s}
    /\ UNCHANGED <<enabled, present, feed, lacking, lagging>>

Next ==
    \/ \E gaps \in Losses : Scan(gaps, {"done", "late", "failed"})
    \/ Switch
    \/ \E s \in Sources :
          \/ Relist(s) \/ Remap(s) \/ Delay(s) \/ Replan(s)
          \/ \E f \in {"ok"} \cup DegradedStatus : Feed(s, f)

\* Scans go on, and now and then one has all its evidence and saves its state.
Fairness == WF_vars(Scan({}, {"done"}))

Spec == Init /\ [][Next]_vars /\ Fairness

-----------------------------------------------------------------------------
(* The truth: which findings a scan of this world should show. *)

Silent == {s \in present : feed[s] \in DegradedStatus}

\* The rule has something to run on.
Runs == enabled /\ present # {} /\ ~Blocked

TrueFindings ==
    {f \in {Disconnected} : enabled /\ present = {}}
        \cup {f \in {PlanIncompatible} : enabled /\ Blocked}
        \cup {f \in {Starved} : Runs /\ Silent = present}
        \cup {MissingField(s) : s \in {x \in present \cap lacking : Runs}}
        \cup {LagBlind(s) : s \in {x \in present \cap lagging : Runs /\ feed[x] # "empty"}}
        \cup {Degraded(s, feed[s]) : s \in Silent \cap InScope}
        \cup {SelectorEmpty(s) : s \in {x \in Sources \ present : Runs}}
        \cup {Unused(s) : s \in {x \in present \cap InScope : ~Runs /\ feed[x] # "empty"}}

\* The verdict that a rule is starved leaves no room for reduced visibility.
Overshadowed ==
    IF Starved \in TrueFindings
    THEN {MissingField(s) : s \in Sources} \cup {LagBlind(s) : s \in Sources}
    ELSE {}

Healthy ==
    /\ enabled
    /\ present = Sources
    /\ \A s \in Sources : feed[s] = "ok" /\ s \notin lacking \cup lagging \cup unfit

(* Type correctness. *)
TypeOK ==
    /\ enabled \in BOOLEAN
    /\ present \subseteq Sources /\ lacking \subseteq Sources /\ lagging \subseteq Sources
    /\ unfit \subseteq Sources
    /\ feed \in [Sources -> {"ok"} \cup DegradedStatus]
    /\ changes \in 0..MaxChanges
    /\ report.findings \subseteq FindingIds
    /\ report.recovered \subseteq FindingIds
    /\ report.complete \in BOOLEAN
    /\ active \subseteq FindingIds

(* Whatever part of the evidence a scan does not get, and however a source     *)
(* slips in between the inventory and the resolution, every finding it shows   *)
(* is true of the sources and the rule ("never page on uncertainty",           *)
(* report.go 950-986 and 1024).                                                *)
FindingsAreTrue == report.findings \subseteq TrueFindings

(* With all evidence, nothing is left out but what a starved rule overshadows. *)
NothingIsMissed ==
    report.complete => TrueFindings \ Overshadowed \subseteq report.findings

(* What a scan reports as recovered is over, however incomplete its evidence   *)
(* (finding.go 299-301).  Ingest lag has a property of its own.                *)
RecoveryIsTrue ==
    \A f \in report.recovered : f.reason # "lag-blind-window" => f \notin TrueFindings

(* The same of ingest lag: a source reported as recovered is back inside the   *)
(* rule's margin (finding.go 299-301: recovery requires, where possible, a     *)
(* positive healthy measurement).                                              *)
LagRecoveryIsTrue ==
    \A f \in report.recovered : f.reason = "lag-blind-window" => f \notin TrueFindings

(* Once the rule and its sources are well for good, every finding that the     *)
(* scope lets the scan confirm is closed, and stays closed: no evidence that   *)
(* is ever needed for a recovery is one that a healthy scan does not collect.  *)
HealedWorldCloses ==
    <>[]Healthy => <>[](\A f \in active : f.source \in Sources \ InScope)
=============================================================================
