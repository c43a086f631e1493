------------------------------ MODULE Monitoring ------------------------------
(***************************************************************************)
(* internal/backend/sentinel, cli and report: what feeds the sources.  A   *)
(* summary rule of Microsoft Sentinel, whose runs are in a log that arrives *)
(* late, writes a table that detections read; a producer, which the policy *)
(* declares, sends events.  A scan tells when one of them is unhealthy,    *)
(* and when a new and successful observation shows that it recovered.      *)
(***************************************************************************)
EXTENDS Naturals

CONSTANTS
    Lateness,   \* a bin, its delay and the retry allowance
    LogWindow,  \* of the query of the log (summaryRuleRunWindow)
    MaxStale,   \* of the producer
    MaxEdits,   \* bound: edits of the summary rule
    None        \* no run, and no event that is known

VARIABLES
    watched,            \* what there is to watch: "pipeline" or "producer"
    (* Azure *)
    version, setting,   \* of the summary rule's definition
    within,             \* the oldest version edited no longer than Tolerance before this one
    soon,               \* no hour has passed since the last edit
    running,            \* the version that runs now, or 0
    pending, latest,    \* the run that is not yet in the log, and the last in the log's window
    silence,            \* age of the producer's last event
    (* the scan *)
    quiet,              \* downtime is declared
    step,
    inventory,          \* the summary rule as it was listed
    health, since,      \* of the pipeline, and whether its run is after the last report of it
    event,              \* age of the last event, as it was read
    (* the state file *)
    reported,             \* what has been reported, and not as recovered
    (* observation *)
    started,            \* within when the scan began
    proof,              \* versions that succeeded since the finding was last reported
    arrived             \* events came since the last query, and since that of the finding

monitoringVars ==
    <<watched, version, setting, within, soon, running, pending, latest, silence, quiet, step,
      inventory, health, since, event, reported, started, proof, arrived>>

ruleVars == <<version, setting, within, soon>>
azureVars == <<watched, ruleVars, running, pending, latest, silence>>
evidenceVars == <<inventory, health, since, event>>
scanVars == <<quiet, step, inventory, health, since, event, reported>>
observationVars == <<started, proof, arrived>>

Versions == 1..(MaxEdits + 1)

\* at: the version in force when it ended; after: it ended after the last report of the finding.
Run == [age: 0..(LogWindow + 1), ok: BOOLEAN, of: Versions, at: Versions, after: BOOLEAN]

ASSUME MonitoringAssumption ==
    /\ Lateness \in Nat /\ LogWindow \in Nat /\ Lateness < LogWindow
    /\ MaxStale \in Nat
    /\ MaxEdits \in Nat
    /\ None \notin Nat \cup Run

\* unread: the inventory could not be listed.
Unread == [version |-> 1, within |-> 1, setting |-> "unread"]

-----------------------------------------------------------------------------
(* Azure. *)

\* Every edit counts as one of the definition, be it of its text or of its state.  It may
\* come within seconds of earlier ones (summaryRuleTimestampTolerance), those from w on.
Edit(s, w) ==
    /\ watched = "pipeline" /\ version <= MaxEdits
    /\ within <= w /\ w <= version + 1 /\ (soon \/ w = version + 1)
    /\ version' = version + 1
    /\ setting' = s
    /\ within' = w
    /\ soon' = TRUE
    /\ UNCHANGED <<watched, running, pending, latest, silence, scanVars, observationVars>>

StartRun ==
    /\ watched = "pipeline" /\ running = 0 /\ setting = "active"
    /\ running' = version
    /\ UNCHANGED <<watched, ruleVars, pending, latest, silence, scanVars, observationVars>>

\* An edit does not stop a run of the definition before it.
EndRun(ok) ==
    /\ running # 0 /\ pending = None
    /\ pending' = [age |-> 0, ok |-> ok, of |-> running, at |-> version, after |-> TRUE]
    /\ proof' = IF ok THEN proof \cup {running} ELSE proof
    /\ running' = 0
    /\ UNCHANGED <<watched, ruleVars, latest, silence, scanVars, started, arrived>>

\* What the query of the log finds.
InWindow(r) == IF r = None \/ r.age > LogWindow THEN None ELSE r

\* The log gets the record of a run some time after the run.
Ingest ==
    /\ pending # None
    /\ latest' = InWindow(pending)
    /\ pending' = None
    /\ UNCHANGED <<watched, ruleVars, running, silence, scanVars, observationVars>>

Arrive ==
    /\ watched = "producer"
    /\ silence' = 0
    /\ arrived' = {"query", "told"}
    /\ UNCHANGED <<watched, ruleVars, running, pending, latest, scanVars, started, proof>>

Older(r) == IF r = None \/ r.age > LogWindow THEN r ELSE [r EXCEPT !.age = @ + 1]

\* A scan takes minutes, and a unit of time is an hour.
Tick ==
    /\ step = "idle"
    /\ pending' = Older(pending) /\ latest' = InWindow(Older(latest))
    /\ silence' = IF watched = "pipeline" \/ silence > MaxStale THEN silence ELSE silence + 1
    /\ soon' = FALSE
    /\ UNCHANGED <<watched, version, setting, within, running, scanVars, observationVars>>

\* A maintenance window begins or ends.
Declare ==
    /\ quiet' = ~quiet
    /\ UNCHANGED <<azureVars, step, evidenceVars, reported, observationVars>>

-----------------------------------------------------------------------------
(* A scan. *)

Begin ==
    /\ step = "idle"
    /\ step' = "inventory"
    /\ started' = within
    /\ UNCHANGED <<azureVars, quiet, evidenceVars, reported, proof, arrived>>

\* listSummaryLogs, which LineageEvidence calls first; the list is kept for the scan.
List(listed) ==
    /\ step = "inventory"
    /\ inventory' = IF listed /\ watched = "pipeline"
                    THEN [version |-> version, within |-> within, setting |-> setting]
                    ELSE Unread
    /\ step' = "runs"
    /\ UNCHANGED <<azureVars, quiet, health, since, event, reported, observationVars>>

\* Mutant: a run is of the definition if it ended after the last edit.
LinkedByTime(r) == inventory.version <= r.at

\* The run ended after the definition was edited, and ran what was edited, or what was
\* edited no longer than the tolerance before: the log may have that time by seconds early.
Linked(r) == inventory.version <= r.at /\ inventory.within <= r.of

\* The age is as of the time before the inventory was asked for.
Overdue(r) == r.age > Lateness

\* SummaryRuleRunEvidence of the last run in the window, and summaryHealth.
Judged(r) ==
    IF r = None \/ ~Linked(r) THEN "unknown"
    ELSE IF ~r.ok THEN "failed"
    ELSE IF Overdue(r) THEN "late" ELSE "ok"

\* A rule that is not listed, not active, or beyond the limit is not looked up.
ReadRuns(answered) ==
    /\ step = "runs"
    /\ health' = IF answered /\ inventory.setting = "active" THEN Judged(latest) ELSE "unknown"
    /\ since' = (health' = "ok" /\ latest.after)
    /\ inventory' = Unread
    /\ step' = "feed"
    /\ UNCHANGED <<azureVars, quiet, event, reported, observationVars>>

\* ProducerFreshnessEvidence.
ReadFeed(answered) ==
    /\ step = "feed"
    /\ event' = IF answered /\ watched = "producer" THEN silence ELSE None
    /\ arrived' = arrived \ {"query"}
    /\ step' = "report"
    /\ UNCHANGED <<azureVars, quiet, inventory, health, since, reported, started, proof>>

\* buildProducerHealth: the age is judged without downtime.
FeedStale == event # None /\ event > MaxStale

\* monitoringFindings: downtime only suppresses a finding.
Found ==
    {m \in {"pipeline", "producer"} :
        IF m = "pipeline" THEN health \in {"failed", "late"} ELSE FeedStale}

PipelineRecovered == health = "ok" /\ ~quiet /\ since

ProducerRecovered == event # None /\ ~FeedStale /\ ~quiet

\* monitoringRecoveryConfirmed; every scan observes after the report of the one before.
Recovered ==
    {m \in reported \ Found :
        IF m = "pipeline" THEN PipelineRecovered ELSE ProducerRecovered}

\* Mutant: a finding that is reported counts as seen.
SeenWhileActive(r) ==
    IF r = None \/ "pipeline" \notin Found \cup reported THEN r ELSE [r EXCEPT !.after = FALSE]

\* LastSeen of a finding is the time of the report.
Seen(r) == IF r = None \/ "pipeline" \notin Found THEN r ELSE [r EXCEPT !.after = FALSE]

Forget ==
    /\ inventory' = Unread /\ health' = "unknown" /\ since' = FALSE /\ event' = None
    /\ started' = 1

\* applyFindingLifecycle; a report that is not delivered is not saved.
Report(saved) ==
    /\ step = "report"
    /\ step' = "idle"
    /\ IF saved
       THEN /\ reported' = (reported \cup Found) \ Recovered
            /\ latest' = Seen(latest) /\ pending' = Seen(pending)
            /\ proof' = IF "pipeline" \in Found THEN {} ELSE proof
            /\ arrived' = IF "producer" \in Found /\ "query" \notin arrived THEN {} ELSE arrived
       ELSE UNCHANGED <<reported, latest, pending, proof, arrived>>
    /\ Forget
    /\ UNCHANGED <<watched, ruleVars, running, silence, quiet>>

\* The scan ends early.
Abandon ==
    /\ step # "idle"
    /\ step' = "idle"
    /\ Forget
    /\ UNCHANGED <<azureVars, quiet, reported, proof, arrived>>

NothingYet ==
    /\ version = 1 /\ setting = "active" /\ within = 1 /\ soon = TRUE /\ running = 0
    /\ pending = None /\ latest = None
    /\ quiet = FALSE
    /\ inventory = Unread /\ health = "unknown" /\ since = FALSE /\ event = None
    /\ reported = {}
    /\ started = 1 /\ proof = {} /\ arrived = {}

MonitoringInit ==
    /\ NothingYet
    /\ watched \in {"pipeline", "producer"}
    /\ silence \in {0} \cup {x \in {MaxStale + 1} : watched = "producer"}
    /\ step = "idle"

Service ==
    \/ \E s \in {"active", "other"}, w \in Versions : Edit(s, w)
    \/ StartRun
    \/ \E ok \in BOOLEAN : EndRun(ok)
    \/ Ingest \/ Arrive \/ Tick \/ Declare

Observe ==
    \/ Begin \/ Abandon
    \/ \E ok \in BOOLEAN : List(ok) \/ ReadRuns(ok) \/ ReadFeed(ok) \/ Report(ok)

MonitoringNext == Service \/ Observe

\* Runs are scheduled and logged, events come, and a scan takes its next step.
MonitoringFairness ==
    /\ WF_monitoringVars(StartRun) /\ WF_monitoringVars(EndRun(TRUE))
    /\ WF_monitoringVars(Ingest) /\ WF_monitoringVars(Arrive)
    /\ WF_monitoringVars(Begin) /\ WF_monitoringVars(List(TRUE))
    /\ WF_monitoringVars(ReadRuns(TRUE)) /\ WF_monitoringVars(ReadFeed(TRUE))
    /\ WF_monitoringVars(Report(TRUE))

MonitoringSpec == MonitoringInit /\ [][MonitoringNext]_monitoringVars /\ MonitoringFairness

-----------------------------------------------------------------------------
(* Properties. *)

\* An unhealthy pipeline or feed is closed only by something new: a run that succeeded after
\* the last report of the finding, of a definition edited no longer than the tolerance before
\* the one in force when the scan began, or an event that came after the query that report is
\* based on; neither by maintenance, nor by evidence that is lacking, late or of a definition
\* that was edited away (producer.go 90-107, summary.go 185-204; docs/investigate.md 134-137).
RecoveryIsNew ==
    [][/\ "pipeline" \in reported \ reported' => \E v \in proof : v >= started
       /\ "producer" \in reported \ reported' => "told" \in arrived /\ ~quiet]_monitoringVars

\* A tick while neither the pipeline nor the feed is late.
Punctual ==
    /\ watched = "pipeline" => latest # None /\ latest.ok /\ latest.age < Lateness
    /\ watched = "producer" => silence < MaxStale
    /\ Tick

\* However late the log is, and whatever failed before, once runs succeed, events come and
\* scans complete, what was reported recovers and nothing is reported any more (finding.go
\* 226-243).
HealthyAgain ==
    (/\ <>[][\/ StartRun \/ EndRun(TRUE) \/ Ingest \/ Arrive \/ Punctual
             \/ Begin \/ List(TRUE) \/ ReadRuns(TRUE) \/ ReadFeed(TRUE)
             \/ Report(TRUE)]_monitoringVars
     /\ <>[](setting = "active" /\ ~quiet)) => <>[](reported = {})
=============================================================================
