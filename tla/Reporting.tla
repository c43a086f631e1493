------------------------------- MODULE Reporting -------------------------------
(***************************************************************************)
(* What the report of a scan is used for: it feeds the lifecycle of        *)
(* findings, or it is a gate; and either reads the health of sources       *)
(* through declared downtime, and tells of what feeds them.  The four      *)
(* share no state but the world of FindingLifecycle, so a behaviour is of  *)
(* one of them.                                                            *)
(***************************************************************************)
EXTENDS Gate, Downtime, Monitoring

VARIABLE
    use     \* "lifecycle", "gate", "downtime" or "monitoring"

reportingVars ==
    <<enabled, present, feed, lacking, lagging, unfit, changes, report, active,
      backend, longer, policy, expired, baseline, outcome,
      now, window, open, status,
      monitoringVars, use>>

NoGate ==
    /\ backend = "elastic" /\ longer = {} /\ policy = NoPolicy
    /\ expired = FALSE /\ baseline = {} /\ outcome = NoOutcome

NoDowntime ==
    /\ window = [days |-> {}, start |-> 0, end |-> 1]
    /\ now = 0 /\ open = FALSE /\ status = "none"

\* Nothing to watch, and no scan that watches: no fairness of Monitoring applies.
NothingWatched == NothingYet /\ watched = "nothing" /\ silence = 0 /\ step = "off"

ReportingInit ==
    \/ use = "lifecycle" /\ Init /\ NoGate /\ NoDowntime /\ NothingWatched
    \/ use = "gate" /\ GateInit /\ NoDowntime /\ NothingWatched
    \/ use = "downtime" /\ Init /\ NoGate /\ DowntimeInit /\ NothingWatched
    \/ use = "monitoring" /\ Init /\ NoGate /\ NoDowntime /\ MonitoringInit

LifecycleStep ==
    /\ use = "lifecycle"
    /\ Next
    /\ UNCHANGED <<backend, longer, policy, expired, baseline, outcome, now, window, open, status,
                   monitoringVars>>

GateStep ==
    /\ use = "gate"
    /\ GateNext
    /\ UNCHANGED <<now, window, open, status, monitoringVars>>

DowntimeStep ==
    /\ use = "downtime"
    /\ DowntimeNext
    /\ UNCHANGED <<enabled, present, feed, lacking, lagging, unfit, changes, report, active,
                   backend, longer, policy, expired, baseline, outcome, monitoringVars>>

MonitoringStep ==
    /\ use = "monitoring"
    /\ MonitoringNext
    /\ UNCHANGED <<enabled, present, feed, lacking, lagging, unfit, changes, report, active,
                   backend, longer, policy, expired, baseline, outcome, now, window, open, status>>

ReportingNext == (LifecycleStep \/ GateStep \/ DowntimeStep \/ MonitoringStep) /\ UNCHANGED use

\* As in FindingLifecycle: now and then a scan has all its evidence and saves its state.
CompleteScan == use = "lifecycle" /\ Scan({}, {"done"})

ReportingSpec ==
    /\ ReportingInit /\ [][ReportingNext]_reportingVars
    /\ WF_vars(CompleteScan) /\ MonitoringFairness
=============================================================================
