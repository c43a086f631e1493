------------------------------ MODULE Exporter ------------------------------
(***************************************************************************)
(* internal/exporter: the snapshot a scrape of /metrics is rendered from.  *)
(* Update replaces it after every scan cycle; a scrape loads it once.      *)
(* A report is represented by the cycle that produced it.                  *)
(***************************************************************************)
EXTENDS Naturals

CONSTANTS Names,      \* fleet instances
          MaxCycles   \* bound: scan cycles in a behaviour

ASSUME ExporterAssumption == Names # {} /\ MaxCycles \in Nat

VARIABLES snapshot,   \* Server.snapshot
          cycle,      \* scan cycles published so far
          latest      \* observation only: last cycle that succeeded, per instance

vars == <<snapshot, cycle, latest>>

NoReport == 0         \* the fleet report has no entry for the instance
Nothing == [reports |-> [n \in Names |-> NoReport], errors |-> {},
            failed |-> {}, healthy |-> FALSE, published |-> FALSE]

Snapshots == [reports: [Names -> 0..MaxCycles], errors: SUBSET Names,
              failed: SUBSET Names, healthy: BOOLEAN, published: BOOLEAN]

Reported(s) == {n \in Names : s.reports[n] # NoReport}

\* Mutant: a failed instance loses its last report.
SnapForgets(c, ok, errors) ==
    [reports |-> [n \in Names |-> IF n \in ok THEN c ELSE NoReport],
     errors |-> errors, failed |-> errors, healthy |-> errors = {} /\ ok # {},
     published |-> TRUE]

\* Mutant: a cycle is healthy if any instance succeeded.
SnapHealthyIfAny(c, ok, errors) ==
    [reports |-> [n \in Names |->
        IF n \in ok THEN c
        ELSE IF n \in errors THEN snapshot.reports[n] ELSE NoReport],
     errors |-> errors, failed |-> errors, healthy |-> ok # {},
     published |-> TRUE]

\* Update of the fleet report of cycle c, in which the instances in ok have a
\* report and those in errors failed: a failed instance keeps its last report.
Snap(c, ok, errors) ==
    [reports |-> [n \in Names |->
        IF n \in ok THEN c
        ELSE IF n \in errors THEN snapshot.reports[n] ELSE NoReport],
     errors |-> errors,
     failed |-> errors,
     healthy |-> errors = {} /\ ok # {},
     published |-> TRUE]

Update(c, ok, errors) ==
    /\ snapshot' = Snap(c, ok, errors)
    /\ latest' = [n \in Names |-> IF n \in ok THEN c ELSE latest[n]]

\* Update(nil): everything the snapshot names is down; there is no cycle.
UpdateNil ==
    /\ snapshot' = IF snapshot.published
                   THEN [snapshot EXCEPT !.failed = Reported(snapshot) \cup snapshot.errors,
                                         !.healthy = FALSE]
                   ELSE snapshot
    /\ UNCHANGED <<cycle, latest>>

Init == /\ snapshot = Nothing
        /\ cycle = 0
        /\ latest = [n \in Names |-> NoReport]

\* scanFleet reports every instance, as a report or as an error.
NextCycle == /\ cycle < MaxCycles
             /\ cycle' = cycle + 1
             /\ \E errors \in SUBSET Names :
                    Update(cycle', Names \ errors, errors)

Next == NextCycle \/ UpdateNil

Spec == Init /\ [][Next]_vars

-----------------------------------------------------------------------------
(* What a scrape shows, and properties *)

Up(s) == s.healthy

InstanceUp(s) == Reported(s) \ s.failed

\* The instances that have a deadair_instance_up series.
Exposed(s) == Reported(s) \cup s.errors

TypeOK == /\ snapshot \in Snapshots
          /\ cycle \in 0..MaxCycles
          /\ latest \in [Names -> 0..MaxCycles]

\* A failed instance's metrics are those of its last successful cycle, however many
\* cycles have failed since (exporter.go:29-30).
RetainedIsLatest == \A n \in Names : snapshot.reports[n] = latest[n]

\* deadair_up never contradicts the per-instance series beside it (exporter.go:30):
\* it is 1 exactly when every exposed instance is up and shows the last cycle.
ScrapeIsConsistent ==
    Up(snapshot) <=>
        /\ snapshot.published
        /\ InstanceUp(snapshot) = Exposed(snapshot)
        /\ \A n \in Exposed(snapshot) : snapshot.reports[n] = cycle

\* An instance that has been scanned never drops out of the exposition, which
\* would silence every alert on it.
NeverVanishes == [][Exposed(snapshot) \subseteq Exposed(snapshot')]_vars
=============================================================================
