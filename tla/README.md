# TLA+ models of deadair

deadair scans a SIEM, decides which detection rules no longer get the data they need, and
reports it: once (`scan`), or again and again behind a Prometheus endpoint (`serve`). What it
says on one scan depends on what it remembered of earlier ones in a state file, and on evidence
that adapters collect with many concurrent requests from a service that changes meanwhile. So
what can go wrong goes wrong between scans, between processes, between requests, or in the
middle of a write. These modules model those parts of the program.

Paths below are relative to `src/internal/` unless they say otherwise.

## 1. Inventory

| Component | State it keeps | Operations | Modelled |
|---|---|---|---|
| state file, one source (`state/state.go`) | first/last seen, count, samples per weekday-hour slot, low streak, schema snapshot | `assessVolume`, `assessSchema`, `PruneStale` | SourceHistory |
| state file, the whole (`state/state.go`) | target binding, sources, findings | `Load`, `BindTarget`, `AssessVolumes`, `AssessSchemas`, `Save`, `SaveFindingUpdates` | ScanCommit (findings: FindingLifecycle) |
| scan pipeline (`cli/cli.go`, `cli/fleet.go`) | `scanResult`: report and store, uncommitted | `scanOnce`, `scanFleet`, `runScan`, `commitState` | ScanCommit (evidence collection is one step) |
| serve loop (`cli/cli.go`) | context, ticker, three goroutines | `runServe`, `serveMetrics` | ServeLoop |
| exporter (`exporter/exporter.go`) | the published snapshot | `Update`, a scrape | Exporter |
| file replacement (`securefile/`) | a destination, temporary files | `Write`, `replaceFile` (POSIX, Windows) | SecureFile, AtomicFile |
| finding lifecycle (`report/finding.go`) | stable findings in the state file | `applyFindingLifecycle`, `findingRecoveryConfirmed` | FindingLifecycle, Monitoring |
| verdicts and report (`report/report.go`, `contract.go`) | none (pure) | rule status, findings | FindingLifecycle (one rule) |
| policy, exit codes, diff (`report/policy.go`, `fleet.go`, `diff.go`) | acceptances with expiry dates | `LoadPolicy`, `apply`, `ExitCode`, `CandidateExitCode`, `Diff` | Gate |
| downtime windows (`health/`) | none (pure) | `Matches`, `Evaluate` | Downtime; `Evaluate` as a status in FindingLifecycle |
| summary pipelines, producers (`backend/sentinel/summary.go`, `producer.go`, `report/producer.go`) | none of its own: the last report in the state file | `LineageEvidence`'s inventory, `SummaryRuleRunEvidence`, `ProducerFreshnessEvidence`, `monitoringFindings`, `monitoringRecoveryConfirmed` | Monitoring |
| dependency graph (`graph/`) | none (pure) | edges, consumers, unused sources | FindingLifecycle (resolved edges) |
| evidence collection (`cli/cli.go` 465-890) | scan-local | freshness, lag, fields, contracts | FindingLifecycle, Gate (what gaps lead to) |
| Elastic, OpenSearch adapters (`backend/elastic`, `backend/opensearch`) | HTTP client, worker pool | `Rules`, `Sources`, `ResolveInputs`, `RequiredFieldEvidence` | SearchBackend, EvidencePool |
| Sentinel adapter, transport (`backend/sentinel/client.go`) | token cache with flights, identity mutex, budgets | requests with retries, evidence calls on a pool | SentinelClient, EvidencePool |
| Sentinel adapter, rules and inputs (`client.go`, `remote.go`, `rule_health.go`) | inventories and proofs of one scan | `RefreshForScan`, `ResolveInputs`, `ReadinessEvidence` | SentinelResolution |
| Sentinel adapter, KQL (`kql.go`) | none (pure) | `ResolveKQLDependenciesWithFunctions` | KqlDependencies |
| presentation, setup, redaction, gauges as text | none | text, HTML, flags, pseudonyms | no |

How they meet. `scanOnce` loads the state file, binds it to its target, asks an adapter for the
rules, the sources, what the rules' inputs resolve to and further evidence, assesses volume (and
schemas with `--schema`) in memory, builds the report, and returns it together with the changed
store. `runScan` delivers the report first (files, then JSON or the terminal summary) and only
then calls `commitState`, which writes the whole store through `securefile.Write`. A fleet scan
does this per instance, one after the other, delivers one report, and commits the instances in
order. `serveMetrics` runs the same scan on a ticker in a goroutine, hands the fleet report to
the exporter with `Update`, and commits; HTTP handlers read the exporter's snapshot at any time; a
signal cancels the context and the goroutines are joined. Nothing locks a state file: a cron'd
`scan`, a `serve` and a candidate scan (`scan --rule`) may use it at the same time. Used as a
gate, a scan ends with an exit code that the policy decides. Adapters run their requests on
bounded pools and return when all goroutines have ended; the Sentinel adapter's goroutines share
tokens, a mutex for the identity of the workspace, and budgets.

What is hard here:

* *ordering and partial failure*: a report must be delivered before its state is saved; evidence
  may be missing anywhere, and neither a finding nor a recovery may rest on what is missing;
* *interleaving*: load, assess, deliver and save of two processes on one file; the scan goroutine,
  scrapes, ticks and shutdown of one `serve`; goroutines that wait for one token; inventories
  that are read one after another while the service changes;
* *long sequences*: warmup, hysteresis, sample gates, maintenance, pruning; findings that come and
  go over many scans; a log that is late, of a rule that was edited;
* *crashes and power loss* in the middle of a file's replacement; retries on Windows and on 429;
* *liveness*: shutdown must end although a scrape never does; a delivered tick must lead to a scan;
  a call must end although a token is refused; what healed must be reported as recovered.

What makes each component correct is stated in section 3, and every hazard with its line is in
`PROJECT.json`.

## 2. Modules

| Module | Models | Checked by | Proved in |
|---|---|---|---|
| `SourceHistory` | one source's entry, with numbers and time | `MCSourceHistory` | `SourceHistoryProofs` |
| `ScanCommit` | processes, fleets, state files, delivery, commit | `MCScanCommit`, `MCDeployments` | `ScanCommitProofs` |
| `Exporter` | the snapshot and what a scrape shows: the abstract specification of the metrics | through `ServeLoop` | `ServeLoopProofs` |
| `ServeLoop` | `serveMetrics` and the scan function of `runServe`; extends `Exporter` | `MCServeLoop` | `ServeLoopProofs` |
| `AtomicFile` | what callers of `securefile.Write` rely on | through `SecureFile` | `SecureFileProofs` |
| `SecureFile` | `Write`, system call by system call; implements `AtomicFile` | `MCSecureFile` | `SecureFileProofs` |
| `FindingLifecycle` | the verdicts on one rule and its sources, the findings, their recovery | `MCFindingLifecycle`, `MCReporting` | `ReportingProofs` |
| `Gate` | policies, exit codes, diff, over `FindingLifecycle`'s world; what the backends know | `MCReporting` | `ReportingProofs` |
| `Downtime` | declared windows through the week | `MCReporting` | `ReportingProofs` |
| `Monitoring` | summary pipelines and producers, their log, findings and recoveries | `MCReporting` | `ReportingProofs` |
| `Reporting` | composes the four modules before it | `MCReporting` | `ReportingProofs` |
| `EvidencePool` | what an adapter promises of one evidence call: the abstract specification of the pools | through `SentinelClient` | `SentinelClientProofs` |
| `SentinelClient` | tokens, retries, mutex, budgets and pool of the Sentinel adapter; implements `EvidencePool` | `MCBackends` | `SentinelClientProofs` |
| `SentinelResolution` | what the adapter concludes about a rule's inputs, from inventories and permissions | `MCBackends` | `BackendsProofs` |
| `KqlDependencies` | the walk that finds what a query reads | `MCBackends` | `KqlProofs`, `BackendsProofs` |
| `SearchBackend` | calls of the Elastic and OpenSearch adapters on a changing cluster; uses `EvidencePool` | `MCBackends` | `BackendsProofs` |
| `Backends` | composes the adapters' parts | `MCBackends` | `BackendsProofs` |

They fit together like this. `SecureFile` shows that a state file or a report is replaced in one
step, which is why `Commit` in `ScanCommit` is a single assignment. `SourceHistory` has the
arithmetic of one source; `ScanCommit` keeps of it what the protocol can lose, the schema snapshot
and the streak, and takes "how the rate compares" as an input. `FindingLifecycle` is what `Build`
puts into a report of one rule and into the findings of its store; its failed save is any of
`ScanCommit`'s failures before `Commit`, and its gaps are what the adapters of `Backends` leave
unanswered. `Gate` takes `FindingLifecycle`'s findings and turns them into an exit code.
`ServeLoop` drives `Exporter`: its `Publish` is one of `Exporter`'s cycles, and no other step of the
loop touches the snapshot; what `ServeLoop`'s `CommitStates` does to the files is `ScanCommit`'s `Commit` of a process in `Serving`.
`SentinelClient` does what `EvidencePool` says of a call, which is why `SentinelResolution` may take
each query of a rule as one step, at a time of its own, with an answer or without; `SearchBackend`
calls the same pool step by step.

`Reporting` and `Backends` put parts into one specification that run on their own in the program:
a behaviour is of one part (`use`, `backend`), chosen in `Init`. This is faithful because nothing
but values that the models take as inputs passes from one to the other, and it keeps one run for
one subject.

### Correspondence to the code

**SourceHistory.** A `Scan` is `Load`, `AssessVolumes`, `AssessSchemas` and `Save` of one source
with nothing failing. `AssessVolume` is a case split over four verdicts in the code's order:
incomparable counts (`Unknown`), a declared window (`Maintenance`), a low rate past warmup and
sample gate (`Low`), and everything else (`Sampled`). `Entry` is the record the code creates on
first sight. `meanStd` and the z-test are multiplied out so that they are exact in integers; the
floating-point rounding of the original is not modelled. `EffHysteresis`, `EffMin` and `EffMax` are
`normalizeOptions`, which treats a negative option like zero, so negative ones are left out. Time
is in hours and the 168 weekday-hour slots are `Buckets` slots that take turns. The environment
adds documents (`Hour`), deletes them (`Shrink`), changes the mapping (`Remap`) and drops or
returns the source (`Relist`).

**ScanCommit.** A process goes through `load`, `schemas`, `build` for each instance in order
(`scanOnce` in `scanFleet`), then `deliver` and `commit`. A report's outputs are a sequence of
channels: `publish` (exporter), `file` (`--json-out`, `--html-out`), `json`, `text`. An output
fails with an error (`OutputFails`), or, for the terminal summary, without one (`SummaryLost`: the
code ignores the writes' errors). `ScanFails` stands for every error return of `scanOnce`: a
missing policy, an unreadable or foreign state file, a backend error. At first a file is missing, or
one that an earlier version left: it has history and no `target_id`, and the first process that
saves it binds it to its own target, history included (`Legacy`; `state.go` 160). `told` and `lowTold` record
what delivered reports contained; the code has nothing like them, and no guard reads them.

**FindingLifecycle.** The world is a rule, its sources and six facts about them; environment
actions change one fact at a time. A `Scan` reads it through `gaps`: whatever a backend may fail to
answer, a source created between `Sources` and `ResolveInputs`, and declared downtime. The verdicts
follow `BuildWithOptions` in its order: an uncertain input ends the assessment of the rule, then come
a plan that keeps a table from being read (source-plan-incompatible), disconnected and starved, and
only a live rule is checked for fields and lag. One table with such a plan makes the whole
resolution incompatible (`Blocked`, `aggregateRuleResolution`): no adapter returns resolved targets
together with incompatible ones, so that the branch that calls a live rule impaired for its plan
(`report.go` 1056-1065) is not reached. `RecoveryConfirmed`
is `findingRecoveryConfirmed`, one operator per class, each with the assessments it asks for.
`active` is the state file's active findings; a failed save leaves it alone, and a save after a pause
longer than the retention ("late") drops what the scan does not show. A finding that ages out while
scans of it keep failing is pruned in the code at a time of its own; in the model a late scan
stands for that. The report stands until the world changes, so that the properties compare it with
the world it is about. `TrueFindings` is the reference: it is defined from the world alone, without
evidence.

**Gate.** A gate scans `FindingLifecycle`'s world with some gaps and exits. What Elastic and
Sentinel know differs, and `Shown` and `GapsOf` say how: Sentinel's rules declare no fields, its
freshness query has a window that may be shorter than a source's `max_stale`, and it withholds
unused telemetry. `Gates` is a policy's `apply` with its acceptances, which expire while the
world goes on; `ExitCode`, `CandidateExitCode` and `Regressions` are the three ways to use a scan.
`Keep` saves a report as the older one of a later `diff`.

**Downtime.** A day is `Slots` times long, `Matches` is the code's test with the tail after
midnight, and `open` is told independently: a window opens on its days at its start and closes
when its end comes next.

**Monitoring.** Azure edits a summary rule, runs it and logs the runs late; a producer sends
events, or none. The scan lists the definitions (`List`), then reads the log (`ReadRuns`), then
the producer's last event (`ReadFeed`), then judges and reports (`Report`). A unit of time is
about an hour and no tick falls into a scan. A run counts as one of the listed definition although
the definition was edited up to 30 seconds later (`summaryRuleTimestampTolerance`): of any edits
that follow each other within that time (`soon`), `within` says how far back it reaches. It is
assumed that the log's `RuleLastModifiedTime` is that of the definition the run ran; a comment
(`summary.go` 22-24) has it advance without an edit, and such a run would be taken for a newer one. Times that the code compares with a finding's
`LastSeen` are kept as their order (`after`), definitions as version numbers. "other" settings
and failed answers stand for everything that keeps a rule from being looked up: inactive, not
unique, beyond a cap.

**EvidencePool, SentinelClient.** A goroutine per request takes a slot, claims a source and a
query from the budgets, locks the identity mutex if its request needs it, gets a token (from the
cache, by waiting for another goroutine's flight, or by asking: `Lock`), sends, and retries; a
waiter looks at its own context first (`Woken`). The context may end at any step, and each place where
the code selects on it has its `Abandon` or `Leave`. A goroutine that queries a table must have the
mutex first, be it only to see that the identity is known (`Identify`). `PoolTask` is the refinement mapping: what a
caller can see of a goroutine.

**SentinelResolution.** The permission evidence of Log Analytics is in the metadata of a query that
returns no rows: which data sources are named, and what the permission records grant, for which
workspace. `Honest` is what is assumed of the service about a table that cannot be read; `Confirms`
and `ConfirmsNative` are the code's tests. Outcomes and their order are `initialRuleOutcomes` and
`aggregateRuleResolution`. Each dependency may change once between any two requests, and `seen`
records how it has been.

**KqlDependencies.** A program is a handful of texts, each a head and at most one operator. The
walk is the code's recursive descent as reachability over places (`Place`: where, in which name,
under which bindings and functions); `Walked` is what it has reached after so many steps. `Read` is
the reference, a closure over what texts mention (`Reached`), without the walk's bookkeeping.
`Misread` names the operators whose argument the code does not take for what it is. A walk longer
than `MaxWalk` is taken not to end.

**SearchBackend.** One call per behaviour, on a cluster whose rules, sources and dates change
meanwhile. Pages of rules are by offset, as in the code, and their end is recognised differently by
the two products. `Selections` are rules' index expressions; the plan with diagnostics
(`Diagnostic`) and the sharing of equal expressions are the code's.

**Exporter, ServeLoop.** A report is represented by the number of the cycle that produced it.
`ServeLoop` has one action per step of the scan goroutine (check the context, scan an instance,
look at the context again, update, commit, select), of the shutdown goroutine (wait, `Shutdown`,
drain or time out) and of the main goroutine (`Serve` returns, cancel, join, join). A select with
both channels ready may take either. The ticker drops a tick while one is waiting.

**SecureFile.** One action per call of `Write` with both outcomes, then the cleanup. `path` is
what a reader opens; `recent` is the set of files the directory may hold after a power loss,
because the code never syncs the directory: a published file may be lost in favour of the one
before, never in favour of a partial one (`Survivors` is what a disk keeps of a file that was not
synced). The refinement takes a file to the value it holds only if it is whole, and to what may be
left of it if it is not, and a call of `Write` to what its caller knows of it: asked, succeeded or
failed. `ReplaceBusy` is the retry loop of Windows, whose
deadline is `MaxBusy` attempts. `Replace` and `ReplaceFails` are both platforms.

## 3. Runs

| Run | Configuration | Question | Distinct states |
|---|---|---|---|
| `SecureFile` | two writers, two values, one busy retry | is the file always whole and private, does every call return, is it an atomic file? | 23 thousand |
| `History` | 7 hours, 2 slots, warmup 4, hysteresis 2, sample cap 2, retention 3, one hour of downtime | do low, pending, warming and drift mean what the documentation says? | 1.7 million |
| `HistoryQuiet` (violation) | 6 hours, downtime in hour 1 | does a quiet window stay out of the baseline? | |
| `CommitOverlap` | a serve loop and a scan with two outputs on one file; a fleet of two and a candidate scan of the same files, new or of an earlier version, with the targets swapped | does a file remember only what was reported, and ever mix two targets? | 1.4 million |
| `CommitSerial` | a scan on the terminal, a candidate scan and a serve loop taking turns | is every change reported, do candidates leave history alone, does the file catch up? | 0.12 million |
| `CommitText` (violation) | one scan with the terminal summary | is undelivered state ever committed? | |
| `CommitCandidate` (violation) | a scan and a candidate scan that overlap | does a candidate leave history alone? | |
| `ServeLoop` | two instances, two scrapes, three cycles | does shutdown end cleanly, is every snapshot right, is every tick served? | 53 thousand |
| `Lifecycle` | a rule with two selectors, one source in the scope; three policies; windows of a three-part day; a log delayed by one, one edit within the tolerance or not | are findings, recoveries and exit codes true, is nothing missed, does what healed recover? | 0.17 million |
| `LifecycleLag` (violation) | the same rule | is an ingest-lag recovery true? | |
| `Backends` | four goroutines, two slots, two attempts; 14,720 queries; rules of every kind of input; three rules and two sources of a cluster | does every call end with all its answers, are dependencies, verdicts and evidence true? | 0.39 million |
| `BackendsInputs` (violation) | the queries | does no input of a query disappear? | |

### What the properties say

* `ConsumedOnlyIfTold`, `PageIsEarned` (CommitOverlap): a snapshot or a low scan in a state file
  was in a report that every reader got, whichever process wrote it and wherever one was killed;
  a source is only called low on scans that were reported.
* `HistoryMatchesBinding` (CommitOverlap): all of a file's history was read from the target it is
  bound to, although two processes may both find it unbound, except for what an earlier version left
  in an unbound file: the code gives that to whichever target binds the file first, says so
  (`state.go` 160), and no other target gets it later. The second deployment swaps the targets
  of two files between two processes; the configuration looks at the first of the files, which
  both processes reach in either order. Both have to fail if the other was first. That two
  *installed* scans may meet in this race is covered by the theorem `HistoryIsBound`, for any set of
  processes, files and targets.
* `ChangesAreReported` (CommitSerial): the commit that changes a snapshot is the commit of a report
  that shows the drift. With overlapping scans this is not promised: two scans that both loaded the
  old snapshot may save in either order.
* `CandidateKeepsHistory` (CommitSerial, CommitCandidate): holds as long as processes take turns.
* `CatchesUp` (CommitSerial): when faults stop, every file comes to hold its target's present
  schemas and keeps them. It is a leads-to over all the ways to fail: lost outputs and saves,
  failed fetches, candidate scans, kills.
* `LowIsSustained`, `LowIsEarned`, `WarmingEnds`, `SamplesAreTheRecorded`, `DriftIsExact`
  (History): each relates a verdict to the scans that led to it, through observation variables
  (`lowScans`, `recorded`, `lastGood`) that keep what happened independently of the entry.
  `SamplesAreTheRecorded` compares each slot with the rates that were measured in its hours: it has
  the latest of them, oldest first, as many as the cap allows.
* `FindingsAreTrue`, `NothingIsMissed` (Lifecycle): what a scan shows is bounded from both sides by the
  truth: with gaps it may say less, never something false; without gaps it says everything, except
  that a starved rule is not also called impaired.
* `RecoveryIsTrue`, `HealedWorldCloses` (Lifecycle): no scan closes a finding that is still true, and
  no finding waits for evidence that a healthy scan does not collect. Findings of sources outside the
  scope are exempt from the second: a filtered report lists no health for them, so a lag finding
  raised on such a source is never closed, only pruned.
* `ExitIsTrue` (Lifecycle): a gate fails only for a finding that is true and excepted neither by the
  policy nor by the older report; with all its evidence it does fail for one; and a candidate never
  passes on missing evidence about a rule that is dead or impaired. `Unknowable` names what a
  backend has no evidence of, `Excused` the passes that the code grants (see 5 below).
* `MaintenanceIsDeclared` (Lifecycle): a silent source is called in maintenance exactly while an
  occurrence of its window is open, over midnight and over the end of the week.
* `RecoveryIsNew`, `HealthyAgain` (Lifecycle): a pipeline or producer finding is closed only by
  something that happened after its last report, never by an old success that the log
  delivered late, nor by a run of a definition that was edited away more than 30 seconds before the
  one in force (within that time the code does accept it); and it is closed in the end.
* `TokensAreSound` (Backends): a token that several goroutines need is asked for once, and none is
  sent after it expired during a wait. `CallEnds`: a refused token, a cancelled leader, a full
  pool or a mutex that another goroutine holds leaves no goroutine waiting. `ImplementsPool`: with all of that between a
  goroutine and its answer, the call is one of `EvidencePool`.
* `DependenciesAreTrue` (Backends): when nothing marks the rule as unclear and no operator is
  misread, the inputs found are exactly those that the query reads, and all that every run reads is
  required; nothing else is, unless a binding has a leg of a fuzzy union that is a binding.
* `VerdictIsTrue` (Backends): a rule that is resolved could have run on what its inputs were since
  the scan began; a verdict against it is not taken from missing evidence; a workspace that is
  ready has a read path.
* `SearchEvidenceIsTrue` (Backends): rules, sources, resolutions and fields are true of something
  the cluster was during the call; a rule is skipped only if others were deleted under the listing.
* `NeverPartial`, `PrivateOnceReplaced`, `NeverVanishes`, `CallReturns`, `ImplementsAtomicFile`
  (SecureFile): the last says of every call, failed, killed or cut off by a power loss, that the path
  goes from one complete value to another that a writer asked for, in the one step of a call that
  succeeds.
* `CancellationIsNotFailure`, `NothingLeftBehind`, `StopReturns`, `TickIsServed`, `RetainedIsLatest`,
  `ScrapeIsConsistent`, `NeverVanishes` (ServeLoop).

### Bounds, and why they are enough

* `SecureFile`: writers interact only through the destination, and every step of one depends on its
  own temporary file and the destination; two writers give every order of two replacements. One
  busy retry reaches success after a retry, failure at the deadline and a kill in between. The
  theorems hold for any number of writers and values.
* `History`: with two slots and one sample needed, a source first scanned at hour 0 has a trained
  slot from hour 3 on; a warmup of 4 keeps that scan from being judged, and hours 4 to 6 leave room
  for a low streak of two, its interruption by maintenance (hour 5) and by each other verdict, the
  sample cap and the retention. Several scans may run in one hour (the code's
  `!Now.After(LastSeen)` guard). Rates are 0 or 4, so a low rate exists; `RateScale` 60 makes every
  quotient exact for intervals up to 6 hours.
* `CommitOverlap`, `CommitCandidate`: the hazards are between two processes, one file and one
  source (sources do not interact). A hysteresis of 2 is the least that makes a streak matter. Each
  remap doubles the history; one is enough to have an old and a new snapshot in flight. Two instances
  are the least for a swap; schemas are constant and volumes normal there because only the origin
  of a snapshot is in question.
* `CommitSerial`: three remaps allow away, back, and away again.
* `Lifecycle`: two sources are the least for a partial input and for a rule that is half silent; one is
  outside the scope. A finding takes at most two changes to arise (both sources silent or gone) and
  one to end. A scan has one gap in its evidence; `LifecycleLag` and the theorems have more. Gates
  see two changes and one gap. Days have three times, so that a window may lie within a day or
  over midnight with a time outside it; it has no days, a Sunday, a Saturday or two days. The
  log is a unit late, its window is two, and one edit makes a run of an older definition.
* `ServeLoop`: `MaxCycles` bounds the ticks: three cycles allow failure, retention over a second
  failing cycle, and recovery. `CHECK_DEADLOCK FALSE` because the loop returns. `History`,
  `HistoryQuiet` say so too, because their clocks stop at `Horizon`, and `Backends`,
  `BackendsInputs`, because a call ends.
* `Backends`: four goroutines on two slots allow one that asks, one that waits for it, and two that
  wait for a slot; a source budget of three leaves one out, a query budget of two refuses a
  query; a second call meets the tokens of the first. Queries have two bindings and three
  functions, enough for cycles of one and of two, a scalar through a binding, a chain of functions
  beyond `MaxDepth` (2 here) and one that is not known. One change between requests makes a
  verdict's parts of different moments; two changes of the cluster shift a page twice.

### Fairness

* `SecureFile`: weak fairness of each writer's next system call. A system call returns, with or
  without an error. Nothing is assumed of kills or calls to `Write`.
* `CommitSerial`: weak fairness of each process's fault-free next step, and strong fairness of its
  start, because cron, or the ticker, gives every process its turn. The faults stop by the
  hypothesis of `CatchesUp` (from some point on every step is one of a fault-free scan, or a remap),
  not by fairness.
* `Lifecycle`: weak fairness of a scan with all its evidence and a save that works: `serve` and cron
  go on scanning, and backends are not out of order for ever. Nothing is assumed of the other scans.
  For pipelines and producers, weak fairness of each step of a scan, of runs, their log and events;
  that runs succeed, in time, is in the hypothesis of `HealthyAgain`.
* `ServeLoop`: weak fairness of the scan goroutine, which includes that a scan ends (its context
  has a timeout, `cli.go` 1997), of the ticker, of the shutdown goroutine with its five-second
  limit, and of the main goroutine. A scrape need not end, a signal need not come, `Accept` need not fail.
* `Backends`: weak fairness of each goroutine's next step and of the return: the Go scheduler runs
  what can run, the credential and the service answer or the HTTP client gives up after a minute,
  and timers go off. The context need never end.

### Disagreements between the code and what it says

1. `CommitText`, `ConsumedOnlyIfTold`. `cli.go` 943-946 promises that a failed render never
   consumes a drift or a streak. `printSummary` and `printFleetSummary` ignore the errors of their
   writes, so a summary that reached nobody, because the disk its output goes to is full, is
   followed by the commit. (A closed pipe is different: Go ends a process that gets SIGPIPE on
   standard output, before the commit.)
2. `CommitCandidate`, `CandidateKeepsHistory`. `state.go` 262-265 promises that saving a
   candidate's findings does not change source history. It writes back the history it loaded; an
   installed scan that committed in between is undone: its drift is reported again and a
   low scan is forgotten.
3. `HistoryQuiet`, `QuietNeverCounts`. `state.go` 94-95 and `docs/usage.md` 648-649 promise that
   a quiet window neither pages nor enters the baseline. Whether a window applies is decided by the time of
   the scan alone; a scan after the window judges a rate averaged over it.
4. `LifecycleLag`, `LagRecoveryIsTrue`. `finding.go` 299-301 promises a positive healthy
   measurement where possible. A lag finding disappears when its rule becomes starved, and
   `ingestLagRecoveryConfirmed` only asks whether lag was measured: the finding is reported as recovered
   with the measured lag above the margin. Lag that outgrows `--max-stale` does exactly this, since it
   makes the source stale by event time.
5. `BackendsInputs`, `InputsAreSeen`. `kql.go` 1000-1003 says that queries nested in operators must
   not disappear from a rule's inputs. A tabular right-hand side of `has_any` or `has_all` does.

Met while modelling, and without a run:

* `parseToscalarSubqueries` (`kql.go` 1074-1097) walks a binding from its own `toscalar` without
  noticing: `let T = U | extend m = toscalar(T); T`, which no engine accepts but a rule file may
  hold, recurses without end. In the model such a walk exceeds `MaxWalk`, and `Analyse` returns nothing.
* `toscalar(f())` of a function that is not in the metadata is passed over without a mark, and
  `where x > a`, where `a` is a column but also the name of a tabular binding, makes the walk look at
  the scalars of that binding (`parseScalarBindingReferences`, `kql.go` 1037-1047). Both are in
  `Misread`.
* `kql.go` 1025-1027 says that operands of a fuzzy union are scanned inside `parseUnion`, so that
  hidden scalar inputs inherit the operand's optionality. Not so in the text of a binding: in
  `let b = t2 | extend x = toscalar(t1); let a = r | union isfuzzy=true b; a` the head `a` is first
  looked at as a scalar, `parseScalarBinding` goes on to every binding its text names, and `t1` is
  marked as required although only an optional leg reads it (`HiddenLeg`).
* A candidate on Elastic exits with 0 although the freshness of a source could not be read
  (`Excused`); `docs/usage.md` 434-436 gives exit 2 to inputs that were not safely assessed.

## 4. Proofs

Every theorem below is checked by TLAPS and holds for all values of the constants.

**SecureFileProofs.** `ReadersSeeWholeFiles`, `NewFilesArePrivate`, `DestinationStays`,
`WriteIsAtomic`. The invariant ties each writer's temporary file to its program counter (a file about to
replace the destination is complete, synced and private) and says that everything in `recent` is
complete and synced. This is why a power loss can only bring back complete files. `WriteIsAtomic` needs all of it: a
partial file has no counterpart among the values of `AtomicFile`, and a step that publishes one, or
leaves one in `recent`, is no step of it.

**ScanCommitProofs.** `HistoryIsBound`: the invariant says of every store, in a file or in a
process, that its snapshots come from the target it is bound to or from an earlier version's file,
and that a process's store is bound to the target it scans. What such a file may hold is
`LegacyAssumption`: any history, of unknown origin, and no binding. `OnlyToldIsConsumed` and `PagesAreEarned` assume that no report goes
to the terminal (`NoTerminal`, the case of disagreement 1). The invariant says of every store in a
process that what it holds beyond what was told is exactly what its own report shows, and that the
report was told once the process is committing. Overlap needs no assumption: what a process loaded
was told when it was loaded, and `told` only grows. The constants need `ScanCommitAssumption` (types)
and `NoneAssumption` (no store is the absent store).

`ChangesAreShown` and `CandidatesKeepHistory` assume `Serial`, that processes take turns. Without it
the second is disagreement 2, and the first fails in the same way: of two scans that overlap, the
one that read the sources first may commit last. Their invariant, `SerialInv`, speaks of the file and of
the one process under way: a store in memory that is still to be committed (`Owed`) differs from the
file it will replace, as that file now is, in schemas that its report shows to have drifted, and of
a candidate in none (`Compared`). It is inductive because nobody else writes the file meanwhile: at
most one process is not idle (`OneAtATime`), and one that is idle holds nothing (`AtRest`).

**SourceHistoryProofs.** `TypeCorrect`, `LowNeedsARun`, `SlotsHoldWhatWasRecorded`,
`LowIsEarnedAlways`, `WarmingEndsAlways`, `DriftIsExactAlways`, `ListedIsRememberedAlways`. None
of these is inductive alone: the invariant (`EntryIsHistory` among its parts) says that the
entry's streak is the run of low scans, zero during the warmup, that each slot holds the end of
what was recorded, up to the cap, and that the snapshot is the last schema read.
`ListedIsRemembered` is proved and in no run: one scan is enough to see it.

**ReportingProofs.** Of findings, `NoFalseFinding`, `NoMissedFinding`, `NoFalseRecovery` and
`LifecycleTypes`; of the other parts, `GatesAreTrue`, `DowntimeIsDeclared`, `RecoveryIsNewAlways`; and of
the composition, `ReportsAreTrue` and `ReportedRecoveryIsNew`.

Those of findings hold for any number of sources, any scope, any gaps and any history. Their lemmas
are about one scan: `FoundIsTrue` goes verdict by verdict and rests on `AssessedReadsAll` (a rule that is
assessed at all matched exactly the sources that exist) and `StatusIsTrue`; `ConfirmedIsOver` goes
class by class, and fails for lag, which is disagreement 4. The invariant is their conjunction,
because a report only stands as long as its world.

A gate (`GatesAreTrue`) is one step from the world to its outcome, so that its lemmas are about
operators: what `Shown` keeps of the findings and when, and that a gate without gaps in its evidence
finds everything, which is where `AllIsFound` comes in again. The
invariant is the property, with the types of what a gate goes by: the outcome stands only as long
as its world.

`MaintenanceIsDeclared` needs to know that the code's view of time, `Matches` at any moment, and the
observation `open`, which changes only when a window begins or ends, agree: `DowntimeInv`. The step
(`PassOpens`) is a case split over within a day, over midnight and over the end of the week. The
theorem holds for any number of slots a day and any windows.

For `RecoveryIsNewAlways`, for any delay of the log, any window, and edits as far apart or as close
as they may be: the observation variables cannot be read off the state alone, so the invariant ties the code's state to
them: a run that succeeded after the last report of the finding is in `proof` (`Proven`, of the run
in the log and of the one on its way); what a scan listed is no older than what was in force when it
began, and what the tolerance reaches back to has only moved forward since (`ListedInv`,
`WindowKeeps`), which is what makes a run that is linked to the listed version new enough; `since`
holds only if such a run is there (`SinceInv`); and while the producer is reported, it is silent unless an
event came (`ArrivedInv`), with what was read still true unless one comes (`EventInv`).
`RecoveryIsNew` is then a property of the steps `Report` alone.

**SentinelClientProofs.** `ClientTypes`, `TokensAreSoundAlways`, `ClientImplementsPool`,
`PoolIsBounded`, for any number of goroutines, slots, attempts, budgets and calls. That a token is
asked for once is not inductive: `FlightInv` says that the flight of a scope is held exactly by
the goroutine that asks, `RequestInv` that only who is at a request has a scope, `HeldInv` that a
token in hand is good where it is about to be sent, `AttemptInv` bounds the attempts, and
`CallInv` that nobody is under way between calls. The refinement then goes action by action: what
happens between the slot and the answer is a stutter of the pool. `PoolAnswersAll` is a theorem of
`EvidencePool`, and `ClientAnswersAll` its consequence for the client: evidence is handed on only
if every request was answered.

**ServeLoopProofs.** `RetentionIsCorrect`, `ScrapesAreConsistent`, `NothingVanishes` for `Exporter`
including `Update(nil)`, which only tests call in this repository; `ServeScrapes`, the same three of
the loop, because its steps are `Exporter`'s or leave the snapshot alone; `LoopTypeCorrect`, `ReturnIsClean`,
`ShutdownIsNoOutage`. The loop's invariant relates the worker's position to `saved` and `cycle` and
the shutdown goroutine's position to the open scrapes, and bounds the cycles by the ticks.

**BackendsProofs.** `VerdictsAreTrue`, for any dependencies, rules and number of changes. The
lemmas about the permission evidence come first: `DenialShows` says that a query through which
something cannot be read confirms nothing, provided that the permission records that count include
those of the table and no others could speak for it, and `ProbesAreTrue` that each of the adapter's
four queries is built so. The invariant then says at each stage of a scan what has been learnt, in
terms of `seen`, how each dependency has been since the scan began: an inventory's view was true
(`InventoryInv`), an assessed probe saw a readable dependency and a proven alias the right workspace
(`ProbeInv`), and a verdict stands once it is there (`VerdictInv`, `VerdictStands`), because what has
been seen only grows (`ChangeGrows`). `ResolveIsTrue` and `ReadinessIsTrue` put the parts together.

`CallsAreTrue`, for any rule sets, page sizes, streams and selections. The listing of the rules is
the hard part: pages are numbered while rules come and go. `ListInv` is about what a listing has
`Ahead`, the installed rules beyond the pages that were read: if none was deleted, whatever was
there at the start has been listed or is ahead, and if none was created, nothing is listed twice.
Deletion shortens what is ahead, insertion lengthens it (`Shortened`, `Lengthened`); the lemmas on
sequences that this needs are stated first. `SourceInv` and `AnswerInv` say of the sources
and the expressions what has been true of them since the call began (`been`).

**KqlProofs.** `InputsAreRead`: `DependenciesAreTrue` for any program, any depth of bindings and
functions, any metadata. It compares two iterations, the walk and the closure that defines what is
read, and needs induction over their steps. `Least` (a set of numbers has a least, by
`WellFoundedInduction`) gives `UpTo` (what holds of 0 and of each successor holds up to n) and
`Iterates` (what is defined by its predecessor exists), so that each recursive function is what its
definition says (`WalkedIs`, `ReachedIs`, `FollowedIs`). `Saturates` counts: sets that grow by
what follows from their members in a finite set have grown as far as they can after as many steps as
that set has members; therefore `Visited` is closed, and a chain of aliases that has not ended
by then runs in a circle (`NamedDead`). A walk that ended is closed too, and both are the least such sets
(`WalkClosed`, `WalkLeast`, `VisitedClosed`, `VisitedLeast`). What remains is one step on each side:
`Sound`, that a step of the walk goes to something a text that is read mentions, and `Complete`,
that what a text mentions has been walked to (`Covered`), unless the walk marked the rule or
misread an operator. `BackendsInputsAreRead` (BackendsProofs) carries it over to the specification
that the run checks.

The property that an earlier version of the model checked was false of programs outside the run:
the two points on columns and on fuzzy unions in section 3 came out of it, together with two errors of
the model (the argument of an operator that has none counted as part of the text of a scalar
binding, and a scalar binding as a tabular argument of `toscalar`). `Backends` has programs of each
kind now.

`BackendsRunClient` says that the client of `Backends` is `SentinelClient`, from which
`TokensAreSound` and `ImplementsPool` follow of `Backends` (`BackendsTokensAreSound`,
`BackendsImplementPool`).

Two things came out of the proofs that no run had shown. `VerdictIsTrue` was false in the model of a
rule with two remote dependencies one of which had the wrong workspace behind its name while the other
had not: they share the name, and the proof of the alias speaks for both; `WorldInit` now says so (the
run has one remote dependency; with two the old model fails, and the theorem covers any number of the
present one). And a dependency must be of one kind (`SentinelResolutionAssumption`), as it is in
the code, where the kind is part of its identity.

Only model-checked: the liveness properties (`CatchesUp`, `HealedWorldCloses`, `HealthyAgain`,
`CallEnds`, `CallReturns`, `StopReturns`, `TickIsServed`), which are out of this prover's reach. What
`FoldSeq` computes (the sum of the samples) is only evaluated by TLC. Every safety property of a
passing run is a theorem.

## 5. Not modelled, and why

* Formatting and presentation, flag parsing, the setup wizard, gauges as text and redaction keep no
  state and have no ordering. `Tune` and `inspect` only read.
* The KQL lexer, function parameters and literals, ES|QL, ARM templates, predicates and rule files are
  string processing; `KqlDependencies` begins where the text has been taken apart.
* The parsing and version checks of `Load` are one way for a scan to fail.
* Two scrapes never interact, so an HTTP handler is one load of the snapshot.
* Several rules that share sources, per-clock freshness and per-source `max_stale`, the fleet's worst
  exit code, `ValidateComparable`: each repeats per element what the model has once.
* Rules that reach into two remote workspaces at once: the model has one name for a workspace, and one
  proof of it, per rule.
* Static lineage and several pipelines at once: one pipeline, one run on its way to the log. The log
  and the producer are read before the report is built, and their ages judged when it is; a scan
  that lasts longer than `max_stale` could call a feed stale that has since sent an event. The
  model has no tick inside a scan.
* Floating-point rounding in `meanStd`; whether a data race exists (the code's shared state is
  behind mutexes, channels and one atomic pointer, whose operations are the models' steps).

## 6. Further work

Two scopes in one state file; rules that reach into two remote workspaces at once; `ImplementsPool`
for the calls of `SearchBackend`, which now take the pool's steps as they are.
