----------------------------- MODULE ScanCommit -----------------------------
(***************************************************************************)
(* The scan pipeline and its state files: scanOnce loads a state file and  *)
(* assesses the sources against it, runScan or the serve loop delivers the *)
(* report, and only then is the state committed.  Several deadair          *)
(* processes may run on the same files, any call may fail, and a process   *)
(* may be killed between any two steps.  Files are replaced atomically     *)
(* (SecureFile implements AtomicFile); nothing locks them.                 *)
(*                                                                         *)
(* A fleet's instances are 1..Fleet, each with a state file of its own;    *)
(* a scan of a single instance is Fleet = 1.  Of a source's history the    *)
(* file keeps the schema snapshot and the low-volume streak; the numbers   *)
(* behind the streak are in SourceHistory.                                 *)
(***************************************************************************)
EXTENDS Naturals, Sequences

CONSTANTS
    Scans,        \* deadair processes
    Candidates,   \* those run with --rule
    Serving,      \* those of the serve loop
    Outputs,      \* per process, the outputs of its report, in order
    TargetOf,     \* per process, the backend target of each instance it scans
    Targets,
    Fleet,        \* number of instances
    FleetFile,    \* run with --fleet (serve always tolerates failed instances)
    Sources,
    Schemas, EmptySchema,
    Legacy,       \* state files an earlier version may have left, bound to no target
    None,         \* no state file, no snapshot, no store, no target
    Hysteresis,
    Serial,       \* the operator never lets two processes overlap
    MaxRemaps     \* bound: how often a schema changes

Instances == 1..Fleet

\* publish: exporter Update; file: --json-out or --html-out; json: --json;
\* text: the terminal summary, whose write errors nobody looks at.
Channels == {"publish", "file", "json", "text"}

ASSUME ScanCommitAssumption ==
    /\ Candidates \subseteq Scans /\ Serving \subseteq Scans
    /\ Candidates \cap Serving = {}
    /\ Outputs \in [Scans -> Seq(Channels)]
    /\ TargetOf \in [Scans -> [Instances -> Targets]]
    /\ \A p \in Serving : Outputs[p] = <<"publish">>
    /\ Fleet \in Nat \ {0}
    /\ FleetFile \in BOOLEAN /\ Serial \in BOOLEAN
    /\ EmptySchema \in Schemas
    /\ None \notin Targets
    /\ Hysteresis \in Nat \ {0}
    /\ MaxRemaps \in Nat

VARIABLES
    (* outside the program *)
    actual,     \* the schema each target's sources have now
    remaps,
    files,      \* the state files
    (* one deadair process each *)
    pc,
    at,         \* the instance being scanned or committed
    mem,        \* the stores to commit (scanResult.store)
    report,     \* what the report says of each source (scanResult.report)
    out,        \* outputs delivered so far
    (* observation only *)
    lost,       \* an output failed and the process went on
    told,       \* snapshots that delivered reports were based on
    lowTold     \* low or pending verdicts in delivered reports, up to Hysteresis

procVars == <<pc, at, mem, report, out, lost>>
vars == <<actual, remaps, files, procVars, told, lowTold>>

-----------------------------------------------------------------------------
\* other: ok, warming and unknown, the verdicts that reset the streak.
Verdicts == {"other", "maintenance", "pending", "low"}

\* origin is observation only: the target the snapshot was read from, None when an
\* earlier version read it and nobody knows.
Snapshot == [schema: Schemas, origin: Targets \cup {None}]

History == [snap: Snapshot \cup {None}, streak: 0..Hysteresis]

Store == [target: Targets \cup {None}, src: [Sources -> History]]

\* No store stands for a missing file.
ASSUME NoneAssumption == None \notin Store

\* Load takes a file without target_id as it is, with its history.
ASSUME LegacyAssumption ==
    \A store \in Legacy :
        /\ store \in Store
        /\ store.target = None
        /\ \A s \in Sources : store.src[s].snap # None => store.src[s].snap.origin = None

Finding == [snap: Snapshot \cup {None}, drift: BOOLEAN, volume: Verdicts]

NoFindings == [s \in Sources |-> [snap |-> None, drift |-> FALSE,
                                  volume |-> "other"]]

\* Load on a missing file.
NewStore == [target |-> None,
             src |-> [s \in Sources |-> [snap |-> None, streak |-> 0]]]

Load(i) == IF files[i] = None THEN NewStore ELSE files[i]

\* Mutant: the binding is not compared.
BindsAnything(store, target) == target # None

\* BindTarget: an unbound store takes the target, a bound one must match it.
Binds(store, target) == store.target \in {None, target}

\* Mutant: the streak is not held at its limit.
AddLowUnbounded(n) == n + 1

\* assessVolume, reduced to what it does to the streak.  The streak is only ever
\* compared with Hysteresis, so it is counted up to there.
AddLow(n) == IF n < Hysteresis THEN n + 1 ELSE n

StreakAfter(n, seen) ==
    CASE seen = "low" -> AddLow(n)
      [] seen = "maintenance" -> n
      [] OTHER -> 0

VolumeVerdict(n, seen) ==
    IF seen = "low" THEN IF AddLow(n) >= Hysteresis THEN "low" ELSE "pending"
                    ELSE seen

AssessVolumes(store, seen) ==
    [store EXCEPT !.src = [s \in Sources |->
        [snap |-> @[s].snap, streak |-> StreakAfter(@[s].streak, seen[s])]]]

\* assessSchema: a snapshot without fields has nothing to compare with.
Drifted(snap, found) ==
    /\ snap # None
    /\ snap.schema # EmptySchema
    /\ snap.schema # found

Found(p, s) == LET t == TargetOf[p][at[p]]
               IN  [schema |-> actual[t][s], origin |-> t]

\* Mutant: a snapshot is stored once and never renewed.
AssessSchemasOnce(p, store, fetched) ==
    [store EXCEPT !.src = [s \in Sources |->
        IF s \in fetched /\ @[s].snap = None
        THEN [@[s] EXCEPT !.snap = Found(p, s)] ELSE @[s]]]

\* AssessSchemas: a source whose schema was not fetched keeps its snapshot.
AssessSchemas(p, store, fetched) ==
    [store EXCEPT !.src = [s \in Sources |->
        IF s \in fetched THEN [@[s] EXCEPT !.snap = Found(p, s)] ELSE @[s]]]

-----------------------------------------------------------------------------
Idle(p) ==
    /\ pc' = [pc EXCEPT ![p] = "idle"]
    /\ at' = [at EXCEPT ![p] = 1]
    /\ mem' = [mem EXCEPT ![p] = [i \in Instances |-> None]]
    /\ report' = [report EXCEPT ![p] = [i \in Instances |-> NoFindings]]
    /\ out' = [out EXCEPT ![p] = 0]
    /\ lost' = [lost EXCEPT ![p] = FALSE]

\* Mutant: the states are committed before the report is delivered.
NextInstanceCommits(p) ==
    IF at[p] < Fleet
    THEN /\ at' = [at EXCEPT ![p] = @ + 1]
         /\ pc' = [pc EXCEPT ![p] = "load"]
    ELSE /\ at' = [at EXCEPT ![p] = 1]
         /\ pc' = [pc EXCEPT ![p] = "commit"]

\* scanFleet goes on to the next instance, or hands the results to delivery.
NextInstance(p) ==
    IF at[p] < Fleet
    THEN /\ at' = [at EXCEPT ![p] = @ + 1]
         /\ pc' = [pc EXCEPT ![p] = "load"]
    ELSE /\ at' = [at EXCEPT ![p] = 1]
         /\ pc' = [pc EXCEPT ![p] = "deliver"]

Start(p) ==
    /\ pc[p] = "idle"
    /\ Serial => \A q \in Scans : pc[q] = "idle"
    /\ pc' = [pc EXCEPT ![p] = "load"]
    /\ UNCHANGED <<actual, remaps, files, at, mem, report, out, lost, told, lowTold>>

\* Mutant: a candidate scan assesses the state like any other.
AssessesAlways(p) == p \in Scans

\* A scan with --rule leaves the sources' history as it loaded it.
AssessesState(p) == p \notin Candidates

\* stateAssessments: Load, BindTarget and, unless the scan is a candidate's,
\* AssessVolumes.  seen is how each source's rate compares with its baseline.
LoadState(p, seen) ==
    LET i == at[p]
        store == Load(i)
        bound == [store EXCEPT !.target = TargetOf[p][i]]
    IN  /\ pc[p] = "load"
        /\ Binds(store, TargetOf[p][i])
        /\ mem' = [mem EXCEPT ![p][i] =
                     IF AssessesState(p) THEN AssessVolumes(bound, seen) ELSE bound]
        /\ report' = [report EXCEPT ![p][i] =
             [s \in Sources |->
                IF AssessesState(p)
                THEN [@[s] EXCEPT !.volume = VolumeVerdict(store.src[s].streak, seen[s])]
                ELSE @[s]]]
        /\ pc' = [pc EXCEPT ![p] = IF AssessesState(p) THEN "schemas" ELSE "build"]
        /\ UNCHANGED <<actual, remaps, files, at, out, lost, told, lowTold>>

\* Mutant: the snapshots are renewed before they are compared.
ReadSchemasFirst(p, fetched) ==
    LET i == at[p]
    IN  /\ pc[p] = "schemas"
        /\ mem' = [mem EXCEPT ![p][i] = AssessSchemas(p, @, fetched)]
        /\ report' = [report EXCEPT ![p][i] =
             [s \in Sources |->
                IF s \in fetched
                THEN [@[s] EXCEPT !.snap = Found(p, s),
                                  !.drift = Drifted(mem'[p][i].src[s].snap,
                                                    Found(p, s).schema)]
                ELSE @[s]]]
        /\ pc' = [pc EXCEPT ![p] = "build"]
        /\ UNCHANGED <<actual, remaps, files, at, out, lost, told, lowTold>>

\* The schemas of some sources are fetched; AssessSchemas.
ReadSchemas(p, fetched) ==
    LET i == at[p]
        store == mem[p][i]
    IN  /\ pc[p] = "schemas"
        /\ mem' = [mem EXCEPT ![p][i] = AssessSchemas(p, store, fetched)]
        /\ report' = [report EXCEPT ![p][i] =
             [s \in Sources |->
                IF s \in fetched
                THEN [@[s] EXCEPT !.snap = Found(p, s),
                                  !.drift = Drifted(store.src[s].snap,
                                                    Found(p, s).schema)]
                ELSE @[s]]]
        /\ pc' = [pc EXCEPT ![p] = "build"]
        /\ UNCHANGED <<actual, remaps, files, at, out, lost, told, lowTold>>

\* The rest of scanOnce succeeds: evidence is collected, the report is built.
Build(p) ==
    /\ pc[p] = "build"
    /\ NextInstance(p)
    /\ UNCHANGED <<actual, remaps, files, mem, report, out, lost, told, lowTold>>

\* scanOnce returns an error.  A lone scan ends there; a fleet leaves the
\* instance out of the reports and of the commits.
ScanFails(p) ==
    /\ pc[p] \in {"load", "schemas", "build"}
    /\ IF FleetFile \/ p \in Serving
       THEN /\ mem' = [mem EXCEPT ![p][at[p]] = None]
            /\ report' = [report EXCEPT ![p][at[p]] = NoFindings]
            /\ NextInstance(p)
            /\ UNCHANGED <<out, lost>>
       ELSE Idle(p)
    /\ UNCHANGED <<actual, remaps, files, told, lowTold>>

-----------------------------------------------------------------------------
(* Delivery *)

Channel(p) == Outputs[p][out[p] + 1]

Delivered(p, i, s) == IF report[p][i][s].snap = None THEN {} ELSE {report[p][i][s].snap}

\* Every output of the report has reached its reader.
Tell(p) ==
    /\ told' = [i \in Instances |-> [s \in Sources |->
                    told[i][s] \cup Delivered(p, i, s)]]
    /\ lowTold' = [i \in Instances |-> [s \in Sources |->
                    IF report[p][i][s].volume \in {"low", "pending"}
                    THEN AddLow(lowTold[i][s]) ELSE lowTold[i][s]]]

Output(p) ==
    /\ pc[p] = "deliver"
    /\ out[p] < Len(Outputs[p])
    /\ out' = [out EXCEPT ![p] = @ + 1]
    /\ UNCHANGED <<actual, remaps, files, pc, at, mem, report, lost, told, lowTold>>

\* Mutant: the states are committed although an output failed.
OutputFailureIgnored(p) ==
    /\ pc[p] = "deliver"
    /\ out[p] < Len(Outputs[p])
    /\ Channel(p) \in {"file", "json"}
    /\ pc' = [pc EXCEPT ![p] = "commit"]
    /\ UNCHANGED <<actual, remaps, files, at, mem, report, out, lost, told, lowTold>>

\* A file or the JSON encoder reports an error: runScan exits without a commit.
OutputFails(p) ==
    /\ pc[p] = "deliver"
    /\ out[p] < Len(Outputs[p])
    /\ Channel(p) \in {"file", "json"}
    /\ Idle(p)
    /\ UNCHANGED <<actual, remaps, files, told, lowTold>>

\* printSummary and printFleetSummary drop the error of a failed write.
SummaryLost(p) ==
    /\ pc[p] = "deliver"
    /\ out[p] < Len(Outputs[p])
    /\ Channel(p) = "text"
    /\ out' = [out EXCEPT ![p] = @ + 1]
    /\ lost' = [lost EXCEPT ![p] = TRUE]
    /\ UNCHANGED <<actual, remaps, files, pc, at, mem, report, told, lowTold>>

DeliveryDone(p) ==
    /\ pc[p] = "deliver"
    /\ out[p] = Len(Outputs[p])
    /\ pc' = [pc EXCEPT ![p] = "commit"]
    /\ IF lost[p] THEN UNCHANGED <<told, lowTold>> ELSE Tell(p)
    /\ UNCHANGED <<actual, remaps, files, at, mem, report, out, lost>>

\* The serve loop finds its context done after the scan: nothing is published.
Cancelled(p) ==
    /\ p \in Serving
    /\ pc[p] = "deliver"
    /\ out[p] = 0
    /\ Idle(p)
    /\ UNCHANGED <<actual, remaps, files, told, lowTold>>

-----------------------------------------------------------------------------
(* Commit *)

NextCommit(p) ==
    IF at[p] < Fleet
    THEN /\ at' = [at EXCEPT ![p] = @ + 1]
         /\ UNCHANGED <<pc, mem, report, out, lost>>
    ELSE Idle(p)

\* commitState writes the whole store, a candidate's (SaveFindingUpdates) too.
Commit(p) ==
    /\ pc[p] = "commit"
    /\ mem[p][at[p]] # None
    /\ files' = [files EXCEPT ![at[p]] = mem[p][at[p]]]
    /\ NextCommit(p)
    /\ UNCHANGED <<actual, remaps, told, lowTold>>

NothingToCommit(p) ==
    /\ pc[p] = "commit"
    /\ mem[p][at[p]] = None
    /\ NextCommit(p)
    /\ UNCHANGED <<actual, remaps, files, told, lowTold>>

\* runScan gives up at the first state file it cannot write; serve logs it.
CommitFails(p) ==
    /\ pc[p] = "commit"
    /\ mem[p][at[p]] # None
    /\ IF p \in Serving THEN NextCommit(p) ELSE Idle(p)
    /\ UNCHANGED <<actual, remaps, files, told, lowTold>>

-----------------------------------------------------------------------------
Kill(p) ==
    /\ pc[p] # "idle"
    /\ Idle(p)
    /\ UNCHANGED <<actual, remaps, files, told, lowTold>>

\* An upgrade changes what a source's documents look like.
Remap(t, s) ==
    /\ remaps < MaxRemaps
    /\ remaps' = remaps + 1
    /\ actual' \in {[actual EXCEPT ![t][s] = v] : v \in Schemas \ {actual[t][s]}}
    /\ UNCHANGED <<files, procVars, told, lowTold>>

\* The files are missing, or an earlier version wrote them and told what they hold.
Init ==
    /\ actual \in [Targets -> [Sources -> Schemas]]
    /\ remaps = 0
    /\ files \in [Instances -> Legacy \cup {None}]
    /\ pc = [p \in Scans |-> "idle"]
    /\ at = [p \in Scans |-> 1]
    /\ mem = [p \in Scans |-> [i \in Instances |-> None]]
    /\ report = [p \in Scans |-> [i \in Instances |-> NoFindings]]
    /\ out = [p \in Scans |-> 0]
    /\ lost = [p \in Scans |-> FALSE]
    /\ told = [i \in Instances |-> [s \in Sources |-> {Load(i).src[s].snap} \ {None}]]
    /\ lowTold = [i \in Instances |-> [s \in Sources |-> Load(i).src[s].streak]]

Seen == {"other", "maintenance", "low"}

Assess(p) == \/ \E seen \in [Sources -> Seen] : LoadState(p, seen)
             \/ \E fetched \in SUBSET Sources : ReadSchemas(p, fetched)
             \/ Build(p)

Deliver(p) == Output(p) \/ OutputFails(p) \/ SummaryLost(p) \/ DeliveryDone(p)

Save(p) == Commit(p) \/ NothingToCommit(p) \/ CommitFails(p)

Next == \/ \E p \in Scans : \/ Start(p) \/ Assess(p) \/ ScanFails(p)
                            \/ Deliver(p) \/ Cancelled(p) \/ Save(p) \/ Kill(p)
        \/ \E t \in Targets, s \in Sources : Remap(t, s)

Spec == Init /\ [][Next]_vars

\* A step of a scan in which nothing goes wrong.
Proceed(p) ==
    \/ Start(p)
    \/ \E seen \in [Sources -> Seen] : LoadState(p, seen)
    \/ ReadSchemas(p, Sources)
    \/ Build(p) \/ Output(p) \/ DeliveryDone(p) \/ Commit(p) \/ NothingToCommit(p)

\* A running process takes its next step, and the scheduler (cron, or the serve
\* loop's ticker) gives every process its turn.
Fairness ==
    \A p \in Scans : WF_vars(Proceed(p)) /\ SF_vars(Start(p))

FairSpec == Spec /\ Fairness

-----------------------------------------------------------------------------
(* Properties *)

TypeOK ==
    /\ actual \in [Targets -> [Sources -> Schemas]]
    /\ remaps \in 0..MaxRemaps
    /\ files \in [Instances -> Store \cup {None}]
    /\ pc \in [Scans -> {"idle", "load", "schemas", "build", "deliver", "commit"}]
    /\ at \in [Scans -> Instances]
    /\ mem \in [Scans -> [Instances -> Store \cup {None}]]
    /\ report \in [Scans -> [Instances -> [Sources -> Finding]]]
    /\ out \in [Scans -> Nat]
    /\ lost \in [Scans -> BOOLEAN]
    /\ told \in [Instances -> [Sources -> SUBSET Snapshot]]
    /\ lowTold \in [Instances -> [Sources -> 0..Hysteresis]]

\* "the state file is saved only after the report has actually been delivered, so a
\* failed render can never consume a one-shot drift finding or a hysteresis streak"
\* (cli.go:943-946): a snapshot or a low scan the file remembers was in a report
\* whose every output reached its reader, whichever processes overlap and wherever
\* one of them is killed.
ConsumedOnlyIfTold ==
    \A i \in Instances : files[i] # None =>
        \A s \in Sources :
            /\ files[i].src[s].snap \in told[i][s] \cup {None}
            /\ files[i].src[s].streak <= lowTold[i][s]

\* A source is called low only after enough earlier reports showed it low: a scan
\* that was never delivered does not count (usage.md:609).
PageIsEarned ==
    \A p \in Scans, i \in Instances, s \in Sources :
        report[p][i][s].volume = "low" => lowTold[i][s] + 1 >= Hysteresis

\* A file never holds the history of another target than the one it is bound to, even
\* when processes with different targets find it unbound at the same time
\* (state.go:157-159); what an earlier version left in an unbound file is kept by the
\* target that binds it first (state.go:160), and by no other.  A file that is not
\* bound holds nothing but such history.
HistoryMatchesBinding ==
    \A i \in Instances : files[i] # None =>
        \A s \in Sources : files[i].src[s].snap # None =>
            files[i].src[s].snap.origin \in {files[i].target, None}

\* Whenever a file's snapshot of a source changes from one set of fields to another,
\* the report committed with it showed that drift.
ChangesAreReported ==
    [][\A i \in Instances, s \in Sources :
         files[i] # None /\ files'[i] # files[i]
         /\ files'[i].src[s].snap # None
         /\ Drifted(files[i].src[s].snap, files'[i].src[s].snap.schema) =>
            \E p \in Scans : pc[p] = "commit" /\ at[p] = i /\ report[p][i][s].drift]_vars

\* "Candidate-rule scans ... must not consume schema drift or alter an installed
\* scan's volume baseline" (state.go:262-265).
CandidateKeepsHistory ==
    [][\A p \in Candidates :
         Commit(p) => files'[at[p]].src = Load(at[p]).src]_vars

\* Once nothing fails any more, a change of schema is found, delivered and
\* remembered in the end, whatever was lost to failed fetches, outputs and saves,
\* to candidate scans and to kills before: every file catches up with the sources
\* of its target and stays so.
CatchesUp ==
    (<>[][\/ \E p \in Scans : Proceed(p)
          \/ \E t \in Targets, s \in Sources : Remap(t, s)]_vars) =>
        \A i \in Instances, s \in Sources :
            <>[](files[i] # None /\ files[i].target # None
                 /\ files[i].src[s].snap # None
                 /\ files[i].src[s].snap.schema = actual[files[i].target][s])
=============================================================================
