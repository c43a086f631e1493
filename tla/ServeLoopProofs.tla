--------------------------- MODULE ServeLoopProofs ---------------------------
(***************************************************************************)
(* For any fleet, any number of cycles and of open scrapes: what a scrape  *)
(* shows of the snapshot, what the serve loop publishes and what it leaves *)
(* behind.  Exporter's properties follow from one inductive invariant,     *)
(* which adds that a published snapshot mentions every instance; that of   *)
(* the loop says what each goroutine may rely on at each of its steps.     *)
(***************************************************************************)
EXTENDS ServeLoop, TLAPS

-----------------------------------------------------------------------------
(* The snapshot: Exporter *)

\* A scrape never shows both nothing and a cycle: once something is published,
\* every instance is exposed.
AllExposed == /\ snapshot.published => Exposed(snapshot) = Names
              /\ ~snapshot.published => snapshot = Nothing

ExporterInv == TypeOK /\ RetainedIsLatest /\ ScrapeIsConsistent /\ AllExposed

USE ExporterAssumption

LEMMA ExporterStarts == Init => ExporterInv
BY DEF Init, ExporterInv, TypeOK, RetainedIsLatest, ScrapeIsConsistent, AllExposed,
       Nothing, Snapshots, NoReport, Up, InstanceUp, Exposed, Reported

\* The snapshot of a cycle in which every instance succeeded or failed.
LEMMA CycleKeeps == ExporterInv /\ NextCycle => ExporterInv'
<1> SUFFICES ASSUME ExporterInv, NextCycle PROVE ExporterInv'
  OBVIOUS
<1>1. PICK errors \in SUBSET Names : Update(cycle', Names \ errors, errors)
  BY DEF NextCycle
<1>2. /\ cycle' = cycle + 1
      /\ cycle' \in 1..MaxCycles
      /\ snapshot' = Snap(cycle', Names \ errors, errors)
      /\ latest' = [n \in Names |-> IF n \in Names \ errors THEN cycle' ELSE latest[n]]
  BY <1>1 DEF Update, NextCycle, ExporterInv, TypeOK
<1>3. /\ \A n \in Names : snapshot'.reports[n] =
             IF n \in errors THEN snapshot.reports[n] ELSE cycle'
      /\ snapshot'.reports \in [Names -> 0..MaxCycles]
      /\ snapshot'.errors = errors /\ snapshot'.failed = errors
      /\ snapshot'.healthy = (errors = {} /\ Names \ errors # {})
      /\ snapshot'.published = TRUE
  BY <1>2 DEF Snap, ExporterInv, TypeOK, Snapshots, NoReport
<1>4. TypeOK'
  BY <1>2, <1>3 DEF Snap, ExporterInv, TypeOK, Snapshots
<1>5. RetainedIsLatest'
  BY <1>2, <1>3 DEF ExporterInv, RetainedIsLatest, TypeOK
<1>6. Reported(snapshot') \cup errors = Names
  <2>1. cycle' # NoReport
    BY <1>2 DEF NoReport
  <2>2. \A n \in Names \ errors : n \in Reported(snapshot')
    BY <2>1, <1>3 DEF Reported
  <2>3. Reported(snapshot') \subseteq Names
    BY DEF Reported
  <2> QED BY <2>2, <2>3
<1>7. AllExposed'
  BY <1>3, <1>6 DEF AllExposed, Exposed
<1>8. CASE errors = {}
  <2>1. Reported(snapshot') = Names /\ snapshot'.healthy = TRUE
    BY <1>3, <1>6, <1>8
  <2>2. ScrapeIsConsistent'
    BY <2>1, <1>3, <1>8 DEF ScrapeIsConsistent, Up, InstanceUp, Exposed
  <2> QED BY <2>2, <1>4, <1>5, <1>7 DEF ExporterInv
<1>9. CASE errors # {}
  <2>1. PICK n \in errors : n \in Names
    BY <1>9
  <2>2. n \in Exposed(snapshot') /\ n \notin InstanceUp(snapshot')
    BY <2>1, <1>3 DEF Exposed, InstanceUp
  <2>3. ScrapeIsConsistent'
    BY <2>2, <1>3, <1>9 DEF ScrapeIsConsistent, Up
  <2> QED BY <2>3, <1>4, <1>5, <1>7 DEF ExporterInv
<1> QED BY <1>8, <1>9

\* Update(nil) marks down whatever the snapshot shows.
LEMMA NilKeeps == ExporterInv /\ UpdateNil => ExporterInv'
<1> SUFFICES ASSUME ExporterInv, UpdateNil PROVE ExporterInv'
  OBVIOUS
<1>1. CASE ~snapshot.published
  BY <1>1 DEF UpdateNil, ExporterInv, TypeOK, RetainedIsLatest, ScrapeIsConsistent,
              AllExposed, Up, InstanceUp, Exposed, Reported
<1>2. CASE snapshot.published
  <2>1. /\ snapshot'.reports = snapshot.reports
        /\ snapshot'.errors = snapshot.errors
        /\ snapshot'.failed = Exposed(snapshot)
        /\ snapshot'.healthy = FALSE
        /\ snapshot'.published = snapshot.published
        /\ snapshot' \in Snapshots
        /\ UNCHANGED <<cycle, latest>>
    BY <1>2 DEF UpdateNil, ExporterInv, TypeOK, Snapshots, Exposed, Reported
  <2>2. Reported(snapshot') = Reported(snapshot) /\ Exposed(snapshot') = Exposed(snapshot)
    BY <2>1 DEF Reported, Exposed
  <2>3. Exposed(snapshot) = Names /\ Names # {}
    BY <1>2 DEF ExporterInv, AllExposed
  <2>4. InstanceUp(snapshot') = {}
    BY <2>1, <2>2 DEF InstanceUp, Exposed
  <2>5. ScrapeIsConsistent'
    BY <2>1, <2>2, <2>3, <2>4 DEF ScrapeIsConsistent, Up
  <2> QED BY <1>2, <2>1, <2>2, <2>5 DEF ExporterInv, TypeOK, RetainedIsLatest, AllExposed
<1> QED BY <1>1, <1>2

LEMMA StutterKeeps == ExporterInv /\ UNCHANGED vars => ExporterInv'
BY DEF vars, ExporterInv, TypeOK, RetainedIsLatest, ScrapeIsConsistent, AllExposed,
       Up, InstanceUp, Exposed, Reported

LEMMA ExporterStep == ExporterInv /\ [Next]_vars => ExporterInv'
BY CycleKeeps, NilKeeps, StutterKeeps DEF Next

\* Exporter: the variables keep their types, whatever the cycles bring.
THEOREM TypeCorrect == Spec => []TypeOK
<1>1. ExporterInv => TypeOK
  BY DEF ExporterInv
<1> QED BY ExporterStarts, ExporterStep, <1>1, PTL DEF Spec

\* Server.Update: for every fleet, a failed instance's metrics are those of its last
\* successful cycle.
THEOREM RetentionIsCorrect == Spec => []RetainedIsLatest
<1>1. ExporterInv => RetainedIsLatest
  BY DEF ExporterInv
<1> QED BY ExporterStarts, ExporterStep, <1>1, PTL DEF Spec

\* Server.metrics: for every fleet, deadair_up is 1 exactly when every exposed
\* instance is up and shows the last cycle.
THEOREM ScrapesAreConsistent == Spec => []ScrapeIsConsistent
<1>1. ExporterInv => ScrapeIsConsistent
  BY DEF ExporterInv
<1> QED BY ExporterStarts, ExporterStep, <1>1, PTL DEF Spec

\* Server.Update: an instance that was exposed once stays exposed.
THEOREM NothingVanishes == Spec => NeverVanishes
<1>1. ExporterInv /\ ExporterInv' /\ [Next]_vars =>
          [Exposed(snapshot) \subseteq Exposed(snapshot')]_vars
  <2> SUFFICES ASSUME ExporterInv, ExporterInv', Next
               PROVE  Exposed(snapshot) \subseteq Exposed(snapshot')
    OBVIOUS
  <2>1. CASE snapshot.published
    <3>1. snapshot'.published
      <4>1. CASE NextCycle
        BY <4>1 DEF NextCycle, Update, Snap
      <4>2. CASE UpdateNil
        BY <2>1, <4>2 DEF UpdateNil, ExporterInv, TypeOK, Snapshots
      <4> QED BY <4>1, <4>2 DEF Next
    <3> QED BY <2>1, <3>1 DEF ExporterInv, AllExposed
  <2>2. CASE ~snapshot.published
    BY <2>2 DEF ExporterInv, AllExposed, Nothing, Exposed, Reported, NoReport
  <2> QED BY <2>1, <2>2
<1> QED BY ExporterStarts, ExporterStep, <1>1, PTL DEF Spec, NeverVanishes

-----------------------------------------------------------------------------
(* The loop *)

Before == {"check", "scan", "decide", "publish"}

\* Every cycle but the first has taken a tick.
Budget == cycle + (IF worker \in Before THEN 1 ELSE 0) + (IF tick THEN 1 ELSE 0)
              <= ticks + 1

\* Only a cancelled context fails a scan by cancellation, and a result that is
\* about to be published is complete.
ResultsAreKnown ==
    /\ ctx = "live" => \A n \in Names : result[n] # "cancelled"
    /\ worker = "decide" => \A n \in Names : result[n] # "pending"
    /\ worker = "publish" => \A n \in Names : result[n] \in {"ok", "failed"}

\* What has been joined has ended.
Joined ==
    /\ main \in {"joinShutter", "returned"} => worker = "done"
    /\ main = "returned" => shutter = "done"
    /\ shutter # "wait" => server = "shut"
    /\ shutter = "done" => conns = {}
    /\ worker # "commit" => saved = cycle

IInv == LoopTypeOK /\ Budget /\ ResultsAreKnown /\ Joined

USE ServeLoopAssumption

LEMMA InitIInv == LoopInit => IInv
<1> SUFFICES ASSUME LoopInit PROVE IInv
  OBVIOUS
<1>1. TypeOK
  BY DEF LoopInit, Init, TypeOK, Nothing, Snapshots, NoReport
<1>2. LoopTypeOK
  <2>1. result \in [Names -> Results]
    BY DEF LoopInit, Fresh, Results
  <2>2. ticks \in 0..(MaxCycles - 1) /\ saved \in 0..MaxCycles /\ conns \in SUBSET Conns
    BY DEF LoopInit
  <2> QED BY <1>1, <2>1, <2>2 DEF LoopInit, LoopTypeOK
<1>3. Budget /\ ResultsAreKnown /\ Joined
  BY DEF LoopInit, Init, Budget, ResultsAreKnown, Joined, Fresh, Before
<1> QED BY <1>2, <1>3 DEF IInv

\* What a published cycle does to the snapshot.
LEMMA PublishStep ==
    ASSUME IInv, Publish
    PROVE  NextCycle /\ TypeOK'
<1>1. cycle \in Nat /\ cycle < MaxCycles /\ cycle' = cycle + 1 /\ cycle' \in 0..MaxCycles
  BY DEF Publish, IInv, LoopTypeOK, TypeOK, Budget, Before
<1> DEFINE errors == Names \ Succeeded
<1>2. Names \ errors = Succeeded /\ errors \in SUBSET Names
  BY DEF Succeeded
<1>3. Update(cycle', Names \ errors, errors)
  BY <1>2 DEF Publish
<1>4. NextCycle
  BY <1>1, <1>2, <1>3 DEF NextCycle
<1>5. snapshot' \in Snapshots /\ latest' \in [Names -> 0..MaxCycles]
  BY <1>1, <1>2, <1>3 DEF Update, Snap, Snapshots, IInv, LoopTypeOK, TypeOK, NoReport
<1> QED BY <1>1, <1>4, <1>5 DEF TypeOK

\* The steps of the scanning goroutine.
LEMMA WorkerIInv == IInv /\ Worker => IInv'
<1> SUFFICES ASSUME IInv, Worker PROVE IInv'
  OBVIOUS
<1> USE DEF IInv, LoopTypeOK, Budget, ResultsAreKnown, Joined, Before
<1>1. CASE Check
  BY <1>1 DEF Check, Fresh, Results, vars, tickVars, serverVars, mainVars, TypeOK
<1>2. CASE Decide
  BY <1>2 DEF Decide, Results, vars, tickVars, serverVars, mainVars, TypeOK
<1>3. CASE Publish
  <2>1. TypeOK' /\ cycle' = cycle + 1 /\ cycle \in Nat
    BY <1>3, PublishStep DEF Publish, TypeOK
  <2> QED BY <1>3, <2>1 DEF Publish, tickVars, serverVars, mainVars
<1>4. CASE CommitStates
  BY <1>4 DEF CommitStates, vars, tickVars, serverVars, mainVars, TypeOK
<1>5. CASE StopWorker
  BY <1>5 DEF StopWorker, vars, tickVars, serverVars, mainVars, TypeOK
<1>6. CASE TakeTick
  <2>1. LoopTypeOK' /\ ResultsAreKnown' /\ Joined'
    BY <1>6 DEF TakeTick, vars, serverVars, mainVars, TypeOK
  <2>2. Budget'
    BY <1>6 DEF TakeTick, vars, TypeOK
  <2> QED BY <2>1, <2>2
<1>7. ASSUME NEW n \in Names, NEW r \in Results, ScanInstance(n, r) PROVE IInv'
  <2>1. /\ result' = [result EXCEPT ![n] = r]
        /\ r # "pending"
        /\ ctx = "live" => r # "cancelled"
        /\ worker = "scan" /\ worker' \in {"scan", "decide"}
        /\ worker' = "decide" => \A m \in Names \ {n} : result[m] # "pending"
        /\ UNCHANGED <<vars, ctx, signalled, saved, tickVars, serverVars, shutter, mainVars>>
    BY <1>7 DEF ScanInstance
  <2>2. LoopTypeOK' /\ Budget' /\ Joined'
    BY <2>1 DEF Results, vars, tickVars, serverVars, mainVars, TypeOK
  <2>3. ResultsAreKnown'
    BY <2>1
  <2> QED BY <2>2, <2>3
<1> QED BY <1>1, <1>2, <1>3, <1>4, <1>5, <1>6, <1>7 DEF Worker

\* The ticker, the server, its shutdown and the main goroutine.
LEMMA OthersIInv ==
    ASSUME IInv,
           \/ Tick \/ Shutdown \/ Drained \/ DrainTimeout
           \/ Signal \/ ServeReturns \/ AcceptFails \/ Cancel \/ JoinWorker \/ JoinShutter
           \/ \E c \in Conns : OpenScrape(c) \/ CloseScrape(c)
    PROVE  IInv'
<1> USE DEF IInv, LoopTypeOK, Budget, ResultsAreKnown, Joined, Before, TypeOK,
            vars, workerVars, tickVars, serverVars, mainVars
<1>1. CASE Tick
  BY <1>1 DEF Tick
<1>2. CASE Shutdown
  BY <1>2 DEF Shutdown
<1>3. CASE Drained \/ DrainTimeout
  BY <1>3 DEF Drained, DrainTimeout
<1>4. CASE Signal
  BY <1>4 DEF Signal
<1>5. CASE ServeReturns \/ AcceptFails
  BY <1>5 DEF ServeReturns, AcceptFails
<1>6. CASE Cancel
  BY <1>6 DEF Cancel
<1>7. CASE JoinWorker \/ JoinShutter
  BY <1>7 DEF JoinWorker, JoinShutter
<1>8. ASSUME NEW c \in Conns, OpenScrape(c) \/ CloseScrape(c) PROVE IInv'
  BY <1>8 DEF OpenScrape, CloseScrape
<1> QED BY <1>1, <1>2, <1>3, <1>4, <1>5, <1>6, <1>7, <1>8

LEMMA InductiveIInv == IInv /\ [LoopNext]_allVars => IInv'
<1> SUFFICES ASSUME IInv, [LoopNext]_allVars PROVE IInv'
  OBVIOUS
<1>1. CASE UNCHANGED allVars
  BY <1>1 DEF allVars, vars, loopVars, workerVars, tickVars, serverVars, mainVars,
              IInv, LoopTypeOK, TypeOK, Budget, ResultsAreKnown, Joined, Before
<1>2. CASE Worker
  BY <1>2, WorkerIInv
<1>3. CASE LoopNext /\ ~Worker
  BY <1>3, OthersIInv DEF LoopNext
<1> QED BY <1>1, <1>2, <1>3

LEMMA Invariance == LoopSpec => []IInv
BY InitIInv, InductiveIInv, PTL DEF LoopSpec

\* serveMetrics: the variables of every goroutine keep their types.
THEOREM LoopTypeCorrect == LoopSpec => []LoopTypeOK
<1>1. IInv => LoopTypeOK
  BY DEF IInv
<1> QED BY Invariance, <1>1, PTL

\* serveMetrics: when it returns, for every fleet and any number of open scrapes,
\* no goroutine and no scrape is left and every published cycle has been committed.
THEOREM ReturnIsClean == LoopSpec => []NothingLeftBehind
<1>1. IInv => NothingLeftBehind
  BY DEF IInv, Joined, NothingLeftBehind
<1> QED BY Invariance, <1>1, PTL

\* Only Publish changes the snapshot.
LEMMA OnlyPublish == [LoopNext]_allVars => Publish \/ UNCHANGED vars
BY DEF LoopNext, Worker, Check, Decide, CommitStates, StopWorker, TakeTick,
       ScanInstance, Tick, Shutdown, Drained, DrainTimeout, Signal, ServeReturns,
       AcceptFails, Cancel, JoinWorker, JoinShutter, OpenScrape, CloseScrape, allVars

\* runServe: a shutdown is never shown as a failed instance.
THEOREM ShutdownIsNoOutage == LoopSpec => CancellationIsNotFailure
<1>1. IInv /\ [LoopNext]_allVars =>
          [\A n \in snapshot'.errors : snapshot' # snapshot => result[n] = "failed"]_allVars
  <2> SUFFICES ASSUME IInv, Publish, NEW n \in snapshot'.errors
               PROVE  result[n] = "failed"
    BY OnlyPublish DEF vars
  <2>1. snapshot'.errors = Names \ Succeeded
    BY DEF Publish, Update, Snap
  <2> QED BY <2>1 DEF IInv, ResultsAreKnown, Publish, Succeeded
<1> QED BY Invariance, <1>1, PTL DEF LoopSpec, CancellationIsNotFailure

\* runServe publishes by Update and touches the snapshot nowhere else, so what is
\* proved of Exporter holds of deadair serve.
LEMMA LoopStepsAreExporters == LoopSpec => Spec
<1>1. LoopInit => Init
  BY DEF LoopInit
<1>2. IInv /\ [LoopNext]_allVars => [Next]_vars
  BY OnlyPublish, PublishStep DEF Next
<1> QED BY Invariance, <1>1, <1>2, PTL DEF LoopSpec, Spec

\* So deadair serve, whatever its goroutines do, shows each instance as its last successful
\* cycle left it, is up exactly when all of them are, and lets none vanish.
THEOREM ServeScrapes == LoopSpec => []RetainedIsLatest /\ []ScrapeIsConsistent /\ NeverVanishes
BY LoopStepsAreExporters, RetentionIsCorrect, ScrapesAreConsistent, NothingVanishes
=============================================================================
