------------------------------ MODULE ServeLoop ------------------------------
(***************************************************************************)
(* serveMetrics and the scan function runServe gives it: the goroutine     *)
(* that scans on a ticker, the one that shuts the HTTP server down when    *)
(* the context is done, the main goroutine inside Serve, and the scrapes   *)
(* being answered.  The snapshot they share is Exporter's.  What a scan    *)
(* and a commit do to the state files is ScanCommit's.                     *)
(***************************************************************************)
EXTENDS Exporter

CONSTANTS Conns       \* scrapes that may be open at once

ASSUME ServeLoopAssumption == MaxCycles > 0

VARIABLES
    ctx,        \* "live", or "done" once cancelled
    signalled,  \* the parent context was cancelled (SIGINT, SIGTERM)
    worker,     \* the scanning goroutine
    result,     \* what became of each instance in this cycle
    tick,       \* the ticker's channel holds a tick
    ticks,      \* ticks so far
    saved,      \* the last cycle whose states were committed
    server,     \* "open" until Shutdown or Close
    conns,      \* scrapes being answered
    shutter,    \* the shutdown goroutine
    main,       \* the goroutine that called serveMetrics
    exit        \* what serveMetrics returns

workerVars == <<worker, result, saved>>
tickVars == <<tick, ticks>>
serverVars == <<server, conns>>
mainVars == <<main, exit>>
loopVars == <<ctx, signalled, workerVars, tickVars, serverVars, shutter, mainVars>>
allVars == <<vars, loopVars>>

Results == {"pending", "ok", "failed", "cancelled"}

Fresh == [n \in Names |-> "pending"]

LoopInit ==
    /\ Init
    /\ ctx = "live"
    /\ signalled = FALSE
    /\ worker = "check"
    /\ result = Fresh
    /\ tick = FALSE
    /\ ticks = 0
    /\ saved = 0
    /\ server = "open"
    /\ conns = {}
    /\ shutter = "wait"
    /\ main = "serve"
    /\ exit = "none"

-----------------------------------------------------------------------------
(* The scanning goroutine *)

Check ==
    /\ worker = "check"
    /\ worker' = IF ctx = "done" THEN "done" ELSE "scan"
    /\ result' = Fresh
    /\ UNCHANGED <<vars, ctx, signalled, saved, tickVars, serverVars, shutter, mainVars>>

\* One instance of scanFleet; their order does not matter here.  A scan fails for
\* a reason of its own (its timeout included), or because the context was
\* cancelled under it.
ScanInstance(n, r) ==
    /\ worker = "scan"
    /\ result[n] = "pending"
    /\ r \in {"ok", "failed"} \/ (r = "cancelled" /\ ctx = "done")
    /\ result' = [result EXCEPT ![n] = r]
    /\ worker' = IF \A m \in Names \ {n} : result[m] # "pending" THEN "decide" ELSE "scan"
    /\ UNCHANGED <<vars, ctx, signalled, saved, tickVars, serverVars, shutter, mainVars>>

\* Mutant: the context is not looked at after the scan.
DecideAlways ==
    /\ worker = "decide"
    /\ worker' = "publish"
    /\ UNCHANGED <<vars, ctx, signalled, result, saved, tickVars, serverVars, shutter, mainVars>>

\* A cycle the cancellation cut into is dropped whole: no Update and no commit.
Decide ==
    /\ worker = "decide"
    /\ worker' = IF ctx = "done" THEN "select" ELSE "publish"
    /\ UNCHANGED <<vars, ctx, signalled, result, saved, tickVars, serverVars, shutter, mainVars>>

Succeeded == {n \in Names : result[n] = "ok"}

\* Mutant: the failed instances are left out of the update.
PublishWithoutErrors ==
    /\ worker = "publish"
    /\ cycle' = cycle + 1
    /\ Update(cycle', Succeeded, {})
    /\ worker' = "commit"
    /\ UNCHANGED <<ctx, signalled, result, saved, tickVars, serverVars, shutter, mainVars>>

Publish ==
    /\ worker = "publish"
    /\ cycle' = cycle + 1
    /\ Update(cycle', Succeeded, Names \ Succeeded)
    /\ worker' = "commit"
    /\ UNCHANGED <<ctx, signalled, result, saved, tickVars, serverVars, shutter, mainVars>>

\* Mutant: the commits are counted for the cycle to come.
CommitNextCycle ==
    /\ worker = "commit"
    /\ saved' = cycle + 1
    /\ worker' = "select"
    /\ UNCHANGED <<vars, ctx, signalled, result, tickVars, serverVars, shutter, mainVars>>

\* Every commit is tried; one that fails is only logged.
CommitStates ==
    /\ worker = "commit"
    /\ saved' = cycle
    /\ worker' = "select"
    /\ UNCHANGED <<vars, ctx, signalled, result, tickVars, serverVars, shutter, mainVars>>

\* The select statement: with both channels ready Go may take either.
StopWorker ==
    /\ worker = "select"
    /\ ctx = "done"
    /\ worker' = "done"
    /\ UNCHANGED <<vars, ctx, signalled, result, saved, tickVars, serverVars, shutter, mainVars>>

\* Mutant: the tick is taken and no scan follows.
TakeTickOnly ==
    /\ worker = "select"
    /\ tick
    /\ tick' = FALSE
    /\ UNCHANGED <<vars, ctx, signalled, workerVars, ticks, serverVars, shutter, mainVars>>

TakeTick ==
    /\ worker = "select"
    /\ tick
    /\ tick' = FALSE
    /\ worker' = "check"
    /\ UNCHANGED <<vars, ctx, signalled, result, saved, ticks, serverVars, shutter, mainVars>>

\* The ticker drops a tick while the last one has not been taken.  MaxCycles bounds
\* the ticks, and so the cycles: one before the first tick, one for each tick.
Tick ==
    /\ worker # "done"
    /\ ~tick
    /\ ticks < MaxCycles - 1
    /\ tick' = TRUE
    /\ ticks' = ticks + 1
    /\ UNCHANGED <<vars, ctx, signalled, workerVars, serverVars, shutter, mainVars>>

Worker == \/ Check \/ Decide \/ Publish \/ CommitStates \/ StopWorker \/ TakeTick
          \/ \E n \in Names, r \in Results : ScanInstance(n, r)

-----------------------------------------------------------------------------
(* The HTTP server and its shutdown *)

OpenScrape(c) ==
    /\ server = "open"
    /\ main # "returned"
    /\ c \notin conns
    /\ conns' = conns \cup {c}
    /\ UNCHANGED <<vars, ctx, signalled, workerVars, tickVars, server, shutter, mainVars>>

CloseScrape(c) ==
    /\ c \in conns
    /\ conns' = conns \ {c}
    /\ UNCHANGED <<vars, ctx, signalled, workerVars, tickVars, server, shutter, mainVars>>

\* Shutdown closes the listener at once, then waits for the open connections.
Shutdown ==
    /\ shutter = "wait"
    /\ ctx = "done"
    /\ server' = "shut"
    /\ shutter' = "drain"
    /\ UNCHANGED <<vars, ctx, signalled, workerVars, tickVars, conns, mainVars>>

Drained ==
    /\ shutter = "drain"
    /\ conns = {}
    /\ shutter' = "done"
    /\ UNCHANGED <<vars, ctx, signalled, workerVars, tickVars, serverVars, mainVars>>

\* Five seconds later Shutdown gives up and Close cuts what is still open.
DrainTimeout ==
    /\ shutter = "drain"
    /\ conns # {}
    /\ conns' = {}
    /\ shutter' = "done"
    /\ UNCHANGED <<vars, ctx, signalled, workerVars, tickVars, server, mainVars>>

-----------------------------------------------------------------------------
(* The goroutine that called serveMetrics *)

Signal ==
    /\ main # "returned"
    /\ ~signalled
    /\ signalled' = TRUE
    /\ ctx' = "done"
    /\ UNCHANGED <<vars, workerVars, tickVars, serverVars, shutter, mainVars>>

\* Serve returns: ErrServerClosed after Shutdown, or an error of the listener.
ServeReturns ==
    /\ main = "serve"
    /\ server = "shut"
    /\ main' = "cancel"
    /\ exit' = "ok"
    /\ UNCHANGED <<vars, ctx, signalled, workerVars, tickVars, serverVars, shutter>>

AcceptFails ==
    /\ main = "serve"
    /\ main' = "cancel"
    /\ exit' = "error"
    /\ UNCHANGED <<vars, ctx, signalled, workerVars, tickVars, serverVars, shutter>>

\* Mutant: the goroutines are joined without being cancelled.
CancelForgotten ==
    /\ main = "cancel"
    /\ main' = "joinWorker"
    /\ UNCHANGED <<vars, ctx, signalled, workerVars, tickVars, serverVars, shutter, exit>>

Cancel ==
    /\ main = "cancel"
    /\ ctx' = "done"
    /\ main' = "joinWorker"
    /\ UNCHANGED <<vars, signalled, workerVars, tickVars, serverVars, shutter, exit>>

\* Mutant: serveMetrics does not wait for the scan under way.
JoinNobody ==
    /\ main = "joinWorker"
    /\ main' = "joinShutter"
    /\ UNCHANGED <<vars, ctx, signalled, workerVars, tickVars, serverVars, shutter, exit>>

JoinWorker ==
    /\ main = "joinWorker"
    /\ worker = "done"
    /\ main' = "joinShutter"
    /\ UNCHANGED <<vars, ctx, signalled, workerVars, tickVars, serverVars, shutter, exit>>

JoinShutter ==
    /\ main = "joinShutter"
    /\ shutter = "done"
    /\ main' = "returned"
    /\ UNCHANGED <<vars, ctx, signalled, workerVars, tickVars, serverVars, shutter, exit>>

LoopNext == \/ Worker \/ Tick
            \/ Shutdown \/ Drained \/ DrainTimeout
            \/ Signal \/ ServeReturns \/ AcceptFails
            \/ Cancel \/ JoinWorker \/ JoinShutter
            \/ \E c \in Conns : OpenScrape(c) \/ CloseScrape(c)

\* Every goroutine that can run does, a scan ends (its context has a timeout), and
\* so do the ticker and the five seconds of Shutdown.  A client need never finish
\* its scrape, no signal need arrive and the listener need not fail.
LoopFairness ==
    /\ WF_allVars(Worker)
    /\ WF_allVars(Tick)
    /\ WF_allVars(Shutdown \/ Drained \/ DrainTimeout)
    /\ WF_allVars(ServeReturns \/ Cancel \/ JoinWorker \/ JoinShutter)

LoopSpec == LoopInit /\ [][LoopNext]_allVars /\ LoopFairness

-----------------------------------------------------------------------------
(* Properties *)

LoopTypeOK ==
    /\ TypeOK
    /\ ctx \in {"live", "done"}
    /\ signalled \in BOOLEAN
    /\ worker \in {"check", "scan", "decide", "publish", "commit", "select", "done"}
    /\ result \in [Names -> Results]
    /\ tick \in BOOLEAN
    /\ ticks \in 0..(MaxCycles - 1)
    /\ saved \in 0..MaxCycles
    /\ server \in {"open", "shut"}
    /\ conns \in SUBSET Conns
    /\ shutter \in {"wait", "drain", "done"}
    /\ main \in {"serve", "cancel", "joinWorker", "joinShutter", "returned"}
    /\ exit \in {"none", "ok", "error"}

\* Stopping deadair is never shown as an outage of a SIEM: whenever the signal falls,
\* an instance that a published snapshot marks failed did fail by itself
\* (cli.go, the ctx.Err check after scanFleet).
CancellationIsNotFailure ==
    [][\A n \in snapshot'.errors : snapshot' # snapshot => result[n] = "failed"]_allVars

\* When serveMetrics returns nothing of it is left running: no goroutine, no open
\* scrape, and no cycle that was published without its states being committed.
NothingLeftBehind ==
    main = "returned" =>
        /\ worker = "done" /\ shutter = "done"
        /\ conns = {}
        /\ saved = cycle

\* A signal, and a listener that fails, each end the program, with a scan under way,
\* with a scrape that never finishes, and with a tick waiting.
StopReturns == (signalled \/ exit = "error") ~> main = "returned"

\* A tick that was delivered is never lost: another scan follows unless deadair is
\* being stopped.
TickIsServed == tick ~> (worker = "scan" \/ ctx = "done")
=============================================================================
