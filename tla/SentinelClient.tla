---------------------------- MODULE SentinelClient ----------------------------
(***************************************************************************)
(* internal/backend/sentinel: how the goroutines of an evidence call share *)
(* the client.  Each takes a slot of the pool, makes sure of the workspace *)
(* identity under its mutex, draws on the scan's budget of Logs queries,   *)
(* and sends its query; every request needs an access token, which all     *)
(* requests of one scope share, and is retried a few times.                *)
(*                                                                         *)
(* Calls follow one another, each with its own context.  The table         *)
(* inventory has been read by then.                                        *)
(***************************************************************************)
EXTENDS Naturals, FiniteSets

CONSTANTS
    Tasks,          \* the tables of a call, numbered in order, each with a query of its own
    Slots,          \* Client.concurrency
    Attempts,       \* maxAttempts
    QueryBudget,    \* logsQueryBudget
    SourceBudget,   \* evidenceSourceBudget
    MaxCalls,       \* bound: evidence calls
    Nobody          \* stands where there is no task

ASSUME SentinelClientAssumption ==
    /\ IsFiniteSet(Tasks) /\ Tasks \subseteq Nat /\ Nobody \notin Tasks
    /\ Slots \in Nat \ {0} /\ Attempts \in Nat \ {0}
    /\ QueryBudget \in Nat /\ SourceBudget \in Nat /\ MaxCalls \in Nat

VARIABLES
    context, call,  \* as in EvidencePool
    calls,
    worker,     \* where each goroutine is
    request,    \* the scope of the request it is making: "arm" or "logs", or "none"
    attempt,    \* attempts of that request before the current one
    held,       \* the token it goes by
    cached,     \* accessTokens, by scope
    flight,     \* accessTokenFlights, by scope: who asked for the token
    identity,   \* workspaceIDValidated
    mutex,      \* who holds workspaceIDMu
    queries,    \* budgetQueries
    claimed     \* budgetSources

tokenVars == <<cached, flight>>
budgetVars == <<queries, claimed>>
taskVars == <<worker, request, attempt, held>>
callVars == <<context, call, calls>>
clientVars == <<callVars, taskVars, tokenVars, identity, mutex, budgetVars>>

Scopes == {"arm", "logs"}

\* A token is "fresh" while more than accessTokenRefreshSkew of its life is left, and
\* "near" until it expires.  A cached one is not used once it is near.
Tokens == {"none", "fresh", "near", "expired"}

\* Where a goroutine has not begun, or is through.
Resting == {"idle", "slot", "answered", "left"}

\* Where it is making a request.
Requesting == {"lock", "ask", "wait", "woken", "send", "backoff"}

Places == Resting \cup {"table", "identity", "claim"} \cup Requesting

Busy == {t \in Tasks : worker[t] \notin Resting}

ClientInit ==
    /\ context = "live" /\ call = "idle" /\ calls = 0
    /\ worker = [t \in Tasks |-> "idle"]
    /\ request = [t \in Tasks |-> "none"]
    /\ attempt = [t \in Tasks |-> 0]
    /\ held = [t \in Tasks |-> "none"]
    /\ cached = [s \in Scopes |-> "none"]
    /\ flight = [s \in Scopes |-> Nobody]
    /\ identity = FALSE
    /\ mutex = Nobody
    /\ queries = 0
    /\ claimed = {}

-----------------------------------------------------------------------------
(* The call *)

\* The tables for which the source budget has room; those before it had their claim first.
Claimed ==
    {t \in Tasks : \/ t \in claimed
                   \/ Cardinality(claimed) + Cardinality({u \in Tasks \ claimed : u < t}) < SourceBudget}

Begin ==
    /\ call # "running"
    /\ calls < MaxCalls
    /\ call' = "running"
    /\ calls' = calls + 1
    /\ context' \in {"live", "ended"}
    /\ claimed' = Claimed
    /\ worker' = [t \in Tasks |-> IF t \in Claimed THEN "slot" ELSE "answered"]
    /\ UNCHANGED <<request, attempt, held, tokenVars, identity, mutex, queries>>

\* Mutant: the context is not looked at once the goroutines are joined.
ReturnUnchecked ==
    /\ call = "running"
    /\ \A t \in Tasks : worker[t] \in {"answered", "left"}
    /\ call' = "evidence"
    /\ UNCHANGED <<context, calls, taskVars, tokenVars, identity, mutex, budgetVars>>

Return ==
    /\ call = "running"
    /\ \A t \in Tasks : worker[t] \in {"answered", "left"}
    /\ call' = IF context = "ended" THEN "error" ELSE "evidence"
    /\ UNCHANGED <<context, calls, taskVars, tokenVars, identity, mutex, budgetVars>>

\* A deadline, or the program is being stopped.
End ==
    /\ context = "live"
    /\ context' = "ended"
    /\ UNCHANGED <<call, calls, taskVars, tokenVars, identity, mutex, budgetVars>>

\* RefreshForScan; access tokens outlive the scan.
Refresh ==
    /\ call # "running"
    /\ identity' = FALSE
    /\ queries' = 0
    /\ claimed' = {}
    /\ UNCHANGED <<callVars, taskVars, tokenVars, mutex>>

\* Time passes for the tokens of a scope; less of it than the skew while a request
\* that has its token is on the way out.
Age(s) ==
    LET older(token) == IF token = "fresh" THEN "near"
                        ELSE IF token = "near" THEN "expired" ELSE token
        leaving == {t \in Tasks : request[t] = s /\ worker[t] \in {"woken", "send"}}
    IN  /\ \A t \in leaving : held[t] # "near"
        /\ cached' = [cached EXCEPT ![s] = IF @ = "fresh" THEN "near" ELSE @]
        /\ held' = [t \in Tasks |-> IF request[t] = s THEN older(held[t]) ELSE held[t]]
        /\ <<cached, held>>' # <<cached, held>>
        /\ UNCHANGED <<callVars, worker, request, attempt, flight, identity, mutex, budgetVars>>

-----------------------------------------------------------------------------
(* A goroutine, up to its request *)

Move(t, place) == worker' = [worker EXCEPT ![t] = place]

TakeSlot(t) ==
    /\ worker[t] = "slot"
    /\ Cardinality(Busy) < Slots
    /\ Move(t, "table")
    /\ UNCHANGED <<callVars, request, attempt, held, tokenVars, identity, mutex, budgetVars>>

Leave(t) ==
    /\ worker[t] = "slot"
    /\ context = "ended"
    /\ Move(t, "left")
    /\ UNCHANGED <<callVars, request, attempt, held, tokenVars, identity, mutex, budgetVars>>

Start(t, scope) ==
    /\ Move(t, "lock")
    /\ request' = [request EXCEPT ![t] = scope]

\* A table that is absent, limited or without the needed column is answered without a
\* query.
Inspect(t) ==
    /\ worker[t] = "table"
    /\ Move(t, "answered") \/ Move(t, "identity")
    /\ UNCHANGED <<callVars, request, attempt, held, tokenVars, identity, mutex, budgetVars>>

\* workspaceID: the goroutine locks the mutex, and keeps it only to ask for the identity.
Identify(t) ==
    /\ worker[t] = "identity"
    /\ mutex = Nobody
    /\ \/ identity /\ Move(t, "claim") /\ UNCHANGED <<request, mutex>>
       \/ ~identity /\ Start(t, "arm") /\ mutex' = t
    /\ UNCHANGED <<callVars, attempt, held, tokenVars, identity, budgetVars>>

Claim(t) ==
    /\ worker[t] = "claim"
    /\ \/ queries < QueryBudget /\ queries' = queries + 1 /\ Start(t, "logs")
       \/ queries >= QueryBudget /\ Move(t, "answered") /\ UNCHANGED <<queries, request>>
    /\ UNCHANGED <<callVars, attempt, held, tokenVars, identity, mutex, claimed>>

-----------------------------------------------------------------------------
(* doJSON and accessToken *)

\* The request of t is over.  The one for the identity is made under the mutex.
Finish(t, succeeded) ==
    /\ attempt' = [attempt EXCEPT ![t] = 0]
    /\ held' = [held EXCEPT ![t] = "none"]
    /\ request' = [request EXCEPT ![t] = "none"]
    /\ \/ /\ request[t] = "arm"
          /\ mutex' = Nobody
          /\ identity' = succeeded
          /\ Move(t, IF succeeded THEN "claim" ELSE "answered")
       \/ /\ request[t] = "logs"
          /\ UNCHANGED <<mutex, identity>>
          /\ Move(t, "answered")
    /\ UNCHANGED <<callVars, budgetVars>>

\* The request goes on elsewhere, with a token or without one.
Proceed(t, place, token) ==
    /\ Move(t, place)
    /\ held' = [held EXCEPT ![t] = token]
    /\ UNCHANGED <<callVars, request, attempt, identity, mutex, budgetVars>>

\* accessToken, up to where it unlocks tokenMu.
Lock(t) ==
    LET s == request[t]
    IN  /\ worker[t] = "lock"
        /\ \/ /\ context = "ended"
              /\ Finish(t, FALSE)
              /\ UNCHANGED tokenVars
           \/ /\ context = "live" /\ cached[s] = "fresh"
              /\ Proceed(t, "send", "fresh")
              /\ UNCHANGED tokenVars
           \/ /\ context = "live" /\ cached[s] # "fresh" /\ flight[s] # Nobody
              /\ cached' = [cached EXCEPT ![s] = "none"]
              /\ Proceed(t, "wait", "none")
              /\ UNCHANGED flight
           \/ /\ context = "live" /\ cached[s] # "fresh" /\ flight[s] = Nobody
              /\ cached' = [cached EXCEPT ![s] = "none"]
              /\ flight' = [flight EXCEPT ![s] = t]
              /\ Proceed(t, "ask", "none")

\* Those whose requests wait for the token t asked for.
Waiters(t) == {u \in Tasks : worker[u] = "wait" /\ request[u] = request[t]}

\* GetToken returns a token, of which too little may be left to keep it, and the flight
\* is published to all who wait for it.
GetToken(t, token) ==
    LET s == request[t]
        served == Waiters(t) \cup {t}
    IN  /\ worker[t] = "ask"
        /\ token \in {"fresh", "near"}
        /\ cached' = [cached EXCEPT ![s] = IF token = "fresh" THEN token ELSE @]
        /\ flight' = [flight EXCEPT ![s] = Nobody]
        /\ held' = [u \in Tasks |-> IF u \in served THEN token ELSE held[u]]
        /\ worker' = [u \in Tasks |-> IF u = t THEN "send"
                                      ELSE IF u \in served THEN "woken" ELSE worker[u]]
        /\ UNCHANGED <<callVars, request, attempt, identity, mutex, budgetVars>>

\* Mutant: a failed flight stays, and is waited for.
RefuseTokenAndStay(t) ==
    /\ worker[t] = "ask"
    /\ Finish(t, FALSE)
    /\ UNCHANGED tokenVars

\* GetToken fails; those who wait are woken without a token.
RefuseToken(t) ==
    /\ worker[t] = "ask"
    /\ flight' = [flight EXCEPT ![request[t]] = Nobody]
    /\ worker' = [u \in Tasks |-> IF u = t THEN "answered"
                                  ELSE IF u \in Waiters(t) THEN "woken" ELSE worker[u]]
    /\ attempt' = [attempt EXCEPT ![t] = 0]
    /\ request' = [request EXCEPT ![t] = "none"]
    /\ mutex' = IF mutex = t THEN Nobody ELSE mutex
    /\ UNCHANGED <<callVars, held, cached, identity, budgetVars>>

\* A waiter looks at its own context before it takes the token.
Woken(t) ==
    /\ worker[t] = "woken"
    /\ \/ context = "live" /\ held[t] # "none" /\ Proceed(t, "send", held[t])
       \/ context = "ended" /\ Finish(t, FALSE)
       \/ held[t] = "none" /\ Finish(t, FALSE)
    /\ UNCHANGED tokenVars

\* The context ends a wait, for a token or between two attempts.
Abandon(t) ==
    /\ worker[t] \in {"wait", "backoff"}
    /\ context = "ended"
    /\ Finish(t, FALSE)
    /\ UNCHANGED tokenVars

Send(t) ==
    /\ worker[t] = "send"
    /\ \/ \E succeeded \in BOOLEAN : Finish(t, succeeded)
       \/ attempt[t] < Attempts - 1 /\ Proceed(t, "backoff", held[t])
    /\ UNCHANGED tokenVars

\* Mutant: the next attempt uses the token of the last one.
RetryAsBefore(t) ==
    /\ worker[t] = "backoff"
    /\ Move(t, "send")
    /\ attempt' = [attempt EXCEPT ![t] = @ + 1]
    /\ UNCHANGED <<callVars, request, held, tokenVars, identity, mutex, budgetVars>>

Retry(t) ==
    /\ worker[t] = "backoff"
    /\ Move(t, "lock")
    /\ attempt' = [attempt EXCEPT ![t] = @ + 1]
    /\ UNCHANGED <<callVars, request, held, tokenVars, identity, mutex, budgetVars>>

\* What a goroutine does by itself.
Work(t) ==
    \/ TakeSlot(t) \/ Inspect(t) \/ Identify(t) \/ Claim(t)
    \/ Lock(t) \/ RefuseToken(t) \/ Woken(t) \/ Send(t) \/ Retry(t)
    \/ \E token \in {"fresh", "near"} : GetToken(t, token)

ClientNext ==
    \/ Begin \/ Return \/ End \/ Refresh
    \/ \E t \in Tasks : Work(t) \/ Leave(t) \/ Abandon(t)
    \/ \E s \in Scopes : Age(s)

\* Goroutines that can run do; the credential and the service answer (the HTTP client
\* gives up after a minute), and a timer goes off.
ClientFairness == WF_clientVars(Return) /\ \A t \in Tasks : WF_clientVars(Work(t))

ClientSpec == ClientInit /\ [][ClientNext]_clientVars /\ ClientFairness

-----------------------------------------------------------------------------
(* Properties *)

ClientTypeOK ==
    /\ context \in {"live", "ended"}
    /\ call \in {"idle", "running", "evidence", "error"}
    /\ calls \in 0..MaxCalls
    /\ worker \in [Tasks -> Places]
    /\ request \in [Tasks -> Scopes \cup {"none"}]
    /\ attempt \in [Tasks -> 0..(Attempts - 1)]
    /\ held \in [Tasks -> Tokens]
    /\ cached \in [Scopes -> Tokens]
    /\ flight \in [Scopes -> Tasks \cup {Nobody}]
    /\ identity \in BOOLEAN
    /\ mutex \in Tasks \cup {Nobody}
    /\ queries \in 0..QueryBudget
    /\ claimed \in SUBSET Tasks

\* What a caller sees of a goroutine.
PoolTask ==
    [t \in Tasks |-> IF worker[t] \in Resting \ {"slot"} THEN worker[t]
                     ELSE IF worker[t] = "slot" THEN "waiting" ELSE "working"]

Pool == INSTANCE EvidencePool WITH task <- PoolTask

\* With tokens, mutex, budgets and retries between a goroutine and its answer, a call
\* still answers every request or fails, and never works on more than its pool allows
\* (client.go 1374-1431).
ImplementsPool == Pool!Spec

\* However many goroutines need a token at once, it is asked for once (client.go 324-341),
\* and a token that was good before a wait is not trusted after it: no request goes out
\* with one that expired while the service made it wait (client.go 367-371).
TokensAreSound ==
    /\ \A s \in Scopes : Cardinality({t \in Tasks : worker[t] = "ask" /\ request[t] = s}) <= 1
    /\ \A t \in Tasks : worker[t] = "send" => held[t] \in {"fresh", "near"}

\* Every call ends: nobody is left waiting for a token that was refused, for a mutex
\* or for a slot.
CallEnds == call = "running" ~> call # "running"
=============================================================================
