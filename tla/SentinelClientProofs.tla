------------------------- MODULE SentinelClientProofs -------------------------
(***************************************************************************)
(* Theorems about SentinelClient: for any number of tables, any pool, any  *)
(* budgets and any number of attempts.                                     *)
(***************************************************************************)
EXTENDS SentinelClient, FiniteSetTheorems, TLAPS

-----------------------------------------------------------------------------
(* The invariant *)

\* A goroutine has a scope exactly while it makes a request.
RequestInv == \A t \in Tasks : worker[t] \in Requesting <=> request[t] \in Scopes

\* Only who asks for a token holds the flight of its scope.
FlightInv == \A t \in Tasks : worker[t] = "ask" => flight[request[t]] = t

\* Without a token while one is being fetched; a token that was just handed over has not expired.
HeldInv ==
    /\ \A t \in Tasks : worker[t] \in {"ask", "wait"} => held[t] = "none"
    /\ \A t \in Tasks : worker[t] = "woken" => held[t] \in {"none", "fresh", "near"}
    /\ \A t \in Tasks : worker[t] = "send" => held[t] \in {"fresh", "near"}

\* Another attempt follows a pause.
AttemptInv == \A t \in Tasks : worker[t] = "backoff" => attempt[t] < Attempts - 1

\* Between calls no goroutine is under way.
CallInv == call # "running" => \A t \in Tasks : worker[t] \in {"idle", "answered", "left"}

ClientInv == ClientTypeOK /\ RequestInv /\ FlightInv /\ HeldInv /\ AttemptInv

LEMMA InitInv ==
    ASSUME ClientInit
    PROVE  ClientInv
<1> USE SentinelClientAssumption DEF ClientInit
<1>1. ClientTypeOK
  <2>1. identity \in BOOLEAN
    OBVIOUS
  <2>2. attempt \in [Tasks -> 0..(Attempts - 1)] /\ calls \in 0..MaxCalls /\ queries \in 0..QueryBudget
    OBVIOUS
  <2> QED
    BY <2>1, <2>2 DEF ClientTypeOK, Places, Resting, Requesting, Tokens, Scopes
<1>2. RequestInv /\ FlightInv /\ HeldInv /\ AttemptInv
  BY DEF RequestInv, FlightInv, HeldInv, AttemptInv, Requesting, Scopes
<1> QED
  BY <1>1, <1>2 DEF ClientInv

(* Finish is for a request that is being made. *)
LEMMA FinishInv ==
    ASSUME ClientInv, NEW t \in Tasks, NEW succeeded \in BOOLEAN,
           worker[t] \in Requesting, Finish(t, succeeded), UNCHANGED cached,
           flight' = flight, worker[t] # "ask"
    PROVE  ClientInv'
<1> USE SentinelClientAssumption
<1>1. ClientTypeOK'
  BY DEF ClientInv, ClientTypeOK, Finish, Move, callVars, budgetVars, Places, Resting, Tokens
<1>2. /\ \A u \in Tasks \ {t} : worker'[u] = worker[u] /\ request'[u] = request[u]
                                 /\ held'[u] = held[u] /\ attempt'[u] = attempt[u]
      /\ worker'[t] \in {"claim", "answered"}
      /\ request'[t] = "none"
  BY DEF ClientInv, ClientTypeOK, Finish, Move
<1>3. RequestInv' /\ FlightInv' /\ HeldInv' /\ AttemptInv'
  BY <1>2 DEF ClientInv, RequestInv, FlightInv, HeldInv, AttemptInv, Requesting, Scopes
<1> QED
  BY <1>1, <1>3 DEF ClientInv

(* Proceed, for a goroutine that goes on with a request. *)
LEMMA ProceedInv ==
    ASSUME ClientInv, NEW t \in Tasks, NEW place \in Requesting, NEW token \in Tokens,
           worker[t] \in Requesting, Proceed(t, place, token), worker[t] # "ask",
           place \in {"send", "wait", "backoff"}, UNCHANGED flight,
           cached' \in [Scopes -> Tokens],
           place = "send" => token \in {"fresh", "near"},
           place = "wait" => token = "none",
           place = "backoff" => attempt[t] < Attempts - 1
    PROVE  ClientInv'
<1> USE SentinelClientAssumption
<1>1. ClientTypeOK'
  BY DEF ClientInv, ClientTypeOK, Proceed, Move, callVars, budgetVars, Places, Resting
<1>2. /\ \A u \in Tasks \ {t} : worker'[u] = worker[u] /\ held'[u] = held[u]
      /\ worker'[t] = place /\ held'[t] = token
      /\ UNCHANGED <<request, attempt>>
  BY DEF ClientInv, ClientTypeOK, Proceed, Move
<1>3. RequestInv' /\ FlightInv' /\ HeldInv' /\ AttemptInv'
  BY <1>2 DEF ClientInv, RequestInv, FlightInv, HeldInv, AttemptInv, Requesting
<1> QED
  BY <1>1, <1>3 DEF ClientInv

(* Every step keeps the invariant. *)
LEMMA StepInv ==
    ASSUME ClientInv, CallInv, [ClientNext]_clientVars
    PROVE  ClientInv'
<1> USE SentinelClientAssumption
<1>1. CASE UNCHANGED clientVars
  BY <1>1 DEF ClientInv, ClientTypeOK, RequestInv, FlightInv, HeldInv, AttemptInv, clientVars,
              callVars, taskVars, tokenVars, budgetVars
<1>2. CASE Begin
  <2>1. ClientTypeOK'
    BY <1>2 DEF ClientInv, ClientTypeOK, Begin, Claimed, Places, Resting, tokenVars
  <2>2. RequestInv' /\ FlightInv' /\ HeldInv' /\ AttemptInv'
    <3>1. \A t \in Tasks : worker[t] \notin Requesting /\ request'[t] = request[t]
      BY <1>2 DEF Begin, CallInv, Requesting
    <3>2. \A t \in Tasks : worker'[t] \in {"slot", "answered"}
      BY <1>2 DEF Begin
    <3> QED
      BY <3>1, <3>2 DEF ClientInv, RequestInv, FlightInv, HeldInv, AttemptInv, Requesting
  <2> QED
    BY <2>1, <2>2 DEF ClientInv
<1>3. CASE Return \/ End \/ Refresh
  <2>1. ClientTypeOK'
    <3>1. CASE Return \/ End
      BY <3>1 DEF ClientInv, ClientTypeOK, Return, End, taskVars, tokenVars, budgetVars
    <3>2. CASE Refresh
      <4>1. identity' \in BOOLEAN
        BY <3>2 DEF Refresh
      <4>2. queries' \in 0..QueryBudget /\ claimed' \in SUBSET Tasks
        BY <3>2 DEF Refresh
      <4> QED
        BY <3>2, <4>1, <4>2 DEF ClientInv, ClientTypeOK, Refresh, callVars, taskVars, tokenVars
    <3> QED
      BY <1>3, <3>1, <3>2
  <2>2. UNCHANGED <<worker, request, held, attempt, flight>>
    BY <1>3 DEF Return, End, Refresh, taskVars, tokenVars
  <2>3. RequestInv' /\ FlightInv' /\ HeldInv' /\ AttemptInv'
    BY <2>2 DEF ClientInv, RequestInv, FlightInv, HeldInv, AttemptInv
  <2> QED
    BY <2>1, <2>3 DEF ClientInv
<1>4. ASSUME NEW s \in Scopes, Age(s) PROVE ClientInv'
  <2>1. ClientTypeOK'
    BY <1>4 DEF ClientInv, ClientTypeOK, Age, Tokens, callVars, budgetVars
  <2>2. HeldInv'
    BY <1>4 DEF ClientInv, ClientTypeOK, HeldInv, Age
  <2>3. RequestInv' /\ FlightInv' /\ AttemptInv'
    BY <1>4 DEF ClientInv, RequestInv, FlightInv, AttemptInv, Age
  <2> QED
    BY <2>1, <2>2, <2>3 DEF ClientInv
<1>5. ASSUME NEW t \in Tasks, TakeSlot(t) \/ Leave(t) \/ Inspect(t) \/ Identify(t) \/ Claim(t)
      PROVE  ClientInv'
  <2>1. worker[t] \in {"slot", "table", "identity", "claim"} /\ worker[t] \notin Requesting
    BY <1>5 DEF TakeSlot, Leave, Inspect, Identify, Claim, Requesting
  <2>2. ClientTypeOK'
    <3>1. CASE TakeSlot(t) \/ Leave(t)
      BY <3>1 DEF ClientInv, ClientTypeOK, TakeSlot, Leave, Move, Places, Resting, callVars,
                  tokenVars, budgetVars
    <3>2. CASE Inspect(t) \/ Identify(t)
      BY <3>2 DEF ClientInv, ClientTypeOK, Inspect, Identify, Start, Move, Places, Resting, Requesting,
                  Scopes, callVars, tokenVars, budgetVars
    <3>3. CASE Claim(t)
      <4>1. queries' \in 0..QueryBudget
        BY <3>3 DEF ClientInv, ClientTypeOK, Claim
      <4> QED
        BY <3>3, <4>1 DEF ClientInv, ClientTypeOK, Claim, Start, Move, Places, Resting,
                          Requesting, Scopes, callVars, tokenVars
    <3> QED
      BY <1>5, <3>1, <3>2, <3>3
  <2>3. /\ \A u \in Tasks \ {t} : worker'[u] = worker[u] /\ request'[u] = request[u]
        /\ \/ worker'[t] = "lock" /\ request'[t] \in Scopes
           \/ worker'[t] \in {"table", "left", "answered", "identity", "claim"} /\ request'[t] = request[t]
        /\ UNCHANGED <<held, attempt, flight>>
    BY <1>5 DEF ClientInv, ClientTypeOK, TakeSlot, Leave, Inspect, Identify, Claim, Start, Move, Scopes,
                callVars, tokenVars
  <2>4. RequestInv' /\ FlightInv' /\ HeldInv' /\ AttemptInv'
    BY <2>1, <2>3 DEF ClientInv, RequestInv, FlightInv, HeldInv, AttemptInv, Requesting
  <2> QED
    BY <2>2, <2>4 DEF ClientInv
<1>6. ASSUME NEW t \in Tasks, Lock(t) PROVE ClientInv'
  <2>1. worker[t] = "lock" /\ request[t] \in Scopes
    BY <1>6 DEF Lock, ClientInv, RequestInv, Requesting
  <2>2. CASE Finish(t, FALSE) /\ UNCHANGED tokenVars
    BY <2>1, <2>2, FinishInv DEF tokenVars, Requesting
  <2>3. CASE Proceed(t, "send", "fresh") /\ UNCHANGED tokenVars
    BY <2>1, <2>3, ProceedInv DEF tokenVars, Requesting, Tokens, ClientInv, ClientTypeOK
  <2>4. CASE Proceed(t, "wait", "none") /\ cached' = [cached EXCEPT ![request[t]] = "none"]
                /\ UNCHANGED flight
    BY <2>1, <2>4, ProceedInv DEF Requesting, Tokens, ClientInv, ClientTypeOK
  <2>5. CASE /\ Proceed(t, "ask", "none") /\ cached' = [cached EXCEPT ![request[t]] = "none"]
             /\ flight[request[t]] = Nobody /\ flight' = [flight EXCEPT ![request[t]] = t]
    <3>1. ClientTypeOK'
      BY <2>1, <2>5 DEF ClientInv, ClientTypeOK, Proceed, Move, callVars, budgetVars, Places,
                        Requesting, Tokens
    <3>2. /\ \A u \in Tasks \ {t} : worker'[u] = worker[u] /\ held'[u] = held[u]
          /\ worker'[t] = "ask" /\ held'[t] = "none"
          /\ UNCHANGED <<request, attempt>>
      BY <2>5 DEF ClientInv, ClientTypeOK, Proceed, Move
    <3>3. RequestInv' /\ HeldInv' /\ AttemptInv'
      BY <2>1, <3>2 DEF ClientInv, RequestInv, HeldInv, AttemptInv, Requesting
    <3>4. FlightInv'
      <4>1. flight'[request[t]] = t /\ \A s \in Scopes \ {request[t]} : flight'[s] = flight[s]
        BY <2>1, <2>5 DEF ClientInv, ClientTypeOK
      <4>2. \A u \in Tasks \ {t} : worker[u] = "ask" =>
                request[u] \in Scopes /\ request[u] # request[t] /\ flight[request[u]] = u
        BY <2>5 DEF ClientInv, FlightInv, RequestInv, Requesting
      <4> QED
        BY <3>2, <4>1, <4>2 DEF FlightInv
    <3> QED
      BY <3>1, <3>3, <3>4 DEF ClientInv
  <2> QED
    BY <1>6, <2>2, <2>3, <2>4, <2>5 DEF Lock
<1>7. ASSUME NEW t \in Tasks, NEW token \in {"fresh", "near"}, GetToken(t, token) PROVE ClientInv'
  <2>1. worker[t] = "ask" /\ request[t] \in Scopes
    BY <1>7 DEF GetToken, ClientInv, RequestInv, Requesting
  <2>2. ClientTypeOK'
    BY <1>7, <2>1 DEF ClientInv, ClientTypeOK, GetToken, callVars, budgetVars, Places, Requesting,
                      Tokens
  <2>3. /\ worker'[t] = "send" /\ held'[t] = token
        /\ \A u \in Waiters(t) : worker'[u] = "woken" /\ held'[u] = token
        /\ \A u \in Tasks \ ({t} \cup Waiters(t)) : worker'[u] = worker[u] /\ held'[u] = held[u]
        /\ UNCHANGED <<request, attempt>>
    BY <1>7, <2>1 DEF ClientInv, ClientTypeOK, GetToken, Waiters
  <2>4. \A u \in Waiters(t) : worker[u] = "wait"
    BY DEF Waiters
  <2>5. RequestInv' /\ HeldInv' /\ AttemptInv'
    BY <2>1, <2>3, <2>4 DEF ClientInv, RequestInv, HeldInv, AttemptInv, Requesting
  <2>6. FlightInv'
    <3>1. \A u \in Tasks : worker'[u] = "ask" => u # t /\ worker[u] = "ask" /\ request[u] \in Scopes
      BY <2>3, <2>4 DEF ClientInv, RequestInv, Requesting
    <3>2. \A u \in Tasks : worker'[u] = "ask" => request[u] # request[t]
      BY <2>1, <3>1 DEF ClientInv, FlightInv
    <3>3. \A s \in Scopes \ {request[t]} : flight'[s] = flight[s]
      BY <1>7 DEF GetToken, ClientInv, ClientTypeOK
    <3> QED
      BY <2>3, <3>1, <3>2, <3>3 DEF ClientInv, FlightInv
  <2> QED
    BY <2>2, <2>5, <2>6 DEF ClientInv
<1>8. ASSUME NEW t \in Tasks, RefuseToken(t) PROVE ClientInv'
  <2>1. worker[t] = "ask" /\ request[t] \in Scopes
    BY <1>8 DEF RefuseToken, ClientInv, RequestInv, Requesting
  <2>2. ClientTypeOK'
    BY <1>8, <2>1 DEF ClientInv, ClientTypeOK, RefuseToken, callVars, budgetVars, Places, Resting,
                      Requesting
  <2>3. /\ worker'[t] = "answered" /\ request'[t] = "none" /\ attempt'[t] = 0
        /\ \A u \in Waiters(t) : worker'[u] = "woken"
        /\ \A u \in Tasks \ ({t} \cup Waiters(t)) : worker'[u] = worker[u]
        /\ \A u \in Tasks \ {t} : request'[u] = request[u] /\ attempt'[u] = attempt[u]
        /\ UNCHANGED held
    BY <1>8, <2>1 DEF ClientInv, ClientTypeOK, RefuseToken, Waiters
  <2>4. \A u \in Waiters(t) : worker[u] = "wait"
    BY DEF Waiters
  <2>5. RequestInv'
    BY <2>1, <2>3, <2>4 DEF ClientInv, RequestInv, Requesting, Scopes
  <2>6. HeldInv' /\ AttemptInv'
    BY <2>1, <2>3, <2>4 DEF ClientInv, HeldInv, AttemptInv
  <2>7. FlightInv'
    <3>1. \A u \in Tasks : worker'[u] = "ask" => u # t /\ worker[u] = "ask" /\ request[u] \in Scopes
      BY <2>3, <2>4 DEF ClientInv, RequestInv, Requesting
    <3>2. \A u \in Tasks : worker'[u] = "ask" => request[u] # request[t]
      BY <2>1, <3>1 DEF ClientInv, FlightInv
    <3>3. \A s \in Scopes \ {request[t]} : flight'[s] = flight[s]
      BY <1>8 DEF RefuseToken, ClientInv, ClientTypeOK
    <3> QED
      BY <2>3, <3>1, <3>2, <3>3 DEF ClientInv, FlightInv
  <2> QED
    BY <2>2, <2>5, <2>6, <2>7 DEF ClientInv
<1>9. ASSUME NEW t \in Tasks, Woken(t) \/ Abandon(t) PROVE ClientInv'
  <2>1. worker[t] \in {"woken", "wait", "backoff"} /\ UNCHANGED tokenVars
    BY <1>9 DEF Woken, Abandon
  <2>2. CASE Finish(t, FALSE)
    BY <2>1, <2>2, FinishInv DEF tokenVars, Requesting
  <2>3. CASE worker[t] = "woken" /\ held[t] # "none" /\ Proceed(t, "send", held[t])
    <3>1. held[t] \in {"fresh", "near"}
      BY <2>3 DEF ClientInv, HeldInv
    <3> QED
      BY <2>1, <2>3, <3>1, ProceedInv DEF tokenVars, Requesting, Tokens, ClientInv, ClientTypeOK
  <2> QED
    BY <1>9, <2>2, <2>3 DEF Woken, Abandon
<1>10. ASSUME NEW t \in Tasks, Send(t) PROVE ClientInv'
  <2>1. worker[t] = "send" /\ UNCHANGED tokenVars
    BY <1>10 DEF Send
  <2>2. ASSUME NEW succeeded \in BOOLEAN, Finish(t, succeeded) PROVE ClientInv'
    BY <2>1, <2>2, FinishInv DEF tokenVars, Requesting
  <2>3. CASE attempt[t] < Attempts - 1 /\ Proceed(t, "backoff", held[t])
    <3>1. held[t] \in Tokens
      BY DEF ClientInv, ClientTypeOK
    <3> QED
      BY <2>1, <2>3, <3>1, ProceedInv DEF tokenVars, Requesting, ClientInv, ClientTypeOK
  <2> QED
    BY <1>10, <2>2, <2>3 DEF Send
<1>11. ASSUME NEW t \in Tasks, Retry(t) PROVE ClientInv'
  <2>1. worker[t] = "backoff" /\ attempt[t] < Attempts - 1
    BY <1>11 DEF Retry, ClientInv, AttemptInv
  <2>2. ClientTypeOK'
    <3>1. attempt[t] \in Nat /\ attempt[t] + 1 \in 0..(Attempts - 1)
      BY <2>1 DEF ClientInv, ClientTypeOK
    <3> QED
      BY <1>11, <3>1 DEF ClientInv, ClientTypeOK, Retry, Move, callVars, tokenVars, budgetVars,
                         Places, Requesting
  <2>3. /\ worker'[t] = "lock" /\ \A u \in Tasks \ {t} : worker'[u] = worker[u] /\ attempt'[u] = attempt[u]
        /\ UNCHANGED <<request, held, flight>>
    BY <1>11 DEF ClientInv, ClientTypeOK, Retry, Move, tokenVars
  <2>4. RequestInv' /\ FlightInv' /\ HeldInv' /\ AttemptInv'
    BY <2>1, <2>3 DEF ClientInv, RequestInv, FlightInv, HeldInv, AttemptInv, Requesting
  <2> QED
    BY <2>2, <2>4 DEF ClientInv
<1> QED
  BY <1>1, <1>2, <1>3, <1>4, <1>5, <1>6, <1>7, <1>8, <1>9, <1>10, <1>11 DEF ClientNext, Work

(* What a goroutine does, it does within a call. *)
LEMMA StepCall ==
    ASSUME ClientInv, CallInv, [ClientNext]_clientVars
    PROVE  CallInv'
<1>1. CASE UNCHANGED clientVars
  BY <1>1 DEF CallInv, clientVars, callVars, taskVars
<1>2. CASE Begin \/ Return
  BY <1>2 DEF CallInv, Begin, Return, taskVars
<1>3. CASE End \/ Refresh \/ \E s \in Scopes : Age(s)
  BY <1>3 DEF CallInv, End, Refresh, Age, callVars, taskVars
<1>4. ASSUME NEW t \in Tasks, Work(t) \/ Leave(t) \/ Abandon(t) PROVE CallInv'
  <2>1. worker[t] \notin {"idle", "answered", "left"}
    BY <1>4 DEF Work, TakeSlot, Leave, Inspect, Identify, Claim, Lock, RefuseToken, Woken, Send, Retry,
                GetToken, Abandon
  <2>2. UNCHANGED call
    BY <1>4 DEF Work, TakeSlot, Leave, Inspect, Identify, Claim, Lock, RefuseToken, Woken, Send, Retry,
                GetToken, Abandon, Finish, Proceed, callVars
  <2> QED
    BY <2>1, <2>2 DEF CallInv
<1> QED
  BY <1>1, <1>2, <1>3, <1>4 DEF ClientNext

(* The state of the client stays in its types, and the strengthening holds on the way. *)
THEOREM ClientInvariant == ClientSpec => [](ClientInv /\ CallInv)
<1>1. ClientInit => ClientInv /\ CallInv
  BY InitInv DEF ClientInit, CallInv
<1>2. (ClientInv /\ CallInv) /\ [ClientNext]_clientVars => (ClientInv /\ CallInv)'
  BY StepInv, StepCall
<1> QED
  BY <1>1, <1>2, PTL DEF ClientSpec

(* However many tables, slots, attempts and calls there are, the state stays in its types: *)
(* no budget is overdrawn, and no request is attempted too often (client.go 234-266, 361). *)
THEOREM ClientTypes == ClientSpec => []ClientTypeOK
<1>1. ClientInv => ClientTypeOK
  BY DEF ClientInv
<1> QED
  BY <1>1, ClientInvariant, PTL

-----------------------------------------------------------------------------
(* Tokens *)

(* However many goroutines share a scope, its token is asked for by one at a time, and no *)
(* request goes out with a token that expired during a wait (client.go 324-371).          *)
THEOREM TokensAreSoundAlways == ClientSpec => []TokensAreSound
<1>1. ClientInv => TokensAreSound
  <2> SUFFICES ASSUME ClientInv PROVE TokensAreSound
    OBVIOUS
  <2>1. ASSUME NEW s \in Scopes
        PROVE  Cardinality({t \in Tasks : worker[t] = "ask" /\ request[t] = s}) <= 1
    <3> DEFINE A == {t \in Tasks : worker[t] = "ask" /\ request[t] = s}
    <3>1. A \subseteq {flight[s]}
      BY DEF ClientInv, FlightInv
    <3>2. IsFiniteSet({flight[s]}) /\ Cardinality({flight[s]}) = 1
      BY FS_Singleton
    <3> HIDE DEF A
    <3>3. Cardinality(A) <= 1
      BY <3>1, <3>2, FS_Subset
    <3> QED
      BY <3>3 DEF A
  <2>2. \A t \in Tasks : worker[t] = "send" => held[t] \in {"fresh", "near"}
    BY DEF ClientInv, HeldInv
  <2> QED
    BY <2>1, <2>2 DEF TokensAreSound
<1> QED
  BY <1>1, ClientInvariant, PTL

-----------------------------------------------------------------------------
(* Refinement *)

LEMMA InitRefines ==
    ASSUME ClientInit
    PROVE  Pool!Init
  BY DEF ClientInit, Pool!Init, PoolTask, Resting

\* A goroutine is in the pool's "working" exactly where it is busy.
LEMMA BusyIsWorking == Pool!Working = Busy
  BY DEF Pool!Working, Busy, PoolTask, Resting

(* A goroutine is answered or goes on, and others are at most moved on. *)
LEMMA WorkRefines ==
    ASSUME NEW t \in Tasks, worker[t] \notin Resting, UNCHANGED callVars,
           worker'[t] \notin Resting \/ worker'[t] = "answered",
           NEW Moved \in SUBSET (Tasks \ {t}),
           \A u \in Moved : worker[u] \notin Resting /\ worker'[u] \notin Resting,
           \A u \in Tasks \ ({t} \cup Moved) : worker'[u] = worker[u]
    PROVE  [Pool!Next]_(Pool!poolVars)
<1> USE DEF Pool!poolVars
<1>1. PoolTask[t] = "working"
  BY DEF PoolTask, Resting
<1>2. ASSUME NEW u \in Tasks \ {t} PROVE PoolTask'[u] = PoolTask[u]
  <2>1. CASE u \in Moved
    BY <2>1 DEF PoolTask, Resting
  <2>2. CASE worker'[u] = worker[u]
    BY <2>2 DEF PoolTask
  <2> QED
    BY <2>1, <2>2
<1>3. CASE worker'[t] = "answered"
  <2>1. PoolTask'[t] = "answered"
    BY <1>3 DEF PoolTask, Resting
  <2>2. PoolTask' = [PoolTask EXCEPT ![t] = "answered"]
    BY <1>2, <2>1 DEF PoolTask
  <2>3. Pool!Answer(t)
    BY <1>1, <2>2 DEF Pool!Answer, callVars
  <2> QED
    BY <2>3 DEF Pool!Next
<1>4. CASE worker'[t] \notin Resting
  <2>1. PoolTask'[t] = "working"
    BY <1>4 DEF PoolTask, Resting
  <2>2. PoolTask' = PoolTask
    BY <1>1, <1>2, <2>1 DEF PoolTask
  <2> QED
    BY <2>2 DEF callVars
<1> QED
  BY <1>3, <1>4

LEMMA StepRefines ==
    ASSUME ClientInv, CallInv, [ClientNext]_clientVars
    PROVE  [Pool!Next]_(Pool!poolVars)
<1> USE DEF Pool!poolVars
<1>1. CASE UNCHANGED clientVars
  BY <1>1 DEF clientVars, callVars, taskVars, PoolTask
<1>2. CASE Begin
  <2>1. PoolTask' = [t \in Tasks |-> IF t \in Tasks \ Claimed THEN "answered" ELSE "waiting"]
    BY <1>2 DEF Begin, PoolTask, Resting
  <2>2. Tasks \ Claimed \in SUBSET Tasks
    OBVIOUS
  <2>3. Pool!Begin(Tasks \ Claimed)
    BY <1>2, <2>1 DEF Begin, Pool!Begin
  <2> QED
    BY <2>2, <2>3 DEF Pool!Next
<1>3. CASE Return
  <2>1. \A t \in Tasks : PoolTask[t] \in {"answered", "left"}
    BY <1>3 DEF Return, PoolTask, Resting
  <2>2. Pool!Return
    BY <1>3, <2>1 DEF Return, Pool!Return, taskVars, PoolTask
  <2> QED
    BY <2>2 DEF Pool!Next
<1>4. CASE End
  <2>1. Pool!End
    BY <1>4 DEF End, Pool!End, taskVars, PoolTask
  <2> QED
    BY <2>1 DEF Pool!Next
<1>5. CASE Refresh \/ \E s \in Scopes : Age(s)
  BY <1>5 DEF Refresh, Age, callVars, taskVars, PoolTask
<1>6. ASSUME NEW t \in Tasks, TakeSlot(t) PROVE Pool!Next
  <2>1. PoolTask[t] = "waiting" /\ PoolTask' = [PoolTask EXCEPT ![t] = "working"]
    BY <1>6 DEF TakeSlot, Move, PoolTask, Resting, ClientInv, ClientTypeOK
  <2>2. Pool!Take(t)
    <3>1. Pool!Cardinality(Pool!Working) < Slots
      BY <1>6, BusyIsWorking DEF TakeSlot, Pool!Cardinality, Cardinality
    <3> QED
      BY <1>6, <2>1, <3>1 DEF TakeSlot, Pool!Take, callVars
  <2> QED
    BY <2>2 DEF Pool!Next
<1>7. ASSUME NEW t \in Tasks, Leave(t) PROVE Pool!Next
  <2>1. PoolTask[t] = "waiting" /\ PoolTask' = [PoolTask EXCEPT ![t] = "left"]
    BY <1>7 DEF Leave, Move, PoolTask, Resting, ClientInv, ClientTypeOK
  <2>2. Pool!Leave(t)
    BY <1>7, <2>1 DEF Leave, Pool!Leave, callVars
  <2> QED
    BY <2>2 DEF Pool!Next
<1>8. ASSUME NEW t \in Tasks, Work(t) \/ Abandon(t), ~TakeSlot(t)
      PROVE  [Pool!Next]_(Pool!poolVars)
  <2>1. UNCHANGED callVars
    BY <1>8 DEF Work, TakeSlot, Inspect, Identify, Claim, Lock, RefuseToken, Woken, Send, Retry,
                GetToken, Abandon, Finish, Proceed
  <2>2. worker[t] \in {"table", "identity", "claim"} \cup Requesting
    BY <1>8 DEF Work, TakeSlot, Inspect, Identify, Claim, Lock, RefuseToken, Woken, Send, Retry,
                GetToken, Abandon, Requesting
  <2>3. CASE \E token \in {"fresh", "near"} : GetToken(t, token)
    <3>1. \A u \in Waiters(t) \ {t} : worker[u] \notin Resting /\ worker'[u] \notin Resting
      BY <2>3 DEF GetToken, Waiters, Resting
    <3>2. /\ \A u \in Tasks \ ({t} \cup (Waiters(t) \ {t})) : worker'[u] = worker[u]
          /\ worker'[t] \notin Resting \/ worker'[t] = "answered"
      BY <2>3 DEF GetToken, Waiters, Resting
    <3>3. worker[t] \notin Resting /\ Waiters(t) \ {t} \in SUBSET (Tasks \ {t})
      BY <2>2 DEF Resting, Requesting, Waiters
    <3> QED
      BY <2>1, <3>1, <3>2, <3>3, WorkRefines
  <2>4. CASE RefuseToken(t)
    <3>1. \A u \in Waiters(t) \ {t} : worker[u] \notin Resting /\ worker'[u] \notin Resting
      BY <2>4 DEF RefuseToken, Waiters, Resting
    <3>2. /\ \A u \in Tasks \ ({t} \cup (Waiters(t) \ {t})) : worker'[u] = worker[u]
          /\ worker'[t] \notin Resting \/ worker'[t] = "answered"
      BY <2>4 DEF RefuseToken, Waiters, Resting
    <3>3. worker[t] \notin Resting /\ Waiters(t) \ {t} \in SUBSET (Tasks \ {t})
      BY <2>2 DEF Resting, Requesting, Waiters
    <3> QED
      BY <2>1, <3>1, <3>2, <3>3, WorkRefines
  <2>5. CASE Inspect(t) \/ Identify(t) \/ Claim(t) \/ Retry(t)
    <3>1. \E place \in {"answered", "identity", "claim", "lock"} : worker' = [worker EXCEPT ![t] = place]
      BY <2>5 DEF Inspect, Identify, Claim, Retry, Start, Move
    <3>2. /\ \A u \in Tasks \ ({t} \cup {}) : worker'[u] = worker[u]
          /\ worker'[t] \notin Resting \/ worker'[t] = "answered"
      BY <3>1 DEF Resting, ClientInv, ClientTypeOK
    <3>3. /\ worker[t] \notin Resting
          /\ {} \in SUBSET (Tasks \ {t})
          /\ \A u \in {} : worker[u] \notin Resting /\ worker'[u] \notin Resting
      BY <2>2 DEF Resting, Requesting
    <3> QED
      BY <2>1, <3>2, <3>3, WorkRefines
  <2>6. CASE Lock(t) \/ Woken(t) \/ Send(t) \/ Abandon(t)
    <3>1. \E place \in {"answered", "claim", "send", "wait", "ask", "backoff"} :
              worker' = [worker EXCEPT ![t] = place]
      BY <2>6 DEF Lock, Woken, Send, Abandon, Finish, Proceed, Move
    <3>2. /\ \A u \in Tasks \ ({t} \cup {}) : worker'[u] = worker[u]
          /\ worker'[t] \notin Resting \/ worker'[t] = "answered"
      BY <3>1 DEF Resting, ClientInv, ClientTypeOK
    <3>3. /\ worker[t] \notin Resting
          /\ {} \in SUBSET (Tasks \ {t})
          /\ \A u \in {} : worker[u] \notin Resting /\ worker'[u] \notin Resting
      BY <2>2 DEF Resting, Requesting
    <3> QED
      BY <2>1, <3>2, <3>3, WorkRefines
  <2> QED
    BY <1>8, <2>3, <2>4, <2>5, <2>6 DEF Work
<1> QED
  BY <1>1, <1>2, <1>3, <1>4, <1>5, <1>6, <1>7, <1>8 DEF ClientNext

(* With tokens, mutex, budgets and retries between a goroutine and its answer, a call does *)
(* what a bounded pool that answers every request or fails does (client.go 1374-1431).     *)
THEOREM ClientImplementsPool == ClientSpec => ImplementsPool
<1>1. ClientInit => Pool!Init
  BY InitRefines
<1>2. (ClientInv /\ CallInv) /\ [ClientNext]_clientVars => [Pool!Next]_(Pool!poolVars)
  BY StepRefines
<1> QED
  BY <1>1, <1>2, ClientInvariant, PTL DEF ClientSpec, ImplementsPool, Pool!Spec

-----------------------------------------------------------------------------
(* What the pool promises, and so the client keeps *)

\* Nobody is under way between calls, and only the end of the context makes one leave.
PoolInv ==
    /\ call # "running" => \A t \in Tasks : PoolTask[t] \in {"idle", "answered", "left"}
    /\ call = "running" => \A t \in Tasks : PoolTask[t] = "left" => context = "ended"
    /\ call = "running" => \A t \in Tasks : PoolTask[t] # "idle"
    /\ Pool!EvidenceIsWhole

(* Whenever the context ends, evidence is handed on only if no request was left out *)
(* (client.go 1374-1431).                                                           *)
THEOREM PoolAnswersAll == Pool!Spec => []Pool!EvidenceIsWhole
<1>1. Pool!Init => PoolInv
  BY DEF Pool!Init, PoolInv, Pool!EvidenceIsWhole
<1>2. PoolInv /\ [Pool!Next]_(Pool!poolVars) => PoolInv'
  <2> SUFFICES ASSUME PoolInv, [Pool!Next]_(Pool!poolVars) PROVE PoolInv'
    OBVIOUS
  <2> USE DEF PoolInv, Pool!EvidenceIsWhole
  <2>1. CASE UNCHANGED Pool!poolVars
    BY <2>1 DEF Pool!poolVars
  <2>2. ASSUME NEW refused \in SUBSET Tasks, Pool!Begin(refused) PROVE PoolInv'
    BY <2>2 DEF Pool!Begin
  <2>3. ASSUME NEW t \in Tasks, Pool!Take(t) \/ Pool!Leave(t) \/ Pool!Answer(t) PROVE PoolInv'
    <3>1. call = "running" /\ call' = call /\ context' = context
      BY <2>3 DEF Pool!Take, Pool!Leave, Pool!Answer
    <3>2. \A u \in Tasks \ {t} : PoolTask'[u] = PoolTask[u]
      <4>1. DOMAIN PoolTask = Tasks
        BY DEF PoolTask
      <4>2. \E place : PoolTask' = [PoolTask EXCEPT ![t] = place]
        BY <2>3 DEF Pool!Take, Pool!Leave, Pool!Answer
      <4> QED
        BY <4>1, <4>2
    <3>3. PoolTask'[t] \in {"working", "left", "answered"} /\ (PoolTask'[t] = "left" => context = "ended")
      BY <2>3 DEF Pool!Take, Pool!Leave, Pool!Answer, PoolTask
    <3> QED
      BY <3>1, <3>2, <3>3
  <2>4. CASE Pool!Return
    BY <2>4 DEF Pool!Return
  <2>5. CASE Pool!End
    BY <2>5 DEF Pool!End
  <2> QED
    BY <2>1, <2>2, <2>3, <2>4, <2>5 DEF Pool!Next
<1>3. PoolInv => Pool!EvidenceIsWhole
  BY DEF PoolInv
<1> QED
  BY <1>1, <1>2, <1>3, PTL DEF Pool!Spec

(* A call of the Sentinel client hands on evidence only if every table was answered. *)
COROLLARY ClientAnswersAll == ClientSpec => []Pool!EvidenceIsWhole
  BY ClientImplementsPool, PoolAnswersAll, PTL DEF ImplementsPool

(* However requests are retried and tokens are waited for, no more goroutines are under *)
(* way than there are slots (client.go 1390-1397).                                      *)
THEOREM PoolIsBounded == ClientSpec => [](Cardinality(Busy) <= Slots)
<1> DEFINE Few == Cardinality(Busy) <= Slots
<1> USE SentinelClientAssumption
<1>1. ClientInit => Few
  <2> SUFFICES ASSUME ClientInit PROVE Few
    OBVIOUS
  <2>1. Busy = {}
    BY DEF ClientInit, Busy, Resting
  <2> QED
    BY <2>1, FS_EmptySet
<1>2. Few /\ (ClientInv /\ CallInv) /\ [ClientNext]_clientVars => Few'
  <2> SUFFICES ASSUME Few, ClientInv, CallInv, [ClientNext]_clientVars PROVE Few'
    OBVIOUS
  <2>1. IsFiniteSet(Busy) /\ Cardinality(Busy) \in Nat
    BY FS_Subset, FS_CardinalityType DEF Busy
  <2>2. CASE Busy' \subseteq Busy
    BY <2>1, <2>2, FS_Subset, FS_CardinalityType
  <2>3. ASSUME NEW t \in Tasks, TakeSlot(t) PROVE Few'
    <3>1. Busy' = Busy \cup {t} /\ t \notin Busy /\ Cardinality(Busy) < Slots
      BY <2>3 DEF TakeSlot, Busy, Move, Resting, ClientInv, ClientTypeOK
    <3>2. Cardinality(Busy \cup {t}) = Cardinality(Busy) + 1
      BY <2>1, <3>1, FS_AddElement
    <3> QED
      BY <2>1, <3>1, <3>2
  <2>4. ~(\E t \in Tasks : TakeSlot(t)) => Busy' \subseteq Busy
    <3> SUFFICES ASSUME ~(\E t \in Tasks : TakeSlot(t)) PROVE Busy' \subseteq Busy
      OBVIOUS
    <3>1. CASE UNCHANGED worker
      BY <3>1 DEF Busy
    <3>2. CASE Begin
      BY <3>2 DEF Begin, Busy, Resting
    <3>3. ASSUME NEW t \in Tasks, NEW place, worker' = [worker EXCEPT ![t] = place],
                 worker[t] \notin Resting \/ place \in Resting
          PROVE  Busy' \subseteq Busy
      BY <3>3 DEF Busy, ClientInv, ClientTypeOK
    <3>4. ASSUME NEW t \in Tasks, Leave(t) PROVE Busy' \subseteq Busy
      BY <3>3, <3>4 DEF Leave, Move, Resting
    <3>5. ASSUME NEW t \in Tasks, NEW token \in {"fresh", "near"}, GetToken(t, token)
          PROVE  Busy' \subseteq Busy
      BY <3>5 DEF GetToken, Waiters, Busy, Resting
    <3>6. ASSUME NEW t \in Tasks, RefuseToken(t) PROVE Busy' \subseteq Busy
      BY <3>6 DEF RefuseToken, Waiters, Busy, Resting
    <3>7. ASSUME NEW t \in Tasks, Inspect(t) \/ Identify(t) \/ Claim(t) \/ Retry(t) PROVE Busy' \subseteq Busy
      <4>1. worker[t] \notin Resting /\ \E place : worker' = [worker EXCEPT ![t] = place]
        BY <3>7 DEF Inspect, Identify, Claim, Retry, Start, Move, Resting
      <4> QED
        BY <3>3, <4>1
    <3>8. ASSUME NEW t \in Tasks, Lock(t) \/ Woken(t) \/ Send(t) \/ Abandon(t)
          PROVE  Busy' \subseteq Busy
      <4>1. worker[t] \notin Resting /\ \E place : worker' = [worker EXCEPT ![t] = place]
        BY <3>8 DEF Lock, Woken, Send, Abandon, Finish, Proceed, Move, Resting
      <4> QED
        BY <3>3, <4>1
    <3>9. Return \/ End \/ Refresh \/ (\E s \in Scopes : Age(s)) => UNCHANGED worker
      BY DEF Return, End, Refresh, Age, taskVars
    <3> QED
      BY <3>1, <3>2, <3>4, <3>5, <3>6, <3>7, <3>8, <3>9 DEF ClientNext, Work, clientVars, taskVars
  <2> QED
    BY <2>2, <2>3, <2>4
<1> QED
  BY <1>1, <1>2, ClientInvariant, PTL DEF ClientSpec
=============================================================================
