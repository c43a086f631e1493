----------------------------- MODULE EvidencePool -----------------------------
(***************************************************************************)
(* What a backend adapter promises of one evidence call: a goroutine per   *)
(* request on a bounded pool, a context that may end at any time, and      *)
(* either an answer to every request or an error.  The code is written out *)
(* in resolveInputExpressions of the Elastic adapter; the other pools of   *)
(* the three adapters are variations of it.                                *)
(***************************************************************************)
EXTENDS Naturals, FiniteSets

CONSTANTS
    Tasks,      \* the requests of a call
    Slots       \* requests under way at once

VARIABLES
    context,    \* the call's context: "live" or "ended"
    call,       \* "idle", "running", then what it returned: "evidence" or "error"
    task        \* of each request, where its goroutine is

poolVars == <<context, call, task>>

Working == {t \in Tasks : task[t] = "working"}

Init ==
    /\ context = "live"
    /\ call = "idle"
    /\ task = [t \in Tasks |-> "idle"]

\* Some requests are answered before a goroutine starts: a budget is used up.
Begin(refused) ==
    /\ call # "running"
    /\ call' = "running"
    /\ context' \in {"live", "ended"}
    /\ task' = [t \in Tasks |-> IF t \in refused THEN "answered" ELSE "waiting"]

Take(t) ==
    /\ task[t] = "waiting"
    /\ Cardinality(Working) < Slots
    /\ task' = [task EXCEPT ![t] = "working"]
    /\ UNCHANGED <<context, call>>

\* The goroutine returns without an answer.
Leave(t) ==
    /\ task[t] = "waiting"
    /\ context = "ended"
    /\ task' = [task EXCEPT ![t] = "left"]
    /\ UNCHANGED <<context, call>>

\* With evidence, or with the reason why there is none.
Answer(t) ==
    /\ task[t] = "working"
    /\ task' = [task EXCEPT ![t] = "answered"]
    /\ UNCHANGED <<context, call>>

\* All goroutines are joined before the context is looked at.
Return ==
    /\ call = "running"
    /\ \A t \in Tasks : task[t] \in {"answered", "left"}
    /\ call' = IF context = "ended" THEN "error" ELSE "evidence"
    /\ UNCHANGED <<context, task>>

End ==
    /\ context = "live"
    /\ context' = "ended"
    /\ UNCHANGED <<call, task>>

Next ==
    \/ \E refused \in SUBSET Tasks : Begin(refused)
    \/ \E t \in Tasks : Take(t) \/ Leave(t) \/ Answer(t)
    \/ Return
    \/ End

Spec == Init /\ [][Next]_poolVars

-----------------------------------------------------------------------------

\* Evidence is handed on only if no request was left out, whenever the context ends
\* (a request left out would read as an empty answer).
EvidenceIsWhole == call = "evidence" => \A t \in Tasks : task[t] = "answered"
=============================================================================
