----------------------------- MODULE AtomicFile -----------------------------
(***************************************************************************)
(* What securefile.Write promises to its callers (state.Store.save,        *)
(* Report.Write, Report.WriteHTML and FleetReport.Write): a path that only *)
(* ever holds a complete value that a caller has asked for and not been    *)
(* refused, and that goes from one value to the next in a single step.  A  *)
(* call that succeeds has published its value, once, and one that fails    *)
(* has published nothing.  A power failure may bring back a value          *)
(* published since the directory was last flushed, and never anything      *)
(* else.                                                                   *)
(***************************************************************************)

CONSTANTS Writers,  \* processes that call Write
          Values,   \* the byte strings they write
          Missing   \* the path does not exist

VARIABLES content,  \* what a reader of the path gets
          recent,   \* what a reader may get after a power failure
          asked,    \* the value each writer asked for last
          state     \* of that call: "idle", "asked", "ok" or "error"

vars == <<content, recent, asked, state>>

Init == /\ content \in Values \cup {Missing}
        /\ recent = {content}
        /\ asked \in [Writers -> Values]
        /\ state = [w \in Writers |-> "idle"]

Move(w, from, to) == /\ state[w] = from
                     /\ state' = [state EXCEPT ![w] = to]

Ask(w, v) == /\ Move(w, "idle", "asked")
             /\ asked' = [asked EXCEPT ![w] = v]
             /\ UNCHANGED <<content, recent>>

Publish(w) == /\ Move(w, "asked", "ok")
              /\ content' = asked[w]
              /\ recent' = recent \cup {asked[w]}
              /\ UNCHANGED asked

Fail(w) == /\ Move(w, "asked", "error")
           /\ UNCHANGED <<content, recent, asked>>

\* The caller gets the result, or the process dies before or after the fact.
Leave(w) == /\ \E from \in {"asked", "ok", "error"} : Move(w, from, "idle")
            /\ UNCHANGED <<content, recent, asked>>

Flush == /\ recent' = {content}
         /\ UNCHANGED <<content, asked, state>>

PowerLoss == /\ content' \in recent
             /\ recent' = {content'}
             /\ state' = [w \in Writers |-> "idle"]
             /\ UNCHANGED asked

Next == \/ \E w \in Writers : \/ \E v \in Values : Ask(w, v)
                              \/ Publish(w) \/ Fail(w) \/ Leave(w)
        \/ Flush
        \/ PowerLoss

Spec == Init /\ [][Next]_vars
=============================================================================
