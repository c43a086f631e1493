------------------------------ MODULE MCBackends ------------------------------
(***************************************************************************)
(* Four tables of which the budget leaves three, queries of two bindings   *)
(* over three stored functions, rules with two inputs of each kind, and a  *)
(* cluster of three rules, a data stream and an index.                     *)
(***************************************************************************)
EXTENDS Backends

CONSTANTS nobody, t1, t2, r, w, p, r1, r2, r3, ds, i, a, b, f, g, h, dyn, main

Run(head, op, arg) == [head |-> head, op |-> op, arg |-> arg]

\* Every operator over the first binding, with the second or a function.
Queries ==
    {Run(a, op, x) : op \in {"pipe", "join", "union", "fuzzy", "unclear", "search", "in", "inQuery",
                              "hasAny", "scalar"},
                      x \in {b, f}}
        \cup {Run(a, "alone", a), Run(a, "uses", b), Run(a, "in", t2),
            Run(t1, "scalar", a), Run(t1, "uses", a)}

First ==
    {Run(t1, op, x) : op \in {"join", "fuzzy", "in", "scalar", "value"}, x \in {b, f, w}}
        \cup {Run(t1, "hasAny", b), Run(t1, "in", dyn), Run(t1, "union", r), Run(t1, "search", t2),
              Run(f, "alone", f), Run(p, "inQuery", w),
             Run(b, "alone", b), Run(b, "uses", t2)}

\* Tables, a scalar, and cycles through the first and through itself.
Second == {Run(t1, "alone", t1), Run(t1, "value", t2), Run(t1, "join", a), Run(t2, "scalar", b),
           Run(a, "alone", a)}

\* A call of another function, of itself, and a table with the name of a binding.
Body == {Run(a, "pipe", a), Run(t2, "join", f), Run(g, "fuzzy", r), Run(t1, "uses", a)}

\* A rule with two selectors; one with an exclusion and a selector of another cluster; one that
\* is settled.
MCSelections ==
    {[local |-> {ds, i}, excluded |-> {}, remote |-> {}, settled |-> FALSE],
     [local |-> {ds}, excluded |-> {i}, remote |-> {i}, settled |-> FALSE],
     [local |-> {ds}, excluded |-> {}, remote |-> {}, settled |-> TRUE]}

MCPrograms ==
    {[x \in {main, a, b, f, g, h} |->
        CASE x = main -> query [] x = a -> first [] x = b -> second [] x = f -> body
          [] x = g -> Run(t2, "join", h) [] x = h -> Run(t1, "alone", t1)] :
        query \in Queries, first \in First, second \in Second, body \in Body}
=============================================================================
