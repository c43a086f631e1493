--------------------------- MODULE KqlDependencies ---------------------------
(***************************************************************************)
(* internal/backend/sentinel/kql.go: what a rule's KQL query reads, found  *)
(* by walking its text and the stored functions it calls, with no help of  *)
(* the engine.  A query is a program: let bindings, then the query proper. *)
(* Each of them, and each body of a stored function, is a head and at most *)
(* one operator:                                                           *)
(*                                                                         *)
(*   alone     head                     pipe     head | where ..           *)
(*   join      head | join arg          union    head | union arg          *)
(*   fuzzy     head | union isfuzzy=true arg                               *)
(*   unclear   head | union isfuzzy=<not a literal> arg                    *)
(*   search    search in (arg) ..       uses     head | where x > arg      *)
(*   in        head | where x in (arg)  inQuery  .. in (arg | project y)   *)
(*   hasAny    head | where x has_any (arg | project y)                    *)
(*   scalar    head | extend x = toscalar(arg)                             *)
(*   value     toscalar(arg | count), the text of a scalar binding         *)
(***************************************************************************)
EXTENDS Naturals, FiniteSets

CONSTANTS
    Tables, Watchlists, Parsers, Remotes, Dynamic,  \* what a name may be, by kind
    Functions,      \* names that are called and are none of these
    Lets,           \* names that the program binds
    Main,           \* stands for the query proper
    Programs,       \* programs to look at
    Metadata,       \* what may be known of the functions
    MaxDepth,       \* maxKQLFunctionExpansionDepth
    MaxWalk         \* bound: the walk is taken not to end when it is longer

VARIABLES
    program,    \* of Main, the bindings and the functions, the text
    known,      \* the functions of the workspace's metadata
    resolution  \* what sentinelRule keeps of ResolveKQLDependenciesWithFunctions

kqlVars == <<program, known, resolution>>

Ops == {"alone", "pipe", "join", "union", "fuzzy", "unclear", "search", "uses", "in", "inQuery",
        "hasAny", "scalar", "value"}

Leaves == Tables \cup Watchlists \cup Parsers \cup Remotes \cup Dynamic

Names == Leaves \cup Functions \cup Lets

Text == [head: Names, op: Ops, arg: Names]

\* Assumed of the constants.
ASSUME KqlAssumption ==
    /\ Programs \subseteq [{Main} \cup Lets \cup Functions -> Text]
    /\ Main \notin Names
    /\ IsFiniteSet(Lets) /\ IsFiniteSet(Functions)
    /\ Functions \cap (Leaves \cup Lets) = {}
    /\ Metadata \subseteq SUBSET Functions
    /\ MaxDepth \in Nat /\ MaxWalk \in Nat

-----------------------------------------------------------------------------
(* The walk.  Where it is: at a text ("query"), a source, a binding that is  *)
(* used as a scalar ("scalar"), or an argument of toscalar; in a leg of a    *)
(* fuzzy union or not; and under which bindings and functions.               *)

Place(at, name) ==
    [at |-> at, name |-> name, optional |-> FALSE, resolving |-> {}, scalars |-> {}, calls |-> {}]

To(c, at, name) == [c EXCEPT !.at = at, !.name = name]

\* Mutant: the bindings of the caller are seen in the body of a function.
BoundAnywhere(c, x) == x \in Lets

\* The body of a function has bindings of its own.
Bound(c, x) == x \in Lets /\ c.calls = {}

\* Mutant: a binding that is used as a scalar hides what it reads.
ScalarsUnread(c, x) == {}

\* parseScalarBindingReferences: bindings that are mentioned.
Scalars(c, x) == IF Bound(c, x) THEN {To(c, "scalar", x)} ELSE {}

Source(c, x) == {To(c, "source", x)}

Joined(c, n) == IF n.op = "join" THEN Source(c, n.arg) \cup Scalars(c, n.arg) ELSE {}

United(c, n) ==
    IF n.op = "fuzzy" THEN {[s EXCEPT !.optional = TRUE] : s \in Source(c, n.arg)}
    ELSE IF n.op \in {"union", "unclear"} THEN Source(c, n.arg) ELSE {}

Searched(c, n) == IF n.op = "search" THEN Source(c, n.arg) \cup Scalars(c, n.arg) ELSE {}

Called(x) == x \in known \cup Watchlists \cup Parsers \cup Remotes \cup Dynamic

\* parseMembershipSubqueries: the right-hand side of "in", if it is tabular.
Members(c, n) ==
    CASE n.op = "in" /\ Bound(c, n.arg) ->
            Scalars(c, n.arg) \cup
                (IF n.arg \in c.resolving THEN {}
                 ELSE {[To(c, "query", n.arg) EXCEPT !.resolving = @ \cup {n.arg}]})
      [] n.op = "in" /\ ~Bound(c, n.arg) -> IF Called(n.arg) THEN Source(c, n.arg) ELSE {}
      [] n.op = "inQuery" -> Source(c, n.arg) \cup Scalars(c, n.arg)
      [] OTHER -> {}

\* What parsePipelineSegment does with the other operators.
Mentioned(c, n) ==
    CASE n.op = "scalar" -> {To(c, "toscalar", n.arg)} \cup Scalars(c, n.arg)
      [] n.op \in {"uses", "hasAny"} -> Scalars(c, n.arg)
      [] OTHER -> {}

\* parseQuery.
Query(c) ==
    LET n == program[c.name]
        head == IF n.op \in {"value", "search"} THEN {} ELSE Source(c, n.head) \cup Scalars(c, n.head)
        value == IF n.op = "value" THEN Source(c, n.arg) \cup Scalars(c, n.arg) ELSE {}
    IN  head \cup Joined(c, n) \cup United(c, n) \cup Searched(c, n) \cup Members(c, n)
             \cup Mentioned(c, n) \cup value

Refused(c, x) == x \in c.calls \/ Cardinality(c.calls) >= MaxDepth

\* expandWorkspaceFunction.
Expanded(c, x) ==
    IF x \notin known \/ Refused(c, x) THEN {}
    ELSE {[To(c, "query", x) EXCEPT !.resolving = {}, !.scalars = {}, !.calls = @ \cup {x}]}

\* parseOneSource.
OneSource(c) ==
    IF Bound(c, c.name)
    THEN IF c.name \in c.resolving THEN {}
         ELSE {[To(c, "query", c.name) EXCEPT !.resolving = @ \cup {c.name}]}
    ELSE IF c.name \in Functions THEN Expanded(c, c.name) ELSE {}

\* parseScalarBinding: other bindings first, then the arguments of toscalar.
ScalarBinding(c) ==
    LET n == program[c.name]
        d == [c EXCEPT !.scalars = @ \cup {c.name}]
        others == (IF n.op \in {"alone", "pipe"} THEN {} ELSE {n.arg})
                      \cup (IF n.op \in {"value", "search"} THEN {} ELSE {n.head})
    IN  IF c.name \in c.scalars THEN {}
        ELSE (UNION {Scalars(d, x) : x \in (others \cap Lets) \ {c.name}})
                \cup (IF n.op = "scalar" THEN {To(d, "toscalar", n.arg)} ELSE {})
                \cup (IF n.op = "value" THEN Source(d, n.arg) \cup Scalars(d, n.arg) ELSE {})

\* A binding that is no more than the name of another.
Alias(x) == program[x].op = "alone" /\ program[x].head \in Lets

\* The binding that a binding names, through so many others.
Followed[k \in 0..Cardinality(Lets)] ==
    IF k = 0 THEN [x \in Lets |-> x]
    ELSE LET before == Followed[k - 1]
         IN  [x \in Lets |-> LET y == before[x] IN IF Alias(y) THEN program[y].head ELSE y]

Named(x) == Followed[Cardinality(Lets)][x]

\* bindingHasTabularInput, and scalarExpressionHasTabularInput of the text it ends at.
HasTabularInput(x) ==
    LET n == program[Named(x)]
    IN  /\ n.op # "value"
        /\ n.op = "alone" => n.head \notin Lets /\ (n.head \notin Functions \/ n.head \in known)

\* parseToscalarSubqueries.  Nothing keeps a binding from being walked from itself.
Toscalar(c) ==
    IF Bound(c, c.name)
    THEN IF HasTabularInput(c.name) THEN {To(c, "query", c.name)} ELSE {}
    ELSE IF c.name \notin Functions \/ c.name \in known THEN Source(c, c.name) ELSE {}

Steps(c) ==
    CASE c.at = "query" -> Query(c)
      [] c.at = "source" -> OneSource(c)
      [] c.at = "scalar" -> ScalarBinding(c)
      [] c.at = "toscalar" -> Toscalar(c)

\* parseProgram: from the query proper.  How far the walk got, and where it has been.
Walked[k \in 0..MaxWalk] ==
    IF k = 0 THEN [at |-> {Place("query", Main)}, been |-> {}]
    ELSE LET before == Walked[k - 1]
         IN  [at |-> UNION {Steps(c) : c \in before.at}, been |-> before.been \cup before.at]

-----------------------------------------------------------------------------
(* What the walk finds, and what it marks on the way. *)

\* addDependency at a source: a table, unless the name is one of the other kinds.
Found(c) ==
    /\ c.at = "source" /\ ~Bound(c, c.name)
    /\ c.name \notin Dynamic

\* Required evidence wins over that of a leg of a fuzzy union.
RequiredFound(reached) == {c.name : c \in {d \in reached : Found(d) /\ ~d.optional}}

OptionalFound(reached) ==
    {c.name : c \in {d \in reached : Found(d)}} \ RequiredFound(reached)

\* Cycles, limits, and what may be a scalar or a table.
Ambiguous(c) ==
    LET n == program[c.name]
    IN  \/ c.at = "source" /\ Bound(c, c.name) /\ c.name \in c.resolving
        \/ c.at = "source" /\ c.name \in known /\ Refused(c, c.name)
        \/ c.at = "scalar" /\ c.name \in c.scalars
        \/ c.at = "query" /\ n.op = "unclear"
        \/ /\ c.at = "query" /\ n.op = "in"
           /\ IF Bound(c, n.arg) THEN n.arg \in c.resolving ELSE ~Called(n.arg)

Unsupported(c) ==
    \/ c.at = "source" /\ c.name \in Dynamic \cup (Functions \ known)
    \/ c.at = "query" /\ program[c.name].op = "value"

BlockingStatus(reached) ==
    IF \E c \in reached : Ambiguous(c) THEN "ambiguous"
    ELSE IF \E c \in reached : Unsupported(c) THEN "unsupported" ELSE "none"

\* result: a remote source is told before what is in the way, and that before the rest.
Status(blocking, found) ==
    IF found \cap Remotes # {} THEN "remote"
    ELSE IF blocking # "none" THEN blocking
    ELSE IF found \cap Parsers # {} THEN "unsupported"
    ELSE IF found \cap (Tables \cup Lets \cup Watchlists) # {} THEN "resolved" ELSE "empty"

\* applySentinelKQLResolution, with what sentinelRule makes of "empty".  The inputs that were
\* found can be looked up in Azure ("open"); what is in the way besides them becomes an input
\* that nothing resolves ("barred").
InputStatus(status, blocking, found) ==
    LET deferred == found \cap (Watchlists \cup Parsers \cup Remotes) # {}
    IN  IF blocking # "none" /\ found \cap (Tables \cup Lets \cup Watchlists \cup Parsers \cup Remotes) # {}
        THEN "barred"
        ELSE IF status = "resolved" \/ (deferred /\ status \in {"remote", "unsupported"}) THEN "open"
        ELSE IF status = "empty" THEN "unsupported" ELSE status

Unanalysed == [input |-> "none", required |-> {}, optional |-> {}]

ProgramInit ==
    /\ program \in Programs
    /\ known \in Metadata
    /\ resolution = Unanalysed

\* A walk that does not end returns nothing.
Analyse ==
    LET walk == Walked[MaxWalk]
        reached == walk.been
        required == RequiredFound(reached)
        others == OptionalFound(reached)
        found == required \cup others
        blocking == BlockingStatus(reached)
    IN  /\ resolution = Unanalysed
        /\ walk.at = {}
        /\ resolution' = [input |-> InputStatus(Status(blocking, found), blocking, found),
                          required |-> required, optional |-> others]
        /\ UNCHANGED <<program, known>>

KqlNext == Analyse

KqlSpec == ProgramInit /\ [][KqlNext]_kqlVars

-----------------------------------------------------------------------------
(* What a program reads when it runs: what its text mentions as a table, and *)
(* what the texts of those read.  A function sees no binding of its caller.  *)

\* A name, in the body of a function or in the program.
Node == [within: BOOLEAN, name: Names \cup {Main}]

HasText(x) == x.name \in {Main} \cup Functions \/ (x.name \in Lets /\ ~x.within)

\* A text is reached through others, each of them once.
Texts == {x \in Node : HasText(x)}

\* In the body of a function.
Inside(x) == x.within \/ x.name \in Functions

\* A name that is compared with is a scalar binding, or else a column.
Column(x, y) == y \notin Lets \/ Inside(x) \/ program[Named(y)].op # "value"

Mentions(x, requiredOnly) ==
    LET n == program[x.name]
        head == IF n.op \in {"value", "search"} THEN {} ELSE {n.head}
        arg == IF \/ n.op \in {"alone", "pipe"}
                  \/ n.op = "uses" /\ Column(x, n.arg)
                  \/ n.op = "fuzzy" /\ requiredOnly
               THEN {} ELSE {n.arg}
    IN  {[within |-> Inside(x), name |-> y] : y \in head \cup arg}

\* What is reached in so many steps, through what every run reads only or through everything.
Reached[k \in 0..Cardinality(Texts)] ==
    IF k = 0 THEN [requiredOnly \in BOOLEAN |-> {[within |-> FALSE, name |-> Main]}]
    ELSE LET before == Reached[k - 1]
         IN  [requiredOnly \in BOOLEAN |->
                LET old == before[requiredOnly]
                IN  old \cup UNION {Mentions(x, requiredOnly) : x \in old \cap Texts}]

Visited(requiredOnly) == Reached[Cardinality(Texts)][requiredOnly]

Read(requiredOnly) ==
    {x.name : x \in {y \in Visited(requiredOnly) : y.name # Main /\ (y.within \/ y.name \notin Lets)}}

\* Operators whose argument is not taken for what it is.  parsePipelineSegment does not look at
\* the list of a comparison other than "in", which may be a query; parseToscalarSubqueries not at
\* a function it does not know; and parseScalarBindingReferences takes a column for a binding of
\* that name.
Misread(x) ==
    LET n == program[x.name]
    IN  \/ n.op = "hasAny"
        \/ n.op = "scalar" /\ known # Functions
        \/ n.op = "uses" /\ n.arg \in Lets /\ ~Inside(x) /\ Column(x, n.arg)

\* A leg of a fuzzy union that parseScalarBinding comes upon in the text of a binding, where
\* nothing tells that it is one.
HiddenLeg(x) ==
    LET n == program[x.name]
    IN  ~x.within /\ x.name \in Lets /\ n.op = "fuzzy" /\ n.arg \in Lets

\* The rule's inputs are taken to be those that were found.
Conclusive == resolution.input = "open"

-----------------------------------------------------------------------------
(* Properties. *)

\* What the code does promise.  When the rule is left open to be resolved by its inputs, and no
\* operator is misread, exactly the inputs the program reads are found, through bindings, stored
\* functions, subqueries and scalar values, and those that every run reads are required; no
\* others are, but for what a leg of a fuzzy union in a binding reads (kql.go 293-1264,
\* 1411-1430; client.go 801-823).
DependenciesAreTrue ==
    (Conclusive /\ ~\E x \in Visited(FALSE) \cap Texts : Misread(x)) =>
        /\ resolution.required \cup resolution.optional = Read(FALSE)
        /\ Read(TRUE) \subseteq resolution.required
        /\ (~\E x \in Visited(FALSE) \cap Texts : HiddenLeg(x)) =>
              resolution.required = Read(TRUE)

\* kql.go 1000-1003: queries nested in the operators of a pipeline are inputs of the rule
\* and must not disappear.
InputsAreSeen == Conclusive => Read(FALSE) \subseteq resolution.required \cup resolution.optional
=============================================================================
