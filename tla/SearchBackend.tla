----------------------------- MODULE SearchBackend -----------------------------
(***************************************************************************)
(* internal/backend/elastic and opensearch: one call of the adapter, which *)
(* reads a cluster that changes meanwhile.  Rules reads the rules page by  *)
(* page; Sources the data-stream statistics, the index list, and then the  *)
(* missing dates; ResolveInputs the index expressions of the rules, on a   *)
(* pool of requests; RequiredFieldEvidence a field of the sources.  A      *)
(* selector is the name of a source, here or on another cluster.           *)
(***************************************************************************)
EXTENDS Naturals, Sequences, FiniteSets

CONSTANTS
    RuleIds,        \* rules that may be installed
    PageSize,
    Streams,        \* sources that are data streams
    Indices,        \* sources that are plain indices
    Selections,     \* what the rules select
    Slots,          \* Client.concurrency
    MaxChanges      \* bound: changes of the cluster under a call

Sources == Streams \cup Indices

\* local selectors, excluded ones, those of other clusters; and whether the inventory of the
\* rules has settled the rule's input.
Selection == [local: SUBSET Sources, excluded: SUBSET Sources, remote: SUBSET Sources, settled: BOOLEAN]

\* Assumed of the constants.
SearchBackendAssumption ==
    /\ PageSize \in Nat \ {0} /\ Slots \in Nat \ {0} /\ MaxChanges \in Nat
    /\ Selections \subseteq Selection

Expression(local, excluded) == [local |-> local, excluded |-> excluded]

\* diagnosticInputExpressions: each selector by itself, with every exclusion.
Diagnostic(rule) ==
    IF Cardinality(rule.local) < 2 THEN {}
    ELSE {Expression({s}, rule.excluded) : s \in rule.local}

\* ResolveInputs: what is asked for a rule; never for what is on another cluster.
Asked(rule) ==
    IF rule.settled \/ rule.local \cup rule.excluded = {} THEN {}
    ELSE {Expression(rule.local, rule.excluded)} \cup Diagnostic(rule)

\* Rules share the expressions they have in common.
Expressions == UNION {Asked(rule) : rule \in Selections}

\* What the expression stands for.
Meant(e) == e.local \ e.excluded

VARIABLES
    (* the cluster *)
    product,    \* "elastic" or "opensearch"
    installed,  \* the rules, in the order the API lists them
    data,       \* of each source, how it is
    lacking,    \* the sources with a backing index in which the field is not searchable
    changes,
    (* the call *)
    step,
    page,       \* pages of rules read
    rules,      \* rules read
    stats,      \* what the data-stream statistics said
    docs,       \* Source.Docs of the sources listed
    last,       \* Source.LastEvent
    context, call, task,    \* the pool that resolves the expressions
    answer,     \* what each expression resolved to
    fields,     \* the sources whose field is available
    (* observation *)
    started,    \* the rules when the listing began
    cut, grown, \* rules were deleted, or created, under the listing
    seen,       \* how each source has been since the call began
    uncounted   \* the streams of which a backing index gave no count

clusterVars == <<product, installed, data, lacking, changes>>
listVars == <<page, rules, started, cut, grown>>
sourceVars == <<stats, docs, last, uncounted>>
poolVars == <<context, call, task, answer>>
searchVars == <<clusterVars, step, listVars, sourceVars, poolVars, fields, seen>>

Pool == INSTANCE EvidencePool WITH Tasks <- Expressions

-----------------------------------------------------------------------------
(* The cluster.  "ahead": the latest event is stamped with a time to come;  *)
(* "rolled": the documents are in an older backing index.                   *)

Conditions(s) == {"absent", "empty", "undated", "fed", "ahead"}
                     \cup (IF s \in Streams THEN {"rolled"} ELSE {})

\* ResolveInputs and RequiredFieldEvidence see no more of a source than that it exists.
Visible(s) == IF step \in {"stats", "cat", "dates"} THEN Conditions(s) ELSE {"absent", "fed"}

Exists(s) == data[s] # "absent"

Dated == {"fed", "ahead", "rolled"}

Listings ==
    {q \in UNION {[1..n -> RuleIds] : n \in 0..Cardinality(RuleIds)} :
        \A i, j \in DOMAIN q : i # j => q[i] # q[j]}

Worlds ==
    {d \in [Sources -> UNION {Conditions(s) : s \in Sources}] :
        \A s \in Sources : d[s] \in Visible(s)}

\* Each call reads its own part of the cluster; only the pages of rules differ by product.
ClusterInit ==
    /\ \/ step = "rules" /\ installed \in Listings /\ data = [s \in Sources |-> "fed"] /\ lacking = {}
       \/ step \in {"stats", "resolve"} /\ installed = <<>> /\ data \in Worlds /\ lacking = {}
       \/ step = "fields" /\ installed = <<>> /\ data \in Worlds /\ lacking \in SUBSET Sources
    /\ product \in {"elastic"} \cup {x \in {"opensearch"} : step = "rules"}

CallInit ==
    /\ changes = 0
    /\ page = 0 /\ rules = <<>>
    /\ started = installed /\ cut = FALSE /\ grown = FALSE
    /\ stats = [s \in Streams |-> "absent"]
    /\ docs = [s \in Sources |-> "unlisted"]
    /\ last = [s \in Sources |-> "none"]
    /\ Pool!Init
    /\ answer = [e \in Expressions |-> {}]
    /\ fields = {}
    /\ seen = [s \in Sources |-> {data[s]}]
    /\ uncounted = {}

SearchInit == ClusterInit /\ CallInit

Change == changes < MaxChanges /\ changes' = changes + 1

\* Rules are listed while they are created and deleted.
DeleteRule(i) ==
    /\ Change
    /\ step = "rules" /\ i \in DOMAIN installed
    /\ installed' = SubSeq(installed, 1, i - 1) \o SubSeq(installed, i + 1, Len(installed))
    /\ cut' = TRUE
    /\ UNCHANGED <<product, data, lacking, step, page, rules, started, grown, sourceVars,
                   poolVars, fields, seen>>

CreateRule(r, i) ==
    /\ Change
    /\ step = "rules" /\ i \in 1..(Len(installed) + 1)
    /\ \A j \in DOMAIN installed : installed[j] # r
    /\ installed' = SubSeq(installed, 1, i - 1) \o <<r>> \o SubSeq(installed, i, Len(installed))
    /\ grown' = TRUE
    /\ UNCHANGED <<product, data, lacking, step, page, rules, started, cut, sourceVars,
                   poolVars, fields, seen>>

Turn(s, condition) ==
    /\ Change
    /\ step \notin {"rules", "done"}
    /\ condition \in Visible(s) \ {data[s]}
    /\ data' = [data EXCEPT ![s] = condition]
    /\ seen' = [seen EXCEPT ![s] = @ \cup {condition}]
    /\ UNCHANGED <<product, installed, lacking, step, listVars, sourceVars, poolVars, fields>>

-----------------------------------------------------------------------------
(* Rules *)

PageOf(n) ==
    SubSeq(installed, n * PageSize + 1,
           IF (n + 1) * PageSize < Len(installed) THEN (n + 1) * PageSize ELSE Len(installed))

\* Mutant: the listing ends one page early.
LastPageEarly(n, hits, total) == hits = 0 \/ (n + 2) * PageSize >= total

\* Elastic's pages carry the total; OpenSearch's may leave it out, and a short page is
\* the last one.
LastPage(n, hits, total) ==
    \/ hits = 0
    \/ product = "elastic" /\ (n + 1) * PageSize >= total
    \/ product = "opensearch" /\ (hits < PageSize \/ (total > 0 /\ n * PageSize + hits >= total))

ReadPage(total) ==
    LET hits == PageOf(page)
    IN  /\ step = "rules"
        /\ total \in {Len(installed)} \cup (IF product = "opensearch" THEN {0} ELSE {})
        /\ rules' = rules \o hits
        /\ page' = page + 1
        /\ step' = IF LastPage(page, Len(hits), total) THEN "done" ELSE "rules"
        /\ UNCHANGED <<clusterVars, started, cut, grown, sourceVars, poolVars, fields, seen>>

-----------------------------------------------------------------------------
(* Sources *)

ReadStats ==
    /\ step = "stats"
    /\ stats' = [s \in Streams |-> data[s]]
    /\ step' = "cat"
    /\ UNCHANGED <<clusterVars, listVars, docs, last, uncounted, poolVars, fields, seen>>

\* The count of an index that cannot be read is passed over: a plain index is then of
\* unknown size, a stream counts what its other backing indices hold.
Count(s, unreadable) ==
    IF s \in Indices
    THEN IF ~Exists(s) THEN "unlisted"
         ELSE IF s \in unreadable THEN "unknown"
         ELSE IF data[s] = "empty" THEN "zero" ELSE "some"
    ELSE IF stats[s] = "absent" THEN "unlisted"
         ELSE IF ~Exists(s) THEN "unknown"
         ELSE IF data[s] = "empty" \/ (data[s] = "rolled" /\ s \in unreadable) THEN "zero"
         ELSE "some"

\* A date in the future says nothing of the events before it.
Dates == [s \in Sources |-> IF s \in Streams /\ stats[s] \in {"fed", "rolled"} THEN "past" ELSE "none"]

ReadIndices(unreadable) ==
    /\ step = "cat"
    /\ docs' = [s \in Sources |-> Count(s, unreadable)]
    /\ last' = Dates
    /\ uncounted' = unreadable \cap Streams
    /\ step' = "dates"
    /\ UNCHANGED <<clusterVars, listVars, stats, poolVars, fields, seen>>

Undated == {s \in Sources : docs[s] \in {"some", "unknown"} /\ last[s] = "none"}

\* fillFreshness, in any order; a search that fails leaves the source undated.
FillDates ==
    /\ step = "dates"
    /\ \E failed \in SUBSET Undated :
          last' = [s \in Sources |-> IF s \in Undated \ failed /\ data[s] \in Dated
                                     THEN "past" ELSE last[s]]
    /\ step' = "done"
    /\ UNCHANGED <<clusterVars, listVars, stats, docs, uncounted, poolVars, fields, seen>>

-----------------------------------------------------------------------------
(* ResolveInputs: each expression is asked for once, on a pool *)

Others == <<clusterVars, listVars, sourceVars, fields, seen>>

StartResolving ==
    /\ step = "resolve"
    /\ call = "idle"
    /\ Pool!Begin({})
    /\ UNCHANGED <<Others, step, answer>>

Resolving(e) ==
    /\ Pool!Take(e) \/ Pool!Leave(e)
    /\ UNCHANGED <<Others, step, answer>>

\* "?" stands for an answer that could not be had.
Resolve(e) ==
    /\ Pool!Answer(e)
    /\ answer' \in {[answer EXCEPT ![e] = {s \in Meant(e) : Exists(s)}], [answer EXCEPT ![e] = {"?"}]}
    /\ UNCHANGED <<Others, step>>

EndContext ==
    /\ call = "running"
    /\ Pool!End
    /\ UNCHANGED <<Others, step, answer>>

Resolved ==
    /\ Pool!Return
    /\ step' = "done"
    /\ UNCHANGED <<Others, answer>>

-----------------------------------------------------------------------------
(* RequiredFieldEvidence: a field is available if every backing index has it, *)
(* searchable.                                                                *)

ReadFields(unread) ==
    /\ step = "fields"
    /\ fields' = {s \in Sources \ unread : Exists(s) /\ s \notin lacking}
    /\ step' = "done"
    /\ UNCHANGED <<clusterVars, listVars, sourceVars, poolVars, seen>>

\* A request outside a pool fails: so does the call.
Fail ==
    /\ step \in {"rules", "stats", "cat"}
    /\ step' = "failed"
    /\ UNCHANGED <<clusterVars, listVars, sourceVars, poolVars, fields, seen>>

SearchNext ==
    \/ ReadStats \/ FillDates \/ StartResolving \/ EndContext \/ Resolved \/ Fail
    \/ \E i \in 1..(Cardinality(RuleIds) + 1) :
          DeleteRule(i) \/ \E r \in RuleIds : CreateRule(r, i)
    \/ \E s \in Sources, condition \in UNION {Conditions(x) : x \in Sources} : Turn(s, condition)
    \/ \E total \in 0..Cardinality(RuleIds) : ReadPage(total)
    \/ \E unreadable \in SUBSET Sources : ReadIndices(unreadable) \/ ReadFields(unreadable)
    \/ \E e \in Expressions : Resolving(e) \/ Resolve(e)

SearchSpec == SearchInit /\ [][SearchNext]_searchVars

-----------------------------------------------------------------------------
(* Properties *)

Listed == {rules[i] : i \in DOMAIN rules}

\* A rule that was there all along is missing only if others were deleted under the listing,
\* and listed twice only if others were created.
RulesAreTrue ==
    step = "done" =>
        /\ ~cut => \A i \in DOMAIN started : started[i] \in Listed
        /\ ~grown => \A i, j \in DOMAIN rules : i # j => rules[i] # rules[j]

\* A source that is listed existed; one without documents had none, or a backing index
\* was not counted; and one that has a date had an event by then.
SourcesAreTrue ==
    step = "done" =>
        \A s \in Sources :
            /\ docs[s] # "unlisted" => seen[s] # {"absent"}
            /\ docs[s] = "zero" => "empty" \in seen[s] \/ s \in uncounted
            /\ last[s] # "none" => last[s] = "past" /\ seen[s] \cap Dated # {}

\* An expression resolves to sources that existed, and leaves out none that existed
\* throughout; without an error no expression is left out.
ResolutionIsTrue ==
    call = "evidence" =>
        \A e \in Expressions :
            \/ answer[e] = {"?"}
            \/ /\ \A s \in answer[e] : seen[s] # {"absent"}
               /\ \A s \in Meant(e) \ answer[e] : "absent" \in seen[s]

\* A field is available only where it is in every backing index.
FieldsAreTrue == fields \cap lacking = {}

\* Whatever changes in the cluster while it is read, the evidence of a call is true of
\* something the cluster was during the call (elastic/client.go 781-947, opensearch 208-259).
SearchEvidenceIsTrue == RulesAreTrue /\ SourcesAreTrue /\ ResolutionIsTrue /\ FieldsAreTrue
=============================================================================
