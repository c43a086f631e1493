-------------------------- MODULE SentinelResolution --------------------------
(***************************************************************************)
(* internal/backend/sentinel: how a scan decides what a KQL rule reads.    *)
(* Each dependency of the rule is looked up in an inventory and then, by a *)
(* query that returns no rows, in the permission evidence of Log           *)
(* Analytics; a rule that reaches into another workspace needs more.  The  *)
(* workspaces change while the scan looks.  The queries of a scan run on   *)
(* the pool of SentinelClient.                                             *)
(***************************************************************************)
EXTENDS Naturals, FiniteSets

CONSTANTS
    Tables, Remotes, Watchlists, Parsers,   \* dependencies of a rule, by kind
    Rules,          \* of each rule, the dependencies
    MaxChanges      \* bound: changes of the workspaces

Deps == Tables \cup Remotes \cup Watchlists \cup Parsers

\* Assumed of the constants: a dependency is of one kind.
SentinelResolutionAssumption ==
    /\ Tables \cap (Remotes \cup Watchlists \cup Parsers) = {}
    /\ Remotes \cap (Watchlists \cup Parsers) = {} /\ Watchlists \cap Parsers = {}
    /\ Rules \subseteq SUBSET Deps /\ MaxChanges \in Nat

VARIABLES
    (* the rule and the workspaces *)
    inputs,     \* the dependencies of the rule
    optional,   \* those in a leg of a fuzzy union
    state,      \* of each dependency, how it is
    setting,    \* what else bears on a rule that reaches into another workspace
    changes,
    (* the scan *)
    step,
    functions,  \* the workspace functions could be read
    inventory,  \* of each dependency, what its inventory says
    alias,      \* the proof that the rule's name for the workspace is the configured one
    probe,      \* of each dependency, what its query showed
    verdict,
    (* observation *)
    seen        \* how each dependency has been since the scan began

worldVars == <<inputs, optional, state, setting, changes>>
scanVars == <<step, functions, inventory, alias, probe, verdict>>
resolutionVars == <<worldVars, scanVars, seen>>

-----------------------------------------------------------------------------
(* The workspaces.  "elsewhere": the name in workspace() is that of another *)
(* workspace than the one it is configured for.                             *)

States(d) ==
    CASE d \in Tables -> {"ok", "denied", "absent", "basic", "provisioning", "function"}
      [] d \in Remotes -> {"ok", "denied", "absent", "basic", "provisioning",
                           "elsewhere", "unmapped"}
      [] d \in Watchlists -> {"ok", "denied", "absent", "provisioning"}
      [] d \in Parsers -> {"ok", "denied", "broken"}

\* Whether a table is a function or a workspace is configured does not change under a scan.
Changing(d) == States(d) \ {"function", "unmapped", "elsewhere"}

Settings ==
    [far: BOOLEAN,          \* the workspaces are in three regions or more
     foreign: BOOLEAN,      \* the other workspace is in another subscription
     installed: BOOLEAN,    \* the rule is one of the workspace, not a candidate
     lastRun: {"none", "failed", "outdated", "success"}]

\* Only a rule that reaches into another subscription depends on who it runs as.
Told(x) == ~x.foreign => x.installed /\ x.lastRun = "none"

NoSetting == [far |-> FALSE, foreign |-> FALSE, installed |-> TRUE, lastRun |-> "none"]

Unread == [d \in Deps |-> "unread"]

NoVerdict == [status |-> "none", sources |-> {}]

\* The remote dependencies of a rule are in one workspace, and share its name.
WorldInit ==
    /\ inputs \in Rules
    /\ optional \in SUBSET inputs
    /\ state \in {f \in [Deps -> UNION {States(d) : d \in Deps}] :
                     \A d \in Deps : IF d \in inputs THEN f[d] \in States(d) ELSE f[d] = "ok"}
    /\ \A d, e \in inputs \cap Remotes : state[d] \in {"elsewhere", "unmapped"} => state[e] = state[d]
    /\ setting \in IF inputs \cap Remotes = {} THEN {NoSetting} ELSE {x \in Settings : Told(x)}

ScanInit ==
    /\ changes = 0
    /\ step = "idle"
    /\ functions = FALSE
    /\ inventory = Unread
    /\ alias = "unread"
    /\ probe = Unread
    /\ verdict = NoVerdict
    /\ seen = [d \in Deps |-> {state[d]}]

ResolutionInit == WorldInit /\ ScanInit

Change(d, s) ==
    /\ step # "idle"
    /\ d \in inputs
    /\ changes < MaxChanges
    /\ state[d] \in Changing(d) /\ s \in Changing(d) \ {state[d]}
    /\ changes' = changes + 1
    /\ state' = [state EXCEPT ![d] = s]
    /\ seen' = [seen EXCEPT ![d] = @ \cup {s}]
    /\ UNCHANGED <<inputs, optional, setting, scanVars>>

-----------------------------------------------------------------------------
(* Permission evidence.  A response to a query holds permission records and *)
(* data-source records, each about the workspace asked for ("here"), about  *)
(* another ("elsewhere"), or silent on that ("blank").                      *)

Scopes == {"here", "elsewhere", "blank"}

\* "full": allowTables is left out.
Grants == {"none", "full", "listed", "unlisted", "denied"}

\* The table is in the data sources of these scopes.
Responses == [grant: [Scopes -> Grants], sources: SUBSET Scopes]

\* Mutant: a record about another workspace will do.
ConfirmsAnywhere(r, scopes) ==
    LET given == {r.grant[s] : s \in Scopes} \ {"none"}
    IN  IF "denied" \in given THEN "unavailable"
        ELSE IF given = {} \/ given = {"unlisted"} \/ r.sources = {} THEN "incomplete"
        ELSE "assessed"

\* validateLogsEvidenceForSource, where the records of these scopes count.
Confirms(r, scopes) ==
    LET given == {r.grant[s] : s \in scopes} \ {"none"}
    IN  IF "denied" \in given THEN "unavailable"
        ELSE IF \/ given = {}
                \/ "unlisted" \in given /\ "listed" \notin given
                \/ r.sources \cap scopes = {}
             THEN "incomplete"
             ELSE "assessed"

\* validateNativeLogsPermissions: no data source may be foreign to these scopes, and a
\* record that allows the table is enough.
ConfirmsNative(r, scopes) ==
    LET given == {r.grant[s] : s \in scopes} \ {"none"}
    IN  IF r.sources # {} /\ r.sources \subseteq scopes /\ "denied" \notin given
              /\ given \cap {"full", "listed"} # {}
        THEN "assessed" ELSE "unavailable"

\* The service says of a table that cannot be read through this query: it is not among the
\* data sources, or the permissions do not have it.  "about" are the scopes of the records
\* on that table; the other records may say anything.
Honest(r, about) ==
    \/ r.sources \cap about = {}
    \/ \A s \in about : r.grant[s] \notin {"full", "listed"}

Answers(about, readable) == {r \in Responses : readable \/ Honest(r, about)}

\* What can come of a query: it may also fail, or find a budget spent.
LocalProbe == [readable \in BOOLEAN |->
    {"incomplete", "unavailable"} \cup
        {Confirms(r, Scopes) : r \in {x \in Answers({"here", "blank"}, readable) :
                                         x.grant["elsewhere"] = "none" /\ "elsewhere" \notin x.sources}}]

RemoteProbe == [readable \in BOOLEAN |->
    {"incomplete", "unavailable"} \cup {Confirms(r, {"here"}) : r \in Answers({"here"}, readable)}]

WatchlistProbe == [readable \in BOOLEAN |->
    {"unavailable"} \cup {ConfirmsNative(r, {"here", "blank"}) : r \in Answers({"here", "blank"}, readable)}]

ParserProbe == [readable \in BOOLEAN |->
    {"unavailable"} \cup {ConfirmsNative(r, {"here"}) : r \in Answers({"here"}, readable)}]

\* asimSemanticPartialError: the service cannot run the parser; a warning that is known not
\* to hide a refusal of access makes it unsupported.
BrokenParser == {"unavailable", "unsupported"}

-----------------------------------------------------------------------------
(* Inventories *)

\* What the inventory of its kind says of a dependency.
TableView(d) ==
    {IF state[d] \in {"ok", "denied"} THEN "listed"
     ELSE IF state[d] = "function" THEN "absent" ELSE state[d]}

\* The inventory of another workspace can fail by itself, and so can that of watchlists.
RemoteView(d) ==
    {"failed", IF state[d] \in {"ok", "denied", "elsewhere"} THEN "listed" ELSE state[d]}

WatchlistView(d) ==
    {"failed", IF state[d] \in {"ok", "denied"} THEN "listed" ELSE state[d]}

Views(d) ==
    CASE d \in Tables -> TableView(d)
      [] d \in Remotes -> RemoteView(d)
      [] d \in Watchlists -> WatchlistView(d)
      [] d \in Parsers -> {"listed"}

\* A workspace function is expanded by the KQL analysis if the functions could be read.
Considered == {d \in inputs : ~(functions /\ state[d] = "function")}

\* RefreshForScan.
Refresh ==
    /\ step \in {"idle", "done"}
    /\ step' = "functions"
    /\ inventory' = Unread
    /\ alias' = "unread"
    /\ probe' = Unread
    /\ verdict' = NoVerdict
    /\ seen' = [d \in Deps |-> {state[d]}]
    /\ UNCHANGED <<worldVars, functions>>

ReadFunctions ==
    /\ step = "functions"
    /\ functions' \in BOOLEAN
    /\ step' = "inventory"
    /\ UNCHANGED <<worldVars, inventory, alias, probe, verdict, seen>>

ReadInventory(d) ==
    /\ step = "inventory"
    /\ d \in Considered
    /\ inventory[d] = "unread"
    /\ \E view \in Views(d) : inventory' = [inventory EXCEPT ![d] = view]
    /\ UNCHANGED <<worldVars, step, functions, alias, probe, verdict, seen>>

\* primeRemoteAliasProofs: the name by which the rule calls the workspace is tried on the
\* rule's table there, and then on another one.  A name that is taken elsewhere brings
\* evidence about that workspace.
ProveAlias(d) ==
    /\ step = "inventory"
    /\ alias = "unread"
    /\ d \in Remotes \cap Considered
    /\ inventory[d] \notin {"unread", "failed", "unmapped"}
    /\ \/ /\ inventory[d] = "listed" /\ state[d] = "ok"
          /\ alias' = "assessed"
          /\ probe' = [probe EXCEPT ![d] = "assessed"]
       \/ /\ alias' \in RemoteProbe[state[d] # "elsewhere"]
          /\ UNCHANGED probe
    /\ UNCHANGED <<worldVars, step, functions, inventory, verdict, seen>>

\* The remote dependencies are in one workspace, which has been looked at.
RemoteReady ==
    \A d \in Remotes \cap Considered :
        alias # "unread" \/ inventory[d] \in {"failed", "unmapped"}

InventoriesRead ==
    /\ step = "inventory"
    /\ \A d \in Considered : inventory[d] # "unread"
    /\ RemoteReady
    /\ step' = "probe"
    /\ UNCHANGED <<worldVars, functions, inventory, alias, probe, verdict, seen>>

\* The inventory read fails, or the context ends: there is no resolution.
GiveUp ==
    /\ step \in {"inventory", "probe"}
    /\ step' = "done"
    /\ verdict' = [NoVerdict EXCEPT !.status = "error"]
    /\ UNCHANGED <<worldVars, functions, inventory, alias, probe, seen>>

-----------------------------------------------------------------------------
(* Queries *)

\* A table's permission is asked for if the inventory lists it.
Askable(d) ==
    /\ inventory[d] = "listed"
    /\ d \in Remotes => alias = "assessed"

Probes(d) ==
    LET readable == state[d] = "ok"
    IN  CASE d \in Tables -> LocalProbe[readable]
          [] d \in Remotes -> RemoteProbe[readable \/ state[d] = "elsewhere"]
          [] d \in Watchlists -> WatchlistProbe[readable]
          [] d \in Parsers -> IF state[d] = "broken" THEN BrokenParser
                              ELSE ParserProbe[readable]

Probe(d) ==
    /\ step = "probe"
    /\ d \in Considered
    /\ Askable(d)
    /\ probe[d] = "unread"
    /\ \E p \in Probes(d) : probe' = [probe EXCEPT ![d] = p]
    /\ UNCHANGED <<worldVars, step, functions, inventory, alias, verdict, seen>>

-----------------------------------------------------------------------------
(* The verdict *)

\* initialRuleOutcomes, with the permission evidence of ResolveInputs.
Outcome(d) ==
    CASE inventory[d] = "unmapped" -> "remote"
      [] inventory[d] \in {"failed", "provisioning"} -> "unavailable"
      [] OTHER ->
            IF d \in Remotes /\ alias # "assessed" THEN "unavailable"
            ELSE IF inventory[d] = "absent"
                 THEN IF d \in Tables /\ ~functions THEN "unavailable" ELSE "empty"
            ELSE IF inventory[d] = "basic" THEN "incompatible"
            ELSE IF probe[d] = "assessed" THEN "resolved"
            ELSE IF probe[d] = "unsupported" THEN "unsupported" ELSE "unavailable"

\* The inputs of the rule are in a workspace whose identity is proven.
Reaches == \E d \in Remotes \cap Considered : alias = "assessed" /\ inventory[d] # "failed"

\* applyRuleHealthEvidence: SentinelHealth is asked about installed rules, where the branch
\* is required.
HealthAsked == setting.installed /\ ~(Remotes \cap Considered \subseteq optional)

\* classifyRuleHealthObservation: Sentinel runs the rule with its author's access, and only
\* a run that succeeded since the last edit, and lately, shows that it still suffices.
RunProves == setting.lastRun = "success"

\* SentinelHealth may not answer.
HealthOutcomes == {"unavailable"} \cup {x \in {"resolved"} : HealthAsked /\ RunProves}

\* remoteExecutionIdentityOutcomes.
IdentityOutcomes == IF Reaches /\ setting.foreign THEN HealthOutcomes ELSE {"none"}

Uncertain == {"unavailable", "unsupported", "ambiguous", "remote"}

ResolvedSources == {d \in Considered \ Watchlists : Outcome(d) = "resolved"}

\* aggregateRuleResolution.  Which of several reasons is given depends on their order.
Aggregate(identity) ==
    LET all == {Outcome(d) : d \in Considered} \cup ({identity} \ {"none"})
        missing == {Outcome(d) : d \in Considered \ optional} \ {"resolved"}
    IN  IF all = {} THEN {"unsupported"}
        ELSE IF all \cap Uncertain # {} THEN all \cap Uncertain
        ELSE IF missing # {} THEN missing
        ELSE IF "incompatible" \in all THEN {"incompatible"}
        ELSE IF ResolvedSources # {} THEN {"resolved"}
        ELSE IF "resolved" \in all THEN {"unsupported"}
        ELSE {"empty"}

\* remoteWorkspaceLimitOutcomes comes before all else; the home region may be unknown.
Resolutions ==
    IF Reaches /\ setting.far THEN {"incompatible", "unavailable"}
    ELSE (UNION {Aggregate(identity) : identity \in IdentityOutcomes})
             \cup (IF Reaches THEN {"unavailable"} ELSE {})

Answered ==
    /\ step = "probe"
    /\ \A d \in Considered : Askable(d) => probe[d] # "unread"

Resolve ==
    /\ Answered
    /\ \E status \in Resolutions :
          verdict' = [status |-> status,
                      sources |-> IF status = "resolved" THEN ResolvedSources ELSE {}]
    /\ step' = "done"
    /\ UNCHANGED <<worldVars, functions, inventory, alias, probe, seen>>

-----------------------------------------------------------------------------
(* ReadinessEvidence, which the connection check asks for instead: is there  *)
(* a read path to every input?                                               *)

Blocked ==
    \/ \E d \in Considered \cap Watchlists : Outcome(d) = "unavailable"
    \/ \E d \in Considered \cap Parsers : Outcome(d) = "unavailable"
    \/ \E d \in Considered \cap Remotes :
          inventory[d] = "failed" \/ (inventory[d] # "unmapped" /\ alias # "assessed")

\* The tables that a query was sent to.
Targets == {d \in Considered \cap (Tables \cup Remotes) : Askable(d)}

Readiness ==
    IF Blocked \/ \E d \in Targets : probe[d] # "assessed" THEN "unavailable"
    ELSE IF \E d \in Considered \cap Parsers : Outcome(d) = "unsupported" THEN "limited"
    ELSE IF Targets # {} \/ \E d \in Considered \ (Tables \cup Remotes) : Askable(d) THEN "ready"
    ELSE IF \E d \in Considered \cap Watchlists : Outcome(d) = "empty" THEN "limited"
    ELSE "unavailable"

CheckReadiness ==
    /\ Answered
    /\ verdict' = [status |-> Readiness, sources |-> {}]
    /\ step' = "done"
    /\ UNCHANGED <<worldVars, functions, inventory, alias, probe, seen>>

ResolutionNext ==
    \/ Refresh \/ ReadFunctions \/ InventoriesRead \/ GiveUp \/ Resolve \/ CheckReadiness
    \/ \E d \in Deps : \/ ReadInventory(d) \/ ProveAlias(d) \/ Probe(d)
                       \/ \E s \in States(d) : Change(d, s)

ResolutionSpec == ResolutionInit /\ [][ResolutionNext]_resolutionVars

-----------------------------------------------------------------------------
(* Properties.  A verdict is held against how the inputs have been since the scan *)
(* began: each was looked at at its own time, while the workspaces changed.       *)

\* A rule that is resolved could have run: every input it needs was there and readable, a
\* leg of a fuzzy union at worst absent, and what it reaches in another workspace is what
\* is meant and what its author may read.
ResolvedIsTrue ==
    verdict.status = "resolved" =>
        /\ \A d \in Considered \ optional : "ok" \in seen[d]
        /\ \A d \in Considered : seen[d] \cap {"ok", "absent"} # {}
        /\ verdict.sources # {} /\ \A d \in verdict.sources : "ok" \in seen[d]
        /\ Considered \cap Remotes # {} =>
              ~setting.far /\ (setting.foreign => setting.installed /\ setting.lastRun = "success")

\* Nor is a verdict against the rule taken from missing evidence: an input that is reported
\* absent was absent, and one that is reported incompatible was so.
RefusalIsTrue ==
    /\ verdict.status = "empty" => \E d \in Considered : "absent" \in seen[d]
    /\ verdict.status = "incompatible" =>
          setting.far \/ \E d \in Considered : "basic" \in seen[d]

\* A workspace that is ready without reserve has a read path, and none that is closed.
ReadyIsTrue ==
    verdict.status = "ready" =>
        /\ \E d \in Considered : "ok" \in seen[d]
        /\ \A d \in Considered : ~(seen[d] \subseteq {"denied", "elsewhere", "broken"})

\* Whatever a scan concludes about a rule's inputs is true of them, although permissions are
\* only visible in what a query leaves out and evidence may be missing anywhere
\* (client.go 2526-2529, 1374-1376; remote.go 309-314).
VerdictIsTrue == ResolvedIsTrue /\ RefusalIsTrue /\ ReadyIsTrue
=============================================================================
