----------------------------- MODULE BackendsProofs -----------------------------
(***************************************************************************)
(* What Backends promises of the evidence an adapter hands on, for every   *)
(* size of the constants: a verdict about a Sentinel rule is true of its   *)
(* inputs, and the evidence of a call of the Elastic and the OpenSearch    *)
(* adapter is true of the cluster, both as they have been while the        *)
(* adapter looked.  What SentinelClientProofs says of the client holds of  *)
(* Backends too.                                                           *)
(***************************************************************************)
EXTENDS Backends, SentinelClientProofs, KqlProofs, Sequences, SequenceTheorems

-----------------------------------------------------------------------------
(* Permission evidence *)

\* A query that cannot be read through confirms nothing, where the records that count include
\* those on the table and no others count that could speak for it.
LEMMA DenialShows ==
    ASSUME NEW about, NEW r \in Resolution!Answers(about, FALSE),
           NEW scopes \in SUBSET Resolution!Scopes, r.sources \cap scopes \subseteq about,
           \A s \in scopes : s \in about \/ r.grant[s] = "none"
    PROVE  /\ Resolution!Confirms(r, scopes) \in {"incomplete", "unavailable"}
           /\ Resolution!ConfirmsNative(r, scopes) = "unavailable"
<1>1. Resolution!Honest(r, about)
  BY DEF Resolution!Answers
<1>2. r.grant \in [Resolution!Scopes -> Resolution!Grants]
  BY DEF Resolution!Answers, Resolution!Responses
<1>3. CASE r.sources \cap about = {}
  <2>1. r.sources \cap scopes = {}
    BY <1>3
  <2>2. ~(r.sources # {} /\ r.sources \subseteq scopes)
    BY <2>1
  <2> QED  BY <2>1, <2>2, Zenon DEF Resolution!Confirms, Resolution!ConfirmsNative
<1>4. CASE \A s \in about : r.grant[s] \notin {"full", "listed"}
  <2> DEFINE given == {r.grant[s] : s \in scopes} \ {"none"}
  <2>1. given \subseteq {"denied", "unlisted"}
    BY <1>2, <1>4 DEF Resolution!Grants
  <2>2. given \cap {"full", "listed"} = {}
    BY <2>1
  <2>3. "denied" \in given \/ given = {} \/ ("unlisted" \in given /\ "listed" \notin given)
    BY <2>1
  <2> HIDE DEF given
  <2>4. Resolution!Confirms(r, scopes) \in {"incomplete", "unavailable"}
    BY <2>3 DEF Resolution!Confirms, given
  <2>5. Resolution!ConfirmsNative(r, scopes) = "unavailable"
    BY <2>2 DEF Resolution!ConfirmsNative, given
  <2> QED  BY <2>4, <2>5
<1> QED  BY <1>1, <1>3, <1>4 DEF Resolution!Honest

\* What a query that returns no rows shows, and that it shows no access where there is none.
LEMMA ProbeIsHonest ==
    ASSUME NEW readable \in BOOLEAN
    PROVE  /\ Resolution!LocalProbe[readable] \subseteq {"incomplete", "unavailable", "assessed"}
           /\ Resolution!RemoteProbe[readable] \subseteq {"incomplete", "unavailable", "assessed"}
           /\ Resolution!WatchlistProbe[readable] \subseteq {"unavailable", "assessed"}
           /\ Resolution!ParserProbe[readable] \subseteq {"unavailable", "assessed"}
           /\ ~readable => /\ "assessed" \notin Resolution!LocalProbe[readable]
                           /\ "assessed" \notin Resolution!RemoteProbe[readable]
                           /\ "assessed" \notin Resolution!WatchlistProbe[readable]
                           /\ "assessed" \notin Resolution!ParserProbe[readable]
<1> DEFINE Clean(r) == r.grant["elsewhere"] = "none" /\ "elsewhere" \notin r.sources
<1>1. \A r, scopes : /\ Resolution!Confirms(r, scopes) \in {"incomplete", "unavailable", "assessed"}
                     /\ Resolution!ConfirmsNative(r, scopes) \in {"unavailable", "assessed"}
  BY DEF Resolution!Confirms, Resolution!ConfirmsNative
<1>2. \A r \in Resolution!Answers({"here", "blank"}, FALSE) :
         Clean(r) => Resolution!Confirms(r, Resolution!Scopes) # "assessed"
  <2> SUFFICES ASSUME NEW r \in Resolution!Answers({"here", "blank"}, FALSE), Clean(r)
               PROVE  Resolution!Confirms(r, Resolution!Scopes) # "assessed"
    OBVIOUS
  <2>1. r.sources \cap Resolution!Scopes \subseteq {"here", "blank"}
    BY DEF Resolution!Scopes
  <2>2. \A s \in Resolution!Scopes : s \in {"here", "blank"} \/ r.grant[s] = "none"
    BY DEF Resolution!Scopes
  <2> QED  BY <2>1, <2>2, DenialShows
<1>3. \A r \in Resolution!Answers({"here"}, FALSE) :
         /\ Resolution!Confirms(r, {"here"}) # "assessed"
         /\ Resolution!ConfirmsNative(r, {"here"}) # "assessed"
  <2> SUFFICES ASSUME NEW r \in Resolution!Answers({"here"}, FALSE)
               PROVE  /\ Resolution!Confirms(r, {"here"}) # "assessed"
                      /\ Resolution!ConfirmsNative(r, {"here"}) # "assessed"
    OBVIOUS
  <2>1. {"here"} \in SUBSET Resolution!Scopes
    BY DEF Resolution!Scopes
  <2>2. r.sources \cap {"here"} \subseteq {"here"} /\ \A s \in {"here"} : s \in {"here"} \/ r.grant[s] = "none"
    OBVIOUS
  <2> QED  BY <2>1, <2>2, DenialShows
<1>4. \A r \in Resolution!Answers({"here", "blank"}, FALSE) :
         Resolution!ConfirmsNative(r, {"here", "blank"}) # "assessed"
  <2> SUFFICES ASSUME NEW r \in Resolution!Answers({"here", "blank"}, FALSE)
               PROVE  Resolution!ConfirmsNative(r, {"here", "blank"}) # "assessed"
    OBVIOUS
  <2>1. {"here", "blank"} \in SUBSET Resolution!Scopes
    BY DEF Resolution!Scopes
  <2>2. Resolution!ConfirmsNative(r, {"here", "blank"}) = "unavailable"
    BY <2>1, DenialShows
  <2> QED  BY <2>2
<1>5. Resolution!LocalProbe[readable] = {"incomplete", "unavailable"} \cup
         {Resolution!Confirms(r, Resolution!Scopes) :
             r \in {x \in Resolution!Answers({"here", "blank"}, readable) : Clean(x)}}
  BY DEF Resolution!LocalProbe
<1>6. Resolution!RemoteProbe[readable] = {"incomplete", "unavailable"} \cup
         {Resolution!Confirms(r, {"here"}) : r \in Resolution!Answers({"here"}, readable)}
  BY DEF Resolution!RemoteProbe
<1>7. Resolution!WatchlistProbe[readable] = {"unavailable"} \cup
         {Resolution!ConfirmsNative(r, {"here", "blank"}) :
             r \in Resolution!Answers({"here", "blank"}, readable)}
  BY DEF Resolution!WatchlistProbe
<1>8. Resolution!ParserProbe[readable] = {"unavailable"} \cup
         {Resolution!ConfirmsNative(r, {"here"}) : r \in Resolution!Answers({"here"}, readable)}
  BY DEF Resolution!ParserProbe
<1> HIDE DEF Clean
<1>9. /\ Resolution!LocalProbe[readable] \subseteq {"incomplete", "unavailable", "assessed"}
      /\ Resolution!RemoteProbe[readable] \subseteq {"incomplete", "unavailable", "assessed"}
      /\ Resolution!WatchlistProbe[readable] \subseteq {"unavailable", "assessed"}
      /\ Resolution!ParserProbe[readable] \subseteq {"unavailable", "assessed"}
  BY <1>1, <1>5, <1>6, <1>7, <1>8
<1>10. ASSUME ~readable
       PROVE  /\ "assessed" \notin Resolution!LocalProbe[readable]
              /\ "assessed" \notin Resolution!RemoteProbe[readable]
              /\ "assessed" \notin Resolution!WatchlistProbe[readable]
              /\ "assessed" \notin Resolution!ParserProbe[readable]
  <2>1. readable = FALSE
    BY <1>10
  <2>2. "assessed" \notin Resolution!LocalProbe[readable]
    BY <2>1, <1>2, <1>5
  <2>3. "assessed" \notin Resolution!RemoteProbe[readable]
    BY <2>1, <1>3, <1>6
  <2>4. "assessed" \notin Resolution!WatchlistProbe[readable]
    BY <2>1, <1>4, <1>7
  <2>5. "assessed" \notin Resolution!ParserProbe[readable]
    BY <2>1, <1>3, <1>8
  <2> QED  BY <2>2, <2>3, <2>4, <2>5
<1> QED  BY <1>9, <1>10

\* The query for a dependency shows access only where the rule has it; the exception is the
\* name of a workspace that is another one's, which the alias proof has to keep out.
LEMMA ProbesAreTrue ==
    ASSUME Resolution!SentinelResolutionAssumption, NEW d \in Resolution!Deps,
           NEW p \in Resolution!Probes(d), d \in Remotes => state[d] # "elsewhere"
    PROVE  /\ p \in {"incomplete", "unavailable", "assessed", "unsupported"}
           /\ p = "assessed" => state[d] = "ok"
           /\ p = "unsupported" => d \in Parsers
<1> DEFINE readable == state[d] = "ok"
<1> readable \in BOOLEAN
  OBVIOUS
<1>1. CASE d \in Tables
  <2>1. p \in Resolution!LocalProbe[readable]
    BY <1>1 DEF Resolution!Probes, Resolution!SentinelResolutionAssumption
  <2> QED  BY <2>1, ProbeIsHonest
<1>2. CASE d \in Remotes
  <2>1. p \in Resolution!RemoteProbe[readable]
    <3>1. (readable \/ state[d] = "elsewhere") = readable
      BY <1>2
    <3>2. p \in Resolution!RemoteProbe[readable \/ state[d] = "elsewhere"]
      BY <1>2 DEF Resolution!Probes, Resolution!SentinelResolutionAssumption
    <3> QED  BY <3>1, <3>2
  <2> QED  BY <2>1, ProbeIsHonest
<1>3. CASE d \in Watchlists
  <2>1. p \in Resolution!WatchlistProbe[readable]
    BY <1>3 DEF Resolution!Probes, Resolution!SentinelResolutionAssumption
  <2> QED  BY <2>1, ProbeIsHonest
<1>4. CASE d \in Parsers
  <2>1. p \in (IF state[d] = "broken" THEN Resolution!BrokenParser ELSE Resolution!ParserProbe[readable])
    BY <1>4 DEF Resolution!Probes, Resolution!SentinelResolutionAssumption
  <2> QED  BY <1>4, <2>1, ProbeIsHonest DEF Resolution!BrokenParser
<1> QED  BY <1>1, <1>2, <1>3, <1>4 DEF Resolution!Deps

-----------------------------------------------------------------------------
(* The verdict.  What was seen of a dependency at its own time stays true of *)
(* how the dependency has been since the scan began.                         *)

\* How a dependency can be.
Conditions == UNION {Resolution!States(d) : d \in Resolution!Deps}

\* All the remote dependencies of a rule are in one workspace.
WorkspacesInv ==
    /\ inputs \in SUBSET Resolution!Deps
    /\ state \in [Resolution!Deps -> Conditions]
    /\ seen \in [Resolution!Deps -> SUBSET Conditions]
    /\ \A d \in Resolution!Deps : state[d] \in Resolution!States(d) /\ state[d] \in seen[d]
    /\ \A d, e \in inputs \cap Remotes : state[d] \in {"elsewhere", "unmapped"} => state[e] = state[d]

\* What the inventory of its kind can say of a dependency.
KnownViews(d) ==
    IF d \in Tables THEN {"listed", "absent", "basic", "provisioning"}
    ELSE IF d \in Remotes THEN {"failed", "listed", "absent", "basic", "provisioning", "unmapped"}
    ELSE IF d \in Watchlists THEN {"failed", "listed", "absent", "provisioning"}
    ELSE {"listed"}

\* The views of the inventories.
AllViews == {"unread", "failed", "listed", "absent", "basic", "provisioning", "unmapped"}

\* The view was true, but for a function that the table inventory does not have.
ViewIsTrue(d, view) ==
    /\ view \in KnownViews(d)
    /\ view \in {"basic", "provisioning", "unmapped"} => view \in seen[d]
    /\ view = "absent" => "absent" \in seen[d] \/ (d \in Tables /\ state[d] = "function")

\* What was read of an inventory was true; the probes come when all have been read.
InventoryInv ==
    /\ inventory \in [Resolution!Deps -> AllViews]
    /\ \A d \in Resolution!Deps : inventory[d] # "unread" => ViewIsTrue(d, inventory[d])
    /\ step = "probe" => \A d \in Resolution!Considered : inventory[d] # "unread"

ProbeOutcomes == {"unread", "incomplete", "unavailable", "assessed", "unsupported"}

\* What assesses a dependency has seen it readable, and the proof of the alias the right
\* workspace.
ProbeInv ==
    /\ probe \in [Resolution!Deps -> ProbeOutcomes]
    /\ \A d \in Resolution!Deps : /\ probe[d] = "assessed" => "ok" \in seen[d]
                                  /\ probe[d] = "unsupported" => d \in Parsers
    /\ alias = "assessed" => \A d \in inputs \cap Remotes : state[d] # "elsewhere"

\* Once there is a verdict it is true.
VerdictInv ==
    /\ step # "done" => verdict = Resolution!NoVerdict
    /\ verdict.sources \subseteq Resolution!Considered
    /\ Resolution!VerdictIsTrue

ResolutionInv == WorkspacesInv /\ InventoryInv /\ ProbeInv /\ VerdictInv

\* One lemma for the initial states and one for each step of the scan.
LEMMA ResolutionStarts ==
    ASSUME BackendsAssumption, Resolution!WorldInit \/ NoRule, Resolution!ScanInit
    PROVE  ResolutionInv
<1> USE DEF BackendsAssumption, Resolution!SentinelResolutionAssumption
<1>1. \A d \in Resolution!Deps : "ok" \in Resolution!States(d)
  BY DEF Resolution!States, Resolution!Deps
<1>2. ASSUME Resolution!WorldInit  PROVE WorkspacesInv
  <2>1. inputs \in SUBSET Resolution!Deps
    BY <1>2 DEF Resolution!WorldInit
  <2>2. /\ state \in [Resolution!Deps -> Conditions]
        /\ \A d \in Resolution!Deps : state[d] \in Resolution!States(d)
    BY <1>1, <1>2 DEF Resolution!WorldInit, Conditions
  <2>3. \A d, e \in inputs \cap Remotes : state[d] \in {"elsewhere", "unmapped"} => state[e] = state[d]
    BY <1>2 DEF Resolution!WorldInit
  <2>4. seen = [d \in Resolution!Deps |-> {state[d]}]
    BY DEF Resolution!ScanInit
  <2> QED  BY <2>1, <2>2, <2>3, <2>4 DEF WorkspacesInv
<1>3. ASSUME NoRule  PROVE WorkspacesInv
  <2>1. inputs = {} /\ state = [d \in Resolution!Deps |-> "ok"]
    BY <1>3 DEF NoRule
  <2>2. state \in [Resolution!Deps -> Conditions]
    BY <1>1, <2>1 DEF Conditions
  <2>3. seen = [d \in Resolution!Deps |-> {state[d]}]
    BY DEF Resolution!ScanInit
  <2> QED  BY <1>1, <2>1, <2>2, <2>3 DEF WorkspacesInv
<1>4. InventoryInv
  BY DEF Resolution!ScanInit, Resolution!Unread, InventoryInv, AllViews
<1>5. ProbeInv
  BY DEF Resolution!ScanInit, Resolution!Unread, ProbeInv, ProbeOutcomes
<1>6. VerdictInv
  BY DEF Resolution!ScanInit, Resolution!NoVerdict, VerdictInv, Resolution!VerdictIsTrue,
         Resolution!ResolvedIsTrue, Resolution!RefusalIsTrue, Resolution!ReadyIsTrue
<1> QED  BY <1>2, <1>3, <1>4, <1>5, <1>6 DEF ResolutionInv

\* The workspaces change under the scan: what has been seen stays seen, and neither where a
\* name leads nor what is a function changes.
LEMMA ChangeGrows ==
    ASSUME ResolutionInv, NEW d \in Resolution!Deps, NEW s \in Resolution!States(d),
           Resolution!Change(d, s)
    PROVE  /\ \A e \in Resolution!Deps : seen[e] \subseteq seen'[e]
           /\ \A e \in Resolution!Deps : \A x \in {"function", "elsewhere", "unmapped"} :
                 (state'[e] = x) = (state[e] = x)
           /\ Resolution!Considered' = Resolution!Considered
           /\ WorkspacesInv'
<1> USE DEF ResolutionInv, WorkspacesInv
<1>1. /\ state' = [state EXCEPT ![d] = s] /\ seen' = [seen EXCEPT ![d] = @ \cup {s}]
      /\ inputs' = inputs /\ functions' = functions
      /\ state[d] \notin {"function", "elsewhere", "unmapped"}
      /\ s \notin {"function", "elsewhere", "unmapped"} /\ s \in Conditions
  BY DEF Resolution!Change, Resolution!Changing, Resolution!scanVars, Conditions
<1>2. \A e \in Resolution!Deps : seen[e] \subseteq seen'[e]
  BY <1>1
<1>3. \A e \in Resolution!Deps : state'[e] = IF e = d THEN s ELSE state[e]
  BY <1>1
<1>4. \A e \in Resolution!Deps : \A x \in {"function", "elsewhere", "unmapped"} :
         (state'[e] = x) = (state[e] = x)
  BY <1>1, <1>3
<1>5. Resolution!Considered' = Resolution!Considered
  BY <1>1, <1>4 DEF Resolution!Considered
<1>6. \A e \in Resolution!Deps : state'[e] \in Resolution!States(e) /\ state'[e] \in seen'[e]
  BY <1>1, <1>3
<1>7. \A c, e \in inputs \cap Remotes : state'[c] \in {"elsewhere", "unmapped"} => state'[e] = state'[c]
  BY <1>4
<1>8. state' \in [Resolution!Deps -> Conditions] /\ seen' \in [Resolution!Deps -> SUBSET Conditions]
  BY <1>1
<1> QED  BY <1>1, <1>2, <1>4, <1>5, <1>6, <1>7, <1>8

\* A verdict that is true stays true as more is seen.
LEMMA VerdictStands ==
    ASSUME Resolution!VerdictIsTrue, verdict' = verdict, setting' = setting, optional' = optional,
           \A e \in Resolution!Deps : seen[e] \subseteq seen'[e],
           Resolution!Considered' = Resolution!Considered, Resolution!Considered \subseteq Resolution!Deps,
           verdict.sources \subseteq Resolution!Considered
    PROVE  Resolution!VerdictIsTrue'
<1>1. Resolution!ResolvedIsTrue'
  BY DEF Resolution!VerdictIsTrue, Resolution!ResolvedIsTrue
<1>2. Resolution!RefusalIsTrue'
  BY DEF Resolution!VerdictIsTrue, Resolution!RefusalIsTrue
<1>3. Resolution!ReadyIsTrue'
  BY DEF Resolution!VerdictIsTrue, Resolution!ReadyIsTrue
<1> QED  BY <1>1, <1>2, <1>3 DEF Resolution!VerdictIsTrue

LEMMA ChangeKeeps ==
    ASSUME ResolutionInv, NEW d \in Resolution!Deps, NEW s \in Resolution!States(d),
           Resolution!Change(d, s)
    PROVE  ResolutionInv'
<1>1. /\ \A e \in Resolution!Deps : seen[e] \subseteq seen'[e]
      /\ \A e \in Resolution!Deps : \A x \in {"function", "elsewhere", "unmapped"} :
            (state'[e] = x) = (state[e] = x)
      /\ Resolution!Considered' = Resolution!Considered
      /\ WorkspacesInv'
  BY ChangeGrows
<1>2. /\ inputs' = inputs /\ optional' = optional /\ setting' = setting /\ step' = step
      /\ functions' = functions /\ inventory' = inventory /\ alias' = alias /\ probe' = probe
      /\ verdict' = verdict
  BY DEF Resolution!Change, Resolution!scanVars
<1>3. InventoryInv'
  <2>1. \A e \in Resolution!Deps : ViewIsTrue(e, inventory[e]) => ViewIsTrue(e, inventory[e])'
    BY <1>1, <1>2 DEF ViewIsTrue, KnownViews
  <2> QED  BY <1>1, <1>2, <2>1 DEF ResolutionInv, InventoryInv
<1>4. ProbeInv'
  BY <1>1, <1>2 DEF ResolutionInv, ProbeInv, WorkspacesInv
<1>5. VerdictInv'
  <2>1. Resolution!Considered \subseteq Resolution!Deps
    BY DEF Resolution!Considered, ResolutionInv, WorkspacesInv
  <2>2. verdict.sources \subseteq Resolution!Considered
    BY DEF ResolutionInv, VerdictInv
  <2> QED  BY <1>1, <1>2, <2>1, <2>2, VerdictStands DEF ResolutionInv, VerdictInv, Resolution!NoVerdict
<1> QED  BY <1>1, <1>3, <1>4, <1>5 DEF ResolutionInv

\* A scan begins: nothing has been read yet, and there is no verdict.
LEMMA RefreshKeeps ==
    ASSUME ResolutionInv, Resolution!Refresh
    PROVE  ResolutionInv'
<1> USE DEF Resolution!Refresh, Resolution!worldVars
<1>1. WorkspacesInv'
  <2>1. seen' = [d \in Resolution!Deps |-> {state[d]}]
    OBVIOUS
  <2> QED  BY <2>1 DEF ResolutionInv, WorkspacesInv
<1>2. InventoryInv'
  BY DEF InventoryInv, Resolution!Unread, AllViews
<1>3. ProbeInv'
  BY DEF ProbeInv, Resolution!Unread, ProbeOutcomes
<1>4. VerdictInv'
  BY DEF VerdictInv, Resolution!NoVerdict, Resolution!VerdictIsTrue, Resolution!ResolvedIsTrue,
         Resolution!RefusalIsTrue, Resolution!ReadyIsTrue
<1> QED  BY <1>1, <1>2, <1>3, <1>4 DEF ResolutionInv

\* The functions, the end of the inventories, and giving up: nothing is seen of a dependency.
LEMMA ReadFunctionsKeeps ==
    ASSUME ResolutionInv, Resolution!ReadFunctions
    PROVE  ResolutionInv'
<1> USE DEF Resolution!ReadFunctions, Resolution!worldVars
<1>1. WorkspacesInv'
  BY DEF ResolutionInv, WorkspacesInv
<1>2. InventoryInv'
  BY DEF ResolutionInv, InventoryInv, ViewIsTrue
<1>3. ProbeInv'
  BY DEF ResolutionInv, ProbeInv
<1>4. VerdictInv'
  BY DEF ResolutionInv, VerdictInv, Resolution!NoVerdict, Resolution!VerdictIsTrue,
         Resolution!ResolvedIsTrue, Resolution!RefusalIsTrue, Resolution!ReadyIsTrue
<1> QED  BY <1>1, <1>2, <1>3, <1>4 DEF ResolutionInv

LEMMA InventoriesReadKeeps ==
    ASSUME ResolutionInv, Resolution!InventoriesRead
    PROVE  ResolutionInv'
<1> USE DEF Resolution!InventoriesRead, Resolution!worldVars
<1>1. WorkspacesInv'
  BY DEF ResolutionInv, WorkspacesInv
<1>2. InventoryInv'
  BY DEF ResolutionInv, InventoryInv, ViewIsTrue, Resolution!Considered
<1>3. ProbeInv'
  BY DEF ResolutionInv, ProbeInv
<1>4. VerdictInv'
  BY DEF ResolutionInv, VerdictInv, Resolution!NoVerdict, Resolution!VerdictIsTrue,
         Resolution!ResolvedIsTrue, Resolution!RefusalIsTrue, Resolution!ReadyIsTrue
<1> QED  BY <1>1, <1>2, <1>3, <1>4 DEF ResolutionInv

LEMMA GiveUpKeeps ==
    ASSUME ResolutionInv, Resolution!GiveUp
    PROVE  ResolutionInv'
<1> USE DEF Resolution!GiveUp, Resolution!worldVars
<1>1. WorkspacesInv'
  BY DEF ResolutionInv, WorkspacesInv
<1>2. InventoryInv'
  BY DEF ResolutionInv, InventoryInv, ViewIsTrue
<1>3. ProbeInv'
  BY DEF ResolutionInv, ProbeInv
<1>4. VerdictInv'
  BY DEF VerdictInv, Resolution!NoVerdict, Resolution!VerdictIsTrue,
         Resolution!ResolvedIsTrue, Resolution!RefusalIsTrue, Resolution!ReadyIsTrue
<1> QED  BY <1>1, <1>2, <1>3, <1>4 DEF ResolutionInv

\* What an inventory says of a dependency is true as it is read.
LEMMA ViewsAreTrue ==
    ASSUME Resolution!SentinelResolutionAssumption, WorkspacesInv, NEW d \in Resolution!Deps,
           NEW view \in Resolution!Views(d)
    PROVE  view \in AllViews /\ ViewIsTrue(d, view)
<1> USE DEF ViewIsTrue, KnownViews, AllViews, Resolution!SentinelResolutionAssumption, WorkspacesInv
<1>0. state[d] \in Resolution!States(d) /\ state[d] \in seen[d]
  OBVIOUS
<1>1. CASE d \in Tables
  <2>1. state[d] \in {"ok", "denied", "absent", "basic", "provisioning", "function"}
    BY <1>0, <1>1 DEF Resolution!States
  <2>2. view \in Resolution!TableView(d)
    BY <1>1 DEF Resolution!Views
  <2> QED  BY <1>0, <1>1, <2>1, <2>2 DEF Resolution!TableView
<1>2. CASE d \in Remotes
  <2>1. state[d] \in {"ok", "denied", "absent", "basic", "provisioning", "elsewhere", "unmapped"}
    BY <1>0, <1>2 DEF Resolution!States
  <2>2. view \in Resolution!RemoteView(d) /\ d \notin Tables
    BY <1>2 DEF Resolution!Views
  <2> QED  BY <1>0, <1>2, <2>1, <2>2 DEF Resolution!RemoteView
<1>3. CASE d \in Watchlists
  <2>1. state[d] \in {"ok", "denied", "absent", "provisioning"}
    BY <1>0, <1>3 DEF Resolution!States
  <2>2. view \in Resolution!WatchlistView(d) /\ d \notin Tables \cup Remotes
    BY <1>3 DEF Resolution!Views
  <2> QED  BY <1>0, <1>3, <2>1, <2>2 DEF Resolution!WatchlistView
<1>4. CASE d \in Parsers
  <2>1. view = "listed" /\ d \notin Tables \cup Remotes \cup Watchlists
    BY <1>4 DEF Resolution!Views
  <2> QED  BY <2>1
<1> QED  BY <1>1, <1>2, <1>3, <1>4 DEF Resolution!Deps

LEMMA ReadInventoryKeeps ==
    ASSUME Resolution!SentinelResolutionAssumption, ResolutionInv,
           NEW d \in Resolution!Deps, Resolution!ReadInventory(d)
    PROVE  ResolutionInv'
<1>1. PICK view \in Resolution!Views(d) : inventory' = [inventory EXCEPT ![d] = view]
  BY DEF Resolution!ReadInventory
<1>2. /\ UNCHANGED <<inputs, optional, state, setting, step, functions, alias, probe, verdict, seen>>
      /\ step = "inventory"
  BY DEF Resolution!ReadInventory, Resolution!worldVars
<1>3. WorkspacesInv'
  BY <1>2 DEF ResolutionInv, WorkspacesInv
<1>4. InventoryInv'
  <2>1. view \in AllViews /\ ViewIsTrue(d, view)
    BY ViewsAreTrue DEF ResolutionInv
  <2>2. \A e \in Resolution!Deps, v \in AllViews : ViewIsTrue(e, v)' = ViewIsTrue(e, v)
    BY <1>2 DEF ViewIsTrue, KnownViews
  <2> QED  BY <1>1, <1>2, <2>1, <2>2 DEF ResolutionInv, InventoryInv
<1>5. ProbeInv'
  BY <1>2 DEF ResolutionInv, ProbeInv
<1>6. VerdictInv'
  BY <1>2 DEF ResolutionInv, VerdictInv, Resolution!NoVerdict, Resolution!VerdictIsTrue,
         Resolution!ResolvedIsTrue, Resolution!RefusalIsTrue, Resolution!ReadyIsTrue
<1> QED  BY <1>3, <1>4, <1>5, <1>6 DEF ResolutionInv

\* The name of a workspace counts as proven only if it leads there.
LEMMA ProveAliasKeeps ==
    ASSUME ResolutionInv, NEW d \in Resolution!Deps, Resolution!ProveAlias(d)
    PROVE  ResolutionInv'
<1>1. /\ UNCHANGED <<inputs, optional, state, setting, step, functions, inventory, verdict, seen>>
      /\ step = "inventory" /\ d \in inputs \cap Remotes
  BY DEF Resolution!ProveAlias, Resolution!worldVars, Resolution!Considered
<1>2. alias' = "assessed" => state[d] # "elsewhere"
  <2>1. CASE state[d] = "ok"
    BY <2>1
  <2>2. CASE alias' \in Resolution!RemoteProbe[state[d] # "elsewhere"]
    BY <2>2, ProbeIsHonest
  <2> QED  BY <2>1, <2>2 DEF Resolution!ProveAlias
<1>3. probe' = probe \/ (state[d] = "ok" /\ probe' = [probe EXCEPT ![d] = "assessed"])
  BY DEF Resolution!ProveAlias
<1>4. WorkspacesInv'
  BY <1>1 DEF ResolutionInv, WorkspacesInv
<1>5. InventoryInv'
  BY <1>1 DEF ResolutionInv, InventoryInv, ViewIsTrue
<1>6. ProbeInv'
  BY <1>1, <1>2, <1>3 DEF ResolutionInv, ProbeInv, WorkspacesInv, ProbeOutcomes
<1>7. VerdictInv'
  BY <1>1 DEF ResolutionInv, VerdictInv, Resolution!NoVerdict, Resolution!VerdictIsTrue,
         Resolution!ResolvedIsTrue, Resolution!RefusalIsTrue, Resolution!ReadyIsTrue
<1> QED  BY <1>4, <1>5, <1>6, <1>7 DEF ResolutionInv

LEMMA ProbeKeeps ==
    ASSUME Resolution!SentinelResolutionAssumption, ResolutionInv,
           NEW d \in Resolution!Deps, Resolution!Probe(d)
    PROVE  ResolutionInv'
<1>1. PICK p \in Resolution!Probes(d) : probe' = [probe EXCEPT ![d] = p]
  BY DEF Resolution!Probe
<1>2. /\ UNCHANGED <<inputs, optional, state, setting, step, functions, inventory, alias, verdict, seen>>
      /\ step = "probe" /\ d \in inputs
      /\ d \in Remotes => alias = "assessed"
  BY DEF Resolution!Probe, Resolution!worldVars, Resolution!Considered, Resolution!Askable
<1>3. /\ p \in {"incomplete", "unavailable", "assessed", "unsupported"}
      /\ p = "assessed" => state[d] = "ok"
      /\ p = "unsupported" => d \in Parsers
  <2>1. d \in Remotes => state[d] # "elsewhere"
    BY <1>2 DEF ResolutionInv, ProbeInv
  <2> QED  BY <2>1, ProbesAreTrue
<1>4. WorkspacesInv'
  BY <1>2 DEF ResolutionInv, WorkspacesInv
<1>5. InventoryInv'
  BY <1>2 DEF ResolutionInv, InventoryInv, ViewIsTrue, Resolution!Considered
<1>6. ProbeInv'
  BY <1>1, <1>2, <1>3 DEF ResolutionInv, ProbeInv, WorkspacesInv, ProbeOutcomes
<1>7. VerdictInv'
  BY <1>2 DEF ResolutionInv, VerdictInv, Resolution!NoVerdict, Resolution!VerdictIsTrue,
         Resolution!ResolvedIsTrue, Resolution!RefusalIsTrue, Resolution!ReadyIsTrue
<1> QED  BY <1>4, <1>5, <1>6, <1>7 DEF ResolutionInv

-----------------------------------------------------------------------------
(* What follows from the outcomes of the dependencies *)

\* Of a dependency that was looked at: an outcome for it holds of how it has been, and one
\* against it too.
LEMMA OutcomesAreTrue ==
    ASSUME Resolution!SentinelResolutionAssumption, ResolutionInv, step = "probe",
           NEW d \in Resolution!Considered
    PROVE  /\ Resolution!Outcome(d) \in
                 {"remote", "unavailable", "empty", "incompatible", "resolved", "unsupported"}
           /\ Resolution!Outcome(d) = "resolved" => "ok" \in seen[d]
           /\ Resolution!Outcome(d) = "empty" => "absent" \in seen[d]
           /\ Resolution!Outcome(d) = "incompatible" => "basic" \in seen[d]
           /\ d \in Remotes /\ Resolution!Outcome(d) \in {"resolved", "empty"} => Resolution!Reaches
<1>0. d \in Resolution!Deps /\ ~(functions /\ state[d] = "function")
  BY Zenon DEF Resolution!Considered, ResolutionInv, WorkspacesInv
<1>1. /\ inventory[d] # "unread" /\ inventory[d] \in AllViews /\ ViewIsTrue(d, inventory[d])
      /\ probe[d] = "assessed" => "ok" \in seen[d]
  <2>1. inventory[d] # "unread"
    BY Zenon DEF ResolutionInv, InventoryInv
  <2>2. inventory[d] \in AllViews
    BY <1>0 DEF ResolutionInv, InventoryInv
  <2>3. ViewIsTrue(d, inventory[d])
    BY <1>0, <2>1, Zenon DEF ResolutionInv, InventoryInv
  <2>4. probe[d] = "assessed" => "ok" \in seen[d]
    BY <1>0 DEF ResolutionInv, ProbeInv
  <2> QED  BY <2>1, <2>2, <2>3, <2>4
<1>2. CASE inventory[d] = "unmapped"
  <2>1. Resolution!Outcome(d) = "remote"
    BY <1>2 DEF Resolution!Outcome
  <2> QED  BY <2>1
<1>3. CASE inventory[d] \in {"failed", "provisioning"}
  <2>1. Resolution!Outcome(d) = "unavailable"
    BY <1>3 DEF Resolution!Outcome
  <2> QED  BY <2>1
<1>4. CASE inventory[d] \in {"absent", "basic", "listed"}
  <2>1. Resolution!Outcome(d) =
           IF d \in Remotes /\ alias # "assessed" THEN "unavailable"
           ELSE IF inventory[d] = "absent"
                THEN IF d \in Tables /\ ~functions THEN "unavailable" ELSE "empty"
           ELSE IF inventory[d] = "basic" THEN "incompatible"
           ELSE IF probe[d] = "assessed" THEN "resolved"
           ELSE IF probe[d] = "unsupported" THEN "unsupported" ELSE "unavailable"
    BY <1>4 DEF Resolution!Outcome
  <2>2. Resolution!Outcome(d) = "empty" => "absent" \in seen[d]
    BY <1>0, <1>1, <2>1 DEF ViewIsTrue
  <2>3. Resolution!Outcome(d) = "incompatible" => "basic" \in seen[d]
    BY <1>1, <1>4, <2>1 DEF ViewIsTrue
  <2>4. d \in Remotes /\ Resolution!Outcome(d) \in {"resolved", "empty"} => Resolution!Reaches
    BY <1>4, <2>1 DEF Resolution!Reaches
  <2> QED  BY <1>1, <2>1, <2>2, <2>3, <2>4
<1> QED  BY <1>1, <1>2, <1>3, <1>4 DEF AllViews

\* An caller has no outcome but these.
LEMMA IdentitiesAreTrue ==
    ASSUME NEW caller \in Resolution!IdentityOutcomes
    PROVE  /\ caller \in {"none", "unavailable", "resolved"}
           /\ Resolution!Reaches /\ setting.foreign /\ caller # "unavailable" =>
                 setting.installed /\ setting.lastRun = "success"
BY DEF Resolution!IdentityOutcomes, Resolution!HealthOutcomes, Resolution!HealthAsked, Resolution!RunProves

\* aggregateRuleResolution resolves a rule only if no outcome is left that speaks against it.
LEMMA ResolvedHolds ==
    ASSUME Resolution!SentinelResolutionAssumption, ResolutionInv, step = "probe",
           NEW caller \in Resolution!IdentityOutcomes,
           "resolved" \in Resolution!Aggregate(caller)
    PROVE  /\ \A d \in Resolution!Considered \ optional : Resolution!Outcome(d) = "resolved"
           /\ \A d \in Resolution!Considered : Resolution!Outcome(d) \in {"resolved", "empty"}
           /\ Resolution!ResolvedSources # {}
           /\ caller # "unavailable"
<1> DEFINE all == {Resolution!Outcome(d) : d \in Resolution!Considered} \cup ({caller} \ {"none"})
           missing == {Resolution!Outcome(d) : d \in Resolution!Considered \ optional} \ {"resolved"}
<1>1. "resolved" \in
         (IF all = {} THEN {"unsupported"}
          ELSE IF all \cap Resolution!Uncertain # {} THEN all \cap Resolution!Uncertain
          ELSE IF missing # {} THEN missing
          ELSE IF "incompatible" \in all THEN {"incompatible"}
          ELSE IF Resolution!ResolvedSources # {} THEN {"resolved"}
          ELSE IF "resolved" \in all THEN {"unsupported"}
          ELSE {"empty"})
  BY DEF Resolution!Aggregate
<1>2. "resolved" \notin Resolution!Uncertain /\ "resolved" \notin missing
  BY DEF Resolution!Uncertain
<1> HIDE DEF all, missing
<1>3. /\ all \cap Resolution!Uncertain = {} /\ missing = {} /\ "incompatible" \notin all
      /\ Resolution!ResolvedSources # {}
  BY <1>1, <1>2, Zenon
<1>4. \A d \in Resolution!Considered \ optional : Resolution!Outcome(d) = "resolved"
  BY <1>3 DEF missing
<1>5. \A d \in Resolution!Considered : Resolution!Outcome(d) \in {"resolved", "empty"}
  <2> SUFFICES ASSUME NEW d \in Resolution!Considered
               PROVE  Resolution!Outcome(d) \in {"resolved", "empty"}
    OBVIOUS
  <2>1. Resolution!Outcome(d) \in all
    BY DEF all
  <2> QED  BY <1>3, <2>1, OutcomesAreTrue DEF Resolution!Uncertain
<1>6. caller # "unavailable"
  BY <1>3 DEF all, Resolution!Uncertain
<1> QED  BY <1>3, <1>4, <1>5, <1>6

\* And it reports one as empty or as incompatible only if an input is.
LEMMA RefusalHolds ==
    ASSUME Resolution!SentinelResolutionAssumption, ResolutionInv, step = "probe",
           NEW caller \in Resolution!IdentityOutcomes,
           NEW status \in Resolution!Aggregate(caller), status \in {"empty", "incompatible"}
    PROVE  \E d \in Resolution!Considered : Resolution!Outcome(d) = status
<1> DEFINE all == {Resolution!Outcome(d) : d \in Resolution!Considered} \cup ({caller} \ {"none"})
           missing == {Resolution!Outcome(d) : d \in Resolution!Considered \ optional} \ {"resolved"}
<1>1. status \in
         (IF all = {} THEN {"unsupported"}
          ELSE IF all \cap Resolution!Uncertain # {} THEN all \cap Resolution!Uncertain
          ELSE IF missing # {} THEN missing
          ELSE IF "incompatible" \in all THEN {"incompatible"}
          ELSE IF Resolution!ResolvedSources # {} THEN {"resolved"}
          ELSE IF "resolved" \in all THEN {"unsupported"}
          ELSE {"empty"})
  BY DEF Resolution!Aggregate
<1>2. caller \in {"none", "unavailable", "resolved"}
  BY IdentitiesAreTrue
<1>3. status \notin Resolution!Uncertain
  BY DEF Resolution!Uncertain
<1>4. CASE status \in missing
  BY <1>4
<1>5. CASE status = "incompatible" /\ "incompatible" \in all
  BY <1>2, <1>5
<1>6. CASE /\ status = "empty" /\ all # {} /\ all \cap Resolution!Uncertain = {}
           /\ "incompatible" \notin all /\ "resolved" \notin all
  <2>1. PICK x \in all : TRUE
    BY <1>6
  <2>2. x \notin {"unavailable", "resolved"}
    BY <1>6, <2>1 DEF Resolution!Uncertain
  <2>3. PICK d \in Resolution!Considered : x = Resolution!Outcome(d)
    BY <1>2, <2>1, <2>2
  <2>4. x = "empty"
    BY <1>6, <2>1, <2>3, OutcomesAreTrue DEF Resolution!Uncertain
  <2> QED  BY <1>6, <2>3, <2>4
<1> HIDE DEF all, missing
<1> QED  BY <1>1, <1>3, <1>4, <1>5, <1>6

\* A scan concludes: what was looked at cannot have been otherwise throughout.
LEMMA ResolveIsTrue ==
    ASSUME Resolution!SentinelResolutionAssumption, ResolutionInv, Resolution!Resolve
    PROVE  Resolution!VerdictIsTrue' /\ verdict'.sources \subseteq Resolution!Considered'
<1>1. PICK status \in Resolution!Resolutions :
         verdict' = [status |-> status,
                     sources |-> IF status = "resolved" THEN Resolution!ResolvedSources ELSE {}]
  BY DEF Resolution!Resolve
<1>2. /\ UNCHANGED <<inputs, optional, state, setting, functions, inventory, alias, probe, seen>>
      /\ step = "probe"
  BY DEF Resolution!Resolve, Resolution!Answered, Resolution!worldVars
<1>3. Resolution!Considered' = Resolution!Considered
  BY <1>2 DEF Resolution!Considered
<1>4. verdict'.sources \subseteq Resolution!Considered'
  BY <1>1, <1>3 DEF Resolution!ResolvedSources
<1>5. \/ /\ Resolution!Reaches /\ setting.far /\ status \in {"incompatible", "unavailable"}
      \/ /\ ~(Resolution!Reaches /\ setting.far)
         /\ \/ \E caller \in Resolution!IdentityOutcomes : status \in Resolution!Aggregate(caller)
            \/ status = "unavailable"
  BY <1>1 DEF Resolution!Resolutions
<1>6. Resolution!ResolvedIsTrue'
  <2> SUFFICES ASSUME status = "resolved"
               PROVE  /\ \A d \in Resolution!Considered \ optional : "ok" \in seen[d]
                      /\ \A d \in Resolution!Considered : seen[d] \cap {"ok", "absent"} # {}
                      /\ Resolution!ResolvedSources # {}
                      /\ \A d \in Resolution!ResolvedSources : "ok" \in seen[d]
                      /\ Resolution!Considered \cap Remotes # {} =>
                            ~setting.far /\ (setting.foreign => setting.installed /\ setting.lastRun = "success")
    BY <1>1, <1>2, <1>3 DEF Resolution!ResolvedIsTrue
  <2>1. PICK caller \in Resolution!IdentityOutcomes : "resolved" \in Resolution!Aggregate(caller)
    BY <1>5
  <2>2. ~(Resolution!Reaches /\ setting.far)
    BY <1>5
  <2>3. /\ \A d \in Resolution!Considered \ optional : Resolution!Outcome(d) = "resolved"
        /\ \A d \in Resolution!Considered : Resolution!Outcome(d) \in {"resolved", "empty"}
        /\ Resolution!ResolvedSources # {}
        /\ caller # "unavailable"
    BY <1>2, <2>1, ResolvedHolds
  <2>4. \A d \in Resolution!Considered :
           /\ Resolution!Outcome(d) = "resolved" => "ok" \in seen[d]
           /\ Resolution!Outcome(d) = "empty" => "absent" \in seen[d]
    BY <1>2, OutcomesAreTrue
  <2>5. \A d \in Resolution!Considered : seen[d] \cap {"ok", "absent"} # {}
    BY <2>3, <2>4
  <2>6. \A d \in Resolution!ResolvedSources : "ok" \in seen[d]
    BY <2>4 DEF Resolution!ResolvedSources
  <2>7. ASSUME NEW d \in Resolution!Considered \cap Remotes
        PROVE  ~setting.far /\ (setting.foreign => setting.installed /\ setting.lastRun = "success")
    <3>1. Resolution!Reaches
      BY <1>2, <2>3, OutcomesAreTrue
    <3> QED  BY <2>2, <2>3, <3>1, IdentitiesAreTrue
  <2> QED  BY <2>3, <2>4, <2>5, <2>6, <2>7
<1>7. Resolution!RefusalIsTrue'
  <2> SUFFICES /\ status = "empty" => \E d \in Resolution!Considered : "absent" \in seen[d]
               /\ status = "incompatible" =>
                     setting.far \/ \E d \in Resolution!Considered : "basic" \in seen[d]
    BY <1>1, <1>2, <1>3 DEF Resolution!RefusalIsTrue
  <2>1. ASSUME status \in {"empty", "incompatible"}, ~setting.far \/ status = "empty"
        PROVE  \E d \in Resolution!Considered : Resolution!Outcome(d) = status
    BY <1>2, <1>5, <2>1, RefusalHolds
  <2> QED  BY <1>2, <2>1, OutcomesAreTrue
<1>8. Resolution!ReadyIsTrue'
  <2>1. status # "ready"
    <3>1. ASSUME NEW caller \in Resolution!IdentityOutcomes, status \in Resolution!Aggregate(caller)
          PROVE  status # "ready"
      <4>1. caller # "ready"
        BY IdentitiesAreTrue
      <4>2. \A d \in Resolution!Considered : Resolution!Outcome(d) # "ready"
        BY <1>2, OutcomesAreTrue
      <4> QED  BY <3>1, <4>1, <4>2 DEF Resolution!Aggregate, Resolution!Uncertain
    <3> QED  BY <1>5, <3>1
  <2> QED  BY <1>1, <2>1 DEF Resolution!ReadyIsTrue
<1> QED  BY <1>4, <1>6, <1>7, <1>8 DEF Resolution!VerdictIsTrue

\* The connection check: a workspace is ready if every query was answered with evidence, and
\* what no query was sent to is known not to be closed.
LEMMA ReadinessIsTrue ==
    ASSUME Resolution!SentinelResolutionAssumption, ResolutionInv, Resolution!CheckReadiness
    PROVE  Resolution!VerdictIsTrue' /\ verdict'.sources \subseteq Resolution!Considered'
<1>1. /\ verdict' = [status |-> Resolution!Readiness, sources |-> {}]
      /\ UNCHANGED <<inputs, optional, state, setting, functions, inventory, alias, probe, seen>>
      /\ step = "probe"
  BY DEF Resolution!CheckReadiness, Resolution!Answered, Resolution!worldVars
<1>2. Resolution!Considered' = Resolution!Considered
  BY <1>1 DEF Resolution!Considered
<1>3. Resolution!Readiness \in {"unavailable", "limited", "ready"}
  BY DEF Resolution!Readiness
<1>4. Resolution!ResolvedIsTrue' /\ Resolution!RefusalIsTrue'
  BY <1>1, <1>3 DEF Resolution!ResolvedIsTrue, Resolution!RefusalIsTrue
<1>5. ASSUME Resolution!Readiness = "ready"
      PROVE  /\ \E d \in Resolution!Considered : "ok" \in seen[d]
             /\ \A d \in Resolution!Considered : ~(seen[d] \subseteq {"denied", "elsewhere", "broken"})
  <2>1. /\ ~Resolution!Blocked /\ \A d \in Resolution!Targets : probe[d] = "assessed"
        /\ \A d \in Resolution!Considered \cap Parsers : Resolution!Outcome(d) # "unsupported"
        /\ \/ Resolution!Targets # {}
           \/ \E d \in Resolution!Considered \ (Tables \cup Remotes) : Resolution!Askable(d)
    BY <1>5 DEF Resolution!Readiness
  <2>2. \A d \in Resolution!Considered :
           /\ d \in Resolution!Deps /\ inventory[d] # "unread"
           /\ state[d] \in seen[d]
           /\ ViewIsTrue(d, inventory[d])
           /\ probe[d] = "assessed" => "ok" \in seen[d]
           /\ probe[d] = "unsupported" => d \in Parsers
    BY <1>1 DEF ResolutionInv, WorkspacesInv, InventoryInv, ProbeInv, Resolution!Considered
  <2>3. \A d \in Resolution!Targets : d \in Resolution!Considered /\ "ok" \in seen[d]
    BY <2>1, <2>2 DEF Resolution!Targets
  <2>4. ASSUME NEW d \in Resolution!Considered, d \in Watchlists \cup Parsers
        PROVE  /\ inventory[d] = "listed" => "ok" \in seen[d]
               /\ inventory[d] \in {"listed", "absent"}
               /\ inventory[d] = "absent" => "absent" \in seen[d]
    <3>1. d \notin Tables \cup Remotes
      BY <2>4 DEF Resolution!SentinelResolutionAssumption
    <3>2. Resolution!Outcome(d) # "unavailable"
      BY <2>1, <2>4 DEF Resolution!Blocked
    <3>3. inventory[d] \in {"failed", "listed", "absent", "provisioning"}
      BY <2>2, <3>1 DEF ViewIsTrue, KnownViews
    <3>4. inventory[d] \notin {"failed", "provisioning"}
      BY <3>2 DEF Resolution!Outcome
    <3>5. ASSUME inventory[d] = "listed"  PROVE "ok" \in seen[d]
      <4>1. Resolution!Outcome(d) = IF probe[d] = "assessed" THEN "resolved"
                                    ELSE IF probe[d] = "unsupported" THEN "unsupported" ELSE "unavailable"
        BY <3>1, <3>5 DEF Resolution!Outcome
      <4>2. probe[d] # "unsupported"
        BY <2>1, <2>2, <2>4, <4>1
      <4> QED  BY <2>2, <3>2, <4>1, <4>2
    <3>6. inventory[d] = "absent" => "absent" \in seen[d]
      BY <2>2, <3>1 DEF ViewIsTrue
    <3> QED  BY <3>3, <3>4, <3>5, <3>6
  <2>5. \E d \in Resolution!Considered : "ok" \in seen[d]
    <3>1. CASE Resolution!Targets # {}
      BY <2>3, <3>1
    <3>2. CASE \E d \in Resolution!Considered \ (Tables \cup Remotes) : Resolution!Askable(d)
      <4>1. PICK d \in Resolution!Considered \ (Tables \cup Remotes) : Resolution!Askable(d)
        BY <3>2
      <4>2. d \in Watchlists \cup Parsers /\ inventory[d] = "listed"
        BY <2>2, <4>1 DEF Resolution!Deps, Resolution!Askable
      <4> QED  BY <2>4, <4>1, <4>2
    <3> QED  BY <2>1, <3>1, <3>2
  <2>6. ASSUME NEW d \in Resolution!Considered
        PROVE  ~(seen[d] \subseteq {"denied", "elsewhere", "broken"})
    <3> DEFINE Open == {"ok", "absent", "basic", "provisioning", "unmapped", "function"}
    <3> SUFFICES \E x \in Open : x \in seen[d]
      OBVIOUS
    <3>1. CASE d \in Watchlists \cup Parsers
      BY <2>4, <3>1
    <3>2. CASE d \in Tables
      <4>1. inventory[d] = "listed" => d \in Resolution!Targets
        BY <3>2 DEF Resolution!Targets, Resolution!Askable, Resolution!SentinelResolutionAssumption
      <4> QED  BY <2>2, <2>3, <3>2, <4>1 DEF ViewIsTrue, KnownViews
    <3>3. CASE d \in Remotes
      <4>1. d \notin Tables
        BY <3>3 DEF Resolution!SentinelResolutionAssumption
      <4>2. inventory[d] # "failed" /\ (inventory[d] = "unmapped" \/ alias = "assessed")
        BY <2>1, <3>3 DEF Resolution!Blocked
      <4>3. inventory[d] = "listed" => d \in Resolution!Targets
        BY <3>3, <4>2 DEF Resolution!Targets, Resolution!Askable
      <4> QED  BY <2>2, <2>3, <3>3, <4>1, <4>2, <4>3 DEF ViewIsTrue, KnownViews
    <3> QED  BY <2>2, <3>1, <3>2, <3>3 DEF Resolution!Deps
  <2> QED  BY <2>5, <2>6
<1>6. Resolution!ReadyIsTrue'
  BY <1>1, <1>2, <1>5 DEF Resolution!ReadyIsTrue
<1> QED  BY <1>1, <1>4, <1>6 DEF Resolution!VerdictIsTrue

LEMMA ConclusionKeeps ==
    ASSUME Resolution!SentinelResolutionAssumption, ResolutionInv,
           Resolution!Resolve \/ Resolution!CheckReadiness
    PROVE  ResolutionInv'
<1>1. /\ UNCHANGED <<inputs, optional, state, setting, functions, inventory, alias, probe, seen>>
      /\ step' = "done"
  BY DEF Resolution!Resolve, Resolution!CheckReadiness, Resolution!worldVars
<1>2. WorkspacesInv'
  BY <1>1 DEF ResolutionInv, WorkspacesInv
<1>3. InventoryInv'
  BY <1>1 DEF ResolutionInv, InventoryInv, ViewIsTrue
<1>4. ProbeInv'
  BY <1>1 DEF ResolutionInv, ProbeInv
<1>5. VerdictInv'
  BY <1>1, ResolveIsTrue, ReadinessIsTrue DEF VerdictInv
<1> QED  BY <1>2, <1>3, <1>4, <1>5 DEF ResolutionInv

LEMMA ResolutionKeeps ==
    ASSUME BackendsAssumption, ResolutionInv, Resolution!ResolutionNext
    PROVE  ResolutionInv'
<1> Resolution!SentinelResolutionAssumption
  BY DEF BackendsAssumption
<1>1. ASSUME \/ Resolution!Refresh \/ Resolution!ReadFunctions \/ Resolution!InventoriesRead
             \/ Resolution!GiveUp \/ Resolution!Resolve \/ Resolution!CheckReadiness
      PROVE  ResolutionInv'
  BY <1>1, RefreshKeeps, ReadFunctionsKeeps, InventoriesReadKeeps, GiveUpKeeps, ConclusionKeeps
<1>2. ASSUME NEW d \in Resolution!Deps,
             Resolution!ReadInventory(d) \/ Resolution!ProveAlias(d) \/ Resolution!Probe(d)
      PROVE  ResolutionInv'
  BY <1>2, ReadInventoryKeeps, ProveAliasKeeps, ProbeKeeps
<1>3. ASSUME NEW d \in Resolution!Deps, NEW s \in Resolution!States(d), Resolution!Change(d, s)
      PROVE  ResolutionInv'
  BY <1>3, ChangeKeeps
<1> QED  BY <1>1, <1>2, <1>3 DEF Resolution!ResolutionNext

\* Another adapter's step leaves the scan of the workspaces alone.
LEMMA ResolutionStands ==
    ASSUME ResolutionInv, UNCHANGED resolutionVars
    PROVE  ResolutionInv'
<1>1. UNCHANGED <<inputs, optional, state, setting, step, functions, inventory, alias, probe, verdict, seen>>
  BY DEF resolutionVars
<1>2. WorkspacesInv'
  BY <1>1 DEF ResolutionInv, WorkspacesInv
<1>3. InventoryInv'
  BY <1>1 DEF ResolutionInv, InventoryInv, ViewIsTrue, Resolution!Considered
<1>4. ProbeInv'
  BY <1>1 DEF ResolutionInv, ProbeInv
<1>5. VerdictInv'
  <2>1. Resolution!Considered' = Resolution!Considered
    BY <1>1 DEF Resolution!Considered
  <2>2. Resolution!VerdictIsTrue'
    BY <1>1, <2>1 DEF ResolutionInv, VerdictInv, Resolution!VerdictIsTrue, Resolution!ResolvedIsTrue,
                      Resolution!RefusalIsTrue, Resolution!ReadyIsTrue
  <2> QED  BY <1>1, <2>1, <2>2 DEF ResolutionInv, VerdictInv
<1> QED  BY <1>2, <1>3, <1>4, <1>5 DEF ResolutionInv

\* Whatever a scan of a Sentinel workspace concludes about a rule's inputs is true of how they
\* have been since it began: permissions show only in what the answer to a query leaves out,
\* evidence may be missing anywhere, and the workspaces change while the scan looks.
THEOREM VerdictsAreTrue == Spec => []VerdictIsTrue
<1>1. Init => ResolutionInv
  BY BackendsAssumption, ResolutionStarts DEF Init
<1>2. ResolutionInv /\ [Next]_vars => ResolutionInv'
  <2> SUFFICES ASSUME ResolutionInv, [Next]_vars
               PROVE  ResolutionInv'
    OBVIOUS
  <2>1. CASE Resolution!ResolutionNext
    BY <2>1, BackendsAssumption, ResolutionKeeps
  <2>2. CASE UNCHANGED resolutionVars
    BY <2>2, ResolutionStands
  <2> QED  BY <2>1, <2>2 DEF Next, vars
<1>3. ResolutionInv => VerdictIsTrue
  BY DEF ResolutionInv, VerdictInv, VerdictIsTrue
<1> QED  BY <1>1, <1>2, <1>3, PTL DEF Spec

-----------------------------------------------------------------------------
(* The listing of the rules.  What is ahead of a listing are the rules on    *)
(* the pages it has not read: a rule can drop out of them only by a          *)
(* deletion, and one already read get back there only by a creation.         *)

\* Nothing is in q twice; what is in it; and what comes after its n-th element.
Distinct(q) == \A i, j \in DOMAIN q : i # j => q[i] # q[j]

Elements(q) == {q[i] : i \in DOMAIN q}

Ahead(q, n) == {q[i] : i \in {j \in DOMAIN q : j > n}}

\* Beginning and end of a sequence of length m, and what it is without its i-th element, and
\* with another one before that.
Begins(x, q, n) == Len(x) = n /\ \A j \in 1..n : x[j] = q[j]

Ends(x, q, n, m) == Len(x) = m - n /\ \A j \in 1..(m - n) : x[j] = q[n + j]

Without(x, q, i, m) ==
    Len(x) = m - 1 /\ \A j \in 1..(m - 1) : x[j] = IF j < i THEN q[j] ELSE q[j + 1]

With(x, q, i, m, r) ==
    Len(x) = m + 1 /\ \A j \in 1..(m + 1) : x[j] = IF j < i THEN q[j] ELSE IF j = i THEN r ELSE q[j - 1]

\* What a listing of n elements has ahead shrinks with the one, and grows with the other.
LEMMA Shortened ==
    ASSUME NEW q, NEW shorter, NEW m \in Nat, NEW i \in 1..m, NEW n \in Nat,
           DOMAIN q = 1..m, DOMAIN shorter = 1..(m - 1),
           Without(shorter, q, i, m)
    PROVE  /\ Distinct(q) => Distinct(shorter)
           /\ Ahead(shorter, n) \subseteq Ahead(q, n)
<1> USE DEF Without
<1>1. ASSUME Distinct(q)  PROVE Distinct(shorter)
  <2> SUFFICES ASSUME NEW j \in 1..(m - 1), NEW k \in 1..(m - 1), shorter[j] = shorter[k]
               PROVE  j = k
    BY DEF Distinct
  <2> DEFINE From(h) == IF h < i THEN h ELSE h + 1
  <2>1. From(j) \in 1..m /\ From(k) \in 1..m
    OBVIOUS
  <2>2. shorter[j] = q[From(j)] /\ shorter[k] = q[From(k)]
    OBVIOUS
  <2>3. From(j) = From(k)
    BY <1>1, <2>1, <2>2 DEF Distinct
  <2> QED  BY <2>3
<1>2. ASSUME NEW j \in 1..(m - 1), j > n  PROVE shorter[j] \in Ahead(q, n)
  <2>1. CASE j < i
    BY <1>2, <2>1 DEF Ahead
  <2>2. CASE j >= i
    <3>1. shorter[j] = q[j + 1] /\ j + 1 \in 1..m /\ j + 1 > n
      BY <1>2, <2>2
    <3> QED  BY <3>1 DEF Ahead
  <2> QED  BY <2>1, <2>2
<1>3. Ahead(shorter, n) \subseteq Ahead(q, n)
  BY <1>2 DEF Ahead
<1> QED  BY <1>1, <1>3

LEMMA Lengthened ==
    ASSUME NEW q, NEW longer, NEW m \in Nat, NEW i \in 1..(m + 1), NEW n \in Nat, NEW r,
           DOMAIN q = 1..m, DOMAIN longer = 1..(m + 1), \A j \in 1..m : q[j] # r,
           With(longer, q, i, m, r)
    PROVE  /\ Distinct(q) => Distinct(longer)
           /\ Ahead(q, n) \subseteq Ahead(longer, n)
<1> USE DEF With
<1>1. ASSUME Distinct(q)  PROVE Distinct(longer)
  <2> SUFFICES ASSUME NEW a \in 1..(m + 1), NEW b \in 1..(m + 1), a < b
               PROVE  longer[a] # longer[b]
    BY DEF Distinct
  <2>1. \A j, k \in 1..m : j # k => q[j] # q[k]
    BY <1>1 DEF Distinct
  <2>2. CASE b < i
    <3>1. a \in 1..m /\ b \in 1..m /\ a < i
      BY <2>2
    <3> QED  BY <2>1, <2>2, <3>1
  <2>3. CASE b = i
    <3>1. a \in 1..m /\ a < i
      BY <2>3
    <3> QED  BY <2>3, <3>1
  <2>4. CASE b > i /\ a = i
    <3>1. b - 1 \in 1..m
      BY <2>4
    <3> QED  BY <2>4, <3>1
  <2>5. CASE b > i /\ a < i
    <3>1. b - 1 \in 1..m /\ a \in 1..m /\ a # b - 1
      BY <2>5
    <3> QED  BY <2>1, <2>5, <3>1
  <2>6. CASE b > i /\ a > i
    <3>1. b - 1 \in 1..m /\ a - 1 \in 1..m /\ a - 1 # b - 1
      BY <2>6
    <3> QED  BY <2>1, <2>6, <3>1
  <2> QED  BY <2>2, <2>3, <2>4, <2>5, <2>6
<1>2. Ahead(q, n) \subseteq Ahead(longer, n)
  <2> SUFFICES ASSUME NEW j \in 1..m, j > n
               PROVE  q[j] \in Ahead(longer, n)
    BY DEF Ahead
  <2>1. CASE j < i
    <3>1. j \in 1..(m + 1) /\ longer[j] = q[j]
      BY <2>1
    <3> QED  BY <3>1 DEF Ahead
  <2>2. CASE j >= i
    <3>1. j + 1 \in 1..(m + 1) /\ longer[j + 1] = q[j] /\ j + 1 > n
      BY <2>2
    <3> QED  BY <3>1 DEF Ahead
  <2> QED  BY <2>1, <2>2
<1> QED  BY <1>1, <1>2

\* A part of a sequence.
LEMMA Part ==
    ASSUME NEW S, NEW q \in Seq(S), NEW i \in 1..(Len(q) + 1), NEW k \in (i - 1)..Len(q)
    PROVE  /\ SubSeq(q, i, k) \in Seq(S) /\ Len(SubSeq(q, i, k)) = k - i + 1
           /\ \A j \in 1..(k - i + 1) : SubSeq(q, i, k)[j] = q[i + j - 1]
<1>1. Len(q) \in Nat /\ \A j \in 1..Len(q) : q[j] \in S
  OBVIOUS
<1>2. i \in Int /\ k \in Int /\ \A j \in i..k : q[j] \in S
  BY <1>1
<1>3. /\ SubSeq(q, i, k) \in Seq(S)
      /\ Len(SubSeq(q, i, k)) = IF i <= k THEN k - i + 1 ELSE 0
      /\ \A j \in 1..(k - i + 1) : SubSeq(q, i, k)[j] = q[i + j - 1]
  BY <1>2, SubSeqProperties
<1> QED  BY <1>1, <1>3

\* The two parts of a sequence on either side of a place.
LEMMA BothEnds ==
    ASSUME NEW S, NEW q \in Seq(S), NEW n \in 0..Len(q)
    PROVE  /\ SubSeq(q, 1, n) \in Seq(S) /\ Begins(SubSeq(q, 1, n), q, n)
           /\ SubSeq(q, n + 1, Len(q)) \in Seq(S) /\ Ends(SubSeq(q, n + 1, Len(q)), q, n, Len(q))
<1>1. Len(q) \in Nat
  OBVIOUS
<1>2. 1 \in 1..(Len(q) + 1) /\ n \in (1 - 1)..Len(q)
  BY <1>1
<1>3. /\ SubSeq(q, 1, n) \in Seq(S) /\ Len(SubSeq(q, 1, n)) = n - 1 + 1
      /\ \A j \in 1..(n - 1 + 1) : SubSeq(q, 1, n)[j] = q[1 + j - 1]
  BY <1>2, Part
<1>4. n + 1 \in 1..(Len(q) + 1) /\ Len(q) \in ((n + 1) - 1)..Len(q)
  BY <1>1
<1>5. /\ SubSeq(q, n + 1, Len(q)) \in Seq(S) /\ Len(SubSeq(q, n + 1, Len(q))) = Len(q) - (n + 1) + 1
      /\ \A j \in 1..(Len(q) - (n + 1) + 1) : SubSeq(q, n + 1, Len(q))[j] = q[(n + 1) + j - 1]
  BY <1>4, Part
<1> DEFINE front == SubSeq(q, 1, n)
           back == SubSeq(q, n + 1, Len(q))
<1> HIDE DEF front, back
<1>6. front \in Seq(S) /\ Begins(front, q, n)
  <2>1. \A j \in 1..n : front[j] = q[1 + j - 1]
    BY <1>1, <1>3 DEF front
  <2>2. ASSUME NEW j \in 1..n  PROVE 1 + j - 1 = j
    BY <1>1
  <2>3. \A j \in 1..n : front[j] = q[j]
    BY <2>1, <2>2, Zenon
  <2>4. front \in Seq(S) /\ Len(front) = n
    BY <1>1, <1>3 DEF front
  <2> QED  BY <2>3, <2>4, Zenon DEF Begins
<1>7. back \in Seq(S) /\ Ends(back, q, n, Len(q))
  <2>1. \A j \in 1..(Len(q) - n) : back[j] = q[(n + 1) + j - 1]
    BY <1>1, <1>5 DEF back
  <2>2. ASSUME NEW j \in 1..(Len(q) - n)  PROVE (n + 1) + j - 1 = n + j
    BY <1>1
  <2>3. \A j \in 1..(Len(q) - n) : back[j] = q[n + j]
    BY <2>1, <2>2, Zenon
  <2>4. back \in Seq(S) /\ Len(back) = Len(q) - n
    BY <1>1, <1>5 DEF back
  <2> QED  BY <2>3, <2>4, Zenon DEF Ends
<1> QED  BY <1>6, <1>7, Zenon DEF front, back

\* The two put together again without the element between them, or with a new one.
LEMMA SequencesJoined ==
    ASSUME NEW S, NEW q, NEW m \in Nat, NEW i \in 1..m,
           NEW front \in Seq(S), NEW back \in Seq(S), Begins(front, q, i - 1), Ends(back, q, i, m)
    PROVE  front \o back \in Seq(S) /\ Without(front \o back, q, i, m)
<1>1. /\ front \o back \in Seq(S) /\ Len(front \o back) = Len(front) + Len(back)
      /\ \A j \in 1..(Len(front) + Len(back)) :
            (front \o back)[j] = IF j <= Len(front) THEN front[j] ELSE back[j - Len(front)]
  BY ConcatProperties
<1>2. Len(front) = i - 1 /\ Len(front) + Len(back) = m - 1
  BY DEF Begins, Ends
<1>3. ASSUME NEW j \in 1..(m - 1)
      PROVE  (front \o back)[j] = IF j < i THEN q[j] ELSE q[j + 1]
  <2> DEFINE x == (front \o back)[j]
  <2>1. x = IF j <= i - 1 THEN front[j] ELSE back[j - (i - 1)]
    BY <1>1, <1>2
  <2> HIDE DEF x
  <2>2. x = IF j < i THEN q[j] ELSE q[j + 1]
    <3>1. CASE j < i
      BY <2>1, <3>1 DEF Begins
    <3>2. CASE j >= i
      <4>1. j - (i - 1) \in 1..(m - i) /\ i + (j - (i - 1)) = j + 1 /\ ~(j <= i - 1) /\ ~(j < i)
        BY <3>2
      <4> QED  BY <2>1, <4>1 DEF Ends
    <3> QED  BY <3>1, <3>2
  <2> QED  BY <2>2 DEF x
<1> QED  BY <1>1, <1>2, <1>3 DEF Without

LEMMA JoinedWith ==
    ASSUME NEW S, NEW q, NEW m \in Nat, NEW i \in 1..(m + 1), NEW r \in S,
           NEW front \in Seq(S), NEW back \in Seq(S), Begins(front, q, i - 1), Ends(back, q, i - 1, m)
    PROVE  (front \o <<r>>) \o back \in Seq(S) /\ With((front \o <<r>>) \o back, q, i, m, r)
<1>1. <<r>> \in Seq(S) /\ Len(<<r>>) = 1 /\ <<r>>[1] = r
  OBVIOUS
<1> DEFINE first == front \o <<r>>
<1>2. /\ first \in Seq(S) /\ Len(first) = Len(front) + 1
      /\ \A j \in 1..(Len(front) + 1) :
            first[j] = IF j <= Len(front) THEN front[j] ELSE <<r>>[j - Len(front)]
  BY <1>1, ConcatProperties
<1> HIDE DEF first
<1>3. Len(front) = i - 1 /\ Len(first) = i /\ Len(first) + Len(back) = m + 1
  BY <1>2 DEF Begins, Ends
<1>4. ASSUME NEW j \in 1..i  PROVE first[j] = IF j < i THEN q[j] ELSE r
  <2>1. first[j] = IF j <= i - 1 THEN front[j] ELSE <<r>>[j - (i - 1)]
    BY <1>2, <1>3
  <2>2. CASE j < i
    BY <2>1, <2>2 DEF Begins
  <2>3. CASE j = i
    <3>1. j - (i - 1) = 1 /\ ~(j <= i - 1)
      BY <2>3
    <3> QED  BY <1>1, <2>1, <2>3, <3>1
  <2> QED  BY <2>2, <2>3
<1>5. /\ first \o back \in Seq(S) /\ Len(first \o back) = m + 1
      /\ \A j \in 1..(m + 1) :
            (first \o back)[j] = IF j <= Len(first) THEN first[j] ELSE back[j - Len(first)]
  <2>1. /\ first \o back \in Seq(S) /\ Len(first \o back) = Len(first) + Len(back)
        /\ \A j \in 1..(Len(first) + Len(back)) :
              (first \o back)[j] = IF j <= Len(first) THEN first[j] ELSE back[j - Len(first)]
    <3>1. first \in Seq(S)
      BY <1>2
    <3> QED  BY <3>1, ConcatProperties, Zenon
  <2> DEFINE both == first \o back
             total == Len(first) + Len(back)
  <2>2. total = m + 1
    BY <1>3
  <2> HIDE DEF both, total
  <2>3. /\ both \in Seq(S) /\ Len(both) = total
        /\ \A j \in 1..total : both[j] = IF j <= Len(first) THEN first[j] ELSE back[j - Len(first)]
    BY <2>1, Zenon DEF both, total
  <2> QED  BY <2>2, <2>3, Zenon DEF both
<1>6. ASSUME NEW j \in 1..(m + 1)
      PROVE  (first \o back)[j] = IF j < i THEN q[j] ELSE IF j = i THEN r ELSE q[j - 1]
  <2> DEFINE x == (first \o back)[j]
  <2>1. x = IF j <= i THEN first[j] ELSE back[j - i]
    BY <1>3, <1>5
  <2> HIDE DEF x
  <2>2. x = IF j < i THEN q[j] ELSE IF j = i THEN r ELSE q[j - 1]
    <3>1. CASE j <= i
      BY <1>4, <2>1, <3>1
    <3>2. CASE j > i
      <4>1. j - i \in 1..(m - (i - 1)) /\ (i - 1) + (j - i) = j - 1 /\ ~(j <= i) /\ ~(j < i)
        BY <3>2
      <4> QED  BY <2>1, <3>2, <4>1 DEF Ends
    <3> QED  BY <3>1, <3>2
  <2> QED  BY <2>2 DEF x
<1> QED  BY <1>5, <1>6 DEF With, first

\* So that the sequences that DeleteRule and CreateRule make are without one and with one more.
LEMMA Deleted ==
    ASSUME NEW S, NEW q \in Seq(S), NEW i \in DOMAIN q, NEW n \in Nat
    PROVE  LET shorter == SubSeq(q, 1, i - 1) \o SubSeq(q, i + 1, Len(q))
           IN  /\ shorter \in Seq(S)
               /\ Distinct(q) => Distinct(shorter)
               /\ Ahead(shorter, n) \subseteq Ahead(q, n)
<1> DEFINE front == SubSeq(q, 1, i - 1)
           back == SubSeq(q, i + 1, Len(q))
           shorter == front \o back
<1>1. Len(q) \in Nat /\ DOMAIN q = 1..Len(q) /\ i \in 1..Len(q) /\ i - 1 \in 0..Len(q) /\ i \in 0..Len(q)
  OBVIOUS
<1>2. front \in Seq(S) /\ Begins(front, q, i - 1)
  BY <1>1, BothEnds, Zenon
<1>3. back \in Seq(S) /\ Ends(back, q, i, Len(q))
  BY <1>1, BothEnds, Zenon
<1> HIDE DEF front, back
<1>4. shorter \in Seq(S) /\ Without(shorter, q, i, Len(q))
  BY <1>1, <1>2, <1>3, SequencesJoined, Zenon
<1> HIDE DEF shorter
<1>5. DOMAIN shorter = 1..(Len(q) - 1)
  BY <1>4 DEF Without
<1>7. (Distinct(q) => Distinct(shorter)) /\ Ahead(shorter, n) \subseteq Ahead(q, n)
  BY <1>1, <1>4, <1>5, Shortened, Zenon
<1> QED  BY <1>4, <1>7, Zenon DEF shorter, front, back

LEMMA Inserted ==
    ASSUME NEW S, NEW q \in Seq(S), NEW i \in 1..(Len(q) + 1), NEW r \in S, NEW n \in Nat,
           \A j \in DOMAIN q : q[j] # r
    PROVE  LET longer == SubSeq(q, 1, i - 1) \o <<r>> \o SubSeq(q, i, Len(q))
           IN  /\ longer \in Seq(S)
               /\ Distinct(q) => Distinct(longer)
               /\ Ahead(q, n) \subseteq Ahead(longer, n)
<1> DEFINE front == SubSeq(q, 1, i - 1)
           back == SubSeq(q, i, Len(q))
           longer == front \o <<r>> \o back
<1>1. Len(q) \in Nat /\ DOMAIN q = 1..Len(q) /\ i - 1 \in 0..Len(q) /\ (i - 1) + 1 = i
  OBVIOUS
<1>2. front \in Seq(S) /\ Begins(front, q, i - 1)
  BY <1>1, BothEnds, Zenon
<1>3. back \in Seq(S) /\ Ends(back, q, i - 1, Len(q))
  <2>1. /\ SubSeq(q, (i - 1) + 1, Len(q)) \in Seq(S)
        /\ Ends(SubSeq(q, (i - 1) + 1, Len(q)), q, i - 1, Len(q))
    BY <1>1, BothEnds, Zenon
  <2> QED  BY <1>1, <2>1
<1> HIDE DEF front, back
<1>4. longer \in Seq(S) /\ With(longer, q, i, Len(q), r)
  BY <1>1, <1>2, <1>3, JoinedWith, Zenon
<1> HIDE DEF longer
<1>5. DOMAIN longer = 1..(Len(q) + 1)
  BY <1>4 DEF With
<1>6. \A j \in 1..Len(q) : q[j] # r
  OBVIOUS
<1>7. (Distinct(q) => Distinct(longer)) /\ Ahead(q, n) \subseteq Ahead(longer, n)
  BY <1>1, <1>4, <1>5, <1>6, Lengthened, Zenon
<1> QED  BY <1>4, <1>7, Zenon DEF longer, front, back

\* A page takes what is ahead up to its end, and is short only at the end of the list.
LEMMA Paged ==
    ASSUME NEW S, NEW q \in Seq(S), NEW n \in Nat, NEW size \in Nat \ {0}
    PROVE  LET hits == SubSeq(q, n + 1, IF n + size < Len(q) THEN n + size ELSE Len(q))
           IN  /\ hits \in Seq(S) /\ Len(hits) <= size
               /\ Len(hits) < size => Len(q) <= n + size
               /\ Ahead(q, n) \subseteq Elements(hits) \cup Ahead(q, n + size)
               /\ Elements(hits) \cup Ahead(q, n + size) \subseteq Ahead(q, n)
               /\ Distinct(q) => Distinct(hits) /\ Elements(hits) \cap Ahead(q, n + size) = {}
<1> DEFINE m == Len(q)
           k == IF n + size < m THEN n + size ELSE m
           hits == SubSeq(q, n + 1, k)
<1>1. m \in Nat /\ DOMAIN q = 1..m /\ \A j \in 1..m : q[j] \in S
  OBVIOUS
<1> HIDE DEF m
<1>2. k \in Nat /\ k <= m /\ k <= n + size /\ (k = m \/ k = n + size)
  BY <1>1
<1> HIDE DEF k
<1>3. /\ hits \in Seq(S) /\ Len(hits) = IF n + 1 <= k THEN k - (n + 1) + 1 ELSE 0
      /\ \A j \in 1..(k - (n + 1) + 1) : hits[j] = q[(n + 1) + j - 1]
  <2>1. n + 1 \in Int /\ k \in Int /\ \A j \in (n + 1)..k : q[j] \in S
    BY <1>1, <1>2
  <2> QED  BY <2>1, SubSeqProperties
<1> HIDE DEF hits
<1>4. DOMAIN hits = 1..Len(hits) /\ Len(hits) \in Nat
  BY <1>3
<1> DEFINE size2 == Len(hits)
<1>5. size2 = IF n < k THEN k - n ELSE 0
  BY <1>2, <1>3
<1>6. \A j \in 1..size2 : hits[j] = q[n + j] /\ n + j \in 1..m /\ n + j <= n + size
  <2> SUFFICES ASSUME NEW j \in 1..size2
               PROVE  hits[j] = q[n + j] /\ n + j \in 1..m /\ n + j <= n + size
    OBVIOUS
  <2>1. n < k /\ j \in 1..(k - n) /\ k - (n + 1) + 1 = k - n /\ (n + 1) + j - 1 = n + j
    BY <1>2, <1>5
  <2>2. hits[j] = q[n + j]
    BY <1>3, <2>1
  <2> QED  BY <1>1, <1>2, <2>1, <2>2
<1> HIDE DEF size2
<1>7. size2 \in Nat /\ size2 <= size /\ (size2 < size => m <= n + size)
  BY <1>1, <1>2, <1>5
<1>8. Ahead(q, n) \subseteq Elements(hits) \cup Ahead(q, n + size)
  <2> SUFFICES ASSUME NEW j \in 1..m, j > n, ~(j > n + size)
               PROVE  q[j] \in Elements(hits)
    BY <1>1 DEF Ahead
  <2>1. j - n \in 1..size2 /\ n + (j - n) = j
    BY <1>1, <1>2, <1>5
  <2>2. hits[j - n] = q[j]
    BY <1>6, <2>1
  <2> QED  BY <1>4, <2>1, <2>2 DEF Elements, size2
<1>9. Elements(hits) \subseteq Ahead(q, n)
  <2> SUFFICES ASSUME NEW j \in 1..size2
               PROVE  hits[j] \in Ahead(q, n)
    BY <1>4 DEF Elements, size2
  <2>1. hits[j] = q[n + j] /\ n + j \in DOMAIN q /\ n + j > n
    BY <1>1, <1>6, <1>7
  <2> QED  BY <2>1 DEF Ahead
<1>10. Ahead(q, n + size) \subseteq Ahead(q, n)
  BY <1>1 DEF Ahead
<1>11. ASSUME Distinct(q)  PROVE Distinct(hits) /\ Elements(hits) \cap Ahead(q, n + size) = {}
  <2>1. ASSUME NEW i \in 1..size2, NEW j \in 1..size2, i # j
        PROVE  hits[i] # hits[j]
    <3>1. n + i \in DOMAIN q /\ n + j \in DOMAIN q /\ n + i # n + j
      BY <1>1, <1>6, <1>7, <2>1
    <3>2. q[n + i] # q[n + j]
      BY <1>11, <3>1, Zenon DEF Distinct
    <3> QED  BY <1>6, <3>2
  <2>2. ASSUME NEW i \in 1..size2, NEW j \in DOMAIN q, j > n + size
        PROVE  hits[i] # q[j]
    <3>1. n + i \in DOMAIN q /\ n + i # j
      BY <1>1, <1>6, <1>7, <2>2
    <3>2. q[n + i] # q[j]
      BY <1>11, <3>1, Zenon DEF Distinct
    <3> QED  BY <1>6, <3>2
  <2>3. DOMAIN hits = 1..size2
    BY <1>4 DEF size2
  <2>4. Distinct(hits)
    BY <2>1, <2>3, Zenon DEF Distinct
  <2>5. Elements(hits) \cap Ahead(q, n + size) = {}
    BY <2>2, <2>3 DEF Elements, Ahead
  <2> QED  BY <2>4, <2>5
<1>12. /\ hits \in Seq(S) /\ Len(hits) <= size
       /\ Len(hits) < size => Len(q) <= n + size
  BY <1>3, <1>7 DEF size2, m
<1>13. hits = SubSeq(q, n + 1, IF n + size < Len(q) THEN n + size ELSE Len(q))
  BY DEF hits, k, m
<1> QED  BY <1>8, <1>9, <1>10, <1>11, <1>12, <1>13, Zenon

\* A page is appended to the rules that were listed.
LEMMA Appended ==
    ASSUME NEW S, NEW q \in Seq(S), NEW hits \in Seq(S)
    PROVE  /\ q \o hits \in Seq(S)
           /\ Elements(q \o hits) = Elements(q) \cup Elements(hits)
           /\ Distinct(q) /\ Distinct(hits) /\ Elements(q) \cap Elements(hits) = {} => Distinct(q \o hits)
<1> DEFINE m == Len(q)
           k == Len(hits)
           all == q \o hits
<1>1. /\ all \in Seq(S) /\ Len(all) = m + k
      /\ \A j \in 1..(m + k) : all[j] = IF j <= m THEN q[j] ELSE hits[j - m]
  BY ConcatProperties
<1>2. m \in Nat /\ k \in Nat /\ DOMAIN q = 1..m /\ DOMAIN hits = 1..k
  OBVIOUS
<1>3. DOMAIN all = 1..(m + k)
  BY <1>1
<1> HIDE DEF m, k, all
<1>4. \A j \in 1..m : j \in 1..(m + k) /\ all[j] = q[j]
  BY <1>1, <1>2
<1>5. \A j \in 1..k : m + j \in 1..(m + k) /\ all[m + j] = hits[j]
  <2> SUFFICES ASSUME NEW j \in 1..k
               PROVE  m + j \in 1..(m + k) /\ all[m + j] = hits[j]
    OBVIOUS
  <2>1. m + j \in 1..(m + k) /\ ~(m + j <= m) /\ (m + j) - m = j
    BY <1>2
  <2> QED  BY <1>1, <2>1
<1>6. \A j \in 1..(m + k) : j \in 1..m \/ (j - m \in 1..k /\ j = m + (j - m))
  BY <1>2
<1>7. Elements(all) = Elements(q) \cup Elements(hits)
  <2>1. ASSUME NEW j \in 1..(m + k)
        PROVE  all[j] \in Elements(q) \cup Elements(hits)
    <3>1. CASE j \in 1..m
      BY <1>2, <1>4, <3>1 DEF Elements
    <3>2. CASE j - m \in 1..k /\ j = m + (j - m)
      <4>1. all[j] = hits[j - m]
        BY <1>5, <3>2
      <4> QED  BY <1>2, <3>2, <4>1 DEF Elements
    <3> QED  BY <1>6, <3>1, <3>2
  <2>2. \A j \in 1..m : q[j] \in Elements(all)
    BY <1>3, <1>4 DEF Elements
  <2>3. \A j \in 1..k : hits[j] \in Elements(all)
    BY <1>3, <1>5 DEF Elements
  <2>4. Elements(all) \subseteq Elements(q) \cup Elements(hits)
    BY <1>3, <2>1 DEF Elements
  <2>5. Elements(q) \cup Elements(hits) \subseteq Elements(all)
    <3>1. Elements(q) \subseteq Elements(all)
      BY <1>2, <2>2, Zenon DEF Elements
    <3>2. Elements(hits) \subseteq Elements(all)
      BY <1>2, <2>3, Zenon DEF Elements
    <3> QED  BY <3>1, <3>2
  <2> QED  BY <2>4, <2>5
<1>8. ASSUME Distinct(q), Distinct(hits), Elements(q) \cap Elements(hits) = {}
      PROVE  Distinct(all)
  <2> SUFFICES ASSUME NEW i \in 1..(m + k), NEW j \in 1..(m + k), i < j
               PROVE  all[i] # all[j]
    BY <1>2, <1>3 DEF Distinct
  <2>1. CASE j \in 1..m
    <3>1. i \in 1..m /\ i # j
      BY <1>2, <2>1
    <3>2. q[i] # q[j]
      BY <1>2, <1>8, <2>1, <3>1, Zenon DEF Distinct
    <3> QED  BY <1>4, <2>1, <3>1, <3>2
  <2>2. CASE i \in 1..m /\ j - m \in 1..k /\ j = m + (j - m)
    <3>1. all[i] \in Elements(q)
      BY <1>2, <1>4, <2>2 DEF Elements
    <3>2. all[j] = hits[j - m]
      BY <1>5, <2>2
    <3>3. all[j] \in Elements(hits)
      BY <1>2, <2>2, <3>2 DEF Elements
    <3> QED  BY <1>8, <3>1, <3>3
  <2>3. CASE i - m \in 1..k /\ i = m + (i - m) /\ j - m \in 1..k /\ j = m + (j - m)
    <3>1. all[i] = hits[i - m] /\ all[j] = hits[j - m]
      BY <1>5, <2>3
    <3>2. i - m # j - m
      BY <1>2
    <3>3. hits[i - m] # hits[j - m]
      BY <1>2, <1>8, <2>3, <3>2, Zenon DEF Distinct
    <3> QED  BY <3>1, <3>3
  <2> QED  BY <1>6, <1>2, <2>1, <2>2, <2>3
<1> QED  BY <1>1, <1>7, <1>8, Zenon DEF all

\* While the rules are listed: if none was deleted, one that was there at the start has been
\* listed or is ahead; if none was created, none is listed twice, or both listed and ahead.
ListInv ==
    /\ installed \in Seq(RuleIds) /\ Distinct(installed)
    /\ rules \in Seq(RuleIds) /\ page \in Nat
    /\ product \in {"elastic", "opensearch"}
    /\ cut \in BOOLEAN /\ grown \in BOOLEAN
    /\ reading = "rules" =>
          /\ cut \/ Elements(started) \subseteq Elements(rules) \cup Ahead(installed, page * PageSize)
          /\ grown \/ (Distinct(rules) /\ Elements(rules) \cap Ahead(installed, page * PageSize) = {})
    /\ reading \notin {"rules", "failed"} =>
          /\ cut \/ Elements(started) \subseteq Elements(rules)
          /\ grown \/ Distinct(rules)

\* Once nothing is ahead, the invariant is what is promised of the listing.
LEMMA ListingIsTrue ==
    ASSUME ListInv
    PROVE  Search!RulesAreTrue
<1> SUFFICES ASSUME reading = "done"
             PROVE  /\ ~cut => \A i \in DOMAIN started : started[i] \in Search!Listed
                    /\ ~grown => \A i, j \in DOMAIN rules : i # j => rules[i] # rules[j]
  BY DEF Search!RulesAreTrue
<1>1. Search!Listed = Elements(rules)
  BY DEF Search!Listed, Elements
<1>2. ASSUME ~cut  PROVE \A i \in DOMAIN started : started[i] \in Search!Listed
  <2>1. Elements(started) \subseteq Elements(rules)
    BY <1>2 DEF ListInv
  <2> QED  BY <1>1, <2>1 DEF Elements
<1>3. ASSUME ~grown  PROVE \A i, j \in DOMAIN rules : i # j => rules[i] # rules[j]
  BY <1>3 DEF ListInv, Distinct
<1> QED  BY <1>2, <1>3

LEMMA ListingStarts ==
    ASSUME BackendsAssumption, Search!ClusterInit \/ NoCluster, Search!CallInit
    PROVE  ListInv
<1>1. /\ installed \in Seq(RuleIds) /\ Distinct(installed)
      /\ product \in {"elastic", "opensearch"}
  <2>1. ASSUME installed = <<>>  PROVE installed \in Seq(RuleIds) /\ Distinct(installed)
    <3>1. installed \in Seq(RuleIds) /\ DOMAIN installed = {}
      BY <2>1
    <3> QED  BY <3>1 DEF Distinct
  <2>2. ASSUME installed \in Search!Listings  PROVE installed \in Seq(RuleIds) /\ Distinct(installed)
    <3>1. PICK n \in Nat : installed \in [1..n -> RuleIds]
      BY <2>2 DEF Search!Listings
    <3>2. installed \in Seq(RuleIds)
      <4>1. n \in Nat /\ \A j \in 1..n : installed[j] \in RuleIds
        BY <3>1
      <4>2. [j \in 1..n |-> installed[j]] \in Seq(RuleIds)
        BY <4>1, IsASeq
      <4>3. installed = [j \in 1..n |-> installed[j]]
        BY <3>1
      <4> QED  BY <4>2, <4>3
    <3> QED  BY <2>2, <3>2 DEF Search!Listings, Distinct
  <2>3. ASSUME Search!ClusterInit
        PROVE  /\ installed = <<>> \/ installed \in Search!Listings
               /\ product \in {"elastic", "opensearch"}
    BY <2>3 DEF Search!ClusterInit
  <2>4. ASSUME NoCluster  PROVE installed = <<>> /\ product = "elastic"
    BY <2>4 DEF NoCluster
  <2> QED  BY <2>1, <2>2, <2>3, <2>4
<1>2. /\ rules = <<>> /\ page = 0 /\ started = installed /\ cut = FALSE /\ grown = FALSE
  BY DEF Search!CallInit
<1>3. rules \in Seq(RuleIds) /\ Elements(rules) = {} /\ Distinct(rules)
  BY <1>2 DEF Elements, Distinct
<1>4. reading # "rules" => installed = <<>>
  BY DEF Search!ClusterInit, NoCluster
<1>5. reading # "rules" => Elements(started) = {}
  BY <1>2, <1>4 DEF Elements
<1>6. Elements(started) \subseteq Ahead(installed, page * PageSize)
  <2>1. page * PageSize = 0
    BY <1>2 DEF BackendsAssumption, Search!SearchBackendAssumption
  <2> QED  BY <1>1, <1>2, <2>1 DEF Elements, Ahead
<1> QED  BY <1>1, <1>2, <1>3, <1>5, <1>6 DEF ListInv

\* A rule is deleted or created under the listing.
LEMMA DeleteRuleKeeps ==
    ASSUME BackendsAssumption, ListInv, NEW i, Search!DeleteRule(i)
    PROVE  ListInv'
<1>1. /\ i \in DOMAIN installed /\ cut' = TRUE
      /\ installed' = SubSeq(installed, 1, i - 1) \o SubSeq(installed, i + 1, Len(installed))
      /\ UNCHANGED <<product, reading, page, rules, started, grown>> /\ reading = "rules"
  BY DEF Search!DeleteRule
<1>2. page * PageSize \in Nat
  BY DEF ListInv, BackendsAssumption, Search!SearchBackendAssumption
<1>3. /\ installed' \in Seq(RuleIds) /\ Distinct(installed)'
      /\ Ahead(installed', page * PageSize) \subseteq Ahead(installed, page * PageSize)
  <2>1. LET shorter == SubSeq(installed, 1, i - 1) \o SubSeq(installed, i + 1, Len(installed))
        IN  /\ shorter \in Seq(RuleIds)
            /\ Distinct(installed) => Distinct(shorter)
            /\ Ahead(shorter, page * PageSize) \subseteq Ahead(installed, page * PageSize)
    <3>1. installed \in Seq(RuleIds)
      BY DEF ListInv
    <3> QED  BY <1>1, <1>2, <3>1, Deleted, Zenon
  <2> QED  BY <1>1, <2>1, Zenon DEF ListInv
<1>4. grown' \/ (Distinct(rules') /\ Elements(rules') \cap Ahead(installed', page' * PageSize) = {})
  BY <1>1, <1>3 DEF ListInv
<1> QED  BY <1>1, <1>3, <1>4 DEF ListInv

LEMMA CreateRuleKeeps ==
    ASSUME BackendsAssumption, ListInv, NEW i, NEW r \in RuleIds, Search!CreateRule(r, i)
    PROVE  ListInv'
<1>1. /\ i \in 1..(Len(installed) + 1) /\ \A j \in DOMAIN installed : installed[j] # r
      /\ grown' = TRUE
      /\ installed' = SubSeq(installed, 1, i - 1) \o <<r>> \o SubSeq(installed, i, Len(installed))
      /\ UNCHANGED <<product, reading, page, rules, started, cut>> /\ reading = "rules"
  BY DEF Search!CreateRule
<1>2. page * PageSize \in Nat
  BY DEF ListInv, BackendsAssumption, Search!SearchBackendAssumption
<1>3. /\ installed' \in Seq(RuleIds) /\ Distinct(installed)'
      /\ Ahead(installed, page * PageSize) \subseteq Ahead(installed', page * PageSize)
  <2>1. LET longer == SubSeq(installed, 1, i - 1) \o <<r>> \o SubSeq(installed, i, Len(installed))
        IN  /\ longer \in Seq(RuleIds)
            /\ Distinct(installed) => Distinct(longer)
            /\ Ahead(installed, page * PageSize) \subseteq Ahead(longer, page * PageSize)
    <3>1. installed \in Seq(RuleIds)
      BY DEF ListInv
    <3> QED  BY <1>1, <1>2, <3>1, Inserted, Zenon
  <2> QED  BY <1>1, <2>1, Zenon DEF ListInv
<1>4. cut' \/ Elements(started') \subseteq Elements(rules') \cup Ahead(installed', page' * PageSize)
  BY <1>1, <1>3 DEF ListInv
<1> QED  BY <1>1, <1>3, <1>4 DEF ListInv

\* The listing stops only where nothing is ahead, whatever the pages say of the total.
LEMMA LastPageIsLast ==
    ASSUME NEW m \in Nat, NEW n \in Nat, NEW size \in Nat \ {0}, NEW hits \in Nat, NEW total,
           hits <= size, hits < size => m <= n * size + size,
           total = m \/ (total = 0 /\ product = "opensearch"),
           PageSize = size, Search!LastPage(n, hits, total)
    PROVE  m <= n * size + size
<1>1. n * size \in Nat /\ (n + 1) * size = n * size + size
  OBVIOUS
<1>2. CASE hits = 0
  BY <1>2
<1>3. CASE product = "elastic" /\ (n + 1) * size >= total
  BY <1>1, <1>3
<1>4. CASE product = "opensearch" /\ hits < size
  BY <1>4
<1>5. CASE total > 0 /\ n * size + hits >= total
  <2>1. total = m
    BY <1>5
  <2>2. \A x \in Nat : x + hits >= m => m <= x + size
    OBVIOUS
  <2> QED  BY <1>1, <1>5, <2>1, <2>2
<1> QED  BY <1>2, <1>3, <1>4, <1>5 DEF Search!LastPage

\* What a page shows is no longer ahead; after the last page nothing is.
LEMMA ReadPageKeeps ==
    ASSUME BackendsAssumption, ListInv, NEW total, Search!ReadPage(total)
    PROVE  ListInv'
<1> DEFINE n == page * PageSize
           hits == Search!PageOf(page)
<1>1. PageSize \in Nat \ {0} /\ page \in Nat /\ installed \in Seq(RuleIds) /\ rules \in Seq(RuleIds)
  BY DEF ListInv, BackendsAssumption, Search!SearchBackendAssumption
<1>2. n \in Nat /\ (page + 1) * PageSize = n + PageSize
  BY <1>1
<1>3. /\ total = Len(installed) \/ (total = 0 /\ product = "opensearch")
      /\ reading = "rules" /\ rules' = rules \o hits /\ page' = page + 1
      /\ reading' = IF Search!LastPage(page, Len(hits), total) THEN "done" ELSE "rules"
      /\ UNCHANGED <<product, installed, started, cut, grown>>
  BY DEF Search!ReadPage, Search!clusterVars
<1>4. hits = SubSeq(installed, n + 1, IF n + PageSize < Len(installed) THEN n + PageSize ELSE Len(installed))
  BY <1>2 DEF Search!PageOf
<1> HIDE DEF n, hits
<1>5. /\ hits \in Seq(RuleIds) /\ Len(hits) <= PageSize
      /\ Len(hits) < PageSize => Len(installed) <= n + PageSize
      /\ Ahead(installed, n) \subseteq Elements(hits) \cup Ahead(installed, n + PageSize)
      /\ Elements(hits) \cup Ahead(installed, n + PageSize) \subseteq Ahead(installed, n)
      /\ Distinct(installed) =>
            Distinct(hits) /\ Elements(hits) \cap Ahead(installed, n + PageSize) = {}
  BY <1>1, <1>2, <1>4, Paged, Zenon
<1>6. /\ rules' \in Seq(RuleIds) /\ Elements(rules') = Elements(rules) \cup Elements(hits)
      /\ Distinct(rules) /\ Distinct(hits) /\ Elements(rules) \cap Elements(hits) = {} => Distinct(rules')
  <2>1. /\ rules \o hits \in Seq(RuleIds) /\ Elements(rules \o hits) = Elements(rules) \cup Elements(hits)
        /\ Distinct(rules) /\ Distinct(hits) /\ Elements(rules) \cap Elements(hits) = {}
              => Distinct(rules \o hits)
    BY <1>1, <1>5, Appended
  <2> QED  BY <1>3, <2>1
<1>7. page' * PageSize = n + PageSize
  BY <1>2, <1>3
<1>8. cut' \/ Elements(started') \subseteq Elements(rules') \cup Ahead(installed', page' * PageSize)
  BY <1>3, <1>5, <1>6, <1>7 DEF ListInv, n
<1>9. \/ grown'
      \/ Distinct(rules') /\ Elements(rules') \cap Ahead(installed', page' * PageSize) = {}
  BY <1>3, <1>5, <1>6, <1>7 DEF ListInv, n
<1>10. ASSUME reading' = "done"  PROVE Ahead(installed, n + PageSize) = {}
  <2>1. Search!LastPage(page, Len(hits), total)
    BY <1>3, <1>10
  <2>2. Len(hits) \in Nat /\ Len(installed) \in Nat /\ DOMAIN installed = 1..Len(installed)
    BY <1>1, <1>5
  <2>3. Len(installed) <= n + PageSize
    BY <1>1, <1>3, <1>5, <2>1, <2>2, LastPageIsLast DEF n
  <2> QED  BY <1>1, <1>2, <2>2, <2>3 DEF Ahead
<1>11. reading' \in {"rules", "done"} /\ page' \in Nat
  BY <1>1, <1>3
<1> QED  BY <1>3, <1>6, <1>7, <1>8, <1>9, <1>10, <1>11 DEF ListInv

-----------------------------------------------------------------------------
(* The sources, the fields, and the expressions of the rules *)

SourceConditions == {"absent", "empty", "undated", "fed", "ahead", "rolled"}

\* What is known of a source has been true of it since the call began.
SourceInv ==
    /\ data \in [Search!Sources -> SourceConditions]
    /\ been \in [Search!Sources -> SUBSET SourceConditions]
    /\ \A s \in Search!Sources : data[s] \in been[s]
    /\ \A s \in Streams : stats[s] # "absent" => stats[s] \in been[s]
    /\ \A s \in Search!Sources :
          /\ docs[s] # "unlisted" => been[s] # {"absent"}
          /\ docs[s] = "zero" => "empty" \in been[s] \/ s \in uncounted
          /\ last[s] # "none" => last[s] = "past" /\ been[s] \cap Search!Dated # {}

\* An expression stands for sources that existed, and for all that existed throughout.
AnswerIsTrue(e) ==
    \/ answer[e] = {"?"}
    \/ /\ \A s \in answer[e] : s \in Search!Sources /\ been[s] # {"absent"}
       /\ \A s \in Search!Meant(e) \ answer[e] : "absent" \in been[s]

\* A goroutine leaves without an answer only after the context has ended.
AnswerInv ==
    /\ task \in [Search!Expressions -> {"idle", "waiting", "working", "left", "answered"}]
    /\ answer \in [Search!Expressions -> SUBSET (Search!Sources \cup {"?"})]
    /\ \A e \in Search!Expressions : task[e] = "answered" => AnswerIsTrue(e)
    /\ \A e \in Search!Expressions : task[e] = "left" => searchContext = "ended"
    /\ searchCall = "evidence" => \A e \in Search!Expressions : task[e] = "answered"
    /\ searchCall = "running" => reading = "resolve"

EvidenceInv == ListInv /\ SourceInv /\ AnswerInv /\ Search!FieldsAreTrue

\* What an expression stands for are sources of the cluster.
LEMMA SelectorsAreSources ==
    ASSUME BackendsAssumption, NEW e \in Search!Expressions
    PROVE  Search!Meant(e) \subseteq Search!Sources
<1>1. PICK rule \in Selections : e \in Search!Asked(rule)
  BY DEF Search!Expressions
<1>2. rule.local \subseteq Search!Sources
  BY DEF BackendsAssumption, Search!SearchBackendAssumption, Search!Selection
<1>3. \/ e = Search!Expression(rule.local, rule.excluded)
      \/ \E s \in rule.local : e = Search!Expression({s}, rule.excluded)
  BY <1>1 DEF Search!Asked, Search!Diagnostic
<1>4. e.local \subseteq rule.local
  BY <1>3 DEF Search!Expression
<1> QED  BY <1>2, <1>4 DEF Search!Meant

LEMMA EvidenceStarts ==
    ASSUME BackendsAssumption, Search!ClusterInit \/ NoCluster, Search!CallInit
    PROVE  EvidenceInv
<1>1. data \in [Search!Sources -> SourceConditions]
  <2>1. ASSUME data \in Search!Worlds  PROVE data \in [Search!Sources -> SourceConditions]
    <3>1. \A s \in Search!Sources : Search!Visible(s) \subseteq SourceConditions
      BY DEF Search!Visible, Search!Conditions, SourceConditions
    <3>2. data = [s \in Search!Sources |-> data[s]] /\ \A s \in Search!Sources : data[s] \in Search!Visible(s)
      BY <2>1 DEF Search!Worlds
    <3> QED  BY <3>1, <3>2
  <2>2. \/ data = [s \in Search!Sources |-> "fed"] \/ data = [s \in Search!Sources |-> "absent"]
        \/ data \in Search!Worlds
    BY DEF Search!ClusterInit, NoCluster
  <2> QED  BY <2>1, <2>2 DEF SourceConditions
<1>2. SourceInv
  BY <1>1 DEF Search!CallInit, SourceInv, Search!Sources
<1>3. AnswerInv
  BY DEF Search!CallInit, Search!Pool!Init, AnswerInv
<1>4. Search!FieldsAreTrue
  BY DEF Search!CallInit, Search!FieldsAreTrue
<1> QED  BY <1>2, <1>3, <1>4, ListingStarts DEF EvidenceInv

\* A source comes, goes or fills while the call runs: what has been stays.
LEMMA TurnKeeps ==
    ASSUME BackendsAssumption, EvidenceInv, NEW s \in Search!Sources, NEW condition,
           Search!Turn(s, condition)
    PROVE  EvidenceInv'
<1>1. /\ data' = [data EXCEPT ![s] = condition] /\ been' = [been EXCEPT ![s] = @ \cup {condition}]
      /\ UNCHANGED <<product, installed, lacking, reading, page, rules, started, cut, grown, stats,
                     docs, last, uncounted, searchContext, searchCall, task, answer, fields>>
      /\ condition \in SourceConditions /\ reading \notin {"rules", "done"}
  BY DEF Search!Turn, Search!listVars, Search!sourceVars, Search!poolVars, Search!Visible,
         Search!Conditions, SourceConditions
<1>2. \A x \in Search!Sources : been[x] \subseteq been'[x]
  BY <1>1 DEF EvidenceInv, SourceInv
<1>3. ListInv'
  BY <1>1 DEF EvidenceInv, ListInv
<1>4. SourceInv'
  <2>1. data' \in [Search!Sources -> SourceConditions] /\ been' \in [Search!Sources -> SUBSET SourceConditions]
    BY <1>1 DEF EvidenceInv, SourceInv
  <2>2. \A x \in Search!Sources : data'[x] \in been'[x]
    BY <1>1 DEF EvidenceInv, SourceInv
  <2>3. \A x \in Streams : stats'[x] # "absent" => stats'[x] \in been'[x]
    BY <1>1, <1>2 DEF EvidenceInv, SourceInv, Search!Sources
  <2>4. \A x \in Search!Sources :
          /\ docs'[x] # "unlisted" => been'[x] # {"absent"}
          /\ docs'[x] = "zero" => "empty" \in been'[x] \/ x \in uncounted'
          /\ last'[x] # "none" => last'[x] = "past" /\ been'[x] \cap Search!Dated # {}
    <3> SUFFICES ASSUME NEW x \in Search!Sources
                 PROVE  /\ docs[x] # "unlisted" => been'[x] # {"absent"}
                        /\ docs[x] = "zero" => "empty" \in been'[x] \/ x \in uncounted
                        /\ last[x] # "none" => last[x] = "past" /\ been'[x] \cap Search!Dated # {}
      BY <1>1
    <3>1. been[x] # {"absent"} => been'[x] # {"absent"}
      BY <1>2 DEF EvidenceInv, SourceInv
    <3>2. been[x] \cap Search!Dated # {} => been'[x] \cap Search!Dated # {}
      BY <1>2
    <3> QED  BY <1>2, <3>1, <3>2 DEF EvidenceInv, SourceInv
  <2> QED  BY <2>1, <2>2, <2>3, <2>4 DEF SourceInv, Search!Dated
<1>5. AnswerInv'
  <2>1. ASSUME NEW e \in Search!Expressions, AnswerIsTrue(e)  PROVE AnswerIsTrue(e)'
    <3>1. \A x \in Search!Sources : been[x] # {"absent"} => been'[x] # {"absent"}
      BY <1>2 DEF EvidenceInv, SourceInv
    <3>2. Search!Meant(e) \subseteq Search!Sources
      BY SelectorsAreSources
    <3> QED  BY <1>1, <1>2, <2>1, <3>1, <3>2 DEF AnswerIsTrue, Search!Meant
  <2> QED  BY <1>1, <2>1 DEF EvidenceInv, AnswerInv
<1>6. Search!FieldsAreTrue'
  BY <1>1 DEF EvidenceInv, Search!FieldsAreTrue
<1> QED  BY <1>3, <1>4, <1>5, <1>6 DEF EvidenceInv

\* A step of another part of the adapter leaves the listing alone, the sources, the answers.
LEMMA ListingStands ==
    ASSUME ListInv, UNCHANGED <<product, installed, page, rules, started, cut, grown>>,
           \/ reading' = reading \/ reading' = "failed"
           \/ reading # "rules" /\ reading # "failed" /\ reading' # "rules"
    PROVE  ListInv'
BY DEF ListInv

\* The parts stand while what they are about is unchanged.
LEMMA SourcesStand ==
    ASSUME SourceInv, UNCHANGED <<data, been, stats, docs, last, uncounted>>
    PROVE  SourceInv'
BY DEF SourceInv

LEMMA AnswersStand ==
    ASSUME AnswerInv, UNCHANGED <<been, searchContext, searchCall, task, answer>>,
           reading' = reading \/ reading # "resolve"
    PROVE  AnswerInv'
BY DEF AnswerInv, AnswerIsTrue

\* The statistics, the index list with its counts, and the missing dates.
LEMMA ReadStatsKeeps ==
    ASSUME EvidenceInv, Search!ReadStats
    PROVE  EvidenceInv'
<1>1. /\ stats' = [s \in Streams |-> data[s]] /\ reading = "stats" /\ reading' = "cat"
      /\ UNCHANGED <<product, installed, data, lacking, page, rules, started, cut, grown, been,
                     docs, last, uncounted, searchContext, searchCall, task, answer, fields>>
  BY DEF Search!ReadStats, Search!clusterVars, Search!listVars, Search!poolVars
<1>2. SourceInv'
  BY <1>1 DEF EvidenceInv, SourceInv, Search!Sources
<1> QED  BY <1>1, <1>2, ListingStands, AnswersStand DEF EvidenceInv, Search!FieldsAreTrue

LEMMA ReadIndicesKeeps ==
    ASSUME EvidenceInv, NEW unreadable \in SUBSET Search!Sources, Search!ReadIndices(unreadable)
    PROVE  EvidenceInv'
<1>1. /\ docs' = [s \in Search!Sources |-> Search!Count(s, unreadable)] /\ last' = Search!Dates
      /\ uncounted' = unreadable \cap Streams /\ reading = "cat" /\ reading' = "dates"
      /\ UNCHANGED <<product, installed, data, lacking, page, rules, started, cut, grown, been,
                     stats, searchContext, searchCall, task, answer, fields>>
  BY DEF Search!ReadIndices, Search!clusterVars, Search!listVars, Search!poolVars
<1>2. SourceInv'
  <2>1. ASSUME NEW s \in Search!Sources
        PROVE  /\ docs'[s] # "unlisted" => been[s] # {"absent"}
               /\ docs'[s] = "zero" => "empty" \in been[s] \/ s \in uncounted'
    <3>1. docs'[s] = Search!Count(s, unreadable) /\ data[s] \in been[s]
      BY <1>1 DEF EvidenceInv, SourceInv
    <3>2. CASE s \in Indices
      BY <3>1, <3>2 DEF Search!Count, Search!Exists
    <3>3. CASE s \notin Indices
      <4>1. s \in Streams /\ (stats[s] # "absent" => stats[s] \in been[s])
        BY <3>3 DEF EvidenceInv, SourceInv, Search!Sources
      <4> QED  BY <1>1, <3>1, <3>3, <4>1 DEF Search!Count, Search!Exists
    <3> QED  BY <3>2, <3>3
  <2>2. ASSUME NEW s \in Search!Sources, last'[s] # "none"
        PROVE  last'[s] = "past" /\ been[s] \cap Search!Dated # {}
    <3>1. last'[s] = "past" /\ s \in Streams /\ stats[s] \in {"fed", "rolled"}
      BY <1>1, <2>2 DEF Search!Dates
    <3>2. stats[s] \in been[s]
      BY <3>1 DEF EvidenceInv, SourceInv
    <3> QED  BY <3>1, <3>2 DEF Search!Dated
  <2> QED  BY <1>1, <2>1, <2>2 DEF EvidenceInv, SourceInv, Search!Dated
<1> QED  BY <1>1, <1>2, ListingStands, AnswersStand DEF EvidenceInv, Search!FieldsAreTrue

LEMMA FillDatesKeeps ==
    ASSUME EvidenceInv, Search!FillDates
    PROVE  EvidenceInv'
<1>1. PICK failed \in SUBSET Search!Undated :
         last' = [s \in Search!Sources |->
                     IF s \in Search!Undated \ failed /\ data[s] \in Search!Dated THEN "past" ELSE last[s]]
  BY DEF Search!FillDates
<1>2. /\ reading = "dates" /\ reading' = "done"
      /\ UNCHANGED <<product, installed, data, lacking, page, rules, started, cut, grown, been,
                     stats, docs, uncounted, searchContext, searchCall, task, answer, fields>>
  BY DEF Search!FillDates, Search!clusterVars, Search!listVars, Search!poolVars
<1>3. SourceInv'
  <2>1. ASSUME NEW s \in Search!Sources, last'[s] # "none"
        PROVE  last'[s] = "past" /\ been[s] \cap Search!Dated # {}
    <3>1. CASE data[s] \in Search!Dated /\ last'[s] = "past"
      BY <3>1 DEF EvidenceInv, SourceInv
    <3>2. CASE last'[s] = last[s]
      BY <2>1, <3>2 DEF EvidenceInv, SourceInv
    <3> QED  BY <1>1, <3>1, <3>2
  <2> QED  BY <1>2, <2>1 DEF EvidenceInv, SourceInv, Search!Dated
<1> QED  BY <1>2, <1>3, ListingStands, AnswersStand DEF EvidenceInv, Search!FieldsAreTrue

\* The fields, and a request outside a pool that fails.
LEMMA ReadFieldsKeeps ==
    ASSUME EvidenceInv, NEW unread, Search!ReadFields(unread)
    PROVE  EvidenceInv'
<1>1. /\ fields' \cap lacking = {} /\ reading = "fields" /\ reading' = "done"
      /\ UNCHANGED <<product, installed, data, lacking, page, rules, started, cut, grown, been,
                     stats, docs, last, uncounted, searchContext, searchCall, task, answer>>
  BY DEF Search!ReadFields, Search!clusterVars, Search!listVars, Search!poolVars, Search!sourceVars
<1> QED  BY <1>1, ListingStands, SourcesStand, AnswersStand DEF EvidenceInv, Search!FieldsAreTrue

LEMMA FailKeeps ==
    ASSUME EvidenceInv, Search!Fail
    PROVE  EvidenceInv'
<1>1. /\ reading \in {"rules", "stats", "cat"} /\ reading' = "failed"
      /\ UNCHANGED <<product, installed, data, lacking, page, rules, started, cut, grown, been,
                     stats, docs, last, uncounted, searchContext, searchCall, task, answer, fields>>
  BY DEF Search!Fail, Search!clusterVars, Search!listVars, Search!poolVars, Search!sourceVars
<1> QED  BY <1>1, ListingStands, SourcesStand, AnswersStand DEF EvidenceInv, Search!FieldsAreTrue

\* The pool of requests: what is answered is answered truly, and nothing else is handed on.
LEMMA PoolKeeps ==
    ASSUME BackendsAssumption, EvidenceInv,
           \/ Search!StartResolving \/ Search!EndContext \/ Search!Resolved
           \/ \E e \in Search!Expressions : Search!Resolving(e) \/ Search!Resolve(e)
    PROVE  EvidenceInv'
<1> USE DEF Search!Others, Search!clusterVars, Search!listVars, Search!sourceVars
<1>1. UNCHANGED <<product, installed, data, lacking, page, rules, started, cut, grown, been,
                 stats, docs, last, uncounted, fields>>
  BY DEF Search!StartResolving, Search!EndContext, Search!Resolved, Search!Resolving, Search!Resolve
<1>2. reading' = reading \/ (Search!Resolved /\ reading' = "done")
  BY DEF Search!StartResolving, Search!EndContext, Search!Resolved, Search!Resolving, Search!Resolve
<1>3. ASSUME Search!StartResolving  PROVE AnswerInv'
  <2>1. /\ reading = "resolve" /\ reading' = reading /\ searchCall' = "running" /\ answer' = answer
        /\ task' = [e \in Search!Expressions |-> "waiting"]
    BY <1>3 DEF Search!StartResolving, Search!Pool!Begin
  <2> QED  BY <2>1 DEF EvidenceInv, AnswerInv
<1>4. ASSUME Search!EndContext  PROVE AnswerInv'
  <2>1. searchContext' = "ended" /\ UNCHANGED <<reading, searchCall, task, answer>>
    BY <1>4 DEF Search!EndContext, Search!Pool!End
  <2> QED  BY <1>1, <2>1 DEF EvidenceInv, AnswerInv, AnswerIsTrue
<1>5. ASSUME Search!Resolved  PROVE AnswerInv'
  <2>1. /\ \A e \in Search!Expressions : task[e] \in {"answered", "left"}
        /\ searchCall' = IF searchContext = "ended" THEN "error" ELSE "evidence"
        /\ UNCHANGED <<searchContext, task, answer>>
    BY <1>5 DEF Search!Resolved, Search!Pool!Return
  <2> QED  BY <1>1, <2>1 DEF EvidenceInv, AnswerInv, AnswerIsTrue
<1>6. ASSUME NEW e \in Search!Expressions, Search!Resolving(e)  PROVE AnswerInv'
  <2>1. /\ task[e] = "waiting"
        /\ \/ task' = [task EXCEPT ![e] = "working"]
           \/ task' = [task EXCEPT ![e] = "left"] /\ searchContext = "ended"
        /\ UNCHANGED <<reading, searchContext, searchCall, answer>>
    BY <1>6 DEF Search!Resolving, Search!Pool!Take, Search!Pool!Leave
  <2> QED  BY <1>1, <2>1 DEF EvidenceInv, AnswerInv, AnswerIsTrue
<1>7. ASSUME NEW e \in Search!Expressions, Search!Resolve(e)  PROVE AnswerInv'
  <2>1. /\ task[e] = "working" /\ task' = [task EXCEPT ![e] = "answered"]
        /\ \/ answer' = [answer EXCEPT ![e] = {s \in Search!Meant(e) : Search!Exists(s)}]
           \/ answer' = [answer EXCEPT ![e] = {"?"}]
        /\ UNCHANGED <<reading, searchContext, searchCall>>
    BY <1>7 DEF Search!Resolve, Search!Pool!Answer
  <2>2. Search!Meant(e) \subseteq Search!Sources
    BY SelectorsAreSources
  <2>3. AnswerIsTrue(e)'
    <3>1. \A s \in Search!Sources : data[s] \in been[s]
      BY DEF EvidenceInv, SourceInv
    <3>2. CASE answer' = [answer EXCEPT ![e] = {"?"}]
      BY <3>2 DEF EvidenceInv, AnswerInv, AnswerIsTrue
    <3>3. CASE answer' = [answer EXCEPT ![e] = {s \in Search!Meant(e) : Search!Exists(s)}]
      <4>1. answer'[e] = {s \in Search!Meant(e) : data[s] # "absent"}
        BY <3>3 DEF EvidenceInv, AnswerInv, Search!Exists
      <4> QED  BY <1>1, <2>2, <3>1, <4>1 DEF AnswerIsTrue, Search!Meant
    <3> QED  BY <2>1, <3>2, <3>3
  <2>4. \A x \in Search!Expressions : x # e => answer'[x] = answer[x] /\ task'[x] = task[x]
    BY <2>1 DEF EvidenceInv, AnswerInv
  <2>5. \A x \in Search!Expressions : x # e /\ AnswerIsTrue(x) => AnswerIsTrue(x)'
    BY <1>1, <2>4 DEF AnswerIsTrue
  <2>6. answer' \in [Search!Expressions -> SUBSET (Search!Sources \cup {"?"})]
    BY <2>1, <2>2 DEF EvidenceInv, AnswerInv
  <2> QED  BY <2>1, <2>3, <2>4, <2>5, <2>6 DEF EvidenceInv, AnswerInv
<1>8. AnswerInv'
  BY <1>3, <1>4, <1>5, <1>6, <1>7
<1>9. ListInv'
  <2>1. ASSUME Search!Resolved  PROVE reading \notin {"rules", "failed"}
    BY <2>1 DEF EvidenceInv, AnswerInv, Search!Resolved, Search!Pool!Return
  <2> QED  BY <1>1, <1>2, <2>1, ListingStands DEF EvidenceInv
<1> QED  BY <1>1, <1>8, <1>9, SourcesStand DEF EvidenceInv, Search!FieldsAreTrue

LEMMA ListingKeeps ==
    ASSUME BackendsAssumption, EvidenceInv,
           \/ \E i : Search!DeleteRule(i) \/ \E r \in RuleIds : Search!CreateRule(r, i)
           \/ \E total : Search!ReadPage(total)
    PROVE  EvidenceInv'
<1>1. ListInv'
  BY DeleteRuleKeeps, CreateRuleKeeps, ReadPageKeeps DEF EvidenceInv
<1>2. /\ UNCHANGED <<data, lacking, been, stats, docs, last, uncounted, searchContext, searchCall,
                     task, answer, fields>>
      /\ reading = "rules"
  BY DEF Search!DeleteRule, Search!CreateRule, Search!ReadPage, Search!clusterVars,
         Search!sourceVars, Search!poolVars
<1> QED  BY <1>1, <1>2, SourcesStand, AnswersStand DEF EvidenceInv, Search!FieldsAreTrue

LEMMA EvidenceKeeps ==
    ASSUME BackendsAssumption, EvidenceInv, Search!SearchNext
    PROVE  EvidenceInv'
<1>1. ASSUME Search!ReadStats \/ Search!FillDates \/ Search!Fail  PROVE EvidenceInv'
  BY <1>1, ReadStatsKeeps, FillDatesKeeps, FailKeeps
<1>2. ASSUME \/ Search!StartResolving \/ Search!EndContext \/ Search!Resolved
             \/ \E e \in Search!Expressions : Search!Resolving(e) \/ Search!Resolve(e)
      PROVE  EvidenceInv'
  BY <1>2, PoolKeeps
<1>3. ASSUME \/ \E i : Search!DeleteRule(i) \/ \E r \in RuleIds : Search!CreateRule(r, i)
             \/ \E total : Search!ReadPage(total)
      PROVE  EvidenceInv'
  BY <1>3, ListingKeeps
<1>4. ASSUME NEW s \in Search!Sources, NEW condition, Search!Turn(s, condition)  PROVE EvidenceInv'
  BY <1>4, TurnKeeps
<1>5. ASSUME NEW unreadable \in SUBSET Search!Sources,
             Search!ReadIndices(unreadable) \/ Search!ReadFields(unreadable)
      PROVE  EvidenceInv'
  BY <1>5, ReadIndicesKeeps, ReadFieldsKeeps
<1> QED  BY <1>1, <1>2, <1>3, <1>4, <1>5 DEF Search!SearchNext

\* Another adapter's step leaves the call alone.
LEMMA EvidenceStands ==
    ASSUME EvidenceInv, UNCHANGED searchVars
    PROVE  EvidenceInv'
BY ListingStands, SourcesStand, AnswersStand DEF EvidenceInv, searchVars, Search!FieldsAreTrue

LEMMA EvidenceInvariance == Spec => []EvidenceInv
<1>1. Init => EvidenceInv
  BY BackendsAssumption, EvidenceStarts DEF Init
<1>2. EvidenceInv /\ [Next]_vars => EvidenceInv'
  <2> SUFFICES ASSUME EvidenceInv, [Next]_vars
               PROVE  EvidenceInv'
    OBVIOUS
  <2>1. CASE Search!SearchNext
    BY <2>1, BackendsAssumption, EvidenceKeeps
  <2>2. CASE UNCHANGED searchVars
    BY <2>2, EvidenceStands
  <2> QED  BY <2>1, <2>2 DEF Next, vars
<1> QED  BY <1>1, <1>2, PTL DEF Spec

\* Whatever changes in the cluster while a call of the Elastic or the OpenSearch adapter reads
\* it, the evidence of the call is true of something the cluster was meanwhile: a rule is
\* missing only if others were deleted under the listing and listed twice only if others were
\* created, a source that is listed existed, and an expression resolves to what existed.
THEOREM CallsAreTrue == Spec => []SearchEvidenceIsTrue
<1>1. EvidenceInv => SearchEvidenceIsTrue
  <2> SUFFICES ASSUME EvidenceInv
               PROVE  SearchEvidenceIsTrue
    OBVIOUS
  <2>1. Search!RulesAreTrue
    BY ListingIsTrue DEF EvidenceInv
  <2>2. Search!SourcesAreTrue
    BY DEF EvidenceInv, SourceInv, Search!SourcesAreTrue
  <2>3. Search!ResolutionIsTrue
    BY DEF EvidenceInv, AnswerInv, AnswerIsTrue, Search!ResolutionIsTrue
  <2> QED  BY <2>1, <2>2, <2>3 DEF EvidenceInv, SearchEvidenceIsTrue, Search!SearchEvidenceIsTrue
<1> QED  BY <1>1, EvidenceInvariance, PTL

-----------------------------------------------------------------------------
(* The Sentinel client, among the adapters *)

(* Every behaviour of Backends is one of the Sentinel client: what the other adapters and *)
(* the analysis do leaves its tokens, its requests and its budgets alone.                 *)
THEOREM BackendsRunClient == Spec => ClientSpec
<1>1. Init => ClientInit
  BY DEF Init
<1>2. [Next]_vars => [ClientNext]_clientVars
  BY DEF Next, vars
<1> QED  BY <1>1, <1>2, PTL DEF Spec, ClientSpec

(* Whichever adapter a scan reads through, one goroutine at most asks for a scope's token, *)
(* and no request goes out with a token that expired while the service made it wait        *)
(* (client.go 324-371).                                                                     *)
COROLLARY BackendsTokensAreSound == Spec => []TokensAreSound
  BY BackendsRunClient, TokensAreSoundAlways

(* And its client still implements the pool its callers assume (client.go 1374-1431). *)
COROLLARY BackendsImplementPool == Spec => ImplementsPool
  BY BackendsRunClient, ClientImplementsPool

-----------------------------------------------------------------------------
(* Queries, among the adapters *)

(* Where a query is looked at, it is one of the programs; where none is, nothing is found. *)
QueryInv ==
    /\ backend = "query" => KqlInv
    /\ backend # "query" => resolution = Unanalysed

(* A rule is left open only with the inputs its query reads, whichever adapter is in use    *)
(* (kql.go 293-1264, client.go 801-823).                                                   *)
THEOREM BackendsInputsAreRead == Spec => []DependenciesAreTrue
<1>1. Init => QueryInv
  <2>1. ProgramInit => KqlInv
    BY KqlAssumption DEF ProgramInit, KqlInv, DependenciesAreTrue, Conclusive, Unanalysed
  <2> QED
    BY <2>1 DEF Init, NoQuery, QueryInv
<1>2. QueryInv /\ [Next]_vars => QueryInv'
  <2> SUFFICES ASSUME QueryInv, [Next]_vars
               PROVE  QueryInv'
    OBVIOUS
  <2>1. backend' = backend /\ (backend # "query" => UNCHANGED kqlVars)
           /\ [KqlNext]_kqlVars
    BY DEF Next, vars
  <2>2. CASE backend = "query"
    BY <2>1, <2>2, KqlStep DEF QueryInv
  <2>3. CASE backend # "query"
    BY <2>1, <2>3 DEF QueryInv, kqlVars
  <2> QED  BY <2>2, <2>3
<1>3. QueryInv => DependenciesAreTrue
  <2>1. CASE backend = "query"
    BY <2>1 DEF QueryInv, KqlInv
  <2>2. CASE backend # "query"
    BY <2>2 DEF QueryInv, DependenciesAreTrue, Conclusive, Unanalysed
  <2> QED  BY <2>1, <2>2
<1> QED  BY <1>1, <1>2, <1>3, PTL DEF Spec
=============================================================================
