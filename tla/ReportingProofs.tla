---------------------------- MODULE ReportingProofs ----------------------------
(***************************************************************************)
(* Theorems about FindingLifecycle, for any sources, any scope, any gaps   *)
(* in the evidence and any history of the world, and about Reporting and   *)
(* its parts: the gate, declared downtime and monitoring.                  *)
(***************************************************************************)
EXTENDS Reporting, TLAPS

-----------------------------------------------------------------------------
(* Verdicts *)

(* A status that counts as degraded is the source's own. *)
LEMMA StatusIsTrue ==
    ASSUME NEW gaps, NEW s, TypeOK, s \in present
    PROVE  /\ Status(gaps, s) \in DegradedStatus => Status(gaps, s) = feed[s]
           /\ Status(gaps, s) = "ok" => feed[s] = "ok"
<1>1. feed[s] \in {"ok", "stale", "empty"}
  BY DEF TypeOK, DegradedStatus
<1>2. CASE <<"health", s>> \in gaps
  BY <1>2 DEF Status, DegradedStatus
<1>3. CASE <<"health", s>> \notin gaps /\ feed[s] = "ok"
  BY <1>3 DEF Status, DegradedStatus
<1>4. CASE <<"health", s>> \notin gaps /\ feed[s] # "ok"
  BY <1>1, <1>4 DEF Status, DegradedStatus
<1> QED
  BY <1>2, <1>3, <1>4

(* A rule is assessed only if what it reads is exactly what is there, or it cannot run. *)
LEMMA AssessedReadsAll ==
    ASSUME NEW gaps, Assessable(gaps)
    PROVE  /\ enabled
           /\ Incompatible(gaps) <=> Blocked
           /\ Matched(gaps) = IF Blocked THEN {} ELSE present
<1>1. enabled /\ <<"resolution", Rule>> \notin gaps
  BY DEF Assessable, Uncertain
<1>2. CASE Blocked
  BY <1>1, <1>2 DEF Matched, Resolved, Incompatible
<1>3. CASE ~Blocked
  BY <1>1, <1>3 DEF Assessable, Uncertain, Matched, Resolved, Inventory, Incompatible
<1> QED
  BY <1>1, <1>2, <1>3

(* Who reads something can run. *)
LEMMA ReadersRun ==
    ASSUME NEW gaps, Assessable(gaps), Matched(gaps) # {}
    PROVE  Runs /\ Matched(gaps) = present
  BY AssessedReadsAll DEF Runs

(* What a scan finds is true, whatever it did not see. *)
LEMMA FoundIsTrue ==
    ASSUME NEW gaps, TypeOK
    PROVE  Findings(gaps) \subseteq TrueFindings
<1>1. DeadFindings(gaps) \subseteq TrueFindings
  <2> SUFFICES ASSUME NEW f \in DeadFindings(gaps) PROVE f \in TrueFindings
    OBVIOUS
  <2>1. /\ Assessable(gaps)
        /\ \/ f = PlanIncompatible /\ Incompatible(gaps)
           \/ f = Disconnected /\ Matched(gaps) = {} /\ ~Incompatible(gaps)
           \/ f = Starved /\ AllDegraded(gaps)
    BY DEF DeadFindings
  <2>2. CASE f = PlanIncompatible /\ Incompatible(gaps)
    BY <2>1, <2>2, AssessedReadsAll DEF TrueFindings
  <2>3. CASE f = Disconnected /\ Matched(gaps) = {} /\ ~Incompatible(gaps)
    BY <2>1, <2>3, AssessedReadsAll DEF TrueFindings
  <2>4. CASE f = Starved /\ AllDegraded(gaps)
    <3>1. Runs /\ \A s \in present : Status(gaps, s) \in DegradedStatus
      BY <2>1, <2>4, ReadersRun DEF AllDegraded
    <3>2. \A s \in present : feed[s] \in DegradedStatus
      BY <3>1, StatusIsTrue
    <3>3. Silent = present
      BY <3>2 DEF Silent
    <3> QED
      BY <2>4, <3>1, <3>3 DEF TrueFindings
  <2> QED
    BY <2>1, <2>2, <2>3, <2>4
<1>2. ImpairedFindings(gaps) \subseteq TrueFindings
  <2> SUFFICES ASSUME NEW f \in ImpairedFindings(gaps) PROVE f \in TrueFindings
    OBVIOUS
  <2>1. Live(gaps)
    BY DEF ImpairedFindings
  <2>2. Runs /\ Matched(gaps) = present
    BY <2>1, ReadersRun DEF Live
  <2>3. \/ \E s \in Matched(gaps) \cap lacking : f = MissingField(s)
        \/ \E s \in lagging : Sampled(gaps, s) /\ f = LagBlind(s)
    BY DEF ImpairedFindings
  <2>4. CASE \E s \in Matched(gaps) \cap lacking : f = MissingField(s)
    BY <2>2, <2>4 DEF TrueFindings
  <2>5. CASE \E s \in lagging : Sampled(gaps, s) /\ f = LagBlind(s)
    BY <2>2, <2>5 DEF TrueFindings, Sampled
  <2> QED
    BY <2>3, <2>4, <2>5
<1>3. SourceFindings(gaps) \subseteq TrueFindings
  <2> SUFFICES ASSUME NEW f \in SourceFindings(gaps) PROVE f \in TrueFindings
    OBVIOUS
  <2>1. PICK s \in Listed(gaps) :
            Status(gaps, s) \in DegradedStatus /\ f = Degraded(s, Status(gaps, s))
    BY DEF SourceFindings
  <2>2. s \in present \cap InScope
    BY DEF Listed, Inventory
  <2>3. feed[s] \in DegradedStatus /\ f = Degraded(s, feed[s])
    BY <2>1, <2>2, StatusIsTrue
  <2>4. s \in Silent \cap InScope
    BY <2>2, <2>3 DEF Silent
  <2> QED
    BY <2>3, <2>4 DEF TrueFindings
<1>4. PartialFindings(gaps) \subseteq TrueFindings
  <2> SUFFICES ASSUME NEW f \in PartialFindings(gaps) PROVE f \in TrueFindings
    OBVIOUS
  <2>1. /\ Assessable(gaps) /\ Matched(gaps) # {}
        /\ \E s \in Sources \ present : f = SelectorEmpty(s)
    BY DEF PartialFindings
  <2>2. Runs
    BY <2>1, ReadersRun
  <2> QED
    BY <2>1, <2>2 DEF TrueFindings
<1>5. UnusedFindings(gaps) \subseteq TrueFindings
  <2> SUFFICES ASSUME NEW f \in UnusedFindings(gaps) PROVE f \in TrueFindings
    OBVIOUS
  <2>1. PICK s \in Listed(gaps) : /\ HasTelemetry(gaps, s) /\ s \notin Consumed(gaps)
                                  /\ ~Uncertain(gaps) /\ f = Unused(s)
    BY DEF UnusedFindings, UnusedComplete
  <2>2. s \in present \cap InScope /\ feed[s] # "empty"
    BY <2>1 DEF Listed, Inventory, HasTelemetry
  <2>3. ~Runs
    <3>1. SUFFICES ASSUME Runs PROVE FALSE
      OBVIOUS
    <3>2. enabled /\ Matched(gaps) = present
      BY <2>1, <3>1, AssessedReadsAll DEF Assessable, Runs
    <3> QED
      BY <2>1, <2>2, <3>2 DEF Consumed
  <2> QED
    BY <2>1, <2>2, <2>3 DEF TrueFindings
<1> QED
  BY <1>1, <1>2, <1>3, <1>4, <1>5 DEF Findings

(* A scan with all its evidence finds everything that is not overshadowed. *)
LEMMA AllIsFound ==
    ASSUME TypeOK
    PROVE  TrueFindings \ Overshadowed \subseteq Findings({})
<1>1. /\ Inventory({}) = present /\ Listed({}) = present \cap InScope
      /\ ~Uncertain({}) /\ (Assessable({}) <=> enabled) /\ (Incompatible({}) <=> Blocked)
  BY DEF Inventory, Resolved, Listed, Uncertain, Assessable, Incompatible
<1>2. Matched({}) = IF Blocked THEN {} ELSE present
  BY <1>1 DEF Matched, Resolved
<1>3. \A s \in present : Status({}, s) = feed[s]
  <2> SUFFICES ASSUME NEW s \in present PROVE Status({}, s) = feed[s]
    OBVIOUS
  <2>1. CASE feed[s] = "ok"
    BY <2>1 DEF Status
  <2>2. CASE feed[s] # "ok"
    BY <2>2 DEF Status
  <2> QED
    BY <2>1, <2>2
<1>4. Runs => (AllDegraded({}) <=> Silent = present)
  BY <1>2, <1>3 DEF AllDegraded, Silent, Runs
<1> SUFFICES ASSUME NEW f \in TrueFindings, f \notin Overshadowed PROVE f \in Findings({})
  OBVIOUS
<1>5. CASE \/ f \in {Disconnected} /\ enabled /\ present = {}
           \/ f \in {PlanIncompatible} /\ enabled /\ Blocked
  BY <1>1, <1>2, <1>5 DEF Findings, DeadFindings, Blocked
<1>6. CASE f = Starved /\ Runs /\ Silent = present
  BY <1>1, <1>4, <1>6 DEF Findings, DeadFindings, Runs
<1>7. ASSUME Runs, NEW s \in present, f \in {MissingField(s), LagBlind(s)}
      PROVE  Live({})
  <2>1. s \in Sources
    BY <1>7 DEF TypeOK
  <2>2. Starved \notin TrueFindings
    BY <1>7, <2>1 DEF Overshadowed
  <2>3. Silent # present
    BY <1>7, <2>2 DEF TrueFindings
  <2> QED
    BY <1>1, <1>2, <1>4, <1>7, <2>3 DEF Live, Runs
<1>8. CASE \E s \in present \cap lacking : Runs /\ f = MissingField(s)
  <2>1. PICK s \in present \cap lacking : Runs /\ f = MissingField(s)
    BY <1>8
  <2>2. Live({}) /\ FieldsRead({})
    BY <1>7, <2>1 DEF FieldsRead
  <2> QED
    BY <1>2, <2>1, <2>2 DEF Findings, ImpairedFindings, Runs
<1>9. CASE \E s \in present \cap lagging : Runs /\ feed[s] # "empty" /\ f = LagBlind(s)
  <2>1. PICK s \in present \cap lagging : Runs /\ feed[s] # "empty" /\ f = LagBlind(s)
    BY <1>9
  <2>2. Live({}) /\ Sampled({}, s)
    BY <1>2, <1>7, <2>1 DEF Sampled, Runs
  <2> QED
    BY <2>1, <2>2 DEF Findings, ImpairedFindings
<1>10. CASE \E s \in Silent \cap InScope : f = Degraded(s, feed[s])
  <2>1. PICK s \in Silent \cap InScope : f = Degraded(s, feed[s])
    BY <1>10
  <2>2. s \in Listed({}) /\ Status({}, s) = feed[s] /\ feed[s] \in DegradedStatus
    BY <1>1, <1>3, <2>1 DEF Silent
  <2>3. f \in SourceFindings({})
    BY <2>1, <2>2 DEF SourceFindings
  <2> QED
    BY <2>3 DEF Findings
<1>11. CASE \E s \in Sources \ present : Runs /\ f = SelectorEmpty(s)
  BY <1>1, <1>2, <1>11 DEF Findings, PartialFindings, Runs
<1>12. CASE \E s \in present \cap InScope : ~Runs /\ feed[s] # "empty" /\ f = Unused(s)
  <2>1. PICK s \in present \cap InScope : ~Runs /\ feed[s] # "empty" /\ f = Unused(s)
    BY <1>12
  <2>2. /\ s \in Listed({}) /\ HasTelemetry({}, s)
        /\ s \notin Consumed({}) /\ UnusedComplete({})
    BY <1>1, <1>2, <2>1 DEF HasTelemetry, Consumed, UnusedComplete, Runs
  <2> QED
    BY <2>1, <2>2 DEF Findings, UnusedFindings
<1> QED
  BY <1>5, <1>6, <1>8, <1>9, <1>10, <1>11, <1>12 DEF TrueFindings

-----------------------------------------------------------------------------
(* Recovery *)

(* What can be true. *)
LEMMA TrueCases ==
    ASSUME NEW f \in TrueFindings
    PROVE  \/ f = Disconnected /\ present = {}
           \/ f = PlanIncompatible /\ Blocked
           \/ f = Starved /\ Runs /\ Silent = present
           \/ \E s \in present \cap lacking : Runs /\ f = MissingField(s)
           \/ \E s \in present \cap lagging : Runs /\ feed[s] # "empty" /\ f = LagBlind(s)
           \/ \E s \in Silent \cap InScope : f = Degraded(s, feed[s])
           \/ \E s \in Sources \ present : Runs /\ f = SelectorEmpty(s)
           \/ \E s \in present \cap InScope : ~Runs /\ f = Unused(s)
  BY DEF TrueFindings

(* A recovery that is confirmed is over, but for ingest lag. *)
LEMMA ConfirmedIsOver ==
    ASSUME NEW gaps, TypeOK, NEW f \in TrueFindings,
           f.reason # "lag-blind-window", RecoveryConfirmed(gaps, f)
    PROVE  FALSE
<1>1. CASE (f = Disconnected /\ present = {}) \/ (f = PlanIncompatible /\ Blocked)
  <2>1. InputRecovered(gaps)
    BY <1>1 DEF RecoveryConfirmed, Disconnected, PlanIncompatible, Finding, DegradedStatus
  <2> QED
    BY <1>1, <2>1 DEF InputRecovered, Resolved
<1>2. CASE f = Starved /\ Silent = present
  <2>1. StarvedRecovered(gaps)
    BY <1>2 DEF RecoveryConfirmed, Starved, Finding, DegradedStatus
  <2>2. PICK s \in Listed(gaps) : Status(gaps, s) = "ok"
    BY <2>1 DEF StarvedRecovered
  <2>3. s \in present
    BY DEF Listed, Inventory
  <2> QED
    BY <1>2, <2>2, <2>3, StatusIsTrue DEF Silent, DegradedStatus
<1>3. CASE \E s \in lacking : f = MissingField(s)
  <2>1. PICK s \in lacking : f = MissingField(s)
    BY <1>3
  <2>2. MissingFieldRecovered(gaps, s)
    BY <2>1 DEF RecoveryConfirmed, MissingField, Finding, DegradedStatus
  <2> QED
    BY <2>1, <2>2 DEF MissingFieldRecovered
<1>4. CASE \E s \in Sources : f = LagBlind(s)
  BY <1>4 DEF LagBlind, Finding
<1>5. CASE \E s \in Silent : f = Degraded(s, feed[s])
  <2>1. PICK s \in Silent : f = Degraded(s, feed[s])
    BY <1>5
  <2>2. feed[s] \in DegradedStatus
    BY DEF Silent
  <2>3. DegradedRecovered(gaps, s)
    BY <2>1, <2>2 DEF RecoveryConfirmed, Degraded, Finding, DegradedStatus
  <2>4. s \in present
    BY DEF Silent
  <2> QED
    BY <2>2, <2>3, <2>4, StatusIsTrue DEF DegradedRecovered, DegradedStatus
<1>6. CASE \E s \in Sources \ present : f = SelectorEmpty(s)
  <2>1. PICK s \in Sources \ present : f = SelectorEmpty(s)
    BY <1>6
  <2>2. SelectorRecovered(gaps, s)
    BY <2>1 DEF RecoveryConfirmed, SelectorEmpty, Finding, DegradedStatus
  <2> QED
    BY <2>1, <2>2 DEF SelectorRecovered
<1>7. CASE \E s \in Sources : ~Runs /\ f = Unused(s)
  <2>1. PICK s \in Sources : ~Runs /\ f = Unused(s)
    BY <1>7
  <2>2. UnusedRecovered(gaps, s)
    BY <2>1 DEF RecoveryConfirmed, Unused, Finding, DegradedStatus
  <2> QED
    BY <2>1, <2>2 DEF UnusedRecovered, Consumed, Matched, Resolved, Runs
<1>8. present \subseteq Sources /\ Silent \subseteq present
  BY DEF TypeOK, Silent
<1>9. \/ (f = Disconnected /\ present = {}) \/ (f = PlanIncompatible /\ Blocked)
      \/ f = Starved /\ Silent = present
      \/ \E s \in lacking : f = MissingField(s)
      \/ \E s \in Sources : f = LagBlind(s)
      \/ \E s \in Silent : f = Degraded(s, feed[s])
      \/ \E s \in Sources \ present : f = SelectorEmpty(s)
      \/ \E s \in Sources : ~Runs /\ f = Unused(s)
  BY <1>8, TrueCases, Zenon
<1> QED
  BY <1>1, <1>2, <1>3, <1>4, <1>5, <1>6, <1>7, <1>9

-----------------------------------------------------------------------------
(* The specification *)

(* What can be found is a known finding. *)
LEMMA TrueIsKnown ==
    ASSUME TypeOK
    PROVE  TrueFindings \subseteq FindingIds
<1>1. \A s \in Silent : s \in Sources /\ feed[s] \in {"stale", "empty"}
  BY DEF TypeOK, Silent, DegradedStatus
<1>2. \A s \in Silent : Degraded(s, feed[s]) \in {Degraded(s, "stale"), Degraded(s, "empty")}
  BY <1>1
<1> QED
  BY <1>1, <1>2 DEF TypeOK, TrueFindings, FindingIds

Truthful == FindingsAreTrue /\ NothingIsMissed /\ RecoveryIsTrue

IInv == TypeOK /\ Truthful

LEMMA InitIInv == ASSUME FindingLifecycleAssumption, Init PROVE IInv
<1>1. report.findings = {} /\ report.recovered = {} /\ report.complete = FALSE
  BY DEF Init, NoReport
<1>2. report.complete \in BOOLEAN
  BY <1>1, Zenon
<1>3. TypeOK
  BY <1>1, <1>2 DEF FindingLifecycleAssumption, Init, TypeOK, DegradedStatus
<1>4. Truthful
  BY <1>1 DEF Truthful, FindingsAreTrue, NothingIsMissed, RecoveryIsTrue
<1> QED
  BY <1>3, <1>4 DEF IInv

LEMMA ScanIInv ==
    ASSUME IInv, NEW gaps \in Losses, NEW saves, Scan(gaps, saves)
    PROVE  IInv'
<1> DEFINE over == {f \in active \ Findings(gaps) : RecoveryConfirmed(gaps, f)}
<1>1. /\ report'.findings = Findings(gaps) /\ report'.recovered = over
      /\ report'.complete = (gaps = {})
      /\ UNCHANGED world
  BY DEF Scan
<1>2. active' \subseteq active \cup Findings(gaps)
  BY DEF Scan
<1>3. TypeOK
  BY DEF IInv
<1>4. Findings(gaps) \subseteq TrueFindings /\ TrueFindings \subseteq FindingIds
  BY <1>3, FoundIsTrue, TrueIsKnown
<1>5. TrueFindings' = TrueFindings /\ Overshadowed' = Overshadowed
  BY <1>1 DEF world, TrueFindings, Overshadowed, Silent, Runs, Blocked
<1>6. TypeOK'
  BY <1>1, <1>2, <1>3, <1>4 DEF TypeOK, world
<1>7. FindingsAreTrue'
  BY <1>1, <1>4, <1>5 DEF FindingsAreTrue
<1>8. NothingIsMissed'
  <2>1. TrueFindings \ Overshadowed \subseteq Findings({})
    BY <1>3, AllIsFound
  <2>2. ASSUME report'.complete
        PROVE  (TrueFindings \ Overshadowed)' \subseteq report'.findings
    <3>1. gaps = {}
      BY <1>1, <2>2, Zenon
    <3> QED
      BY <1>1, <1>5, <2>1, <3>1
  <2> QED
    BY <2>2 DEF NothingIsMissed
<1>9. RecoveryIsTrue'
  BY <1>1, <1>3, <1>5, ConfirmedIsOver DEF RecoveryIsTrue
<1> QED
  BY <1>6, <1>7, <1>8, <1>9 DEF IInv, Truthful

(* When the world changes, no report stands. *)
LEMMA ChangeIInv ==
    ASSUME Change, TypeOK' PROVE IInv'
<1>1. report' = NoReport
  BY DEF Change
<1> QED
  BY <1>1 DEF IInv, Truthful, NoReport, FindingsAreTrue, NothingIsMissed, RecoveryIsTrue

LEMMA NextIInv ==
    ASSUME FindingLifecycleAssumption, IInv, [Next]_vars
    PROVE  IInv'
<1> USE DEF FindingLifecycleAssumption
<1>1. ASSUME NEW gaps \in Losses, NEW saves, Scan(gaps, saves)
      PROVE  IInv'
  BY <1>1, ScanIInv
<1>2. ASSUME Change
      PROVE  /\ changes' \in 0..MaxChanges /\ active' \subseteq FindingIds
             /\ report'.findings \subseteq FindingIds /\ report'.recovered \subseteq FindingIds
             /\ report'.complete \in BOOLEAN
  <2>1. report'.findings = {} /\ report'.recovered = {} /\ report'.complete = FALSE
    BY <1>2 DEF Change, NoReport
  <2>2. report'.complete \in BOOLEAN
    BY <2>1, Zenon
  <2>3. changes' \in 0..MaxChanges
    BY <1>2 DEF Change, IInv, TypeOK
  <2> QED
    BY <1>2, <2>1, <2>2, <2>3 DEF Change, IInv, TypeOK
<1>3. CASE Switch
  <2>1. Change
    BY <1>3 DEF Switch
  <2>2. TypeOK'
    BY <1>2, <1>3, <2>1 DEF Switch, IInv, TypeOK
  <2> QED
    BY <2>1, <2>2, ChangeIInv
<1>4. ASSUME NEW s \in Sources, Relist(s) PROVE IInv'
  <2>1. Change
    BY <1>4 DEF Relist
  <2>2. TypeOK'
    BY <1>2, <1>4, <2>1 DEF Relist, IInv, TypeOK
  <2> QED
    BY <2>1, <2>2, ChangeIInv
<1>5. ASSUME NEW s \in Sources, Remap(s) PROVE IInv'
  <2>1. Change
    BY <1>5 DEF Remap
  <2>2. TypeOK'
    BY <1>2, <1>5, <2>1 DEF Remap, IInv, TypeOK
  <2> QED
    BY <2>1, <2>2, ChangeIInv
<1>6. ASSUME NEW s \in Sources, Delay(s) PROVE IInv'
  <2>1. Change
    BY <1>6 DEF Delay
  <2>2. TypeOK'
    BY <1>2, <1>6, <2>1 DEF Delay, IInv, TypeOK
  <2> QED
    BY <2>1, <2>2, ChangeIInv
<1>7. ASSUME NEW s \in Sources, NEW f \in {"ok"} \cup DegradedStatus, Feed(s, f) PROVE IInv'
  <2>1. Change
    BY <1>7 DEF Feed
  <2>2. TypeOK'
    BY <1>2, <1>7, <2>1 DEF Feed, IInv, TypeOK
  <2> QED
    BY <2>1, <2>2, ChangeIInv
<1>8. ASSUME NEW s \in Sources, Replan(s) PROVE IInv'
  <2>1. Change
    BY <1>8 DEF Replan
  <2>2. TypeOK'
    BY <1>2, <1>8, <2>1 DEF Replan, IInv, TypeOK
  <2> QED
    BY <2>1, <2>2, ChangeIInv
<1>9. CASE UNCHANGED vars
  <2>1. TypeOK'
    BY <1>9 DEF vars, world, IInv, TypeOK
  <2>2. Truthful'
    BY <1>9 DEF vars, world, IInv, Truthful, FindingsAreTrue, NothingIsMissed, RecoveryIsTrue,
                TrueFindings, Overshadowed, Silent, Runs, Blocked
  <2> QED
    BY <2>1, <2>2 DEF IInv
<1> QED
  BY <1>1, <1>3, <1>4, <1>5, <1>6, <1>7, <1>8, <1>9 DEF Next

LEMMA SpecIInv == Spec => []IInv
<1>1. Init => IInv
  BY InitIInv, FindingLifecycleAssumption
<1>2. IInv /\ [Next]_vars => IInv'
  BY NextIInv, FindingLifecycleAssumption
<1> QED
  BY <1>1, <1>2, PTL DEF Spec

(* Types, for all constants. *)
THEOREM LifecycleTypes == Spec => []TypeOK
  BY SpecIInv, PTL DEF IInv

(* No scan reports a finding that is not true of the rule and its sources,     *)
(* whatever evidence it lacks.                                                 *)
THEOREM NoFalseFinding == Spec => []FindingsAreTrue
  BY SpecIInv, PTL DEF IInv, Truthful

(* A scan with all its evidence reports all that is wrong, except what a       *)
(* starved rule overshadows.                                                   *)
THEOREM NoMissedFinding == Spec => []NothingIsMissed
  BY SpecIInv, PTL DEF IInv, Truthful

(* No scan reports a finding as recovered that is still true, but for lag.     *)
THEOREM NoFalseRecovery == Spec => []RecoveryIsTrue
  BY SpecIInv, PTL DEF IInv, Truthful

-----------------------------------------------------------------------------
(* Downtime *)

(* Division by the slots of a day. *)
LEMMA Divides ==
    ASSUME NEW k \in Nat \ {0}, NEW q \in Nat, NEW r \in 0..(k - 1)
    PROVE  (q * k + r) \div k = q /\ (q * k + r) % k = r
  OBVIOUS

(* Different multiples of k lie k apart. *)
LEMMA Bigger ==
    ASSUME NEW k \in Nat \ {0}, NEW a \in Int, NEW b \in Int, a < b
    PROVE  a * k + k <= b * k
<1>1. PICK n \in Nat : b = a + 1 + n
  <2>1. b - a - 1 \in Nat /\ b = a + 1 + (b - a - 1)
    OBVIOUS
  <2> QED BY <2>1
<1>2. b * k = a * k + k + n * k
  BY <1>1
<1>3. n * k >= 0
  OBVIOUS
<1> QED BY <1>2, <1>3

(* A time is a day and a slot of it. *)
LEMMA Splits ==
    ASSUME NEW k \in Nat \ {0}, NEW n \in Nat, NEW t \in 0..(n * k - 1)
    PROVE  \E q \in 0..(n - 1), r \in 0..(k - 1) : q = t \div k /\ r = t % k /\ t = q * k + r
<1>0. n * k \in Nat /\ t \in Nat /\ t < n * k
  OBVIOUS
<1>1. PICK q \in Int, r \in 0..(k - 1) : q = t \div k /\ r = t % k /\ t = k * q + r
  OBVIOUS
<1>2. PICK p \in Int, m \in Int : p = k * q /\ p = q * k /\ m = n * k
  BY <1>0
<1>3. t = p + r /\ t < m /\ t >= 0
  BY <1>0, <1>1, <1>2
<1>4. q >= 0
  <2> SUFFICES ASSUME q < 0 PROVE FALSE
    OBVIOUS
  <2>1. q * k + k <= 0 * k
    BY Bigger
  <2>2. p + k <= 0
    BY <1>2, <2>1
  <2> QED BY <1>3, <2>2
<1>5. q < n
  <2> SUFFICES ASSUME n <= q PROVE FALSE
    OBVIOUS
  <2>1. n * k + k <= (q + 1) * k
    BY Bigger
  <2>2. (q + 1) * k = q * k + k
    OBVIOUS
  <2>3. m + k <= p + k
    BY <1>2, <2>1, <2>2
  <2> QED BY <1>2, <1>3, <2>3
<1>6. q \in 0..(n - 1)
  BY <1>4, <1>5
<1>7. t = q * k + r
  BY <1>2, <1>3
<1>8. q = t \div k /\ r = t % k
  BY <1>1
<1> QED BY <1>6, <1>7, <1>8

(* A slot later it is the next one of the day, or the first one of the next day. *)
LEMMA NextSlot ==
    ASSUME Slots \in Nat \ {0}, NEW t \in Times, NEW u, u = (t + 1) % (Week * Slots)
    PROVE  /\ u \in Times
           /\ Clock(t) \in 0..(Slots - 1) /\ Weekday(t) \in 0..(Week - 1)
           /\ Clock(t) < Slots - 1 =>
                  Clock(u) = Clock(t) + 1 /\ Weekday(u) = Weekday(t)
           /\ Clock(t) = Slots - 1 =>
                  Clock(u) = 0 /\ Weekday(t) = (Weekday(u) + Week - 1) % Week
<1> USE DEF Week
<1>1. PICK q \in 0..6, r \in 0..(Slots - 1) :
          q = Weekday(t) /\ r = Clock(t) /\ t = q * Slots + r
  <2>1. t \in 0..(7 * Slots - 1)
    BY DEF Times
  <2> QED BY <2>1, Splits DEF Weekday, Clock
<1>2. 7 * Slots \in Nat \ {0} /\ t + 1 \in 0..(7 * Slots)
  BY DEF Times
<1>3. u = IF t + 1 = 7 * Slots THEN 0 ELSE t + 1
  <2>1. CASE t + 1 = 7 * Slots
    <3>1. u = (1 * (7 * Slots) + 0) % (7 * Slots)
      BY <1>2, <2>1
    <3>2. (1 * (7 * Slots) + 0) % (7 * Slots) = 0
      BY <1>2, Divides
    <3> QED BY <2>1, <3>1, <3>2
  <2>2. CASE t + 1 # 7 * Slots
    <3>1. t + 1 \in 0..(7 * Slots - 1)
      BY <1>2, <2>2
    <3>2. (0 * (7 * Slots) + (t + 1)) % (7 * Slots) = t + 1
      BY <1>2, <3>1, Divides
    <3> QED BY <1>2, <2>2, <3>2
  <2> QED BY <2>1, <2>2
<1>4. u \in Times
  BY <1>2, <1>3 DEF Times
<1>5. CASE r < Slots - 1
  <2>1. q * Slots + Slots <= 7 * Slots
    BY Bigger
  <2>2. q * Slots \in Nat
    OBVIOUS
  <2>3. u = q * Slots + (r + 1) /\ r + 1 \in 0..(Slots - 1)
    BY <1>1, <1>2, <1>3, <1>5, <2>1, <2>2
  <2>4. (q * Slots + (r + 1)) \div Slots = q /\ (q * Slots + (r + 1)) % Slots = r + 1
    <3> q \in Nat /\ r + 1 \in 0..(Slots - 1)
      BY <2>3
    <3> QED BY Divides
  <2>5. u \div Slots = q /\ u % Slots = r + 1
    BY <2>3, <2>4, Zenon
  <2> QED BY <1>1, <1>4, <1>5, <2>5 DEF Clock, Weekday
<1>6. CASE r = Slots - 1
  <2>1. t + 1 = (q + 1) * Slots
    BY <1>1, <1>6
  <2>2. CASE q = 6
    <3>1. u = 0 * Slots + 0
      BY <1>2, <1>3, <2>1, <2>2
    <3>2. u \div Slots = 0 /\ u % Slots = 0
      BY <3>1, Divides
    <3> QED BY <1>1, <1>4, <1>6, <2>2, <3>2 DEF Clock, Weekday
  <2>3. CASE q # 6
    <3>1. q + 1 \in 0..6 /\ (q + 1) * Slots + Slots <= 7 * Slots /\ (q + 1) * Slots \in Nat
      BY <2>3, Bigger
    <3>2. u = (q + 1) * Slots + 0
      BY <1>2, <1>3, <2>1, <3>1
    <3>3. ((q + 1) * Slots + 0) \div Slots = q + 1 /\ ((q + 1) * Slots + 0) % Slots = 0
      BY <3>1, Divides
    <3>4. u \div Slots = q + 1 /\ u % Slots = 0
      BY <3>2, <3>3, Zenon
    <3>5. (q + 1 + 7 - 1) % 7 = q
      BY <2>3
    <3> QED BY <1>1, <1>4, <1>6, <3>4, <3>5 DEF Clock, Weekday
  <2> QED BY <2>2, <2>3
<1> QED BY <1>1, <1>5, <1>6

(* A window is open exactly when Matches says so. *)
DowntimeInv ==
    /\ window \in Window /\ now \in Times
    /\ open \in BOOLEAN /\ (open <=> Matches(window, now))
    /\ MaintenanceIsDeclared

(* What Pass goes by, the edges of a window, is what Matches tells of any time. *)
LEMMA PassOpens ==
    ASSUME Slots \in Nat \ {0}, NEW w \in Window, NEW t \in Times,
           NEW u, u = (t + 1) % (Week * Slots)
    PROVE  /\ Clock(u) = w.start => (Matches(w, u) <=> OnDay(w, Weekday(u)))
           /\ Clock(u) # w.start => (Matches(w, u) <=> Matches(w, t) /\ Clock(u) # w.end)
<1>1. /\ Clock(t) \in 0..(Slots - 1) /\ Weekday(t) \in 0..(Week - 1)
      /\ Clock(t) < Slots - 1 =>
             Clock(u) = Clock(t) + 1 /\ Weekday(u) = Weekday(t)
      /\ Clock(t) = Slots - 1 =>
             Clock(u) = 0 /\ Weekday(t) = (Weekday(u) + Week - 1) % Week
  BY NextSlot
<1>2. w.start \in 0..(Slots - 1) /\ w.end \in 0..(Slots - 1) /\ w.start # w.end
  BY DEF Window
<1>3. CASE Clock(u) = w.start
  BY <1>2, <1>3 DEF Matches, Within, Overnight
<1>4. CASE Clock(u) # w.start /\ Clock(t) < Slots - 1
  BY <1>1, <1>2, <1>4 DEF Matches, Within, Overnight
<1>5. CASE Clock(u) # w.start /\ Clock(t) = Slots - 1
  BY <1>1, <1>2, <1>5 DEF Matches, Within, Overnight
<1> QED BY <1>1, <1>3, <1>4, <1>5

LEMMA DowntimeStarts ==
    ASSUME DowntimeAssumption, DowntimeInit PROVE DowntimeInv
<1>1. window \in Window /\ now \in Times /\ ~open /\ open \in BOOLEAN
  BY DEF DowntimeAssumption, DowntimeInit
<1>2. Clock(now) = window.end /\ status = "none"
  BY DEF DowntimeInit
<1>3. window.start \in 0..(Slots - 1) /\ window.end \in 0..(Slots - 1) /\ window.start # window.end
  BY <1>1 DEF Window
<1>4. ~Matches(window, now)
  BY <1>2, <1>3, DowntimeAssumption DEF Matches, Within, Overnight
<1> QED BY <1>1, <1>2, <1>4 DEF DowntimeInv, MaintenanceIsDeclared

LEMMA DowntimeKeeps ==
    ASSUME DowntimeAssumption, DowntimeInv, DowntimeNext PROVE DowntimeInv'
<1>1. CASE Pass
  <2>1. /\ now' = (now + 1) % (Week * Slots) /\ window' = window /\ status' = "none"
        /\ window \in Window /\ now \in Times /\ Slots \in Nat \ {0}
    BY <1>1 DEF Pass, DowntimeInv, DowntimeAssumption
  <2>2. now' \in Times
    BY <2>1, NextSlot
  <2>3. /\ Clock(now') = window.start =>
               (Matches(window, now') <=> OnDay(window, Weekday(now')))
        /\ Clock(now') # window.start =>
               (Matches(window, now') <=> Matches(window, now) /\ Clock(now') # window.end)
    BY <2>1, PassOpens
  <2>4. open' = IF Clock(now') = window.start THEN OnDay(window, Weekday(now'))
                ELSE open /\ Clock(now') # window.end
    BY <1>1 DEF Pass
  <2>5. open' <=> Matches(window, now')
    BY <2>3, <2>4 DEF DowntimeInv
  <2>6. open' \in BOOLEAN
    BY <2>4 DEF OnDay
  <2> QED BY <2>1, <2>2, <2>5, <2>6 DEF DowntimeInv, MaintenanceIsDeclared
<1>2. CASE Evaluate
  BY <1>2 DEF Evaluate, DowntimeInv, MaintenanceIsDeclared
<1> QED BY <1>1, <1>2 DEF DowntimeNext

-----------------------------------------------------------------------------
(* Gate: types, and what the backends know *)

(* The outcome stands only as long as its world, so the property needs no more than types. *)
Outcome ==
    [kind: {"none", "installed", "candidate", "diff"}, code: {"none", "healthy", "findings", "error"},
     complete: BOOLEAN, excused: BOOLEAN]

GateTypeOK ==
    /\ TypeOK
    /\ backend \in {"elastic", "sentinel"}
    /\ longer \subseteq Sources
    /\ backend = "elastic" => longer = {}
    /\ expired \in BOOLEAN
    /\ outcome \in Outcome

GateInv == GateTypeOK /\ ExitIsTrue

(* What only rules have is shown by either backend as it is. *)
LEMMA RuleIsShown ==
    ASSUME NEW X, NEW f \in RuleFindings
    PROVE  f \in Shown(X) <=> f \in X
<1>1. f.class # "source-degraded" /\ f.reason \notin {"unused", "empty"}
  BY DEF RuleFindings, Disconnected, PlanIncompatible, Starved, MissingField, LagBlind,
         SelectorEmpty, Finding
<1>2. \A s : Degraded(s, "stale").class = "source-degraded"
  BY DEF Degraded, Finding
<1> QED BY <1>1, <1>2 DEF Shown

(* Of more findings no fewer are shown. *)
LEMMA ShownGrows ==
    ASSUME NEW X, NEW Y, X \subseteq Y
    PROVE  Shown(X) \subseteq Shown(Y)
  BY DEF Shown

(* The policy counts a finding as it is wanted. *)
LEMMA GatesIsWanted == ASSUME NEW f PROVE Gates(f) <=> Wanted(f)
  BY Zenon DEF Gates, Wanted, Accepted

(* What Sentinel does not know hides nothing of the rule's input. *)
LEMMA InputIsSame ==
    ASSUME NEW gaps
    PROVE  /\ gaps \subseteq GapsOf(gaps)
           /\ Matched(GapsOf(gaps)) = Matched(gaps) /\ Listed(GapsOf(gaps)) = Listed(gaps)
           /\ Uncertain(GapsOf(gaps)) <=> Uncertain(gaps)
           /\ Incompatible(GapsOf(gaps)) <=> Incompatible(gaps)
           /\ \A s : Sampled(GapsOf(gaps), s) <=> Sampled(gaps, s)
           /\ \A s : <<"downtime", s>> \in GapsOf(gaps) <=> <<"downtime", s>> \in gaps
<1>1. \A k \in {"resolution", "diagnostic", "inventory", "lag", "downtime"} : \A s :
          <<k, s>> \in GapsOf(gaps) <=> <<k, s>> \in gaps
  BY DEF GapsOf
<1>2. Inventory(GapsOf(gaps)) = Inventory(gaps) /\ Resolved(GapsOf(gaps)) = Resolved(gaps)
  BY <1>1 DEF Inventory, Resolved
<1>3. Matched(GapsOf(gaps)) = Matched(gaps) /\ Listed(GapsOf(gaps)) = Listed(gaps)
  BY <1>2 DEF Matched, Listed
<1>4. /\ Uncertain(GapsOf(gaps)) <=> Uncertain(gaps)
      /\ Incompatible(GapsOf(gaps)) <=> Incompatible(gaps)
  BY <1>1, <1>2 DEF Uncertain, Incompatible
<1>5. \A s : Sampled(GapsOf(gaps), s) <=> Sampled(gaps, s)
  BY <1>1, <1>3 DEF Sampled
<1>6. gaps \subseteq GapsOf(gaps)
  BY DEF GapsOf
<1> QED BY <1>1, <1>3, <1>4, <1>5, <1>6

(* A status that can be told is the source's own. *)
LEMMA KnownStatus ==
    ASSUME TypeOK, NEW gaps, NEW s \in present,
           <<"health", s>> \notin gaps, <<"downtime", s>> \notin gaps
    PROVE  Status(gaps, s) = feed[s]
<1>1. CASE feed[s] = "ok"
  BY <1>1 DEF Status
<1>2. CASE feed[s] # "ok"
  BY <1>2 DEF Status
<1> QED BY <1>1, <1>2

(* While one source is well, no gap makes a rule starved. *)
LEMMA OneIsWell ==
    ASSUME TypeOK, NEW gaps, Assessable(gaps), Runs, Silent # present
    PROVE  Live(gaps)
<1>1. Matched(gaps) = present /\ present # {}
  BY AssessedReadsAll DEF Runs
<1>2. PICK s \in present : feed[s] \notin DegradedStatus
  BY DEF Silent
<1>3. Status(gaps, s) \notin DegradedStatus
  BY <1>2, StatusIsTrue
<1> QED BY <1>1, <1>2, <1>3 DEF Live, AllDegraded

-----------------------------------------------------------------------------
(* A scan with all its evidence finds all that its backend can know. *)

(* With all its evidence a scan finds what is true, but for what its backend cannot know. *)
LEMMA KnowableIsFound ==
    ASSUME GateTypeOK
    PROVE  TrueFindings \ (Unknowable \cup Overshadowed) \subseteq Findings(GapsOf({}))
<1> DEFINE G == GapsOf({})
<1>1. TypeOK
  BY DEF GateTypeOK
<1>2. CASE backend = "elastic"
  <2>1. GapsOf({}) = {}
    BY <1>2 DEF GapsOf
  <2> QED BY <1>1, <2>1, AllIsFound
<1>3. CASE backend = "sentinel"
  <2>1. /\ Matched({}) = IF Blocked THEN {} ELSE present
        /\ Listed({}) = present \cap InScope
        /\ ~Uncertain({}) /\ (Incompatible({}) <=> Blocked)
    BY DEF Matched, Listed, Inventory, Resolved, Uncertain, Incompatible
  <2>2. /\ Matched(G) = IF Blocked THEN {} ELSE present
        /\ Listed(G) = present \cap InScope
        /\ ~Uncertain(G) /\ (Assessable(G) <=> enabled) /\ (Incompatible(G) <=> Blocked)
    BY <2>1, InputIsSame DEF Assessable
  <2>3. Runs => \A s \in Sources : <<"health", s>> \in G <=> s \in Unsettled \/ s \notin present
    BY <1>3, <2>1 DEF GapsOf, Unmeasured, Consumed, Unsettled, Runs
  <2>4. \A s \in present : Runs /\ s \notin Unsettled => Status(G, s) = feed[s]
    <3> SUFFICES ASSUME NEW s \in present, Runs, s \notin Unsettled
                 PROVE  Status(G, s) = feed[s]
      OBVIOUS
    <3>1. <<"health", s>> \notin G
      BY <1>1, <2>3 DEF TypeOK
    <3>2. <<"downtime", s>> \notin G
      BY InputIsSame
    <3> QED BY <1>1, <3>1, <3>2, KnownStatus
  <2> HIDE DEF G
  <2> SUFFICES ASSUME NEW f \in TrueFindings, f \notin Unknowable, f \notin Overshadowed
               PROVE  f \in Findings(G)
    BY DEF G
  <2>5. CASE \/ f \in {Disconnected} /\ enabled /\ present = {}
             \/ f \in {PlanIncompatible} /\ enabled /\ Blocked
    BY <2>2, <2>5 DEF Findings, DeadFindings, Blocked
  <2>6. CASE f = Starved /\ Runs /\ Silent = present
    <3>1. Unsettled = {}
      BY <2>6 DEF Unknowable
    <3>2. AllDegraded(G)
      BY <2>2, <2>4, <2>6, <3>1 DEF AllDegraded, Silent, Runs
    <3> QED BY <2>2, <2>6, <3>2 DEF Findings, DeadFindings, Runs
  <2>7. CASE \E s \in present \cap lacking : f = MissingField(s)
    BY <1>3, <2>7 DEF Unknowable, MissingField, Finding
  <2>8. CASE \E s \in present \cap lagging : Runs /\ feed[s] # "empty" /\ f = LagBlind(s)
    <3>1. PICK s \in present \cap lagging : Runs /\ feed[s] # "empty" /\ f = LagBlind(s)
      BY <2>8
    <3>2. Starved \notin TrueFindings
      BY <1>1, <3>1 DEF Overshadowed, TypeOK
    <3>3. Silent # present
      BY <3>1, <3>2 DEF TrueFindings
    <3>4. Live(G)
      BY <1>1, <2>2, <3>1, <3>3, OneIsWell DEF Runs
    <3>5. Sampled({}, s)
      BY <2>1, <3>1 DEF Sampled, Runs
    <3>6. Sampled(G, s)
      BY <3>5, InputIsSame DEF G
    <3> QED BY <3>1, <3>4, <3>6 DEF Findings, ImpairedFindings
  <2>9. CASE \E s \in Silent \cap InScope : f = Degraded(s, feed[s])
    <3>1. PICK s \in Silent \cap InScope : f = Degraded(s, feed[s])
      BY <2>9
    <3>2. s \in present /\ feed[s] \in DegradedStatus
      BY DEF Silent
    <3>3. f.reason = feed[s] /\ f.source = s
      BY <3>1 DEF Degraded, Finding
    <3>4. Runs /\ s \notin Unsettled
      BY <1>3, <3>2, <3>3 DEF Unknowable
    <3>5. s \in Listed(G) /\ Status(G, s) = feed[s]
      BY <2>2, <2>4, <3>2, <3>4
    <3>6. f \in SourceFindings(G)
      BY <3>1, <3>2, <3>5 DEF SourceFindings
    <3> QED BY <3>6 DEF Findings
  <2>10. CASE \E s \in Sources \ present : Runs /\ f = SelectorEmpty(s)
    BY <2>2, <2>10 DEF Findings, PartialFindings, Runs
  <2>11. CASE \E s \in present \cap InScope : f = Unused(s)
    BY <1>3, <2>11 DEF Unknowable, Unused, Finding
  <2> QED
    BY <2>5, <2>6, <2>7, <2>8, <2>9, <2>10, <2>11 DEF TrueFindings
<1> QED BY <1>2, <1>3 DEF GateTypeOK

(* A candidate whose input was assessed shows whatever is wrong with its rule. *)
LEMMA CandidateIsFound ==
    ASSUME GateTypeOK, NEW gaps, NEW failing, ~Excused(gaps),
           CandidateExitCode(gaps, failing) = "healthy",
           NEW f \in TrueFindings \cap RuleFindings,
           f = Starved \/ f \notin Unknowable \cup Overshadowed
    PROVE  f \in GateFindings(gaps)
<1> DEFINE G == GapsOf(gaps)
<1>1. TypeOK
  BY DEF GateTypeOK
<1>2. /\ ResolutionAssessed(gaps) /\ ~Uncertain(gaps)
      /\ backend = "sentinel" /\ Resolved(gaps) # {} => FreshnessAssessed(gaps)
      /\ ~FieldsIncomplete(gaps) /\ ~LagIncomplete(gaps)
  BY DEF CandidateExitCode
<1>3. enabled /\ Assessable(gaps)
  BY <1>2 DEF ResolutionAssessed, Assessable
<1>4. /\ Assessable(G) /\ (Incompatible(G) <=> Blocked)
      /\ Matched(G) = IF Blocked THEN {} ELSE present
      /\ Matched(gaps) = IF Blocked THEN {} ELSE present
  BY <1>2, <1>3, InputIsSame, AssessedReadsAll DEF Assessable
<1>5. \A s : <<"downtime", s>> \notin G \/ s \notin Sources
  BY InputIsSame DEF Excused
<1> SUFFICES f \in Findings(G)
  BY RuleIsShown DEF GateFindings
<1>6. CASE (f = Disconnected /\ present = {}) \/ (f = PlanIncompatible /\ Blocked)
  BY <1>4, <1>6 DEF Findings, DeadFindings, Blocked
<1>7. CASE f = Starved /\ Runs /\ Silent = present
  <2>1. \A s \in present : <<"health", s>> \notin G
    <3>1. CASE backend = "elastic"
      BY <1>1, <3>1 DEF GapsOf, Excused, TypeOK
    <3>2. CASE backend = "sentinel"
      <4>1. Resolved(gaps) # {}
        BY <1>4, <1>7 DEF Matched, Runs
      <4> QED BY <1>2, <1>4, <1>7, <3>2, <4>1 DEF FreshnessAssessed, Runs
    <3> QED BY <3>1, <3>2 DEF GateTypeOK
  <2>2. \A s \in present : Status(G, s) = feed[s]
    BY <1>1, <1>5, <2>1, KnownStatus DEF TypeOK
  <2>3. AllDegraded(G)
    BY <1>4, <1>7, <2>2 DEF AllDegraded, Silent, Runs
  <2> QED BY <1>4, <1>7, <2>3 DEF Findings, DeadFindings, Runs
<1>8. ASSUME Runs, NEW s \in present, f \in {MissingField(s), LagBlind(s)}
      PROVE  Live(G) /\ f \notin Unknowable
  <2>1. f # Starved
    BY <1>8 DEF MissingField, LagBlind, Starved, Finding
  <2>2. Starved \notin TrueFindings
    BY <1>1, <1>8, <2>1 DEF Overshadowed, TypeOK
  <2>3. Silent # present
    BY <1>8, <2>2 DEF TrueFindings
  <2> QED BY <1>1, <1>4, <1>8, <2>1, <2>3, OneIsWell
<1>9. CASE \E s \in present \cap lacking : Runs /\ f = MissingField(s)
  <2>1. PICK s \in present \cap lacking : Runs /\ f = MissingField(s)
    BY <1>9
  <2>2. Live(G) /\ f \notin Unknowable
    BY <1>8, <2>1
  <2>3. backend = "elastic"
    BY <2>1, <2>2 DEF GateTypeOK, Unknowable, MissingField, Finding
  <2>4. FieldsRead(G)
    BY <1>2, <2>3 DEF FieldsIncomplete, GapsOf
  <2> QED BY <1>4, <2>1, <2>2, <2>4 DEF Findings, ImpairedFindings, Runs
<1>10. CASE \E s \in present \cap lagging : Runs /\ feed[s] # "empty" /\ f = LagBlind(s)
  <2>1. PICK s \in present \cap lagging : Runs /\ feed[s] # "empty" /\ f = LagBlind(s)
    BY <1>10
  <2>2. Live(G)
    BY <1>8, <2>1
  <2>3. Sampled(gaps, s)
    BY <1>2, <1>4, <2>1 DEF LagIncomplete, Runs
  <2>4. Sampled(G, s)
    BY <2>3, InputIsSame
  <2> QED BY <2>1, <2>2, <2>4 DEF Findings, ImpairedFindings
<1>11. CASE \E s \in Sources \ present : Runs /\ f = SelectorEmpty(s)
  BY <1>4, <1>11 DEF Findings, PartialFindings, Runs
<1>12. CASE \/ \E s \in Silent \cap InScope : f = Degraded(s, feed[s])
            \/ \E s \in present \cap InScope : f = Unused(s)
  BY <1>12 DEF RuleFindings, Disconnected, PlanIncompatible, Starved, MissingField, LagBlind,
               SelectorEmpty, Degraded, Unused, Finding
<1>13. CASE \E s \in Silent \cap InScope : f = Degraded(s, feed[s])
  BY <1>12, <1>13
<1>14. CASE \E s \in present \cap InScope : ~Runs /\ f = Unused(s)
  BY <1>12, <1>14
<1>15. f \in TrueFindings
  OBVIOUS
<1> QED
  BY <1>6, <1>7, <1>9, <1>10, <1>11, <1>13, <1>14, <1>15, TrueCases

-----------------------------------------------------------------------------
(* The exit code *)

gateWorld == <<enabled, present, feed, lacking, lagging, unfit, changes, report, active,
               backend, longer, policy, expired, baseline>>

(* Between two changes of the world, what is true, due and wanted stays so. *)
LEMMA GateWorldStands ==
    ASSUME UNCHANGED gateWorld
    PROVE  /\ TrueFindings' = TrueFindings
           /\ Shown(TrueFindings)' = Shown(TrueFindings)
           /\ Due' = {f \in Shown(TrueFindings \ (Unknowable \cup Overshadowed)) : Wanted(f)}
                         \ Excepted'
           /\ \A f : Wanted(f)' <=> Wanted(f)
<1> USE DEF gateWorld
<1>1. TrueFindings' = TrueFindings /\ (Runs' <=> Runs)
  BY DEF TrueFindings, Silent, Runs, Blocked
<1>2. Unknowable' = Unknowable
  BY <1>1 DEF Unknowable, Unsettled
<1>3. Overshadowed' = Overshadowed
  BY <1>1 DEF Overshadowed
<1>4. Shown(TrueFindings)' = Shown(TrueFindings)
  BY <1>1 DEF Shown
<1>5. Shown(TrueFindings \ (Unknowable \cup Overshadowed))' =
          Shown(TrueFindings \ (Unknowable \cup Overshadowed))
  BY <1>1, <1>2, <1>3 DEF Shown
<1>6. \A f : Wanted(f)' <=> Wanted(f)
  BY DEF Wanted
<1>7. Due' = {f \in Shown(TrueFindings \ (Unknowable \cup Overshadowed)) : Wanted(f)} \ Excepted'
  BY <1>5, <1>6 DEF Due
<1> QED BY <1>1, <1>4, <1>6, <1>7

(* Without a gate that has exited there is nothing to be wrong about. *)
LEMMA NoOutcomeIsTrue ==
    /\ outcome = NoOutcome => ExitIsTrue /\ outcome \in Outcome
    /\ outcome' = NoOutcome => ExitIsTrue' /\ outcome' \in Outcome
<1>1. /\ NoOutcome.code = "none" /\ NoOutcome.kind = "none"
      /\ NoOutcome \in Outcome
  BY Zenon DEF NoOutcome, Outcome
<1> QED BY <1>1 DEF ExitIsTrue

(* The step that exits: the code follows from the findings as the property asks. *)
LEMMA ExitStep ==
    ASSUME GateInv, NEW gaps \in GateLosses,
           GateScan(gaps, Failing(gaps)) \/ Compare(gaps, Failing(gaps))
    PROVE  ExitIsTrue' /\ outcome' \in Outcome
<1> DEFINE failing == Failing(gaps)
           due == {f \in Shown(TrueFindings \ (Unknowable \cup Overshadowed)) : Wanted(f)}
<1>1. TypeOK /\ GateTypeOK
  BY DEF GateInv, GateTypeOK
<1>2. PICK kind \in {"installed", "candidate", "diff"},
          code \in {"healthy", "findings", "error"} :
          /\ Exit(kind, code, gaps)
          /\ kind = "installed" => code = ExitCode(failing)
          /\ kind = "candidate" => code = CandidateExitCode(gaps, failing)
          /\ kind = "diff" => code = IF Regressions(failing) # {} THEN "findings" ELSE "healthy"
  BY DEF GateScan, Compare, ExitCode, CandidateExitCode
<1>3. UNCHANGED gateWorld
  BY DEF GateScan, Compare, gateWorld
<1>4. /\ outcome'.kind = kind /\ outcome'.code = code
      /\ outcome'.complete <=> gaps = {}
      /\ outcome'.excused <=> Excused(gaps)
  BY <1>2 DEF Exit
<1>5. outcome' \in Outcome
  <2>1. (gaps = {}) \in BOOLEAN /\ Excused(gaps) \in BOOLEAN
    BY DEF Excused
  <2> QED BY <1>2, <2>1 DEF Exit, Outcome
<1>6. Excepted' = IF kind = "diff" THEN baseline ELSE {}
  BY <1>3, <1>4 DEF Excepted, gateWorld
<1>7. /\ Shown(TrueFindings)' = Shown(TrueFindings)
      /\ TrueFindings' = TrueFindings
      /\ Due' = due \ Excepted'
      /\ \A f : Wanted(f)' <=> Wanted(f)
  BY <1>3, GateWorldStands
<1>8. \A f \in failing : f \in Shown(TrueFindings) /\ Wanted(f)
  <2>1. GateFindings(gaps) \subseteq Shown(TrueFindings)
    BY <1>1, FoundIsTrue, ShownGrows DEF GateFindings
  <2> QED BY <2>1, GatesIsWanted DEF Failing
<1>9. gaps = {} => due \subseteq failing
  <2>1. gaps = {} => Shown(TrueFindings \ (Unknowable \cup Overshadowed)) \subseteq GateFindings(gaps)
    BY <1>1, KnowableIsFound, ShownGrows DEF GateFindings
  <2> QED BY <2>1, GatesIsWanted DEF Failing
<1> HIDE DEF failing
<1>10. ASSUME code = "findings"
       PROVE  \E f \in Shown(TrueFindings) \ Excepted' :
                  Wanted(f) /\ (kind = "candidate" => f \in RuleFindings)
  <2>1. CASE kind = "installed"
    BY <1>2, <1>6, <1>8, <1>10, <2>1 DEF ExitCode
  <2>2. CASE kind = "candidate"
    <3>1. failing \cap RuleFindings # {}
      BY <1>2, <1>10, <2>2 DEF CandidateExitCode
    <3> QED BY <1>6, <1>8, <2>2, <3>1
  <2>3. CASE kind = "diff"
    <3>1. failing \ baseline # {}
      BY <1>2, <1>10, <2>3 DEF Regressions
    <3> QED BY <1>6, <1>8, <2>3, <3>1
  <2> QED BY <1>2, <2>1, <2>2, <2>3
<1>11. ASSUME code = "healthy", gaps = {}
       PROVE  (due \ Excepted') \cap (IF kind = "candidate" THEN RuleFindings ELSE FindingIds) = {}
  <2>1. CASE kind = "installed"
    BY <1>2, <1>9, <1>11, <2>1 DEF ExitCode
  <2>2. CASE kind = "candidate"
    <3>1. failing \cap RuleFindings = {}
      BY <1>2, <1>11, <2>2 DEF CandidateExitCode
    <3> QED BY <1>9, <1>11, <2>2, <3>1
  <2>3. CASE kind = "diff"
    BY <1>2, <1>6, <1>9, <1>11, <2>3 DEF Regressions
  <2> QED BY <1>2, <2>1, <2>2, <2>3
<1>12. ASSUME code = "healthy", kind = "candidate", ~Excused(gaps),
              NEW f \in RuleFindings,
              f \in due \ Excepted' \/ (f \in TrueFindings \cap {Starved} /\ Wanted(f))
       PROVE  FALSE
  <2>1. f \in TrueFindings /\ Wanted(f) /\ (f = Starved \/ f \notin Unknowable \cup Overshadowed)
    <3>1. CASE f \in due
      BY <3>1, RuleIsShown
    <3>2. CASE f \notin due
      BY <1>12, <3>2
    <3> QED BY <3>1, <3>2
  <2>2. CandidateExitCode(gaps, failing) = "healthy"
    BY <1>2, <1>12
  <2>3. f \in GateFindings(gaps)
    BY <1>1, <1>12, <2>1, <2>2, CandidateIsFound
  <2>4. f \in failing
    BY <2>1, <2>3, GatesIsWanted DEF failing, Failing
  <2>5. failing \cap RuleFindings = {}
    BY <2>2 DEF CandidateExitCode
  <2> QED BY <1>12, <2>4, <2>5
<1> HIDE DEF due
<1>13. ExitIsTrue'
  <2>1. outcome'.code = "findings" =>
            \E f \in Shown(TrueFindings)' \ Excepted' :
                Wanted(f)' /\ (outcome'.kind = "candidate" => f \in RuleFindings)
    BY <1>4, <1>7, <1>10
  <2>2. outcome'.code = "healthy" /\ outcome'.complete =>
            Due' \cap (IF outcome'.kind = "candidate" THEN RuleFindings ELSE FindingIds) = {}
    BY <1>4, <1>7, <1>11
  <2>3. outcome'.code = "healthy" /\ outcome'.kind = "candidate" /\ ~outcome'.excused =>
            (Due' \cup {f \in TrueFindings' \cap {Starved} : Wanted(f)'}) \cap RuleFindings = {}
    BY <1>4, <1>7, <1>12
  <2>4. RuleFindings' = RuleFindings /\ FindingIds' = FindingIds /\ Starved' = Starved
    BY DEF RuleFindings, FindingIds
  <2> QED BY <2>1, <2>2, <2>3, <2>4 DEF ExitIsTrue
<1> QED BY <1>5, <1>13

LEMMA GateStarts ==
    ASSUME FindingLifecycleAssumption, GateInit PROVE IInv /\ GateInv
<1>1. IInv
  BY InitIInv DEF GateInit
<1>2. outcome = NoOutcome /\ backend \in {"elastic", "sentinel"} /\ longer \subseteq Sources
  BY DEF GateInit
<1>3. (backend = "elastic" => longer = {}) /\ expired = FALSE /\ expired \in BOOLEAN
  BY DEF GateInit
<1> QED BY <1>1, <1>2, <1>3, NoOutcomeIsTrue DEF GateInv, GateTypeOK, IInv

LEMMA GateKeeps ==
    ASSUME FindingLifecycleAssumption, IInv, GateInv, GateNext PROVE IInv' /\ GateInv'
<1>1. ASSUME UNCHANGED <<enabled, present, feed, lacking, lagging, unfit, changes, report, active>>
      PROVE  IInv'
  BY <1>1, NextIInv DEF vars, world
<1>2. CASE Alter
  <2>1. UNCHANGED <<backend, longer, policy, expired, baseline>> /\ outcome' = NoOutcome
    BY <1>2 DEF Alter
  <2>2. Next
    BY <1>2 DEF Alter, Next, DegradedStatus
  <2>3. IInv'
    BY <2>2, NextIInv
  <2> QED BY <2>1, <2>3, NoOutcomeIsTrue DEF GateInv, GateTypeOK, IInv
<1>3. CASE Expire
  <2>1. expired' = TRUE /\ expired' \in BOOLEAN
    BY <1>3 DEF Expire
  <2> QED BY <1>1, <1>3, <2>1, NoOutcomeIsTrue DEF Expire, GateInv, GateTypeOK, IInv
<1>4. CASE Exited
  BY <1>1, <1>4, NoOutcomeIsTrue DEF Exited, GateInv, GateTypeOK, IInv
<1>5. ASSUME NEW gaps \in GateLosses, Judge(gaps) PROVE IInv' /\ GateInv'
  <2>1. CASE Keep(Failing(gaps))
    BY <1>1, <2>1, NoOutcomeIsTrue DEF Keep, GateInv, GateTypeOK, IInv
  <2>2. CASE GateScan(gaps, Failing(gaps)) \/ Compare(gaps, Failing(gaps))
    <3>1. ExitIsTrue' /\ outcome' \in Outcome
      BY <2>2, ExitStep
    <3>2. UNCHANGED gateWorld
      BY <2>2 DEF GateScan, Compare, gateWorld
    <3> QED BY <1>1, <3>1, <3>2 DEF gateWorld, GateInv, GateTypeOK, IInv
  <2> QED BY <1>5, <2>1, <2>2 DEF Judge
<1> QED BY <1>2, <1>3, <1>4, <1>5 DEF GateNext

-----------------------------------------------------------------------------
(* Monitoring *)

MonitoringTypeOK ==
    /\ watched \in {"pipeline", "producer"}
    /\ version \in Versions /\ within \in Versions /\ running \in Versions \cup {0}
    /\ pending \in Run \cup {None} /\ latest \in Run \cup {None}
    /\ silence \in Nat
    /\ step \in {"idle", "inventory", "runs", "feed", "report"}
    /\ inventory \in [version: Versions, within: Versions,
                     setting: {"active", "other", "unread"}]
    /\ setting \in {"active", "other"}
    /\ event \in Nat \cup {None}
    /\ started \in Versions

-----------------------------------------------------------------------------
(* The pipeline *)

\* A run that succeeded after the last report of the finding is one that proves the recovery.
Proven(r) == r # None /\ r.ok /\ r.after => r.of \in proof

\* What a scan has listed is no older than what was in force when it began.
ListedInv ==
    /\ started <= within
    /\ inventory.setting = "active" => step = "runs" /\ started <= inventory.within
    /\ step = "idle" => started = 1

\* Of the run that a scan found healthy, after the report.
SinceInv == since => step \in {"feed", "report"} /\ \E v \in proof : v >= started

\* Of the pipeline: every run that could close the finding is a proof.
PipelineInv == Proven(latest) /\ Proven(pending) /\ ListedInv /\ SinceInv

-----------------------------------------------------------------------------
(* The producer *)

\* An event that came after the last query came after that of the finding as well; and while
\* the feed is reported, it is silent unless such an event came.
ArrivedInv ==
    /\ "query" \in arrived => "told" \in arrived
    /\ "producer" \in reported /\ silence <= MaxStale => "told" \in arrived

\* Between the query and the report the silence is what was read, unless an event comes.
EventInv == event # None => step = "report" /\ ("query" \in arrived \/ event = silence)

ProducerInv == ArrivedInv /\ EventInv

MonitoringInv == MonitoringTypeOK /\ PipelineInv /\ ProducerInv

-----------------------------------------------------------------------------

(* The constants. *)
LEMMA NoneIsOther == None \notin Nat /\ None \notin Run
  BY MonitoringAssumption

LEMMA OneIsVersion == 1 \in Versions /\ Versions \subseteq Nat /\ 0 \notin Versions
  BY MonitoringAssumption DEF Versions

LEMMA MonitoringStarts ==
    ASSUME MonitoringInit
    PROVE  MonitoringInv
<1> USE MonitoringAssumption, OneIsVersion, NoneIsOther DEF MonitoringInit, NothingYet, Unread
<1>1. MonitoringTypeOK
  BY DEF MonitoringTypeOK
<1>2. since = FALSE /\ since # TRUE
  BY Zenon
<1>3. PipelineInv
  <2>1. Proven(latest) /\ Proven(pending)
    BY DEF Proven
  <2>2. ListedInv
    BY DEF ListedInv
  <2>3. SinceInv
    BY <1>2 DEF SinceInv
  <2> QED
    BY <2>1, <2>2, <2>3 DEF PipelineInv
<1>4. ProducerInv
  BY DEF ProducerInv, ArrivedInv, EventInv
<1> QED
  BY <1>1, <1>3, <1>4 DEF MonitoringInv

(* Records of the log age without changing what they tell. *)
LEMMA OlderKeeps ==
    ASSUME NEW r \in Run \cup {None}
    PROVE  /\ Older(r) \in Run \cup {None}
           /\ Proven(r) => Proven(Older(r))
<1> USE MonitoringAssumption, NoneIsOther DEF Older
<1>1. CASE r = None \/ r.age > LogWindow
  BY <1>1
<1>2. CASE r # None /\ ~(r.age > LogWindow)
  <2>1. r \in Run /\ r.age \in 0..(LogWindow + 1)
    BY <1>2 DEF Run
  <2>2. Older(r) = [r EXCEPT !.age = r.age + 1] /\ r.age + 1 \in 0..(LogWindow + 1)
    BY <1>2, <2>1
  <2>3. Older(r) \in Run
    BY <2>1, <2>2 DEF Run
  <2>4. Older(r).ok = r.ok /\ Older(r).after = r.after /\ Older(r).of = r.of
    BY <2>1, <2>2 DEF Run
  <2> QED
    BY <1>2, <2>3, <2>4 DEF Proven
<1> QED
  BY <1>1, <1>2

(* So do those that the window leaves. *)
LEMMA WindowKeeps ==
    ASSUME NEW r \in Run \cup {None}
    PROVE  /\ InWindow(r) \in Run \cup {None}
           /\ Proven(r) => Proven(InWindow(r))
  BY NoneIsOther DEF InWindow, Proven

(* A report of the finding takes from the runs before it what they could prove. *)
LEMMA SeenProves ==
    ASSUME NEW r \in Run \cup {None}, Proven(r)
    PROVE  /\ Seen(r) \in Run \cup {None}
           /\ "pipeline" \in Found => (Seen(r) # None => ~Seen(r).after)
           /\ "pipeline" \notin Found => Seen(r) = r
<1> USE NoneIsOther DEF Seen
<1>1. CASE r = None \/ "pipeline" \notin Found
  BY <1>1
<1>2. CASE r # None /\ "pipeline" \in Found
  <2>1. Seen(r) = [r EXCEPT !.after = FALSE] /\ r \in Run
    BY <1>2
  <2>2. Seen(r) \in Run /\ Seen(r).after = FALSE
    BY <2>1 DEF Run
  <2> QED
    BY <1>2, <2>2
<1> QED
  BY <1>1, <1>2

-----------------------------------------------------------------------------
(* Steps of the service *)

(* A step of the service: an edit, a run, its entry in the log, an event or the time. *)
LEMMA ServiceInv ==
    ASSUME MonitoringInv, Service
    PROVE  MonitoringInv'
<1> USE MonitoringAssumption, OneIsVersion, NoneIsOther DEF ruleVars
<1>1. ASSUME NEW s \in {"active", "other"}, NEW w \in Versions, Edit(s, w)
      PROVE  MonitoringInv'
  <2>1. /\ version' \in Versions /\ setting' = s
        /\ within' = w /\ within <= w
        /\ UNCHANGED <<watched, running, pending, latest, silence, scanVars, observationVars>>
    BY <1>1 DEF Edit, MonitoringInv, MonitoringTypeOK, Versions
  <2>2. MonitoringTypeOK'
    BY <2>1 DEF MonitoringInv, MonitoringTypeOK, scanVars, observationVars
  <2>3. ListedInv'
    <3>1. started <= within /\ started \in Nat /\ within \in Nat /\ within' \in Nat
      BY <2>1 DEF MonitoringInv, MonitoringTypeOK, PipelineInv, ListedInv, Versions
    <3> QED
      BY <2>1, <3>1 DEF MonitoringInv, PipelineInv, ListedInv, scanVars, observationVars
  <2>4. PipelineInv' /\ ProducerInv'
    BY <2>1, <2>3 DEF MonitoringInv, PipelineInv, Proven, SinceInv, ProducerInv, ArrivedInv, EventInv,
                      scanVars, observationVars
  <2> QED
    BY <2>2, <2>4 DEF MonitoringInv
<1>2. CASE StartRun
  <2>1. /\ running' \in Versions
        /\ UNCHANGED <<watched, ruleVars, pending, latest, silence, scanVars, observationVars>>
    BY <1>2 DEF StartRun, MonitoringInv, MonitoringTypeOK
  <2>2. MonitoringTypeOK'
    BY <2>1 DEF MonitoringInv, MonitoringTypeOK, scanVars, observationVars
  <2>3. PipelineInv' /\ ProducerInv'
    BY <2>1 DEF MonitoringInv, PipelineInv, Proven, ListedInv, SinceInv, ProducerInv, ArrivedInv,
                EventInv, scanVars, observationVars
  <2> QED
    BY <2>2, <2>3 DEF MonitoringInv
<1>3. ASSUME NEW ok \in BOOLEAN, EndRun(ok) PROVE MonitoringInv'
  <2>1. /\ running \in Versions /\ version \in Versions /\ 0 \in 0..(LogWindow + 1)
        /\ pending' = [age |-> 0, ok |-> ok, of |-> running, at |-> version, after |-> TRUE]
        /\ running' = 0
        /\ UNCHANGED <<watched, ruleVars, latest, silence, scanVars, started, arrived>>
    BY <1>3 DEF EndRun, MonitoringInv, MonitoringTypeOK
  <2>2. proof' = IF ok THEN proof \cup {running} ELSE proof
    BY <1>3 DEF EndRun
  <2>3. pending' \in Run /\ pending'.ok = ok /\ pending'.of = running
    BY <2>1 DEF Run
  <2>4. proof \subseteq proof' /\ (ok => running \in proof')
    BY <2>2
  <2>5. MonitoringTypeOK'
    BY <2>1, <2>3 DEF MonitoringInv, MonitoringTypeOK, scanVars
  <2>6. PipelineInv'
    <3>1. Proven(latest)'
      BY <2>1, <2>4 DEF MonitoringInv, PipelineInv, Proven
    <3>2. Proven(pending)'
      BY <2>3, <2>4 DEF Proven
    <3>3. ListedInv' /\ SinceInv'
      BY <2>1, <2>4 DEF MonitoringInv, PipelineInv, ListedInv, SinceInv, scanVars
    <3> QED
      BY <3>1, <3>2, <3>3 DEF PipelineInv
  <2>7. ProducerInv'
    BY <2>1 DEF MonitoringInv, ProducerInv, ArrivedInv, EventInv, scanVars
  <2> QED
    BY <2>5, <2>6, <2>7 DEF MonitoringInv
<1>4. CASE Ingest
  <2>1. /\ latest' = InWindow(pending) /\ pending' = None
        /\ UNCHANGED <<watched, ruleVars, running, silence, scanVars, observationVars>>
    BY <1>4 DEF Ingest
  <2>2. latest' \in Run \cup {None} /\ Proven(latest)'
    BY <2>1, WindowKeeps DEF MonitoringInv, MonitoringTypeOK, PipelineInv, Proven, observationVars
  <2>3. MonitoringTypeOK'
    BY <2>1, <2>2 DEF MonitoringInv, MonitoringTypeOK, scanVars, observationVars
  <2>4. PipelineInv' /\ ProducerInv'
    BY <2>1, <2>2 DEF MonitoringInv, PipelineInv, Proven, ListedInv, SinceInv, ProducerInv, ArrivedInv,
                EventInv, scanVars, observationVars
  <2> QED
    BY <2>3, <2>4 DEF MonitoringInv
<1>5. CASE Arrive
  <2>1. /\ silence' = 0 /\ "query" \in arrived' /\ "told" \in arrived'
        /\ UNCHANGED <<watched, ruleVars, running, pending, latest, scanVars, started, proof>>
    BY <1>5 DEF Arrive
  <2>2. MonitoringTypeOK'
    BY <2>1 DEF MonitoringInv, MonitoringTypeOK, scanVars
  <2>3. PipelineInv' /\ ProducerInv'
    BY <2>1 DEF MonitoringInv, PipelineInv, Proven, ListedInv, SinceInv, ProducerInv, ArrivedInv,
                EventInv, scanVars
  <2> QED
    BY <2>2, <2>3 DEF MonitoringInv
<1>6. CASE Tick
  <2>1. /\ step = "idle" /\ pending' = Older(pending) /\ latest' = InWindow(Older(latest))
        /\ UNCHANGED <<watched, version, setting, within, running, scanVars, observationVars>>
    BY <1>6 DEF Tick
  <2>2. silence' \in Nat /\ (silence' <= MaxStale => silence <= MaxStale)
    BY <1>6 DEF Tick, MonitoringInv, MonitoringTypeOK
  <2>3. /\ pending' \in Run \cup {None} /\ latest' \in Run \cup {None}
        /\ Proven(pending)' /\ Proven(latest)'
    <3>1. Older(latest) \in Run \cup {None} /\ Proven(Older(latest))
      BY OlderKeeps DEF MonitoringInv, MonitoringTypeOK, PipelineInv
    <3>2. latest' \in Run \cup {None} /\ Proven(latest)'
      BY <2>1, <3>1, WindowKeeps DEF Proven, observationVars
    <3> QED
      BY <2>1, <3>2, OlderKeeps DEF MonitoringInv, MonitoringTypeOK, PipelineInv, Proven,
                                    observationVars
  <2>4. MonitoringTypeOK'
    BY <2>1, <2>2, <2>3 DEF MonitoringInv, MonitoringTypeOK, scanVars, observationVars
  <2>5. PipelineInv'
    BY <2>1, <2>3 DEF MonitoringInv, PipelineInv, ListedInv, SinceInv, scanVars, observationVars
  <2>6. ProducerInv'
    BY <2>1, <2>2 DEF MonitoringInv, ProducerInv, ArrivedInv, EventInv, scanVars, observationVars
  <2> QED
    BY <2>4, <2>5, <2>6 DEF MonitoringInv
<1>7. CASE Declare
  <2>1. UNCHANGED <<azureVars, step, evidenceVars, reported, observationVars>>
    BY <1>7 DEF Declare
  <2>2. MonitoringTypeOK'
    BY <2>1 DEF MonitoringInv, MonitoringTypeOK, azureVars, evidenceVars, observationVars
  <2>3. PipelineInv' /\ ProducerInv'
    BY <2>1 DEF MonitoringInv, PipelineInv, Proven, ListedInv, SinceInv, ProducerInv, ArrivedInv,
                EventInv, azureVars, evidenceVars, observationVars
  <2> QED
    BY <2>2, <2>3 DEF MonitoringInv
<1> QED
  BY <1>1, <1>2, <1>3, <1>4, <1>5, <1>6, <1>7 DEF Service

-----------------------------------------------------------------------------
(* Steps of a scan *)

(* A scan that ends, or is given up, leaves nothing it has read. *)
LEMMA ForgetInv ==
    ASSUME Forget, MonitoringInv
    PROVE  /\ inventory' = Unread /\ inventory'.setting = "unread" /\ inventory'.version = 1
           /\ inventory'.within = 1
           /\ ~since' /\ event' = None /\ started' = 1 /\ 1 <= within
<1>1. inventory' = Unread /\ event' = None /\ started' = 1
  BY DEF Forget
<1>2. ~since'
  BY Zenon DEF Forget
<1>3. 1 <= within
  BY MonitoringAssumption DEF MonitoringInv, MonitoringTypeOK, Versions
<1> QED
  BY <1>1, <1>2, <1>3 DEF Unread

(* A step of the scan. *)
LEMMA ObserveInv ==
    ASSUME MonitoringInv, Observe
    PROVE  MonitoringInv'
<1> USE MonitoringAssumption, OneIsVersion, NoneIsOther DEF ruleVars
<1>1. CASE Begin
  <2>1. /\ step = "idle" /\ step' = "inventory" /\ started' = within
        /\ UNCHANGED <<azureVars, quiet, evidenceVars, reported, proof, arrived>>
    BY <1>1 DEF Begin
  <2>2. inventory.setting # "active"
    BY <2>1 DEF MonitoringInv, PipelineInv, ListedInv
  <2>3. MonitoringTypeOK'
    BY <2>1 DEF MonitoringInv, MonitoringTypeOK, azureVars, evidenceVars
  <2>4. PipelineInv'
    BY <2>1, <2>2 DEF MonitoringInv, MonitoringTypeOK, PipelineInv, Proven, ListedInv, SinceInv,
                      azureVars, evidenceVars
  <2>5. ProducerInv'
    BY <2>1 DEF MonitoringInv, ProducerInv, ArrivedInv, EventInv, azureVars, evidenceVars
  <2> QED
    BY <2>3, <2>4, <2>5 DEF MonitoringInv
<1>2. ASSUME NEW ok \in BOOLEAN, List(ok) PROVE MonitoringInv'
  <2>1. /\ step = "inventory" /\ step' = "runs"
        /\ inventory' \in {Unread, [version |-> version, within |-> within, setting |-> setting]}
        /\ UNCHANGED <<azureVars, quiet, health, since, event, reported, observationVars>>
    BY <1>2 DEF List
  <2>2. /\ inventory' \in [version: Versions, within: Versions,
                           setting: {"active", "other", "unread"}]
        /\ inventory'.setting = "active" => started <= inventory'.within
    BY <2>1 DEF Unread, MonitoringInv, MonitoringTypeOK, PipelineInv, ListedInv
  <2>3. MonitoringTypeOK'
    BY <2>1, <2>2 DEF MonitoringInv, MonitoringTypeOK, azureVars, observationVars
  <2>4. PipelineInv'
    BY <2>1, <2>2 DEF MonitoringInv, PipelineInv, Proven, ListedInv, SinceInv, azureVars,
                      observationVars
  <2>5. ProducerInv'
    BY <2>1 DEF MonitoringInv, ProducerInv, ArrivedInv, EventInv, azureVars, observationVars
  <2> QED
    BY <2>3, <2>4, <2>5 DEF MonitoringInv
<1>3. ASSUME NEW ok \in BOOLEAN, ReadRuns(ok) PROVE MonitoringInv'
  <2>1. /\ step = "runs" /\ step' = "feed" /\ inventory' = Unread
        /\ UNCHANGED <<azureVars, quiet, event, reported, observationVars>>
    BY <1>3 DEF ReadRuns
  <2>2. since' => \E v \in proof : v >= started
    <3> SUFFICES ASSUME since' PROVE \E v \in proof : v >= started
      OBVIOUS
    <3>1. health' = "ok" /\ latest.after
      BY <1>3 DEF ReadRuns
    <3>2. inventory.setting = "active" /\ Judged(latest) = "ok"
      BY <1>3, <3>1 DEF ReadRuns
    <3>3. latest # None /\ Linked(latest) /\ latest.ok
      BY <3>2 DEF Judged
    <3>4. latest \in Run /\ latest.of \in Nat /\ started \in Nat /\ inventory.within \in Nat
      BY <3>3 DEF MonitoringInv, MonitoringTypeOK, Run
    <3>5. started <= inventory.within /\ inventory.within <= latest.of
      BY <3>2, <3>3 DEF MonitoringInv, PipelineInv, ListedInv, Linked
    <3>6. latest.of \in proof
      BY <3>1, <3>3 DEF MonitoringInv, PipelineInv, Proven
    <3> QED
      BY <3>4, <3>5, <3>6
  <2>3. MonitoringTypeOK'
    BY <2>1 DEF Unread, MonitoringInv, MonitoringTypeOK, azureVars, observationVars
  <2>4. PipelineInv'
    <3>1. ListedInv'
      BY <2>1 DEF Unread, MonitoringInv, PipelineInv, ListedInv, azureVars, observationVars
    <3>2. SinceInv'
      BY <2>1, <2>2 DEF SinceInv, observationVars
    <3>3. Proven(latest)' /\ Proven(pending)'
      BY <2>1 DEF MonitoringInv, PipelineInv, Proven, azureVars, observationVars
    <3> QED
      BY <3>1, <3>2, <3>3 DEF PipelineInv
  <2>5. ProducerInv'
    BY <2>1 DEF MonitoringInv, ProducerInv, ArrivedInv, EventInv, azureVars, observationVars
  <2> QED
    BY <2>3, <2>4, <2>5 DEF MonitoringInv
<1>4. ASSUME NEW ok \in BOOLEAN, ReadFeed(ok) PROVE MonitoringInv'
  <2>1. /\ step = "feed" /\ step' = "report" /\ event' \in {silence, None}
        /\ arrived' = arrived \ {"query"}
        /\ UNCHANGED <<azureVars, quiet, inventory, health, since, reported, started, proof>>
    BY <1>4 DEF ReadFeed
  <2>2. MonitoringTypeOK'
    BY <2>1 DEF MonitoringInv, MonitoringTypeOK, azureVars
  <2>3. PipelineInv'
    BY <2>1 DEF MonitoringInv, PipelineInv, Proven, ListedInv, SinceInv, azureVars
  <2>4. ProducerInv'
    BY <2>1 DEF MonitoringInv, ProducerInv, ArrivedInv, EventInv, azureVars
  <2> QED
    BY <2>2, <2>3, <2>4 DEF MonitoringInv
<1>5. ASSUME NEW saved \in BOOLEAN, Report(saved) PROVE MonitoringInv'
  <2>1. /\ step = "report" /\ step' = "idle" /\ Forget
        /\ UNCHANGED <<watched, ruleVars, running, silence, quiet>>
    BY <1>5 DEF Report
  <2>2. CASE UNCHANGED <<reported, latest, pending, proof, arrived>>
    <3>1. MonitoringTypeOK'
      BY <2>1, <2>2, ForgetInv DEF Unread, MonitoringInv, MonitoringTypeOK
    <3>2. PipelineInv'
      <4>1. ListedInv' /\ SinceInv'
        BY <2>1, ForgetInv DEF ListedInv, SinceInv
      <4>2. Proven(latest)' /\ Proven(pending)'
        BY <2>2 DEF MonitoringInv, PipelineInv, Proven
      <4> QED
        BY <4>1, <4>2 DEF PipelineInv
    <3>3. ProducerInv'
      BY <2>1, <2>2, ForgetInv DEF MonitoringInv, ProducerInv, ArrivedInv, EventInv
    <3> QED
      BY <3>1, <3>2, <3>3 DEF MonitoringInv
  <2>3. CASE /\ reported' = (reported \cup Found) \ Recovered
             /\ latest' = Seen(latest) /\ pending' = Seen(pending)
             /\ proof' = IF "pipeline" \in Found THEN {} ELSE proof
             /\ arrived' = IF "producer" \in Found /\ "query" \notin arrived THEN {} ELSE arrived
    <3>1. latest' \in Run \cup {None} /\ pending' \in Run \cup {None}
      BY <2>3, SeenProves DEF MonitoringInv, MonitoringTypeOK, PipelineInv
    <3>2. MonitoringTypeOK'
      BY <2>1, <3>1, ForgetInv DEF Unread, MonitoringInv, MonitoringTypeOK
    <3>3. Proven(latest)' /\ Proven(pending)'
      <4>1. CASE "pipeline" \in Found
        BY <2>3, <4>1, SeenProves DEF MonitoringInv, MonitoringTypeOK, PipelineInv, Proven
      <4>2. CASE "pipeline" \notin Found
        <5>1. latest' = latest /\ pending' = pending /\ proof' = proof
          BY <2>3, <4>2, SeenProves DEF MonitoringInv, MonitoringTypeOK, PipelineInv
        <5> QED
          BY <5>1 DEF MonitoringInv, PipelineInv, Proven
      <4> QED
        BY <4>1, <4>2
    <3>4. ListedInv' /\ SinceInv'
      BY <2>1, ForgetInv DEF ListedInv, SinceInv
    <3>5. ArrivedInv'
      <4>1. "query" \in arrived' => "told" \in arrived'
        BY <2>3 DEF MonitoringInv, ProducerInv, ArrivedInv
      <4>2. ASSUME "producer" \in reported', silence' <= MaxStale PROVE "told" \in arrived'
        <5>1. silence <= MaxStale
          BY <2>1, <4>2
        <5>2. CASE "producer" \in Found
          <6>1. event # None /\ event > MaxStale
            BY <5>2 DEF Found, FeedStale
          <6>2. "query" \in arrived
            BY <5>1, <6>1 DEF MonitoringInv, MonitoringTypeOK, ProducerInv, EventInv
          <6> QED
            BY <2>3, <6>2 DEF MonitoringInv, ProducerInv, ArrivedInv
        <5>3. CASE "producer" \notin Found
          BY <2>3, <4>2, <5>1, <5>3 DEF MonitoringInv, ProducerInv, ArrivedInv
        <5> QED
          BY <5>2, <5>3
      <4> QED
        BY <4>1, <4>2 DEF ArrivedInv
    <3>6. EventInv'
      BY <2>1, ForgetInv DEF EventInv
    <3> QED
      BY <3>2, <3>3, <3>4, <3>5, <3>6 DEF MonitoringInv, PipelineInv, ProducerInv
  <2> QED
    BY <1>5, <2>2, <2>3 DEF Report
<1>6. CASE Abandon
  <2>1. step' = "idle" /\ Forget /\ UNCHANGED <<azureVars, quiet, reported, proof, arrived>>
    BY <1>6 DEF Abandon
  <2>2. MonitoringTypeOK'
    BY <2>1, ForgetInv DEF Unread, MonitoringInv, MonitoringTypeOK, azureVars
  <2>3. PipelineInv'
    <3>1. ListedInv' /\ SinceInv'
      BY <2>1, ForgetInv DEF ListedInv, SinceInv, azureVars
    <3>2. Proven(latest)' /\ Proven(pending)'
      BY <2>1 DEF MonitoringInv, PipelineInv, Proven, azureVars
    <3> QED
      BY <3>1, <3>2 DEF PipelineInv
  <2>4. ProducerInv'
    BY <2>1, ForgetInv DEF MonitoringInv, ProducerInv, ArrivedInv, EventInv, azureVars
  <2> QED
    BY <2>2, <2>3, <2>4 DEF MonitoringInv
<1> QED
  BY <1>1, <1>2, <1>3, <1>4, <1>5, <1>6 DEF Observe

(* Every step keeps the invariant. *)
LEMMA MonitoringKeeps ==
    ASSUME MonitoringInv, [MonitoringNext]_monitoringVars
    PROVE  MonitoringInv'
<1>1. CASE UNCHANGED monitoringVars
  BY <1>1 DEF monitoringVars, MonitoringInv, MonitoringTypeOK, PipelineInv, Proven, ListedInv,
              SinceInv, ProducerInv, ArrivedInv, EventInv
<1> QED
  BY <1>1, ServiceInv, ObserveInv DEF MonitoringNext

-----------------------------------------------------------------------------
(* Recovery *)

(* What leaves the reported findings has its proof. *)
LEMMA StepIsNew ==
    ASSUME MonitoringInv, MonitoringNext
    PROVE  /\ "pipeline" \in reported \ reported' => \E v \in proof : v >= started
           /\ "producer" \in reported \ reported' => "told" \in arrived /\ ~quiet
<1>1. CASE reported' = reported
  BY <1>1
<1>2. ASSUME reported' # reported
      PROVE  step = "report" /\ reported' = (reported \cup Found) \ Recovered
  BY <1>2 DEF MonitoringNext, Service, Observe, Edit, StartRun, EndRun, Ingest, Arrive, Tick, Declare,
              Begin, List, ReadRuns, ReadFeed, Report, Abandon, scanVars
<1>3. ASSUME "pipeline" \in Recovered PROVE \E v \in proof : v >= started
  <2>1. since
    BY <1>3 DEF Recovered, PipelineRecovered
  <2> QED
    BY <2>1 DEF MonitoringInv, PipelineInv, SinceInv
<1>4. ASSUME "producer" \in Recovered PROVE "told" \in arrived /\ ~quiet
  <2>1. "producer" \in reported /\ event # None /\ ~FeedStale /\ ~quiet
    BY <1>4 DEF Recovered, ProducerRecovered
  <2>2. event \in Nat /\ event <= MaxStale
    BY <2>1, MonitoringAssumption DEF FeedStale, MonitoringInv, MonitoringTypeOK
  <2>3. "query" \in arrived \/ silence <= MaxStale
    BY <2>1, <2>2 DEF MonitoringInv, ProducerInv, EventInv
  <2> QED
    BY <2>1, <2>3 DEF MonitoringInv, ProducerInv, ArrivedInv
<1> QED
  BY <1>1, <1>2, <1>3, <1>4

(* What was reported of a pipeline or a feed is closed only by a run that succeeded after the *)
(* report, of a definition edited no longer than the tolerance before the one in force when   *)
(* the scan began, or by an event that came after the query behind the report (producer.go    *)
(* 90-107, summary.go 25, 185-204).                                                           *)
THEOREM RecoveryIsNewAlways == MonitoringSpec => RecoveryIsNew
<1>1. MonitoringInit => MonitoringInv
  BY MonitoringStarts
<1>2. MonitoringInv /\ [MonitoringNext]_monitoringVars => MonitoringInv'
  BY MonitoringKeeps
<1>3. MonitoringInv /\ [MonitoringNext]_monitoringVars =>
          [/\ "pipeline" \in reported \ reported' => \E v \in proof : v >= started
           /\ "producer" \in reported \ reported' => "told" \in arrived /\ ~quiet]_monitoringVars
  BY StepIsNew
<1> QED
  BY <1>1, <1>2, <1>3, PTL DEF MonitoringSpec, RecoveryIsNew

-----------------------------------------------------------------------------
(***************************************************************************)
(* The composition.  The world of the lifecycle is also that of the gate;  *)
(* the others have their own state.                                        *)
(***************************************************************************)

(* Each part has its invariant while it is the one in use. *)
ReportingInv ==
    /\ IInv /\ GateInv /\ MaintenanceIsDeclared
    /\ use # "gate" => outcome = NoOutcome
    /\ use = "downtime" => DowntimeInv
    /\ use = "monitoring" => MonitoringInv

LEMMA ReportingStarts ==
    ASSUME FindingLifecycleAssumption, DowntimeAssumption, ReportingInit PROVE ReportingInv
<1>1. ASSUME NoGate, Init PROVE IInv /\ GateInv /\ outcome = NoOutcome
  <2>1. IInv
    BY <1>1, InitIInv
  <2>2. /\ outcome = NoOutcome /\ backend = "elastic" /\ longer = {}
        /\ expired = FALSE /\ expired \in BOOLEAN
    BY <1>1 DEF NoGate
  <2> QED BY <2>1, <2>2, NoOutcomeIsTrue DEF GateInv, GateTypeOK, IInv
<1>2. NoDowntime => MaintenanceIsDeclared
  BY DEF NoDowntime, MaintenanceIsDeclared
<1>3. CASE use = "lifecycle" /\ Init /\ NoGate /\ NoDowntime
  BY <1>1, <1>2, <1>3 DEF ReportingInv
<1>4. CASE use = "gate" /\ GateInit /\ NoDowntime
  BY <1>2, <1>4, GateStarts DEF ReportingInv
<1>5. CASE use = "downtime" /\ Init /\ NoGate /\ DowntimeInit
  BY <1>1, <1>5, DowntimeStarts DEF ReportingInv, DowntimeInv
<1>6. CASE use = "monitoring" /\ Init /\ NoGate /\ NoDowntime /\ MonitoringInit
  BY <1>1, <1>2, <1>6, MonitoringStarts DEF ReportingInv
<1> QED BY <1>3, <1>4, <1>5, <1>6 DEF ReportingInit

LEMMA ReportingKeeps ==
    ASSUME FindingLifecycleAssumption, DowntimeAssumption, ReportingInv,
           [ReportingNext]_reportingVars
    PROVE  ReportingInv'
<1> DEFINE W == UNCHANGED <<enabled, present, feed, lacking, lagging, unfit, changes, report, active>>
           G == UNCHANGED <<backend, longer, policy, expired, baseline, outcome>>
           D == UNCHANGED <<now, window, open, status>>
<1>1. W => IInv'
  BY NextIInv DEF ReportingInv, vars, world
<1>2. D => (DowntimeInv => DowntimeInv') /\ MaintenanceIsDeclared'
  BY DEF DowntimeInv, MaintenanceIsDeclared, ReportingInv
<1>3. UNCHANGED monitoringVars => (MonitoringInv => MonitoringInv')
  BY MonitoringKeeps
<1>4. W /\ G => GateInv'
  <2> SUFFICES ASSUME W, G PROVE GateInv'
    OBVIOUS
  <2>1. GateTypeOK'
    BY <1>1 DEF GateTypeOK, GateInv, ReportingInv, IInv
  <2>2. ExitIsTrue'
    <3>1. UNCHANGED gateWorld /\ outcome' = outcome /\ Excepted' = Excepted
      BY DEF gateWorld, Excepted
    <3>2. /\ TrueFindings' = TrueFindings /\ Shown(TrueFindings)' = Shown(TrueFindings)
          /\ Due' = Due /\ \A f : Wanted(f)' <=> Wanted(f)
      BY <3>1, GateWorldStands DEF Due
    <3> QED BY <3>1, <3>2 DEF ExitIsTrue, ReportingInv, GateInv
  <2> QED BY <2>1, <2>2 DEF GateInv
<1>5. CASE UNCHANGED reportingVars
  BY <1>1, <1>2, <1>3, <1>4, <1>5 DEF reportingVars, ReportingInv
<1>6. CASE LifecycleStep /\ UNCHANGED use
  <2>1. IInv'
    BY <1>6, NextIInv DEF LifecycleStep, ReportingInv
  <2>2. GateInv' /\ outcome' = NoOutcome
    BY <1>6, <2>1, NoOutcomeIsTrue DEF LifecycleStep, ReportingInv, GateInv, GateTypeOK, IInv
  <2> QED BY <1>2, <1>3, <1>6, <2>1, <2>2 DEF LifecycleStep, ReportingInv
<1>7. CASE GateStep /\ UNCHANGED use
  BY <1>2, <1>3, <1>7, GateKeeps DEF GateStep, ReportingInv
<1>8. CASE DowntimeStep /\ UNCHANGED use
  <2>1. DowntimeInv' /\ MaintenanceIsDeclared'
    BY <1>8, DowntimeKeeps DEF DowntimeStep, ReportingInv, DowntimeInv
  <2> QED BY <1>1, <1>3, <1>4, <1>8, <2>1 DEF DowntimeStep, ReportingInv
<1>9. CASE MonitoringStep /\ UNCHANGED use
  <2>1. MonitoringInv'
    BY <1>9, MonitoringKeeps DEF MonitoringStep, ReportingInv
  <2> QED BY <1>1, <1>2, <1>4, <1>9, <2>1 DEF MonitoringStep, ReportingInv
<1> QED BY <1>5, <1>6, <1>7, <1>8, <1>9 DEF ReportingNext

LEMMA ReportingInvariant == ReportingSpec => []ReportingInv
<1>1. ReportingInit => ReportingInv
  BY ReportingStarts, FindingLifecycleAssumption, DowntimeAssumption
<1>2. ReportingInv /\ [ReportingNext]_reportingVars => ReportingInv'
  BY ReportingKeeps, FindingLifecycleAssumption, DowntimeAssumption
<1> QED BY <1>1, <1>2, PTL DEF ReportingSpec

(* Whoever uses the report: what it finds is true, with all evidence it lacks nothing, and what *)
(* it calls recovered is over, but for ingest lag (report.go 950-986, finding.go 299-301).      *)
THEOREM ReportsAreTrue ==
    ReportingSpec => [](FindingsAreTrue /\ NothingIsMissed /\ RecoveryIsTrue)
BY ReportingInvariant, PTL DEF ReportingInv, IInv, Truthful

(* A gate fails only for what is true, wanted and not excepted; it fails for all of it that it   *)
(* has the evidence of; and a candidate that passes is neither dead nor impaired (policy.go     *)
(* 269-303, report.go 1569-1624, diff.go 100-118).                                              *)
THEOREM GatesAreTrue == ReportingSpec => []ExitIsTrue
BY ReportingInvariant, PTL DEF ReportingInv, GateInv

(* With any windows and any number of slots a day, a silent source is in maintenance exactly    *)
(* while a declared window is open (health.go 131-162).                                         *)
THEOREM DowntimeIsDeclared == ReportingSpec => []MaintenanceIsDeclared
BY ReportingInvariant, PTL DEF ReportingInv

(* A scan that watches closes a finding only by a new run or event, in the composition too. *)
THEOREM ReportedRecoveryIsNew == ReportingSpec => RecoveryIsNew
<1>1. ReportingInv /\ [ReportingNext]_reportingVars =>
          [/\ "pipeline" \in reported \ reported' => \E v \in proof : v >= started
           /\ "producer" \in reported \ reported' => "told" \in arrived /\ ~quiet]_monitoringVars
  <2> SUFFICES ASSUME ReportingInv, [ReportingNext]_reportingVars,
                      ~UNCHANGED monitoringVars
               PROVE  /\ "pipeline" \in reported \ reported' => \E v \in proof : v >= started
                      /\ "producer" \in reported \ reported' => "told" \in arrived /\ ~quiet
    OBVIOUS
  <2>1. MonitoringInv /\ MonitoringNext
    BY DEF ReportingNext, LifecycleStep, GateStep, DowntimeStep, MonitoringStep, reportingVars,
           ReportingInv
  <2> QED BY <2>1, StepIsNew
<1> QED BY <1>1, ReportingInvariant, PTL DEF ReportingSpec, RecoveryIsNew
=============================================================================
