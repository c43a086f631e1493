-------------------------- MODULE ScanCommitProofs --------------------------
(***************************************************************************)
(* For any number of overlapping processes, instances, sources, targets    *)
(* and schemas: what a state file remembers was delivered first, and was   *)
(* all read from the target the file is bound to.  Each part of the        *)
(* invariant says what one process may rely on, so that a step of one      *)
(* process cannot disturb another's: the files and what was told are the   *)
(* only state they share, and what was told only grows.                    *)
(***************************************************************************)
EXTENDS ScanCommit, TLAPS

USE ScanCommitAssumption

-----------------------------------------------------------------------------
(* The operators *)

\* Streaks stay within the hysteresis, grow by one at most, and keep their order.
LEMMA AddLowFacts ==
    ASSUME NEW n \in 0..Hysteresis
    PROVE  /\ AddLow(n) \in 0..Hysteresis
           /\ n <= AddLow(n)
           /\ AddLow(n) <= n + 1
BY DEF AddLow

LEMMA AddLowMonotonic ==
    ASSUME NEW m \in 0..Hysteresis, NEW n \in 0..Hysteresis, m <= n
    PROVE  AddLow(m) <= AddLow(n)
BY DEF AddLow

\* A streak that grows is in the report, and a low verdict needs the run of low scans.
LEMMA StreakFacts ==
    ASSUME NEW n \in 0..Hysteresis, NEW seen \in Seen
    PROVE  /\ StreakAfter(n, seen) \in 0..Hysteresis
           /\ VolumeVerdict(n, seen) \in Verdicts
           /\ \/ StreakAfter(n, seen) <= n
              \/ /\ StreakAfter(n, seen) = AddLow(n)
                 /\ VolumeVerdict(n, seen) \in {"low", "pending"}
           /\ VolumeVerdict(n, seen) = "low" => n + 1 >= Hysteresis
BY AddLowFacts DEF StreakAfter, VolumeVerdict, Seen, Verdicts

LEMMA LoadFacts ==
    ASSUME TypeOK, NEW i \in Instances
    PROVE  Load(i) \in Store
BY DEF TypeOK, Load, NewStore, Store, History

LEMMA AssessVolumesFacts ==
    ASSUME NEW store \in Store, NEW seen \in [Sources -> Seen]
    PROVE  /\ AssessVolumes(store, seen) \in Store
           /\ AssessVolumes(store, seen).target = store.target
           /\ \A s \in Sources :
                /\ AssessVolumes(store, seen).src[s].snap = store.src[s].snap
                /\ AssessVolumes(store, seen).src[s].streak =
                       StreakAfter(store.src[s].streak, seen[s])
<1> DEFINE src == [s \in Sources |-> [snap |-> store.src[s].snap,
                     streak |-> StreakAfter(store.src[s].streak, seen[s])]]
<1>1. AssessVolumes(store, seen) = [store EXCEPT !.src = src]
  BY DEF AssessVolumes
<1>2. \A s \in Sources : /\ store.src[s] \in History
                         /\ StreakAfter(store.src[s].streak, seen[s]) \in 0..Hysteresis
  BY StreakFacts DEF Store, History
<1>3. \A s \in Sources : /\ src[s] \in History
                         /\ src[s].snap = store.src[s].snap
                         /\ src[s].streak = StreakAfter(store.src[s].streak, seen[s])
  BY <1>2 DEF History
<1>4. src \in [Sources -> History]
  BY <1>3
<1> HIDE DEF src
<1> QED BY <1>1, <1>3, <1>4 DEF Store

LEMMA FoundFacts ==
    ASSUME TypeOK, NEW p \in Scans, NEW s \in Sources
    PROVE  /\ Found(p, s) \in Snapshot
           /\ Found(p, s).origin = TargetOf[p][at[p]]
BY DEF TypeOK, Found, Snapshot

LEMMA AssessSchemasFacts ==
    ASSUME TypeOK, NEW p \in Scans, NEW store \in Store, NEW fetched \in SUBSET Sources
    PROVE  /\ AssessSchemas(p, store, fetched) \in Store
           /\ AssessSchemas(p, store, fetched).target = store.target
           /\ \A s \in Sources :
                /\ AssessSchemas(p, store, fetched).src[s].streak = store.src[s].streak
                /\ AssessSchemas(p, store, fetched).src[s].snap =
                       IF s \in fetched THEN Found(p, s) ELSE store.src[s].snap
<1> DEFINE src == [s \in Sources |->
                     IF s \in fetched THEN [store.src[s] EXCEPT !.snap = Found(p, s)]
                                      ELSE store.src[s]]
<1>1. AssessSchemas(p, store, fetched) = [store EXCEPT !.src = src]
  BY DEF AssessSchemas
<1>2. \A s \in Sources : store.src[s] \in History /\ Found(p, s) \in Snapshot
  BY FoundFacts DEF Store
<1>3. \A s \in Sources : /\ src[s] \in History
                         /\ src[s].streak = store.src[s].streak
                         /\ src[s].snap =
                              IF s \in fetched THEN Found(p, s) ELSE store.src[s].snap
  BY <1>2 DEF History
<1>4. src \in [Sources -> History]
  BY <1>3
<1> HIDE DEF src
<1> QED BY <1>1, <1>3, <1>4 DEF Store
-----------------------------------------------------------------------------
(* Type correctness *)

Progress == {"idle", "load", "schemas", "build", "deliver", "commit"}

\* The instance being assessed has a store.
Held == \A p \in Scans : pc[p] \in {"schemas", "build"} => mem[p][at[p]] \in Store

TypeInv == TypeOK /\ Held

\* A file of an earlier version is well formed, and told what it holds.
LEMMA InitFiles ==
    ASSUME Init, NEW i \in Instances
    PROVE  /\ files[i] \in Store \cup {None} /\ Load(i) \in Store
           /\ files[i] # None => files[i] \in Legacy
           /\ \A s \in Sources :
                /\ told[i][s] = {Load(i).src[s].snap} \ {None}
                /\ lowTold[i][s] = Load(i).src[s].streak
<1>1. files[i] \in Legacy \cup {None}
  BY DEF Init
<1>2. NewStore \in Store
  BY DEF NewStore, Store, History
<1>3. files[i] \in Store \cup {None} /\ Load(i) \in Store
  BY <1>1, <1>2, LegacyAssumption DEF Load
<1> QED BY <1>1, <1>3 DEF Init

LEMMA InitType == Init => TypeOK
<1> SUFFICES ASSUME Init PROVE TypeOK
  OBVIOUS
<1>1. files \in [Instances -> Store \cup {None}]
  BY InitFiles DEF Init
<1>2. \A i \in Instances : \A s \in Sources :
        Load(i).src[s].snap \in Snapshot \cup {None} /\ Load(i).src[s].streak \in 0..Hysteresis
  BY InitFiles DEF Store, History
<1>3. told \in [Instances -> [Sources -> SUBSET Snapshot]]
  BY <1>2 DEF Init
<1>4. lowTold \in [Instances -> [Sources -> 0..Hysteresis]]
  BY <1>2 DEF Init
<1> QED BY <1>1, <1>3, <1>4 DEF Init, TypeOK, NoFindings, Finding, Verdicts, Instances

LEMMA IdleType ==
    ASSUME TypeOK, NEW p \in Scans, Idle(p)
    PROVE  /\ pc' \in [Scans -> Progress] /\ at' \in [Scans -> Instances]
           /\ mem' \in [Scans -> [Instances -> Store \cup {None}]]
           /\ report' \in [Scans -> [Instances -> [Sources -> Finding]]]
           /\ out' \in [Scans -> Nat] /\ lost' \in [Scans -> BOOLEAN]
<1>1. NoFindings \in [Sources -> Finding]
  BY DEF NoFindings, Finding, Verdicts
<1>2. 1 \in Instances
  BY DEF Instances
<1> QED BY <1>1, <1>2 DEF Idle, TypeOK, Progress

\* What LoadState leaves: the loaded streaks counted on, everything else as it was.
LEMMA LoadStateEffect ==
    ASSUME TypeOK, NEW p \in Scans, NEW seen \in [Sources -> Seen], LoadState(p, seen)
    PROVE  /\ TypeOK'
           /\ Load(at[p]) \in Store
           /\ Load(at[p]).target \in {None, TargetOf[p][at[p]]}
           /\ mem'[p][at[p]] \in Store
           /\ mem'[p][at[p]].target = TargetOf[p][at[p]]
           /\ \A s \in Sources :
                /\ mem'[p][at[p]].src[s].snap = Load(at[p]).src[s].snap
                /\ report'[p][at[p]][s].snap = report[p][at[p]][s].snap
                /\ \/ mem'[p][at[p]].src[s].streak <= Load(at[p]).src[s].streak
                   \/ /\ mem'[p][at[p]].src[s].streak = AddLow(Load(at[p]).src[s].streak)
                      /\ report'[p][at[p]][s].volume \in {"low", "pending"}
                /\ \/ report'[p][at[p]][s] = report[p][at[p]][s]
                   \/ report'[p][at[p]][s].volume = "low" =>
                          Load(at[p]).src[s].streak + 1 >= Hysteresis
           /\ \A j \in Instances \ {at[p]} : /\ mem'[p][j] = mem[p][j]
                                             /\ report'[p][j] = report[p][j]
           /\ \A q \in Scans \ {p} : /\ mem'[q] = mem[q] /\ report'[q] = report[q]
                                     /\ pc'[q] = pc[q]
           /\ pc'[p] \in {"schemas", "build"}
           /\ UNCHANGED <<actual, remaps, files, at, out, lost, told, lowTold>>
<1> DEFINE i == at[p]
           store == Load(i)
           bound == [store EXCEPT !.target = TargetOf[p][i]]
           new == IF AssessesState(p) THEN AssessVolumes(bound, seen) ELSE bound
           found == [s \in Sources |->
                IF AssessesState(p)
                THEN [report[p][i][s] EXCEPT !.volume = VolumeVerdict(store.src[s].streak, seen[s])]
                ELSE report[p][i][s]]
<1>1. i \in Instances /\ store \in Store
  BY LoadFacts DEF TypeOK
<1>2. bound \in Store
  BY <1>1 DEF Store
<1>3. new \in Store
  BY <1>2, AssessVolumesFacts
<1>4. found \in [Sources -> Finding]
  <2>1. \A s \in Sources : store.src[s].streak \in 0..Hysteresis /\ report[p][i][s] \in Finding
    BY <1>1 DEF TypeOK, Store, History
  <2>2. \A s \in Sources : VolumeVerdict(store.src[s].streak, seen[s]) \in Verdicts
    BY <2>1, StreakFacts
  <2> QED BY <2>1, <2>2 DEF Finding
<1>5. /\ mem' = [mem EXCEPT ![p] = [mem[p] EXCEPT ![i] = new]]
      /\ report' = [report EXCEPT ![p] = [report[p] EXCEPT ![i] = found]]
      /\ pc' = [pc EXCEPT ![p] = IF AssessesState(p) THEN "schemas" ELSE "build"]
      /\ UNCHANGED <<actual, remaps, files, at, out, lost, told, lowTold>>
  BY DEF LoadState
<1>6. /\ new.target = TargetOf[p][i]
      /\ \A s \in Sources :
           /\ new.src[s].snap = store.src[s].snap
           /\ new.src[s].streak = IF AssessesState(p)
                                  THEN StreakAfter(store.src[s].streak, seen[s])
                                  ELSE store.src[s].streak
  BY <1>1, <1>2, AssessVolumesFacts, ZenonT(40) DEF Store
<1>7. \A s \in Sources : store.src[s].streak \in 0..Hysteresis /\ report[p][i][s] \in Finding
  BY <1>1 DEF TypeOK, Store, History
<1>8. \A s \in Sources :
           /\ found[s].snap = report[p][i][s].snap
           /\ \/ new.src[s].streak <= store.src[s].streak
              \/ /\ new.src[s].streak = AddLow(store.src[s].streak)
                 /\ found[s].volume \in {"low", "pending"}
           /\ \/ found[s] = report[p][i][s]
              \/ found[s].volume = "low" => store.src[s].streak + 1 >= Hysteresis
  <2> TAKE s \in Sources
  <2>1. CASE AssessesState(p)
    <3>1. found[s] = [report[p][i][s] EXCEPT !.volume = VolumeVerdict(store.src[s].streak, seen[s])]
      BY <2>1
    <3>2. /\ found[s].snap = report[p][i][s].snap
          /\ found[s].volume = VolumeVerdict(store.src[s].streak, seen[s])
      BY <3>1, <1>7 DEF Finding
    <3>3. new.src[s].streak = StreakAfter(store.src[s].streak, seen[s])
      BY <1>6, <2>1
    <3> QED BY ZenonT(40), <3>2, <3>3, <1>7, StreakFacts
  <2>2. CASE ~AssessesState(p)
    <3>1. found[s] = report[p][i][s] /\ new.src[s].streak = store.src[s].streak
      BY <1>6, <2>2
    <3> HIDE DEF new, found, store
    <3> QED BY <3>1, <1>7
  <2> QED BY <2>1, <2>2
<1>9. store.target \in {None, TargetOf[p][i]}
  BY DEF LoadState, Binds
<1> HIDE DEF i, new, found, store
<1>10. TypeOK'
  BY <1>1, <1>3, <1>4, <1>5 DEF TypeOK
<1>11. /\ mem'[p][i] = new /\ report'[p][i] = found
       /\ \A j \in Instances \ {i} : mem'[p][j] = mem[p][j] /\ report'[p][j] = report[p][j]
       /\ \A q \in Scans \ {p} : mem'[q] = mem[q] /\ report'[q] = report[q] /\ pc'[q] = pc[q]
       /\ pc'[p] \in {"schemas", "build"}
  BY <1>1, <1>5 DEF TypeOK
<1> QED BY ZenonT(100), <1>1, <1>3, <1>5, <1>6, <1>8, <1>9, <1>10, <1>11 DEF i, store

\* What ReadSchemas leaves: the snapshots that were fetched, in the store and in
\* the report alike.
LEMMA ReadSchemasEffect ==
    ASSUME TypeOK, Held, NEW p \in Scans, NEW fetched \in SUBSET Sources,
           ReadSchemas(p, fetched)
    PROVE  /\ TypeOK'
           /\ mem[p][at[p]] \in Store
           /\ mem'[p][at[p]] \in Store
           /\ mem'[p][at[p]].target = mem[p][at[p]].target
           /\ \A s \in Sources :
                /\ mem'[p][at[p]].src[s].streak = mem[p][at[p]].src[s].streak
                /\ report'[p][at[p]][s].volume = report[p][at[p]][s].volume
                /\ \/ /\ mem'[p][at[p]].src[s].snap = mem[p][at[p]].src[s].snap
                      /\ report'[p][at[p]][s].snap = report[p][at[p]][s].snap
                   \/ /\ mem'[p][at[p]].src[s].snap = report'[p][at[p]][s].snap
                      /\ mem'[p][at[p]].src[s].snap.origin = TargetOf[p][at[p]]
           /\ \A j \in Instances \ {at[p]} : /\ mem'[p][j] = mem[p][j]
                                             /\ report'[p][j] = report[p][j]
           /\ \A q \in Scans \ {p} : /\ mem'[q] = mem[q] /\ report'[q] = report[q]
                                     /\ pc'[q] = pc[q]
           /\ pc'[p] = "build"
           /\ UNCHANGED <<actual, remaps, files, at, out, lost, told, lowTold>>
<1> DEFINE i == at[p]
           store == mem[p][i]
           new == AssessSchemas(p, store, fetched)
           found == [s \in Sources |->
                IF s \in fetched
                THEN [report[p][i][s] EXCEPT !.snap = Found(p, s),
                         !.drift = Drifted(store.src[s].snap, Found(p, s).schema)]
                ELSE report[p][i][s]]
<1>1. i \in Instances /\ store \in Store
  <2>1. pc[p] = "schemas"
    BY DEF ReadSchemas
  <2> QED BY <2>1 DEF Held, TypeOK
<1>2. /\ new \in Store
      /\ new.target = store.target
      /\ \A s \in Sources :
           /\ new.src[s].streak = store.src[s].streak
           /\ new.src[s].snap = IF s \in fetched THEN Found(p, s) ELSE store.src[s].snap
  BY <1>1, AssessSchemasFacts
<1>3. \A s \in Sources : /\ found[s] \in Finding
                         /\ found[s].volume = report[p][i][s].volume
                         /\ found[s].snap = IF s \in fetched THEN Found(p, s)
                                            ELSE report[p][i][s].snap
                         /\ Found(p, s).origin = TargetOf[p][i]
  <2> TAKE s \in Sources
  <2>1. report[p][i][s] \in Finding /\ Found(p, s) \in Snapshot
        /\ Found(p, s).origin = TargetOf[p][i]
    BY <1>1, FoundFacts DEF TypeOK
  <2>2. Drifted(store.src[s].snap, Found(p, s).schema) \in BOOLEAN
    BY DEF Drifted
  <2> QED BY <2>1, <2>2 DEF Finding
<1>4. found \in [Sources -> Finding]
  BY <1>3
<1>5. /\ mem' = [mem EXCEPT ![p] = [mem[p] EXCEPT ![i] = new]]
      /\ report' = [report EXCEPT ![p] = [report[p] EXCEPT ![i] = found]]
      /\ pc' = [pc EXCEPT ![p] = "build"]
      /\ UNCHANGED <<actual, remaps, files, at, out, lost, told, lowTold>>
  BY DEF ReadSchemas
<1> HIDE DEF new, found
<1>6. TypeOK'
  BY <1>1, <1>2, <1>4, <1>5 DEF TypeOK
<1>7. /\ mem'[p][i] = new /\ report'[p][i] = found
      /\ \A j \in Instances \ {i} : mem'[p][j] = mem[p][j] /\ report'[p][j] = report[p][j]
      /\ \A q \in Scans \ {p} : mem'[q] = mem[q] /\ report'[q] = report[q] /\ pc'[q] = pc[q]
      /\ pc'[p] = "build"
  BY <1>1, <1>5 DEF TypeOK
<1>8. \A s \in Sources :
         /\ mem'[p][i].src[s].streak = store.src[s].streak
         /\ report'[p][i][s].volume = report[p][i][s].volume
         /\ \/ /\ mem'[p][i].src[s].snap = store.src[s].snap
               /\ report'[p][i][s].snap = report[p][i][s].snap
            \/ /\ mem'[p][i].src[s].snap = report'[p][i][s].snap
               /\ mem'[p][i].src[s].snap.origin = TargetOf[p][i]
  BY <1>2, <1>3, <1>7
<1> HIDE DEF i, store
<1> QED BY <1>1, <1>2, <1>5, <1>6, <1>7, <1>8 DEF i, store

\* The steps that touch no file and tell nothing: each store and its report stay,
\* or are dropped together.
Quietly ==
    /\ \A p \in Scans : \A i \in Instances :
         \/ mem'[p][i] = mem[p][i] /\ report'[p][i] = report[p][i]
         \/ mem'[p][i] = None /\ report'[p][i] = NoFindings
    /\ \A p \in Scans : pc'[p] = "commit" => pc[p] = "commit"
    /\ UNCHANGED <<files, told, lowTold>>

\* The stores and reports after a step of process p that ends its run.
LEMMA IdleEffect ==
    ASSUME TypeOK, Held, NEW p \in Scans, Idle(p)
    PROVE  /\ \A q \in Scans : \A i \in Instances :
                \/ mem'[q][i] = mem[q][i] /\ report'[q][i] = report[q][i]
                \/ mem'[q][i] = None /\ report'[q][i] = NoFindings
           /\ \A q \in Scans : pc'[q] = "commit" => pc[q] = "commit"
           /\ Held'
<1>1. \A q \in Scans \ {p} : /\ mem'[q] = mem[q] /\ report'[q] = report[q]
                             /\ pc'[q] = pc[q] /\ at'[q] = at[q]
  BY DEF Idle, TypeOK
<1>2. /\ pc'[p] = "idle"
      /\ \A i \in Instances : mem'[p][i] = None /\ report'[p][i] = NoFindings
  BY DEF Idle, TypeOK
<1> QED BY <1>1, <1>2 DEF Held

\* The step from one instance to the next, of a scan and of a commit.
LEMMA NextInstanceEffect ==
    ASSUME TypeOK, NEW p \in Scans, NextInstance(p)
    PROVE  /\ pc' \in [Scans -> Progress] /\ at' \in [Scans -> Instances]
           /\ pc'[p] \in {"load", "deliver"}
           /\ \A q \in Scans \ {p} : pc'[q] = pc[q] /\ at'[q] = at[q]
<1>1. CASE at[p] < Fleet
  <2>1. at[p] + 1 \in Instances
    BY <1>1 DEF TypeOK, Instances
  <2>2. at' = [at EXCEPT ![p] = at[p] + 1] /\ pc' = [pc EXCEPT ![p] = "load"]
    BY <1>1 DEF NextInstance
  <2> QED BY <2>1, <2>2 DEF TypeOK, Progress
<1>2. CASE ~(at[p] < Fleet)
  <2>1. 1 \in Instances
    BY DEF Instances
  <2>2. at' = [at EXCEPT ![p] = 1] /\ pc' = [pc EXCEPT ![p] = "deliver"]
    BY <1>2 DEF NextInstance
  <2> QED BY <2>1, <2>2 DEF TypeOK, Progress
<1> QED BY <1>1, <1>2

LEMMA NextCommitEffect ==
    ASSUME TypeOK, Held, NEW p \in Scans, pc[p] = "commit", NextCommit(p)
    PROVE  /\ pc' \in [Scans -> Progress] /\ at' \in [Scans -> Instances]
           /\ mem' \in [Scans -> [Instances -> Store \cup {None}]]
           /\ report' \in [Scans -> [Instances -> [Sources -> Finding]]]
           /\ out' \in [Scans -> Nat] /\ lost' \in [Scans -> BOOLEAN]
           /\ \A q \in Scans : \A i \in Instances :
                \/ mem'[q][i] = mem[q][i] /\ report'[q][i] = report[q][i]
                \/ mem'[q][i] = None /\ report'[q][i] = NoFindings
           /\ \A q \in Scans : pc'[q] = "commit" => pc[q] = "commit"
           /\ Held'
<1>1. CASE at[p] < Fleet
  <2>1. /\ at' = [at EXCEPT ![p] = at[p] + 1]
        /\ UNCHANGED <<pc, mem, report, out, lost>>
    BY <1>1 DEF NextCommit
  <2>2. at' \in [Scans -> Instances] /\ \A q \in Scans \ {p} : at'[q] = at[q]
    BY <1>1, <2>1 DEF TypeOK, Instances
  <2>3. Held'
    BY <2>1, <2>2 DEF Held
  <2> QED BY <2>1, <2>2, <2>3 DEF TypeOK, Progress
<1>2. CASE ~(at[p] < Fleet)
  <2>1. Idle(p)
    BY <1>2 DEF NextCommit
  <2> QED BY <2>1, IdleType, IdleEffect
<1> QED BY <1>1, <1>2

\* One step per action that is Quietly.
LEMMA QuietSteps ==
    ASSUME TypeOK, Held, NEW p \in Scans,
           \/ Start(p) \/ Build(p) \/ ScanFails(p) \/ Output(p) \/ OutputFails(p)
           \/ SummaryLost(p) \/ Cancelled(p) \/ NothingToCommit(p) \/ CommitFails(p)
           \/ Kill(p)
    PROVE  TypeOK' /\ Held' /\ Quietly
<1>1. CASE Start(p)
  <2>1. TypeOK'
    BY <1>1 DEF Start, TypeOK
  <2> QED BY <1>1, <2>1 DEF Start, TypeOK, Held, Quietly
<1>2. CASE Build(p)
  <2>1. NextInstance(p) /\ UNCHANGED <<actual, remaps, files, mem, report, out, lost, told, lowTold>>
    BY <1>2 DEF Build
  <2>2. TypeOK'
    BY <2>1, NextInstanceEffect DEF TypeOK, Progress
  <2> QED BY <2>1, <2>2, NextInstanceEffect DEF Held, Quietly
<1>3. CASE Idle(p) /\ UNCHANGED <<actual, remaps, files, told, lowTold>>
  <2>1. TypeOK'
    BY <1>3, IdleType DEF TypeOK, Progress
  <2> QED BY <1>3, <2>1, IdleEffect DEF Quietly
<1>4. CASE ScanFails(p) /\ ~Idle(p)
  <2>1. /\ pc[p] \in {"load", "schemas", "build"}
        /\ mem' = [mem EXCEPT ![p] = [mem[p] EXCEPT ![at[p]] = None]]
        /\ report' = [report EXCEPT ![p] = [report[p] EXCEPT ![at[p]] = NoFindings]]
        /\ NextInstance(p)
        /\ UNCHANGED <<actual, remaps, files, out, lost, told, lowTold>>
    BY <1>4 DEF ScanFails
  <2>2. NoFindings \in [Sources -> Finding] /\ at[p] \in Instances
    BY DEF NoFindings, Finding, Verdicts, TypeOK
  <2>3. TypeOK'
    BY <2>1, <2>2, NextInstanceEffect DEF TypeOK, Progress
  <2>4. \A q \in Scans : \A i \in Instances :
           \/ mem'[q][i] = mem[q][i] /\ report'[q][i] = report[q][i]
           \/ mem'[q][i] = None /\ report'[q][i] = NoFindings
    BY <2>1, <2>2 DEF TypeOK
  <2>5. \A q \in Scans \ {p} : mem'[q] = mem[q]
    BY <2>1 DEF TypeOK
  <2> QED BY <2>1, <2>3, <2>4, <2>5, NextInstanceEffect DEF Held, Quietly
<1>5. CASE Output(p) \/ SummaryLost(p)
  <2>1. /\ out' = [out EXCEPT ![p] = out[p] + 1]
        /\ lost' = lost \/ lost' = [lost EXCEPT ![p] = TRUE]
        /\ UNCHANGED <<actual, remaps, files, pc, at, mem, report, told, lowTold>>
    BY <1>5 DEF Output, SummaryLost
  <2>2. lost' \in [Scans -> BOOLEAN]
    BY <2>1 DEF TypeOK
  <2>3. out' \in [Scans -> Nat]
    BY <2>1 DEF TypeOK
  <2>4. TypeOK'
    BY <2>1, <2>2, <2>3 DEF TypeOK
  <2> QED BY <2>1, <2>4 DEF Held, Quietly
<1>6. CASE (NothingToCommit(p) \/ CommitFails(p)) /\ ~Idle(p)
  <2>1. /\ pc[p] = "commit" /\ NextCommit(p)
        /\ UNCHANGED <<actual, remaps, files, told, lowTold>>
    BY <1>6 DEF NothingToCommit, CommitFails
  <2>2. TypeOK'
    BY <2>1, NextCommitEffect DEF TypeOK, Progress
  <2> QED BY <2>1, <2>2, NextCommitEffect DEF Quietly
<1>7. CASE OutputFails(p) \/ Cancelled(p) \/ Kill(p)
  BY <1>3, <1>7 DEF OutputFails, Cancelled, Kill
<1>8. CASE (ScanFails(p) \/ NothingToCommit(p) \/ CommitFails(p)) /\ Idle(p)
  BY <1>3, <1>8 DEF ScanFails, NothingToCommit, CommitFails
<1> QED BY <1>1, <1>2, <1>4, <1>5, <1>6, <1>7, <1>8

LEMMA RemapQuiet ==
    ASSUME TypeOK, Held, NEW t \in Targets, NEW s \in Sources, Remap(t, s)
    PROVE  TypeOK' /\ Held' /\ Quietly
<1>1. PICK v \in Schemas : actual' = [actual EXCEPT ![t] = [actual[t] EXCEPT ![s] = v]]
  BY DEF Remap
<1>2. /\ remaps' \in 0..MaxRemaps
      /\ UNCHANGED <<files, pc, at, mem, report, out, lost, told, lowTold>>
  BY DEF Remap, TypeOK, procVars
<1>3. TypeOK'
  BY <1>1, <1>2 DEF TypeOK
<1> QED BY <1>2, <1>3 DEF Held, Quietly

LEMMA StutterQuiet ==
    ASSUME TypeOK, Held, UNCHANGED vars
    PROVE  TypeOK' /\ Held' /\ Quietly
BY DEF vars, procVars, TypeOK, Held, Quietly

\* What a commit leaves: the whole store of one instance in its file.
LEMMA CommitEffect ==
    ASSUME TypeOK, Held, NEW p \in Scans, Commit(p)
    PROVE  /\ TypeOK' /\ Held'
           /\ pc[p] = "commit" /\ at[p] \in Instances
           /\ mem[p][at[p]] \in Store /\ mem[p][at[p]] # None
           /\ files'[at[p]] = mem[p][at[p]]
           /\ \A i \in Instances \ {at[p]} : files'[i] = files[i]
           /\ \A q \in Scans : \A i \in Instances :
                \/ mem'[q][i] = mem[q][i] /\ report'[q][i] = report[q][i]
                \/ mem'[q][i] = None /\ report'[q][i] = NoFindings
           /\ \A q \in Scans : pc'[q] = "commit" => pc[q] = "commit"
           /\ UNCHANGED <<told, lowTold>>
<1>1. /\ pc[p] = "commit" /\ at[p] \in Instances
      /\ mem[p][at[p]] \in Store /\ mem[p][at[p]] # None
      /\ files' = [files EXCEPT ![at[p]] = mem[p][at[p]]]
      /\ NextCommit(p)
      /\ UNCHANGED <<actual, remaps, told, lowTold>>
  BY DEF Commit, TypeOK
<1>2. files' \in [Instances -> Store \cup {None}]
  BY <1>1 DEF TypeOK
<1>3. TypeOK'
  BY <1>1, <1>2, NextCommitEffect DEF TypeOK, Progress
<1> QED BY <1>1, <1>3, NextCommitEffect DEF TypeOK

\* What a completed delivery leaves: unless an output was lost, everything in the
\* report has been told.
LEMMA DeliveryEffect ==
    ASSUME TypeOK, Held, NEW p \in Scans, DeliveryDone(p)
    PROVE  /\ TypeOK' /\ Held'
           /\ \A i \in Instances : \A s \in Sources :
                /\ told[i][s] \subseteq told'[i][s]
                /\ lowTold[i][s] <= lowTold'[i][s]
                /\ ~lost[p] => /\ report[p][i][s].snap \in told'[i][s] \cup {None}
                               /\ report[p][i][s].volume \in {"low", "pending"} =>
                                     lowTold'[i][s] = AddLow(lowTold[i][s])
           /\ \A q \in Scans \ {p} : pc'[q] = pc[q]
           /\ UNCHANGED <<actual, remaps, files, at, mem, report, out, lost>>
<1>1. /\ pc' = [pc EXCEPT ![p] = "commit"]
      /\ UNCHANGED <<actual, remaps, files, at, mem, report, out, lost>>
  BY DEF DeliveryDone
<1>2. \A i \in Instances : \A s \in Sources :
         /\ report[p][i][s] \in Finding
         /\ told[i][s] \in SUBSET Snapshot
         /\ lowTold[i][s] \in 0..Hysteresis
         /\ AddLow(lowTold[i][s]) \in 0..Hysteresis
         /\ lowTold[i][s] <= AddLow(lowTold[i][s])
         /\ Delivered(p, i, s) \in SUBSET Snapshot
  BY AddLowFacts, SMTT(30) DEF TypeOK, Delivered, Finding
<1>3. CASE lost[p]
  <2>1. UNCHANGED <<told, lowTold>>
    BY <1>3 DEF DeliveryDone
  <2>2. TypeOK'
    BY <1>1, <2>1 DEF TypeOK
  <2> QED BY <1>1, <1>2, <1>3, <2>1, <2>2 DEF Held, TypeOK
<1>4. CASE ~lost[p]
  <2>1. Tell(p)
    BY <1>4 DEF DeliveryDone
  <2>2. /\ told' \in [Instances -> [Sources -> SUBSET Snapshot]]
        /\ \A i \in Instances : \A s \in Sources :
             told'[i][s] = told[i][s] \cup Delivered(p, i, s)
    BY <2>1, <1>2 DEF Tell
  <2>3. /\ lowTold' \in [Instances -> [Sources -> 0..Hysteresis]]
        /\ \A i \in Instances : \A s \in Sources :
             lowTold'[i][s] = IF report[p][i][s].volume \in {"low", "pending"}
                              THEN AddLow(lowTold[i][s]) ELSE lowTold[i][s]
    BY <2>1, <1>2 DEF Tell
  <2>4. TypeOK'
    BY <1>1, <2>2, <2>3 DEF TypeOK
  <2>5. \A i \in Instances : \A s \in Sources :
           report[p][i][s].snap \in Delivered(p, i, s) \cup {None}
    BY DEF Delivered
  <2> QED BY <1>1, <1>2, <2>2, <2>3, <2>4, <2>5 DEF Held, TypeOK
<1> QED BY <1>3, <1>4

-----------------------------------------------------------------------------
(* The steps of the specification, by what they do *)

\* Every step is quiet, or one of the four that read or write what is shared.
LEMMA StepKinds ==
    ASSUME TypeInv, [Next]_vars
    PROVE  \/ TypeInv' /\ Quietly
           \/ \E p \in Scans : \/ \E seen \in [Sources -> Seen] : LoadState(p, seen)
                               \/ \E fetched \in SUBSET Sources : ReadSchemas(p, fetched)
                               \/ DeliveryDone(p)
                               \/ Commit(p)
BY QuietSteps, RemapQuiet, StutterQuiet DEF TypeInv, Next, Assess, Deliver, Save

LEMMA InitTypeInv == Init => TypeInv
BY InitType DEF TypeInv, Held, Init

LEMMA TypeInductive == TypeInv /\ [Next]_vars => TypeInv'
<1> SUFFICES ASSUME TypeInv, [Next]_vars PROVE TypeInv'
  OBVIOUS
<1> USE DEF TypeInv
<1>1. ASSUME NEW p \in Scans, NEW seen \in [Sources -> Seen], LoadState(p, seen)
      PROVE  TypeInv'
  BY <1>1, LoadStateEffect DEF Held
<1>2. ASSUME NEW p \in Scans, NEW fetched \in SUBSET Sources, ReadSchemas(p, fetched)
      PROVE  TypeInv'
  BY <1>2, ReadSchemasEffect DEF Held
<1>3. ASSUME NEW p \in Scans, DeliveryDone(p) PROVE TypeInv'
  BY <1>3, DeliveryEffect
<1>4. ASSUME NEW p \in Scans, Commit(p) PROVE TypeInv'
  BY <1>4, CommitEffect
<1> QED BY <1>1, <1>2, <1>3, <1>4, StepKinds

\* ScanCommit: the variables keep their types for every set of processes.
THEOREM TypeCorrect == Spec => []TypeOK
<1>1. TypeInv => TypeOK
  BY DEF TypeInv
<1> QED BY InitTypeInv, TypeInductive, <1>1, PTL DEF Spec

-----------------------------------------------------------------------------
(* A file's history is its target's *)

\* A store's history was read from this target, or by an earlier version.
ReadFrom(store, target) ==
    /\ store.target = target
    /\ \A s \in Sources : store.src[s].snap # None =>
                             store.src[s].snap.origin \in {target, None}

\* A store a process will commit is bound to that process's target for the instance:
\* this is what makes the last of several first commits harmless.
StoresMatch == \A p \in Scans : \A i \in Instances :
                   mem[p][i] # None => ReadFrom(mem[p][i], TargetOf[p][i])

BindingInv == HistoryMatchesBinding /\ StoresMatch

LEMMA BindingInductive ==
    ASSUME TypeInv, TypeInv', BindingInv, [Next]_vars
    PROVE  BindingInv'
<1> USE DEF TypeInv, BindingInv
<1>1. CASE Quietly
  BY <1>1 DEF Quietly, HistoryMatchesBinding, StoresMatch, ReadFrom
<1>2. ASSUME NEW p \in Scans, NEW seen \in [Sources -> Seen], LoadState(p, seen)
      PROVE  BindingInv'
  <2> DEFINE i == at[p]
             target == TargetOf[p][i]
             store == Load(i)
  <2>1. i \in Instances /\ target \in Targets
    BY DEF TypeOK
  <2>2. /\ store \in Store /\ store.target \in {None, target}
        /\ mem'[p][i].target = target
        /\ \A s \in Sources : mem'[p][i].src[s].snap = store.src[s].snap
    BY <1>2, LoadStateEffect
  <2>3. ASSUME NEW s \in Sources, store.src[s].snap # None
        PROVE  store.src[s].snap.origin \in {target, None}
    <3>1. files[i] # None
      BY <2>3 DEF Load, NewStore
    <3>2. store.src[s].snap.origin \in {store.target, None}
      BY <2>1, <2>3, <3>1 DEF Load, HistoryMatchesBinding
    <3> QED BY <2>2, <3>2
  <2>4. ReadFrom(mem'[p][i], target)
    BY <2>2, <2>3 DEF ReadFrom
  <2>5. /\ \A j \in Instances \ {i} : mem'[p][j] = mem[p][j]
        /\ \A q \in Scans \ {p} : mem'[q] = mem[q]
        /\ UNCHANGED files
    BY <1>2, LoadStateEffect
  <2>6. StoresMatch'
    BY <2>4, <2>5 DEF StoresMatch
  <2> QED BY <2>5, <2>6 DEF HistoryMatchesBinding
<1>3. ASSUME NEW p \in Scans, NEW fetched \in SUBSET Sources, ReadSchemas(p, fetched)
      PROVE  BindingInv'
  <2> DEFINE i == at[p]
  <2>1. i \in Instances
    BY DEF TypeOK
  <2>2. mem[p][i] # None => ReadFrom(mem'[p][i], TargetOf[p][i])
    <3>1. mem[p][i] # None => ReadFrom(mem[p][i], TargetOf[p][i])
      BY <2>1 DEF StoresMatch
    <3>2. /\ mem'[p][i].target = mem[p][i].target
          /\ \A s \in Sources :
               \/ mem'[p][i].src[s].snap = mem[p][i].src[s].snap
               \/ mem'[p][i].src[s].snap.origin = TargetOf[p][i]
      BY ZenonT(40), <1>3, ReadSchemasEffect
    <3> QED BY <3>1, <3>2 DEF ReadFrom
  <2>3. mem[p][i] # None
    BY <1>3, ReadSchemasEffect, NoneAssumption
  <2>4. /\ \A j \in Instances \ {i} : mem'[p][j] = mem[p][j]
        /\ \A q \in Scans \ {p} : mem'[q] = mem[q]
        /\ UNCHANGED files
    BY <1>3, ReadSchemasEffect
  <2>5. StoresMatch'
    BY <2>2, <2>3, <2>4 DEF StoresMatch
  <2> QED BY <2>4, <2>5 DEF HistoryMatchesBinding
<1>4. ASSUME NEW p \in Scans, DeliveryDone(p) PROVE BindingInv'
  BY <1>4, DeliveryEffect DEF HistoryMatchesBinding, StoresMatch, ReadFrom
<1>5. ASSUME NEW p \in Scans, Commit(p) PROVE BindingInv'
  <2>1. ReadFrom(mem[p][at[p]], TargetOf[p][at[p]])
    BY <1>5, CommitEffect DEF StoresMatch
  <2>2. HistoryMatchesBinding'
    BY <1>5, <2>1, CommitEffect DEF HistoryMatchesBinding, ReadFrom
  <2>3. StoresMatch'
    BY <1>5, CommitEffect DEF StoresMatch
  <2> QED BY <2>2, <2>3
<1> QED BY <1>1, <1>2, <1>3, <1>4, <1>5, StepKinds

\* BindTarget and scanOnce: whatever processes overlap on a state file, and even if
\* several of them find it unbound, it never holds what was read from another target
\* than the one it is bound to; what an earlier version read, from nobody knows which
\* target, stays with the target that binds the file.
THEOREM HistoryIsBound == Spec => []HistoryMatchesBinding
<1>1. Init => BindingInv
  <2> SUFFICES ASSUME Init PROVE BindingInv
    OBVIOUS
  <2>1. StoresMatch
    BY DEF Init, StoresMatch
  <2>2. HistoryMatchesBinding
    BY InitFiles, LegacyAssumption DEF HistoryMatchesBinding
  <2> QED BY <2>1, <2>2 DEF BindingInv
<1>2. TypeInv /\ TypeInv' /\ BindingInv /\ [Next]_vars => BindingInv'
  BY BindingInductive
<1>3. BindingInv => HistoryMatchesBinding
  BY DEF BindingInv
<1> QED BY InitTypeInv, TypeInductive, <1>1, <1>2, <1>3, PTL DEF Spec

-----------------------------------------------------------------------------
(* What a file remembers was told *)

\* No output is the terminal summary, whose failures go unnoticed.
NoTerminal == \A p \in Scans : \A k \in 1..Len(Outputs[p]) : Outputs[p][k] # "text"

\* A source's history is already told, ...
Told(history, i, s) ==
    /\ history.snap \in told[i][s] \cup {None}
    /\ history.streak <= lowTold[i][s]

\* ... or this finding will tell it.
ToldBy(history, finding, i, s) ==
    /\ history.snap \in told[i][s] \cup {None, finding.snap}
    /\ \/ history.streak <= lowTold[i][s]
       \/ /\ history.streak <= AddLow(lowTold[i][s])
          /\ finding.volume \in {"low", "pending"}

\* What a store holds beyond what was told is what its own report shows.
StoresAreTold ==
    \A p \in Scans : \A i \in Instances : mem[p][i] # None =>
        \A s \in Sources :
            /\ ToldBy(mem[p][i].src[s], report[p][i][s], i, s)
            /\ pc[p] = "commit" => Told(mem[p][i].src[s], i, s)

FilesAreTold == \A i \in Instances : files[i] # None =>
                    \A s \in Sources : Told(files[i].src[s], i, s)

\* A low verdict needs one more telling at most.
LowIsTold == \A p \in Scans : \A i \in Instances : \A s \in Sources :
                 report[p][i][s].volume = "low" => lowTold[i][s] + 1 >= Hysteresis

\* Without a terminal no output is lost in silence.
NothingLost == \A p \in Scans : lost[p] = FALSE

ToldInv == NothingLost /\ FilesAreTold /\ StoresAreTold /\ LowIsTold

\* What was told only grows, so it goes on covering a history.
LEMMA ToldGrows ==
    ASSUME TypeOK, TypeOK', NEW i \in Instances, NEW s \in Sources,
           NEW history \in History, NEW finding \in Finding,
           told[i][s] \subseteq told'[i][s], lowTold[i][s] <= lowTold'[i][s]
    PROVE  /\ Told(history, i, s) => Told(history, i, s)'
           /\ ToldBy(history, finding, i, s) => ToldBy(history, finding, i, s)'
<1>1. /\ lowTold[i][s] \in 0..Hysteresis /\ lowTold'[i][s] \in 0..Hysteresis
      /\ history.streak \in 0..Hysteresis
  BY DEF TypeOK, History
<1>2. /\ AddLow(lowTold[i][s]) <= AddLow(lowTold'[i][s])
      /\ AddLow(lowTold[i][s]) \in 0..Hysteresis
      /\ AddLow(lowTold'[i][s]) \in 0..Hysteresis
  BY <1>1, AddLowMonotonic, AddLowFacts
<1>3. Told(history, i, s) => Told(history, i, s)'
  BY <1>1 DEF Told
<1>4. ToldBy(history, finding, i, s) => ToldBy(history, finding, i, s)'
  BY <1>1, <1>2 DEF ToldBy
<1> QED BY <1>3, <1>4

\* A step that keeps or drops each store with its report, and tells nothing.
LEMMA KeptTold ==
    ASSUME ToldInv,
           \A p \in Scans : \A i \in Instances :
               \/ mem'[p][i] = mem[p][i] /\ report'[p][i] = report[p][i]
               \/ mem'[p][i] = None /\ report'[p][i] = NoFindings,
           \A p \in Scans : pc'[p] = "commit" => pc[p] = "commit",
           UNCHANGED <<told, lowTold>>
    PROVE  StoresAreTold' /\ LowIsTold'
<1>1. StoresAreTold'
  <2> SUFFICES ASSUME NEW p \in Scans, NEW i \in Instances, mem'[p][i] # None,
                      NEW s \in Sources
               PROVE  /\ ToldBy(mem[p][i].src[s], report[p][i][s], i, s)'
                      /\ pc'[p] = "commit" => Told(mem[p][i].src[s], i, s)'
    BY DEF StoresAreTold
  <2>1. mem'[p][i] = mem[p][i] /\ report'[p][i] = report[p][i]
    OBVIOUS
  <2> QED BY <2>1 DEF ToldInv, StoresAreTold, Told, ToldBy
<1>2. LowIsTold'
  <2> SUFFICES ASSUME NEW p \in Scans, NEW i \in Instances, NEW s \in Sources,
                      report'[p][i][s].volume = "low"
               PROVE  lowTold'[i][s] + 1 >= Hysteresis
    BY DEF LowIsTold
  <2>1. NoFindings[s].volume # "low"
    BY DEF NoFindings
  <2>2. report'[p][i] = report[p][i]
    BY <2>1
  <2> QED BY <2>2 DEF ToldInv, LowIsTold
<1> QED BY <1>1, <1>2

\* Without a terminal summary no output is lost.
LEMMA LostInductive ==
    ASSUME NoTerminal, TypeInv, NothingLost, [Next]_vars
    PROVE  NothingLost'
<1> USE DEF NothingLost
<1>1. ASSUME NEW p \in Scans, SummaryLost(p) PROVE FALSE
  <2>1. out[p] + 1 \in 1..Len(Outputs[p])
    BY <1>1 DEF SummaryLost, TypeInv, TypeOK
  <2> QED BY <1>1, <2>1 DEF NoTerminal, SummaryLost, Channel
<1>2. ASSUME NEW p \in Scans, Idle(p) PROVE NothingLost'
  BY <1>2 DEF Idle, TypeInv, TypeOK
<1>3. ASSUME NEW p \in Scans, NextCommit(p) PROVE NothingLost'
  BY <1>2, <1>3 DEF NextCommit
<1>4. ASSUME NEW p \in Scans, ScanFails(p) PROVE NothingLost'
  BY <1>2, <1>4 DEF ScanFails
<1>5. CASE UNCHANGED lost
  BY <1>5
<1> QED BY <1>1, <1>2, <1>3, <1>4, <1>5
        DEF Next, Assess, Deliver, Save, Start, LoadState, ReadSchemas, Build, Output,
            OutputFails, DeliveryDone, Cancelled, Commit, NothingToCommit, CommitFails,
            Kill, Remap, procVars, vars

LEMMA ToldInductive ==
    ASSUME NoTerminal, TypeInv, TypeInv', ToldInv, [Next]_vars
    PROVE  ToldInv'
<1> USE DEF TypeInv
<1>0. NothingLost'
  BY LostInductive DEF ToldInv
<1>1. CASE Quietly
  <2>1. FilesAreTold'
    BY <1>1 DEF Quietly, ToldInv, FilesAreTold, Told
  <2>2. StoresAreTold' /\ LowIsTold'
    BY <1>1, KeptTold DEF Quietly
  <2> QED BY <1>0, <2>1, <2>2 DEF ToldInv
<1>2. ASSUME NEW p \in Scans, NEW seen \in [Sources -> Seen], LoadState(p, seen)
      PROVE  ToldInv'
  <2> DEFINE i == at[p]
             store == Load(i)
             new == mem'[p][i]
             found == report'[p][i]
  <2>1. i \in Instances /\ UNCHANGED <<files, told, lowTold>> /\ pc'[p] # "commit"
    BY <1>2, LoadStateEffect DEF TypeOK
  <2>2. \A s \in Sources : /\ store.src[s] \in History
                           /\ Told(store.src[s], i, s)
                           /\ lowTold[i][s] \in 0..Hysteresis
    <3> TAKE s \in Sources
    <3>1. store.src[s] \in History
      BY <1>2, LoadStateEffect, SMTT(60) DEF Store
    <3>2. lowTold[i][s] \in 0..Hysteresis
      BY <2>1 DEF TypeOK
    <3>3. Told(store.src[s], i, s)
      <4>1. CASE files[i] = None
        <5>1. store.src[s] = [snap |-> None, streak |-> 0]
          BY <4>1 DEF Load, NewStore
        <5> HIDE DEF store
        <5> QED BY <3>2, <5>1 DEF Told
      <4>2. CASE files[i] # None
        <5>1. store = files[i]
          BY <4>2 DEF Load
        <5> HIDE DEF store
        <5> QED BY <2>1, <4>2, <5>1 DEF ToldInv, FilesAreTold
      <4> QED BY <4>1, <4>2
    <3> QED BY <3>1, <3>2, <3>3
  <2>3. \A s \in Sources :
          /\ new.src[s].snap = store.src[s].snap
          /\ \/ new.src[s].streak <= store.src[s].streak
             \/ /\ new.src[s].streak = AddLow(store.src[s].streak)
                /\ found[s].volume \in {"low", "pending"}
          /\ \/ found[s] = report[p][i][s]
             \/ found[s].volume = "low" => store.src[s].streak + 1 >= Hysteresis
    BY ZenonT(100), <1>2, LoadStateEffect
  <2>4. \A s \in Sources : new.src[s].streak \in 0..Hysteresis
    <3>1. new \in Store
      BY <1>2, LoadStateEffect
    <3> HIDE DEF new
    <3> QED BY <3>1 DEF Store, History
  <2> HIDE DEF i, store, new, found
  <2>5. \A s \in Sources : ToldBy(new.src[s], found[s], i, s)
    <3> TAKE s \in Sources
    <3>1. /\ store.src[s].streak \in 0..Hysteresis
          /\ store.src[s].streak <= lowTold[i][s] /\ lowTold[i][s] \in 0..Hysteresis
          /\ store.src[s].snap \in told[i][s] \cup {None}
      BY <2>2 DEF Told, History
    <3>2. AddLow(store.src[s].streak) <= AddLow(lowTold[i][s])
      BY <3>1, AddLowMonotonic
    <3> QED BY <2>3, <2>4, <3>1, <3>2 DEF ToldBy
  <2>6. \A s \in Sources : found[s].volume = "low" => lowTold[i][s] + 1 >= Hysteresis
    <3> TAKE s \in Sources
    <3>1. report[p][i][s].volume = "low" => lowTold[i][s] + 1 >= Hysteresis
      BY <2>1 DEF ToldInv, LowIsTold
    <3>2. /\ store.src[s].streak \in 0..Hysteresis /\ lowTold[i][s] \in 0..Hysteresis
          /\ store.src[s].streak <= lowTold[i][s]
      BY <2>2 DEF Told, History
    <3> QED BY <2>3, <3>1, <3>2
  <2>7. /\ \A j \in Instances \ {i} : mem'[p][j] = mem[p][j] /\ report'[p][j] = report[p][j]
        /\ \A q \in Scans \ {p} : mem'[q] = mem[q] /\ report'[q] = report[q] /\ pc'[q] = pc[q]
    BY <1>2, LoadStateEffect DEF i
  <2>8. FilesAreTold'
    BY <2>1 DEF ToldInv, FilesAreTold, Told
  <2>9. LowIsTold'
    <3> SUFFICES ASSUME NEW q \in Scans, NEW j \in Instances, NEW s \in Sources,
                        report'[q][j][s].volume = "low"
                 PROVE  lowTold[j][s] + 1 >= Hysteresis
      BY <2>1 DEF LowIsTold
    <3>1. CASE q = p /\ j = i
      BY <2>6, <3>1 DEF found
    <3>2. CASE ~(q = p /\ j = i)
      <4>1. report'[q][j] = report[q][j]
        BY <2>7, <3>2
      <4> QED BY <4>1 DEF ToldInv, LowIsTold
    <3> QED BY <3>1, <3>2
  <2>10. StoresAreTold'
    <3> SUFFICES ASSUME NEW q \in Scans, NEW j \in Instances, mem'[q][j] # None,
                        NEW s \in Sources
                 PROVE  /\ ToldBy(mem[q][j].src[s], report[q][j][s], j, s)'
                        /\ pc'[q] = "commit" => Told(mem[q][j].src[s], j, s)'
      BY DEF StoresAreTold
    <3>1. CASE q = p /\ j = i
      BY <2>1, <2>5, <3>1 DEF ToldBy, new, found
    <3>2. CASE ~(q = p /\ j = i)
      <4>1. /\ mem'[q][j] = mem[q][j] /\ report'[q][j] = report[q][j]
            /\ pc'[q] = "commit" => pc[q] = "commit"
        BY <2>1, <2>7, <3>2
      <4> QED BY <2>1, <4>1 DEF ToldInv, StoresAreTold, Told, ToldBy
    <3> QED BY <3>1, <3>2
  <2> QED BY <1>0, <2>8, <2>9, <2>10 DEF ToldInv
<1>3. ASSUME NEW p \in Scans, NEW fetched \in SUBSET Sources, ReadSchemas(p, fetched)
      PROVE  ToldInv'
  <2> DEFINE i == at[p]
             new == mem'[p][i]
             found == report'[p][i]
  <2>1. /\ i \in Instances /\ UNCHANGED <<files, told, lowTold>> /\ pc'[p] # "commit"
        /\ mem[p][i] # None
    <3>1. i \in Instances
      BY DEF TypeOK
    <3>2. mem[p][i] \in Store /\ UNCHANGED <<files, told, lowTold>> /\ pc'[p] = "build"
      BY <1>3, ReadSchemasEffect
    <3> QED BY <3>1, <3>2, NoneAssumption
  <2>2. \A s \in Sources :
          /\ new.src[s].streak = mem[p][i].src[s].streak
          /\ found[s].volume = report[p][i][s].volume
          /\ \/ /\ new.src[s].snap = mem[p][i].src[s].snap
                /\ found[s].snap = report[p][i][s].snap
             \/ new.src[s].snap = found[s].snap
    BY <1>3, ReadSchemasEffect, ZenonT(40)
  <2>3. /\ \A j \in Instances \ {i} : mem'[p][j] = mem[p][j] /\ report'[p][j] = report[p][j]
        /\ \A q \in Scans \ {p} : mem'[q] = mem[q] /\ report'[q] = report[q] /\ pc'[q] = pc[q]
    BY <1>3, ReadSchemasEffect
  <2> HIDE DEF new, found
  <2>4. \A s \in Sources : ToldBy(new.src[s], found[s], i, s)
    <3> TAKE s \in Sources
    <3>1. ToldBy(mem[p][i].src[s], report[p][i][s], i, s)
      BY <2>1 DEF ToldInv, StoresAreTold
    <3> QED BY <2>2, <3>1 DEF ToldBy
  <2> HIDE DEF i
  <2>5. FilesAreTold'
    BY <2>1 DEF ToldInv, FilesAreTold, Told
  <2>6. LowIsTold'
    <3> SUFFICES ASSUME NEW q \in Scans, NEW j \in Instances, NEW s \in Sources,
                        report'[q][j][s].volume = "low"
                 PROVE  lowTold[j][s] + 1 >= Hysteresis
      BY <2>1 DEF LowIsTold
    <3>1. CASE q = p /\ j = i
      BY <2>1, <2>2, <3>1 DEF found, ToldInv, LowIsTold
    <3>2. CASE ~(q = p /\ j = i)
      <4>1. report'[q][j] = report[q][j]
        BY <2>3, <3>2
      <4> QED BY <4>1 DEF ToldInv, LowIsTold
    <3> QED BY <3>1, <3>2
  <2>7. StoresAreTold'
    <3> SUFFICES ASSUME NEW q \in Scans, NEW j \in Instances, mem'[q][j] # None,
                        NEW s \in Sources
                 PROVE  /\ ToldBy(mem[q][j].src[s], report[q][j][s], j, s)'
                        /\ pc'[q] = "commit" => Told(mem[q][j].src[s], j, s)'
      BY DEF StoresAreTold
    <3>1. CASE q = p /\ j = i
      BY <2>1, <2>4, <3>1 DEF ToldBy, new, found
    <3>2. CASE ~(q = p /\ j = i)
      <4>1. /\ mem'[q][j] = mem[q][j] /\ report'[q][j] = report[q][j]
            /\ pc'[q] = "commit" => pc[q] = "commit"
        BY <2>1, <2>3, <3>2
      <4> QED BY <2>1, <4>1 DEF ToldInv, StoresAreTold, Told, ToldBy
    <3> QED BY <3>1, <3>2
  <2> QED BY <1>0, <2>5, <2>6, <2>7 DEF ToldInv
<1>4. ASSUME NEW p \in Scans, DeliveryDone(p) PROVE ToldInv'
  <2>1. /\ UNCHANGED <<files, mem, report>>
        /\ \A q \in Scans \ {p} : pc'[q] = pc[q]
        /\ \A i \in Instances : \A s \in Sources :
             /\ told[i][s] \subseteq told'[i][s]
             /\ lowTold[i][s] <= lowTold'[i][s]
             /\ report[p][i][s].snap \in told'[i][s] \cup {None}
             /\ report[p][i][s].volume \in {"low", "pending"} =>
                   lowTold'[i][s] = AddLow(lowTold[i][s])
    BY <1>4, DeliveryEffect DEF ToldInv, NothingLost
  <2>2. FilesAreTold'
    <3> SUFFICES ASSUME NEW i \in Instances, files'[i] # None, NEW s \in Sources
                 PROVE  Told(files[i].src[s], i, s)'
      BY DEF FilesAreTold
    <3>1. files[i].src[s] \in History /\ Told(files[i].src[s], i, s)
      BY <2>1 DEF ToldInv, FilesAreTold, TypeOK, Store
    <3>2. lowTold[i][s] \in 0..Hysteresis /\ lowTold'[i][s] \in 0..Hysteresis
      BY DEF TypeOK
    <3> QED BY <2>1, <3>1, <3>2, SMTT(30) DEF Told, History
  <2>3. LowIsTold'
    <3> SUFFICES ASSUME NEW q \in Scans, NEW i \in Instances, NEW s \in Sources,
                        report'[q][i][s].volume = "low"
                 PROVE  lowTold'[i][s] + 1 >= Hysteresis
      BY DEF LowIsTold
    <3>1. lowTold[i][s] + 1 >= Hysteresis
      BY <2>1 DEF ToldInv, LowIsTold
    <3>2. lowTold[i][s] \in 0..Hysteresis /\ lowTold'[i][s] \in 0..Hysteresis
      BY DEF TypeOK
    <3> QED BY <2>1, <3>1, <3>2
  <2>4. StoresAreTold'
    <3> SUFFICES ASSUME NEW q \in Scans, NEW j \in Instances, mem'[q][j] # None,
                        NEW s \in Sources
                 PROVE  /\ ToldBy(mem[q][j].src[s], report[q][j][s], j, s)'
                        /\ pc'[q] = "commit" => Told(mem[q][j].src[s], j, s)'
      BY DEF StoresAreTold
    <3> DEFINE history == mem[q][j].src[s]
               finding == report[q][j][s]
    <3>1. /\ history \in History /\ finding \in Finding
          /\ mem'[q][j].src[s] = history /\ report'[q][j][s] = finding
      BY <2>1 DEF TypeOK, Store
    <3>2. /\ ToldBy(history, finding, j, s)
          /\ pc[q] = "commit" => Told(history, j, s)
      BY <2>1 DEF ToldInv, StoresAreTold
    <3>3. /\ lowTold[j][s] \in 0..Hysteresis /\ lowTold'[j][s] \in 0..Hysteresis
          /\ history.streak \in 0..Hysteresis
      BY <3>1, SMTT(30) DEF TypeOK, History
    <3>4. /\ AddLow(lowTold[j][s]) \in 0..Hysteresis /\ AddLow(lowTold'[j][s]) \in 0..Hysteresis
          /\ AddLow(lowTold[j][s]) <= AddLow(lowTold'[j][s])
          /\ lowTold'[j][s] <= AddLow(lowTold'[j][s])
      BY <2>1, <3>3, AddLowFacts, AddLowMonotonic
    <3> HIDE DEF history, finding
    <3>5. /\ history.snap \in told'[j][s] \cup {None, finding.snap}
          /\ \/ history.streak <= lowTold'[j][s]
             \/ /\ history.streak <= AddLow(lowTold'[j][s])
                /\ finding.volume \in {"low", "pending"}
      BY <2>1, <3>2, <3>3, <3>4 DEF ToldBy
    <3>6. CASE q = p
      <4>1. /\ history.snap \in told'[j][s] \cup {None}
            /\ history.streak <= lowTold'[j][s]
        BY <2>1, <3>2, <3>3, <3>4, <3>6 DEF ToldBy, finding
      <4> QED BY <3>1, <3>5, <4>1 DEF Told, ToldBy
    <3>7. CASE q # p
      <4>1. pc'[q] = "commit" => /\ history.snap \in told'[j][s] \cup {None}
                                 /\ history.streak <= lowTold'[j][s]
        BY <2>1, <3>2, <3>3, <3>7 DEF Told
      <4> QED BY <3>1, <3>5, <4>1 DEF Told, ToldBy
    <3> QED BY <3>6, <3>7
  <2> QED BY <1>0, <2>2, <2>3, <2>4 DEF ToldInv
<1>5. ASSUME NEW p \in Scans, Commit(p) PROVE ToldInv'
  <2>1. FilesAreTold'
    <3>1. \A s \in Sources : Told(mem[p][at[p]].src[s], at[p], s)
      BY <1>5, CommitEffect DEF ToldInv, StoresAreTold
    <3>2. /\ files'[at[p]] = mem[p][at[p]]
          /\ \A i \in Instances \ {at[p]} : files'[i] = files[i]
          /\ UNCHANGED <<told, lowTold>>
      BY <1>5, CommitEffect
    <3> SUFFICES ASSUME NEW i \in Instances, files'[i] # None, NEW s \in Sources
                 PROVE  Told(files[i].src[s], i, s)'
      BY DEF FilesAreTold
    <3>3. CASE i = at[p]
      BY <3>1, <3>2, <3>3 DEF Told
    <3>4. CASE i # at[p]
      BY <3>2, <3>4 DEF Told, ToldInv, FilesAreTold
    <3> QED BY <3>3, <3>4
  <2>2. StoresAreTold' /\ LowIsTold'
    BY <1>5, CommitEffect, KeptTold
  <2> QED BY <1>0, <2>1, <2>2 DEF ToldInv
<1> QED BY <1>1, <1>2, <1>3, <1>4, <1>5, StepKinds

LEMMA ToldInvariance ==
    ASSUME NoTerminal
    PROVE  Spec => []ToldInv
<1>1. Init => ToldInv
  <2> SUFFICES ASSUME Init PROVE ToldInv
    OBVIOUS
  <2>1. LowIsTold
    BY DEF Init, LowIsTold, NoFindings
  <2>2. FilesAreTold
    <3> SUFFICES ASSUME NEW i \in Instances, files[i] # None, NEW s \in Sources
                 PROVE  Told(files[i].src[s], i, s)
      BY DEF FilesAreTold
    <3>1. /\ Load(i) = files[i] /\ Load(i) \in Store
          /\ told[i][s] = {Load(i).src[s].snap} \ {None}
          /\ lowTold[i][s] = Load(i).src[s].streak
      BY InitFiles DEF Load
    <3>2. Load(i).src[s].streak \in 0..Hysteresis
      BY <3>1 DEF Store, History
    <3> QED BY <3>1, <3>2 DEF Told
  <2> QED BY <2>1, <2>2 DEF Init, ToldInv, NothingLost, StoresAreTold
<1>2. TypeInv /\ TypeInv' /\ ToldInv /\ [Next]_vars => ToldInv'
  BY ToldInductive
<1> QED BY InitTypeInv, TypeInductive, <1>1, <1>2, PTL DEF Spec

\* cli.go:943-946, for any number of overlapping processes: unless a report goes to
\* the terminal summary, a schema snapshot or a low scan that a state file remembers
\* was in a report whose every output was delivered.
THEOREM OnlyToldIsConsumed ==
    ASSUME NoTerminal
    PROVE  Spec => []ConsumedOnlyIfTold
<1>1. ToldInv => ConsumedOnlyIfTold
  BY DEF ToldInv, FilesAreTold, Told, ConsumedOnlyIfTold
<1> QED BY ToldInvariance, <1>1, PTL

\* usage.md, --volume-hysteresis: unless a report goes to the terminal summary, no
\* source is called low before that many reports, this one included, showed it low.
THEOREM PagesAreEarned ==
    ASSUME NoTerminal
    PROVE  Spec => []PageIsEarned
<1>1. ToldInv => PageIsEarned
  BY DEF ToldInv, LowIsTold, PageIsEarned
<1> QED BY ToldInvariance, <1>1, PTL

-----------------------------------------------------------------------------
(* Processes that do not overlap *)

\* One process at a time.
OneAtATime == \A p, q \in Scans : pc[p] # "idle" /\ pc[q] # "idle" => p = q

\* A process between two runs holds nothing, and a candidate never gets to the schemas.
AtRest == \A p \in Scans : /\ pc[p] = "idle" => \A i \in Instances : mem[p][i] = None
                           /\ p \in Candidates => pc[p] # "schemas"

\* A store that is not in its file yet.
Owed(p, i) == mem[p][i] # None /\ (pc[p] = "commit" => at[p] <= i)

\* The change from one snapshot to the next is a drift.
Changed(old, new) == new # None /\ Drifted(old, new.schema)

\* How such a store differs from the file that was loaded, and still stands.
Compared(p, i) ==
    /\ \A s \in Sources :
          Changed(Load(i).src[s].snap, mem[p][i].src[s].snap) => report[p][i][s].drift
    /\ pc[p] = "schemas" /\ at[p] = i =>
          \A s \in Sources : mem[p][i].src[s].snap = Load(i).src[s].snap
    /\ p \in Candidates => mem[p][i].src = Load(i).src

\* What a process under way owes a file differs from it only as its report shows.
SerialInv ==
    /\ OneAtATime /\ AtRest
    /\ \A p \in Scans : \A i \in Instances : Owed(p, i) => Compared(p, i)

\* What a candidate loads, it keeps.
LEMMA CandidateLoads ==
    ASSUME TypeOK, NEW p \in Candidates, NEW seen \in [Sources -> Seen], LoadState(p, seen)
    PROVE  pc'[p] = "build" /\ mem'[p][at[p]].src = Load(at[p]).src
<1> DEFINE i == at[p]
           bound == [Load(i) EXCEPT !.target = TargetOf[p][i]]
<1>1. p \in Scans /\ i \in Instances /\ Load(i) \in Store /\ ~AssessesState(p)
  BY LoadFacts DEF TypeOK, AssessesState
<1>2. bound.src = Load(i).src
  BY <1>1 DEF Store
<1>3. /\ mem' = [mem EXCEPT ![p] = [mem[p] EXCEPT ![i] = bound]]
      /\ pc' = [pc EXCEPT ![p] = "build"]
  BY <1>1 DEF LoadState
<1> HIDE DEF bound
<1> QED BY <1>1, <1>2, <1>3 DEF TypeOK

\* The snapshots that were fetched were compared with those that they replace.
LEMMA SchemasAreCompared ==
    ASSUME TypeOK, Held, NEW p \in Scans, NEW fetched \in SUBSET Sources,
           ReadSchemas(p, fetched), NEW s \in Sources
    PROVE  \/ mem'[p][at[p]].src[s].snap = mem[p][at[p]].src[s].snap
           \/ report'[p][at[p]][s].drift =
                  Drifted(mem[p][at[p]].src[s].snap, mem'[p][at[p]].src[s].snap.schema)
<1> DEFINE i == at[p]
           store == mem[p][i]
           new == AssessSchemas(p, store, fetched)
           found == [x \in Sources |->
                IF x \in fetched
                THEN [report[p][i][x] EXCEPT !.snap = Found(p, x),
                         !.drift = Drifted(store.src[x].snap, Found(p, x).schema)]
                ELSE report[p][i][x]]
<1>1. i \in Instances /\ store \in Store
  <2>1. pc[p] = "schemas"
    BY DEF ReadSchemas
  <2> QED BY <2>1 DEF Held, TypeOK
<1>2. new.src[s].snap = IF s \in fetched THEN Found(p, s) ELSE store.src[s].snap
  BY <1>1, AssessSchemasFacts
<1>3. s \in fetched => found[s].drift = Drifted(store.src[s].snap, Found(p, s).schema)
  <2>1. report[p][i][s] \in Finding
    BY <1>1 DEF TypeOK
  <2> QED BY <2>1 DEF Finding
<1>4. /\ mem' = [mem EXCEPT ![p] = [mem[p] EXCEPT ![i] = new]]
      /\ report' = [report EXCEPT ![p] = [report[p] EXCEPT ![i] = found]]
  BY DEF ReadSchemas
<1> HIDE DEF new, found
<1>5. mem'[p][i] = new /\ report'[p][i] = found
  BY <1>1, <1>4 DEF TypeOK
<1> HIDE DEF i, store
<1> QED BY <1>2, <1>3, <1>5 DEF i, store

\* A step of one process leaves the others as they are, and starts only when it may.
LEMMA OthersStand ==
    ASSUME TypeInv, NEW p \in Scans,
           \/ Start(p) \/ Assess(p) \/ ScanFails(p) \/ Deliver(p) \/ Cancelled(p) \/ Save(p) \/ Kill(p)
    PROVE  /\ \A q \in Scans \ {p} : /\ pc'[q] = pc[q] /\ at'[q] = at[q]
                                     /\ mem'[q] = mem[q] /\ report'[q] = report[q]
           /\ Serial /\ pc[p] = "idle" => \A q \in Scans : pc[q] = "idle"
<1> USE DEF TypeInv, TypeOK
<1>1. ASSUME Idle(p) PROVE \A q \in Scans \ {p} : /\ pc'[q] = pc[q] /\ at'[q] = at[q]
                                                  /\ mem'[q] = mem[q] /\ report'[q] = report[q]
  BY <1>1 DEF Idle
<1>2. ASSUME NextCommit(p)
      PROVE  \A q \in Scans \ {p} : /\ pc'[q] = pc[q] /\ at'[q] = at[q]
                                    /\ mem'[q] = mem[q] /\ report'[q] = report[q]
  BY <1>1, <1>2 DEF NextCommit
<1>3. CASE Start(p)
  BY <1>3 DEF Start
<1>4. CASE Assess(p)
  <2>1. ASSUME NEW seen, LoadState(p, seen)
        PROVE  /\ pc[p] = "load"
               /\ \A q \in Scans \ {p} : /\ pc'[q] = pc[q] /\ at'[q] = at[q]
                                         /\ mem'[q] = mem[q] /\ report'[q] = report[q]
    BY <2>1 DEF LoadState
  <2>2. ASSUME NEW fetched, ReadSchemas(p, fetched)
        PROVE  /\ pc[p] = "schemas"
               /\ \A q \in Scans \ {p} : /\ pc'[q] = pc[q] /\ at'[q] = at[q]
                                         /\ mem'[q] = mem[q] /\ report'[q] = report[q]
    BY <2>2 DEF ReadSchemas
  <2>3. ASSUME Build(p)
        PROVE  /\ pc[p] = "build"
               /\ \A q \in Scans \ {p} : /\ pc'[q] = pc[q] /\ at'[q] = at[q]
                                         /\ mem'[q] = mem[q] /\ report'[q] = report[q]
    BY <2>3, NextInstanceEffect DEF Build
  <2> QED BY <1>4, <2>1, <2>2, <2>3 DEF Assess
<1>5. CASE ScanFails(p)
  <2>1. CASE Idle(p)
    BY <1>1, <1>5, <2>1 DEF ScanFails
  <2>2. CASE ~Idle(p)
    BY <1>5, <2>2 DEF ScanFails, NextInstance
  <2> QED BY <2>1, <2>2
<1>6. CASE Deliver(p) \/ Cancelled(p) \/ Kill(p)
  BY <1>1, <1>6 DEF Deliver, Cancelled, Kill, Output, OutputFails, SummaryLost, DeliveryDone
<1>7. CASE Save(p)
  BY <1>1, <1>2, <1>7 DEF Save, Commit, NothingToCommit, CommitFails
<1> QED BY <1>3, <1>4, <1>5, <1>6, <1>7

\* Nothing more is owed after a step that loads and reads nothing; and a commit pays.
LEMMA OwedShrinks ==
    ASSUME TypeInv, AtRest, NEW p \in Scans,
           \/ Start(p) \/ Build(p) \/ ScanFails(p) \/ Deliver(p) \/ Cancelled(p) \/ Save(p) \/ Kill(p)
    PROVE  /\ \A i \in Instances : Owed(p, i)' =>
                  /\ Owed(p, i) /\ mem'[p][i] = mem[p][i] /\ report'[p][i] = report[p][i]
                  /\ pc'[p] # "schemas"
                  /\ Commit(p) => i # at[p]
           /\ pc'[p] = "idle" => \A i \in Instances : mem'[p][i] = None
           /\ pc'[p] # "schemas"
<1> USE DEF TypeInv, TypeOK
<1>1. ASSUME Idle(p) PROVE pc'[p] = "idle" /\ \A i \in Instances : mem'[p][i] = None
  BY <1>1 DEF Idle
<1>2. CASE Idle(p)
  BY <1>1, <1>2 DEF Owed
<1>3. CASE Start(p)
  BY <1>3 DEF Start, Owed, AtRest
<1>4. CASE Build(p)
  <2>1. /\ pc[p] = "build" /\ UNCHANGED <<mem, report>> /\ pc'[p] \in {"load", "deliver"}
    BY <1>4, NextInstanceEffect DEF Build
  <2> QED BY <2>1 DEF Owed, Commit
<1>5. CASE ScanFails(p) /\ ~Idle(p)
  <2>1. /\ pc[p] \in {"load", "schemas", "build"} /\ pc'[p] \in {"load", "deliver"}
        /\ mem' = [mem EXCEPT ![p] = [mem[p] EXCEPT ![at[p]] = None]]
        /\ report' = [report EXCEPT ![p] = [report[p] EXCEPT ![at[p]] = NoFindings]]
    BY <1>5, NextInstanceEffect DEF ScanFails
  <2>2. \A i \in Instances : mem'[p][i] # None =>
            mem'[p][i] = mem[p][i] /\ report'[p][i] = report[p][i]
    BY <2>1
  <2> QED BY <2>1, <2>2 DEF Owed, Commit
<1>6. CASE Output(p) \/ SummaryLost(p)
  BY <1>6 DEF Output, SummaryLost, Owed, Commit
<1>7. CASE DeliveryDone(p)
  BY <1>7 DEF DeliveryDone, Owed, Commit
<1>8. CASE Save(p) /\ ~Idle(p)
  <2>1. pc[p] = "commit" /\ NextCommit(p)
    BY <1>8 DEF Save, Commit, NothingToCommit, CommitFails
  <2>2. /\ at' = [at EXCEPT ![p] = at[p] + 1]
        /\ UNCHANGED <<pc, mem, report>>
    BY <1>8, <2>1 DEF NextCommit
  <2>3. at'[p] = at[p] + 1 /\ at[p] \in Nat
    BY <2>2 DEF Instances
  <2> QED BY <2>1, <2>2, <2>3 DEF Owed, Instances
<1> QED
  BY <1>2, <1>3, <1>4, <1>5, <1>6, <1>7, <1>8
     DEF Deliver, Cancelled, Kill, OutputFails

LEMMA SerialStarts == Init => SerialInv
BY DEF Init, SerialInv, OneAtATime, AtRest, Owed

LEMMA SerialInductive ==
    ASSUME Serial, TypeInv, TypeInv', SerialInv, [Next]_vars
    PROVE  SerialInv'
<1> USE DEF SerialInv
<1>1. CASE UNCHANGED <<files, pc, at, mem, report>>
  BY <1>1 DEF OneAtATime, AtRest, Owed, Compared, Load
<1>2. ASSUME NEW p \in Scans,
             \/ Start(p) \/ Assess(p) \/ ScanFails(p) \/ Deliver(p) \/ Cancelled(p) \/ Save(p) \/ Kill(p)
      PROVE  SerialInv'
  <2>1. /\ \A q \in Scans \ {p} : /\ pc'[q] = pc[q] /\ at'[q] = at[q]
                                  /\ mem'[q] = mem[q] /\ report'[q] = report[q]
        /\ pc[p] = "idle" => \A q \in Scans : pc[q] = "idle"
    BY <1>2, OthersStand
  <2>2. \A q \in Scans \ {p} : pc[q] = "idle" /\ \A i \in Instances : mem'[q][i] = None
    BY <2>1 DEF OneAtATime, AtRest
  <2>3. OneAtATime'
    BY <2>1, <2>2 DEF OneAtATime
  <2>4. SUFFICES ASSUME TRUE
        PROVE  /\ pc'[p] = "idle" => \A i \in Instances : mem'[p][i] = None
               /\ p \in Candidates => pc'[p] # "schemas"
               /\ \A i \in Instances : Owed(p, i)' => Compared(p, i)'
    <3>1. AtRest'
      BY <2>1, <2>2, <2>4 DEF AtRest
    <3>2. \A q \in Scans \ {p} : \A i \in Instances : ~Owed(q, i)'
      BY <2>2 DEF Owed
    <3> QED BY <2>3, <2>4, <3>1, <3>2
  <2>5. CASE \E seen \in [Sources -> Seen] : LoadState(p, seen)
    <3>1. PICK seen \in [Sources -> Seen] : LoadState(p, seen)
      BY <2>5
    <3>2. pc[p] = "load"
      BY <3>1 DEF LoadState
    <3>3. /\ pc'[p] \in {"schemas", "build"} /\ pc[p] = "load"
          /\ \A s \in Sources : mem'[p][at[p]].src[s].snap = Load(at[p]).src[s].snap
          /\ \A j \in Instances \ {at[p]} : mem'[p][j] = mem[p][j] /\ report'[p][j] = report[p][j]
          /\ UNCHANGED <<files, at>>
      BY <3>1, <3>2, LoadStateEffect DEF TypeInv
    <3>4. \A i \in Instances : Load(i)' = Load(i)
      BY <3>3 DEF Load
    <3>5. p \in Candidates => pc'[p] = "build" /\ mem'[p][at[p]].src = Load(at[p]).src
      BY <3>1, CandidateLoads DEF TypeInv
    <3>6. ASSUME NEW i \in Instances, Owed(p, i)' PROVE Compared(p, i)'
      <4>1. CASE i = at[p]
        <5>1. \A s \in Sources : mem'[p][i].src[s].snap = Load(i)'.src[s].snap
          BY <3>3, <3>4, <4>1
        <5>2. \A s \in Sources : ~Changed(Load(i)'.src[s].snap, mem'[p][i].src[s].snap)
          BY <5>1 DEF Changed, Drifted
        <5> QED BY <3>4, <3>5, <4>1, <5>1, <5>2 DEF Compared
      <4>2. CASE i # at[p]
        <5>1. Compared(p, i)
          BY <3>3, <3>6, <4>2 DEF Owed
        <5> QED BY <3>3, <3>4, <4>2, <5>1 DEF Compared
      <4> QED BY <4>1, <4>2
    <3> QED BY <3>3, <3>5, <3>6
  <2>6. CASE \E fetched \in SUBSET Sources : ReadSchemas(p, fetched)
    <3>1. PICK fetched \in SUBSET Sources : ReadSchemas(p, fetched)
      BY <2>6
    <3>2. pc[p] = "schemas" /\ at[p] \in Instances
      BY <3>1 DEF ReadSchemas, TypeInv, TypeOK
    <3>3. /\ pc'[p] = "build" /\ pc[p] = "schemas" /\ at[p] \in Instances
          /\ mem[p][at[p]] \in Store
          /\ \A j \in Instances \ {at[p]} : mem'[p][j] = mem[p][j] /\ report'[p][j] = report[p][j]
          /\ UNCHANGED <<files, at>>
      BY <3>1, <3>2, ReadSchemasEffect DEF TypeInv
    <3>4. \A i \in Instances : Load(i)' = Load(i)
      BY <3>3 DEF Load
    <3>5. p \notin Candidates
      BY <3>3 DEF AtRest
    <3>6. ASSUME NEW i \in Instances, Owed(p, i)' PROVE Compared(p, i)'
      <4>1. CASE i = at[p]
        <5>1. Compared(p, i)
          BY <3>3, <4>1, NoneAssumption DEF Owed
        <5>2. \A s \in Sources : mem[p][i].src[s].snap = Load(i).src[s].snap
          BY <3>3, <4>1, <5>1 DEF Compared
        <5>3. ASSUME NEW s \in Sources, Changed(Load(i).src[s].snap, mem'[p][i].src[s].snap)
              PROVE  report'[p][i][s].drift
          <6>1. mem'[p][i].src[s].snap # mem[p][i].src[s].snap
            BY <5>2, <5>3 DEF Changed, Drifted
          <6>2. report'[p][i][s].drift =
                    Drifted(mem[p][i].src[s].snap, mem'[p][i].src[s].snap.schema)
            BY <3>1, <4>1, <6>1, SchemasAreCompared DEF TypeInv
          <6> QED BY <5>2, <5>3, <6>2 DEF Changed
        <5> QED BY <3>3, <3>4, <3>5, <5>3 DEF Compared
      <4>2. CASE i # at[p]
        <5>1. Compared(p, i)
          BY <3>3, <3>6, <4>2 DEF Owed
        <5> QED BY <3>3, <3>4, <3>5, <4>2, <5>1 DEF Compared
      <4> QED BY <4>1, <4>2
    <3> QED BY <3>3, <3>5, <3>6
  <2>7. CASE \/ Start(p) \/ Build(p) \/ ScanFails(p) \/ Deliver(p) \/ Cancelled(p) \/ Save(p) \/ Kill(p)
    <3>1. /\ \A i \in Instances : Owed(p, i)' =>
                  /\ Owed(p, i) /\ mem'[p][i] = mem[p][i] /\ report'[p][i] = report[p][i]
                  /\ pc'[p] # "schemas"
                  /\ Commit(p) => i # at[p]
          /\ pc'[p] = "idle" => \A i \in Instances : mem'[p][i] = None
          /\ pc'[p] # "schemas"
      BY <2>7, OwedShrinks
    <3>2. ASSUME NEW i \in Instances, Commit(p) => i # at[p]
          PROVE  Load(i)' = Load(i)
      <4>1. files'[i] = files[i]
        <5>1. CASE Commit(p)
          BY <3>2, <5>1, CommitEffect DEF TypeInv
        <5>2. CASE ~Commit(p)
          BY <2>7, <5>2 DEF Start, Build, ScanFails, Deliver, Output, OutputFails, SummaryLost,
                            DeliveryDone, Cancelled, Save, NothingToCommit, CommitFails, Kill
        <5> QED BY <5>1, <5>2
      <4> QED BY <4>1 DEF Load
    <3>3. ASSUME NEW i \in Instances, Owed(p, i)' PROVE Compared(p, i)'
      <4>1. /\ Owed(p, i) /\ mem'[p][i] = mem[p][i] /\ report'[p][i] = report[p][i]
            /\ pc'[p] # "schemas" /\ (Commit(p) => i # at[p])
        BY <3>1, <3>3
      <4>2. Load(i)' = Load(i) /\ Compared(p, i)
        BY <3>2, <4>1
      <4> QED BY <4>1, <4>2 DEF Compared
    <3> QED BY <3>1, <3>3
  <2> QED BY <1>2, <2>5, <2>6, <2>7 DEF Assess
<1> QED BY <1>1, <1>2 DEF Next, Remap, vars, procVars

LEMMA SerialInvariance ==
    ASSUME Serial
    PROVE  Spec => []SerialInv
<1>1. TypeInv /\ TypeInv' /\ SerialInv /\ [Next]_vars => SerialInv'
  BY SerialInductive
<1> QED BY InitTypeInv, TypeInductive, SerialStarts, <1>1, PTL DEF Spec

\* Only a commit touches a file.
LEMMA OnlyCommitWrites ==
    ASSUME [Next]_vars, files' # files
    PROVE  \E p \in Scans : Commit(p)
BY DEF Next, Start, Assess, LoadState, ReadSchemas, Build, ScanFails, Deliver, Output, OutputFails,
       SummaryLost, DeliveryDone, Cancelled, Save, NothingToCommit, CommitFails, Kill, Remap,
       vars, procVars

\* AssessSchemas and commitState: for any fleet, as long as no two processes overlap, a file's
\* snapshot of a source changes its fields only in a commit whose report shows that drift.
THEOREM ChangesAreShown ==
    ASSUME Serial
    PROVE  Spec => ChangesAreReported
<1>1. TypeInv /\ SerialInv /\ [Next]_vars =>
          [\A i \in Instances, s \in Sources :
             files[i] # None /\ files'[i] # files[i]
             /\ files'[i].src[s].snap # None
             /\ Drifted(files[i].src[s].snap, files'[i].src[s].snap.schema) =>
                \E p \in Scans : pc[p] = "commit" /\ at[p] = i /\ report[p][i][s].drift]_vars
  <2> SUFFICES ASSUME TypeInv, SerialInv, [Next]_vars, NEW i \in Instances, NEW s \in Sources,
                      files[i] # None, files'[i] # files[i],
                      files'[i].src[s].snap # None,
                      Drifted(files[i].src[s].snap, files'[i].src[s].snap.schema)
               PROVE  \E p \in Scans : pc[p] = "commit" /\ at[p] = i /\ report[p][i][s].drift
    OBVIOUS
  <2>1. PICK p \in Scans : Commit(p)
    BY OnlyCommitWrites
  <2>2. /\ pc[p] = "commit" /\ at[p] = i /\ mem[p][i] # None /\ files'[i] = mem[p][i]
    BY <2>1, CommitEffect DEF TypeInv
  <2>3. Compared(p, i)
    BY <2>2 DEF SerialInv, Owed, TypeInv, TypeOK, Instances
  <2>4. Load(i) = files[i]
    BY DEF Load
  <2> QED BY <2>2, <2>3, <2>4 DEF Compared, Changed
<1> QED BY InitTypeInv, TypeInductive, SerialInvariance, <1>1, PTL DEF Spec, ChangesAreReported

\* state.go:262-265, for any fleet, as long as no two processes overlap: a candidate scan writes
\* back the history it found, of every source.
THEOREM CandidatesKeepHistory ==
    ASSUME Serial
    PROVE  Spec => CandidateKeepsHistory
<1>1. TypeInv /\ SerialInv /\ [Next]_vars =>
          [\A p \in Candidates : Commit(p) => files'[at[p]].src = Load(at[p]).src]_vars
  <2> SUFFICES ASSUME TypeInv, SerialInv, NEW p \in Candidates, Commit(p)
               PROVE  files'[at[p]].src = Load(at[p]).src
    OBVIOUS
  <2>1. p \in Scans /\ pc[p] = "commit" /\ at[p] \in Instances /\ mem[p][at[p]] # None
        /\ files'[at[p]] = mem[p][at[p]]
    BY CommitEffect DEF TypeInv
  <2>2. Compared(p, at[p])
    BY <2>1 DEF SerialInv, Owed, Instances
  <2> QED BY <2>1, <2>2 DEF Compared
<1> QED BY InitTypeInv, TypeInductive, SerialInvariance, <1>1, PTL DEF Spec, CandidateKeepsHistory
=============================================================================
