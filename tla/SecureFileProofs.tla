-------------------------- MODULE SecureFileProofs --------------------------
(***************************************************************************)
(* For any number of writers and values: what can be read at the path is   *)
(* complete, and securefile.Write implements the atomic file its callers   *)
(* rely on.  The invariant says what a writer has established of its own   *)
(* temporary file at each step; since temporary files are not shared, no   *)
(* other writer, kill or power loss can take it away.                      *)
(***************************************************************************)
EXTENDS SecureFile, TLAPS

USE SecureFileAssumption

\* What has been done to a temporary file before each step.
Prepared ==
    \A w \in Writers :
        /\ pc[w] \in {"chmod", "write", "sync", "close", "replace"} =>
               tmp[w] \in File /\ tmp[w].val = arg[w]
        /\ pc[w] \in {"write", "sync", "close", "replace"} => tmp[w].mode = "private"
        /\ pc[w] \in {"sync", "close", "replace"} => tmp[w].size = "all"
        /\ pc[w] \in {"close", "replace"} => tmp[w].synced

\* Whatever a power failure can bring back is complete and on disk.
Durable == /\ path \in recent
           /\ \A f \in recent : f # Missing => f.size = "all" /\ f.synced

IInv == TypeOK /\ Prepared /\ Durable

LEMMA InitIInv == Init => IInv
<1> SUFFICES ASSUME Init PROVE IInv
  OBVIOUS
<1>1. path \in File \cup {Missing} /\ recent = {path}
  BY DEF Init, Existing
<1>2. TypeOK
  BY <1>1 DEF Init, TypeOK, Steps
<1>3. Prepared /\ Durable
  BY DEF Init, Prepared, Durable, Existing
<1> QED BY <1>2, <1>3 DEF IInv

\* A writer's step before the replacement: its own file, and nothing shared.
LEMMA PrepareIInv ==
    ASSUME IInv, NEW w \in Writers,
           \/ \E v \in Values : Call(w, v)
           \/ CreateTemp(w) \/ Chmod(w) \/ WriteData(w) \/ Sync(w) \/ Close(w)
    PROVE  IInv' /\ UNCHANGED <<path, recent>>
<1> USE DEF IInv, TypeOK, Prepared, Durable, Goto, Steps
<1>1. ASSUME NEW v \in Values, Call(w, v) PROVE IInv' /\ UNCHANGED <<path, recent>>
  BY <1>1 DEF Call
<1>2. CASE CreateTemp(w)
  <2> DEFINE f == [val |-> arg[w], size |-> "empty", synced |-> FALSE, mode |-> "other"]
  <2>1. f \in File /\ f.val = arg[w]
    BY DEF File
  <2>2. /\ \/ tmp' = [tmp EXCEPT ![w] = f] /\ pc' = [pc EXCEPT ![w] = "chmod"]
           \/ tmp' = tmp /\ pc' = [pc EXCEPT ![w] = "error"]
        /\ UNCHANGED <<path, recent, arg, busy>>
    BY <1>2 DEF CreateTemp
  <2> HIDE DEF f
  <2> QED BY <2>1, <2>2
<1>3. CASE Chmod(w)
  <2> DEFINE f == [tmp[w] EXCEPT !.mode = "private"]
  <2>1. f \in File /\ f.val = arg[w] /\ f.mode = "private"
    BY <1>3 DEF Chmod, File
  <2>2. /\ \/ tmp' = [tmp EXCEPT ![w] = f] /\ pc' = [pc EXCEPT ![w] = "write"]
           \/ tmp' = tmp /\ pc' = [pc EXCEPT ![w] = "cleanup"]
        /\ UNCHANGED <<path, recent, arg, busy>>
    BY <1>3 DEF Chmod
  <2> HIDE DEF f
  <2> QED BY <2>1, <2>2
<1>4. CASE WriteData(w)
  <2> DEFINE f == [tmp[w] EXCEPT !.size = "all"]
             g == [tmp[w] EXCEPT !.size = "part"]
  <2>1. f \in File /\ f.val = arg[w] /\ f.mode = "private" /\ f.size = "all" /\ g \in File
    BY <1>4 DEF WriteData, File
  <2>2. /\ \/ tmp' = [tmp EXCEPT ![w] = f] /\ pc' = [pc EXCEPT ![w] = "sync"]
           \/ tmp' = [tmp EXCEPT ![w] = g] /\ pc' = [pc EXCEPT ![w] = "cleanup"]
        /\ UNCHANGED <<path, recent, arg, busy>>
    BY <1>4 DEF WriteData
  <2> HIDE DEF f, g
  <2> QED BY <2>1, <2>2
<1>5. CASE Sync(w)
  <2> DEFINE f == [tmp[w] EXCEPT !.synced = TRUE]
  <2>1. f \in File /\ f.val = arg[w] /\ f.mode = "private" /\ f.size = "all" /\ f.synced
    BY <1>5, ZenonT(40) DEF Sync, File
  <2>2. /\ \/ tmp' = [tmp EXCEPT ![w] = f] /\ pc' = [pc EXCEPT ![w] = "close"]
           \/ tmp' = tmp /\ pc' = [pc EXCEPT ![w] = "cleanup"]
        /\ UNCHANGED <<path, recent, arg, busy>>
    BY <1>5 DEF Sync
  <2> HIDE DEF f
  <2> QED BY <2>1, <2>2
<1>6. CASE Close(w)
  BY <1>6 DEF Close
<1> QED BY <1>1, <1>2, <1>3, <1>4, <1>5, <1>6

\* The replacement: a prepared file, complete and synced, becomes the path.
LEMMA ReplaceIInv ==
    ASSUME IInv, NEW w \in Writers, Replace(w)
    PROVE  /\ IInv'
           /\ path' \in File /\ path'.val = arg[w] /\ path'.mode = "private"
           /\ recent' = recent \cup {path'}
<1> USE DEF IInv, TypeOK, Prepared, Durable, Goto, Steps
<1>1. /\ tmp[w] \in File /\ tmp[w].val = arg[w] /\ tmp[w].mode = "private"
      /\ tmp[w].size = "all" /\ tmp[w].synced
  BY DEF Replace
<1>2. /\ path' = tmp[w] /\ recent' = recent \cup {tmp[w]}
      /\ tmp' = [tmp EXCEPT ![w] = NoFile] /\ pc' = [pc EXCEPT ![w] = "ok"]
      /\ UNCHANGED <<arg, busy>>
  BY DEF Replace
<1> QED BY <1>1, <1>2

\* The steps after it, and those that leave without it.
LEMMA LeaveIInv ==
    ASSUME IInv, NEW w \in Writers,
           ReplaceFails(w) \/ ReplaceBusy(w) \/ Cleanup(w) \/ Return(w) \/ Kill(w)
    PROVE  IInv' /\ UNCHANGED <<path, recent>>
<1> USE DEF IInv, TypeOK, Prepared, Durable, Goto, Steps
<1>1. CASE ReplaceFails(w)
  BY <1>1 DEF ReplaceFails
<1>2. CASE ReplaceBusy(w)
  BY <1>2 DEF ReplaceBusy
<1>3. CASE Cleanup(w)
  BY <1>3 DEF Cleanup
<1>4. CASE Return(w)
  BY <1>4 DEF Return
<1>5. CASE Kill(w)
  BY <1>5 DEF Kill
<1> QED BY <1>1, <1>2, <1>3, <1>4, <1>5

LEMMA FlushIInv == IInv /\ Flush => IInv'
BY DEF IInv, TypeOK, Prepared, Durable, Flush

\* Nothing but a recent destination survives: they are all synced.
LEMMA PowerLossIInv ==
    ASSUME IInv, PowerLoss
    PROVE  IInv' /\ path' \in recent /\ recent' = {path'}
<1>1. path' \in recent /\ recent' = {path'}
  BY DEF IInv, Durable, PowerLoss, Survivors
<1>2. /\ tmp' = [w \in Writers |-> NoFile] /\ pc' = [w \in Writers |-> "idle"]
      /\ UNCHANGED <<arg, busy>>
  BY DEF PowerLoss
<1> QED BY <1>1, <1>2 DEF IInv, TypeOK, Prepared, Durable, Steps

LEMMA InductiveIInv == IInv /\ [Next]_vars => IInv'
<1>1. IInv /\ UNCHANGED vars => IInv'
  BY DEF vars, IInv, TypeOK, Prepared, Durable
<1> QED BY <1>1, PrepareIInv, ReplaceIInv, LeaveIInv, FlushIInv, PowerLossIInv
        DEF Next, Step

LEMMA Invariance == Spec => []IInv
BY InitIInv, InductiveIInv, PTL DEF Spec

\* securefile: the variables keep their types.
THEOREM TypeCorrect == Spec => []TypeOK
<1>1. IInv => TypeOK
  BY DEF IInv
<1> QED BY Invariance, <1>1, PTL

\* securefile.Write: whatever is interrupted, a reader finds a complete file or none.
THEOREM ReadersSeeWholeFiles == Spec => []NeverPartial
<1>1. IInv => NeverPartial
  BY DEF IInv, Durable, NeverPartial
<1> QED BY Invariance, <1>1, PTL

\* securefile.Write: a file that is new at the path has the restricted mode.
THEOREM NewFilesArePrivate == Spec => PrivateOnceReplaced
<1>1. IInv /\ [Next]_vars =>
          [path' # path /\ path' \notin recent => path'.mode = "private"]_vars
  <2> SUFFICES ASSUME IInv, Next, path' # path, path' \notin recent
               PROVE  path'.mode = "private"
    OBVIOUS
  <2>1. ~Flush
    BY DEF Flush
  <2>2. ~PowerLoss
    BY PowerLossIInv
  <2> QED BY <2>1, <2>2, PrepareIInv, ReplaceIInv, LeaveIInv DEF Next, Step
<1> QED BY Invariance, <1>1, PTL DEF Spec, PrivateOnceReplaced

\* securefile.Write: a destination that exists is never missing.
THEOREM DestinationStays == Spec => NeverVanishes
<1>1. IInv /\ [Next]_vars =>
          [path # Missing /\ Missing \notin recent => path' # Missing]_vars
  <2> SUFFICES ASSUME IInv, Next, path # Missing, Missing \notin recent
               PROVE  path' # Missing
    OBVIOUS
  <2>1. CASE Flush
    BY <2>1 DEF Flush
  <2>2. CASE PowerLoss
    BY <2>2, PowerLossIInv
  <2>3. ASSUME NEW w \in Writers, Replace(w) PROVE path' # Missing
    BY <2>3, ReplaceIInv, MissingAssumption
  <2> QED BY <2>1, <2>2, <2>3, PrepareIInv, LeaveIInv DEF Next, Step
<1> QED BY Invariance, <1>1, PTL DEF Spec, NeverVanishes

-----------------------------------------------------------------------------
(* The refinement. *)

\* All that may come back is complete: a reader gets one of the recent values.
LEMMA RestoredIsRecent ==
    ASSUME IInv
    PROVE  /\ Restored = {View(f) : f \in recent}
           /\ View(path) \in Restored
<1>1. ASSUME NEW f \in recent PROVE Survivors(f) = {f}
  BY <1>1 DEF IInv, Durable, Survivors
<1>2. UNION {Survivors(f) : f \in recent} = recent
  BY <1>1
<1> QED BY <1>2 DEF Restored, IInv, Durable

\* How a step of a writer looks to its caller.
LEMMA StateMoves ==
    ASSUME IInv, NEW w \in Writers, NEW to \in Steps, pc' = [pc EXCEPT ![w] = to],
           NEW from, from = State[w],
           NEW seen, seen = CASE to \in {"idle", "ok", "error"} -> to
                              [] to = "cleanup" -> "error"
                              [] OTHER -> "asked"
    PROVE  State' = [State EXCEPT ![w] = seen]
BY DEF State, IInv, TypeOK

\* A step that keeps the path and the data, by the caller's view of it.
LEMMA QuietStep ==
    ASSUME IInv, UNCHANGED <<path, recent, arg>>,
           NEW w \in Writers, NEW to \in Steps, pc' = [pc EXCEPT ![w] = to],
           \/ State[w] = "asked" /\ to \in Steps \ {"idle", "ok"}
           \/ State[w] = "error" /\ to = "error"
           \/ State[w] # "idle" /\ to = "idle"
    PROVE  [Atomic!Next]_(Atomic!vars)
<1>1. View(path)' = View(path) /\ Restored' = Restored
  BY DEF View, Restored, Survivors
<1>2. State \in [Writers -> {"idle", "asked", "ok", "error"}]
  BY DEF State, IInv, TypeOK, Steps
<1>3. CASE to \in {"cleanup", "error"}
  <2>1. State' = [State EXCEPT ![w] = "error"]
    BY <1>3, StateMoves
  <2>2. CASE State[w] = "asked"
    <3>1. Atomic!Fail(w)
      BY <2>1, <2>2, <1>1 DEF Atomic!Fail, Atomic!Move
    <3> QED BY <3>1 DEF Atomic!Next
  <2>3. CASE State[w] = "error"
    BY <2>1, <2>3, <1>1, <1>2 DEF Atomic!vars
  <2> QED BY <2>2, <2>3, <1>3
<1>4. CASE to = "idle"
  <2>1. State' = [State EXCEPT ![w] = "idle"]
    BY <1>4, StateMoves
  <2>2. State[w] \in {"asked", "ok", "error"}
    BY <1>2, <1>4
  <2>3. Atomic!Leave(w)
    BY <2>1, <2>2, <1>1 DEF Atomic!Leave, Atomic!Move
  <2> QED BY <2>3 DEF Atomic!Next
<1>5. CASE to \notin {"cleanup", "error", "idle"}
  <2>1. State[w] = "asked" /\ to \notin {"idle", "ok", "error", "cleanup"}
    BY <1>5
  <2>2. State' = [State EXCEPT ![w] = "asked"]
    BY <2>1, StateMoves
  <2> QED BY <2>1, <2>2, <1>1, <1>2 DEF Atomic!vars
<1> QED BY <1>3, <1>4, <1>5

\* securefile.Write implements AtomicFile, whatever the writers do and wherever one of
\* them is killed or the power fails: what a reader gets, now or after a power failure, is
\* a complete value that was asked for, and the result of a call is true.
THEOREM WriteIsAtomic == Spec => ImplementsAtomicFile
<1>1. IInv /\ Init => Atomic!Init
  <2> SUFFICES ASSUME IInv, Init PROVE Atomic!Init
    OBVIOUS
  <2>1. Restored = {View(path)}
    BY RestoredIsRecent DEF Init
  <2>2. View(path) \in Values \cup {Missing}
    BY DEF Init, Existing, View, File
  <2>3. State = [w \in Writers |-> "idle"]
    BY DEF Init, State
  <2> QED BY <2>1, <2>2, <2>3 DEF Atomic!Init, Init
<1>2. IInv /\ [Next]_vars => [Atomic!Next]_(Atomic!vars)
  <2> SUFFICES ASSUME IInv, [Next]_vars
               PROVE  [Atomic!Next]_(Atomic!vars)
    OBVIOUS
  <2> USE DEF Goto
  <2>0. /\ State \in [Writers -> {"idle", "asked", "ok", "error"}]
        /\ pc \in [Writers -> Steps] /\ arg \in [Writers -> Values]
    BY DEF State, IInv, TypeOK, Steps
  <2>1. ASSUME NEW w \in Writers, NEW v \in Values, Call(w, v) PROVE Atomic!Next
    <3>1. State[w] = "idle" /\ State' = [State EXCEPT ![w] = "asked"]
      BY <2>1, <2>0, StateMoves DEF Call, State, Steps
    <3>2. View(path)' = View(path) /\ Restored' = Restored
      BY <2>1 DEF Call, View, Restored, Survivors
    <3>3. Atomic!Ask(w, v)
      BY <3>1, <3>2, <2>1 DEF Call, Atomic!Ask, Atomic!Move
    <3> QED BY <3>3 DEF Atomic!Next
  <2>2. ASSUME NEW w \in Writers,
               \/ CreateTemp(w) \/ Chmod(w) \/ WriteData(w) \/ Sync(w) \/ Close(w)
               \/ ReplaceFails(w) \/ Cleanup(w) \/ Return(w) \/ Kill(w)
        PROVE  [Atomic!Next]_(Atomic!vars)
    <3>1. UNCHANGED <<path, recent, arg>>
      BY <2>2 DEF CreateTemp, Chmod, WriteData, Sync, Close, ReplaceFails, Cleanup, Return, Kill
    <3>2. \E to \in Steps :
              /\ pc' = [pc EXCEPT ![w] = to]
              /\ \/ State[w] = "asked" /\ to \in Steps \ {"idle", "ok"}
                 \/ State[w] = "error" /\ to = "error"
                 \/ State[w] # "idle" /\ to = "idle"
      <4>1. CASE CreateTemp(w) \/ Chmod(w) \/ WriteData(w) \/ Sync(w) \/ Close(w) \/ ReplaceFails(w)
        <5>1. State[w] = "asked"
          BY <4>1 DEF CreateTemp, Chmod, WriteData, Sync, Close, ReplaceFails, State
        <5> QED BY <4>1, <5>1 DEF CreateTemp, Chmod, WriteData, Sync, Close, ReplaceFails, Steps
      <4>2. CASE Cleanup(w)
        BY <4>2 DEF Cleanup, State, Steps
      <4>3. CASE Return(w) \/ Kill(w)
        <5>1. State[w] # "idle"
          BY <4>3, <2>0 DEF Return, Kill, State, Steps
        <5> QED BY <4>3, <5>1 DEF Return, Kill, Steps
      <4> QED BY <2>2, <4>1, <4>2, <4>3
    <3> QED BY <3>1, <3>2, QuietStep
  <2>3. ASSUME NEW w \in Writers, ReplaceBusy(w) PROVE [Atomic!Next]_(Atomic!vars)
    <3>1. UNCHANGED <<path, recent, arg>> /\ State[w] = "asked"
      BY <2>3 DEF ReplaceBusy, State
    <3>2. CASE pc' = pc
      BY <3>1, <3>2 DEF Atomic!vars, View, Restored, Survivors, State
    <3>3. CASE pc' = [pc EXCEPT ![w] = "cleanup"]
      BY <3>1, <3>3, QuietStep DEF Steps
    <3> QED BY <2>3, <3>2, <3>3 DEF ReplaceBusy
  <2>4. ASSUME NEW w \in Writers, Replace(w) PROVE Atomic!Next
    <3>1. /\ path' \in File /\ path'.val = arg[w] /\ recent' = recent \cup {path'} /\ IInv'
      BY <2>4, ReplaceIInv
    <3>2. path'.size = "all"
      BY <3>1, MissingAssumption DEF IInv, Durable
    <3>3. View(path)' = arg[w]
      BY <3>1, <3>2, MissingAssumption DEF View
    <3>4. Restored' = Restored \cup {arg[w]}
      <4>1. Restored' = {View(f) : f \in recent'}
        <5>1. ASSUME NEW f \in recent' PROVE Survivors(f) = {f}
          BY <3>1, <5>1 DEF IInv, Durable, Survivors
        <5>2. UNION {Survivors(f) : f \in recent'} = recent'
          BY <5>1
        <5> QED BY <5>2 DEF Restored
      <4>2. {View(f) : f \in recent'} = {View(f) : f \in recent} \cup {View(path')}
        BY <3>1
      <4>3. View(path') = arg[w]
        BY <3>1, <3>2, MissingAssumption DEF View
      <4> QED BY <4>1, <4>2, <4>3, RestoredIsRecent
    <3>5. State[w] = "asked" /\ State' = [State EXCEPT ![w] = "ok"] /\ arg' = arg
      BY <2>4, <2>0, StateMoves DEF Replace, State, Steps
    <3>6. Atomic!Publish(w)
      BY <3>3, <3>4, <3>5 DEF Atomic!Publish, Atomic!Move
    <3> QED BY <3>6 DEF Atomic!Next
  <2>5. ASSUME Flush PROVE Atomic!Next
    <3>1. IInv' /\ path' = path /\ recent' = {path} /\ UNCHANGED <<arg, pc>>
      BY <2>5, FlushIInv DEF Flush
    <3>2. Survivors(path) = {path}
      BY DEF IInv, Durable, Survivors
    <3>3. Restored' = {View(path)}
      BY <3>1, <3>2 DEF Restored
    <3>4. Atomic!Flush
      BY <3>1, <3>3 DEF Atomic!Flush, View, State
    <3> QED BY <3>4 DEF Atomic!Next
  <2>6. ASSUME PowerLoss PROVE Atomic!Next
    <3>1. IInv' /\ path' \in recent /\ recent' = {path'}
      BY <2>6, PowerLossIInv
    <3>2. View(path') \in Restored
      BY <3>1, RestoredIsRecent
    <3>3. Survivors(path') = {path'}
      BY <3>1 DEF IInv, Durable, Survivors
    <3>4. Restored' = {View(path')}
      BY <3>1, <3>3 DEF Restored
    <3>5. State' = [w \in Writers |-> "idle"] /\ arg' = arg
      BY <2>6 DEF PowerLoss, State
    <3>6. Atomic!PowerLoss
      BY <3>2, <3>4, <3>5 DEF Atomic!PowerLoss, View
    <3> QED BY <3>6 DEF Atomic!Next
  <2>7. CASE UNCHANGED vars
    BY <2>7 DEF vars, Atomic!vars, View, Restored, Survivors, State
  <2> QED BY <2>1, <2>2, <2>3, <2>4, <2>5, <2>6, <2>7 DEF Next, Step
<1> QED BY Invariance, <1>1, <1>2, PTL DEF Spec, Atomic!Spec, ImplementsAtomicFile
=============================================================================
