----------------------------- MODULE SecureFile -----------------------------
(***************************************************************************)
(* internal/securefile: Write creates a temporary file beside the          *)
(* destination, restricts it, fills it, syncs it, closes it and replaces   *)
(* the destination by it.  One action per system call, in the code's       *)
(* order, each with its failure; any number of processes may be inside     *)
(* Write for the same path, and a process may be killed, or the machine    *)
(* lose power, between any two calls.                                      *)
(*                                                                         *)
(* os.CreateTemp never returns a name that exists, so writers never share  *)
(* a temporary file, and one left behind by a killed process is never      *)
(* opened again: it is dropped from the model.                             *)
(***************************************************************************)
EXTENDS Naturals

CONSTANTS Writers,   \* processes that call securefile.Write on this path
          Values,    \* the byte strings they write
          Missing,   \* the path does not exist
          NoFile,    \* the writer has no temporary file
          Torn,      \* a file that is not complete, to a reader
          Windows,   \* replaceFile is MoveFileExW with retries, not os.Rename
          MaxBusy    \* retries that fit in replaceFile's two-second deadline

ASSUME SecureFileAssumption ==
    /\ Missing \notin Values /\ Torn \notin Values \cup {Missing}
    /\ Windows \in BOOLEAN
    /\ MaxBusy \in Nat

VARIABLES path,       \* the destination: Missing, or a file
          recent,     \* the destinations a power failure may bring back
          tmp,        \* each writer's temporary file
          arg,        \* the data each writer was called with
          busy,       \* transient failures replaceFile has met in this call
          pc          \* the call each writer makes next

vars == <<path, recent, tmp, arg, busy, pc>>

File == [val: Values, size: {"empty", "part", "all"}, synced: BOOLEAN,
         mode: {"other", "private"}]

\* No file stands for a missing one.
ASSUME MissingAssumption == Missing \notin File

Steps == {"idle", "create", "chmod", "write", "sync", "close", "replace",
          "cleanup", "ok", "error"}

TypeOK == /\ path \in File \cup {Missing}
          /\ recent \in SUBSET (File \cup {Missing})
          /\ tmp \in [Writers -> File \cup {NoFile}]
          /\ arg \in [Writers -> Values]
          /\ busy \in [Writers -> 0..MaxBusy]
          /\ pc \in [Writers -> Steps]

\* A destination that was there before the first call: complete, on disk, with
\* whatever mode it was given.
Existing == {f \in File : f.size = "all" /\ f.synced}

Init == /\ path \in Existing \cup {Missing}
        /\ recent = {path}
        /\ tmp = [w \in Writers |-> NoFile]
        /\ arg \in [Writers -> Values]
        /\ busy = [w \in Writers |-> 0]
        /\ pc = [w \in Writers |-> "idle"]

Goto(w, step) == pc' = [pc EXCEPT ![w] = step]

Call(w, v) ==
    /\ pc[w] = "idle"
    /\ arg' = [arg EXCEPT ![w] = v]
    /\ busy' = [busy EXCEPT ![w] = 0]
    /\ Goto(w, "create")
    /\ UNCHANGED <<path, recent, tmp>>

\* os.CreateTemp opens with 0600 less the umask: not yet the mode Write wants.
CreateTemp(w) ==
    /\ pc[w] = "create"
    /\ \/ /\ tmp' = [tmp EXCEPT ![w] = [val |-> arg[w], size |-> "empty",
                                        synced |-> FALSE, mode |-> "other"]]
          /\ Goto(w, "chmod")
       \/ /\ Goto(w, "error")
          /\ UNCHANGED tmp
    /\ UNCHANGED <<path, recent, arg, busy>>

\* Mutant: writes the file even if its mode could not be restricted.
ChmodUnchecked(w) ==
    /\ pc[w] = "chmod"
    /\ Goto(w, "write")
    /\ tmp' \in {tmp, [tmp EXCEPT ![w].mode = "private"]}
    /\ UNCHANGED <<path, recent, arg, busy>>

Chmod(w) ==
    /\ pc[w] = "chmod"
    /\ \/ /\ tmp' = [tmp EXCEPT ![w].mode = "private"]
          /\ Goto(w, "write")
       \/ /\ Goto(w, "cleanup")
          /\ UNCHANGED tmp
    /\ UNCHANGED <<path, recent, arg, busy>>

\* A failing write may have stored a prefix (a full disk).
WriteData(w) ==
    /\ pc[w] = "write"
    /\ \/ /\ tmp' = [tmp EXCEPT ![w].size = "all"]
          /\ Goto(w, "sync")
       \/ /\ tmp' = [tmp EXCEPT ![w].size = "part"]
          /\ Goto(w, "cleanup")
    /\ UNCHANGED <<path, recent, arg, busy>>

\* Mutant: the data is not synced before the file is published.
SyncSkipped(w) ==
    /\ pc[w] = "sync"
    /\ Goto(w, "close")
    /\ UNCHANGED <<path, recent, tmp, arg, busy>>

Sync(w) ==
    /\ pc[w] = "sync"
    /\ \/ /\ tmp' = [tmp EXCEPT ![w].synced = TRUE]
          /\ Goto(w, "close")
       \/ /\ Goto(w, "cleanup")
          /\ UNCHANGED tmp
    /\ UNCHANGED <<path, recent, arg, busy>>

Close(w) ==
    /\ pc[w] = "close"
    /\ \/ Goto(w, "replace")
       \/ Goto(w, "cleanup")
    /\ UNCHANGED <<path, recent, tmp, arg, busy>>

\* The atomic replacement.  After it the temporary name is gone (keep = true).
Replace(w) ==
    /\ pc[w] = "replace"
    /\ path' = tmp[w]
    /\ recent' = recent \cup {tmp[w]}
    /\ tmp' = [tmp EXCEPT ![w] = NoFile]
    /\ Goto(w, "ok")
    /\ UNCHANGED <<arg, busy>>

\* Mutant: the destination is removed to make room, then the rename fails.
ReplaceRemovesFirst(w) ==
    /\ pc[w] = "replace"
    /\ path' = Missing
    /\ recent' = recent \cup {Missing}
    /\ Goto(w, "cleanup")
    /\ UNCHANGED <<tmp, arg, busy>>

\* Mutant: the error of replaceFile is dropped.
ReplaceErrorDropped(w) ==
    /\ pc[w] = "replace"
    /\ tmp' = [tmp EXCEPT ![w] = NoFile]
    /\ Goto(w, "ok")
    /\ UNCHANGED <<path, recent, arg, busy>>

ReplaceFails(w) ==
    /\ pc[w] = "replace"
    /\ Goto(w, "cleanup")
    /\ UNCHANGED <<path, recent, tmp, arg, busy>>

\* Mutant: the deadline is computed anew for every attempt.
ReplaceBusyForever(w) ==
    /\ Windows
    /\ pc[w] = "replace"
    /\ busy' = [busy EXCEPT ![w] = (@ + 1) % (MaxBusy + 1)]
    /\ UNCHANGED <<path, recent, tmp, arg, pc>>

\* Windows only: a reader holds the destination open, so replaceFile sleeps and
\* tries again until its deadline has passed.
ReplaceBusy(w) ==
    /\ Windows
    /\ pc[w] = "replace"
    /\ \/ /\ busy[w] < MaxBusy
          /\ busy' = [busy EXCEPT ![w] = @ + 1]
          /\ UNCHANGED pc
       \/ /\ busy[w] = MaxBusy
          /\ Goto(w, "cleanup")
          /\ UNCHANGED busy
    /\ UNCHANGED <<path, recent, tmp, arg>>

\* The deferred close and remove of a temporary file that was not kept.  The
\* remove's own failure is ignored; what it leaves behind is never read.
Cleanup(w) ==
    /\ pc[w] = "cleanup"
    /\ tmp' = [tmp EXCEPT ![w] = NoFile]
    /\ Goto(w, "error")
    /\ UNCHANGED <<path, recent, arg, busy>>

Return(w) ==
    /\ pc[w] \in {"ok", "error"}
    /\ Goto(w, "idle")
    /\ UNCHANGED <<path, recent, tmp, arg, busy>>

\* The process dies: its deferred cleanup does not run.
Kill(w) ==
    /\ pc[w] # "idle"
    /\ tmp' = [tmp EXCEPT ![w] = NoFile]
    /\ Goto(w, "idle")
    /\ UNCHANGED <<path, recent, arg, busy>>

\* The file system writes the directory back; the code never syncs it itself.
Flush ==
    /\ recent # {path}
    /\ recent' = {path}
    /\ UNCHANGED <<path, tmp, arg, busy, pc>>

\* What is left on disk of a file: anything up to all of it, unless it was synced.
Survivors(f) == IF f = Missing \/ f.synced THEN {f}
                ELSE {[f EXCEPT !.size = z] : z \in {"empty", "part", f.size}}

PowerLoss ==
    /\ \E f \in recent : path' \in Survivors(f)
    /\ recent' = {path'}
    /\ tmp' = [w \in Writers |-> NoFile]
    /\ pc' = [w \in Writers |-> "idle"]
    /\ UNCHANGED <<arg, busy>>

Step(w) == \/ CreateTemp(w) \/ Chmod(w) \/ WriteData(w) \/ Sync(w) \/ Close(w)
           \/ Replace(w) \/ ReplaceFails(w) \/ ReplaceBusy(w) \/ Cleanup(w)
           \/ Return(w)

Next == \/ \E w \in Writers : \/ \E v \in Values : Call(w, v)
                              \/ Step(w)
                              \/ Kill(w)
        \/ Flush
        \/ PowerLoss

Spec == Init /\ [][Next]_vars

\* A process that runs makes its next system call.
FairSpec == Spec /\ \A w \in Writers : WF_vars(Step(w))

-----------------------------------------------------------------------------
(* Properties *)

\* A reader of the destination never sees a partly written file, whatever was
\* interrupted: "without exposing a partially written file" (securefile.go:1-2).
NeverPartial == path # Missing => path.size = "all" /\ path.synced

\* Once this code has published a file, its mode is the restricted one, even if
\* the file it replaced was readable by others (securefile.go:2-3, 13-15).
PrivateOnceReplaced == [][path' # path /\ path' \notin recent =>
                              path'.mode = "private"]_vars

\* A destination that exists is never missing to a reader, not even between the
\* attempts of replaceFile (replace_windows.go:29-32).
NeverVanishes == [][path # Missing /\ Missing \notin recent => path' # Missing]_vars

\* Every call returns: the retries of replaceFile are bounded by its deadline.
CallReturns == \A w \in Writers : (pc[w] # "idle") ~> (pc[w] = "idle")

\* What a reader gets of a file: its value, or something that nobody wrote.
View(f) == IF f = Missing THEN Missing ELSE IF f.size = "all" THEN f.val ELSE Torn

\* What a reader may get after a power failure, of all that may be left of a file.
Restored == {View(g) : g \in UNION {Survivors(f) : f \in recent}}

\* A call has failed as soon as its cleanup begins.
State == [w \in Writers |-> CASE pc[w] \in {"idle", "ok", "error"} -> pc[w]
                              [] pc[w] = "cleanup" -> "error"
                              [] OTHER -> "asked"]

Atomic == INSTANCE AtomicFile WITH content <- View(path), recent <- Restored,
                                   asked <- arg, state <- State

\* Whatever the writers do, and wherever one is killed or the power fails: the path
\* holds, and gets back, only complete values that were asked for, and a call says of its
\* value what is true (securefile.go:1-3, 13-51).
ImplementsAtomicFile == Atomic!Spec
=============================================================================
