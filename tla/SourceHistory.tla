---------------------------- MODULE SourceHistory ----------------------------
(***************************************************************************)
(* internal/state: what the state file remembers of one source, and the    *)
(* volume and schema verdicts a scan draws from it.  Every source is       *)
(* assessed by itself, so one source is modelled; a scan here is           *)
(* Load, AssessVolumes, AssessSchemas and Save with nothing failing (the   *)
(* failures are in ScanCommit).                                            *)
(*                                                                         *)
(* Time is in hours.  The code keys a baseline by weekday and hour; here   *)
(* there are Buckets slots that take turns.  A rate is documents per hour, *)
(* scaled by RateScale so that every quotient is exact.                    *)
(***************************************************************************)
EXTENDS Integers, Sequences, SequencesExt

CONSTANTS
    Buckets,        \* number of baseline slots (24 * 7 in the code)
    Rates,          \* documents the source may gain in an hour
    Downtime,       \* hours covered by a declared downtime window
    Schemas,        \* field sets the source may have
    EmptySchema,    \* the schema without fields
    NoSchema,       \* no snapshot stored
    TrackSchema,    \* --schema
    Warmup, Hysteresis, MinSamples, ZThreshold,   \* the --volume-* options
    MaxSamples,     \* VolumeOptions.MaxSamples before normalizeOptions
    DefaultCap,     \* 64 in the code
    Retention,      \* pruneRetention
    RateScale,
    Horizon         \* bound: the last hour of a behaviour

ASSUME SourceHistoryAssumption ==
    /\ Buckets \in Nat \ {0}
    /\ Rates \subseteq Nat
    /\ Downtime \subseteq Nat
    /\ EmptySchema \in Schemas /\ NoSchema \notin Schemas
    /\ TrackSchema \in BOOLEAN
    /\ Warmup \in Nat /\ Hysteresis \in Nat /\ MinSamples \in Nat
    /\ ZThreshold \in Nat \ {0}
    /\ MaxSamples \in Nat /\ DefaultCap \in Nat \ {0}
    /\ Retention \in Nat \ {0}
    /\ Horizon \in Nat
    /\ RateScale \in Nat \ {0}
    /\ \A e \in 1..Horizon : RateScale % e = 0

VARIABLES
    (* the source *)
    now,        \* the hour
    docs,       \* documents stored
    schema,     \* its fields
    listed,     \* it is in the backend's inventory
    (* the state file *)
    rec,        \* the source's entry: NoRecord or a SourceState
    (* the report *)
    volume,     \* the volume verdict of the last scan of the source
    drift,      \* the schema verdict of the last scan of the source
    (* observation only *)
    lowScans,   \* consecutive low scans, maintenance not counted
    scanned,    \* the last scan since the source was (re)discovered
    recorded,   \* rates measured since then that count, per slot
    quiet,      \* since its last scan the source was silent in a downtime hour
    lastGood    \* the last schema fetched since the source was (re)discovered

vars == <<now, docs, schema, listed, rec, volume, drift,
          lowScans, scanned, recorded, quiet, lastGood>>

Slots == 0..(Buckets - 1)
Slot(t) == t % Buckets

Unread == -1       \* Source.Docs when the backend could not count
Never == -1        \* the zero time

NoRecord == [first |-> Never]
Unscanned == [at |-> Never, docs |-> 0]

VolumeStatus == {"unknown", "warming", "ok", "pending", "low", "maintenance"}
SchemaStatus == {"unknown", "warming", "ok", "drift"}

-----------------------------------------------------------------------------
(* normalizeOptions: the hysteresis is at least one scan, and a slot is never *)
(* capped below the number of samples the verdict waits for.                  *)

EffHysteresis == IF Hysteresis < 1 THEN 1 ELSE Hysteresis
EffMin == IF MinSamples < 1 THEN 4 ELSE MinSamples
EffMax == IF MaxSamples < EffMin
          THEN IF DefaultCap > EffMin THEN DefaultCap ELSE EffMin
          ELSE MaxSamples

\* meanStd, multiplied out: with n samples of sum S and sum of squares Q, the mean
\* is S/n and the deviation sqrt(nQ - SS)/n.
Total(samples) == FoldSeq(LAMBDA x, y : x + y, 0, samples)

Spread(samples) ==
    Len(samples) * FoldSeq(LAMBDA x, y : x * x + y, 0, samples)
        - Total(samples) * Total(samples)

\* ZThreshold deviations below the mean, or less than half of a constant mean.
IsLow(samples, rate) ==
    LET n == Len(samples)
        short == Total(samples) - n * rate
    IN  IF Spread(samples) > 0
        THEN short > 0 /\ short * short >= ZThreshold * ZThreshold * Spread(samples)
        ELSE Total(samples) > 0 /\ 2 * n * rate < Total(samples)

\* Mutant: a full slot keeps its oldest samples.
AppendKeepsOldest(samples, rate) ==
    LET longer == Append(samples, rate)
    IN  IF Len(longer) <= EffMax THEN longer ELSE SubSeq(longer, 1, EffMax)

AppendLimited(samples, rate) ==
    LET longer == Append(samples, rate)
    IN  IF Len(longer) <= EffMax THEN longer
        ELSE SubSeq(longer, Len(longer) - EffMax + 1, Len(longer))

\* Mutant: a new entry does not note when the source was first seen.
EntryWithoutDate ==
    IF rec = NoRecord
    THEN [first |-> Never, last |-> Never, docs |-> 0, streak |-> 0,
          samples |-> [b \in Slots |-> <<>>],
          schema |-> NoSchema, schemaSeen |-> Never]
    ELSE rec

\* The entry assessVolume and assessSchema start from.
Entry == IF rec = NoRecord
         THEN [first |-> now, last |-> Never, docs |-> 0, streak |-> 0,
               samples |-> [b \in Slots |-> <<>>],
               schema |-> NoSchema, schemaSeen |-> Never]
         ELSE rec

\* A count that cannot be compared with the previous one.
Incomparable(count) ==
    \/ count < 0
    \/ Entry.last = Never
    \/ Entry.docs < 0
    \/ count < Entry.docs
    \/ now <= Entry.last

RateOf(count) == ((count - Entry.docs) * RateScale) \div (now - Entry.last)

InDowntime == now \in Downtime

\* Mutant: the warmup ends an hour early.
WarmingEarly == Warmup > 0 /\ now - Entry.first < Warmup - 1

\* Mutant: the warmup is counted from the last scan.
WarmingSinceLast == Warmup > 0 /\ now - Entry.last < Warmup

Warming == Warmup > 0 /\ now - Entry.first < Warmup
Trained == Len(Entry.samples[Slot(now)]) >= EffMin

Seen(count) == [Entry EXCEPT !.last = now, !.docs = count]

\* Mutant: a count that cannot be compared does not end a run of low scans.
UnknownKeepsStreak(count) ==
    [status |-> "unknown", rec |-> Seen(count)]

\* The verdicts of assessVolume, each with the entry it leaves.
Unknown(count) ==
    [status |-> "unknown", rec |-> [Seen(count) EXCEPT !.streak = 0]]

Maintenance(count) ==
    [status |-> "maintenance", rec |-> Seen(count)]

Low(count) ==
    LET streak == Entry.streak + 1
    IN  [status |-> IF streak >= EffHysteresis THEN "low" ELSE "pending",
         rec |-> [Seen(count) EXCEPT !.streak = streak]]

\* Warmup leaves the streak alone, too few samples and a normal rate reset it.
Sampled(count) ==
    [status |-> IF ~Warming /\ Trained THEN "ok" ELSE "warming",
     rec |-> [Seen(count) EXCEPT
                !.streak = IF Warming THEN @ ELSE 0,
                !.samples[Slot(now)] = AppendLimited(@, RateOf(count))]]

AssessVolume(count) ==
    CASE Incomparable(count) -> Unknown(count)
      [] ~Incomparable(count) /\ InDowntime -> Maintenance(count)
      [] ~Incomparable(count) /\ ~InDowntime /\ ~Warming /\ Trained
         /\ IsLow(Entry.samples[Slot(now)], RateOf(count)) -> Low(count)
      [] OTHER -> Sampled(count)

\* Mutant: a stored snapshot without fields is compared like any other.
SchemaVerdictOfEmpty(stored, found) ==
    IF stored = NoSchema THEN "warming"
    ELSE IF stored = found THEN "ok" ELSE "drift"

\* diffSchemas runs only against a stored snapshot that has fields.
SchemaVerdict(stored, found) ==
    IF stored \in {NoSchema, EmptySchema} THEN "warming"
    ELSE IF stored = found THEN "ok" ELSE "drift"

\* PruneStale, run by Save: an entry whose last activity is too old is dropped.
LastActivity(r) ==
    LET seen == IF r.schemaSeen > r.last THEN r.schemaSeen ELSE r.last
    IN  IF seen = Never THEN r.first ELSE seen

PruneStale(r) ==
    IF r # NoRecord /\ now - LastActivity(r) > Retention THEN NoRecord ELSE r
-----------------------------------------------------------------------------
Init == /\ now = 0
        /\ docs = 0
        /\ schema \in Schemas
        /\ listed = TRUE
        /\ rec = NoRecord
        /\ volume = "unknown"
        /\ drift = "unknown"
        /\ lowScans = 0
        /\ scanned = Unscanned
        /\ recorded = [b \in Slots |-> <<>>]
        /\ quiet = FALSE
        /\ lastGood = NoSchema

\* An hour passes.  Inside a declared window the source may fall silent.
Hour == /\ now < Horizon
        /\ now' = now + 1
        /\ \E r \in Rates \cup (IF now' \in Downtime THEN {0} ELSE {}) :
               /\ docs' = docs + r
               /\ quiet' = (quiet \/ r \notin Rates)
        /\ UNCHANGED <<schema, listed, rec, volume, drift, lowScans, scanned,
                       recorded, lastGood>>

\* Retention or a rollover in the backend deletes documents.
Shrink == /\ docs > 0
          /\ docs' = 0
          /\ UNCHANGED <<now, schema, listed, rec, volume, drift, lowScans,
                         scanned, recorded, quiet, lastGood>>

\* The source's mapping changes.
Remap == /\ TrackSchema
         /\ schema' \in Schemas \ {schema}
         /\ UNCHANGED <<now, docs, listed, rec, volume, drift, lowScans,
                        scanned, recorded, quiet, lastGood>>

\* The source leaves the inventory, or comes back.
Relist == /\ listed' = ~listed
          /\ UNCHANGED <<now, docs, schema, rec, volume, drift, lowScans,
                         scanned, recorded, quiet, lastGood>>

\* The rate an observer measures who saw the source at its last scan.
Measured(count) ==
    ((count - scanned.docs) * RateScale) \div (now - scanned.at)

\* A scan that finds the source.  count is what the backend reports, fetched
\* says whether the schema request for this source succeeded.
Scan(count, fetched) ==
    LET assessed == AssessVolume(count)
        reads == TrackSchema /\ fetched
    IN  /\ listed
        /\ volume' = assessed.status
        /\ drift' = IF reads THEN SchemaVerdict(assessed.rec.schema, schema)
                             ELSE "unknown"
        /\ rec' = PruneStale(IF reads
                             THEN [assessed.rec EXCEPT !.schema = schema,
                                                       !.schemaSeen = now]
                             ELSE assessed.rec)
        /\ lowScans' = CASE assessed.status \in {"low", "pending"} -> lowScans + 1
                         [] assessed.status = "maintenance" -> lowScans
                         [] OTHER -> 0
        /\ scanned' = [at |-> now, docs |-> count]
        /\ recorded' = IF assessed.status \in {"ok", "warming"}
                       THEN [recorded EXCEPT ![Slot(now)] = Append(@, Measured(count))]
                       ELSE recorded
        /\ quiet' = FALSE
        /\ lastGood' = IF reads THEN schema ELSE lastGood
        /\ UNCHANGED <<now, docs, schema, listed>>

\* A scan of an inventory without the source: Save may forget it.
ScanWithout ==
    /\ ~listed
    /\ rec' = PruneStale(rec)
    /\ scanned' = IF rec' = NoRecord THEN Unscanned ELSE scanned
    /\ recorded' = IF rec' = NoRecord THEN [b \in Slots |-> <<>>] ELSE recorded
    /\ lastGood' = IF rec' = NoRecord THEN NoSchema ELSE lastGood
    /\ UNCHANGED <<now, docs, schema, listed, volume, drift, lowScans, quiet>>

Next == \/ Hour \/ Shrink \/ Remap \/ Relist
        \/ \E count \in {docs, Unread}, fetched \in BOOLEAN : Scan(count, fetched)
        \/ ScanWithout

Spec == Init /\ [][Next]_vars

-----------------------------------------------------------------------------
(* Properties *)

Record == [first: 0..Horizon, last: 0..Horizon, docs: Int, streak: Nat,
           samples: [Slots -> Seq(Int)], schema: Schemas \cup {NoSchema},
           schemaSeen: (0..Horizon) \cup {Never}]

TypeOK == /\ now \in 0..Horizon
          /\ docs \in Nat
          /\ schema \in Schemas
          /\ listed \in BOOLEAN
          /\ rec \in Record \cup {NoRecord}
          /\ volume \in VolumeStatus
          /\ drift \in SchemaStatus
          /\ lowScans \in Nat
          /\ scanned \in [at: (0..Horizon) \cup {Never}, docs: Int]
          /\ recorded \in [Slots -> Seq(Int)]
          /\ quiet \in BOOLEAN
          /\ lastGood \in Schemas \cup {NoSchema}

\* A source is reported low only after that many consecutive low scans, and
\* stays pending until then: "consecutive low scans required" (usage.md:621).
\* A scan inside a downtime window neither adds to the run nor breaks it; every
\* other verdict breaks it.
LowIsSustained ==
    /\ volume = "low" => lowScans >= EffHysteresis
    /\ volume = "pending" => lowScans \in 1..(EffHysteresis - 1)

\* A scan counts against a source only after the warmup, and only in a slot that
\* has been given the samples the verdict waits for since the source was
\* discovered: "minimum observation time before volume findings can fire"
\* (usage.md:620, 622).
LowIsEarned ==
    [][lowScans' > lowScans => /\ now - rec'.first >= Warmup
                               /\ Len(recorded[Slot(now)]) >= EffMin]_vars

\* The sample gate is reachable: after the warmup a slot that was given enough
\* samples is judged, however the options cap it (state.go:404-408).
WarmingEnds ==
    [][recorded' # recorded /\ volume' = "warming" /\ listed =>
           \/ now - rec'.first < Warmup
           \/ Len(recorded[Slot(now)]) < EffMin]_vars

\* held is the end of all, as long as the cap allows.
HoldsLatest(held, all) ==
    /\ Len(held) = IF Len(all) < EffMax THEN Len(all) ELSE EffMax
    /\ \A k \in 1..Len(held) : held[k] = all[Len(all) - Len(held) + k]

\* What the file holds of a slot is the latest rates measured there, oldest first,
\* as many as the cap allows: each is the growth since the scan before it over the
\* hours between, whatever that scan's verdict was; no low, maintenance or
\* incomparable scan adds one, and a full slot gives up its oldest (state.go:475-499).
SamplesAreTheRecorded ==
    rec # NoRecord => \A b \in Slots : HoldsLatest(rec.samples[b], recorded[b])

\* A scan that finds the source in the inventory never forgets its history, even
\* after a pause longer than the retention: Save prunes after the assessment.
ListedIsRemembered == [][listed /\ rec # NoRecord => rec' # NoRecord]_vars

\* Between two schemas that could be read, nothing is lost by the scans that could
\* not read it: a change is reported as drift by the first scan that reads it, and
\* nothing else is (state.go:311-315).  The schema without fields has no diff.
DriftIsExact ==
    [][listed /\ rec' # rec =>
         ((drift' = "drift") <=> /\ lastGood' # lastGood
                                 /\ lastGood \notin {NoSchema, EmptySchema})]_vars

\* "A quiet window must neither page nor poison the baseline" (state.go:93-95): a
\* rate measured over an hour of declared downtime in which the source was silent
\* neither makes a scan low nor becomes a baseline sample.
QuietNeverCounts ==
    [][quiet /\ ~quiet' => lowScans' <= lowScans /\ recorded' = recorded]_vars
=============================================================================
