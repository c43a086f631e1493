------------------------- MODULE SourceHistoryProofs -------------------------
(***************************************************************************)
(* For any options, rates, schemas and downtime: what the state file       *)
(* remembers of a source is exactly what its verdicts have to rest on.     *)
(* The invariant ties the entry to the history of scans: its streak is the *)
(* current run of low scans, its slots hold the latest rates that were     *)
(* measured there, and its snapshot is the last schema that was read.      *)
(***************************************************************************)
EXTENDS SourceHistory, SequenceTheorems, TLAPS

USE SourceHistoryAssumption

-----------------------------------------------------------------------------
(* The operators *)

\* normalizeOptions: the cap is at least the sample gate, and neither is zero.
LEMMA OptionFacts ==
    /\ EffHysteresis \in Nat \ {0}
    /\ EffMin \in Nat \ {0}
    /\ EffMax \in Nat \ {0}
    /\ EffMin <= EffMax
BY DEF EffHysteresis, EffMin, EffMax

LEMMA SlotFacts ==
    ASSUME NEW t \in Nat
    PROVE  Slot(t) \in Slots
BY DEF Slot, Slots

\* appendLimited drops the oldest samples beyond EffMax and keeps the others in order.
LEMMA AppendLimitedFacts ==
    ASSUME NEW samples \in Seq(Int), NEW rate \in Int
    PROVE  LET kept == AppendLimited(samples, rate)
           IN  /\ kept \in Seq(Int)
               /\ Len(kept) = IF Len(samples) < EffMax THEN Len(samples) + 1 ELSE EffMax
               /\ \A k \in 1..Len(kept) :
                      kept[k] = Append(samples, rate)[Len(samples) + 1 - Len(kept) + k]
<1> DEFINE longer == Append(samples, rate)
           first == Len(longer) - EffMax + 1
<1>1. longer \in Seq(Int) /\ Len(longer) = Len(samples) + 1 /\ Len(samples) \in Nat
  OBVIOUS
<1>2. EffMax \in Nat \ {0}
  BY OptionFacts
<1> HIDE DEF longer
<1>3. CASE Len(longer) <= EffMax
  BY <1>1, <1>2, <1>3 DEF AppendLimited, longer
<1>4. CASE ~(Len(longer) <= EffMax)
  <2>1. AppendLimited(samples, rate) = SubSeq(longer, first, Len(longer))
    BY <1>4 DEF AppendLimited, longer
  <2>2. first \in Int /\ Len(longer) \in Int /\ first >= 1
    BY <1>1, <1>2, <1>4
  <2>3. \A k \in first..Len(longer) : longer[k] \in Int
    BY <1>1, <2>2
  <2> DEFINE cut == SubSeq(longer, first, Len(longer))
  <2>4. /\ cut \in Seq(Int)
        /\ Len(cut) = IF first <= Len(longer) THEN Len(longer) - first + 1 ELSE 0
        /\ \A k \in 1..(Len(longer) - first + 1) : cut[k] = longer[first + k - 1]
    BY <2>2, <2>3, SubSeqProperties
  <2>5. /\ Len(longer) - first + 1 = EffMax /\ first <= Len(longer)
        /\ first - 1 = Len(samples) + 1 - EffMax
    BY <1>1, <1>2, <1>4
  <2> HIDE DEF cut, first
  <2>6. Len(cut) = EffMax /\ \A k \in 1..EffMax : cut[k] = longer[first + k - 1]
    BY <2>4, <2>5
  <2>7. ASSUME NEW k \in 1..EffMax
        PROVE  cut[k] = longer[Len(samples) + 1 - EffMax + k]
    <3>1. first + k - 1 = Len(samples) + 1 - EffMax + k
      BY <1>1, <1>2, <2>2, <2>5
    <3> QED BY <2>6, <3>1
  <2>8. AppendLimited(samples, rate) = cut
    BY <2>1 DEF cut
  <2>9. ~(Len(samples) < EffMax)
    BY <1>1, <1>2, <1>4
  <2> QED BY <2>4, <2>6, <2>7, <2>8, <2>9 DEF longer
<1> QED BY <1>3, <1>4

\* What a slot holds stays the latest of what was recorded when both are given a rate.
LEMMA HoldAppended ==
    ASSUME NEW held \in Seq(Int), NEW all \in Seq(Int), NEW rate \in Int,
           HoldsLatest(held, all)
    PROVE  HoldsLatest(AppendLimited(held, rate), Append(all, rate))
<1> DEFINE kept == AppendLimited(held, rate)
           h == Len(held)
           n == Len(all)
           m == Len(kept)
           longer == Append(held, rate)
           extended == Append(all, rate)
<1>1. /\ kept \in Seq(Int)
      /\ m = IF h < EffMax THEN h + 1 ELSE EffMax
      /\ \A k \in 1..m : kept[k] = longer[h + 1 - m + k]
  BY AppendLimitedFacts
<1> HIDE DEF kept
<1>2. /\ h = IF n < EffMax THEN n ELSE EffMax
      /\ \A k \in 1..h : held[k] = all[n - h + k]
  BY DEF HoldsLatest
<1>3. EffMax \in Nat \ {0} /\ h \in Nat /\ n \in Nat
  BY OptionFacts
<1>4. /\ Len(extended) = n + 1
      /\ \A i \in 1..h : longer[i] = held[i]
      /\ longer[h + 1] = rate
      /\ \A i \in 1..n : extended[i] = all[i]
      /\ extended[n + 1] = rate
  <2>1. ASSUME NEW q \in Seq(Int)
        PROVE  /\ Len(Append(q, rate)) = Len(q) + 1
               /\ \A i \in 1..Len(q) : Append(q, rate)[i] = q[i]
               /\ Append(q, rate)[Len(q) + 1] = rate
    BY <2>1, AppendProperties
  <2> QED BY <2>1
<1> HIDE DEF h, n, m, longer, extended
<1>5. m = IF n + 1 < EffMax THEN n + 1 ELSE EffMax
  BY <1>1, <1>2, <1>3
<1>6. ASSUME NEW k \in 1..m
      PROVE  kept[k] = extended[n + 1 - m + k]
  <2>1. PICK i \in 1..(h + 1) : i = h + 1 - m + k
    BY <1>1, <1>2, <1>3, <1>6
  <2>2. kept[k] = longer[i]
    BY <1>1, <1>6, <2>1
  <2>3. n - h \in Nat /\ n + 1 - m + k = n - h + i
    BY <1>1, <1>2, <1>3, <1>6, <2>1
  <2>4. CASE i = h + 1
    <3>1. n - h + i = n + 1
      BY <1>3, <2>4
    <3> QED BY <1>4, <2>2, <2>3, <2>4, <3>1
  <2>5. CASE i \in 1..h
    <3>1. n - h + i \in 1..n
      BY <1>3, <2>3, <2>5
    <3>2. longer[i] = held[i] /\ held[i] = all[n - h + i]
      BY <1>2, <1>4, <2>5
    <3>3. extended[n - h + i] = all[n - h + i]
      BY <1>4, <3>1
    <3> QED BY <2>2, <2>3, <3>2, <3>3
  <2> QED BY <1>3, <2>1, <2>4, <2>5
<1>7. Len(kept) = m
  BY DEF m
<1>8. HoldsLatest(kept, extended)
  <2>1. Len(kept) = IF Len(extended) < EffMax THEN Len(extended) ELSE EffMax
    BY <1>4, <1>5, <1>7
  <2>2. \A k \in 1..Len(kept) : kept[k] = extended[Len(extended) - Len(kept) + k]
    <3>1. ASSUME NEW k \in 1..m
          PROVE  kept[k] = extended[Len(extended) - m + k]
      <4>1. Len(extended) - m + k = n + 1 - m + k
        BY <1>3, <1>4, <1>5
      <4> QED BY <1>6, <4>1
    <3> QED BY <1>7, <3>1, Zenon
  <2> QED BY <2>1, <2>2, Zenon DEF HoldsLatest
<1> QED BY <1>8 DEF kept, extended

\* An entry that was not there before has never been seen.
EntryRecord == [first: 0..Horizon, last: (0..Horizon) \cup {Never}, docs: Int, streak: Nat,
                samples: [Slots -> Seq(Int)], schema: Schemas \cup {NoSchema},
                schemaSeen: (0..Horizon) \cup {Never}]

LEMMA EntryFacts ==
    ASSUME TypeOK
    PROVE  /\ Entry \in EntryRecord
           /\ rec # NoRecord => Entry = rec
           /\ rec = NoRecord => /\ Entry.first = now /\ Entry.last = Never
                                /\ Entry.streak = 0 /\ Entry.schema = NoSchema
                                /\ \A b \in Slots : Entry.samples[b] = <<>>
<1>1. CASE rec = NoRecord
  <2> DEFINE e == [first |-> now, last |-> Never, docs |-> 0, streak |-> 0,
                   samples |-> [b \in Slots |-> <<>>],
                   schema |-> NoSchema, schemaSeen |-> Never]
  <2>1. Entry = e
    BY <1>1 DEF Entry
  <2>2. [b \in Slots |-> <<>>] \in [Slots -> Seq(Int)]
    OBVIOUS
  <2>3. e \in EntryRecord
    BY <2>2 DEF TypeOK, EntryRecord
  <2> QED BY <1>1, <2>1, <2>3
<1>2. CASE rec # NoRecord
  BY <1>2 DEF TypeOK, Entry, Record, EntryRecord
<1> QED BY <1>1, <1>2

LEMMA RateFacts ==
    ASSUME TypeOK, NEW count \in Int, ~Incomparable(count)
    PROVE  RateOf(count) \in Int /\ Entry.last # Never
<1>1. Entry.last # Never /\ now - Entry.last \in Nat \ {0} /\ Entry.docs \in Int
  BY EntryFacts DEF Incomparable, EntryRecord, TypeOK, Never
<1>2. (count - Entry.docs) * RateScale \in Int
  BY <1>1
<1>3. \A n \in Int : \A d \in Nat \ {0} : n \div d \in Int
  OBVIOUS
<1> QED BY <1>1, <1>2, <1>3 DEF RateOf

\* assessVolume: the entry it leaves, by verdict.
Judged(a, count) ==
    /\ a.rec \in Record
    /\ a.rec.first = Entry.first /\ a.rec.last = now /\ a.rec.docs = count
    /\ a.rec.schema = Entry.schema /\ a.rec.schemaSeen = Entry.schemaSeen

UnknownLeft(a) == /\ a.status = "unknown"
                  /\ a.rec.streak = 0 /\ a.rec.samples = Entry.samples

MaintenanceLeft(a) == /\ a.status = "maintenance" /\ Entry.last # Never
                      /\ a.rec.streak = Entry.streak /\ a.rec.samples = Entry.samples

LowLeft(a) == /\ Entry.last # Never /\ ~Warming /\ Trained
              /\ a.rec.streak = Entry.streak + 1 /\ a.rec.samples = Entry.samples
              /\ a.status = IF a.rec.streak >= EffHysteresis THEN "low" ELSE "pending"

SampledLeft(a, count) ==
    /\ ~Incomparable(count) /\ Entry.last # Never
    /\ a.status = IF ~Warming /\ Trained THEN "ok" ELSE "warming"
    /\ a.rec.streak = IF Warming THEN Entry.streak ELSE 0
    /\ a.rec.samples = [Entry.samples EXCEPT
                          ![Slot(now)] = AppendLimited(@, RateOf(count))]

LEMMA AssessVolumeFacts ==
    ASSUME TypeOK, NEW count \in Int
    PROVE  LET a == AssessVolume(count)
           IN  /\ Judged(a, count)
               /\ UnknownLeft(a) \/ MaintenanceLeft(a) \/ LowLeft(a) \/ SampledLeft(a, count)
<1>1. /\ Seen(count) \in Record
      /\ Seen(count).first = Entry.first /\ Seen(count).last = now /\ Seen(count).docs = count
      /\ Seen(count).schema = Entry.schema /\ Seen(count).schemaSeen = Entry.schemaSeen
      /\ Seen(count).streak = Entry.streak /\ Seen(count).samples = Entry.samples
      /\ Entry.streak \in Nat /\ Entry.samples \in [Slots -> Seq(Int)]
  BY EntryFacts DEF Seen, EntryRecord, Record, TypeOK
<1>2. CASE Incomparable(count)
  <2>1. AssessVolume(count) = Unknown(count)
    BY <1>2 DEF AssessVolume
  <2>2. Judged(Unknown(count), count) /\ UnknownLeft(Unknown(count))
    BY <1>1 DEF Unknown, Judged, UnknownLeft, Record
  <2> QED BY <2>1, <2>2
<1>3. CASE ~Incomparable(count) /\ InDowntime
  <2>1. AssessVolume(count) = Maintenance(count)
    BY <1>3 DEF AssessVolume
  <2>2. Judged(Maintenance(count), count) /\ MaintenanceLeft(Maintenance(count))
    BY <1>1, <1>3, RateFacts DEF Maintenance, Judged, MaintenanceLeft
  <2> QED BY <2>1, <2>2
<1>4. CASE /\ ~Incomparable(count) /\ ~InDowntime /\ ~Warming /\ Trained
           /\ IsLow(Entry.samples[Slot(now)], RateOf(count))
  <2>1. AssessVolume(count) = Low(count)
    BY <1>4 DEF AssessVolume
  <2>2. Judged(Low(count), count) /\ LowLeft(Low(count))
    <3> DEFINE r == [Seen(count) EXCEPT !.streak = Entry.streak + 1]
    <3>1. /\ Low(count).rec = r
          /\ Low(count).status =
               IF Entry.streak + 1 >= EffHysteresis THEN "low" ELSE "pending"
      BY DEF Low
    <3>2. /\ r \in Record /\ r.first = Entry.first /\ r.last = now /\ r.docs = count
          /\ r.schema = Entry.schema /\ r.schemaSeen = Entry.schemaSeen
          /\ r.streak = Entry.streak + 1 /\ r.samples = Entry.samples
      <4>1. ASSUME NEW e \in Record, NEW n \in Nat
            PROVE  /\ [e EXCEPT !.streak = n] \in Record
                   /\ [e EXCEPT !.streak = n].first = e.first
                   /\ [e EXCEPT !.streak = n].last = e.last
                   /\ [e EXCEPT !.streak = n].docs = e.docs
                   /\ [e EXCEPT !.streak = n].schema = e.schema
                   /\ [e EXCEPT !.streak = n].schemaSeen = e.schemaSeen
                   /\ [e EXCEPT !.streak = n].samples = e.samples
                   /\ [e EXCEPT !.streak = n].streak = n
        BY DEF Record
      <4>2. Entry.streak + 1 \in Nat
        BY <1>1
      <4> QED BY <1>1, <4>1, <4>2
    <3> HIDE DEF r
    <3> QED BY <1>4, <3>1, <3>2, RateFacts DEF Judged, LowLeft
  <2> QED BY <2>1, <2>2
<1>5. CASE /\ ~Incomparable(count) /\ ~InDowntime
           /\ ~(~Warming /\ Trained /\ IsLow(Entry.samples[Slot(now)], RateOf(count)))
  <2>1. AssessVolume(count) = Sampled(count)
    BY <1>5 DEF AssessVolume
  <2>2. Slot(now) \in Slots
    BY SlotFacts DEF TypeOK
  <2>3. AppendLimited(Entry.samples[Slot(now)], RateOf(count)) \in Seq(Int)
    BY <1>1, <1>5, <2>2, RateFacts, AppendLimitedFacts
  <2>4. [Entry.samples EXCEPT ![Slot(now)] = AppendLimited(@, RateOf(count))]
            \in [Slots -> Seq(Int)]
    BY <1>1, <2>3
  <2>5. Judged(Sampled(count), count) /\ SampledLeft(Sampled(count), count)
    BY <1>1, <1>5, <2>4, RateFacts DEF Sampled, Judged, SampledLeft, Record
  <2> QED BY <2>1, <2>5
<1> QED BY <1>2, <1>3, <1>4, <1>5

\* Save prunes nothing that has just been seen.
LEMMA PruneFacts ==
    ASSUME NEW r \in Record, TypeOK
    PROVE  /\ PruneStale(r) \in {r, NoRecord}
           /\ r # NoRecord
           /\ r.last = now => PruneStale(r) = r
<1>1. r # NoRecord
  <2>1. r.first \in 0..Horizon
    BY DEF Record
  <2>2. NoRecord.first = -1
    BY DEF NoRecord, Never
  <2> QED BY <2>1, <2>2
<1>2. PruneStale(r) \in {r, NoRecord}
  BY DEF PruneStale
<1>3. ASSUME r.last = now PROVE PruneStale(r) = r
  <2>1. /\ now \in Nat /\ r.schemaSeen \in Int
    BY DEF TypeOK, Record, Never
  <2>2. LastActivity(r) \in Int /\ LastActivity(r) >= now
    BY <1>3, <2>1 DEF LastActivity, Never
  <2> QED BY <2>1, <2>2 DEF PruneStale
<1> QED BY <1>1, <1>2, <1>3

\* The observer of the rates saw the source when the entry last did.
ScannedIsEntry ==
    scanned = IF rec = NoRecord THEN Unscanned ELSE [at |-> rec.last, docs |-> rec.docs]

\* A scan that finds the source, all at once.
LEMMA ScanFacts ==
    ASSUME TypeOK, ScannedIsEntry, NEW count \in {docs, Unread}, NEW fetched \in BOOLEAN,
           Scan(count, fetched)
    PROVE  /\ TypeOK' /\ ScannedIsEntry'
           /\ rec' # NoRecord /\ rec'.first = Entry.first
           /\ volume' \in VolumeStatus
           /\ \/ /\ volume' = "unknown" /\ rec'.streak = 0
                 /\ lowScans' = 0 /\ recorded' = recorded
                 /\ rec'.samples = Entry.samples
              \/ /\ volume' = "maintenance" /\ rec'.streak = Entry.streak
                 /\ Entry.last # Never
                 /\ lowScans' = lowScans /\ recorded' = recorded
                 /\ rec'.samples = Entry.samples
              \/ /\ volume' = IF rec'.streak >= EffHysteresis THEN "low" ELSE "pending"
                 /\ rec'.streak = Entry.streak + 1
                 /\ Entry.last # Never /\ ~Warming /\ Trained
                 /\ lowScans' = lowScans + 1 /\ recorded' = recorded
                 /\ rec'.samples = Entry.samples
              \/ /\ volume' = IF ~Warming /\ Trained THEN "ok" ELSE "warming"
                 /\ Entry.last # Never
                 /\ rec'.streak = IF Warming THEN Entry.streak ELSE 0
                 /\ lowScans' = 0
                 /\ RateOf(count) \in Int
                 /\ recorded' = [recorded EXCEPT ![Slot(now)] = Append(@, RateOf(count))]
                 /\ rec'.samples = [Entry.samples EXCEPT
                                      ![Slot(now)] = AppendLimited(@, RateOf(count))]
           /\ IF TrackSchema /\ fetched
              THEN /\ rec'.schema = schema /\ lastGood' = schema
                   /\ drift' = SchemaVerdict(Entry.schema, schema)
              ELSE /\ rec'.schema = Entry.schema /\ lastGood' = lastGood
                   /\ drift' = "unknown"
           /\ UNCHANGED <<now, schema>>
<1> DEFINE a == AssessVolume(count)
           r == IF TrackSchema /\ fetched
                THEN [a.rec EXCEPT !.schema = schema, !.schemaSeen = now] ELSE a.rec
<1>1. count \in Int
  BY DEF TypeOK, Unread
<1>2. Judged(a, count) /\ (UnknownLeft(a) \/ MaintenanceLeft(a) \/ LowLeft(a) \/ SampledLeft(a, count))
  BY <1>1, AssessVolumeFacts
<1>3. /\ volume' = a.status
      /\ drift' = IF TrackSchema /\ fetched THEN SchemaVerdict(a.rec.schema, schema)
                                            ELSE "unknown"
      /\ rec' = PruneStale(r)
      /\ lowScans' = CASE a.status \in {"low", "pending"} -> lowScans + 1
                       [] a.status = "maintenance" -> lowScans
                       [] OTHER -> 0
      /\ scanned' = [at |-> now, docs |-> count]
      /\ recorded' = IF a.status \in {"ok", "warming"}
                     THEN [recorded EXCEPT ![Slot(now)] = Append(@, Measured(count))]
                     ELSE recorded
      /\ quiet' = FALSE
      /\ lastGood' = IF TrackSchema /\ fetched THEN schema ELSE lastGood
      /\ UNCHANGED <<now, docs, schema, listed>>
  BY DEF Scan
<1> HIDE DEF a
<1>4. /\ r \in Record /\ r.first = Entry.first /\ r.last = now /\ r.docs = count
      /\ r.streak = a.rec.streak /\ r.samples = a.rec.samples
      /\ r.schema = IF TrackSchema /\ fetched THEN schema ELSE Entry.schema
  BY <1>2 DEF Judged, Record, TypeOK
<1> HIDE DEF r
<1>5. rec' = r /\ rec' # NoRecord
  BY <1>3, <1>4, PruneFacts
<1>6. a.status \in VolumeStatus
  BY <1>2 DEF UnknownLeft, MaintenanceLeft, LowLeft, SampledLeft, VolumeStatus
<1>7. lowScans' \in Nat
  BY <1>3 DEF TypeOK
<1>8. /\ recorded' \in [Slots -> Seq(Int)]
      /\ SampledLeft(a, count) => RateOf(count) \in Int /\ Measured(count) = RateOf(count)
  <2>1. recorded \in [Slots -> Seq(Int)] /\ Slot(now) \in Slots
    BY SlotFacts DEF TypeOK
  <2>2. CASE SampledLeft(a, count)
    <3>1. RateOf(count) \in Int
      BY <1>1, <2>2, RateFacts DEF SampledLeft
    <3>2. rec # NoRecord /\ Entry = rec
      BY <2>2, EntryFacts DEF SampledLeft
    <3>3. scanned.at = Entry.last /\ scanned.docs = Entry.docs
      BY <3>2 DEF ScannedIsEntry
    <3>4. Measured(count) = RateOf(count)
      BY <3>3 DEF Measured, RateOf
    <3>5. [recorded EXCEPT ![Slot(now)] = Append(@, Measured(count))] \in [Slots -> Seq(Int)]
      <4>1. Append(recorded[Slot(now)], Measured(count)) \in Seq(Int)
        BY <2>1, <3>1, <3>4
      <4> QED BY <2>1, <4>1
    <3> QED BY <1>3, <2>1, <3>1, <3>4, <3>5
  <2>3. CASE ~SampledLeft(a, count)
    <3>1. a.status \notin {"ok", "warming"}
      BY <1>2, <2>3 DEF UnknownLeft, MaintenanceLeft, LowLeft
    <3> QED BY <1>3, <2>1, <2>3, <3>1
  <2> QED BY <2>2, <2>3
<1>9. drift' \in SchemaStatus /\ lastGood' \in Schemas \cup {NoSchema}
  BY <1>3 DEF SchemaVerdict, SchemaStatus, TypeOK
<1>10. TypeOK' /\ ScannedIsEntry'
  <2>1. ScannedIsEntry'
    BY <1>3, <1>4, <1>5 DEF ScannedIsEntry, NoRecord, Unscanned
  <2>2. scanned' \in [at: (0..Horizon) \cup {Never}, docs: Int]
    BY <1>1, <1>3 DEF TypeOK
  <2> QED BY <1>3, <1>4, <1>5, <1>6, <1>7, <1>8, <1>9, <2>1, <2>2 DEF TypeOK
<1>11. drift' = IF TrackSchema /\ fetched THEN SchemaVerdict(Entry.schema, schema)
                                          ELSE "unknown"
  BY <1>2, <1>3 DEF Judged
<1>12. \/ /\ volume' = "unknown" /\ rec'.streak = 0
          /\ lowScans' = 0 /\ recorded' = recorded
          /\ rec'.samples = Entry.samples
       \/ /\ volume' = "maintenance" /\ rec'.streak = Entry.streak
          /\ Entry.last # Never
          /\ lowScans' = lowScans /\ recorded' = recorded
          /\ rec'.samples = Entry.samples
       \/ /\ volume' = IF rec'.streak >= EffHysteresis THEN "low" ELSE "pending"
          /\ rec'.streak = Entry.streak + 1
          /\ Entry.last # Never /\ ~Warming /\ Trained
          /\ lowScans' = lowScans + 1 /\ recorded' = recorded
          /\ rec'.samples = Entry.samples
       \/ /\ volume' = IF ~Warming /\ Trained THEN "ok" ELSE "warming"
          /\ Entry.last # Never
          /\ rec'.streak = IF Warming THEN Entry.streak ELSE 0
          /\ lowScans' = 0
          /\ RateOf(count) \in Int
          /\ recorded' = [recorded EXCEPT ![Slot(now)] = Append(@, RateOf(count))]
          /\ rec'.samples = [Entry.samples EXCEPT
                               ![Slot(now)] = AppendLimited(@, RateOf(count))]
  <2>1. CASE UnknownLeft(a)
    BY <1>3, <1>4, <1>5, <2>1 DEF UnknownLeft
  <2>2. CASE MaintenanceLeft(a)
    BY <1>3, <1>4, <1>5, <2>2 DEF MaintenanceLeft
  <2>3. CASE LowLeft(a)
    <3>1. a.status \in {"low", "pending"}
      BY <2>3 DEF LowLeft
    <3> QED BY <1>3, <1>4, <1>5, <2>3, <3>1 DEF LowLeft
  <2>4. CASE SampledLeft(a, count)
    <3>1. a.status \in {"ok", "warming"}
      BY <2>4 DEF SampledLeft
    <3> QED BY <1>3, <1>4, <1>5, <1>8, <2>4, <3>1 DEF SampledLeft
  <2> QED BY <1>2, <2>1, <2>2, <2>3, <2>4
<1> QED BY <1>3, <1>4, <1>5, <1>6, <1>10, <1>11, <1>12

-----------------------------------------------------------------------------
(* The invariant *)

\* What the entry says of the scans before it.  The verdict properties follow
\* from the streak being the current run of low scans.
EntryIsHistory ==
    /\ rec # NoRecord =>
         /\ rec.first <= now
         /\ rec.streak = lowScans
         /\ now - rec.first < Warmup => rec.streak = 0
    /\ rec = NoRecord => \A b \in Slots : recorded[b] = <<>>
    /\ ScannedIsEntry
    /\ lastGood = IF rec = NoRecord THEN NoSchema ELSE rec.schema

IInv == /\ TypeOK
        /\ EntryIsHistory
        /\ LowIsSustained
        /\ SamplesAreTheRecorded

LEMMA InitIInv == Init => IInv
<1> SUFFICES ASSUME Init PROVE IInv
  OBVIOUS
<1>1. 0 \in 0..Horizon
  OBVIOUS
<1>2. TypeOK
  <2>1. scanned \in [at: (0..Horizon) \cup {Never}, docs: Int]
    BY DEF Init, Unscanned
  <2>2. [b \in Slots |-> <<>>] \in [Slots -> Seq(Int)]
    OBVIOUS
  <2> QED BY <1>1, <2>1, <2>2 DEF Init, TypeOK, VolumeStatus, SchemaStatus
<1>3. EntryIsHistory
  BY DEF Init, EntryIsHistory, ScannedIsEntry
<1>4. LowIsSustained /\ SamplesAreTheRecorded
  BY DEF Init, LowIsSustained, SamplesAreTheRecorded
<1> QED BY <1>2, <1>3, <1>4 DEF IInv

\* What a scan that finds the source starts from.
LEMMA EntryHistoryFacts ==
    ASSUME IInv
    PROVE  /\ Entry.last # Never => rec # NoRecord /\ Entry = rec
           /\ Entry.first \in Int /\ Entry.first <= now
           /\ Entry.schema = lastGood
           /\ ScannedIsEntry
           /\ \A b \in Slots : HoldsLatest(Entry.samples[b], recorded[b])
<1>1. TypeOK /\ EntryIsHistory /\ SamplesAreTheRecorded
  BY DEF IInv
<1>2. CASE rec = NoRecord
  <2>1. \A b \in Slots : Entry.samples[b] = <<>> /\ recorded[b] = <<>>
    BY <1>1, <1>2, EntryFacts DEF EntryIsHistory
  <2>2. HoldsLatest(<<>>, <<>>)
    BY OptionFacts DEF HoldsLatest
  <2> QED BY <1>1, <1>2, <2>1, <2>2, EntryFacts DEF EntryIsHistory, TypeOK, Never
<1>3. CASE rec # NoRecord
  <2>1. Entry = rec /\ rec.first \in Int
    BY <1>1, <1>3, EntryFacts DEF EntryRecord
  <2> QED BY <1>1, <1>3, <2>1 DEF EntryIsHistory, SamplesAreTheRecorded
<1> QED BY <1>2, <1>3

\* A scan keeps the slots right when every slot still holds the latest rates.
LEMMA SlotsKept ==
    ASSUME \A b \in Slots : HoldsLatest(rec'.samples[b], recorded'[b])
    PROVE  SamplesAreTheRecorded'
BY DEF SamplesAreTheRecorded, HoldsLatest, EffMax, EffMin

\* A scan that finds the source.
LEMMA ScanIInv ==
    ASSUME IInv, NEW count \in {docs, Unread}, NEW fetched \in BOOLEAN,
           Scan(count, fetched)
    PROVE  IInv'
<1>1. TypeOK /\ ScannedIsEntry
  BY DEF IInv, EntryIsHistory
<1>2. TypeOK' /\ ScannedIsEntry' /\ rec' # NoRecord /\ rec'.first = Entry.first /\ UNCHANGED <<now, schema>>
  BY <1>1, ScanFacts
<1>3. lastGood' = rec'.schema
  <2>1. IF TrackSchema /\ fetched
        THEN rec'.schema = schema /\ lastGood' = schema
        ELSE rec'.schema = Entry.schema /\ lastGood' = lastGood
    BY <1>1, ScanFacts
  <2> QED BY <2>1, EntryHistoryFacts
<1>4. /\ rec'.first <= now
      /\ Entry.last # Never => rec # NoRecord /\ Entry = rec
      /\ \A b \in Slots : HoldsLatest(Entry.samples[b], recorded[b])
  BY <1>2, EntryHistoryFacts
<1>5. rec # NoRecord => rec.streak = lowScans /\ (now - rec.first < Warmup => rec.streak = 0)
  BY DEF IInv, EntryIsHistory
<1>6. /\ lowScans \in Nat /\ now \in Int /\ EffHysteresis \in Nat \ {0} /\ Entry.first \in Int
      /\ EffMin \in Nat /\ EffMax \in Nat /\ recorded \in [Slots -> Seq(Int)] /\ Slot(now) \in Slots
      /\ Entry.samples \in [Slots -> Seq(Int)]
  <2>1. lowScans \in Nat /\ now \in Nat /\ recorded \in [Slots -> Seq(Int)]
    BY <1>1 DEF TypeOK
  <2>2. Entry.samples \in [Slots -> Seq(Int)]
    BY <1>1, EntryFacts DEF EntryRecord
  <2>3. Slot(now) \in Slots
    BY <2>1, SlotFacts
  <2>4. Entry.first \in Int
    BY EntryHistoryFacts
  <2> QED BY <2>1, <2>2, <2>3, <2>4, OptionFacts
<1>7. CASE volume' = "unknown" /\ rec'.streak = 0 /\ lowScans' = 0 /\ recorded' = recorded
           /\ rec'.samples = Entry.samples
  <2>1. EntryIsHistory' /\ LowIsSustained'
    BY <1>2, <1>3, <1>4, <1>7 DEF EntryIsHistory, LowIsSustained
  <2>2. SamplesAreTheRecorded'
    BY <1>4, <1>7, SlotsKept
  <2> QED BY <1>2, <2>1, <2>2 DEF IInv
<1>8. CASE /\ volume' = "maintenance" /\ rec'.streak = Entry.streak
           /\ Entry.last # Never
           /\ lowScans' = lowScans /\ recorded' = recorded
           /\ rec'.samples = Entry.samples
  <2>1. EntryIsHistory'
    BY <1>2, <1>3, <1>4, <1>5, <1>8 DEF EntryIsHistory
  <2>2. LowIsSustained'
    BY <1>8 DEF LowIsSustained
  <2>3. SamplesAreTheRecorded'
    BY <1>4, <1>8, SlotsKept
  <2> QED BY <1>2, <2>1, <2>2, <2>3 DEF IInv
<1>9. CASE /\ volume' = IF rec'.streak >= EffHysteresis THEN "low" ELSE "pending"
           /\ rec'.streak = Entry.streak + 1
           /\ Entry.last # Never /\ ~Warming /\ Trained
           /\ lowScans' = lowScans + 1 /\ recorded' = recorded
           /\ rec'.samples = Entry.samples
  <2>1. rec'.streak = lowScans' /\ lowScans' >= 1
    BY <1>4, <1>5, <1>6, <1>9
  <2>2. ~(now - rec'.first < Warmup)
    BY <1>2, <1>4, <1>6, <1>9 DEF Warming
  <2>3. EntryIsHistory'
    BY <1>2, <1>3, <1>4, <2>1, <2>2 DEF EntryIsHistory
  <2>4. LowIsSustained'
    BY <1>6, <1>9, <2>1 DEF LowIsSustained, EffHysteresis
  <2>5. SamplesAreTheRecorded'
    BY <1>4, <1>9, SlotsKept
  <2> QED BY <1>2, <2>3, <2>4, <2>5 DEF IInv
<1>10. CASE /\ volume' = IF ~Warming /\ Trained THEN "ok" ELSE "warming"
            /\ Entry.last # Never
            /\ rec'.streak = IF Warming THEN Entry.streak ELSE 0
            /\ lowScans' = 0
            /\ RateOf(count) \in Int
            /\ recorded' = [recorded EXCEPT ![Slot(now)] = Append(@, RateOf(count))]
            /\ rec'.samples = [Entry.samples EXCEPT
                                 ![Slot(now)] = AppendLimited(@, RateOf(count))]
  <2>1. rec'.streak = 0
    BY <1>4, <1>5, <1>10 DEF Warming
  <2>2. EntryIsHistory'
    BY <1>2, <1>3, <1>4, <1>10, <2>1 DEF EntryIsHistory
  <2>3. LowIsSustained'
    BY <1>10 DEF LowIsSustained
  <2>4. SamplesAreTheRecorded'
    <3> SUFFICES ASSUME NEW b \in Slots
                 PROVE  HoldsLatest(rec'.samples[b], recorded'[b])
      BY SlotsKept
    <3>1. CASE b = Slot(now)
      <4>1. /\ rec'.samples[b] = AppendLimited(Entry.samples[b], RateOf(count))
            /\ recorded'[b] = Append(recorded[b], RateOf(count))
        BY <1>6, <1>10, <3>1
      <4>2. /\ Entry.samples[b] \in Seq(Int) /\ recorded[b] \in Seq(Int)
            /\ HoldsLatest(Entry.samples[b], recorded[b])
        BY <1>4, <1>6
      <4> QED BY <1>10, <4>1, <4>2, HoldAppended
    <3>2. CASE b # Slot(now)
      BY <1>4, <1>6, <1>10, <3>2
    <3> QED BY <3>1, <3>2
  <2> QED BY <1>2, <2>2, <2>3, <2>4 DEF IInv
<1> QED BY <1>1, <1>7, <1>8, <1>9, <1>10, ScanFacts

\* A scan that does not find the source leaves the entry or forgets it whole.
LEMMA ScanWithoutIInv ==
    ASSUME IInv, ScanWithout
    PROVE  IInv'
<1>1. TypeOK /\ EntryIsHistory /\ LowIsSustained /\ SamplesAreTheRecorded
  BY DEF IInv
<1>2. UNCHANGED <<now, docs, schema, listed, volume, drift, lowScans, quiet>>
  BY DEF ScanWithout
<1>3. rec' \in {rec, NoRecord}
  BY DEF ScanWithout, PruneStale
<1>4. recorded' = IF rec' = NoRecord THEN [b \in Slots |-> <<>>] ELSE recorded
  BY DEF ScanWithout
<1>5. /\ lastGood' = IF rec' = NoRecord THEN NoSchema ELSE lastGood
      /\ scanned' = IF rec' = NoRecord THEN Unscanned ELSE scanned
  BY DEF ScanWithout
<1>6. TypeOK'
  BY <1>1, <1>2, <1>3, <1>4, <1>5 DEF TypeOK, Unscanned
<1>7. EntryIsHistory'
  BY <1>1, <1>2, <1>3, <1>4, <1>5 DEF EntryIsHistory, ScannedIsEntry
<1>8. LowIsSustained'
  BY <1>1, <1>2 DEF LowIsSustained
<1>9. SamplesAreTheRecorded'
  BY <1>1, <1>3, <1>4 DEF SamplesAreTheRecorded, HoldsLatest, EffMax, EffMin
<1> QED BY <1>6, <1>7, <1>8, <1>9 DEF IInv

\* The source changes, or time passes: the entry and its history do not.
LEMMA OutsideIInv ==
    ASSUME IInv, Hour \/ Shrink \/ Remap \/ Relist \/ UNCHANGED vars
    PROVE  /\ IInv'
           /\ UNCHANGED <<rec, volume, drift, lowScans, scanned, recorded, lastGood>>
<1>1. TypeOK /\ EntryIsHistory /\ LowIsSustained /\ SamplesAreTheRecorded
  BY DEF IInv
<1>2. UNCHANGED <<rec, volume, drift, lowScans, scanned, recorded, lastGood>>
  BY DEF Hour, Shrink, Remap, Relist, vars
<1>3. now' \in 0..Horizon /\ now' >= now
  BY <1>1 DEF Hour, Shrink, Remap, Relist, vars, TypeOK
<1>4. TypeOK'
  <2>1. docs' \in Nat
    BY <1>1 DEF Hour, Shrink, Remap, Relist, vars, TypeOK
  <2>2. schema' \in Schemas /\ listed' \in BOOLEAN
    BY <1>1 DEF Hour, Shrink, Remap, Relist, vars, TypeOK
  <2>3. quiet' \in BOOLEAN
    <3>1. CASE Hour
      <4>1. PICK r \in Rates \cup (IF now' \in Downtime THEN {0} ELSE {}) :
              quiet' = (quiet \/ r \notin Rates)
        BY <3>1 DEF Hour
      <4>2. (quiet \/ r \notin Rates) \in BOOLEAN
        OBVIOUS
      <4> QED BY <4>1, <4>2
    <3>2. CASE ~Hour
      BY <1>1, <3>2 DEF Shrink, Remap, Relist, vars, TypeOK
    <3> QED BY <3>1, <3>2
  <2> QED BY <1>1, <1>2, <1>3, <2>1, <2>2, <2>3 DEF TypeOK
<1>5. EntryIsHistory'
  <2>1. rec # NoRecord => rec.first \in Int /\ now \in Int /\ now' \in Int
    BY <1>1, <1>3 DEF TypeOK, Record
  <2> QED BY <1>1, <1>2, <1>3, <2>1 DEF EntryIsHistory, ScannedIsEntry
<1>6. LowIsSustained' /\ SamplesAreTheRecorded'
  BY <1>1, <1>2 DEF LowIsSustained, SamplesAreTheRecorded, HoldsLatest, EffMax, EffMin
<1> QED BY <1>2, <1>4, <1>5, <1>6 DEF IInv

LEMMA StepIInv == IInv /\ [Next]_vars => IInv'
<1> SUFFICES ASSUME IInv, [Next]_vars PROVE IInv'
  OBVIOUS
<1>1. CASE Hour \/ Shrink \/ Remap \/ Relist \/ UNCHANGED vars
  BY <1>1, OutsideIInv
<1>2. CASE \E count \in {docs, Unread}, fetched \in BOOLEAN : Scan(count, fetched)
  BY <1>2, ScanIInv
<1>3. CASE ScanWithout
  BY <1>3, ScanWithoutIInv
<1> QED BY <1>1, <1>2, <1>3 DEF Next

LEMMA SpecIInv == Spec => []IInv
<1>1. Init => IInv
  BY InitIInv
<1>2. IInv /\ [Next]_vars => IInv'
  BY StepIInv
<1> QED BY <1>1, <1>2, PTL DEF Spec

-----------------------------------------------------------------------------
(* Theorems *)

\* Every value stays in its range: the entry is a well-formed SourceState or absent.
THEOREM TypeCorrect == Spec => []TypeOK
<1>1. IInv => TypeOK
  BY DEF IInv
<1> QED BY <1>1, SpecIInv, PTL

\* A low verdict needs the configured run of low scans (assessVolume, the pending and
\* low branches), whatever scans, pauses, deletions and prunings came before.
THEOREM LowNeedsARun == Spec => []LowIsSustained
<1>1. IInv => LowIsSustained
  BY DEF IInv
<1> QED BY <1>1, SpecIInv, PTL

\* A slot holds the latest rates measured in it since the entry was made, oldest first,
\* up to the cap of normalizeOptions: no other scan adds or drops one (appendLimited).
THEOREM SlotsHoldWhatWasRecorded == Spec => []SamplesAreTheRecorded
<1>1. IInv => SamplesAreTheRecorded
  BY DEF IInv
<1> QED BY <1>1, SpecIInv, PTL

\* Only a scan that finds the source, or one that does not, touches the entry.
LEMMA StepKinds ==
    ASSUME IInv, [Next]_vars
    PROVE  \/ \E count \in {docs, Unread}, fetched \in BOOLEAN : Scan(count, fetched)
           \/ ~listed /\ lowScans' = lowScans
           \/ UNCHANGED <<rec, volume, drift, lowScans, scanned, recorded, lastGood>>
<1>1. CASE Hour \/ Shrink \/ Remap \/ Relist \/ UNCHANGED vars
  BY <1>1, OutsideIInv
<1>2. CASE ScanWithout
  BY <1>2 DEF ScanWithout
<1> QED BY <1>1, <1>2 DEF Next

\* A scan is counted low only by the last branch of assessVolume, past the warmup and
\* the sample gate.
THEOREM LowIsEarnedAlways == Spec => LowIsEarned
<1>1. ASSUME IInv, [Next]_vars, lowScans' > lowScans
      PROVE  now - rec'.first >= Warmup /\ Len(recorded[Slot(now)]) >= EffMin
  <2>1. lowScans \in Nat /\ now \in Nat /\ TypeOK /\ recorded \in [Slots -> Seq(Int)]
    BY <1>1 DEF IInv, TypeOK
  <2>2. PICK count \in {docs, Unread}, fetched \in BOOLEAN : Scan(count, fetched)
    BY <1>1, <2>1, StepKinds
  <2>3. ~Warming /\ Trained
    BY <1>1, <2>1, <2>2, ScanFacts, EntryHistoryFacts
  <2>4. rec'.first = Entry.first /\ Entry.first \in Int /\ Entry.first <= now
    BY <1>1, <2>1, <2>2, ScanFacts, EntryHistoryFacts
  <2>5. Slot(now) \in Slots
    BY <2>1, SlotFacts
  <2>6. Len(Entry.samples[Slot(now)]) =
          IF Len(recorded[Slot(now)]) < EffMax THEN Len(recorded[Slot(now)]) ELSE EffMax
    BY <1>1, <2>5, EntryHistoryFacts DEF HoldsLatest
  <2>7. Len(recorded[Slot(now)]) >= EffMin
    BY <2>1, <2>3, <2>5, <2>6, OptionFacts DEF Trained
  <2> QED BY <2>1, <2>3, <2>4, <2>7 DEF Warming
<1>2. IInv /\ [Next]_vars =>
        [lowScans' > lowScans => /\ now - rec'.first >= Warmup
                                 /\ Len(recorded[Slot(now)]) >= EffMin]_vars
  BY <1>1
<1> QED BY <1>2, SpecIInv, PTL DEF Spec, LowIsEarned

\* A slot that was given enough samples is judged once the warmup is over, however the
\* options cap the samples (normalizeOptions).
THEOREM WarmingEndsAlways == Spec => WarmingEnds
<1>1. ASSUME IInv, [Next]_vars, recorded' # recorded, volume' = "warming", listed
      PROVE  now - rec'.first < Warmup \/ Len(recorded[Slot(now)]) < EffMin
  <2>1. now \in Nat /\ TypeOK /\ recorded \in [Slots -> Seq(Int)]
    BY <1>1 DEF IInv, TypeOK
  <2>2. PICK count \in {docs, Unread}, fetched \in BOOLEAN : Scan(count, fetched)
    BY <1>1, StepKinds
  <2>3. volume' = IF ~Warming /\ Trained THEN "ok" ELSE "warming"
    BY <1>1, <2>1, <2>2, ScanFacts, EntryHistoryFacts
  <2>4. rec'.first = Entry.first
    BY <1>1, <2>1, <2>2, ScanFacts, EntryHistoryFacts
  <2>5. Slot(now) \in Slots
    BY <2>1, SlotFacts
  <2>6. Len(Entry.samples[Slot(now)]) =
          IF Len(recorded[Slot(now)]) < EffMax THEN Len(recorded[Slot(now)]) ELSE EffMax
    BY <1>1, <2>5, EntryHistoryFacts DEF HoldsLatest
  <2>7. CASE Warming
    BY <2>4, <2>7 DEF Warming
  <2>8. CASE ~Trained
    <3>1. Len(recorded[Slot(now)]) \in Nat /\ EffMin \in Nat /\ EffMax \in Nat /\ EffMin <= EffMax
      BY <2>1, <2>5, OptionFacts
    <3>2. ~(Len(Entry.samples[Slot(now)]) >= EffMin)
      BY <2>8 DEF Trained
    <3> QED BY <2>6, <3>1, <3>2
  <2> QED BY <1>1, <2>3, <2>7, <2>8
<1>2. IInv /\ [Next]_vars =>
        [recorded' # recorded /\ volume' = "warming" /\ listed =>
           \/ now - rec'.first < Warmup
           \/ Len(recorded[Slot(now)]) < EffMin]_vars
  BY <1>1
<1> QED BY <1>2, SpecIInv, PTL DEF Spec, WarmingEnds

\* A scan that finds the source never forgets it (Save prunes after the assessment).
THEOREM ListedIsRememberedAlways == Spec => ListedIsRemembered
<1>1. ASSUME IInv, [Next]_vars, listed, rec # NoRecord
      PROVE  rec' # NoRecord
  <2>1. TypeOK
    BY <1>1 DEF IInv
  <2>2. CASE \E count \in {docs, Unread}, fetched \in BOOLEAN : Scan(count, fetched)
    BY <1>1, <2>1, <2>2, ScanFacts, EntryHistoryFacts
  <2>3. CASE UNCHANGED <<rec, volume, drift, lowScans, scanned, recorded, lastGood>>
    BY <1>1, <2>3
  <2> QED BY <1>1, <2>2, <2>3, StepKinds
<1>2. IInv /\ [Next]_vars => [listed /\ rec # NoRecord => rec' # NoRecord]_vars
  BY <1>1
<1> QED BY <1>2, SpecIInv, PTL DEF Spec, ListedIsRemembered

\* Drift is reported by the first scan that reads a changed schema, and by no other
\* (assessSchema compares with the stored snapshot and keeps it when a fetch fails).
THEOREM DriftIsExactAlways == Spec => DriftIsExact
<1>1. ASSUME IInv, [Next]_vars, listed, rec' # rec
      PROVE  (drift' = "drift") <=> /\ lastGood' # lastGood
                                    /\ lastGood \notin {NoSchema, EmptySchema}
  <2>1. TypeOK
    BY <1>1 DEF IInv
  <2>2. PICK count \in {docs, Unread}, fetched \in BOOLEAN : Scan(count, fetched)
    BY <1>1, StepKinds
  <2>3. IF TrackSchema /\ fetched
        THEN lastGood' = schema /\ drift' = SchemaVerdict(Entry.schema, schema)
        ELSE lastGood' = lastGood /\ drift' = "unknown"
    BY <1>1, <2>1, <2>2, ScanFacts, EntryHistoryFacts
  <2>4. Entry.schema = lastGood
    BY <1>1, EntryHistoryFacts
  <2> QED BY <2>3, <2>4 DEF SchemaVerdict
<1>2. IInv /\ [Next]_vars =>
        [listed /\ rec' # rec =>
           ((drift' = "drift") <=> /\ lastGood' # lastGood
                                   /\ lastGood \notin {NoSchema, EmptySchema})]_vars
  BY <1>1
<1> QED BY <1>2, SpecIInv, PTL DEF Spec, DriftIsExact
=============================================================================
