----------------------------- MODULE StatsdStats -----------------------------
(***************************************************************************)
(* The statsd health store StatsdStats                                     *)
(* (src/statsd/src/guardrail/StatsdStats.cpp).  Every entry point takes    *)
(* the single mLock for its whole body, so each note* call is one atomic   *)
(* step on the store; the *Locked helpers are operators composed inside    *)
(* the step that calls them.                                               *)
(*                                                                         *)
(* Modelled: the config lifecycle with the ice box of removed configs, the *)
(* bounded broadcast and data-drop timestamp lists of live configs, the    *)
(* per-atom logged and dropped tables with their caps, the event queue     *)
(* overflow, the uid map drop counter, the socket batch-read histogram    *)
(* and the list of large batch reads, subscription stats, the per-config   *)
(* counters, lists, per-id maps and restricted-metric stats, reset(), and  *)
(* the report of dumpStats.  The wall clock is the step number now, so     *)
(* that every noted time is distinct.                                      *)
(*                                                                         *)
(* Ghost fields (prefixed g) record what the callers did since the last   *)
(* reset; the properties compare the store with them.                      *)
(***************************************************************************)
EXTENDS Integers, Sequences, SequencesExt, FiniteSets, TLC

CONSTANTS
  Keys,              \* config keys (model values)
  NoConfig,          \* absent entry of mConfigStats
  IceBoxCap,         \* kMaxIceBoxSize
  TsCap,             \* kMaxTimestampCount
  DropSizes,         \* totalBytes of noteDataDropped
  AtomIds,           \* atom ids logged or dropped (integers)
  MaxPushedAtomId,   \* kMaxPushedAtomId
  NonPlatformCap,    \* kMaxNonPlatformPushedAtoms
  Deltas,            \* deltas of noteUidMapDropped
  BatchSizes,        \* sizes of noteBatchSocketRead
  AtomCounts,        \* atomCounts of a large noteBatchSocketRead
  LargeBatchThreshold, \* kLargeBatchReadThreshold
  LargeAtomThreshold,  \* kMaxLargeBatchReadAtomThreshold
  LargeBatchCap,     \* kMaxLargeBatchReadSize
  ConfigCounters,    \* per-config counters that noted calls increment
  ConfigLists,       \* per-config lists capped at TsCap
  DimSizes,          \* sizes of noteConditionDimensionSize
  IdStats,           \* per-id maps of a config (matcher_stats, alert_stats)
  MetricIds,         \* matcher, alert and restricted metric ids
  RestrictedErrors,  \* counters of a RestrictedMetricStats entry
  LatencyCap,        \* kMaxRestrictedMetricFlushLatencyCount
  DbSizes,           \* dbSize of noteRestrictedConfigDbSize
  DbSizeCap,         \* kMaxRestrictedConfigDbSizeCount
  SubIds,            \* subscription ids
  MaxSubscriptions,  \* ShellSubscriber::getMaxSubscriptions()
  MaxSteps           \* exploration bound on the clock

NumBins == 30        \* kNumBinsInSocketBatchReadHistogram

\* Mutant: the pairs-of-hundreds bins computed with the hundreds divisor.
SocketBatchBinWrongDivisor(size) ==
  CASE size < 0    -> 0
    [] size < 5    -> size
    [] size < 10   -> 4 + size \div 5
    [] size < 100  -> 5 + size \div 10
    [] size < 1000 -> 14 + size \div 100
    [] size < 2000 -> 19 + size \div 100
    [] OTHER       -> 29

\* noteBatchSocketRead's bin of a batch of size atoms (lines 318-334).
SocketBatchBin(size) ==
  CASE size < 0    -> 0
    [] size < 5    -> size
    [] size < 10   -> 4 + size \div 5
    [] size < 100  -> 5 + size \div 10
    [] size < 1000 -> 14 + size \div 100
    [] size < 2000 -> 19 + size \div 200
    [] OTHER       -> 29

IsPlatformAtom(a) == 0 <= a /\ a <= MaxPushedAtomId
\* kMaxPushedAtomDroppedStatsSize
DropTableCap == MaxPushedAtomId + NonPlatformCap

\* The map f with key x set to v.
Put(f, x, v) == [y \in DOMAIN f \cup {x} |-> IF y = x THEN v ELSE f[y]]

\* The newest n elements of a sequence.
NewestN(q, n) == IF Len(q) <= n THEN q ELSE SubSeq(q, Len(q) - n + 1, Len(q))

NoLog == [log |-> 0, skip |-> 0]

VARIABLES st, now

vars == <<st, now>>

\* Every call takes one tick of the wall clock (bounded for exploration).
Tick == now < MaxSteps /\ now' = now + 1

\* An entry of restricted_metric_stats as it is created by operator[].
NoRms == [err |-> [e \in RestrictedErrors |-> 0], lat |-> <<>>]

\* The empty maps and lists of a ConfigStats, and their empty ghosts.
NoConfigStatsData ==
  [bcast |-> <<>>, dropT |-> <<>>, dropB |-> <<>>,
   cnt |-> [c \in ConfigCounters |-> 0], lists |-> [l \in ConfigLists |-> <<>>],
   dimMax |-> 0, idStats |-> [x \in IdStats |-> <<>>], rms |-> <<>>,
   dbT |-> <<>>, dbS |-> <<>>,
   gBcast |-> <<>>, gDrop |-> <<>>, gCnt |-> [c \in ConfigCounters |-> 0],
   gLists |-> [l \in ConfigLists |-> <<>>], gDims |-> {},
   gIdStats |-> [x \in IdStats |-> [i \in MetricIds |-> 0]],
   gRms |-> [i \in MetricIds |-> NoRms], gDb |-> <<>>]

\* A fresh ConfigStats; rid is its creation_time_sec, dimMax one entry of
\* condition_stats, devFail device_info_table_creation_failed, idStats the
\* per-id maps, rms restricted_metric_stats, dbT and dbS the paired
\* total_db_size_timestamps and total_db_sizes; the g fields are the ghost
\* histories of its counters and lists.
NewConfigStats(valid) ==
  [rid |-> now, valid |-> valid, deletion |-> 0, resetT |-> 0, devFail |-> FALSE]
    @@ NoConfigStatsData

\* StatsdStats(): the constructor.
Init ==
  /\ now = 1
  /\ st = [configs |-> [k \in Keys |-> NoConfig], iceBox |-> <<>>,
           pushed |-> [a \in {x \in AtomIds : IsPlatformAtom(x)} |-> NoLog],
           nonPlatform |-> <<>>, drops |-> <<>>, overflow |-> 0,
           uidDropped |-> 0, histogram |-> [b \in 0 .. NumBins - 1 |-> 0],
           subs |-> <<>>, large |-> <<>>, gLarge |-> <<>>,
           gReceived |-> {}, gDeleted |-> <<>>, gLogged |-> [a \in AtomIds |-> NoLog],
           gDropped |-> [a \in AtomIds |-> 0], gUidDeltas |-> 0, gReads |-> [n \in BatchSizes |-> 0],
           gActive |-> {}, gUsedSubs |-> {}]

-----------------------------------------------------------------------------
(* Configs.                                                                *)

\* Mutant: no eviction when the ice box is full.
AddToIceBoxLockedNoPop(s, c) == [s EXCEPT !.iceBox = Append(@, c)]

\* Mutant: the newest entry evicted instead of the oldest.
AddToIceBoxLockedPopBack(s, c) ==
  [s EXCEPT !.iceBox = Append(IF Len(@) = IceBoxCap THEN Front(@) ELSE @, c)]

\* addToIceBoxLocked
AddToIceBoxLocked(s, c) ==
  [s EXCEPT !.iceBox = Append(IF Len(@) = IceBoxCap THEN Tail(@) ELSE @, c)]

\* A config record leaves for the ice box (ghost: in that order).
Retire(s, c) ==
  [AddToIceBoxLocked(s, [c EXCEPT !.deletion = now]) EXCEPT
     !.gDeleted = Append(@, c.rid)]

\* noteConfigRemovedInternalLocked
NoteConfigRemovedInternalLocked(s, k) ==
  IF s.configs[k] = NoConfig THEN s
  ELSE [Retire(s, s.configs[k]) EXCEPT !.configs[k] = NoConfig]

\* Mutant: the old config of the key is overwritten, not iceboxed.
NoteConfigReceivedNoIcebox(k, valid) ==
  Tick /\
  LET c  == NewConfigStats(valid)
      s2 == [st EXCEPT !.gReceived = @ \cup {c.rid}]
  IN st' = IF valid THEN [s2 EXCEPT !.configs[k] = c] ELSE Retire(s2, c)

\* noteConfigReceived: an existing config of the key goes to the ice box; a
\* valid new config becomes live, an invalid one goes straight to the ice
\* box.
NoteConfigReceived(k, valid) ==
  Tick /\
  LET s1 == NoteConfigRemovedInternalLocked(st, k)
      c  == NewConfigStats(valid)
      s2 == [s1 EXCEPT !.gReceived = @ \cup {c.rid}]
  IN st' = IF valid THEN [s2 EXCEPT !.configs[k] = c] ELSE Retire(s2, c)

NoteConfigRemoved(k) == Tick /\ st' = NoteConfigRemovedInternalLocked(st, k)

\* noteConfigReset
NoteConfigReset(k) ==
  Tick /\
  st' = IF st.configs[k] = NoConfig THEN st
        ELSE [st EXCEPT !.configs[k].resetT = now]

\* noteBroadcastSent: a live config keeps its newest TsCap times.
NoteBroadcastSent(k) ==
  /\ Tick
  /\ st.configs[k] # NoConfig
  /\ st' = [st EXCEPT !.configs[k].bcast =
                        Append(IF Len(@) = TsCap THEN Tail(@) ELSE @, now),
                      !.configs[k].gBcast = Append(@, now)]

\* Mutant: only the time list is popped when full.
NoteDataDroppedPopTimeOnly(k, bytes) ==
  /\ Tick
  /\ st.configs[k] # NoConfig
  /\ LET full == Len(st.configs[k].dropT) = TsCap
     IN st' = [st EXCEPT !.configs[k].dropT = Append(IF full THEN Tail(@) ELSE @, now),
                         !.configs[k].dropB = Append(@, bytes),
                         !.configs[k].gDrop = Append(@, <<now, bytes>>)]

\* noteDataDropped: the time and byte lists are popped and pushed together.
NoteDataDropped(k, bytes) ==
  /\ Tick
  /\ st.configs[k] # NoConfig
  /\ LET c    == st.configs[k]
         full == Len(c.dropT) = TsCap
     IN st' = [st EXCEPT !.configs[k].dropT = Append(IF full THEN Tail(@) ELSE @, now),
                         !.configs[k].dropB = Append(IF full THEN Tail(@) ELSE @, bytes),
                         !.configs[k].gDrop = Append(@, <<now, bytes>>)]

\* noteDbCorrupted, noteDbSizeExceeded, noteDbStatFailed,
\* noteDbConfigInvalid, noteDbTooOld, noteDbDeletionConfigRemoved,
\* noteDbDeletionConfigUpdated and
\* noteConfigMetadataProviderPromotionFailed: a live config's counter c is
\* incremented; an unknown key is logged and ignored.
NoteConfigCounter(k, c) ==
  /\ Tick
  /\ st.configs[k] # NoConfig
  /\ st' = [st EXCEPT !.configs[k].cnt[c] = @ + 1, !.configs[k].gCnt[c] = @ + 1]

\* noteActiveStatusChanged (either list) and noteMetricsReportSent: a
\* live config's list l keeps its newest TsCap entries.
NoteConfigList(k, l) ==
  /\ Tick
  /\ st.configs[k] # NoConfig
  /\ st' = [st EXCEPT !.configs[k].lists[l] =
                        Append(IF Len(@) = TsCap THEN Tail(@) ELSE @, now),
                      !.configs[k].gLists[l] = Append(@, now)]

\* Mutant: the dimension size overwritten instead of kept at its maximum.
NoteConditionDimensionSizeLast(k, size) ==
  /\ Tick
  /\ st.configs[k] # NoConfig
  /\ st' = [st EXCEPT !.configs[k].dimMax = size,
                      !.configs[k].gDims = @ \cup {size}]

\* noteConditionDimensionSize (and noteMetricDimensionSize,
\* noteMetricDimensionInConditionSize): the entry, created at 0, keeps the
\* largest size noted.
NoteConditionDimensionSize(k, size) ==
  /\ Tick
  /\ st.configs[k] # NoConfig
  /\ st' = [st EXCEPT !.configs[k].dimMax = IF size > @ THEN size ELSE @,
                      !.configs[k].gDims = @ \cup {size}]

\* noteDeviceInfoTableCreationFailed
NoteDeviceInfoTableCreationFailed(k) ==
  /\ Tick
  /\ st.configs[k] # NoConfig
  /\ st' = [st EXCEPT !.configs[k].devFail = TRUE]

\* noteMatcherMatched and noteAnomalyDeclared: the entry of id in a live
\* config's map x, created at 0 on first use, is incremented.
NoteIdStat(k, x, id) ==
  /\ Tick
  /\ st.configs[k] # NoConfig
  /\ st' = [st EXCEPT !.configs[k].idStats[x] =
                        Put(@, id, IF id \in DOMAIN @ THEN @[id] + 1 ELSE 1),
                      !.configs[k].gIdStats[x][id] = @ + 1]

\* A live config's restricted_metric_stats entry of id, as operator[]
\* finds or creates it.
RmsOf(c, id) == IF id \in DOMAIN c.rms THEN c.rms[id] ELSE NoRms

\* noteRestrictedMetricInsertError, noteRestrictedMetricTableCreationError,
\* noteRestrictedMetricTableDeletionError and
\* noteRestrictedMetricCategoryChanged: counter e of the metric's entry.
NoteRestrictedMetricError(k, e, id) ==
  /\ Tick
  /\ st.configs[k] # NoConfig
  /\ st' = [st EXCEPT !.configs[k].rms =
                        Put(@, id, [RmsOf(st.configs[k], id) EXCEPT !.err[e] = @ + 1]),
                      !.configs[k].gRms[id].err[e] = @ + 1]

\* noteRestrictedMetricFlushLatency: the metric's latency list keeps its
\* newest LatencyCap entries.
NoteRestrictedMetricFlushLatency(k, id) ==
  /\ Tick
  /\ st.configs[k] # NoConfig
  /\ LET e == RmsOf(st.configs[k], id)
     IN st' = [st EXCEPT !.configs[k].rms =
                 Put(@, id, [e EXCEPT !.lat =
                               Append(IF Len(@) = LatencyCap THEN Tail(@) ELSE @, now)]),
                         !.configs[k].gRms[id].lat = Append(@, now)]

\* Mutant: only the timestamp list is popped when full.
NoteRestrictedConfigDbSizePopTimeOnly(k, size) ==
  /\ Tick
  /\ st.configs[k] # NoConfig
  /\ LET full == Len(st.configs[k].dbT) = DbSizeCap
     IN st' = [st EXCEPT !.configs[k].dbT = Append(IF full THEN Tail(@) ELSE @, now),
                         !.configs[k].dbS = Append(@, size),
                         !.configs[k].gDb = Append(@, <<now, size>>)]

\* noteRestrictedConfigDbSize: the timestamp and size lists are popped
\* together when the timestamp list is full, then both are pushed.
NoteRestrictedConfigDbSize(k, size) ==
  /\ Tick
  /\ st.configs[k] # NoConfig
  /\ LET full == Len(st.configs[k].dbT) = DbSizeCap
     IN st' = [st EXCEPT !.configs[k].dbT = Append(IF full THEN Tail(@) ELSE @, now),
                         !.configs[k].dbS = Append(IF full THEN Tail(@) ELSE @, size),
                         !.configs[k].gDb = Append(@, <<now, size>>)]

-----------------------------------------------------------------------------
(* Atoms.                                                                  *)

\* Mutant: no cap on the non-platform table.
NoteAtomLoggedLockedNoCap(s, a, skipped) ==
  LET inc(r) == [log |-> r.log + 1, skip |-> r.skip + (IF skipped THEN 1 ELSE 0)]
      g == [s EXCEPT !.gLogged[a] = inc(@)]
  IN IF IsPlatformAtom(a) THEN [g EXCEPT !.pushed[a] = inc(@)]
     ELSE [g EXCEPT !.nonPlatform = Put(@, a, inc(IF a \in DOMAIN @ THEN @[a] ELSE NoLog))]

\* noteAtomLoggedLocked: platform atoms have a slot each; other atoms
\* (negative ids included) share a table of NonPlatformCap entries in
\* which an existing entry keeps counting.
NoteAtomLoggedLocked(s, a, skipped) ==
  LET inc(r) == [log |-> r.log + 1, skip |-> r.skip + (IF skipped THEN 1 ELSE 0)]
      g == [s EXCEPT !.gLogged[a] = inc(@)]
  IN IF IsPlatformAtom(a) THEN [g EXCEPT !.pushed[a] = inc(@)]
     ELSE IF Cardinality(DOMAIN s.nonPlatform) < NonPlatformCap
             \/ a \in DOMAIN s.nonPlatform
       THEN [g EXCEPT !.nonPlatform =
               Put(@, a, inc(IF a \in DOMAIN @ THEN @[a] ELSE NoLog))]
     ELSE g

\* Mutant: a full table no longer counts the atoms it already tracks.
NoteAtomDroppedLockedNoFind(s, a) ==
  LET g == [s EXCEPT !.gDropped[a] = @ + 1]
  IN IF Cardinality(DOMAIN s.drops) < DropTableCap
       THEN [g EXCEPT !.drops = Put(@, a, IF a \in DOMAIN @ THEN @[a] + 1 ELSE 1)]
       ELSE g

\* noteAtomDroppedLocked
NoteAtomDroppedLocked(s, a) ==
  LET g == [s EXCEPT !.gDropped[a] = @ + 1]
  IN IF Cardinality(DOMAIN s.drops) < DropTableCap \/ a \in DOMAIN s.drops
       THEN [g EXCEPT !.drops = Put(@, a, IF a \in DOMAIN @ THEN @[a] + 1 ELSE 1)]
       ELSE g

NoteAtomLogged(a, skipped) == Tick /\ st' = NoteAtomLoggedLocked(st, a, skipped)

\* noteEventQueueOverflow: the dropped event counts as logged and dropped.
NoteEventQueueOverflow(a, skipped) ==
  Tick /\
  st' = NoteAtomDroppedLocked(
          NoteAtomLoggedLocked([st EXCEPT !.overflow = @ + 1], a, skipped), a)

\* noteUidMapDropped (line 603).
NoteUidMapDropped(d) ==
  Tick /\
  st' = [st EXCEPT !.uidDropped = @ + @ + d, !.gUidDeltas = @ + d]

\* Mutant: atoms counted exactly at the threshold filtered out too.
KeptAtomCountsAtThreshold(counts) ==
  [a \in {x \in DOMAIN counts : counts[x] > LargeAtomThreshold} |-> counts[a]]

\* The copy of atomCounts with the atoms below the threshold erased.
KeptAtomCounts(counts) ==
  [a \in {x \in DOMAIN counts : ~(counts[x] < LargeAtomThreshold)} |-> counts[a]]

\* noteBatchSocketRead: the read is counted in its bin; a large one is also
\* appended, with its filtered atom counts, to mLargeBatchSocketReadStats,
\* whose oldest entry is popped when it is full.  The read times are left
\* out.  gLarge records every read the spec calls large.
NoteBatchSocketRead(size, counts) ==
  Tick /\
  LET rec  == [size |-> size, counts |-> KeptAtomCounts(counts)]
      full == Len(st.large) = LargeBatchCap
      hist == [st EXCEPT !.histogram[SocketBatchBin(size)] = @ + 1,
                         !.gReads[size] = @ + 1,
                         !.gLarge = IF size >= LargeBatchThreshold
                                    THEN Append(@, <<size, counts>>) ELSE @]
  IN st' = IF size >= LargeBatchThreshold
           THEN [hist EXCEPT !.large = Append(IF full THEN Tail(@) ELSE @, rec)]
           ELSE hist

-----------------------------------------------------------------------------
(* Subscriptions (ShellSubscriber starts at most MaxSubscriptions active   *)
(* subscriptions, each with a new id).                                     *)

\* Mutant: a full table evicts its first entry, ended or not.
NoteSubscriptionStartedEvictFirst(id) ==
  Tick /\
  LET full   == Cardinality(DOMAIN st.subs) >= MaxSubscriptions
      victim == CHOOSE x \in DOMAIN st.subs : \A y \in DOMAIN st.subs : x <= y
      kept   == IF full THEN DOMAIN st.subs \ {victim} ELSE DOMAIN st.subs
      old    == IF id \in kept THEN st.subs[id] ELSE [end |-> 0, flush |-> 0]
  IN st' = [st EXCEPT !.subs = Put([x \in kept |-> st.subs[x]], id, old),
                      !.gActive = @ \cup {id}, !.gUsedSubs = @ \cup {id}]

\* noteSubscriptionStarted: when the table is full, the first ended entry
\* in id order (std::map) is erased; with none, the new one is not tracked.
NoteSubscriptionStarted(id) ==
  Tick /\
  LET ended  == {x \in DOMAIN st.subs : st.subs[x].end > 0}
      full   == Cardinality(DOMAIN st.subs) >= MaxSubscriptions
      victim == CHOOSE x \in ended : \A y \in ended : x <= y
      kept   == IF full THEN DOMAIN st.subs \ {victim} ELSE DOMAIN st.subs
      old    == IF id \in kept THEN st.subs[id] ELSE [end |-> 0, flush |-> 0]
      ghost  == [st EXCEPT !.gActive = @ \cup {id}, !.gUsedSubs = @ \cup {id}]
  IN st' = IF full /\ ended = {} THEN ghost
           ELSE [ghost EXCEPT !.subs = Put([x \in kept |-> st.subs[x]], id, old)]

NoteSubscriptionEnded(id) ==
  Tick /\
  st' = [st EXCEPT !.subs = IF id \in DOMAIN @ THEN [@ EXCEPT ![id].end = now] ELSE @,
                   !.gActive = @ \ {id}]

NoteSubscriptionFlushed(id) ==
  Tick /\
  st' = [st EXCEPT !.subs = IF id \in DOMAIN @ THEN [@ EXCEPT ![id].flush = @ + 1] ELSE @]

-----------------------------------------------------------------------------

\* reset / resetInternalLocked: clear the history, keep the live configs
\* (every counter, map and list of theirs emptied, but not
\* device_info_table_creation_failed) and the active subscriptions (flush
\* count zeroed).  mUidMapStats is not touched.
ResetInternalLocked(s) ==
  LET live == {k \in Keys : s.configs[k] # NoConfig}
      clearLists(c) == NoConfigStatsData @@ c
      keep == {x \in DOMAIN s.subs : s.subs[x].end = 0}
  IN [s EXCEPT
        !.iceBox = <<>>,
        !.pushed = [a \in DOMAIN @ |-> NoLog],
        !.nonPlatform = <<>>, !.drops = <<>>, !.overflow = 0,
        !.configs = [k \in Keys |-> IF @[k] = NoConfig THEN NoConfig ELSE clearLists(@[k])],
        !.histogram = [b \in DOMAIN @ |-> 0], !.large = <<>>, !.gLarge = <<>>,
        !.subs = [x \in keep |-> [@[x] EXCEPT !.flush = 0]],
        !.gReceived = {s.configs[k].rid : k \in live}, !.gDeleted = <<>>,
        !.gLogged = [a \in AtomIds |-> NoLog], !.gDropped = [a \in AtomIds |-> 0],
        !.gReads = [n \in BatchSizes |-> 0]]

Reset == Tick /\ st' = ResetInternalLocked(st)

-----------------------------------------------------------------------------
(* The report of dumpStats(output, reset).  The report is a function of    *)
(* the store taken under mLock: a dump without reset changes nothing, and  *)
(* a dump with reset is this report followed by the Reset step above, in   *)
(* the same critical section.  The proto encoding is left out; a field     *)
(* that writeNonZeroStatToStream omits reads as 0, as it does for a proto  *)
(* reader.                                                                 *)

\* getPushedAtomDropsLocked
GetPushedAtomDropsLocked(s, a) == IF a \in DOMAIN s.drops THEN s.drops[a] ELSE 0

\* Mutant: the platform loop starts one id late.
DumpAtomStatsLoopOffByOne(s) ==
  LET row(a, r) == [tag |-> a, count |-> r.log, skip |-> r.skip,
                    drops |-> GetPushedAtomDropsLocked(s, a)]
  IN {row(a, s.pushed[a]) : a \in {i \in DOMAIN s.pushed : i >= 3 /\ s.pushed[i].log > 0}}
     \cup {row(a, s.nonPlatform[a]) : a \in DOMAIN s.nonPlatform}

\* The atom_stats rows of dumpStats: the platform slots from id 2 on whose
\* log count is not 0, then every entry of the non-platform table, each
\* with the drops getPushedAtomDropsLocked finds for it.  The error count
\* of a row comes from mPushedAtomErrorStats (module StatsdPullStats) and is
\* left out here.
DumpAtomStats(s) ==
  LET row(a, r) == [tag |-> a, count |-> r.log, skip |-> r.skip,
                    drops |-> GetPushedAtomDropsLocked(s, a)]
  IN {row(a, s.pushed[a]) : a \in {i \in DOMAIN s.pushed : i >= 2 /\ s.pushed[i].log > 0}}
     \cup {row(a, s.nonPlatform[a]) : a \in DOMAIN s.nonPlatform}

\* The counter each database field of addConfigStatsToProto is written
\* from: the FIELD_ID_DB_DELETION_STAT_FAILED field is written from
\* db_deletion_size_exceeded_limit (line 1811).
DbFieldCounter ==
  [dbCorrupted |-> "dbCorrupted", dbStatFailed |-> "dbSizeExceeded",
   dbSizeExceeded |-> "dbSizeExceeded", dbConfigInvalid |-> "dbConfigInvalid",
   dbTooOld |-> "dbTooOld", dbConfigRemoved |-> "dbConfigRemoved",
   dbConfigUpdated |-> "dbConfigUpdated", promotionFailed |-> "promotionFailed"]

\* A counter of a ConfigStats; one whose note call the model leaves out
\* keeps its initial 0.
CountOf(c, x) == IF x \in DOMAIN c.cnt THEN c.cnt[x] ELSE 0

\* The fields of a ConfigStats that addConfigStatsToProto writes.
ReportedConfigFields ==
  {"rid", "valid", "deletion", "resetT", "devFail", "bcast", "dropT", "dropB",
   "lists", "dimMax", "idStats", "rms", "dbT", "dbS"}

\* addConfigStatsToProto: the config's times, validity, lists, per-id maps
\* and restricted metric stats as they are, and each counter field from
\* the counter DbFieldCounter names.
AddConfigStatsToProto(c) ==
  [f \in ReportedConfigFields |-> c[f]]
    @@ [cnt |-> [x \in ConfigCounters |-> CountOf(c, DbFieldCounter[x])]]

\* The uid map section of dumpStats: dropped_changes as the store holds it.
UidMapStatsToProto(s) == s.uidDropped

\* dumpStats(output, reset): the ice box (oldest first) and the live configs,
\* the atom rows, and the uid map stats (line 1914).
DumpStats(s) ==
  [iced |-> [i \in DOMAIN s.iceBox |-> AddConfigStatsToProto(s.iceBox[i])],
   live |-> [k \in {x \in Keys : s.configs[x] # NoConfig} |-> AddConfigStatsToProto(s.configs[k])],
   atoms |-> DumpAtomStats(s),
   uidDroppedChanges |-> UidMapStatsToProto(s)]

-----------------------------------------------------------------------------

\* ShellSubscriber (not under src/) starts a subscription with a new id only
\* while fewer than MaxSubscriptions are active.
SubscriberStarts(id) ==
  /\ id \notin st.gUsedSubs
  /\ Cardinality(st.gActive) < MaxSubscriptions
  /\ NoteSubscriptionStarted(id)

\* The clock bound ends every behaviour.
Done == now = MaxSteps /\ UNCHANGED vars

Next ==
  \/ \E k \in Keys, valid \in BOOLEAN : NoteConfigReceived(k, valid)
  \/ \E k \in Keys : NoteConfigRemoved(k)
  \/ \E k \in Keys : NoteConfigReset(k)
  \/ \E k \in Keys : NoteBroadcastSent(k)
  \/ \E k \in Keys, b \in DropSizes : NoteDataDropped(k, b)
  \/ \E k \in Keys, c \in ConfigCounters : NoteConfigCounter(k, c)
  \/ \E k \in Keys, l \in ConfigLists : NoteConfigList(k, l)
  \/ \E k \in Keys, n \in DimSizes : NoteConditionDimensionSize(k, n)
  \/ \E k \in Keys : NoteDeviceInfoTableCreationFailed(k)
  \/ \E k \in Keys, x \in IdStats, id \in MetricIds : NoteIdStat(k, x, id)
  \/ \E k \in Keys, e \in RestrictedErrors, id \in MetricIds :
       NoteRestrictedMetricError(k, e, id)
  \/ \E k \in Keys, id \in MetricIds : NoteRestrictedMetricFlushLatency(k, id)
  \/ \E k \in Keys, n \in DbSizes : NoteRestrictedConfigDbSize(k, n)
  \/ \E a \in AtomIds, skipped \in BOOLEAN : NoteAtomLogged(a, skipped)
  \/ \E a \in AtomIds, skipped \in BOOLEAN : NoteEventQueueOverflow(a, skipped)
  \/ \E d \in Deltas : NoteUidMapDropped(d)
  \/ \E n \in BatchSizes :
       \E ac \in IF n >= LargeBatchThreshold THEN AtomCounts ELSE {<<>>} :
         NoteBatchSocketRead(n, ac)
  \/ \E id \in SubIds : SubscriberStarts(id)
  \/ \E id \in st.gActive : NoteSubscriptionEnded(id)
  \/ \E id \in DOMAIN st.subs : NoteSubscriptionFlushed(id)
  \/ Reset
  \/ Done

Spec == Init /\ [][Next]_vars

-----------------------------------------------------------------------------
(* Properties.                                                             *)

ConfigRecs == [rid : Nat, valid : BOOLEAN, deletion : Nat, resetT : Nat,
               bcast : Seq(Nat), dropT : Seq(Nat), dropB : Seq(DropSizes),
               cnt : [ConfigCounters -> Nat], lists : [ConfigLists -> Seq(Nat)],
               dimMax : Nat, devFail : BOOLEAN,
               dbT : Seq(Nat), dbS : Seq(DbSizes),
               gIdStats : [IdStats -> [MetricIds -> Nat]],
               gRms : [MetricIds -> [err : [RestrictedErrors -> Nat], lat : Seq(Nat)]],
               gDb : Seq(Nat \X DbSizes),
               gBcast : Seq(Nat), gDrop : Seq(Nat \X DropSizes),
               gCnt : [ConfigCounters -> Nat], gLists : [ConfigLists -> Seq(Nat)],
               gDims : SUBSET DimSizes]

\* f maps some of the ids D into R.
IsPartialMap(f, D, R) == DOMAIN f \subseteq D /\ Range(f) \subseteq R

ConfigRecOK(c) ==
  /\ Restrict(c, DOMAIN c \ {"idStats", "rms"}) \in ConfigRecs
  /\ \A x \in IdStats : IsPartialMap(c.idStats[x], MetricIds, Nat)
  /\ IsPartialMap(c.rms, MetricIds, [err : [RestrictedErrors -> Nat], lat : Seq(Nat)])

TypeOK ==
  /\ now \in 1 .. MaxSteps
  /\ \A k \in Keys : st.configs[k] # NoConfig => ConfigRecOK(st.configs[k])
  /\ Len(st.iceBox) <= IceBoxCap
  /\ Cardinality(DOMAIN st.nonPlatform) <= NonPlatformCap
  /\ Cardinality(DOMAIN st.drops) <= DropTableCap
  /\ st.histogram \in [0 .. NumBins - 1 -> Nat]
  /\ Len(st.large) <= LargeBatchCap
  /\ DOMAIN st.subs \subseteq SubIds

Rids(q) == [i \in 1 .. Len(q) |-> q[i].rid]

\* addToIceBoxLocked / noteConfigRemovedInternalLocked: the ice box holds
\* exactly the newest IceBoxCap configs removed or rejected since the last
\* reset, oldest first.
IceBoxHoldsNewestDeleted == Rids(st.iceBox) = NewestN(st.gDeleted, IceBoxCap)

\* noteConfigReceived with an existing key: every config received since the
\* last reset (or live at it) is live under exactly one key, or has been
\* handed to the ice box; no two keys share a config record.
NoConfigLost ==
  \A r \in st.gReceived :
    Cardinality({k \in Keys : st.configs[k] # NoConfig /\ st.configs[k].rid = r})
      + Cardinality({i \in DOMAIN st.gDeleted : st.gDeleted[i] = r}) = 1

\* The list of first (i = 1) or second (i = 2) components of pairs q.
Column(q, i) == [j \in DOMAIN q |-> q[j][i]]

\* noteBroadcastSent / noteDataDropped / noteRestrictedConfigDbSize: each
\* live config keeps the newest TsCap broadcast times, the newest TsCap
\* drops and the newest DbSizeCap database sizes, with the time and the
\* value of the same call at the same position of the paired lists.
TimestampListsHoldNewest ==
  \A k \in Keys : st.configs[k] # NoConfig =>
    LET c == st.configs[k]
        d == NewestN(c.gDrop, TsCap)
        b == NewestN(c.gDb, DbSizeCap)
    IN /\ c.bcast = NewestN(c.gBcast, TsCap)
       /\ c.dropT = Column(d, 1) /\ c.dropB = Column(d, 2)
       /\ c.dbT = Column(b, 1) /\ c.dbS = Column(b, 2)

\* The per-config counters and lists (the note* calls on a config key and
\* resetInternalLocked): a live config's counters count exactly the calls
\* on it since it was received or the store was last reset, each of its
\* lists holds the newest TsCap of those calls, and its dimension size
\* entry is the largest size noted since then (0 if none); its per-id maps
\* and restricted metric entries hold exactly the ids noted since then,
\* with their counts and newest latencies.
ConfigStatsSinceReset ==
  \A k \in Keys : st.configs[k] # NoConfig =>
    LET c == st.configs[k]
    IN /\ c.cnt = c.gCnt
       /\ \A l \in ConfigLists : c.lists[l] = NewestN(c.gLists[l], TsCap)
       /\ c.dimMax = IF c.gDims = {} THEN 0 ELSE Max(c.gDims)
       /\ \A x \in IdStats :
            c.idStats[x] = [i \in {j \in MetricIds : c.gIdStats[x][j] > 0} |-> c.gIdStats[x][i]]
       /\ \A i \in MetricIds :
            IF i \in DOMAIN c.rms
            THEN c.rms[i] = [err |-> c.gRms[i].err, lat |-> NewestN(c.gRms[i].lat, LatencyCap)]
            ELSE c.gRms[i] = NoRms

\* noteAtomLoggedLocked / noteAtomDroppedLocked with their caps: an atom that
\* has a table entry has counted every log (and skip) and every drop since
\* the last reset, and an atom logged or dropped without an entry found its
\* table full.
AtomStatsFaithful ==
  \A a \in AtomIds :
    /\ IsPlatformAtom(a) => st.pushed[a] = st.gLogged[a]
    /\ ~IsPlatformAtom(a) =>
         IF a \in DOMAIN st.nonPlatform THEN st.nonPlatform[a] = st.gLogged[a]
         ELSE st.gLogged[a].log > 0 => Cardinality(DOMAIN st.nonPlatform) = NonPlatformCap
    /\ IF a \in DOMAIN st.drops THEN st.drops[a] = st.gDropped[a]
       ELSE st.gDropped[a] > 0 => Cardinality(DOMAIN st.drops) = DropTableCap

\* dumpStats with resetInternalLocked: every atom_stats row of a dump counts
\* exactly the logs and skips of its atom since the last reset dump (so no
\* log is reported by two reset dumps) and is written only for an atom
\* logged since then; its drops fall short of the drops noted only when the
\* drop table was full.  An atom logged or dropped since the last reset has
\* no row only when it is a reserved id (0 or 1) or found the non-platform
\* table full, and then its drops are in no report.
DumpAtomStatsSinceReset ==
  LET rows == DumpAtomStats(st)
      tags == {r.tag : r \in rows}
  IN /\ \A r \in rows :
          /\ r.count = st.gLogged[r.tag].log /\ r.count > 0
          /\ r.skip = st.gLogged[r.tag].skip
          /\ \/ r.drops = st.gDropped[r.tag]
             \/ r.drops = 0 /\ Cardinality(DOMAIN st.drops) = DropTableCap
     /\ Cardinality(tags) = Cardinality(rows)
     /\ \A a \in AtomIds \ tags :
          st.gLogged[a].log + st.gDropped[a] > 0 =>
            \/ a \in {0, 1}
            \/ ~IsPlatformAtom(a) /\ Cardinality(DOMAIN st.nonPlatform) = NonPlatformCap

\* The bins as spec.md 4.E describes them: singletons 0..4, 5-9, decades to
\* 99, hundreds to 999, pairs of hundreds to 1999, and 2000+.
BinEdges == <<0, 1, 2, 3, 4>> \o <<5>> \o [i \in 1 .. 9 |-> 10 * i]
              \o [i \in 1 .. 9 |-> 100 * i] \o [i \in 1 .. 5 |-> 800 + 200 * i]
              \o <<2000>>
RefBin(n) == IF n < 0 THEN 0
             ELSE (CHOOSE i \in DOMAIN BinEdges :
                     BinEdges[i] <= n /\ (i = Len(BinEdges) \/ n < BinEdges[i + 1])) - 1

\* The batch sizes the reference puts in each bin.
SizesInBin == [b \in 0 .. NumBins - 1 |-> {n \in BatchSizes : RefBin(n) = b}]

\* noteBatchSocketRead: every batch read since the last reset is counted in
\* the bin the spec gives its size, and in no other.
HistogramMatchesReads ==
  \A b \in 0 .. NumBins - 1 : st.histogram[b] = SumFunctionOnSet(st.gReads, SizesInBin[b])

\* noteBatchSocketRead and reset: mLargeBatchSocketReadStats holds the
\* newest LargeBatchCap reads of at least LargeBatchThreshold atoms since
\* the last reset, oldest first, each with the counts of exactly the atoms
\* read at least LargeAtomThreshold times.
LargeBatchReadsRecorded ==
  LET q == NewestN(st.gLarge, LargeBatchCap)
  IN st.large = [i \in DOMAIN q |->
                   [size |-> q[i][1],
                    counts |-> RestrictDomain(q[i][2], LAMBDA a : q[i][2][a] >= LargeAtomThreshold)]]

\* noteSubscriptionStarted/Ended and reset: while ShellSubscriber keeps at
\* most MaxSubscriptions subscriptions active, every active one is tracked
\* and not marked ended, whatever eviction and reset removed.
ActiveSubscriptionsTracked ==
  \A id \in st.gActive : id \in DOMAIN st.subs /\ st.subs[id].end = 0

\* dumpStats: each counter the report carries holds the calls it counts: the
\* uid map's dropped_changes the deltas noted by noteUidMapDropped (the
\* uid map stats are never reset), and each database field of a live
\* config (FIELD_ID_DB_DELETION_STAT_FAILED and the others) the calls of its
\* own note function since the config was received or the store was reset.
DumpReportsNotedCounts ==
  LET r == DumpStats(st)
  IN /\ r.uidDroppedChanges = st.gUidDeltas
     /\ \A k \in DOMAIN r.live : r.live[k].cnt = st.configs[k].gCnt

=============================================================================
