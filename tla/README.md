# TLA+ models of statsd

These are TLA+ models of the core of the statsd metrics daemon and of its producer-side socket library. The sources are under `src/`. Each module is written from the code and checked with TLC. `PROJECT.json` holds:
- the machine-readable inventory (components, runs, mutants, findings, hazards);
- the map from every model definition to the lines of code it translates.

## The system and its parts

| Part | Source | Role |
|---|---|---|
| Socket writer | `src/lib/libstatssocket/stats_buffer_writer.c`, `statsd_writer.h` | Sends an encoded atom to the daemon's datagram socket. Opens the transport lazily under an init lock. Reports every failed send as a drop. |
| Producer-side queue | not in `src/` (spec.md 4.C) | Used in the system process only. A bounded FIFO in front of the socket writer, drained by one worker thread. |
| Loss tracker | not in `src/` (spec.md 4.D) | Counts `note_log_drop` calls per atom and error. |
| Numeric value metric producer | `src/statsd/src/metrics/NumericValueMetricProducer.cpp` | Aggregates numeric fields of pushed or pulled atoms per dimension and bucket. Pulled counters are diffed against a per-dimension base. |
| Value metric base class | not in `src/` (spec.md 4.F) | The bucket lifecycle that the numeric producer overrides hooks of. |
| Stats store | `src/statsd/src/guardrail/StatsdStats.cpp` | A mutex-guarded store of health counters, bounded lists and histograms. |
| Atom encoding API | `src/lib/libstatssocket/include/stats_event.h` | The API a client uses to encode one atom into a buffer (`AStatsEvent_*`). Declarations only: the encoder is not in `src/`. |

How the parts interact:
- A client thread encodes an atom with the `AStatsEvent_*` calls, and `AStatsEvent_write` calls `write_buffer_to_statsd`.
- In the system process, some atoms go through the queue, and its worker calls `write_buffer_to_statsd_impl`. Every other atom is written synchronously.
- A failed send, or a full queue, becomes a `note_log_drop` call.
- In the daemon, a matched pushed event, or the result of a scheduled pull, reaches a metric producer under the producer's mutex. Condition changes, activation changes and bucket flushes reach it under the same mutex.
- The producer reports its health to the stats store through its `note*` calls.

## Modules

### `NumericValueMetric` (numeric value metric producer)

The whole producer state is one record `m`:

| Field | Code |
|---|---|
| `condition`, `active` | `mCondition`, `mIsActive` |
| `bucketNum` | `mCurrentBucketNum` |
| `skipped`, `reasons` | `mCurrentBucketIsSkipped` and the drop reasons |
| `base` | `mDimInfos[...].dimExtras` |
| `hasGlobalBase` | `mHasGlobalBase` |
| `keys`, `iv` | `mCurrentSlicedBucket` and its intervals |
| `closed` | the past and skipped buckets; each closed record's `past` is what `appendToFullBucket` hands the anomaly tracker, and `fullClose` the `isFullBucketReached` argument it got |
| `full` | `mCurrentFullBucket`, the first-field sums of the partial buckets kept for the current full bucket |
| `detected` | the calls of `detectAndDeclareAnomaly` made by `aggregateFields` |

Each handler of the code is an operator from one such record to the next. A handler's call chain composes these operators. For example, `onDataPulled` → `accumulateEvents` → `onMatchedLogEventLocked` → `aggregateFields`, followed by `flushIfNeededLocked`, is one atomic step, as it is under `mMutex`.

The environment of a pulled metric is a per-dimension source counter that grows by one or restarts from zero.

The actions are:
- `PrepareFirstBucketStep`;
- `DataPulled`, whose input is a pull outcome: failed, or a subset of the dimensions, possibly delayed;
- `PushedEvent`;
- `ConditionChanged`;
- `ActiveStateChanged`;
- `SourceGrow` and `SourceReset`.

With `use_zero_default_base` the source omits from a pull only the keys whose counter is 0 (`AbsentKeysAreZero`), which is what the option declares about the atom.

`aggregateFields` ends with the anomaly hook: when `useAnomalyDetection` holds (no value field was reseeded or dropped) and `multipleBucketsSkipped(calcBucketsForwardCount(t))` does not, the dimension's running aggregate goes to the tracker (`detected`). The value handed to the tracker is the running aggregate plus the dimension's entry in `mCurrentFullBucket`. At the close of a bucket, `closeCurrentBucket` calls `appendToFullBucket(eventTimeNs > getCurrentBucketEndTimeNs())` with the end of the bucket being closed (line 563). A close after that end reaches the full bucket: the tracker gets each dimension's aggregate, or the sums of `mCurrentFullBucket` with this bucket added (under `hitFullBucketGuardRailLocked`), and the map is cleared. A close at exactly the end is a partial bucket: its values are only added to `mCurrentFullBucket`. A skipped bucket hands nothing and, when it reaches the full bucket, clears the map.

The base class keeps every key's bases across a bucket roll-over (spec.md 4.F, `init_next_sliced_bucket`); only a base reset, a key missing from a pull, or a guardrail hit clears them.

A pull's events are fed to the producer in every order, because `SetToSeqs` enumerates the orders of the unordered map.

Ghost fields record, per closed bucket, the samples accepted and whether data was lost. The ghost variables `grown` and `srcReset` record the growth the source made while the metric counted it.

The parts of `ValueMetricProducer` that the override calls back into are modelled from spec.md 4.F and marked `spec_modelled` in the map:
- bucket flush, close and roll-over;
- the matched-event entry;
- the guardrail.

### `BucketContract` (what the producer promises about its buckets)

`BucketContract` is the abstract bucket lifecycle of spec.md 4.F. Its state is the log of reported buckets, the open bucket number and the latest time seen. It has two actions:
- `Advance`: time moves forward (or an event stamped in the past arrives) and no bucket closes.
- `Close`: only once time has reached the open bucket's end, that bucket is appended to the log, which is never rewritten, and the bucket containing the current time opens. A close that jumps over buckets reports the closed one as skipped, and a skipped bucket has no rows.

`NumericValueMetric` instantiates it as `Contract` with the refinement mapping:
- `buckets` ↦ `m.closed` without its ghost fields;
- `current` ↦ `m.bucketNum`;
- `now` ↦ `clock`.

`ContractSpec` (`Contract!Spec`) is a property of the run `nvm_pulled`. Every handler of the producer must therefore be a `Close` or an `Advance` step.

### `StatsBufferWriter` and `WriterContract` (socket writer)

Processes:
- client threads (`Writers`);
- the queue `Worker`.

Shared state:
- `fp`, the function pointer `__write_to_statsd`: `"init"` or `"daemon"`;
- `initLock`;
- `sock`, the transport;
- `queue`.

Each thread has a `pc`. There is one action per step between the points where another thread can observe or interfere:
- the unlocked pointer read (line 90, and line 154 again);
- taking the init lock;
- the double-checked lazy open (lines 141-150);
- the unlock;
- the daemon write with its drop note;
- the three steps of `stats_log_close`.

The transport, the queue and the loss tracker are modelled from spec.md:
- `open()` may fail;
- `write()` fails on a closed socket and may fail with EAGAIN on an open one.

`WriterContract` is the abstract specification of the layer. Every atom is either rejected at once, or pending until it is delivered or dropped, exactly once. `StatsBufferWriter` is shown to implement it through a refinement mapping from the delivery and drop counts (`ContractSpec`).

### `StatsdStats` (stats store)

Every entry point of `StatsdStats` takes the single `mLock` for its whole body, so each `note*` call is one atomic action on the store record `st`. The per-config `note*` calls (the counters `noteDbCorrupted` to `noteConfigMetadataProviderPromotionFailed`, the time list of `noteActiveStatusChanged`, `noteConditionDimensionSize` and its metric variants, `noteDeviceInfoTableCreationFailed`) are the actions `NoteConfigCounter`, `NoteConfigList`, `NoteConditionDimensionSize` and `NoteDeviceInfoTableCreationFailed`. The per-id maps `matcher_stats` and `alert_stats` are `NoteIdStat`. The restricted-metric error counters and capped flush-latency list are `NoteRestrictedMetricError` and `NoteRestrictedMetricFlushLatency`. The paired restricted db size lists are `NoteRestrictedConfigDbSize`. Each does nothing for a key with no live config. The `*Locked` helpers (`addToIceBoxLocked`, `noteConfigRemovedInternalLocked`, `noteAtomLoggedLocked`, `noteAtomDroppedLocked`, `resetInternalLocked`) are operators composed inside the action that calls them.

| Field | Code |
|---|---|
| `configs` | `mConfigStats` (per key: creation time as `rid`, validity, deletion and reset times, `broadcast_sent_time_sec`, `data_drop_time_sec`, `data_drop_bytes`) |
| `iceBox` | `mIceBox` |
| `pushed`, `nonPlatform`, `drops` | `mPushedAtomStats`, `mNonPlatformPushedAtomStats`, `mPushedAtomDropsStats` |
| `overflow`, `uidDropped` | `mOverflowCount`, `mUidMapStats.dropped_changes` |
| `histogram` | `mSocketBatchReadHistogram` |
| `large` | `mLargeBatchSocketReadStats` (size and filtered atom counts; the read times are left out) |
| `subs` | `mSubscriptionStats` (end time and flush count) |

The clock `now` advances by one per call, so every noted time is distinct and a config record is identified by its creation time. Ghost fields (prefixed `g`) record what the callers did since the last reset: configs received and deleted in order, every broadcast and drop per config, per-atom totals, every batch size read, the uid deltas noted, and the subscriptions `ShellSubscriber` has active. `ShellSubscriber` is not under `src/`; the model lets it start a subscription with a new id only while fewer than `MaxSubscriptions` are active, as the comment at StatsdStats.cpp:1031-1035 says it does.

`Reset` empties every list and map of a live config but keeps `device_info_table_creation_failed`, as `resetInternalLocked` does. It models both `reset()` and the reset at the end of `dumpStats(output, true)`.

The report of `dumpStats(output, reset)` is the operator `DumpStats(st)`. The report is taken under `mLock`, so a dump without reset changes nothing, and a dump with reset is the report followed by the `Reset` step. The proto encoding is left out; a field that `writeNonZeroStatToStream` omits reads as 0. The report holds:
- the configs, ice box first (`AddConfigStatsToProto`), with each database counter field written from the counter `DbFieldCounter` names;
- the atom rows (`DumpAtomStats`): platform slots from id 2 on with a nonzero log count, then every non-platform entry, each with the drops `getPushedAtomDropsLocked` finds;
- the uid map's `dropped_changes`.

The other report sections copy a field of the store as it is and are left out.

### `StatsdPullStats` and `StatsdLossStats` (the rest of the stats store)

These two modules model further fields of the same `StatsdStats` object. No entry point touches fields of more than one of the three modules, except `resetInternalLocked`, whose part for each module's fields is that module's reset action.

`StatsdPullStats`:
- `pulls` is `mPulledAtomStats`. The plain counters of a puller are one function from counter name to count. The running average, maximum and count of pull times and pull delays are kept as the code computes them, in integer division.
- `metrics` is `mAtomMetricStats`, created on first use by `getAtomMetricStats`.
- `errors` is `mPushedAtomErrorStats`, with its cap.
- `ResetPullStatsLocked` clears exactly the fields listed at StatsdStats.cpp:1146-1171.

`StatsdLossStats` covers the store-wide bounded histories:
- `mLogLossStats`;
- `mSocketLossStats` and `mSocketLossStatsOverflowCounters`;
- `mSystemServerRestartSec`;
- `mRestrictedMetricQueryStats`;
- `mActivationBroadcastGuardrailStats`;
- the largest event queue size observed;
- the alarm counters `mAnomalyAlarmRegisteredStats` and `mPeriodicAlarmRegisteredStats` (`NoteStoreCounter`), which reset zeroes;
- the `mUidMapStats` fields set or incremented by the uid map (`NoteUidMapAppDeletionDropped`, `SetUidMapStat`), which no reset touches.

## Runs

| Run | What it checks |
|---|---|
| `nvm_pulled` | A pulled, diffed SUM metric over 2 dimensions with hard limit 2. `DiffIsTrueGrowth`: every diff equals the growth the source made while the metric counted it, and only a restart may make it smaller. `IncompleteBucketNeverReported`: a bucket that lost a pull (failed, delayed, late, or over the guardrail) is never reported. Bucket size 2, so that a close can come at exactly a bucket end or after it. `AnomalyChecksWholeBucket`: the anomaly tracker only sees a dimension's value after every field has a diff, and unless the bucket is skipped the value equals the bucket's aggregate so far plus the totals of the earlier unskipped partial buckets of the same full bucket. `TrackerGetsFullBuckets`: a partial close hands the tracker nothing, and a full unskipped close hands it, per dimension, the total of this bucket and the partial buckets kept since the last full close, so each sample of an unskipped bucket reaches the tracker once. `ContractSpec`: the producer refines `BucketContract`. |
| `nvm_pushed` | A pushed AVG/MIN metric with 2 fields and a `gt_int` threshold of 1. `ReportMatchesSamples`: every reported row is the reference aggregate of the samples the bucket accepted, gated by the first field. |
| `nvm_boundary_close` (violation) | The pulled run checking `TrackerSeesClosedBuckets`, spec.md 4.F's statement that closing a bucket hands the tracker that bucket's values. A pull at t = 2, exactly the end of bucket 0, closes it as a partial bucket and the tracker gets nothing for it (see Findings). |
| `nvm_lt_float` (violation) | The same metric with `lt_float: 1.0`. A bucket averaging exactly 1.0 is reported (see Findings). |
| `nvm_zero_base_inactive` (violation) | The pulled run with `use_zero_default_base`, checking `DiffIsTrueGrowth`. A pull reaching the inactive metric sets the global base without seeding any key; after activation the next pull reports the whole cumulative counter as one diff (see Findings). |
| `writer` | Two client threads, the worker, a 1-slot queue, 3 atoms and one racing `stats_log_close`. Checks `ExactlyOnceAccounting`, `ClosedSocketOnlyAfterRace`, `DaemonOnlyWhenOpen`, `EveryCallReturns` (liveness) and the refinement `ContractSpec`. |
| `stats_configs` | Two keys, ice box and timestamp lists of 2, one counter, one list, dimension sizes {1, 2}, one matcher id, one restricted metric with one error kind, and latency and db size lists of 1, 7 calls. `IceBoxHoldsNewestDeleted`: the ice box is exactly the newest removed or rejected configs since reset, oldest first. `NoConfigLost`: every config received since reset is live under one key or was handed to the ice box, exactly once. `TimestampListsHoldNewest`: each live config keeps its newest broadcast times, its drop times and drop sizes stay paired, and so do its db size times and sizes. `ConfigStatsSinceReset`: a live config's counters, lists, dimension maximum, per-id maps and restricted-metric stats cover exactly the calls made since its receipt or the last reset. |
| `stats_counters` | Atoms -1, 2 (platform), 5 and 6 against one non-platform slot and a drop table of 3, subscriptions 1-3 in two slots, and batch reads of sizes on both sides of each bin formula change, 5 calls. `AtomStatsFaithful`: a tracked atom's entry equals its total since reset, and an active untracked atom found its table full. `ActiveSubscriptionsTracked`: eviction and reset never drop an active subscription. `HistogramMatchesReads`: the bins equal the per-size read counts binned by a reference bin function built from spec.md 4.E's edges. `LargeBatchReadsRecorded`: the large-batch list is the newest read of at least the threshold (2000 here, so 1999 is just below it) since reset, keeping exactly the atoms counted at least twice. `DumpAtomStatsSinceReset`: each atom row of the report counts exactly the logs and skips since the last reset dump, so no log is reported twice. An atom logged since then has no row only when the non-platform table was full, and a row's drops fall short only when the drop table was full. |
| `stats_dump` (violation) | `DumpReportsNotedCounts`: the report's uid map `dropped_changes` is the sum of the deltas noted, and each database field of a live config counts the calls of its own note function. One config key, `noteDbStatFailed` and `noteUidMapDropped(1)`, 4 calls. TLC's counterexample is a stat failure reported as 0. Without config keys the same run shows two uid map drops of 1 reported as 3 (see Findings). |
| `pull_stats` | One puller, one metric, two pushed atoms in a one-slot error table, 6 calls. `PullStatsSinceReset`: each puller counter is the number of calls since reset, the timeout list the newest timeouts, and the minimum interval the least one reported. `PullDurationBounded`: the truncated running average stays between the least sample and the true mean. `MetricAndErrorStatsSinceReset`: metric counters and the capped error table count every call since reset. |
| `pull_stats_empty_data` (violation) | `PullStatsSinceReset` with `noteEmptyData` calls: `emptyData` survives a reset (see Findings). |
| `loss_stats` | Two uids in a one-slot overflow map, lists of two, one alarm counter and one uid map setting, 7 calls. `HistoriesHoldNewest`: every bounded history holds exactly the newest records since reset. `SocketLossOverflowFaithful`: a uid's overflow entry is the sum of its reports. `QueueMaxIsFirstLargest`: the queue maximum carries the time it was first reached. |

Every property of a passing run has a mutant in `PROJECT.json`. A mutant is a plausible bug in the mapped code, and TLC must find the property violated with it:
- a missing base reset;
- a flush whose early return tests the bucket start instead of its end;
- a missing invalidation on a failed pull;
- MIN/MAX swapped;
- a seeded base that does not switch off anomaly detection;
- the partial buckets left out of the anomaly check;
- a full bucket handed to the tracker without this bucket's values;
- an off-by-one in the flush or queue capacity;
- a missing drop note;
- a lock kept on the error path;
- the pointer switched before the open succeeded;
- a close that does not reset the pointer;
- a retry after a noted drop;
- an ice box that pops the wrong end or not at all;
- a replaced config not iceboxed;
- only one of the paired drop lists popped;
- a cap check without its `|| find` clause, or no cap;
- a subscription eviction that ignores the end time;
- a wrong bin divisor;
- only the timestamp list of the db size pair popped;
- atoms counted exactly at the large-batch threshold filtered out;
- a dimension size overwritten instead of kept at its maximum;
- the sample count bumped before the running average is taken;
- a reset that keeps the pull timeout list;
- an overflow counter overwritten instead of accumulated;
- a queue maximum restamped on an equal size;
- a list popped one entry late, or at the wrong end;
- the dump's platform atom loop starting one id late.

### Bounds and why they suffice

Producer runs:
- Time moves back by 1 or forward by up to 2 per step. The pushed runs have bucket size 1: late events, events in the current bucket, a roll-over by one bucket and a skip of several buckets are all reachable. The pulled runs have bucket size 2 and time up to 5, so a bucket can also be closed at exactly its end (a partial bucket) or after it without a skip (a full bucket), and a full bucket can follow partial ones.
- The soft and hard limits equal the number of keys in the pulled run, so the full-bucket guardrail never refuses a key there; `TrackerGetsFullBuckets` is stated under that bound.
- There are two dimensions. With hard limit 2 the guardrail trips; with hard limit 1 in the pushed run a second key is dropped.
- The event budget (`MaxEvents`, a state constraint, not a deadlock) is 5 steps for the pulled run and 4 for the pushed run. That is enough for:
  - prepare, grow, condition change, grow, pull (the base-reset mutant needs exactly this);
  - two samples and a flush (the threshold boundary).

Writer run:
- 3 atoms and a 1-slot queue reach both an enqueue and an overflow.
- Two client threads race the lazy init.
- One close interleaves with every step of a write.

Stats store runs:
- Caps of 2 (ice box, timestamp lists) overflow after three removals or three broadcasts, which 8 calls reach together with a replacement and a reset.
- One non-platform slot makes the second distinct non-platform atom hit the cap and the first keep counting. With `kMaxPushedAtomId` 2 the drop table has 3 slots, so four atoms fill it within the 5 calls of the counters run. The platform atom 2 is the first id the dump reports.
- After the logged table is full, an overflow of a third non-platform atom still gets a drop entry. The dump then has no row to report that drop in (the hazard at StatsdStats.cpp:1876).
- Two subscription slots with three ids reach a full table with one ended entry, one active entry and a new start.

### Fairness

- Producer: no fairness. Its properties are safety properties.
- Stats store: no fairness; its properties are safety properties. The clock bound ends each behaviour, and `Done` then stutters.
- Writer: weak fairness for each thread's steps and for the worker's dequeue. These are OS threads: a runnable thread is eventually scheduled, and each lock holder releases the lock within finitely many of its own steps. When every call has returned, `Done` lets the system stop, so deadlock checking stays on.

## Findings

1. `valuePassesThreshold` (NumericValueMetricProducer.cpp:696-699) compares `lt_float` with `<=` and `gt_float` with `>=`. A value equal to the threshold passes. The field names, and the int variants beside `lte_int`/`gte_int`, say the comparison is strict. Run `nvm_lt_float`.
2. `noteUidMapDropped` (StatsdStats.cpp:603) does `dropped_changes += dropped_changes + deltas`. Every call doubles the counter before adding the deltas, so the reported number of dropped uid map changes is not their sum. Run `stats_dump`, with its config keys removed.
3. `addConfigStatsToProto` (StatsdStats.cpp:1810-1811) writes the `FIELD_ID_DB_DELETION_STAT_FAILED` field from `db_deletion_size_exceeded_limit`. The count of `noteDbStatFailed` calls (`db_deletion_stat_failed`, line 548) never reaches the report, and the size-exceeded count is reported twice. The text dump (line 1263-1268) prints `db_stat_failed` from the right counter. Run `stats_dump`.
4. `resetInternalLocked` (StatsdStats.cpp:1146-1167) zeroes every `PulledAtomStats` counter in its list except `emptyData`, which `noteEmptyData` (line 803) increments. After `dumpStats(reset=true)`, the previous period's empty-data count is reported again. spec.md 4.E says a reset dump resets the historical counters. Run `pull_stats_empty_data`.
5. `accumulateEvents` (NumericValueMetricProducer.cpp:342) sets `mHasGlobalBase = true` after every successful pull with a true condition, also when the metric is inactive. In that case the base class drops every matched event, so no base is seeded. With `use_zero_default_base`, after activation `aggregateFields` (line 432) takes zero as the base of every key and reports its whole cumulative value, including the growth made while inactive. The comment at line 433 says zero is for a key that is new since the global base. This only bites if scheduled pulls reach an inactive metric, which the base class (not under `src/`) decides; spec.md 4.F does not gate them on activation. Run `nvm_zero_base_inactive`.

6. `closeCurrentBucket` (NumericValueMetricProducer.cpp:563) calls `appendToFullBucket(eventTimeNs > getCurrentBucketEndTimeNs())`, and the end is still the end of the bucket being closed. A flush at exactly that end is therefore a partial bucket: its values only go into `mCurrentFullBucket`, the tracker gets no past bucket for it, and the next full bucket hands over and checks the sum of both. A bucket `[start, end)` is complete at its end, and an on-time scheduled pull flushes at exactly the boundary (`originalPullTimeNs`, line 228). spec.md 4.F says closing a bucket runs the tracker hook for it. Run `nvm_boundary_close`.

## Not modelled (yet) and why

Numeric producer:
- the partial buckets that the base class splits off on app upgrade or boot completion (neither under `src/` nor in spec.md); the partial buckets of a close at exactly the bucket end are modelled;
- `combineValueFields` (the model's pulls hold one event per dimension);
- double values;
- state slicing and condition timers;
- proto output and byte-size estimates (formatting).

Stats store:
- the metric annotations, and the per-config counts set at receipt (they are numbers copied from the config);
- the bucket boundary delays, whose initial values are declared in `StatsdStats.h`, which is not under `src/`;
- `noteRestrictedConfigFlushLatency`, a capped list of the shape already modelled for metrics;
- the text dump `dumpStats(int)`, and (beyond the configs, atom rows and uid map stats of `DumpStats`) the sections of the proto report that copy a store field as it is (histogram, large batches, subscriptions, pull and loss stats); the report's error count per atom row, kept by `StatsdPullStats`.

Each of these is a counter, a capped list of the shapes already modelled, or a copy of one.

Atom encoding API: `stats_event.h` only declares the `AStatsEvent_*` calls. The encoder that fills the buffer and sets the error bits is not under `src/`, so a model of it would only check the reading of spec.md 4.A against itself.

Socket writer: `__write_to_statsd_initialize_locked` (stats_buffer_writer.c:126-132) returns 1 when `open()` fails and the transport's `close` is NULL. The writer then switches to the daemon pointer and never retries the open. The transport of spec.md 4.B always has a `close`, so the model does not include a NULL one and no run shows this.

Socket utilities (`utils.h`) declare a clock read and an errno mapping; they have no state. The test utilities build configs and events for unit tests.

## Plan

Modules in order of importance. Each composes with the ones before it only through the calls listed above.

1. `NumericValueMetric` (done, including `use_zero_default_base`). Next: DECREASING/ANY directions, which need a source that moves the other way. The anomaly hook and the full-bucket hand-off are done.
2. `StatsBufferWriter` with `WriterContract` (done).
3. `StatsdStats` (done for configs, atom tables, histogram, subscriptions, reset, the uid map counter, the per-config counters, lists, dimension maxima, per-id maps, restricted-metric and db size stats, the large-batch list, and the report of `dumpStats` for configs, atoms and the uid map). Next: annotations.
4. An abstract bucket contract for the producer, refined by `NumericValueMetric` (done: `BucketContract`).
