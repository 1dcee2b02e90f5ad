------------------------- MODULE NumericValueMetric -------------------------
(***************************************************************************)
(* The NumericValueMetricProducer of statsd                                *)
(* (src/statsd/src/metrics/NumericValueMetricProducer.cpp) together with   *)
(* the parts of its base class ValueMetricProducer that it calls back      *)
(* into (bucket flush/close, matched-event entry, invalidation).  The base *)
(* class is not part of the sources and is modelled from spec.md 4.F.      *)
(*                                                                         *)
(* The whole producer state is one record m; every handler of the code is  *)
(* an operator from such a record to the next one, so that a handler that  *)
(* calls several others (onDataPulled -> accumulateEvents ->               *)
(* onMatchedLogEventLocked -> aggregateFields, then flushIfNeededLocked)   *)
(* is one atomic step, as it is under the producer's mMutex.               *)
(*                                                                         *)
(* Time is in abstract nanoseconds; the time base is 0, so bucket k is     *)
(* [k * BucketSize, (k + 1) * BucketSize).  Values are the i64 variant of  *)
(* NumericValue; Unset is the empty variant.                               *)
(***************************************************************************)
EXTENDS Integers, FiniteSets, Sequences, SequencesExt

CONSTANTS
  Dims,                    \* dimension_in_what keys (model values)
  NumFields,               \* number of value_field matchers
  AggType,                 \* [1..NumFields -> {"SUM","AVG","MIN","MAX"}]
  IsPulled,                \* the what-atom is pulled
  UseDiff,                 \* use_diff
  ValueDirection,          \* "INCREASING" | "DECREASING" | "ANY"
  UseAbsoluteValueOnReset, \* use_absolute_value_on_reset
  UseZeroDefaultBase,      \* use_zero_default_base
  SkipZeroDiffOutput,      \* skip_zero_diff_output
  Threshold,               \* NoThreshold or [kind |-> ..., v |-> Int]
  NoThreshold,
  HardLimit,               \* dimension hard limit
  SoftLimit,               \* dimension soft limit
  BucketSize,              \* bucket_size_ns
  Unset                    \* the unset NumericValue

Fields == 1 .. NumFields

ASSUME NumFields >= 1 /\ BucketSize >= 1 /\ HardLimit >= 1
ASSUME AggType \in [Fields -> {"SUM", "AVG", "MIN", "MAX"}]
ASSUME ValueDirection \in {"INCREASING", "DECREASING", "ANY"}

\* The drop reasons after which invalidateCurrentBucket also resets the
\* diff bases (NumericValueMetricProducer.cpp:102-113).
BaseResetReasons ==
  {"DUMP_REPORT_REQUESTED", "EVENT_IN_WRONG_BUCKET", "CONDITION_UNKNOWN",
   "PULL_FAILED", "PULL_DELAYED", "DIMENSION_GUARDRAIL_REACHED"}
DropReasons == BaseResetReasons \cup {"MULTIPLE_BUCKETS_SKIPPED"}

EmptyInterval == [agg |-> Unset, n |-> 0]
\* mCurrentFullBucket: the first-field sums of the partial buckets of the
\* current full bucket, per key (a key is present once it was added to).
EmptyFull == [d \in {} |-> 0]
\* mCurrentFullBucket[key] += v (an absent key starts at 0).
AddToFull(f, d, v) ==
  [x \in DOMAIN f \cup {d} |-> (IF x \in DOMAIN f THEN f[x] ELSE 0) + (IF x = d THEN v ELSE 0)]
NoBases == [f \in Fields |-> Unset]

-----------------------------------------------------------------------------
(* Bucket arithmetic.                                                      *)

BucketStart(s) == s.bucketNum * BucketSize
BucketEnd(s) == BucketStart(s) + BucketSize

\* calcPreviousBucketEndTime
CalcPreviousBucketEndTime(t) == (t \div BucketSize) * BucketSize

-----------------------------------------------------------------------------
(* Bases and invalidation.                                                 *)

\* resetBase: clear every dimension's diff bases and the global base flag.
ResetBase(s) ==
  [s EXCEPT !.base = [d \in Dims |-> NoBases], !.hasGlobalBase = FALSE]

\* invalidateCurrentBucket: the base class marks the bucket skipped with the
\* reason; the override resets the bases for the listed reasons.
InvalidateCurrentBucket(s, reason) ==
  LET s1 == [s EXCEPT !.skipped = TRUE, !.reasons = @ \cup {reason}]
  IN IF reason \in BaseResetReasons THEN ResetBase(s1) ELSE s1

-----------------------------------------------------------------------------
(* aggregateFields: one pass over the value fields of a matched event.     *)

Minimum(a, b) == IF a <= b THEN a ELSE b
Maximum(a, b) == IF a >= b THEN a ELSE b

\* The diff of value against base per value_direction; ok = FALSE is the
\* "unexpected decreasing/increasing value" branch.
ComputeDiff(value, base) ==
  CASE ValueDirection = "INCREASING" ->
         IF value >= base THEN [ok |-> TRUE, v |-> value - base]
         ELSE IF UseAbsoluteValueOnReset THEN [ok |-> TRUE, v |-> value]
         ELSE [ok |-> FALSE, v |-> 0]
    [] ValueDirection = "DECREASING" ->
         IF base >= value THEN [ok |-> TRUE, v |-> base - value]
         ELSE IF UseAbsoluteValueOnReset THEN [ok |-> TRUE, v |-> value]
         ELSE [ok |-> FALSE, v |-> 0]
    [] OTHER -> [ok |-> TRUE, v |-> value - base]

\* Mutant of Aggregate: MIN and MAX swapped.
AggregateMinMaxSwapped(i, agg, value) ==
  IF agg = Unset THEN value
  ELSE CASE AggType[i] \in {"SUM", "AVG"} -> agg + value
         [] AggType[i] = "MIN" -> Maximum(value, agg)
         [] AggType[i] = "MAX" -> Minimum(value, agg)

\* Fold one value into an interval with the field's aggregation type.
Aggregate(i, agg, value) ==
  IF agg = Unset THEN value
  ELSE CASE AggType[i] \in {"SUM", "AVG"} -> agg + value
         [] AggType[i] = "MIN" -> Minimum(value, agg)
         [] AggType[i] = "MAX" -> Maximum(value, agg)

\* Add value to interval i of dimension d (and to the ghost sample list).
AddToInterval(s, d, i, value) ==
  [s EXCEPT !.iv[d][i] = [agg |-> Aggregate(i, @.agg, value), n |-> @.n + 1],
            !.samples[d][i] = Append(@, value)]

\* Field i and the ones after it.  A field without a numeric value ends the
\* pass (noteBadValueType; the fields before it stay aggregated).  The
\* seenNewData result of the code changes no state the model keeps.
RECURSIVE AggregateFieldsFrom(_, _, _, _)
AggregateFieldsFrom(s, d, vals, i) ==
  IF i > NumFields \/ vals[i] = Unset THEN s
  ELSE
    LET value == vals[i]
        base  == s.base[d][i]
        Next(s1) == AggregateFieldsFrom(s1, d, vals, i + 1)
        Seed == [s EXCEPT !.base[d][i] = value]
    IN
    IF ~UseDiff THEN Next(AddToInterval(s, d, i, value))
    ELSE IF base = Unset /\ ~(s.hasGlobalBase /\ UseZeroDefaultBase)
      THEN Next(Seed)                        \* no base: seed it, no diff
    ELSE
      LET b    == IF base = Unset THEN 0 ELSE base
          diff == ComputeDiff(value, b)
      IN IF ~diff.ok THEN Next(Seed)         \* notePullDataError, reseed
         ELSE Next([AddToInterval(Seed, d, i, diff.v) EXCEPT
                     !.diffs = @ \cup {[dim |-> d, field |-> i, delta |-> diff.v]}])

\* calcBucketsForwardCount and multipleBucketsSkipped (base class).
CalcBucketsForwardCount(s, t) ==
  IF t < BucketEnd(s) THEN 0 ELSE 1 + (t - BucketEnd(s)) \div BucketSize
MultipleBucketsSkipped(n) == n > 1

\* Mutant of UseAnomalyDetection: a freshly seeded base does not disable
\* anomaly detection.
UseAnomalyDetectionSeedIgnored(s, d, vals) ==
  \A i \in Fields :
    /\ vals[i] # Unset
    /\ UseDiff /\ s.base[d][i] # Unset =>
         ComputeDiff(vals[i], s.base[d][i]).ok

\* useAnomalyDetection at the end of the field loop of aggregateFields: the
\* loop ran to the end (no field without a value returned early) and no
\* field had its base seeded or an unusable diff.  Each field has its own
\* base, so the pre-state decides it.
UseAnomalyDetection(s, d, vals) ==
  \A i \in Fields :
    /\ vals[i] # Unset
    /\ UseDiff =>
         LET base == s.base[d][i]
         IN /\ ~(base = Unset /\ ~(s.hasGlobalBase /\ UseZeroDefaultBase))
            /\ ComputeDiff(vals[i], IF base = Unset THEN 0 ELSE base).ok

\* Mutant of AggregateFields: the partial buckets kept in
\* mCurrentFullBucket are not added to the value checked.
AggregateFieldsNoPrev(s, d, vals, t) ==
  LET s1 == AggregateFieldsFrom([s EXCEPT !.read = @ \cup {d}], d, vals, 1)
      whole == IF s1.iv[d][1].agg = Unset THEN 0 ELSE s1.iv[d][1].agg
  IN IF UseAnomalyDetection(s, d, vals)
        /\ ~MultipleBucketsSkipped(CalcBucketsForwardCount(s, t))
     THEN [s1 EXCEPT !.detected = @ \cup {[dim |-> d, bucket |-> s1.bucketNum, val |-> whole]}]
     ELSE s1

\* aggregateFields: the field loop, then detectAndDeclareAnomaly when
\* detection is usable and the event did not skip buckets, with the first
\* interval's i64 view (0 when unset) plus the key's entry in
\* mCurrentFullBucket, if any.  The calls of the step are collected in
\* detected.
AggregateFields(s, d, vals, t) ==
  LET s1 == AggregateFieldsFrom([s EXCEPT !.read = @ \cup {d}], d, vals, 1)
      cur == IF s1.iv[d][1].agg = Unset THEN 0 ELSE s1.iv[d][1].agg
      whole == cur + (IF d \in DOMAIN s1.full THEN s1.full[d] ELSE 0)
  IN IF UseAnomalyDetection(s, d, vals)
        /\ ~MultipleBucketsSkipped(CalcBucketsForwardCount(s, t))
     THEN [s1 EXCEPT !.detected = @ \cup {[dim |-> d, bucket |-> s1.bucketNum, val |-> whole]}]
     ELSE s1

-----------------------------------------------------------------------------
(* Bucket close and roll-over.                                             *)

\* getFinalValue as an exact fraction num/den (den > 0): AVG is the double
\* sum / sampleSize, every other type the aggregate itself.
GetFinalValue(i, iv) ==
  IF AggType[i] = "AVG" THEN [num |-> iv.agg, den |-> iv.n]
  ELSE [num |-> iv.agg, den |-> 1]

\* valuePassesThreshold on the final value, compared exactly.
ValuePassesThreshold(i, iv) ==
  LET fv == GetFinalValue(i, iv)
      x  == fv.num
      t  == Threshold.v * fv.den
  IN IF Threshold = NoThreshold THEN TRUE
     ELSE CASE Threshold.kind = "lt_int"   -> x < t
            [] Threshold.kind = "gt_int"   -> x > t
            [] Threshold.kind = "lte_int"  -> x <= t
            [] Threshold.kind = "gte_int"  -> x >= t
            [] Threshold.kind = "lt_float" -> x <= t
            [] Threshold.kind = "gt_float" -> x >= t
            [] OTHER -> FALSE

\* The intervals of d that are written to its past bucket.
EmittedFields(s, d) ==
  {i \in Fields : /\ s.iv[d][i].agg # Unset
                  /\ ~(SkipZeroDiffOutput /\ UseDiff /\ s.iv[d][i].agg = 0)}

\* buildPartialBucket: the first value field gates the whole dimension.
BuildPartialBucket(s, d) ==
  LET first == s.iv[d][1]
      out   == IF first.agg # Unset /\ ~ValuePassesThreshold(1, first)
               THEN {} ELSE EmittedFields(s, d)
  IN [dim |-> d,
      vals |-> [i \in out |-> GetFinalValue(i, s.iv[d][i])],
      n |-> [i \in out |-> s.iv[d][i].n]]

\* The key's first interval has a value (interval.hasValue()).
HasValue(s, d) == s.iv[d][1].agg # Unset

\* hitFullBucketGuardRailLocked: a key not yet in mCurrentFullBucket is
\* refused once the map is above the soft limit and one more key would
\* pass the hard limit.
HitFullBucketGuardRail(f, d) ==
  /\ d \notin DOMAIN f
  /\ Cardinality(DOMAIN f) > SoftLimit - 1
  /\ Cardinality(DOMAIN f) + 1 > HardLimit

\* The loops of appendToFullBucket that add each key's first-interval
\* value to mCurrentFullBucket, in the map's iteration order (CHOOSE);
\* the full-bucket loop (guard) skips keys refused by the guardrail.
RECURSIVE AccumulateFull(_, _, _, _)
AccumulateFull(s, f, ks, guard) ==
  IF ks = {} THEN f
  ELSE LET d  == CHOOSE x \in ks : TRUE
           f1 == IF (guard /\ HitFullBucketGuardRail(f, d)) \/ ~HasValue(s, d)
                 THEN f ELSE AddToFull(f, d, s.iv[d][1].agg)
       IN AccumulateFull(s, f1, ks \ {d}, guard)

\* Mutant of AppendToFullBucket: with partial buckets kept, the full
\* bucket hands over mCurrentFullBucket without adding this bucket.
AppendToFullBucketDropsCurrent(s, isFull) ==
  IF s.skipped THEN [past |-> {}, full |-> IF isFull THEN EmptyFull ELSE s.full]
  ELSE IF ~isFull THEN [past |-> {}, full |-> AccumulateFull(s, s.full, s.keys, FALSE)]
  ELSE IF DOMAIN s.full # {}
    THEN [past |-> {[dim |-> d, val |-> s.full[d]] : d \in DOMAIN s.full}, full |-> EmptyFull]
  ELSE [past |-> {[dim |-> d, val |-> s.iv[d][1].agg] : d \in {x \in s.keys : HasValue(s, x)}},
        full |-> EmptyFull]

\* appendToFullBucket(isFullBucketReached): a skipped bucket reaches no
\* tracker and, when the full bucket is reached, clears mCurrentFullBucket;
\* a partial bucket is only added to mCurrentFullBucket; a full bucket
\* hands addPastBucket the sums of mCurrentFullBucket with this bucket
\* added, or, when no partial bucket was kept, this bucket's values, and
\* clears mCurrentFullBucket.  The result is the calls and the new map.
AppendToFullBucket(s, isFull) ==
  IF s.skipped THEN [past |-> {}, full |-> IF isFull THEN EmptyFull ELSE s.full]
  ELSE IF ~isFull THEN [past |-> {}, full |-> AccumulateFull(s, s.full, s.keys, FALSE)]
  ELSE IF DOMAIN s.full # {}
    THEN LET f == AccumulateFull(s, s.full, s.keys, TRUE)
         IN [past |-> {[dim |-> d, val |-> f[d]] : d \in DOMAIN f}, full |-> EmptyFull]
  ELSE [past |-> {[dim |-> d, val |-> s.iv[d][1].agg] : d \in {x \in s.keys : HasValue(s, x)}},
        full |-> EmptyFull]

\* closeCurrentBucket: the base class invalidates a bucket that skipped
\* forward more than one bucket and records the bucket, a skipped one with
\* its reasons and no data, otherwise with a row for every dimension with
\* an emitted interval; then the override calls
\* appendToFullBucket(eventTimeNs > getCurrentBucketEndTimeNs()), the end
\* of the bucket being closed.  The ghost fields samples, lost and
\* fullClose (the argument) go into the record.
CloseCurrentBucket(s, t, nextStart) ==
  LET s1 == IF (nextStart - BucketStart(s)) \div BucketSize > 1
            THEN InvalidateCurrentBucket(s, "MULTIPLE_BUCKETS_SKIPPED") ELSE s
      rows == {r \in {BuildPartialBucket(s1, d) : d \in s1.keys} : DOMAIN r.vals # {}}
      isFull == t > BucketEnd(s1)
      app == AppendToFullBucket(s1, isFull)
  IN [s1 EXCEPT !.full = app.full,
        !.closed = Append(@,
          [bucket |-> s1.bucketNum, skipped |-> s1.skipped, reasons |-> s1.reasons,
           rows |-> IF s1.skipped THEN {} ELSE rows, past |-> app.past,
           fullClose |-> isFull, samples |-> s1.samples, lost |-> s1.lost])]

\* initNextSlicedBucket: the base class clears the sliced bucket and starts
\* the next one, keeping every DimInfo so that the bases carry over to the
\* next bucket (spec.md 4.F); the override then clears
\* mCurrentBucketIsSkipped when diffing without a global base (mCondition
\* is an enum, so Unknown counts as true there).
InitNextSlicedBucket(s, nextStart) ==
  LET s1 == [s EXCEPT
               !.keys = {},
               !.iv = [d \in Dims |-> [i \in Fields |-> EmptyInterval]],
               !.samples = [d \in Dims |-> [i \in Fields |-> <<>>]],
               !.skipped = FALSE, !.reasons = {}, !.lost = FALSE,
               !.bucketNum = nextStart \div BucketSize]
  IN IF UseDiff /\ ~s1.hasGlobalBase /\ s1.condition # "False"
     THEN [s1 EXCEPT !.skipped = FALSE] ELSE s1

\* Mutant of FlushIfNeeded: the skipped buckets are counted from the
\* start of the current bucket instead of its end.
FlushIfNeededFromStart(s, t) ==
  IF t < BucketEnd(s) THEN s
  ELSE LET forward   == 1 + (t - BucketStart(s)) \div BucketSize
           nextStart == BucketStart(s) + forward * BucketSize
       IN InitNextSlicedBucket(CloseCurrentBucket(s, t, nextStart), nextStart)

\* Mutant of FlushIfNeeded: the early return tests the bucket start.
FlushIfNeededStartCheck(s, t) ==
  IF t < BucketStart(s) THEN s
  ELSE LET forward   == 1 + (t - BucketEnd(s)) \div BucketSize
           nextStart == BucketStart(s) + forward * BucketSize
       IN InitNextSlicedBucket(CloseCurrentBucket(s, t, nextStart), nextStart)

\* flushIfNeededLocked: close the current bucket when t is past its end and
\* start the bucket that contains t.
FlushIfNeeded(s, t) ==
  IF t < BucketEnd(s) THEN s
  ELSE LET forward   == 1 + (t - BucketEnd(s)) \div BucketSize
           nextStart == BucketStart(s) + forward * BucketSize
       IN InitNextSlicedBucket(CloseCurrentBucket(s, t, nextStart), nextStart)

-----------------------------------------------------------------------------
(* Matched events.                                                         *)

\* onMatchedLogEventLocked / onMatchedLogEventInternalLocked (base class):
\* inactive metrics ignore the event, a late event invalidates the bucket,
\* a pushed event first flushes, a false condition drops the event, a new
\* key beyond the hard limit is dropped (the ghost lost marks the dropped
\* pulled data), otherwise the key joins the sliced bucket and its fields
\* are aggregated.
OnMatchedLogEvent(s, d, vals, t) ==
  IF ~s.active THEN s
  ELSE IF t < BucketStart(s)
    THEN InvalidateCurrentBucket(s, "EVENT_IN_WRONG_BUCKET")
  ELSE
    LET s1 == IF IsPulled THEN s ELSE FlushIfNeeded(s, t)
    IN IF s1.condition # "True" THEN s1
       ELSE IF d \notin s1.keys /\ Cardinality(s1.keys) >= HardLimit
         THEN [s1 EXCEPT !.lost = @ \/ IsPulled]
       ELSE AggregateFields([s1 EXCEPT !.keys = @ \cup {d}], d, vals, t)

\* Feed the pulled events to onMatchedLogEventLocked in the given order.
RECURSIVE MatchAll(_, _, _, _)
MatchAll(s, data, order, t) ==
  IF order = <<>> THEN s
  ELSE MatchAll(OnMatchedLogEvent(s, Head(order), data[Head(order)], t),
                data, Tail(order), t)

\* accumulateEvents: data maps each pulled dimension to its field values
\* (one event per dimension, so combineValueFields has nothing to add);
\* order is the iteration order of the unordered map of events.
AccumulateEvents(s, data, order, eventT, delayed) ==
  IF eventT < BucketStart(s)
    THEN [InvalidateCurrentBucket(s, "EVENT_IN_WRONG_BUCKET") EXCEPT !.lost = TRUE]
  ELSE IF delayed
    THEN [InvalidateCurrentBucket(s, "PULL_DELAYED") EXCEPT !.lost = TRUE]
  ELSE
    LET s1 == MatchAll(s, data, order, eventT)
        matched == IF s.active THEN DOMAIN data ELSE {}
        missing == s1.keys \ matched
        s2 == [s1 EXCEPT
                 !.base = [d \in Dims |-> IF d \in missing THEN NoBases ELSE @[d]],
                 !.hasGlobalBase = TRUE]
    IN IF Cardinality(s2.keys) >= HardLimit
       THEN [InvalidateCurrentBucket(s2, "DIMENSION_GUARDRAIL_REACHED") EXCEPT
               !.keys = {},
               !.iv = [d \in Dims |-> [i \in Fields |-> EmptyInterval]],
               !.samples = [d \in Dims |-> [i \in Fields |-> <<>>]]]
       ELSE s2

\* pullAndMatchEventsLocked
PullAndMatchEvents(s, ok, data, order, t, delayed) ==
  IF ~ok THEN [InvalidateCurrentBucket(s, "PULL_FAILED") EXCEPT !.lost = TRUE]
  ELSE AccumulateEvents(s, data, order, t, delayed)

\* prepareFirstBucketLocked
PrepareFirstBucket(s, ok, data, order, delayed) ==
  IF s.active /\ IsPulled /\ s.condition = "True" /\ UseDiff
  THEN PullAndMatchEvents(s, ok, data, order, BucketStart(s), delayed)
  ELSE s

\* Mutant of OnDataPulled: a failed pull does not invalidate the bucket.
OnDataPulledNoFailInvalidate(s, ok, data, order, t, delayed) ==
  LET s1 == IF s.condition # "True" THEN s
            ELSE IF ~ok THEN [s EXCEPT !.lost = TRUE]
            ELSE IF t < BucketEnd(s)
              THEN AccumulateEvents(s, data, order, t, delayed)
            ELSE AccumulateEvents(s, data, order, CalcPreviousBucketEndTime(t) - 1, delayed)
  IN FlushIfNeeded(s1, t)

\* onDataPulled: only a true condition takes the data; a pull at or after
\* the bucket end is attributed to the previous bucket end - 1; the bucket
\* is flushed afterwards in every case.
OnDataPulled(s, ok, data, order, t, delayed) ==
  LET s1 == IF s.condition # "True" THEN s
            ELSE IF ~ok
              THEN [InvalidateCurrentBucket(s, "PULL_FAILED") EXCEPT !.lost = TRUE]
            ELSE IF t < BucketEnd(s)
              THEN AccumulateEvents(s, data, order, t, delayed)
            ELSE AccumulateEvents(s, data, order, CalcPreviousBucketEndTime(t) - 1, delayed)
  IN FlushIfNeeded(s1, t)

-----------------------------------------------------------------------------
(* Condition and activation.                                               *)

\* Mutant of OnConditionChanged: no base reset on True -> False.
OnConditionChangedNoReset(s, new, t) ==
  IF ~s.active THEN [s EXCEPT !.condition = new]
  ELSE IF t < BucketStart(s)
    THEN [InvalidateCurrentBucket(s, "EVENT_IN_WRONG_BUCKET") EXCEPT !.condition = new]
  ELSE [FlushIfNeeded(s, t) EXCEPT !.condition = new]

\* onConditionChangedLocked (base class) with the override's hook: an
\* inactive metric only records the condition, a late change invalidates
\* the bucket, otherwise flush, then reset the bases on True -> False.
OnConditionChanged(s, new, t) ==
  IF ~s.active THEN [s EXCEPT !.condition = new]
  ELSE IF t < BucketStart(s)
    THEN [InvalidateCurrentBucket(s, "EVENT_IN_WRONG_BUCKET") EXCEPT !.condition = new]
  ELSE
    LET s1 == FlushIfNeeded(s, t)
        s2 == IF UseDiff /\ s1.condition = "True" /\ new = "False"
              THEN ResetBase(s1) ELSE s1
    IN [s2 EXCEPT !.condition = new]

\* onActiveStateChangedLocked with the override's hook: flush, then reset
\* the bases when a diffing metric becomes inactive.
OnActiveStateChanged(s, isActive, t) ==
  LET s1 == FlushIfNeeded(s, t)
      s2 == IF UseDiff /\ ~isActive THEN ResetBase(s1) ELSE s1
  IN [s2 EXCEPT !.active = isActive]

\* A freshly constructed producer.
NewProducer(condition, active) ==
  [condition |-> condition, active |-> active, bucketNum |-> 0,
   skipped |-> FALSE, reasons |-> {}, hasGlobalBase |-> FALSE,
   base |-> [d \in Dims |-> NoBases],
   full |-> EmptyFull,
   keys |-> {}, iv |-> [d \in Dims |-> [i \in Fields |-> EmptyInterval]],
   closed |-> <<>>,
   samples |-> [d \in Dims |-> [i \in Fields |-> <<>>]], lost |-> FALSE,
   diffs |-> {}, read |-> {}, detected |-> {}]

-----------------------------------------------------------------------------
(***************************************************************************)
(* The producer in its environment.  For a pulled metric the environment   *)
(* is a cumulative source counter per dimension and value field that the  *)
(* puller reads; it grows by one or is reset to 0 (a restarted process).   *)
(* The ghost grown counts the increments made while the condition was     *)
(* true and the metric active since the dimension was last handed to       *)
(* aggregateFields, and srcReset whether the source was reset since then.  *)
(***************************************************************************)
CONSTANTS
  MaxCount,    \* largest source counter value
  PushValues,  \* values a pushed event may carry
  MaxTime,     \* last time the model reaches
  Lag,         \* how far before the latest time an event may be stamped
  Jump,        \* how far time may advance in one step
  MaxEvents    \* exploration budget (used as a state constraint)

VARIABLES
  m,          \* the producer
  counter,    \* [Dims -> [Fields -> 0..MaxCount]]: source counters
  grown,      \* ghost: condition-true growth since the last read
  srcReset,   \* ghost: source reset since the last read
  lastDiffs,  \* ghost: diffs computed in the last step, with grown/srcReset
  clock,      \* latest time seen
  started,    \* prepareFirstBucketLocked has run
  events      \* number of steps taken (bounded by MaxEvents)

vars == <<m, counter, grown, srcReset, lastDiffs, clock, started, events>>

Conditions == {"Unknown", "True", "False"}
Times == {t \in (clock - Lag) .. (clock + Jump) : 0 <= t /\ t <= MaxTime}
ZeroFields == [i \in Fields |-> 0]

Init ==
  /\ \E c \in Conditions, a \in BOOLEAN : m = NewProducer(c, a)
  /\ counter = [d \in Dims |-> ZeroFields]
  /\ grown = [d \in Dims |-> ZeroFields]
  /\ srcReset = [d \in Dims |-> [i \in Fields |-> FALSE]]
  /\ lastDiffs = {}
  /\ clock = 0
  /\ started = FALSE
  /\ events = 0

\* Install the producer state s computed by a handler from m with the ghost
\* outputs cleared: record the diffs with the environment's view of them and
\* restart the ghost window of every dimension that was read.
Apply(s) ==
  /\ m' = s
  /\ lastDiffs' = {[dim |-> y.dim, field |-> y.field, delta |-> y.delta,
                   grown |-> grown[y.dim][y.field],
                   reset |-> srcReset[y.dim][y.field]] : y \in s.diffs}
  /\ grown' = [d \in Dims |-> IF d \in s.read THEN ZeroFields ELSE grown[d]]
  /\ srcReset' = [d \in Dims |-> IF d \in s.read THEN [i \in Fields |-> FALSE]
                                 ELSE srcReset[d]]
  /\ UNCHANGED counter

Fresh == [m EXCEPT !.diffs = {}, !.read = {}, !.detected = {}]
Tick(t) == /\ clock' = IF t > clock THEN t ELSE clock
           /\ events' = events + 1

\* The pulled data: the current counters of the dimensions in P.
PulledData(P) == [d \in P |-> counter[d]]

\* The outcomes of one pull: a failed pull carries no data; a successful one
\* returns some of the dimensions, possibly after the maximum pull delay.
\* use_zero_default_base declares that a key missing from the pulled data
\* has a zero counter, so with it a source omits only such keys.
AbsentKeysAreZero(P) ==
  UseZeroDefaultBase => \A d \in Dims \ P : counter[d] = ZeroFields
PullOutcomes == {[ok |-> FALSE, P |-> {}, delayed |-> FALSE]}
                \cup {o \in [ok : {TRUE}, P : SUBSET Dims, delayed : BOOLEAN] :
                       AbsentKeysAreZero(o.P)}

\* prepareFirstBucketLocked, run once when the producer is created.
PrepareFirstBucketStep ==
  /\ ~started
  /\ \E o \in PullOutcomes : \E order \in SetToSeqs(o.P) :
       Apply(PrepareFirstBucket(Fresh, o.ok, PulledData(o.P), order, o.delayed))
  /\ started' = TRUE
  /\ Tick(0)

\* onDataPulled with a pull of the dimensions P stamped t.
DataPulled ==
  /\ started /\ IsPulled
  /\ \E o \in PullOutcomes, t \in Times : \E order \in SetToSeqs(o.P) :
         /\ Apply(OnDataPulled(Fresh, o.ok, PulledData(o.P), order, t, o.delayed))
         /\ Tick(t)
  /\ UNCHANGED started

\* A pushed event of dimension d (onMatchedLogEventLocked from the socket).
PushedEvent ==
  /\ started /\ ~IsPulled
  /\ \E d \in Dims, vals \in [Fields -> PushValues \cup {Unset}], t \in Times :
       /\ Apply(OnMatchedLogEvent(Fresh, d, vals, t))
       /\ Tick(t)
  /\ UNCHANGED started

ConditionChanged ==
  /\ started
  /\ \E new \in {"True", "False"}, t \in Times :
       /\ Apply(OnConditionChanged(Fresh, new, t))
       /\ Tick(t)
  /\ UNCHANGED started

ActiveStateChanged ==
  /\ started
  /\ \E t \in Times :
       /\ Apply(OnActiveStateChanged(Fresh, ~m.active, t))
       /\ Tick(t)
  /\ UNCHANGED started

\* The pulled source grows; the growth counts when the metric would count it.
SourceGrow ==
  /\ IsPulled
  /\ \E d \in Dims, i \in Fields :
       /\ counter[d][i] < MaxCount
       /\ counter' = [counter EXCEPT ![d][i] = @ + 1]
       /\ grown' = IF m.condition = "True" /\ m.active
                   THEN [grown EXCEPT ![d][i] = @ + 1] ELSE grown
  /\ events' = events + 1
  /\ UNCHANGED <<m, srcReset, lastDiffs, clock, started>>

\* The pulled source restarts from zero.
SourceReset ==
  /\ IsPulled
  /\ \E d \in Dims, i \in Fields :
       /\ counter[d][i] > 0
       /\ counter' = [counter EXCEPT ![d][i] = 0]
       /\ srcReset' = [srcReset EXCEPT ![d][i] = TRUE]
  /\ events' = events + 1
  /\ UNCHANGED <<m, grown, lastDiffs, clock, started>>

Next ==
  \/ PrepareFirstBucketStep
  \/ DataPulled
  \/ PushedEvent
  \/ ConditionChanged
  \/ ActiveStateChanged
  \/ SourceGrow
  \/ SourceReset

Spec == Init /\ [][Next]_vars

\* Exploration bound.
WithinBudget == events <= MaxEvents

-----------------------------------------------------------------------------
(* Properties.                                                             *)

Val == Int \cup {Unset}
Interval == [agg : Val, n : Nat]

TypeOK ==
  /\ m.condition \in Conditions /\ m.active \in BOOLEAN
  /\ m.bucketNum \in 0 .. MaxTime \div BucketSize /\ m.skipped \in BOOLEAN /\ m.reasons \subseteq DropReasons
  /\ m.hasGlobalBase \in BOOLEAN
  /\ m.base \in [Dims -> [Fields -> Val]]
  /\ m.keys \subseteq Dims /\ m.iv \in [Dims -> [Fields -> Interval]]
  /\ m.lost \in BOOLEAN
  /\ DOMAIN m.full \subseteq Dims /\ m.full \in [DOMAIN m.full -> Int]
  /\ counter \in [Dims -> [Fields -> 0 .. MaxCount]]
  /\ clock \in 0 .. MaxTime

\* Diff soundness of a pulled INCREASING metric (accumulateEvents ->
\* aggregateFields): every diff added to a bucket is exactly the growth the
\* source made, while the condition was true and the metric active, since
\* the reading that became its base; when the source restarted in between
\* the diff may undercount but never overcounts.  Violated if a base
\* outlives a false condition, a deactivation, an invalidation or a
\* reading that was not used.
DiffIsTrueGrowth ==
  \A r \in lastDiffs : /\ r.delta <= r.grown
                       /\ ~r.reset => r.delta = r.grown

\* A pulled bucket that lost data (a failed, delayed or late pull, or a key
\* dropped by the dimension guardrail) is never reported with values: it is
\* closed as a skipped bucket (invalidateCurrentBucket before
\* flushIfNeededLocked in onDataPulled/accumulateEvents).
IncompleteBucketNeverReported ==
  \A k \in DOMAIN m.closed : m.closed[k].lost => m.closed[k].skipped

\* Reference aggregation of a non-empty list of samples, as an exact
\* fraction (AVG is the mean, the other types an integer).
RECURSIVE SumOf(_)
SumOf(q) == IF q = <<>> THEN 0 ELSE Head(q) + SumOf(Tail(q))
RefFinal(i, q) ==
  LET vs == {q[k] : k \in DOMAIN q}
  IN CASE AggType[i] = "SUM" -> [num |-> SumOf(q), den |-> 1]
       [] AggType[i] = "AVG" -> [num |-> SumOf(q), den |-> Len(q)]
       [] AggType[i] = "MIN" -> [num |-> CHOOSE x \in vs : \A y \in vs : x <= y, den |-> 1]
       [] AggType[i] = "MAX" -> [num |-> CHOOSE x \in vs : \A y \in vs : x >= y, den |-> 1]

\* upload_threshold as its field names state it: lt/gt are strict.
RefPasses(fv) ==
  LET x == fv.num
      t == Threshold.v * fv.den
  IN IF Threshold = NoThreshold THEN TRUE
     ELSE CASE Threshold.kind \in {"lt_int", "lt_float"} -> x < t
            [] Threshold.kind \in {"gt_int", "gt_float"} -> x > t
            [] Threshold.kind = "lte_int" -> x <= t
            [] Threshold.kind = "gte_int" -> x >= t

\* Report faithfulness (buildPartialBucket, getFinalValue,
\* valuePassesThreshold, initNextSlicedBucket): in every reported bucket a
\* dimension has a row exactly when its first field's value passes the
\* upload threshold (or it has none) and some field has a value to report,
\* and each reported value and sample size is the reference aggregate of
\* the samples the bucket accepted for that field.
ReportMatchesSamples ==
  \A k \in DOMAIN m.closed :
    LET rec == m.closed[k]
        Reportable(d, i) ==
          /\ rec.samples[d][i] # <<>>
          /\ ~(SkipZeroDiffOutput /\ UseDiff /\ RefFinal(i, rec.samples[d][i]).num = 0)
        Gate(d) == rec.samples[d][1] = <<>> \/ RefPasses(RefFinal(1, rec.samples[d][1]))
    IN ~rec.skipped =>
         /\ \A d \in Dims :
              (\E r \in rec.rows : r.dim = d) <=> (Gate(d) /\ \E i \in Fields : Reportable(d, i))
         /\ \A r \in rec.rows :
              /\ DOMAIN r.vals = {i \in Fields : Reportable(r.dim, i)}
              /\ \A i \in DOMAIN r.vals :
                   /\ r.vals[i] = RefFinal(i, rec.samples[r.dim][i])
                   /\ r.n[i] = Len(rec.samples[r.dim][i])

\* The ghost samples and skip flag of bucket b, open or closed.
BucketRecord(b) ==
  IF b = m.bucketNum THEN [samples |-> m.samples, skipped |-> m.skipped]
  ELSE LET k == CHOOSE j \in DOMAIN m.closed : m.closed[j].bucket = b
       IN [samples |-> m.closed[k].samples, skipped |-> m.closed[k].skipped]

\* The first-field total of dimension d over the samples of a closed
\* record (0 when it has none).
RecTotal(rec, d) ==
  IF rec.samples[d][1] = <<>> THEN 0 ELSE RefFinal(1, rec.samples[d][1]).num

\* The indices of the closed records that belong to the same full bucket
\* as a bucket closed or open after the closed records 1 .. k: the records
\* after the last one closed with the full bucket reached, not skipped.
PartialsBefore(k) ==
  LET fulls == {j \in 1 .. k : m.closed[j].fullClose}
      last  == IF fulls = {} THEN 0 ELSE Max(fulls)
  IN {j \in last + 1 .. k : ~m.closed[j].skipped}

\* The first-field total of d over those partial buckets.
PartialTotal(k, d) == MapThenSumSet(LAMBDA j : RecTotal(m.closed[j], d), PartialsBefore(k))

\* aggregateFields' anomaly hook and spec.md 4.F.8: detectAndDeclareAnomaly
\* is called only for an event every value field of which was diffed
\* against a base in this step (none seeded, none unusable), and, unless
\* its bucket ends up skipped, with the aggregate of every sample its
\* bucket accepted for the first field up to and including this event plus
\* the totals of the earlier partial buckets of the same full bucket (the
\* buckets closed without reaching the full bucket since the last one that
\* reached it, skipped ones left out).
AnomalyChecksWholeBucket ==
  \A x \in m.detected :
    LET before == {k \in DOMAIN m.closed : m.closed[k].bucket < x.bucket}
        n == IF before = {} THEN 0 ELSE Max(before)
    IN /\ UseDiff => \A i \in Fields : \E y \in lastDiffs : y.dim = x.dim /\ y.field = i
       /\ ~BucketRecord(x.bucket).skipped =>
            x.val = RefFinal(1, BucketRecord(x.bucket).samples[x.dim][1]).num
                    + PartialTotal(n, x.dim)

\* closeCurrentBucket -> appendToFullBucket, across buckets: a bucket
\* closed before its full bucket is reached hands the tracker nothing; one
\* that reaches it unskipped hands the tracker, once per dimension that has
\* a sample in it or in an earlier partial bucket of the same full bucket,
\* the first-field total over all of them, so that every sample of an
\* unskipped bucket reaches the tracker exactly once; a skipped one hands
\* nothing and discards the partial buckets.  (With the full-bucket
\* guardrail out of reach: HardLimit >= the number of dimensions.)
TrackerGetsFullBuckets ==
  \A k \in DOMAIN m.closed :
    LET rec == m.closed[k]
        total(d) == PartialTotal(k - 1, d) + RecTotal(rec, d)
        seen == {d \in Dims : \E j \in PartialsBefore(k - 1) \cup {k} :
                                m.closed[j].samples[d][1] # <<>>}
    IN rec.past = IF rec.skipped \/ ~rec.fullClose THEN {}
                  ELSE {[dim |-> d, val |-> total(d)] : d \in seen}

\* spec.md 4.F (closing a bucket constructs a PastBucket per dimension and
\* runs the anomaly-tracker hook with its first interval's value): every
\* bucket closed without being skipped hands the tracker exactly one past
\* bucket per dimension that accepted a sample for the first field,
\* carrying their aggregate; a skipped bucket hands it nothing.
TrackerSeesClosedBuckets ==
  \A k \in DOMAIN m.closed :
    LET rec == m.closed[k]
    IN rec.past = IF rec.skipped THEN {}
                  ELSE {[dim |-> d, val |-> RecTotal(rec, d)] :
                          d \in {x \in Dims : rec.samples[x][1] # <<>>}}

\* The producer implements the bucket contract (spec.md 4.F): mapped to the
\* reported buckets without their ghost fields, the open bucket number and
\* the latest time seen, every handler (flushIfNeededLocked through
\* closeCurrentBucket and initNextSlicedBucket, from a pull, a pushed event,
\* a condition or an activation change) either closes the open bucket only
\* after its end, appending it to a log it never rewrites and opening the
\* bucket that contains the time, or leaves the buckets alone.
Contract == INSTANCE BucketContract WITH
  buckets <- [k \in DOMAIN m.closed |->
                [bucket |-> m.closed[k].bucket, skipped |-> m.closed[k].skipped,
                 rows |-> m.closed[k].rows]],
  current <- m.bucketNum,
  now <- clock

ContractSpec == Contract!Spec
=============================================================================
