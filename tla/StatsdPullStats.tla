--------------------------- MODULE StatsdPullStats ---------------------------
(***************************************************************************)
(* The per-puller and per-metric counters of StatsdStats                   *)
(* (src/statsd/src/guardrail/StatsdStats.cpp): mPulledAtomStats,           *)
(* mAtomMetricStats and mPushedAtomErrorStats, with the part of            *)
(* resetInternalLocked that clears them.  As in the StatsdStats module,    *)
(* each entry point holds mLock for its whole body and is one action; the  *)
(* store's other fields are not touched by these calls and are left out.  *)
(*                                                                         *)
(* The plain counters of a puller are one function from counter name to   *)
(* count.  Ghost fields (prefixed g) record, since the last reset, every  *)
(* call per atom and counter, and the sum, count and minimum of the pull   *)
(* times and delays.                                                       *)
(***************************************************************************)
EXTENDS Integers, Sequences, SequencesExt, FiniteSets

CONSTANTS
  PullAtoms,        \* pulled atom ids (model values)
  PullFailures,     \* which of the failure counters callers bump
  Durations,        \* pull times and delays (small naturals)
  Intervals,        \* arguments of updateMinPullIntervalSec
  LongMax,          \* LONG_MAX, above every interval
  TsCap,            \* kMaxTimestampCount
  Metrics,          \* metric ids (model values)
  ErrorAtoms,       \* pushed atom ids passed to noteAtomError
  ErrorTableCap,    \* kMaxPushedAtomErrorStatsSize
  MaxSteps          \* exploration bound on the number of calls

\* The counters of PulledAtomStats that calls increment by one.
Counters == {"totalPull", "totalPullFromCache", "dataError", "pullTimeout",
             "pullExceedMaxDelay", "pullFailed", "pullUidProviderNotFound",
             "pullerNotFound", "binderCallFailCount", "emptyData",
             "registeredCount", "unregisteredCount", "atomErrorCount",
             "subscriptionPullCount"}
\* The counters of AtomMetricStats.
MetricCounters == {"hardDimensionLimitReached", "lateLogEventSkipped",
                   "skippedForwardBuckets", "badValueType", "bucketDropped",
                   "bucketUnknownCondition", "conditionChangeInNextBucket",
                   "invalidatedBucket", "bucketCount"}
\* A running duration statistic (avg, max and number of samples).
NoDuration == [avg |-> 0, max |-> 0, num |-> 0]
\* The duration statistics of PulledAtomStats.
DurationKinds == {"PullTime", "PullDelay"}

\* PulledAtomStats() as declared in StatsdStats.h.
NewPullStats ==
  [cnt |-> [f \in Counters |-> 0], minInterval |-> LongMax,
   dur |-> [k \in DurationKinds |-> NoDuration], timeouts |-> <<>>]

NoSamples == [sum |-> 0, num |-> 0, min |-> LongMax, max |-> 0]

VARIABLES pulls, metrics, errors, g, now

vars == <<pulls, metrics, errors, g, now>>

Tick == now < MaxSteps /\ now' = now + 1

Init ==
  /\ pulls = [a \in PullAtoms |-> NewPullStats]
  /\ metrics = <<>>
  /\ errors = <<>>
  /\ g = [cnt |-> [a \in PullAtoms |-> [f \in Counters |-> 0]],
          intervals |-> [a \in PullAtoms |-> {}],
          samples |-> [a \in PullAtoms |-> [k \in DurationKinds |-> NoSamples]],
          timeouts |-> [a \in PullAtoms |-> <<>>],
          metric |-> [m \in Metrics |-> [f \in MetricCounters |-> 0]],
          errors |-> [e \in ErrorAtoms |-> 0]]
  /\ now = 1

\* The map f with key x set to v.
Put(f, x, v) == [y \in DOMAIN f \cup {x} |-> IF y = x THEN v ELSE f[y]]

\* mPulledAtomStats[a].f++ (and the ghost record of the call).
IncPull(a, f) ==
  /\ pulls' = [pulls EXCEPT ![a].cnt[f] = @ + 1]
  /\ g' = [g EXCEPT !.cnt[a][f] = @ + 1]

PullAction(a, f) == Tick /\ IncPull(a, f) /\ UNCHANGED <<metrics, errors>>

\* updateMinPullIntervalSec
UpdateMinPullIntervalSec(a, i) ==
  /\ Tick
  /\ pulls' = [pulls EXCEPT ![a].minInterval = IF i < @ THEN i ELSE @]
  /\ g' = [g EXCEPT !.intervals[a] = @ \cup {i}]
  /\ UNCHANGED <<metrics, errors>>

\* notePull / notePullFromCache
NotePull(a, fromCache) == PullAction(a, IF fromCache THEN "totalPullFromCache" ELSE "totalPull")

\* Mutant: the sample count incremented before the average is taken.
AddDurationCountFirst(d, t) ==
  [max |-> IF t > d.max THEN t ELSE d.max,
   avg |-> (d.avg * (d.num + 1) + t) \div (d.num + 2),
   num |-> d.num + 1]

\* The update of notePullTime and notePullDelay: the new average is taken
\* over num + 1 samples, in integer division, before num is incremented.
AddDuration(d, t) ==
  [max |-> IF t > d.max THEN t ELSE d.max,
   avg |-> (d.avg * d.num + t) \div (d.num + 1),
   num |-> d.num + 1]

AddSample(s, t) ==
  [sum |-> s.sum + t, num |-> s.num + 1,
   min |-> IF t < s.min THEN t ELSE s.min, max |-> IF t > s.max THEN t ELSE s.max]

\* notePullTime (kind "PullTime") and notePullDelay (kind "PullDelay").
NotePullDuration(a, kind, t) ==
  /\ Tick
  /\ pulls' = [pulls EXCEPT ![a].dur[kind] = AddDuration(@, t)]
  /\ g' = [g EXCEPT !.samples[a][kind] = AddSample(@, t)]
  /\ UNCHANGED <<metrics, errors>>

NotePullDataError(a) == PullAction(a, "dataError")

\* notePullTimeout: the count and the newest TsCap (uptime, elapsed) pairs.
NotePullTimeout(a) ==
  /\ Tick
  /\ pulls' = [pulls EXCEPT ![a].cnt["pullTimeout"] = @ + 1,
                            ![a].timeouts = Append(IF Len(@) = TsCap THEN Tail(@) ELSE @, now)]
  /\ g' = [g EXCEPT !.cnt[a]["pullTimeout"] = @ + 1, !.timeouts[a] = Append(@, now)]
  /\ UNCHANGED <<metrics, errors>>

NotePullExceedMaxDelay(a) == PullAction(a, "pullExceedMaxDelay")

\* notePullFailed, notePullUidProviderNotFound, notePullerNotFound,
\* notePullBinderCallFailed and noteEmptyData.
NotePullFailure(a, f) == PullAction(a, f)

NotePullerCallbackRegistrationChanged(a, registered) ==
  PullAction(a, IF registered THEN "registeredCount" ELSE "unregisteredCount")

NoteSubscriptionAtomPulled(a) == PullAction(a, "subscriptionPullCount")

\* getAtomMetricStats followed by one counter increment (noteHardDimension
\* LimitReached ... noteBucketCount).
NoteMetricCounter(m, f) ==
  /\ Tick
  /\ metrics' = Put(metrics, m, [(IF m \in DOMAIN metrics THEN metrics[m]
                                  ELSE [x \in MetricCounters |-> 0]) EXCEPT ![f] = @ + 1])
  /\ g' = [g EXCEPT !.metric[m][f] = @ + 1]
  /\ UNCHANGED <<pulls, errors>>

\* Mutant: the table counts as full only above ErrorTableCap entries.
NoteAtomErrorOffByOne(a, pull) ==
  /\ Tick
  /\ IF pull
       THEN IncPull(a, "atomErrorCount") /\ UNCHANGED errors
       ELSE /\ errors' = IF Cardinality(DOMAIN errors) <= ErrorTableCap \/ a \in DOMAIN errors
                           THEN Put(errors, a, IF a \in DOMAIN errors THEN errors[a] + 1 ELSE 1)
                           ELSE errors
            /\ g' = [g EXCEPT !.errors[a] = @ + 1]
            /\ UNCHANGED pulls
  /\ UNCHANGED metrics

\* Mutant: a full table stops counting the atoms it already holds.
NoteAtomErrorNoPresent(a, pull) ==
  /\ Tick
  /\ IF pull
       THEN IncPull(a, "atomErrorCount") /\ UNCHANGED errors
       ELSE /\ errors' = IF Cardinality(DOMAIN errors) < ErrorTableCap
                           THEN Put(errors, a, IF a \in DOMAIN errors THEN errors[a] + 1 ELSE 1)
                           ELSE errors
            /\ g' = [g EXCEPT !.errors[a] = @ + 1]
            /\ UNCHANGED pulls
  /\ UNCHANGED metrics

\* noteAtomError: a pulled atom counts in its puller stats; a pushed atom in
\* a table that takes no new atom once it holds ErrorTableCap entries.
NoteAtomError(a, pull) ==
  /\ Tick
  /\ IF pull
       THEN IncPull(a, "atomErrorCount") /\ UNCHANGED errors
       ELSE /\ errors' = IF Cardinality(DOMAIN errors) < ErrorTableCap \/ a \in DOMAIN errors
                           THEN Put(errors, a, IF a \in DOMAIN errors THEN errors[a] + 1 ELSE 1)
                           ELSE errors
            /\ g' = [g EXCEPT !.errors[a] = @ + 1]
            /\ UNCHANGED pulls
  /\ UNCHANGED metrics

\* Mutant: pullTimeoutMetadata not cleared.
ResetPullStatsLockedKeepsTimeouts ==
  /\ Tick
  /\ pulls' = [a \in PullAtoms |->
                 [NewPullStats EXCEPT !.cnt["emptyData"] = pulls[a].cnt["emptyData"],
                                      !.timeouts = pulls[a].timeouts]]
  /\ metrics' = <<>>
  /\ errors' = <<>>
  /\ g' = [g EXCEPT !.cnt = [a \in PullAtoms |-> [f \in Counters |-> 0]],
                    !.intervals = [a \in PullAtoms |-> {}],
                    !.samples = [a \in PullAtoms |-> [k \in DurationKinds |-> NoSamples]],
                    !.timeouts = [a \in PullAtoms |-> <<>>],
                    !.metric = [m \in Metrics |-> [f \in MetricCounters |-> 0]],
                    !.errors = [e \in ErrorAtoms |-> 0]]

\* The pull, metric and error part of resetInternalLocked: every listed
\* PulledAtomStats field is cleared (the list does not name emptyData), and
\* the metric and pushed-error tables are emptied.
ResetPullStatsLocked ==
  /\ Tick
  /\ pulls' = [a \in PullAtoms |->
                 [NewPullStats EXCEPT !.cnt["emptyData"] = pulls[a].cnt["emptyData"]]]
  /\ metrics' = <<>>
  /\ errors' = <<>>
  /\ g' = [g EXCEPT !.cnt = [a \in PullAtoms |-> [f \in Counters |-> 0]],
                    !.intervals = [a \in PullAtoms |-> {}],
                    !.samples = [a \in PullAtoms |-> [k \in DurationKinds |-> NoSamples]],
                    !.timeouts = [a \in PullAtoms |-> <<>>],
                    !.metric = [m \in Metrics |-> [f \in MetricCounters |-> 0]],
                    !.errors = [e \in ErrorAtoms |-> 0]]

Done == now = MaxSteps /\ UNCHANGED vars

Next ==
  \/ \E a \in PullAtoms, i \in Intervals : UpdateMinPullIntervalSec(a, i)
  \/ \E a \in PullAtoms, c \in BOOLEAN : NotePull(a, c)
  \/ \E a \in PullAtoms, k \in DurationKinds, t \in Durations : NotePullDuration(a, k, t)
  \/ \E a \in PullAtoms : NotePullDataError(a)
  \/ \E a \in PullAtoms : NotePullTimeout(a)
  \/ \E a \in PullAtoms : NotePullExceedMaxDelay(a)
  \/ \E a \in PullAtoms, f \in PullFailures : NotePullFailure(a, f)
  \/ \E a \in PullAtoms, r \in BOOLEAN : NotePullerCallbackRegistrationChanged(a, r)
  \/ \E a \in PullAtoms : NoteSubscriptionAtomPulled(a)
  \/ \E m \in Metrics, f \in MetricCounters : NoteMetricCounter(m, f)
  \/ \E a \in PullAtoms : NoteAtomError(a, TRUE)
  \/ \E e \in ErrorAtoms : NoteAtomError(e, FALSE)
  \/ ResetPullStatsLocked
  \/ Done

Spec == Init /\ [][Next]_vars

-----------------------------------------------------------------------------
(* Properties.                                                             *)

TypeOK ==
  /\ pulls \in [PullAtoms -> [cnt : [Counters -> Nat], minInterval : Intervals \cup {LongMax},
                              dur : [DurationKinds -> [avg : Nat, max : Nat, num : Nat]],
                              timeouts : Seq(Nat)]]
  /\ DOMAIN metrics \subseteq Metrics
  /\ DOMAIN errors \subseteq ErrorAtoms /\ Cardinality(DOMAIN errors) <= ErrorTableCap
  /\ now \in 1 .. MaxSteps

\* The newest n elements of a sequence.
NewestN(q, n) == IF Len(q) <= n THEN q ELSE SubSeq(q, Len(q) - n + 1, Len(q))

\* The puller calls and resetInternalLocked: every counter of a puller
\* equals the number of calls that bump it since the last reset, its
\* timeout list holds the newest TsCap timeouts, and minPullIntervalSec is
\* the least interval reported since the reset (LONG_MAX if none).
PullStatsSinceReset ==
  \A a \in PullAtoms :
    /\ pulls[a].cnt = g.cnt[a]
    /\ pulls[a].timeouts = NewestN(g.timeouts[a], TsCap)
    /\ pulls[a].minInterval =
         IF g.intervals[a] = {} THEN LongMax
         ELSE CHOOSE i \in g.intervals[a] : \A j \in g.intervals[a] : i <= j

\* notePullTime / notePullDelay: the running average, kept in integer
\* division, never exceeds the true mean and never falls below the least
\* sample; the maximum is the largest sample, and the count the number of
\* samples since the reset.
PullDurationBounded ==
  \A a \in PullAtoms, k \in DurationKinds :
    LET d == pulls[a].dur[k]
        s == g.samples[a][k]
    IN /\ d.num = s.num
       /\ d.max = s.max
       /\ s.num = 0 => d.avg = 0
       /\ s.num > 0 => s.min <= d.avg /\ d.avg * d.num <= s.sum

\* getAtomMetricStats / noteAtomError: a metric's counters are the calls
\* since the reset (an untouched metric has no entry), and a pushed atom's
\* error entry counts every error since the reset, while an atom with
\* errors and no entry found the table full.
MetricAndErrorStatsSinceReset ==
  /\ \A m \in Metrics :
       IF m \in DOMAIN metrics THEN metrics[m] = g.metric[m]
       ELSE \A f \in MetricCounters : g.metric[m][f] = 0
  /\ \A e \in ErrorAtoms :
       IF e \in DOMAIN errors THEN errors[e] = g.errors[e]
       ELSE g.errors[e] > 0 => Cardinality(DOMAIN errors) = ErrorTableCap
=============================================================================
