--------------------------- MODULE BucketContract ---------------------------
(***************************************************************************)
(* What a bucketed metric producer promises about the buckets it reports   *)
(* (spec.md 4.F, bucket lifecycle): time only moves forward; the current   *)
(* bucket is closed only once time has reached its end, and is then        *)
(* appended to the report log, which is never rewritten; the next current *)
(* bucket is the one that contains the time of the close, so it has       *)
(* already begun; a close that jumps over buckets reports the closed      *)
(* bucket as skipped, and a skipped bucket carries no rows.                *)
(*                                                                         *)
(* Bucket k is [k * BucketSize, (k + 1) * BucketSize).                     *)
(***************************************************************************)
EXTENDS Naturals, Sequences

CONSTANT BucketSize

VARIABLES
  buckets,   \* the reported buckets: [bucket, skipped, rows], oldest first
  current,   \* the number of the open bucket
  now        \* the latest time the producer has seen

vars == <<buckets, current, now>>

Init == buckets = <<>> /\ current = 0 /\ now = 0

\* Time passes (or an event stamped in the past arrives); nothing closes.
Advance == now' >= now /\ UNCHANGED <<buckets, current>>

\* The open bucket is closed and appended; the bucket containing now' opens.
Close ==
  /\ now' >= (current + 1) * BucketSize
  /\ current' > current
  /\ current' * BucketSize <= now'
  /\ Len(buckets') = Len(buckets) + 1
  /\ SubSeq(buckets', 1, Len(buckets)) = buckets
  /\ LET b == buckets'[Len(buckets')]
     IN /\ b.bucket = current
        /\ b.skipped => b.rows = {}
        /\ current' > current + 1 => b.skipped

Next == Advance \/ Close

Spec == Init /\ [][Next]_vars
=============================================================================
