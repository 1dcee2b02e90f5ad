--------------------------- MODULE MCStatsdStats ---------------------------
(***************************************************************************)
(* Instances of the stats store.  The configs run has two config keys, an  *)
(* ice box of two and timestamp lists of two, so that a list and the ice   *)
(* box overflow within a few calls.  The counters run has one platform     *)
(* atom (id 2, the first the dump reports) and three non-platform atoms    *)
(* sharing one slot of the logged table, so that the drop table (three     *)
(* slots) and the logged table both fill, and two subscription slots for  *)
(* three ids.  The dump run notes database stat failures and uid map      *)
(* drops on one config.  The counters run also reads batches of the sizes *)
(* at each bin edge.  Empty input sets switch off the parts a run does not *)
(* ask about.                                                              *)
(***************************************************************************)
EXTENDS StatsdStats

CONSTANTS k1, k2

MCKeys == {k1, k2}
MCSymmetry == Permutations(MCKeys)

\* A negative id (logged by a misbehaving client), the platform id 2 and two
\* non-platform ids.
MCAtomIds == {-1, 2, 5, 6}

\* Batch sizes on both sides of every change of bin formula, and a negative
\* size.
MCBatchSizes == {-1, 0, 4, 5, 9, 10, 99, 100, 999, 1000, 1999, 2000}

\* atomCounts of a large read: one atom read below the atom threshold and
\* one read exactly at it.
MCAtomCounts == {[x \in {1, 2} |-> x]}
=============================================================================
