------------------------- MODULE MCStatsdLossStats -------------------------
(***************************************************************************)
(* Two uids sharing one overflow-map slot, lists of two entries, and two   *)
(* queue sizes, so that every list pops, the map fills, and a size is seen *)
(* twice.                                                                  *)
(***************************************************************************)
EXTENDS StatsdLossStats, TLC

CONSTANTS u1, u2

MCUids == {u1, u2}
MCSymmetry == Permutations(MCUids)
=============================================================================
