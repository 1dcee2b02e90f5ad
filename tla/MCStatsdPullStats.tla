------------------------- MODULE MCStatsdPullStats -------------------------
(***************************************************************************)
(* One puller, one metric and two pushed atoms sharing one error-table     *)
(* slot; timeout lists of two; pull times 0 and 2 so that the running      *)
(* average is truncated.                                                   *)
(***************************************************************************)
EXTENDS StatsdPullStats

CONSTANTS p1, m1
=============================================================================
