------------------------ MODULE MCNumericValuePushed ------------------------
(***************************************************************************)
(* A pushed value metric without diffs over two dimensions with two value  *)
(* fields, AVG then MIN, and an upload threshold on the first field.       *)
(* Pushed values 0 and 2 make a bucket whose average is exactly the        *)
(* threshold value 1, the boundary where the comparisons differ.           *)
(***************************************************************************)
EXTENDS NumericValueMetric, TLC

CONSTANTS d1, d2

MCDims == {d1, d2}
MCAggType == <<"AVG", "MIN">>
MCSymmetry == Permutations(MCDims)

\* upload_threshold { gt_int: 1 }
MCThresholdGtInt == [kind |-> "gt_int", v |-> 1]

\* upload_threshold { lt_float: 1.0 }
MCThresholdLtFloat == [kind |-> "lt_float", v |-> 1]
=============================================================================
