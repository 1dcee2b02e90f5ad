------------------------ MODULE MCNumericValuePulled ------------------------
(***************************************************************************)
(* A pulled, diffed SUM metric (the default for a pulled ValueMetric:      *)
(* use_diff, INCREASING, no absolute value on reset, no zero default base) *)
(* over two dimensions with a hard dimension limit of 2, so that a pull    *)
(* with both keys hits the guardrail.                                     *)
(***************************************************************************)
EXTENDS NumericValueMetric, TLC

CONSTANTS d1, d2

MCDims == {d1, d2}
MCAggType == <<"SUM">>
MCSymmetry == Permutations(MCDims)
=============================================================================
