-------------------------------- MODULE Sums --------------------------------
(***************************************************************************)
(* The sum of a function with natural values, as the number of pairs       *)
(* <<a, i>> with 1 <= i <= f[a].  It is a definition without recursion, so *)
(* that facts about it follow from those about cardinalities.              *)
(***************************************************************************)
EXTENDS Integers, FiniteSets

Units(f, a) == {a} \X (1 .. f[a])

SumOf(f) == Cardinality(UNION {Units(f, a) : a \in DOMAIN f})
=============================================================================
