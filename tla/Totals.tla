------------------------------- MODULE Totals -------------------------------
(***************************************************************************)
(* The sum of a function from a finite set to the natural numbers, as the  *)
(* number of pairs of an argument and one of its units.                    *)
(***************************************************************************)
EXTENDS Integers, FiniteSets

Total(f) == Cardinality(UNION {{x} \X (1 .. f[x]) : x \in DOMAIN f})
=============================================================================
