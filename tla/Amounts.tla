------------------------------ MODULE Amounts ------------------------------
(***************************************************************************)
(* Sums of amounts of money, none above MaxAmount.                         *)
(***************************************************************************)
EXTENDS Integers, FiniteSets

CONSTANT MaxAmount   \* bound: what one intent charges in all

(* The sum of a function's values, counted unit by unit. *)
Total(f) == Cardinality({u \in (DOMAIN f) \X (1..MaxAmount) : u[2] <= f[u[1]]})
=============================================================================
