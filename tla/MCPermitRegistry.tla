--------------------------- MODULE MCPermitRegistry ---------------------------
(* Instances of PermitRegistry for TLC: seeds as sparse as seed.ts's, so that the *)
(* count runs into them, and one of an earlier year, which counts but never clashes. *)
EXTENDS PermitRegistry

MCSeedRefs == {[year |-> "this", number |-> 3], [year |-> "this", number |-> 4],
               [year |-> "past", number |-> 4]}

=============================================================================
