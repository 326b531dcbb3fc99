----------------------------- MODULE MCListSet -----------------------------
(* A small instance of ListSet.  Members are interchangeable; no action and no
   invariant reads the last answer, so states that differ in it alone are one. *)
EXTENDS ListSet, TLC

Interchange == Permutations(Ids)
WithoutAnswer == <<members, elements, ref, dump, replaced>>
=============================================================================
