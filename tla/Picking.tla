------------------------------ MODULE Picking ------------------------------
(***************************************************************************)
(* The elements of a sequence at some positions, in their order: what is   *)
(* left of a list or of an array when a loop drops some of its entries     *)
(* (set_cleanup_entries of list:set, the copies that mtype_del and         *)
(* mtype_gc_do make of a bucket).                                          *)
(***************************************************************************)
EXTENDS Naturals, Sequences

Picked(s, positions) ==
    LET first[n \in 0..Len(s)] ==
          IF n = 0 THEN << >>
          ELSE IF n \in positions THEN Append(first[n - 1], s[n]) ELSE first[n - 1]
    IN  first[Len(s)]
=============================================================================
