---------------------------- MODULE MCHashResize ----------------------------
(* Instances of HashResize for TLC                                         *)
EXTENDS HashResize

\* All elements have the same prefix size
OneCidr == [x \in Elems |-> 24]

\* Packets add and delete
AddDel == [x \in Elems |-> {"add", "del"}]
=============================================================================
