---------------------------- MODULE MCIpSetCore ----------------------------
(* Instances of IpSetCore for TLC: symmetry for the safety runs            *)
EXTENDS IpSetCore, TLC

Symmetry == Permutations(Sets) \cup Permutations(Names)
               \cup Permutations(Rules) \cup Permutations(Elems)
               \cup Permutations(Dumpers)
=============================================================================
