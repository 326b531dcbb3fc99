---------------------------- MODULE MCHashReplay ----------------------------
(* Instances of HashReplay for TLC                                         *)
EXTENDS HashReplay, TLC

CONSTANT x1      \* the element that packets use

\* All elements have the same prefix size
OneCidr == [x \in Elems |-> 24]

\* Packets add and delete x1; only commands touch the other elements
FirstOnly == [x \in Elems |-> IF x = x1 THEN {"add", "del"} ELSE {}]

\* What is never read again: what a table holds that is not allocated, the
\* operation of a packet that leaves, and what muddled elements should be
Doing(u) ==
    IF user[u].pc \in {"put", "check"} THEN <<user[u].pc, user[u].t>> ELSE user[u]
Relevant ==
    <<table, bits, memory, [t \in memory |-> <<entry[t], ref[t], uref[t]>>], nets, ad,
      resize, [u \in Users |-> Doing(u)], flushing, want \ muddled, muddled, miscounted>>

Symmetry == Permutations(Tables) \cup Permutations(Packets)
=============================================================================
