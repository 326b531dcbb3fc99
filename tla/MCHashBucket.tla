---------------------------- MODULE MCHashBucket ----------------------------
(* Small instances of HashBucket.  Elements of one bucket are interchangeable;
   no action and no invariant reads the last answer.                       *)
EXTENDS HashBucket, TLC

CONSTANTS e1, e2, e3, e4

\* e1, e2 and e3 meet in bucket 0, e4 has the next one
Collide == [x \in Elems |-> IF x = e4 THEN 1 ELSE 0]

\* Arrays that grow, or small ones with forceadd
GrowOrForce == {<<FALSE, 4>>, <<TRUE, 2>>}

Interchange == Permutations({e1, e2, e3} \cap Elems)
WithoutAnswer == <<config, bucket, elements, adding, testing, flushing>>
=============================================================================
