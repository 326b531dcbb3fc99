---------------------------- MODULE ListSetProofs ----------------------------
(***************************************************************************)
(* Proofs about ListSet, for any sets that can be members and any length   *)
(* of the list.                                                            *)
(***************************************************************************)
EXTENDS ListSet, PickingProofs

Node == [id : Ids, life : Lives \union {"expired"}]

----------------------------------------------------------------------------
(* Members and nodes                                                       *)

\* Nodes at the same positions are counted alike
LEMMA ComesNodes ==
    ASSUME NEW s \in Seq(Node), NEW m \in Seq(Node), NEW positions \in SUBSET (1 .. Len(m)),
           NEW g, Comes(s, m, positions, g)
    PROVE  \A i : Nodes(s, i) = Cardinality({n \in positions : m[n].id = i})
<1> SUFFICES ASSUME NEW i PROVE Nodes(s, i) = Cardinality({n \in positions : m[n].id = i})
  OBVIOUS
<1> DEFINE A == {n \in positions : m[n].id = i}
<1>1. {k \in DOMAIN s : s[k].id = i} = {k \in 1 .. Len(s) : g[k] \in A}
  BY DEF Comes
<1> HIDE DEF A
<1>2. A \in SUBSET positions
  BY DEF A
<1>3. Cardinality({k \in 1 .. Len(s) : g[k] \in A}) = Cardinality(A)
  <2>1. \A B \in SUBSET positions : Cardinality({k \in 1 .. Len(s) : g[k] \in B}) = Cardinality(B)
    BY ComesCount
  <2> QED
    BY <1>2, <2>1, Zenon
<1> QED
  BY <1>1, <1>3 DEF Nodes, A

\* Node n of m is the member i
LiveAt(m, n, i) == n \in 1 .. Len(m) /\ m[n].id = i /\ ~ Expired(m[n])

\* No set is a member twice
Once(m) == \A i \in Ids, n, k \in 1 .. Len(m) : LiveAt(m, n, i) /\ LiveAt(m, k, i) => n = k

IsMember(m, i) == \E n \in 1 .. Len(m) : LiveAt(m, n, i)

\* The sweep: the nodes that have not expired stay, the others are counted
LEMMA Sweep ==
    ASSUME NEW m \in Seq(Node)
    PROVE  /\ Unexpired(m) \in Seq(Node) /\ Dead(m) \in Seq(Node)
           /\ \E g : Comes(Unexpired(m), m, {n \in 1 .. Len(m) : ~ Expired(m[n])}, g)
           /\ Len(Unexpired(m)) + Len(Dead(m)) = Len(m)
           /\ \A i : Nodes(Unexpired(m), i) + Nodes(Dead(m), i) = Nodes(m, i)
           /\ \A i : {Nodes(Unexpired(m), i), Nodes(Dead(m), i), Nodes(m, i)} \subseteq Nat
<1> DEFINE U == {n \in 1 .. Len(m) : ~ Expired(m[n])}
           D == {n \in 1 .. Len(m) : Expired(m[n])}
<1>0. Len(m) \in Nat /\ DOMAIN m = 1 .. Len(m) /\ U \in SUBSET (1 .. Len(m)) /\ D \in SUBSET (1 .. Len(m))
  OBVIOUS
<1>1. Unexpired(m) = Picked(m, U) /\ Dead(m) = Picked(m, D)
  BY <1>0 DEF Unexpired, Dead
<1>2. U \cup D = 1 .. Len(m) /\ U \cap D = {}
  OBVIOUS
<1> HIDE DEF U, D
<1>3. PICK g : Unexpired(m) \in Seq(Node) /\ Comes(Unexpired(m), m, U, g)
  BY <1>0, <1>1, PickedComes
<1>4. PICK h : Dead(m) \in Seq(Node) /\ Comes(Dead(m), m, D, h)
  BY <1>0, <1>1, PickedComes
<1>5. IsFiniteSet(U) /\ IsFiniteSet(D)
  BY <1>0, UpToCount
<1>6. Len(Unexpired(m)) + Len(Dead(m)) = Len(m)
  <2>1. Cardinality(U \cup D) = Cardinality(U) + Cardinality(D) - Cardinality(U \cap D)
    BY <1>5, FS_Union
  <2>2. Cardinality(U \cap D) = 0 /\ Cardinality(U \cup D) = Len(m)
    BY <1>0, <1>2, UpToCount, FS_EmptySet
  <2>3. Len(Unexpired(m)) = Cardinality(U) /\ Len(Dead(m)) = Cardinality(D)
    BY <1>0, <1>3, <1>4, ComesCount
  <2> QED
    BY <1>0, <1>5, <2>1, <2>2, <2>3, FS_CardinalityType
<1>7. ASSUME NEW i
      PROVE  /\ Nodes(Unexpired(m), i) + Nodes(Dead(m), i) = Nodes(m, i)
             /\ {Nodes(Unexpired(m), i), Nodes(Dead(m), i), Nodes(m, i)} \subseteq Nat
  <2> DEFINE A == {n \in U : m[n].id = i}
             B == {n \in D : m[n].id = i}
  <2>1. IsFiniteSet(A) /\ IsFiniteSet(B)
    BY <1>5, FS_Subset
  <2>2. A \cup B = {n \in DOMAIN m : m[n].id = i} /\ A \cap B = {}
    BY <1>0, <1>2
  <2>3. Nodes(Unexpired(m), i) = Cardinality(A) /\ Nodes(Dead(m), i) = Cardinality(B)
    <3>1. \A j : Nodes(Unexpired(m), j) = Cardinality({n \in U : m[n].id = j})
      BY <1>0, <1>3, ComesNodes
    <3>2. \A j : Nodes(Dead(m), j) = Cardinality({n \in D : m[n].id = j})
      BY <1>0, <1>4, ComesNodes
    <3> QED
      BY <3>1, <3>2, Zenon
  <2>4. Nodes(m, i) = Cardinality(A \cup B)
    BY <2>2, Zenon DEF Nodes
  <2> HIDE DEF A, B
  <2>5. Cardinality(A \cup B) = Cardinality(A) + Cardinality(B) - Cardinality(A \cap B)
    BY <2>1, FS_Union
  <2>6. Cardinality(A \cap B) = 0 /\ Cardinality(A) \in Nat /\ Cardinality(B) \in Nat
    BY <2>1, <2>2, FS_EmptySet, FS_CardinalityType
  <2> QED
    BY <2>3, <2>4, <2>5, <2>6
<1> QED
  BY <1>3, <1>4, <1>6, <1>7 DEF U

\* What is left of a list has its members at most once, as the list had
LEMMA ComesMembers ==
    ASSUME NEW s \in Seq(Node), NEW m \in Seq(Node), NEW positions \in SUBSET (1 .. Len(m)),
           NEW g, Comes(s, m, positions, g)
    PROVE  /\ \A k \in 1 .. Len(s), i \in Ids : LiveAt(s, k, i) => LiveAt(m, g[k], i)
           /\ Once(m) => Once(s)
           /\ \A i \in Ids : IsMember(s, i) => IsMember(m, i)
<1>1. \A k \in 1 .. Len(s) : g[k] \in 1 .. Len(m) /\ s[k] = m[g[k]]
  BY DEF Comes
<1>2. \A k \in 1 .. Len(s), i \in Ids : LiveAt(s, k, i) => LiveAt(m, g[k], i)
  BY <1>1 DEF LiveAt
<1>3. ASSUME Once(m), NEW i \in Ids, NEW n \in 1 .. Len(s), NEW k \in 1 .. Len(s),
             LiveAt(s, n, i), LiveAt(s, k, i)
      PROVE  n = k
  <2>1. g[n] = g[k]
    BY <1>1, <1>2, <1>3 DEF Once
  <2> QED
    BY <2>1, ComesInjective
<1> QED
  BY <1>1, <1>2, <1>3 DEF Once, IsMember

\* The sweep keeps the members, and only members are left
LEMMA SweepMembers ==
    ASSUME NEW m \in Seq(Node)
    PROVE  /\ \A k \in 1 .. Len(Unexpired(m)) : ~ Expired(Unexpired(m)[k])
           /\ Once(m) => Once(Unexpired(m))
           /\ \A i \in Ids : IsMember(Unexpired(m), i) <=> IsMember(m, i)
<1> DEFINE U == {n \in 1 .. Len(m) : ~ Expired(m[n])}
           s == Unexpired(m)
<1>1. PICK g : s \in Seq(Node) /\ Comes(s, m, U, g)
  BY Sweep
<1>2. U \in SUBSET (1 .. Len(m))
  OBVIOUS
<1>3. \A k \in 1 .. Len(s) : ~ Expired(s[k])
  BY <1>1 DEF Comes
<1>4. ASSUME NEW i \in Ids, IsMember(m, i) PROVE IsMember(s, i)
  <2>1. PICK n \in U : LiveAt(m, n, i)
    BY <1>4 DEF IsMember, LiveAt
  <2>2. PICK k \in 1 .. Len(s) : g[k] = n
    BY <1>1 DEF Comes
  <2>3. s[k] = m[n]
    BY <1>1, <2>2 DEF Comes
  <2> QED
    BY <2>1, <2>2, <2>3 DEF IsMember, LiveAt
<1> HIDE DEF U, s
<1>5. Once(m) => Once(s)
  BY <1>1, <1>2, ComesMembers
<1>6. \A i \in Ids : IsMember(s, i) => IsMember(m, i)
  BY <1>1, <1>2, ComesMembers
<1> QED
  BY <1>3, <1>4, <1>5, <1>6 DEF s

\* A timeout changes neither the ids nor their order
LEMMA Late ==
    ASSUME NEW m \in Seq(Node), NEW late
    PROVE  /\ TimedOut(m, late) \in Seq(Node) /\ Len(TimedOut(m, late)) = Len(m)
           /\ \A n \in 1 .. Len(m) : TimedOut(m, late)[n].id = m[n].id
           /\ \A i : Nodes(TimedOut(m, late), i) = Nodes(m, i)
           /\ \A n, i : LiveAt(TimedOut(m, late), n, i) => LiveAt(m, n, i)
           /\ Once(m) => Once(TimedOut(m, late))
<1> DEFINE t == TimedOut(m, late)
<1>0. Len(m) \in Nat /\ DOMAIN m = 1 .. Len(m)
  OBVIOUS
<1>1. /\ t = [n \in 1 .. Len(m) |-> t[n]]
      /\ \A n \in 1 .. Len(m) : t[n] = IF m[n] = Member(late, "timed")
                                       THEN Member(late, "expired") ELSE m[n]
  BY <1>0 DEF TimedOut
<1>2. ASSUME NEW n \in 1 .. Len(m)
      PROVE  /\ t[n] \in Node /\ t[n].id = m[n].id
             /\ Expired(m[n]) => Expired(t[n])
  <2>1. m[n] \in Node
    OBVIOUS
  <2>2. CASE m[n] = Member(late, "timed")
    BY <1>1, <2>1, <2>2 DEF Member, Node, Expired
  <2>3. CASE m[n] # Member(late, "timed")
    BY <1>1, <2>1, <2>3
  <2> QED
    BY <2>2, <2>3
<1> HIDE DEF t
<1>3. t \in Seq(Node) /\ Len(t) = Len(m) /\ DOMAIN t = 1 .. Len(m)
  BY <1>0, <1>1, <1>2, SeqDef, LenProperties
<1>4. \A i : Nodes(t, i) = Nodes(m, i)
  <2>1. \A i : {n \in DOMAIN t : t[n].id = i} = {n \in DOMAIN m : m[n].id = i}
    BY <1>0, <1>2, <1>3
  <2> QED
    BY <2>1 DEF Nodes
<1>5. \A n, i : LiveAt(t, n, i) => LiveAt(m, n, i)
  BY <1>2, <1>3 DEF LiveAt
<1>6. Once(m) => Once(t)
  BY <1>3, <1>5 DEF Once
<1> QED
  BY <1>2, <1>3, <1>4, <1>5, <1>6 DEF t

One(id, i) == IF id = i THEN 1 ELSE 0

\* t is m with e at position p
Grown(t, m, p, e) ==
    /\ Len(t) = Len(m) + 1 /\ p \in 1 .. Len(t) /\ t[p] = e
    /\ \A n \in 1 .. Len(m) : IF n < p THEN t[n] = m[n] ELSE t[n + 1] = m[n]

\* A node more
LEMMA GrownFacts ==
    ASSUME NEW m \in Seq(Node), NEW t \in Seq(Node), NEW p, NEW e \in Node, Grown(t, m, p, e)
    PROVE  /\ \E g : /\ Comes(m, t, (1 .. Len(t)) \ {p}, g)
                     /\ \A k \in 1 .. Len(m) : g[k] = IF k < p THEN k ELSE k + 1
           /\ \A i : /\ Nodes(t, i) = Nodes(m, i) + One(e.id, i)
                     /\ Nodes(m, i) \in Nat
<1> DEFINE P == (1 .. Len(t)) \ {p}
           g == [k \in 1 .. Len(m) |-> IF k < p THEN k ELSE k + 1]
<1>0. /\ Len(m) \in Nat /\ Len(t) = Len(m) + 1 /\ p \in 1 .. Len(t) /\ t[p] = e
      /\ DOMAIN t = 1 .. Len(t) /\ p \in Nat
  BY DEF Grown
<1>1. \A k \in 1 .. Len(m) : g[k] = (IF k < p THEN k ELSE k + 1) /\ g[k] \in P
  BY <1>0
<1>2. Comes(m, t, P, g)
  <2>1. g \in [1 .. Len(m) -> P]
    BY <1>1
  <2>2. \A k, l \in 1 .. Len(m) : k < l => g[k] < g[l]
    BY <1>0
  <2>3. \A n \in P : \E k \in 1 .. Len(m) : g[k] = n
    <3> SUFFICES ASSUME NEW n \in P PROVE \E k \in 1 .. Len(m) : g[k] = n
      OBVIOUS
    <3>1. CASE n < p
      <4>1. n \in 1 .. Len(m) /\ g[n] = n
        BY <1>0, <3>1
      <4> QED
        BY <4>1
    <3>2. CASE n > p
      <4>1. n - 1 \in 1 .. Len(m) /\ g[n - 1] = n
        BY <1>0, <3>2
      <4> QED
        BY <4>1
    <3> QED
      BY <1>0, <3>1, <3>2
  <2>4. \A k \in 1 .. Len(m) : m[k] = t[g[k]]
    BY <1>0, <1>1 DEF Grown
  <2> HIDE DEF g, P
  <2> QED
    BY <2>1, <2>2, <2>3, <2>4 DEF Comes
<1>3. P \in SUBSET (1 .. Len(t))
  OBVIOUS
<1> HIDE DEF g, P
<1>4. ASSUME NEW i
      PROVE  /\ Nodes(t, i) = Nodes(m, i) + One(e.id, i)
             /\ Nodes(m, i) \in Nat
  <2> DEFINE A == {n \in P : t[n].id = i}
  <2>1. IsFiniteSet(A) /\ Cardinality(A) \in Nat
    <3>1. A \in SUBSET (1 .. Len(t))
      BY <1>3
    <3>2. Len(t) \in Nat
      BY <1>0
    <3> HIDE DEF A
    <3> QED
      BY <3>1, <3>2, UpToCount
  <2>2. Nodes(m, i) = Cardinality(A)
    <3>1. \A j : Nodes(m, j) = Cardinality({n \in P : t[n].id = j})
      BY <1>2, <1>3, ComesNodes
    <3> QED
      BY <3>1, Zenon
  <2>3. p \notin A /\ {n \in DOMAIN t : t[n].id = i} = IF e.id = i THEN A \cup {p} ELSE A
    BY <1>0 DEF P
  <2> HIDE DEF A
  <2>4. Nodes(t, i) = Cardinality(IF e.id = i THEN A \cup {p} ELSE A)
    BY <2>3 DEF Nodes
  <2>5. Cardinality(A \cup {p}) = Cardinality(A) + 1
    BY <2>1, <2>3, FS_AddElement
  <2> QED
    BY <2>1, <2>2, <2>4, <2>5 DEF One
<1> QED
  BY <1>1, <1>2, <1>4 DEF P

\* A node more that expired or is a new member
LEMMA GrownOnce ==
    ASSUME NEW m \in Seq(Node), NEW t \in Seq(Node), NEW p, NEW e \in Node, Grown(t, m, p, e),
           Once(m), Expired(e) \/ ~ IsMember(m, e.id)
    PROVE  Once(t)
<1>0. /\ Len(m) \in Nat /\ Len(t) = Len(m) + 1 /\ p \in 1 .. Len(t) /\ t[p] = e
  BY DEF Grown
<1>1. PICK g : Comes(m, t, (1 .. Len(t)) \ {p}, g)
  BY GrownFacts
<1>2. ASSUME NEW n \in 1 .. Len(t), n # p
      PROVE  \E k \in 1 .. Len(m) : g[k] = n /\ m[k] = t[n]
  BY <1>1, <1>2 DEF Comes
<1> SUFFICES ASSUME NEW i \in Ids, NEW n \in 1 .. Len(t), NEW l \in 1 .. Len(t),
                    LiveAt(t, n, i), LiveAt(t, l, i), n # l
             PROVE  FALSE
  BY DEF Once
<1>3. ~ (n = p \/ l = p)
  <2>1. CASE n = p
    BY <1>0, <1>2, <2>1 DEF LiveAt, IsMember
  <2>2. CASE l = p
    BY <1>0, <1>2, <2>2 DEF LiveAt, IsMember
  <2> QED
    BY <2>1, <2>2
<1> QED
  BY <1>2, <1>3 DEF LiveAt, Once

LEMMA InsertAtGrown ==
    ASSUME NEW m \in Seq(Node), NEW p \in 1 .. Len(m) + 1, NEW e \in Node
    PROVE  InsertAt(m, p, e) \in Seq(Node) /\ Grown(InsertAt(m, p, e), m, p, e)
<1> DEFINE L == Len(m)
           a == SubSeq(m, 1, p - 1)
           b == SubSeq(m, p, L)
           t == a \o <<e>>
<1>0. L \in Nat /\ p \in Nat /\ p >= 1 /\ p <= L + 1 /\ \A n \in 1 .. L : m[n] \in Node
  OBVIOUS
<1> HIDE DEF L
<1>1. /\ a \in Seq(Node) /\ Len(a) = p - 1 /\ \A n \in 1 .. p - 1 : a[n] = m[n]
  <2>1. \A n \in 1 .. p - 1 : m[n] \in Node
    BY <1>0
  <2> QED
    BY <1>0, <2>1, SubSeqProperties
<1>2. /\ b \in Seq(Node) /\ Len(b) = L - p + 1 /\ \A n \in 1 .. L - p + 1 : b[n] = m[p + n - 1]
  <2>1. \A n \in p .. L : m[n] \in Node
    BY <1>0
  <2> QED
    BY <1>0, <2>1, SubSeqProperties
<1> HIDE DEF a, b
<1>3. /\ t \in Seq(Node) /\ Len(t) = p /\ t[p] = e /\ \A n \in 1 .. p - 1 : t[n] = m[n]
  BY <1>0, <1>1
<1> HIDE DEF t
<1>4. /\ t \o b \in Seq(Node) /\ Len(t \o b) = L + 1
      /\ \A n \in 1 .. L + 1 : (t \o b)[n] = IF n <= p THEN t[n] ELSE b[n - p]
  <2>1. p + (L - p + 1) = L + 1
    BY <1>0
  <2>2. /\ t \o b \in Seq(Node) /\ Len(t \o b) = Len(t) + Len(b)
        /\ \A n \in 1 .. Len(t) + Len(b) :
              (t \o b)[n] = IF n <= Len(t) THEN t[n] ELSE b[n - Len(t)]
    BY <1>2, <1>3, ConcatProperties
  <2> QED
    BY <1>2, <1>3, <2>1, <2>2
<1>5. \A n \in 1 .. L : IF n < p THEN (t \o b)[n] = m[n] ELSE (t \o b)[n + 1] = m[n]
  <2> SUFFICES ASSUME NEW n \in 1 .. L
               PROVE  IF n < p THEN (t \o b)[n] = m[n] ELSE (t \o b)[n + 1] = m[n]
    OBVIOUS
  <2>1. CASE n < p
    BY <1>0, <1>3, <1>4, <2>1
  <2>2. CASE ~ (n < p)
    <3>1. n + 1 \in 1 .. L + 1 /\ ~ (n + 1 <= p) /\ (n + 1) - p \in 1 .. L - p + 1
          /\ p + ((n + 1) - p) - 1 = n
      BY <1>0, <2>2
    <3>2. (t \o b)[n + 1] = b[(n + 1) - p]
      BY <1>4, <3>1
    <3>3. b[(n + 1) - p] = m[p + ((n + 1) - p) - 1]
      BY <1>2, <3>1
    <3> QED
      BY <2>2, <3>1, <3>2, <3>3
  <2> QED
    BY <2>1, <2>2
<1>6. (t \o b)[p] = e
  BY <1>0, <1>3, <1>4
<1>7. InsertAt(m, p, e) = t \o b
  BY DEF InsertAt, a, b, t, L
<1> QED
  BY <1>0, <1>4, <1>5, <1>6, <1>7 DEF Grown, L

LEMMA AppendGrown ==
    ASSUME NEW m \in Seq(Node), NEW e \in Node
    PROVE  Append(m, e) \in Seq(Node) /\ Grown(Append(m, e), m, Len(m) + 1, e)
<1>0. Len(m) \in Nat
  OBVIOUS
<1>1. /\ Append(m, e) \in Seq(Node) /\ Len(Append(m, e)) = Len(m) + 1
      /\ \A n \in 1 .. Len(m) : Append(m, e)[n] = m[n]
      /\ Append(m, e)[Len(m) + 1] = e
  BY AppendProperties
<1>2. \A n \in 1 .. Len(m) : n < Len(m) + 1
  BY <1>0
<1> QED
  BY <1>0, <1>1, <1>2 DEF Grown

LEMMA RemoveAtShrinks ==
    ASSUME NEW m \in Seq(Node), NEW p \in 1 .. Len(m)
    PROVE  RemoveAt(m, p) \in Seq(Node) /\ Grown(m, RemoveAt(m, p), p, m[p])
<1> DEFINE L == Len(m)
           a == SubSeq(m, 1, p - 1)
           b == SubSeq(m, p + 1, L)
<1>0. L \in Nat /\ p \in Nat /\ p >= 1 /\ p <= L /\ \A n \in 1 .. L : m[n] \in Node
  OBVIOUS
<1> HIDE DEF L
<1>1. /\ a \in Seq(Node) /\ Len(a) = p - 1 /\ \A n \in 1 .. p - 1 : a[n] = m[n]
  <2>1. \A n \in 1 .. p - 1 : m[n] \in Node
    BY <1>0
  <2> QED
    BY <1>0, <2>1, SubSeqProperties
<1>2. /\ b \in Seq(Node) /\ Len(b) = L - p /\ \A n \in 1 .. L - p : b[n] = m[p + n]
  <2>1. \A n \in p + 1 .. L : m[n] \in Node
    BY <1>0
  <2>2. /\ b \in Seq(Node) /\ Len(b) = (IF p + 1 <= L THEN L - (p + 1) + 1 ELSE 0)
        /\ \A n \in 1 .. L - (p + 1) + 1 : b[n] = m[(p + 1) + n - 1]
    BY <1>0, <2>1, SubSeqProperties
  <2>3. L - (p + 1) + 1 = L - p /\ \A n \in 1 .. L - p : (p + 1) + n - 1 = p + n
    BY <1>0
  <2> QED
    BY <1>0, <2>2, <2>3
<1> HIDE DEF a, b
<1>3. /\ a \o b \in Seq(Node) /\ Len(a \o b) = L - 1
      /\ \A n \in 1 .. L - 1 : (a \o b)[n] = IF n <= p - 1 THEN a[n] ELSE b[n - (p - 1)]
  BY <1>0, <1>1, <1>2, ConcatProperties
<1>4. \A n \in 1 .. L - 1 : IF n < p THEN m[n] = (a \o b)[n] ELSE m[n + 1] = (a \o b)[n]
  <2> SUFFICES ASSUME NEW n \in 1 .. L - 1
               PROVE  IF n < p THEN m[n] = (a \o b)[n] ELSE m[n + 1] = (a \o b)[n]
    OBVIOUS
  <2>1. CASE n < p
    BY <1>0, <1>1, <1>3, <2>1
  <2>2. CASE ~ (n < p)
    <3>1. n - (p - 1) \in 1 .. L - p /\ p + (n - (p - 1)) = n + 1 /\ ~ (n <= p - 1)
      BY <1>0, <2>2
    <3>2. (a \o b)[n] = b[n - (p - 1)]
      BY <1>3, <3>1
    <3>3. b[n - (p - 1)] = m[p + (n - (p - 1))]
      BY <1>2, <3>1
    <3> QED
      BY <2>2, <3>1, <3>2, <3>3
  <2> QED
    BY <2>1, <2>2
<1>5. RemoveAt(m, p) = a \o b
  BY DEF RemoveAt, a, b, L
<1> DEFINE r == a \o b
<1>6. r \in Seq(Node) /\ Len(r) = L - 1
  BY <1>3
<1>7. \A n \in 1 .. L - 1 : IF n < p THEN m[n] = r[n] ELSE m[n + 1] = r[n]
  BY <1>4
<1> HIDE DEF r
<1>8. Len(m) = Len(r) + 1 /\ p \in 1 .. Len(m)
  BY <1>0, <1>6 DEF L
<1>9. Grown(m, r, p, m[p])
  BY <1>6, <1>7, <1>8 DEF Grown
<1> QED
  BY <1>5, <1>6, <1>9 DEF r

\* A node instead of another one
LEMMA Replaced ==
    ASSUME NEW m \in Seq(Node), NEW k \in 1 .. Len(m), NEW e \in Node
    PROVE  LET t == [m EXCEPT ![k] = e]
               r == RemoveAt(m, k)
           IN  /\ t \in Seq(Node) /\ Len(t) = Len(m) /\ r \in Seq(Node)
               /\ Grown(m, r, k, m[k]) /\ Grown(t, r, k, e)
<1> DEFINE t == [m EXCEPT ![k] = e]
           r == RemoveAt(m, k)
<1>1. t \in Seq(Node) /\ Len(t) = Len(m) /\ t[k] = e /\ \A n \in 1 .. Len(m) : n # k => t[n] = m[n]
  BY ExceptSeq
<1>2. r \in Seq(Node) /\ Grown(m, r, k, m[k])
  BY RemoveAtShrinks
<1> HIDE DEF t, r
<1>3. Len(m) = Len(r) + 1 /\ Len(r) \in Nat
  BY <1>2 DEF Grown
<1>4. \A n \in 1 .. Len(r) : IF n < k THEN t[n] = r[n] ELSE t[n + 1] = r[n]
  <2> SUFFICES ASSUME NEW n \in 1 .. Len(r)
               PROVE  IF n < k THEN t[n] = r[n] ELSE t[n + 1] = r[n]
    OBVIOUS
  <2>1. n \in 1 .. Len(m) /\ n + 1 \in 1 .. Len(m) /\ (n < k => n # k) /\ (~ (n < k) => n + 1 # k)
    BY <1>3
  <2> QED
    BY <1>1, <1>2, <2>1 DEF Grown
<1>5. Grown(t, r, k, e)
  BY <1>1, <1>2, <1>4 DEF Grown
<1> QED
  BY <1>1, <1>2, <1>5 DEF t, r

\* Where the walk finds a member
LEMMA Found ==
    ASSUME NEW m \in Seq(Node), NEW i
    PROVE  /\ Position(m, i) \in 0 .. Len(m)
           /\ Position(m, i) # 0 <=> IsMember(m, i)
           /\ Position(m, i) # 0 => LiveAt(m, Position(m, i), i)
           /\ \A n : Once(m) /\ LiveAt(m, n, i) /\ i \in Ids => Position(m, i) = n
<1> DEFINE at == {n \in 1 .. Len(m) : m[n].id = i /\ ~ Expired(m[n])}
<1>0. Len(m) \in Nat
  OBVIOUS
<1>1. Position(m, i) = IF at = {} THEN 0 ELSE Min(at)
  BY DEF Position, FoundFrom
<1>2. \A n : n \in at <=> LiveAt(m, n, i)
  BY DEF LiveAt
<1>3. at \subseteq 1 .. Len(m)
  OBVIOUS
<1> HIDE DEF at
<1>4. at # {} => Min(at) \in at
  <2> SUFFICES ASSUME at # {} PROVE Min(at) \in at
    OBVIOUS
  <2>1. PICK n \in at : \A k \in at : n <= k
    <3>1. at \subseteq Nat
      BY <1>3
    <3> QED
      BY <3>1, LeastNumber
  <2> QED
    BY <2>1 DEF Min
<1>5. CASE at = {}
  BY <1>0, <1>1, <1>2, <1>5 DEF IsMember, LiveAt
<1>6. CASE at # {}
  <2>1. Position(m, i) \in at
    BY <1>1, <1>4, <1>6
  <2>2. Position(m, i) \in 1 .. Len(m) /\ LiveAt(m, Position(m, i), i)
    BY <1>2, <1>3, <2>1
  <2>3. Position(m, i) \in 0 .. Len(m) /\ Position(m, i) # 0
    BY <1>0, <2>2
  <2>4. \A n : Once(m) /\ LiveAt(m, n, i) /\ i \in Ids => Position(m, i) = n
    BY <2>2 DEF Once, LiveAt
  <2> QED
    BY <2>2, <2>3, <2>4 DEF IsMember
<1> QED
  BY <1>5, <1>6

\* The members of a list, in both ways they are written
LEMMA LiveIs ==
    ASSUME NEW m \in Seq(Node)
    PROVE  /\ \A i \in Ids : i \in Live(m) <=> IsMember(m, i)
           /\ Live(m) \subseteq Ids
           /\ Once(m) => IsInjective(Order(m))
<1> DEFINE u == Unexpired(m)
<1>1. u \in Seq(Node) /\ \A k \in 1 .. Len(u) : ~ Expired(u[k])
  BY Sweep, SweepMembers
<1>2. \A i \in Ids : IsMember(u, i) <=> IsMember(m, i)
  BY SweepMembers
<1>3. Once(m) => Once(u)
  BY SweepMembers
<1>4. Order(m) = [k \in 1 .. Len(u) |-> u[k].id]
  BY DEF Order, IdsOf
<1> HIDE DEF u
<1>5. \A i : i \in Live(m) <=> \E k \in 1 .. Len(u) : u[k].id = i
  BY <1>4 DEF Live, ToSet
<1>6. \A k \in 1 .. Len(u) : u[k].id \in Ids
  <2>1. \A k \in 1 .. Len(u) : u[k] \in Node
    BY <1>1
  <2> QED
    BY <2>1 DEF Node
<1>7. \A i \in Ids : i \in Live(m) <=> IsMember(m, i)
  BY <1>1, <1>2, <1>5 DEF IsMember, LiveAt
<1>8. Once(m) => IsInjective(Order(m))
  BY <1>1, <1>3, <1>4, <1>6 DEF IsInjective, Once, LiveAt
<1> QED
  BY <1>5, <1>6, <1>7, <1>8

----------------------------------------------------------------------------
(* References                                                              *)

Others == Ids \union {ListId}

LEMMA Taken ==
    ASSUME NEW r \in [Others -> Int], NEW id \in Others \union {Nobody}
    PROVE  /\ Got(r, id) \in [Others -> Int] /\ Released(r, id) \in [Others -> Int]
           /\ \A i \in Others : /\ Got(r, id)[i] = r[i] + One(id, i)
                                /\ Released(r, id)[i] = r[i] - One(id, i)
<1>1. Nobody \notin Others
  BY ListSetAssumption DEF Others
<1> QED
  BY <1>1 DEF Got, Released, One

LEMMA AllReleased ==
    ASSUME NEW r \in [Others -> Int], NEW m \in Seq(Node)
    PROVE  /\ ReleasedAll(r, m) \in [Others -> Int]
           /\ \A i \in Others : ReleasedAll(r, m)[i] = r[i] - Nodes(m, i)
<1>1. \A i : Nodes(m, i) \in Nat
  BY Sweep
<1> QED
  BY <1>1 DEF ReleasedAll

\* The ways out of a command
LEMMA Finished ==
    ASSUME NEW r \in [Others -> Int], NEW id \in Others \union {Nobody},
           NEW refid \in Others \union {Nobody}
    PROVE  LET kept == Finish(r, "add", "ok", id, refid)
           IN  /\ kept \in [Others -> Int]
               /\ \A i \in Others : kept[i] = r[i] - One(refid, i)
<1> QED
  BY Taken DEF Finish

LEMMA FinishedBoth ==
    ASSUME NEW r \in [Others -> Int], NEW id \in Others \union {Nobody},
           NEW refid \in Others \union {Nobody}, NEW cmd, NEW ret, cmd # "add" \/ ret # "ok"
    PROVE  LET put == Finish(r, cmd, ret, id, refid)
           IN  /\ put \in [Others -> Int]
               /\ \A i \in Others : put[i] = r[i] - One(refid, i) - One(id, i)
<1>1. Released(r, refid) \in [Others -> Int]
  BY Taken
<1>2. Finish(r, cmd, ret, id, refid) = Released(Released(r, refid), id)
  BY DEF Finish
<1> HIDE DEF Released
<1>3. Released(Released(r, refid), id) \in [Others -> Int]
  BY <1>1, Taken
<1>4. \A i \in Others : /\ Released(r, refid)[i] = r[i] - One(refid, i)
                        /\ Released(Released(r, refid), id)[i] = Released(r, refid)[i] - One(id, i)
  BY <1>1, Taken
<1>5. \A i \in Others : One(refid, i) \in Int /\ One(id, i) \in Int /\ r[i] \in Int
  BY DEF One
<1> QED
  BY <1>2, <1>3, <1>4, <1>5

----------------------------------------------------------------------------
(* The list, its references and its counter                                *)

Lists ==
    /\ members \in Seq(Node) /\ Len(members) <= MaxMembers /\ Once(members)
    /\ ref \in [Others -> Nat] /\ replaced \in 0 .. MaxReplaced
    /\ RefsExact /\ ElementsCounted

\* The list, with its references as integers, is as it should be
LEMMA ListsAgain ==
    ASSUME members' \in Seq(Node), Len(members') <= MaxMembers, Once(members'),
           ref' \in [Others -> Int], \A i \in Others : ref'[i] = Nodes(members', i),
           replaced' \in 0 .. MaxReplaced, elements' = Len(members') + replaced'
    PROVE  Lists'
<1>1. \A i : Nodes(members', i) \in Nat
  BY Sweep
<1>2. ref' \in [Others -> Nat]
  BY <1>1
<1> QED
  BY <1>2 DEF Lists, RefsExact, ElementsCounted, Others

\* What a command works on after its sweep: the list it walks, the one that is
\* there afterwards, and the references including the two it has taken
Walk(walked, now) ==
    \E late : /\ now = TimedOut(Unexpired(members), late)
              /\ walked \in {Unexpired(members), now}

LEMMA Walked ==
    ASSUME Lists, NEW walked, NEW now, Walk(walked, now)
    PROVE  /\ walked \in Seq(Node) /\ now \in Seq(Node)
           /\ Len(walked) = Len(now) /\ Len(now) <= MaxMembers
           /\ Once(walked) /\ Once(now)
           /\ \A n \in 1 .. Len(now) : now[n].id = walked[n].id
           /\ \A n, i : LiveAt(now, n, i) => LiveAt(walked, n, i)
           /\ \A i : IsMember(now, i) => IsMember(walked, i)
           /\ \A i : Nodes(now, i) + Nodes(Dead(members), i) = Nodes(members, i)
           /\ \A i : {Nodes(now, i), Nodes(Dead(members), i)} \subseteq Nat
           /\ SweptElements = Len(now) + replaced
           /\ Len(Dead(members)) \in Nat
<1> DEFINE swept == Unexpired(members)
<1>1. PICK late : now = TimedOut(swept, late) /\ walked \in {swept, now}
  BY DEF Walk
<1>2. /\ swept \in Seq(Node) /\ Len(swept) + Len(Dead(members)) = Len(members)
      /\ \A i : Nodes(swept, i) + Nodes(Dead(members), i) = Nodes(members, i)
      /\ \A i : {Nodes(swept, i), Nodes(Dead(members), i)} \subseteq Nat
      /\ Dead(members) \in Seq(Node)
  BY Sweep, ZenonT(60) DEF Lists
<1>3. Once(swept)
  BY SweepMembers DEF Lists
<1>4. Len(swept) \in Nat /\ Len(Dead(members)) \in Nat /\ Len(members) \in Nat
      /\ Len(swept) <= MaxMembers /\ MaxMembers \in Nat /\ replaced \in Nat
  <2>1. Len(members) <= MaxMembers /\ MaxMembers \in Nat /\ replaced \in Nat
        /\ members \in Seq(Node)
    BY ListSetAssumption DEF Lists
  <2>2. Len(swept) \in Nat /\ Len(Dead(members)) \in Nat /\ Len(members) \in Nat
    BY <1>2, <2>1
  <2> QED
    BY <1>2, <2>1, <2>2
<1> HIDE DEF swept
<1>5. /\ now \in Seq(Node) /\ Len(now) = Len(swept)
      /\ \A n \in 1 .. Len(swept) : now[n].id = swept[n].id
      /\ \A i : Nodes(now, i) = Nodes(swept, i)
      /\ \A n, i : LiveAt(now, n, i) => LiveAt(swept, n, i)
      /\ Once(now)
  BY <1>1, <1>2, <1>3, Late
<1>6. SweptElements = Len(now) + replaced
  <2>1. elements = Len(members) + replaced
    BY DEF Lists, ElementsCounted
  <2>2. SweptElements = elements - Len(Dead(members))
    BY DEF SweptElements
  <2>3. Len(now) = Len(swept) /\ Len(swept) + Len(Dead(members)) = Len(members)
    BY <1>2, <1>5
  <2> QED
    BY <1>4, <2>1, <2>2, <2>3
<1>7. CASE walked = swept
  BY <1>2, <1>3, <1>4, <1>5, <1>6, <1>7 DEF IsMember, LiveAt
<1>8. CASE walked = now
  BY <1>2, <1>3, <1>4, <1>5, <1>6, <1>8
<1> QED
  BY <1>1, <1>7, <1>8

LEMMA SweptRefs ==
    ASSUME Lists, NEW walked, NEW now, Walk(walked, now), NEW id \in Ids,
           NEW refid \in Others \union {Nobody}
    PROVE  /\ Swept(Got(Got(ref, id), refid)) \in [Others -> Int]
           /\ \A i \in Others : Swept(Got(Got(ref, id), refid))[i] =
                Nodes(now, i) + One(id, i) + One(refid, i)
<1>0. ref \in [Others -> Int] /\ members \in Seq(Node) /\ id \in Others
  BY DEF Lists, Others
<1>1. Dead(members) \in Seq(Node)
  BY <1>0, Sweep
<1>2. /\ Got(ref, id) \in [Others -> Int]
      /\ \A i \in Others : Got(ref, id)[i] = ref[i] + One(id, i)
  BY <1>0, Taken
<1>3. /\ Got(Got(ref, id), refid) \in [Others -> Int]
      /\ \A i \in Others : Got(Got(ref, id), refid)[i] = Got(ref, id)[i] + One(refid, i)
  BY <1>2, Taken
<1>4. /\ Swept(Got(Got(ref, id), refid)) \in [Others -> Int]
      /\ \A i \in Others : Swept(Got(Got(ref, id), refid))[i] =
            Got(Got(ref, id), refid)[i] - Nodes(Dead(members), i)
  BY <1>1, <1>3, AllReleased DEF Swept
<1>5. \A i \in Others : ref[i] = Nodes(members, i)
  BY DEF Lists, RefsExact, Others
<1>6. \A i \in Others : /\ Nodes(now, i) + Nodes(Dead(members), i) = Nodes(members, i)
                        /\ Nodes(now, i) \in Nat /\ Nodes(Dead(members), i) \in Nat
                        /\ One(id, i) \in Nat /\ One(refid, i) \in Nat
  BY Walked DEF One
<1> QED
  BY <1>2, <1>3, <1>4, <1>5, <1>6

\* The ways out of an add
LEMMA AddFailsLists ==
    ASSUME Lists, NEW walked, NEW now, Walk(walked, now), NEW id \in Ids,
           NEW refid \in Others \union {Nobody}, NEW side,
           NEW why \in {"REF_EXIST", "EXIST", "ENOMEM"}, AddFails(why, now, side, id, refid)
    PROVE  Lists'
<1> DEFINE r == Swept(Got(Got(ref, id), refid))
<1>1. r \in [Others -> Int] /\ \A i \in Others : r[i] = Nodes(now, i) + One(id, i) + One(refid, i)
  BY SweptRefs
<1> HIDE DEF r
<1>2. /\ ref' = Finish(r, "add", why, id, refid) /\ members' = now
      /\ elements' = SweptElements /\ replaced' = replaced
  BY DEF AddFails, r
<1>3. id \in Others /\ why # "ok"
  BY DEF Others
<1>4. /\ ref' \in [Others -> Int]
      /\ \A i \in Others : ref'[i] = r[i] - One(refid, i) - One(id, i)
  <2>1. "add" # "add" \/ why # "ok"
    BY <1>3
  <2> QED
    BY <1>1, <1>2, <1>3, <2>1, FinishedBoth
<1>5. \A i \in Others : Nodes(now, i) \in Nat /\ One(id, i) \in Nat /\ One(refid, i) \in Nat
  BY Walked DEF One
<1>6. \A i \in Others : ref'[i] = Nodes(members', i)
  BY <1>1, <1>2, <1>4, <1>5
<1>7. /\ now \in Seq(Node) /\ Len(now) <= MaxMembers /\ Once(now)
      /\ SweptElements = Len(now) + replaced
  BY Walked
<1>8. replaced' \in 0 .. MaxReplaced
  BY <1>2 DEF Lists
<1> QED
  BY <1>2, <1>4, <1>6, <1>7, <1>8, ListsAgain

LEMMA AddAgainLists ==
    ASSUME Lists, NEW walked, NEW now, Walk(walked, now), NEW id \in Ids,
           NEW refid \in Others \union {Nobody}, NEW side, NEW life \in Lives,
           Position(walked, id) # 0, AddAgain(now, Position(walked, id), side, id, refid, life)
    PROVE  Lists'
<1> DEFINE S == Swept(Got(Got(ref, id), refid))
           n == Position(walked, id)
           e == Member(id, life)
           t == [now EXCEPT ![n] = e]
           r == RemoveAt(now, n)
<1>0. /\ walked \in Seq(Node) /\ now \in Seq(Node) /\ Len(walked) = Len(now)
      /\ Len(now) <= MaxMembers /\ Once(walked) /\ Once(now)
      /\ \A k \in 1 .. Len(now) : now[k].id = walked[k].id
      /\ \A k, i : LiveAt(now, k, i) => LiveAt(walked, k, i)
      /\ SweptElements = Len(now) + replaced
  BY Walked
<1>1. S \in [Others -> Int] /\ \A i \in Others : S[i] = Nodes(now, i) + One(id, i) + One(refid, i)
  BY SweptRefs
<1> HIDE DEF S
<1>2. n \in 1 .. Len(now) /\ LiveAt(walked, n, id)
  BY <1>0, Found DEF LiveAt
<1>3. now[n] \in Node /\ now[n].id = id /\ e \in Node /\ e.id = id
  <2>1. e \in Node /\ e.id = id
    BY DEF Node, Member
  <2>2. now[n] \in Node
    BY <1>0, <1>2
  <2> HIDE DEF n
  <2> QED
    BY <1>0, <1>2, <2>1, <2>2 DEF LiveAt
<1>4. members' = t
  <2>1. [now[n] EXCEPT !.life = life] = e
    BY <1>3 DEF Node, Member
  <2>2. members' = [now EXCEPT ![n] = [now[n] EXCEPT !.life = life]]
    BY DEF AddAgain
  <2> QED
    BY <2>1, <2>2
<1>5. /\ t \in Seq(Node) /\ Len(t) = Len(now) /\ r \in Seq(Node)
      /\ Grown(now, r, n, now[n]) /\ Grown(t, r, n, e)
  BY <1>0, <1>2, <1>3, Replaced
<1>6. ref' = Finish(Released(S, id), "add", "ok", id, refid)
  BY DEF AddAgain, S
<1>7. elements' = SweptElements /\ replaced' = replaced
  BY DEF AddAgain
<1> HIDE DEF t, r, e, n
<1>8. \A i \in Others : Nodes(t, i) = Nodes(now, i) /\ Nodes(now, i) \in Nat
  <2>1. \A i : /\ Nodes(now, i) = Nodes(r, i) + One(now[n].id, i)
               /\ Nodes(r, i) \in Nat
    <3> DEFINE f == now[n]
    <3>1. now \in Seq(Node) /\ r \in Seq(Node) /\ f \in Node /\ Grown(now, r, n, f)
      BY <1>0, <1>3, <1>5
    <3> HIDE DEF f
    <3>2. \A i : Nodes(now, i) = Nodes(r, i) + One(f.id, i) /\ Nodes(r, i) \in Nat
      BY <3>1, GrownFacts
    <3> QED
      BY <3>2 DEF f
  <2>2. \A i : Nodes(t, i) = Nodes(r, i) + One(e.id, i)
    <3>1. t \in Seq(Node) /\ r \in Seq(Node) /\ e \in Node /\ Grown(t, r, n, e)
      BY <1>3, <1>5
    <3> QED
      BY <3>1, GrownFacts
  <2>3. \A i : One(id, i) \in Nat
    BY DEF One
  <2> QED
    BY <1>3, <2>1, <2>2, <2>3
<1>9. /\ ref' \in [Others -> Int]
      /\ \A i \in Others : ref'[i] = S[i] - One(id, i) - One(refid, i)
  <2>1. id \in Others
    BY DEF Others
  <2>2. /\ Released(S, id) \in [Others -> Int]
        /\ \A i \in Others : Released(S, id)[i] = S[i] - One(id, i)
    BY <1>1, <2>1, Taken
  <2> HIDE DEF Released
  <2>3. /\ ref' \in [Others -> Int]
        /\ \A i \in Others : ref'[i] = Released(S, id)[i] - One(refid, i)
    BY <1>6, <2>1, <2>2, Finished
  <2>4. \A i \in Others : One(id, i) \in Nat /\ One(refid, i) \in Nat /\ S[i] \in Int
    BY <1>1 DEF One
  <2> QED
    BY <2>2, <2>3, <2>4
<1>10. \A i \in Others : ref'[i] = Nodes(t, i)
  <2>1. \A i \in Others : One(id, i) \in Nat /\ One(refid, i) \in Nat
    BY DEF One
  <2> QED
    BY <1>1, <1>8, <1>9, <2>1
<1>11. Once(t)
  <2>1. PICK g : Comes(r, now, (1 .. Len(now)) \ {n}, g)
    BY <1>0, <1>3, <1>5, GrownFacts
  <2>2. (1 .. Len(now)) \ {n} \in SUBSET (1 .. Len(now))
    OBVIOUS
  <2>3. Once(r) /\ \A k \in 1 .. Len(r), i \in Ids : LiveAt(r, k, i) => LiveAt(now, g[k], i)
    BY <1>0, <1>5, <2>1, <2>2, ComesMembers
  <2>4. ~ IsMember(r, id)
    <3> SUFFICES ASSUME NEW k \in 1 .. Len(r), LiveAt(r, k, id) PROVE FALSE
      BY DEF IsMember
    <3>1. LiveAt(walked, g[k], id) /\ g[k] # n
      BY <1>0, <2>1, <2>3 DEF Comes
    <3> QED
      BY <1>0, <1>2, <3>1 DEF Once, LiveAt
  <2> QED
    BY <1>3, <1>5, <2>3, <2>4, GrownOnce
<1>12. replaced' \in 0 .. MaxReplaced
  BY <1>7 DEF Lists
<1> QED
  BY <1>0, <1>4, <1>5, <1>7, <1>9, <1>10, <1>11, <1>12, ListsAgain

LEMMA ReplaceLists ==
    ASSUME Lists, NEW walked, NEW now, Walk(walked, now), NEW id \in Ids,
           NEW refid \in Others \union {Nobody}, NEW side, NEW life \in Lives,
           ~ IsMember(walked, id), NEW k \in 1 .. Len(now),
           list_set_replace(now, k, side, id, refid, life)
    PROVE  Lists'
<1> DEFINE S == Swept(Got(Got(ref, id), refid))
           e == Member(id, life)
           old == now[k].id
           t == [now EXCEPT ![k] = e]
           r == RemoveAt(now, k)
<1>0. /\ now \in Seq(Node) /\ Len(now) <= MaxMembers /\ Once(now)
      /\ IsMember(now, id) => IsMember(walked, id)
      /\ SweptElements = Len(now) + replaced
  BY Walked
<1>1. S \in [Others -> Int] /\ \A i \in Others : S[i] = Nodes(now, i) + One(id, i) + One(refid, i)
  BY SweptRefs
<1> HIDE DEF S
<1>2. e \in Node /\ e.id = id
  BY DEF Node, Member
<1>3. now[k] \in Node /\ old \in Others
  <2>1. now[k] \in Node
    BY <1>0
  <2> QED
    BY <2>1 DEF Node, Others
<1>4. /\ t \in Seq(Node) /\ Len(t) = Len(now) /\ r \in Seq(Node)
      /\ Grown(now, r, k, now[k]) /\ Grown(t, r, k, e)
  BY <1>0, <1>2, Replaced
<1>5. /\ ref' = Finish(Released(S, old), "add", "ok", id, refid) /\ members' = t
      /\ elements' = SweptElements + 1 /\ replaced' = replaced + 1 /\ replaced < MaxReplaced
  BY DEF list_set_replace, S
<1> HIDE DEF t, r, e
<1>6. \A i : Nodes(now, i) = Nodes(r, i) + One(old, i) /\ Nodes(r, i) \in Nat
  BY <1>0, <1>3, <1>4, GrownFacts
<1> HIDE DEF old
<1>7. \A i : Nodes(t, i) = Nodes(r, i) + One(id, i)
  BY <1>2, <1>4, GrownFacts, ZenonT(60)
<1>8. id \in Others
  BY DEF Others
<1>9. /\ Released(S, old) \in [Others -> Int]
      /\ \A i \in Others : Released(S, old)[i] = S[i] - One(old, i)
  BY <1>1, <1>3, Taken
<1> HIDE DEF Released
<1>10. /\ ref' \in [Others -> Int]
       /\ \A i \in Others : ref'[i] = Released(S, old)[i] - One(refid, i)
  BY <1>5, <1>8, <1>9, Finished
<1>11. \A i \in Others : ref'[i] = Nodes(t, i)
  <2>1. \A i : One(id, i) \in Nat /\ One(refid, i) \in Nat /\ One(old, i) \in Nat
    BY DEF One
  <2> QED
    BY <1>1, <1>6, <1>7, <1>9, <1>10, <2>1, SMTT(40)
<1>12. Once(t)
  <2>1. PICK g : Comes(r, now, (1 .. Len(now)) \ {k}, g)
    BY <1>0, <1>3, <1>4, GrownFacts
  <2>2. (1 .. Len(now)) \ {k} \in SUBSET (1 .. Len(now))
    OBVIOUS
  <2>3. Once(r) /\ (IsMember(r, id) => IsMember(now, id))
    BY <1>0, <1>4, <2>1, <2>2, ComesMembers
  <2> QED
    BY <1>0, <1>2, <1>4, <2>3, GrownOnce
<1>13. /\ replaced' \in 0 .. MaxReplaced /\ Len(now) \in Nat /\ replaced \in Nat
  <2>1. replaced \in 0 .. MaxReplaced /\ MaxReplaced \in Nat
    BY ListSetAssumption DEF Lists
  <2> QED
    BY <1>0, <1>5, <2>1
<1>14. elements' = Len(t) + replaced'
  BY <1>0, <1>4, <1>5, <1>13
<1> QED
  BY <1>0, <1>4, <1>5, <1>10, <1>11, <1>12, <1>13, <1>14, ListsAgain

\* Wherever a new member is put, the list is one node longer
LEMMA InsertedGrown ==
    ASSUME NEW now \in Seq(Node), NEW side \in {"last", "before", "after"}, NEW p \in 0 .. Len(now),
           side # "last" => p # 0, NEW e \in Node
    PROVE  /\ Inserted(now, side, p, e) \in Seq(Node)
           /\ \E q : Grown(Inserted(now, side, p, e), now, q, e)
<1>0. Len(now) \in Nat
  OBVIOUS
<1>1. CASE side = "last"
  BY <1>1, AppendGrown DEF Inserted
<1>2. CASE side = "before"
  <2>1. p \in 1 .. Len(now) + 1 /\ Inserted(now, side, p, e) = InsertAt(now, p, e)
    BY <1>0, <1>2 DEF Inserted
  <2> QED
    BY <2>1, InsertAtGrown
<1>3. CASE side = "after"
  <2>1. p + 1 \in 1 .. Len(now) + 1 /\ Inserted(now, side, p, e) = InsertAt(now, p + 1, e)
    BY <1>0, <1>3 DEF Inserted
  <2> QED
    BY <2>1, InsertAtGrown
<1> QED
  BY <1>1, <1>2, <1>3

LEMMA AddNewLists ==
    ASSUME Lists, NEW walked, NEW now, Walk(walked, now), NEW id \in Ids,
           NEW refid \in Others \union {Nobody}, NEW side \in {"last", "before", "after"},
           NEW life \in Lives, ~ IsMember(walked, id), NEW p \in 0 .. Len(now),
           side # "last" => p # 0, AddNew(now, side, p, id, refid, life)
    PROVE  Lists'
<1> DEFINE S == Swept(Got(Got(ref, id), refid))
           e == Member(id, life)
           t == Inserted(now, side, p, e)
<1>0. /\ now \in Seq(Node) /\ Len(now) <= MaxMembers /\ Once(now)
      /\ IsMember(now, id) => IsMember(walked, id)
      /\ SweptElements = Len(now) + replaced
  BY Walked
<1>1. S \in [Others -> Int] /\ \A i \in Others : S[i] = Nodes(now, i) + One(id, i) + One(refid, i)
  BY SweptRefs
<1> HIDE DEF S
<1>2. e \in Node /\ e.id = id
  BY DEF Node, Member
<1>3. /\ ref' = Finish(S, "add", "ok", id, refid) /\ members' = t
      /\ elements' = SweptElements + 1 /\ replaced' = replaced /\ Len(now) < MaxMembers
  BY DEF AddNew, S
<1> HIDE DEF e
<1>4. t \in Seq(Node) /\ \E q : Grown(t, now, q, e)
  BY <1>0, <1>2, InsertedGrown
<1> HIDE DEF t
<1>5. PICK q : Grown(t, now, q, e)
  BY <1>4
<1>6. \A i : Nodes(t, i) = Nodes(now, i) + One(id, i) /\ Nodes(now, i) \in Nat
  BY <1>0, <1>2, <1>4, <1>5, GrownFacts, ZenonT(60)
<1>7. id \in Others
  BY DEF Others
<1>8. /\ ref' \in [Others -> Int]
      /\ \A i \in Others : ref'[i] = S[i] - One(refid, i)
  BY <1>1, <1>3, <1>7, Finished
<1>9. \A i \in Others : ref'[i] = Nodes(t, i)
  <2>1. \A i : One(id, i) \in Nat /\ One(refid, i) \in Nat
    BY DEF One
  <2> QED
    BY <1>1, <1>6, <1>8, <2>1
<1>10. Once(t)
  BY <1>0, <1>2, <1>4, <1>5, GrownOnce
<1>11. Len(t) = Len(now) + 1
  BY <1>5 DEF Grown
<1>12. Len(now) \in Nat /\ replaced \in Nat /\ MaxMembers \in Nat /\ replaced \in 0 .. MaxReplaced
  BY <1>0, ListSetAssumption DEF Lists
<1>13. Len(t) <= MaxMembers /\ elements' = Len(t) + replaced'
  BY <1>0, <1>3, <1>11, <1>12
<1> QED
  BY <1>3, <1>4, <1>8, <1>9, <1>10, <1>12, <1>13, ListsAgain

LEMMA DelLists ==
    ASSUME Lists, NEW walked, NEW now, Walk(walked, now), NEW id \in Ids,
           NEW refid \in Others \union {Nobody}, NEW side, NEW exist,
           list_set_udel(walked, now, side, id, refid, exist)
    PROVE  Lists'
<1> DEFINE S == Swept(Got(Got(ref, id), refid))
           ret == DelAnswer(walked, side, id, refid, exist)
           n == Position(walked, id)
<1>0. /\ walked \in Seq(Node) /\ now \in Seq(Node) /\ Len(walked) = Len(now)
      /\ Len(now) <= MaxMembers /\ Once(now)
      /\ \A k \in 1 .. Len(now) : now[k].id = walked[k].id
      /\ SweptElements = Len(now) + replaced
      /\ \A i : Nodes(now, i) \in Nat
  BY Walked
<1>1. S \in [Others -> Int] /\ \A i \in Others : S[i] = Nodes(now, i) + One(id, i) + One(refid, i)
  BY SweptRefs
<1> HIDE DEF S
<1>2. /\ members' = IF ret = "deleted" THEN RemoveAt(now, n) ELSE now
      /\ elements' = SweptElements - (IF ret = "deleted" THEN 1 ELSE 0)
      /\ ref' = Finish(Released(S, IF ret = "deleted" THEN id ELSE Nobody), "del", ret, id, refid)
      /\ replaced' = replaced
  BY DEF list_set_udel, S
<1>3. ret = "deleted" => n # 0
  BY DEF DelAnswer
<1>4. n # 0 => n \in 1 .. Len(now) /\ now[n].id = id
  BY <1>0, Found DEF LiveAt
<1> HIDE DEF ret, n
<1>5. id \in Others /\ Nobody \notin Others /\ \A i : One(id, i) \in Nat /\ One(refid, i) \in Nat
  BY ListSetAssumption DEF Others, One
<1>6. replaced' \in 0 .. MaxReplaced /\ replaced \in Nat /\ Len(now) \in Nat
  BY <1>0, <1>2, ListSetAssumption DEF Lists
<1>7. CASE ret = "deleted"
  <2> DEFINE t == RemoveAt(now, n)
  <2>1. t \in Seq(Node) /\ Grown(now, t, n, now[n])
    BY <1>0, <1>3, <1>4, <1>7, RemoveAtShrinks
  <2> HIDE DEF t
  <2>2. now[n] \in Node /\ now[n].id = id /\ Len(now) = Len(t) + 1
    BY <1>0, <1>3, <1>4, <1>7, <2>1 DEF Grown
  <2>3. \A i : Nodes(now, i) = Nodes(t, i) + One(id, i) /\ Nodes(t, i) \in Nat
    <3>1. \A i : Nodes(now, i) = Nodes(t, i) + One(now[n].id, i) /\ Nodes(t, i) \in Nat
      BY <1>0, <2>1, <2>2, GrownFacts
    <3> QED
      BY <2>2, <3>1
  <2>4. Once(t)
    <3>1. PICK g : Comes(t, now, (1 .. Len(now)) \ {n}, g)
      BY <1>0, <2>1, <2>2, GrownFacts
    <3>2. (1 .. Len(now)) \ {n} \in SUBSET (1 .. Len(now))
      OBVIOUS
    <3> QED
      BY <1>0, <2>1, <3>1, <3>2, ComesMembers
  <2>5. /\ Released(S, id) \in [Others -> Int]
        /\ \A i \in Others : Released(S, id)[i] = S[i] - One(id, i)
    BY <1>1, <1>5, Taken
  <2>6. ref' = Finish(Released(S, id), "del", ret, id, refid)
    BY <1>2, <1>7
  <2> HIDE DEF Released
  <2>7. /\ ref' \in [Others -> Int]
        /\ \A i \in Others : ref'[i] = Released(S, id)[i] - One(refid, i) - One(id, i)
    BY <1>5, <2>5, <2>6, FinishedBoth
  <2>8. \A i \in Others : ref'[i] = Nodes(t, i)
    BY <1>1, <1>5, <2>3, <2>5, <2>7
  <2>9. Len(t) \in Nat /\ MaxMembers \in Nat
    BY <2>1, ListSetAssumption
  <2>10. members' = t /\ Len(t) <= MaxMembers /\ elements' = Len(t) + replaced'
    BY <1>0, <1>2, <1>6, <1>7, <2>2, <2>9 DEF t
  <2> QED
    BY <1>6, <2>1, <2>4, <2>7, <2>8, <2>10, ListsAgain
<1>8. CASE ret # "deleted"
  <2>1. /\ Released(S, Nobody) \in [Others -> Int]
        /\ \A i \in Others : Released(S, Nobody)[i] = S[i]
    BY <1>1, <1>5 DEF Released
  <2>2. ref' = Finish(Released(S, Nobody), "del", ret, id, refid) /\ members' = now
        /\ elements' = SweptElements - 0
    BY <1>2, <1>8
  <2> HIDE DEF Released
  <2>3. /\ ref' \in [Others -> Int]
        /\ \A i \in Others : ref'[i] = Released(S, Nobody)[i] - One(refid, i) - One(id, i)
    BY <1>5, <2>1, <2>2, FinishedBoth
  <2>4. \A i \in Others : ref'[i] = Nodes(members', i)
    <3>1. \A i \in Others : ref'[i] = Nodes(now, i)
      <4> SUFFICES ASSUME NEW i \in Others PROVE ref'[i] = Nodes(now, i)
        OBVIOUS
      <4>1. Released(S, Nobody)[i] = Nodes(now, i) + One(id, i) + One(refid, i)
        BY <1>1, <2>1
      <4>2. ref'[i] = Released(S, Nobody)[i] - One(refid, i) - One(id, i)
        BY <2>3
      <4>3. Nodes(now, i) \in Nat /\ One(id, i) \in Nat /\ One(refid, i) \in Nat
        BY <1>0, <1>5
      <4> QED
        BY <4>1, <4>2, <4>3
    <3> QED
      BY <2>2, <3>1
  <2>5. elements' = Len(members') + replaced'
    BY <1>0, <1>2, <1>6, <2>2
  <2> QED
    BY <1>0, <1>6, <2>2, <2>3, <2>4, <2>5, ListsAgain
<1> QED
  BY <1>7, <1>8

\* Commands that leave the list alone put back what they took
LEMMA ListsKept ==
    ASSUME Lists, UNCHANGED <<members, elements, replaced>>,
           ref' \in [Others -> Int], \A i \in Others : ref'[i] = ref[i]
    PROVE  Lists'
<1>1. members' = members /\ elements' = elements /\ replaced' = replaced
  OBVIOUS
<1>2. \A i \in Others : ref'[i] = Nodes(members', i)
  BY <1>1 DEF Lists, RefsExact, Others
<1>3. /\ members' \in Seq(Node) /\ Len(members') <= MaxMembers /\ Once(members')
      /\ replaced' \in 0 .. MaxReplaced /\ elements' = Len(members') + replaced'
  BY <1>1 DEF Lists, ElementsCounted
<1> QED
  BY <1>2, <1>3, ListsAgain

LEMMA RefuseLists ==
    ASSUME Lists, NEW cmd, NEW id \in Others \union {Nobody}, NEW before, NEW hasref, NEW refid,
           Refuse(cmd, id, before, hasref, refid)
    PROVE  Lists'
<1> DEFINE why == EarlyError(id, before, hasref, refid)
<1>1. /\ why # "ok" /\ UNCHANGED <<members, elements, replaced>>
      /\ ref' = IF id = Nobody THEN ref ELSE Finish(Got(ref, id), cmd, why, id, Nobody)
  BY DEF Refuse
<1>2. ref \in [Others -> Int]
  BY DEF Lists
<1> HIDE DEF why
<1>3. CASE id = Nobody
  BY <1>1, <1>2, <1>3, ListsKept
<1>4. CASE id # Nobody
  <2>1. /\ Got(ref, id) \in [Others -> Int]
        /\ \A i \in Others : Got(ref, id)[i] = ref[i] + One(id, i)
    BY <1>2, Taken
  <2>2. /\ ref' \in [Others -> Int]
        /\ \A i \in Others : ref'[i] = Got(ref, id)[i] - One(Nobody, i) - One(id, i)
    BY <1>1, <1>4, <2>1, FinishedBoth
  <2>3. \A i \in Others : One(Nobody, i) = 0 /\ One(id, i) \in Int /\ ref[i] \in Int
    BY <1>2, ListSetAssumption DEF One, Others
  <2>4. \A i \in Others : ref'[i] = ref[i]
    BY <2>1, <2>2, <2>3
  <2> QED
    BY <1>1, <2>2, <2>4, ListsKept
<1> QED
  BY <1>3, <1>4

LEMMA TestLists ==
    ASSUME Lists, NEW side, NEW id \in Ids, NEW refid \in Others \union {Nobody},
           list_set_utest(side, id, refid)
    PROVE  Lists'
<1> DEFINE r == Got(Got(ref, id), refid)
<1>0. ref \in [Others -> Int] /\ id \in Others
  BY DEF Lists, Others
<1>1. PICK ret : ref' = Finish(r, "test", ret, id, refid)
  BY Zenon DEF list_set_utest
<1>2. UNCHANGED <<members, elements, replaced>>
  BY DEF list_set_utest
<1>3. /\ Got(ref, id) \in [Others -> Int]
      /\ \A i \in Others : Got(ref, id)[i] = ref[i] + One(id, i)
  BY <1>0, Taken
<1>4. r \in [Others -> Int] /\ \A i \in Others : r[i] = Got(ref, id)[i] + One(refid, i)
  BY <1>3, Taken
<1> HIDE DEF r
<1>5. /\ ref' \in [Others -> Int]
      /\ \A i \in Others : ref'[i] = r[i] - One(refid, i) - One(id, i)
  <2>1. "test" # "add" \/ ret # "ok"
    OBVIOUS
  <2>2. id \in Others \union {Nobody}
    BY <1>0
  <2> QED
    BY <1>1, <1>4, <2>1, <2>2, FinishedBoth
<1>6. \A i \in Others : ref[i] \in Int /\ One(id, i) \in Int /\ One(refid, i) \in Int
  BY <1>0 DEF One
<1>7. \A i \in Others : ref'[i] = ref[i]
  BY <1>3, <1>4, <1>5, <1>6
<1> QED
  BY <1>2, <1>5, <1>7, ListsKept

LEMMA FlushLists ==
    ASSUME Lists, list_set_flush
    PROVE  Lists'
<1>1. /\ members' = << >> /\ elements' = 0 /\ replaced' = 0 /\ ref' = ReleasedAll(ref, members)
  BY DEF list_set_flush
<1>2. ref \in [Others -> Int] /\ members \in Seq(Node) /\ \A i \in Others : ref[i] = Nodes(members, i)
  BY DEF Lists, RefsExact, Others
<1>3. /\ ref' \in [Others -> Int] /\ \A i \in Others : ref'[i] = ref[i] - Nodes(members, i)
  BY <1>1, <1>2, AllReleased
<1>4. \A i : Nodes(<< >>, i) = 0
  <2>1. \A i : {n \in DOMAIN << >> : << >>[n].id = i} = {}
    OBVIOUS
  <2> QED
    BY <2>1, FS_EmptySet DEF Nodes
<1>5. \A i \in Others : ref'[i] = Nodes(members', i)
  <2>1. \A i \in Others : ref[i] \in Int
    BY <1>2
  <2>2. \A i \in Others : ref'[i] = 0
    BY <1>2, <1>3, <2>1
  <2> QED
    BY <1>1, <1>4, <2>2
<1>6. /\ members' \in Seq(Node) /\ Len(members') = 0 /\ Once(members')
  BY <1>1, EmptySeq DEF Once
<1>7. Len(members') <= MaxMembers /\ replaced' \in 0 .. MaxReplaced
      /\ elements' = Len(members') + replaced'
  BY <1>1, <1>6, ListSetAssumption
<1> QED
  BY <1>3, <1>5, <1>6, <1>7, ListsAgain

LEMMA GcLists ==
    ASSUME Lists, list_set_gc
    PROVE  Lists'
<1>1. /\ members' = Unexpired(members) /\ elements' = elements - Len(Dead(members))
      /\ replaced' = replaced /\ ref' = ReleasedAll(ref, Dead(members))
  BY DEF list_set_gc
<1>2. /\ ref \in [Others -> Int] /\ members \in Seq(Node) /\ Len(members) <= MaxMembers
      /\ Once(members) /\ \A i \in Others : ref[i] = Nodes(members, i)
      /\ elements = Len(members) + replaced /\ replaced \in 0 .. MaxReplaced
  BY DEF Lists, RefsExact, ElementsCounted, Others
<1>3. /\ Unexpired(members) \in Seq(Node) /\ Dead(members) \in Seq(Node)
      /\ Len(Unexpired(members)) + Len(Dead(members)) = Len(members)
      /\ \A i : Nodes(Unexpired(members), i) + Nodes(Dead(members), i) = Nodes(members, i)
      /\ \A i : {Nodes(Unexpired(members), i), Nodes(Dead(members), i)} \subseteq Nat
  BY <1>2, Sweep, ZenonT(60)
<1>4. /\ ref' \in [Others -> Int] /\ \A i \in Others : ref'[i] = ref[i] - Nodes(Dead(members), i)
  BY <1>1, <1>2, <1>3, AllReleased
<1>5. Once(Unexpired(members))
  BY <1>2, SweepMembers
<1> DEFINE u == Unexpired(members)
           d == Dead(members)
<1> HIDE DEF u, d
<1>6. \A i \in Others : ref'[i] = Nodes(members', i)
  <2>1. \A i \in Others : ref'[i] = Nodes(Unexpired(members), i)
    BY <1>2, <1>3, <1>4
  <2> QED
    BY <1>1, <2>1
<1>7. /\ Len(u) \in Nat /\ Len(d) \in Nat /\ Len(members) \in Nat /\ replaced \in Nat
      /\ MaxMembers \in Nat
  BY <1>2, <1>3, ListSetAssumption DEF u, d
<1>8. Len(u) + Len(d) = Len(members) /\ members' = u /\ elements' = elements - Len(d)
  BY <1>1, <1>3 DEF u, d
<1>9. Len(members') <= MaxMembers /\ elements' = Len(members') + replaced'
  BY <1>1, <1>2, <1>7, <1>8
<1> QED
  BY <1>1, <1>2, <1>3, <1>4, <1>5, <1>6, <1>9, ListsAgain

LEMMA TimeoutLists ==
    ASSUME Lists, NEW id, Timeout(id)
    PROVE  Lists'
<1>1. members' = TimedOut(members, id) /\ UNCHANGED <<elements, ref, replaced>>
  BY DEF Timeout
<1>2. /\ ref \in [Others -> Int] /\ members \in Seq(Node) /\ Len(members) <= MaxMembers
      /\ Once(members) /\ \A i \in Others : ref[i] = Nodes(members, i)
      /\ elements = Len(members) + replaced /\ replaced \in 0 .. MaxReplaced
  BY DEF Lists, RefsExact, ElementsCounted, Others
<1>3. /\ members' \in Seq(Node) /\ Len(members') = Len(members) /\ Once(members')
      /\ \A i : Nodes(members', i) = Nodes(members, i)
  BY <1>1, <1>2, Late
<1> QED
  BY <1>1, <1>2, <1>3, ListsAgain

\* An add, wherever it ends
LEMMA AddLists ==
    ASSUME Lists, NEW walked, NEW now, Walk(walked, now), NEW id \in Ids,
           NEW refid \in Others \union {Nobody}, NEW side \in {"last", "before", "after"},
           list_set_uadd(walked, now, side, id, refid)
    PROVE  Lists'
<1> DEFINE n == Position(walked, id)
           p == Reference(walked, side, id, refid)
           k == Neighbour(now, side, p)
<1>0. walked \in Seq(Node) /\ now \in Seq(Node) /\ Len(walked) = Len(now) /\ Len(now) \in Nat
  BY Walked
<1>1. n # 0 <=> IsMember(walked, id)
  BY <1>0, Found
<1>2. p \in 0 .. Len(now)
  <2>1. Position(walked, refid) \in 0 .. Len(now)
    BY <1>0, Found
  <2> HIDE DEF Position
  <2> QED
    BY <1>0, <2>1 DEF Reference
<1> HIDE DEF p
<1>3. (side # "last" => p # 0) => k \in 0 .. Len(now)
  BY <1>0, <1>2 DEF Neighbour
<1>4. \/ \E why \in {"REF_EXIST", "EXIST", "ENOMEM"} : AddFails(why, now, side, id, refid)
      \/ n # 0 /\ \E life \in Lives : AddAgain(now, n, side, id, refid, life)
      \/ /\ side # "last" => p # 0
         /\ n = 0 /\ k # 0 /\ \E life \in Lives : list_set_replace(now, k, side, id, refid, life)
      \/ /\ side # "last" => p # 0
         /\ n = 0 /\ \E life \in Lives : AddNew(now, side, p, id, refid, life)
  BY DEF list_set_uadd, p
<1>5. CASE \E why \in {"REF_EXIST", "EXIST", "ENOMEM"} : AddFails(why, now, side, id, refid)
  BY <1>5, AddFailsLists
<1>6. CASE n # 0 /\ \E life \in Lives : AddAgain(now, n, side, id, refid, life)
  BY <1>6, AddAgainLists
<1> HIDE DEF n, k
<1>7. CASE /\ side # "last" => p # 0
           /\ n = 0 /\ k # 0 /\ \E life \in Lives : list_set_replace(now, k, side, id, refid, life)
  <2>1. PICK life \in Lives : list_set_replace(now, k, side, id, refid, life)
    BY <1>7
  <2>2. k \in 1 .. Len(now) /\ ~ IsMember(walked, id)
    BY <1>0, <1>1, <1>3, <1>7
  <2> QED
    BY <2>1, <2>2, ReplaceLists
<1>8. CASE /\ side # "last" => p # 0
           /\ n = 0 /\ \E life \in Lives : AddNew(now, side, p, id, refid, life)
  BY <1>1, <1>2, <1>8, AddNewLists, SMTT(40)
<1> QED
  BY <1>4, <1>5, <1>6, <1>7, <1>8

LEMMA UadtLists ==
    ASSUME Lists, NEW cmd, NEW id \in Ids, NEW before, NEW hasref \in BOOLEAN,
           NEW refid \in Others \union {Nobody}, list_set_uadt(cmd, id, before, hasref, refid)
    PROVE  Lists'
<1> DEFINE side == Side(before, hasref)
           second == IF hasref THEN refid ELSE Nobody
           swept == Unexpired(members)
<1>1. side \in {"last", "before", "after"}
  BY DEF Side
<1>2. second \in Others \union {Nobody}
  OBVIOUS
<1> HIDE DEF side, second
<1>3. \/ list_set_utest(side, id, second)
      \/ \E late : \E now \in {TimedOut(swept, late)} : \E walked \in {swept, now} :
            \/ list_set_uadd(walked, now, side, id, second)
            \/ \E exist \in BOOLEAN : list_set_udel(walked, now, side, id, second, exist)
  BY Zenon DEF list_set_uadt, side, second
<1>4. CASE list_set_utest(side, id, second)
  BY <1>2, <1>4, TestLists
<1>5. CASE \E late : \E now \in {TimedOut(swept, late)} : \E walked \in {swept, now} :
              \/ list_set_uadd(walked, now, side, id, second)
              \/ \E exist \in BOOLEAN : list_set_udel(walked, now, side, id, second, exist)
  <2>1. PICK late, now, walked :
          /\ now = TimedOut(swept, late) /\ walked \in {swept, now}
          /\ \/ list_set_uadd(walked, now, side, id, second)
             \/ \E exist \in BOOLEAN : list_set_udel(walked, now, side, id, second, exist)
    BY <1>5, Zenon
  <2>2. Walk(walked, now)
    BY <2>1 DEF Walk
  <2> QED
    BY <1>1, <1>2, <2>1, <2>2, AddLists, DelLists
<1> QED
  BY <1>3, <1>4, <1>5

\* The commands with their arguments
LEMMA Commands ==
    ASSUME Command
    PROVE  \/ \E cmd, before, hasref, refid : \E id \in Others \union {Nobody} :
                 Refuse(cmd, id, before, hasref, refid)
           \/ \E cmd, before : \E hasref \in BOOLEAN, id \in Ids, refid \in Others \union {Nobody} :
                 list_set_uadt(cmd, id, before, hasref, refid)
           \/ list_set_flush
<1>1. CASE \E cmd \in {"add", "del", "test"}, id \in {Nobody, ListId} :
              Refuse(cmd, id, FALSE, FALSE, Nobody)
  BY <1>1 DEF Others
<1>2. CASE \E cmd \in {"add", "del", "test"}, id \in Ids, before, hasref \in BOOLEAN :
              Refuse(cmd, id, before, hasref, Nobody)
  BY <1>2 DEF Others
<1>3. CASE \E cmd \in {"add", "del", "test"}, id \in Ids :
              list_set_uadt(cmd, id, FALSE, FALSE, Nobody)
  <2>1. FALSE \in BOOLEAN /\ Nobody \in Others \union {Nobody}
    OBVIOUS
  <2> QED
    BY <1>3, <2>1, Zenon
<1>4. CASE \E cmd \in {"add", "del", "test"}, id \in Ids, before \in BOOLEAN, refid \in Others :
              list_set_uadt(cmd, id, before, TRUE, refid)
  <2>1. TRUE \in BOOLEAN /\ \A refid \in Others : refid \in Others \union {Nobody}
    OBVIOUS
  <2> QED
    BY <1>4, <2>1, Zenon
<1>5. CASE list_set_flush \/ list_set_destroy
  BY <1>5 DEF list_set_destroy
<1> QED
  BY <1>1, <1>2, <1>3, <1>4, <1>5, Zenon DEF Command, Others

LEMMA ListsInit ==
    ASSUME Init
    PROVE  Lists
<1>1. /\ members = << >> /\ elements = 0 /\ replaced = 0 /\ ref = [i \in Others |-> 0]
  BY DEF Init, Others
<1>2. \A i : Nodes(<< >>, i) = 0
  <2>1. \A i : {n \in DOMAIN << >> : << >>[n].id = i} = {}
    OBVIOUS
  <2> QED
    BY <2>1, FS_EmptySet DEF Nodes
<1>3. members \in Seq(Node) /\ Len(members) = 0 /\ Once(members)
  BY <1>1, EmptySeq DEF Once
<1>4. RefsExact /\ ref \in [Others -> Nat]
  BY <1>1, <1>2 DEF RefsExact, Others
<1>5. ElementsCounted /\ Len(members) <= MaxMembers /\ replaced \in 0 .. MaxReplaced
  BY <1>1, <1>3, ListSetAssumption DEF ElementsCounted
<1> QED
  BY <1>3, <1>4, <1>5 DEF Lists

LEMMA ListsStep ==
    ASSUME Lists, [Next]_vars
    PROVE  Lists'
<1>1. CASE Command
  BY <1>1, Commands, RefuseLists, UadtLists, FlushLists
<1>2. CASE \E id \in Ids : Timeout(id)
  BY <1>2, TimeoutLists
<1>3. CASE list_set_gc
  BY <1>3, GcLists
<1>4. CASE UNCHANGED <<members, elements, ref, replaced>>
  BY <1>4 DEF Lists, RefsExact, ElementsCounted, Nodes
<1>5. CASE DumpStart \/ list_set_list \/ UNCHANGED vars
  <2>1. UNCHANGED <<members, elements, ref, replaced>>
    BY <1>5 DEF DumpStart, list_set_list, ListFrom, vars
  <2> QED
    BY <1>4, <2>1
<1> QED
  BY <1>1, <1>2, <1>3, <1>5 DEF Next

----------------------------------------------------------------------------
(* The dump                                                                *)

DumpType == [on : BOOLEAN, at : Nat, owed : SUBSET Ids, removed : Nat]

\* The members that were passed over
Passed(m, d) == {i \in d.owed : Position(m, i) \in 1 .. d.at}

\* What is owed is on the list
DumpRight ==
    /\ dump \in DumpType
    /\ \A i \in dump.owed : IsMember(members, i)
    /\ DumpMisses

\* Member i, where it is in m and in t: it came no more than r nodes forward
Forward(m, t, i, r) == \E n, k : LiveAt(m, n, i) /\ LiveAt(t, k, i) /\ n <= k + r

\* If members come at most r nodes forward, at most r more are passed over
LEMMA PassedMore ==
    ASSUME NEW m \in Seq(Node), NEW t \in Seq(Node), Once(m), Once(t),
           NEW d \in DumpType, NEW e \in DumpType, e.at = d.at, e.owed \subseteq d.owed,
           NEW r \in Nat, \A i \in e.owed : Forward(m, t, i, r)
    PROVE  /\ Cardinality(Passed(t, e)) <= Cardinality(Passed(m, d)) + r
           /\ Cardinality(Passed(t, e)) <= Cardinality(Ids)
           /\ {Cardinality(Passed(t, e)), Cardinality(Passed(m, d))} \subseteq Nat
<1> DEFINE W == Passed(m, d)
           V == Passed(t, e)
           at == d.at
           X == {i \in e.owed : Position(m, i) \in at + 1 .. at + r}
<1>0. at \in Nat /\ e.owed \subseteq Ids /\ d.owed \subseteq Ids /\ e.at = at
  BY DEF DumpType
<1>1. W \subseteq Ids /\ V \subseteq Ids /\ X \subseteq Ids
  BY <1>0 DEF Passed
<1>2. IsFiniteSet(Ids) /\ Cardinality(Ids) \in Nat
  BY ListSetAssumption, FS_CardinalityType
<1>3. \A S \in SUBSET Ids : IsFiniteSet(S) /\ Cardinality(S) \in Nat /\ Cardinality(S) <= Cardinality(Ids)
  BY <1>2, FS_Subset, FS_CardinalityType
<1>4. V \subseteq W \cup X
  <2> SUFFICES ASSUME NEW i \in V PROVE i \in W \cup X
    OBVIOUS
  <2>1. i \in e.owed /\ i \in d.owed /\ i \in Ids /\ Position(t, i) \in 1 .. at
    BY <1>0 DEF Passed
  <2>2. PICK n, k : LiveAt(m, n, i) /\ LiveAt(t, k, i) /\ n <= k + r
    BY <2>1 DEF Forward
  <2>3. Position(m, i) = n /\ Position(t, i) = k
    BY <2>1, <2>2, Found
  <2>4. n \in Nat /\ n >= 1 /\ n <= at + r
    <3>1. n \in 1 .. Len(m) /\ Len(m) \in Nat
      BY <2>2 DEF LiveAt
    <3>2. n \in Nat /\ n >= 1 /\ k \in Nat /\ k <= at
      BY <1>0, <2>1, <2>3, <3>1
    <3> QED
      BY <1>0, <2>2, <3>2
  <2>5. CASE n <= at
    <3>1. Position(m, i) \in 1 .. at
      BY <1>0, <2>3, <2>4, <2>5
    <3> QED
      BY <2>1, <3>1 DEF Passed
  <2>6. CASE ~ (n <= at)
    BY <1>0, <2>1, <2>3, <2>4, <2>6
  <2> QED
    BY <2>5, <2>6
<1>5. Cardinality(X) <= r
  <2> DEFINE I == at + 1 .. at + r
             f == [i \in X |-> Position(m, i)]
  <2>1. IsFiniteSet(I) /\ Cardinality(I) = r
    <3>1. at + 1 \in Int /\ at + r \in Int
          /\ (IF at + 1 > at + r THEN 0 ELSE (at + r) - (at + 1) + 1) = r
      BY <1>0
    <3> QED
      BY <3>1, FS_Interval
  <2>2. \A i, j \in X : Position(m, i) = Position(m, j) => i = j
    <3> SUFFICES ASSUME NEW i \in X, NEW j \in X, Position(m, i) = Position(m, j) PROVE i = j
      OBVIOUS
    <3>1. Position(m, i) # 0
      BY <1>0
    <3>2. LiveAt(m, Position(m, i), i) /\ LiveAt(m, Position(m, j), j)
      BY <3>1, Found
    <3> QED
      BY <3>2 DEF LiveAt
  <2>3. \A i \in X : Position(m, i) \in I
    OBVIOUS
  <2>4. f \in [X -> I] /\ \A i \in X : f[i] = Position(m, i)
    BY <2>3
  <2> HIDE DEF f, X, I
  <2>5. f \in Injection(X, I)
    BY <2>2, <2>4 DEF Injection, IsInjective
  <2>6. Cardinality(X) <= Cardinality(I)
    BY <2>1, <2>5, FS_Injection
  <2> QED
    BY <2>1, <2>6
<1> HIDE DEF W, V, X
<1>6. Cardinality(W \cup X) <= Cardinality(W) + Cardinality(X)
  <2>1. Cardinality(W \cup X) = Cardinality(W) + Cardinality(X) - Cardinality(W \cap X)
    BY <1>1, <1>3, FS_Union
  <2>2. W \cap X \subseteq Ids
    BY <1>1
  <2> QED
    BY <1>1, <1>3, <2>1, <2>2
<1>7. Cardinality(V) <= Cardinality(W \cup X)
  <2>1. IsFiniteSet(W \cup X)
    BY <1>1, <1>3
  <2> QED
    BY <1>4, <2>1, FS_Subset
<1>8. /\ {Cardinality(V), Cardinality(W), Cardinality(X), Cardinality(W \cup X)} \subseteq Nat
      /\ Cardinality(V) <= Cardinality(Ids)
  BY <1>1, <1>3
<1> QED
  BY <1>5, <1>6, <1>7, <1>8 DEF V, W

\* What a step that is not one of the dump does to it
LEMMA DumpKept ==
    ASSUME Lists, Lists', DumpRight, NEW kept, NEW r \in Nat, DumpKeeps(kept, r),
           \A i \in Ids : i \in kept /\ IsMember(members, i) => Forward(members, members', i, r)
    PROVE  DumpRight'
<1>0. /\ members \in Seq(Node) /\ members' \in Seq(Node) /\ Once(members) /\ Once(members')
      /\ dump \in DumpType /\ \A i \in dump.owed : IsMember(members, i)
  BY DEF Lists, DumpRight
<1>1. CASE ~ dump.on
  <2>1. dump' = NoDump
    BY <1>1 DEF DumpKeeps
  <2>2. dump' \in DumpType /\ dump'.owed = {} /\ dump'.removed = 0
    BY <2>1 DEF NoDump, DumpType
  <2>3. {i \in dump'.owed : Position(members', i) \in 1 .. dump'.at} = {}
    BY <2>2
  <2>4. DumpMisses'
    BY <2>2, <2>3, FS_EmptySet DEF DumpMisses
  <2> QED
    BY <2>2, <2>4 DEF DumpRight
<1>2. CASE dump.on
  <2> DEFINE d == [dump EXCEPT !.owed = @ \intersect kept,
                               !.removed = Least(@ + r, Cardinality(Ids))]
             N == Cardinality(Ids)
             b == Least(dump.removed + r, N)
  <2>1. dump' = d
    BY <1>2 DEF DumpKeeps
  <2>2. N \in Nat /\ dump.removed \in Nat /\ dump.owed \subseteq Ids
    BY <1>0, ListSetAssumption, FS_CardinalityType DEF DumpType
  <2> HIDE DEF N
  <2>3. b \in Nat /\ \A c \in Nat : c <= dump.removed + r /\ c <= N => c <= b
    BY <2>2 DEF Least
  <2>4. d = [dump EXCEPT !.owed = dump.owed \cap kept, !.removed = b]
    BY DEF N
  <2> HIDE DEF d, b
  <2>5. /\ d \in DumpType /\ d.at = dump.at /\ d.owed = dump.owed \cap kept /\ d.removed = b
    <3> DEFINE o == dump.owed \cap kept
    <3>1. o \in SUBSET Ids /\ b \in Nat /\ dump \in DumpType
      BY <1>0, <2>2, <2>3
    <3>2. d = [dump EXCEPT !.owed = o, !.removed = b]
      BY <2>4
    <3> HIDE DEF o
    <3>3. /\ d \in DumpType /\ d.at = dump.at /\ d.owed = o /\ d.removed = b
      BY <3>1, <3>2 DEF DumpType
    <3> QED
      BY <3>3 DEF o
  <2>6. \A i \in d.owed : Forward(members, members', i, r)
    BY <1>0, <2>2, <2>5
  <2>7. /\ Cardinality(Passed(members', d)) <= Cardinality(Passed(members, dump)) + r
        /\ Cardinality(Passed(members', d)) <= N
        /\ {Cardinality(Passed(members', d)), Cardinality(Passed(members, dump))} \subseteq Nat
    <3>1. d.owed \subseteq dump.owed
      BY <2>5
    <3> DEFINE t == members'
    <3>2. t \in Seq(Node) /\ Once(t) /\ \A i \in d.owed : Forward(members, t, i, r)
      BY <1>0, <2>6
    <3> HIDE DEF t
    <3>3. /\ Cardinality(Passed(t, d)) <= Cardinality(Passed(members, dump)) + r
          /\ Cardinality(Passed(t, d)) <= Cardinality(Ids)
          /\ {Cardinality(Passed(t, d)), Cardinality(Passed(members, dump))} \subseteq Nat
      BY <1>0, <2>5, <3>1, <3>2, PassedMore
    <3> QED
      BY <3>3 DEF t, N
  <2>8. Cardinality(Passed(members, dump)) <= dump.removed
    BY DEF DumpRight, DumpMisses, Passed
  <2>9. Cardinality(Passed(members', d)) <= d.removed
    BY <2>2, <2>3, <2>5, <2>7, <2>8
  <2>10. DumpMisses'
    <3>1. Passed(members', d) = {i \in dump'.owed : Position(members', i) \in 1 .. dump'.at}
      BY <2>1 DEF Passed
    <3> QED
      BY <2>1, <2>9, <3>1 DEF DumpMisses
  <2>11. \A i \in d.owed : IsMember(members', i)
    BY <2>6 DEF Forward, IsMember, LiveAt
  <2> QED
    BY <2>1, <2>5, <2>10, <2>11 DEF DumpRight
<1> QED
  BY <1>1, <1>2

LEMMA DumpStartRight ==
    ASSUME Lists, DumpRight, DumpStart
    PROVE  DumpRight'
<1>1. dump' = [on |-> TRUE, at |-> 0, owed |-> Live(members), removed |-> 0] /\ members' = members
  BY DEF DumpStart, NoDump
<1>2. Live(members) \subseteq Ids /\ \A i \in Live(members) : IsMember(members, i)
  BY LiveIs DEF Lists
<1> DEFINE o == Live(members)
<1> HIDE DEF o
<1>3. dump' = [on |-> TRUE, at |-> 0, owed |-> o, removed |-> 0] /\ o \subseteq Ids
      /\ \A i \in o : IsMember(members, i)
  BY <1>1, <1>2 DEF o
<1>4. dump' \in DumpType /\ dump'.owed = o /\ dump'.at = 0 /\ dump'.removed = 0
  BY <1>3 DEF DumpType
<1>5. {i \in dump'.owed : Position(members', i) \in 1 .. dump'.at} = {}
  BY <1>4
<1>6. DumpMisses'
  BY <1>4, <1>5, FS_EmptySet DEF DumpMisses
<1> QED
  BY <1>1, <1>3, <1>4, <1>6 DEF DumpRight

LEMMA ListRight ==
    ASSUME Lists, DumpRight, list_set_list
    PROVE  DumpRight'
<1> DEFINE first == dump.at + 1
           L == Len(members)
<1>0. /\ members \in Seq(Node) /\ Once(members) /\ dump \in DumpType /\ L \in Nat
      /\ \A i \in dump.owed : IsMember(members, i)
      /\ dump.at \in Nat /\ dump.owed \subseteq Ids /\ dump.removed \in Nat
  <2>1. /\ members \in Seq(Node) /\ Once(members) /\ dump \in DumpType
        /\ \A i \in dump.owed : IsMember(members, i)
    BY DEF Lists, DumpRight
  <2> QED
    BY <2>1 DEF DumpType
<1>1. PICK to \in first .. L \union {L} :
        dump' = [dump EXCEPT !.on = to < L, !.at = to,
                             !.owed = @ \ Live(SubSeq(members, first, to))]
  BY DEF list_set_list, ListFrom
<1>2. members' = members
  BY DEF list_set_list, ListFrom
<1> DEFINE part == SubSeq(members, first, to)
           o == dump.owed \ Live(part)
<1>3. to \in Nat /\ (to = L \/ (first <= to /\ to <= L))
  BY <1>0
<1>4. part \in Seq(Node) /\ Len(part) = (IF first <= to THEN to - first + 1 ELSE 0)
      /\ \A n \in 1 .. to - first + 1 : part[n] = members[first + n - 1]
  <2>1. \A n \in first .. to : members[n] \in Node
    BY <1>0, <1>3
  <2> QED
    BY <1>0, <1>3, <2>1, SubSeqProperties
<1>5. dump' = [dump EXCEPT !.on = to < L, !.at = to, !.owed = o]
  BY <1>1
<1>6. \A i \in o : \A n : LiveAt(members, n, i) /\ n <= to => n <= dump.at
  <2> SUFFICES ASSUME NEW i \in o, NEW n, LiveAt(members, n, i), n <= to, ~ (n <= dump.at)
               PROVE  FALSE
    OBVIOUS
  <2>1. n \in 1 .. L /\ i \in Ids /\ ~ (i \in Live(part))
    BY <1>0 DEF LiveAt
  <2>2. /\ first <= to /\ n - dump.at \in 1 .. to - first + 1
        /\ first + (n - dump.at) - 1 = n /\ n - dump.at \in 1 .. Len(part)
    <3>1. n \in Nat /\ dump.at \in Nat /\ n <= to /\ ~ (n <= dump.at) /\ to \in Nat
      BY <1>0, <1>3, <2>1
    <3> HIDE DEF part
    <3>2. /\ first <= to /\ n - dump.at \in 1 .. to - first + 1
          /\ first + (n - dump.at) - 1 = n
      BY <3>1
    <3>3. Len(part) = to - first + 1
      BY <1>4, <3>2
    <3> QED
      BY <3>2, <3>3
  <2> HIDE DEF part
  <2>3. part[n - dump.at] = members[n]
    BY <1>4, <2>2
  <2>4. LiveAt(part, n - dump.at, i)
    <3>1. members[n].id = i /\ ~ Expired(members[n])
      BY DEF LiveAt
    <3> QED
      BY <2>2, <2>3, <3>1 DEF LiveAt
  <2>5. IsMember(part, i)
    BY <2>2, <2>4 DEF IsMember
  <2> QED
    BY <1>4, <2>1, <2>5, LiveIs
<1>7. o \subseteq dump.owed
  OBVIOUS
<1> HIDE DEF o
<1>8. /\ dump' \in DumpType /\ dump'.owed = o /\ dump'.at = to /\ dump'.removed = dump.removed
  <2> DEFINE on == to < L
  <2>1. o \in SUBSET Ids /\ on \in BOOLEAN /\ to \in Nat /\ dump \in DumpType
    BY <1>0, <1>3, <1>7
  <2>2. dump' = [dump EXCEPT !.on = on, !.at = to, !.owed = o]
    BY <1>5
  <2> HIDE DEF on
  <2> QED
    BY <2>1, <2>2 DEF DumpType
<1>9. Passed(members, dump') \subseteq Passed(members, dump)
  <2> SUFFICES ASSUME NEW i \in Passed(members, dump') PROVE i \in Passed(members, dump)
    OBVIOUS
  <2>1. i \in o /\ i \in dump.owed /\ Position(members, i) \in 1 .. to
    BY <1>7, <1>8 DEF Passed
  <2>2. LiveAt(members, Position(members, i), i)
    <3>1. Position(members, i) # 0
      BY <1>3, <2>1
    <3> QED
      BY <1>0, <3>1, Found
  <2>3. Position(members, i) \in 1 .. dump.at
    <3>1. Position(members, i) <= to /\ Position(members, i) \in Nat /\ Position(members, i) >= 1
      BY <1>3, <2>1
    <3>2. Position(members, i) <= dump.at
      BY <1>6, <2>1, <2>2, <3>1
    <3> QED
      BY <1>0, <3>1, <3>2
  <2> QED
    BY <2>1, <2>3 DEF Passed
<1>10. Cardinality(Passed(members, dump')) <= Cardinality(Passed(members, dump))
  <2>1. Passed(members, dump) \subseteq Ids
    BY <1>0 DEF Passed
  <2>2. IsFiniteSet(Passed(members, dump))
    BY <2>1, ListSetAssumption, FS_Subset
  <2> QED
    BY <1>9, <2>2, FS_Subset
<1>11. {Cardinality(Passed(members, dump')), Cardinality(Passed(members, dump))} \subseteq Nat
  <2>1. Passed(members, dump) \subseteq Ids /\ Passed(members, dump') \subseteq Ids
    BY <1>0, <1>7, <1>8 DEF Passed
  <2> QED
    BY <2>1, ListSetAssumption, FS_Subset, FS_CardinalityType
<1>12. Cardinality(Passed(members, dump)) <= dump.removed
  BY DEF DumpRight, DumpMisses, Passed
<1>13. Cardinality(Passed(members, dump')) <= dump'.removed
  BY <1>0, <1>8, <1>10, <1>11, <1>12
<1>14. DumpMisses'
  <2>1. Passed(members, dump') = {i \in dump'.owed : Position(members', i) \in 1 .. dump'.at}
    BY <1>2 DEF Passed
  <2> QED
    BY <1>13, <2>1 DEF DumpMisses
<1> QED
  BY <1>0, <1>2, <1>7, <1>8, <1>14 DEF DumpRight

\* What a step that is not one of the dump tells it is right: no member that is
\* kept came more nodes forward than were removed
Told == \E kept : \E r \in Nat :
            /\ DumpKeeps(kept, r)
            /\ \A i \in Ids : i \in kept /\ IsMember(members, i) => Forward(members, members', i, r)

LEMMA SweepForward ==
    ASSUME NEW m \in Seq(Node), NEW k, NEW i, LiveAt(Unexpired(m), k, i)
    PROVE  \E n : LiveAt(m, n, i) /\ n <= k + Len(Dead(m))
<1> DEFINE s == Unexpired(m)
           U == {n \in 1 .. Len(m) : ~ Expired(m[n])}
<1>1. /\ s \in Seq(Node) /\ Dead(m) \in Seq(Node) /\ Len(s) + Len(Dead(m)) = Len(m)
      /\ \E g : Comes(s, m, U, g)
  BY Sweep
<1>2. PICK g : Comes(s, m, U, g)
  BY <1>1
<1>3. U \in SUBSET (1 .. Len(m)) /\ k \in 1 .. Len(s)
  BY DEF LiveAt
<1>4. s[k] = m[g[k]] /\ s[k].id = i /\ ~ Expired(s[k])
  BY <1>2, <1>3 DEF Comes, LiveAt
<1> HIDE DEF s, U
<1>5. g[k] \in 1 .. Len(m) /\ g[k] <= k + (Len(m) - Len(s))
  BY <1>1, <1>2, <1>3, ComesShift
<1>6. Len(m) - Len(s) = Len(Dead(m))
  <2>1. Len(m) \in Nat /\ Len(s) \in Nat /\ Len(Dead(m)) \in Nat
    BY <1>1
  <2> QED
    BY <1>1, <2>1
<1>7. LiveAt(m, g[k], i)
  BY <1>4, <1>5 DEF LiveAt
<1> QED
  BY <1>5, <1>6, <1>7

\* What is on the list that was walked was on the list before the sweep
LEMMA WalkForward ==
    ASSUME Lists, NEW walked, NEW now, Walk(walked, now)
    PROVE  \A k, i : LiveAt(walked, k, i) =>
              \E n : LiveAt(members, n, i) /\ n <= k + Len(Dead(members)) /\ n \in Nat
<1> DEFINE swept == Unexpired(members)
<1>1. PICK late : now = TimedOut(swept, late) /\ walked \in {swept, now}
  BY DEF Walk
<1>2. members \in Seq(Node) /\ swept \in Seq(Node)
  BY Sweep DEF Lists
<1> HIDE DEF swept
<1>3. \A k, i : LiveAt(walked, k, i) => LiveAt(swept, k, i)
  BY <1>1, <1>2, Late
<1>4. \A k, i : LiveAt(swept, k, i) => \E n : LiveAt(members, n, i) /\ n <= k + Len(Dead(members))
  BY <1>2, SweepForward DEF swept
<1>5. \A n, i : LiveAt(members, n, i) => n \in Nat
  BY DEF LiveAt
<1> QED
  BY <1>3, <1>4, <1>5

LEMMA AddTold ==
    ASSUME Lists, NEW walked, NEW now, Walk(walked, now), NEW id \in Ids,
           NEW refid, NEW side \in {"last", "before", "after"},
           list_set_uadd(walked, now, side, id, refid)
    PROVE  Told
<1> DEFINE n == Position(walked, id)
           p == Reference(walked, side, id, refid)
           k == Neighbour(now, side, p)
           r == Len(Dead(members))
<1>0. /\ walked \in Seq(Node) /\ now \in Seq(Node) /\ Len(walked) = Len(now) /\ Len(now) \in Nat
      /\ \A j \in 1 .. Len(now) : now[j].id = walked[j].id
      /\ \A j, i : LiveAt(now, j, i) => LiveAt(walked, j, i)
      /\ r \in Nat
  BY Walked
<1>1. n # 0 => n \in 1 .. Len(now) /\ LiveAt(walked, n, id)
  BY <1>0, Found DEF LiveAt
<1>2. p \in 0 .. Len(now)
  <2>1. Position(walked, refid) \in 0 .. Len(now)
    BY <1>0, Found
  <2> HIDE DEF Position
  <2> QED
    BY <1>0, <2>1 DEF Reference
<1> HIDE DEF p
<1>3. (side # "last" => p # 0) => k \in 0 .. Len(now)
  BY <1>0, <1>2 DEF Neighbour
<1>4. \/ \E why : AddFails(why, now, side, id, refid)
      \/ n # 0 /\ \E life \in Lives : AddAgain(now, n, side, id, refid, life)
      \/ /\ side # "last" => p # 0
         /\ n = 0 /\ k # 0 /\ Expired(now[k])
         /\ \E life \in Lives : list_set_replace(now, k, side, id, refid, life)
      \/ /\ side # "last" => p # 0
         /\ n = 0 /\ \E life \in Lives : AddNew(now, side, p, id, refid, life)
  BY DEF list_set_uadd, p
<1>5. \A j, i : LiveAt(walked, j, i) => \E l \in Nat : LiveAt(members, l, i) /\ l <= j + r
  BY WalkForward
<1>6. \A i \in Ids : i \in Live(now) => \E j \in 1 .. Len(now) : LiveAt(now, j, i)
  BY <1>0, LiveIs DEF IsMember
<1> HIDE DEF n, k, r
<1>7. CASE \E why : AddFails(why, now, side, id, refid)
  <2>1. members' = now /\ DumpKeeps(Live(now), r)
    BY <1>7 DEF AddFails, r
  <2> QED
    BY <1>0, <1>5, <1>6, <2>1 DEF Told, Forward
<1>8. CASE n # 0 /\ \E life \in Lives : AddAgain(now, n, side, id, refid, life)
  <2>1. PICK life \in Lives : AddAgain(now, n, side, id, refid, life)
    BY <1>8
  <2>2. members' = [now EXCEPT ![n].life = life] /\ DumpKeeps(Live(members'), r)
    BY <2>1 DEF AddAgain, r
  <2>3. ASSUME NEW j \in 1 .. Len(now) PROVE now[j] \in Node
    BY <1>0
  <2>4. n \in 1 .. Len(now)
    BY <1>1, <1>8
  <2>5. [now[n] EXCEPT !.life = life] \in Node /\ [now[n] EXCEPT !.life = life].id = now[n].id
    BY <2>3, <2>4 DEF Node
  <2> DEFINE t == members'
             e == [now[n] EXCEPT !.life = life]
  <2> HIDE DEF e
  <2>6. t = [now EXCEPT ![n] = e] /\ e \in Node /\ e.id = now[n].id
    BY <2>2, <2>5 DEF e
  <2> HIDE DEF t
  <2>7. t \in Seq(Node) /\ Len(t) = Len(now) /\ t[n] = e /\ \A j \in 1 .. Len(now) : j # n => t[j] = now[j]
    BY <1>0, <2>4, <2>6, ExceptSeq
  <2>8. \A j \in 1 .. Len(now), i \in Ids : LiveAt(t, j, i) => LiveAt(walked, j, i)
    <3> SUFFICES ASSUME NEW j \in 1 .. Len(now), NEW i \in Ids, LiveAt(t, j, i) PROVE LiveAt(walked, j, i)
      OBVIOUS
    <3>1. CASE j = n
      <4>1. i = now[n].id /\ now[n].id = id
        BY <1>0, <1>1, <1>8, <2>4, <2>6, <2>7, <3>1 DEF LiveAt
      <4> QED
        BY <1>1, <1>8, <3>1, <4>1
    <3>2. CASE j # n
      BY <1>0, <2>7, <3>2 DEF LiveAt
    <3> QED
      BY <3>1, <3>2
  <2>9. \A i \in Ids : i \in Live(t) => \E j \in 1 .. Len(now) : LiveAt(t, j, i)
    BY <2>7, LiveIs DEF IsMember
  <2>10. \A i \in Ids : i \in Live(t) => Forward(members, t, i, r)
    BY <1>5, <2>8, <2>9 DEF Forward
  <2> QED
    BY <1>0, <2>2, <2>10 DEF Told, t
<1>9. CASE /\ side # "last" => p # 0
           /\ n = 0 /\ k # 0 /\ Expired(now[k])
           /\ \E life \in Lives : list_set_replace(now, k, side, id, refid, life)
  <2>1. PICK life \in Lives : list_set_replace(now, k, side, id, refid, life)
    BY <1>9
  <2> DEFINE t == [now EXCEPT ![k] = Member(id, life)]
  <2>2. members' = t /\ DumpKeeps(Live(now), r)
    BY <2>1 DEF list_set_replace, r
  <2>3. k \in 1 .. Len(now) /\ Member(id, life) \in Node
    BY <1>0, <1>3, <1>9 DEF Member, Node
  <2>4. t \in Seq(Node) /\ Len(t) = Len(now) /\ \A j \in 1 .. Len(now) : j # k => t[j] = now[j]
    BY <1>0, <2>3, ExceptSeq
  <2> HIDE DEF t
  <2>5. \A j \in 1 .. Len(now), i \in Ids : LiveAt(now, j, i) => LiveAt(t, j, i)
    BY <1>9, <2>4 DEF LiveAt
  <2>6. \A i \in Ids : i \in Live(now) => Forward(members, t, i, r)
    BY <1>0, <1>5, <1>6, <2>5 DEF Forward
  <2> QED
    BY <1>0, <2>2, <2>6 DEF Told
<1>10. CASE /\ side # "last" => p # 0
            /\ n = 0 /\ \E life \in Lives : AddNew(now, side, p, id, refid, life)
  <2>1. PICK life \in Lives : AddNew(now, side, p, id, refid, life)
    BY <1>10
  <2> DEFINE e == Member(id, life)
             t == Inserted(now, side, p, e)
  <2>2. members' = t /\ DumpKeeps(Live(now), r)
    BY <2>1 DEF AddNew, r
  <2>3. e \in Node
    BY DEF Member, Node
  <2>4. t \in Seq(Node) /\ \E q : Grown(t, now, q, e)
    BY <1>0, <1>2, <1>10, <2>3, InsertedGrown
  <2> HIDE DEF t, e
  <2>5. PICK q : Grown(t, now, q, e)
    BY <2>4
  <2>6. \A j \in 1 .. Len(now), i \in Ids : LiveAt(now, j, i) => LiveAt(t, j, i) \/ LiveAt(t, j + 1, i)
    BY <1>0, <2>5 DEF Grown, LiveAt
  <2>7. \A i \in Ids : i \in Live(now) => Forward(members, t, i, r)
    <3> SUFFICES ASSUME NEW i \in Ids, i \in Live(now) PROVE Forward(members, t, i, r)
      OBVIOUS
    <3>1. PICK j \in 1 .. Len(now) : LiveAt(now, j, i)
      BY <1>6
    <3>2. PICK l \in Nat : LiveAt(members, l, i) /\ l <= j + r
      BY <1>0, <1>5, <3>1
    <3>3. l <= (j + 1) + r
      BY <1>0, <3>2
    <3> QED
      BY <2>6, <3>1, <3>2, <3>3 DEF Forward
  <2> QED
    BY <1>0, <2>2, <2>7 DEF Told
<1> QED
  BY <1>4, <1>7, <1>8, <1>9, <1>10

LEMMA DelTold ==
    ASSUME Lists, NEW walked, NEW now, Walk(walked, now), NEW id \in Ids,
           NEW refid, NEW side, NEW exist, list_set_udel(walked, now, side, id, refid, exist)
    PROVE  Told
<1> DEFINE ret == DelAnswer(walked, side, id, refid, exist)
           n == Position(walked, id)
           r == Len(Dead(members))
<1>0. /\ walked \in Seq(Node) /\ now \in Seq(Node) /\ Len(walked) = Len(now)
      /\ \A j, i : LiveAt(now, j, i) => LiveAt(walked, j, i)
      /\ r \in Nat
  BY Walked
<1>1. n # 0 => n \in 1 .. Len(now)
  BY <1>0, Found
<1>2. \A j, i : LiveAt(now, j, i) => \E l \in Nat : LiveAt(members, l, i) /\ l <= j + r
  BY <1>0, WalkForward
<1>3. ret = "deleted" => n # 0
  BY DEF DelAnswer
<1>4. CASE ret = "deleted"
  <2> DEFINE t == RemoveAt(now, n)
  <2>1. members' = t /\ DumpKeeps(Live(t), r + 1)
    BY <1>4 DEF list_set_udel
  <2>2. n \in 1 .. Len(now)
    BY <1>1, <1>3, <1>4
  <2>3. t \in Seq(Node) /\ Grown(now, t, n, now[n])
    BY <1>0, <2>2, RemoveAtShrinks
  <2> HIDE DEF t, n, r, ret
  <2>4. \A j \in 1 .. Len(t), i \in Ids : LiveAt(t, j, i) => LiveAt(now, j, i) \/ LiveAt(now, j + 1, i)
    <3>1. Len(now) = Len(t) + 1 /\ Len(t) \in Nat
      BY <2>3 DEF Grown
    <3> QED
      BY <2>3, <3>1 DEF Grown, LiveAt
  <2>5. \A i \in Ids : i \in Live(t) => Forward(members, t, i, r + 1)
    <3> SUFFICES ASSUME NEW i \in Ids, i \in Live(t) PROVE Forward(members, t, i, r + 1)
      OBVIOUS
    <3>1. PICK j \in 1 .. Len(t) : LiveAt(t, j, i)
      BY <2>3, LiveIs DEF IsMember
    <3>2. PICK l \in Nat : LiveAt(members, l, i) /\ (l <= j + r \/ l <= (j + 1) + r)
      BY <1>2, <2>4, <3>1
    <3>3. l <= j + (r + 1)
      BY <1>0, <3>2
    <3> QED
      BY <3>1, <3>2, <3>3 DEF Forward
  <2>6. r + 1 \in Nat
    BY <1>0
  <2> QED
    BY <2>1, <2>5, <2>6 DEF Told
<1>5. CASE ret # "deleted"
  <2>1. members' = now /\ DumpKeeps(Live(now), r + 0)
    BY <1>5 DEF list_set_udel
  <2> HIDE DEF r
  <2>2. r + 0 = r
    BY <1>0
  <2>3. \A i \in Ids : i \in Live(now) => Forward(members, now, i, r)
    <3> SUFFICES ASSUME NEW i \in Ids, i \in Live(now) PROVE Forward(members, now, i, r)
      OBVIOUS
    <3>1. PICK j \in 1 .. Len(now) : LiveAt(now, j, i)
      BY <1>0, LiveIs DEF IsMember
    <3> QED
      BY <1>2, <3>1 DEF Forward
  <2> QED
    BY <1>0, <2>1, <2>2, <2>3 DEF Told
<1> QED
  BY <1>4, <1>5

\* Steps that leave the list alone
LEMMA SameTold ==
    ASSUME Lists, UNCHANGED members, NEW kept, DumpKeeps(kept, 0)
    PROVE  Told
<1>1. \A n : n \in 1 .. Len(members) => n <= n + 0
  OBVIOUS
<1>2. \A i \in Ids : IsMember(members, i) => Forward(members, members', i, 0)
  BY <1>1 DEF IsMember, Forward, LiveAt
<1> QED
  BY <1>2 DEF Told

LEMMA UadtTold ==
    ASSUME Lists, NEW cmd, NEW id \in Ids, NEW before, NEW hasref \in BOOLEAN,
           NEW refid \in Others \union {Nobody}, list_set_uadt(cmd, id, before, hasref, refid)
    PROVE  Told
<1> DEFINE side == Side(before, hasref)
           second == IF hasref THEN refid ELSE Nobody
           swept == Unexpired(members)
<1>1. side \in {"last", "before", "after"}
  BY DEF Side
<1> HIDE DEF side, second
<1>2. \/ list_set_utest(side, id, second)
      \/ \E late : \E now \in {TimedOut(swept, late)} : \E walked \in {swept, now} :
            \/ list_set_uadd(walked, now, side, id, second)
            \/ \E exist \in BOOLEAN : list_set_udel(walked, now, side, id, second, exist)
  BY Zenon DEF list_set_uadt, side, second
<1>3. CASE list_set_utest(side, id, second)
  <2>1. UNCHANGED members /\ DumpKeeps(Ids, 0)
    BY <1>3 DEF list_set_utest
  <2> QED
    BY <2>1, SameTold
<1>4. CASE \E late : \E now \in {TimedOut(swept, late)} : \E walked \in {swept, now} :
              \/ list_set_uadd(walked, now, side, id, second)
              \/ \E exist \in BOOLEAN : list_set_udel(walked, now, side, id, second, exist)
  <2>1. PICK late, now, walked :
          /\ now = TimedOut(swept, late) /\ walked \in {swept, now}
          /\ \/ list_set_uadd(walked, now, side, id, second)
             \/ \E exist \in BOOLEAN : list_set_udel(walked, now, side, id, second, exist)
    BY <1>4, Zenon
  <2>2. Walk(walked, now)
    BY <2>1 DEF Walk
  <2> QED
    BY <1>1, <2>1, <2>2, AddTold, DelTold
<1> QED
  BY <1>2, <1>3, <1>4

LEMMA OtherTold ==
    ASSUME Lists, list_set_flush \/ list_set_gc \/ \E id : Timeout(id)
    PROVE  Told
<1>0. members \in Seq(Node)
  BY DEF Lists
<1>1. CASE list_set_flush
  <2>1. DumpKeeps({}, Len(members)) /\ Len(members) \in Nat
    BY <1>0, <1>1 DEF list_set_flush
  <2> QED
    BY <2>1 DEF Told
<1>2. CASE list_set_gc
  <2> DEFINE r == Len(Dead(members))
             u == Unexpired(members)
  <2>1. DumpKeeps(Ids, r) /\ members' = u
    BY <1>2 DEF list_set_gc
  <2>2. Dead(members) \in Seq(Node) /\ u \in Seq(Node)
    BY <1>0, Sweep
  <2>3. \A i \in Ids : IsMember(members, i) => \E k : LiveAt(u, k, i)
    BY <1>0, SweepMembers DEF IsMember
  <2>4. \A k, i : LiveAt(u, k, i) => \E n : LiveAt(members, n, i) /\ n <= k + r
    BY <1>0, SweepForward
  <2>5. r \in Nat
    BY <2>2
  <2> HIDE DEF r, u
  <2>6. \A i \in Ids : IsMember(members, i) => Forward(members, u, i, r)
    BY <2>3, <2>4 DEF Forward
  <2> QED
    BY <2>1, <2>5, <2>6 DEF Told
<1>3. CASE \E id : Timeout(id)
  <2>1. PICK id : Timeout(id)
    BY <1>3
  <2> DEFINE t == TimedOut(members, id)
  <2>2. members' = t /\ DumpKeeps(Live(t), 0)
    BY <2>1 DEF Timeout
  <2>3. t \in Seq(Node) /\ \A n, i : LiveAt(t, n, i) => LiveAt(members, n, i)
    BY <1>0, Late
  <2> HIDE DEF t
  <2>4. \A n, i : LiveAt(t, n, i) => n <= n + 0
    BY DEF LiveAt
  <2>5. \A i \in Ids : i \in Live(t) => Forward(members, t, i, 0)
    BY <2>3, <2>4, LiveIs DEF Forward, IsMember
  <2> QED
    BY <2>2, <2>5 DEF Told
<1> QED
  BY <1>1, <1>2, <1>3

LEMMA DumpStep ==
    ASSUME Lists, DumpRight, [Next]_vars
    PROVE  DumpRight'
<1>0. Lists'
  BY ListsStep
<1>1. CASE Told
  BY <1>0, <1>1, DumpKept DEF Told
<1>2. CASE Command
  <2>1. \/ \E cmd, id, before, hasref, refid : Refuse(cmd, id, before, hasref, refid)
        \/ \E cmd, before : \E hasref \in BOOLEAN, id \in Ids, refid \in Others \union {Nobody} :
              list_set_uadt(cmd, id, before, hasref, refid)
        \/ list_set_flush
    BY <1>2, Commands, Zenon
  <2>2. CASE \E cmd, id, before, hasref, refid : Refuse(cmd, id, before, hasref, refid)
    <3>1. UNCHANGED members /\ DumpKeeps(Ids, 0)
      BY <2>2 DEF Refuse
    <3> QED
      BY <1>1, <3>1, SameTold
  <2> QED
    BY <1>1, <2>1, <2>2, UadtTold, OtherTold
<1>3. CASE (\E id \in Ids : Timeout(id)) \/ list_set_gc
  BY <1>1, <1>3, OtherTold
<1>4. CASE DumpStart \/ list_set_list
  BY <1>4, DumpStartRight, ListRight
<1>5. CASE UNCHANGED vars
  <2>1. members' = members /\ dump' = dump
    BY <1>5 DEF vars
  <2>2. DumpMisses'
    BY <2>1 DEF DumpRight, DumpMisses, Position, FoundFrom
  <2> QED
    BY <2>1, <2>2 DEF DumpRight, IsMember, LiveAt
<1> QED
  BY <1>2, <1>3, <1>4, <1>5 DEF Next

LEMMA DumpInit ==
    ASSUME Init
    PROVE  DumpRight
<1>1. dump \in DumpType /\ dump.owed = {} /\ dump.removed = 0
  BY DEF Init, NoDump, DumpType
<1>2. {i \in dump.owed : Position(members, i) \in 1 .. dump.at} = {}
  BY <1>1
<1>3. DumpMisses
  BY <1>1, <1>2, FS_EmptySet DEF DumpMisses
<1> QED
  BY <1>1, <1>3 DEF DumpRight

----------------------------------------------------------------------------
(* The theorems                                                            *)

\* The list, its references and its counter, and the dump, are always right
LEMMA ListInvariant == Spec => [](Lists /\ DumpRight)
<1>1. Init => Lists /\ DumpRight
  BY ListsInit, DumpInit
<1>2. Lists /\ DumpRight /\ [Next]_vars => (Lists /\ DumpRight)'
  BY ListsStep, DumpStep
<1> QED
  BY <1>1, <1>2, PTL DEF Spec

\* The list is never longer than its bound, and add, delete, replacement, sweep
\* and timeout never leave a set on it twice unless one of its nodes timed out
THEOREM TypeCorrect == Spec => []TypeOK
<1>1. Lists /\ DumpRight => TypeOK
  <2> SUFFICES ASSUME Lists, DumpRight PROVE TypeOK
    OBVIOUS
  <2>1. /\ members \in Seq([id : Ids, life : Lives \union {"expired"}])
        /\ Len(members) <= MaxMembers
        /\ replaced \in 0 .. MaxReplaced
        /\ ref \in [Ids \union {ListId} -> Nat]
    BY DEF Lists, Node, Others
  <2>2. IsInjective(Order(members))
    BY LiveIs DEF Lists
  <2>3. elements \in Nat
    <3>1. Len(members) \in Nat /\ replaced \in Nat
      BY <2>1, ListSetAssumption
    <3> QED
      BY <3>1 DEF Lists, ElementsCounted
  <2>4. dump.at \in Nat /\ dump.on \in BOOLEAN /\ dump.owed \subseteq Ids
    BY DEF DumpRight, DumpType
  <2> QED
    BY <2>1, <2>2, <2>3, <2>4 DEF TypeOK
<1> QED
  BY <1>1, ListInvariant, PTL

\* Whatever commands, timeouts, sweeps and flushes come in whatever order, the
\* references that a list:set holds on other sets are exactly its nodes
THEOREM RefsExactCorrect == Spec => []RefsExact
<1>1. Lists => RefsExact
  BY DEF Lists
<1> QED
  BY <1>1, ListInvariant, PTL

\* The counter of elements is off by the number of replacements, by nothing else
THEOREM ElementsCountedCorrect == Spec => []ElementsCounted
<1>1. Lists => ElementsCounted
  BY DEF Lists
<1> QED
  BY <1>1, ListInvariant, PTL

\* However long the dump takes, it passes over no more of the members that are
\* there all the time than nodes were removed meanwhile
THEOREM DumpMissesCorrect == Spec => []DumpMisses
<1>1. DumpRight => DumpMisses
  BY DEF DumpRight
<1> QED
  BY <1>1, ListInvariant, PTL

----------------------------------------------------------------------------
(* The list keeps the promise of ListSpec.  An element put into a list     *)

\* What InsertAt does, by the parts of the sequence
LEMMA Inserts ==
    ASSUME NEW T, NEW m \in Seq(T), NEW q \in 0 .. Len(m), NEW e \in T
    PROVE  InsertAt(m, q + 1, e) = Append(SubSeq(m, 1, q), e) \o SubSeq(m, q + 1, Len(m))
<1> DEFINE p == q + 1
           a == SubSeq(m, 1, q)
           c == SubSeq(m, p, Len(m))
<1>1. q = p - 1
  OBVIOUS
<1>2. a \in Seq(T)
  BY Parts
<1> HIDE DEF p
<1>3. InsertAt(m, p, e) = (SubSeq(m, 1, p - 1) \o <<e>>) \o SubSeq(m, p, Len(m))
  BY DEF InsertAt
<1>4. InsertAt(m, p, e) = (a \o <<e>>) \o c
  BY <1>1, <1>3
<1> HIDE DEF a, c
<1>5. a \o <<e>> = Append(a, e)
  BY <1>2, AppendIsConcat
<1> QED
  BY <1>4, <1>5 DEF a, c, p

----------------------------------------------------------------------------
(* The order of a list, by the parts of the list                           *)

Alive == {e \in Node : ~ Expired(e)}

LEMMA UnexpiredIs ==
    ASSUME NEW m \in Seq(Node)
    PROVE  Unexpired(m) = Keep(m, Alive)
<1>1. \A n \in DOMAIN m : m[n] \in Node
  OBVIOUS
<1>2. {n \in DOMAIN m : ~ Expired(m[n])} = {n \in DOMAIN m : m[n] \in Alive}
  BY <1>1 DEF Alive
<1> QED
  BY <1>2 DEF Unexpired, Keep

LEMMA IdsOfIs ==
    ASSUME NEW m \in Seq(Node)
    PROVE  /\ IdsOf(m) \in Seq(Ids) /\ Len(IdsOf(m)) = Len(m)
           /\ \A n \in 1 .. Len(m) : IdsOf(m)[n] = m[n].id
<1> DEFINE l == IdsOf(m)
<1>1. Len(m) \in Nat /\ \A n \in 1 .. Len(m) : m[n].id \in Ids
  <2>1. \A e \in Node : e.id \in Ids
    BY DEF Node
  <2>2. \A n \in 1 .. Len(m) : m[n] \in Node
    OBVIOUS
  <2> QED
    BY <2>1, <2>2
<1>2. l = [n \in 1 .. Len(m) |-> m[n].id]
  BY DEF IdsOf
<1>3. l \in [1 .. Len(m) -> Ids] /\ \A n \in 1 .. Len(m) : l[n] = m[n].id
  BY <1>1, <1>2
<1> HIDE DEF l
<1>4. l \in Seq(Ids) /\ DOMAIN l = 1 .. Len(m)
  BY <1>1, <1>3, SeqDef
<1>5. Len(l) = Len(m)
  BY <1>1, <1>4, LenProperties
<1> QED
  BY <1>3, <1>4, <1>5 DEF l

LEMMA OrderIs ==
    ASSUME NEW m \in Seq(Node)
    PROVE  Order(m) \in Seq(Ids) /\ Order(m) = IdsOf(Keep(m, Alive)) /\ Keep(m, Alive) \in Seq(Node)
<1>1. Keep(m, Alive) \in Seq(Node)
  BY KeepIs
<1>2. Order(m) = IdsOf(Keep(m, Alive))
  BY UnexpiredIs DEF Order
<1> QED
  BY <1>1, <1>2, IdsOfIs

LEMMA IdsOfConcat ==
    ASSUME NEW a \in Seq(Node), NEW c \in Seq(Node)
    PROVE  IdsOf(a \o c) = IdsOf(a) \o IdsOf(c)
<1> DEFINE m == a \o c
           A == IdsOf(a)
           C == IdsOf(c)
           M == IdsOf(m)
           L == Len(a)
           N == Len(c)
<1>1. L \in Nat /\ N \in Nat
  OBVIOUS
<1>2. /\ m \in Seq(Node) /\ Len(m) = L + N
      /\ \A i \in 1 .. L + N : m[i] = IF i <= L THEN a[i] ELSE c[i - L]
  BY ConcatProperties
<1>3. /\ A \in Seq(Ids) /\ Len(A) = L /\ \A n \in 1 .. L : A[n] = a[n].id
      /\ C \in Seq(Ids) /\ Len(C) = N /\ \A n \in 1 .. N : C[n] = c[n].id
  BY IdsOfIs
<1> HIDE DEF m
<1>4. M \in Seq(Ids) /\ Len(M) = L + N /\ \A n \in 1 .. L + N : M[n] = m[n].id
  <2>1. M \in Seq(Ids) /\ Len(M) = Len(m) /\ \A n \in 1 .. Len(m) : M[n] = m[n].id
    BY <1>2, IdsOfIs
  <2> HIDE DEF M
  <2> QED
    BY <1>2, <2>1
<1> HIDE DEF A, C, M
<1>5. /\ A \o C \in Seq(Ids) /\ Len(A \o C) = L + N
      /\ \A i \in 1 .. L + N : (A \o C)[i] = IF i <= L THEN A[i] ELSE C[i - L]
  <2>1. A \in Seq(Ids) /\ C \in Seq(Ids)
    BY <1>3
  <2>2. /\ A \o C \in Seq(Ids) /\ Len(A \o C) = Len(A) + Len(C)
        /\ \A i \in 1 .. Len(A) + Len(C) : (A \o C)[i] = IF i <= Len(A) THEN A[i] ELSE C[i - Len(A)]
    BY <2>1, ConcatProperties
  <2>3. Len(A) = L /\ Len(C) = N
    BY <1>3
  <2> QED
    BY <2>2, <2>3, Zenon
<1> HIDE DEF L, N
<1>6. \A i \in 1 .. L + N : M[i] = (A \o C)[i]
  <2> SUFFICES ASSUME NEW i \in 1 .. L + N PROVE M[i] = (A \o C)[i]
    OBVIOUS
  <2>1. CASE i <= L
    <3>1. i \in 1 .. L
      BY <1>1, <2>1
    <3>2. M[i] = m[i].id /\ m[i] = a[i]
      BY <1>2, <1>4, <2>1
    <3>3. A[i] = a[i].id
      BY <1>3, <3>1
    <3>4. (A \o C)[i] = A[i]
      BY <1>5, <2>1
    <3> QED
      BY <3>2, <3>3, <3>4
  <2>2. CASE ~ (i <= L)
    <3> DEFINE k == i - L
    <3>1. k \in 1 .. N
      BY <1>1, <2>2
    <3>2. M[i] = m[i].id /\ m[i] = c[k]
      BY <1>2, <1>4, <2>2
    <3>3. (A \o C)[i] = C[k]
      BY <1>5, <2>2
    <3> HIDE DEF k
    <3>4. C[k] = c[k].id
      BY <1>3, <3>1
    <3> QED
      BY <3>2, <3>3, <3>4
  <2> QED
    BY <2>1, <2>2
<1>7. M = A \o C
  <2> DEFINE B == A \o C
  <2>1. B \in Seq(Ids) /\ Len(M) = Len(B) /\ \A i \in 1 .. Len(M) : M[i] = B[i]
    BY <1>4, <1>5, <1>6
  <2> HIDE DEF B
  <2>2. M = B
    BY <1>4, <2>1, SeqEqual
  <2> QED
    BY <2>2 DEF B
<1> QED
  BY <1>7 DEF m, A, C, M

LEMMA OrderConcat ==
    ASSUME NEW a \in Seq(Node), NEW c \in Seq(Node)
    PROVE  Order(a \o c) = Order(a) \o Order(c)
<1> DEFINE m == a \o c
           A == Keep(a, Alive)
           C == Keep(c, Alive)
<1>1. m \in Seq(Node) /\ Keep(m, Alive) = A \o C
  BY ConcatProperties, KeepConcat
<1>2. Order(a) = IdsOf(A) /\ Order(c) = IdsOf(C) /\ A \in Seq(Node) /\ C \in Seq(Node)
  BY OrderIs
<1> HIDE DEF m, A, C
<1>3. Order(m) = IdsOf(A \o C)
  BY <1>1, OrderIs
<1>4. IdsOf(A \o C) = IdsOf(A) \o IdsOf(C)
  BY <1>2, IdsOfConcat
<1> QED
  BY <1>2, <1>3, <1>4 DEF m

LEMMA OrderNone == Order(<< >>) = << >>
<1>1. Keep(<< >>, Alive) = << >> /\ << >> \in Seq(Node)
  BY KeepNone
<1>2. Order(<< >>) = IdsOf(<< >>)
  BY <1>1, OrderIs
<1>3. IdsOf(<< >>) \in Seq(Ids) /\ Len(IdsOf(<< >>)) = 0
  BY <1>1, IdsOfIs
<1> QED
  BY <1>2, <1>3

LEMMA OrderAppend ==
    ASSUME NEW m \in Seq(Node), NEW e \in Node
    PROVE  Order(Append(m, e)) = IF Expired(e) THEN Order(m) ELSE Append(Order(m), e.id)
<1> DEFINE K == Keep(m, Alive)
           t == Append(m, e)
           u == <<e>>
<1>1. t \in Seq(Node) /\ Keep(t, Alive) = IF e \in Alive THEN Append(K, e) ELSE K
  BY AppendProperties, KeepAppend
<1>2. K \in Seq(Node) /\ Order(m) = IdsOf(K) /\ IdsOf(K) \in Seq(Ids) /\ e.id \in Ids
  BY OrderIs, IdsOfIs DEF Node
<1> HIDE DEF K, t
<1>3. Order(t) = IdsOf(Keep(t, Alive))
  BY <1>1, OrderIs
<1>4. IdsOf(Append(K, e)) = Append(IdsOf(K), e.id)
  <2>1. u \in Seq(Node) /\ Append(K, e) = K \o u
    BY <1>2, AppendIsConcat
  <2>2. IdsOf(u) = <<e.id>>
    BY DEF IdsOf
  <2> HIDE DEF u
  <2>3. IdsOf(K \o u) = IdsOf(K) \o IdsOf(u)
    BY <1>2, <2>1, IdsOfConcat
  <2>4. IdsOf(K) \o <<e.id>> = Append(IdsOf(K), e.id)
    BY <1>2, AppendIsConcat
  <2> QED
    BY <2>1, <2>2, <2>3, <2>4
<1>5. e \in Alive <=> ~ Expired(e)
  BY DEF Alive
<1> QED
  BY <1>1, <1>2, <1>3, <1>4, <1>5 DEF t

----------------------------------------------------------------------------
(* The list without a name                                                 *)

Without(x, l) == Keep(l, Ids \ {x})

LEMMA WithoutIs ==
    ASSUME NEW l \in Seq(Ids), NEW x
    PROVE  Without(x, l) \in Seq(Ids)
BY KeepIs DEF Without

LEMMA WithoutNone == ASSUME NEW x PROVE Without(x, << >>) = << >>
BY KeepNone DEF Without

LEMMA WithoutConcat ==
    ASSUME NEW a \in Seq(Ids), NEW c \in Seq(Ids), NEW x
    PROVE  Without(x, a \o c) = Without(x, a) \o Without(x, c)
BY KeepConcat DEF Without

LEMMA WithoutAppend ==
    ASSUME NEW l \in Seq(Ids), NEW y \in Ids, NEW x
    PROVE  Without(x, Append(l, y)) = IF y = x THEN Without(x, l) ELSE Append(Without(x, l), y)
<1>1. y \in Ids \ {x} <=> y # x
  OBVIOUS
<1> QED
  BY <1>1, KeepAppend DEF Without

LEMMA WithoutAbsent ==
    ASSUME NEW l \in Seq(Ids), NEW x, \A n \in 1 .. Len(l) : l[n] # x
    PROVE  Without(x, l) = l
<1>1. \A n \in 1 .. Len(l) : l[n] \in Ids \ {x}
  OBVIOUS
<1> QED
  BY <1>1, KeepAll DEF Without

On(y, l) == \E n \in 1 .. Len(l) : l[n] = y

LEMMA WithoutListed ==
    ASSUME NEW l \in Seq(Ids), NEW x, NEW y
    PROVE  On(y, Without(x, l)) <=> (y # x /\ On(y, l))
<1> DEFINE P == {n \in DOMAIN l : l[n] \in Ids \ {x}}
           t == Picked(l, P)
<1>1. P \subseteq 1 .. Len(l)
  OBVIOUS
<1>2. \A n \in 1 .. Len(l) : n \in P <=> l[n] # x
  OBVIOUS
<1> HIDE DEF P
<1>3. t \in Seq(Ids) /\ \E g : Comes(t, l, P, g)
  BY <1>1, PickedComes
<1>4. PICK g : Comes(t, l, P, g)
  BY <1>3
<1> HIDE DEF t
<1>5. (\E n \in 1 .. Len(t) : t[n] = y) <=> (y # x /\ \E n \in 1 .. Len(l) : l[n] = y)
  <2>1. ASSUME NEW n \in 1 .. Len(t), t[n] = y
        PROVE  y # x /\ \E k \in 1 .. Len(l) : l[k] = y
    <3>1. g[n] \in P /\ l[g[n]] = y
      BY <1>4, <2>1 DEF Comes
    <3> QED
      BY <1>1, <1>2, <3>1
  <2>2. ASSUME y # x, NEW k \in 1 .. Len(l), l[k] = y
        PROVE  \E n \in 1 .. Len(t) : t[n] = y
    <3>1. k \in P
      BY <1>2, <2>2
    <3>2. PICK n \in 1 .. Len(t) : g[n] = k
      BY <1>4, <3>1 DEF Comes
    <3>3. t[n] = l[k]
      BY <1>4, <3>2 DEF Comes
    <3> QED
      BY <2>2, <3>3
  <2> QED
    BY <2>1, <2>2
<1> QED
  BY <1>5 DEF t, P, Without, Keep, On

\* The nodes of m are the names of l; the ones of late timed out
Image(m, l, late) ==
    /\ m \in Seq(Node) /\ l \in Seq(Ids) /\ Len(m) = Len(l)
    /\ \A n \in 1 .. Len(l) : m[n].id = l[n] /\ (Expired(m[n]) <=> l[n] = late)

LEMMA OrderImage ==
    ASSUME NEW m, NEW l, NEW late, Image(m, l, late)
    PROVE  Order(m) = Without(late, l)
<1> DEFINE L == Len(l)
           Good == {n \in 0 .. L : Order(SubSeq(m, 1, n)) = Without(late, SubSeq(l, 1, n))}
<1>1. /\ L \in Nat /\ m \in Seq(Node) /\ l \in Seq(Ids) /\ Len(m) = L
      /\ \A n \in 1 .. L : m[n].id = l[n] /\ (Expired(m[n]) <=> l[n] = late)
  BY DEF Image
<1> HIDE DEF L
<1>2. 0 \in Good
  <2>1. SubSeq(m, 1, 0) = << >> /\ SubSeq(l, 1, 0) = << >>
    BY SubSeqEmpty
  <2>2. Order(SubSeq(m, 1, 0)) = Without(late, SubSeq(l, 1, 0))
    BY <2>1, OrderNone, WithoutNone
  <2> QED
    BY <1>1, <2>2
<1>3. ASSUME NEW n \in 0 .. L, n \in Good, n < L PROVE n + 1 \in Good
  <2> DEFINE k == n + 1
             a == SubSeq(m, 1, n)
             b == SubSeq(l, 1, n)
  <2>0. n \in 0 .. Len(m) /\ n < Len(m) /\ n \in 0 .. Len(l) /\ n < Len(l)
        /\ m \in Seq(Node) /\ l \in Seq(Ids) /\ Len(m) = L
    BY <1>1, <1>3 DEF L
  <2>1. k \in 1 .. L /\ k \in 0 .. L /\ m[k] \in Node /\ l[k] \in Ids
    <3>1. n + 1 \in 1 .. Len(m) /\ m[n + 1] \in Node /\ l[n + 1] \in Ids
      BY <2>0, Longer
    <3> QED
      BY <2>0, <3>1
  <2>2. a \in Seq(Node) /\ b \in Seq(Ids)
    BY <2>0, Longer
  <2>3. SubSeq(m, 1, k) = Append(a, m[k]) /\ SubSeq(l, 1, k) = Append(b, l[k])
    BY <2>0, Longer
  <2>4. Order(a) = Without(late, b)
    BY <1>3
  <2>5. m[k].id = l[k] /\ (Expired(m[k]) <=> l[k] = late)
    BY <1>1, <2>1
  <2> HIDE DEF a, b, k
  <2>6. Order(Append(a, m[k])) = IF Expired(m[k]) THEN Order(a) ELSE Append(Order(a), m[k].id)
    BY <2>1, <2>2, OrderAppend
  <2>7. Without(late, Append(b, l[k])) =
           IF l[k] = late THEN Without(late, b) ELSE Append(Without(late, b), l[k])
    BY <2>1, <2>2, WithoutAppend
  <2>8. Order(SubSeq(m, 1, k)) = Without(late, SubSeq(l, 1, k))
    BY <2>3, <2>4, <2>5, <2>6, <2>7
  <2> QED
    BY <2>1, <2>8 DEF k
<1> HIDE DEF Good
<1>4. \A n \in 0 .. L : n \in Good
  BY <1>1, <1>2, <1>3, UpTo
<1>5. L \in Good
  <2>1. L \in 0 .. L
    BY <1>1
  <2> QED
    BY <1>4, <2>1
<1>6. SubSeq(m, 1, L) = m /\ SubSeq(l, 1, L) = l
  BY <1>1, SubSeqFull DEF L
<1> QED
  BY <1>5, <1>6 DEF Good

----------------------------------------------------------------------------
(* What the promise says of a list                                         *)

LEMMA PromiseWithout ==
    ASSUME NEW l \in Seq(Ids), NEW x
    PROVE  Promise!Without(x, l) = Without(x, l)
<1>1. {i \in DOMAIN l : l[i] # x} = {n \in DOMAIN l : l[n] \in Ids \ {x}}
  OBVIOUS
<1>2. \A P : Promise!Picked(l, P) = Picked(l, P)
  BY DEF Promise!Picked, Picked
<1> QED
  BY <1>1, <1>2 DEF Promise!Without, Without, Keep

LEMMA PromiseListed ==
    ASSUME NEW l \in Seq(Ids), NEW x
    PROVE  Promise!Listed(x, l) <=> On(x, l)
BY DEF Promise!Listed, ToSet, Promise!ToSet, On

LEMMA ListedWithout ==
    ASSUME NEW l \in Seq(Ids), NEW x, NEW w
    PROVE  Promise!Listed(x, Without(w, l)) <=> (x # w /\ On(x, l))
<1> DEFINE k == Without(w, l)
<1>1. k \in Seq(Ids) /\ (On(x, k) <=> (x # w /\ On(x, l)))
  BY WithoutIs, WithoutListed
<1> HIDE DEF k
<1>2. Promise!Listed(x, k) <=> On(x, k)
  BY <1>1, PromiseListed
<1> QED
  BY <1>1, <1>2 DEF k

Distinct(l) == \A i, j \in 1 .. Len(l) : l[i] = l[j] => i = j

LEMMA WithoutDistinct ==
    ASSUME NEW l \in Seq(Ids), NEW x, Distinct(l)
    PROVE  Distinct(Without(x, l))
<1> DEFINE P == {n \in DOMAIN l : l[n] \in Ids \ {x}}
           t == Picked(l, P)
<1>1. P \in SUBSET (1 .. Len(l))
  OBVIOUS
<1> HIDE DEF P
<1>2. t \in Seq(Ids) /\ \E g : Comes(t, l, P, g)
  BY <1>1, PickedComes
<1>3. PICK g : Comes(t, l, P, g)
  BY <1>2
<1> HIDE DEF t
<1>4. Distinct(t)
  <2> SUFFICES ASSUME NEW i \in 1 .. Len(t), NEW j \in 1 .. Len(t), t[i] = t[j] PROVE i = j
    BY DEF Distinct
  <2>1. /\ g[i] \in 1 .. Len(l) /\ g[j] \in 1 .. Len(l) /\ t[i] = l[g[i]] /\ t[j] = l[g[j]]
    BY <1>1, <1>3 DEF Comes
  <2>2. g[i] = g[j]
    BY <2>1 DEF Distinct
  <2> QED
    BY <1>1, <1>2, <1>3, <2>2, ComesInjective
<1> QED
  BY <1>4 DEF t, P, Without, Keep

LEMMA PlaceIs ==
    ASSUME NEW l \in Seq(Ids), Distinct(l), NEW n \in 1 .. Len(l)
    PROVE  Promise!Place(l[n], l) = n
<1>1. DOMAIN l = 1 .. Len(l)
  OBVIOUS
<1>2. \A i \in DOMAIN l : l[i] = l[n] => i = n
  BY <1>1 DEF Distinct
<1> QED
  BY <1>1, <1>2 DEF Promise!Place

LEMMA InsertsBetween ==
    ASSUME NEW T, NEW a \in Seq(T), NEW c \in Seq(T), NEW e \in T
    PROVE  InsertAt(a \o c, Len(a) + 1, e) = Append(a, e) \o c
<1> DEFINE m == a \o c
           q == Len(a)
<1>1. m \in Seq(T) /\ q \in 0 .. Len(m) /\ SubSeq(m, 1, q) = a /\ SubSeq(m, q + 1, Len(m)) = c
  BY Cut
<1> HIDE DEF m, q
<1>2. InsertAt(m, q + 1, e) = Append(SubSeq(m, 1, q), e) \o SubSeq(m, q + 1, Len(m))
  BY <1>1, Inserts
<1>3. InsertAt(m, q + 1, e) = Append(a, e) \o c
  BY <1>1, <1>2
<1> QED
  BY <1>3 DEF m, q

\* Where l is cut for a name that goes before or after the name r, or last
CutFor(l, side, r, w, q) ==
    \/ side = "last" /\ q = Len(l)
    \/ side = "before" /\ q + 1 \in 1 .. Len(l) /\ l[q + 1] = r /\ r # w
    \/ side = "after" /\ q \in 1 .. Len(l) /\ l[q] = r /\ r # w

\* Putting a name on the list that lacks w, by the parts of the whole list
LEMMA PutIs ==
    ASSUME NEW l \in Seq(Ids), Distinct(l), NEW w, NEW q \in 0 .. Len(l), NEW x \in Ids,
           NEW side, NEW r, CutFor(l, side, r, w, q)
    PROVE  Promise!Put(x, side, r, Without(w, l)) =
              Append(Without(w, SubSeq(l, 1, q)), x) \o Without(w, SubSeq(l, q + 1, Len(l)))
<1> DEFINE a == SubSeq(l, 1, q)
           c == SubSeq(l, q + 1, Len(l))
           s == Without(w, l)
           P == Without(w, a)
           Q == Without(w, c)
<1>1. a \in Seq(Ids) /\ c \in Seq(Ids) /\ l = a \o c
  BY Parts
<1>2. s \in Seq(Ids) /\ Distinct(s) /\ P \in Seq(Ids) /\ Q \in Seq(Ids)
  BY <1>1, WithoutIs, WithoutDistinct
<1>3. s = P \o Q
  <2> HIDE DEF a, c
  <2>1. Without(w, a \o c) = P \o Q
    BY <1>1, WithoutConcat
  <2> QED
    BY <1>1, <2>1
<1>4. InsertAt(s, Len(P) + 1, x) = Append(P, x) \o Q
  BY <1>2, <1>3, InsertsBetween
<1>5. CASE side = "last" /\ q = Len(l)
  <2>1. c = << >>
    BY <1>5, SubSeqEmpty
  <2>2. Q = << >>
    BY <2>1, WithoutNone
  <2> HIDE DEF s, P, Q, c, a
  <2>3. s = P /\ Append(P, x) \o Q = Append(P, x)
    <3> DEFINE t == Append(P, x)
    <3>1. t \in Seq(Ids)
      BY <1>2, AppendProperties
    <3> HIDE DEF t
    <3>2. t \o << >> = t /\ P \o << >> = P
      BY <1>2, <3>1, ConcatEmptySeq
    <3> QED
      BY <1>3, <2>2, <3>2 DEF t
  <2>4. Promise!Put(x, side, r, s) = Append(s, x)
    BY <1>5 DEF Promise!Put
  <2> QED
    BY <2>3, <2>4 DEF s, P, Q, c, a
<1>6. CASE side = "before" /\ q + 1 \in 1 .. Len(l) /\ l[q + 1] = r /\ r # w
  <2> DEFINE k == q + 1
             b == SubSeq(l, 1, k)
             d == SubSeq(l, k + 1, Len(l))
             R == Without(w, d)
  <2>1. k \in 0 .. Len(l) /\ q < Len(l) /\ r \in Ids
    BY <1>6
  <2>2. b \in Seq(Ids) /\ d \in Seq(Ids) /\ l = b \o d
    BY <2>1, Parts
  <2>3. b = Append(a, r)
    BY <1>6, <2>1, Longer
  <2> HIDE DEF a, b, c, d, k
  <2>4. Without(w, b) = Append(P, r)
    BY <1>1, <1>6, <2>1, <2>3, WithoutAppend
  <2>5. s = Append(P, r) \o R /\ R \in Seq(Ids)
    <3>1. Without(w, b \o d) = Without(w, b) \o R
      BY <2>2, WithoutConcat
    <3> QED
      BY <2>2, <2>4, <3>1, WithoutIs
  <2> HIDE DEF s, P, Q, R
  <2>6. s[Len(P) + 1] = r /\ Len(s) = Len(P) + Len(R) + 1
    BY <1>2, <2>1, <2>5, Between
  <2>7. Len(P) + 1 \in 1 .. Len(s)
    BY <1>2, <2>5, <2>6
  <2>8. Promise!Place(r, s) = Len(P) + 1
    BY <1>2, <2>6, <2>7, PlaceIs
  <2>9. Promise!Put(x, side, r, s) = InsertAt(s, Len(P) + 1, x)
    BY <1>6, <2>8 DEF Promise!Put, Promise!InsertAt, InsertAt
  <2> QED
    BY <1>4, <2>9 DEF s, P, Q, a, c
<1>7. CASE side = "after" /\ q \in 1 .. Len(l) /\ l[q] = r /\ r # w
  <2> DEFINE k == q - 1
             b == SubSeq(l, 1, k)
             B == Without(w, b)
  <2>1. k \in 0 .. Len(l) /\ k < Len(l) /\ k + 1 = q /\ r \in Ids
    BY <1>7
  <2>2. b \in Seq(Ids) /\ SubSeq(l, 1, k + 1) = Append(b, l[k + 1])
    BY <2>1, Longer
  <2>3. a = Append(b, r)
    BY <1>7, <2>1, <2>2
  <2> HIDE DEF a, b, c
  <2>4. P = Append(B, r) /\ B \in Seq(Ids)
    BY <1>7, <2>1, <2>2, <2>3, WithoutAppend, WithoutIs
  <2> HIDE DEF s, P, Q, B, b, a, c, k
  <2>5. Len(P) = Len(B) + 1 /\ P[Len(B) + 1] = r /\ Len(B) \in Nat
    BY <2>1, <2>4, AppendProperties
  <2>6. s[Len(P)] = r /\ Len(P) \in 1 .. Len(s)
    <3>1. /\ Len(s) = Len(P) + Len(Q)
          /\ \A i \in 1 .. Len(P) + Len(Q) : s[i] = IF i <= Len(P) THEN P[i] ELSE Q[i - Len(P)]
      BY <1>2, <1>3, ConcatProperties
    <3>2. Len(P) \in 1 .. Len(P) + Len(Q)
      BY <1>2, <2>5
    <3>3. s[Len(P)] = P[Len(P)]
      BY <2>5, <3>1, <3>2
    <3> QED
      BY <2>5, <3>1, <3>2, <3>3
  <2>8. Promise!Place(r, s) = Len(P)
    BY <1>2, <2>6, PlaceIs
  <2>9. Promise!Put(x, side, r, s) = InsertAt(s, Len(P) + 1, x)
    BY <1>7, <2>8 DEF Promise!Put, Promise!InsertAt, InsertAt
  <2> QED
    BY <1>4, <2>9 DEF s, P, Q, a, c
<1> QED
  BY <1>5, <1>6, <1>7 DEF CutFor

LEMMA FollowsIs ==
    ASSUME NEW l \in Seq(Ids), Distinct(l), NEW n \in 1 .. Len(l), NEW y
    PROVE  /\ Promise!Follows(l[n], y, l) <=> (n + 1 \in 1 .. Len(l) /\ l[n + 1] = y)
           /\ Promise!Follows(y, l[n], l) <=> (n - 1 \in 1 .. Len(l) /\ l[n - 1] = y)
<1> DEFINE L == Len(l)
<1>1. L \in Nat /\ n \in Nat /\ 1 <= n /\ n <= L
  OBVIOUS
<1>2. \A i \in 1 .. L : l[i] = l[n] => i = n
  BY DEF Distinct
<1>3. \A x, z : Promise!Follows(x, z, l) <=> \E i \in 1 .. L - 1 : l[i] = x /\ l[i + 1] = z
  BY DEF Promise!Follows
<1> HIDE DEF L
<1>4. Promise!Follows(l[n], y, l) <=> (n + 1 \in 1 .. L /\ l[n + 1] = y)
  <2>1. ASSUME NEW i \in 1 .. L - 1, l[i] = l[n], l[i + 1] = y
        PROVE  n + 1 \in 1 .. L /\ l[n + 1] = y
    <3>1. i \in 1 .. L /\ i + 1 \in 1 .. L
      BY <1>1
    <3>2. i = n
      BY <1>2, <2>1, <3>1
    <3> QED
      BY <2>1, <3>1, <3>2
  <2>2. ASSUME n + 1 \in 1 .. L, l[n + 1] = y
        PROVE  \E i \in 1 .. L - 1 : l[i] = l[n] /\ l[i + 1] = y
    <3>1. n \in 1 .. L - 1
      BY <1>1, <2>2
    <3> QED
      BY <2>2, <3>1
  <2> QED
    BY <1>3, <2>1, <2>2
<1>5. Promise!Follows(y, l[n], l) <=> (n - 1 \in 1 .. L /\ l[n - 1] = y)
  <2>1. ASSUME NEW i \in 1 .. L - 1, l[i] = y, l[i + 1] = l[n]
        PROVE  n - 1 \in 1 .. L /\ l[n - 1] = y
    <3>1. i \in 1 .. L /\ i + 1 \in 1 .. L
      BY <1>1
    <3>2. i + 1 = n
      BY <1>2, <2>1, <3>1
    <3>3. n - 1 = i
      BY <3>1, <3>2
    <3> QED
      BY <2>1, <3>1, <3>3
  <2>2. ASSUME n - 1 \in 1 .. L, l[n - 1] = y
        PROVE  \E i \in 1 .. L - 1 : l[i] = y /\ l[i + 1] = l[n]
    <3> DEFINE i == n - 1
    <3>1. i \in 1 .. L - 1 /\ i + 1 = n
      BY <1>1, <2>2
    <3>2. l[i] = y
      BY <2>2
    <3> HIDE DEF i
    <3> QED
      BY <3>1, <3>2
  <2> QED
    BY <1>3, <2>1, <2>2
<1> QED
  BY <1>4, <1>5 DEF L

LEMMA FollowsListed ==
    ASSUME NEW l \in Seq(Ids), NEW x, NEW y, Promise!Follows(x, y, l)
    PROVE  On(x, l) /\ On(y, l)
<1>1. PICK i \in 1 .. Len(l) - 1 : l[i] = x /\ l[i + 1] = y
  BY DEF Promise!Follows
<1>2. i \in 1 .. Len(l) /\ i + 1 \in 1 .. Len(l)
  BY <1>1
<1> QED
  BY <1>1, <1>2 DEF On

\* What a name follows, when the names before it are known
LEMMA FollowsLast ==
    ASSUME NEW P \in Seq(Ids), NEW R \in Seq(Ids), NEW x \in Ids, NEW y,
           Distinct(Append(P, x) \o R)
    PROVE  Promise!Follows(y, x, Append(P, x) \o R) <=> (P # << >> /\ Last(P) = y)
<1> DEFINE s == Append(P, x) \o R
           n == Len(P) + 1
<1>1. /\ s \in Seq(Ids) /\ Len(s) = Len(P) + Len(R) + 1 /\ s[n] = x
      /\ \A k \in 1 .. Len(P) : s[k] = P[k]
  BY Between
<1>2. Len(P) \in Nat /\ Len(R) \in Nat /\ Distinct(s)
  OBVIOUS
<1> HIDE DEF s
<1>3. n \in 1 .. Len(s)
  BY <1>1, <1>2
<1>4. Promise!Follows(y, x, s) <=> (n - 1 \in 1 .. Len(s) /\ s[n - 1] = y)
  <2> HIDE DEF n
  <2>1. Promise!Follows(y, s[n], s) <=> (n - 1 \in 1 .. Len(s) /\ s[n - 1] = y)
    BY <1>1, <1>2, <1>3, FollowsIs
  <2> QED
    BY <1>1, <2>1
<1>5. n - 1 = Len(P) /\ (Len(P) \in 1 .. Len(s) <=> Len(P) # 0)
  BY <1>1, <1>2
<1>6. P # << >> <=> Len(P) # 0
  BY EmptySeq
<1>7. Len(P) # 0 => s[Len(P)] = Last(P)
  BY <1>1, <1>2 DEF Last
<1> HIDE DEF n
<1>8. Promise!Follows(y, x, s) <=> (P # << >> /\ Last(P) = y)
  BY <1>4, <1>5, <1>6, <1>7
<1> QED
  BY <1>8 DEF s

----------------------------------------------------------------------------
(* The list a command works on                                             *)

LEMMA ImageParts ==
    ASSUME NEW m, NEW l, NEW late, Image(m, l, late), NEW q \in 0 .. Len(l)
    PROVE  /\ Image(SubSeq(m, 1, q), SubSeq(l, 1, q), late)
           /\ Image(SubSeq(m, q + 1, Len(m)), SubSeq(l, q + 1, Len(l)), late)
<1> DEFINE a == SubSeq(m, 1, q)
           c == SubSeq(m, q + 1, Len(m))
           A == SubSeq(l, 1, q)
           C == SubSeq(l, q + 1, Len(l))
           L == Len(l)
<1>1. /\ m \in Seq(Node) /\ l \in Seq(Ids) /\ Len(m) = L /\ L \in Nat /\ q \in 0 .. Len(m)
      /\ \A n \in 1 .. L : m[n].id = l[n] /\ (Expired(m[n]) <=> l[n] = late)
  BY DEF Image
<1>2. /\ a \in Seq(Node) /\ c \in Seq(Node) /\ Len(a) = q /\ Len(c) = Len(m) - q
      /\ \A n \in 1 .. q : a[n] = m[n]
      /\ \A n \in 1 .. Len(m) - q : c[n] = m[q + n]
  BY <1>1, Parts
<1>3. /\ A \in Seq(Ids) /\ C \in Seq(Ids) /\ Len(A) = q /\ Len(C) = L - q
      /\ \A n \in 1 .. q : A[n] = l[n]
      /\ \A n \in 1 .. L - q : C[n] = l[q + n]
  BY <1>1, Parts
<1> HIDE DEF a, c, A, C, L
<1>4. Image(a, A, late)
  <2>1. \A n \in 1 .. q : n \in 1 .. L
    BY <1>1
  <2> QED
    BY <1>1, <1>2, <1>3, <2>1 DEF Image
<1>5. Image(c, C, late)
  <2>1. \A n \in 1 .. L - q : q + n \in 1 .. L
    BY <1>1
  <2>2. \A n \in 1 .. L - q : c[n].id = C[n] /\ (Expired(c[n]) <=> C[n] = late)
    <3> SUFFICES ASSUME NEW n \in 1 .. L - q
                 PROVE  c[n].id = C[n] /\ (Expired(c[n]) <=> C[n] = late)
      OBVIOUS
    <3>1. c[n] = m[q + n] /\ C[n] = l[q + n]
      BY <1>1, <1>2, <1>3
    <3> QED
      BY <1>1, <2>1, <3>1
  <2>3. Len(c) = L - q /\ Len(C) = L - q
    BY <1>1, <1>2, <1>3
  <2> QED
    BY <1>2, <1>3, <2>2, <2>3 DEF Image
<1> QED
  BY <1>4, <1>5 DEF a, c, A, C, L

\* The order with a new node between two parts
LEMMA OrderBetween ==
    ASSUME NEW a, NEW A, NEW c, NEW C, NEW late, Image(a, A, late), Image(c, C, late),
           NEW e \in Node, ~ Expired(e)
    PROVE  /\ Order(Append(a, e) \o c) = Append(Without(late, A), e.id) \o Without(late, C)
           /\ Order(a \o c) = Without(late, A) \o Without(late, C)
<1>1. a \in Seq(Node) /\ c \in Seq(Node)
  BY DEF Image
<1>2. Order(a) = Without(late, A) /\ Order(c) = Without(late, C)
  BY OrderImage
<1> DEFINE b == Append(a, e)
<1>3. b \in Seq(Node) /\ Order(b) = Append(Order(a), e.id)
  BY <1>1, OrderAppend, AppendProperties
<1> HIDE DEF b
<1>4. Order(b \o c) = Order(b) \o Order(c) /\ Order(a \o c) = Order(a) \o Order(c)
  BY <1>1, <1>3, OrderConcat
<1> QED
  BY <1>2, <1>3, <1>4 DEF b

LEMMA SweptImage ==
    ASSUME Lists
    PROVE  /\ Image(Unexpired(members), Order(members), Nobody)
           /\ Order(members) \in Seq(Ids) /\ Distinct(Order(members))
<1> DEFINE s == Unexpired(members)
           l == Order(members)
<1>1. members \in Seq(Node) /\ Once(members)
  BY DEF Lists
<1>2. s \in Seq(Node) /\ l = IdsOf(s)
  BY <1>1, Sweep DEF Order
<1>3. \A n \in 1 .. Len(s) : ~ Expired(s[n])
  BY <1>1, SweepMembers
<1>4. l \in Seq(Ids) /\ Len(l) = Len(s) /\ \A n \in 1 .. Len(s) : l[n] = s[n].id
  BY <1>2, IdsOfIs
<1>5. IsInjective(l)
  BY <1>1, LiveIs
<1> HIDE DEF s, l
<1>6. \A n \in 1 .. Len(l) : l[n] # Nobody
  <2>1. \A n \in 1 .. Len(l) : l[n] \in Ids
    BY <1>4
  <2> QED
    BY <2>1, ListSetAssumption
<1>7. Image(s, l, Nobody)
  BY <1>2, <1>3, <1>4, <1>6 DEF Image
<1>8. Distinct(l)
  BY <1>4, <1>5 DEF IsInjective, Distinct
<1> QED
  BY <1>4, <1>7, <1>8 DEF s, l

LEMMA LateImage ==
    ASSUME NEW s, NEW l, Image(s, l, Nobody), Distinct(l),
           NEW late \in CanTimeOut(s) \union {Nobody}
    PROVE  /\ Image(TimedOut(s, late), l, late)
           /\ late = Nobody \/ On(late, l)
<1> DEFINE t == TimedOut(s, late)
           L == Len(l)
<1>1. /\ s \in Seq(Node) /\ l \in Seq(Ids) /\ Len(s) = L /\ L \in Nat
      /\ \A n \in 1 .. L : s[n].id = l[n] /\ ~ Expired(s[n]) /\ l[n] # Nobody
  <2>1. \A n \in 1 .. L : l[n] \in Ids
    BY DEF Image
  <2> QED
    BY <2>1, ListSetAssumption DEF Image
<1>2. DOMAIN s = 1 .. L
  BY <1>1
<1>3. t \in Seq(Node) /\ Len(t) = L /\ \A n \in 1 .. L : t[n].id = s[n].id
  BY <1>1, Late
<1>4. \A n \in 1 .. L : t[n] = IF s[n] = Member(late, "timed") THEN Member(late, "expired") ELSE s[n]
  BY <1>2 DEF TimedOut
<1> HIDE DEF t, L
<1>5. late = Nobody \/ \E n \in 1 .. L : s[n] \in Node /\ s[n].life = "timed" /\ s[n].id = late
  BY <1>1, <1>2 DEF CanTimeOut, ToSet
<1>6. \A n \in 1 .. L : s[n].id = late => s[n] = Member(late, "timed")
  <2> SUFFICES ASSUME NEW n \in 1 .. L, s[n].id = late PROVE s[n] = Member(late, "timed")
    OBVIOUS
  <2>1. late # Nobody
    BY <1>1
  <2>2. PICK k \in 1 .. L : s[k] \in Node /\ s[k].life = "timed" /\ s[k].id = late
    BY <1>5, <2>1
  <2>3. k = n
    BY <1>1, <2>2 DEF Distinct, L
  <2> QED
    BY <2>2, <2>3 DEF Node, Member
<1>7. \A n \in 1 .. L : Expired(t[n]) <=> l[n] = late
  <2> SUFFICES ASSUME NEW n \in 1 .. L PROVE Expired(t[n]) <=> l[n] = late
    OBVIOUS
  <2>1. CASE l[n] = late
    BY <1>1, <1>4, <1>6, <2>1 DEF Member, Expired
  <2>2. CASE l[n] # late
    <3>1. s[n] # Member(late, "timed")
      BY <1>1, <2>2 DEF Member
    <3> QED
      BY <1>1, <1>4, <2>2, <3>1
  <2> QED
    BY <2>1, <2>2
<1>8. Image(t, l, late)
  BY <1>1, <1>3, <1>7 DEF Image, L
<1>9. late = Nobody \/ \E n \in 1 .. L : l[n] = late
  BY <1>1, <1>5
<1> QED
  BY <1>8, <1>9 DEF t, L, On

LEMMA PositionImage ==
    ASSUME NEW m, NEW l, NEW w, Image(m, l, w), NEW i
    PROVE  /\ Position(m, i) \in 0 .. Len(l)
           /\ Position(m, i) # 0 => l[Position(m, i)] = i /\ i # w
           /\ Position(m, i) # 0 <=> Promise!Listed(i, Without(w, l))
<1>1. /\ m \in Seq(Node) /\ l \in Seq(Ids) /\ Len(m) = Len(l)
      /\ \A n \in 1 .. Len(l) : m[n].id = l[n] /\ (Expired(m[n]) <=> l[n] = w)
  BY DEF Image
<1>2. /\ Position(m, i) \in 0 .. Len(m)
      /\ Position(m, i) # 0 <=> IsMember(m, i)
      /\ Position(m, i) # 0 => LiveAt(m, Position(m, i), i)
  BY <1>1, Found
<1>3. \A n : LiveAt(m, n, i) <=> (n \in 1 .. Len(l) /\ l[n] = i /\ i # w)
  BY <1>1 DEF LiveAt
<1>4. IsMember(m, i) <=> (i # w /\ On(i, l))
  BY <1>1, <1>3 DEF IsMember, On
<1>5. Promise!Listed(i, Without(w, l)) <=> (i # w /\ On(i, l))
  BY <1>1, ListedWithout
<1> QED
  BY <1>1, <1>2, <1>3, <1>4, <1>5

----------------------------------------------------------------------------
(* What a command answers and leaves, in the words of the promise          *)

\* e between the parts of m up to q and from the one after k on, and the same
\* of the names l without late
Amid(m, q, e, k) == Append(SubSeq(m, 1, q), e) \o SubSeq(m, k + 1, Len(m))
AmidNames(late, l, q, x, k) ==
    Append(Without(late, SubSeq(l, 1, q)), x) \o Without(late, SubSeq(l, k + 1, Len(l)))

\* A new name on the list of a command during which late timed out: the order
\* the code leaves is the one the promise asks for, whether the command saw
\* late or not
LEMMA NewOutcome ==
    ASSUME NEW l \in Seq(Ids), Distinct(l), NEW late, NEW w \in {Nobody, late},
           NEW q \in 0 .. Len(l), NEW x \in Ids, NEW side, NEW r, CutFor(l, side, r, w, q),
           NEW seen, seen = Without(w, l), ~ Promise!Listed(x, seen),
           NEW placed, placed = Promise!Put(x, side, r, seen)
    PROVE  /\ Promise!Listed(late, seen) => Promise!Without(late, placed) = AmidNames(late, l, q, x, q)
           /\ ~ Promise!Listed(late, seen) => placed = AmidNames(late, l, q, x, q)
<1> DEFINE a == SubSeq(l, 1, q)
           c == SubSeq(l, q + 1, Len(l))
           P == Without(w, a)
           Q == Without(w, c)
<1>1. a \in Seq(Ids) /\ c \in Seq(Ids) /\ l = a \o c
  BY Parts
<1>2. placed = Append(P, x) \o Q
  BY PutIs
<1>3. /\ \A n \in 1 .. Len(a) : a[n] = l[n]
      /\ \A n \in 1 .. Len(c) : c[n] = l[q + n]
      /\ Len(a) = q /\ Len(c) = Len(l) - q
  BY Parts
<1>0. AmidNames(late, l, q, x, q) = Append(Without(late, a), x) \o Without(late, c)
  BY Zenon DEF AmidNames
<1>4. \A y : Promise!Listed(y, seen) <=> (y # w /\ On(y, l))
  BY ListedWithout
<1> HIDE DEF a, c
<1>5. ASSUME NEW y, ~ On(y, l)
      PROVE  Without(y, a) = a /\ Without(y, c) = c
  <2>0. \A n \in 1 .. Len(l) : l[n] # y
    BY <1>5 DEF On
  <2>1. \A n \in 1 .. Len(a) : a[n] # y
    BY <1>3, <2>0
  <2>2. \A n \in 1 .. Len(c) : c[n] # y
    <3> SUFFICES ASSUME NEW n \in 1 .. Len(c) PROVE c[n] # y
      OBVIOUS
    <3>1. q + n \in 1 .. Len(l)
      BY <1>3
    <3> QED
      BY <1>3, <2>0, <3>1
  <2> QED
    BY <1>1, <2>1, <2>2, WithoutAbsent
<1>6. CASE w = late
  <2>1. ~ Promise!Listed(late, seen)
    BY <1>4, <1>6
  <2> QED
    BY <1>0, <1>2, <1>6, <2>1
<1>7. CASE w = Nobody
  <2>1. P = a /\ Q = c
    <3>1. \A n \in 1 .. Len(l) : l[n] \in Ids
      OBVIOUS
    <3>2. ~ On(Nobody, l)
      BY <3>1, ListSetAssumption DEF On
    <3> QED
      BY <1>5, <1>7, <3>2
  <2> HIDE DEF P, Q
  <2>2. placed = Append(a, x) \o c
    BY <1>2, <2>1
  <2>3. CASE ~ Promise!Listed(late, seen)
    <3>1. Without(late, a) = a /\ Without(late, c) = c
      <4>1. ~ On(late, l)
        <5>1. \A n \in 1 .. Len(l) : l[n] \in Ids
          OBVIOUS
        <5> QED
          BY <1>4, <1>7, <2>3, <5>1, ListSetAssumption DEF On
      <4> QED
        BY <1>5, <4>1
    <3>2. placed = Append(Without(late, a), x) \o Without(late, c)
      BY <2>2, <3>1
    <3> QED
      BY <1>0, <2>3, <3>2
  <2>4. CASE Promise!Listed(late, seen)
    <3>1. x # late
      BY <2>4
    <3> DEFINE b == Append(a, x)
    <3>2. b \in Seq(Ids) /\ Without(late, b) = Append(Without(late, a), x)
      BY <1>1, <3>1, AppendProperties, WithoutAppend
    <3> HIDE DEF b
    <3>3. Without(late, b \o c) = Without(late, b) \o Without(late, c) /\ b \o c \in Seq(Ids)
      BY <1>1, <3>2, WithoutConcat, ConcatProperties
    <3>4. Promise!Without(late, placed) = Without(late, b \o c)
      BY <2>2, <3>3, PromiseWithout DEF b
    <3>5. Promise!Without(late, placed) = Append(Without(late, a), x) \o Without(late, c)
      BY <3>2, <3>3, <3>4
    <3> QED
      BY <1>0, <2>4, <3>5
  <2> QED
    BY <2>3, <2>4
<1> QED
  BY <1>6, <1>7

\* The list without the name at n
LEMMA WithoutAt ==
    ASSUME NEW l \in Seq(Ids), Distinct(l), NEW n \in 1 .. Len(l), NEW late
    PROVE  LET A == Without(late, SubSeq(l, 1, n - 1))
               B == Without(late, SubSeq(l, n + 1, Len(l)))
           IN  /\ A \in Seq(Ids) /\ B \in Seq(Ids)
               /\ l[n] = late => Without(late, l) = A \o B
               /\ l[n] = late => l = Append(A, l[n]) \o B
               /\ l[n] # late => Without(late, l) = Append(A, l[n]) \o B
               /\ Without(l[n], Without(late, l)) = A \o B
<1> DEFINE a == SubSeq(l, 1, n - 1)
           b == SubSeq(l, n + 1, Len(l))
           A == Without(late, a)
           B == Without(late, b)
           x == l[n]
           c == Append(a, x)
           k == n - 1
<1>1. n \in 0 .. Len(l) /\ x \in Ids /\ k \in 0 .. Len(l) /\ k + 1 = n /\ Len(l) \in Nat /\ n \in Nat
  OBVIOUS
<1>2. a \in Seq(Ids) /\ b \in Seq(Ids) /\ l = Append(a, x) \o b
  <2>1. SubSeq(l, 1, k) \in Seq(Ids) /\ b \in Seq(Ids)
    BY <1>1, Parts
  <2>2. l = Append(SubSeq(l, 1, n - 1), l[n]) \o b
    BY <1>1, ElementChanged
  <2> QED
    BY <2>1, <2>2
<1>3. /\ Len(a) = k /\ \A i \in 1 .. k : a[i] = l[i]
      /\ Len(b) = Len(l) - n /\ \A i \in 1 .. Len(l) - n : b[i] = l[n + i]
  BY <1>1, Parts
<1> HIDE DEF a, b, x, k
<1>4. A \in Seq(Ids) /\ B \in Seq(Ids)
  BY <1>2, WithoutIs
<1>5. (\A i \in 1 .. Len(a) : a[i] # x) /\ \A i \in 1 .. Len(b) : b[i] # x
  <2>1. ASSUME NEW i \in 1 .. Len(l), i # n PROVE l[i] # x
    BY <2>1 DEF Distinct, x
  <2>2. \A i \in 1 .. k : i \in 1 .. Len(l) /\ i # n
    BY <1>1
  <2>3. \A i \in 1 .. Len(l) - n : n + i \in 1 .. Len(l) /\ n + i # n
    BY <1>1
  <2>4. \A i \in 1 .. Len(a) : a[i] # x
    BY <1>3, <2>1, <2>2
  <2>5. \A i \in 1 .. Len(b) : b[i] # x
    <3> SUFFICES ASSUME NEW i \in 1 .. Len(l) - n PROVE b[i] # x
      BY <1>3
    <3> QED
      BY <1>3, <2>1, <2>3
  <2> QED
    BY <2>4, <2>5
<1>6. Without(late, l) = Without(late, c) \o B /\ c \in Seq(Ids)
      /\ Without(late, c) = IF x = late THEN A ELSE Append(A, x)
  <2>1. c \in Seq(Ids) /\ Without(late, c) = IF x = late THEN A ELSE Append(A, x)
    BY <1>1, <1>2, AppendProperties, WithoutAppend
  <2> HIDE DEF c, A, B
  <2>2. l = c \o b
    BY <1>2 DEF c
  <2>3. Without(late, c \o b) = Without(late, c) \o Without(late, b)
    BY <1>2, <2>1, WithoutConcat
  <2> QED
    BY <2>1, <2>2, <2>3 DEF B
<1>7. Without(x, A) = A /\ Without(x, B) = B
  <2>1. ASSUME NEW s \in Seq(Ids), \A i \in 1 .. Len(s) : s[i] # x
        PROVE  Without(x, Without(late, s)) = Without(late, s)
    <3> DEFINE t == Without(late, s)
    <3>1. t \in Seq(Ids) /\ (On(x, t) => On(x, s))
      BY WithoutIs, WithoutListed
    <3>2. \A i \in 1 .. Len(t) : t[i] # x
      BY <2>1, <3>1 DEF On
    <3> HIDE DEF t
    <3>3. Without(x, t) = t
      BY <3>1, <3>2, WithoutAbsent
    <3> QED
      BY <3>3 DEF t
  <2> QED
    BY <1>2, <1>5, <2>1
<1> HIDE DEF A, B, c
<1>8. Without(x, Without(late, l)) = A \o B
  <2> DEFINE d == Without(late, c)
  <2>1. d \in Seq(Ids) /\ Without(x, d) = A
    <3>1. Without(x, Append(A, x)) = Without(x, A)
      BY <1>1, <1>4, WithoutAppend
    <3> QED
      BY <1>6, <1>7, <3>1, WithoutIs
  <2> HIDE DEF d
  <2>2. Without(x, d \o B) = Without(x, d) \o Without(x, B)
    BY <1>4, <2>1, WithoutConcat
  <2> QED
    BY <1>6, <1>7, <2>1, <2>2 DEF d
<1>9. x = late => l = Append(A, x) \o B
  <2>1. Without(x, a) = a /\ Without(x, b) = b
    BY <1>2, <1>5, WithoutAbsent
  <2> QED
    BY <1>2, <2>1 DEF A, B
<1> QED
  BY <1>4, <1>6, <1>8, <1>9 DEF a, b, A, B, x

\* A name that timed out at k: its place does not matter
LEMMA SkipLate ==
    ASSUME NEW l \in Seq(Ids), NEW k \in 1 .. Len(l)
    PROVE  /\ Without(l[k], SubSeq(l, 1, k)) = Without(l[k], SubSeq(l, 1, k - 1))
           /\ Without(l[k], SubSeq(l, k, Len(l))) = Without(l[k], SubSeq(l, k + 1, Len(l)))
<1> DEFINE j == k - 1
           x == l[k]
           a == SubSeq(l, 1, j)
           b == SubSeq(l, k + 1, Len(l))
           u == <<x>>
<1>1. j \in 0 .. Len(l) /\ j < Len(l) /\ j + 1 = k /\ x \in Ids /\ k \in 0 .. Len(l)
      /\ Len(l) \in k .. Len(l)
  OBVIOUS
<1>2. a \in Seq(Ids) /\ SubSeq(l, 1, j + 1) = Append(a, l[j + 1])
  BY <1>1, Longer
<1>3. b \in Seq(Ids) /\ u \in Seq(Ids)
  BY <1>1, Parts
<1>4. SubSeq(l, k, Len(l)) = u \o b
  BY <1>1, SubSeqRecursiveFirst
<1>5. SubSeq(l, 1, k) = Append(a, x)
  BY <1>1, <1>2
<1> HIDE DEF a, b, x
<1>6. Without(x, Append(a, x)) = Without(x, a)
  BY <1>1, <1>2, WithoutAppend
<1>7. Without(x, u) = << >>
  BY KeepOne DEF Without
<1> HIDE DEF u
<1>8. Without(x, u \o b) = Without(x, b)
  <2>1. Without(x, u \o b) = Without(x, u) \o Without(x, b) /\ Without(x, b) \in Seq(Ids)
    BY <1>3, WithoutConcat, WithoutIs
  <2> DEFINE B == Without(x, b)
  <2> HIDE DEF B
  <2>2. << >> \o B = B
    BY <2>1, ConcatEmptySeq DEF B
  <2> QED
    BY <1>7, <2>1, <2>2 DEF B
<1> QED
  BY <1>4, <1>5, <1>6, <1>8 DEF a, b, x

LEMMA NoneDead ==
    ASSUME NEW m \in Seq(Node)
    PROVE  Dead(m) = << >> <=> \A n \in 1 .. Len(m) : ~ Expired(m[n])
<1> DEFINE D == {n \in DOMAIN m : Expired(m[n])}
           d == Picked(m, D)
<1>1. DOMAIN m = 1 .. Len(m) /\ D \subseteq 1 .. Len(m)
  OBVIOUS
<1>2. \A n \in 1 .. Len(m) : n \in D <=> Expired(m[n])
  BY <1>1
<1>3. Dead(m) = d
  BY DEF Dead
<1> HIDE DEF D
<1>4. d \in Seq(Node) /\ \E g : Comes(d, m, D, g)
  BY <1>1, PickedComes
<1>5. PICK g : Comes(d, m, D, g)
  BY <1>4
<1> HIDE DEF d
<1>6. ASSUME d = << >>, NEW n \in D PROVE FALSE
  <2>1. PICK k \in 1 .. Len(d) : g[k] = n
    BY <1>5, <1>6 DEF Comes
  <2>2. 1 .. Len(d) = {}
    BY <1>6
  <2> QED
    BY <2>1, <2>2
<1>7. ASSUME d # << >> PROVE \E n \in 1 .. Len(m) : n \in D
  <2>1. Len(d) \in Nat \ {0}
    BY <1>4, <1>7, EmptySeq
  <2>2. 1 \in 1 .. Len(d)
    BY <2>1
  <2>3. g[1] \in D
    BY <1>5, <2>2 DEF Comes
  <2> QED
    BY <1>1, <2>3
<1> QED
  BY <1>2, <1>3, <1>6, <1>7

LEMMA ImageLiving ==
    ASSUME NEW m, NEW l, Image(m, l, Nobody)
    PROVE  m \in Seq(Node) /\ \A n \in 1 .. Len(m) : ~ Expired(m[n])
<1>1. \A n \in 1 .. Len(l) : l[n] \in Ids
  BY DEF Image
<1> QED
  BY <1>1, ListSetAssumption DEF Image

LEMMA LivingBetween ==
    ASSUME NEW a, NEW A, NEW c, NEW C, Image(a, A, Nobody), Image(c, C, Nobody),
           NEW e \in Node, ~ Expired(e)
    PROVE  Dead(Append(a, e) \o c) = << >>
<1> DEFINE t == Append(a, e) \o c
           K == Len(a)
           M == Len(c)
<1>1. /\ a \in Seq(Node) /\ \A n \in 1 .. Len(a) : ~ Expired(a[n])
      /\ c \in Seq(Node) /\ \A n \in 1 .. Len(c) : ~ Expired(c[n])
  BY ImageLiving
<1>2. /\ t \in Seq(Node) /\ Len(t) = K + M + 1 /\ t[K + 1] = e
      /\ \A n \in 1 .. K : t[n] = a[n]
      /\ \A n \in 1 .. M : t[K + 1 + n] = c[n]
  BY <1>1, Between
<1>3. K \in Nat /\ M \in Nat
  BY <1>1
<1>4. \A n \in 1 .. K : ~ Expired(a[n])
  BY <1>1
<1>5. \A n \in 1 .. M : ~ Expired(c[n])
  BY <1>1
<1> HIDE DEF t, K, M
<1>6. \A n \in 1 .. Len(t) : ~ Expired(t[n])
  <2> SUFFICES ASSUME NEW n \in 1 .. K + M + 1 PROVE ~ Expired(t[n])
    BY <1>2
  <2>1. CASE n \in 1 .. K
    BY <1>2, <1>4, <2>1
  <2>2. CASE n = K + 1
    BY <1>2, <2>2
  <2>3. CASE n > K + 1
    <3> DEFINE j == n - (K + 1)
    <3>1. j \in 1 .. M /\ n = K + 1 + j
      BY <1>3, <2>3
    <3> HIDE DEF j
    <3> QED
      BY <1>2, <1>5, <3>1
  <2> QED
    BY <1>3, <2>1, <2>2, <2>3
<1> QED
  BY <1>2, <1>6, NoneDead DEF t

\* What a command works on: the order l, late that timed out meanwhile, and
\* the walk, which sees the list without w
Works(l, now, walked, late, w) ==
    /\ l \in Seq(Ids) /\ Distinct(l) /\ l = Order(members)
    /\ Image(now, l, late) /\ Image(walked, l, w) /\ w \in {Nobody, late}
    /\ late = Nobody \/ On(late, l)

LEMMA WorksOn ==
    ASSUME Lists, NEW s, s = Unexpired(members), NEW late \in CanTimeOut(s) \union {Nobody},
           NEW now, now = TimedOut(s, late), NEW walked \in {s, now}
    PROVE  \E w : Works(Order(members), now, walked, late, w)
<1> DEFINE l == Order(members)
<1>1. Image(s, l, Nobody) /\ l \in Seq(Ids) /\ Distinct(l)
  BY SweptImage
<1>2. Image(now, l, late) /\ (late = Nobody \/ On(late, l))
  BY <1>1, LateImage
<1> HIDE DEF l
<1>3. CASE walked = s
  BY <1>1, <1>2, <1>3 DEF Works, l
<1>4. CASE walked = now
  BY <1>1, <1>2, <1>4 DEF Works, l
<1> QED
  BY <1>3, <1>4 DEF l

\* No one's absence is not noticed
LEMMA WithoutNobody ==
    ASSUME NEW l \in Seq(Ids)
    PROVE  Without(Nobody, l) = l
<1>1. \A n \in 1 .. Len(l) : l[n] \in Ids
  OBVIOUS
<1>2. \A n \in 1 .. Len(l) : l[n] # Nobody
  BY <1>1, ListSetAssumption
<1> QED
  BY <1>2, WithoutAbsent

LEMMA WorksSees ==
    ASSUME NEW l, NEW now, NEW walked, NEW late, NEW w, Works(l, now, walked, late, w)
    PROVE  /\ late \in Promise!Late /\ Without(w, l) \in Promise!Views(late)
           /\ Promise!Without(late, l) = Without(late, l)
           /\ l \in Promise!Views(late)
<1>1. l \in Seq(Ids) /\ l = Order(members) /\ w \in {Nobody, late} /\ (late = Nobody \/ On(late, l))
  BY DEF Works
<1>2. Promise!Without(late, l) = Without(late, l)
  BY <1>1, PromiseWithout
<1>3. Promise!Views(late) = {l, Without(late, l)}
  BY <1>1, <1>2 DEF Promise!Views
<1>4. late \in Promise!Late
  <2>1. On(late, l) <=> late \in ToSet(l)
    BY <1>1 DEF On, ToSet
  <2>2. Promise!Late = {Nobody} \union ToSet(l)
    BY <1>1 DEF Promise!Late, Promise!ToSet, ToSet
  <2> QED
    BY <1>1, <2>1, <2>2
<1> QED
  BY <1>1, <1>2, <1>3, <1>4, WithoutNobody

LEMMA AddsAs ==
    ASSUME NEW l, NEW now, NEW walked, NEW late, NEW w, Works(l, now, walked, late, w),
           NEW id, NEW side, NEW refid, NEW ret, answer' = Said("add", id, side, refid, ret),
           <<ret, Order(members')>> \in Promise!Outcomes(id, side, refid, late, Without(w, l)),
           late = Nobody => Dead(members') = << >>
    PROVE  Promise!Add(id, side, refid)
<1> DEFINE seen == Without(w, l)
<1>1. late \in Promise!Late /\ seen \in Promise!Views(late)
  BY WorksSees
<1>2. answer'.ret = ret /\ Promise!Asked("add", id, side, refid)
  BY DEF Said, Promise!Said, Promise!Asked
<1>3. Promise!Swept(late)
  BY DEF Promise!Swept
<1> HIDE DEF seen
<1>4. <<answer'.ret, Order(members')>> \in Promise!Outcomes(id, side, refid, late, seen)
  BY <1>2 DEF seen
<1> QED
  BY <1>1, <1>2, <1>3, <1>4 DEF Promise!Add

\* The outcomes of an add, in the words of the code's conditions
LEMMA OutcomesAre ==
    ASSUME NEW l, NEW now, NEW walked, NEW late, NEW w, Works(l, now, walked, late, w),
           NEW x, NEW side, NEW r
    PROVE  LET seen == Without(w, l)
               outcomes == Promise!Outcomes(x, side, r, late, seen)
               actual == IF Promise!Displaces(late, side, r)
                         THEN Promise!OtherSide(side) ELSE side
               placed == Promise!Put(x, actual, r, seen)
               left == Without(late, l)
               lost == side # "last" /\ (r = x \/ ~ Promise!Listed(r, seen))
           IN  /\ lost => <<"REF_EXIST", left>> \in outcomes
               /\ ~ lost /\ Promise!Listed(x, seen) =>
                    /\ <<"EXIST", left>> \in outcomes
                    /\ <<"ok", IF late = x THEN l ELSE left>> \in outcomes
               /\ ~ lost /\ ~ Promise!Listed(x, seen) =>
                    /\ <<"ENOMEM", left>> \in outcomes
                    /\ <<"ok", IF Promise!Listed(late, seen)
                               THEN Promise!Without(late, placed) ELSE placed>> \in outcomes
<1>1. l = Order(members) /\ Promise!Without(late, Order(members)) = Without(late, l)
  BY WorksSees DEF Works
<1> QED
  BY <1>1, Zenon DEF Promise!Outcomes

\* An add that fails leaves the list the timeout left
LEMMA AddFailsKept ==
    ASSUME NEW l, NEW now, NEW walked, NEW late, NEW w, Works(l, now, walked, late, w),
           NEW id, NEW side, NEW refid, NEW why, AddFails(why, now, side, id, refid),
           <<why, Without(late, l)>> \in Promise!Outcomes(id, side, refid, late, Without(w, l))
    PROVE  Promise!Add(id, side, refid)
<1>1. members' = now /\ answer' = Said("add", id, side, refid, why)
  BY DEF AddFails
<1>2. Order(now) = Without(late, l)
  BY OrderImage DEF Works
<1>3. late = Nobody => Dead(now) = << >>
  BY ImageLiving, NoneDead DEF Works
<1>4. Order(members') = Without(late, l) /\ (late = Nobody => Dead(members') = << >>)
  BY <1>1, <1>2, <1>3
<1>5. <<why, Order(members')>> \in Promise!Outcomes(id, side, refid, late, Without(w, l))
  BY <1>4
<1> QED
  BY <1>1, <1>4, <1>5, AddsAs

LEMMA AmidOrder ==
    ASSUME NEW l, NEW now, NEW walked, NEW late, NEW w, Works(l, now, walked, late, w),
           NEW q \in 0 .. Len(l), NEW k \in q .. Len(l), NEW e \in Node, ~ Expired(e)
    PROVE  /\ Order(Amid(now, q, e, k)) = AmidNames(late, l, q, e.id, k)
           /\ late = Nobody => Dead(Amid(now, q, e, k)) = << >>
<1> DEFINE a == SubSeq(now, 1, q)
           A == SubSeq(l, 1, q)
           c == SubSeq(now, k + 1, Len(now))
           C == SubSeq(l, k + 1, Len(l))
<1>1. l \in Seq(Ids) /\ Image(now, l, late)
  BY DEF Works
<1>2. q \in 0 .. Len(l) /\ k \in 0 .. Len(l)
  BY <1>1
<1>3. Image(a, A, late) /\ Image(c, C, late)
  BY <1>1, <1>2, ImageParts
<1> HIDE DEF a, A, c, C
<1>4. Order(Append(a, e) \o c) = Append(Without(late, A), e.id) \o Without(late, C)
  BY <1>3, OrderBetween, SMTT(40)
<1>5. late = Nobody => Dead(Append(a, e) \o c) = << >>
  BY <1>3, LivingBetween
<1> QED
  BY <1>4, <1>5 DEF a, A, c, C, Amid, AmidNames

\* A node changed, inserted and appended
LEMMA AmidChange ==
    ASSUME NEW m \in Seq(Node), NEW n \in 1 .. Len(m), NEW e \in Node, NEW t, t = [m EXCEPT ![n] = e]
    PROVE  t = Amid(m, n - 1, e, n)
<1>1. \A x \in Node : \A s : s = [m EXCEPT ![n] = x] =>
                s = Append(SubSeq(m, 1, n - 1), x) \o SubSeq(m, n + 1, Len(m))
  BY ElementChanged, ZenonT(60)
<1>2. t = Append(SubSeq(m, 1, n - 1), e) \o SubSeq(m, n + 1, Len(m))
  BY <1>1
<1> QED
  BY <1>2, Zenon DEF Amid

LEMMA AmidInsert ==
    ASSUME NEW m \in Seq(Node), NEW q \in 0 .. Len(m), NEW e \in Node
    PROVE  /\ InsertAt(m, q + 1, e) = Amid(m, q, e, q)
           /\ q = Len(m) => Append(m, e) = Amid(m, q, e, q)
<1>1. InsertAt(m, q + 1, e) = Append(SubSeq(m, 1, q), e) \o SubSeq(m, q + 1, Len(m))
  BY Inserts
<1>2. q = Len(m) => SubSeq(m, 1, q) = m /\ SubSeq(m, q + 1, Len(m)) = << >>
  OBVIOUS
<1> DEFINE a == Append(m, e)
<1>3. a \in Seq(Node) /\ a \o << >> = a
  <2>1. a \in Seq(Node)
    BY AppendProperties
  <2> HIDE DEF a
  <2> QED
    BY <2>1, ConcatEmptySeq
<1>4. q = Len(m) => Append(m, e) = Append(SubSeq(m, 1, q), e) \o SubSeq(m, q + 1, Len(m))
  BY <1>2, <1>3, Zenon
<1> QED
  BY <1>1, <1>4, Zenon DEF Amid

\* The names around n, and where the one at n timed out
LEMMA AmidAt ==
    ASSUME NEW l \in Seq(Ids), Distinct(l), NEW n \in 1 .. Len(l), NEW late
    PROVE  /\ l[n] = late => l = AmidNames(late, l, n - 1, l[n], n)
           /\ l[n] # late => Without(late, l) = AmidNames(late, l, n - 1, l[n], n)
<1> DEFINE A == Without(late, SubSeq(l, 1, n - 1))
           B == Without(late, SubSeq(l, n + 1, Len(l)))
<1>1. /\ l[n] = late => l = Append(A, l[n]) \o B
      /\ l[n] # late => Without(late, l) = Append(A, l[n]) \o B
  BY WithoutAt, Zenon
<1>2. ASSUME NEW x PROVE AmidNames(late, l, n - 1, x, n) = Append(A, x) \o B
  BY Zenon DEF AmidNames
<1> HIDE DEF A, B
<1> QED
  BY <1>1, <1>2, Zenon

LEMMA AmidLate ==
    ASSUME NEW l \in Seq(Ids), NEW n \in 1 .. Len(l), NEW late, l[n] = late, NEW x, NEW j, j = n - 1
    PROVE  /\ AmidNames(late, l, j, x, n) = AmidNames(late, l, n, x, n)
           /\ AmidNames(late, l, j, x, n) = AmidNames(late, l, j, x, j)
<1> DEFINE A == Without(late, SubSeq(l, 1, j))
           B == Without(late, SubSeq(l, n + 1, Len(l)))
<1>1. Without(late, SubSeq(l, 1, n)) = A /\ Without(late, SubSeq(l, n, Len(l))) = B
  BY SkipLate, Zenon
<1>2. AmidNames(late, l, j, x, n) = Append(A, x) \o B
  BY Zenon DEF AmidNames
<1>3. AmidNames(late, l, n, x, n) = Append(Without(late, SubSeq(l, 1, n)), x) \o B
  BY Zenon DEF AmidNames
<1>4. j + 1 = n
  OBVIOUS
<1>5. AmidNames(late, l, j, x, j) = Append(A, x) \o Without(late, SubSeq(l, n, Len(l)))
  BY <1>4, Zenon DEF AmidNames
<1> HIDE DEF A, B
<1> QED
  BY <1>1, <1>2, <1>3, <1>5, Zenon

\* With -exist the member stays where it is, and is back if it timed out meanwhile
LEMMA AddAgainKept ==
    ASSUME NEW l, NEW now, NEW walked, NEW late, NEW w, Works(l, now, walked, late, w),
           NEW id \in Ids, NEW side, NEW refid, NEW life \in Lives, NEW n, n = Position(walked, id), n # 0,
           AddAgain(now, n, side, id, refid, life),
           side # "last" => refid # id /\ Promise!Listed(refid, Without(w, l))
    PROVE  Promise!Add(id, side, refid)
<1> DEFINE e == Member(id, life)
           seen == Without(w, l)
<1>1. l \in Seq(Ids) /\ Distinct(l) /\ Image(now, l, late) /\ Image(walked, l, w)
  BY DEF Works
<1>2. n \in 1 .. Len(l) /\ l[n] = id /\ id # w /\ Promise!Listed(id, seen)
  <2>1. n \in 0 .. Len(l) /\ l[n] = id /\ id # w /\ Promise!Listed(id, seen)
    BY <1>1, PositionImage
  <2> QED
    BY <1>1, <2>1
<1>3. now \in Seq(Node) /\ Len(now) = Len(l) /\ now[n].id = id /\ n \in 1 .. Len(now)
  BY <1>1, <1>2 DEF Image
<1>4. members' = [now EXCEPT ![n] = e] /\ answer' = Said("add", id, side, refid, "ok")
  <2>1. now[n] \in Node
    BY <1>2, <1>3
  <2>2. [now[n] EXCEPT !.life = life] = e
    BY <1>3, <2>1 DEF Node, Member
  <2> QED
    BY <2>2 DEF AddAgain
<1>5. e \in Node /\ ~ Expired(e) /\ e.id = id
  BY DEF Member, Node, Lives, Expired
<1> HIDE DEF e, seen
<1> DEFINE j == n - 1
<1>6. PICK t : t = members'
  OBVIOUS
<1>7. t = Amid(now, j, e, n)
  BY <1>3, <1>4, <1>5, <1>6, AmidChange
<1>8. j \in 0 .. Len(l) /\ n \in j .. Len(l)
  BY <1>1, <1>2
<1>9. /\ id = late => l = AmidNames(late, l, j, id, n)
      /\ id # late => Without(late, l) = AmidNames(late, l, j, id, n)
  BY <1>1, <1>2, AmidAt
<1> HIDE DEF j
<1>10. Order(t) = AmidNames(late, l, j, e.id, n) /\ (late = Nobody => Dead(t) = << >>)
  BY <1>5, <1>7, <1>8, AmidOrder
<1>11. Order(t) = (IF late = id THEN l ELSE Without(late, l)) /\ (late = Nobody => Dead(t) = << >>)
  BY <1>5, <1>9, <1>10
<1>12. <<"ok", IF late = id THEN l ELSE Without(late, l)>> \in Promise!Outcomes(id, side, refid, late, seen)
  BY <1>2, OutcomesAre DEF seen
<1>13. <<"ok", Order(t)>> \in Promise!Outcomes(id, side, refid, late, Without(w, l))
  BY <1>11, <1>12 DEF seen
<1>14. /\ <<"ok", Order(members')>> \in Promise!Outcomes(id, side, refid, late, Without(w, l))
       /\ late = Nobody => Dead(members') = << >>
  BY <1>6, <1>11, <1>13
<1> QED
  BY <1>4, <1>14, AddsAs

\* A new member between parts of the list that the outcome names
LEMMA AddBetweenKept ==
    ASSUME NEW l, NEW now, NEW walked, NEW late, NEW w, Works(l, now, walked, late, w),
           NEW id \in Ids, NEW side, NEW refid, NEW life \in Lives, Position(walked, id) = 0,
           answer' = Said("add", id, side, refid, "ok"),
           side # "last" => refid # id /\ Promise!Listed(refid, Without(w, l)),
           NEW q \in 0 .. Len(l), NEW k \in q .. Len(l),
           members' = Amid(now, q, Member(id, life), k),
           NEW c \in 0 .. Len(l), AmidNames(late, l, q, id, k) = AmidNames(late, l, c, id, c),
           NEW actual, actual = (IF Promise!Displaces(late, side, refid)
                                 THEN Promise!OtherSide(side) ELSE side),
           CutFor(l, actual, refid, w, c)
    PROVE  Promise!Add(id, side, refid)
<1> DEFINE e == Member(id, life)
           seen == Without(w, l)
           placed == Promise!Put(id, actual, refid, seen)
           result == IF Promise!Listed(late, seen) THEN Promise!Without(late, placed) ELSE placed
<1>1. l \in Seq(Ids) /\ Distinct(l) /\ Image(walked, l, w) /\ w \in {Nobody, late}
  BY DEF Works
<1>2. ~ Promise!Listed(id, seen)
  BY <1>1, PositionImage
<1>3. e \in Node /\ ~ Expired(e) /\ e.id = id
  BY DEF Member, Node, Lives, Expired
<1> HIDE DEF e
<1>4. PICK t : t = members'
  OBVIOUS
<1>5. t = Amid(now, q, e, k)
  BY <1>4 DEF e
<1>6. Order(t) = AmidNames(late, l, q, e.id, k) /\ (late = Nobody => Dead(t) = << >>)
  BY <1>3, <1>5, AmidOrder
<1>7. Order(t) = AmidNames(late, l, c, id, c)
  BY <1>3, <1>6
<1>9. result = AmidNames(late, l, c, id, c)
  <2> HIDE DEF seen, placed
  <2>2. seen = Without(w, l) /\ placed = Promise!Put(id, actual, refid, seen)
    BY DEF seen, placed
  <2> QED
    <3>1. ~ Promise!Listed(id, seen)
      BY <1>2
    <3>2. /\ Promise!Listed(late, seen) => Promise!Without(late, placed) = AmidNames(late, l, c, id, c)
          /\ ~ Promise!Listed(late, seen) => placed = AmidNames(late, l, c, id, c)
      BY <1>1, <2>2, <3>1, NewOutcome
    <3> QED
      BY <3>2
<1>10. <<"ok", result>> \in Promise!Outcomes(id, side, refid, late, seen)
  BY <1>2, OutcomesAre, Zenon
<1> HIDE DEF result
<1>11. <<"ok", Order(members')>> \in Promise!Outcomes(id, side, refid, late, seen)
  BY <1>4, <1>7, <1>9, <1>10
<1>12. late = Nobody => Dead(members') = << >>
  BY <1>4, <1>6
<1> QED
  BY <1>11, <1>12, AddsAs

\* The place of a new member: its reference, and the neighbour it may replace
PlaceOf(l, w, side, id, refid, p) ==
    \/ side = "last"
    \/ /\ side \in {"before", "after"} /\ p \in 1 .. Len(l) /\ l[p] = refid
       /\ refid # w /\ refid # id

LEMMA ReferenceIs ==
    ASSUME NEW l, NEW walked, NEW w, Image(walked, l, w),
           NEW side \in {"last", "before", "after"}, NEW id, NEW refid, NEW p, p = Reference(walked, side, id, refid)
    PROVE  /\ (side # "last" => p # 0) =>
                /\ PlaceOf(l, w, side, id, refid, p)
                /\ side # "last" => refid # id /\ Promise!Listed(refid, Without(w, l))
           /\ side # "last" /\ p = 0 => refid = id \/ ~ Promise!Listed(refid, Without(w, l))
<1>1. /\ Position(walked, refid) \in 0 .. Len(l)
      /\ Position(walked, refid) # 0 => l[Position(walked, refid)] = refid /\ refid # w
      /\ Position(walked, refid) # 0 <=> Promise!Listed(refid, Without(w, l))
  BY PositionImage
<1>2. p = IF side = "last" \/ refid = id THEN 0 ELSE Position(walked, refid)
  BY DEF Reference
<1>3. Len(l) \in Nat
  BY DEF Image
<1>4. PICK i : i = Position(walked, refid)
  OBVIOUS
<1>5. /\ i \in 0 .. Len(l)
      /\ i # 0 => l[i] = refid /\ refid # w
      /\ i # 0 <=> Promise!Listed(refid, Without(w, l))
      /\ p = IF side = "last" \/ refid = id THEN 0 ELSE i
  BY <1>1, <1>2, <1>4
<1> QED
  BY <1>3, <1>5 DEF PlaceOf

LEMMA NeighbourIs ==
    ASSUME NEW l, NEW now, NEW walked, NEW late, NEW w, Works(l, now, walked, late, w),
           NEW side, NEW id, NEW refid, NEW p, PlaceOf(l, w, side, id, refid, p),
           NEW k, k = Neighbour(now, side, p)
    PROVE  /\ k \in 0 .. Len(l)
           /\ k # 0 => (Expired(now[k]) <=> l[k] = late)
           /\ side = "last" => k = Len(l) /\ ~ Promise!Displaces(late, side, refid)
           /\ side = "before" /\ k # 0 => k = p + 1
           /\ side = "after" => k = p - 1
           /\ side # "last" => (Promise!Displaces(late, side, refid) <=> (k # 0 /\ l[k] = late))
<1>1. l \in Seq(Ids) /\ Distinct(l) /\ l = Order(members) /\ Len(now) = Len(l) /\ Len(l) \in Nat
      /\ \A n \in 1 .. Len(l) : Expired(now[n]) <=> l[n] = late
  BY DEF Works, Image
<1>2. CASE side = "last"
  BY <1>1, <1>2 DEF Neighbour, Promise!Displaces
<1>3. CASE side = "before"
  <2>1. p \in 1 .. Len(l) /\ l[p] = refid
    BY <1>3 DEF PlaceOf
  <2>2. Promise!Follows(refid, late, l) <=> (p + 1 \in 1 .. Len(l) /\ l[p + 1] = late)
    BY <1>1, <2>1, FollowsIs, ZenonT(60)
  <2>3. k = IF p < Len(l) THEN p + 1 ELSE 0
    BY <1>1, <1>3 DEF Neighbour
  <2>4. k \in 0 .. Len(l) /\ (k # 0 <=> p + 1 \in 1 .. Len(l)) /\ (k # 0 => k = p + 1)
    BY <1>1, <2>1, <2>3
  <2>5. Promise!Displaces(late, side, refid) <=> Promise!Follows(refid, late, l)
    BY <1>1, <1>3 DEF Promise!Displaces
  <2> QED
    BY <1>1, <1>3, <2>2, <2>4, <2>5
<1>4. CASE side = "after"
  <2>1. p \in 1 .. Len(l) /\ l[p] = refid
    BY <1>4 DEF PlaceOf
  <2>2. Promise!Follows(late, refid, l) <=> (p - 1 \in 1 .. Len(l) /\ l[p - 1] = late)
    BY <1>1, <2>1, FollowsIs, ZenonT(60)
  <2>3. k = p - 1
    BY <1>1, <1>4 DEF Neighbour
  <2>4. k \in 0 .. Len(l) /\ (k # 0 <=> p - 1 \in 1 .. Len(l))
    BY <1>1, <2>1, <2>3
  <2>5. Promise!Displaces(late, side, refid) <=> Promise!Follows(late, refid, l)
    BY <1>1, <1>4 DEF Promise!Displaces
  <2> QED
    BY <1>1, <1>4, <2>2, <2>3, <2>4, <2>5
<1> QED
  BY <1>2, <1>3, <1>4 DEF PlaceOf

\* list_set_replace puts the new member where the neighbour was that timed out
LEMMA ReplaceKept ==
    ASSUME NEW l, NEW now, NEW walked, NEW late, NEW w, Works(l, now, walked, late, w),
           NEW id \in Ids, NEW side, NEW refid, NEW p, PlaceOf(l, w, side, id, refid, p),
           side # "last" => refid # id /\ Promise!Listed(refid, Without(w, l)),
           Position(walked, id) = 0, NEW k, k = Neighbour(now, side, p), k # 0, Expired(now[k]),
           NEW life \in Lives, list_set_replace(now, k, side, id, refid, life)
    PROVE  Promise!Add(id, side, refid)
<1> DEFINE e == Member(id, life)
           j == k - 1
           D == Promise!Displaces(late, side, refid)
           c == IF side = "before" THEN j ELSE k
<1>1. l \in Seq(Ids) /\ Distinct(l) /\ now \in Seq(Node) /\ Len(now) = Len(l) /\ Len(l) \in Nat
  BY DEF Works, Image
<1>2. /\ k \in 0 .. Len(l)
      /\ k # 0 => (Expired(now[k]) <=> l[k] = late)
      /\ side = "last" => k = Len(l) /\ ~ D
      /\ side = "before" /\ k # 0 => k = p + 1
      /\ side = "after" => k = p - 1
      /\ side # "last" => (D <=> (k # 0 /\ l[k] = late))
  BY NeighbourIs
<1> HIDE DEF D
<1>3. k \in 1 .. Len(l) /\ l[k] = late /\ (D <=> side # "last")
  BY <1>1, <1>2
<1>4. e \in Node /\ k \in 1 .. Len(now) /\ answer' = Said("add", id, side, refid, "ok")
  BY <1>1, <1>3 DEF Member, Node, list_set_replace
<1>5. members' = Amid(now, j, e, k)
  <2>1. PICK t : t = members'
    OBVIOUS
  <2>2. t = [now EXCEPT ![k] = e]
    BY <2>1 DEF list_set_replace
  <2>3. now \in Seq(Node) /\ k \in 1 .. Len(now) /\ e \in Node
    BY <1>1, <1>4
  <2> HIDE DEF e
  <2>4. t = Amid(now, k - 1, e, k)
    BY <2>2, <2>3, AmidChange, ZenonT(60)
  <2> QED
    BY <2>1, <2>4
<1>6. /\ AmidNames(late, l, j, id, k) = AmidNames(late, l, k, id, k)
      /\ AmidNames(late, l, j, id, k) = AmidNames(late, l, j, id, j)
  <2> HIDE DEF j
  <2>1. j = k - 1
    BY DEF j
  <2> QED
    BY <1>1, <1>3, <2>1, AmidLate
<1>7. j \in 0 .. Len(l) /\ k \in j .. Len(l) /\ c \in 0 .. Len(l) /\ j + 1 = k
  BY <1>1, <1>3
<1> HIDE DEF j
<1>8. AmidNames(late, l, j, id, k) = AmidNames(late, l, c, id, c)
  BY <1>6
<1>9. PICK actual : actual = IF D THEN Promise!OtherSide(side) ELSE side
  OBVIOUS
<1>10. CutFor(l, actual, refid, w, c)
  <2>1. CASE side = "last"
    <3>1. actual = "last" /\ c = Len(l)
      BY <1>2, <1>3, <1>9, <2>1
    <3> QED
      BY <3>1 DEF CutFor
  <2>2. CASE side = "before"
    <3>1. actual = "after" /\ c = j
      BY <1>3, <1>9, <2>2 DEF Promise!OtherSide
    <3>2. j = p /\ p \in 1 .. Len(l) /\ l[p] = refid /\ refid # w
      BY <1>2, <1>3, <1>7, <2>2 DEF PlaceOf
    <3> QED
      BY <3>1, <3>2 DEF CutFor
  <2>3. CASE side = "after"
    <3>1. actual = "before" /\ c = k
      BY <1>3, <1>9, <2>3 DEF Promise!OtherSide
    <3>2. k + 1 = p /\ p \in 1 .. Len(l) /\ l[p] = refid /\ refid # w
      BY <1>2, <1>3, <2>3 DEF PlaceOf
    <3> QED
      BY <3>1, <3>2 DEF CutFor
  <2> QED
    BY <2>1, <2>2, <2>3 DEF PlaceOf
<1> HIDE DEF c
<1> QED
  BY <1>4, <1>5, <1>7, <1>8, <1>9, <1>10, AddBetweenKept DEF D, e

\* A new member that replaces none goes where it was asked to
LEMMA AddNewKept ==
    ASSUME NEW l, NEW now, NEW walked, NEW late, NEW w, Works(l, now, walked, late, w),
           NEW id \in Ids, NEW side, NEW refid, NEW p, PlaceOf(l, w, side, id, refid, p),
           side # "last" => refid # id /\ Promise!Listed(refid, Without(w, l)),
           Position(walked, id) = 0, NEW k, k = Neighbour(now, side, p), ~ (k # 0 /\ Expired(now[k])),
           NEW life \in Lives, AddNew(now, side, p, id, refid, life)
    PROVE  Promise!Add(id, side, refid)
<1> DEFINE e == Member(id, life)
           D == Promise!Displaces(late, side, refid)
           j == p - 1
           c == IF side = "last" THEN Len(l) ELSE IF side = "before" THEN j ELSE p
<1>1. l \in Seq(Ids) /\ Distinct(l) /\ now \in Seq(Node) /\ Len(now) = Len(l) /\ Len(l) \in Nat
  BY DEF Works, Image
<1>2. /\ k # 0 => (Expired(now[k]) <=> l[k] = late)
      /\ side = "last" => ~ D
      /\ side # "last" => (D <=> (k # 0 /\ l[k] = late))
  BY NeighbourIs
<1> HIDE DEF D
<1>3. ~ D
  BY <1>2
<1>4. e \in Node /\ answer' = Said("add", id, side, refid, "ok")
  BY DEF Member, Node, AddNew
<1>5. side # "last" => side \in {"before", "after"} /\ p \in 1 .. Len(l) /\ l[p] = refid /\ refid # w
                       /\ j \in 0 .. Len(l) /\ j + 1 = p
  BY <1>1 DEF PlaceOf
<1> HIDE DEF j, e
<1>6. c \in 0 .. Len(l) /\ c \in c .. Len(l) /\ c \in 0 .. Len(now)
  BY <1>1, <1>5
<1>7. CutFor(l, side, refid, w, c)
  BY <1>5 DEF CutFor
<1>8. members' = Amid(now, c, e, c)
  <2>1. members' = Inserted(now, side, p, e)
    BY DEF AddNew, e
  <2> HIDE DEF c
  <2>2. /\ InsertAt(now, c + 1, e) = Amid(now, c, e, c)
        /\ c = Len(now) => Append(now, e) = Amid(now, c, e, c)
    BY <1>1, <1>4, <1>6, AmidInsert
  <2>3. CASE side = "last"
    BY <1>1, <2>1, <2>2, <2>3 DEF Inserted, c
  <2>4. CASE side = "before"
    <3>1. c + 1 = p /\ members' = InsertAt(now, p, e)
      BY <1>5, <2>1, <2>4 DEF Inserted, c
    <3> QED
      BY <2>2, <3>1
  <2>5. CASE side = "after"
    <3>1. c = p /\ members' = InsertAt(now, p + 1, e)
      BY <1>5, <2>1, <2>5 DEF Inserted, c
    <3> QED
      BY <2>2, <3>1
  <2> QED
    BY <1>5, <2>3, <2>4, <2>5
<1> HIDE DEF c
<1>9. side = IF D THEN Promise!OtherSide(side) ELSE side
  BY <1>3
<1> QED
  BY <1>4, <1>6, <1>7, <1>8, <1>9, AddBetweenKept DEF D, e

LEMMA AddKept ==
    ASSUME NEW l, NEW now, NEW walked, NEW late, NEW w, Works(l, now, walked, late, w),
           NEW id \in Ids, NEW side \in {"last", "before", "after"}, NEW refid,
           list_set_uadd(walked, now, side, id, refid)
    PROVE  Promise!Add(id, side, refid)
<1> DEFINE seen == Without(w, l)
           lost == side # "last" /\ (refid = id \/ ~ Promise!Listed(refid, seen))
           outcomes == Promise!Outcomes(id, side, refid, late, seen)
           left == Without(late, l)
<1>1. PICK n, p, k : /\ n = Position(walked, id) /\ p = Reference(walked, side, id, refid)
                     /\ k = Neighbour(now, side, p)
  OBVIOUS
<1>2. \/ side # "last" /\ p = 0 /\ AddFails("REF_EXIST", now, side, id, refid)
      \/ /\ (side # "last") => p # 0
         /\ \/ n # 0 /\ AddFails("EXIST", now, side, id, refid)
            \/ n # 0 /\ \E life \in Lives : AddAgain(now, n, side, id, refid, life)
            \/ n = 0 /\ AddFails("ENOMEM", now, side, id, refid)
            \/ /\ n = 0 /\ k # 0 /\ Expired(now[k])
               /\ \E life \in Lives : list_set_replace(now, k, side, id, refid, life)
            \/ /\ n = 0 /\ ~ (k # 0 /\ Expired(now[k]))
               /\ \E life \in Lives : AddNew(now, side, p, id, refid, life)
  BY <1>1, Zenon DEF list_set_uadd
<1>3. Image(walked, l, w)
  BY DEF Works
<1>4. /\ (side # "last" => p # 0) =>
           /\ PlaceOf(l, w, side, id, refid, p)
           /\ side # "last" => refid # id /\ Promise!Listed(refid, Without(w, l))
      /\ side # "last" /\ p = 0 => refid = id \/ ~ Promise!Listed(refid, Without(w, l))
  BY <1>1, <1>3, ReferenceIs
<1>5. n # 0 <=> Promise!Listed(id, seen)
  BY <1>1, <1>3, PositionImage
<1>6. /\ lost => <<"REF_EXIST", left>> \in outcomes
      /\ ~ lost /\ Promise!Listed(id, seen) => <<"EXIST", left>> \in outcomes
      /\ ~ lost /\ ~ Promise!Listed(id, seen) => <<"ENOMEM", left>> \in outcomes
  BY OutcomesAre, Zenon
<1>7. ASSUME NEW why, AddFails(why, now, side, id, refid), <<why, left>> \in outcomes
      PROVE  Promise!Add(id, side, refid)
  BY <1>7, AddFailsKept
<1>8. CASE side # "last" /\ p = 0 /\ AddFails("REF_EXIST", now, side, id, refid)
  <2>1. lost
    BY <1>4, <1>8
  <2> HIDE DEF lost, outcomes, left
  <2> QED
    BY <1>6, <1>7, <1>8, <2>1
<1>9. CASE (side # "last") => p # 0
  <2>1. /\ PlaceOf(l, w, side, id, refid, p)
        /\ side # "last" => refid # id /\ Promise!Listed(refid, Without(w, l))
    BY <1>4, <1>9
  <2>2. ~ lost
    BY <2>1
  <2> HIDE DEF lost, outcomes, left, seen
  <2>3. CASE n # 0 /\ AddFails("EXIST", now, side, id, refid)
    BY <1>5, <1>6, <1>7, <2>2, <2>3
  <2>4. CASE n = 0 /\ AddFails("ENOMEM", now, side, id, refid)
    BY <1>5, <1>6, <1>7, <2>2, <2>4
  <2>5. CASE n # 0 /\ \E life \in Lives : AddAgain(now, n, side, id, refid, life)
    <3>1. PICK life \in Lives : AddAgain(now, n, side, id, refid, life)
      BY <2>5
    <3> QED
      BY <1>1, <2>1, <2>5, <3>1, AddAgainKept
  <2>6. CASE /\ n = 0 /\ k # 0 /\ Expired(now[k])
             /\ \E life \in Lives : list_set_replace(now, k, side, id, refid, life)
    <3>1. PICK life \in Lives : list_set_replace(now, k, side, id, refid, life)
      BY <2>6
    <3> QED
      BY <1>1, <2>1, <2>6, <3>1, ReplaceKept
  <2>7. CASE /\ n = 0 /\ ~ (k # 0 /\ Expired(now[k]))
             /\ \E life \in Lives : AddNew(now, side, p, id, refid, life)
    <3>1. PICK life \in Lives : AddNew(now, side, p, id, refid, life)
      BY <2>7
    <3> QED
      BY <1>1, <2>1, <2>7, <3>1, AddNewKept
  <2> QED
    BY <1>2, <1>9, <2>3, <2>4, <2>5, <2>6, <2>7
<1> QED
  BY <1>2, <1>8, <1>9

----------------------------------------------------------------------------
(* Deletion and test                                                       *)

\* A member taken off the list
LEMMA RemoveOrder ==
    ASSUME NEW l, NEW now, NEW walked, NEW late, NEW w, Works(l, now, walked, late, w),
           NEW n \in 1 .. Len(l), NEW t, t = RemoveAt(now, n)
    PROVE  /\ Order(t) = Without(l[n], Without(late, l))
           /\ late = Nobody => Dead(t) = << >>
<1> DEFINE j == n - 1
           a == SubSeq(now, 1, j)
           c == SubSeq(now, n + 1, Len(now))
           A == SubSeq(l, 1, j)
           C == SubSeq(l, n + 1, Len(l))
<1>1. l \in Seq(Ids) /\ Distinct(l) /\ Image(now, l, late) /\ now \in Seq(Node) /\ Len(now) = Len(l)
  BY DEF Works, Image
<1>2. j \in 0 .. Len(l) /\ n \in 0 .. Len(l) /\ n \in 1 .. Len(now)
  BY <1>1
<1>3. t = a \o c
  BY DEF RemoveAt
<1>4. Without(l[n], Without(late, l)) = Without(late, A) \o Without(late, C)
  <2>1. Without(l[n], Without(late, l)) =
           Without(late, SubSeq(l, 1, n - 1)) \o Without(late, SubSeq(l, n + 1, Len(l)))
    BY <1>1, WithoutAt, Zenon
  <2> QED
    BY <2>1, Zenon
<1>5. t \in Seq(Node) /\ Grown(now, t, n, now[n])
  BY <1>1, <1>2, RemoveAtShrinks
<1> HIDE DEF j
<1>6. Image(a, A, late) /\ Image(c, C, late)
  BY <1>1, <1>2, ImageParts
<1> HIDE DEF a, c, A, C
<1>7. Order(a) = Without(late, A) /\ Order(c) = Without(late, C) /\ a \in Seq(Node) /\ c \in Seq(Node)
  BY <1>6, OrderImage DEF Image
<1>8. Order(a \o c) = Order(a) \o Order(c)
  BY <1>7, OrderConcat
<1>9. Order(t) = Without(l[n], Without(late, l))
  BY <1>3, <1>4, <1>7, <1>8
<1>10. late = Nobody => Dead(t) = << >>
  <2> SUFFICES ASSUME late = Nobody PROVE \A i \in 1 .. Len(t) : ~ Expired(t[i])
    BY <1>5, NoneDead
  <2>1. \A i \in 1 .. Len(now) : ~ Expired(now[i])
    BY <1>1, ImageLiving
  <2>2. Len(now) = Len(t) + 1 /\ Len(t) \in Nat
    BY <1>5 DEF Grown
  <2> QED
    BY <1>5, <2>1, <2>2 DEF Grown
<1> QED
  BY <1>9, <1>10

\* Whether a member is where a delete looks for it
LEMMA PlacedIs ==
    ASSUME NEW l, NEW walked, NEW w, Image(walked, l, w), Distinct(l), NEW id \in Ids, NEW refid,
           NEW side \in {"last", "before", "after"}, NEW i, i = Position(walked, id), i # 0,
           NEW looked, looked = IF side = "before" THEN l ELSE Without(w, l)
    PROVE  Placed(walked, side, i, refid) <=> Promise!At(id, side, refid, looked)
<1>1. l \in Seq(Ids) /\ Len(walked) = Len(l) /\ walked \in Seq(Node) /\ Len(l) \in Nat
  BY DEF Image
<1>2. i \in 1 .. Len(l) /\ l[i] = id /\ id # w /\ Promise!Listed(id, Without(w, l))
  <2>1. i \in 0 .. Len(l) /\ l[i] = id /\ id # w /\ Promise!Listed(id, Without(w, l))
    BY PositionImage
  <2> QED
    BY <1>1, <2>1
<1>3. CASE side = "last"
  BY <1>2, <1>3 DEF Placed, Promise!At
<1>4. CASE side = "before"
  <2>1. Promise!At(id, side, refid, looked) <=> Promise!Follows(id, refid, l)
    BY <1>4 DEF Promise!At
  <2>2. Promise!Follows(l[i], refid, l) <=> (i + 1 \in 1 .. Len(l) /\ l[i + 1] = refid)
    BY <1>1, <1>2, FollowsIs
  <2>3. Placed(walked, side, i, refid) <=> (i < Len(l) /\ walked[i + 1].id = refid)
    BY <1>1, <1>4 DEF Placed
  <2>4. \A n \in 1 .. Len(l) : walked[n].id = l[n]
    BY DEF Image
  <2>5. i < Len(l) <=> i + 1 \in 1 .. Len(l)
    BY <1>1, <1>2
  <2> QED
    BY <1>2, <2>1, <2>2, <2>3, <2>4, <2>5
<1>5. CASE side = "after"
  <2> DEFINE j == i - 1
             P == Without(w, SubSeq(l, 1, j))
             R == Without(w, SubSeq(l, i + 1, Len(l)))
  <2>1. P \in Seq(Ids) /\ R \in Seq(Ids) /\ Without(w, l) = Append(P, l[i]) \o R
    <3>1. Without(w, l) = AmidNames(w, l, i - 1, l[i], i)
      BY <1>1, <1>2, AmidAt
    <3>2. Without(w, l) = Append(P, l[i]) \o R
      BY <3>1, Zenon DEF AmidNames
    <3>3. j \in 0 .. Len(l) /\ i \in 0 .. Len(l)
      BY <1>1, <1>2
    <3> HIDE DEF j
    <3>4. SubSeq(l, 1, j) \in Seq(Ids) /\ SubSeq(l, i + 1, Len(l)) \in Seq(Ids)
      BY <1>1, <3>3, Parts
    <3> QED
      BY <3>2, <3>4, WithoutIs, Zenon
  <2>2. j \in 0 .. Len(l)
    BY <1>1, <1>2
  <2>3. Placed(walked, side, i, refid) <=>
           (Order(SubSeq(walked, 1, j)) # << >> /\ Last(Order(SubSeq(walked, 1, j))) = refid)
    BY <1>5, Zenon DEF Placed
  <2> HIDE DEF j
  <2>4. Order(SubSeq(walked, 1, j)) = P
    <3>1. Image(SubSeq(walked, 1, j), SubSeq(l, 1, j), w)
      BY <2>2, ImageParts
    <3> QED
      BY <3>1, OrderImage
  <2> HIDE DEF P, R
  <2>5. Placed(walked, side, i, refid) <=> (P # << >> /\ Last(P) = refid)
    BY <2>3, <2>4, Zenon
  <2>6. Promise!At(id, side, refid, looked) <=> Promise!Follows(refid, id, looked)
    BY <1>5 DEF Promise!At
  <2>7. looked = Append(P, id) \o R /\ Distinct(looked)
    BY <1>1, <1>2, <1>5, <2>1, WithoutDistinct
  <2>8. Promise!Follows(refid, id, Append(P, id) \o R) <=> (P # << >> /\ Last(P) = refid)
    BY <2>1, <2>7, FollowsLast
  <2> QED
    BY <2>5, <2>6, <2>7, <2>8
<1> QED
  BY <1>3, <1>4, <1>5

LEMMA DelKept ==
    ASSUME NEW l, NEW now, NEW walked, NEW late, NEW w, Works(l, now, walked, late, w),
           NEW id \in Ids, NEW side \in {"last", "before", "after"}, NEW refid, NEW exist \in BOOLEAN,
           list_set_udel(walked, now, side, id, refid, exist)
    PROVE  Promise!Del(id, side, refid)
<1> DEFINE seen == Without(w, l)
           looked == IF side = "before" THEN l ELSE seen
           left == Without(late, l)
           at == Promise!At(id, side, refid, looked)
           answers == Promise!DelAnswers(id, side, refid, seen, looked)
<1>0. l \in Seq(Ids) /\ Distinct(l) /\ l = Order(members) /\ Image(now, l, late)
      /\ Image(walked, l, w) /\ w \in {Nobody, late}
  BY DEF Works
<1>1. PICK i, ret, t, put : /\ i = Position(walked, id)
                            /\ ret = DelAnswer(walked, side, id, refid, exist)
                            /\ t = IF ret = "deleted" THEN RemoveAt(now, i) ELSE now
                            /\ put = IF ret = "deleted" THEN "ok" ELSE ret
  OBVIOUS
<1>2. answer' = Said("del", id, side, refid, put) /\ members' = t
  BY <1>1, Zenon DEF list_set_udel
<1>3. i \in 0 .. Len(l) /\ (i # 0 => l[i] = id) /\ (i # 0 <=> Promise!Listed(id, seen))
  BY <1>0, <1>1, PositionImage
<1>4. i # 0 => (Placed(walked, side, i, refid) <=> at)
  BY <1>0, <1>1, PlacedIs
<1>5. ret = CASE i # 0 /\ Placed(walked, side, i, refid) -> "deleted"
              [] i = 0 /\ side = "last" -> IF exist THEN "ok" ELSE "EXIST"
              [] OTHER -> "REF_EXIST"
  BY <1>1, Zenon DEF DelAnswer
<1>6. side = "last" => (Placed(walked, side, i, refid) <=> TRUE)
  BY DEF Placed
<1> DEFINE found == Promise!Listed(id, seen) /\ at
<1> HIDE DEF seen, looked, left, at
<1>7. /\ ret = "deleted" <=> found
      /\ i = 0 /\ side = "last" => ret \in {"ok", "EXIST"}
      /\ ~ found /\ ~ (i = 0 /\ side = "last") => ret = "REF_EXIST" /\ side # "last"
  BY <1>3, <1>4, <1>5, <1>6
<1>8. put \in answers
  <2>1. CASE found
    <3>1. answers = {"ok"}
      BY <2>1 DEF Promise!DelAnswers, at
    <3> QED
      BY <1>1, <1>7, <2>1, <3>1
  <2>2. CASE i = 0 /\ side = "last"
    <3>1. answers = {"ok", "EXIST"}
      BY <1>3, <2>2 DEF Promise!DelAnswers
    <3> QED
      BY <1>1, <1>7, <2>2, <3>1
  <2>3. CASE ~ found /\ ~ (i = 0 /\ side = "last")
    <3>1. answers = {"REF_EXIST"}
      BY <1>7, <2>3 DEF Promise!DelAnswers, at
    <3> QED
      BY <1>1, <1>7, <2>3, <3>1
  <2> QED
    BY <2>1, <2>2, <2>3
<1>9. /\ Order(t) = IF put = "ok" THEN Promise!Without(id, left) ELSE left
      /\ late = Nobody => Dead(t) = << >>
  <2>0. left \in Seq(Ids) /\ Promise!Without(id, left) = Without(id, left)
    BY <1>0, WithoutIs, PromiseWithout DEF left
  <2>1. CASE ret = "deleted"
    <3>1. i \in 1 .. Len(l) /\ l[i] = id
      BY <1>0, <1>3, <1>7, <2>1
    <3>2. t = RemoveAt(now, i) /\ put = "ok"
      BY <1>1, <2>1
    <3>3. Order(t) = Without(l[i], Without(late, l)) /\ (late = Nobody => Dead(t) = << >>)
      BY <3>1, <3>2, RemoveOrder
    <3> QED
      BY <2>0, <3>1, <3>2, <3>3 DEF left
  <2>2. CASE ret # "deleted"
    <3>1. t = now /\ put = ret
      BY <1>1, <2>2
    <3>2. Order(now) = left
      BY <1>0, OrderImage DEF left
    <3>3. late = Nobody => Dead(now) = << >>
      BY <1>0, ImageLiving, NoneDead
    <3>4. ASSUME put = "ok" PROVE Without(id, left) = left
      <4>1. ~ Promise!Listed(id, Without(w, l))
        BY <1>3, <1>7, <2>2, <3>1, <3>4 DEF seen
      <4>2. id = w \/ ~ On(id, l)
        BY <1>0, <4>1, ListedWithout
      <4>3. id = late \/ ~ On(id, l)
        BY <1>0, <4>2, ListSetAssumption
      <4>4. ~ On(id, left)
        BY <1>0, <4>3, WithoutListed DEF left
      <4> QED
        BY <2>0, <4>4, WithoutAbsent DEF On
    <3> QED
      BY <2>0, <3>1, <3>2, <3>3, <3>4
  <2> QED
    BY <2>1, <2>2
<1>10. late \in Promise!Late /\ seen \in Promise!Views(late) /\ looked \in Promise!Views(late)
       /\ Promise!Without(late, Order(members)) = left
  BY <1>0, WorksSees DEF seen, looked, left
<1>11. answer'.ret = put /\ Promise!Asked("del", id, side, refid)
  BY <1>2 DEF Said, Promise!Said, Promise!Asked
<1>12. Promise!Swept(late)
  BY <1>2, <1>9 DEF Promise!Swept
<1>13. Order(members') = LET rest == Promise!Without(late, Order(members))
                         IN  IF answer'.ret = "ok" THEN Promise!Without(id, rest) ELSE rest
  BY <1>2, <1>9, <1>10, <1>11
<1> HIDE DEF answers
<1>14. answer'.ret \in answers
  BY <1>8, <1>11
<1> QED
  BY <1>10, <1>11, <1>12, <1>13, <1>14, Zenon DEF Promise!Del, answers

LEMMA TestKept ==
    ASSUME Lists, NEW id \in Ids, NEW side \in {"last", "before", "after"}, NEW refid,
           list_set_utest(side, id, refid)
    PROVE  Promise!Test(id, side, refid)
<1> DEFINE l == Order(members)
           at == Promise!At(id, side, refid, l)
           tidy == Dead(members) = << >>
<1>1. PICK i, ret : /\ i = Position(members, id)
                    /\ ret = IF i # 0 /\ Placed(members, side, i, refid) THEN "yes" ELSE "no"
  OBVIOUS
<1>2. answer' = Said("test", id, side, refid, ret) /\ UNCHANGED members
  BY <1>1, Zenon DEF list_set_utest
<1>3. members \in Seq(Node) /\ Image(Unexpired(members), l, Nobody) /\ l \in Seq(Ids) /\ Distinct(l)
  BY SweptImage DEF Lists
<1>4. i # 0 <=> Promise!Listed(id, l)
  <2>1. i # 0 <=> IsMember(members, id)
    BY <1>1, <1>3, Found
  <2>2. id \in Live(members) <=> IsMember(members, id)
    BY <1>3, LiveIs
  <2>3. Promise!Listed(id, l) <=> id \in Live(members)
    BY DEF Promise!Listed, Promise!ToSet, ToSet, Live
  <2> QED
    BY <2>1, <2>2, <2>3
<1>5. at => i # 0
  <2> SUFFICES ASSUME at PROVE Promise!Listed(id, l)
    BY <1>4
  <2>1. side = "last" => Promise!Listed(id, l)
    BY DEF Promise!At
  <2>2. side = "before" => Promise!Follows(id, refid, l)
    BY DEF Promise!At
  <2>3. side = "after" => Promise!Follows(refid, id, l)
    BY DEF Promise!At
  <2> HIDE DEF l
  <2> QED
    BY <1>3, <2>1, <2>2, <2>3, FollowsListed, PromiseListed
<1> HIDE DEF l, at
<1>6. (i # 0 /\ (tidy \/ side # "before")) => (Placed(members, side, i, refid) <=> at)
  <2>1. ASSUME i # 0, tidy
        PROVE  Placed(members, side, i, refid) <=> at
    <3>1. \A n \in 1 .. Len(members) : members[n] \in Alive
      BY <1>3, <2>1, NoneDead DEF Alive
    <3>2. Unexpired(members) = members
      BY <1>3, <3>1, UnexpiredIs, KeepAll
    <3>3. Image(members, l, Nobody)
      BY <1>3, <3>2
    <3>4. l = IF side = "before" THEN l ELSE Without(Nobody, l)
      BY <1>3, WithoutNobody
    <3> QED
      BY <1>1, <1>3, <2>1, <3>3, <3>4, PlacedIs DEF at
  <2>2. ASSUME i # 0, side = "last"
        PROVE  Placed(members, side, i, refid) <=> at
    BY <1>4, <2>2 DEF Placed, at, Promise!At
  <2>3. ASSUME i # 0, side = "after"
        PROVE  Placed(members, side, i, refid) <=> at
    <3> DEFINE j == i - 1
               a == SubSeq(members, 1, j)
               c == SubSeq(members, i + 1, Len(members))
               e == members[i]
               P == Order(a)
               R == Order(c)
    <3>1. LiveAt(members, i, id)
      BY <1>1, <1>3, <2>3, Found
    <3>2. i \in 1 .. Len(members) /\ e \in Node /\ e.id = id /\ ~ Expired(e)
          /\ j \in 0 .. Len(members) /\ i \in 0 .. Len(members)
      BY <1>3, <3>1 DEF LiveAt
    <3>3. members = Append(a, e) \o c
      BY <1>3, <3>2, ElementChanged
    <3>4. Placed(members, side, i, refid) <=> (P # << >> /\ Last(P) = refid)
      BY <2>3, Zenon DEF Placed
    <3> HIDE DEF j
    <3>5. a \in Seq(Node) /\ c \in Seq(Node)
      BY <1>3, <3>2, Parts
    <3> HIDE DEF a, c, e
    <3>6. P \in Seq(Ids) /\ R \in Seq(Ids)
      BY <3>5, OrderIs
    <3> DEFINE b == Append(a, e)
    <3>7. b \in Seq(Node) /\ Order(b) = Append(P, id)
      BY <3>2, <3>5, AppendProperties, OrderAppend
    <3> HIDE DEF b
    <3>8. Order(b \o c) = Order(b) \o Order(c)
      BY <3>5, <3>7, OrderConcat
    <3>9. l = Append(P, id) \o R
      BY <3>3, <3>7, <3>8 DEF l, b
    <3> HIDE DEF P, R
    <3>10. Promise!Follows(refid, id, Append(P, id) \o R) <=> (P # << >> /\ Last(P) = refid)
      BY <1>3, <3>6, <3>9, FollowsLast
    <3>11. at <=> Promise!Follows(refid, id, l)
      BY <2>3 DEF at, Promise!At
    <3> QED
      BY <3>4, <3>9, <3>10, <3>11
  <2> QED
    BY <2>1, <2>2, <2>3
<1>7. \/ ret = IF at THEN "yes" ELSE "no"
      \/ ~ tidy /\ side = "before" /\ Promise!Listed(id, l) /\ ret \in {"yes", "no"}
  BY <1>1, <1>4, <1>5, <1>6
<1>8. answer'.ret = ret /\ Promise!Asked("test", id, side, refid)
  BY <1>2 DEF Said, Promise!Said, Promise!Asked
<1> QED
  BY <1>2, <1>7, <1>8 DEF Promise!Test, at, l

----------------------------------------------------------------------------
(* The other steps                                                         *)

LEMMA RefuseKept ==
    ASSUME NEW cmd, NEW id \in Others \union {Nobody}, NEW before \in BOOLEAN, NEW hasref \in BOOLEAN,
           Refuse(cmd, id, before, hasref, Nobody)
    PROVE  Promise!Refuse(cmd, id, Side(before, hasref))
<1> DEFINE side == Side(before, hasref)
           why == EarlyError(id, before, hasref, Nobody)
           reasons == Promise!Reasons(id, side)
<1>1. /\ why # "ok" /\ answer' = Said(cmd, id, side, Nobody, IF cmd = "test" THEN "no" ELSE why)
      /\ UNCHANGED members
  BY DEF Refuse
<1>2. why \in reasons
  <2>1. CASE id = Nobody
    BY <2>1, ListSetAssumption DEF EarlyError, Promise!Reasons
  <2>2. CASE id = ListId
    BY <2>2, ListSetAssumption DEF EarlyError, Promise!Reasons
  <2>3. CASE id \in Ids
    <3>0. id # Nobody /\ id # ListId
      BY <2>3, ListSetAssumption
    <3>1. CASE before
      <4>1. reasons = {"BEFORE", "NAMEREF"}
        BY <2>3, <3>0, <3>1 DEF Promise!Reasons, Side
      <4>2. why \in {"BEFORE", "NAMEREF"}
        BY <2>3, <3>0, <3>1 DEF EarlyError
      <4> QED
        BY <4>1, <4>2
    <3>2. CASE ~ before /\ hasref
      <4>1. reasons = {"NAMEREF"}
        BY <2>3, <3>0, <3>2 DEF Promise!Reasons, Side
      <4>2. why = "NAMEREF"
        BY <2>3, <3>0, <3>2 DEF EarlyError
      <4> QED
        BY <4>1, <4>2
    <3>3. CASE ~ before /\ ~ hasref
      BY <1>1, <2>3, <3>0, <3>3 DEF EarlyError
    <3> QED
      BY <3>1, <3>2, <3>3
  <2> QED
    BY <2>1, <2>2, <2>3 DEF Others
<1> HIDE DEF why, reasons, side
<1>3. answer'.ret = (IF cmd = "test" THEN "no" ELSE why) /\ Promise!Asked(cmd, id, side, Nobody)
  BY <1>1 DEF Said, Promise!Said, Promise!Asked
<1> QED
  BY <1>1, <1>2, <1>3 DEF Promise!Refuse, reasons, side

LEMMA GcKept ==
    ASSUME Lists, list_set_gc
    PROVE  Promise!Sweep
<1> DEFINE s == Unexpired(members)
           l == Order(members)
<1>1. Image(s, l, Nobody) /\ l \in Seq(Ids)
  BY SweptImage
<1>2. members' = s /\ answer' = answer
  BY DEF list_set_gc
<1> HIDE DEF s, l
<1>3. Order(s) = l
  BY <1>1, OrderImage, WithoutNobody
<1>4. Dead(s) = << >>
  BY <1>1, ImageLiving, NoneDead
<1> QED
  BY <1>2, <1>3, <1>4 DEF Promise!Sweep, l

LEMMA FlushKept ==
    ASSUME list_set_flush
    PROVE  Promise!Flush
<1>1. members' = << >> /\ answer' = Said("flush", Nobody, "last", Nobody, "ok")
  BY DEF list_set_flush
<1>2. Dead(<< >>) = << >>
  <2>1. << >> \in Seq(Node) /\ Len(<< >>) = 0
    OBVIOUS
  <2>2. \A n \in 1 .. Len(<< >>) : ~ Expired(<< >>[n])
    BY <2>1
  <2> QED
    BY <2>1, <2>2, NoneDead
<1> QED
  BY <1>1, <1>2, OrderNone DEF Promise!Flush, Said, Promise!Said

\* A member that times out leaves the order where it was
LEMMA TimeoutKept ==
    ASSUME Lists, NEW id \in Ids, Timeout(id)
    PROVE  Promise!TimeOut(id)
<1> DEFINE x == Member(id, "expired")
<1>0. members \in Seq(Node) /\ Once(members) /\ Order(members) \in Seq(Ids) /\ Distinct(Order(members))
  BY SweptImage DEF Lists
<1>1. id \in CanTimeOut(members) /\ members' = TimedOut(members, id) /\ answer' = answer
  BY DEF Timeout
<1>2. PICK m, t : m = members /\ t = members'
  OBVIOUS
<1>3. m \in Seq(Node) /\ Once(m) /\ Order(m) \in Seq(Ids) /\ Distinct(Order(m)) /\ t = TimedOut(m, id)
  BY <1>0, <1>1, <1>2
<1>4. PICK n \in 1 .. Len(m) : m[n].life = "timed" /\ m[n].id = id
  BY <1>1, <1>2, <1>3 DEF CanTimeOut, ToSet
<1>5. m[n] = Member(id, "timed") /\ m[n] \in Node /\ ~ Expired(m[n]) /\ LiveAt(m, n, id)
  <2>1. m[n] \in Node
    BY <1>3
  <2>2. m[n] = Member(id, "timed")
    BY <1>4, <2>1 DEF Node, Member
  <2> QED
    BY <1>4, <2>1, <2>2 DEF Expired, LiveAt
<1>6. x \in Node /\ Expired(x)
  BY DEF Member, Node, Expired
<1>7. t = [m EXCEPT ![n] = x]
  <2>1. t = [k \in DOMAIN m |-> IF m[k] = Member(id, "timed") THEN x ELSE m[k]] /\ DOMAIN m = 1 .. Len(m)
    BY <1>3 DEF TimedOut
  <2>2. ASSUME NEW k \in 1 .. Len(m), m[k] = Member(id, "timed") PROVE k = n
    <3>1. LiveAt(m, k, id)
      BY <2>2 DEF LiveAt, Member, Expired
    <3> QED
      BY <1>3, <1>5, <3>1 DEF Once
  <2> DEFINE y == Member(id, "timed")
  <2>3. \A k \in 1 .. Len(m) : m[k] = y <=> k = n
    BY <1>5, <2>2
  <2> HIDE DEF x, y
  <2>4. t = [k \in DOMAIN m |-> IF k = n THEN x ELSE m[k]]
    BY <2>1, <2>3 DEF y
  <2> QED
    BY <2>1, <2>4
<1> DEFINE j == n - 1
           a == SubSeq(m, 1, j)
           c == SubSeq(m, n + 1, Len(m))
           P == Order(a)
           R == Order(c)
<1>8. j \in 0 .. Len(m) /\ n \in 0 .. Len(m)
  BY <1>3
<1>9. m = Append(a, m[n]) \o c
  BY <1>3, ElementChanged
<1>10. t = Append(a, x) \o c
  <2>1. \A e \in Node : \A s : s = [m EXCEPT ![n] = e] => s = Append(a, e) \o c
    BY <1>3, ElementChanged, ZenonT(60)
  <2> HIDE DEF a, c, x
  <2> QED
    BY <1>6, <1>7, <2>1
<1> HIDE DEF j, x
<1>11. a \in Seq(Node) /\ c \in Seq(Node)
  BY <1>3, <1>8, Parts
<1> HIDE DEF a, c
<1>12. P \in Seq(Ids) /\ R \in Seq(Ids)
  BY <1>11, OrderIs
<1>13. ASSUME NEW e \in Node PROVE Order(Append(a, e) \o c) = Order(Append(a, e)) \o R
  <2> DEFINE b == Append(a, e)
  <2>1. b \in Seq(Node)
    BY <1>11, AppendProperties
  <2> HIDE DEF b
  <2>2. Order(b \o c) = Order(b) \o Order(c)
    BY <1>11, <2>1, OrderConcat
  <2> QED
    BY <2>2 DEF b
<1>14. Order(m) = Append(P, id) \o R
  <2>1. Order(Append(a, m[n])) = Append(P, id)
    BY <1>4, <1>5, <1>11, OrderAppend
  <2> QED
    BY <1>5, <1>9, <1>13, <2>1
<1>15. Order(t) = P \o R
  <2>1. Order(Append(a, x)) = P
    BY <1>6, <1>11, OrderAppend
  <2> QED
    BY <1>6, <1>10, <1>13, <2>1
<1> HIDE DEF P, R
<1>16. Without(id, Order(m)) = P \o R /\ On(id, Order(m))
  <2> DEFINE o == Append(P, id) \o R
             K == Len(P)
             M == Len(R)
  <2>1. /\ o \in Seq(Ids) /\ Len(o) = K + M + 1 /\ o[K + 1] = id
        /\ \A k \in 1 .. K : o[k] = P[k]
        /\ \A k \in 1 .. M : o[K + 1 + k] = R[k]
    BY <1>12, Between
  <2>2. K \in Nat /\ M \in Nat /\ Distinct(o)
    BY <1>3, <1>12, <1>14
  <2> DEFINE b == Append(P, id)
  <2>3. b \in Seq(Ids) /\ Without(id, b) = Without(id, P)
    BY <1>12, AppendProperties, WithoutAppend
  <2>4. Without(id, b \o R) = Without(id, b) \o Without(id, R)
    <3> HIDE DEF b
    <3> QED
      BY <1>12, <2>3, WithoutConcat
  <2> HIDE DEF o, K, M
  <2>5. K + 1 \in 1 .. Len(o)
    BY <2>1, <2>2
  <2>6. \A k \in 1 .. Len(P) : P[k] # id
    <3> SUFFICES ASSUME NEW k \in 1 .. K, P[k] = id PROVE FALSE
      BY DEF K
    <3>1. k \in 1 .. Len(o) /\ k # K + 1 /\ o[k] = id
      BY <2>1, <2>2
    <3> QED
      BY <2>1, <2>2, <2>5, <3>1 DEF Distinct
  <2>7. \A k \in 1 .. Len(R) : R[k] # id
    <3> SUFFICES ASSUME NEW k \in 1 .. M, R[k] = id PROVE FALSE
      BY DEF M
    <3>1. K + 1 + k \in 1 .. Len(o) /\ K + 1 + k # K + 1 /\ o[K + 1 + k] = id
      BY <2>1, <2>2
    <3> QED
      BY <2>1, <2>2, <2>5, <3>1 DEF Distinct
  <2>8. Without(id, P) = P /\ Without(id, R) = R
    BY <1>12, <2>6, <2>7, WithoutAbsent
  <2>9. Order(m) = o
    BY <1>14 DEF o
  <2>10. On(id, Order(m))
    BY <2>1, <2>5, <2>9 DEF On
  <2>11. Without(id, Order(m)) = P \o R
    BY <2>3, <2>4, <2>8, <2>9 DEF o
  <2> QED
    BY <2>10, <2>11
<1>17. t \in Seq(Node) /\ Len(t) = Len(m) /\ t[n] = x
  BY <1>3, <1>6, <1>7, ExceptSeq
<1>18. Dead(t) # << >>
  BY <1>6, <1>17, NoneDead
<1>19. Promise!Listed(id, Order(m)) /\ Order(t) = Promise!Without(id, Order(m))
  BY <1>3, <1>15, <1>16, PromiseListed, PromiseWithout
<1> QED
  BY <1>1, <1>2, <1>18, <1>19 DEF Promise!TimeOut

LEMMA UadtKept ==
    ASSUME Lists, NEW id \in Ids, NEW side \in {"last", "before", "after"}, NEW second,
           \/ list_set_utest(side, id, second)
           \/ \E late \in CanTimeOut(Unexpired(members)) \union {Nobody} :
              \E now \in {TimedOut(Unexpired(members), late)} : \E walked \in {Unexpired(members), now} :
                 \/ list_set_uadd(walked, now, side, id, second)
                 \/ \E exist \in BOOLEAN : list_set_udel(walked, now, side, id, second, exist)
    PROVE  Promise!Test(id, side, second) \/ Promise!Del(id, side, second) \/ Promise!Add(id, side, second)
<1>1. CASE list_set_utest(side, id, second)
  BY <1>1, TestKept
<1>2. CASE \E late \in CanTimeOut(Unexpired(members)) \union {Nobody} :
           \E now \in {TimedOut(Unexpired(members), late)} : \E walked \in {Unexpired(members), now} :
              \/ list_set_uadd(walked, now, side, id, second)
              \/ \E exist \in BOOLEAN : list_set_udel(walked, now, side, id, second, exist)
  <2>1. PICK s : s = Unexpired(members)
    OBVIOUS
  <2>2. PICK late \in CanTimeOut(s) \union {Nobody} : \E now \in {TimedOut(s, late)} :
              \E walked \in {s, now} :
                 \/ list_set_uadd(walked, now, side, id, second)
                 \/ \E exist \in BOOLEAN : list_set_udel(walked, now, side, id, second, exist)
    BY <1>2, <2>1, Zenon
  <2>3. PICK now \in {TimedOut(s, late)} : \E walked \in {s, now} :
                 \/ list_set_uadd(walked, now, side, id, second)
                 \/ \E exist \in BOOLEAN : list_set_udel(walked, now, side, id, second, exist)
    BY <2>2, Zenon
  <2>4. PICK walked \in {s, now} :
                 \/ list_set_uadd(walked, now, side, id, second)
                 \/ \E exist \in BOOLEAN : list_set_udel(walked, now, side, id, second, exist)
    BY <2>3, Zenon
  <2>5. now = TimedOut(s, late)
    OBVIOUS
  <2>6. \E w : Works(Order(members), now, walked, late, w)
    BY <2>1, <2>5, WorksOn
  <2>7. PICK l, w : Works(l, now, walked, late, w)
    BY <2>6
  <2> QED
    BY <2>4, <2>7, AddKept, DelKept
<1> QED
  BY <1>1, <1>2

\* What a command with or without a reference may do
LEMMA CommandKept ==
    ASSUME Lists, NEW cmd, NEW id \in Ids, NEW before \in BOOLEAN, NEW hasref \in BOOLEAN, NEW refid,
           IF hasref THEN refid \in Others ELSE ~ before /\ refid = Nobody,
           list_set_uadt(cmd, id, before, hasref, refid)
    PROVE  Promise!Next
<1> DEFINE side == Side(before, hasref)
           second == IF hasref THEN refid ELSE Nobody
<1>1. side \in {"last", "before", "after"} /\ second \in Ids \union {ListId, Nobody}
      /\ (side = "last") = (second = Nobody)
  <2>1. hasref => refid \in Ids \union {ListId} /\ refid # Nobody
    BY ListSetAssumption DEF Others
  <2> QED
    BY <2>1 DEF Side
<1> HIDE DEF side, second
<1>2. \/ list_set_utest(side, id, second)
      \/ \E late \in CanTimeOut(Unexpired(members)) \union {Nobody} :
         \E now \in {TimedOut(Unexpired(members), late)} : \E walked \in {Unexpired(members), now} :
            \/ list_set_uadd(walked, now, side, id, second)
            \/ \E exist \in BOOLEAN : list_set_udel(walked, now, side, id, second, exist)
  BY Zenon DEF list_set_uadt, side, second
<1>3. Promise!Test(id, side, second) \/ Promise!Del(id, side, second) \/ Promise!Add(id, side, second)
  BY <1>1, <1>2, UadtKept
<1> QED
  BY <1>1, <1>3, Zenon DEF Promise!Next, Promise!Sides

LEMMA RefusedKept ==
    ASSUME NEW cmd \in {"add", "del", "test"}, NEW id \in Others \union {Nobody},
           NEW before \in BOOLEAN, NEW hasref \in BOOLEAN, Refuse(cmd, id, before, hasref, Nobody)
    PROVE  Promise!Next
<1> DEFINE side == Side(before, hasref)
<1>1. Promise!Refuse(cmd, id, side)
  BY RefuseKept
<1>2. side \in {"last", "before", "after"} /\ id \in Ids \union {ListId, Nobody}
  BY DEF Side, Others
<1> HIDE DEF side
<1> QED
  BY <1>1, <1>2, Zenon DEF Promise!Next, Promise!Sides

LEMMA StepKept ==
    ASSUME Lists, [Next]_vars
    PROVE  [Promise!Next]_(Promise!vars)
<1>1. CASE \E cmd \in {"add", "del", "test"} :
             \/ \E id \in {Nobody, ListId} : Refuse(cmd, id, FALSE, FALSE, Nobody)
             \/ \E id \in Ids, before, hasref \in BOOLEAN : Refuse(cmd, id, before, hasref, Nobody)
  <2>1. \E cmd \in {"add", "del", "test"} : \E id \in Others \union {Nobody} :
          \E before, hasref \in BOOLEAN : Refuse(cmd, id, before, hasref, Nobody)
    BY <1>1 DEF Others
  <2> QED
    BY <2>1, RefusedKept
<1>2. CASE \E cmd \in {"add", "del", "test"} :
             \/ \E id \in Ids : list_set_uadt(cmd, id, FALSE, FALSE, Nobody)
             \/ \E id \in Ids, before \in BOOLEAN, refid \in Ids \union {ListId} :
                  list_set_uadt(cmd, id, before, TRUE, refid)
  <2>1. \E cmd : \E id \in Ids : \E before, hasref \in BOOLEAN : \E refid :
          /\ IF hasref THEN refid \in Others ELSE ~ before /\ refid = Nobody
          /\ list_set_uadt(cmd, id, before, hasref, refid)
    <3>1. CASE \E cmd \in {"add", "del", "test"} : \E id \in Ids :
                 list_set_uadt(cmd, id, FALSE, FALSE, Nobody)
      <4>1. PICK cmd \in {"add", "del", "test"}, id \in Ids : list_set_uadt(cmd, id, FALSE, FALSE, Nobody)
        BY <3>1
      <4>2. FALSE \in BOOLEAN /\ IF FALSE THEN Nobody \in Others ELSE ~ FALSE /\ Nobody = Nobody
        OBVIOUS
      <4> QED
        BY <4>1, <4>2, Zenon
    <3>2. CASE \E cmd \in {"add", "del", "test"} : \E id \in Ids : \E before \in BOOLEAN :
                 \E refid \in Others : list_set_uadt(cmd, id, before, TRUE, refid)
      <4>1. TRUE \in BOOLEAN
        OBVIOUS
      <4> QED
        BY <3>2, <4>1, Zenon
    <3> QED
      BY <1>2, <3>1, <3>2, Zenon DEF Others
  <2> QED
    BY <2>1, CommandKept
<1>3. CASE list_set_flush \/ list_set_destroy
  BY <1>3, FlushKept DEF list_set_destroy, Promise!Next
<1>4. CASE \E id \in Ids : Timeout(id)
  BY <1>4, TimeoutKept DEF Promise!Next
<1>5. CASE list_set_gc
  BY <1>5, GcKept DEF Promise!Next
<1>6. CASE DumpStart \/ list_set_list \/ UNCHANGED vars
  <2>1. members' = members /\ answer' = answer
    BY <1>6 DEF DumpStart, list_set_list, ListFrom, vars
  <2> QED
    BY <2>1 DEF Promise!vars
<1>7. Command => \/ \E cmd \in {"add", "del", "test"} :
                      \/ \E id \in {Nobody, ListId} : Refuse(cmd, id, FALSE, FALSE, Nobody)
                      \/ \E id \in Ids, before, hasref \in BOOLEAN : Refuse(cmd, id, before, hasref, Nobody)
                 \/ \E cmd \in {"add", "del", "test"} :
                      \/ \E id \in Ids : list_set_uadt(cmd, id, FALSE, FALSE, Nobody)
                      \/ \E id \in Ids, before \in BOOLEAN, refid \in Ids \union {ListId} :
                           list_set_uadt(cmd, id, before, TRUE, refid)
                 \/ list_set_flush \/ list_set_destroy
  BY Zenon DEF Command
<1> QED
  BY <1>1, <1>2, <1>3, <1>4, <1>5, <1>6, <1>7, Zenon DEF Next

LEMMA InitKept ==
    ASSUME Init
    PROVE  Promise!Init
<1>1. members = << >> /\ answer = Said("none", Nobody, "last", Nobody, "none")
  BY DEF Init
<1>2. Dead(<< >>) = << >>
  <2>1. << >> \in Seq(Node) /\ Len(<< >>) = 0
    OBVIOUS
  <2>2. \A n \in 1 .. Len(<< >>) : ~ Expired(<< >>[n])
    BY <2>1
  <2> QED
    BY <2>1, <2>2, NoneDead
<1> QED
  BY <1>1, <1>2, OrderNone DEF Promise!Init, Said, Promise!Said

\* The nodes with their timeouts, sweeps that only commands and the timer
\* bring about, replacement of a neighbour that timed out and members that time
\* out in the middle of a command add up to what ListSpec promises: an ordered
\* list of names, added, deleted and tested by their place
THEOREM ListKeptCorrect == Spec => ListKept
<1>1. Init => Promise!Init
  BY InitKept
<1>2. Lists /\ [Next]_vars => [Promise!Next]_(Promise!vars)
  BY StepKept
<1>3. Spec => []Lists
  <2>1. Lists /\ DumpRight => Lists
    OBVIOUS
  <2> QED
    BY <2>1, ListInvariant, PTL
<1> QED
  BY <1>1, <1>2, <1>3, PTL DEF Spec, ListKept, Promise!Spec
=============================================================================
