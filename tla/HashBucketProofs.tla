--------------------------- MODULE HashBucketProofs ---------------------------
(***************************************************************************)
(* Proofs about HashBucket, for any elements, hash and sizes, and any      *)
(* commands, packets and tests.                                            *)
(***************************************************************************)
EXTENDS HashBucket, PickingProofs

----------------------------------------------------------------------------
(* Sizes of arrays are multiples of AHASH_INIT_SIZE                        *)

LEMMA Multiples ==
    ASSUME NEW n \in Nat \ {0}, NEW a \in Nat, NEW b \in Nat, a % n = 0
    PROVE  /\ (a + n) % n = 0
           /\ a >= n => a - n \in Nat /\ (a - n) % n = 0
           /\ b % n = 0 /\ a < b => a + n <= b
<1>1. \A c \in Nat : c % n = 0 => \E q \in Int : c = n * q
  OBVIOUS
<1>2. \A c \in Nat, q \in Int : c = n * q => c % n = 0
  OBVIOUS
<1>3. PICK q \in Int : a = n * q
  BY <1>1
<1>4. a + n = n * (q + 1) /\ a - n = n * (q - 1)
  BY <1>3
<1>5. (a + n) % n = 0
  BY <1>2, <1>4
<1>6. ASSUME a >= n PROVE a - n \in Nat /\ (a - n) % n = 0
  BY <1>2, <1>4, <1>6
<1>7. ASSUME b % n = 0, a < b PROVE a + n <= b
  <2>1. PICK p \in Int : b = n * p
    BY <1>1, <1>7
  <2>2. \A i, j \in Int : n * i < n * j => n * (i + 1) <= n * j
    OBVIOUS
  <2>3. n * q < n * p
    BY <1>3, <1>7, <2>1
  <2> QED
    BY <1>4, <2>1, <2>2, <2>3
<1> QED
  BY <1>5, <1>6, <1>7

\* Counters that do not wrap
LEMMA Wraps ==
    ASSUME NEW n \in Int, NEW d \in Int
    PROVE  /\ Plus(n, d) \in 0 .. CountMod - 1
           /\ n + d \in 0 .. CountMod - 1 => Plus(n, d) = n + d
<1> DEFINE c == CountMod
           s == n + d
<1>1. c \in Nat \ {0}
  BY BucketAssumption, FS_CardinalityType
<1> HIDE DEF c
<1>2. s \in Int
  OBVIOUS
<1>3. Plus(n, d) = s % c
  BY DEF Plus, c
<1> HIDE DEF s
<1>4. s % c \in 0 .. c - 1
  BY <1>1, <1>2
<1>5. s \in 0 .. c - 1 => s % c = s
  BY <1>1
<1> QED
  BY <1>3, <1>4, <1>5 DEF s, c

----------------------------------------------------------------------------
(* Arrays                                                                  *)

Stored == [x : Elems, life : {"live", "expired"}]
Slot == {Hole} \cup Stored

\* The elements in the slots, and those that have not timed out
In(s) == {x \in Elems : At(s, x) # {}}
LiveIn(s) == {x \in Elems : \E i \in DOMAIN s : s[i] = Entry(x)}

\* Every element in s belongs there and is there once
Distinct(s, k) ==
    \A i \in DOMAIN s : Used(s[i]) => HKEY[s[i].x] = k /\ At(s, s[i].x) = {i}

LEMMA SlotKinds ==
    /\ \A x \in Elems : Entry(x) \in Slot /\ Used(Entry(x)) /\ Live(Entry(x)) /\ Entry(x).x = x
    /\ Hole \in Slot /\ ~ Used(Hole) /\ ~ Live(Hole) /\ Hole.x \notin Elems
    /\ \A e \in Slot : /\ Used(e) <=> e.x \in Elems
                       /\ Used(e) <=> e # Hole
                       /\ Used(e) <=> e \in Stored
                       /\ Live(e) => Used(e) /\ e = Entry(e.x)
<1>1. NoElem \notin Elems
  BY BucketAssumption
<1>2. /\ \A x \in Elems : Entry(x) \in Slot /\ Used(Entry(x)) /\ Live(Entry(x)) /\ Entry(x).x = x
      /\ Hole \in Slot /\ ~ Used(Hole) /\ ~ Live(Hole) /\ Hole.x \notin Elems
  BY <1>1 DEF Slot, Stored, Entry, Hole, Used, Live
<1>3. ASSUME NEW e \in Slot
      PROVE  /\ Used(e) <=> e.x \in Elems
             /\ Used(e) <=> e # Hole
             /\ Used(e) <=> e \in Stored
             /\ Live(e) => Used(e) /\ e = Entry(e.x)
  <2>1. CASE e = Hole
    BY <1>1, <1>2, <2>1 DEF Stored, Hole
  <2>2. CASE e \in Stored
    BY <1>1, <2>2 DEF Stored, Entry, Hole, Used, Live
  <2> QED
    BY <2>1, <2>2 DEF Slot
<1> QED
  BY <1>2, <1>3

LEMMA FirstOf ==
    ASSUME NEW S, S \subseteq Nat, S # {}
    PROVE  First(S) \in S
<1>1. \E i \in S : \A j \in S : i <= j
  BY LeastNumber
<1> QED
  BY <1>1 DEF First

\* What is in an array, in terms of its slots
LEMMA InSlots ==
    ASSUME NEW s \in Seq(Slot), NEW k, Distinct(s, k)
    PROVE  /\ \A i \in DOMAIN s : Used(s[i]) => s[i].x \in In(s)
           /\ \A i \in DOMAIN s : Live(s[i]) => s[i].x \in LiveIn(s) /\ s[i] = Entry(s[i].x)
           /\ \A x \in In(s) : HKEY[x] = k
           /\ LiveIn(s) \subseteq In(s) /\ In(s) \subseteq Elems
           /\ \A x \in In(s) : \E i \in DOMAIN s : At(s, x) = {i} /\ Used(s[i]) /\ s[i].x = x
<1>1. \A i \in DOMAIN s : s[i] \in Slot
  OBVIOUS
<1>2. \A i \in DOMAIN s : Used(s[i]) => s[i].x \in In(s)
  BY <1>1, SlotKinds DEF In, At
<1>3. \A i \in DOMAIN s : Live(s[i]) => s[i].x \in LiveIn(s) /\ s[i] = Entry(s[i].x)
  BY <1>1, SlotKinds DEF LiveIn
<1>4. ASSUME NEW x \in In(s)
      PROVE  \E i \in DOMAIN s : At(s, x) = {i} /\ Used(s[i]) /\ s[i].x = x
  <2>1. PICK i \in DOMAIN s : s[i].x = x /\ x \in Elems
    BY DEF In, At
  <2>2. Used(s[i])
    BY <1>1, <2>1, SlotKinds
  <2> QED
    BY <2>1, <2>2 DEF Distinct
<1>5. \A x \in In(s) : HKEY[x] = k
  BY <1>4 DEF Distinct
<1>6. LiveIn(s) \subseteq In(s) /\ In(s) \subseteq Elems
  BY SlotKinds DEF LiveIn, In, At
<1> QED
  BY <1>2, <1>3, <1>4, <1>5, <1>6

\* e belongs into the array and is in no slot of it but i
Fits(e, s, i, k) == Used(e) => HKEY[e.x] = k /\ (e.x \in In(s) => s[i].x = e.x)

Written(t, s, i, e) == t = [s EXCEPT ![i] = e]

\* A slot is written
LEMMA SlotSet ==
    ASSUME NEW s \in Seq(Slot), NEW k, Distinct(s, k), NEW i \in DOMAIN s, NEW e \in Slot,
           Fits(e, s, i, k), NEW t, Written(t, s, i, e)
    PROVE  /\ t \in Seq(Slot) /\ Len(t) = Len(s) /\ DOMAIN t = DOMAIN s
           /\ t[i] = e /\ \A j \in DOMAIN s : j # i => t[j] = s[j]
           /\ Distinct(t, k)
           /\ Used(e) => In(t) = (In(s) \ {s[i].x}) \cup {e.x}
           /\ ~ Used(e) => In(t) = In(s) \ {s[i].x}
           /\ Live(e) => LiveIn(t) = (LiveIn(s) \ {s[i].x}) \cup {e.x}
           /\ ~ Live(e) => LiveIn(t) = LiveIn(s) \ {s[i].x}
<1>1. /\ t \in Seq(Slot) /\ Len(t) = Len(s) /\ DOMAIN t = DOMAIN s
      /\ t[i] = e /\ \A j \in DOMAIN s : j # i => t[j] = s[j]
  <2>1. i \in 1 .. Len(s) /\ DOMAIN s = 1 .. Len(s)
    OBVIOUS
  <2> QED
    BY <2>1, ExceptSeq DEF Written
<1>2. \A j \in DOMAIN s : s[j] \in Slot /\ t[j] \in Slot
  BY <1>1
<1>3. \A j \in DOMAIN s : Used(s[j]) => At(s, s[j].x) = {j} /\ HKEY[s[j].x] = k
  BY DEF Distinct
<1>4. Distinct(t, k)
  <2> SUFFICES ASSUME NEW j \in DOMAIN s, Used(t[j]) PROVE HKEY[t[j].x] = k /\ At(t, t[j].x) = {j}
    BY <1>1 DEF Distinct
  <2>1. t[j].x \in Elems
    BY <1>2, SlotKinds
  <2>2. HKEY[t[j].x] = k
    BY <1>1, <1>3, <2>1 DEF Fits
  <2>3. ASSUME NEW l \in DOMAIN s, t[l].x = t[j].x PROVE l = j
    <3>1. Used(t[l])
      BY <1>2, <2>1, <2>3, SlotKinds
    <3>2. CASE j # i /\ l # i
      <4>1. Used(s[j]) /\ t[j] = s[j] /\ t[l] = s[l]
        BY <1>1, <3>2
      <4>2. l \in At(s, s[j].x) /\ At(s, s[j].x) = {j}
        BY <1>3, <2>3, <4>1 DEF At
      <4> QED
        BY <4>2
    <3>3. CASE j = i /\ l # i
      <4>1. s[l].x = e.x /\ Used(s[l]) /\ Used(e) /\ e.x \in Elems
        BY <1>1, <2>1, <2>3, <3>1, <3>3
      <4>2. e.x \in In(s) /\ At(s, s[l].x) = {l}
        BY <1>3, <4>1 DEF In, At
      <4>3. s[i].x = s[l].x
        BY <4>1, <4>2 DEF Fits
      <4> QED
        BY <3>3, <4>2, <4>3 DEF At
    <3>4. CASE j # i /\ l = i
      <4>1. s[j].x = e.x /\ Used(s[j]) /\ Used(e) /\ e.x \in Elems
        BY <1>1, <2>1, <2>3, <3>1, <3>4
      <4>2. e.x \in In(s) /\ At(s, s[j].x) = {j}
        BY <1>3, <4>1 DEF In, At
      <4>3. s[i].x = s[j].x
        BY <4>1, <4>2 DEF Fits
      <4> QED
        BY <3>4, <4>2, <4>3 DEF At
    <3> QED
      BY <3>2, <3>3, <3>4
  <2> QED
    BY <1>1, <2>2, <2>3 DEF At
<1>5. In(t) = (In(s) \ {s[i].x}) \cup {x \in {e.x} : Used(e)}
  <2>1. ASSUME NEW x \in In(t) PROVE x \in (In(s) \ {s[i].x}) \cup {y \in {e.x} : Used(e)}
    <3>1. PICK j \in DOMAIN s : t[j].x = x /\ x \in Elems
      BY <1>1 DEF In, At
    <3>2. CASE j = i
      BY <1>1, <3>1, <3>2, SlotKinds
    <3>3. CASE j # i
      <4>1. s[j].x = x /\ Used(s[j])
        BY <1>1, <1>2, <3>1, <3>3, SlotKinds
      <4>2. x \in In(s) /\ s[i].x # x
        BY <1>3, <3>1, <3>3, <4>1 DEF In, At
      <4> QED
        BY <4>2
    <3> QED
      BY <3>2, <3>3
  <2>2. ASSUME NEW x \in In(s), x # s[i].x PROVE x \in In(t)
    <3>1. PICK j \in DOMAIN s : s[j].x = x /\ x \in Elems
      BY DEF In, At
    <3>2. t[j].x = x
      BY <1>1, <2>2, <3>1
    <3> QED
      BY <1>1, <3>1, <3>2 DEF In, At
  <2>3. Used(e) => e.x \in In(t)
    BY <1>1, SlotKinds DEF In, At
  <2> QED
    BY <2>1, <2>2, <2>3
<1>6. LiveIn(t) = (LiveIn(s) \ {s[i].x}) \cup {x \in {e.x} : Live(e)}
  <2>1. ASSUME NEW x \in LiveIn(t) PROVE x \in (LiveIn(s) \ {s[i].x}) \cup {y \in {e.x} : Live(e)}
    <3>1. PICK j \in DOMAIN s : t[j] = Entry(x) /\ x \in Elems
      BY <1>1 DEF LiveIn
    <3>2. CASE j = i
      BY <1>1, <3>1, <3>2, SlotKinds
    <3>3. CASE j # i
      <4>1. s[j] = Entry(x) /\ Used(s[j]) /\ s[j].x = x
        BY <1>1, <3>1, <3>3, SlotKinds
      <4>2. x \in LiveIn(s) /\ s[i].x # x
        BY <1>3, <3>1, <3>3, <4>1 DEF LiveIn, At
      <4> QED
        BY <4>2
    <3> QED
      BY <3>2, <3>3
  <2>2. ASSUME NEW x \in LiveIn(s), x # s[i].x PROVE x \in LiveIn(t)
    <3>1. PICK j \in DOMAIN s : s[j] = Entry(x) /\ x \in Elems
      BY DEF LiveIn
    <3>2. j # i
      BY <2>2, <3>1, SlotKinds
    <3> QED
      BY <1>1, <3>1, <3>2 DEF LiveIn
  <2>3. Live(e) => e.x \in LiveIn(t)
    BY <1>1, SlotKinds DEF LiveIn
  <2> QED
    BY <2>1, <2>2, <2>3
<1> QED
  BY <1>1, <1>4, <1>5, <1>6

\* The slots that are not at the positions hold nothing, or what is gone
Gives(s, positions, gone) ==
    /\ \A i \in DOMAIN s : i \notin positions => s[i].x \notin Elems \/ s[i].x = gone
    /\ \A i \in positions : s[i].x # gone

\* Some of the slots are left, in another array or a shorter one
LEMMA SlotsKept ==
    ASSUME NEW s \in Seq(Slot), NEW k, Distinct(s, k), NEW t \in Seq(Slot),
           NEW positions \in SUBSET (1 .. Len(s)), NEW g, Comes(t, s, positions, g),
           NEW gone, Gives(s, positions, gone)
    PROVE  /\ Distinct(t, k)
           /\ In(t) = In(s) \ {gone} /\ LiveIn(t) = LiveIn(s) \ {gone}
<1>0. DOMAIN s = 1 .. Len(s) /\ DOMAIN t = 1 .. Len(t) /\ \A i \in DOMAIN s : s[i] \in Slot
  OBVIOUS
<1>1. \A j \in DOMAIN t : g[j] \in positions /\ g[j] \in DOMAIN s /\ t[j] = s[g[j]]
  BY <1>0 DEF Comes
<1>2. \A i \in positions : \E j \in DOMAIN t : g[j] = i /\ t[j] = s[i]
  <2> SUFFICES ASSUME NEW i \in positions PROVE \E j \in DOMAIN t : g[j] = i /\ t[j] = s[i]
    OBVIOUS
  <2>1. PICK j \in DOMAIN t : g[j] = i
    BY <1>0 DEF Comes
  <2> QED
    BY <1>1, <2>1
<1>3. \A i, j \in DOMAIN t : g[i] = g[j] => i = j
  <2> SUFFICES ASSUME NEW i \in DOMAIN t, NEW j \in DOMAIN t, g[i] = g[j] PROVE i = j
    OBVIOUS
  <2>1. g[i] \in Nat /\ i \in Nat /\ j \in Nat
    BY <1>0, <1>1
  <2>2. ~ (i < j) /\ ~ (j < i)
    BY <1>0, <2>1 DEF Comes
  <2> QED
    BY <2>1, <2>2
<1>4. Distinct(t, k)
  <2> SUFFICES ASSUME NEW j \in DOMAIN t, Used(t[j]) PROVE HKEY[t[j].x] = k /\ At(t, t[j].x) = {j}
    BY DEF Distinct
  <2>0. g[j] \in DOMAIN s /\ t[j] = s[g[j]]
    BY <1>1
  <2>1. HKEY[t[j].x] = k /\ At(s, t[j].x) = {g[j]}
    BY <2>0 DEF Distinct
  <2>2. \A l \in DOMAIN t : t[l].x = t[j].x => l = j
    <3> SUFFICES ASSUME NEW l \in DOMAIN t, t[l].x = t[j].x PROVE l = j
      OBVIOUS
    <3>1. g[l] \in At(s, t[j].x)
      BY <1>1 DEF At
    <3> QED
      BY <1>3, <2>1, <3>1
  <2> QED
    BY <2>1, <2>2 DEF At
<1>5. \A x \in Elems : (\E j \in DOMAIN t : t[j].x = x) <=> (\E i \in DOMAIN s : s[i].x = x) /\ x # gone
  <2>1. ASSUME NEW x \in Elems, NEW j \in DOMAIN t, t[j].x = x
        PROVE  (\E i \in DOMAIN s : s[i].x = x) /\ x # gone
    BY <1>1, <2>1 DEF Gives
  <2>2. ASSUME NEW x \in Elems, NEW i \in DOMAIN s, s[i].x = x, x # gone
        PROVE  \E j \in DOMAIN t : t[j].x = x
    BY <1>2, <2>2 DEF Gives
  <2> QED
    BY <2>1, <2>2
<1>6. \A x \in Elems : (\E j \in DOMAIN t : t[j] = Entry(x)) <=> (\E i \in DOMAIN s : s[i] = Entry(x)) /\ x # gone
  <2>1. ASSUME NEW x \in Elems, NEW j \in DOMAIN t, t[j] = Entry(x)
        PROVE  (\E i \in DOMAIN s : s[i] = Entry(x)) /\ x # gone
    BY <1>1, <2>1, SlotKinds DEF Gives
  <2>2. ASSUME NEW x \in Elems, NEW i \in DOMAIN s, s[i] = Entry(x), x # gone
        PROVE  \E j \in DOMAIN t : t[j] = Entry(x)
    <3>1. s[i].x = x
      BY <2>2, SlotKinds
    <3>2. i \in positions
      BY <2>2, <3>1 DEF Gives
    <3> QED
      BY <1>2, <2>2, <3>2
  <2> QED
    BY <2>1, <2>2
<1>7. In(t) = In(s) \ {gone}
  BY <1>5 DEF In, At
<1>8. LiveIn(t) = LiveIn(s) \ {gone}
  BY <1>6 DEF LiveIn
<1> QED
  BY <1>4, <1>7, <1>8

\* A slot is written behind the last one
LEMMA SlotAdded ==
    ASSUME NEW s \in Seq(Slot), NEW k, Distinct(s, k), NEW x \in Elems, HKEY[x] = k, At(s, x) = {}
    PROVE  LET t == Append(s, Entry(x))
           IN  /\ t \in Seq(Slot) /\ Len(t) = Len(s) + 1
               /\ \A j \in DOMAIN s : j \in DOMAIN t /\ t[j] = s[j]
               /\ Distinct(t, k)
               /\ In(t) = In(s) \cup {x} /\ LiveIn(t) = LiveIn(s) \cup {x}
<1> DEFINE t == Append(s, Entry(x))
           n == Len(s) + 1
<1>1. Entry(x) \in Slot /\ Used(Entry(x)) /\ Entry(x).x = x
  BY SlotKinds
<1>2. /\ t \in Seq(Slot) /\ Len(t) = n /\ n \in Nat /\ DOMAIN t = 1 .. n /\ DOMAIN s = 1 .. Len(s)
      /\ Len(s) \in Nat /\ \A j \in DOMAIN s : j \in DOMAIN t /\ t[j] = s[j] /\ j # n
      /\ n \in DOMAIN t /\ t[n] = Entry(x)
      /\ \A j \in DOMAIN t : j \in DOMAIN s \/ j = n
  BY <1>1
<1> HIDE DEF t, n
<1>3. \A j \in DOMAIN s : s[j].x # x
  BY DEF At
<1>4. Distinct(t, k)
  <2> SUFFICES ASSUME NEW j \in DOMAIN t, Used(t[j]) PROVE HKEY[t[j].x] = k /\ At(t, t[j].x) = {j}
    BY DEF Distinct
  <2>1. CASE j = n
    <3>1. t[j].x = x
      BY <1>1, <1>2, <2>1
    <3>2. \A l \in DOMAIN t : t[l].x = x <=> l = n
      BY <1>1, <1>2, <1>3
    <3> QED
      BY <2>1, <3>1, <3>2 DEF At
  <2>2. CASE j \in DOMAIN s
    <3>1. t[j] = s[j] /\ Used(s[j])
      BY <1>2, <2>2
    <3>2. HKEY[s[j].x] = k /\ At(s, s[j].x) = {j}
      BY <2>2, <3>1 DEF Distinct
    <3>3. \A l \in DOMAIN t : t[l].x = s[j].x => l = j
      <4> SUFFICES ASSUME NEW l \in DOMAIN t, t[l].x = s[j].x PROVE l = j
        OBVIOUS
      <4>1. l # n
        BY <1>1, <1>2, <1>3, <2>2
      <4>2. l \in At(s, s[j].x)
        BY <1>2, <4>1 DEF At
      <4> QED
        BY <3>2, <4>2
    <3> QED
      BY <2>2, <3>1, <3>2, <3>3 DEF At
  <2> QED
    BY <1>2, <2>1, <2>2
<1>5. In(t) = In(s) \cup {x}
  <2>1. \A y \in Elems : (\E j \in DOMAIN t : t[j].x = y) <=> (\E j \in DOMAIN s : s[j].x = y) \/ y = x
    <3> SUFFICES ASSUME NEW y \in Elems
                 PROVE  (\E j \in DOMAIN t : t[j].x = y) <=> (\E j \in DOMAIN s : s[j].x = y) \/ y = x
      OBVIOUS
    <3>1. ASSUME NEW j \in DOMAIN t, t[j].x = y PROVE (\E i \in DOMAIN s : s[i].x = y) \/ y = x
      BY <1>1, <1>2, <3>1
    <3>2. ASSUME NEW j \in DOMAIN s, s[j].x = y PROVE \E i \in DOMAIN t : t[i].x = y
      BY <1>2, <3>2
    <3>3. n \in DOMAIN t /\ t[n].x = x
      BY <1>1, <1>2
    <3> QED
      BY <3>1, <3>2, <3>3
  <2> QED
    BY <2>1 DEF In, At
<1>6. LiveIn(t) = LiveIn(s) \cup {x}
  <2>1. \A y \in Elems : (\E j \in DOMAIN t : t[j] = Entry(y)) <=> (\E j \in DOMAIN s : s[j] = Entry(y)) \/ y = x
    <3> SUFFICES ASSUME NEW y \in Elems
                 PROVE  (\E j \in DOMAIN t : t[j] = Entry(y)) <=> (\E j \in DOMAIN s : s[j] = Entry(y)) \/ y = x
      OBVIOUS
    <3>0. Entry(y).x = y
      BY SlotKinds
    <3>1. ASSUME NEW j \in DOMAIN t, t[j] = Entry(y) PROVE (\E i \in DOMAIN s : s[i] = Entry(y)) \/ y = x
      BY <1>1, <1>2, <3>0, <3>1
    <3>2. ASSUME NEW j \in DOMAIN s, s[j] = Entry(y) PROVE \E i \in DOMAIN t : t[i] = Entry(y)
      BY <1>2, <3>2
    <3>3. n \in DOMAIN t /\ t[n] = Entry(x)
      BY <1>1, <1>2
    <3> QED
      BY <3>1, <3>2, <3>3
  <2> QED
    BY <2>1 DEF LiveIn
<1> QED
  BY <1>2, <1>4, <1>5, <1>6 DEF t, n

\* The last slot is given up
LEMMA LastDropped ==
    ASSUME NEW s \in Seq(Slot), NEW k, Distinct(s, k), s # << >>, Used(s[Len(s)])
    PROVE  LET t == SubSeq(s, 1, Len(s) - 1)
               x == s[Len(s)].x
           IN  /\ t \in Seq(Slot) /\ Len(t) = Len(s) - 1
               /\ \A j \in DOMAIN s : s[j].x # x => j \in DOMAIN t /\ t[j] = s[j]
               /\ Distinct(t, k)
               /\ In(t) = In(s) \ {x} /\ LiveIn(t) = LiveIn(s) \ {x}
<1> DEFINE n == Len(s)
           t == SubSeq(s, 1, n - 1)
           x == s[n].x
           positions == 1 .. n - 1
           g == [j \in positions |-> j]
<1>1. n \in Nat /\ n > 0 /\ n - 1 \in Nat /\ n \in DOMAIN s /\ DOMAIN s = 1 .. n
  BY EmptySeq
<1>2. /\ t \in Seq(Slot) /\ Len(t) = n - 1 /\ DOMAIN t = positions
      /\ \A j \in positions : t[j] = s[j]
  BY <1>1, SubSeqProperties
<1>3. \A j \in DOMAIN s : j = n \/ j \in positions
  BY <1>1
<1>4. At(s, x) = {n} /\ n \notin positions
  BY <1>1 DEF Distinct
<1>5. \A j \in positions : j \in DOMAIN s /\ s[j].x # x
  BY <1>1, <1>4 DEF At
<1>6. Comes(t, s, positions, g)
  <2>1. Len(t) = n - 1
    BY <1>2
  <2> QED
    BY <1>2, <2>1 DEF Comes
<1>7. positions \in SUBSET (1 .. Len(s))
  BY <1>1
<1> HIDE DEF t, x, g, positions
<1>8. Gives(s, positions, x)
  BY <1>3, <1>5 DEF Gives, x
<1>9. /\ Distinct(t, k) /\ In(t) = In(s) \ {x} /\ LiveIn(t) = LiveIn(s) \ {x}
  <2>1. \A u \in Seq(Slot), P \in SUBSET (1 .. Len(s)) : \A h, y :
           Comes(u, s, P, h) /\ Gives(s, P, y)
           => Distinct(u, k) /\ In(u) = In(s) \ {y} /\ LiveIn(u) = LiveIn(s) \ {y}
    BY SlotsKept
  <2> QED
    BY <1>2, <1>6, <1>7, <1>8, <2>1
<1>10. \A j \in DOMAIN s : s[j].x # x => j \in DOMAIN t /\ t[j] = s[j]
  BY <1>2, <1>3 DEF x
<1> QED
  BY <1>2, <1>9, <1>10 DEF t, x

\* The number of unused slots
LEMMA UnusedSlots ==
    ASSUME NEW s \in Seq(Slot)
    PROVE  /\ Unused(s) \in 0 .. Len(s)
           /\ Unused(s) >= Len(s) => In(s) = {} /\ LiveIn(s) = {}
           /\ IsFiniteSet({i \in DOMAIN s : Used(s[i])})
           /\ Cardinality({i \in DOMAIN s : Used(s[i])}) = Len(s) - Unused(s)
<1> DEFINE D == DOMAIN s
           U == {i \in D : ~ Used(s[i])}
           V == {i \in D : Used(s[i])}
<1>1. Len(s) \in Nat /\ D = 1 .. Len(s)
  OBVIOUS
<1>2. IsFiniteSet(D) /\ Cardinality(D) = Len(s)
  BY <1>1, UpToCount
<1>3. U \subseteq D /\ V = D \ U /\ D \cap U = U
  OBVIOUS
<1>4. Unused(s) = Cardinality(U)
  BY DEF Unused
<1>5. \A i \in D : s[i] \in Slot
  OBVIOUS
<1> HIDE DEF D, U, V
<1>6. IsFiniteSet(U) /\ Cardinality(U) \in Nat /\ Cardinality(U) <= Cardinality(D)
  BY <1>2, <1>3, FS_Subset, FS_CardinalityType
<1>7. IsFiniteSet(V) /\ Cardinality(V) = Cardinality(D) - Cardinality(U)
  <2>1. IsFiniteSet(D \ U) /\ Cardinality(D \ U) = Cardinality(D) - Cardinality(D \cap U)
    BY <1>2, FS_Difference
  <2> QED
    BY <1>3, <2>1
<1>8. ASSUME Unused(s) >= Len(s) PROVE In(s) = {} /\ LiveIn(s) = {}
  <2>1. Cardinality(V) = 0
    BY <1>1, <1>2, <1>4, <1>6, <1>7, <1>8
  <2>2. V = {}
    BY <1>7, <2>1, FS_EmptySet
  <2>3. \A i \in DOMAIN s : ~ Used(s[i])
    BY <2>2 DEF V, D
  <2>4. \A i \in DOMAIN s : s[i].x \notin Elems
    BY <1>5, <2>3, SlotKinds DEF D
  <2> QED
    BY <2>4, SlotKinds DEF In, LiveIn, At
<1> QED
  BY <1>1, <1>2, <1>4, <1>6, <1>7, <1>8 DEF V, D

\* What timed out is cleared
LEMMA SlotsCleared ==
    ASSUME NEW s \in Seq(Slot), NEW k, Distinct(s, k)
    PROVE  LET t == Cleared(s)
           IN  /\ t \in Seq(Slot) /\ Len(t) = Len(s) /\ DOMAIN t = DOMAIN s
               /\ \A i \in DOMAIN s : t[i] = IF Live(s[i]) THEN s[i] ELSE Hole
               /\ Distinct(t, k)
               /\ In(t) = LiveIn(s) /\ LiveIn(t) = LiveIn(s)
<1> DEFINE t == Cleared(s)
<1>1. DOMAIN s = 1 .. Len(s) /\ Len(s) \in Nat /\ \A i \in DOMAIN s : s[i] \in Slot
  OBVIOUS
<1>2. \A i \in DOMAIN s : t[i] = IF s[i].life = "expired" THEN Hole ELSE s[i]
  BY DEF Cleared
<1>3. DOMAIN t = DOMAIN s /\ t = [i \in 1 .. Len(s) |-> t[i]]
  BY <1>1 DEF Cleared
<1> HIDE DEF t
<1>4. \A i \in DOMAIN s : t[i] = IF Live(s[i]) THEN s[i] ELSE Hole
  <2> SUFFICES ASSUME NEW i \in DOMAIN s PROVE t[i] = IF Live(s[i]) THEN s[i] ELSE Hole
    OBVIOUS
  <2>1. CASE s[i] = Hole
    BY <1>2, <2>1 DEF Hole, Live
  <2>2. CASE s[i] \in Stored
    BY <1>2, <2>2 DEF Stored, Live
  <2> QED
    BY <1>1, <2>1, <2>2 DEF Slot
<1>5. \A i \in DOMAIN s : t[i] \in Slot
  BY <1>1, <1>4, SlotKinds
<1>6. t \in Seq(Slot) /\ Len(t) = Len(s)
  BY <1>1, <1>3, <1>5
<1>7. \A i \in DOMAIN s, x \in Elems : /\ t[i].x = x <=> s[i] = Entry(x)
                                       /\ t[i] = Entry(x) <=> s[i] = Entry(x)
  BY <1>1, <1>4, SlotKinds
<1>8. Distinct(t, k)
  <2> SUFFICES ASSUME NEW i \in DOMAIN s, Used(t[i]) PROVE HKEY[t[i].x] = k /\ At(t, t[i].x) = {i}
    BY <1>3 DEF Distinct
  <2>1. t[i] = s[i] /\ Used(s[i]) /\ s[i].x \in Elems
    BY <1>1, <1>4, SlotKinds
  <2>2. HKEY[s[i].x] = k /\ At(s, s[i].x) = {i}
    BY <2>1 DEF Distinct
  <2>3. \A j \in DOMAIN s : t[j].x = s[i].x => s[j].x = s[i].x
    BY <1>7, <2>1, SlotKinds
  <2> QED
    BY <1>3, <2>1, <2>2, <2>3 DEF At
<1>9. In(t) = LiveIn(s) /\ LiveIn(t) = LiveIn(s)
  BY <1>3, <1>7 DEF In, LiveIn, At
<1> QED
  BY <1>3, <1>4, <1>6, <1>8, <1>9 DEF t

\* The used slots in another array
LEMMA UsedPicked ==
    ASSUME NEW s \in Seq(Slot), NEW k, Distinct(s, k)
    PROVE  LET t == Picked(s, {i \in DOMAIN s : Used(s[i])})
           IN  /\ t \in Seq(Slot) /\ Len(t) = Len(s) - Unused(s)
               /\ Distinct(t, k)
               /\ In(t) = In(s) /\ LiveIn(t) = LiveIn(s)
<1> DEFINE P == {i \in DOMAIN s : Used(s[i])}
           t == Picked(s, P)
<1>1. Len(s) \in Nat /\ DOMAIN s = 1 .. Len(s) /\ \A i \in DOMAIN s : s[i] \in Slot
  OBVIOUS
<1>2. P \in SUBSET (1 .. Len(s))
  BY <1>1
<1>3. PICK g : t \in Seq(Slot) /\ Comes(t, s, P, g)
  <2>1. \A U \in SUBSET (1 .. Len(s)) :
           Picked(s, U) \in Seq(Slot) /\ \E g : Comes(Picked(s, U), s, U, g)
    BY PickedComes
  <2> HIDE DEF P
  <2> QED
    BY <1>2, <2>1
<1>4. Gives(s, P, NoElem)
  <2>1. \A i \in DOMAIN s : /\ ~ Used(s[i]) => s[i].x \notin Elems
                            /\ Used(s[i]) => s[i].x \in Elems
    BY <1>1, SlotKinds
  <2>2. NoElem \notin Elems
    BY BucketAssumption
  <2> QED
    BY <2>1, <2>2 DEF Gives
<1>5. Cardinality(P) = Len(s) - Unused(s)
  BY UnusedSlots
<1> HIDE DEF P, t
<1>6. Distinct(t, k) /\ In(t) = In(s) \ {NoElem} /\ LiveIn(t) = LiveIn(s) \ {NoElem}
  <2>1. \A u \in Seq(Slot), U \in SUBSET (1 .. Len(s)) : \A h, y :
           Comes(u, s, U, h) /\ Gives(s, U, y)
           => Distinct(u, k) /\ In(u) = In(s) \ {y} /\ LiveIn(u) = LiveIn(s) \ {y}
    BY SlotsKept
  <2> QED
    BY <1>2, <1>3, <1>4, <2>1
<1>7. In(t) = In(s) /\ LiveIn(t) = LiveIn(s)
  BY <1>6, BucketAssumption DEF In, LiveIn
<1>8. Len(t) = Len(s) - Unused(s)
  <2>1. \A u \in Seq(Slot), U \in SUBSET (1 .. Len(s)) : \A h :
           Comes(u, s, U, h) => Len(u) = Cardinality(U)
    BY ComesCount
  <2> QED
    BY <1>2, <1>3, <1>5, <2>1
<1> QED
  BY <1>3, <1>6, <1>7, <1>8 DEF t, P

----------------------------------------------------------------------------
(* Buckets                                                                 *)

\* An array is as large as it says, and has no more slots; what is not there
\* has none
Good(b, k) ==
    /\ b \in [size : Nat, slots : Seq(Slot), null : BOOLEAN]
    /\ b.size % InitSize = 0 /\ Len(b.slots) <= b.size
    /\ b.null => b = NoBucket
    /\ Distinct(b.slots, k)

LEMMA BucketGood ==
    ASSUME NEW n \in Nat, n % InitSize = 0, NEW s \in Seq(Slot), Len(s) <= n,
           NEW k, Distinct(s, k)
    PROVE  LET b == Bucket(n, s)
           IN  Good(b, k) /\ b.size = n /\ b.slots = s /\ ~ b.null
BY DEF Bucket, Good

LEMMA BucketNone ==
    ASSUME NEW k
    PROVE  /\ Good(NoBucket, k) /\ NoBucket.size = 0 /\ NoBucket.null /\ NoBucket.slots = << >>
           /\ In(<< >>) = {} /\ LiveIn(<< >>) = {}
           /\ Distinct(<< >>, k) /\ << >> \in Seq(Slot)
<1>1. DOMAIN << >> = {}
  OBVIOUS
<1>2. /\ In(<< >>) = {} /\ LiveIn(<< >>) = {} /\ Distinct(<< >>, k)
  BY <1>1 DEF In, LiveIn, At, Distinct
<1>3. << >> \in Seq(Slot) /\ Len(<< >>) = 0
  BY EmptySeq
<1>4. 0 % InitSize = 0 /\ 0 \in Nat
  BY BucketAssumption
<1>5. /\ NoBucket.size = 0 /\ NoBucket.null /\ NoBucket.slots = << >>
      /\ NoBucket \in [size : Nat, slots : Seq(Slot), null : BOOLEAN]
  BY <1>3, <1>4 DEF NoBucket
<1> QED
  BY <1>2, <1>3, <1>4, <1>5 DEF Good

\* A first entry
LEMMA BucketCreated ==
    ASSUME NEW x \in Elems
    PROVE  LET s == << Entry(x) >>
           IN  /\ Good(Bucket(InitSize, s), HKEY[x]) /\ Bucket(InitSize, s).size = InitSize
               /\ Bucket(InitSize, s).slots = s /\ ~ Bucket(InitSize, s).null
               /\ In(s) = {x} /\ LiveIn(s) = {x}
<1> DEFINE s == Append(<< >>, Entry(x))
<1>1. s = << Entry(x) >>
  OBVIOUS
<1>2. At(<< >>, x) = {}
  BY DEF At
<1>3. /\ s \in Seq(Slot) /\ Len(s) = 1 /\ Distinct(s, HKEY[x])
      /\ In(s) = {x} /\ LiveIn(s) = {x}
  <2>1. << >> \in Seq(Slot) /\ Distinct(<< >>, HKEY[x]) /\ In(<< >>) = {} /\ LiveIn(<< >>) = {}
        /\ Len(<< >>) = 0
    BY BucketNone, EmptySeq
  <2>2. /\ s \in Seq(Slot) /\ Len(s) = Len(<< >>) + 1 /\ Distinct(s, HKEY[x])
        /\ In(s) = In(<< >>) \cup {x} /\ LiveIn(s) = LiveIn(<< >>) \cup {x}
    BY <1>2, <2>1, SlotAdded
  <2> QED
    BY <2>1, <2>2
<1>4. InitSize \in Nat /\ InitSize % InitSize = 0 /\ 1 <= InitSize
  BY BucketAssumption
<1> HIDE DEF s
<1> QED
  BY <1>1, <1>3, <1>4, BucketGood

\* A smaller array
LEMMA BucketShrunk ==
    ASSUME NEW n \in Nat, n % InitSize = 0, NEW s \in Seq(Slot), Len(s) <= n,
           NEW k, Distinct(s, k), Unused(s) >= InitSize
    PROVE  LET b == Shrunk(Bucket(n, s))
           IN  /\ Good(b, k) /\ b.size = n - InitSize /\ b.size < n /\ ~ b.null
               /\ In(b.slots) = In(s) /\ LiveIn(b.slots) = LiveIn(s)
<1> DEFINE t == Picked(s, {i \in DOMAIN s : Used(s[i])})
           m == n - InitSize
<1>1. /\ t \in Seq(Slot) /\ Len(t) = Len(s) - Unused(s) /\ Distinct(t, k)
      /\ In(t) = In(s) /\ LiveIn(t) = LiveIn(s)
  BY UsedPicked
<1>2. Shrunk(Bucket(n, s)) = Bucket(m, t)
  BY DEF Shrunk, Bucket
<1> HIDE DEF t
<1>3. Unused(s) \in 0 .. Len(s) /\ Len(s) \in Nat
  <2>1. Unused(s) \in 0 .. Len(s)
    BY UnusedSlots
  <2> QED
    BY <2>1
<1>4. InitSize \in Nat \ {0}
  BY BucketAssumption
<1>5. n >= InitSize /\ m < n /\ m \in Nat /\ Len(t) <= m
  BY <1>1, <1>3, <1>4
<1>6. m % InitSize = 0
  BY <1>4, <1>5, Multiples
<1> HIDE DEF m
<1>7. Good(Bucket(m, t), k) /\ Bucket(m, t).size = m /\ Bucket(m, t).slots = t /\ ~ Bucket(m, t).null
  BY <1>1, <1>5, <1>6, BucketGood
<1> QED
  BY <1>1, <1>2, <1>5, <1>7 DEF m

\* The bucket after mtype_gc_do
LEMMA BucketSwept ==
    ASSUME NEW b, NEW k, Good(b, k), NEW short \in BOOLEAN
    PROVE  LET n == Swept(b, short)
           IN  /\ Good(n, k) /\ n.size <= b.size
               /\ In(n.slots) = LiveIn(b.slots) /\ LiveIn(n.slots) = LiveIn(b.slots)
               /\ n.size = b.size =>
                     \A j \in DOMAIN b.slots : Live(b.slots[j]) =>
                        j \in DOMAIN n.slots /\ n.slots[j] = b.slots[j]
<1> DEFINE m == b.slots
           s == Cleared(m)
           n == Swept(b, short)
<1>1. /\ b.size \in Nat /\ b.size % InitSize = 0 /\ m \in Seq(Slot) /\ Len(m) <= b.size
      /\ Distinct(m, k) /\ Len(m) \in Nat
  BY DEF Good
<1>2. /\ s \in Seq(Slot) /\ Len(s) = Len(m) /\ DOMAIN s = DOMAIN m
      /\ \A i \in DOMAIN m : Live(m[i]) => s[i] = m[i]
      /\ Distinct(s, k) /\ In(s) = LiveIn(m) /\ LiveIn(s) = LiveIn(m)
  BY <1>1, SlotsCleared
<1>3. Unused(s) \in 0 .. Len(s) /\ (Unused(s) >= Len(s) => In(s) = {})
  BY <1>2, UnusedSlots
<1>4. InitSize \in Nat \ {0}
  BY BucketAssumption
<1>5. CASE b.null
  <2>1. n = b /\ m = << >> /\ Good(b, k)
    BY <1>5 DEF Swept, Good, NoBucket
  <2>2. In(m) = {} /\ LiveIn(m) = {}
    BY <2>1, BucketNone
  <2>3. /\ Good(n, k) /\ n.size <= b.size
        /\ In(n.slots) = LiveIn(m) /\ LiveIn(n.slots) = LiveIn(m)
        /\ n.slots = m
    <3> HIDE DEF n
    <3>1. n.slots = m
      BY <2>1
    <3>2. Good(n, k) /\ n.size <= b.size
      BY <1>1, <2>1
    <3> HIDE DEF m
    <3>3. In(n.slots) = LiveIn(m)
      BY <2>2, <3>1
    <3>4. LiveIn(n.slots) = LiveIn(m)
      BY <2>2, <3>1
    <3> QED
      BY <3>1, <3>2, <3>3, <3>4
  <2> HIDE DEF n
  <2> QED
    BY <2>3 DEF n
<1>6. CASE ~ b.null /\ Unused(s) >= InitSize /\ Unused(s) >= b.size
  <2>1. n = NoBucket
    BY <1>3, <1>4, <1>6 DEF Swept
  <2>2. Len(m) = b.size /\ b.size > 0 /\ In(s) = {}
    BY <1>1, <1>2, <1>3, <1>4, <1>6
  <2> HIDE DEF n, s, m
  <2> QED
    BY <1>1, <1>2, <2>1, <2>2, BucketNone DEF n, m
<1>7. CASE ~ b.null /\ ~ (Unused(s) >= InitSize /\ Unused(s) >= b.size)
           /\ (Unused(s) < InitSize \/ short)
  <2>1. n = Bucket(b.size, s)
    BY <1>3, <1>4, <1>7 DEF Swept
  <2> HIDE DEF n, s, m
  <2>2. Good(n, k) /\ n.size = b.size /\ n.slots = s
    BY <1>1, <1>2, <2>1, BucketGood
  <2> QED
    BY <1>1, <1>2, <2>2 DEF n, m
<1>8. CASE ~ b.null /\ Unused(s) >= InitSize /\ ~ (Unused(s) >= b.size) /\ ~ short
  <2>1. n = Shrunk(Bucket(b.size, s))
    BY <1>3, <1>4, <1>8 DEF Swept
  <2> HIDE DEF n, s, m
  <2>2. Good(n, k) /\ n.size < b.size /\ In(n.slots) = In(s) /\ LiveIn(n.slots) = LiveIn(s) /\ n.size \in Nat
    <3>1. n.size = b.size - InitSize /\ Good(n, k) /\ n.size < b.size /\ In(n.slots) = In(s) /\ LiveIn(n.slots) = LiveIn(s)
      BY <1>1, <1>2, <1>8, <2>1, BucketShrunk
    <3> QED
      BY <3>1 DEF Good
  <2> QED
    BY <1>1, <1>2, <2>2 DEF n, m
<1> QED
  BY <1>3, <1>4, <1>5, <1>6, <1>7, <1>8

\* n is what is left of the bucket b without x
Drops(n, b, k, x) ==
    /\ Good(n, k) /\ n.size <= b.size
    /\ In(n.slots) = In(b.slots) \ {x} /\ LiveIn(n.slots) = LiveIn(b.slots) \ {x}
    /\ ~ n.null /\ n.size = b.size =>
          \A j \in DOMAIN b.slots : b.slots[j].x # x =>
             j \in DOMAIN n.slots /\ n.slots[j] = b.slots[j]

\* The bucket after mtype_del
LEMMA BucketRemoved ==
    ASSUME NEW b, NEW k, Good(b, k), NEW i \in DOMAIN b.slots, Used(b.slots[i]), NEW short
    PROVE  Drops(Removed(b, i, short), b, k, b.slots[i].x)
<1> DEFINE n == Removed(b, i, short)
           x == b.slots[i].x
<1> SUFFICES /\ Good(n, k) /\ n.size <= b.size
             /\ In(n.slots) = In(b.slots) \ {x} /\ LiveIn(n.slots) = LiveIn(b.slots) \ {x}
             /\ ~ n.null /\ n.size = b.size =>
                   \A j \in DOMAIN b.slots : b.slots[j].x # x =>
                      j \in DOMAIN n.slots /\ n.slots[j] = b.slots[j]
  BY DEF Drops
<1> DEFINE m == b.slots
           s == IF i = Len(m) THEN SubSeq(m, 1, i - 1) ELSE [m EXCEPT ![i] = Hole]
<1> HIDE DEF n, x
<1>0. x = m[i].x
  BY DEF x
<1>1. /\ b.size \in Nat /\ b.size % InitSize = 0 /\ m \in Seq(Slot) /\ Len(m) <= b.size
      /\ Distinct(m, k) /\ Len(m) \in Nat
  BY DEF Good
<1>2. /\ s \in Seq(Slot) /\ Len(s) <= Len(m) /\ Len(s) \in Nat
      /\ \A j \in DOMAIN m : m[j].x # x => j \in DOMAIN s /\ s[j] = m[j]
      /\ Distinct(s, k) /\ In(s) = In(m) \ {x} /\ LiveIn(s) = LiveIn(m) \ {x}
  <2>1. CASE i = Len(m)
    <3> HIDE DEF m
    <3>1. m # << >> /\ Used(m[Len(m)]) /\ s = SubSeq(m, 1, Len(m) - 1) /\ x = m[Len(m)].x
      BY <1>0, <1>1, <2>1 DEF m
    <3> HIDE DEF s
    <3> QED
      BY <1>1, <3>1, LastDropped
  <2>2. CASE i # Len(m)
    <3> HIDE DEF m
    <3>1. Written(s, m, i, Hole) /\ i \in DOMAIN m
      BY <2>2 DEF m, Written
    <3>2. Hole \in Slot /\ ~ Used(Hole) /\ ~ Live(Hole)
      BY SlotKinds
    <3>4. Fits(Hole, m, i, k)
      BY <3>2 DEF Fits
    <3> HIDE DEF s
    <3>3. /\ s \in Seq(Slot) /\ Len(s) = Len(m) /\ DOMAIN s = DOMAIN m
          /\ \A j \in DOMAIN m : j # i => s[j] = m[j]
          /\ Distinct(s, k)
          /\ In(s) = In(m) \ {m[i].x} /\ LiveIn(s) = LiveIn(m) \ {m[i].x}
      BY <1>1, <3>1, <3>2, <3>4, SlotSet
    <3> QED
      BY <1>0, <1>1, <3>3 DEF m
  <2> QED
    BY <2>1, <2>2
<1>3. InitSize \in Nat \ {0}
  BY BucketAssumption
<1>4. CASE s = << >>
  <2>1. n = NoBucket
    BY <1>4 DEF Removed, n
  <2> HIDE DEF s, m
  <2> QED
    BY <1>1, <1>2, <1>4, <2>1, BucketNone DEF m
<1>5. CASE s # << >> /\ Unused(s) >= InitSize /\ ~ short
  <2>1. n = Shrunk(Bucket(b.size, s))
    BY <1>5 DEF Removed, n
  <2> HIDE DEF s, m
  <2>2. n.size = b.size - InitSize /\ Good(n, k) /\ n.size < b.size /\ In(n.slots) = In(s) /\ LiveIn(n.slots) = LiveIn(s)
    BY <1>1, <1>2, <1>5, <2>1, BucketShrunk
  <2>3. n.size \in Nat
    BY <2>2 DEF Good
  <2> QED
    BY <1>1, <1>2, <2>2, <2>3 DEF m
<1>6. CASE s # << >> /\ ~ (Unused(s) >= InitSize /\ ~ short)
  <2>1. n = Bucket(b.size, s)
    BY <1>6 DEF Removed, n
  <2> HIDE DEF s, m
  <2>2. Good(n, k) /\ n.size = b.size /\ n.slots = s
    BY <1>1, <1>2, <2>1, BucketGood
  <2> QED
    BY <1>1, <1>2, <2>2 DEF m
<1> QED
  BY <1>4, <1>5, <1>6

----------------------------------------------------------------------------
(* The table                                                               *)

Table ==
    /\ config \in Creations /\ forceadd \in BOOLEAN
    /\ bucketsize \in Nat /\ bucketsize >= InitSize /\ bucketsize % InitSize = 0
    /\ bucket = [k \in Keys |-> bucket[k]]
    /\ \A k \in Keys : Good(bucket[k], k) /\ bucket[k].size <= bucketsize

\* The elements that have an entry, and those whose entry has not timed out
UsedOf(b) == {x \in Elems : x \in In(b[HKEY[x]].slots)}
LiveOf(b) == {x \in Elems : x \in LiveIn(b[HKEY[x]].slots)}
UsedElems == UsedOf(bucket)

LEMMA Hashed ==
    \A x \in Elems : HKEY[x] \in Keys
BY BucketAssumption

LEMMA LivesOf ==
    /\ LiveElems = LiveOf(bucket)
    /\ LiveElems' = LiveOf(bucket')
BY DEF LiveElems, LiveIn, LiveOf

\* What is in a bucket
LEMMA InBucket ==
    ASSUME NEW b, \A k \in Keys : Good(b[k], k)
    PROVE  /\ \A k \in Keys : /\ In(b[k].slots) = {x \in UsedOf(b) : HKEY[x] = k}
                              /\ LiveIn(b[k].slots) = {x \in LiveOf(b) : HKEY[x] = k}
           /\ LiveOf(b) \subseteq UsedOf(b) /\ UsedOf(b) \subseteq Elems
<1>1. \A l \in Keys : b[l].slots \in Seq(Slot) /\ Distinct(b[l].slots, l)
  BY DEF Good
<1>2. \A l \in Keys : /\ \A x \in In(b[l].slots) : HKEY[x] = l
                      /\ LiveIn(b[l].slots) \subseteq In(b[l].slots)
                      /\ In(b[l].slots) \subseteq Elems
  BY <1>1, InSlots
<1>3. \A k \in Keys : In(b[k].slots) = {x \in UsedOf(b) : HKEY[x] = k}
  BY <1>2 DEF UsedOf
<1>4. \A k \in Keys : LiveIn(b[k].slots) = {x \in LiveOf(b) : HKEY[x] = k}
  BY <1>2 DEF LiveOf
<1>5. LiveOf(b) \subseteq UsedOf(b) /\ UsedOf(b) \subseteq Elems
  BY <1>2, Hashed DEF UsedOf, LiveOf
<1> QED
  BY <1>3, <1>4, <1>5

LEMMA InTable ==
    ASSUME Table
    PROVE  /\ \A k \in Keys : /\ In(bucket[k].slots) = {x \in UsedElems : HKEY[x] = k}
                              /\ LiveIn(bucket[k].slots) = {x \in LiveElems : HKEY[x] = k}
           /\ LiveElems \subseteq UsedElems /\ UsedElems \subseteq Elems
BY InBucket, LivesOf DEF Table, UsedElems

\* A bucket is written
LEMMA BucketWritten ==
    ASSUME Table, NEW k \in Keys, NEW n, Good(n, k), n.size <= bucketsize,
           bucket' = [bucket EXCEPT ![k] = n], UNCHANGED config
    PROVE  /\ Table' /\ bucket'[k] = n
           /\ \A l \in Keys : l # k => bucket'[l] = bucket[l]
           /\ UsedElems' = {x \in UsedElems : HKEY[x] # k} \cup In(n.slots)
           /\ LiveElems' = {x \in LiveElems : HKEY[x] # k} \cup LiveIn(n.slots)
<1>1. /\ bucket'[k] = n /\ \A l \in Keys : l # k => bucket'[l] = bucket[l]
      /\ bucket' = [l \in Keys |-> bucket'[l]]
  BY DEF Table
<1>2. forceadd' = forceadd /\ bucketsize' = bucketsize /\ config' = config
  BY DEF config
<1>3. Table'
  BY <1>1, <1>2 DEF Table
<1>4. /\ In(bucket'[k].slots) = {x \in UsedOf(bucket') : HKEY[x] = k}
      /\ LiveIn(bucket'[k].slots) = {x \in LiveOf(bucket') : HKEY[x] = k}
      /\ LiveOf(bucket') \subseteq Elems /\ UsedOf(bucket') \subseteq Elems
  <2>1. \A l \in Keys : Good(bucket'[l], l)
    BY <1>3 DEF Table
  <2> QED
    BY <2>1, InBucket
<1>5. LiveOf(bucket) \subseteq Elems /\ UsedOf(bucket) \subseteq Elems
  BY DEF LiveOf, UsedOf
<1>6. \A x \in Elems : HKEY[x] # k => (x \in UsedOf(bucket') <=> x \in UsedOf(bucket))
  BY <1>1, Hashed DEF UsedOf
<1>7. \A x \in Elems : HKEY[x] # k => (x \in LiveOf(bucket') <=> x \in LiveOf(bucket))
  BY <1>1, Hashed DEF LiveOf
<1>8. UsedOf(bucket') = {x \in UsedOf(bucket) : HKEY[x] # k} \cup In(n.slots)
  BY <1>1, <1>4, <1>5, <1>6
<1>9. LiveOf(bucket') = {x \in LiveOf(bucket) : HKEY[x] # k} \cup LiveIn(n.slots)
  BY <1>1, <1>4, <1>5, <1>7
<1> QED
  BY <1>1, <1>3, <1>8, <1>9, LivesOf DEF UsedElems

WrittenIn(k, i, e) == bucket' = [bucket EXCEPT ![k].slots[i] = e]
FitsIn(e, k, i) ==
    Used(e) => HKEY[e.x] = k /\ (e.x \in UsedElems => bucket[k].slots[i].x = e.x)

\* A slot of the table is written
LEMMA SlotWritten ==
    ASSUME Table, NEW k \in Keys, NEW i \in DOMAIN bucket[k].slots, NEW e \in Slot,
           FitsIn(e, k, i), WrittenIn(k, i, e), UNCHANGED config
    PROVE  LET s == bucket[k].slots IN
           /\ Table'
           /\ \A l \in Keys : l # k => bucket'[l] = bucket[l]
           /\ DOMAIN bucket'[k].slots = DOMAIN s
           /\ \A j \in DOMAIN s : j # i => bucket'[k].slots[j] = s[j]
           /\ Used(e) => UsedElems' = (UsedElems \ {s[i].x}) \cup {e.x}
           /\ Live(e) => LiveElems' = (LiveElems \ {s[i].x}) \cup {e.x}
           /\ ~ Live(e) => LiveElems' = LiveElems \ {s[i].x}
<1> DEFINE b == bucket[k]
           s == b.slots
           t == [s EXCEPT ![i] = e]
           n == [b EXCEPT !.slots = t]
<1>1. Good(b, k) /\ b.size <= bucketsize
  BY DEF Table
<1>2. s \in Seq(Slot) /\ Distinct(s, k) /\ i \in DOMAIN s
  BY <1>1 DEF Good
<1>3. /\ In(s) = {x \in UsedElems : HKEY[x] = k}
      /\ LiveIn(s) = {x \in LiveElems : HKEY[x] = k}
      /\ LiveElems \subseteq UsedElems /\ UsedElems \subseteq Elems
  BY InTable
<1>4. Fits(e, s, i, k)
  BY <1>3 DEF Fits, FitsIn
<1>5. bucket' = [bucket EXCEPT ![k] = n]
  BY DEF WrittenIn
<1>6. n.slots = t /\ n.size = b.size /\ n.null = b.null
  BY <1>1 DEF Good
<1>7. ~ b.null
  <2>1. b.null => s = << >>
    BY <1>1 DEF Good, NoBucket
  <2> QED
    BY <1>2, <2>1
<1> HIDE DEF s
<1>8. /\ t \in Seq(Slot) /\ Len(t) = Len(s) /\ DOMAIN t = DOMAIN s
      /\ t[i] = e /\ \A j \in DOMAIN s : j # i => t[j] = s[j]
      /\ Distinct(t, k)
      /\ Used(e) => In(t) = (In(s) \ {s[i].x}) \cup {e.x}
      /\ Live(e) => LiveIn(t) = (LiveIn(s) \ {s[i].x}) \cup {e.x}
      /\ ~ Live(e) => LiveIn(t) = LiveIn(s) \ {s[i].x}
  <2>1. Written(t, s, i, e)
    BY DEF Written
  <2> HIDE DEF t
  <2> QED
    BY <1>2, <1>4, <2>1, SlotSet
<1> HIDE DEF t
<1>9. Good(n, k)
  <2>1. n \in [size : Nat, slots : Seq(Slot), null : BOOLEAN]
    BY <1>1, <1>8 DEF Good
  <2>2. b.size % InitSize = 0 /\ Len(s) <= b.size
    BY <1>1 DEF Good, s
  <2> HIDE DEF n, b
  <2> QED
    BY <1>6, <1>7, <1>8, <2>1, <2>2 DEF Good
<1> HIDE DEF n
<1>10. /\ Table' /\ bucket'[k] = n
       /\ \A l \in Keys : l # k => bucket'[l] = bucket[l]
       /\ UsedElems' = {x \in UsedElems : HKEY[x] # k} \cup In(t)
       /\ LiveElems' = {x \in LiveElems : HKEY[x] # k} \cup LiveIn(t)
  BY <1>1, <1>5, <1>6, <1>9, BucketWritten
<1>11. s[i].x \in Elems => s[i].x \in In(s)
  BY <1>2 DEF In, At
<1>12. Used(e) => UsedElems' = (UsedElems \ {s[i].x}) \cup {e.x}
  BY <1>3, <1>8, <1>10, <1>11
<1>13. /\ Live(e) => LiveElems' = (LiveElems \ {s[i].x}) \cup {e.x}
       /\ ~ Live(e) => LiveElems' = LiveElems \ {s[i].x}
  BY <1>3, <1>8, <1>10, <1>11
<1> QED
  BY <1>6, <1>8, <1>10, <1>12, <1>13 DEF s

\* The entry of an element
LEMMA EntryOf ==
    ASSUME Table, NEW x \in Elems
    PROVE  LET s == bucket[HKEY[x]].slots IN
           /\ HKEY[x] \in Keys /\ s \in Seq(Slot) /\ Distinct(s, HKEY[x])
           /\ x \in UsedElems <=> At(s, x) # {}
           /\ At(s, x) # {} => /\ First(At(s, x)) \in DOMAIN s
                               /\ s[First(At(s, x))].x = x /\ Used(s[First(At(s, x))])
                               /\ At(s, x) = {First(At(s, x))}
           /\ x \in LiveElems <=> At(s, x) # {} /\ s[First(At(s, x))] = Entry(x)
           /\ At(s, x) # {} => (x \in LiveElems <=> Live(s[First(At(s, x))]))
           /\ \A i \in DOMAIN s : s[i] = Entry(x) => x \in LiveElems
<1> DEFINE s == bucket[HKEY[x]].slots
           A == At(s, x)
           i == First(A)
<1>1. HKEY[x] \in Keys /\ s \in Seq(Slot) /\ Distinct(s, HKEY[x])
  BY Hashed DEF Table, Good
<1>2. x \in UsedElems <=> A # {}
  BY DEF UsedElems, UsedOf, In
<1>3. \A j \in DOMAIN s : s[j] \in Slot /\ j \in Nat
  BY <1>1
<1>4. ASSUME A # {} PROVE i \in DOMAIN s /\ s[i].x = x /\ Used(s[i]) /\ A = {i}
  <2>1. A \subseteq Nat /\ A \subseteq DOMAIN s /\ \A j \in A : s[j].x = x
    BY <1>3 DEF At
  <2> HIDE DEF A
  <2>2. i \in A
    BY <1>4, <2>1, FirstOf
  <2> HIDE DEF i
  <2>3. i \in DOMAIN s /\ s[i].x = x
    BY <2>1, <2>2
  <2>4. Used(s[i])
    BY <1>3, <2>3, SlotKinds
  <2>5. At(s, s[i].x) = {i}
    BY <1>1, <2>3, <2>4 DEF Distinct
  <2> QED
    BY <2>3, <2>4, <2>5 DEF A
<1>5. \A j \in DOMAIN s : s[j] = Entry(x) => j \in A /\ x \in LiveElems
  BY SlotKinds DEF LiveElems, At
<1>6. x \in LiveElems => \E j \in DOMAIN s : s[j] = Entry(x)
  BY DEF LiveElems
<1> HIDE DEF i, A, s
<1>7. x \in LiveElems <=> A # {} /\ s[i] = Entry(x)
  BY <1>4, <1>5, <1>6
<1>8. A # {} => (x \in LiveElems <=> Live(s[i]))
  BY <1>3, <1>4, <1>7, SlotKinds
<1> QED
  BY <1>1, <1>2, <1>4, <1>5, <1>7, <1>8 DEF i, A, s

----------------------------------------------------------------------------
(* What the actions do to the table                                        *)

\* Arrays that stay keep the entries they have where they are; arrays that are
\* replaced are left with what they had
Follows(gone, left, parted) ==
    \A x \in Elems :
       LET s == bucket[HKEY[x]].slots
           t == bucket'[HKEY[x]].slots
           l == left[HKEY[x]]
       IN  /\ HKEY[x] \notin gone /\ x \in LiveElems' /\ x \notin parted =>
                 \A j \in DOMAIN s : s[j] = Entry(x) => j \in DOMAIN t /\ t[j] = Entry(x)
           /\ HKEY[x] \in gone =>
                 /\ \A j \in DOMAIN l : Live(l[j]) /\ l[j].x = x => x \in LiveElems
                 /\ x \notin parted =>
                       \A j \in DOMAIN s : s[j] = Entry(x) => j \in DOMAIN l /\ l[j] = Entry(x)

Changes(parted) ==
    \E gone, left : Beside(gone, left, parted) /\ Follows(gone, left, parted)

\* The element is stored in place of those in lost
Stores(p, lost, parted) ==
    /\ UsedElems' = (UsedElems \ lost) \cup {adding[p].x}
    /\ LiveElems' = (LiveElems \ lost) \cup {adding[p].x}
    /\ Changes(parted)
    /\ AddEnd(p, "ok")

\* Why an add may be refused
Refusable(p, ret) ==
    \/ ret = "exist" /\ adding[p].x \in LiveElems
    \/ ret = "full" /\ adding[p].full /\ adding[p].x \notin LiveElems
    \/ ret \in {"again", "nomem"} /\ adding[p].x \notin LiveElems

\* What becomes of an add
Outcome(p) ==
    LET x == adding[p].x IN
    \/ \E ret \in {"exist", "full", "again", "nomem"} : Refusable(p, ret) /\ AddRefused(p, ret)
    \/ x \notin UsedElems /\ Stores(p, {}, {x}) /\ Counted1(p, 1)
    \/ x \in UsedElems /\ Stores(p, {}, {x}) /\ UNCHANGED elements
    \/ /\ x \notin UsedElems
       /\ \E y \in UsedElems \ LiveElems :
             HKEY[y] = HKEY[x] /\ Stores(p, {y}, {x}) /\ Counted1(p, 0)
    \/ /\ x \notin UsedElems /\ Forced(p)
       /\ \E y \in LiveElems : HKEY[y] = HKEY[x] /\ Stores(p, {y}, {x, y}) /\ UNCHANGED elements
    \/ x \notin UsedElems /\ Forced(p) /\ AddRefused(p, "ok")

\* Nothing follows when no array is replaced and no other slot changes
LEMMA InPlaceFollows ==
    ASSUME Table, NEW k \in Keys, NEW parted,
           \A l \in Keys : l # k => bucket'[l] = bucket[l],
           \A j \in DOMAIN bucket[k].slots :
              \/ \A x \in Elems \ parted : bucket[k].slots[j] # Entry(x)
              \/ j \in DOMAIN bucket'[k].slots /\ bucket'[k].slots[j] = bucket[k].slots[j]
    PROVE  Follows({}, << >>, parted)
<1> SUFFICES ASSUME NEW x \in Elems, x \notin parted,
                    NEW j \in DOMAIN bucket[HKEY[x]].slots, bucket[HKEY[x]].slots[j] = Entry(x)
             PROVE  j \in DOMAIN bucket'[HKEY[x]].slots /\ bucket'[HKEY[x]].slots[j] = Entry(x)
  BY DEF Follows
<1>1. CASE HKEY[x] = k
  BY <1>1
<1>2. CASE HKEY[x] # k
  BY <1>2, Hashed
<1> QED
  BY <1>1, <1>2

LEMMA RefusedTable ==
    ASSUME Table, NEW p, NEW ret, AddRefused(p, ret)
    PROVE  Table'
BY DEF AddRefused, AddEnd, Table, config

LEMMA InPlaceChanges ==
    ASSUME NEW parted, InPlace(parted), Follows({}, << >>, parted)
    PROVE  Changes(parted)
BY DEF InPlace, Changes

\* There is no bucket
LEMMA AddNewEffect ==
    ASSUME Table, NEW p, adding[p].x \in Elems, AddNew(p)
    PROVE  Table' /\ Outcome(p)
<1> DEFINE x == adding[p].x
           k == HKEY[x]
<1>1. k \in Keys /\ Good(bucket[k], k) /\ bucket[k].null
  BY Hashed DEF Table, AddNew
<1>2. bucket[k].slots = << >>
  BY <1>1 DEF Good, NoBucket
<1>3. x \notin UsedElems /\ x \notin LiveElems
  BY <1>2, BucketNone DEF UsedElems, UsedOf, LiveElems
<1>4. CASE AddRefused(p, "full") /\ adding[p].full
  BY <1>3, <1>4, RefusedTable DEF Outcome, Refusable
<1>5. CASE AddRefused(p, "nomem")
  BY <1>3, <1>5, RefusedTable DEF Outcome, Refusable
<1>6. CASE /\ bucket' = [bucket EXCEPT ![k] = Bucket(InitSize, <<Entry(x)>>)]
           /\ Counted1(p, 1) /\ InPlace({x}) /\ AddEnd(p, "ok")
  <2> DEFINE n == Bucket(InitSize, <<Entry(x)>>)
  <2>1. /\ Good(n, k) /\ n.size = InitSize /\ In(n.slots) = {x} /\ LiveIn(n.slots) = {x}
    BY BucketCreated
  <2>2. UNCHANGED config
    BY <1>6 DEF AddEnd
  <2>3. n.size <= bucketsize
    BY <2>1 DEF Table
  <2> HIDE DEF n
  <2>4. /\ Table'
        /\ \A l \in Keys : l # k => bucket'[l] = bucket[l]
        /\ UsedElems' = {y \in UsedElems : HKEY[y] # k} \cup In(n.slots)
        /\ LiveElems' = {y \in LiveElems : HKEY[y] # k} \cup LiveIn(n.slots)
    <3>1. bucket' = [bucket EXCEPT ![k] = n]
      BY <1>6 DEF n
    <3> HIDE DEF k
    <3> QED
      BY <1>1, <2>1, <2>2, <2>3, <3>1, BucketWritten
  <2>5. {y \in UsedElems : HKEY[y] = k} = {} /\ {y \in LiveElems : HKEY[y] = k} = {}
    BY <1>1, <1>2, InTable, BucketNone
  <2>6. UsedElems' = (UsedElems \ {}) \cup {x} /\ LiveElems' = (LiveElems \ {}) \cup {x}
    BY <2>1, <2>4, <2>5
  <2>7. Follows({}, << >>, {x})
    BY <1>1, <1>2, <2>4, InPlaceFollows
  <2> QED
    BY <1>3, <1>6, <2>4, <2>6, <2>7, InPlaceChanges DEF Outcome, Stores
<1> QED
  BY <1>4, <1>5, <1>6 DEF AddNew

\* An entry is written over another or a hole
LEMMA EntryWritten ==
    ASSUME Table, NEW x \in Elems, NEW i \in DOMAIN bucket[HKEY[x]].slots,
           WrittenIn(HKEY[x], i, Entry(x)), UNCHANGED config,
           x \in UsedElems => bucket[HKEY[x]].slots[i].x = x,
           NEW parted, x \in parted,
           Live(bucket[HKEY[x]].slots[i]) => bucket[HKEY[x]].slots[i].x \in parted
    PROVE  LET y == bucket[HKEY[x]].slots[i].x IN
           /\ Table'
           /\ UsedElems' = (UsedElems \ {y}) \cup {x}
           /\ LiveElems' = (LiveElems \ {y}) \cup {x}
           /\ Follows({}, << >>, parted)
<1> DEFINE k == HKEY[x]
           s == bucket[k].slots
           e == Entry(x)
<1>1. k \in Keys /\ i \in DOMAIN s /\ s[i] \in Slot
  <2>1. k \in Keys /\ s \in Seq(Slot)
    BY EntryOf
  <2> QED
    BY <2>1
<1>2. e \in Slot /\ Used(e) /\ Live(e) /\ e.x = x
  BY SlotKinds
<1>3. FitsIn(e, k, i)
  BY <1>2 DEF FitsIn
<1>4. WrittenIn(k, i, e)
  OBVIOUS
<1>5. /\ Table'
      /\ \A l \in Keys : l # k => bucket'[l] = bucket[l]
      /\ DOMAIN bucket'[k].slots = DOMAIN s
      /\ \A j \in DOMAIN s : j # i => bucket'[k].slots[j] = s[j]
      /\ UsedElems' = (UsedElems \ {s[i].x}) \cup {x}
      /\ LiveElems' = (LiveElems \ {s[i].x}) \cup {x}
  <2> HIDE DEF e, k
  <2> QED
    BY <1>1, <1>2, <1>3, <1>4, SlotWritten
<1>6. \A y \in Elems \ parted : s[i] # Entry(y)
  BY SlotKinds
<1>7. \A j \in DOMAIN s :
         \/ \A y \in Elems \ parted : s[j] # Entry(y)
         \/ j \in DOMAIN bucket'[k].slots /\ bucket'[k].slots[j] = s[j]
  BY <1>5, <1>6
<1>8. Follows({}, << >>, parted)
  <2> HIDE DEF k
  <2> QED
    BY <1>1, <1>5, <1>7, InPlaceFollows
<1> QED
  BY <1>5, <1>8

\* The element is there
LEMMA AddFoundEffect ==
    ASSUME Table, NEW p, adding[p].x \in Elems, AddFound(p)
    PROVE  Table' /\ Outcome(p)
<1> DEFINE x == adding[p].x
           k == HKEY[x]
           s == bucket[k].slots
           i == First(Found(p))
<1>1. /\ k \in Keys /\ s \in Seq(Slot) /\ Distinct(s, k) /\ Found(p) = At(s, x) /\ At(s, x) # {}
      /\ i \in DOMAIN s /\ s[i].x = x /\ x \in UsedElems
      /\ x \in LiveElems <=> Live(s[i])
  BY EntryOf DEF AddFound, Found
<1>2. CASE Live(s[i]) /\ AddRefused(p, "exist")
  BY <1>1, <1>2, RefusedTable DEF Outcome, Refusable
<1>3. CASE /\ bucket' = [bucket EXCEPT ![k].slots[i] = Entry(x)]
           /\ InPlace({x}) /\ UNCHANGED elements /\ AddEnd(p, "ok")
  <2>1. WrittenIn(k, i, Entry(x))
    BY <1>3 DEF WrittenIn
  <2>2. UNCHANGED config
    BY <1>3 DEF AddEnd
  <2>3. /\ Table'
        /\ UsedElems' = (UsedElems \ {s[i].x}) \cup {x}
        /\ LiveElems' = (LiveElems \ {s[i].x}) \cup {x}
        /\ Follows({}, << >>, {x})
    <3> HIDE DEF i
    <3> QED
      BY <1>1, <2>1, <2>2, EntryWritten
  <2>6. UsedElems' = (UsedElems \ {}) \cup {x} /\ LiveElems' = (LiveElems \ {}) \cup {x}
    BY <1>1, <2>3
  <2> QED
    BY <1>1, <1>3, <2>3, <2>6, InPlaceChanges DEF Outcome, Stores
<1> QED
  BY <1>2, <1>3 DEF AddFound

\* Where an add finds nothing
LEMMA AbsentTable ==
    ASSUME Table, NEW p, adding[p].x \in Elems, Absent(p)
    PROVE  LET x == adding[p].x
               s == bucket[HKEY[x]].slots
           IN  /\ HKEY[x] \in Keys /\ Good(bucket[HKEY[x]], HKEY[x]) /\ ~ bucket[HKEY[x]].null
               /\ s \in Seq(Slot) /\ Distinct(s, HKEY[x])
               /\ x \notin UsedElems /\ x \notin LiveElems /\ At(s, x) = {}
               /\ \A i \in DOMAIN s : /\ i \in Nat /\ s[i] \in Slot
                                      /\ Used(s[i]) => s[i].x \in UsedElems /\ HKEY[s[i].x] = HKEY[x]
                                      /\ Live(s[i]) => s[i].x \in LiveElems /\ Used(s[i])
                                      /\ Used(s[i]) /\ ~ Live(s[i]) => s[i].x \notin LiveElems
                                      /\ ~ Used(s[i]) => s[i].x \notin Elems
                                      /\ s[i].x # x
<1> DEFINE x == adding[p].x
           k == HKEY[x]
           s == bucket[k].slots
<1>1. k \in Keys /\ Good(bucket[k], k) /\ s \in Seq(Slot) /\ Distinct(s, k)
  BY Hashed DEF Table, Good
<1>2. ~ bucket[k].null /\ At(s, x) = {}
  BY DEF Absent, Found
<1>3. x \notin UsedElems /\ x \notin LiveElems
  BY <1>2, EntryOf
<1>4. In(s) = {y \in UsedElems : HKEY[y] = k} /\ LiveIn(s) = {y \in LiveElems : HKEY[y] = k}
  BY <1>1, InTable
<1>5. ASSUME NEW i \in DOMAIN s
      PROVE  /\ i \in Nat /\ s[i] \in Slot
             /\ Used(s[i]) => s[i].x \in UsedElems /\ HKEY[s[i].x] = k
             /\ Live(s[i]) => s[i].x \in LiveElems /\ Used(s[i])
             /\ Used(s[i]) /\ ~ Live(s[i]) => s[i].x \notin LiveElems
             /\ ~ Used(s[i]) => s[i].x \notin Elems
             /\ s[i].x # x
  <2>1. i \in Nat /\ s[i] \in Slot
    BY <1>1
  <2>7. (Used(s[i]) => s[i].x \in In(s)) /\ (Live(s[i]) => s[i].x \in LiveIn(s))
    <3> HIDE DEF s, k
    <3> QED
      BY <1>1, InSlots
  <2>2. Used(s[i]) => s[i].x \in UsedElems /\ HKEY[s[i].x] = k
    <3> HIDE DEF s, k
    <3> QED
      BY <1>4, <2>7
  <2>3. Live(s[i]) => s[i].x \in LiveElems /\ Used(s[i])
    <3> HIDE DEF s, k
    <3> QED
      BY <1>4, <2>1, <2>7, SlotKinds
  <2>4. ASSUME Used(s[i]), ~ Live(s[i]) PROVE s[i].x \notin LiveElems
    <3> DEFINE y == s[i].x
    <3>1. y \in Elems /\ HKEY[y] = k
      BY <2>1, <2>2, <2>4, SlotKinds
    <3>2. At(s, y) = {i}
      BY <1>1, <2>4 DEF Distinct
    <3>3. At(s, y) # {} /\ First(At(s, y)) = i
      <4>1. First(At(s, y)) \in {i}
        BY <2>1, <3>2, FirstOf
      <4> QED
        BY <3>2, <4>1
    <3>4. y \in LiveElems <=> Live(s[First(At(s, y))])
      BY <3>1, <3>3, EntryOf
    <3> QED
      BY <2>4, <3>3, <3>4
  <2>5. ~ Used(s[i]) => s[i].x \notin Elems
    BY <2>1, SlotKinds
  <2>6. s[i].x # x
    BY <1>2 DEF At
  <2> QED
    BY <2>1, <2>2, <2>3, <2>4, <2>5, <2>6
<1> QED
  BY <1>1, <1>2, <1>3, <1>5

\* A slot is taken that nothing live is in
LEMMA AddReuseEffect ==
    ASSUME Table, NEW p, adding[p].x \in Elems, AddReuse(p)
    PROVE  Table' /\ Outcome(p)
<1> DEFINE x == adding[p].x
           k == HKEY[x]
           s == bucket[k].slots
           i == First(Reusable(s))
           y == s[i].x
<1>1. /\ Absent(p) /\ Reusable(s) # {}
      /\ bucket' = [bucket EXCEPT ![k].slots[i] = Entry(x)]
      /\ Counted1(p, Gain(s[i])) /\ InPlace({x}) /\ AddEnd(p, "ok")
  BY DEF AddReuse
<1>2. /\ s \in Seq(Slot) /\ x \notin UsedElems /\ x \notin LiveElems
      /\ \A j \in DOMAIN s : /\ j \in Nat
                             /\ Used(s[j]) => s[j].x \in UsedElems /\ HKEY[s[j].x] = k
                             /\ Used(s[j]) /\ ~ Live(s[j]) => s[j].x \notin LiveElems
                             /\ ~ Used(s[j]) => s[j].x \notin Elems
  BY <1>1, AbsentTable
<1>3. i \in DOMAIN s /\ ~ Live(s[i])
  <2>1. \A j \in Reusable(s) : j \in DOMAIN s /\ j \in Nat /\ ~ Live(s[j])
    BY <1>2 DEF Reusable
  <2>2. First(Reusable(s)) \in Reusable(s)
    BY <1>1, <2>1, FirstOf
  <2> QED
    BY <2>1, <2>2
<1>4. UNCHANGED config
  BY <1>1 DEF AddEnd
<1>5. WrittenIn(k, i, Entry(x))
  BY <1>1 DEF WrittenIn
<1> HIDE DEF i
<1>6. /\ Table'
      /\ UsedElems' = (UsedElems \ {y}) \cup {x}
      /\ LiveElems' = (LiveElems \ {y}) \cup {x}
      /\ Follows({}, << >>, {x})
  BY <1>2, <1>3, <1>4, <1>5, EntryWritten
<1>7. Changes({x})
  BY <1>1, <1>6, InPlaceChanges
<1>8. LiveElems \subseteq UsedElems /\ UsedElems \subseteq Elems
  BY InTable
<1> HIDE DEF y
<1>9. CASE Used(s[i])
  <2>1. y \in UsedElems \ LiveElems /\ HKEY[y] = k
    BY <1>2, <1>3, <1>9 DEF y
  <2>2. Counted1(p, 0)
    BY <1>1, <1>9 DEF Gain
  <2>3. Stores(p, {y}, {x})
    BY <1>1, <1>6, <1>7 DEF Stores
  <2> HIDE DEF k, s
  <2> QED
    BY <1>2, <1>6, <2>1, <2>2, <2>3 DEF Outcome, k
<1>10. CASE ~ Used(s[i])
  <2>1. y \notin Elems
    BY <1>2, <1>3, <1>10 DEF y
  <2>2. Counted1(p, 1)
    BY <1>1, <1>10 DEF Gain
  <2>3. UsedElems' = (UsedElems \ {}) \cup {x} /\ LiveElems' = (LiveElems \ {}) \cup {x}
    BY <1>6, <1>8, <2>1
  <2>4. Stores(p, {}, {x})
    BY <1>1, <1>7, <2>3 DEF Stores
  <2> QED
    BY <1>2, <1>6, <2>2, <2>4 DEF Outcome
<1> QED
  BY <1>9, <1>10

\* By force
LEMMA AddForcedEffect ==
    ASSUME Table, NEW p, adding[p].x \in Elems, AddForced(p)
    PROVE  Table' /\ Outcome(p)
<1> DEFINE x == adding[p].x
           k == HKEY[x]
           s == bucket[k].slots
           y == s[1].x
<1>1. Absent(p) /\ Reusable(s) = {} /\ Forced(p) /\ UNCHANGED elements /\ AddEnd(p, "ok")
  BY DEF AddForced, NoSlot
<1>2. /\ s \in Seq(Slot) /\ x \notin UsedElems /\ x \notin LiveElems
      /\ \A j \in DOMAIN s : /\ Used(s[j]) => s[j].x \in UsedElems /\ HKEY[s[j].x] = k
                             /\ Live(s[j]) => s[j].x \in LiveElems /\ Used(s[j])
  BY <1>1, AbsentTable
<1>3. CASE s = << >> /\ UNCHANGED <<bucket, testing>>
  <2>1. AddRefused(p, "ok")
    BY <1>1, <1>3 DEF AddRefused
  <2> QED
    BY <1>1, <1>2, <2>1, RefusedTable DEF Outcome
<1>4. CASE s # << >> /\ bucket' = [bucket EXCEPT ![k].slots[1] = Entry(x)] /\ InPlace({x, y})
  <2>1. 1 \in DOMAIN s
    <3>1. Len(s) \in Nat \ {0}
      BY <1>2, <1>4, EmptySeq
    <3> QED
      BY <1>2, <3>1, SMTT(40)
  <2>2. Live(s[1])
    BY <1>1, <2>1 DEF Reusable
  <2>3. y \in LiveElems /\ HKEY[y] = k
    BY <1>2, <2>1, <2>2
  <2>4. UNCHANGED config
    BY <1>1 DEF AddEnd
  <2>5. WrittenIn(k, 1, Entry(x))
    BY <1>4 DEF WrittenIn
  <2>6. /\ Table'
        /\ UsedElems' = (UsedElems \ {y}) \cup {x}
        /\ LiveElems' = (LiveElems \ {y}) \cup {x}
        /\ Follows({}, << >>, {x, y})
    BY <1>2, <2>1, <2>4, <2>5, EntryWritten
  <2>7. Changes({x, y})
    BY <1>4, <2>6, InPlaceChanges
  <2>8. Stores(p, {y}, {x, y})
    BY <1>1, <2>6, <2>7 DEF Stores
  <2> HIDE DEF k, s, y
  <2> QED
    BY <1>1, <1>2, <2>3, <2>6, <2>8 DEF Outcome, k
<1> QED
  BY <1>3, <1>4 DEF AddForced

\* At the end
LEMMA AddLastEffect ==
    ASSUME Table, NEW p, adding[p].x \in Elems, AddLast(p)
    PROVE  Table' /\ Outcome(p)
<1> DEFINE x == adding[p].x
           k == HKEY[x]
           b == bucket[k]
           s == b.slots
           last == Append(s, Entry(x))
<1>1. Absent(p)
  BY DEF AddLast, NoSlot
<1>2. /\ k \in Keys /\ Good(b, k) /\ ~ b.null /\ s \in Seq(Slot) /\ Distinct(s, k)
      /\ x \notin UsedElems /\ x \notin LiveElems /\ At(s, x) = {}
  BY <1>1, AbsentTable
<1>3. /\ b.size \in Nat /\ b.size % InitSize = 0 /\ b.size <= bucketsize /\ Len(s) <= b.size
      /\ Len(s) \in Nat
  <2>1. b.size <= bucketsize
    BY <1>2 DEF Table
  <2>2. b.size \in Nat /\ b.size % InitSize = 0 /\ Len(s) <= b.size
    <3> HIDE DEF b, k
    <3> QED
      BY <1>2 DEF Good
  <2>3. Len(s) \in Nat
    <3> HIDE DEF s
    <3> QED
      BY <1>2
  <2> QED
    BY <2>1, <2>2, <2>3
<1>4. /\ last \in Seq(Slot) /\ Len(last) = Len(s) + 1
      /\ \A j \in DOMAIN s : j \in DOMAIN last /\ last[j] = s[j]
      /\ Distinct(last, k)
      /\ In(last) = In(s) \cup {x} /\ LiveIn(last) = LiveIn(s) \cup {x}
  <2> HIDE DEF s
  <2> QED
    BY <1>2, SlotAdded
<1>5. In(s) = {y \in UsedElems : HKEY[y] = k} /\ LiveIn(s) = {y \in LiveElems : HKEY[y] = k}
  BY <1>2, InTable
<1> HIDE DEF last
<1>6. ASSUME adding[p].full, AddRefused(p, "full") PROVE Table' /\ Outcome(p)
  BY <1>2, <1>6, RefusedTable DEF Outcome, Refusable
<1>7. ASSUME NEW ret \in {"again", "nomem"}, AddRefused(p, ret) PROVE Table' /\ Outcome(p)
  <2>1. Refusable(p, ret)
    BY <1>2 DEF Refusable
  <2> QED
    BY <1>7, <2>1, RefusedTable DEF Outcome
<1>8. ASSUME NEW n, n.slots = last, Good(n, k), n.size <= bucketsize,
             bucket' = [bucket EXCEPT ![k] = n], Counted1(p, 1), AddEnd(p, "ok"),
             \/ InPlace({x})
             \/ Replaced(k, s, {x})
      PROVE  Table' /\ Outcome(p)
  <2>1. UNCHANGED config
    BY <1>8 DEF AddEnd
  <2>2. /\ Table' /\ bucket'[k] = n
        /\ \A l \in Keys : l # k => bucket'[l] = bucket[l]
        /\ UsedElems' = {y \in UsedElems : HKEY[y] # k} \cup In(n.slots)
        /\ LiveElems' = {y \in LiveElems : HKEY[y] # k} \cup LiveIn(n.slots)
    <3> HIDE DEF k
    <3> QED
      BY <1>2, <1>8, <2>1, BucketWritten
  <2>3. UsedElems' = (UsedElems \ {}) \cup {x} /\ LiveElems' = (LiveElems \ {}) \cup {x}
    BY <1>4, <1>5, <1>8, <2>2
  <2>4. CASE InPlace({x})
    <3>1. \A j \in DOMAIN bucket[k].slots :
             j \in DOMAIN bucket'[k].slots /\ bucket'[k].slots[j] = bucket[k].slots[j]
      BY <1>4, <1>8, <2>2
    <3>2. Follows({}, << >>, {x})
      BY <1>2, <2>2, <3>1, InPlaceFollows
    <3>3. Stores(p, {}, {x})
      BY <1>8, <2>3, <2>4, <3>2, InPlaceChanges DEF Stores
    <3> QED
      BY <1>2, <1>8, <2>2, <3>3 DEF Outcome
  <2>5. CASE Replaced(k, s, {x})
    <3> DEFINE left == [i \in {k} |-> s]
    <3>1. left[k] = s
      OBVIOUS
    <3>2. Beside({k}, left, {x})
      BY <2>5 DEF Replaced
    <3> HIDE DEF left
    <3>3. Follows({k}, left, {x})
      <4> SUFFICES ASSUME NEW y \in Elems
                   PROVE  LET m == bucket[HKEY[y]].slots
                              t == bucket'[HKEY[y]].slots
                              l == left[HKEY[y]]
                          IN  /\ HKEY[y] \notin {k} /\ y \in LiveElems' /\ y \notin {x} =>
                                    \A j \in DOMAIN m : m[j] = Entry(y) => j \in DOMAIN t /\ t[j] = Entry(y)
                              /\ HKEY[y] \in {k} =>
                                    /\ \A j \in DOMAIN l : Live(l[j]) /\ l[j].x = y => y \in LiveElems
                                    /\ y \notin {x} =>
                                          \A j \in DOMAIN m : m[j] = Entry(y) => j \in DOMAIN l /\ l[j] = Entry(y)
        BY DEF Follows
      <4>1. CASE HKEY[y] # k
        BY <2>2, <4>1, Hashed
      <4>2. CASE HKEY[y] = k
        <5>1. \A j \in DOMAIN s : Live(s[j]) => s[j].x \in LiveElems
          BY <1>1, AbsentTable
        <5> QED
          BY <3>1, <4>2, <5>1
      <4> QED
        BY <4>1, <4>2
    <3>4. Changes({x})
      BY <3>2, <3>3 DEF Changes
    <3>5. Stores(p, {}, {x})
      BY <1>8, <2>3, <3>4 DEF Stores
    <3> QED
      BY <1>2, <1>8, <2>2, <3>5 DEF Outcome
  <2> QED
    BY <1>8, <2>4, <2>5
<1>9. ASSUME ~ adding[p].full, Len(s) < b.size, bucket' = [bucket EXCEPT ![k].slots = last],
             Counted1(p, 1), InPlace({x}), AddEnd(p, "ok")
      PROVE  Table' /\ Outcome(p)
  <2> DEFINE n == [b EXCEPT !.slots = last]
  <2>1. bucket' = [bucket EXCEPT ![k] = n]
    BY <1>9
  <2>2. n.slots = last /\ n.size = b.size /\ n.null = b.null
    BY <1>2 DEF Good
  <2>3. n \in [size : Nat, slots : Seq(Slot), null : BOOLEAN]
    BY <1>2, <1>4 DEF Good
  <2> HIDE DEF n
  <2>4. Good(n, k)
    <3>1. Len(last) <= n.size
      BY <1>3, <1>4, <1>9, <2>2
    <3>2. ~ n.null /\ n.size % InitSize = 0
      BY <1>2, <1>3, <2>2
    <3> HIDE DEF k, b
    <3> QED
      BY <1>4, <2>2, <2>3, <3>1, <3>2 DEF Good
  <2> QED
    BY <1>3, <1>8, <1>9, <2>1, <2>2, <2>4
<1>10. ASSUME ~ adding[p].full, Len(s) >= b.size, b.size < bucketsize,
              bucket' = [bucket EXCEPT ![k] = Bucket(b.size + InitSize, last)],
              Counted1(p, 1), Replaced(k, s, {x}), AddEnd(p, "ok")
       PROVE  Table' /\ Outcome(p)
  <2> DEFINE m == b.size + InitSize
             n == Bucket(m, last)
  <2>1. InitSize \in Nat \ {0} /\ bucketsize \in Nat /\ bucketsize % InitSize = 0
    BY BucketAssumption DEF Table
  <2>2. m \in Nat /\ m % InitSize = 0 /\ m <= bucketsize
    <3> HIDE DEF b, s
    <3>1. b.size + InitSize <= bucketsize /\ (b.size + InitSize) % InitSize = 0
      BY <1>3, <1>10, <2>1, Multiples
    <3> QED
      BY <1>3, <2>1, <3>1
  <2>3. Len(last) <= m
    <3> HIDE DEF b, s
    <3> QED
      BY <1>3, <1>4, <2>1
  <2> HIDE DEF m
  <2>4. Good(n, k) /\ n.size = m /\ n.slots = last
    BY <1>4, <2>2, <2>3, BucketGood
  <2>5. bucket' = [bucket EXCEPT ![k] = n]
    BY <1>10 DEF m
  <2> HIDE DEF n
  <2> QED
    BY <1>8, <1>10, <2>2, <2>4, <2>5
<1> QED
  BY <1>6, <1>7, <1>9, <1>10 DEF AddLast, last

LEMMA AddEffect ==
    ASSUME Table, NEW p, adding[p].x \in Elems, Add(p)
    PROVE  Table' /\ Outcome(p)
BY AddNewEffect, AddFoundEffect, AddReuseEffect, AddForcedEffect, AddLastEffect DEF Add

----------------------------------------------------------------------------
(* The number of entries                                                   *)

LEMMA EntriesAre ==
    ASSUME NEW ks
    PROVE  /\ \A e \in Entries(ks) : \E k \in ks : \E i \in DOMAIN bucket[k].slots :
                 e = <<k, i>> /\ e[1] = k /\ e[2] = i /\ Used(bucket[k].slots[i])
           /\ \A k \in ks : \A i \in DOMAIN bucket[k].slots :
                 Used(bucket[k].slots[i]) => <<k, i>> \in Entries(ks)
<1>1. ASSUME NEW e \in Entries(ks)
      PROVE  \E k \in ks : \E i \in DOMAIN bucket[k].slots :
                e = <<k, i>> /\ e[1] = k /\ e[2] = i /\ Used(bucket[k].slots[i])
  <2>1. PICK k \in ks : e \in {k} \X DOMAIN bucket[k].slots
    BY DEF Entries
  <2>2. PICK i \in DOMAIN bucket[k].slots : e = <<k, i>>
    BY <2>1
  <2>3. e[1] = k /\ e[2] = i
    BY <2>2
  <2>4. Used(bucket[e[1]].slots[e[2]])
    BY DEF Entries
  <2> QED
    BY <2>2, <2>3, <2>4
<1>2. ASSUME NEW k \in ks, NEW i \in DOMAIN bucket[k].slots, Used(bucket[k].slots[i])
      PROVE  <<k, i>> \in Entries(ks)
  <2>1. <<k, i>> \in {k} \X DOMAIN bucket[k].slots
    OBVIOUS
  <2>2. <<k, i>>[1] = k /\ <<k, i>>[2] = i
    OBVIOUS
  <2> DEFINE e == <<k, i>>
  <2>3. e \in UNION {{l} \X DOMAIN bucket[l].slots : l \in ks}
    BY <2>1
  <2>4. Used(bucket[e[1]].slots[e[2]])
    BY <1>2, <2>2
  <2> HIDE DEF e
  <2>5. e \in Entries(ks)
    BY <2>3, <2>4 DEF Entries
  <2> QED
    BY <2>5 DEF e
<1> QED
  BY <1>1, <1>2

\* There are as many as elements that have one
LEMMA EntriesCount ==
    ASSUME Table, NEW ks \in SUBSET Keys, NEW P
    PROVE  LET T == {x \in UsedElems : HKEY[x] \in ks /\ x \in P} IN
           /\ IsFiniteSet(T)
           /\ Cardinality({e \in Entries(ks) : bucket[e[1]].slots[e[2]].x \in P}) = Cardinality(T)
<1> DEFINE T == {x \in UsedElems : HKEY[x] \in ks /\ x \in P}
           S == {e \in Entries(ks) : bucket[e[1]].slots[e[2]].x \in P}
           g == [e \in S |-> bucket[e[1]].slots[e[2]].x]
<1>1. IsFiniteSet(T)
  <2>1. T \subseteq Elems
    BY InTable
  <2> HIDE DEF T
  <2> QED
    BY <2>1, BucketAssumption, FS_Subset
<1>2. \A k \in ks : bucket[k].slots \in Seq(Slot) /\ Distinct(bucket[k].slots, k)
  BY DEF Table, Good
<1>3. \A k \in ks : \A i \in DOMAIN bucket[k].slots :
         Used(bucket[k].slots[i]) =>
            /\ bucket[k].slots[i].x \in UsedElems /\ HKEY[bucket[k].slots[i].x] = k
            /\ At(bucket[k].slots, bucket[k].slots[i].x) = {i}
  <2> SUFFICES ASSUME NEW k \in ks, NEW i \in DOMAIN bucket[k].slots, Used(bucket[k].slots[i])
               PROVE  /\ bucket[k].slots[i].x \in UsedElems /\ HKEY[bucket[k].slots[i].x] = k
                      /\ At(bucket[k].slots, bucket[k].slots[i].x) = {i}
    OBVIOUS
  <2>1. bucket[k].slots[i].x \in In(bucket[k].slots)
    BY <1>2, InSlots
  <2>2. bucket[k].slots[i].x \in UsedElems /\ HKEY[bucket[k].slots[i].x] = k
    BY <2>1, InTable
  <2> QED
    BY <1>2, <2>2 DEF Distinct
<1>4. \A e \in S : \E k \in ks : \E i \in DOMAIN bucket[k].slots :
         e = <<k, i>> /\ e[1] = k /\ e[2] = i /\ Used(bucket[k].slots[i])
         /\ g[e] = bucket[k].slots[i].x /\ g[e] \in P
  BY EntriesAre
<1>5. \A e \in S : g[e] \in T
  <2> SUFFICES ASSUME NEW e \in S PROVE g[e] \in T
    OBVIOUS
  <2>1. PICK k \in ks : \E i \in DOMAIN bucket[k].slots :
           Used(bucket[k].slots[i]) /\ g[e] = bucket[k].slots[i].x /\ g[e] \in P
    BY <1>4
  <2> QED
    BY <1>3, <2>1, ZenonT(60)
<1>6. ASSUME NEW d \in S, NEW e \in S, g[d] = g[e] PROVE d = e
  <2>1. PICK k \in ks : \E i \in DOMAIN bucket[k].slots :
           d = <<k, i>> /\ Used(bucket[k].slots[i]) /\ g[d] = bucket[k].slots[i].x
    BY <1>4
  <2>2. PICK i \in DOMAIN bucket[k].slots :
           d = <<k, i>> /\ Used(bucket[k].slots[i]) /\ g[d] = bucket[k].slots[i].x
    BY <2>1
  <2>3. PICK l \in ks : \E j \in DOMAIN bucket[l].slots :
           e = <<l, j>> /\ Used(bucket[l].slots[j]) /\ g[e] = bucket[l].slots[j].x
    BY <1>4
  <2>4. PICK j \in DOMAIN bucket[l].slots :
           e = <<l, j>> /\ Used(bucket[l].slots[j]) /\ g[e] = bucket[l].slots[j].x
    BY <2>3
  <2> HIDE DEF g, S, T
  <2>5. k = l
    BY <1>3, <1>6, <2>2, <2>4
  <2>6. At(bucket[k].slots, g[d]) = {i} /\ At(bucket[k].slots, g[d]) = {j}
    BY <1>3, <1>6, <2>2, <2>4, <2>5
  <2> QED
    BY <2>2, <2>4, <2>5, <2>6
<1>7. ASSUME NEW x \in T PROVE \E e \in S : g[e] = x
  <2> DEFINE k == HKEY[x]
             s == bucket[k].slots
  <2>1. x \in Elems /\ k \in ks /\ x \in P /\ x \in UsedElems
    BY InTable
  <2>2. PICK i \in DOMAIN s : Used(s[i]) /\ s[i].x = x
    <3>1. At(s, x) # {} => First(At(s, x)) \in DOMAIN s /\ s[First(At(s, x))].x = x /\ Used(s[First(At(s, x))])
      BY <2>1, EntryOf
    <3>2. At(s, x) # {}
      BY <2>1, EntryOf
    <3> QED
      BY <3>1, <3>2
  <2> DEFINE e == <<k, i>>
  <2>3. e \in Entries(ks)
    BY <2>1, <2>2, EntriesAre
  <2>4. e[1] = k /\ e[2] = i
    OBVIOUS
  <2> HIDE DEF e, k
  <2>5. e \in S /\ g[e] = x
    BY <2>1, <2>2, <2>3, <2>4
  <2> QED
    BY <2>5
<1> HIDE DEF T, S, g
<1>8. Cardinality(S) = Cardinality(T)
  BY <1>1, <1>5, <1>6, <1>7, SameNumber
<1> QED
  BY <1>1, <1>8 DEF S, T

----------------------------------------------------------------------------
(* The gc work, deletes, timeouts and flush                                *)

\* The elements in the buckets that region r counts as its own
Counts(r) == {x \in UsedElems : HKEY[x] \in KeysOf(r)}
TimedOut(r) == Counts(r) \ LiveElems

LEMMA RegionKeys ==
    \A r : KeysOf(r) \subseteq Keys
BY DEF KeysOf

\* An entry that is not live has timed out
LEMMA DeadAre ==
    ASSUME Table, NEW r
    PROVE  {e \in Entries(KeysOf(r)) : bucket[e[1]].slots[e[2]].life = "expired"}
             = {e \in Entries(KeysOf(r)) : bucket[e[1]].slots[e[2]].x \in Elems \ LiveElems}
<1> SUFFICES ASSUME NEW e \in Entries(KeysOf(r))
             PROVE  bucket[e[1]].slots[e[2]].life = "expired"
                      <=> bucket[e[1]].slots[e[2]].x \in Elems \ LiveElems
  OBVIOUS
<1>1. PICK k \in KeysOf(r) : \E i \in DOMAIN bucket[k].slots :
         e[1] = k /\ e[2] = i /\ Used(bucket[k].slots[i])
  <2>1. \E k \in KeysOf(r) : \E i \in DOMAIN bucket[k].slots :
           e = <<k, i>> /\ e[1] = k /\ e[2] = i /\ Used(bucket[k].slots[i])
    BY EntriesAre
  <2> QED
    BY <2>1
<1> DEFINE s == bucket[k].slots
<1>2. PICK i \in DOMAIN s : e[1] = k /\ e[2] = i /\ Used(s[i])
  BY <1>1
<1> DEFINE x == s[i].x
<1>3. k \in Keys /\ s \in Seq(Slot) /\ Distinct(s, k)
  BY RegionKeys DEF Table, Good
<1>4. s[i] \in Stored /\ x \in Elems /\ HKEY[x] = k
  <2>1. s[i] \in Slot
    BY <1>3
  <2>2. HKEY[x] = k
    BY <1>2, <1>3 DEF Distinct
  <2> HIDE DEF s
  <2> QED
    BY <1>2, <2>1, <2>2, SlotKinds
<1>5. At(s, x) = {i}
  BY <1>2, <1>3 DEF Distinct
<1>6. x \in LiveElems <=> Live(s[i])
  <2>1. i \in Nat
    BY <1>3
  <2>2. First({i}) = i
    <3>1. First({i}) \in {i}
      BY <2>1, FirstOf
    <3> QED
      BY <3>1
  <2>3. At(s, x) # {} => (x \in LiveElems <=> Live(s[First(At(s, x))]))
    BY <1>4, EntryOf
  <2> QED
    BY <1>5, <2>2, <2>3
<1>7. s[i].life = "expired" <=> ~ Live(s[i])
  BY <1>4 DEF Stored, Live
<1> QED
  BY <1>2, <1>4, <1>6, <1>7

\* Several buckets are written
LEMMA BucketsWritten ==
    ASSUME Table, NEW ks \in SUBSET Keys, NEW after,
           \A k \in ks : Good(after[k], k) /\ after[k].size <= bucketsize,
           bucket' = [k \in Keys |-> IF k \in ks THEN after[k] ELSE bucket[k]],
           UNCHANGED config
    PROVE  /\ Table'
           /\ \A k \in ks : bucket'[k] = after[k]
           /\ \A k \in Keys \ ks : bucket'[k] = bucket[k]
           /\ \A x \in Elems : HKEY[x] \in ks =>
                 /\ x \in UsedElems' <=> x \in In(after[HKEY[x]].slots)
                 /\ x \in LiveElems' <=> x \in LiveIn(after[HKEY[x]].slots)
           /\ \A x \in Elems : HKEY[x] \notin ks =>
                 /\ x \in UsedElems' <=> x \in UsedElems
                 /\ x \in LiveElems' <=> x \in LiveElems
           /\ UsedElems' \subseteq Elems /\ LiveElems' \subseteq Elems
<1>1. /\ \A k \in ks : bucket'[k] = after[k]
      /\ \A k \in Keys \ ks : bucket'[k] = bucket[k]
      /\ bucket' = [k \in Keys |-> bucket'[k]]
  OBVIOUS
<1>2. Table'
  <2>1. forceadd' = forceadd /\ bucketsize' = bucketsize /\ config' = config
    BY DEF config
  <2>2. \A k \in Keys : Good(bucket'[k], k) /\ bucket'[k].size <= bucketsize
    BY <1>1 DEF Table
  <2> QED
    BY <1>1, <2>1, <2>2 DEF Table
<1>3. \A x \in Elems : HKEY[x] \in ks =>
         /\ x \in UsedElems' <=> x \in In(after[HKEY[x]].slots)
         /\ x \in LiveElems' <=> x \in LiveIn(after[HKEY[x]].slots)
  BY <1>1, LivesOf DEF UsedElems, UsedOf, LiveOf
<1>4. \A x \in Elems : HKEY[x] \notin ks =>
         /\ x \in UsedElems' <=> x \in UsedElems
         /\ x \in LiveElems' <=> x \in LiveElems
  BY <1>1, LivesOf, Hashed DEF UsedElems, UsedOf, LiveOf
<1>5. UsedElems' \subseteq Elems /\ LiveElems' \subseteq Elems
  BY DEF UsedElems, UsedOf, LiveElems
<1> QED
  BY <1>1, <1>2, <1>3, <1>4, <1>5

\* mtype_gc_do drops what timed out
LEMMA SweepEffect ==
    ASSUME Table, NEW r, Sweep(r), UNCHANGED config
    PROVE  /\ Table' /\ Changes({})
           /\ UsedElems' = UsedElems \ TimedOut(r) /\ LiveElems' = LiveElems
           /\ elements' = [elements EXCEPT ![r] = Plus(@, -Cardinality(TimedOut(r)))]
<1> DEFINE ks == KeysOf(r)
<1>1. PICK short \in SUBSET ks :
         LET after == [k \in ks |-> Swept(bucket[k], k \in short)]
             left == [k \in ks |-> Cleared(bucket[k].slots)]
             dead == {e \in Entries(ks) : bucket[e[1]].slots[e[2]].life = "expired"}
         IN  /\ bucket' = [k \in Keys |-> IF k \in ks THEN after[k] ELSE bucket[k]]
             /\ elements' = [elements EXCEPT ![r] = Plus(@, -Cardinality(dead))]
             /\ Beside({k \in ks : after[k].size # bucket[k].size}, left, {})
  BY DEF Sweep
<1> DEFINE after == [k \in ks |-> Swept(bucket[k], k \in short)]
           left == [k \in ks |-> Cleared(bucket[k].slots)]
           dead == {e \in Entries(ks) : bucket[e[1]].slots[e[2]].life = "expired"}
           gone == {k \in ks : after[k].size # bucket[k].size}
<1>2. ks \in SUBSET Keys
  BY RegionKeys
<1>3. \A k \in ks : after[k] = Swept(bucket[k], k \in short) /\ left[k] = Cleared(bucket[k].slots)
  OBVIOUS
<1>4. Cardinality(dead) = Cardinality(TimedOut(r))
  <2> DEFINE P == Elems \ LiveElems
             T == {x \in UsedElems : HKEY[x] \in ks /\ x \in P}
  <2>1. dead = {e \in Entries(ks) : bucket[e[1]].slots[e[2]].x \in P}
    BY DeadAre
  <2>2. Cardinality({e \in Entries(ks) : bucket[e[1]].slots[e[2]].x \in P}) = Cardinality(T)
    <3> HIDE DEF P, ks
    <3> QED
      BY <1>2, EntriesCount
  <2>3. T = TimedOut(r)
    BY InTable DEF TimedOut, Counts
  <2> HIDE DEF P, T, dead
  <2> QED
    BY <2>1, <2>2, <2>3
<1>5. /\ bucket' = [k \in Keys |-> IF k \in ks THEN after[k] ELSE bucket[k]]
      /\ elements' = [elements EXCEPT ![r] = Plus(@, -Cardinality(dead))]
      /\ Beside(gone, left, {})
  BY <1>1
<1> HIDE DEF after, left, dead, ks
<1>6. \A k \in ks : LET b == bucket[k] IN
         /\ Good(b, k) /\ b.size \in Nat /\ b.size <= bucketsize
         /\ b.slots \in Seq(Slot) /\ Distinct(b.slots, k)
         /\ LiveIn(b.slots) = {x \in LiveElems : HKEY[x] = k}
  BY <1>2, InTable DEF Table, Good
<1>7. \A k \in ks :
         /\ Good(after[k], k) /\ after[k].size <= bucket[k].size
         /\ In(after[k].slots) = LiveIn(bucket[k].slots)
         /\ LiveIn(after[k].slots) = LiveIn(bucket[k].slots)
         /\ after[k].size = bucket[k].size =>
               \A j \in DOMAIN bucket[k].slots : Live(bucket[k].slots[j]) =>
                  j \in DOMAIN after[k].slots /\ after[k].slots[j] = bucket[k].slots[j]
  <2> SUFFICES ASSUME NEW k \in ks
               PROVE  /\ Good(after[k], k) /\ after[k].size <= bucket[k].size
                      /\ In(after[k].slots) = LiveIn(bucket[k].slots)
                      /\ LiveIn(after[k].slots) = LiveIn(bucket[k].slots)
                      /\ after[k].size = bucket[k].size =>
                            \A j \in DOMAIN bucket[k].slots : Live(bucket[k].slots[j]) =>
                               j \in DOMAIN after[k].slots /\ after[k].slots[j] = bucket[k].slots[j]
    OBVIOUS
  <2> DEFINE b == bucket[k]
             n == after[k]
             some == k \in short
  <2>1. Good(b, k) /\ n = Swept(b, some) /\ some \in BOOLEAN
    BY <1>3, <1>6
  <2> HIDE DEF b, n, some
  <2>2. /\ Good(n, k) /\ n.size <= b.size
        /\ In(n.slots) = LiveIn(b.slots) /\ LiveIn(n.slots) = LiveIn(b.slots)
        /\ n.size = b.size =>
              \A j \in DOMAIN b.slots : Live(b.slots[j]) => j \in DOMAIN n.slots /\ n.slots[j] = b.slots[j]
    BY <2>1, BucketSwept
  <2> QED
    BY <2>2 DEF b, n
<1>8. \A k \in ks : Good(after[k], k) /\ after[k].size <= bucketsize
  <2> SUFFICES ASSUME NEW k \in ks PROVE Good(after[k], k) /\ after[k].size <= bucketsize
    OBVIOUS
  <2>1. after[k].size \in Nat /\ bucketsize \in Nat
    BY <1>7 DEF Good, Table
  <2> QED
    BY <1>6, <1>7, <2>1
<1>9. /\ Table'
      /\ \A k \in ks : bucket'[k] = after[k]
      /\ \A k \in Keys \ ks : bucket'[k] = bucket[k]
      /\ \A x \in Elems : HKEY[x] \in ks =>
            /\ x \in UsedElems' <=> x \in In(after[HKEY[x]].slots)
            /\ x \in LiveElems' <=> x \in LiveIn(after[HKEY[x]].slots)
      /\ \A x \in Elems : HKEY[x] \notin ks =>
            /\ x \in UsedElems' <=> x \in UsedElems
            /\ x \in LiveElems' <=> x \in LiveElems
      /\ UsedElems' \subseteq Elems /\ LiveElems' \subseteq Elems
  BY <1>2, <1>5, <1>8, BucketsWritten
<1>10. LiveElems \subseteq UsedElems /\ UsedElems \subseteq Elems
  BY InTable
<1>11. LiveElems' = LiveElems
  <2>1. \A x \in Elems : x \in LiveElems' <=> x \in LiveElems
    BY <1>6, <1>7, <1>9
  <2> QED
    BY <1>9, <1>10, <2>1
<1>12. UsedElems' = UsedElems \ TimedOut(r)
  <2>1. \A x \in Elems : HKEY[x] \in ks => (x \in UsedElems' <=> x \in LiveElems)
    BY <1>6, <1>7, <1>9
  <2> QED
    BY <1>9, <1>10, <2>1 DEF TimedOut, Counts, ks
<1>13. Follows(gone, left, {})
  <2>1. ASSUME NEW x \in Elems, HKEY[x] \notin gone,
               NEW j \in DOMAIN bucket[HKEY[x]].slots, bucket[HKEY[x]].slots[j] = Entry(x)
        PROVE  j \in DOMAIN bucket'[HKEY[x]].slots /\ bucket'[HKEY[x]].slots[j] = Entry(x)
    <3>1. CASE HKEY[x] \in ks
      <4>1. after[HKEY[x]].size = bucket[HKEY[x]].size /\ bucket'[HKEY[x]] = after[HKEY[x]]
        BY <1>9, <2>1, <3>1
      <4>2. Live(bucket[HKEY[x]].slots[j])
        BY <2>1, SlotKinds
      <4> QED
        BY <1>7, <2>1, <3>1, <4>1, <4>2
    <3>2. CASE HKEY[x] \notin ks
      BY <1>9, <2>1, <3>2, Hashed
    <3> QED
      BY <3>1, <3>2
  <2>2. ASSUME NEW x \in Elems, HKEY[x] \in gone
        PROVE  LET s == bucket[HKEY[x]].slots
                   l == left[HKEY[x]]
               IN  /\ \A j \in DOMAIN l : Live(l[j]) /\ l[j].x = x => x \in LiveElems
                   /\ \A j \in DOMAIN s : s[j] = Entry(x) => j \in DOMAIN l /\ l[j] = Entry(x)
    <3> DEFINE s == bucket[HKEY[x]].slots
               l == left[HKEY[x]]
    <3>1. l = Cleared(s) /\ s \in Seq(Slot) /\ Distinct(s, HKEY[x])
      BY <1>3, <1>6, <2>2
    <3> HIDE DEF l
    <3>2. DOMAIN l = DOMAIN s /\ \A j \in DOMAIN s : l[j] = IF Live(s[j]) THEN s[j] ELSE Hole
      <4> HIDE DEF s
      <4> QED
        BY <3>1, SlotsCleared
    <3>3. \A j \in DOMAIN l : Live(l[j]) => l[j] = s[j] /\ Live(s[j])
      BY <3>2, SlotKinds
    <3>4. \A j \in DOMAIN s : Live(s[j]) => s[j] = Entry(s[j].x)
      BY <3>1, InSlots
    <3>5. \A j \in DOMAIN s : s[j] = Entry(x) => x \in LiveElems
      BY EntryOf
    <3>6. \A j \in DOMAIN l : Live(l[j]) /\ l[j].x = x => x \in LiveElems
      BY <3>2, <3>3, <3>4, <3>5
    <3>7. \A j \in DOMAIN s : s[j] = Entry(x) => j \in DOMAIN l /\ l[j] = Entry(x)
      BY <3>2, SlotKinds
    <3> QED
      BY <3>6, <3>7 DEF l
  <2> HIDE DEF gone
  <2> QED
    BY <2>1, <2>2 DEF Follows
<1>14. Changes({})
  <2> HIDE DEF gone
  <2> QED
    BY <1>5, <1>13 DEF Changes
<1> QED
  BY <1>4, <1>5, <1>9, <1>11, <1>12, <1>14

\* What a delete finds, mtype_del drops
LEMMA DelEffect ==
    ASSUME Table, NEW p, NEW x \in Elems, Del(p, x)
    PROVE  /\ Table'
           /\ x \notin LiveElems => UNCHANGED <<bucket, elements, testing>>
           /\ x \in LiveElems =>
                 /\ UsedElems' = UsedElems \ {x} /\ LiveElems' = LiveElems \ {x}
                 /\ elements' = [elements EXCEPT ![Region(HKEY[x])] = Plus(@, -1)]
                 /\ Changes({x})
<1> DEFINE k == HKEY[x]
           b == bucket[k]
           s == b.slots
           i == First(At(s, x))
<1>0. UNCHANGED config
  BY DEF Del
<1>1. CASE x \notin LiveElems
  <2>1. UNCHANGED <<bucket, elements, testing>>
    BY <1>1 DEF Del
  <2> QED
    BY <1>0, <1>1, <2>1 DEF Table, config
<1>2. CASE x \in LiveElems
  <2>1. PICK short \in BOOLEAN : bucket' = [bucket EXCEPT ![k] = Removed(b, i, short)]
    BY <1>2 DEF Del
  <2> DEFINE n == Removed(b, i, short)
  <2>2. /\ elements' = [elements EXCEPT ![Region(k)] = Plus(@, -1)]
        /\ IF bucket'[k].null \/ bucket'[k].size # b.size
           THEN Replaced(k, [s EXCEPT ![i] = Hole], {x}) ELSE InPlace({x})
    BY <1>2 DEF Del
  <2>3. /\ k \in Keys /\ s \in Seq(Slot) /\ Distinct(s, k) /\ i \in DOMAIN s
        /\ s[i].x = x /\ Used(s[i]) /\ At(s, x) = {i}
    BY <1>2, EntryOf
  <2>4. Good(b, k) /\ b.size <= bucketsize /\ b.size \in Nat /\ bucketsize \in Nat
    BY <2>3 DEF Table, Good
  <2> HIDE DEF i
  <2>5. /\ Good(n, k) /\ n.size <= b.size
        /\ In(n.slots) = In(s) \ {x} /\ LiveIn(n.slots) = LiveIn(s) \ {x}
        /\ ~ n.null /\ n.size = b.size =>
              \A j \in DOMAIN s : s[j].x # x => j \in DOMAIN n.slots /\ n.slots[j] = s[j]
    <3> HIDE DEF b, k
    <3>1. i \in DOMAIN b.slots /\ Used(b.slots[i]) /\ Good(b, k) /\ x = b.slots[i].x
      BY <2>3, <2>4
    <3>2. Drops(n, b, k, x)
      BY <3>1, BucketRemoved
    <3> HIDE DEF n
    <3> QED
      BY <3>2 DEF Drops
  <2> HIDE DEF n
  <2>6. n.size <= bucketsize
    <3>1. n.size \in Nat
      BY <2>5 DEF Good
    <3> QED
      BY <2>4, <2>5, <3>1
  <2>7. /\ Table' /\ bucket'[k] = n
        /\ \A l \in Keys : l # k => bucket'[l] = bucket[l]
        /\ UsedElems' = {y \in UsedElems : HKEY[y] # k} \cup In(n.slots)
        /\ LiveElems' = {y \in LiveElems : HKEY[y] # k} \cup LiveIn(n.slots)
    <3>1. bucket' = [bucket EXCEPT ![k] = n]
      BY <2>1 DEF n
    <3> HIDE DEF k, b
    <3> QED
      BY <1>0, <2>3, <2>5, <2>6, <3>1, BucketWritten
  <2>8. In(s) = {y \in UsedElems : HKEY[y] = k} /\ LiveIn(s) = {y \in LiveElems : HKEY[y] = k}
    BY <2>3, InTable
  <2>9. UsedElems' = UsedElems \ {x} /\ LiveElems' = LiveElems \ {x}
    BY <2>5, <2>7, <2>8
  <2>10. Changes({x})
    <3>1. CASE n.null \/ n.size # b.size
      <4> DEFINE h == [s EXCEPT ![i] = Hole]
                 left == [l \in {k} |-> h]
      <4>1. Beside({k}, left, {x})
        BY <2>2, <2>7, <3>1 DEF Replaced
      <4>2. left[k] = h /\ DOMAIN h = DOMAIN s
        OBVIOUS
      <4>3. h[i] = Hole /\ \A j \in DOMAIN s : j # i => h[j] = s[j]
        BY <2>3
      <4> HIDE DEF h, left
      <4>4. \A j \in DOMAIN h : Live(h[j]) => h[j] = s[j] /\ j \in DOMAIN s /\ s[j].x \in LiveElems
        <5> SUFFICES ASSUME NEW j \in DOMAIN h, Live(h[j])
                     PROVE  h[j] = s[j] /\ j \in DOMAIN s /\ s[j].x \in LiveElems
          OBVIOUS
        <5>1. j # i
          BY <4>3, SlotKinds
        <5>2. h[j] = s[j] /\ j \in DOMAIN s
          BY <4>2, <4>3, <5>1
        <5>3. s[j].x \in LiveIn(s)
          BY <2>3, <5>2, InSlots
        <5> QED
          BY <2>8, <5>2, <5>3
      <4>5. \A y \in Elems : y # x => \A j \in DOMAIN s : s[j] = Entry(y) => j # i
        BY <2>3, SlotKinds
      <4>6. Follows({k}, left, {x})
        <5>1. ASSUME NEW y \in Elems, HKEY[y] \notin {k}
              PROVE  bucket'[HKEY[y]] = bucket[HKEY[y]]
          BY <2>7, <5>1, Hashed
        <5>2. ASSUME NEW y \in Elems, HKEY[y] \in {k}
              PROVE  /\ bucket[HKEY[y]].slots = s /\ left[HKEY[y]] = h
                     /\ \A j \in DOMAIN h : Live(h[j]) /\ h[j].x = y => y \in LiveElems
                     /\ y \notin {x} =>
                           \A j \in DOMAIN s : s[j] = Entry(y) => j \in DOMAIN h /\ h[j] = Entry(y)
          BY <4>2, <4>3, <4>4, <4>5, <5>2
        <5> HIDE DEF s
        <5> QED
          BY <5>1, <5>2 DEF Follows
      <4> QED
        BY <4>1, <4>6 DEF Changes
    <3>2. CASE ~ (n.null \/ n.size # b.size)
      <4>1. InPlace({x})
        BY <2>2, <2>7, <3>2
      <4>2. \A j \in DOMAIN s :
               \/ \A y \in Elems \ {x} : s[j] # Entry(y)
               \/ j \in DOMAIN bucket'[k].slots /\ bucket'[k].slots[j] = s[j]
        <5> SUFFICES ASSUME NEW j \in DOMAIN s
                     PROVE  \/ \A y \in Elems \ {x} : s[j] # Entry(y)
                            \/ j \in DOMAIN bucket'[k].slots /\ bucket'[k].slots[j] = s[j]
          OBVIOUS
        <5>1. CASE s[j].x = x
          BY <5>1, SlotKinds
        <5>2. CASE s[j].x # x
          BY <2>5, <2>7, <3>2, <5>2
        <5> QED
          BY <5>1, <5>2
      <4>3. Follows({}, << >>, {x})
        <5> HIDE DEF k
        <5> QED
          BY <2>3, <2>7, <4>2, InPlaceFollows
      <4> QED
        BY <4>1, <4>3, InPlaceChanges
    <3> QED
      BY <3>1, <3>2
  <2> QED
    BY <1>2, <2>2, <2>7, <2>9, <2>10
<1> QED
  BY <1>1, <1>2

\* An entry times out where it is
LEMMA ExpireEffect ==
    ASSUME Table, NEW x \in Elems, Expire(x)
    PROVE  /\ Table' /\ x \in LiveElems
           /\ UsedElems' = UsedElems /\ LiveElems' = LiveElems \ {x}
           /\ Follows({}, << >>, {x})
<1> DEFINE k == HKEY[x]
           s == bucket[k].slots
           i == First(At(s, x))
           e == [s[i] EXCEPT !.life = "expired"]
<1>1. x \in LiveElems /\ UNCHANGED config
  BY DEF Expire
<1>2. bucket' = [bucket EXCEPT ![k].slots[i].life = "expired"]
  BY DEF Expire
<1>3. /\ k \in Keys /\ s \in Seq(Slot) /\ i \in DOMAIN s /\ s[i].x = x /\ s[i] = Entry(x)
      /\ x \in UsedElems
  BY <1>1, EntryOf
<1> HIDE DEF i
<1>4. e \in Slot /\ Used(e) /\ ~ Live(e) /\ e.x = x
  <2>1. e = [x |-> x, life |-> "expired"]
    BY <1>3 DEF Entry
  <2> HIDE DEF e
  <2> QED
    BY <2>1 DEF Slot, Stored, Used, Live
<1>5. WrittenIn(k, i, e)
  BY <1>2 DEF WrittenIn
<1> HIDE DEF e
<1>6. FitsIn(e, k, i)
  BY <1>3, <1>4 DEF FitsIn
<1>7. /\ Table'
      /\ \A l \in Keys : l # k => bucket'[l] = bucket[l]
      /\ DOMAIN bucket'[k].slots = DOMAIN s
      /\ \A j \in DOMAIN s : j # i => bucket'[k].slots[j] = s[j]
      /\ UsedElems' = (UsedElems \ {s[i].x}) \cup {e.x}
      /\ LiveElems' = LiveElems \ {s[i].x}
  <2> HIDE DEF k
  <2> QED
    BY <1>1, <1>3, <1>4, <1>5, <1>6, SlotWritten
<1>8. UsedElems' = UsedElems /\ LiveElems' = LiveElems \ {x}
  BY <1>3, <1>4, <1>7
<1>9. \A j \in DOMAIN s :
         \/ \A y \in Elems \ {x} : s[j] # Entry(y)
         \/ j \in DOMAIN bucket'[k].slots /\ bucket'[k].slots[j] = s[j]
  BY <1>3, <1>7, SlotKinds
<1>10. Follows({}, << >>, {x})
  <2> HIDE DEF k
  <2> QED
    BY <1>3, <1>7, <1>9, InPlaceFollows
<1> QED
  BY <1>1, <1>7, <1>8, <1>10

\* A region is flushed
LEMMA FlushEffect ==
    ASSUME Table, Flush
    PROVE  LET r == flushing IN
           /\ Table'
           /\ UsedElems' = UsedElems \ Counts(r) /\ LiveElems' = LiveElems \ Counts(r)
           /\ elements' = [elements EXCEPT ![r] = 0]
           /\ Changes({x \in Elems : HKEY[x] \in KeysOf(r)})
<1> DEFINE r == flushing
           ks == KeysOf(r)
           after == [k \in ks |-> NoBucket]
           gone == {k \in ks : ~ bucket[k].null}
           left == [k \in ks |-> bucket[k].slots]
           parted == {x \in Elems : HKEY[x] \in ks}
<1>1. /\ bucket' = [k \in Keys |-> IF k \in ks THEN after[k] ELSE bucket[k]]
      /\ elements' = [elements EXCEPT ![r] = 0]
      /\ Beside(gone, left, parted) /\ UNCHANGED config
  BY DEF Flush
<1>2. ks \in SUBSET Keys /\ \A k \in ks : after[k] = NoBucket /\ left[k] = bucket[k].slots
  BY RegionKeys
<1> HIDE DEF ks, after, left
<1>3. \A k \in ks : /\ Good(after[k], k) /\ after[k].size <= bucketsize
                    /\ In(after[k].slots) = {} /\ LiveIn(after[k].slots) = {}
  BY <1>2, BucketNone DEF Table
<1>4. /\ Table'
      /\ \A k \in Keys \ ks : bucket'[k] = bucket[k]
      /\ \A x \in Elems : HKEY[x] \in ks =>
            /\ x \in UsedElems' <=> x \in In(after[HKEY[x]].slots)
            /\ x \in LiveElems' <=> x \in LiveIn(after[HKEY[x]].slots)
      /\ \A x \in Elems : HKEY[x] \notin ks =>
            /\ x \in UsedElems' <=> x \in UsedElems
            /\ x \in LiveElems' <=> x \in LiveElems
      /\ UsedElems' \subseteq Elems /\ LiveElems' \subseteq Elems
  BY <1>1, <1>2, <1>3, BucketsWritten
<1>5. LiveElems \subseteq UsedElems /\ UsedElems \subseteq Elems
  BY InTable
<1>6. UsedElems' = UsedElems \ Counts(r) /\ LiveElems' = LiveElems \ Counts(r)
  BY <1>3, <1>4, <1>5 DEF Counts, ks
<1>7. Follows(gone, left, parted)
  <2>1. ASSUME NEW x \in Elems, x \notin parted
        PROVE  bucket'[HKEY[x]] = bucket[HKEY[x]] /\ HKEY[x] \notin gone
    BY <1>4, <2>1, Hashed
  <2>2. ASSUME NEW x \in Elems, HKEY[x] \in gone
        PROVE  /\ x \in parted
               /\ \A j \in DOMAIN left[HKEY[x]] :
                     Live(left[HKEY[x]][j]) /\ left[HKEY[x]][j].x = x => x \in LiveElems
    <3>1. x \in parted /\ left[HKEY[x]] = bucket[HKEY[x]].slots
      BY <1>2, <2>2
    <3> DEFINE s == bucket[HKEY[x]].slots
    <3>2. \A j \in DOMAIN s : s[j] = Entry(x) => x \in LiveElems
      BY EntryOf
    <3>3. \A j \in DOMAIN s : Live(s[j]) => s[j] = Entry(s[j].x)
      BY EntryOf, InSlots
    <3> HIDE DEF s
    <3> QED
      BY <3>1, <3>2, <3>3 DEF s
  <2> HIDE DEF gone, parted
  <2> QED
    BY <2>1, <2>2 DEF Follows
<1>8. Changes(parted)
  <2> HIDE DEF gone, parted
  <2> QED
    BY <1>1, <1>7 DEF Changes
<1> QED
  BY <1>1, <1>4, <1>6, <1>8 DEF ks

----------------------------------------------------------------------------
(* Types                                                                   *)

AddState(a) ==
    /\ a \in [pc : {"idle", "sweep", "sum", "lock"}, x : Elems \cup {NoElem},
              full : BOOLEAN, seen : SUBSET Elems]
    /\ a.pc = "idle" => a = NotAdding
    /\ a.pc # "idle" => a.x \in Elems

TestState(t) ==
    /\ t \in [pc : {"idle", "walk", "copy"}, x : Elems \cup {NoElem}, i : Nat,
              copy : {"none", "live", "stale"}, in : BOOLEAN, out : BOOLEAN]
    /\ t.pc = "idle" => t = NotTesting
    /\ t.pc # "idle" => t.x \in Elems

Working ==
    /\ elements \in [Regions -> 0 .. CountMod - 1] /\ flushing \in Regions
    /\ adding = [p \in Adders |-> adding[p]] /\ \A p \in Adders : AddState(adding[p])
    /\ testing = [q \in Testers |-> testing[q]] /\ \A q \in Testers : TestState(testing[q])

TypeInv == Table /\ Working

LEMMA Idle ==
    AddState(NotAdding) /\ NotAdding.pc = "idle" /\ TestState(NotTesting) /\ NotTesting.pc = "idle"
BY DEF AddState, NotAdding, TestState, NotTesting

LEMMA RegionOf ==
    /\ \A k \in Keys : Region(k) \in Regions
    /\ Locks \in Nat \ {0} /\ 0 \in Regions
    /\ \A r \in Regions : (r + 1) % Locks \in Regions
<1>1. Locks \in Nat \ {0} /\ Buckets \in Nat
  BY BucketAssumption
<1> QED
  BY <1>1 DEF Region, Regions, Keys

\* A test beside a change, field by field
BesideFields(t, u, gone, left, parted) ==
    LET lost == t.pc = "walk" /\ HKEY[t.x] \in gone IN
    /\ t.pc = "idle" => u = t
    /\ t.pc # "idle" =>
          /\ u.x = t.x /\ u.i = t.i
          /\ lost => u.pc = "copy" /\ u.copy = CopyOf(left[HKEY[t.x]], t)
          /\ ~ lost => /\ u.pc = t.pc
                       /\ t.copy = "live" /\ t.x \in parted => u.copy = "stale"
                       /\ ~ (t.copy = "live" /\ t.x \in parted) => u.copy = t.copy
          /\ u.in = (t.in \/ t.x \in LiveElems')
          /\ u.out = (t.out \/ t.x \notin LiveElems' \/ t.x \in parted)

LEMMA BesideStates ==
    ASSUME Working, NEW gone, NEW left, NEW parted, Beside(gone, left, parted)
    PROVE  /\ testing' = [q \in Testers |-> testing'[q]]
           /\ \A q \in Testers : /\ TestState(testing'[q])
                                 /\ BesideFields(testing[q], testing'[q], gone, left, parted)
<1>1. testing' = [q \in Testers |-> testing'[q]]
  BY DEF Beside
<1>2. ASSUME NEW q \in Testers
      PROVE  /\ TestState(testing'[q])
             /\ BesideFields(testing[q], testing'[q], gone, left, parted)
  <2> DEFINE t == testing[q]
             u == testing'[q]
             lost == t.pc = "walk" /\ HKEY[t.x] \in gone
             pc == IF lost THEN "copy" ELSE t.pc
             copy == IF lost THEN CopyOf(left[HKEY[t.x]], t)
                     ELSE IF t.copy = "live" /\ t.x \in parted THEN "stale" ELSE t.copy
             in == t.in \/ t.x \in LiveElems'
             out == t.out \/ t.x \notin LiveElems' \/ t.x \in parted
  <2>1. TestState(t)
    BY DEF Working
  <2>2. CASE t.pc = "idle"
    <3>1. u = t
      BY <2>2 DEF Beside
    <3> HIDE DEF t, u
    <3>2. TestState(u)
      BY <2>1, <3>1
    <3>3. BesideFields(t, u, gone, left, parted)
      BY <2>2, <3>1 DEF BesideFields
    <3> QED
      BY <3>2, <3>3 DEF t, u
  <2>3. CASE t.pc # "idle"
    <3>1. u = [t EXCEPT !.pc = pc, !.copy = copy, !.in = in, !.out = out]
      BY <2>3 DEF Beside
    <3>2. copy \in {"none", "live", "stale"}
      <4>1. t.copy \in {"none", "live", "stale"}
        BY <2>1 DEF TestState
      <4> QED
        BY <4>1 DEF CopyOf
    <3>3. pc \in {"walk", "copy"}
      BY <2>1, <2>3 DEF TestState
    <3>4. in \in BOOLEAN /\ out \in BOOLEAN
      OBVIOUS
    <3>5. /\ lost => pc = "copy" /\ copy = CopyOf(left[HKEY[t.x]], t)
          /\ ~ lost => /\ pc = t.pc
                       /\ t.copy = "live" /\ t.x \in parted => copy = "stale"
                       /\ ~ (t.copy = "live" /\ t.x \in parted) => copy = t.copy
      OBVIOUS
    <3>6. in = (t.in \/ t.x \in LiveElems') /\ out = (t.out \/ t.x \notin LiveElems' \/ t.x \in parted)
      OBVIOUS
    <3> HIDE DEF t, u, pc, copy, in, out
    <3>7. /\ u \in [pc : {"idle", "walk", "copy"}, x : Elems \cup {NoElem}, i : Nat,
                    copy : {"none", "live", "stale"}, in : BOOLEAN, out : BOOLEAN]
          /\ u.x = t.x /\ u.i = t.i /\ u.pc = pc /\ u.copy = copy /\ u.in = in /\ u.out = out
      BY <2>1, <3>1, <3>2, <3>3, <3>4 DEF TestState
    <3>8. TestState(u)
      BY <2>1, <2>3, <3>3, <3>7 DEF TestState
    <3>9. BesideFields(t, u, gone, left, parted)
      BY <2>3, <3>5, <3>6, <3>7 DEF BesideFields
    <3> QED
      BY <3>8, <3>9 DEF t, u
  <2> QED
    BY <2>2, <2>3
<1> QED
  BY <1>1, <1>2

\* An add beside the end of another one, which saw x come
AddFields(a, c, x, ret) ==
    /\ c.pc = a.pc /\ c.x = a.x /\ c.full = a.full
    /\ a.pc \in {"sweep", "sum"} /\ ret = "ok" => c.seen = a.seen \cup ({x} \cap LiveElems')
    /\ ~ (a.pc \in {"sweep", "sum"} /\ ret = "ok") => c = a

LEMMA AddEndStates ==
    ASSUME Working, NEW p \in Adders, NEW ret, AddEnd(p, ret)
    PROVE  /\ adding' = [a \in Adders |-> adding'[a]]
           /\ \A a \in Adders : AddState(adding'[a])
           /\ adding'[p] = NotAdding
           /\ \A a \in Adders : a # p => AddFields(adding[a], adding'[a], adding[p].x, ret)
<1>1. /\ adding' = [a \in Adders |-> adding'[a]] /\ adding'[p] = NotAdding
  BY DEF AddEnd
<1>2. ASSUME NEW a \in Adders, a # p
      PROVE  AddState(adding'[a]) /\ AddFields(adding[a], adding'[a], adding[p].x, ret)
  <2> DEFINE b == adding[a]
             c == adding'[a]
             more == {adding[p].x} \cap LiveElems'
             seen == b.seen \cup more
             some == b.pc \in {"sweep", "sum"} /\ ret = "ok"
  <2>1. AddState(b)
    BY DEF Working
  <2>2. /\ some => c = [b EXCEPT !.seen = seen]
        /\ ~ some => c = b
    BY <1>2 DEF AddEnd
  <2>3. seen \subseteq Elems
    BY <2>1 DEF AddState, LiveElems
  <2>4. some => b.pc # "idle"
    OBVIOUS
  <2>5. CASE some
    <3> HIDE DEF b, c, seen
    <3>1. /\ c \in [pc : {"idle", "sweep", "sum", "lock"}, x : Elems \cup {NoElem},
                    full : BOOLEAN, seen : SUBSET Elems]
          /\ c.pc = b.pc /\ c.x = b.x /\ c.full = b.full /\ c.seen = seen
      BY <2>1, <2>2, <2>3, <2>5 DEF AddState
    <3>2. AddState(c)
      BY <2>1, <2>4, <2>5, <3>1 DEF AddState
    <3>3. AddFields(b, c, adding[p].x, ret)
      BY <2>5, <3>1 DEF AddFields, seen
    <3> QED
      BY <3>2, <3>3 DEF b, c
  <2>6. CASE ~ some
    <3>1. c = b
      BY <2>2, <2>6
    <3>2. AddState(c)
      BY <2>1, <3>1
    <3> HIDE DEF b, c
    <3>3. AddFields(b, c, adding[p].x, ret)
      BY <2>6, <3>1 DEF AddFields
    <3> QED
      BY <3>2, <3>3 DEF b, c
  <2> QED
    BY <2>5, <2>6
<1>3. \A a \in Adders : AddState(adding'[a])
  BY <1>1, <1>2, Idle
<1> QED
  BY <1>1, <1>2, <1>3

LEMMA CountersKept ==
    ASSUME Working, NEW r \in Regions, NEW d \in Int,
           elements' = [elements EXCEPT ![r] = Plus(@, d)]
    PROVE  elements' \in [Regions -> 0 .. CountMod - 1]
<1>1. elements[r] \in Int
  BY BucketAssumption DEF Working
<1>2. Plus(elements[r], d) \in 0 .. CountMod - 1
  BY <1>1, Wraps
<1> QED
  BY <1>2 DEF Working

\* An add leaves the record it found idle
LEMMA AddingKept ==
    ASSUME Working, UNCHANGED adding
    PROVE  adding' = [p \in Adders |-> adding'[p]] /\ \A p \in Adders : AddState(adding'[p])
BY DEF Working

LEMMA AddingSet ==
    ASSUME Working, NEW p \in Adders, NEW a, AddState(a), adding' = [adding EXCEPT ![p] = a]
    PROVE  /\ adding' = [c \in Adders |-> adding'[c]] /\ \A c \in Adders : AddState(adding'[c])
           /\ adding'[p] = a /\ \A c \in Adders : c # p => adding'[c] = adding[c]
BY DEF Working

LEMMA TestingKept ==
    ASSUME Working, UNCHANGED testing
    PROVE  testing' = [q \in Testers |-> testing'[q]] /\ \A q \in Testers : TestState(testing'[q])
BY DEF Working

LEMMA TestingSet ==
    ASSUME Working, NEW q \in Testers, NEW t, TestState(t), testing' = [testing EXCEPT ![q] = t]
    PROVE  /\ testing' = [c \in Testers |-> testing'[c]] /\ \A c \in Testers : TestState(testing'[c])
           /\ testing'[q] = t /\ \A c \in Testers : c # q => testing'[c] = testing[c]
BY DEF Working

LEMMA TableKept ==
    ASSUME Table, UNCHANGED <<config, bucket>>
    PROVE  Table' /\ UsedElems' = UsedElems /\ LiveElems' = LiveElems
BY DEF Table, config, UsedElems, UsedOf, LiveElems

LEMMA ConfigKept ==
    ASSUME Next
    PROVE  UNCHANGED config
BY DEF Next, AddBegin, AddSweep, AddSum, Add, AddNew, AddFound, AddReuse, AddForced, AddLast,
       AddRefused, AddEnd, Del, TestBegin, TestWalk, TestCopy, TestEnd, Expire, Gc, Flush

LEMMA TypeInit == Init => TypeInv
<1> SUFFICES ASSUME Init PROVE TypeInv
  OBVIOUS
<1>1. PICK c \in Creations : forceadd = c[1] /\ bucketsize = c[2]
  BY DEF Init
<1>2. /\ config \in Creations /\ forceadd \in BOOLEAN
      /\ bucketsize \in Nat /\ bucketsize >= InitSize /\ bucketsize % InitSize = 0
  <2>1. c \in BOOLEAN \X Nat /\ c[2] >= InitSize /\ c[2] % InitSize = 0
    BY BucketAssumption
  <2>2. c = <<c[1], c[2]>>
    BY <2>1
  <2> QED
    BY <1>1, <2>1, <2>2 DEF config
<1>3. \A k \in Keys : bucket[k] = NoBucket
  BY DEF Init
<1>4. Table
  BY <1>2, <1>3, BucketNone DEF Init, Table
<1>5. 0 \in 0 .. CountMod - 1
  BY BucketAssumption, FS_CardinalityType
<1>6. Working
  BY <1>5, Idle, RegionOf DEF Init, Working
<1> QED
  BY <1>4, <1>6 DEF TypeInv

LEMMA ChangesStates ==
    ASSUME Working, NEW parted, Changes(parted)
    PROVE  testing' = [q \in Testers |-> testing'[q]] /\ \A q \in Testers : TestState(testing'[q])
<1>1. PICK gone, left : Beside(gone, left, parted)
  BY DEF Changes
<1> QED
  BY <1>1, BesideStates

LEMMA TimedOutNumber ==
    ASSUME Table, NEW r
    PROVE  IsFiniteSet(Counts(r)) /\ IsFiniteSet(TimedOut(r)) /\ - Cardinality(TimedOut(r)) \in Int
<1>1. Counts(r) \subseteq Elems /\ TimedOut(r) \subseteq Elems
  BY InTable DEF Counts, TimedOut
<1>2. IsFiniteSet(Counts(r)) /\ IsFiniteSet(TimedOut(r))
  BY <1>1, BucketAssumption, FS_Subset
<1>3. Cardinality(TimedOut(r)) \in Nat
  BY <1>2, FS_CardinalityType
<1> QED
  BY <1>2, <1>3

\* How an add begins
Begun(p, x) ==
    LET room == elements[Region(HKEY[x])] < MaxElem \div Locks IN
    [pc |-> IF room THEN "lock" ELSE "sweep", x |-> x,
     full |-> FALSE, seen |-> IF room THEN {} ELSE LiveElems]

LEMMA TypeAddBegin ==
    ASSUME TypeInv, NEW p \in Adders, NEW x \in Elems, AddBegin(p, x)
    PROVE  TypeInv'
<1>1. AddState(Begun(p, x))
  <2>1. LiveElems \subseteq Elems
    BY DEF LiveElems
  <2> QED
    BY <2>1 DEF AddState, Begun, NotAdding
<1>2. adding' = [adding EXCEPT ![p] = Begun(p, x)]
  BY DEF AddBegin, Begun
<1>3. adding' = [c \in Adders |-> adding'[c]] /\ \A c \in Adders : AddState(adding'[c])
  BY <1>1, <1>2, AddingSet DEF TypeInv
<1>4. UNCHANGED <<config, bucket, elements, testing, flushing>>
  BY DEF AddBegin
<1> QED
  BY <1>3, <1>4, TableKept, TestingKept DEF TypeInv, Working

\* The pass of an add through the region it has swept, and its judgement
LEMMA AddJudged ==
    ASSUME Working, NEW p \in Adders, adding[p].pc # "idle"
    PROVE  /\ AddState([adding[p] EXCEPT !.pc = "sum"])
           /\ AddState([adding[p] EXCEPT !.pc = "lock", !.full = IsFull, !.seen = {}])
<1> DEFINE a == adding[p]
           b == [a EXCEPT !.pc = "sum"]
           c == [a EXCEPT !.pc = "lock", !.full = IsFull, !.seen = {}]
<1>1. AddState(a) /\ a.pc # "idle"
  BY DEF Working
<1>2. IsFull \in BOOLEAN
  BY DEF IsFull
<1> HIDE DEF a
<1>3. b.pc = "sum" /\ b.x = a.x /\ b.full = a.full /\ b.seen = a.seen
      /\ b \in [pc : {"idle", "sweep", "sum", "lock"}, x : Elems \cup {NoElem},
                full : BOOLEAN, seen : SUBSET Elems]
  BY <1>1 DEF AddState
<1>4. c.pc = "lock" /\ c.x = a.x
      /\ c \in [pc : {"idle", "sweep", "sum", "lock"}, x : Elems \cup {NoElem},
                full : BOOLEAN, seen : SUBSET Elems]
  BY <1>1, <1>2 DEF AddState
<1> HIDE DEF b, c
<1>5. AddState(b) /\ AddState(c)
  BY <1>1, <1>3, <1>4 DEF AddState
<1> QED
  BY <1>5 DEF a, b, c

LEMMA TypeAddSweep ==
    ASSUME TypeInv, NEW p \in Adders, AddSweep(p)
    PROVE  TypeInv'
<1> DEFINE x == adding[p].x
           r == Region(HKEY[x])
<1>1. adding[p].pc = "sweep" /\ Sweep(r) /\ UNCHANGED <<config, flushing>>
  BY DEF AddSweep
<1>2. adding' = [adding EXCEPT ![p] = [adding[p] EXCEPT !.pc = "sum"]]
  BY DEF AddSweep
<1>3. x \in Elems /\ r \in Regions
  <2>1. x \in Elems
    BY <1>1 DEF TypeInv, Working, AddState
  <2> QED
    BY <2>1, Hashed, RegionOf
<1>4. adding' = [c \in Adders |-> adding'[c]] /\ \A c \in Adders : AddState(adding'[c])
  <2>1. AddState([adding[p] EXCEPT !.pc = "sum"])
    BY <1>1, AddJudged DEF TypeInv
  <2> QED
    BY <1>2, <2>1, AddingSet DEF TypeInv
<1>5. /\ Table' /\ Changes({})
      /\ elements' = [elements EXCEPT ![r] = Plus(@, -Cardinality(TimedOut(r)))]
  BY <1>1, SweepEffect DEF TypeInv
<1>6. elements' \in [Regions -> 0 .. CountMod - 1]
  <2>1. - Cardinality(TimedOut(r)) \in Int
    BY TimedOutNumber DEF TypeInv
  <2> HIDE DEF r
  <2> QED
    BY <1>3, <1>5, <2>1, CountersKept DEF TypeInv
<1>7. testing' = [q \in Testers |-> testing'[q]] /\ \A q \in Testers : TestState(testing'[q])
  BY <1>5, ChangesStates DEF TypeInv
<1>8. flushing' \in Regions
  BY <1>1 DEF TypeInv, Working
<1> QED
  BY <1>4, <1>5, <1>6, <1>7, <1>8 DEF TypeInv, Working

LEMMA TypeGc ==
    ASSUME TypeInv, NEW r \in Regions, Gc(r)
    PROVE  TypeInv'
<1>1. Sweep(r) /\ UNCHANGED <<config, adding, flushing>>
  BY DEF Gc
<1>2. /\ Table' /\ Changes({})
      /\ elements' = [elements EXCEPT ![r] = Plus(@, -Cardinality(TimedOut(r)))]
  BY <1>1, SweepEffect DEF TypeInv
<1>3. elements' \in [Regions -> 0 .. CountMod - 1]
  <2>1. - Cardinality(TimedOut(r)) \in Int
    BY TimedOutNumber DEF TypeInv
  <2> QED
    BY <1>2, <2>1, CountersKept DEF TypeInv
<1>4. testing' = [q \in Testers |-> testing'[q]] /\ \A q \in Testers : TestState(testing'[q])
  BY <1>2, ChangesStates DEF TypeInv
<1>5. adding' = [c \in Adders |-> adding'[c]] /\ \A c \in Adders : AddState(adding'[c])
  BY <1>1, AddingKept DEF TypeInv
<1>6. flushing' \in Regions
  BY <1>1 DEF TypeInv, Working
<1> QED
  BY <1>2, <1>3, <1>4, <1>5, <1>6 DEF TypeInv, Working

LEMMA TypeAddSum ==
    ASSUME TypeInv, NEW p \in Adders, AddSum(p)
    PROVE  TypeInv'
<1> DEFINE a == [adding[p] EXCEPT !.pc = "lock", !.full = IsFull, !.seen = {}]
<1>1. adding[p].pc = "sum" /\ UNCHANGED <<config, bucket, elements, testing, flushing>>
  BY DEF AddSum
<1>2. AddState(a)
  BY <1>1, AddJudged DEF TypeInv
<1>3. adding' = [adding EXCEPT ![p] = a]
  BY DEF AddSum
<1> HIDE DEF a
<1>4. adding' = [c \in Adders |-> adding'[c]] /\ \A c \in Adders : AddState(adding'[c])
  BY <1>2, <1>3, AddingSet DEF TypeInv
<1> QED
  BY <1>1, <1>4, TableKept, TestingKept DEF TypeInv, Working

LEMMA TypeAdd ==
    ASSUME TypeInv, NEW p \in Adders, Add(p)
    PROVE  TypeInv'
<1> DEFINE x == adding[p].x
           r == Region(HKEY[x])
<1>1. x \in Elems /\ r \in Regions
  <2>1. x \in Elems
    BY DEF TypeInv, Working, AddState, Add
  <2> QED
    BY <2>1, Hashed, RegionOf
<1>2. Table' /\ Outcome(p)
  BY <1>1, AddEffect DEF TypeInv
<1>3. PICK ret : AddEnd(p, ret)
  BY <1>2 DEF Outcome, AddRefused, Stores
<1>4. adding' = [c \in Adders |-> adding'[c]] /\ \A c \in Adders : AddState(adding'[c])
  BY <1>3, AddEndStates DEF TypeInv
<1>5. \/ UNCHANGED testing
      \/ \E parted : Changes(parted)
  BY <1>2 DEF Outcome, AddRefused, Stores
<1>6. testing' = [q \in Testers |-> testing'[q]] /\ \A q \in Testers : TestState(testing'[q])
  BY <1>5, TestingKept, ChangesStates DEF TypeInv
<1>7. \/ UNCHANGED elements
      \/ \E d \in {0, 1} : elements' = [elements EXCEPT ![r] = Plus(@, d)]
  BY <1>2 DEF Outcome, AddRefused, Counted1
<1>8. elements' \in [Regions -> 0 .. CountMod - 1]
  <2>1. CASE UNCHANGED elements
    BY <2>1 DEF TypeInv, Working
  <2>2. CASE \E d \in {0, 1} : elements' = [elements EXCEPT ![r] = Plus(@, d)]
    <3>1. PICK d \in {0, 1} : elements' = [elements EXCEPT ![r] = Plus(@, d)]
      BY <2>2
    <3>2. d \in Int
      OBVIOUS
    <3> HIDE DEF r
    <3> QED
      BY <1>1, <3>1, <3>2, CountersKept DEF TypeInv
  <2> QED
    BY <1>7, <2>1, <2>2
<1>9. flushing' \in Regions
  BY <1>3 DEF TypeInv, Working, AddEnd
<1> QED
  BY <1>2, <1>4, <1>6, <1>8, <1>9 DEF TypeInv, Working

LEMMA TypeDel ==
    ASSUME TypeInv, NEW p \in Adders, NEW x \in Elems, Del(p, x)
    PROVE  TypeInv'
<1> DEFINE r == Region(HKEY[x])
<1>1. r \in Regions
  BY Hashed, RegionOf
<1>2. /\ Table'
      /\ x \notin LiveElems => UNCHANGED <<bucket, elements, testing>>
      /\ x \in LiveElems => /\ elements' = [elements EXCEPT ![r] = Plus(@, -1)]
                            /\ Changes({x})
  BY DelEffect DEF TypeInv
<1>3. UNCHANGED <<adding, flushing>>
  BY DEF Del
<1>4. testing' = [q \in Testers |-> testing'[q]] /\ \A q \in Testers : TestState(testing'[q])
  BY <1>2, TestingKept, ChangesStates DEF TypeInv
<1>5. elements' \in [Regions -> 0 .. CountMod - 1]
  <2>1. CASE UNCHANGED elements
    BY <2>1 DEF TypeInv, Working
  <2>2. CASE elements' = [elements EXCEPT ![r] = Plus(@, -1)]
    <3> DEFINE d == -1
    <3>1. d \in Int /\ elements' = [elements EXCEPT ![r] = Plus(@, d)]
      BY <2>2
    <3> HIDE DEF r, d
    <3> QED
      BY <1>1, <3>1, CountersKept DEF TypeInv
  <2> QED
    BY <1>2, <2>1, <2>2
<1>6. flushing' \in Regions
  BY <1>3 DEF TypeInv, Working
<1> QED
  BY <1>2, <1>3, <1>4, <1>5, <1>6, AddingKept DEF TypeInv, Working

LEMMA TypeFlush ==
    ASSUME TypeInv, Flush
    PROVE  TypeInv'
<1> DEFINE r == flushing
<1>1. /\ Table' /\ elements' = [elements EXCEPT ![r] = 0]
      /\ Changes({x \in Elems : HKEY[x] \in KeysOf(r)})
  BY FlushEffect DEF TypeInv
<1>2. UNCHANGED adding /\ flushing' = (r + 1) % Locks
  BY DEF Flush
<1>3. testing' = [q \in Testers |-> testing'[q]] /\ \A q \in Testers : TestState(testing'[q])
  BY <1>1, ChangesStates DEF TypeInv
<1>4. 0 \in 0 .. CountMod - 1
  BY BucketAssumption, FS_CardinalityType
<1>5. elements' \in [Regions -> 0 .. CountMod - 1]
  BY <1>1, <1>4 DEF TypeInv, Working
<1>6. flushing' \in Regions
  BY <1>2, RegionOf DEF TypeInv, Working
<1> QED
  BY <1>1, <1>2, <1>3, <1>5, <1>6, AddingKept DEF TypeInv, Working

\* How a test begins
TestBegun(x) ==
    [pc |-> IF bucket[HKEY[x]].null THEN "copy" ELSE "walk", x |-> x, i |-> 1,
     copy |-> "none", in |-> x \in LiveElems, out |-> x \notin LiveElems]

LEMMA TypeTestBegin ==
    ASSUME TypeInv, NEW q \in Testers, NEW x \in Elems, TestBegin(q, x)
    PROVE  TypeInv'
<1>1. TestState(TestBegun(x))
  BY DEF TestState, TestBegun, NotTesting
<1>2. testing' = [testing EXCEPT ![q] = TestBegun(x)]
      /\ UNCHANGED <<config, bucket, elements, adding, flushing>>
  BY DEF TestBegin, TestBegun
<1>3. testing' = [c \in Testers |-> testing'[c]] /\ \A c \in Testers : TestState(testing'[c])
  BY <1>1, <1>2, TestingSet DEF TypeInv
<1> QED
  BY <1>2, <1>3, TableKept, AddingKept DEF TypeInv, Working

LEMMA TypeTestEnd ==
    ASSUME TypeInv, NEW q \in Testers, NEW ret, TestEnd(q, ret)
    PROVE  TypeInv'
<1>1. testing' = [testing EXCEPT ![q] = NotTesting]
      /\ UNCHANGED <<config, bucket, elements, adding, flushing>>
  BY DEF TestEnd
<1>2. testing' = [c \in Testers |-> testing'[c]] /\ \A c \in Testers : TestState(testing'[c])
  BY <1>1, Idle, TestingSet DEF TypeInv
<1> QED
  BY <1>1, <1>2, TableKept, AddingKept DEF TypeInv, Working

\* A test goes on to the next slot
LEMMA TestNext ==
    ASSUME Working, NEW q \in Testers, testing[q].pc = "walk",
           testing' = [testing EXCEPT ![q].i = @ + 1]
    PROVE  LET t == testing[q]
               u == testing'[q]
           IN  /\ testing' = [c \in Testers |-> testing'[c]]
               /\ \A c \in Testers : TestState(testing'[c])
               /\ \A c \in Testers : c # q => testing'[c] = testing[c]
               /\ u.pc = "walk" /\ u.x = t.x /\ u.i = t.i + 1 /\ u.in = t.in /\ u.out = t.out
<1> DEFINE t == testing[q]
           u == [t EXCEPT !.i = t.i + 1]
<1>1. TestState(t) /\ t.pc = "walk"
  BY DEF Working
<1>2. testing' = [testing EXCEPT ![q] = u]
  OBVIOUS
<1> HIDE DEF t
<1>3. /\ u \in [pc : {"idle", "walk", "copy"}, x : Elems \cup {NoElem}, i : Nat,
                copy : {"none", "live", "stale"}, in : BOOLEAN, out : BOOLEAN]
      /\ u.pc = "walk" /\ u.x = t.x /\ u.i = t.i + 1 /\ u.in = t.in /\ u.out = t.out
  BY <1>1 DEF TestState
<1> HIDE DEF u
<1>4. TestState(u)
  BY <1>1, <1>3 DEF TestState
<1>5. /\ testing' = [c \in Testers |-> testing'[c]] /\ \A c \in Testers : TestState(testing'[c])
      /\ testing'[q] = u /\ \A c \in Testers : c # q => testing'[c] = testing[c]
  BY <1>2, <1>4, TestingSet
<1> QED
  BY <1>3, <1>5 DEF t

LEMMA TypeTestWalk ==
    ASSUME TypeInv, NEW q \in Testers, TestWalk(q)
    PROVE  TypeInv'
<1>1. CASE \E ret : TestEnd(q, ret)
  BY <1>1, TypeTestEnd
<1>2. CASE ~ \E ret : TestEnd(q, ret)
  <2>1. /\ testing[q].pc = "walk" /\ testing' = [testing EXCEPT ![q].i = @ + 1]
        /\ UNCHANGED <<config, bucket, elements, adding, flushing>>
    BY <1>2 DEF TestWalk
  <2>2. testing' = [c \in Testers |-> testing'[c]] /\ \A c \in Testers : TestState(testing'[c])
    BY <2>1, TestNext DEF TypeInv
  <2> QED
    BY <2>1, <2>2, TableKept, AddingKept DEF TypeInv, Working
<1> QED
  BY <1>1, <1>2

\* A test for an element that times out
ExpireFields(t, u, x) ==
    /\ t.x # x => u = t
    /\ t.x = x => /\ u.pc = t.pc /\ u.x = t.x /\ u.i = t.i /\ u.in = t.in /\ u.out
                  /\ t.copy = "live" => u.copy = "none"
                  /\ t.copy # "live" => u.copy = t.copy

LEMMA ExpireStates ==
    ASSUME Working, NEW x \in Elems, Expire(x)
    PROVE  /\ testing' = [q \in Testers |-> testing'[q]]
           /\ \A q \in Testers : /\ TestState(testing'[q])
                                 /\ ExpireFields(testing[q], testing'[q], x)
<1>1. testing' = [q \in Testers |-> testing'[q]]
  BY DEF Expire
<1>2. ASSUME NEW q \in Testers
      PROVE  TestState(testing'[q]) /\ ExpireFields(testing[q], testing'[q], x)
  <2> DEFINE t == testing[q]
             u == testing'[q]
             copy == IF t.copy = "live" THEN "none" ELSE t.copy
  <2>1. TestState(t)
    BY DEF Working
  <2>2. /\ t.x # x => u = t
        /\ t.x = x => u = [t EXCEPT !.copy = copy, !.out = TRUE]
    BY DEF Expire
  <2>3. copy \in {"none", "live", "stale"}
    BY <2>1 DEF TestState
  <2>4. /\ t.copy = "live" => copy = "none"
        /\ t.copy # "live" => copy = t.copy
    OBVIOUS
  <2> HIDE DEF t, u, copy
  <2>5. CASE t.x # x
    <3>1. TestState(u)
      BY <2>1, <2>2, <2>5
    <3>2. ExpireFields(t, u, x)
      BY <2>2, <2>5 DEF ExpireFields
    <3> QED
      BY <3>1, <3>2 DEF t, u
  <2>6. CASE t.x = x
    <3>1. t.pc # "idle"
      BY <2>1, <2>6, BucketAssumption DEF TestState, NotTesting
    <3>2. /\ u \in [pc : {"idle", "walk", "copy"}, x : Elems \cup {NoElem}, i : Nat,
                    copy : {"none", "live", "stale"}, in : BOOLEAN, out : BOOLEAN]
          /\ u.pc = t.pc /\ u.x = t.x /\ u.i = t.i /\ u.in = t.in /\ u.out /\ u.copy = copy
      BY <2>1, <2>2, <2>3, <2>6 DEF TestState
    <3>3. TestState(u)
      BY <2>6, <3>1, <3>2 DEF TestState
    <3>4. ExpireFields(t, u, x)
      BY <2>4, <2>6, <3>2 DEF ExpireFields
    <3> QED
      BY <3>3, <3>4 DEF t, u
  <2> QED
    BY <2>5, <2>6
<1> QED
  BY <1>1, <1>2

LEMMA TypeExpire ==
    ASSUME TypeInv, NEW x \in Elems, Expire(x)
    PROVE  TypeInv'
<1>1. Table'
  BY ExpireEffect DEF TypeInv
<1>2. testing' = [q \in Testers |-> testing'[q]] /\ \A q \in Testers : TestState(testing'[q])
  BY ExpireStates DEF TypeInv
<1>3. UNCHANGED <<elements, adding, flushing>>
  BY DEF Expire
<1> QED
  BY <1>1, <1>2, <1>3, AddingKept DEF TypeInv, Working

LEMMA TypeNext == TypeInv /\ [Next]_vars => TypeInv'
<1> SUFFICES ASSUME TypeInv, [Next]_vars PROVE TypeInv'
  OBVIOUS
<1>1. ASSUME NEW p \in Adders, NEW x \in Elems, AddBegin(p, x) PROVE TypeInv'
  BY <1>1, TypeAddBegin
<1>2. ASSUME NEW p \in Adders, AddSweep(p) \/ AddSum(p) \/ Add(p) PROVE TypeInv'
  BY <1>2, TypeAddSweep, TypeAddSum, TypeAdd
<1>3. ASSUME NEW p \in Adders, NEW x \in Elems, Del(p, x) PROVE TypeInv'
  BY <1>3, TypeDel
<1>4. ASSUME NEW q \in Testers, NEW x \in Elems, TestBegin(q, x) PROVE TypeInv'
  BY <1>4, TypeTestBegin
<1>5. ASSUME NEW q \in Testers, TestWalk(q) PROVE TypeInv'
  BY <1>5, TypeTestWalk
<1>6. ASSUME NEW q \in Testers, TestCopy(q) PROVE TypeInv'
  BY <1>6, TypeTestEnd DEF TestCopy
<1>7. ASSUME NEW x \in Elems, Expire(x) PROVE TypeInv'
  BY <1>7, TypeExpire
<1>8. ASSUME NEW r \in Regions, Gc(r) PROVE TypeInv'
  BY <1>8, TypeGc
<1>9. CASE Flush
  BY <1>9, TypeFlush
<1>10. CASE UNCHANGED vars
  BY <1>10, TableKept, AddingKept, TestingKept DEF TypeInv, Working, vars
<1> QED
  BY <1>1, <1>2, <1>3, <1>4, <1>5, <1>6, <1>7, <1>8, <1>9, <1>10 DEF Next

LEMMA TypeAlways == Spec => []TypeInv
<1> QED
  BY TypeInit, TypeNext, PTL DEF Spec

LEMMA TypeImplies == TypeInv => TypeOK
<1> SUFFICES ASSUME TypeInv PROVE TypeOK
  OBVIOUS
<1>1. ASSUME NEW k \in Keys
      PROVE  /\ bucket[k].size \in 0 .. bucketsize /\ bucket[k].size % InitSize = 0
             /\ Len(bucket[k].slots) <= bucket[k].size
             /\ \A i \in DOMAIN bucket[k].slots :
                   \/ bucket[k].slots[i] = Hole
                   \/ /\ bucket[k].slots[i].x \in Elems
                      /\ bucket[k].slots[i].life \in {"live", "expired"}
  <2> DEFINE b == bucket[k]
             s == b.slots
  <2>1. Good(b, k) /\ b.size <= bucketsize /\ bucketsize \in Nat
    BY DEF TypeInv, Table
  <2>2. /\ b.size \in Nat /\ b.size % InitSize = 0 /\ s \in Seq(Slot) /\ Len(s) <= b.size
    BY <2>1 DEF Good
  <2> HIDE DEF b
  <2>3. \A i \in DOMAIN s : s[i] = Hole \/ s[i] \in Stored
    <3> HIDE DEF s
    <3> QED
      BY <2>2 DEF Slot
  <2>4. \A i \in DOMAIN s : s[i] = Hole \/ (s[i].x \in Elems /\ s[i].life \in {"live", "expired"})
    BY <2>3 DEF Stored
  <2>5. b.size \in 0 .. bucketsize
    BY <2>1, <2>2
  <2> QED
    BY <2>2, <2>4, <2>5 DEF b
<1>2. \A p \in Adders :
          /\ adding[p].pc \in {"idle", "sweep", "sum", "lock"}
          /\ adding[p].pc # "idle" => adding[p].x \in Elems
          /\ adding[p].seen \subseteq Elems
  BY DEF TypeInv, Working, AddState
<1>3. \A q \in Testers :
          /\ testing[q].pc \in {"idle", "walk", "copy"}
          /\ testing[q].pc # "idle" => testing[q].x \in Elems
  BY DEF TypeInv, Working, TestState
<1>4. config \in Creations /\ elements \in [Regions -> 0 .. CountMod - 1] /\ flushing \in Regions
  BY DEF TypeInv, Table, Working
<1> QED
  BY <1>1, <1>2, <1>3, <1>4 DEF TypeOK

\* The bounds of the arrays: whatever adds, deletes, timeouts, gc and flush do, in
\* any order, an array never has more slots than its size says, and its size is a
\* multiple of AHASH_INIT_SIZE up to bucketsize (mtype_add, mtype_del, mtype_gc_do)
THEOREM TypeCorrect == Spec => []TypeOK
<1> QED
  BY TypeAlways, TypeImplies, PTL

----------------------------------------------------------------------------
(* The counters of the regions                                             *)

\* The elements whose bucket a region locks are those in the buckets it sweeps
\* and flushes.  This is so with one region, for which RegionsAgreeWithOne holds
RegionsAgree == \A r \in Regions : KeysOf(r) = {k \in Keys : Region(k) = r}

LEMMA RegionsAgreeWithOne ==
    ASSUME Locks = 1
    PROVE  RegionsAgree
<1>1. Buckets \in Nat \ {0}
  BY BucketAssumption
<1>2. Buckets \div Locks = Buckets /\ Regions = {0}
  BY <1>1 DEF Regions
<1>3. \A k \in Keys : k \div Buckets = 0 /\ k % Locks = 0
  BY <1>1 DEF Keys
<1>4. KeysOf(0) = Keys
  BY <1>2, <1>3 DEF KeysOf
<1>5. {k \in Keys : Region(k) = 0} = Keys
  BY <1>3 DEF Region
<1> QED
  BY <1>2, <1>4, <1>5 DEF RegionsAgree

CountInv == TypeInv /\ \A r \in Regions : elements[r] = Cardinality(Counts(r))

\* A counter does not overflow
LEMMA FewEnough ==
    ASSUME NEW S, S \subseteq Elems
    PROVE  IsFiniteSet(S) /\ Cardinality(S) \in 0 .. CountMod - 1 /\ Cardinality(S) \in Nat
<1>1. IsFiniteSet(S) /\ Cardinality(S) <= Cardinality(Elems)
  BY BucketAssumption, FS_Subset
<1>2. Cardinality(S) \in Nat /\ Cardinality(Elems) \in Nat
  BY <1>1, BucketAssumption, FS_CardinalityType
<1>3. CountMod \in Nat /\ CountMod > Cardinality(Elems)
  BY BucketAssumption
<1> QED
  BY <1>1, <1>2, <1>3

LEMMA CountsAre ==
    \A r : Counts(r) \subseteq Elems /\ Counts(r)' \subseteq Elems
BY DEF Counts, UsedElems, UsedOf

LEMMA RegionOfElement ==
    ASSUME RegionsAgree, NEW r \in Regions, NEW x \in Elems
    PROVE  HKEY[x] \in KeysOf(r) <=> Region(HKEY[x]) = r
BY Hashed DEF RegionsAgree

\* A counter follows the entries of its region
LEMMA CounterFollows ==
    ASSUME CountInv, TypeInv', NEW r \in Regions, NEW d \in Int,
           elements'[r] = Plus(elements[r], d),
           Cardinality(Counts(r)') = Cardinality(Counts(r)) + d,
           \A q \in Regions : q # r => elements'[q] = elements[q] /\ Counts(q)' = Counts(q)
    PROVE  CountInv'
<1>1. elements[r] = Cardinality(Counts(r))
  BY DEF CountInv
<1>2. Cardinality(Counts(r)') \in 0 .. CountMod - 1
  BY CountsAre, FewEnough
<1>3. Cardinality(Counts(r)) \in Int
  BY CountsAre, FewEnough
<1>4. elements'[r] = Cardinality(Counts(r)')
  <2> DEFINE n == Cardinality(Counts(r))
             m == Cardinality(Counts(r)')
  <2>1. elements'[r] = Plus(n, d) /\ n \in Int /\ m = n + d /\ m \in 0 .. CountMod - 1
    BY <1>1, <1>2, <1>3
  <2> HIDE DEF n, m
  <2>2. elements'[r] = m
    BY <2>1, Wraps
  <2> QED
    BY <2>2 DEF m
<1>5. \A q \in Regions : q # r => elements'[q] = Cardinality(Counts(q)')
  BY DEF CountInv
<1> QED
  BY <1>4, <1>5 DEF CountInv

\* An element comes, goes or takes the place of another one of its bucket
LEMMA CountsCome ==
    ASSUME RegionsAgree, NEW x \in Elems, x \notin UsedElems, UsedElems' = UsedElems \cup {x}
    PROVE  LET r == Region(HKEY[x]) IN
           /\ Cardinality(Counts(r)') = Cardinality(Counts(r)) + 1
           /\ \A q \in Regions : q # r => Counts(q)' = Counts(q)
<1> DEFINE r == Region(HKEY[x])
<1>1. r \in Regions /\ HKEY[x] \in KeysOf(r)
  BY Hashed, RegionOf, RegionOfElement
<1>2. \A q \in Regions : HKEY[x] \in KeysOf(q) => q = r
  BY RegionOfElement
<1>3. Counts(r)' = Counts(r) \cup {x} /\ x \notin Counts(r)
  BY <1>1 DEF Counts
<1>4. \A q \in Regions : q # r => Counts(q)' = Counts(q)
  BY <1>2 DEF Counts
<1>5. IsFiniteSet(Counts(r))
  BY CountsAre, FewEnough
<1>6. Cardinality(Counts(r) \cup {x}) = Cardinality(Counts(r)) + 1
  BY <1>3, <1>5, FS_AddElement
<1> QED
  BY <1>3, <1>4, <1>6

LEMMA CountsGo ==
    ASSUME RegionsAgree, NEW x \in UsedElems, x \in Elems, UsedElems' = UsedElems \ {x}
    PROVE  LET r == Region(HKEY[x]) IN
           /\ Cardinality(Counts(r)') = Cardinality(Counts(r)) - 1
           /\ \A q \in Regions : q # r => Counts(q)' = Counts(q)
<1> DEFINE r == Region(HKEY[x])
<1>1. r \in Regions /\ HKEY[x] \in KeysOf(r)
  BY Hashed, RegionOf, RegionOfElement
<1>2. \A q \in Regions : HKEY[x] \in KeysOf(q) => q = r
  BY RegionOfElement
<1>3. Counts(r)' = Counts(r) \ {x} /\ x \in Counts(r)
  BY <1>1 DEF Counts
<1>4. \A q \in Regions : q # r => Counts(q)' = Counts(q)
  BY <1>2 DEF Counts
<1>5. IsFiniteSet(Counts(r))
  BY CountsAre, FewEnough
<1>6. Cardinality(Counts(r) \ {x}) = Cardinality(Counts(r)) - 1
  BY <1>3, <1>5, FS_RemoveElement
<1> QED
  BY <1>3, <1>4, <1>6

LEMMA CountsExchange ==
    ASSUME RegionsAgree, NEW x \in Elems, x \notin UsedElems, NEW y \in UsedElems, y \in Elems,
           HKEY[y] = HKEY[x], UsedElems' = (UsedElems \ {y}) \cup {x}
    PROVE  LET r == Region(HKEY[x]) IN
           /\ Cardinality(Counts(r)') = Cardinality(Counts(r))
           /\ \A q \in Regions : q # r => Counts(q)' = Counts(q)
<1> DEFINE r == Region(HKEY[x])
           S == Counts(r) \ {y}
<1>1. r \in Regions /\ HKEY[x] \in KeysOf(r)
  BY Hashed, RegionOf, RegionOfElement
<1>2. \A q \in Regions : HKEY[x] \in KeysOf(q) => q = r
  BY RegionOfElement
<1>3. Counts(r)' = S \cup {x} /\ x \notin S /\ y \in Counts(r)
  BY <1>1 DEF Counts
<1>4. \A q \in Regions : q # r => Counts(q)' = Counts(q)
  BY <1>2 DEF Counts
<1>5. IsFiniteSet(Counts(r)) /\ S \subseteq Elems
  BY CountsAre, FewEnough
<1>6. Cardinality(S) = Cardinality(Counts(r)) - 1
  BY <1>3, <1>5, FS_RemoveElement
<1>7. IsFiniteSet(S) /\ Cardinality(S) \in Nat /\ Cardinality(Counts(r)) \in Nat
  BY <1>5, CountsAre, FewEnough
<1> HIDE DEF S
<1>8. Cardinality(S \cup {x}) = Cardinality(S) + 1
  BY <1>3, <1>7, FS_AddElement
<1> QED
  BY <1>3, <1>4, <1>6, <1>7, <1>8

\* The entries that timed out go
LEMMA CountsSwept ==
    ASSUME RegionsAgree, NEW r \in Regions, UsedElems' = UsedElems \ TimedOut(r)
    PROVE  /\ Cardinality(Counts(r)') = Cardinality(Counts(r)) + (- Cardinality(TimedOut(r)))
           /\ \A q \in Regions : q # r => Counts(q)' = Counts(q)
<1> DEFINE T == TimedOut(r)
<1>1. T \subseteq Counts(r)
  BY DEF TimedOut
<1>2. \A x \in T : x \in Elems /\ HKEY[x] \in KeysOf(r)
  BY <1>1, CountsAre DEF Counts
<1>3. \A q \in Regions : q # r => \A x \in T : HKEY[x] \notin KeysOf(q)
  BY <1>2, RegionOfElement
<1>4. Counts(r)' = Counts(r) \ T
  BY DEF Counts
<1>5. \A q \in Regions : q # r => Counts(q)' = Counts(q)
  <2> HIDE DEF T
  <2> QED
    BY <1>3 DEF Counts, T
<1> HIDE DEF T
<1>6. /\ IsFiniteSet(Counts(r)) /\ IsFiniteSet(T) /\ Cardinality(T) \in Nat
      /\ Cardinality(Counts(r)) \in Nat
  <2>1. T \subseteq Elems
    BY <1>1, CountsAre
  <2> QED
    BY <2>1, CountsAre, FewEnough
<1>7. Cardinality(Counts(r) \ T) = Cardinality(Counts(r)) - Cardinality(Counts(r) \cap T)
  BY <1>6, FS_Difference
<1>8. Counts(r) \cap T = T
  BY <1>1
<1>9. Cardinality(Counts(r)') = Cardinality(Counts(r)) + (- Cardinality(T))
  BY <1>4, <1>6, <1>7, <1>8
<1> QED
  BY <1>5, <1>9 DEF T

\* A flush empties a region
LEMMA CountsFlushed ==
    ASSUME RegionsAgree, NEW r \in Regions, UsedElems' = UsedElems \ Counts(r)
    PROVE  /\ Cardinality(Counts(r)') = 0
           /\ \A q \in Regions : q # r => Counts(q)' = Counts(q)
<1>1. \A x \in Counts(r) : x \in Elems /\ HKEY[x] \in KeysOf(r)
  BY CountsAre DEF Counts
<1>2. \A q \in Regions : q # r => \A x \in Counts(r) : HKEY[x] \notin KeysOf(q)
  BY <1>1, RegionOfElement
<1>3. Counts(r)' = {}
  BY DEF Counts
<1>4. \A q \in Regions : q # r => Counts(q)' = Counts(q)
  BY <1>2 DEF Counts
<1> QED
  BY <1>3, <1>4, FS_EmptySet

LEMMA CountsStay ==
    ASSUME CountInv, TypeInv', UNCHANGED elements, UsedElems' = UsedElems
    PROVE  CountInv'
BY DEF CountInv, Counts

\* One counter is set, for CounterFollows
LEMMA CounterSet ==
    ASSUME Working, NEW r \in Regions, NEW d \in Int,
           \/ elements' = [elements EXCEPT ![r] = Plus(@, d)]
           \/ d = 0 /\ elements' = elements
    PROVE  /\ elements'[r] = Plus(elements[r], d)
           /\ \A q \in Regions : q # r => elements'[q] = elements[q]
<1>1. elements[r] \in 0 .. CountMod - 1 /\ elements[r] \in Int
  <2>1. CountMod \in Int
    BY BucketAssumption
  <2> QED
    BY <2>1 DEF Working
<1>2. CASE elements' = [elements EXCEPT ![r] = Plus(@, d)]
  BY <1>2 DEF Working
<1>3. CASE d = 0 /\ elements' = elements
  <2>1. elements[r] + d = elements[r]
    BY <1>1, <1>3
  <2>2. Plus(elements[r], d) = elements[r]
    BY <1>1, <2>1, Wraps
  <2> QED
    BY <1>3, <2>2
<1> QED
  BY <1>2, <1>3

LEMMA CountAdd ==
    ASSUME RegionsAgree, CountInv, TypeInv', NEW p \in Adders, Add(p)
    PROVE  CountInv'
<1>0. PICK x \in Elems : x = adding[p].x
  BY DEF CountInv, TypeInv, Working, AddState, Add
<1>1. PICK r \in Regions : r = Region(HKEY[x])
  BY Hashed, RegionOf
<1>2. Outcome(p) /\ UsedElems \subseteq Elems /\ LiveElems \subseteq UsedElems
  BY <1>0, AddEffect, InTable DEF CountInv, TypeInv
<1>3. CASE \E ret \in {"exist", "full", "again", "nomem", "ok"} : AddRefused(p, ret)
  <2>1. UNCHANGED <<bucket, elements>>
    BY <1>3 DEF AddRefused
  <2> QED
    BY <2>1, CountsStay DEF UsedElems, UsedOf
<1>4. CASE x \notin UsedElems /\ Stores(p, {}, {x}) /\ Counted1(p, 1)
  <2>1. UsedElems' = UsedElems \cup {x} /\ elements' = [elements EXCEPT ![r] = Plus(@, 1)]
    BY <1>0, <1>1, <1>4 DEF Stores, Counted1
  <2>2. /\ Cardinality(Counts(r)') = Cardinality(Counts(r)) + 1
        /\ \A q \in Regions : q # r => Counts(q)' = Counts(q)
    BY <1>1, <1>4, <2>1, CountsCome
  <2> DEFINE d == 1
  <2>4. d \in Int /\ elements' = [elements EXCEPT ![r] = Plus(@, d)]
    BY <2>1
  <2> HIDE DEF d
  <2>3. /\ elements'[r] = Plus(elements[r], d)
        /\ \A q \in Regions : q # r => elements'[q] = elements[q]
    BY <1>1, <2>4, CounterSet DEF CountInv, TypeInv
  <2> QED
    BY <1>1, <2>2, <2>3, CounterFollows DEF d
<1>5. CASE x \in UsedElems /\ Stores(p, {}, {x}) /\ UNCHANGED elements
  <2>1. UsedElems' = UsedElems
    BY <1>0, <1>5 DEF Stores
  <2> QED
    BY <1>5, <2>1, CountsStay
<1>6. ASSUME x \notin UsedElems, NEW y \in UsedElems, HKEY[y] = HKEY[x],
             UsedElems' = (UsedElems \ {y}) \cup {x},
             Counted1(p, 0) \/ UNCHANGED elements
      PROVE  CountInv'
  <2>1. /\ Cardinality(Counts(r)') = Cardinality(Counts(r))
        /\ \A q \in Regions : q # r => Counts(q)' = Counts(q)
    BY <1>1, <1>2, <1>6, CountsExchange
  <2>2. /\ elements'[r] = Plus(elements[r], 0)
        /\ \A q \in Regions : q # r => elements'[q] = elements[q]
    <3>1. \/ elements' = [elements EXCEPT ![r] = Plus(@, 0)]
          \/ elements' = elements
      BY <1>0, <1>1, <1>6 DEF Counted1
    <3> QED
      BY <1>1, <3>1, CounterSet DEF CountInv, TypeInv
  <2>3. Cardinality(Counts(r)) \in Nat
    BY CountsAre, FewEnough
  <2>4. Cardinality(Counts(r)') = Cardinality(Counts(r)) + 0
    BY <2>1, <2>3
  <2> QED
    BY <1>1, <2>1, <2>2, <2>4, CounterFollows
<1>7. CASE /\ x \notin UsedElems
           /\ \E y \in UsedElems \ LiveElems :
                 HKEY[y] = HKEY[x] /\ Stores(p, {y}, {x}) /\ Counted1(p, 0)
  <2>1. PICK y \in UsedElems \ LiveElems :
           HKEY[y] = HKEY[x] /\ Stores(p, {y}, {x}) /\ Counted1(p, 0)
    BY <1>7
  <2>2. UsedElems' = (UsedElems \ {y}) \cup {x}
    BY <1>0, <2>1 DEF Stores
  <2> QED
    BY <1>6, <1>7, <2>1, <2>2
<1>8. CASE /\ x \notin UsedElems
           /\ \E y \in LiveElems :
                 HKEY[y] = HKEY[x] /\ Stores(p, {y}, {x, y}) /\ UNCHANGED elements
  <2>1. PICK y \in LiveElems :
           HKEY[y] = HKEY[x] /\ Stores(p, {y}, {x, y}) /\ UNCHANGED elements
    BY <1>8
  <2>2. UsedElems' = (UsedElems \ {y}) \cup {x} /\ y \in UsedElems
    BY <1>0, <1>2, <2>1 DEF Stores
  <2> QED
    BY <1>6, <1>8, <2>1, <2>2
<1> QED
  BY <1>0, <1>2, <1>3, <1>4, <1>5, <1>7, <1>8 DEF Outcome

LEMMA CountSweep ==
    ASSUME RegionsAgree, CountInv, TypeInv', NEW r \in Regions, Sweep(r), UNCHANGED config
    PROVE  CountInv'
<1> DEFINE d == - Cardinality(TimedOut(r))
<1>1. d \in Int
  BY TimedOutNumber DEF CountInv, TypeInv
<1>2. /\ UsedElems' = UsedElems \ TimedOut(r)
      /\ elements' = [elements EXCEPT ![r] = Plus(@, d)]
  BY SweepEffect DEF CountInv, TypeInv
<1>3. /\ Cardinality(Counts(r)') = Cardinality(Counts(r)) + d
      /\ \A q \in Regions : q # r => Counts(q)' = Counts(q)
  BY <1>2, CountsSwept
<1> HIDE DEF d
<1>4. /\ elements'[r] = Plus(elements[r], d)
      /\ \A q \in Regions : q # r => elements'[q] = elements[q]
  BY <1>1, <1>2, CounterSet DEF CountInv, TypeInv
<1> QED
  BY <1>1, <1>3, <1>4, CounterFollows

LEMMA CountDel ==
    ASSUME RegionsAgree, CountInv, TypeInv', NEW p, NEW x \in Elems, Del(p, x)
    PROVE  CountInv'
<1> DEFINE r == Region(HKEY[x])
           d == -1
<1>1. r \in Regions
  BY Hashed, RegionOf
<1>2. /\ x \notin LiveElems => UNCHANGED <<bucket, elements>>
      /\ x \in LiveElems => /\ UsedElems' = UsedElems \ {x}
                            /\ elements' = [elements EXCEPT ![r] = Plus(@, d)]
  BY DelEffect DEF CountInv, TypeInv
<1>3. CASE x \notin LiveElems
  BY <1>2, <1>3, CountsStay DEF UsedElems, UsedOf
<1>4. CASE x \in LiveElems
  <2>1. x \in UsedElems
    BY <1>4, InTable DEF CountInv, TypeInv
  <2>2. /\ Cardinality(Counts(r)') = Cardinality(Counts(r)) - 1
        /\ \A q \in Regions : q # r => Counts(q)' = Counts(q)
    BY <1>2, <1>4, <2>1, CountsGo
  <2>3. d \in Int /\ Cardinality(Counts(r)) \in Nat
    BY CountsAre, FewEnough
  <2>4. Cardinality(Counts(r)') = Cardinality(Counts(r)) + d
    BY <2>2, <2>3
  <2> HIDE DEF r, d
  <2>5. /\ elements'[r] = Plus(elements[r], d)
        /\ \A q \in Regions : q # r => elements'[q] = elements[q]
    BY <1>1, <1>2, <1>4, <2>3, CounterSet DEF CountInv, TypeInv
  <2> QED
    BY <1>1, <2>2, <2>3, <2>4, <2>5, CounterFollows
<1> QED
  BY <1>3, <1>4

LEMMA CountFlush ==
    ASSUME RegionsAgree, CountInv, TypeInv', Flush
    PROVE  CountInv'
<1>0. PICK r \in Regions : r = flushing
  BY DEF CountInv, TypeInv, Working
<1>1. r \in Regions /\ elements \in [Regions -> 0 .. CountMod - 1]
  BY DEF CountInv, TypeInv, Working
<1>2. UsedElems' = UsedElems \ Counts(r) /\ elements' = [elements EXCEPT ![r] = 0]
  BY <1>0, FlushEffect DEF CountInv, TypeInv
<1>3. Cardinality(Counts(r)') = 0 /\ \A q \in Regions : q # r => Counts(q)' = Counts(q)
  BY <1>1, <1>2, CountsFlushed
<1>4. elements'[r] = 0 /\ \A q \in Regions : q # r => elements'[q] = elements[q]
  BY <1>1, <1>2
<1> QED
  BY <1>3, <1>4 DEF CountInv

LEMMA CountNext ==
    ASSUME RegionsAgree
    PROVE  CountInv /\ [Next]_vars => CountInv'
<1> SUFFICES ASSUME CountInv, [Next]_vars PROVE CountInv'
  OBVIOUS
<1>1. TypeInv'
  BY TypeNext DEF CountInv
<1>2. ASSUME UNCHANGED <<bucket, elements>> PROVE CountInv'
  BY <1>1, <1>2, CountsStay DEF UsedElems, UsedOf
<1>3. ASSUME NEW p \in Adders, NEW x \in Elems, AddBegin(p, x) PROVE CountInv'
  BY <1>2, <1>3 DEF AddBegin
<1>4. ASSUME NEW p \in Adders, AddSweep(p) PROVE CountInv'
  <2>1. PICK x \in Elems : x = adding[p].x
    BY <1>4 DEF CountInv, TypeInv, Working, AddState, AddSweep
  <2>2. PICK r \in Regions : r = Region(HKEY[x])
    BY Hashed, RegionOf
  <2>3. Sweep(r) /\ UNCHANGED config
    BY <1>4, <2>1, <2>2 DEF AddSweep
  <2> QED
    BY <1>1, <2>3, CountSweep
<1>5. ASSUME NEW p \in Adders, AddSum(p) PROVE CountInv'
  BY <1>2, <1>5 DEF AddSum
<1>6. ASSUME NEW p \in Adders, Add(p) PROVE CountInv'
  BY <1>1, <1>6, CountAdd
<1>7. ASSUME NEW p \in Adders, NEW x \in Elems, Del(p, x) PROVE CountInv'
  BY <1>1, <1>7, CountDel
<1>8. ASSUME NEW q \in Testers, NEW x \in Elems, TestBegin(q, x) PROVE CountInv'
  BY <1>2, <1>8 DEF TestBegin
<1>9. ASSUME NEW q \in Testers, TestWalk(q) \/ TestCopy(q) PROVE CountInv'
  BY <1>2, <1>9 DEF TestWalk, TestCopy, TestEnd
<1>10. ASSUME NEW x \in Elems, Expire(x) PROVE CountInv'
  <2>1. UNCHANGED elements /\ UsedElems' = UsedElems
    BY <1>10, ExpireEffect DEF CountInv, TypeInv, Expire
  <2> QED
    BY <1>1, <2>1, CountsStay
<1>11. ASSUME NEW r \in Regions, Gc(r) PROVE CountInv'
  BY <1>1, <1>11, CountSweep DEF Gc
<1>12. CASE Flush
  BY <1>1, <1>12, CountFlush
<1>13. CASE UNCHANGED vars
  BY <1>2, <1>13 DEF vars
<1> QED
  BY <1>3, <1>4, <1>5, <1>6, <1>7, <1>8, <1>9, <1>10, <1>11, <1>12, <1>13 DEF Next

LEMMA CountInit == Init => CountInv
<1> SUFFICES ASSUME Init PROVE CountInv
  OBVIOUS
<1>1. TypeInv
  BY TypeInit
<1>2. UsedElems = {}
  <2>1. \A k \in Keys : In(bucket[k].slots) = {}
    BY BucketNone DEF Init
  <2> QED
    BY <2>1, Hashed DEF UsedElems, UsedOf
<1>3. \A r \in Regions : elements[r] = 0 /\ Counts(r) = {}
  BY <1>2 DEF Init, Counts
<1> QED
  BY <1>1, <1>3, FS_EmptySet DEF CountInv

LEMMA CountImplies ==
    ASSUME RegionsAgree
    PROVE  CountInv => Counted
<1> SUFFICES ASSUME CountInv PROVE Counted
  OBVIOUS
<1>1. Table
  BY DEF CountInv, TypeInv
<1>2. \A k \in Keys : bucket[k].slots \in Seq(Slot) /\ Distinct(bucket[k].slots, k)
  BY <1>1 DEF Table, Good
<1>3. ASSUME NEW r \in Regions
      PROVE  elements[r] = Cardinality(Entries({k \in Keys : Region(k) = r}))
  <2> DEFINE ks == KeysOf(r)
             P == Elems
  <2>1. ks \in SUBSET Keys
    BY RegionKeys
  <2>2. {e \in Entries(ks) : bucket[e[1]].slots[e[2]].x \in P} = Entries(ks)
    <3> SUFFICES ASSUME NEW e \in Entries(ks) PROVE bucket[e[1]].slots[e[2]].x \in P
      OBVIOUS
    <3>1. PICK k \in ks : \E i \in DOMAIN bucket[k].slots :
             e[1] = k /\ e[2] = i /\ Used(bucket[k].slots[i])
      <4>1. \E k \in ks : \E i \in DOMAIN bucket[k].slots :
               e = <<k, i>> /\ e[1] = k /\ e[2] = i /\ Used(bucket[k].slots[i])
        BY EntriesAre
      <4> QED
        BY <4>1
    <3> DEFINE s == bucket[k].slots
    <3>2. PICK i \in DOMAIN s : e[1] = k /\ e[2] = i /\ Used(s[i])
      BY <3>1
    <3>3. s \in Seq(Slot)
      BY <1>2, <2>1
    <3>4. s[i].x \in Elems
      <4> HIDE DEF s
      <4> QED
        BY <3>2, <3>3, SlotKinds
    <3> QED
      BY <3>2, <3>4
  <2>3. Cardinality({e \in Entries(ks) : bucket[e[1]].slots[e[2]].x \in P})
          = Cardinality({x \in UsedElems : HKEY[x] \in ks /\ x \in P})
    <3> HIDE DEF ks, P
    <3> QED
      BY <1>1, <2>1, EntriesCount
  <2>4. {x \in UsedElems : HKEY[x] \in ks /\ x \in P} = Counts(r)
    BY <1>1, InTable DEF Counts
  <2>5. ks = {k \in Keys : Region(k) = r}
    BY DEF RegionsAgree
  <2>6. elements[r] = Cardinality(Counts(r))
    BY DEF CountInv
  <2> HIDE DEF ks, P
  <2> QED
    BY <2>2, <2>3, <2>4, <2>5, <2>6
<1> QED
  BY <1>2, <1>3 DEF Counted, Distinct

\* Where the regions agree, the counter of a region that adds compare with maxelem is
\* the number of its entries, over any adds by force or not, deletes, timeouts, gc and
\* flushes, also between two regions of a flush (mtype_add, mtype_del, mtype_gc_do)
THEOREM CountedCorrect ==
    ASSUME RegionsAgree
    PROVE  Spec => []Counted
<1>1. Init => CountInv
  BY CountInit
<1>2. CountInv /\ [Next]_vars => CountInv'
  BY CountNext
<1>3. CountInv => Counted
  BY CountImplies
<1> QED
  BY <1>1, <1>2, <1>3, PTL DEF Spec

----------------------------------------------------------------------------
(* What tests and adds have seen                                           *)

\* A test knows whether its element was in the set and whether it was not, at some
\* moment since it began: one for which it always was has its entry ahead
Seen(t, b, live) ==
    t.pc # "idle" =>
       /\ t.i >= 1
       /\ t.x \in live => t.in
       /\ t.x \notin live => t.out
       /\ t.pc = "walk" /\ ~ t.out =>
             \E j \in DOMAIN b[HKEY[t.x]].slots :
                j >= t.i /\ b[HKEY[t.x]].slots[j] = Entry(t.x)
       /\ t.pc = "copy" => /\ t.copy = "none" => t.out
                           /\ t.copy = "live" => t.in
                           /\ t.copy = "stale" => t.in /\ t.out

\* An add that has not read the counters has seen what the table can have
Crowd(a, used, live) ==
    /\ a.pc \in {"sweep", "sum"} => live \subseteq a.seen /\ ~ a.full
    /\ a.pc = "sum" => used \subseteq a.seen
    /\ a.pc = "lock" => a.seen = {}

KeptInv ==
    /\ CountInv
    /\ \A q \in Testers : Seen(testing[q], bucket, LiveElems)
    /\ \A p \in Adders : Crowd(adding[p], UsedElems, LiveElems)

\* A test beside a change
LEMMA SeenBeside ==
    ASSUME NEW t, NEW u, TestState(t), TestState(u), NEW gone, NEW left, NEW parted,
           Follows(gone, left, parted), BesideFields(t, u, gone, left, parted),
           Seen(t, bucket, LiveElems)
    PROVE  Seen(u, bucket', LiveElems')
<1> SUFFICES ASSUME u.pc # "idle" PROVE Seen(u, bucket', LiveElems')
  BY DEF Seen
<1> DEFINE x == t.x
           s == bucket[HKEY[x]].slots
           m == bucket'[HKEY[x]].slots
           l == left[HKEY[x]]
           lost == t.pc = "walk" /\ HKEY[x] \in gone
<1>1. t.pc # "idle"
  BY DEF BesideFields
<1>2. /\ x \in Elems /\ t.i \in Nat /\ u.x = x /\ u.i = t.i
      /\ u.in = (t.in \/ x \in LiveElems')
      /\ u.out = (t.out \/ x \notin LiveElems' \/ x \in parted)
      /\ lost => u.pc = "copy" /\ u.copy = CopyOf(l, t)
      /\ ~ lost => /\ u.pc = t.pc
                   /\ t.copy = "live" /\ x \in parted => u.copy = "stale"
                   /\ ~ (t.copy = "live" /\ x \in parted) => u.copy = t.copy
  BY <1>1 DEF BesideFields, TestState
<1>3. /\ t.i >= 1
      /\ x \in LiveElems => t.in
      /\ x \notin LiveElems => t.out
      /\ t.pc = "walk" /\ ~ t.out => \E j \in DOMAIN s : j >= t.i /\ s[j] = Entry(x)
      /\ t.pc = "copy" => /\ t.copy = "none" => t.out
                          /\ t.copy = "live" => t.in
                          /\ t.copy = "stale" => t.in /\ t.out
  BY <1>1 DEF Seen
<1>4. /\ HKEY[x] \notin gone /\ x \in LiveElems' /\ x \notin parted =>
            \A j \in DOMAIN s : s[j] = Entry(x) => j \in DOMAIN m /\ m[j] = Entry(x)
      /\ HKEY[x] \in gone =>
            /\ \A j \in DOMAIN l : Live(l[j]) /\ l[j].x = x => x \in LiveElems
            /\ x \notin parted =>
                  \A j \in DOMAIN s : s[j] = Entry(x) => j \in DOMAIN l /\ l[j] = Entry(x)
  BY <1>2 DEF Follows
<1>5. u.pc \in {"walk", "copy"} /\ t.pc \in {"walk", "copy"}
  BY <1>1 DEF TestState
<1>6. ASSUME u.pc = "walk", ~ u.out
      PROVE  \E j \in DOMAIN m : j >= u.i /\ m[j] = Entry(x)
  <2>1. ~ lost /\ t.pc = "walk" /\ HKEY[x] \notin gone
    BY <1>2, <1>6
  <2>2. ~ t.out /\ x \in LiveElems' /\ x \notin parted
    BY <1>2, <1>6
  <2> HIDE DEF s, m, l, lost
  <2>3. PICK j \in DOMAIN s : j >= t.i /\ s[j] = Entry(x)
    BY <1>3, <2>1, <2>2
  <2> QED
    BY <1>2, <1>4, <2>1, <2>2, <2>3
<1>7. ASSUME lost PROVE (u.copy = "none" /\ u.out) \/ (u.copy = "live" /\ u.in)
  <2>1. u.copy = CopyOf(l, t) /\ t.pc = "walk" /\ HKEY[x] \in gone
    BY <1>2, <1>7
  <2>2. CASE \E j \in At(l, x) : j >= t.i /\ Live(l[j])
    <3>1. u.copy = "live"
      BY <2>1, <2>2 DEF CopyOf
    <3>2. x \in LiveElems
      BY <1>4, <2>1, <2>2 DEF At
    <3> QED
      BY <1>2, <1>3, <3>1, <3>2
  <2>3. CASE ~ \E j \in At(l, x) : j >= t.i /\ Live(l[j])
    <3>1. u.copy = "none"
      BY <2>1, <2>3 DEF CopyOf
    <3>2. ASSUME ~ u.out PROVE FALSE
      <4>1. ~ t.out /\ x \notin parted
        BY <1>2, <3>2
      <4> HIDE DEF s, m, l, lost
      <4>2. PICK j \in DOMAIN s : j >= t.i /\ s[j] = Entry(x)
        BY <1>3, <2>1, <4>1
      <4>3. j \in DOMAIN l /\ l[j] = Entry(x)
        BY <1>4, <2>1, <4>1, <4>2
      <4>4. Entry(x).x = x /\ Live(Entry(x))
        BY <1>2, SlotKinds
      <4> QED
        BY <2>3, <4>2, <4>3, <4>4 DEF At
    <3> QED
      BY <3>1, <3>2
  <2> QED
    BY <2>2, <2>3
<1>8. ASSUME u.pc = "copy"
      PROVE  /\ u.copy = "none" => u.out
             /\ u.copy = "live" => u.in
             /\ u.copy = "stale" => u.in /\ u.out
  <2>1. CASE lost
    BY <1>7, <2>1
  <2>2. CASE ~ lost
    <3>1. t.pc = "copy"
      BY <1>2, <1>8, <2>2
    <3> HIDE DEF s, m, l, lost
    <3> QED
      BY <1>2, <1>3, <2>2, <3>1
  <2> QED
    BY <2>1, <2>2
<1>9. u.i >= 1
  BY <1>2, <1>3
<1> HIDE DEF l, lost, s
<1> QED
  BY <1>2, <1>6, <1>8, <1>9 DEF Seen

LEMMA SeenChanges ==
    ASSUME Working, NEW parted, Changes(parted),
           \A q \in Testers : Seen(testing[q], bucket, LiveElems)
    PROVE  \A q \in Testers : Seen(testing'[q], bucket', LiveElems')
<1> SUFFICES ASSUME NEW q \in Testers PROVE Seen(testing'[q], bucket', LiveElems')
  OBVIOUS
<1>1. PICK gone, left : Beside(gone, left, parted) /\ Follows(gone, left, parted)
  BY DEF Changes
<1>2. TestState(testing[q]) /\ TestState(testing'[q])
      /\ BesideFields(testing[q], testing'[q], gone, left, parted)
  BY <1>1, BesideStates DEF Working
<1> QED
  BY <1>1, <1>2, SeenBeside

\* ... one whose element may time out ...
LEMMA SeenExpire ==
    ASSUME TypeInv, NEW x \in Elems, Expire(x),
           \A q \in Testers : Seen(testing[q], bucket, LiveElems)
    PROVE  \A q \in Testers : Seen(testing'[q], bucket', LiveElems')
<1> SUFFICES ASSUME NEW q \in Testers PROVE Seen(testing'[q], bucket', LiveElems')
  OBVIOUS
<1> DEFINE t == testing[q]
           u == testing'[q]
<1>1. TestState(t) /\ ExpireFields(t, u, x) /\ Seen(t, bucket, LiveElems)
  BY ExpireStates DEF TypeInv, Working
<1>2. LiveElems' = LiveElems \ {x} /\ Follows({}, << >>, {x})
  BY ExpireEffect DEF TypeInv
<1> HIDE DEF t, u
<1>3. CASE t.x # x
  <2>1. u = t
    BY <1>1, <1>3 DEF ExpireFields
  <2>2. t.pc # "idle" => t.x \in Elems
    BY <1>1 DEF TestState
  <2>3. ASSUME t.pc # "idle", t.x \in LiveElems'
        PROVE  \A j \in DOMAIN bucket[HKEY[t.x]].slots :
                  bucket[HKEY[t.x]].slots[j] = Entry(t.x) =>
                     /\ j \in DOMAIN bucket'[HKEY[t.x]].slots
                     /\ bucket'[HKEY[t.x]].slots[j] = Entry(t.x)
    BY <1>2, <1>3, <2>2, <2>3 DEF Follows
  <2>4. t.x \in LiveElems' <=> t.x \in LiveElems
    BY <1>2, <1>3
  <2>5. ASSUME t.pc # "idle"
        PROVE  t.pc = "walk" /\ ~ t.out =>
                  \E j \in DOMAIN bucket'[HKEY[t.x]].slots :
                     j >= t.i /\ bucket'[HKEY[t.x]].slots[j] = Entry(t.x)
    BY <1>1, <2>3, <2>4, <2>5 DEF Seen
  <2>6. Seen(t, bucket', LiveElems')
    BY <1>1, <2>4, <2>5 DEF Seen
  <2> QED
    BY <2>1, <2>6 DEF u
<1>4. CASE t.x = x
  <2>1. u.pc = t.pc /\ u.x = x /\ u.i = t.i /\ u.in = t.in /\ u.out
        /\ (t.copy = "live" => u.copy = "none") /\ (t.copy # "live" => u.copy = t.copy)
    BY <1>1, <1>4 DEF ExpireFields
  <2>2. t.copy \in {"none", "live", "stale"}
    BY <1>1 DEF TestState
  <2>3. Seen(u, bucket', LiveElems')
    BY <1>1, <1>2, <1>4, <2>1, <2>2 DEF Seen
  <2> QED
    BY <2>3 DEF u
<1> QED
  BY <1>3, <1>4

\* ... one that goes on, and others that begin or end
LEMMA SeenSet ==
    ASSUME Working, NEW q \in Testers, NEW t, TestState(t), testing' = [testing EXCEPT ![q] = t],
           Seen(t, bucket, LiveElems), UNCHANGED <<config, bucket>>, Table,
           \A c \in Testers : Seen(testing[c], bucket, LiveElems)
    PROVE  \A c \in Testers : Seen(testing'[c], bucket', LiveElems')
<1>1. bucket' = bucket /\ LiveElems' = LiveElems
  BY TableKept
<1>2. testing'[q] = t /\ \A c \in Testers : c # q => testing'[c] = testing[c]
  BY TestingSet
<1> QED
  BY <1>1, <1>2

LEMMA SeenKept ==
    ASSUME Table, UNCHANGED <<config, bucket, testing>>,
           \A c \in Testers : Seen(testing[c], bucket, LiveElems)
    PROVE  \A c \in Testers : Seen(testing'[c], bucket', LiveElems')
BY TableKept

LEMMA SeenIdle ==
    Seen(NotTesting, bucket, LiveElems)
BY Idle DEF Seen

LEMMA SeenBegin ==
    ASSUME TypeInv, NEW q \in Testers, NEW x \in Elems, TestBegin(q, x),
           \A c \in Testers : Seen(testing[c], bucket, LiveElems)
    PROVE  \A c \in Testers : Seen(testing'[c], bucket', LiveElems')
<1> DEFINE t == TestBegun(x)
           s == bucket[HKEY[x]].slots
<1>1. testing' = [testing EXCEPT ![q] = t] /\ UNCHANGED <<config, bucket>>
  BY DEF TestBegin, TestBegun
<1>2. TestState(t)
  BY DEF TestState, TestBegun, NotTesting
<1>3. /\ t.pc = (IF bucket[HKEY[x]].null THEN "copy" ELSE "walk") /\ t.x = x /\ t.i = 1
      /\ t.copy = "none" /\ t.in = (x \in LiveElems) /\ t.out = (x \notin LiveElems)
  BY DEF TestBegun
<1>4. x \in LiveElems => \E j \in DOMAIN s : j >= 1 /\ s[j] = Entry(x)
  <2>1. s \in Seq(Slot)
    BY EntryOf DEF TypeInv
  <2>2. \A j \in DOMAIN s : j >= 1
    <3> HIDE DEF s
    <3> QED
      BY <2>1
  <2> QED
    BY <2>2 DEF LiveElems
<1>5. bucket[HKEY[x]].null => x \notin LiveElems
  <2>1. Good(bucket[HKEY[x]], HKEY[x])
    BY Hashed DEF TypeInv, Table
  <2>2. bucket[HKEY[x]].null => s = << >>
    BY <2>1 DEF Good, NoBucket
  <2> QED
    BY <1>4, <2>2
<1> HIDE DEF t
<1>7. t.i >= 1
  BY <1>3
<1>6. Seen(t, bucket, LiveElems)
  BY <1>3, <1>4, <1>5, <1>7 DEF Seen
<1> QED
  BY <1>1, <1>2, <1>6, SeenSet DEF TypeInv

\* What a test answers it has seen
LEMMA SeenWalk ==
    ASSUME TypeInv, NEW q \in Testers, TestWalk(q),
           \A c \in Testers : Seen(testing[c], bucket, LiveElems)
    PROVE  /\ \A c \in Testers : Seen(testing'[c], bucket', LiveElems')
           /\ \/ TestEnd(q, "out") /\ testing[q].out
              \/ TestEnd(q, "in") /\ testing[q].in
              \/ /\ testing' = [testing EXCEPT ![q].i = @ + 1]
                 /\ UNCHANGED <<config, bucket, elements, adding, flushing, answer>>
<1> DEFINE t == testing[q]
           s == bucket[HKEY[t.x]].slots
           u == testing'[q]
<1>1. t.pc = "walk" /\ TestState(t) /\ Seen(t, bucket, LiveElems)
  BY DEF TestWalk, TypeInv, Working
<1>2. t.x \in Elems /\ t.i \in Nat
  BY <1>1 DEF TestState
<1>3. s \in Seq(Slot) /\ \A j \in DOMAIN s : s[j] = Entry(t.x) => t.x \in LiveElems
  BY <1>2, EntryOf DEF TypeInv
<1>4. \A j \in DOMAIN s : j \in Nat /\ j <= Len(s)
  <2> HIDE DEF s
  <2> QED
    BY <1>3
<1>5. ~ t.out => \E j \in DOMAIN s : j >= t.i /\ s[j] = Entry(t.x)
  BY <1>1 DEF Seen
<1>6. ASSUME NEW ret, TestEnd(q, ret)
      PROVE  \A c \in Testers : Seen(testing'[c], bucket', LiveElems')
  BY <1>6, Idle, SeenIdle, SeenSet DEF TestEnd, TypeInv
<1>7. CASE t.i > Len(s)
  <2>1. TestEnd(q, "out")
    BY <1>7 DEF TestWalk
  <2>2. Len(s) \in Nat
    <3> HIDE DEF s
    <3> QED
      BY <1>3
  <2>3. t.out
    <3> HIDE DEF s, t
    <3> QED
      BY <1>2, <1>4, <1>5, <1>7, <2>2
  <2> QED
    BY <1>6, <2>1, <2>3
<1>8. CASE ~ (t.i > Len(s)) /\ s[t.i] = Entry(t.x)
  <2>1. TestEnd(q, "in")
    BY <1>8 DEF TestWalk
  <2>2. t.in
    <3>1. Entry(t.x) # Hole /\ Entry(t.x) \in Slot
      BY <1>2, SlotKinds
    <3>2. ASSUME t.x \notin LiveElems PROVE FALSE
      <4>1. t.i >= 1
        BY <1>1 DEF Seen
      <4>2. t.i \in DOMAIN s
        <5> HIDE DEF s, t
        <5> QED
          BY <1>2, <1>3, <1>8, <4>1
      <4> QED
        BY <1>3, <1>8, <3>2, <4>2
    <3> QED
      BY <1>1, <3>2 DEF Seen
  <2> QED
    BY <1>6, <2>1, <2>2
<1>9. CASE ~ (t.i > Len(s)) /\ s[t.i] # Entry(t.x)
  <2>1. /\ testing' = [testing EXCEPT ![q].i = @ + 1]
        /\ UNCHANGED <<config, bucket, elements, adding, flushing, answer>>
    BY <1>9 DEF TestWalk
  <2>2. /\ \A c \in Testers : TestState(testing'[c])
        /\ \A c \in Testers : c # q => testing'[c] = testing[c]
        /\ u.pc = "walk" /\ u.x = t.x /\ u.i = t.i + 1 /\ u.in = t.in /\ u.out = t.out
    BY <1>1, <2>1, TestNext DEF TypeInv
  <2>3. ~ u.out => \E j \in DOMAIN s : j >= u.i /\ s[j] = Entry(u.x)
    <3> HIDE DEF s, t, u
    <3> QED
      BY <1>2, <1>4, <1>5, <1>9, <2>2
  <2>6. u.i >= 1
    BY <1>2, <2>2
  <2>4. Seen(u, bucket, LiveElems)
    BY <1>1, <2>2, <2>3, <2>6 DEF Seen
  <2>5. bucket' = bucket /\ LiveElems' = LiveElems
    BY <2>1, TableKept DEF TypeInv
  <2> QED
    BY <2>1, <2>2, <2>4, <2>5
<1> QED
  BY <1>7, <1>8, <1>9

LEMMA SeenCopy ==
    ASSUME TypeInv, NEW q \in Testers, TestCopy(q),
           \A c \in Testers : Seen(testing[c], bucket, LiveElems)
    PROVE  /\ \A c \in Testers : Seen(testing'[c], bucket', LiveElems')
           /\ \/ TestEnd(q, "out") /\ testing[q].out
              \/ TestEnd(q, "in") /\ testing[q].in
<1> DEFINE t == testing[q]
<1>1. t.pc = "copy" /\ TestState(t) /\ Seen(t, bucket, LiveElems)
  BY DEF TestCopy, TypeInv, Working
<1>2. t.copy \in {"none", "live", "stale"}
  BY <1>1 DEF TestState
<1>3. (t.copy # "none" => t.in) /\ (t.copy # "live" => t.out)
  BY <1>1, <1>2 DEF Seen
<1>4. \/ TestEnd(q, "out") /\ testing[q].out
      \/ TestEnd(q, "in") /\ testing[q].in
  BY <1>3 DEF TestCopy
<1>5. ASSUME NEW ret, TestEnd(q, ret)
      PROVE  \A c \in Testers : Seen(testing'[c], bucket', LiveElems')
  BY <1>5, Idle, SeenIdle, SeenSet DEF TestEnd, TypeInv
<1> QED
  BY <1>4, <1>5

\* Adds that go on while the table loses entries, or stays
LEMMA CrowdLess ==
    ASSUME NEW a, NEW used, NEW live, NEW u, NEW l, u \subseteq used, l \subseteq live,
           Crowd(a, used, live)
    PROVE  Crowd(a, u, l)
BY DEF Crowd

LEMMA CrowdFewer ==
    ASSUME UNCHANGED adding, UsedElems' \subseteq UsedElems, LiveElems' \subseteq LiveElems,
           \A p \in Adders : Crowd(adding[p], UsedElems, LiveElems)
    PROVE  \A p \in Adders : Crowd(adding'[p], UsedElems', LiveElems')
BY CrowdLess

\* ... and while one of them ends
LEMMA CrowdEnd ==
    ASSUME Working, NEW p \in Adders, NEW ret, AddEnd(p, ret),
           UsedElems' \subseteq UsedElems \cup ({adding[p].x} \cap LiveElems'),
           LiveElems' \subseteq LiveElems \cup ({adding[p].x} \cap LiveElems'),
           ret # "ok" => UsedElems' \subseteq UsedElems /\ LiveElems' \subseteq LiveElems,
           \A a \in Adders : Crowd(adding[a], UsedElems, LiveElems)
    PROVE  \A a \in Adders : Crowd(adding'[a], UsedElems', LiveElems')
<1> SUFFICES ASSUME NEW a \in Adders PROVE Crowd(adding'[a], UsedElems', LiveElems')
  OBVIOUS
<1> DEFINE old == adding[a]
           new == adding'[a]
           more == {adding[p].x} \cap LiveElems'
           seen == old.seen \cup more
<1>1. Crowd(old, UsedElems, LiveElems) /\ AddState(old)
  BY DEF Working
<1>2. CASE a = p
  <2>1. new = NotAdding
    BY <1>2 DEF AddEnd
  <2>2. new.pc = "idle"
    BY <2>1, Idle
  <2> QED
    BY <2>2 DEF Crowd
<1>3. CASE a # p /\ old.pc \in {"sweep", "sum"} /\ ret = "ok"
  <2>1. new = [old EXCEPT !.seen = seen]
    BY <1>3 DEF AddEnd
  <2> HIDE DEF old, new, seen
  <2>2. new.pc = old.pc /\ new.full = old.full /\ new.seen = seen
    BY <1>1, <2>1 DEF AddState
  <2>3. seen = old.seen \cup more
    BY DEF seen, old
  <2> HIDE DEF more
  <2>4. UsedElems' \subseteq UsedElems \cup more /\ LiveElems' \subseteq LiveElems \cup more
    BY DEF more
  <2>5. Crowd(new, UsedElems', LiveElems')
    BY <1>1, <1>3, <2>2, <2>3, <2>4 DEF Crowd
  <2> QED
    BY <2>5 DEF new
<1>4. CASE a # p /\ ~ (old.pc \in {"sweep", "sum"} /\ ret = "ok")
  <2>1. new = old
    BY <1>4 DEF AddEnd
  <2>2. CASE old.pc \in {"sweep", "sum"}
    <3>1. UsedElems' \subseteq UsedElems /\ LiveElems' \subseteq LiveElems
      BY <1>4, <2>2
    <3> QED
      BY <1>1, <2>1, <3>1, CrowdLess
  <2>3. CASE old.pc \notin {"sweep", "sum"}
    BY <1>1, <2>1, <2>3 DEF Crowd
  <2> QED
    BY <2>2, <2>3
<1> QED
  BY <1>2, <1>3, <1>4

LEMMA OneRegion ==
    ASSUME Locks = 1
    PROVE  /\ RegionsAgree /\ Regions = {0}
           /\ \A r \in Regions : Counts(r) = UsedElems /\ KeysOf(r) = Keys
<1>1. Regions = {0}
  BY DEF Regions
<1>2. \A k \in Keys : Region(k) = 0
  <2>1. \A k \in Keys : k % Locks = 0
    BY BucketAssumption DEF Keys
  <2> QED
    BY <2>1 DEF Region
<1>3. KeysOf(0) = Keys
  BY <1>1, <1>2, RegionsAgreeWithOne DEF RegionsAgree
<1>4. Counts(0) = UsedElems
  BY <1>3, Hashed DEF Counts, UsedElems, UsedOf
<1> QED
  BY <1>1, <1>3, <1>4, RegionsAgreeWithOne

\* Sets of elements that only get smaller
LEMMA Fewer ==
    ASSUME Table
    PROVE  /\ LiveElems \subseteq UsedElems /\ UsedElems \subseteq Elems
           /\ \A S : UsedElems' = UsedElems \ S => UsedElems' \subseteq UsedElems
           /\ \A S : LiveElems' = LiveElems \ S => LiveElems' \subseteq LiveElems
BY InTable

LEMMA KeptSweep ==
    ASSUME Locks = 1, KeptInv, NEW r \in Regions, Sweep(r), UNCHANGED config
    PROVE  /\ UsedElems' = LiveElems /\ LiveElems' = LiveElems /\ Changes({})
           /\ \A q \in Testers : Seen(testing'[q], bucket', LiveElems')
<1>1. /\ Changes({}) /\ UsedElems' = UsedElems \ TimedOut(r) /\ LiveElems' = LiveElems
  BY SweepEffect DEF KeptInv, CountInv, TypeInv
<1>2. TimedOut(r) = UsedElems \ LiveElems
  BY OneRegion DEF TimedOut
<1>3. UsedElems' = LiveElems
  BY <1>1, <1>2, Fewer DEF KeptInv, CountInv, TypeInv
<1>4. \A q \in Testers : Seen(testing'[q], bucket', LiveElems')
  BY <1>1, SeenChanges DEF KeptInv, CountInv, TypeInv
<1> QED
  BY <1>1, <1>3, <1>4

LEMMA KeptAddBegin ==
    ASSUME KeptInv, CountInv', NEW p \in Adders, NEW x \in Elems, AddBegin(p, x)
    PROVE  KeptInv'
<1>1. adding' = [adding EXCEPT ![p] = Begun(p, x)] /\ UNCHANGED <<config, bucket, testing>>
  BY DEF AddBegin, Begun
<1>2. UsedElems' = UsedElems /\ LiveElems' = LiveElems
  BY <1>1, TableKept DEF KeptInv, CountInv, TypeInv
<1>3. \A a \in Adders : a # p => adding'[a] = adding[a]
  BY <1>1 DEF KeptInv, CountInv, TypeInv, Working
<1>4. adding'[p] = Begun(p, x)
  BY <1>1 DEF KeptInv, CountInv, TypeInv, Working
<1>5. Crowd(Begun(p, x), UsedElems, LiveElems)
  BY DEF Crowd, Begun
<1>6. \A a \in Adders : Crowd(adding'[a], UsedElems', LiveElems')
  BY <1>2, <1>3, <1>4, <1>5 DEF KeptInv
<1>7. \A q \in Testers : Seen(testing'[q], bucket', LiveElems')
  BY <1>1, SeenKept DEF KeptInv, CountInv, TypeInv
<1> QED
  BY <1>6, <1>7 DEF KeptInv

LEMMA KeptAddSweep ==
    ASSUME Locks = 1, KeptInv, CountInv', NEW p \in Adders, AddSweep(p)
    PROVE  KeptInv'
<1> DEFINE a == adding[p]
           c == [a EXCEPT !.pc = "sum"]
<1>1. a.pc = "sweep" /\ UNCHANGED config /\ adding' = [adding EXCEPT ![p] = c]
  BY DEF AddSweep
<1>2. PICK r \in Regions : Sweep(r)
  <2>1. a.x \in Elems
    BY <1>1 DEF KeptInv, CountInv, TypeInv, Working, AddState
  <2> QED
    BY <2>1, Hashed, RegionOf DEF AddSweep
<1>3. /\ UsedElems' = LiveElems /\ LiveElems' = LiveElems
      /\ \A q \in Testers : Seen(testing'[q], bucket', LiveElems')
  BY <1>1, <1>2, KeptSweep
<1>4. adding'[p] = c /\ \A b \in Adders : b # p => adding'[b] = adding[b]
  BY <1>1 DEF KeptInv, CountInv, TypeInv, Working
<1>5. AddState(a) /\ Crowd(a, UsedElems, LiveElems)
  BY DEF KeptInv, CountInv, TypeInv, Working
<1>6. LiveElems \subseteq UsedElems
  BY Fewer DEF KeptInv, CountInv, TypeInv
<1>7. Crowd(c, LiveElems, LiveElems)
  <2> HIDE DEF a
  <2>1. c.pc = "sum" /\ c.seen = a.seen /\ c.full = a.full
    BY <1>5 DEF AddState
  <2>2. LiveElems \subseteq a.seen /\ ~ a.full
    BY <1>1, <1>5 DEF Crowd
  <2> HIDE DEF c
  <2> QED
    BY <2>1, <2>2 DEF Crowd
<1>8. \A b \in Adders : Crowd(adding'[b], UsedElems', LiveElems')
  <2> SUFFICES ASSUME NEW b \in Adders PROVE Crowd(adding'[b], UsedElems', LiveElems')
    OBVIOUS
  <2>1. CASE b = p
    BY <1>3, <1>4, <1>7, <2>1
  <2>2. CASE b # p
    <3>1. Crowd(adding[b], UsedElems, LiveElems)
      BY DEF KeptInv
    <3>2. Crowd(adding[b], LiveElems, LiveElems)
      BY <1>6, <3>1, CrowdLess
    <3> QED
      BY <1>3, <1>4, <2>2, <3>2
  <2> QED
    BY <2>1, <2>2
<1> QED
  BY <1>3, <1>8 DEF KeptInv

LEMMA KeptAddSum ==
    ASSUME KeptInv, CountInv', NEW p \in Adders, AddSum(p)
    PROVE  KeptInv'
<1> DEFINE a == adding[p]
           c == [a EXCEPT !.pc = "lock", !.full = IsFull, !.seen = {}]
<1>1. UNCHANGED <<config, bucket, testing>> /\ adding' = [adding EXCEPT ![p] = c]
  BY DEF AddSum
<1>2. UsedElems' = UsedElems /\ LiveElems' = LiveElems
  BY <1>1, TableKept DEF KeptInv, CountInv, TypeInv
<1>3. adding'[p] = c /\ \A b \in Adders : b # p => adding'[b] = adding[b]
  BY <1>1 DEF KeptInv, CountInv, TypeInv, Working
<1>4. AddState(a)
  BY DEF KeptInv, CountInv, TypeInv, Working
<1>5. Crowd(c, UsedElems, LiveElems)
  <2> HIDE DEF a
  <2>1. c.pc = "lock" /\ c.seen = {}
    BY <1>4 DEF AddState
  <2> HIDE DEF c
  <2> QED
    BY <2>1 DEF Crowd
<1>6. \A b \in Adders : Crowd(adding'[b], UsedElems', LiveElems')
  <2> HIDE DEF c
  <2> QED
    BY <1>2, <1>3, <1>5 DEF KeptInv
<1>7. \A q \in Testers : Seen(testing'[q], bucket', LiveElems')
  BY <1>1, SeenKept DEF KeptInv, CountInv, TypeInv
<1> QED
  BY <1>6, <1>7 DEF KeptInv

LEMMA KeptAdd ==
    ASSUME KeptInv, CountInv', NEW p \in Adders, Add(p)
    PROVE  KeptInv'
<1> DEFINE x == adding[p].x
<1>1. Outcome(p) /\ UNCHANGED config
  <2>1. x \in Elems
    BY DEF KeptInv, CountInv, TypeInv, Working, AddState, Add
  <2>2. Outcome(p)
    BY <2>1, AddEffect DEF KeptInv, CountInv, TypeInv
  <2>3. UNCHANGED config
    BY <2>2 DEF Outcome, AddRefused, Stores, AddEnd
  <2> QED
    BY <2>2, <2>3
<1>2. \/ \E ret : AddRefused(p, ret)
      \/ \E lost, parted : Stores(p, lost, parted)
  BY <1>1 DEF Outcome
<1>3. ASSUME NEW ret, AddRefused(p, ret) PROVE KeptInv'
  <2>1. UNCHANGED <<config, bucket, testing>> /\ AddEnd(p, ret)
    BY <1>1, <1>3 DEF AddRefused
  <2>2. UsedElems' = UsedElems /\ LiveElems' = LiveElems
    BY <2>1, TableKept DEF KeptInv, CountInv, TypeInv
  <2>3. \A q \in Testers : Seen(testing'[q], bucket', LiveElems')
    BY <2>1, SeenKept DEF KeptInv, CountInv, TypeInv
  <2>4. \A a \in Adders : Crowd(adding'[a], UsedElems', LiveElems')
    BY <2>1, <2>2, CrowdEnd DEF KeptInv, CountInv, TypeInv
  <2> QED
    BY <2>3, <2>4 DEF KeptInv
<1>4. ASSUME NEW lost, NEW parted, Stores(p, lost, parted) PROVE KeptInv'
  <2>1. /\ UsedElems' = (UsedElems \ lost) \cup {x} /\ LiveElems' = (LiveElems \ lost) \cup {x}
        /\ Changes(parted) /\ AddEnd(p, "ok")
    BY <1>4 DEF Stores
  <2>2. \A q \in Testers : Seen(testing'[q], bucket', LiveElems')
    BY <2>1, SeenChanges DEF KeptInv, CountInv, TypeInv
  <2>3. /\ UsedElems' \subseteq UsedElems \cup ({x} \cap LiveElems')
        /\ LiveElems' \subseteq LiveElems \cup ({x} \cap LiveElems')
    BY <2>1
  <2>4. \A a \in Adders : Crowd(adding'[a], UsedElems', LiveElems')
    BY <2>1, <2>3, CrowdEnd DEF KeptInv, CountInv, TypeInv
  <2> QED
    BY <2>2, <2>4 DEF KeptInv
<1> QED
  BY <1>2, <1>3, <1>4

LEMMA KeptNext ==
    ASSUME Locks = 1
    PROVE  KeptInv /\ [Next]_vars => KeptInv'
<1> SUFFICES ASSUME KeptInv, [Next]_vars PROVE KeptInv'
  OBVIOUS
<1>0. CountInv' /\ TypeInv /\ Table /\ Working
  BY OneRegion, CountNext DEF KeptInv, CountInv, TypeInv
<1>1. ASSUME UNCHANGED adding, UsedElems' \subseteq UsedElems, LiveElems' \subseteq LiveElems,
             \A q \in Testers : Seen(testing'[q], bucket', LiveElems')
      PROVE  KeptInv'
  BY <1>0, <1>1, CrowdFewer DEF KeptInv
<1>2. ASSUME NEW p \in Adders, NEW x \in Elems, AddBegin(p, x) PROVE KeptInv'
  BY <1>0, <1>2, KeptAddBegin
<1>3. ASSUME NEW p \in Adders, AddSweep(p) \/ AddSum(p) \/ Add(p) PROVE KeptInv'
  BY <1>0, <1>3, KeptAddSweep, KeptAddSum, KeptAdd
<1>4. ASSUME NEW p \in Adders, NEW x \in Elems, Del(p, x) PROVE KeptInv'
  <2>1. UNCHANGED <<adding, config>>
    BY <1>4 DEF Del
  <2>2. CASE x \notin LiveElems
    <3>1. UNCHANGED <<bucket, testing>>
      BY <1>0, <1>4, <2>2, DelEffect
    <3> QED
      BY <1>0, <1>1, <2>1, <3>1, TableKept, SeenKept DEF KeptInv
  <2>3. CASE x \in LiveElems
    <3>1. UsedElems' = UsedElems \ {x} /\ LiveElems' = LiveElems \ {x} /\ Changes({x})
      BY <1>0, <1>4, <2>3, DelEffect
    <3>2. \A q \in Testers : Seen(testing'[q], bucket', LiveElems')
      BY <1>0, <3>1, SeenChanges DEF KeptInv
    <3> QED
      BY <1>1, <2>1, <3>1, <3>2
  <2> QED
    BY <2>2, <2>3
<1>5. ASSUME NEW q \in Testers, NEW x \in Elems, TestBegin(q, x) PROVE KeptInv'
  <2>1. UNCHANGED <<config, bucket, adding>>
    BY <1>5 DEF TestBegin
  <2> QED
    BY <1>0, <1>1, <1>5, <2>1, TableKept, SeenBegin DEF KeptInv
<1>6. ASSUME NEW q \in Testers, TestWalk(q) \/ TestCopy(q) PROVE KeptInv'
  <2>1. UNCHANGED <<config, bucket, adding>>
    BY <1>6 DEF TestWalk, TestCopy, TestEnd
  <2> QED
    BY <1>0, <1>1, <1>6, <2>1, TableKept, SeenWalk, SeenCopy DEF KeptInv
<1>7. ASSUME NEW x \in Elems, Expire(x) PROVE KeptInv'
  <2>1. UNCHANGED adding /\ UsedElems' = UsedElems /\ LiveElems' = LiveElems \ {x}
    BY <1>0, <1>7, ExpireEffect DEF Expire
  <2>2. \A q \in Testers : Seen(testing'[q], bucket', LiveElems')
    BY <1>0, <1>7, SeenExpire DEF KeptInv
  <2> QED
    BY <1>1, <2>1, <2>2
<1>8. ASSUME NEW r \in Regions, Gc(r) PROVE KeptInv'
  <2>1. Sweep(r) /\ UNCHANGED <<config, adding>>
    BY <1>8 DEF Gc
  <2>2. /\ UsedElems' = LiveElems /\ LiveElems' = LiveElems
        /\ \A q \in Testers : Seen(testing'[q], bucket', LiveElems')
    BY <2>1, KeptSweep
  <2> QED
    BY <1>0, <1>1, <2>1, <2>2, Fewer
<1>9. CASE Flush
  <2> DEFINE r == flushing
  <2>1. /\ UsedElems' = UsedElems \ Counts(r) /\ LiveElems' = LiveElems \ Counts(r)
        /\ Changes({x \in Elems : HKEY[x] \in KeysOf(r)})
    BY <1>0, <1>9, FlushEffect
  <2>2. \A q \in Testers : Seen(testing'[q], bucket', LiveElems')
    BY <1>0, <2>1, SeenChanges DEF KeptInv
  <2>3. UNCHANGED adding
    BY <1>9 DEF Flush
  <2> QED
    BY <1>1, <2>1, <2>2, <2>3
<1>10. CASE UNCHANGED vars
  BY <1>0, <1>1, <1>10, TableKept, SeenKept DEF KeptInv, vars
<1> QED
  BY <1>2, <1>3, <1>4, <1>5, <1>6, <1>7, <1>8, <1>9, <1>10 DEF Next

LEMMA KeptInit == Init => KeptInv
<1> SUFFICES ASSUME Init PROVE KeptInv
  OBVIOUS
<1>1. CountInv
  BY CountInit
<1>2. \A q \in Testers : Seen(testing[q], bucket, LiveElems)
  BY SeenIdle DEF Init
<1>3. \A p \in Adders : adding[p].pc = "idle"
  BY Idle DEF Init
<1>4. \A p \in Adders : Crowd(adding[p], UsedElems, LiveElems)
  BY <1>3 DEF Crowd
<1> QED
  BY <1>1, <1>2, <1>4 DEF KeptInv

----------------------------------------------------------------------------
(* The table implements HashSpec                                           *)

\* The counter of a single region is the sum of the counters
LEMMA SumOne ==
    ASSUME NEW e \in [{0} -> Nat]
    PROVE  FoldFunction(+, 0, e) = e[0]
<1> DEFINE Step(it, s) == IF s = {} THEN 0
                          ELSE LET x == CHOOSE y \in s : TRUE IN e[x] + it[s \ {x}]
           Iter(it) == it = [s \in SUBSET {0} |-> Step(it, s)]
           f == [s \in SUBSET {0} |-> IF s = {} THEN 0 ELSE e[0]]
<1>0. /\ SUBSET {0} = {{}, {0}} /\ (CHOOSE y \in {0} : TRUE) = 0
      /\ {0} \ {0} = {} /\ e[0] \in Nat /\ {0} # {}
  OBVIOUS
<1>1. f[{}] = 0 /\ f[{0}] = e[0]
  BY <1>0
<1>2. \A s \in SUBSET {0} : f[s] = Step(f, s)
  <2>1. f[{}] = Step(f, {})
    BY <1>1
  <2>2. f[{0}] = Step(f, {0})
    <3>1. Step(f, {0}) = e[0] + f[{}]
      BY <1>0
    <3> HIDE DEF Step, f
    <3> QED
      BY <1>0, <1>1, <3>1
  <2> HIDE DEF Step, f
  <2> QED
    BY <1>0, <2>1, <2>2
<1>3. f = [s \in SUBSET {0} |-> f[s]]
  OBVIOUS
<1> HIDE DEF f
<1>4. Iter(f)
  BY <1>2, <1>3
<1>5. FoldFunction(+, 0, e) = (CHOOSE it : Iter(it))[{0}]
  BY DEF FoldFunction, FoldFunctionOnSet, MapThenFoldSet
<1> DEFINE c == CHOOSE it : Iter(it)
<1>6. Iter(c)
  <2> HIDE DEF Iter
  <2> QED
    BY <1>4
<1> HIDE DEF c
<1>7. c[{}] = 0 /\ c[{0}] = e[0] + c[{}]
  BY <1>0, <1>6
<1>8. FoldFunction(+, 0, e) = c[{0}]
  BY <1>5, Zenon DEF c
<1> HIDE DEF Iter
<1>9. c[{0}] = e[0]
  BY <1>0, <1>7
<1> QED
  BY <1>8, <1>9, Zenon

\* What HashSpec sees of an add and of a test
AddSpec(a) ==
    [pc |-> IF a.pc \in {"sweep", "sum"} THEN "begun"
            ELSE IF a.pc = "lock" THEN "judged" ELSE "idle",
     x |-> a.x, full |-> a.full, seen |-> a.seen]
TestSpec(t) == [x |-> t.x, in |-> t.in, out |-> t.out]

LEMMA AddSpecIs ==
    ASSUME NEW a, AddState(a)
    PROVE  [a EXCEPT !.pc = CASE @ \in {"sweep", "sum"} -> "begun"
                              [] @ = "lock" -> "judged"
                              [] OTHER -> @] = AddSpec(a)
<1> DEFINE pc == CASE a.pc \in {"sweep", "sum"} -> "begun"
                   [] a.pc = "lock" -> "judged"
                   [] OTHER -> a.pc
           s == IF a.pc \in {"sweep", "sum"} THEN "begun"
                ELSE IF a.pc = "lock" THEN "judged" ELSE "idle"
<1>1. pc = s
  BY DEF AddState
<1> HIDE DEF pc, s
<1>2. [a EXCEPT !.pc = pc] = [pc |-> s, x |-> a.x, full |-> a.full, seen |-> a.seen]
  BY <1>1 DEF AddState
<1> QED
  BY <1>2 DEF pc, s, AddSpec

LEMMA SpecStates ==
    ASSUME TypeInv, TypeInv'
    PROVE  /\ AbstractAdding = [p \in Adders |-> AddSpec(adding[p])]
           /\ AbstractAdding' = [p \in Adders |-> AddSpec(adding'[p])]
           /\ AbstractTesting = [q \in Testers |-> TestSpec(testing[q])]
           /\ AbstractTesting' = [q \in Testers |-> TestSpec(testing'[q])]
<1>1. \A p \in Adders : AddState(adding[p]) /\ AddState(adding'[p])
  BY DEF TypeInv, Working
<1> QED
  BY <1>1, AddSpecIs DEF AbstractAdding, AbstractTesting, TestSpec

LEMMA SpecFields ==
    ASSUME TypeInv
    PROVE  /\ \A p \in Adders :
                 LET a == adding[p] IN
                 /\ AddSpec(a).x = a.x /\ AddSpec(a).full = a.full /\ AddSpec(a).seen = a.seen
                 /\ AddSpec(a).pc = "idle" <=> a.pc = "idle"
                 /\ AddSpec(a).pc = "begun" <=> a.pc \in {"sweep", "sum"}
                 /\ AddSpec(a).pc = "judged" <=> a.pc = "lock"
           /\ \A q \in Testers :
                 LET t == testing[q] IN
                 /\ TestSpec(t).x = t.x /\ TestSpec(t).in = t.in /\ TestSpec(t).out = t.out
                 /\ t.pc = "idle" <=> t.x = NoElem
                 /\ t.x # NoElem => t.x \in Elems
<1>1. \A p \in Adders : adding[p].pc \in {"idle", "sweep", "sum", "lock"}
  BY DEF TypeInv, Working, AddState
<1>2. \A q \in Testers : LET t == testing[q] IN
         (t.pc = "idle" <=> t.x = NoElem) /\ (t.x # NoElem => t.x \in Elems)
  BY BucketAssumption DEF TypeInv, Working, TestState, NotTesting
<1> QED
  BY <1>1, <1>2 DEF AddSpec, TestSpec

\* A change as HashSpec describes it
Watched(t, now, again) ==
    IF t.x = NoElem THEN t
    ELSE [t EXCEPT !.in = @ \/ t.x \in now, !.out = @ \/ t.x \notin now \/ t.x \in again]

LEMMA MapsChange ==
    ASSUME TypeInv, TypeInv', NEW again,
           \A q \in Testers : testing[q].pc # "idle" =>
              /\ testing'[q].x = testing[q].x
              /\ testing'[q].in <=> testing[q].in \/ testing[q].x \in LiveElems'
              /\ testing'[q].out <=> \/ testing[q].out
                                     \/ testing[q].x \notin LiveElems'
                                     \/ testing[q].x \in again,
           \A q \in Testers : testing[q].pc = "idle" => testing'[q] = testing[q]
    PROVE  Abstract!Change(LiveElems', again)
<1>1. ASSUME NEW q \in Testers
      PROVE  TestSpec(testing'[q]) = Watched(TestSpec(testing[q]), LiveElems', again)
  <2> DEFINE t == testing[q]
             u == testing'[q]
             in == t.in \/ t.x \in LiveElems'
             out == t.out \/ t.x \notin LiveElems' \/ t.x \in again
  <2>1. TestSpec(t).x = t.x /\ TestSpec(t).in = t.in /\ TestSpec(t).out = t.out
    BY DEF TestSpec
  <2>2. CASE t.pc = "idle"
    BY <2>1, <2>2, SpecFields DEF Watched
  <2>3. CASE t.pc # "idle"
    <3>1. t.x # NoElem
      BY <2>3, SpecFields
    <3>2. u.x = t.x /\ (u.in <=> in) /\ (u.out <=> out)
      BY <2>3
    <3>3. u.in \in BOOLEAN /\ u.out \in BOOLEAN
      BY DEF TypeInv, Working, TestState
    <3>4. u.in = in /\ u.out = out
      BY <3>2, <3>3
    <3>5. [TestSpec(t) EXCEPT !.in = in, !.out = out] = [x |-> t.x, in |-> in, out |-> out]
      <4>1. t.x \in Elems \cup {NoElem} /\ t.in \in BOOLEAN /\ t.out \in BOOLEAN
        BY DEF TypeInv, Working, TestState
      <4>2. in \in BOOLEAN /\ out \in BOOLEAN
        OBVIOUS
      <4> DEFINE r == TestSpec(t)
      <4> HIDE DEF in, out, t
      <4>3. r \in [x : Elems \cup {NoElem}, in : BOOLEAN, out : BOOLEAN] /\ r.x = t.x
        BY <4>1 DEF TestSpec
      <4> HIDE DEF r
      <4> DEFINE n == [r EXCEPT !.in = in, !.out = out]
      <4>4. /\ n \in [x : Elems \cup {NoElem}, in : BOOLEAN, out : BOOLEAN]
            /\ n.x = t.x /\ n.in = in /\ n.out = out
        BY <4>2, <4>3
      <4> HIDE DEF n
      <4>5. n = [x |-> n.x, in |-> n.in, out |-> n.out]
        BY <4>4
      <4>6. n = [x |-> t.x, in |-> in, out |-> out]
        BY <4>4, <4>5
      <4> QED
        BY <4>6 DEF n, r
    <3>6. TestSpec(u) = [x |-> t.x, in |-> in, out |-> out]
      BY <3>2, <3>4 DEF TestSpec
    <3> QED
      BY <2>1, <3>1, <3>5, <3>6 DEF Watched
  <2> QED
    BY <2>2, <2>3
<1>2. \A q \in Testers : AbstractTesting[q] = TestSpec(testing[q])
  BY SpecStates
<1>3. AbstractTesting' = [q \in Testers |-> TestSpec(testing'[q])]
  BY SpecStates
<1>4. AbstractTesting' = [q \in Testers |-> Watched(AbstractTesting[q], LiveElems', again)]
  BY <1>1, <1>2, <1>3
<1> QED
  BY <1>4 DEF Abstract!Change, Watched

LEMMA MapsChanges ==
    ASSUME KeptInv, TypeInv', NEW parted, Changes(parted), NEW again,
           \A x : x \in again <=> x \in parted /\ x \in LiveElems'
    PROVE  Abstract!Change(LiveElems', again)
<1>1. PICK gone, left : Beside(gone, left, parted)
  BY DEF Changes
<1>2. TypeInv /\ Working
  BY DEF KeptInv, CountInv, TypeInv
<1>3. \A q \in Testers : BesideFields(testing[q], testing'[q], gone, left, parted)
  BY <1>1, <1>2, BesideStates
<1> QED
  BY <1>2, <1>3, MapsChange DEF BesideFields

\* ... and none, as tests know what holds now
LEMMA MapsNone ==
    ASSUME KeptInv, TypeInv', UNCHANGED testing, LiveElems' = LiveElems, NEW again,
           \A x \in again : x \notin LiveElems'
    PROVE  Abstract!Change(LiveElems', again)
<1>1. TypeInv
  BY DEF KeptInv, CountInv
<1>2. \A q \in Testers : testing[q].in \in BOOLEAN /\ testing[q].out \in BOOLEAN
  BY <1>1 DEF TypeInv, Working, TestState
<1>3. \A q \in Testers : testing[q].pc # "idle" =>
         /\ testing[q].x \in LiveElems => testing[q].in
         /\ testing[q].x \notin LiveElems => testing[q].out
  BY DEF KeptInv, Seen
<1> QED
  BY <1>1, <1>2, <1>3, MapsChange

\* Another add sees what an add stores
LEMMA SeesMore ==
    ASSUME NEW a, AddState(a), NEW c, AddState(c), NEW x, NEW ret, NEW now,
           AddFields(a, c, x, ret), Crowd(a, UsedElems, LiveElems), now = LiveElems',
           now \subseteq LiveElems \cup (IF ret = "ok" THEN {x} \cap now ELSE {}),
           now \subseteq Elems
    PROVE  AddSpec(c) = IF AddSpec(a).pc = "begun" THEN [AddSpec(a) EXCEPT !.seen = @ \cup now]
                        ELSE AddSpec(a)
<1> DEFINE more == IF ret = "ok" THEN {x} \cap now ELSE {}
           seen == AddSpec(a).seen \cup now
<1>1. /\ c.pc = a.pc /\ c.x = a.x /\ c.full = a.full
      /\ a.pc \in {"sweep", "sum"} => c.seen = a.seen \cup more
      /\ a.pc \notin {"sweep", "sum"} => c = a
  <2>1. a.pc \in {"sweep", "sum"} /\ ret # "ok" => c.seen = a.seen
    BY DEF AddFields
  <2> QED
    BY <2>1 DEF AddFields
<1>2. a.pc \in {"sweep", "sum"} => LiveElems \subseteq a.seen
  BY DEF Crowd
<1>3. now \subseteq LiveElems \cup more /\ more \subseteq now
  OBVIOUS
<1>4. AddSpec(a).pc = "begun" <=> a.pc \in {"sweep", "sum"}
  BY DEF AddSpec
<1>5. AddSpec(a).seen = a.seen
  BY DEF AddSpec
<1> HIDE DEF more
<1>6. CASE a.pc \in {"sweep", "sum"}
  <2>1. c.seen = seen
    BY <1>1, <1>2, <1>3, <1>5, <1>6
  <2> DEFINE r == AddSpec(a)
             n == [r EXCEPT !.seen = seen]
  <2>8. r = [pc |-> "begun", x |-> a.x, full |-> a.full, seen |-> a.seen]
    BY <1>6 DEF AddSpec
  <2>9. a.x \in Elems \cup {NoElem} /\ a.full \in BOOLEAN /\ a.seen \in SUBSET Elems
    BY DEF AddState
  <2>2. r \in [pc : {"begun"}, x : Elems \cup {NoElem}, full : BOOLEAN, seen : SUBSET Elems]
        /\ r.pc = "begun" /\ r.x = a.x /\ r.full = a.full
    <3> HIDE DEF r
    <3> QED
      BY <2>8, <2>9
  <2>3. seen \in SUBSET Elems
    BY <1>5, <2>9
  <2>4. AddSpec(c) = [pc |-> "begun", x |-> a.x, full |-> a.full, seen |-> seen]
    BY <1>1, <1>6, <2>1 DEF AddSpec
  <2> HIDE DEF r, seen
  <2>5. /\ n \in [pc : {"begun"}, x : Elems \cup {NoElem}, full : BOOLEAN, seen : SUBSET Elems]
        /\ n.pc = "begun" /\ n.x = a.x /\ n.full = a.full /\ n.seen = seen
    BY <2>2, <2>3
  <2> HIDE DEF n
  <2>6. n = [pc |-> n.pc, x |-> n.x, full |-> n.full, seen |-> n.seen]
    BY <2>5
  <2>7. AddSpec(c) = n
    BY <2>4, <2>5, <2>6
  <2> QED
    BY <1>4, <1>6, <2>7 DEF n, r, seen
<1>7. CASE a.pc \notin {"sweep", "sum"}
  BY <1>1, <1>4, <1>7
<1> QED
  BY <1>6, <1>7

LEMMA MapsAnswer ==
    ASSUME KeptInv, TypeInv', NEW p \in Adders, adding[p].pc = "lock", NEW ret, AddEnd(p, ret),
           NEW now, now = LiveElems',
           now \subseteq LiveElems \cup (IF ret = "ok" THEN {adding[p].x} \cap now ELSE {}),
           Abstract!Change(now, IF ret = "ok" THEN now \cap {adding[p].x} ELSE {})
    PROVE  Abstract!Answer(p, now, ret)
<1> DEFINE x == adding[p].x
           W == [a \in Adders |->
                   IF AddSpec(adding[a]).pc = "begun"
                   THEN [AddSpec(adding[a]) EXCEPT !.seen = @ \cup now]
                   ELSE AddSpec(adding[a])]
<1>1. TypeInv /\ Working
  BY DEF KeptInv, CountInv, TypeInv
<1>2. /\ adding'[p] = NotAdding
      /\ \A a \in Adders : a # p => AddFields(adding[a], adding'[a], x, ret)
  BY <1>1, AddEndStates
<1>3. \A a \in Adders : AddState(adding[a]) /\ AddState(adding'[a])
                        /\ Crowd(adding[a], UsedElems, LiveElems)
  BY DEF KeptInv, CountInv, TypeInv, Working
<1>4. now \subseteq Elems
  BY DEF LiveElems
<1>5. ASSUME NEW a \in Adders, a # p PROVE AddSpec(adding'[a]) = W[a]
  <2> DEFINE old == adding[a]
             new == adding'[a]
  <2>1. AddFields(old, new, x, ret) /\ AddState(old) /\ AddState(new)
        /\ Crowd(old, UsedElems, LiveElems)
    BY <1>2, <1>3, <1>5
  <2>2. W[a] = IF AddSpec(old).pc = "begun" THEN [AddSpec(old) EXCEPT !.seen = @ \cup now]
               ELSE AddSpec(old)
    OBVIOUS
  <2> HIDE DEF W, x, old, new
  <2>3. now \subseteq LiveElems \cup (IF ret = "ok" THEN {x} \cap now ELSE {})
    BY DEF x
  <2>4. AddSpec(new) = IF AddSpec(old).pc = "begun" THEN [AddSpec(old) EXCEPT !.seen = @ \cup now]
                       ELSE AddSpec(old)
    BY <1>4, <2>1, <2>3, SeesMore
  <2> QED
    BY <2>2, <2>4 DEF new
<1>6. AddSpec(adding'[p]) = Abstract!NotAdding
  BY <1>2 DEF AddSpec, NotAdding, Abstract!NotAdding
<1>7. /\ AbstractAdding = [a \in Adders |-> AddSpec(adding[a])]
      /\ AbstractAdding' = [a \in Adders |-> AddSpec(adding'[a])]
  BY <1>1, SpecStates
<1>8. Abstract!Witnessed(now) = W
  BY <1>7 DEF Abstract!Witnessed
<1>9. AbstractAdding' = [Abstract!Witnessed(now) EXCEPT ![p] = Abstract!NotAdding]
  <2> HIDE DEF W
  <2>1. [Abstract!Witnessed(now) EXCEPT ![p] = Abstract!NotAdding]
          = [a \in Adders |-> IF a = p THEN Abstract!NotAdding ELSE W[a]]
    BY <1>8 DEF W
  <2> QED
    BY <1>5, <1>6, <1>7, <2>1
<1>10. AbstractAdding[p].pc = "judged" /\ AbstractAdding[p].x = x
  BY <1>1, <1>7, SpecFields
<1>11. answer' = <<p, ret>> /\ UNCHANGED forceadd
  BY DEF AddEnd, config
<1> HIDE DEF W
<1> QED
  BY <1>9, <1>10, <1>11 DEF Abstract!Answer

LEMMA MapsAdding ==
    ASSUME TypeInv, TypeInv', NEW p \in Adders, NEW a, adding' = [adding EXCEPT ![p] = a]
    PROVE  /\ AbstractAdding' = [AbstractAdding EXCEPT ![p] = AddSpec(a)]
           /\ AbstractAdding[p] = AddSpec(adding[p])
<1>1. adding'[p] = a /\ \A b \in Adders : b # p => adding'[b] = adding[b]
  BY DEF TypeInv, Working
<1>2. /\ AbstractAdding = [b \in Adders |-> AddSpec(adding[b])]
      /\ AbstractAdding' = [b \in Adders |-> AddSpec(adding'[b])]
  BY SpecStates
<1> QED
  BY <1>1, <1>2

LEMMA MapsTesting ==
    ASSUME TypeInv, TypeInv', NEW q \in Testers, NEW t, testing' = [testing EXCEPT ![q] = t]
    PROVE  /\ AbstractTesting' = [AbstractTesting EXCEPT ![q] = TestSpec(t)]
           /\ AbstractTesting[q] = TestSpec(testing[q])
<1>1. testing'[q] = t /\ \A c \in Testers : c # q => testing'[c] = testing[c]
  BY DEF TypeInv, Working
<1>2. /\ AbstractTesting = [c \in Testers |-> TestSpec(testing[c])]
      /\ AbstractTesting' = [c \in Testers |-> TestSpec(testing'[c])]
  BY SpecStates
<1> QED
  BY <1>1, <1>2

\* HashSpec counts as the table does
LEMMA SameCardinality ==
    \A S : Abstract!Cardinality(S) = Cardinality(S)
BY Zenon DEF Abstract!Cardinality, Cardinality

\* An add begins and judges
LEMMA MapsAddBegin ==
    ASSUME KeptInv, TypeInv', NEW p \in Adders, NEW x \in Elems, AddBegin(p, x)
    PROVE  Abstract!Begin(p, x)
<1>1. /\ adding' = [adding EXCEPT ![p] = Begun(p, x)] /\ adding[p].pc = "idle"
      /\ UNCHANGED <<config, bucket, testing, answer>>
  BY DEF AddBegin, Begun, Free
<1>2. TypeInv /\ Table
  BY DEF KeptInv, CountInv, TypeInv
<1>3. /\ AbstractAdding' = [AbstractAdding EXCEPT ![p] = AddSpec(Begun(p, x))]
      /\ AbstractAdding[p] = AddSpec(adding[p])
  BY <1>1, <1>2, MapsAdding
<1>4. AbstractAdding[p].pc = "idle"
  BY <1>1, <1>2, <1>3, SpecFields
<1>5. \/ AddSpec(Begun(p, x)) = [pc |-> "begun", x |-> x, full |-> FALSE, seen |-> LiveElems]
      \/ AddSpec(Begun(p, x)) = [pc |-> "judged", x |-> x, full |-> FALSE, seen |-> {}]
  BY DEF AddSpec, Begun
<1>6. LiveElems' = LiveElems
  BY <1>1, <1>2, TableKept
<1>7. UNCHANGED <<answer, forceadd, AbstractTesting>>
  BY <1>1 DEF config, AbstractTesting
<1> QED
  BY <1>3, <1>4, <1>5, <1>6, <1>7 DEF Abstract!Begin

LEMMA MapsAddSum ==
    ASSUME Locks = 1, KeptInv, TypeInv', NEW p \in Adders, AddSum(p)
    PROVE  Abstract!Judge(p, IsFull)
<1> DEFINE a == adding[p]
           c == [a EXCEPT !.pc = "lock", !.full = IsFull, !.seen = {}]
           s == AddSpec(a)
           n == [s EXCEPT !.pc = "judged", !.full = IsFull, !.seen = {}]
<1>1. /\ adding' = [adding EXCEPT ![p] = c] /\ a.pc = "sum"
      /\ UNCHANGED <<config, bucket, testing, answer>>
  BY DEF AddSum
<1>2. TypeInv /\ Table /\ AddState(a) /\ Crowd(a, UsedElems, LiveElems)
  BY DEF KeptInv, CountInv, TypeInv, Working
<1>3. AbstractAdding' = [AbstractAdding EXCEPT ![p] = AddSpec(c)] /\ AbstractAdding[p] = s
  <2> HIDE DEF c
  <2> QED
    BY <1>1, <1>2, MapsAdding
<1>4. s.pc = "begun" /\ s.seen = a.seen /\ s.x = a.x
  BY <1>1 DEF AddSpec
<1>5. IsFull \in BOOLEAN
  BY DEF IsFull
<1>6. AddSpec(c) = n
  <2>1. c.pc = "lock" /\ c.x = a.x /\ c.full = IsFull /\ c.seen = {}
    <3> HIDE DEF a
    <3> QED
      BY <1>2 DEF AddState
  <2>2. AddSpec(c) = [pc |-> "judged", x |-> a.x, full |-> IsFull, seen |-> {}]
    <3> HIDE DEF c
    <3> QED
      BY <2>1 DEF AddSpec
  <2>3. a.x \in Elems \cup {NoElem} /\ a.full \in BOOLEAN /\ a.seen \in SUBSET Elems
    BY <1>2 DEF AddState
  <2>4. s = [pc |-> "begun", x |-> a.x, full |-> a.full, seen |-> a.seen]
    BY <1>1 DEF AddSpec
  <2> DEFINE T == [pc : {"begun", "judged"}, x : Elems \cup {NoElem},
                   full : BOOLEAN, seen : SUBSET Elems]
  <2>5. s \in T /\ s.x = a.x
    <3> HIDE DEF s, a
    <3> QED
      BY <2>3, <2>4
  <2> HIDE DEF s, a
  <2>6. n \in T /\ n.pc = "judged" /\ n.x = a.x /\ n.full = IsFull /\ n.seen = {}
    BY <1>5, <2>5
  <2> HIDE DEF n
  <2>7. n = [pc |-> n.pc, x |-> n.x, full |-> n.full, seen |-> n.seen]
    BY <2>6
  <2> HIDE DEF c
  <2> QED
    BY <2>2, <2>6, <2>7
<1>7. IsFull => Cardinality(a.seen) >= MaxElem
  <2>1. 0 \in Regions /\ elements[0] = Cardinality(UsedElems)
    BY OneRegion DEF KeptInv, CountInv
  <2>2. elements \in [{0} -> Nat]
    <3>1. CountMod \in Nat
      BY BucketAssumption
    <3> QED
      BY <1>2, <3>1, OneRegion DEF TypeInv, Working
  <2>3. Sum = elements[0]
    BY <2>2, SumOne, Zenon DEF Sum
  <2>4. UsedElems \subseteq a.seen /\ a.seen \subseteq Elems
    BY <1>1, <1>2 DEF Crowd, AddState
  <2>5. IsFiniteSet(a.seen) /\ Cardinality(a.seen) \in Nat
    BY <2>4, FewEnough
  <2>6. Cardinality(UsedElems) <= Cardinality(a.seen)
    BY <2>4, <2>5, FS_Subset
  <2>7. Cardinality(UsedElems) \in Nat /\ MaxElem \in Nat
    BY <2>4, FewEnough, BucketAssumption
  <2>8. IsFull => Cardinality(UsedElems) >= MaxElem
    BY <2>1, <2>3 DEF IsFull
  <2> HIDE DEF a
  <2> QED
    BY <2>5, <2>6, <2>7, <2>8
<1>8. LiveElems' = LiveElems
  BY <1>1, <1>2, TableKept
<1>9. UNCHANGED <<answer, forceadd, AbstractTesting>>
  BY <1>1 DEF config, AbstractTesting
<1> HIDE DEF a, c, s
<1> QED
  BY <1>3, <1>4, <1>6, <1>7, <1>8, <1>9, SameCardinality DEF Abstract!Judge

\* The gc leaves what the set promises
LEMMA MapsSweep ==
    ASSUME Locks = 1, KeptInv, TypeInv', NEW r \in Regions, Sweep(r), UNCHANGED config
    PROVE  LiveElems' = LiveElems /\ AbstractTesting' = AbstractTesting
<1>1. LiveElems' = LiveElems /\ Changes({})
  BY KeptSweep
<1>2. PICK gone, left : Beside(gone, left, {})
  BY <1>1 DEF Changes
<1>3. TypeInv /\ Working
  BY DEF KeptInv, CountInv, TypeInv
<1>4. ASSUME NEW q \in Testers PROVE TestSpec(testing'[q]) = TestSpec(testing[q])
  <2> DEFINE t == testing[q]
             u == testing'[q]
  <2>1. BesideFields(t, u, gone, left, {}) /\ Seen(t, bucket, LiveElems)
    BY <1>2, <1>3, BesideStates DEF KeptInv
  <2>2. t.in \in BOOLEAN /\ t.out \in BOOLEAN /\ u.in \in BOOLEAN /\ u.out \in BOOLEAN
    BY <1>3 DEF TypeInv, Working, TestState
  <2> HIDE DEF t, u
  <2>3. ASSUME t.pc = "idle" PROVE TestSpec(u) = TestSpec(t)
    BY <2>1, <2>3 DEF BesideFields
  <2>4. ASSUME t.pc # "idle" PROVE TestSpec(u) = TestSpec(t)
    <3>1. /\ u.x = t.x
          /\ u.in <=> t.in \/ t.x \in LiveElems
          /\ u.out <=> t.out \/ t.x \notin LiveElems
      BY <1>1, <2>1, <2>4 DEF BesideFields
    <3>2. (t.x \in LiveElems => t.in) /\ (t.x \notin LiveElems => t.out)
      BY <2>1, <2>4 DEF Seen
    <3>3. (u.in <=> t.in) /\ (u.out <=> t.out)
      BY <3>1, <3>2
    <3> QED
      BY <2>2, <3>1, <3>3 DEF TestSpec
  <2>5. TestSpec(u) = TestSpec(t)
    BY <2>3, <2>4
  <2> QED
    BY <2>5 DEF t, u
<1>5. /\ AbstractTesting = [q \in Testers |-> TestSpec(testing[q])]
      /\ AbstractTesting' = [q \in Testers |-> TestSpec(testing'[q])]
  BY <1>3, SpecStates
<1> QED
  BY <1>1, <1>4, <1>5

LEMMA MapsAddSweep ==
    ASSUME Locks = 1, KeptInv, TypeInv', NEW p \in Adders, AddSweep(p)
    PROVE  UNCHANGED Abstract!vars
<1> DEFINE a == adding[p]
           c == [a EXCEPT !.pc = "sum"]
<1>1. a.pc = "sweep" /\ UNCHANGED <<config, answer>> /\ adding' = [adding EXCEPT ![p] = c]
  BY DEF AddSweep
<1>2. TypeInv /\ AddState(a)
  BY DEF KeptInv, CountInv, TypeInv, Working
<1>3. PICK r \in Regions : Sweep(r)
  <2>1. a.x \in Elems
    BY <1>1, <1>2 DEF AddState
  <2> QED
    BY <2>1, Hashed, RegionOf DEF AddSweep
<1>4. LiveElems' = LiveElems /\ AbstractTesting' = AbstractTesting
  BY <1>1, <1>3, MapsSweep
<1>5. AddSpec(c) = AddSpec(a)
  <2> HIDE DEF a
  <2>1. c.pc = "sum" /\ c.x = a.x /\ c.full = a.full /\ c.seen = a.seen
    BY <1>2 DEF AddState
  <2> HIDE DEF c
  <2> QED
    BY <1>1, <2>1 DEF AddSpec
<1>6. AbstractAdding' = [AbstractAdding EXCEPT ![p] = AddSpec(c)] /\ AbstractAdding[p] = AddSpec(a)
  <2> HIDE DEF c
  <2> QED
    BY <1>1, <1>2, MapsAdding
<1>7. AbstractAdding = [b \in Adders |-> AbstractAdding[b]]
  BY <1>2, SpecStates
<1>8. AbstractAdding' = AbstractAdding
  <2> HIDE DEF a, c
  <2> QED
    BY <1>5, <1>6, <1>7
<1> QED
  BY <1>1, <1>4, <1>8 DEF Abstract!vars, config

\* An add is answered
LEMMA MapsAdd ==
    ASSUME KeptInv, TypeInv', NEW p \in Adders, Add(p)
    PROVE  \/ Abstract!Stored(p) \/ Abstract!Forced(p) \/ Abstract!Exists(p)
           \/ Abstract!Full(p) \/ Abstract!Failed(p)
<1> DEFINE x == adding[p].x
<1>1. TypeInv /\ Table /\ Working /\ adding[p].pc = "lock" /\ x \in Elems
  BY DEF KeptInv, CountInv, TypeInv, Working, AddState, Add
<1>2. Outcome(p)
  BY <1>1, AddEffect
<1>3. /\ AbstractAdding[p].x = x
      /\ AbstractAdding[p].full = adding[p].full
  BY <1>1, SpecFields, SpecStates DEF KeptInv
<1>4. LiveElems \subseteq UsedElems
  BY <1>1, Fewer
\* ... refused, or lost by force
<1>5. ASSUME NEW ret, AddRefused(p, ret), ret = "ok" => x \notin LiveElems
      PROVE  Abstract!Answer(p, LiveElems, ret)
  <2>1. UNCHANGED <<config, bucket, testing>> /\ AddEnd(p, ret)
    BY <1>5 DEF AddRefused, AddEnd
  <2>2. LiveElems' = LiveElems
    BY <1>1, <2>1, TableKept
  <2> DEFINE again == IF ret = "ok" THEN LiveElems \cap {x} ELSE {}
  <2>3. \A y \in again : y \notin LiveElems'
    BY <1>5, <2>2
  <2>4. Abstract!Change(LiveElems, again)
    <3> HIDE DEF again
    <3> QED
      BY <2>1, <2>2, <2>3, MapsNone
  <2> QED
    BY <1>1, <2>1, <2>2, <2>4, MapsAnswer
\* ... or stored
<1>6. ASSUME NEW lost, NEW parted, Stores(p, lost, parted), NEW now, now = LiveElems',
             x \in parted, \A y \in parted : y = x \/ y \notin now
      PROVE  Abstract!Answer(p, now, "ok")
  <2>1. /\ now = (LiveElems \ lost) \cup {x} /\ Changes(parted) /\ AddEnd(p, "ok")
    BY <1>6 DEF Stores
  <2> DEFINE again == now \cap {x}
  <2>2. \A y : y \in again <=> y \in parted /\ y \in LiveElems'
    BY <1>6
  <2>3. Abstract!Change(now, again)
    <3> HIDE DEF again
    <3> QED
      BY <1>6, <2>1, <2>2, MapsChanges
  <2>4. now \subseteq LiveElems \cup (IF "ok" = "ok" THEN {x} \cap now ELSE {})
    BY <2>1
  <2>5. Abstract!Change(now, IF "ok" = "ok" THEN now \cap {x} ELSE {})
    BY <2>3
  <2> QED
    BY <1>1, <1>6, <2>1, <2>4, <2>5, MapsAnswer
<1>7. CASE \E ret \in {"exist", "full", "again", "nomem"} : Refusable(p, ret) /\ AddRefused(p, ret)
  <2>1. PICK ret \in {"exist", "full", "again", "nomem"} : Refusable(p, ret) /\ AddRefused(p, ret)
    BY <1>7
  <2>2. Abstract!Answer(p, LiveElems, ret)
    BY <1>5, <2>1
  <2> QED
    BY <1>3, <2>1, <2>2 DEF Refusable, Abstract!Exists, Abstract!Full, Abstract!Failed
<1>8. ASSUME NEW lost, Stores(p, lost, {x}), LiveElems \ lost = LiveElems
      PROVE  Abstract!Stored(p)
  <2>1. LiveElems' = LiveElems \cup {x}
    BY <1>8 DEF Stores
  <2> DEFINE now == LiveElems \cup {x}
  <2>2. now = LiveElems' /\ x \in {x} /\ \A y \in {x} : y = x \/ y \notin now
    BY <2>1
  <2>3. Abstract!Answer(p, now, "ok")
    <3> HIDE DEF now
    <3> QED
      BY <1>6, <1>8, <2>2
  <2> QED
    BY <1>3, <2>3 DEF Abstract!Stored
<1>9. CASE \E lost : Stores(p, lost, {x}) /\ LiveElems \ lost = LiveElems
  BY <1>8, <1>9
<1>10. CASE /\ x \notin UsedElems /\ Forced(p)
            /\ \E y \in LiveElems : Stores(p, {y}, {x, y})
  <2>1. PICK y \in LiveElems : Stores(p, {y}, {x, y})
    BY <1>10
  <2> DEFINE now == (LiveElems \ {y}) \cup {x}
  <2>2. now = LiveElems'
    BY <2>1 DEF Stores
  <2>3. x \in {x, y} /\ \A z \in {x, y} : z = x \/ z \notin now
    OBVIOUS
  <2>4. Abstract!Answer(p, now, "ok")
    <3> HIDE DEF now
    <3> QED
      BY <1>6, <2>1, <2>2, <2>3
  <2>5. forceadd /\ adding[p].full /\ x \notin LiveElems
    BY <1>4, <1>10 DEF Forced
  <2> QED
    BY <1>3, <2>4, <2>5 DEF Abstract!Forced
<1>11. CASE x \notin UsedElems /\ Forced(p) /\ AddRefused(p, "ok")
  <2>1. forceadd /\ adding[p].full /\ x \notin LiveElems
    BY <1>4, <1>11 DEF Forced
  <2>2. Abstract!Answer(p, LiveElems, "ok")
    BY <1>5, <1>11, <2>1
  <2> QED
    BY <1>3, <2>1, <2>2 DEF Abstract!Forced
<1>12. \A y : y \notin LiveElems => LiveElems \ {y} = LiveElems
  OBVIOUS
<1>13. LiveElems \ {} = LiveElems
  OBVIOUS
<1> QED
  BY <1>2, <1>7, <1>9, <1>10, <1>11, <1>12, <1>13 DEF Outcome

\* Deletes, timeouts and flushes
LEMMA MapsDel ==
    ASSUME KeptInv, TypeInv', NEW p \in Adders, NEW x \in Elems, Del(p, x)
    PROVE  Abstract!Del(p, x)
<1>1. TypeInv /\ Table
  BY DEF KeptInv, CountInv, TypeInv
<1>2. /\ adding[p].pc = "idle" /\ UNCHANGED <<config, adding>>
      /\ answer' = <<p, IF x \in LiveElems THEN "ok" ELSE "exist">>
  BY DEF Del, Free
<1>3. AbstractAdding[p].pc = "idle"
  BY <1>1, <1>2, SpecFields, SpecStates
<1>4. Abstract!Change(LiveElems \ {x}, {})
  <2> DEFINE now == LiveElems \ {x}
             none == {}
  <2>1. CASE x \notin LiveElems
    <3>1. UNCHANGED <<bucket, testing>>
      BY <1>1, <2>1, DelEffect
    <3>2. LiveElems' = LiveElems /\ now = LiveElems'
      BY <1>1, <1>2, <2>1, <3>1, TableKept
    <3>3. \A y \in none : y \notin LiveElems'
      OBVIOUS
    <3>4. Abstract!Change(LiveElems', none)
      <4> HIDE DEF none
      <4> QED
        BY <3>1, <3>2, <3>3, MapsNone
    <3> HIDE DEF now
    <3> QED
      BY <3>2, <3>4 DEF now
  <2>2. CASE x \in LiveElems
    <3>1. LiveElems' = now /\ Changes({x})
      BY <1>1, <2>2, DelEffect
    <3>2. \A y : y \in none <=> y \in {x} /\ y \in LiveElems'
      BY <3>1
    <3>3. Abstract!Change(LiveElems', none)
      <4> HIDE DEF none
      <4> QED
        BY <3>1, <3>2, MapsChanges
    <3> HIDE DEF now
    <3> QED
      BY <3>1, <3>3 DEF now
  <2> QED
    BY <2>1, <2>2
<1>5. UNCHANGED <<forceadd, AbstractAdding>>
  BY <1>2 DEF config, AbstractAdding
<1> QED
  BY <1>2, <1>3, <1>4, <1>5 DEF Abstract!Del

LEMMA MapsExpire ==
    ASSUME KeptInv, TypeInv', NEW x \in Elems, Expire(x)
    PROVE  Abstract!Expire(x)
<1>1. TypeInv /\ Table /\ Working
  BY DEF KeptInv, CountInv, TypeInv
<1>2. x \in LiveElems /\ LiveElems' = LiveElems \ {x}
  BY <1>1, ExpireEffect
<1>3. UNCHANGED <<config, adding, answer>>
  BY DEF Expire
<1> DEFINE none == {}
<1>4. ASSUME NEW q \in Testers
      PROVE  /\ testing[q].pc # "idle" =>
                   /\ testing'[q].x = testing[q].x
                   /\ testing'[q].in <=> testing[q].in \/ testing[q].x \in LiveElems'
                   /\ testing'[q].out <=> \/ testing[q].out
                                          \/ testing[q].x \notin LiveElems'
                                          \/ testing[q].x \in none
             /\ testing[q].pc = "idle" => testing'[q] = testing[q]
  <2> DEFINE t == testing[q]
             u == testing'[q]
  <2>1. /\ TestState(t) /\ TestState(u) /\ ExpireFields(t, u, x)
        /\ Seen(t, bucket, LiveElems)
    BY <1>1, ExpireStates DEF Working, KeptInv
  <2> HIDE DEF t, u
  <2>2. CASE t.x # x
    <3>1. u = t
      BY <2>1, <2>2 DEF ExpireFields
    <3>2. t.pc # "idle" => /\ t.x \in LiveElems => t.in
                           /\ t.x \notin LiveElems => t.out
      BY <2>1 DEF Seen
    <3>3. t.x \in LiveElems' <=> t.x \in LiveElems
      BY <1>2, <2>2
    <3>4. t.in \in BOOLEAN /\ t.out \in BOOLEAN
      BY <2>1 DEF TestState
    <3> QED
      BY <3>1, <3>2, <3>3, <3>4 DEF t, u
  <2>3. CASE t.x = x
    <3>1. t.pc # "idle" /\ u.x = t.x /\ u.in = t.in /\ u.out
      <4>1. t.pc # "idle"
        BY <2>1, <2>3, BucketAssumption DEF TestState, NotTesting
      <4> QED
        BY <2>1, <2>3, <4>1 DEF ExpireFields
    <3>2. t.in
      BY <1>2, <2>1, <2>3, <3>1 DEF Seen
    <3>3. t.x \notin LiveElems'
      BY <1>2, <2>3
    <3> QED
      BY <3>1, <3>2, <3>3 DEF t, u
  <2> QED
    BY <2>2, <2>3
<1>5. Abstract!Change(LiveElems', none)
  <2> HIDE DEF none
  <2> QED
    BY <1>1, <1>4, MapsChange
<1>6. Abstract!Change(LiveElems \ {x}, {})
  BY <1>2, <1>5
<1>7. UNCHANGED <<forceadd, AbstractAdding, answer>>
  BY <1>3 DEF config, AbstractAdding
<1> QED
  BY <1>2, <1>6, <1>7 DEF Abstract!Expire

LEMMA MapsFlush ==
    ASSUME Locks = 1, KeptInv, TypeInv', Flush
    PROVE  Abstract!Flush
<1>1. TypeInv /\ Table /\ flushing \in Regions
  BY DEF KeptInv, CountInv, TypeInv, Working
<1>2. UNCHANGED <<config, adding, answer>>
  BY DEF Flush
<1> DEFINE parted == {x \in Elems : HKEY[x] \in KeysOf(flushing)}
           none == {}
<1>3. LiveElems' = LiveElems \ Counts(flushing) /\ Changes(parted)
  BY <1>1, FlushEffect
<1>4. LiveElems' = {}
  BY <1>1, <1>3, OneRegion, Fewer
<1>5. \A y : y \in none <=> y \in parted /\ y \in LiveElems'
  BY <1>4
<1>6. Abstract!Change(LiveElems', none)
  <2> HIDE DEF none
  <2> QED
    BY <1>3, <1>5, MapsChanges
<1>7. Abstract!Change({}, {})
  BY <1>4, <1>6
<1>8. UNCHANGED <<forceadd, AbstractAdding, answer>>
  BY <1>2 DEF config, AbstractAdding
<1> QED
  BY <1>7, <1>8 DEF Abstract!Flush

\* Tests begin, go on and answer
LEMMA MapsTestBegin ==
    ASSUME KeptInv, TypeInv', NEW q \in Testers, NEW x \in Elems, TestBegin(q, x)
    PROVE  Abstract!TestBegin(q, x)
<1>1. /\ testing' = [testing EXCEPT ![q] = TestBegun(x)] /\ testing[q].pc = "idle"
      /\ UNCHANGED <<config, bucket, adding, answer>>
  BY DEF TestBegin, TestBegun
<1>2. TypeInv /\ Table
  BY DEF KeptInv, CountInv, TypeInv
<1>3. /\ AbstractTesting' = [AbstractTesting EXCEPT ![q] = TestSpec(TestBegun(x))]
      /\ AbstractTesting[q] = TestSpec(testing[q])
  BY <1>1, <1>2, MapsTesting
<1>4. AbstractTesting[q].x = NoElem
  BY <1>1, <1>2, <1>3, SpecFields
<1>5. TestSpec(TestBegun(x)) = [x |-> x, in |-> x \in LiveElems, out |-> x \notin LiveElems]
  BY DEF TestSpec, TestBegun
<1>6. LiveElems' = LiveElems
  BY <1>1, <1>2, TableKept
<1>7. UNCHANGED <<forceadd, AbstractAdding, answer>>
  BY <1>1 DEF config, AbstractAdding
<1> QED
  BY <1>3, <1>4, <1>5, <1>6, <1>7 DEF Abstract!TestBegin

LEMMA MapsTestEnd ==
    ASSUME KeptInv, TypeInv', NEW q \in Testers, testing[q].pc # "idle", NEW found \in BOOLEAN,
           TestEnd(q, IF found THEN "in" ELSE "out"),
           IF found THEN testing[q].in ELSE testing[q].out
    PROVE  Abstract!TestAnswer(q, found)
<1>1. /\ testing' = [testing EXCEPT ![q] = NotTesting]
      /\ answer' = <<q, IF found THEN "in" ELSE "out">>
      /\ UNCHANGED <<config, bucket, adding>>
  BY DEF TestEnd
<1>2. TypeInv /\ Table
  BY DEF KeptInv, CountInv, TypeInv
<1>3. /\ AbstractTesting' = [AbstractTesting EXCEPT ![q] = TestSpec(NotTesting)]
      /\ AbstractTesting[q] = TestSpec(testing[q])
  BY <1>1, <1>2, MapsTesting
<1>4. /\ AbstractTesting[q].x # NoElem
      /\ IF found THEN AbstractTesting[q].in ELSE AbstractTesting[q].out
  BY <1>2, <1>3, SpecFields
<1>5. TestSpec(NotTesting) = Abstract!NotTesting
  BY DEF TestSpec, NotTesting, Abstract!NotTesting
<1>6. LiveElems' = LiveElems
  BY <1>1, <1>2, TableKept
<1>7. UNCHANGED <<forceadd, AbstractAdding>>
  BY <1>1 DEF config, AbstractAdding
<1> QED
  BY <1>1, <1>3, <1>4, <1>5, <1>6, <1>7 DEF Abstract!TestAnswer

LEMMA MapsTest ==
    ASSUME KeptInv, TypeInv', NEW q \in Testers, TestWalk(q) \/ TestCopy(q)
    PROVE  (\E found \in BOOLEAN : Abstract!TestAnswer(q, found)) \/ UNCHANGED Abstract!vars
<1>1. TypeInv /\ Table /\ Working /\ \A c \in Testers : Seen(testing[c], bucket, LiveElems)
  BY DEF KeptInv, CountInv, TypeInv
<1>2. testing[q].pc # "idle"
  BY DEF TestWalk, TestCopy
<1>3. \/ TestEnd(q, "out") /\ testing[q].out
      \/ TestEnd(q, "in") /\ testing[q].in
      \/ /\ TestWalk(q) /\ testing' = [testing EXCEPT ![q].i = @ + 1]
         /\ UNCHANGED <<config, bucket, elements, adding, flushing, answer>>
  BY <1>1, SeenWalk, SeenCopy
<1>4. CASE TestEnd(q, "out") /\ testing[q].out
  <2> DEFINE found == FALSE
  <2>1. found \in BOOLEAN /\ TestEnd(q, IF found THEN "in" ELSE "out")
        /\ IF found THEN testing[q].in ELSE testing[q].out
    BY <1>4
  <2> HIDE DEF found
  <2> QED
    BY <1>2, <2>1, MapsTestEnd
<1>5. CASE TestEnd(q, "in") /\ testing[q].in
  <2> DEFINE found == TRUE
  <2>1. found \in BOOLEAN /\ TestEnd(q, IF found THEN "in" ELSE "out")
        /\ IF found THEN testing[q].in ELSE testing[q].out
    BY <1>5
  <2> HIDE DEF found
  <2> QED
    BY <1>2, <2>1, MapsTestEnd
<1>6. CASE /\ TestWalk(q) /\ testing' = [testing EXCEPT ![q].i = @ + 1]
           /\ UNCHANGED <<config, bucket, elements, adding, flushing, answer>>
  <2> DEFINE t == testing[q]
             u == testing'[q]
  <2>1. /\ \A c \in Testers : c # q => testing'[c] = testing[c]
        /\ u.x = t.x /\ u.in = t.in /\ u.out = t.out
    <3>1. t.pc = "walk"
      BY <1>6 DEF TestWalk
    <3> QED
      BY <1>1, <1>6, <3>1, TestNext
  <2>2. TestSpec(u) = TestSpec(t)
    BY <2>1 DEF TestSpec
  <2>3. AbstractTesting' = AbstractTesting
    BY <1>1, <2>1, <2>2, SpecStates
  <2>4. LiveElems' = LiveElems
    BY <1>1, <1>6, TableKept
  <2> QED
    BY <1>6, <2>3, <2>4 DEF Abstract!vars, AbstractAdding, config
<1> QED
  BY <1>3, <1>4, <1>5, <1>6

LEMMA MapsNext ==
    ASSUME Locks = 1, KeptInv, TypeInv', [Next]_vars
    PROVE  [Abstract!Next]_(Abstract!vars)
<1>0. TypeInv /\ Table
  BY DEF KeptInv, CountInv, TypeInv
<1>1. ASSUME NEW p \in Adders, NEW x \in Elems, AddBegin(p, x) PROVE Abstract!Next
  BY <1>1, MapsAddBegin DEF Abstract!Next
<1>2. ASSUME NEW p \in Adders, AddSweep(p) PROVE UNCHANGED Abstract!vars
  BY <1>2, MapsAddSweep
<1>3. ASSUME NEW p \in Adders, AddSum(p) PROVE Abstract!Next
  <2>1. IsFull \in BOOLEAN
    BY DEF IsFull
  <2>2. Abstract!Judge(p, IsFull)
    BY <1>3, MapsAddSum
  <2> QED
    BY <2>1, <2>2 DEF Abstract!Next
<1>4. ASSUME NEW p \in Adders, Add(p) PROVE Abstract!Next
  BY <1>4, MapsAdd DEF Abstract!Next
<1>5. ASSUME NEW p \in Adders, NEW x \in Elems, Del(p, x) PROVE Abstract!Next
  BY <1>5, MapsDel DEF Abstract!Next
<1>6. ASSUME NEW q \in Testers, NEW x \in Elems, TestBegin(q, x) PROVE Abstract!Next
  BY <1>6, MapsTestBegin DEF Abstract!Next
<1>7. ASSUME NEW q \in Testers, TestWalk(q) \/ TestCopy(q)
      PROVE  Abstract!Next \/ UNCHANGED Abstract!vars
  BY <1>7, MapsTest DEF Abstract!Next
<1>8. ASSUME NEW x \in Elems, Expire(x) PROVE Abstract!Next
  BY <1>8, MapsExpire DEF Abstract!Next
<1>9. ASSUME NEW r \in Regions, Gc(r) PROVE UNCHANGED Abstract!vars
  <2>1. Sweep(r) /\ UNCHANGED <<config, adding, answer>>
    BY <1>9 DEF Gc
  <2>2. LiveElems' = LiveElems /\ AbstractTesting' = AbstractTesting
    BY <2>1, MapsSweep
  <2> QED
    BY <2>1, <2>2 DEF Abstract!vars, AbstractAdding, config
<1>10. CASE Flush
  BY <1>10, MapsFlush DEF Abstract!Next
<1>11. CASE UNCHANGED vars
  BY <1>0, <1>11, TableKept DEF vars, config, Abstract!vars, AbstractAdding, AbstractTesting
<1> QED
  BY <1>1, <1>2, <1>3, <1>4, <1>5, <1>6, <1>7, <1>8, <1>9, <1>10, <1>11 DEF Next

LEMMA MapsInit == Init => Abstract!Init
<1> SUFFICES ASSUME Init PROVE Abstract!Init
  OBVIOUS
<1>1. TypeInv
  BY TypeInit
<1>2. LiveElems = {}
  <2>1. \A k \in Keys : LiveIn(bucket[k].slots) = {}
    BY BucketNone DEF Init
  <2> QED
    BY <2>1, Hashed, LivesOf DEF LiveOf
<1>3. \A p \in Adders : adding[p] = NotAdding
  BY DEF Init
<1>4. AddSpec(NotAdding) = Abstract!NotAdding
  BY DEF AddSpec, NotAdding, Abstract!NotAdding
<1>5. AbstractAdding = [p \in Adders |-> Abstract!NotAdding]
  <2>1. \A p \in Adders : [adding[p] EXCEPT !.pc = CASE @ \in {"sweep", "sum"} -> "begun"
                                                     [] @ = "lock" -> "judged"
                                                     [] OTHER -> @] = AddSpec(adding[p])
    BY <1>1, AddSpecIs DEF TypeInv, Working
  <2> QED
    BY <1>3, <1>4, <2>1 DEF AbstractAdding
<1>6. AbstractTesting = [q \in Testers |-> Abstract!NotTesting]
  BY DEF Init, AbstractTesting, NotTesting, Abstract!NotTesting
<1>7. forceadd \in BOOLEAN /\ answer = <<NoElem, "none">>
  BY <1>1 DEF TypeInv, Table, Init
<1> QED
  BY <1>2, <1>5, <1>6, <1>7 DEF Abstract!Init

\* With one region the hash table is the set that HashSpec promises: adds, deletes, gc,
\* timeouts, flushes and lockless tests, in any order and at any moment, answer what a set
\* of elements would, whatever is the size of the arrays, the hash and the number of
\* commands, packets and tests (mtype_add, mtype_del, mtype_test, mtype_gc, mtype_flush)
THEOREM KeptCorrect ==
    ASSUME Locks = 1
    PROVE  Spec => Kept
<1>1. Init => KeptInv /\ Abstract!Init
  BY KeptInit, MapsInit
<1>2. KeptInv /\ [Next]_vars => KeptInv'
  BY KeptNext
<1>3. KeptInv /\ [Next]_vars => [Abstract!Next]_(Abstract!vars)
  <2> SUFFICES ASSUME KeptInv, [Next]_vars PROVE [Abstract!Next]_(Abstract!vars)
    OBVIOUS
  <2>1. TypeInv'
    BY TypeNext DEF KeptInv, CountInv
  <2> QED
    BY <2>1, MapsNext
<1> QED
  BY <1>1, <1>2, <1>3, PTL DEF Spec, Kept, Abstract!Spec
=============================================================================
