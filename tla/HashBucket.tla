----------------------------- MODULE HashBucket -----------------------------
(***************************************************************************)
(* The hash table of a set (ip_set_hash_gen.h): buckets, which are arrays  *)
(* that grow, shrink and are replaced under readers, and regions, each     *)
(* with a lock and a counter of elements that adds compare with maxelem    *)
(* before they take the lock.  Adds, deletes, the gc work and a flush      *)
(* change a region under its lock, in one step; tests walk a bucket under  *)
(* RCU, slot by slot, beside all of them.                                  *)
(*                                                                         *)
(* The table stays the same: resizing it is HashResize, and a full bucket  *)
(* answers "again".  An entry is live until it times out, at any moment.   *)
(* A slot is read and written as a whole, and so is a counter.             *)
(***************************************************************************)
EXTENDS Integers, Sequences, FiniteSets, Functions, Picking

CONSTANTS
    Elems,          \* elements
    NoElem,         \* none of them
    Client,         \* the commands, one at a time under the nfnl mutex
    Packets,        \* packets that add and delete (SET target)
    Testers,        \* packets that test
    HKEY,           \* function: the bucket of an element
    Buckets,        \* number of buckets, 2^htable_bits
    Locks,          \* ahash_numof_locks: number of regions
    InitSize,       \* AHASH_INIT_SIZE
    Creations,      \* pairs of forceadd and h->bucketsize the set can have
    MaxElem,        \* h->maxelem
    CountMod,       \* number of values of a counter, 2^32 in the code
    MaxBusy         \* bound of the adds and tests under way at once

Adders == {Client} \cup Packets
Keys == 0 .. Buckets - 1
Regions == 0 .. Locks - 1

ASSUME BucketAssumption ==
    /\ NoElem \notin Elems /\ Client \notin Packets
    /\ IsFiniteSet(Elems)
    /\ Buckets \in Nat \ {0} /\ Locks \in 1 .. Buckets /\ Buckets % Locks = 0
    /\ HKEY \in [Elems -> Keys]
    /\ InitSize \in Nat \ {0}
    /\ Creations \subseteq BOOLEAN \X Nat
    /\ \A c \in Creations : c[2] >= InitSize /\ c[2] % InitSize = 0
    /\ MaxElem \in Nat /\ MaxBusy \in Nat /\ CountMod \in Nat /\ CountMod > Cardinality(Elems)

VARIABLES
    forceadd,   \* SET_WITH_FORCEADD
    bucketsize, \* h->bucketsize
    bucket,     \* t->bucket: size and slots; pos is the number of slots
    elements,   \* t->hregion[].elements
    adding,     \* mtype_add up to its region lock
    testing,    \* mtype_test in its bucket
    flushing,   \* the region mtype_flush is at
    answer      \* the last answer and who got it

config == <<forceadd, bucketsize>>
vars == <<config, bucket, elements, adding, testing, flushing, answer>>

Hole == [x |-> NoElem, life |-> "hole"]
Entry(x) == [x |-> x, life |-> "live"]
NoBucket == [size |-> 0, slots |-> <<>>, null |-> TRUE]
Bucket(size, slots) == [size |-> size, slots |-> slots, null |-> FALSE]

NotAdding == [pc |-> "idle", x |-> NoElem, full |-> FALSE, seen |-> {}]
NotTesting == [pc |-> "idle", x |-> NoElem, i |-> 0, copy |-> "none",
               in |-> FALSE, out |-> FALSE]

Init ==
    /\ \E c \in Creations : forceadd = c[1] /\ bucketsize = c[2]
    /\ bucket = [k \in Keys |-> NoBucket]
    /\ elements = [r \in Regions |-> 0]
    /\ adding = [p \in Adders |-> NotAdding]
    /\ testing = [q \in Testers |-> NotTesting]
    /\ flushing = 0
    /\ answer = <<NoElem, "none">>

----------------------------------------------------------------------------
(* Slots and regions                                                       *)

\* One more add or test may begin
MayBegin ==
    Cardinality({p \in Adders : adding[p].pc # "idle"})
      + Cardinality({q \in Testers : testing[q].pc # "idle"}) < MaxBusy

Used(slot) == slot.life # "hole"
Live(slot) == slot.life = "live"
Unused(s) == Cardinality({i \in DOMAIN s : ~ Used(s[i])})
At(s, x) == {i \in DOMAIN s : s[i].x = x}

\* Slots an add may take: deleted or timed out
Reusable(s) == {i \in DOMAIN s : ~ Live(s[i])}
First(S) == CHOOSE i \in S : \A j \in S : i <= j

Region(k) == k % Locks
KeysOf(r) == {k \in Keys : k \div (Buckets \div Locks) = r}

Plus(n, d) == (n + d) % CountMod

\* The used slots of the buckets ks
Entries(ks) == {e \in UNION {{k} \X DOMAIN bucket[k].slots : k \in ks} :
                  Used(bucket[e[1]].slots[e[2]])}

LiveElems == {x \in Elems : \E i \in DOMAIN bucket[HKEY[x]].slots :
                               bucket[HKEY[x]].slots[i] = Entry(x)}

\* The array without its unused slots, AHASH_INIT_SIZE smaller
Shrunk(b) ==
    Bucket(b.size - InitSize, Picked(b.slots, {i \in DOMAIN b.slots : Used(b.slots[i])}))

----------------------------------------------------------------------------
(* Tests beside changes                                                    *)

\* What a test still finds in an array that is not in the table any more
CopyOf(s, t) ==
    IF \E i \in At(s, t.x) : i >= t.i /\ Live(s[i]) THEN "live" ELSE "none"

\* After the arrays of the buckets in gone left the table with the slots left,
\* and entries for the elements of parted are not those of older arrays
Beside(gone, left, parted) ==
    LET now == LiveElems' IN
    testing' = [q \in Testers |->
       LET t == testing[q]
           lost == t.pc = "walk" /\ HKEY[t.x] \in gone
       IN  IF t.pc = "idle" THEN t
           ELSE [t EXCEPT
                   !.pc = IF lost THEN "copy" ELSE @,
                   !.copy = IF lost THEN CopyOf(left[HKEY[t.x]], t)
                            ELSE IF @ = "live" /\ t.x \in parted THEN "stale" ELSE @,
                   !.in = @ \/ t.x \in now,
                   !.out = @ \/ t.x \notin now \/ t.x \in parted]]

\* Variant: arrays are shortened in place, under the tests
ShrunkInPlace(k, s, parted) == Beside({}, <<>>, parted)

InPlace(parted) == Beside({}, <<>>, parted)
Replaced(k, s, parted) == Beside({k}, [i \in {k} |-> s], parted)

\* mtype_test finds its bucket ...
TestBegin(q, x) ==
    /\ testing[q].pc = "idle" /\ MayBegin
    /\ testing' = [testing EXCEPT ![q] =
          [pc |-> IF bucket[HKEY[x]].null THEN "copy" ELSE "walk", x |-> x, i |-> 1,
           copy |-> "none", in |-> x \in LiveElems, out |-> x \notin LiveElems]]
    /\ UNCHANGED <<config, bucket, elements, adding, flushing, answer>>

TestEnd(q, ret) ==
    /\ testing' = [testing EXCEPT ![q] = NotTesting]
    /\ answer' = <<q, ret>>
    /\ UNCHANGED <<config, bucket, elements, adding, flushing>>

\* ... walks through it as it is now ...
TestWalk(q) ==
    LET t == testing[q]
        s == bucket[HKEY[t.x]].slots
    IN  /\ t.pc = "walk"
        /\ IF t.i > Len(s) THEN TestEnd(q, "out")
           ELSE IF s[t.i] = Entry(t.x) THEN TestEnd(q, "in")
           ELSE /\ testing' = [testing EXCEPT ![q].i = @ + 1]
                /\ UNCHANGED <<config, bucket, elements, adding, flushing, answer>>

\* ... or to the end of an array that was replaced
TestCopy(q) ==
    /\ testing[q].pc = "copy"
    /\ \/ testing[q].copy # "none" /\ TestEnd(q, "in")
       \/ testing[q].copy # "live" /\ TestEnd(q, "out")

----------------------------------------------------------------------------
(* Timeouts and the garbage collector                                      *)

Expire(x) ==
    /\ x \in LiveElems
    /\ LET k == HKEY[x]
           i == First(At(bucket[k].slots, x))
       IN  bucket' = [bucket EXCEPT ![k].slots[i].life = "expired"]
    /\ testing' = [q \in Testers |->
          IF testing[q].x = x
          THEN [testing[q] EXCEPT !.copy = IF @ = "live" THEN "none" ELSE @, !.out = TRUE]
          ELSE testing[q]]
    /\ UNCHANGED <<config, elements, adding, flushing, answer>>

Cleared(s) == [i \in DOMAIN s |-> IF s[i].life = "expired" THEN Hole ELSE s[i]]

\* Variant: the array is shortened as soon as it has an unused slot
SweptEager(b, short) ==
    LET s == Cleared(b.slots) IN
    IF b.null THEN b
    ELSE IF Unused(s) < InitSize - 1 THEN Bucket(b.size, s)
    ELSE IF Unused(s) >= b.size THEN NoBucket
    ELSE IF short THEN Bucket(b.size, s)
    ELSE Shrunk(Bucket(b.size, s))

\* A bucket after mtype_gc_do; short when there is no memory for the new array
Swept(b, short) ==
    LET s == Cleared(b.slots) IN
    IF b.null THEN b
    ELSE IF Unused(s) < InitSize THEN Bucket(b.size, s)
    ELSE IF Unused(s) >= b.size THEN NoBucket
    ELSE IF short THEN Bucket(b.size, s)
    ELSE Shrunk(Bucket(b.size, s))

\* mtype_gc_do
Sweep(r) ==
    \E short \in SUBSET KeysOf(r) :
       LET after == [k \in KeysOf(r) |-> Swept(bucket[k], k \in short)]
           left == [k \in KeysOf(r) |-> Cleared(bucket[k].slots)]
           dead == {e \in Entries(KeysOf(r)) : bucket[e[1]].slots[e[2]].life = "expired"}
       IN  /\ bucket' = [k \in Keys |-> IF k \in KeysOf(r) THEN after[k] ELSE bucket[k]]
           /\ elements' = [elements EXCEPT ![r] = Plus(@, -Cardinality(dead))]
           /\ Beside({k \in KeysOf(r) : after[k].size # bucket[k].size}, left, {})

Gc(r) ==
    /\ Sweep(r)
    /\ UNCHANGED <<config, adding, flushing, answer>>

----------------------------------------------------------------------------
(* Adds: the part before the region lock                                   *)

\* A command needs the nfnl mutex, which a flush holds
Free(p) ==
    /\ adding[p].pc = "idle"
    /\ p = Client => flushing = 0

AddBegin(p, x) ==
    LET room == elements[Region(HKEY[x])] < MaxElem \div Locks IN
    /\ Free(p) /\ MayBegin
    /\ adding' = [adding EXCEPT ![p] =
          [pc |-> IF room THEN "lock" ELSE "sweep", x |-> x,
           full |-> FALSE, seen |-> IF room THEN {} ELSE LiveElems]]
    /\ UNCHANGED <<config, bucket, elements, testing, flushing, answer>>

AddSweep(p) ==
    /\ adding[p].pc = "sweep"
    /\ Sweep(Region(HKEY[adding[p].x]))
    /\ adding' = [adding EXCEPT ![p].pc = "sum"]
    /\ UNCHANGED <<config, flushing, answer>>

Sum == FoldFunction(+, 0, elements)

IsFull == Sum >= MaxElem

AddSum(p) ==
    /\ adding[p].pc = "sum"
    /\ adding' = [adding EXCEPT ![p] = [@ EXCEPT !.pc = "lock", !.full = IsFull, !.seen = {}]]
    /\ UNCHANGED <<config, bucket, elements, testing, flushing, answer>>

----------------------------------------------------------------------------
(* Adds: under the region lock                                             *)

\* The answer; other adds that have not read the counters yet see x come
AddEnd(p, ret) ==
    /\ adding' = [a \in Adders |->
          IF a = p THEN NotAdding
          ELSE IF adding[a].pc \in {"sweep", "sum"} /\ ret = "ok"
               THEN [adding[a] EXCEPT !.seen = @ \cup ({adding[p].x} \cap LiveElems')]
          ELSE adding[a]]
    /\ answer' = <<p, ret>>
    /\ UNCHANGED <<config, flushing>>

AddRefused(p, ret) ==
    /\ UNCHANGED <<bucket, elements, testing>>
    /\ AddEnd(p, ret)

Forced(p) == adding[p].full /\ forceadd

Counted1(p, d) == elements' = [elements EXCEPT ![Region(HKEY[adding[p].x])] = Plus(@, d)]

\* There is no bucket
AddNew(p) ==
    LET x == adding[p].x
        k == HKEY[x]
    IN  /\ bucket[k].null
        /\ IF adding[p].full THEN AddRefused(p, "full")
           ELSE \/ AddRefused(p, "nomem")
                \/ /\ bucket' = [bucket EXCEPT ![k] = Bucket(InitSize, <<Entry(x)>>)]
                   /\ Counted1(p, 1)
                   /\ InPlace({x})
                   /\ AddEnd(p, "ok")

\* The slots an add finds its element in
Found(p) == At(bucket[HKEY[adding[p].x]].slots, adding[p].x)

\* It is there: refused, or with -exist renewed, as one that timed out always is
AddFound(p) ==
    LET x == adding[p].x
        k == HKEY[x]
        i == First(Found(p))
    IN  /\ Found(p) # {}
        /\ \/ Live(bucket[k].slots[i]) /\ AddRefused(p, "exist")
           \/ /\ bucket' = [bucket EXCEPT ![k].slots[i] = Entry(x)]
              /\ InPlace({x})
              /\ UNCHANGED elements
              /\ AddEnd(p, "ok")

Absent(p) == ~ bucket[HKEY[adding[p].x]].null /\ Found(p) = {}

\* Variant: an entry that timed out is not taken off the counter
GainAlways(slot) == 1

\* How many elements there are more when slot is overwritten
Gain(slot) == IF Used(slot) THEN 0 ELSE 1

\* It goes into a deleted slot or that of an entry that timed out
AddReuse(p) ==
    LET x == adding[p].x
        k == HKEY[x]
        i == First(Reusable(bucket[k].slots))
    IN  /\ Absent(p) /\ Reusable(bucket[k].slots) # {}
        /\ bucket' = [bucket EXCEPT ![k].slots[i] = Entry(x)]
        /\ Counted1(p, Gain(bucket[k].slots[i]))
        /\ InPlace({x})
        /\ AddEnd(p, "ok")

NoSlot(p) == Absent(p) /\ Reusable(bucket[HKEY[adding[p].x]].slots) = {}

\* ... or, by force, into the first slot, which is past pos in an empty array
AddForced(p) ==
    LET x == adding[p].x
        k == HKEY[x]
        s == bucket[k].slots
    IN  /\ NoSlot(p) /\ Forced(p)
        /\ IF s = <<>> THEN UNCHANGED <<bucket, testing>>
           ELSE /\ bucket' = [bucket EXCEPT ![k].slots[1] = Entry(x)]
                /\ InPlace({x, s[1].x})
        /\ UNCHANGED elements
        /\ AddEnd(p, "ok")

\* ... or at the end, in a larger array if need be
AddLast(p) ==
    LET x == adding[p].x
        k == HKEY[x]
        b == bucket[k]
        last == Append(b.slots, Entry(x))
    IN  /\ NoSlot(p) /\ ~ Forced(p)
        /\ \/ /\ adding[p].full
              /\ AddRefused(p, "full")
           \/ /\ ~ adding[p].full /\ Len(b.slots) < b.size
              /\ bucket' = [bucket EXCEPT ![k].slots = last]
              /\ Counted1(p, 1)
              /\ InPlace({x})
              /\ AddEnd(p, "ok")
           \/ /\ ~ adding[p].full /\ Len(b.slots) >= b.size /\ b.size >= bucketsize
              /\ AddRefused(p, "again")
           \/ /\ ~ adding[p].full /\ Len(b.slots) >= b.size /\ b.size < bucketsize
              /\ \/ AddRefused(p, "nomem")
                 \/ /\ bucket' = [bucket EXCEPT ![k] = Bucket(b.size + InitSize, last)]
                    /\ Counted1(p, 1)
                    /\ Replaced(k, b.slots, {x})
                    /\ AddEnd(p, "ok")

Add(p) ==
    /\ adding[p].pc = "lock"
    /\ AddNew(p) \/ AddFound(p) \/ AddReuse(p) \/ AddForced(p) \/ AddLast(p)

----------------------------------------------------------------------------
(* Deletes and flush                                                       *)

\* The bucket without the entry in slot i; short as above
Removed(b, i, short) ==
    LET s == IF i = Len(b.slots) THEN SubSeq(b.slots, 1, i - 1)
             ELSE [b.slots EXCEPT ![i] = Hole]
    IN  IF s = <<>> THEN NoBucket
        ELSE IF Unused(s) >= InitSize /\ ~ short THEN Shrunk(Bucket(b.size, s))
        ELSE Bucket(b.size, s)

\* mtype_del
Del(p, x) ==
    LET k == HKEY[x]
        b == bucket[k]
        i == First(At(b.slots, x))
        r == Region(k)
    IN  /\ Free(p)
        /\ IF x \notin LiveElems
           THEN answer' = <<p, "exist">> /\ UNCHANGED <<bucket, elements, testing>>
           ELSE /\ \E short \in BOOLEAN :
                      bucket' = [bucket EXCEPT ![k] = Removed(b, i, short)]
                /\ elements' = [elements EXCEPT ![r] = Plus(@, -1)]
                /\ IF bucket'[k].null \/ bucket'[k].size # b.size
                   THEN Replaced(k, [b.slots EXCEPT ![i] = Hole], {x})
                   ELSE InPlace({x})
                /\ answer' = <<p, "ok">>
        /\ UNCHANGED <<config, adding, flushing>>

\* mtype_flush, region by region
Flush ==
    LET r == flushing IN
    /\ adding[Client].pc = "idle"
    /\ bucket' = [k \in Keys |-> IF k \in KeysOf(r) THEN NoBucket ELSE bucket[k]]
    /\ elements' = [elements EXCEPT ![r] = 0]
    /\ flushing' = (r + 1) % Locks
    /\ Beside({k \in KeysOf(r) : ~ bucket[k].null}, [k \in KeysOf(r) |-> bucket[k].slots],
              {x \in Elems : HKEY[x] \in KeysOf(r)})
    /\ UNCHANGED <<config, adding, answer>>

----------------------------------------------------------------------------

Next ==
    \/ \E p \in Adders, x \in Elems : AddBegin(p, x)
    \/ \E p \in Adders : AddSweep(p) \/ AddSum(p) \/ Add(p)
    \/ \E p \in Adders, x \in Elems : Del(p, x)
    \/ \E q \in Testers, x \in Elems : TestBegin(q, x)
    \/ \E q \in Testers : TestWalk(q) \/ TestCopy(q)
    \/ \E x \in Elems : Expire(x)
    \/ \E r \in Regions : Gc(r)
    \/ Flush

Spec == Init /\ [][Next]_vars

----------------------------------------------------------------------------
(* Properties                                                              *)

\* Types, and the bounds of the arrays: an array holds at most size slots and is
\* never larger than bucketsize; an add past its region lock knows what it needs
\* (mtype_add, mtype_del and mtype_gc_do write by these bounds)
TypeOK ==
    /\ config \in Creations
    /\ \A k \in Keys :
          LET b == bucket[k] IN
          /\ b.size \in 0 .. bucketsize /\ b.size % InitSize = 0
          /\ Len(b.slots) <= b.size
          /\ \A i \in DOMAIN b.slots :
                \/ b.slots[i] = Hole
                \/ b.slots[i].x \in Elems /\ b.slots[i].life \in {"live", "expired"}
    /\ elements \in [Regions -> 0 .. CountMod - 1]
    /\ flushing \in Regions
    /\ \A p \in Adders :
          /\ adding[p].pc \in {"idle", "sweep", "sum", "lock"}
          /\ adding[p].pc # "idle" => adding[p].x \in Elems
          /\ adding[p].seen \subseteq Elems
    /\ \A q \in Testers :
          /\ testing[q].pc \in {"idle", "walk", "copy"}
          /\ testing[q].pc # "idle" => testing[q].x \in Elems

\* hregion[r].elements, which mtype_add compares with maxelem, is the number of
\* entries in the buckets that region r locks, expired ones included ("Number of
\* elements vs timeout"), unless a flush is between two regions, and an element has
\* one entry, in its own bucket
Counted ==
    /\ \A k \in Keys : \A i \in DOMAIN bucket[k].slots :
          LET slot == bucket[k].slots[i] IN
          Used(slot) => HKEY[slot.x] = k /\ At(bucket[k].slots, slot.x) = {i}
    /\ flushing = 0 => \A r \in Regions :
          elements[r] = Cardinality(Entries({k \in Keys : Region(k) = r}))

----------------------------------------------------------------------------
(* The table implements HashSpec                                           *)

\* Adds that swept and read the counters have judged
AbstractAdding ==
    [p \in Adders |->
       [adding[p] EXCEPT !.pc = CASE @ \in {"sweep", "sum"} -> "begun"
                                  [] @ = "lock" -> "judged"
                                  [] OTHER -> @]]

AbstractTesting ==
    [q \in Testers |-> [x |-> testing[q].x, in |-> testing[q].in, out |-> testing[q].out]]

Abstract == INSTANCE HashSpec
    WITH live <- LiveElems, adding <- AbstractAdding, testing <- AbstractTesting

\* With one region the entries that have not timed out are a set as HashSpec
\* promises it: whatever adds, deletes, gc and tests do beside each other, a test
\* answers what held at a moment while it ran, an element is stored once, and
\* mtype_add and mtype_del answer what they did
Kept == Abstract!Spec
=============================================================================
