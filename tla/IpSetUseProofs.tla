--------------------------- MODULE IpSetUseProofs ---------------------------
(***************************************************************************)
(* Proofs about those who use sets of IpSetCore: dumps list every set, and *)
(* packets work on sets and members that are still there.                  *)
(***************************************************************************)
EXTENDS IpSetCoreProofs

----------------------------------------------------------------------------
(* Dumps                                                                   *)

AllLists(I) == \A i \in I : kind[ip_set_list[i]] = "list"

\* What a dump still has to list is in the table, and what lies behind it in
\* the first pass, or is left for the second one, are list:set sets
Covers(r) ==
    /\ r.must \subseteq Used
    /\ is_destroyed => r.must = {}
    /\ r.type = "ONE" => /\ r.must \subseteq {r.index}
                         /\ r.pc = "scan" => r.index < r.max
    /\ r.type = "LAST" \/ r.pc = "end" => AllLists(r.must)
    /\ r.type = "ALL" /\ r.pc \in {"wait", "scan", "emit"} =>
          AllLists({i \in r.must : i < r.index})
    /\ r.type = "ALL" /\ r.pc \in {"scan", "emit"} => \A i \in r.must : i < r.max

CoverInv == \A d \in Dumpers : Covers(dump[d])

\* A dump that has less to list, while the sets it has to list stay
LEMMA CoverLess ==
    ASSUME CoverInv, UNCHANGED is_destroyed \/ \A d \in Dumpers : dump'[d].must = {},
           \A d \in Dumpers :
              /\ dump'[d].must \subseteq dump[d].must
              /\ dump'[d].pc = dump[d].pc /\ dump'[d].type = dump[d].type
              /\ dump'[d].index = dump[d].index /\ dump'[d].max = dump[d].max
              /\ \A i \in dump'[d].must :
                    /\ ip_set_list'[i] # NULL
                    /\ kind'[ip_set_list'[i]] = kind[ip_set_list[i]]
    PROVE  CoverInv'
<1>1. ASSUME NEW d \in Dumpers PROVE Covers(dump[d])'
  <2>1. Covers(dump[d])
    BY DEF CoverInv
  <2>2. dump'[d].must \subseteq Used'
    <3>1. \A i \in dump'[d].must : i \in Index /\ ip_set_list'[i] # NULL
      BY <2>1 DEF Covers, Used
    <3> QED
      BY <3>1 DEF Used
  <2>3. is_destroyed' => dump'[d].must = {}
    <3>1. CASE UNCHANGED is_destroyed
      <4>1. is_destroyed => dump[d].must = {}
        BY <2>1 DEF Covers
      <4>2. dump[d].must = {} => dump'[d].must = {}
        OBVIOUS
      <4> QED
        BY <3>1, <4>1, <4>2
    <3> QED
      BY <3>1
  <2>4. dump'[d].type = "LAST" \/ dump'[d].pc = "end" => AllLists(dump[d].must)'
    BY <2>1 DEF Covers, AllLists
  <2>5. dump'[d].type = "ALL" /\ dump'[d].pc \in {"wait", "scan", "emit"} =>
          AllLists({i \in dump[d].must : i < dump[d].index})'
    BY <2>1 DEF Covers, AllLists
  <2> QED
    BY <2>1, <2>2, <2>3, <2>4, <2>5 DEF Covers, AllLists
<1> QED
  BY <1>1 DEF CoverInv

\* Only the dump that makes a step needs a look
LEMMA CoverStep ==
    ASSUME TypeOK, CoverInv, NEW d \in Dumpers, NEW r, DumpTo(d, r), Covers(r),
           UNCHANGED <<ip_set_list, kind, is_destroyed>>
    PROVE  CoverInv'
<1>1. ASSUME NEW e \in Dumpers PROVE Covers(dump[e])'
  <2>1. dump'[e] = IF e = d THEN r ELSE dump[e]
    BY DEF TypeOK, DumpTo
  <2>2. Covers(dump'[e])
    BY <2>1 DEF CoverInv
  <2> QED
    BY <2>2 DEF Covers, AllLists, Used
<1> QED
  BY <1>1 DEF CoverInv

\* Commands and deferred work
LEMMA CoverCommand == Inv /\ CoverInv /\ (SetCommand \/ Deferred) => CoverInv'
<1> SUFFICES ASSUME Inv, CoverInv, SetCommand \/ Deferred PROVE CoverInv'
  OBVIOUS
<1>0. /\ ip_set_list \in [Index -> Sets \cup {NULL}] /\ NULL \notin Sets
      /\ kind \in [Sets -> {"plain", "list"}] /\ TableExact /\ CommandState
      /\ state \in [Sets -> {"free", "live"} \cup Reclaimable]
      /\ dump \in [Dumpers -> DumpType]
  BY SetAssumption DEF Inv, TypeOK
<1>1. \A d \in Dumpers : /\ dump[d] \in DumpType /\ dump[d].must \subseteq Used
                         /\ is_destroyed => dump[d].must = {}
  BY <1>0 DEF CoverInv, Covers
<1>2. \A i \in Used : /\ i \in Index /\ ip_set_list[i] \in Sets
                      /\ state[ip_set_list[i]] = "live"
  BY <1>0 DEF Used, TableExact
<1>11. ASSUME UNCHANGED <<is_destroyed, dump>>,
             \A i \in Used : /\ ip_set_list'[i] # NULL
                             /\ kind'[ip_set_list'[i]] = kind[ip_set_list[i]]
      PROVE  CoverInv'
  BY <1>1, <1>11, CoverLess
<1>3. ASSUME NEW s \in Sets, NEW n \in Names, NEW k \in Kinds, Create(s, n, k)
      PROVE  CoverInv'
  <2>1. PICK i \in Index, max \in 0 .. (IdMod - 1) :
           NewSlot(i, max) /\ ip_set_list' = [ip_set_list EXCEPT ![i] = s]
    BY <1>3 DEF Create
  <2>2. i \notin Used
    <3>1. CASE ip_set_list[i] = NULL
      BY <3>1 DEF Used
    <3>2. CASE i = ip_set_max
      BY <1>0, <3>2, TableAssumption DEF TableExact, Index, IPSET_INVALID_ID
    <3> QED
      BY <2>1, <3>1, <3>2 DEF NewSlot
  <2>3. state[s] = "free" /\ kind' = [kind EXCEPT ![s] = k] /\ UNCHANGED <<is_destroyed, dump>>
    BY <1>3 DEF Create
  <2>4. \A j \in Used : ip_set_list'[j] = ip_set_list[j] /\ ip_set_list[j] # s
    BY <1>0, <1>2, <2>1, <2>2, <2>3
  <2> QED
    BY <1>0, <1>2, <1>11, <2>3, <2>4
<1>4. ASSUME NEW i \in Index, Destroy(i)
      PROVE  CoverInv'
  <2>1. /\ ip_set_list' = [ip_set_list EXCEPT ![i] = NULL] /\ dump' = Forget(i)
        /\ UNCHANGED <<is_destroyed, kind>>
    BY <1>4 DEF Destroy
  <2>2. \A d \in Dumpers : dump'[d] = [dump[d] EXCEPT !.must = @ \ {i}]
    BY <2>1 DEF Forget
  <2>3. \A d \in Dumpers :
           /\ dump'[d].must = dump[d].must \ {i}
           /\ dump'[d].pc = dump[d].pc /\ dump'[d].type = dump[d].type
           /\ dump'[d].index = dump[d].index /\ dump'[d].max = dump[d].max
    BY <1>1, <2>2 DEF DumpType
  <2>4. \A j \in Used \ {i} : ip_set_list'[j] = ip_set_list[j]
    BY <1>0, <1>2, <2>1
  <2> QED
    BY <1>1, <1>2, <1>0, <2>1, <2>3, <2>4, CoverLess
<1>5. CASE DestroyAllCheck
  <2>1. CASE UNCHANGED <<is_destroyed, dump>>
    BY <1>0, <1>2, <1>5, <1>11, <2>1 DEF DestroyAllCheck, setVars
  <2>2. CASE dump' = [d \in Dumpers |-> [dump[d] EXCEPT !.must = {}]]
    <3>1. \A d \in Dumpers :
           /\ dump'[d].must = {}
           /\ dump'[d].pc = dump[d].pc /\ dump'[d].type = dump[d].type
           /\ dump'[d].index = dump[d].index /\ dump'[d].max = dump[d].max
      BY <1>1, <2>2 DEF DumpType
    <3> QED
      BY <3>1, CoverLess
  <2> QED
    BY <1>5, <2>1, <2>2 DEF DestroyAllCheck
<1>6. CASE DestroyAllStep
  <2>1. is_destroyed /\ UNCHANGED <<is_destroyed, dump>>
    BY <1>0, <1>6 DEF DestroyAllStep, CommandState
  <2> QED
    BY <1>1, <2>1, CoverLess
<1>7. CASE DestroyAllFinish
  <2>1. is_destroyed /\ UNCHANGED dump
    BY <1>0, <1>7 DEF DestroyAllFinish, CommandState
  <2> QED
    BY <1>1, <2>1, CoverLess
<1>8. ASSUME NEW i \in Index, NEW j \in Index, Swap(i, j)
      PROVE  CoverInv'
  <2>1. /\ ip_set_list[i] # NULL /\ ip_set_list[j] # NULL /\ i # j
        /\ kind[ip_set_list[i]] = kind[ip_set_list[j]]
        /\ ip_set_list' = [ip_set_list EXCEPT ![i] = ip_set_list[j], ![j] = ip_set_list[i]]
        /\ UNCHANGED <<is_destroyed, dump, kind>>
    BY <1>8 DEF Swap, Swappable
  <2>2. \A k \in Index : ip_set_list'[k] = IF k = i THEN ip_set_list[j]
                                           ELSE IF k = j THEN ip_set_list[i]
                                           ELSE ip_set_list[k]
    BY <1>0, <2>1
  <2> QED
    BY <1>0, <1>2, <1>11, <2>1, <2>2
<1>9. ASSUME NEW s \in Sets, Free(s)
      PROVE  CoverInv'
  <2>1. /\ state[s] = "destroying" /\ kind' = [kind EXCEPT ![s] = "plain"]
        /\ UNCHANGED <<is_destroyed, dump, ip_set_list>>
    BY <1>9 DEF Free, slotVars
  <2> QED
    BY <1>0, <1>2, <1>11, <2>1
<1>10. ASSUME UNCHANGED <<is_destroyed, dump, ip_set_list, kind>>
       PROVE  CoverInv'
  BY <1>0, <1>2, <1>10, <1>11
<1>12. CASE \/ DestroyFinish \/ DestroyAll \/ \E i \in Index, n \in Names : Rename(i, n)
            \/ \E l \in Sets, e \in Elems : GcDel(l, e) \/ DestroyDel(l, e)
            \/ \E e \in Elems : PutFinish(e)
            \/ \E s \in Sets : RcuCallback(s)
  BY <1>10, <1>12 DEF DestroyFinish, CallRcu, DestroyAll, Rename, GcDel, DestroyDel, ReadSlot,
     PutFinish, RcuCallback, slotVars, setVars
<1> QED
  BY <1>3, <1>4, <1>5, <1>6, <1>7, <1>8, <1>9, <1>12 DEF SetCommand, Deferred

\* The steps of dumps
LEMMA CoverNetlink == Inv /\ CoverInv /\ NetlinkStep => CoverInv'
<1> SUFFICES ASSUME Inv, CoverInv, NetlinkStep PROVE CoverInv'
  OBVIOUS
<1>0. /\ TypeOK /\ TableExact /\ CommandState /\ DumpIndexPinned
      /\ UNCHANGED <<ip_set_list, ip_set_max, kind, is_destroyed>>
      /\ ip_set_list \in [Index -> Sets \cup {NULL}]
      /\ ip_set_max \in Nat /\ Index \subseteq Nat /\ NoIndex \in Nat
      /\ NULL \notin Sets
  BY FrameNetlinkStep, SetAssumption, TableAssumption
     DEF Inv, TypeOK, slotVars, setVars, Index, NoIndex, IPSET_INVALID_ID
<1>1. ASSUME NEW d \in Dumpers
      PROVE  dump[d] \in DumpType /\ Covers(dump[d])
  BY <1>0 DEF CoverInv, TypeOK
<1>2. \A i \in Used : i \in Nat /\ i < ip_set_max
  BY <1>0 DEF Used, TableExact
<1>3. ASSUME NEW d \in Dumpers, NEW r, DumpTo(d, r), Covers(r)
      PROVE  CoverInv'
  BY <1>0, <1>3, CoverStep
<1>4. ASSUME UNCHANGED dump
      PROVE  CoverInv'
  BY <1>0, <1>4 DEF CoverInv, Covers, AllLists, Used
<1>5. ASSUME NEW c \in Clients, AdResume(c) \/ \E i \in Index : AdRetry(c, i)
      PROVE  CoverInv'
  BY <1>4, <1>5 DEF AdResume, AdRetry
<1>6. ASSUME NEW d \in Dumpers, NEW t \in {"ALL", "ONE"}, NEW i \in Index, DumpStart(d, t, i)
      PROVE  CoverInv'
  <2> DEFINE r == [NoDump EXCEPT !.pc = "wait", !.type = t, !.index = i,
                                 !.must = IF t = "ONE" THEN {i} ELSE Used]
  <2>1. /\ r.pc = "wait" /\ r.type = t /\ r.index = i
        /\ r.must = IF t = "ONE" THEN {i} ELSE Used
    BY DEF NoDump
  <2>2. /\ nfnl = "free" /\ DumpTo(d, r)
        /\ IF t = "ONE" THEN ip_set_list[i] # NULL ELSE i = 0
    BY <1>6 DEF DumpStart
  <2>3. ~ is_destroyed
    BY <1>0, <2>2 DEF CommandState
  <2> HIDE DEF r
  <2>4. Covers(r)
    <3>1. r.must \subseteq Used
      BY <2>1, <2>2 DEF Used
    <3>2. t # "ONE" => {k \in Used : k < i} = {}
      BY <1>2, <2>2
    <3>3. t # "ONE" => AllLists({k \in r.must : k < r.index})
      BY <2>1, <3>2 DEF AllLists
    <3> QED
      BY <2>1, <2>3, <3>1, <3>3 DEF Covers
  <2> QED
    BY <1>3, <2>2, <2>4
<1>7. ASSUME NEW d \in Dumpers, DumpChunk(d)
      PROVE  CoverInv'
  <2>1. dump[d].pc = "wait" /\ dump[d].must \subseteq Used /\ dump[d].index \in Nat
    BY <1>0, <1>1, <1>7 DEF DumpChunk, Covers, DumpType
  <2>2. CASE dump[d].index >= ip_set_max /\ DumpTo(d, [dump[d] EXCEPT !.pc = "end"])
    <3> DEFINE r == [dump[d] EXCEPT !.pc = "end"]
    <3>1. /\ r.pc = "end" /\ r.type = dump[d].type /\ r.index = dump[d].index
          /\ r.must = dump[d].must
      BY <1>1 DEF DumpType
    <3>2. \A i \in dump[d].must : i < dump[d].index
      BY <1>0, <1>2, <2>1, <2>2
    <3>3. AllLists(dump[d].must)
      <4>1. CASE dump[d].type = "ALL"
        BY <1>1, <2>1, <3>2, <4>1 DEF Covers, AllLists
      <4>2. CASE dump[d].type = "ONE"
        BY <1>1, <2>1, <3>2, <4>2 DEF Covers, AllLists
      <4>3. CASE dump[d].type = "LAST"
        BY <1>1, <4>3 DEF Covers
      <4> QED
        BY <1>1, <4>1, <4>2, <4>3 DEF DumpType
    <3> HIDE DEF r
    <3>4. Covers(r)
      BY <1>1, <3>1, <3>3 DEF Covers
    <3> QED
      BY <1>3, <2>2, <3>4 DEF r
  <2>3. CASE DumpTo(d, [dump[d] EXCEPT !.pc = "scan",
                          !.max = IF dump[d].type = "ONE" THEN dump[d].index + 1 ELSE ip_set_max])
    <3> DEFINE r == [dump[d] EXCEPT !.pc = "scan",
                       !.max = IF dump[d].type = "ONE" THEN dump[d].index + 1 ELSE ip_set_max]
    <3>1. /\ r.pc = "scan" /\ r.type = dump[d].type /\ r.index = dump[d].index
          /\ r.must = dump[d].must
          /\ r.max = IF dump[d].type = "ONE" THEN dump[d].index + 1 ELSE ip_set_max
      BY <1>1 DEF DumpType
    <3> HIDE DEF r
    <3>2. Covers(r)
      <4>1. r.type = "ONE" => r.must \subseteq {r.index} /\ r.index < r.max
        <5>1. dump[d].type = "ONE" => dump[d].must \subseteq {dump[d].index}
          BY <1>1 DEF Covers
        <5>2. r.type = "ONE" => r.max = r.index + 1 /\ r.index \in Nat
          BY <2>1, <3>1
        <5> QED
          BY <3>1, <5>1, <5>2
      <4>2. r.type = "ALL" => \A i \in r.must : i < r.max
        BY <1>2, <2>1, <3>1
      <4>3. r.type = "ALL" => AllLists({i \in r.must : i < r.index})
        BY <1>1, <2>1, <3>1 DEF Covers
      <4> QED
        BY <1>1, <3>1, <4>1, <4>2, <4>3 DEF Covers
    <3> QED
      BY <1>3, <2>3, <3>2 DEF r
  <2> QED
    BY <1>7, <2>2, <2>3 DEF DumpChunk, PastEnd
<1>8. ASSUME NEW d \in Dumpers, DumpSkip(d)
      PROVE  CoverInv'
  <2> DEFINE s == ip_set_list[dump[d].index]
             r == [dump[d] EXCEPT !.index = @ + 1, !.set = s]
  <2>1. /\ r.pc = dump[d].pc /\ r.type = dump[d].type /\ r.index = dump[d].index + 1
        /\ r.must = dump[d].must /\ r.max = dump[d].max
    BY <1>1 DEF DumpType
  <2>2. /\ dump[d].pc = "scan" /\ DumpTo(d, r)
        /\ dump[d].type # "ONE"
        /\ dump[d].type = "ALL" => s = NULL \/ kind[s] = "list"
    BY <1>8 DEF DumpSkip, Scanning, OtherPass
  <2> HIDE DEF r
  <2>3. /\ Covers(dump[d]) /\ dump[d].index \in Nat
        /\ \A i \in dump[d].must : i \in Nat /\ ip_set_list[i] # NULL
    BY <1>0, <1>1, <1>2 DEF DumpType, Covers, Used
  <2>4. dump[d].type = "ALL" => AllLists({i \in dump[d].must : i < dump[d].index + 1})
    <3>1. \A i \in dump[d].must : i < dump[d].index + 1 => i < dump[d].index \/ i = dump[d].index
      BY <2>3
    <3> QED
      BY <2>2, <2>3, <3>1 DEF Covers, AllLists
  <2>5. Covers(r)
    BY <2>1, <2>2, <2>3, <2>4 DEF Covers
  <2> QED
    BY <1>3, <2>2, <2>5
<1>9. ASSUME NEW d \in Dumpers, DumpGone(d)
      PROVE  CoverInv'
  <2> DEFINE pc == IF dump[d].type = "ONE" THEN "err" ELSE "end"
             r == [dump[d] EXCEPT !.pc = pc]
  <2>1. /\ r.pc = pc /\ r.type = dump[d].type /\ r.index = dump[d].index
        /\ r.must = dump[d].must
    BY <1>1 DEF DumpType
  <2>2. DumpTo(d, r) /\ (dump[d].type = "ONE" \/ is_destroyed)
    BY <1>9 DEF DumpGone
  <2> HIDE DEF r
  <2>3. Covers(r)
    BY <1>1, <2>1, <2>2 DEF Covers, AllLists
  <2> QED
    BY <1>3, <2>2, <2>3
<1>10. ASSUME NEW d \in Dumpers, DumpPin(d)
       PROVE  CoverInv'
  <2> DEFINE r == [dump[d] EXCEPT !.pc = "emit", !.set = ip_set_list[dump[d].index]]
  <2>1. /\ r.pc = "emit" /\ r.type = dump[d].type /\ r.index = dump[d].index
        /\ r.must = dump[d].must /\ r.max = dump[d].max
    BY <1>1 DEF DumpType
  <2>2. dump[d].pc = "scan" /\ DumpTo(d, r)
    BY <1>10 DEF DumpPin, Scanning
  <2> HIDE DEF r
  <2>3. Covers(r)
    BY <1>1, <2>1, <2>2 DEF Covers
  <2> QED
    BY <1>3, <2>2, <2>3
<1>11. ASSUME NEW d \in Dumpers, DumpPass(d)
       PROVE  CoverInv'
  <2>1. /\ dump[d].pc = "scan" /\ dump[d].index = dump[d].max
        /\ Covers(dump[d]) /\ dump[d].index \in Nat
    BY <1>0, <1>1, <1>11 DEF DumpPass, DumpType
  <2>2. dump[d].type # "ONE"
    BY <2>1 DEF Covers
  <2>3. AllLists(dump[d].must)
    <3>1. CASE dump[d].type = "ALL"
      BY <2>1, <3>1 DEF Covers, AllLists
    <3>2. CASE dump[d].type = "LAST"
      BY <2>1, <3>2 DEF Covers
    <3> QED
      BY <1>1, <2>2, <3>1, <3>2 DEF DumpType
  <2>4. CASE DumpTo(d, [dump[d] EXCEPT !.type = "LAST", !.index = 0, !.set = NULL])
    <3> DEFINE r == [dump[d] EXCEPT !.type = "LAST", !.index = 0, !.set = NULL]
    <3>1. /\ r.type = "LAST" /\ r.must = dump[d].must
      BY <1>1 DEF DumpType
    <3> HIDE DEF r
    <3>2. Covers(r)
      BY <2>1, <2>3, <3>1 DEF Covers
    <3> QED
      BY <1>3, <2>4, <3>2 DEF r
  <2>5. CASE DumpTo(d, [dump[d] EXCEPT !.pc = "end"])
    <3> DEFINE r == [dump[d] EXCEPT !.pc = "end"]
    <3>1. /\ r.pc = "end" /\ r.type = dump[d].type /\ r.must = dump[d].must
      BY <1>1 DEF DumpType
    <3> HIDE DEF r
    <3>2. Covers(r)
      BY <2>1, <2>2, <2>3, <3>1 DEF Covers
    <3> QED
      BY <1>3, <2>5, <3>2 DEF r
  <2> QED
    BY <1>11, <2>4, <2>5 DEF DumpPass
<1>12. ASSUME NEW d \in Dumpers, DumpPartial(d)
       PROVE  CoverInv'
  <2> DEFINE r == [dump[d] EXCEPT !.pc = "wait", !.arg0 = TRUE, !.set = NULL]
  <2>1. /\ r.pc = "wait" /\ r.type = dump[d].type /\ r.index = dump[d].index
        /\ r.must = dump[d].must
    BY <1>1 DEF DumpType
  <2>2. dump[d].pc = "emit" /\ DumpTo(d, r)
    BY <1>12 DEF DumpPartial
  <2> HIDE DEF r
  <2>3. Covers(r)
    BY <1>1, <2>1, <2>2 DEF Covers
  <2> QED
    BY <1>3, <2>2, <2>3
<1>13. ASSUME NEW d \in Dumpers, DumpNext(d)
       PROVE  CoverInv'
  <2> DEFINE i == dump[d].index
             j == IF dump[d].type = "ONE" THEN IPSET_INVALID_ID ELSE i + 1
             r == [dump[d] EXCEPT !.pc = "wait", !.arg0 = FALSE, !.set = NULL,
                                  !.index = j, !.must = @ \ {i}]
  <2>1. /\ r.pc = "wait" /\ r.type = dump[d].type /\ r.index = j
        /\ r.must = dump[d].must \ {i}
    BY <1>1 DEF DumpType
  <2>2. dump[d].pc = "emit" /\ DumpTo(d, r)
    BY <1>13 DEF DumpNext
  <2> HIDE DEF r
  <2>3. i \in Nat /\ \A k \in dump[d].must : k \in Nat
    BY <1>0, <1>1, <1>2 DEF DumpType, Covers
  <2>4. dump[d].type = "ALL" => AllLists({k \in dump[d].must \ {i} : k < i + 1})
    <3>1. \A k \in dump[d].must \ {i} : k < i + 1 => k < i
      BY <2>3
    <3>2. dump[d].type = "ALL" => AllLists({k \in dump[d].must : k < i})
      BY <1>1, <2>2 DEF Covers
    <3> HIDE DEF i
    <3> QED
      BY <3>1, <3>2 DEF AllLists
  <2>5. Covers(r)
    <3>1. dump[d].type = "ALL" => AllLists({k \in r.must : k < r.index})
      BY <2>1, <2>4
    <3>2. dump[d].type = "ONE" => r.must = {}
      BY <1>1, <2>1 DEF Covers
    <3>3. dump[d].type = "LAST" => AllLists(r.must)
      BY <1>1, <2>1 DEF Covers, AllLists
    <3> HIDE DEF i, j
    <3> QED
      BY <1>1, <2>1, <3>1, <3>2, <3>3 DEF Covers
  <2> QED
    BY <1>3, <2>2, <2>5
<1>14. ASSUME NEW d \in Dumpers, DumpFail(d)
       PROVE  CoverInv'
  <2> DEFINE r == [dump[d] EXCEPT !.pc = "err", !.arg0 = FALSE, !.set = NULL]
  <2>1. /\ r.pc = "err" /\ r.type = dump[d].type /\ r.index = dump[d].index
        /\ r.must = dump[d].must
    BY <1>1 DEF DumpType
  <2>2. DumpTo(d, r)
    BY <1>14 DEF DumpFail
  <2> HIDE DEF r
  <2>3. Covers(r)
    BY <1>1, <2>1 DEF Covers
  <2> QED
    BY <1>3, <2>2, <2>3
<1>15. ASSUME NEW d \in Dumpers, DumpDone(d)
       PROVE  CoverInv'
  <2>1. Covers(NoDump)
    BY DEF Covers, NoDump, AllLists
  <2> QED
    BY <1>3, <1>15, <2>1 DEF DumpDone
<1> QED
  BY <1>5, <1>6, <1>7, <1>8, <1>9, <1>10, <1>11, <1>12, <1>13, <1>14, <1>15 DEF NetlinkStep

LEMMA CoverInvariance == Spec => [](Inv /\ CoverInv)
<1>1. Init => CoverInv
  BY DEF Init, CoverInv, Covers, NoDump, AllLists
<1>2. Inv /\ CoverInv /\ [Next]_vars => CoverInv'
  <2> SUFFICES ASSUME Inv, CoverInv, [Next]_vars PROVE CoverInv'
    OBVIOUS
  <2>1. CASE RefCommand \/ PacketPath \/ UNCHANGED vars
    <3>1. UNCHANGED <<ip_set_list, kind, is_destroyed, dump>>
      BY <2>1, FrameRefCommand, FramePacketPath DEF vars, slotVars, setVars
    <3> QED
      BY <3>1 DEF CoverInv, Covers, AllLists, Used
  <2> QED
    BY <2>1, CoverCommand, CoverNetlink DEF Next
<1> QED
  BY <1>1, <1>2, Invariance, PTL DEF Spec

\* A dump of all sets that ends regularly has listed every set other than
\* list:set ones that was in the table all the time, whatever is created,
\* destroyed, renamed and swapped between its chunks (ip_set_dump_do)
THEOREM DumpCoversCorrect == Spec => []DumpCoversPlain
<1>1. CoverInv => DumpCoversPlain
  BY DEF CoverInv, Covers, AllLists, DumpCoversPlain
<1> QED
  BY <1>1, CoverInvariance, PTL

----------------------------------------------------------------------------
(* Packets, when no swap hits the middle of an asynchronous put            *)

\* A packet that does nothing knows nothing; one that works on sets is inside
\* a rule, which stays while the packet is in it
PacketRules ==
    \A p \in Packets :
       /\ packet[p].pc = "idle" => packet[p] = NoPacket
       /\ packet[p].pc # "idle" => packet[p].rule \in Rules /\ hold[packet[p].rule] # NoIndex

\* The memory of set s is not reclaimed before packet p has left
Safe(p, s) == state[s] \in {"live", "unlinked"} \/ (state[s] = "rcu" /\ p \in grace[s])

PacketsSafe ==
    \A p \in Packets : /\ packet[p].set # NULL => Safe(p, packet[p].set)
                       /\ packet[p].member # NULL => Safe(p, packet[p].member)

\* Element e is still on the list of packet p, which holds its lock
Reached(p, e) ==
    /\ packet[p].locked /\ packet[p].set # NULL
    /\ owner[e] = packet[p].set /\ putting[e] = NULL /\ hold[e] = packet[p].id

MemberReached ==
    \A p \in Packets : packet[p].pc = "elem" /\ packet[p].op = "ad" =>
       \E e \in Elems : Reached(p, e)

UseInv == PacketRules /\ PacketsSafe /\ MemberReached /\ NoNestedLists

\* What references change: a rule that has a packet inside keeps its index, an
\* element gets or loses one
LEMMA RuleKept ==
    ASSUME Inv, RefCommand \/ Deferred, NEW r \in Rules, hold[r] # NoIndex,
           NEW p \in Packets, packet[p].rule = r
    PROVE  hold'[r] = hold[r]
<1>0. hold \in [Holders -> Index \cup {NoIndex}] /\ r \in Holders /\ r \notin Elems
  BY ActorAssumption DEF Inv, TypeOK, Holders
<1>1. ASSUME NEW q \in Rules, NEW i \in Index, RuleGet(q, i) PROVE hold'[r] = hold[r]
  BY <1>0, <1>1 DEF RuleGet
<1>2. ASSUME NEW q \in Rules, RulePut(q) PROVE hold'[r] = hold[r]
  BY <1>0, <1>2 DEF RulePut
<1>3. ASSUME NEW l \in Sets, NEW e \in Elems, NEW i \in Index, NEW gone \in SUBSET Elems,
             ListAdd(l, e, i, gone)
      PROVE  hold'[r] = hold[r]
  BY <1>0, <1>3 DEF ListAdd
<1>4. ASSUME NEW l \in Sets, NEW gone \in SUBSET Elems, ListRemove(l, gone)
      PROVE  hold'[r] = hold[r]
  BY <1>0, <1>4 DEF ListRemove
<1>5. \A l : Members(l) \in SUBSET Elems
  BY DEF Members
<1>6. CASE RefCommand
  BY <1>1, <1>2, <1>3, <1>4, <1>5, <1>6 DEF RefCommand, ListDel, ListFlush
<1>7. CASE Deferred
  BY <1>0, <1>7 DEF Deferred, GcDel, DestroyDel, ReadSlot, PutFinish, RcuCallback, Free
<1> QED
  BY <1>6, <1>7

\* A step of a packet
LEMMA PacketOnly ==
    ASSUME TypeOK, NEW p \in Packets, NEW new, PacketStep(p, new)
    PROVE  \A q \in Packets : packet'[q] = IF q = p THEN new ELSE packet[q]
BY DEF TypeOK, PacketStep

LEMMA RulesStep == Inv /\ PacketRules /\ Next => PacketRules'
<1> SUFFICES ASSUME Inv, PacketRules, Next PROVE PacketRules'
  OBVIOUS
<1>0. /\ TypeOK /\ packet \in [Packets -> PacketType]
  BY DEF Inv, TypeOK
<1>1. CASE SetCommand \/ NetlinkStep
  <2>1. UNCHANGED <<packet, hold>>
    BY <1>1, FrameNetlinkStep DEF SetCommand, Create, Destroy, DestroyFinish, DestroyAll,
       DestroyAllCheck, DestroyAllStep, DestroyAllFinish, Rename, Swap
  <2> QED
    BY <2>1 DEF PacketRules
<1>2. CASE RefCommand \/ Deferred
  <2>1. packet' = packet
    BY <1>2, FrameRefCommand, FrameDeferred
  <2> QED
    BY <1>2, <2>1, RuleKept DEF PacketRules
<1>3. CASE PacketPath
  <2>0. hold' = hold
    BY <1>3, FramePacketPath
  <2>1. ASSUME NEW p \in Packets, NEW new,
               \A q \in Packets : packet'[q] = IF q = p THEN new ELSE packet[q],
               \/ new = NoPacket
               \/ new.pc # "idle" /\ new.rule \in Rules /\ hold[new.rule] # NoIndex
        PROVE  PacketRules'
    <3>1. NoPacket.pc = "idle"
      BY DEF NoPacket
    <3>2. ASSUME NEW q \in Packets
          PROVE  /\ packet'[q].pc = "idle" => packet'[q] = NoPacket
                 /\ packet'[q].pc # "idle" => /\ packet'[q].rule \in Rules
                                              /\ hold[packet'[q].rule] # NoIndex
      <4>1. CASE q = p
        <5>1. packet'[q] = new
          BY <2>1, <4>1
        <5> QED
          BY <2>1, <3>1, <5>1
      <4>2. CASE q # p
        <5>1. packet'[q] = packet[q]
          BY <2>1, <4>2
        <5> QED
          BY <5>1 DEF PacketRules
      <4> QED
        BY <4>1, <4>2
    <3> QED
      BY <2>0, <3>2 DEF PacketRules
  <2>2. ASSUME NEW p \in Packets, NEW r \in Rules, NEW op \in {"test", "ad"}, PacketEnter(p, r, op)
        PROVE  PacketRules'
    <3> DEFINE new == [NoPacket EXCEPT !.pc = Fetch(hold[r], "set"),
                        !.op = op, !.rule = r, !.set = ip_set_list[hold[r]]]
    <3>1. new.pc # "idle" /\ new.rule = r
      BY DEF NoPacket, Fetch
    <3> HIDE DEF new
    <3>2. PacketStep(p, new) /\ hold[r] # NoIndex
      BY <2>2 DEF PacketEnter, new
    <3> QED
      BY <1>0, <2>1, <3>1, <3>2, PacketOnly
  <2>3. ASSUME NEW p \in Packets, PacketLock(p)
        PROVE  PacketRules'
    <3> DEFINE new == [packet[p] EXCEPT !.locked = TRUE]
    <3>1. new.pc = packet[p].pc /\ new.rule = packet[p].rule
      BY <1>0 DEF PacketType
    <3> HIDE DEF new
    <3>2. PacketStep(p, new) /\ packet[p].pc = "set"
      BY <2>3 DEF PacketLock, new
    <3> QED
      BY <1>0, <2>1, <3>1, <3>2, PacketOnly DEF PacketRules
  <2>4. ASSUME NEW p \in Packets, NEW e \in Elems, PacketElem(p, e)
        PROVE  PacketRules'
    <3> DEFINE new == [packet[p] EXCEPT !.pc = "elem", !.id = hold[e]]
    <3>1. new.pc = "elem" /\ new.rule = packet[p].rule
      BY <1>0 DEF PacketType
    <3> HIDE DEF new
    <3>2. PacketStep(p, new) /\ packet[p].pc = "set"
      BY <2>4 DEF PacketElem, new
    <3> QED
      BY <1>0, <2>1, <3>1, <3>2, PacketOnly DEF PacketRules
  <2>5. ASSUME NEW p \in Packets, PacketMember(p)
        PROVE  PacketRules'
    <3> DEFINE i == packet[p].id
               new == [packet[p] EXCEPT !.pc = Fetch(i, "member"), !.member = ip_set_list[i]]
    <3>1. new.pc # "idle" /\ new.rule = packet[p].rule
      BY <1>0 DEF PacketType, Fetch
    <3>2. PacketStep(p, new) /\ packet[p].pc = "elem"
      BY <2>5 DEF PacketMember
    <3> HIDE DEF new
    <3> QED
      BY <1>0, <2>1, <3>1, <3>2, PacketOnly DEF PacketRules
  <2>6. ASSUME NEW p \in Packets, PacketNext(p)
        PROVE  PacketRules'
    <3> DEFINE new == [packet[p] EXCEPT !.pc = "set", !.member = NULL, !.id = NoIndex]
    <3>1. new.pc = "set" /\ new.rule = packet[p].rule
      BY <1>0 DEF PacketType
    <3> HIDE DEF new
    <3>2. PacketStep(p, new) /\ packet[p].pc = "member"
      BY <2>6 DEF PacketNext, new
    <3> QED
      BY <1>0, <2>1, <3>1, <3>2, PacketOnly DEF PacketRules
  <2>7. ASSUME NEW p \in Packets, PacketLeave(p)
        PROVE  PacketRules'
    <3>1. \A q \in Packets : packet'[q] = IF q = p THEN NoPacket ELSE packet[q]
      BY <1>0, <2>7 DEF PacketLeave
    <3> QED
      BY <2>1, <3>1
  <2> QED
    BY <1>3, <2>2, <2>3, <2>4, <2>5, <2>6, <2>7 DEF PacketPath
<1> QED
  BY <1>1, <1>2, <1>3 DEF Next

\* While a packet is inside a rule, "destroy all" cannot run: the set behind
\* the rule's index is referenced
LEMMA NotDestroyed ==
    ASSUME RefInv, PacketRules, NEW p \in Packets, packet[p].pc # "idle"
    PROVE  ~ is_destroyed
<1>1. packet[p].rule \in Holders /\ hold[packet[p].rule] \in Used
  BY DEF PacketRules, RefInv, HeldIndexLive, Holders
<1>2. packet[p].rule \in Holding(hold[packet[p].rule])
  BY <1>1 DEF Holding
<1>3. ref[ip_set_list[hold[packet[p].rule]]] # 0
  BY <1>1, <1>2, UnheldIndex DEF Used
<1> QED
  BY <1>1, <1>3 DEF RefInv, Inv, DestroyAllQuiet, Unreferenced

\* A set that is safe for a packet stays safe until the packet leaves
LEMMA SafeKept ==
    ASSUME RefInv, PacketRules, Next, NEW p \in Packets, packet[p].pc # "idle",
           packet'[p].pc # "idle", NEW s \in Sets, Safe(p, s)
    PROVE  Safe(p, s)'
<1>0. /\ state \in [Sets -> {"free", "live"} \cup Reclaimable]
      /\ grace \in [Sets -> SUBSET Packets] /\ TypeOK /\ p \in ActivePackets
      /\ state[s] \notin {"free", "destroying"} /\ NULL \notin Sets
  BY SetAssumption DEF RefInv, Inv, TypeOK, ActivePackets, Safe
<1>1. ASSUME state'[s] = state[s], grace'[s] = grace[s] PROVE Safe(p, s)'
  BY <1>1 DEF Safe
<1>2. ASSUME NEW v \in Sets, state[v] # "rcu", CallRcu(v) PROVE Safe(p, s)'
  <2>1. CASE v = s
    BY <1>0, <1>2, <2>1 DEF CallRcu, Safe
  <2>2. CASE v # s
    BY <1>0, <1>1, <1>2, <2>2 DEF CallRcu
  <2> QED
    BY <2>1, <2>2
<1>3. ASSUME NEW v \in Sets, NEW n \in Names, NEW k \in Kinds, Create(v, n, k)
      PROVE  Safe(p, s)'
  BY <1>0, <1>1, <1>3 DEF Create
<1>4. ASSUME NEW i \in Index, Destroy(i)
      PROVE  Safe(p, s)'
  <2> DEFINE v == ip_set_list[i]
  <2>1. v \in Sets /\ state[v] = "live"
    BY <1>0, <1>4 DEF Destroy, RefInv, Inv, TypeOK, TableExact, Used
  <2>2. CASE kind[v] = "list"
    <3>1. state' = [state EXCEPT ![v] = "unlinked"] /\ grace' = grace
      BY <1>4, <2>2 DEF Destroy
    <3> HIDE DEF v
    <3> QED
      BY <1>0, <1>1, <2>1, <3>1 DEF Safe
  <2>3. CASE kind[v] # "list"
    <3>1. CallRcu(v)
      BY <1>4, <2>3 DEF Destroy
    <3> HIDE DEF v
    <3> QED
      BY <1>2, <2>1, <3>1
  <2> QED
    BY <2>2, <2>3
<1>5. CASE DestroyFinish
  <2>1. victim \in Sets /\ state[victim] = "unlinked"
    BY <1>5 DEF DestroyFinish, RefInv, Inv, TypeOK, CommandState
  <2> QED
    BY <1>2, <1>5, <2>1 DEF DestroyFinish
<1>6. CASE DestroyAllStep
  BY <1>6, NotDestroyed DEF DestroyAllStep, RefInv, Inv, CommandState
<1>7. CASE DestroyAll \/ DestroyAllCheck \/ DestroyAllFinish
           \/ (\E i \in Index, n \in Names : Rename(i, n))
           \/ (\E i, j \in Index : Swap(i, j))
  BY <1>1, <1>7 DEF DestroyAll, DestroyAllCheck, DestroyAllFinish, Rename, Swap,
     setVars
<1>8. CASE RefCommand \/ NetlinkStep
  BY <1>1, <1>8, FrameRefCommand, FrameNetlinkStep DEF setVars
<1>9. CASE Deferred
  <2>1. grace' = grace
    BY <1>9, FrameDeferred
  <2>2. ASSUME NEW v \in Sets, RcuCallback(v) PROVE Safe(p, s)'
    <3>1. v # s
      BY <1>0, <2>2 DEF RcuCallback, Safe
    <3> QED
      BY <1>0, <1>1, <2>1, <2>2, <3>1 DEF RcuCallback
  <2>3. ASSUME NEW v \in Sets, Free(v) PROVE Safe(p, s)'
    <3>1. v # s
      BY <1>0, <2>3 DEF Free
    <3> QED
      BY <1>0, <1>1, <2>1, <2>3, <3>1 DEF Free
  <2>4. ASSUME NEW e \in Elems,
               PutFinish(e) \/ \E l \in Sets : GcDel(l, e) \/ DestroyDel(l, e)
        PROVE  Safe(p, s)'
    BY <1>1, <2>1, <2>4 DEF PutFinish, GcDel, DestroyDel, ReadSlot, setVars
  <2> QED
    BY <1>9, <2>2, <2>3, <2>4 DEF Deferred
<1>10. CASE PacketPath
  <2>1. state' = state
    BY <1>10, FramePacketPath
  <2>2. ASSUME NEW q \in Packets, PacketLeave(q) PROVE Safe(p, s)'
    <3>1. q # p
      BY <1>0, <2>2 DEF PacketLeave, NoPacket, RefInv, Inv, TypeOK
    <3> QED
      BY <2>1, <2>2, <3>1 DEF PacketLeave, Safe
  <2>3. CASE grace' = grace
    BY <1>1, <2>1, <2>3
  <2> QED
    BY <1>10, <2>2, <2>3 DEF PacketPath, PacketEnter, PacketLock, PacketElem,
       PacketMember, PacketNext, PacketStep, setVars
<1> QED
  BY <1>3, <1>4, <1>5, <1>6, <1>7, <1>8, <1>9, <1>10 DEF Next, SetCommand

\* What an index has behind it is safe for a packet, if there is something
LEMMA SlotSafe ==
    ASSUME RefInv, NEW p \in Packets, NEW i \in Index, ip_set_list[i] # NULL
    PROVE  Safe(p, ip_set_list[i])
BY DEF RefInv, Inv, TableExact, Used, Safe

LEMMA SafeStep == RefInv /\ PacketRules /\ PacketsSafe /\ Next => PacketsSafe'
<1> SUFFICES ASSUME RefInv, PacketRules, PacketsSafe, Next PROVE PacketsSafe'
  OBVIOUS
<1>0. /\ TypeOK /\ packet \in [Packets -> PacketType]
  BY DEF RefInv, Inv, TypeOK
<1>1. ASSUME NEW p \in Packets, NEW s \in Sets, packet'[p] = packet[p],
             s = packet[p].set \/ s = packet[p].member
      PROVE  Safe(p, s)'
  <2>1. s # NULL
    BY SetAssumption
  <2>2. packet[p].pc # "idle"
    BY <1>1, <2>1 DEF PacketRules, NoPacket
  <2>3. Safe(p, s)
    BY <1>1, <2>1 DEF PacketsSafe
  <2> QED
    BY <1>1, <2>2, <2>3, SafeKept
<1>11. ASSUME \A p \in Packets : packet'[p] = packet[p] \/ packet'[p] = NoPacket
      PROVE  PacketsSafe'
  <2>1. ASSUME NEW p \in Packets, NEW s \in Sets,
               s = packet'[p].set \/ s = packet'[p].member
        PROVE  Safe(p, s)'
    <3>1. s # NULL
      BY SetAssumption
    <3>2. packet'[p] = packet[p]
      BY <1>11, <2>1, <3>1 DEF NoPacket
    <3> QED
      BY <1>1, <2>1, <3>2
  <2>2. \A p \in Packets : packet'[p].set \in Sets \cup {NULL}
                           /\ packet'[p].member \in Sets \cup {NULL}
    <3>1. TypeOK'
      BY InvStep DEF RefInv, Inv
    <3> QED
      BY <3>1 DEF TypeOK, PacketType
  <2> QED
    BY <2>1, <2>2 DEF PacketsSafe, Safe
<1>2. CASE packet' = packet
  BY <1>11, <1>2
<1>3. ASSUME NEW p \in Packets, NEW new, PacketStep(p, new),
             new.set # NULL => Safe(p, new.set),
             new.member # NULL => Safe(p, new.member)
      PROVE  PacketsSafe'
  <2>1. \A q \in Packets : packet'[q] = IF q = p THEN new ELSE packet[q]
    BY <1>0, <1>3, PacketOnly
  <2>2. state' = state /\ grace' = grace
    BY <1>3 DEF PacketStep, setVars
  <2>3. ASSUME NEW q \in Packets
        PROVE  /\ packet'[q].set # NULL => Safe(q, packet'[q].set)
               /\ packet'[q].member # NULL => Safe(q, packet'[q].member)
    <3>1. CASE q = p
      <4>1. packet'[q] = new
        BY <2>1, <3>1
      <4> QED
        BY <1>3, <3>1, <4>1
    <3>2. CASE q # p
      <4>1. packet'[q] = packet[q]
        BY <2>1, <3>2
      <4> QED
        BY <4>1 DEF PacketsSafe
    <3> QED
      BY <3>1, <3>2
  <2> QED
    BY <2>2, <2>3 DEF PacketsSafe, Safe
<1>4. ASSUME NEW p \in Packets, NEW r \in Rules, NEW op \in {"test", "ad"},
             PacketEnter(p, r, op)
      PROVE  PacketsSafe'
  <2> DEFINE new == [NoPacket EXCEPT !.pc = Fetch(hold[r], "set"),
                      !.op = op, !.rule = r, !.set = ip_set_list[hold[r]]]
  <2>1. new.set = ip_set_list[hold[r]] /\ new.member = NULL
    BY DEF NoPacket
  <2> HIDE DEF new
  <2>2. PacketStep(p, new) /\ hold[r] \in Index
    BY <1>0, <1>4 DEF PacketEnter, new, TypeOK, Holders
  <2> QED
    BY <1>3, <2>1, <2>2, SlotSafe
<1>5. ASSUME NEW p \in Packets, PacketLock(p)
      PROVE  PacketsSafe'
  <2> DEFINE new == [packet[p] EXCEPT !.locked = TRUE]
  <2>1. new.set = packet[p].set /\ new.member = packet[p].member
    BY <1>0 DEF PacketType
  <2> HIDE DEF new
  <2>2. PacketStep(p, new)
    BY <1>5 DEF PacketLock, new
  <2> QED
    BY <1>3, <2>1, <2>2 DEF PacketsSafe
<1>6. ASSUME NEW p \in Packets, NEW e \in Elems, PacketElem(p, e)
      PROVE  PacketsSafe'
  <2> DEFINE new == [packet[p] EXCEPT !.pc = "elem", !.id = hold[e]]
  <2>1. new.set = packet[p].set /\ new.member = packet[p].member
    BY <1>0 DEF PacketType
  <2> HIDE DEF new
  <2>2. PacketStep(p, new)
    BY <1>6 DEF PacketElem, new
  <2> QED
    BY <1>3, <2>1, <2>2 DEF PacketsSafe
<1>7. ASSUME NEW p \in Packets, PacketMember(p)
      PROVE  PacketsSafe'
  <2> DEFINE i == packet[p].id
             new == [packet[p] EXCEPT !.pc = Fetch(i, "member"), !.member = ip_set_list[i]]
  <2>1. new.set = packet[p].set /\ new.member = ip_set_list[i]
    BY <1>0 DEF PacketType
  <2>2. PacketStep(p, new)
    BY <1>7 DEF PacketMember
  <2>3. i \in Index
    BY <1>7 DEF PacketMember, RefInv, Inv, PacketIds
  <2> HIDE DEF new, i
  <2>4. ip_set_list[i] # NULL => Safe(p, ip_set_list[i])
    BY <2>3, SlotSafe
  <2> QED
    BY <1>3, <2>1, <2>2, <2>4 DEF PacketsSafe
<1>8. ASSUME NEW p \in Packets, PacketNext(p)
      PROVE  PacketsSafe'
  <2> DEFINE new == [packet[p] EXCEPT !.pc = "set", !.member = NULL, !.id = NoIndex]
  <2>1. new.set = packet[p].set /\ new.member = NULL
    BY <1>0 DEF PacketType
  <2> HIDE DEF new
  <2>2. PacketStep(p, new)
    BY <1>8 DEF PacketNext, new
  <2> QED
    BY <1>3, <2>1, <2>2 DEF PacketsSafe
<1>9. ASSUME NEW p \in Packets, PacketLeave(p)
      PROVE  PacketsSafe'
  <2>1. \A q \in Packets : packet'[q] = IF q = p THEN NoPacket ELSE packet[q]
    BY <1>0, <1>9 DEF PacketLeave
  <2> QED
    BY <1>11, <2>1
<1>10. CASE SetCommand \/ RefCommand \/ Deferred \/ NetlinkStep
  <2>1. CASE SetCommand
    BY <1>2, <2>1 DEF SetCommand, Create, Destroy, DestroyFinish, DestroyAll,
       DestroyAllCheck, DestroyAllStep, DestroyAllFinish, Rename, Swap
  <2> QED
    BY <1>2, <1>10, <2>1, FrameRefCommand, FrameDeferred, FrameNetlinkStep
<1> QED
  BY <1>4, <1>5, <1>6, <1>7, <1>8, <1>9, <1>10 DEF Next, PacketPath

\* While a packet holds the lock of a list:set set, the member it has reached
\* stays on the list
LEMMA ReachedKept ==
    ASSUME RefInv, PacketsSafe, Next, NEW p \in Packets, packet[p].pc = "elem",
           packet'[p] = packet[p], NEW e \in Elems, Reached(p, e)
    PROVE  Reached(p, e)'
<1>0. /\ hold \in [Holders -> Index \cup {NoIndex}] /\ e \in Holders /\ e \notin Rules
      /\ owner \in [Elems -> Sets \cup {NULL}] /\ putting \in [Elems -> Sets \cup {NULL}]
      /\ hold[e] \in Index /\ hold[e] # NoIndex
  <2>1. NoIndex \notin Index
    BY TableAssumption DEF NoIndex, Index, IPSET_INVALID_ID
  <2> QED
    BY <2>1, ActorAssumption DEF RefInv, Inv, TypeOK, PacketIds, Reached, Holders
<1>1. ASSUME owner'[e] = owner[e], putting'[e] = putting[e], hold'[e] = hold[e]
      PROVE  Reached(p, e)'
  BY <1>1 DEF Reached
<1>2. ASSUME NEW l \in Sets, LockFree(l) PROVE e \notin Members(l)
  BY <1>2 DEF LockFree, Reached, Members
<1>3. CASE SetCommand \/ NetlinkStep \/ PacketPath
  <2>1. UNCHANGED <<owner, putting, hold>>
    BY <1>3, FrameNetlinkStep, FramePacketPath DEF SetCommand, Create, Destroy,
       DestroyFinish, DestroyAll, DestroyAllCheck, DestroyAllStep,
       DestroyAllFinish, Rename, Swap, elemVars
  <2> QED
    BY <1>1, <2>1
<1>4. CASE RefCommand
  <2>1. ASSUME NEW r \in Rules, RulePut(r) \/ \E i \in Index : RuleGet(r, i)
        PROVE  Reached(p, e)'
    <3>1. UNCHANGED <<owner, putting>> /\ hold'[e] = hold[e]
      BY <1>0, <2>1 DEF RulePut, RuleGet, elemVars
    <3> QED
      BY <1>1, <3>1
  <2>2. ASSUME NEW l \in Sets, NEW a \in Elems, NEW i \in Index, NEW gone \in SUBSET Elems,
               ListAdd(l, a, i, gone)
        PROVE  Reached(p, e)'
    <3>1. gone \subseteq Members(l) /\ LockFree(l)
      BY <2>2 DEF ListAdd, Expired, ListReady
    <3>2. e # a /\ e \notin gone
      BY <1>0, <1>2, <2>2, <3>1 DEF ListAdd
    <3> QED
      BY <1>0, <1>1, <2>2, <3>2 DEF ListAdd
  <2>3. ASSUME NEW l \in Sets, NEW gone \in SUBSET Elems, gone \subseteq Members(l),
               ListRemove(l, gone)
        PROVE  Reached(p, e)'
    <3>1. e \notin gone
      BY <1>2, <2>3 DEF ListRemove, ListReady
    <3> QED
      BY <1>0, <1>1, <2>3, <3>1 DEF ListRemove
  <2>4. ASSUME NEW l \in Sets, NEW a \in Elems, NEW gone \in SUBSET Elems, ListDel(l, a, gone)
        PROVE  Reached(p, e)'
    <3>1. gone \cup {a} \subseteq Members(l) /\ gone \cup {a} \subseteq Elems
      BY <2>4 DEF ListDel, Expired
    <3> QED
      BY <2>3, <2>4, <3>1 DEF ListDel
  <2>5. ASSUME NEW l \in Sets, ListFlush(l) PROVE Reached(p, e)'
    BY <2>3, <2>5 DEF ListFlush, Members
  <2> QED
    BY <1>4, <2>1, <2>2, <2>4, <2>5 DEF RefCommand
<1>5. CASE Deferred
  <2>1. ASSUME NEW a \in Elems, a # e, ReadSlot(a) \/ PutFinish(a) PROVE Reached(p, e)'
    BY <1>0, <1>1, <2>1 DEF ReadSlot, PutFinish
  <2>2. ASSUME NEW l \in Sets, NEW a \in Elems, GcDel(l, a) PROVE Reached(p, e)'
    <3>1. a # e
      BY <1>2, <2>2 DEF GcDel
    <3> QED
      BY <2>1, <2>2, <3>1 DEF GcDel
  <2>3. ASSUME NEW l \in Sets, NEW a \in Elems, DestroyDel(l, a) PROVE Reached(p, e)'
    <3>1. a # e
      BY <2>3 DEF DestroyDel, Members, Reached, PacketsSafe, Safe
    <3> QED
      BY <2>1, <2>3, <3>1 DEF DestroyDel
  <2>4. ASSUME NEW a \in Elems, PutFinish(a) PROVE Reached(p, e)'
    <3>1. a # e
      BY <2>4 DEF PutFinish, Reached
    <3> QED
      BY <2>1, <2>4, <3>1
  <2>5. ASSUME NEW s \in Sets, RcuCallback(s) \/ Free(s) PROVE Reached(p, e)'
    BY <1>1, <2>5 DEF RcuCallback, Free, elemVars
  <2> QED
    BY <1>5, <2>2, <2>3, <2>4, <2>5 DEF Deferred
<1> QED
  BY <1>3, <1>4, <1>5 DEF Next

LEMMA ReachedStep == RefInv /\ PacketsSafe /\ MemberReached /\ Next => MemberReached'
<1> SUFFICES ASSUME RefInv, PacketsSafe, MemberReached, Next PROVE MemberReached'
  OBVIOUS
<1>0. /\ TypeOK /\ packet \in [Packets -> PacketType]
  BY DEF RefInv, Inv, TypeOK
<1>1. ASSUME NEW p \in Packets, packet'[p] = packet[p], packet[p].pc = "elem", packet[p].op = "ad"
      PROVE  \E e \in Elems : Reached(p, e)'
  BY <1>1, ReachedKept DEF MemberReached
<1>2. ASSUME \A p \in Packets : packet'[p] = packet[p] \/ packet'[p].pc # "elem"
      PROVE  MemberReached'
  <2>1. ASSUME NEW p \in Packets, packet'[p].pc = "elem", packet'[p].op = "ad"
        PROVE  \E e \in Elems : Reached(p, e)'
    BY <1>1, <1>2, <2>1
  <2> QED
    BY <2>1 DEF MemberReached
<1>3. CASE SetCommand \/ RefCommand \/ Deferred \/ NetlinkStep
  <2>1. packet' = packet
    BY <1>3, FrameRefCommand, FrameDeferred, FrameNetlinkStep
       DEF SetCommand, Create, Destroy, DestroyFinish, DestroyAll,
       DestroyAllCheck, DestroyAllStep, DestroyAllFinish, Rename, Swap
  <2> QED
    BY <1>2, <2>1
<1>4. ASSUME NEW p \in Packets, NEW new, PacketStep(p, new), new.pc # "elem"
      PROVE  MemberReached'
  <2>1. \A q \in Packets : packet'[q] = IF q = p THEN new ELSE packet[q]
    BY <1>0, <1>4, PacketOnly
  <2> QED
    BY <1>2, <1>4, <2>1
<1>5. ASSUME NEW p \in Packets, NEW r \in Rules, NEW op \in {"test", "ad"},
             PacketEnter(p, r, op)
      PROVE  MemberReached'
  <2> DEFINE new == [NoPacket EXCEPT !.pc = Fetch(hold[r], "set"),
                      !.op = op, !.rule = r, !.set = ip_set_list[hold[r]]]
  <2>1. new.pc # "elem"
    BY DEF NoPacket, Fetch
  <2> HIDE DEF new
  <2>2. PacketStep(p, new)
    BY <1>5 DEF PacketEnter, new
  <2> QED
    BY <1>4, <2>1, <2>2
<1>6. ASSUME NEW p \in Packets, PacketLock(p)
      PROVE  MemberReached'
  <2> DEFINE new == [packet[p] EXCEPT !.locked = TRUE]
  <2>1. new.pc = packet[p].pc
    BY <1>0 DEF PacketType
  <2> HIDE DEF new
  <2>2. PacketStep(p, new) /\ packet[p].pc = "set"
    BY <1>6 DEF PacketLock, new
  <2> QED
    BY <1>4, <2>1, <2>2
<1>7. ASSUME NEW p \in Packets, NEW e \in Elems, PacketElem(p, e)
      PROVE  MemberReached'
  <2> DEFINE new == [packet[p] EXCEPT !.pc = "elem", !.id = hold[e]]
  <2>1. /\ new.set = packet[p].set /\ new.op = packet[p].op /\ new.id = hold[e]
        /\ new.locked = packet[p].locked /\ new.pc = "elem"
    BY <1>0 DEF PacketType
  <2> HIDE DEF new
  <2>2. PacketStep(p, new)
    BY <1>7 DEF PacketElem, new
  <2>3. \A q \in Packets : packet'[q] = IF q = p THEN new ELSE packet[q]
    BY <1>0, <2>2, PacketOnly
  <2>4. UNCHANGED <<owner, putting, hold>>
    BY <2>2 DEF PacketStep, elemVars
  <2>5. packet[p].op = "ad" => Reached(p, e)'
    <3>1. packet[p].set # NULL
      BY <1>7 DEF PacketElem, RefInv, Inv, PacketIds
    <3>2. packet'[p] = new
      BY <2>3
    <3>3. owner[e] = packet[p].set /\ putting[e] = NULL
      BY <1>7 DEF PacketElem, Members
    <3> QED
      BY <1>7, <2>1, <2>4, <3>1, <3>2, <3>3 DEF PacketElem, Reached
  <2>6. ASSUME NEW q \in Packets, packet'[q].pc = "elem", packet'[q].op = "ad"
        PROVE  \E a \in Elems : Reached(q, a)'
    BY <1>1, <2>1, <2>3, <2>5, <2>6
  <2> QED
    BY <2>6 DEF MemberReached
<1>8. ASSUME NEW p \in Packets, PacketMember(p)
      PROVE  MemberReached'
  <2> DEFINE i == packet[p].id
             new == [packet[p] EXCEPT !.pc = Fetch(i, "member"), !.member = ip_set_list[i]]
  <2>1. new.pc # "elem"
    BY <1>0 DEF PacketType, Fetch
  <2>2. PacketStep(p, new)
    BY <1>8 DEF PacketMember
  <2> HIDE DEF new
  <2> QED
    BY <1>4, <2>1, <2>2
<1>9. ASSUME NEW p \in Packets, PacketNext(p)
      PROVE  MemberReached'
  <2> DEFINE new == [packet[p] EXCEPT !.pc = "set", !.member = NULL, !.id = NoIndex]
  <2>1. new.pc = "set"
    BY <1>0 DEF PacketType
  <2> HIDE DEF new
  <2>2. PacketStep(p, new)
    BY <1>9 DEF PacketNext, new
  <2> QED
    BY <1>4, <2>1, <2>2
<1>10. ASSUME NEW p \in Packets, PacketLeave(p)
       PROVE  MemberReached'
  <2>1. \A q \in Packets : packet'[q] = IF q = p THEN NoPacket ELSE packet[q]
    BY <1>0, <1>10 DEF PacketLeave
  <2> QED
    BY <1>2, <2>1 DEF NoPacket
<1> QED
  BY <1>3, <1>5, <1>6, <1>7, <1>8, <1>9, <1>10 DEF Next, PacketPath

----------------------------------------------------------------------------
(* No list:set set becomes a member of another one                         *)

\* Behind an index that is referred to the kind of set does not change
LEMMA KindKept ==
    ASSUME RefInv, SetCommand \/ Deferred, NEW i \in Used, Holding(i) # {}
    PROVE  kind'[ip_set_list'[i]] = kind[ip_set_list[i]]
<1>0. /\ ip_set_list \in [Index -> Sets \cup {NULL}] /\ i \in Index
      /\ state \in [Sets -> {"free", "live"} \cup Reclaimable]
      /\ kind \in [Sets -> {"plain", "list"}] /\ TableExact
      /\ ip_set_list[i] \in Sets /\ state[ip_set_list[i]] = "live"
      /\ ref[ip_set_list[i]] # 0 /\ ip_set_max \in Index
  BY UnheldIndex DEF RefInv, Inv, TypeOK, TableExact, Used
<1>1. ASSUME NEW s \in Sets, NEW n \in Names, NEW k \in Kinds, Create(s, n, k)
      PROVE  kind'[ip_set_list'[i]] = kind[ip_set_list[i]]
  <2>1. PICK j \in Index, max \in 0 .. (IdMod - 1) :
           NewSlot(j, max) /\ ip_set_list' = [ip_set_list EXCEPT ![j] = s]
    BY <1>1 DEF Create
  <2>2. j # i
    <3>1. i < ip_set_max /\ i \in Int /\ ip_set_max \in Int
      BY <1>0 DEF TableExact, Used, Index
    <3> QED
      BY <1>0, <2>1, <3>1 DEF NewSlot, Used
  <2>3. ip_set_list[i] # s
    BY <1>0, <1>1 DEF Create
  <2> QED
    BY <1>0, <1>1, <2>1, <2>2, <2>3 DEF Create
<1>2. ASSUME NEW j \in Index, Destroy(j)
      PROVE  kind'[ip_set_list'[i]] = kind[ip_set_list[i]]
  <2>1. j # i
    BY <1>0, <1>2 DEF Destroy, Unreferenced
  <2> QED
    BY <1>0, <1>2, <2>1 DEF Destroy
<1>3. CASE DestroyAllStep
  BY <1>0, <1>3 DEF DestroyAllStep, RefInv, Inv, CommandState, DestroyAllQuiet,
     Unreferenced
<1>4. ASSUME NEW j \in Index, NEW k \in Index, Swap(j, k)
      PROVE  kind'[ip_set_list'[i]] = kind[ip_set_list[i]]
  <2>1. /\ j # k /\ kind' = kind
        /\ ip_set_list' = [ip_set_list EXCEPT ![j] = ip_set_list[k], ![k] = ip_set_list[j]]
        /\ kind[ip_set_list[j]] = kind[ip_set_list[k]]
    BY <1>4 DEF Swap, Swappable
  <2> QED
    BY <1>0, <2>1
<1>5. CASE DestroyFinish \/ DestroyAll \/ DestroyAllCheck \/ DestroyAllFinish
           \/ (\E j \in Index, n \in Names : Rename(j, n))
  BY <1>5 DEF DestroyFinish, DestroyAll, DestroyAllCheck, DestroyAllFinish,
     Rename, slotVars, setVars
<1>6. CASE Deferred
  <2>1. ip_set_list' = ip_set_list
    BY <1>6, FrameDeferred DEF slotVars
  <2>2. ASSUME NEW s \in Sets, Free(s) PROVE kind'[ip_set_list[i]] = kind[ip_set_list[i]]
    BY <1>0, <2>2 DEF Free
  <2> QED
    BY <1>6, <2>1, <2>2 DEF Deferred, GcDel, DestroyDel, ReadSlot, PutFinish,
       RcuCallback, setVars
<1> QED
  BY <1>1, <1>2, <1>3, <1>4, <1>5, <1>6 DEF SetCommand

LEMMA NestStep == RefInv /\ NoNestedLists /\ Next => NoNestedLists'
<1> SUFFICES ASSUME RefInv, NoNestedLists, Next, NEW e \in Elems, owner'[e] # NULL
             PROVE  kind'[ip_set_list'[hold'[e]]] # "list"
  BY DEF NoNestedLists
<1>0. /\ hold \in [Holders -> Index \cup {NoIndex}] /\ e \in Holders /\ e \notin Rules
      /\ owner \in [Elems -> Sets \cup {NULL}] /\ ElemsOwned
      /\ putting \in [Elems -> Sets \cup {NULL}]
  BY ActorAssumption DEF RefInv, Inv, TypeOK, Holders
<1>1. ASSUME owner[e] # NULL
      PROVE  /\ hold[e] \in Used /\ Holding(hold[e]) # {}
             /\ kind[ip_set_list[hold[e]]] # "list"
  BY <1>0, <1>1 DEF ElemsOwned, RefInv, HeldIndexLive, Holding, NoNestedLists
<1>2. CASE SetCommand
  <2>1. UNCHANGED <<owner, hold>>
    BY <1>2 DEF SetCommand, Create, Destroy, DestroyFinish, DestroyAll,
       DestroyAllCheck, DestroyAllStep, DestroyAllFinish, Rename, Swap, elemVars
  <2> QED
    BY <1>1, <1>2, <2>1, KindKept
<1>3. CASE RefCommand
  <2>1. UNCHANGED <<ip_set_list, kind>>
    BY <1>3, FrameRefCommand DEF slotVars
  <2>2. ASSUME NEW r \in Rules, RulePut(r) \/ \E i \in Index : RuleGet(r, i)
        PROVE  owner[e] # NULL /\ hold'[e] = hold[e]
    BY <1>0, <2>2 DEF RulePut, RuleGet, elemVars
  <2>3. ASSUME NEW l \in Sets, NEW gone \in SUBSET Elems, ListRemove(l, gone)
        PROVE  owner[e] # NULL /\ hold'[e] = hold[e]
    BY <1>0, <2>3 DEF ListRemove
  <2>4. ASSUME NEW l \in Sets, NEW a \in Elems, NEW i \in Index, NEW gone \in SUBSET Elems,
               ListAdd(l, a, i, gone)
        PROVE  kind'[ip_set_list'[hold'[e]]] # "list"
    <3>1. CASE a = e
      BY <1>0, <2>1, <2>4, <3>1 DEF ListAdd
    <3>2. CASE a # e
      <4>1. owner[e] # NULL /\ hold'[e] = hold[e]
        BY <1>0, <2>4, <3>2 DEF ListAdd
      <4> QED
        BY <1>1, <2>1, <4>1
    <3> QED
      BY <3>1, <3>2
  <2>5. \A l : Members(l) \in SUBSET Elems
    BY DEF Members
  <2>6. CASE \E l \in Sets, a \in Elems, i \in Index, gone \in SUBSET Elems : ListAdd(l, a, i, gone)
    BY <2>4, <2>6
  <2>7. CASE owner[e] # NULL /\ hold'[e] = hold[e]
    BY <1>1, <2>1, <2>7
  <2> QED
    BY <1>3, <2>2, <2>3, <2>5, <2>6, <2>7 DEF RefCommand, ListDel, ListFlush
<1>4. CASE Deferred
  <2>1. owner[e] # NULL /\ hold'[e] = hold[e]
    BY <1>0, <1>4 DEF Deferred, GcDel, DestroyDel, ReadSlot, PutFinish,
       RcuCallback, Free, elemVars
  <2> QED
    BY <1>1, <1>4, <2>1, KindKept
<1>5. CASE NetlinkStep \/ PacketPath
  <2>1. UNCHANGED <<owner, hold, kind, ip_set_list>>
    BY <1>5, FrameNetlinkStep, FramePacketPath DEF slotVars, setVars, elemVars
  <2> QED
    BY <1>1, <2>1
<1> QED
  BY <1>2, <1>3, <1>4, <1>5 DEF Next

----------------------------------------------------------------------------
LEMMA UseInvariance == QuietSpec => [](RefInv /\ UseInv)
<1>1. Init => UseInv
  BY DEF Init, UseInv, PacketRules, PacketsSafe, MemberReached, NoNestedLists,
     NoPacket
<1>2. RefInv /\ UseInv /\ [Next /\ SwapQuiet]_vars => UseInv'
  <2> SUFFICES ASSUME RefInv, UseInv, [Next /\ SwapQuiet]_vars PROVE UseInv'
    OBVIOUS
  <2>1. CASE Next
    BY <2>1, RulesStep, SafeStep, ReachedStep, NestStep DEF UseInv, RefInv
  <2>2. CASE UNCHANGED vars
    <3>1. UNCHANGED <<packet, hold, state, grace, owner, putting, kind, ip_set_list>>
      BY <2>2 DEF vars, slotVars, setVars, elemVars
    <3> QED
      BY <3>1 DEF UseInv, PacketRules, PacketsSafe, Safe, MemberReached, Reached,
         NoNestedLists
  <2> QED
    BY <2>1, <2>2
<1> QED
  BY <1>1, <1>2, RefInvariance, PTL DEF QuietSpec

\* The memory of a set a packet works on is not reclaimed under the packet:
\* the rule keeps "destroy all" away and the grace period of call_rcu the
\* rest, also when the rule refers to another set by now (ip_set_rcu_get,
\* ip_set_destroy, ip_set_swap)
THEOREM PacketSetCorrect == QuietSpec => []PacketSetAlive
<1>1. UseInv => PacketSetAlive
  BY DEF UseInv, PacketsSafe, Safe, PacketSetAlive
<1> QED
  BY UseInvariance, <1>1, PTL

\* The index of a member the SET target reaches in a list:set set has a set
\* behind it: neither a command nor the timer can put the member while the
\* packet holds the lock of the list (list_set_kadd, list_set_kdel)
THEOREM LockedMemberCorrect == QuietSpec => []LockedMemberLive
<1>1. RefInv /\ UseInv => LockedMemberLive
  <2> SUFFICES ASSUME RefInv, UseInv, NEW p \in Packets, packet[p].pc = "elem",
                      packet[p].op = "ad"
               PROVE  packet[p].id \in Used
    BY DEF LockedMemberLive
  <2>1. PICK e \in Elems : Reached(p, e)
    BY DEF UseInv, MemberReached
  <2>2. hold[e] # NoIndex /\ e \in Holders
    BY <2>1, TableAssumption DEF Reached, RefInv, Inv, PacketIds, Holders,
       NoIndex, Index, IPSET_INVALID_ID
  <2> QED
    BY <2>1, <2>2 DEF Reached, RefInv, HeldIndexLive
<1> QED
  BY UseInvariance, <1>1, PTL

\* No list:set set is ever a member of a list:set set: adding one is refused
\* and ip_set_swap exchanges sets of the same features only
THEOREM NestingCorrect == QuietSpec => []NoNestedLists
<1>1. UseInv => NoNestedLists
  BY DEF UseInv
<1> QED
  BY UseInvariance, <1>1, PTL

\* Without list:set sets nothing is put asynchronously, and what a packet
\* works on stays whatever is swapped
THEOREM PacketSetPlain == ASSUME Elems = {} PROVE Spec => []PacketSetAlive
<1>1. [Next]_vars => [Next /\ SwapQuiet]_vars
  BY DEF SwapQuiet
<1>2. Spec => QuietSpec
  BY <1>1, PTL DEF Spec, QuietSpec
<1> QED
  BY <1>2, PacketSetCorrect, PTL
=============================================================================
