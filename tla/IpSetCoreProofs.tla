-------------------------- MODULE IpSetCoreProofs --------------------------
(***************************************************************************)
(* Proofs about IpSetCore, for any number of sets, names, rules, members,  *)
(* dumps, clients and packets and any size of the table.                   *)
(***************************************************************************)
EXTENDS IpSetCore, FiniteSetTheorems, TLAPS

\* An element that belongs to a list:set set refers to an index, and only an
\* element that still belongs to one is being put
ElemsOwned ==
    \A e \in Elems : /\ owner[e] # NULL <=> hold[e] # NoIndex
                     /\ putting[e] # NULL => owner[e] # NULL

\* A packet inside a set knows it, and the index of the member it looks up
PacketIds ==
    \A p \in Packets :
       /\ packet[p].pc \in {"set", "elem", "member"} => packet[p].set # NULL
       /\ packet[p].pc = "elem" => packet[p].id \in Index

\* is_destroyed is set exactly while "destroy all" empties the table, and the
\* list:set set whose destruction waits in rcu_barrier stays untouched
CommandState ==
    /\ is_destroyed <=> nfnl = "destroy_all"
    /\ nfnl = "destroy_one" => victim # NULL /\ state[victim] = "unlinked"

\* A dump that continues inside a set finds it within its bounds and in the
\* right pass, so its loop does not run past the set
DumpInside ==
    \A d \in Dumpers :
       /\ dump[d].pc = "idle" => ~ dump[d].arg0
       /\ pin[d] # NULL => /\ ~ OtherPass(d, pin[d])
                           /\ dump[d].pc = "scan" =>
                                 dump[d].index < dump[d].max

\* The inductive invariant
Inv ==
    /\ TypeOK /\ ElemsOwned /\ PacketIds /\ TableExact /\ CommandState
    /\ DestroyAllQuiet /\ PinsAccounted /\ DumpIndexPinned /\ DumpInside

\* An asynchronous put works on the set behind the element's index
PuttingSlot ==
    \A e \in Elems : putting[e] # NULL => ip_set_list[hold[e]] = putting[e]

\* ... and the strengthening for the references by index
RefInv == Inv /\ RefsAccounted /\ HeldIndexLive /\ PuttingSlot

----------------------------------------------------------------------------
(* Type correctness                                                        *)

\* The references left after a put of rules or elements are numbers
LEMMA PutElemsType ==
    ASSUME TypeOK, NEW gone \in SUBSET Holders
    PROVE  PutElems(gone) \in [Sets -> Int]
<1>1. ASSUME NEW s \in Sets
      PROVE  Cardinality({e \in gone : ip_set_list[hold[e]] = s}) \in Nat
  <2>1. IsFiniteSet({e \in gone : ip_set_list[hold[e]] = s})
    BY ActorAssumption, FS_Subset
  <2> QED
    BY <2>1, FS_CardinalityType
<1> QED
  BY <1>1 DEF PutElems, TypeOK

\* Commands on whole sets preserve the types
LEMMA TypeSetCommand == TypeOK /\ SetCommand => TypeOK'
<1> SUFFICES ASSUME TypeOK, SetCommand PROVE TypeOK'
  OBVIOUS
<1> USE TableAssumption, SetAssumption DEF TypeOK, Index, NoIndex,
        IPSET_INVALID_ID, slotVars, setVars, elemVars, mutexVars, Reclaimable
<1>1. ASSUME NEW s \in Sets, NEW n \in Names, NEW k \in Kinds, Create(s, n, k)
      PROVE  TypeOK'
  BY <1>1 DEF Create, NewSlot, CanGrow, IdAdd
<1>2. ASSUME NEW i \in Index, Destroy(i)
      PROVE  TypeOK'
  <2>1. dump' \in [Dumpers -> DumpType]
    <3>1. ASSUME NEW d \in Dumpers
          PROVE  [dump[d] EXCEPT !.must = @ \ {i}] \in DumpType
      <4>1. dump[d] \in DumpType
        BY DEF TypeOK
      <4> QED
        BY <4>1 DEF DumpType
    <3> QED
      BY <3>1, <1>2 DEF Destroy, Forget
  <2>2. state' \in [Sets -> {"free", "live"} \cup Reclaimable]
    BY <1>2 DEF Destroy, CallRcu, Reclaimable
  <2>3. barrier' \in [sets : SUBSET Sets, readers : SUBSET Packets]
    BY <1>2 DEF Destroy, RcuPending
  <2>4. grace' \in [Sets -> SUBSET Packets]
    <3>1. ActivePackets \in SUBSET Packets
      BY DEF ActivePackets
    <3>2. \/ grace' = [grace EXCEPT ![ip_set_list[i]] = ActivePackets]
          \/ grace' = grace
      BY <1>2 DEF Destroy, CallRcu
    <3> QED
      BY <3>1, <3>2
  <2>5. nfnl' \in {"free", "destroy_one"} /\ victim' \in Sets \cup {NULL}
    BY <1>2 DEF Destroy
  <2>6. ip_set_list' \in [Index -> Sets \cup {NULL}]
    BY <1>2 DEF Destroy
  <2> QED
    BY <1>2, <2>1, <2>2, <2>3, <2>4, <2>5, <2>6 DEF Destroy
<1>3. CASE DestroyFinish
  BY <1>3 DEF DestroyFinish, CallRcu, ActivePackets
<1>4. CASE DestroyAll
  BY <1>4 DEF DestroyAll, RcuPending
<1>5. CASE DestroyAllCheck
  <2>1. dump' \in [Dumpers -> DumpType]
    <3>1. ASSUME NEW d \in Dumpers
          PROVE  [dump[d] EXCEPT !.must = {}] \in DumpType
      <4>1. dump[d] \in DumpType
        OBVIOUS
      <4> QED
        BY <4>1 DEF DumpType
    <3>2. \/ dump' = [d \in Dumpers |-> [dump[d] EXCEPT !.must = {}]]
          \/ dump' = dump
      BY <1>5 DEF DestroyAllCheck
    <3>3. CASE dump' = [d \in Dumpers |-> [dump[d] EXCEPT !.must = {}]]
      BY <3>1, <3>3
    <3>4. CASE dump' = dump
      BY <3>4
    <3> QED
      BY <3>2, <3>3, <3>4
  <2>2. nfnl' \in {"free", "destroy_all"} /\ is_destroyed' \in BOOLEAN
    BY <1>5 DEF DestroyAllCheck
  <2> QED
    BY <1>5, <2>1, <2>2 DEF DestroyAllCheck
<1>6. CASE DestroyAllStep
  BY <1>6 DEF DestroyAllStep, Used
<1>7. CASE DestroyAllFinish
  BY <1>7 DEF DestroyAllFinish
<1>8. ASSUME NEW i \in Index, NEW n \in Names, Rename(i, n)
      PROVE  TypeOK'
  BY <1>8 DEF Rename
<1>9. ASSUME NEW i \in Index, NEW j \in Index, Swap(i, j)
      PROVE  TypeOK'
  BY <1>9 DEF Swap, SwappedRefs
<1> QED
  BY <1>1, <1>2, <1>3, <1>4, <1>5, <1>6, <1>7, <1>8, <1>9 DEF SetCommand

\* References by index preserve the types
LEMMA TypeRefCommand == TypeOK /\ RefCommand => TypeOK'
<1> SUFFICES ASSUME TypeOK, RefCommand PROVE TypeOK'
  OBVIOUS
<1> USE TableAssumption, SetAssumption DEF TypeOK, Holders, slotVars, setVars,
        elemVars, mutexVars
<1>1. ASSUME NEW r \in Rules, NEW i \in Index, RuleGet(r, i)
      PROVE  TypeOK'
  BY <1>1 DEF RuleGet
<1>2. ASSUME NEW r \in Rules, RulePut(r)
      PROVE  TypeOK'
  <2>1. PutElems({r}) \in [Sets -> Int]
    BY PutElemsType
  <2> QED
    BY <1>2, <2>1 DEF RulePut
<1>3. ASSUME NEW l \in Sets, NEW e \in Elems, NEW i \in Index,
             NEW gone \in SUBSET Elems, ListAdd(l, e, i, gone)
      PROVE  TypeOK'
  <2>1. PutElems(gone) \in [Sets -> Int]
    BY PutElemsType
  <2>2. ref' \in [Sets -> Int]
    BY <1>3, <2>1 DEF ListAdd
  <2>3. elem_grace' \subseteq Packets
    BY <1>3 DEF ListAdd, ActivePackets
  <2>4. /\ hold' \in [Holders -> Index \cup {NoIndex}]
        /\ owner' \in [Elems -> Sets \cup {NULL}]
    BY <1>3 DEF ListAdd
  <2> QED
    BY <1>3, <2>2, <2>3, <2>4 DEF ListAdd
<1>4. ASSUME NEW l \in Sets, NEW gone \in SUBSET Elems, ListRemove(l, gone)
      PROVE  TypeOK'
  <2>1. PutElems(gone) \in [Sets -> Int]
    BY PutElemsType
  <2>2. elem_grace' \subseteq Packets
    BY <1>4 DEF ListRemove, ActivePackets
  <2>3. /\ hold' \in [Holders -> Index \cup {NoIndex}]
        /\ owner' \in [Elems -> Sets \cup {NULL}]
    BY <1>4 DEF ListRemove
  <2> QED
    BY <1>4, <2>1, <2>2, <2>3 DEF ListRemove
<1>5. ASSUME NEW l \in Sets, NEW e \in Elems, NEW gone \in SUBSET Elems,
             ListDel(l, e, gone)
      PROVE  TypeOK'
  BY <1>4, <1>5 DEF ListDel
<1>6. ASSUME NEW l \in Sets, ListFlush(l)
      PROVE  TypeOK'
  <2>1. Members(l) \in SUBSET Elems
    BY DEF Members
  <2> QED
    BY <1>4, <1>6, <2>1 DEF ListFlush
<1> QED
  BY <1>1, <1>2, <1>3, <1>5, <1>6 DEF RefCommand

\* Deferred work preserves the types
LEMMA TypeDeferred == TypeOK /\ ElemsOwned /\ Deferred => TypeOK'
<1> SUFFICES ASSUME TypeOK, ElemsOwned, Deferred PROVE TypeOK'
  OBVIOUS
<1> USE TableAssumption, SetAssumption DEF TypeOK, Holders, slotVars, setVars,
        elemVars, mutexVars
<1>1. ASSUME NEW e \in Elems, owner[e] # NULL, ReadSlot(e)
      PROVE  TypeOK'
  <2>1. hold[e] \in Index
    BY <1>1 DEF ElemsOwned
  <2> QED
    BY <1>1, <2>1 DEF ReadSlot
<1>2. ASSUME NEW l \in Sets, NEW e \in Elems, GcDel(l, e) \/ DestroyDel(l, e)
      PROVE  TypeOK'
  BY <1>1, <1>2 DEF GcDel, DestroyDel, Members
<1>3. ASSUME NEW e \in Elems, PutFinish(e)
      PROVE  TypeOK'
  <2>1. elem_grace' \subseteq Packets
    BY <1>3 DEF PutFinish, ActivePackets
  <2> QED
    BY <1>3, <2>1 DEF PutFinish
<1>4. ASSUME NEW s \in Sets, RcuCallback(s)
      PROVE  TypeOK'
  BY <1>4 DEF RcuCallback, Reclaimable
<1>5. ASSUME NEW s \in Sets, Free(s)
      PROVE  TypeOK'
  BY <1>5 DEF Free
<1> QED
  BY <1>2, <1>3, <1>4, <1>5 DEF Deferred

\* Dumps and interrupted commands preserve the types
LEMMA TypeNetlinkStep == TypeOK /\ DumpIndexPinned /\ NetlinkStep => TypeOK'
<1> SUFFICES ASSUME TypeOK, DumpIndexPinned, NetlinkStep PROVE TypeOK'
  OBVIOUS
<1> USE TableAssumption, SetAssumption DEF slotVars, setVars, elemVars,
        mutexVars
<1>1. ASSUME NEW c \in Clients, NEW i \in Index, AdRetry(c, i)
      PROVE  TypeOK'
  BY <1>1 DEF AdRetry, GetNetlink, TypeOK, Pinners
<1>2. ASSUME NEW c \in Clients, AdResume(c)
      PROVE  TypeOK'
  BY <1>2 DEF AdResume, PutNetlink, TypeOK, Pinners
<1>3. ASSUME NEW d \in Dumpers, NEW new \in DumpType, DumpTo(d, new)
      PROVE  dump' \in [Dumpers -> DumpType]
  BY <1>3 DEF DumpTo, TypeOK
<1>4. ASSUME NEW d \in Dumpers
      PROVE  /\ dump[d] \in DumpType
             /\ dump[d].index \in 0 .. IPSET_INVALID_ID
             /\ dump[d].max \in 0 .. IPSET_INVALID_ID
  BY DEF DumpType, Index, NoIndex, IPSET_INVALID_ID, TypeOK
<1>5. ASSUME NEW d \in Dumpers, NEW s, GetNetlink(d, s) \/ PutNetlink(d, s),
             s \in Sets
      PROVE  /\ pin' \in [Pinners -> Sets \cup {NULL}]
             /\ ref_netlink' \in [Sets -> Int]
  BY <1>5 DEF GetNetlink, PutNetlink, TypeOK, Pinners
<1>6. ASSUME NEW d \in Dumpers, ReleaseNfnl(d)
      PROVE  nfnl' \in {"free", "destroy_one", "barrier_all", "destroy_all"}
                          \cup Dumpers
  BY <1>6 DEF ReleaseNfnl, TypeOK
<1>7. ASSUME NEW d \in Dumpers, NEW t \in {"ALL", "ONE"}, NEW i \in Index,
             DumpStart(d, t, i)
      PROVE  TypeOK'
  <2> DEFINE new == [NoDump EXCEPT !.pc = "wait", !.type = t, !.index = i,
                       !.must = IF t = "ONE" THEN {i} ELSE Used]
  <2>1. Used \in SUBSET Index /\ 0 \in Index
    BY DEF Used, Index, IPSET_INVALID_ID
  <2>2. new \in DumpType
    BY <2>1 DEF NoDump, DumpType
  <2>3. dump' \in [Dumpers -> DumpType]
    BY <1>3, <1>7, <2>2 DEF DumpStart
  <2> QED
    BY <1>7, <2>3 DEF DumpStart, TypeOK
<1>8. ASSUME NEW d \in Dumpers, DumpChunk(d)
      PROVE  TypeOK'
  <2>1. [dump[d] EXCEPT !.pc = "end"] \in DumpType
    BY <1>4 DEF DumpType
  <2>2. CASE PastEnd(d)
    <3>1. dump' \in [Dumpers -> DumpType]
      BY <1>3, <1>8, <2>1, <2>2 DEF DumpChunk
    <3> QED
      BY <1>6, <1>8, <2>2, <3>1 DEF DumpChunk, TypeOK
  <2>3. CASE ~ PastEnd(d)
    <3> DEFINE max == IF dump[d].type = "ONE" THEN dump[d].index + 1
                      ELSE ip_set_max
    <3>1. max \in Index \cup {NoIndex}
      BY <1>4, <2>3 DEF PastEnd, TypeOK, Index, NoIndex, IPSET_INVALID_ID
    <3>2. [dump[d] EXCEPT !.pc = "scan", !.max = max] \in DumpType
      BY <1>4, <3>1 DEF DumpType
    <3>3. dump' \in [Dumpers -> DumpType]
      BY <1>3, <1>8, <2>3, <3>2 DEF DumpChunk
    <3> QED
      BY <1>8, <2>3, <3>3 DEF DumpChunk, TypeOK
  <2> QED
    BY <2>2, <2>3
<1>9. ASSUME NEW d \in Dumpers, DumpSkip(d)
      PROVE  TypeOK'
  <2> DEFINE s == ip_set_list[dump[d].index]
  <2>1. dump[d].index + 1 \in Index \cup {NoIndex} /\ dump[d].index \in Index
    BY <1>4, <1>9 DEF DumpSkip, Scanning, Index, NoIndex, IPSET_INVALID_ID
  <2>2. s \in Sets \cup {NULL}
    BY <2>1 DEF TypeOK
  <2>3. [dump[d] EXCEPT !.index = @ + 1, !.set = s] \in DumpType
    BY <1>4, <2>1, <2>2, ZenonT(60) DEF DumpType
  <2>4. dump' \in [Dumpers -> DumpType]
    BY <1>3, <1>9, <2>3 DEF DumpSkip
  <2> QED
    BY <1>9, <2>4 DEF DumpSkip, TypeOK
<1>10. ASSUME NEW d \in Dumpers, DumpGone(d)
       PROVE  TypeOK'
  <2>1. [dump[d] EXCEPT !.pc = IF dump[d].type = "ONE" THEN "err" ELSE "end"]
           \in DumpType
    BY <1>4 DEF DumpType
  <2>2. dump' \in [Dumpers -> DumpType]
    BY <1>3, <1>10, <2>1 DEF DumpGone
  <2> QED
    BY <1>6, <1>10, <2>2 DEF DumpGone, TypeOK
<1>11. ASSUME NEW d \in Dumpers, DumpPin(d)
       PROVE  TypeOK'
  <2> DEFINE s == ip_set_list[dump[d].index]
  <2>1. dump[d].index \in Index
    BY <1>4, <1>11 DEF DumpPin, Scanning, Index, NoIndex, IPSET_INVALID_ID
  <2>2. s \in Sets
    BY <1>11, <2>1 DEF TypeOK, DumpPin, Listable
  <2>3. [dump[d] EXCEPT !.pc = "emit", !.set = s] \in DumpType
    BY <1>4, <2>2 DEF DumpType
  <2>4. dump' \in [Dumpers -> DumpType]
    BY <1>3, <1>11, <2>3 DEF DumpPin
  <2>5. /\ pin' \in [Pinners -> Sets \cup {NULL}]
        /\ ref_netlink' \in [Sets -> Int]
    BY <1>5, <1>11, <2>2 DEF DumpPin, TypeOK
  <2> QED
    BY <1>11, <2>4, <2>5 DEF DumpPin, TypeOK
<1>12. ASSUME NEW d \in Dumpers, DumpPass(d)
       PROVE  TypeOK'
  <2>1. 0 \in Index
    BY DEF Index, IPSET_INVALID_ID
  <2>2. /\ [dump[d] EXCEPT !.type = "LAST", !.index = 0, !.set = NULL]
              \in DumpType
        /\ [dump[d] EXCEPT !.pc = "end"] \in DumpType
    BY <1>4, <2>1, ZenonT(60) DEF DumpType
  <2>3. dump' \in [Dumpers -> DumpType]
    BY <1>3, <1>12, <2>2 DEF DumpPass
  <2>4. nfnl' \in {"free", "destroy_one", "barrier_all", "destroy_all"}
                     \cup Dumpers
    BY <1>6, <1>12 DEF DumpPass, TypeOK
  <2> QED
    BY <1>12, <2>3, <2>4 DEF DumpPass, TypeOK
<1>13. ASSUME NEW d \in Dumpers, DumpPartial(d)
       PROVE  TypeOK'
  <2>1. [dump[d] EXCEPT !.pc = "wait", !.arg0 = TRUE, !.set = NULL] \in DumpType
    BY <1>4 DEF DumpType
  <2>2. dump' \in [Dumpers -> DumpType]
    BY <1>3, <1>13, <2>1 DEF DumpPartial
  <2> QED
    BY <1>6, <1>13, <2>2 DEF DumpPartial, TypeOK
<1>14. ASSUME NEW d \in Dumpers, DumpNext(d)
       PROVE  TypeOK'
  <2> DEFINE i == dump[d].index
  <2> DEFINE next == IF dump[d].type = "ONE" THEN IPSET_INVALID_ID ELSE i + 1
  <2>1. i \in Index /\ next \in Index \cup {NoIndex}
    BY <1>4, <1>14 DEF DumpIndexPinned, DumpNext, Index, NoIndex,
                       IPSET_INVALID_ID
  <2>2. [dump[d] EXCEPT !.pc = "wait", !.arg0 = FALSE, !.set = NULL,
           !.index = next, !.must = @ \ {i}] \in DumpType
    <3>1. dump[d].must \ {i} \in SUBSET Index
      BY <1>4 DEF DumpType
    <3>2. ASSUME NEW n \in Index \cup {NoIndex}, NEW m \in SUBSET Index
          PROVE  [dump[d] EXCEPT !.pc = "wait", !.arg0 = FALSE, !.set = NULL,
                    !.index = n, !.must = m] \in DumpType
      BY <1>4 DEF DumpType
    <3>3. [dump[d] EXCEPT !.pc = "wait", !.arg0 = FALSE, !.set = NULL,
             !.index = next, !.must = dump[d].must \ {i}] \in DumpType
      BY <2>1, <3>1, <3>2
    <3> QED
      BY <3>3
  <2>3. dump' \in [Dumpers -> DumpType]
    BY <1>3, <1>14, <2>2 DEF DumpNext
  <2>4. /\ pin' \in [Pinners -> Sets \cup {NULL}]
        /\ ref_netlink' \in [Sets -> Int]
    BY <1>5, <1>14, <2>1 DEF DumpNext, TypeOK
  <2> QED
    BY <1>6, <1>14, <2>3, <2>4 DEF DumpNext, TypeOK
<1>15. ASSUME NEW d \in Dumpers, DumpFail(d)
       PROVE  TypeOK'
  <2>1. [dump[d] EXCEPT !.pc = "err", !.arg0 = FALSE, !.set = NULL] \in DumpType
    BY <1>4 DEF DumpType
  <2>2. dump' \in [Dumpers -> DumpType]
    BY <1>3, <1>15, <2>1 DEF DumpFail
  <2>3. /\ pin' \in [Pinners -> Sets \cup {NULL}]
        /\ ref_netlink' \in [Sets -> Int]
    BY <1>5, <1>15 DEF DumpIndexPinned, DumpFail, TypeOK
  <2> QED
    BY <1>6, <1>15, <2>2, <2>3 DEF DumpFail, TypeOK
<1>16. ASSUME NEW d \in Dumpers, DumpDone(d)
       PROVE  TypeOK'
  <2>1. NoDump \in DumpType
    BY DEF NoDump, DumpType, Index, NoIndex, IPSET_INVALID_ID
  <2>2. dump' \in [Dumpers -> DumpType]
    BY <1>3, <1>16, <2>1 DEF DumpDone
  <2>3. /\ pin' \in [Pinners -> Sets \cup {NULL}]
        /\ ref_netlink' \in [Sets -> Int]
    BY <1>5, <1>16 DEF DumpIndexPinned, DumpDone, TypeOK
  <2> QED
    BY <1>16, <2>2, <2>3 DEF DumpDone, TypeOK
<1> QED
  BY <1>1, <1>2, <1>7, <1>8, <1>9, <1>10, <1>11, <1>12, <1>13, <1>14, <1>15,
     <1>16 DEF NetlinkStep

\* Packets preserve the types
LEMMA TypePacketPath == TypeOK /\ PacketIds /\ PacketPath => TypeOK'
<1> SUFFICES ASSUME TypeOK, PacketIds, PacketPath PROVE TypeOK'
  OBVIOUS
<1> USE TableAssumption, SetAssumption DEF slotVars, setVars, elemVars,
        mutexVars
<1>0. NoPacket \in PacketType /\ "bug" # "set"
  BY DEF NoPacket, PacketType
<1>1. ASSUME NEW p \in Packets
      PROVE  packet[p] \in PacketType
  BY DEF TypeOK
<1>2. ASSUME NEW p \in Packets, NEW new \in PacketType, PacketStep(p, new)
      PROVE  TypeOK'
  BY <1>2 DEF PacketStep, TypeOK
<1>3. ASSUME NEW p \in Packets, NEW r \in Rules, NEW op \in {"test", "ad"},
             PacketEnter(p, r, op)
      PROVE  TypeOK'
  <2> DEFINE new == [NoPacket EXCEPT !.pc = Fetch(hold[r], "set"), !.op = op,
                       !.rule = r, !.set = ip_set_list[hold[r]]]
  <2>1. ip_set_list[hold[r]] \in Sets \cup {NULL}
    BY <1>3 DEF PacketEnter, TypeOK, Holders
  <2>2. Fetch(hold[r], "set") \in {"set", "bug"}
    BY DEF Fetch
  <2>3. new \in PacketType
    BY <1>0, <2>1, <2>2 DEF PacketType
  <2> QED
    BY <1>2, <1>3, <2>3 DEF PacketEnter
<1>4. ASSUME NEW p \in Packets, PacketLock(p)
      PROVE  TypeOK'
  <2>1. [packet[p] EXCEPT !.locked = TRUE] \in PacketType
    BY <1>1 DEF PacketType
  <2> QED
    BY <1>2, <1>4, <2>1 DEF PacketLock
<1>5. ASSUME NEW p \in Packets, NEW e \in Elems, PacketElem(p, e)
      PROVE  TypeOK'
  <2>1. hold[e] \in Index \cup {NoIndex}
    BY DEF TypeOK, Holders
  <2>2. [packet[p] EXCEPT !.pc = "elem", !.id = hold[e]] \in PacketType
    BY <1>1, <2>1, ZenonT(60) DEF PacketType
  <2> QED
    BY <1>2, <1>5, <2>2 DEF PacketElem
<1>6. ASSUME NEW p \in Packets, PacketMember(p)
      PROVE  TypeOK'
  <2> DEFINE i == packet[p].id
  <2>1. ip_set_list[i] \in Sets \cup {NULL}
    BY <1>6 DEF PacketMember, PacketIds, TypeOK
  <2>2. Fetch(i, "member") \in {"member", "bug"}
    BY DEF Fetch
  <2>3. [packet[p] EXCEPT !.pc = Fetch(i, "member"), !.member = ip_set_list[i]]
           \in PacketType
    BY <1>1, <2>1, <2>2, ZenonT(60) DEF PacketType
  <2> QED
    BY <1>2, <1>6, <2>3 DEF PacketMember
<1>7. ASSUME NEW p \in Packets, PacketNext(p)
      PROVE  TypeOK'
  <2>1. [packet[p] EXCEPT !.pc = "set", !.member = NULL, !.id = NoIndex]
           \in PacketType
    BY <1>1 DEF PacketType
  <2> QED
    BY <1>2, <1>7, <2>1 DEF PacketNext
<1>8. ASSUME NEW p \in Packets, PacketLeave(p)
      PROVE  TypeOK'
  BY <1>0, <1>8 DEF PacketLeave, TypeOK
<1> QED
  BY <1>3, <1>4, <1>5, <1>6, <1>7, <1>8 DEF PacketPath
----------------------------------------------------------------------------
(* What each group of actions leaves alone                                 *)

\* Commands on references touch counters, holders and element bookkeeping
LEMMA FrameRefCommand ==
    RefCommand => UNCHANGED <<slotVars, state, name, kind, grace, ref_netlink,
                              putting, mutexVars, pin, dump, packet>>
<1>1. ASSUME NEW l, NEW gone, ListRemove(l, gone)
      PROVE  UNCHANGED <<slotVars, state, name, kind, grace, ref_netlink,
                         putting, mutexVars, pin, dump, packet>>
  BY <1>1 DEF ListRemove
<1>2. ASSUME NEW r, NEW i, RuleGet(r, i) \/ RulePut(r)
      PROVE  UNCHANGED <<slotVars, state, name, kind, grace, ref_netlink,
                         putting, mutexVars, pin, dump, packet>>
  BY <1>2 DEF RuleGet, RulePut, elemVars
<1>3. ASSUME NEW l, NEW e, NEW i, NEW gone, ListAdd(l, e, i, gone)
      PROVE  UNCHANGED <<slotVars, state, name, kind, grace, ref_netlink,
                         putting, mutexVars, pin, dump, packet>>
  BY <1>3 DEF ListAdd
<1> QED
  BY <1>1, <1>2, <1>3 DEF RefCommand, ListDel, ListFlush

\* Deferred work neither touches the table nor the netlink references
LEMMA FrameDeferred ==
    Deferred => UNCHANGED <<slotVars, grace, ref_netlink, nfnl, barrier, pin,
                            dump, packet>>
BY DEF Deferred, GcDel, DestroyDel, ReadSlot, PutFinish, RcuCallback, Free,
       setVars, elemVars, mutexVars

\* Dumps and interrupted commands change no set
LEMMA FrameNetlinkStep ==
    NetlinkStep => UNCHANGED <<slotVars, setVars, hold, elemVars, victim,
                               barrier, packet>>
<1> USE DEF mutexVars
<1>1. ASSUME NEW d \in Dumpers,
             \/ \E t \in {"ALL", "ONE"}, i \in Index : DumpStart(d, t, i)
             \/ DumpChunk(d) \/ DumpSkip(d) \/ DumpGone(d) \/ DumpPin(d)
             \/ DumpPass(d) \/ DumpPartial(d) \/ DumpNext(d) \/ DumpFail(d)
             \/ DumpDone(d)
      PROVE  UNCHANGED <<slotVars, setVars, hold, elemVars, victim, barrier,
                         packet>>
  BY <1>1 DEF DumpStart, DumpChunk, DumpSkip, DumpGone, DumpPin, DumpPass,
              DumpPartial, DumpNext, DumpFail, DumpDone
<1>2. ASSUME NEW c \in Clients,
             AdResume(c) \/ \E i \in Index : AdRetry(c, i)
      PROVE  UNCHANGED <<slotVars, setVars, hold, elemVars, victim, barrier,
                         packet>>
  BY <1>2 DEF AdRetry, AdResume
<1> QED
  BY <1>1, <1>2 DEF NetlinkStep

\* Packets change nothing but their own state and what waits for them
LEMMA FramePacketPath ==
    PacketPath => UNCHANGED <<slotVars, state, name, kind, ref, ref_netlink,
                              hold, owner, putting, nfnl, victim, pin, dump>>
BY DEF PacketPath, PacketEnter, PacketLock, PacketElem, PacketMember,
       PacketNext, PacketLeave, PacketStep, setVars, elemVars, mutexVars

----------------------------------------------------------------------------
(* The set table                                                           *)

\* The table is exact whatever happens outside the commands on sets and the
\* reclaiming of sets
LEMMA TableFrame ==
    ASSUME TableExact, UNCHANGED <<ip_set_list, ip_set_max, state, name>>
    PROVE  TableExact'
BY DEF TableExact, Used, LiveSets

\* Commands on whole sets keep the table exact
LEMMA TableSetCommand == TypeOK /\ TableExact /\ CommandState /\ SetCommand
                            => TableExact'
<1> SUFFICES ASSUME TypeOK, TableExact, CommandState, SetCommand
             PROVE  TableExact'
  OBVIOUS
<1>0. /\ ip_set_list \in [Index -> Sets \cup {NULL}]
      /\ state \in [Sets -> {"free", "live"} \cup Reclaimable]
      /\ name \in [Sets -> Names \cup {NULL}]
      /\ victim \in Sets \cup {NULL}
      /\ ip_set_max \in Nat /\ Index \subseteq Nat
      /\ NULL \notin Sets
  BY TableAssumption, SetAssumption DEF TypeOK, Index, IPSET_INVALID_ID
<1> USE DEF TableExact, Used, LiveSets
<1>1. ASSUME NEW s \in Sets, NEW n \in Names, NEW k \in Kinds, Create(s, n, k)
      PROVE  TableExact'
  <2>1. PICK i \in Index, max \in 0 .. (IdMod - 1) :
           /\ NewSlot(i, max)
           /\ ip_set_list' = [ip_set_list EXCEPT ![i] = s]
           /\ ip_set_max' = max
    BY <1>1 DEF Create
  <2>2. ip_set_list[i] = NULL /\ i < max /\ ip_set_max <= max
    <3>1. CASE i < ip_set_max /\ ip_set_list[i] = NULL /\ max = ip_set_max
      BY <3>1, <1>0
    <3>2. CASE /\ CanGrow(IdAdd(ip_set_max, IP_SET_INC))
               /\ i = ip_set_max /\ max = IdAdd(ip_set_max, IP_SET_INC)
      <4>1. max # ip_set_max
        BY <3>2, <1>0, TableAssumption DEF IdAdd
      <4>2. max > ip_set_max
        BY <3>2, <4>1, <1>0, TableAssumption DEF CanGrow
      <4> QED
        BY <3>2, <4>2, <1>0
    <3> QED
      BY <2>1, <3>1, <3>2 DEF NewSlot
  <2>3. \A j \in Used : name[ip_set_list[j]] # n /\ ip_set_list[j] # s
    BY <1>1, <1>0 DEF Create, NameFree, ByName
  <2>4. /\ state' = [state EXCEPT ![s] = "live"]
        /\ name' = [name EXCEPT ![s] = n]
    BY <1>1 DEF Create
  <2>5. \A j \in Index : ip_set_list'[j] = IF j = i THEN s ELSE ip_set_list[j]
    BY <2>1, <1>0
  <2> HIDE DEF TableExact
  <2>6. \A j \in Index : ip_set_list'[j] # NULL =>
           j < ip_set_max' /\ state'[ip_set_list'[j]] = "live"
    BY <2>1, <2>2, <2>4, <2>5, <1>0 DEF TableExact
  <2>7. \A j, k2 \in Index :
           /\ ip_set_list'[j] # NULL /\ ip_set_list'[k2] # NULL
           /\ \/ ip_set_list'[j] = ip_set_list'[k2]
              \/ name'[ip_set_list'[j]] = name'[ip_set_list'[k2]]
           => j = k2
    BY <2>3, <2>4, <2>5, <1>0 DEF TableExact
  <2>8. \A t \in Sets : state'[t] = "live" =>
           \E j \in Index : ip_set_list'[j] # NULL /\ ip_set_list'[j] = t
    BY <2>2, <2>4, <2>5, <1>0 DEF TableExact
  <2> QED
    BY <2>6, <2>7, <2>8 DEF TableExact
<1>2. ASSUME NEW i \in Index, Destroy(i)
      PROVE  TableExact'
  <2>1. /\ ip_set_list[i] \in Sets
        /\ ip_set_list' = [ip_set_list EXCEPT ![i] = NULL]
        /\ ip_set_max' = ip_set_max /\ name' = name
        /\ \/ state' = [state EXCEPT ![ip_set_list[i]] = "unlinked"]
           \/ state' = [state EXCEPT ![ip_set_list[i]] = "rcu"]
    BY <1>2, <1>0 DEF Destroy, CallRcu
  <2> QED
    BY <2>1, <1>0
<1>3. CASE DestroyFinish
  <2>1. victim \in Sets /\ state[victim] # "live"
    BY <1>3, <1>0 DEF DestroyFinish, CommandState
  <2>2. state' = [state EXCEPT ![victim] = "rcu"]
    BY <1>3 DEF DestroyFinish, CallRcu
  <2> QED
    BY <1>3, <2>1, <2>2, <1>0 DEF DestroyFinish, slotVars
<1>4. CASE DestroyAll
  BY <1>4, TableFrame DEF DestroyAll, slotVars, setVars
<1>5. CASE DestroyAllCheck
  BY <1>5, TableFrame DEF DestroyAllCheck, setVars
<1>6. CASE DestroyAllStep
  <2>1. PICK i \in Used :
           /\ state' = [state EXCEPT ![ip_set_list[i]] = "destroying"]
           /\ ip_set_list' = [ip_set_list EXCEPT ![i] = NULL]
    BY <1>6 DEF DestroyAllStep
  <2>2. ip_set_list[i] \in Sets /\ ip_set_max' = ip_set_max /\ name' = name
    BY <1>6, <1>0 DEF DestroyAllStep
  <2> QED
    BY <2>1, <2>2, <1>0
<1>7. CASE DestroyAllFinish
  BY <1>7, TableFrame DEF DestroyAllFinish, setVars
<1>8. ASSUME NEW i \in Index, NEW n \in Names, Rename(i, n)
      PROVE  TableExact'
  <2>1. /\ ip_set_list[i] \in Sets
        /\ name' = [name EXCEPT ![ip_set_list[i]] = n]
        /\ \A j \in Used : name[ip_set_list[j]] # n
    BY <1>8, <1>0 DEF Rename, NameFree, ByName
  <2> QED
    BY <1>8, <2>1, <1>0 DEF Rename, slotVars
<1>9. ASSUME NEW i \in Index, NEW j \in Index, Swap(i, j)
      PROVE  TableExact'
  <2> DEFINE from == ip_set_list[i]
             to == ip_set_list[j]
  <2>1. /\ i # j /\ from \in Sets /\ to \in Sets
        /\ name' = [name EXCEPT ![from] = name[to], ![to] = name[from]]
        /\ ip_set_list' = [ip_set_list EXCEPT ![i] = to, ![j] = from]
        /\ ip_set_max' = ip_set_max /\ state' = state
    BY <1>9, <1>0 DEF Swap
  <2>2. from # to
    BY <1>9, <1>0 DEF Swap, TableExact, Used
  <2>3. \A k \in Index : ip_set_list'[k] = IF k = i THEN to
                                           ELSE IF k = j THEN from
                                           ELSE ip_set_list[k]
    BY <2>1, <1>0
  <2>4. \A s \in Sets : name'[s] = IF s = from THEN name[to]
                                   ELSE IF s = to THEN name[from] ELSE name[s]
    BY <2>1, <2>2, <1>0
  <2> HIDE DEF TableExact
  <2>5. \A k \in Index : ip_set_list'[k] # NULL =>
           k < ip_set_max' /\ state'[ip_set_list'[k]] = "live"
    BY <2>1, <2>3, <1>0 DEF TableExact
  <2>6. \A k, m \in Index :
           /\ ip_set_list'[k] # NULL /\ ip_set_list'[m] # NULL
           /\ \/ ip_set_list'[k] = ip_set_list'[m]
              \/ name'[ip_set_list'[k]] = name'[ip_set_list'[m]]
           => k = m
    BY <2>1, <2>2, <2>3, <2>4, <1>0 DEF TableExact
  <2>7. \A t \in Sets : state'[t] = "live" =>
           \E k \in Index : ip_set_list'[k] # NULL /\ ip_set_list'[k] = t
    BY <2>1, <2>3, <1>0 DEF TableExact
  <2> QED
    BY <2>5, <2>6, <2>7 DEF TableExact
<1> QED
  BY <1>1, <1>2, <1>3, <1>4, <1>5, <1>6, <1>7, <1>8, <1>9 DEF SetCommand

\* Reclaiming concerns sets that are out of the table
LEMMA TableDeferred == TypeOK /\ TableExact /\ Deferred => TableExact'
<1> SUFFICES ASSUME TypeOK, TableExact, Deferred PROVE TableExact'
  OBVIOUS
<1>1. CASE UNCHANGED <<ip_set_list, ip_set_max, state, name>>
  BY <1>1, TableFrame
<1>2. ASSUME NEW s \in Sets, RcuCallback(s)
      PROVE  TableExact'
  BY <1>2 DEF RcuCallback, TableExact, Used, LiveSets, TypeOK, slotVars
<1>3. ASSUME NEW s \in Sets, Free(s)
      PROVE  TableExact'
  BY <1>3 DEF Free, TableExact, Used, LiveSets, TypeOK, slotVars
<1> QED
  BY <1>1, <1>2, <1>3 DEF Deferred, GcDel, DestroyDel, ReadSlot, PutFinish,
                          slotVars, setVars

----------------------------------------------------------------------------
(* References by pointer                                                   *)

\* The pinners of a set are finitely many
LEMMA PinningFinite ==
    ASSUME NEW s PROVE IsFiniteSet(Pinning(s)) /\ Cardinality(Pinning(s)) \in Nat
<1>1. IsFiniteSet(Pinning(s))
  BY ActorAssumption, FS_Subset DEF Pinning
<1> QED
  BY <1>1, FS_CardinalityType

\* A set somebody works on has a non-zero ref_netlink
LEMMA PinCounted ==
    ASSUME TypeOK, PinsAccounted, NEW c \in Pinners, pin[c] # NULL
    PROVE  /\ pin[c] \in Sets /\ state[pin[c]] = "live"
           /\ ref_netlink[pin[c]] > 0
<1>1. pin[c] \in Sets /\ state[pin[c]] = "live"
  BY DEF TypeOK, PinsAccounted
<1>2. c \in Pinning(pin[c])
  BY DEF Pinning
<1>3. Cardinality(Pinning(pin[c])) # 0
  BY <1>2, PinningFinite, FS_EmptySet
<1> QED
  BY <1>1, <1>3, PinningFinite DEF PinsAccounted

\* A set nobody works on has a zero ref_netlink
LEMMA UnpinnedZero ==
    ASSUME TypeOK, PinsAccounted, NEW s \in Sets, state[s] # "live"
    PROVE  ref_netlink[s] = 0 /\ Pinning(s) = {}
<1>1. Pinning(s) = {}
  BY SetAssumption DEF Pinning, PinsAccounted
<1> QED
  BY <1>1, FS_EmptySet DEF PinsAccounted

\* __ip_set_get_netlink keeps the counters exact
LEMMA PinGet ==
    ASSUME TypeOK, PinsAccounted, NEW c \in Pinners, NEW s \in Sets,
           pin[c] = NULL, state[s] = "live", GetNetlink(c, s), state' = state
    PROVE  PinsAccounted'
<1>1. /\ pin \in [Pinners -> Sets \cup {NULL}]
      /\ ref_netlink \in [Sets -> Int] /\ NULL \notin Sets
  BY SetAssumption DEF TypeOK
<1>2. /\ pin' = [pin EXCEPT ![c] = s]
      /\ ref_netlink' = [ref_netlink EXCEPT ![s] = @ + 1]
  BY DEF GetNetlink
<1>3. ASSUME NEW t \in Sets PROVE ref_netlink'[t] = Cardinality(Pinning(t)')
  <2>1. CASE t = s
    <3>1. Pinning(t)' = Pinning(t) \cup {c} /\ c \notin Pinning(t)
      BY <1>1, <1>2, <2>1 DEF Pinning
    <3>2. Cardinality(Pinning(t)') = Cardinality(Pinning(t)) + 1
      BY <3>1, PinningFinite, FS_AddElement
    <3> QED
      BY <1>1, <1>2, <2>1, <3>2 DEF PinsAccounted
  <2>2. CASE t # s
    <3>1. Pinning(t)' = Pinning(t)
      BY <1>1, <1>2, <2>2 DEF Pinning
    <3> QED
      BY <1>1, <1>2, <2>2, <3>1 DEF PinsAccounted
  <2> QED
    BY <2>1, <2>2
<1>4. ASSUME NEW b \in Pinners, pin'[b] # NULL PROVE state'[pin'[b]] = "live"
  BY <1>1, <1>2, <1>4 DEF PinsAccounted
<1> QED
  BY <1>3, <1>4 DEF PinsAccounted

\* __ip_set_put_netlink keeps the counters exact
LEMMA PinPut ==
    ASSUME TypeOK, PinsAccounted, NEW c \in Pinners, NEW s \in Sets,
           pin[c] = s, PutNetlink(c, s), state' = state
    PROVE  PinsAccounted'
<1>1. /\ pin \in [Pinners -> Sets \cup {NULL}]
      /\ ref_netlink \in [Sets -> Int] /\ NULL \notin Sets
  BY SetAssumption DEF TypeOK
<1>2. /\ pin' = [pin EXCEPT ![c] = NULL]
      /\ ref_netlink' = [ref_netlink EXCEPT ![s] = @ - 1]
  BY DEF PutNetlink
<1>3. ASSUME NEW t \in Sets PROVE ref_netlink'[t] = Cardinality(Pinning(t)')
  <2>1. CASE t = s
    <3>1. Pinning(t)' = Pinning(t) \ {c} /\ c \in Pinning(t)
      BY <1>1, <1>2, <2>1 DEF Pinning
    <3>2. Cardinality(Pinning(t)') = Cardinality(Pinning(t)) - 1
      BY <3>1, PinningFinite, FS_RemoveElement
    <3> QED
      BY <1>1, <1>2, <2>1, <3>2 DEF PinsAccounted
  <2>2. CASE t # s
    <3>1. Pinning(t)' = Pinning(t)
      BY <1>1, <1>2, <2>2 DEF Pinning
    <3> QED
      BY <1>1, <1>2, <2>2, <3>1 DEF PinsAccounted
  <2> QED
    BY <2>1, <2>2
<1>4. ASSUME NEW b \in Pinners, pin'[b] # NULL PROVE state'[pin'[b]] = "live"
  BY <1>1, <1>2, <1>4 DEF PinsAccounted
<1> QED
  BY <1>3, <1>4 DEF PinsAccounted

\* No command and no deferred work touches a set somebody works on
LEMMA PinnedUntouched ==
    ASSUME Inv, SetCommand \/ Deferred, NEW s \in Sets, ref_netlink[s] > 0
    PROVE  /\ state[s] = "live" /\ state'[s] = "live"
           /\ name'[s] = name[s] /\ kind'[s] = kind[s]
           /\ \A i \in Index : ip_set_list[i] = s <=> ip_set_list'[i] = s
<1> DEFINE Kept == /\ state'[s] = "live"
                   /\ name'[s] = name[s] /\ kind'[s] = kind[s]
                   /\ \A i \in Index :
                         ip_set_list[i] = s <=> ip_set_list'[i] = s
<1>0. /\ ip_set_list \in [Index -> Sets \cup {NULL}]
      /\ state \in [Sets -> {"free", "live"} \cup Reclaimable]
      /\ name \in [Sets -> Names \cup {NULL}]
      /\ kind \in [Sets -> {"plain", "list"}]
      /\ victim \in Sets \cup {NULL}
      /\ NULL \notin Sets
  BY SetAssumption DEF Inv, TypeOK
<1>a. state[s] = "live" /\ ~ Unreferenced(s)
  BY UnpinnedZero DEF Inv, Unreferenced
<1>1. ASSUME NEW t \in Sets, NEW n \in Names, NEW k \in Kinds, Create(t, n, k)
      PROVE  Kept
  <2>1. PICK i \in Index, max \in 0 .. (IdMod - 1) :
           NewSlot(i, max) /\ ip_set_list' = [ip_set_list EXCEPT ![i] = t]
    BY <1>1 DEF Create
  <2>2. ip_set_list[i] # s
    <3>1. ip_set_list[i] = NULL \/ i = ip_set_max
      BY <2>1 DEF NewSlot
    <3>2. ip_set_list[i] # NULL => i < ip_set_max
      BY DEF Inv, TableExact, Used
    <3>3. ip_set_max \in Nat
      BY TableAssumption DEF Inv, TypeOK, Index, IPSET_INVALID_ID
    <3> QED
      BY <3>1, <3>2, <3>3, <1>0
  <2>3. t # s
    BY <1>1, <1>a DEF Create
  <2> QED
    BY <1>1, <1>0, <1>a, <2>1, <2>2, <2>3 DEF Create
<1>2. ASSUME NEW i \in Index, Destroy(i)
      PROVE  Kept
  <2>1. ip_set_list[i] # s
    BY <1>2, <1>a DEF Destroy
  <2> QED
    BY <1>2, <2>1, <1>0, <1>a DEF Destroy, CallRcu
<1>3. CASE DestroyFinish
  <2>1. victim # s
    BY <1>3, <1>a DEF DestroyFinish, Inv, CommandState
  <2> QED
    BY <1>3, <2>1, <1>0, <1>a DEF DestroyFinish, CallRcu, slotVars
<1>4. CASE DestroyAll \/ DestroyAllCheck \/ DestroyAllFinish
  BY <1>4, <1>a DEF DestroyAll, DestroyAllCheck, DestroyAllFinish, slotVars,
                    setVars
<1>5. CASE DestroyAllStep
  <2>1. \A i \in Used : ip_set_list[i] # s
    BY <1>5, <1>a DEF DestroyAllStep, Inv, CommandState, DestroyAllQuiet
  <2> QED
    BY <1>5, <2>1, <1>0, <1>a DEF DestroyAllStep, Used
<1>6. ASSUME NEW i \in Index, NEW n \in Names, Rename(i, n)
      PROVE  Kept
  <2>1. ip_set_list[i] # s
    BY <1>6, <1>a DEF Rename
  <2> QED
    BY <1>6, <2>1, <1>0, <1>a DEF Rename, slotVars
<1>7. ASSUME NEW i \in Index, NEW j \in Index, Swap(i, j)
      PROVE  Kept
  <2>1. ip_set_list[i] # s /\ ip_set_list[j] # s
    BY <1>7 DEF Swap, Swappable
  <2> QED
    BY <1>7, <2>1, <1>0, <1>a DEF Swap
<1>8. ASSUME Deferred PROVE Kept
  <2>1. ASSUME NEW l \in Sets, NEW e \in Elems, GcDel(l, e) \/ DestroyDel(l, e)
        PROVE  Kept
    BY <2>1, <1>a DEF GcDel, DestroyDel, ReadSlot, slotVars, setVars
  <2>2. ASSUME NEW e \in Elems, PutFinish(e)
        PROVE  Kept
    BY <2>2, <1>a DEF PutFinish, slotVars
  <2>3. ASSUME NEW t \in Sets, RcuCallback(t) \/ Free(t)
        PROVE  Kept
    BY <2>3, <1>0, <1>a DEF RcuCallback, Free, slotVars
  <2> HIDE DEF Kept
  <2> QED
    BY <1>8, <2>1, <2>2, <2>3 DEF Deferred
<1> QED
  BY <1>a, <1>1, <1>2, <1>3, <1>4, <1>5, <1>6, <1>7, <1>8 DEF SetCommand

----------------------------------------------------------------------------
(* Dumps                                                                   *)

\* What DumpIndexPinned and DumpInside say of one dump: its record r and the
\* set x it has pinned
DumpGood(r, x) ==
    /\ x # NULL <=> r.pc = "emit" \/ r.arg0
    /\ x # NULL => /\ r.index \in Index /\ ip_set_list[r.index] = x
                   /\ ~ (r.type # "ONE" /\ (r.type = "ALL") = (kind[x] = "list"))
                   /\ r.pc = "scan" => r.index < r.max
    /\ r.pc = "idle" => ~ r.arg0

\* The two invariants on dumps speak of one dump at a time
LEMMA DumpsGood ==
    DumpIndexPinned /\ DumpInside <=> \A d \in Dumpers : DumpGood(dump[d], pin[d])
BY DEF DumpIndexPinned, DumpInside, DumpGood, OtherPass

\* It suffices to look at the dump that makes the step
LEMMA DumpStep ==
    ASSUME TypeOK, DumpIndexPinned, DumpInside, NEW d \in Dumpers, NEW r, NEW x,
           dump' = [dump EXCEPT ![d] = r], pin' = [pin EXCEPT ![d] = x],
           DumpGood(r, x), UNCHANGED <<ip_set_list, kind>>
    PROVE  DumpIndexPinned' /\ DumpInside'
<1>1. ASSUME NEW e \in Dumpers PROVE DumpGood(dump[e], pin[e])'
  <2>1. dump'[e] = IF e = d THEN r ELSE dump[e]
    BY DEF TypeOK
  <2>2. pin'[e] = IF e = d THEN x ELSE pin[e]
    BY DEF TypeOK, Pinners
  <2>3. DumpGood(dump'[e], pin'[e])
    BY <2>1, <2>2, DumpsGood
  <2> QED
    BY <2>3 DEF DumpGood
<1> QED
  BY <1>1 DEF DumpIndexPinned, DumpInside, DumpGood, OtherPass

\* Commands and deferred work keep the netlink references exact
LEMMA PinsSetCommand ==
    Inv /\ (SetCommand \/ Deferred)
       => PinsAccounted' /\ DumpIndexPinned' /\ DumpInside'
<1> SUFFICES ASSUME Inv, SetCommand \/ Deferred
             PROVE  PinsAccounted' /\ DumpIndexPinned' /\ DumpInside'
  OBVIOUS
<1>1. pin' = pin
  BY FrameDeferred DEF SetCommand, Create, Destroy, DestroyFinish, DestroyAll,
        DestroyAllCheck, DestroyAllStep, DestroyAllFinish, Rename, Swap
<1>2. ref_netlink' = ref_netlink
  <2>1. ASSUME NEW s \in Sets, NEW n \in Names, NEW k \in Kinds,
               Create(s, n, k)
        PROVE  ref_netlink' = ref_netlink
    <3>1. ref_netlink[s] = 0 /\ ref_netlink \in [Sets -> Int]
      BY <2>1, UnpinnedZero DEF Create, Inv, TypeOK
    <3> QED
      BY <2>1, <3>1 DEF Create
  <2> QED
    BY <2>1, FrameDeferred DEF SetCommand, Destroy, DestroyFinish, DestroyAll,
        DestroyAllCheck, DestroyAllStep, DestroyAllFinish, Rename, Swap
<1>3. ASSUME NEW c \in Pinners, pin[c] # NULL
      PROVE  /\ pin[c] \in Sets /\ state'[pin[c]] = "live"
             /\ kind'[pin[c]] = kind[pin[c]]
             /\ \A i \in Index : ip_set_list[i] = pin[c]
                                    <=> ip_set_list'[i] = pin[c]
  BY <1>3, PinCounted, PinnedUntouched DEF Inv
<1>4. PinsAccounted'
  BY <1>1, <1>2, <1>3 DEF Inv, PinsAccounted, Pinning
<1>5. ASSUME NEW d \in Dumpers
      PROVE  /\ dump'[d].pc = dump[d].pc /\ dump'[d].arg0 = dump[d].arg0
             /\ dump'[d].index = dump[d].index /\ dump'[d].max = dump[d].max
             /\ dump'[d].type = dump[d].type
  <2>1. dump[d] \in DumpType
    BY DEF Inv, TypeOK
  <2>2. \/ dump'[d] = dump[d]
        \/ \E m : dump'[d] = [dump[d] EXCEPT !.must = m]
    <3>1. ASSUME NEW i \in Index, Destroy(i)
          PROVE  dump'[d] = [dump[d] EXCEPT !.must = dump[d].must \ {i}]
      BY <3>1 DEF Destroy, Forget
    <3>2. ASSUME DestroyAllCheck
          PROVE  \/ dump'[d] = dump[d]
                 \/ dump'[d] = [dump[d] EXCEPT !.must = {}]
      BY <3>2 DEF DestroyAllCheck
    <3> QED
      BY <3>1, <3>2, FrameDeferred DEF SetCommand, Create, DestroyFinish,
         DestroyAll, DestroyAllStep, DestroyAllFinish, Rename, Swap
  <2> QED
    BY <2>1, <2>2 DEF DumpType
<1>6. ASSUME NEW d \in Dumpers PROVE DumpGood(dump[d], pin[d])'
  <2>1. DumpGood(dump[d], pin[d])
    BY DumpsGood DEF Inv
  <2>2. pin[d] # NULL => /\ ip_set_list'[dump[d].index] = pin[d]
                         /\ kind'[pin[d]] = kind[pin[d]]
    BY <1>3, <2>1 DEF DumpGood, Pinners
  <2> QED
    BY <1>1, <1>5, <2>1, <2>2 DEF DumpGood
<1> QED
  BY <1>4, <1>6 DEF DumpIndexPinned, DumpInside, DumpGood, OtherPass

\* Dumps and interrupted commands keep the netlink references exact
LEMMA PinsNetlinkStep ==
    Inv /\ NetlinkStep => PinsAccounted' /\ DumpIndexPinned' /\ DumpInside'
<1> SUFFICES ASSUME Inv, NetlinkStep
             PROVE  PinsAccounted' /\ DumpIndexPinned' /\ DumpInside'
  OBVIOUS
<1> DEFINE Goal == PinsAccounted' /\ DumpIndexPinned' /\ DumpInside'
<1>0. /\ UNCHANGED <<ip_set_list, ip_set_max, state, kind>>
      /\ TypeOK /\ PinsAccounted /\ DumpIndexPinned /\ DumpInside
      /\ NULL \notin Sets
  BY FrameNetlinkStep, SetAssumption DEF Inv, slotVars, setVars
<1>1. ASSUME NEW d \in Dumpers
      PROVE  /\ dump[d] \in DumpType /\ DumpGood(dump[d], pin[d])
             /\ d \in Pinners /\ pin[d] \in Sets \cup {NULL}
             /\ pin = [pin EXCEPT ![d] = pin[d]]
  BY <1>0, DumpsGood DEF TypeOK, Pinners
<1>2. ASSUME NEW c \in Clients, NEW i \in Index, AdRetry(c, i)
      PROVE  Goal
  <2>1. ip_set_list[i] \in Sets /\ state[ip_set_list[i]] = "live"
    BY <1>2 DEF AdRetry, Inv, TypeOK, TableExact, Used
  <2>2. PinsAccounted'
    BY <1>0, <1>2, <2>1, PinGet DEF AdRetry, Pinners
  <2>3. \A d \in Dumpers : pin'[d] = pin[d]
    BY <1>2, ActorAssumption DEF AdRetry, GetNetlink, Inv, TypeOK, Pinners
  <2> QED
    BY <1>0, <1>2, <2>2, <2>3 DEF AdRetry, DumpIndexPinned, DumpInside,
       OtherPass
<1>3. ASSUME NEW c \in Clients, AdResume(c)
      PROVE  Goal
  <2>1. pin[c] \in Sets
    BY <1>3 DEF AdResume, Inv, TypeOK, Pinners
  <2>2. PinsAccounted'
    BY <1>0, <1>3, <2>1, PinPut DEF AdResume, Pinners
  <2>3. \A d \in Dumpers : pin'[d] = pin[d]
    BY <1>3, ActorAssumption DEF AdResume, PutNetlink, Inv, TypeOK, Pinners
  <2> QED
    BY <1>0, <1>3, <2>2, <2>3 DEF AdResume, DumpIndexPinned, DumpInside,
       OtherPass
<1>4. ASSUME NEW d \in Dumpers, NEW r, DumpTo(d, r), DumpGood(r, pin[d]),
             UNCHANGED <<pin, ref_netlink>>
      PROVE  Goal
  <2>1. PinsAccounted'
    BY <1>0, <1>4 DEF PinsAccounted, Pinning
  <2>2. pin' = [pin EXCEPT ![d] = pin[d]]
    BY <1>1, <1>4
  <2> QED
    BY <1>0, <1>4, <2>1, <2>2, DumpStep DEF DumpTo
<1>5. ASSUME NEW d \in Dumpers, NEW r, DumpTo(d, r), r.pc # "emit", ~ r.arg0,
             pin[d] # NULL, PutNetlink(d, ip_set_list[dump[d].index])
      PROVE  Goal
  <2>1. pin[d] \in Sets /\ ip_set_list[dump[d].index] = pin[d]
    BY <1>1, <1>5 DEF DumpGood
  <2>2. PinsAccounted'
    BY <1>0, <1>1, <1>5, <2>1, PinPut
  <2>3. DumpGood(r, NULL)
    BY <1>5 DEF DumpGood
  <2> QED
    BY <1>0, <1>5, <2>2, <2>3, DumpStep DEF DumpTo, PutNetlink
<1>6. ASSUME NEW d \in Dumpers, NEW t \in {"ALL", "ONE"}, NEW i \in Index,
             DumpStart(d, t, i)
      PROVE  Goal
  <2> DEFINE r == [NoDump EXCEPT !.pc = "wait", !.type = t, !.index = i,
                     !.must = IF t = "ONE" THEN {i} ELSE Used]
  <2>1. pin[d] = NULL
    BY <1>1, <1>6 DEF DumpStart, DumpGood
  <2>2. r.pc = "wait" /\ r.arg0 = FALSE
    BY DEF NoDump
  <2>3. DumpGood(r, pin[d])
    BY <2>1, <2>2 DEF DumpGood
  <2> QED
    BY <1>4, <1>6, <2>3 DEF DumpStart
<1>7. ASSUME NEW d \in Dumpers, DumpChunk(d)
      PROVE  Goal
  <2>1. pin[d] # NULL => ~ PastEnd(d)
    <3>1. dump[d].index \in Index => ip_set_max \in Nat /\ dump[d].index \in Nat
      BY <1>0, TableAssumption DEF TypeOK, Index, IPSET_INVALID_ID
    <3> QED
      BY <1>1, <3>1 DEF DumpGood, PastEnd, Inv, TableExact, Used
  <2>2. CASE PastEnd(d)
    <3>1. pin[d] = NULL /\ ~ dump[d].arg0
      BY <1>1, <2>1, <2>2 DEF DumpGood
    <3>2. DumpGood([dump[d] EXCEPT !.pc = "end"], pin[d])
      BY <1>1, <3>1 DEF DumpGood, DumpType
    <3> QED
      BY <1>4, <1>7, <2>2, <3>2 DEF DumpChunk
  <2>3. CASE ~ PastEnd(d)
    <3> DEFINE max == IF dump[d].type = "ONE" THEN dump[d].index + 1
                      ELSE ip_set_max
    <3>1. dump[d].index < max
      <4>1. dump[d].index \in Nat /\ ip_set_max \in Nat
        BY <1>0, <1>1, TableAssumption DEF TypeOK, DumpType, Index, NoIndex,
           IPSET_INVALID_ID
      <4> QED
        BY <2>3, <4>1 DEF PastEnd
    <3>2. DumpGood([dump[d] EXCEPT !.pc = "scan", !.max = max], pin[d])
      <4> HIDE DEF max
      <4> QED
        BY <1>1, <1>7, <3>1 DEF DumpGood, DumpType, DumpChunk
    <3> QED
      BY <1>4, <1>7, <2>3, <3>2 DEF DumpChunk
  <2> QED
    BY <2>2, <2>3
<1>8. ASSUME NEW d \in Dumpers, DumpSkip(d)
      PROVE  Goal
  <2> DEFINE s == ip_set_list[dump[d].index]
  <2>1. pin[d] = NULL
    BY <1>1, <1>8 DEF DumpGood, DumpSkip, Scanning, OtherPass
  <2>2. dump[d].pc = "scan" /\ ~ dump[d].arg0
    BY <1>1, <1>8, <2>1 DEF DumpGood, DumpSkip, Scanning
  <2>3. DumpGood([dump[d] EXCEPT !.index = @ + 1, !.set = s], pin[d])
    BY <1>1, <2>1, <2>2 DEF DumpGood, DumpType
  <2> QED
    BY <1>4, <1>8, <2>3 DEF DumpSkip
<1>9. ASSUME NEW d \in Dumpers, DumpGone(d)
      PROVE  Goal
  <2> DEFINE pc == IF dump[d].type = "ONE" THEN "err" ELSE "end"
  <2>1. DumpGood([dump[d] EXCEPT !.pc = pc], pin[d])
    <3>1. pc \notin {"emit", "idle", "scan"} /\ dump[d].pc = "scan"
      BY <1>9 DEF DumpGone, Scanning
    <3> HIDE DEF pc
    <3> QED
      BY <1>1, <3>1 DEF DumpGood, DumpType
  <2> QED
    BY <1>4, <1>9, <2>1 DEF DumpGone
<1>10. ASSUME NEW d \in Dumpers, DumpPin(d)
       PROVE  Goal
  <2> DEFINE s == ip_set_list[dump[d].index]
             r == [dump[d] EXCEPT !.pc = "emit", !.set = s]
  <2>1. dump[d].index \in Index
    BY <1>1, <1>10, TableAssumption
       DEF DumpPin, Scanning, DumpType, Index, NoIndex, IPSET_INVALID_ID
  <2>2. s \in Sets /\ state[s] = "live"
    BY <1>0, <1>10, <2>1 DEF DumpPin, Listable, Inv, TypeOK, TableExact, Used
  <2>3. CASE dump[d].arg0
    <3>1. pin[d] = s
      BY <1>1, <2>3 DEF DumpGood
    <3>2. DumpGood(r, pin[d])
      BY <1>1, <2>3, <3>1 DEF DumpGood, DumpType
    <3> QED
      BY <1>4, <1>10, <2>3, <3>2 DEF DumpPin
  <2>4. CASE ~ dump[d].arg0
    <3>1. pin[d] = NULL /\ GetNetlink(d, s)
      BY <1>1, <1>10, <2>4 DEF DumpGood, DumpPin, Scanning
    <3>2. PinsAccounted'
      BY <1>0, <1>1, <2>2, <3>1, PinGet
    <3>3. DumpGood(r, s)
      BY <1>0, <1>1, <1>10, <2>1, <2>2 DEF DumpGood, DumpType, DumpPin,
         Listable, OtherPass
    <3> QED
      BY <1>0, <1>10, <3>1, <3>2, <3>3, DumpStep
         DEF DumpPin, DumpTo, GetNetlink
  <2> QED
    BY <2>3, <2>4
<1>11. ASSUME NEW d \in Dumpers, DumpPass(d)
       PROVE  Goal
  <2>1. dump[d].pc = "scan" /\ pin[d] = NULL
    <3>1. dump[d].index \in Nat
      BY <1>1, TableAssumption DEF DumpType, Index, NoIndex, IPSET_INVALID_ID
    <3> QED
      BY <1>1, <1>11, <3>1 DEF DumpPass, DumpGood
  <2>2. /\ DumpGood([dump[d] EXCEPT !.type = "LAST", !.index = 0, !.set = NULL],
                    pin[d])
        /\ DumpGood([dump[d] EXCEPT !.pc = "end"], pin[d])
    BY <1>1, <2>1 DEF DumpGood, DumpType
  <2> QED
    BY <1>4, <1>11, <2>2 DEF DumpPass
<1>12. ASSUME NEW d \in Dumpers, DumpPartial(d)
       PROVE  Goal
  <2>1. DumpGood([dump[d] EXCEPT !.pc = "wait", !.arg0 = TRUE, !.set = NULL],
                 pin[d])
    BY <1>1, <1>12 DEF DumpPartial, DumpGood, DumpType
  <2> QED
    BY <1>4, <1>12, <2>1 DEF DumpPartial
<1>13. ASSUME NEW d \in Dumpers, DumpNext(d)
       PROVE  Goal
  <2> DEFINE i == dump[d].index
             next == IF dump[d].type = "ONE" THEN IPSET_INVALID_ID ELSE i + 1
             r == [dump[d] EXCEPT !.pc = "wait", !.arg0 = FALSE, !.set = NULL,
                     !.index = next, !.must = @ \ {i}]
  <2>1. r.pc = "wait" /\ r.arg0 = FALSE
    <3> HIDE DEF next
    <3> QED
      BY <1>1 DEF DumpType
  <2>2. pin[d] # NULL
    BY <1>1, <1>13 DEF DumpNext, DumpGood
  <2>3. DumpTo(d, r) /\ PutNetlink(d, ip_set_list[dump[d].index])
    BY <1>13 DEF DumpNext
  <2> HIDE DEF r
  <2> QED
    BY <1>5, <2>1, <2>2, <2>3
<1>14. ASSUME NEW d \in Dumpers, DumpFail(d)
       PROVE  Goal
  <2> DEFINE r == [dump[d] EXCEPT !.pc = "err", !.arg0 = FALSE, !.set = NULL]
  <2>1. r.pc = "err" /\ r.arg0 = FALSE
    BY <1>1 DEF DumpType
  <2>2. pin[d] # NULL
    BY <1>1, <1>14 DEF DumpFail, DumpGood
  <2>3. DumpTo(d, r) /\ PutNetlink(d, ip_set_list[dump[d].index])
    BY <1>14 DEF DumpFail
  <2> HIDE DEF r
  <2> QED
    BY <1>5, <2>1, <2>2, <2>3
<1>15. ASSUME NEW d \in Dumpers, DumpDone(d)
       PROVE  Goal
  <2>1. NoDump.pc = "idle" /\ NoDump.arg0 = FALSE
    BY DEF NoDump
  <2>2. CASE dump[d].arg0
    <3>1. pin[d] # NULL
      BY <1>1, <2>2 DEF DumpGood
    <3>2. DumpTo(d, NoDump) /\ PutNetlink(d, ip_set_list[dump[d].index])
      BY <1>15, <2>2 DEF DumpDone
    <3> QED
      BY <1>5, <2>1, <3>1, <3>2
  <2>3. CASE ~ dump[d].arg0
    <3>1. pin[d] = NULL
      BY <1>1, <1>15, <2>3 DEF DumpGood, DumpDone
    <3>2. DumpGood(NoDump, pin[d])
      BY <2>1, <3>1 DEF DumpGood
    <3> QED
      BY <1>4, <1>15, <2>3, <3>2 DEF DumpDone
  <2> QED
    BY <2>2, <2>3
<1> HIDE DEF Goal
<1>16. Goal
  BY <1>2, <1>3, <1>6, <1>7, <1>8, <1>9, <1>10, <1>11, <1>12, <1>13, <1>14,
     <1>15 DEF NetlinkStep
<1> QED
  BY <1>16 DEF Goal

----------------------------------------------------------------------------
(* Elements, packets and commands in progress                              *)

\* Elements and packets keep their bookkeeping
LEMMA OwnedStep == Inv /\ Next => ElemsOwned' /\ PacketIds'
<1> SUFFICES ASSUME Inv, Next PROVE ElemsOwned' /\ PacketIds'
  OBVIOUS
<1>0. /\ hold \in [Holders -> Index \cup {NoIndex}]
      /\ owner \in [Elems -> Sets \cup {NULL}]
      /\ putting \in [Elems -> Sets \cup {NULL}]
      /\ packet \in [Packets -> PacketType]
      /\ NULL \notin Sets /\ NoIndex \notin Index /\ Elems \subseteq Holders
      /\ ip_set_list \in [Index -> Sets \cup {NULL}]
  BY SetAssumption, TableAssumption DEF Inv, TypeOK, Index, NoIndex,
     IPSET_INVALID_ID, Holders
<1>1. ASSUME UNCHANGED <<hold, owner, putting>> PROVE ElemsOwned'
  BY <1>1 DEF Inv, ElemsOwned
<1>2. ASSUME UNCHANGED packet PROVE PacketIds'
  BY <1>2 DEF Inv, PacketIds
<1>3. CASE SetCommand
  <2>1. UNCHANGED <<hold, owner, putting, packet>>
    BY <1>3 DEF SetCommand, Create, Destroy, DestroyFinish, DestroyAll,
       DestroyAllCheck, DestroyAllStep, DestroyAllFinish, Rename, Swap,
       elemVars
  <2> QED
    BY <1>1, <1>2, <2>1
<1>4. CASE RefCommand
  <2>1. PacketIds'
    BY <1>2, <1>4, FrameRefCommand
  <2>2. ASSUME NEW l \in Sets, NEW gone \in SUBSET Elems,
               \A e \in gone : putting[e] = NULL, ListRemove(l, gone)
        PROVE  ElemsOwned'
    BY <1>0, <2>2 DEF ListRemove, Inv, ElemsOwned
  <2>3. ASSUME NEW r \in Rules,
               RulePut(r) \/ \E i \in Index : RuleGet(r, i)
        PROVE  ElemsOwned'
    BY <1>0, <2>3, ActorAssumption DEF RuleGet, RulePut, Inv, ElemsOwned,
       elemVars
  <2>4. ASSUME NEW l \in Sets, NEW e \in Elems, NEW i \in Index,
               NEW gone \in SUBSET Elems, ListAdd(l, e, i, gone)
        PROVE  ElemsOwned'
    <3>1. \A m \in gone : putting[m] = NULL
      BY <2>4 DEF ListAdd, Expired, Members
    <3> QED
      BY <1>0, <2>4, <3>1 DEF ListAdd, Inv, ElemsOwned
  <2>5. ASSUME NEW l \in Sets, NEW e \in Elems, NEW gone \in SUBSET Elems,
               ListDel(l, e, gone)
        PROVE  ElemsOwned'
    <3>1. \A m \in gone \cup {e} : putting[m] = NULL
      BY <2>5 DEF ListDel, Expired, Members
    <3> QED
      BY <2>2, <2>5, <3>1 DEF ListDel
  <2>6. ASSUME NEW l \in Sets, ListFlush(l)
        PROVE  ElemsOwned'
    <3>1. Members(l) \in SUBSET Elems /\ \A m \in Members(l) : putting[m] = NULL
      BY DEF Members
    <3> QED
      BY <2>2, <2>6, <3>1 DEF ListFlush
  <2>7. ElemsOwned'
    BY <1>4, <2>3, <2>4, <2>5, <2>6 DEF RefCommand
  <2> QED
    BY <2>1, <2>7
<1>5. CASE Deferred
  <2>1. PacketIds'
    BY <1>2, <1>5, FrameDeferred
  <2>2. ASSUME NEW l \in Sets, NEW e \in Elems, GcDel(l, e) \/ DestroyDel(l, e)
        PROVE  ElemsOwned'
    BY <1>0, <2>2 DEF GcDel, DestroyDel, ReadSlot, Members, Inv, ElemsOwned
  <2>3. ASSUME NEW e \in Elems, PutFinish(e)
        PROVE  ElemsOwned'
    BY <1>0, <2>3 DEF PutFinish, Inv, ElemsOwned
  <2>4. ASSUME NEW s \in Sets, RcuCallback(s) \/ Free(s)
        PROVE  ElemsOwned'
    BY <1>1, <2>4 DEF RcuCallback, Free, elemVars
  <2>5. ElemsOwned'
    BY <1>5, <2>2, <2>3, <2>4 DEF Deferred
  <2> QED
    BY <2>1, <2>5
<1>6. CASE NetlinkStep
  BY <1>1, <1>2, <1>6, FrameNetlinkStep DEF elemVars
<1>7. CASE PacketPath
  <2>1. ElemsOwned'
    BY <1>1, <1>7, FramePacketPath
  <2>2. ASSUME NEW p \in Packets, NEW r, packet' = [packet EXCEPT ![p] = r],
               r.pc \in {"set", "elem", "member"} => r.set # NULL,
               r.pc = "elem" => r.id \in Index
        PROVE  PacketIds'
    BY <1>0, <2>2 DEF Inv, PacketIds
  <2>3. ASSUME NEW p \in Packets
        PROVE  packet[p] \in PacketType
    BY <1>0
  <2>4. ASSUME NEW p \in Packets, NEW r \in Rules, NEW op \in {"test", "ad"},
               PacketEnter(p, r, op)
        PROVE  PacketIds'
    <3> DEFINE new == [NoPacket EXCEPT !.pc = Fetch(hold[r], "set"), !.op = op,
                         !.rule = r, !.set = ip_set_list[hold[r]]]
    <3>1. /\ new.pc = Fetch(hold[r], "set")
          /\ new.set = ip_set_list[hold[r]]
      BY DEF NoPacket
    <3>2. /\ new.pc \in {"set", "elem", "member"} => new.set # NULL
          /\ new.pc # "elem"
      BY <3>1 DEF Fetch
    <3>3. packet' = [packet EXCEPT ![p] = new]
      BY <2>4 DEF PacketEnter, PacketStep
    <3> HIDE DEF new
    <3> QED
      BY <2>2, <3>2, <3>3
  <2>5. ASSUME NEW p \in Packets, PacketLock(p)
        PROVE  PacketIds'
    BY <2>2, <2>3, <2>5 DEF PacketLock, PacketStep, PacketType, Inv, PacketIds
  <2>6. ASSUME NEW p \in Packets, NEW e \in Elems, PacketElem(p, e)
        PROVE  PacketIds'
    <3>1. packet[p].set # NULL /\ hold[e] \in Index
      BY <1>0, <2>6 DEF PacketElem, Inv, PacketIds, ElemsOwned, Members
    <3>2. packet' = [packet EXCEPT ![p] =
                       [packet[p] EXCEPT !.pc = "elem", !.id = hold[e]]]
      BY <2>6 DEF PacketElem, PacketStep
    <3> QED
      BY <2>2, <2>3, <3>1, <3>2 DEF PacketType
  <2>7. ASSUME NEW p \in Packets, PacketMember(p)
        PROVE  PacketIds'
    <3> DEFINE i == packet[p].id
               new == [packet[p] EXCEPT !.pc = Fetch(i, "member"),
                         !.member = ip_set_list[i]]
    <3>1. new.pc = Fetch(i, "member") /\ new.set = packet[p].set
      BY <2>3 DEF PacketType
    <3>2. new.pc # "elem" /\ new.set # NULL
      BY <2>7, <3>1 DEF Fetch, PacketMember, Inv, PacketIds
    <3>3. packet' = [packet EXCEPT ![p] = new]
      BY <2>7 DEF PacketMember, PacketStep
    <3> HIDE DEF new
    <3> QED
      BY <2>2, <3>2, <3>3
  <2>8. ASSUME NEW p \in Packets, PacketNext(p)
        PROVE  PacketIds'
    BY <2>2, <2>3, <2>8 DEF PacketNext, PacketStep, PacketType, Inv, PacketIds
  <2>9. ASSUME NEW p \in Packets, PacketLeave(p)
        PROVE  PacketIds'
    BY <2>2, <2>9 DEF PacketLeave, NoPacket
  <2>10. PacketIds'
    BY <1>7, <2>4, <2>5, <2>6, <2>7, <2>8, <2>9 DEF PacketPath
  <2> QED
    BY <2>1, <2>10
<1> QED
  BY <1>3, <1>4, <1>5, <1>6, <1>7 DEF Next

\* What a command that waits under the nfnl mutex relies on stays true
LEMMA CommandStep == Inv /\ Next => CommandState'
<1> SUFFICES ASSUME Inv, Next PROVE CommandState'
  OBVIOUS
<1>0. /\ state \in [Sets -> {"free", "live"} \cup Reclaimable]
      /\ ip_set_list \in [Index -> Sets \cup {NULL}]
      /\ victim \in Sets \cup {NULL} /\ NULL \notin Sets
      /\ CommandState
  BY SetAssumption DEF Inv, TypeOK
<1>1. CASE SetCommand
  <2>1. \A i \in Used : state[ip_set_list[i]] = "live"
    BY DEF Inv, TableExact
  <2>2. ASSUME NEW s \in Sets, NEW n \in Names, NEW k \in Kinds, Create(s, n, k)
        PROVE  CommandState'
    BY <1>0, <2>2 DEF Create, mutexVars, CommandState
  <2>3. ASSUME NEW i \in Index, Destroy(i)
        PROVE  CommandState'
    BY <1>0, <2>3 DEF Destroy, mutexVars, CommandState
  <2>4. CASE DestroyFinish \/ DestroyAll \/ DestroyAllCheck \/ DestroyAllFinish
    BY <1>0, <2>4 DEF DestroyFinish, DestroyAll, DestroyAllCheck,
       DestroyAllFinish, CommandState, slotVars, setVars
  <2>5. CASE DestroyAllStep
    BY <1>0, <2>5 DEF DestroyAllStep, CommandState
  <2>6. ASSUME NEW i \in Index, NEW j, Rename(i, j) \/ Swap(i, j)
        PROVE  CommandState'
    BY <1>0, <2>6 DEF Rename, Swap, mutexVars, CommandState, slotVars
  <2> QED
    BY <1>1, <2>2, <2>3, <2>4, <2>5, <2>6 DEF SetCommand
<1>2. CASE RefCommand
  BY <1>0, <1>2, FrameRefCommand DEF slotVars, mutexVars, CommandState
<1>3. CASE Deferred
  <2>1. ASSUME NEW l \in Sets, NEW e \in Elems,
               GcDel(l, e) \/ DestroyDel(l, e) \/ PutFinish(e)
        PROVE  CommandState'
    BY <1>0, <2>1 DEF GcDel, DestroyDel, PutFinish, ReadSlot, slotVars,
       setVars, mutexVars, CommandState
  <2>2. ASSUME NEW s \in Sets, RcuCallback(s) \/ Free(s)
        PROVE  CommandState'
    BY <1>0, <2>2 DEF RcuCallback, Free, slotVars, mutexVars, CommandState
  <2>3. ASSUME NEW e \in Elems, PutFinish(e)
        PROVE  CommandState'
    BY <1>0, <2>3 DEF PutFinish, slotVars, mutexVars, CommandState
  <2> QED
    BY <1>3, <2>1, <2>2, <2>3 DEF Deferred
<1>4. CASE NetlinkStep
  <2>1. UNCHANGED <<is_destroyed, victim, state>>
    BY <1>4, FrameNetlinkStep DEF slotVars, setVars
  <2>2. \/ nfnl' = nfnl
        \/ nfnl = "free" /\ nfnl' \in Dumpers
        \/ nfnl \in Dumpers /\ nfnl' = "free"
    <3>1. ASSUME NEW d \in Dumpers, ReleaseNfnl(d) PROVE <2>2!:
      BY <3>1 DEF ReleaseNfnl
    <3> QED
      BY <1>4, <3>1 DEF NetlinkStep, AdRetry, AdResume, DumpStart, DumpChunk,
         DumpSkip, DumpGone, DumpPin, DumpPass, DumpPartial, DumpNext,
         DumpFail, DumpDone, mutexVars
  <2> QED
    BY <1>0, <2>1, <2>2, ActorAssumption DEF CommandState
<1>5. CASE PacketPath
  BY <1>0, <1>5, FramePacketPath DEF slotVars, CommandState
<1> QED
  BY <1>1, <1>2, <1>3, <1>4, <1>5 DEF Next

\* While "destroy all" empties the table nothing gets referenced
LEMMA QuietStep == Inv /\ Next => DestroyAllQuiet'
<1> SUFFICES ASSUME Inv, Next, is_destroyed', NEW i \in Index,
                    ip_set_list'[i] # NULL
             PROVE  Unreferenced(ip_set_list[i])'
  BY DEF DestroyAllQuiet, Used
<1>0. /\ ip_set_list \in [Index -> Sets \cup {NULL}]
      /\ ref \in [Sets -> Int] /\ ref_netlink \in [Sets -> Int]
      /\ NULL \notin Sets
  BY SetAssumption DEF Inv, TypeOK
<1>1. CASE ~ is_destroyed
  <2>1. DestroyAllCheck
    <3>1. ASSUME UNCHANGED is_destroyed PROVE FALSE
      BY <1>1, <3>1
    <3>2. CASE SetCommand
      BY <1>1, <3>2 DEF SetCommand, Create, Destroy, DestroyFinish, DestroyAll,
         DestroyAllStep, DestroyAllFinish, Rename, Swap, slotVars
    <3> QED
      BY <3>1, <3>2, FrameRefCommand, FrameDeferred, FrameNetlinkStep,
         FramePacketPath DEF Next, slotVars
  <2> QED
    BY <1>1, <2>1 DEF DestroyAllCheck, Used, Unreferenced, setVars
<1>2. CASE is_destroyed
  <2>1. nfnl = "destroy_all"
    BY <1>2 DEF Inv, CommandState
  <2>2. \A j \in Index : ip_set_list[j] # NULL => Unreferenced(ip_set_list[j])
    BY <1>2 DEF Inv, DestroyAllQuiet, Used
  <2>3. ASSUME UNCHANGED <<ip_set_list, ref, ref_netlink>>
        PROVE  Unreferenced(ip_set_list[i])'
    BY <2>2, <2>3 DEF Unreferenced
  <2>4. \A c \in Pinners : pin[c] = NULL
    <3>1. ASSUME NEW c \in Pinners, pin[c] # NULL PROVE FALSE
      <4>1. /\ pin[c] \in Sets /\ state[pin[c]] = "live"
            /\ ref_netlink[pin[c]] > 0
        BY <3>1, PinCounted DEF Inv
      <4>2. PICK j \in Index : ip_set_list[j] # NULL /\ ip_set_list[j] = pin[c]
        BY <4>1 DEF Inv, TableExact, LiveSets, Used
      <4> QED
        BY <4>1, <4>2, <2>2 DEF Unreferenced
    <3> QED
      BY <3>1
  <2>5. CASE SetCommand
    <3>1. DestroyAllStep \/ DestroyAllFinish
      BY <2>1, <2>5 DEF SetCommand, Create, Destroy, DestroyFinish, DestroyAll,
         DestroyAllCheck, Rename, Swap
    <3> QED
      BY <1>0, <2>2, <2>3, <3>1 DEF DestroyAllStep, DestroyAllFinish, setVars,
         Unreferenced, Used
  <2>6. CASE RefCommand
    BY <2>1, <2>6 DEF RefCommand, RuleGet, RulePut, ListAdd, ListDel, ListFlush,
       ListRemove, ListReady
  <2>7. CASE Deferred
    <3>1. ip_set_list' = ip_set_list /\ ref_netlink' = ref_netlink
      BY <2>7, FrameDeferred DEF slotVars
    <3>2. ASSUME NEW e \in Elems, PutFinish(e)
          PROVE  Unreferenced(ip_set_list[i])'
      <4>1. putting[e] # ip_set_list[i]
        BY <2>2, <3>1, <3>2 DEF PutFinish, Unreferenced
      <4> QED
        BY <1>0, <2>2, <3>1, <3>2, <4>1 DEF PutFinish, Unreferenced
    <3>3. ASSUME NEW s \in Sets, Free(s)
          PROVE  Unreferenced(ip_set_list[i])'
      BY <1>0, <2>2, <3>1, <3>3 DEF Free, Unreferenced
    <3>4. ASSUME ref' = ref
          PROVE  Unreferenced(ip_set_list[i])'
      BY <2>3, <3>1, <3>4
    <3> QED
      BY <2>7, <3>2, <3>3, <3>4 DEF Deferred, GcDel, DestroyDel, ReadSlot,
         RcuCallback, setVars
  <2>8. CASE NetlinkStep
    <3>1. UNCHANGED <<ip_set_list, ref>>
      BY <2>8, FrameNetlinkStep DEF slotVars, setVars
    <3>2. ASSUME NEW d \in Dumpers
          PROVE  ~ dump[d].arg0 /\ dump[d].pc # "emit"
      BY <2>4 DEF Inv, DumpIndexPinned, Pinners
    <3>3. ref_netlink' = ref_netlink
      BY <1>2, <2>1, <2>8, <3>2 DEF NetlinkStep, AdRetry, AdResume, DumpStart,
         DumpChunk, DumpSkip, DumpGone, DumpPin, Listable, DumpPass,
         DumpPartial, DumpNext, DumpFail, DumpDone
    <3> QED
      BY <2>3, <3>1, <3>3
  <2>9. CASE PacketPath
    BY <2>3, <2>9, FramePacketPath DEF slotVars
  <2> QED
    BY <2>5, <2>6, <2>7, <2>8, <2>9 DEF Next
<1> QED
  BY <1>1, <1>2

----------------------------------------------------------------------------
(* The theorems                                                            *)

\* The initial state satisfies the invariant
LEMMA InvInit == Init => Inv
<1> SUFFICES ASSUME Init PROVE Inv
  OBVIOUS
<1> USE TableAssumption, SetAssumption DEF Init
<1>1. TypeOK
  <2>1. NoDump \in DumpType
    BY DEF NoDump, DumpType, Index, NoIndex, IPSET_INVALID_ID
  <2>2. NoPacket \in PacketType
    BY DEF NoPacket, PacketType
  <2>3. ip_set_max \in Index
    BY DEF Index, IPSET_INVALID_ID
  <2>4. /\ dump \in [Dumpers -> DumpType]
        /\ packet \in [Packets -> PacketType]
    BY <2>1, <2>2
  <2>5. barrier \in [sets : SUBSET Sets, readers : SUBSET Packets]
    OBVIOUS
  <2>6. /\ ip_set_list \in [Index -> Sets \cup {NULL}]
        /\ is_destroyed \in BOOLEAN
        /\ state \in [Sets -> {"free", "live"} \cup Reclaimable]
        /\ name \in [Sets -> Names \cup {NULL}]
        /\ kind \in [Sets -> {"plain", "list"}]
        /\ victim \in Sets \cup {NULL}
    OBVIOUS
  <2>7. /\ ref \in [Sets -> Int] /\ ref_netlink \in [Sets -> Int]
        /\ grace \in [Sets -> SUBSET Packets]
        /\ hold \in [Holders -> Index \cup {NoIndex}]
        /\ owner \in [Elems -> Sets \cup {NULL}]
        /\ putting \in [Elems -> Sets \cup {NULL}]
        /\ pin \in [Pinners -> Sets \cup {NULL}]
    OBVIOUS
  <2> QED
    BY <2>3, <2>4, <2>5, <2>6, <2>7 DEF TypeOK
<1>2. ElemsOwned
  BY DEF ElemsOwned, Holders
<1>3. PacketIds
  BY DEF PacketIds, NoPacket
<1>4. TableExact /\ CommandState /\ DestroyAllQuiet
  BY DEF TableExact, CommandState, DestroyAllQuiet, Used, LiveSets
<1>5. PinsAccounted
  <2>1. \A s \in Sets : Pinning(s) = {}
    BY DEF Pinning
  <2> QED
    BY <2>1, FS_EmptySet DEF PinsAccounted
<1>6. DumpIndexPinned /\ DumpInside
  BY DEF DumpIndexPinned, DumpInside, NoDump, Pinners
<1> QED
  BY <1>1, <1>2, <1>3, <1>4, <1>5, <1>6 DEF Inv

\* Every step preserves the invariant
LEMMA InvStep == Inv /\ [Next]_vars => Inv'
<1> SUFFICES ASSUME Inv, [Next]_vars PROVE Inv'
  OBVIOUS
<1>1. CASE Next
  <2>1. ElemsOwned' /\ PacketIds' /\ CommandState' /\ DestroyAllQuiet'
    BY <1>1, OwnedStep, CommandStep, QuietStep
  <2>2. TypeOK'
    BY <1>1, TypeSetCommand, TypeRefCommand, TypeDeferred, TypeNetlinkStep,
       TypePacketPath DEF Inv, Next
  <2>3. TableExact'
    <3>1. CASE SetCommand \/ Deferred
      BY <3>1, TableSetCommand, TableDeferred DEF Inv
    <3>2. CASE RefCommand \/ NetlinkStep \/ PacketPath
      BY <3>2, FrameRefCommand, FrameNetlinkStep, FramePacketPath, TableFrame
         DEF Inv, slotVars, setVars
    <3> QED
      BY <1>1, <3>1, <3>2 DEF Next
  <2>4. PinsAccounted' /\ DumpIndexPinned' /\ DumpInside'
    <3>1. CASE SetCommand \/ Deferred
      BY <3>1, PinsSetCommand
    <3>2. CASE NetlinkStep
      BY <3>2, PinsNetlinkStep
    <3>3. CASE RefCommand \/ PacketPath
      <4>1. UNCHANGED <<pin, ref_netlink, state, dump, ip_set_list, kind>>
        BY <3>3, FrameRefCommand, FramePacketPath DEF slotVars
      <4> QED
        BY <4>1 DEF Inv, PinsAccounted, Pinning, DumpIndexPinned, DumpInside,
           OtherPass
    <3> QED
      BY <1>1, <3>1, <3>2, <3>3 DEF Next
  <2> QED
    BY <2>1, <2>2, <2>3, <2>4 DEF Inv
<1>2. CASE UNCHANGED vars
  <2>1. TypeOK' /\ ElemsOwned' /\ PacketIds'
    BY <1>2 DEF vars, slotVars, setVars, elemVars, mutexVars, Inv, TypeOK,
       ElemsOwned, PacketIds
  <2>2. TableExact' /\ CommandState' /\ DestroyAllQuiet'
    BY <1>2 DEF vars, slotVars, setVars, elemVars, mutexVars, Inv, TableExact,
       Used, LiveSets, CommandState, DestroyAllQuiet, Unreferenced
  <2>3. PinsAccounted' /\ DumpIndexPinned' /\ DumpInside'
    BY <1>2 DEF vars, slotVars, setVars, elemVars, mutexVars, Inv,
       PinsAccounted, Pinning, DumpIndexPinned, DumpInside, OtherPass
  <2> QED
    BY <2>1, <2>2, <2>3 DEF Inv
<1> QED
  BY <1>1, <1>2

\* The inductive invariant holds in every reachable state
LEMMA Invariance == Spec => []Inv
BY InvInit, InvStep, PTL DEF Spec

\* Type correctness of the set table and everything that refers to sets
\* (ip_set_core.c): in particular the table never grows to IPSET_INVALID_ID
THEOREM TypeCorrect == Spec => []TypeOK
<1>1. Inv => TypeOK
  BY DEF Inv
<1> QED
  BY Invariance, <1>1, PTL

\* The set table is exact for any number of sets and any growth: names and
\* indices identify live sets (ip_set_create, destroy, rename, swap)
THEOREM TableCorrect == Spec => []TableExact
<1>1. Inv => TableExact
  BY DEF Inv
<1> QED
  BY Invariance, <1>1, PTL

\* ref_netlink counts the dumps and interrupted commands, whatever runs
\* between their steps (__ip_set_get_netlink, __ip_set_put_netlink)
THEOREM PinsCorrect == Spec => []PinsAccounted
<1>1. Inv => PinsAccounted
  BY DEF Inv
<1> QED
  BY Invariance, <1>1, PTL

\* A dump releases the set it has pinned, although it reads the slot again
\* (ip_set_dump_do, ip_set_dump_done)
THEOREM DumpReleasesItsSet == Spec => []DumpIndexPinned
<1>1. Inv => DumpIndexPinned
  BY DEF Inv
<1> QED
  BY Invariance, <1>1, PTL

\* While "destroy all" runs no set of the table is referenced, neither by
\* a dump nor by a rule (ip_set_destroy, inst->is_destroyed)
THEOREM DestroyAllCorrect == Spec => []DestroyAllQuiet
<1>1. Inv => DestroyAllQuiet
  BY DEF Inv
<1> QED
  BY Invariance, <1>1, PTL

\* No destroy, rename or swap touches a set that a dump or an interrupted
\* command works on (ip_set_destroy, ip_set_rename, ip_set_swap)
THEOREM PinnedStaysPut == Spec => PinnedSetKept
<1> DEFINE Kept == \A s \in Sets : ref_netlink[s] > 0 =>
                      /\ name'[s] = name[s]
                      /\ \A i \in Index : ip_set_list[i] = s
                                             <=> ip_set_list'[i] = s
<1>1. Inv /\ [Next]_vars => [Kept]_vars
  <2> SUFFICES ASSUME Inv, Next PROVE Kept
    OBVIOUS
  <2>1. CASE SetCommand \/ Deferred
    BY <2>1, PinnedUntouched
  <2>2. CASE RefCommand \/ NetlinkStep \/ PacketPath
    <3>1. UNCHANGED <<name, ip_set_list>>
      BY <2>2, FrameRefCommand, FrameNetlinkStep, FramePacketPath
         DEF slotVars, setVars
    <3> QED
      BY <3>1
  <2> QED
    BY <2>1, <2>2 DEF Next
<1> QED
  BY Invariance, <1>1, PTL DEF Spec, PinnedSetKept

----------------------------------------------------------------------------
(* References by index, when no swap hits the middle of an asynchronous    *)
(* put                                                                     *)

\* The holders of an index are finitely many
LEMMA HoldingFinite ==
    ASSUME NEW i PROVE IsFiniteSet(Holding(i)) /\ Cardinality(Holding(i)) \in Nat
<1>1. IsFiniteSet(Holding(i))
  BY ActorAssumption, FS_Subset DEF Holding
<1> QED
  BY <1>1, FS_CardinalityType

\* An index whose set has a zero counter is held by nobody
LEMMA UnheldIndex ==
    ASSUME RefInv, NEW i \in Index, ip_set_list[i] # NULL,
           ref[ip_set_list[i]] = 0
    PROVE  Holding(i) = {}
BY HoldingFinite, FS_EmptySet DEF RefInv, RefsAccounted, Used

\* The references left after a put: those of the index and not in gone
LEMMA PutCount ==
    ASSUME RefInv, NEW gone \in SUBSET Holders, NEW i \in Used,
           \A h \in gone : hold[h] # NoIndex
    PROVE  PutElems(gone)[ip_set_list[i]] = Cardinality(Holding(i) \ gone)
<1>1. /\ ip_set_list \in [Index -> Sets \cup {NULL}]
      /\ hold \in [Holders -> Index \cup {NoIndex}]
      /\ TableExact /\ RefsAccounted /\ HeldIndexLive /\ Used \subseteq Index
      /\ ip_set_list[i] \in Sets
  BY DEF RefInv, Inv, TypeOK, Used
<1>2. {h \in gone : ip_set_list[hold[h]] = ip_set_list[i]} = Holding(i) \cap gone
  <2>1. ASSUME NEW h \in gone, ip_set_list[hold[h]] = ip_set_list[i]
        PROVE  hold[h] = i
    BY <1>1, <2>1 DEF TableExact, HeldIndexLive
  <2> QED
    BY <2>1 DEF Holding
<1>3. Cardinality(Holding(i) \ gone) =
         Cardinality(Holding(i)) - Cardinality(Holding(i) \cap gone)
  BY HoldingFinite, FS_Difference
<1> QED
  BY <1>1, <1>2, <1>3 DEF PutElems, RefsAccounted

\* Putting rules or elements keeps the counters exact
LEMMA RefsPut ==
    ASSUME RefInv, NEW gone \in SUBSET Holders,
           \A h \in gone : hold[h] # NoIndex, ref' = PutElems(gone),
           hold' = [h \in Holders |-> IF h \in gone THEN NoIndex ELSE hold[h]],
           ip_set_list' = ip_set_list
    PROVE  RefsAccounted' /\ HeldIndexLive'
<1>0. NoIndex \notin Index /\ Used' = Used /\ Used \subseteq Index
  BY TableAssumption DEF NoIndex, Index, IPSET_INVALID_ID, Used
<1>1. HeldIndexLive'
  BY <1>0 DEF RefInv, HeldIndexLive
<1>2. ASSUME NEW i \in Used PROVE ref'[ip_set_list'[i]] = Cardinality(Holding(i)')
  <2>1. Holding(i)' = Holding(i) \ gone
    BY <1>0 DEF Holding
  <2> QED
    BY <2>1, PutCount
<1> QED
  BY <1>0, <1>1, <1>2 DEF RefsAccounted

\* The three facts only depend on the table, the counters and the holders
LEMMA RefsFrame ==
    ASSUME RefInv, UNCHANGED <<ip_set_list, ref, hold, putting>>
    PROVE  RefsAccounted' /\ HeldIndexLive' /\ PuttingSlot'
BY DEF RefInv, RefsAccounted, HeldIndexLive, PuttingSlot, Holding, Used

\* Commands on whole sets carry the references along
LEMMA RefsSetCommand ==
    RefInv /\ SetCommand /\ SwapQuiet
       => RefsAccounted' /\ HeldIndexLive' /\ PuttingSlot'
<1> SUFFICES ASSUME RefInv, SetCommand, SwapQuiet
             PROVE  RefsAccounted' /\ HeldIndexLive' /\ PuttingSlot'
  OBVIOUS
<1> DEFINE Goal == RefsAccounted' /\ HeldIndexLive' /\ PuttingSlot'
<1>0. /\ ip_set_list \in [Index -> Sets \cup {NULL}]
      /\ ref \in [Sets -> Int] /\ NULL \notin Sets
      /\ hold \in [Holders -> Index \cup {NoIndex}] /\ Elems \subseteq Holders
      /\ TableExact /\ RefsAccounted /\ HeldIndexLive /\ PuttingSlot
      /\ \A e \in Elems : putting[e] # NULL => hold[e] # NoIndex
  BY SetAssumption DEF RefInv, Inv, TypeOK, Holders, ElemsOwned
<1>1. ASSUME NEW i \in Index, hold' = hold, putting' = putting, ref' = ref,
             ip_set_list' = [ip_set_list EXCEPT ![i] = NULL],
             ip_set_list[i] # NULL, Unreferenced(ip_set_list[i])
      PROVE  Goal
  <2>1. Holding(i) = {}
    BY <1>1, UnheldIndex DEF Unreferenced
  <2>2. \A h \in Holders : hold[h] # i
    BY <2>1 DEF Holding
  <2>3. \A j \in Index : ip_set_list'[j] = IF j = i THEN NULL ELSE ip_set_list[j]
    BY <1>0, <1>1
  <2>4. HeldIndexLive'
    BY <1>0, <1>1, <2>2, <2>3 DEF HeldIndexLive, Used
  <2>5. RefsAccounted'
    BY <1>0, <1>1, <2>3 DEF RefsAccounted, Holding, Used
  <2>6. PuttingSlot'
    BY <1>0, <1>1, <2>2, <2>3 DEF PuttingSlot
  <2> QED
    BY <2>4, <2>5, <2>6
<1>2. ASSUME NEW s \in Sets, NEW n \in Names, NEW k \in Kinds, Create(s, n, k)
      PROVE  Goal
  <2>1. PICK i \in Index, max \in 0 .. (IdMod - 1) :
           NewSlot(i, max) /\ ip_set_list' = [ip_set_list EXCEPT ![i] = s]
    BY <1>2 DEF Create
  <2>2. ip_set_list[i] = NULL
    <3>1. ip_set_list[i] = NULL \/ i = ip_set_max
      BY <2>1 DEF NewSlot
    <3>2. ip_set_list[i] # NULL => i < ip_set_max
      BY <1>0 DEF TableExact, Used
    <3>3. ip_set_max \in Nat
      BY TableAssumption DEF RefInv, Inv, TypeOK, Index, IPSET_INVALID_ID
    <3> QED
      BY <3>1, <3>2, <3>3
  <2>3. \A h \in Holders : hold[h] # i
    BY <1>0, <2>2, TableAssumption DEF HeldIndexLive, Used, Index, NoIndex,
       IPSET_INVALID_ID
  <2>4. \A j \in Index : ip_set_list'[j] = IF j = i THEN s ELSE ip_set_list[j]
    BY <1>0, <2>1
  <2>5. /\ ref' = [ref EXCEPT ![s] = 0] /\ hold' = hold /\ putting' = putting
        /\ state[s] = "free"
    BY <1>2 DEF Create, elemVars
  <2>6. \A j \in Index : ip_set_list[j] # s
    BY <1>0, <2>5 DEF TableExact, Used
  <2>7. Cardinality(Holding(i)) = 0
    BY <2>3, FS_EmptySet DEF Holding
  <2>8. RefsAccounted'
    <3>1. ASSUME NEW j \in Index, ip_set_list'[j] # NULL
          PROVE  ref'[ip_set_list'[j]] = Cardinality(Holding(j))
      BY <1>0, <2>4, <2>5, <2>6, <2>7, <3>1 DEF RefsAccounted, Used
    <3>2. \A j \in Index : Holding(j)' = Holding(j)
      BY <2>5 DEF Holding
    <3> QED
      BY <3>1, <3>2 DEF RefsAccounted, Used
  <2>9. HeldIndexLive'
    BY <1>0, <2>4, <2>5 DEF HeldIndexLive, Used
  <2>10. PuttingSlot'
    BY <1>0, <2>3, <2>4, <2>5 DEF PuttingSlot
  <2> QED
    BY <2>8, <2>9, <2>10
<1>3. ASSUME NEW i \in Index, Destroy(i)
      PROVE  Goal
  BY <1>1, <1>3 DEF Destroy, elemVars
<1>4. CASE DestroyFinish \/ DestroyAll \/ DestroyAllCheck \/ DestroyAllFinish
  <2>1. UNCHANGED <<ip_set_list, ref, hold, putting>>
    BY <1>4 DEF DestroyFinish, DestroyAll, DestroyAllCheck, DestroyAllFinish,
       slotVars, setVars, elemVars
  <2> QED
    BY <2>1, RefsFrame
<1>5. CASE DestroyAllStep
  <2>1. PICK i \in Used : ip_set_list' = [ip_set_list EXCEPT ![i] = NULL]
    BY <1>5 DEF DestroyAllStep
  <2>2. Unreferenced(ip_set_list[i])
    BY <1>5 DEF DestroyAllStep, RefInv, Inv, CommandState, DestroyAllQuiet
  <2> QED
    BY <1>1, <1>5, <2>1, <2>2 DEF DestroyAllStep, elemVars, Used
<1>6. ASSUME NEW i \in Index, NEW n \in Names, Rename(i, n)
      PROVE  Goal
  BY <1>6, RefsFrame DEF Rename, slotVars, elemVars
<1>7. ASSUME NEW i \in Index, NEW j \in Index, Swap(i, j)
      PROVE  Goal
  <2> DEFINE from == ip_set_list[i]
             to == ip_set_list[j]
  <2>1. /\ i # j /\ from \in Sets /\ to \in Sets
        /\ ref' = [ref EXCEPT ![from] = ref[to], ![to] = ref[from]]
        /\ ip_set_list' = [ip_set_list EXCEPT ![i] = to, ![j] = from]
        /\ hold' = hold /\ putting' = putting
    BY <1>0, <1>7 DEF Swap, SwappedRefs, elemVars
  <2>2. from # to
    BY <1>0, <2>1 DEF TableExact, Used
  <2>3. \A k \in Index : ip_set_list'[k] = IF k = i THEN to
                                           ELSE IF k = j THEN from
                                           ELSE ip_set_list[k]
    BY <1>0, <2>1
  <2>4. \A e \in Elems : putting[e] = NULL
    BY <1>0, <2>1, <2>2, <2>3 DEF SwapQuiet
  <2>5. \A k \in Index : k # i /\ k # j => ip_set_list[k] # from
                                           /\ ip_set_list[k] # to
    BY <1>0, <2>1 DEF TableExact, Used
  <2>6. RefsAccounted'
    <3>1. ASSUME NEW k \in Index, ip_set_list'[k] # NULL
          PROVE  ref'[ip_set_list'[k]] = Cardinality(Holding(k))
      BY <1>0, <2>1, <2>2, <2>3, <2>5, <3>1 DEF RefsAccounted, Used
    <3>2. \A k \in Index : Holding(k)' = Holding(k)
      BY <2>1 DEF Holding
    <3> QED
      BY <3>1, <3>2 DEF RefsAccounted, Used
  <2>7. HeldIndexLive'
    BY <1>0, <2>1, <2>3 DEF HeldIndexLive, Used
  <2> QED
    BY <2>1, <2>4, <2>6, <2>7 DEF PuttingSlot
<1> HIDE DEF Goal
<1>8. Goal
  <2>1. DestroyFinish \/ DestroyAll \/ DestroyAllCheck \/ DestroyAllFinish
           \/ DestroyAllStep => Goal
    BY <1>4, <1>5 DEF Goal
  <2> QED
    BY <1>2, <1>3, <1>6, <1>7, <2>1 DEF SetCommand
<1> QED
  BY <1>8 DEF Goal

\* Getting and putting references keeps the counters exact
LEMMA RefsRefCommand ==
    RefInv /\ RefCommand => RefsAccounted' /\ HeldIndexLive' /\ PuttingSlot'
<1> SUFFICES ASSUME RefInv, RefCommand
             PROVE  RefsAccounted' /\ HeldIndexLive' /\ PuttingSlot'
  OBVIOUS
<1> DEFINE Goal == RefsAccounted' /\ HeldIndexLive' /\ PuttingSlot'
<1>0. /\ ip_set_list \in [Index -> Sets \cup {NULL}]
      /\ ref \in [Sets -> Int] /\ NULL \notin Sets /\ NoIndex \notin Index
      /\ hold \in [Holders -> Index \cup {NoIndex}] /\ Elems \subseteq Holders
      /\ Rules \subseteq Holders /\ Rules \cap Elems = {}
      /\ TableExact /\ RefsAccounted /\ HeldIndexLive /\ PuttingSlot
      /\ ElemsOwned /\ ip_set_list' = ip_set_list /\ putting' = putting
      /\ Used' = Used /\ Used \subseteq Index
  BY SetAssumption, TableAssumption, ActorAssumption, FrameRefCommand
     DEF RefInv, Inv, TypeOK, Holders, slotVars, Index, NoIndex,
         IPSET_INVALID_ID, Used
<1>1. ASSUME NEW r \in Rules, NEW i \in Index, RuleGet(r, i)
      PROVE  Goal
  <2>1. /\ ref' = [ref EXCEPT ![ip_set_list[i]] = @ + 1]
        /\ hold' = [hold EXCEPT ![r] = i]
        /\ hold[r] = NoIndex /\ ip_set_list[i] \in Sets
    BY <1>0, <1>1 DEF RuleGet
  <2>2. ASSUME NEW j \in Used PROVE ref'[ip_set_list[j]] = Cardinality(Holding(j)')
    <3>1. CASE j = i
      <4>1. Holding(j)' = Holding(j) \cup {r} /\ r \notin Holding(j)
        BY <1>0, <2>1, <3>1 DEF Holding
      <4>2. Cardinality(Holding(j)') = Cardinality(Holding(j)) + 1
        BY <4>1, HoldingFinite, FS_AddElement
      <4> QED
        BY <1>0, <2>1, <3>1, <4>2 DEF RefsAccounted
    <3>2. CASE j # i
      <4>1. Holding(j)' = Holding(j)
        BY <1>0, <2>1, <3>2 DEF Holding
      <4>2. ip_set_list[j] # ip_set_list[i]
        BY <1>0, <2>1, <3>2 DEF TableExact, Used
      <4> QED
        BY <1>0, <2>1, <4>1, <4>2 DEF RefsAccounted
    <3> QED
      BY <3>1, <3>2
  <2>3. HeldIndexLive'
    BY <1>0, <2>1 DEF HeldIndexLive, Used
  <2>4. PuttingSlot'
    BY <1>0, <2>1 DEF PuttingSlot
  <2> QED
    BY <1>0, <2>2, <2>3, <2>4 DEF RefsAccounted
<1>2. ASSUME NEW r \in Rules, RulePut(r)
      PROVE  Goal
  <2>1. hold' = [h \in Holders |-> IF h \in {r} THEN NoIndex ELSE hold[h]]
    BY <1>0, <1>2 DEF RulePut
  <2>2. {r} \in SUBSET Holders /\ \A h \in {r} : hold[h] # NoIndex
    BY <1>0, <1>2 DEF RulePut
  <2>3. RefsAccounted' /\ HeldIndexLive'
    BY <1>0, <1>2, <2>1, <2>2, RefsPut DEF RulePut
  <2>4. PuttingSlot'
    BY <1>0, <2>1 DEF PuttingSlot
  <2> QED
    BY <2>3, <2>4
<1>3. ASSUME NEW l \in Sets, NEW gone \in SUBSET Members(l), ListRemove(l, gone)
      PROVE  Goal
  <2>1. /\ gone \in SUBSET Holders
        /\ \A e \in gone : e \in Elems /\ hold[e] # NoIndex /\ putting[e] = NULL
    BY <1>0 DEF Members, ElemsOwned
  <2>2. RefsAccounted' /\ HeldIndexLive'
    BY <1>0, <1>3, <2>1, RefsPut DEF ListRemove
  <2>3. PuttingSlot'
    BY <1>0, <1>3, <2>1 DEF ListRemove, PuttingSlot
  <2> QED
    BY <2>2, <2>3
<1>4. ASSUME NEW l \in Sets, NEW e \in Elems, NEW i \in Index,
             NEW gone \in SUBSET Elems, ListAdd(l, e, i, gone)
      PROVE  Goal
  <2>1. gone \in SUBSET Members(l)
    BY <1>4 DEF ListAdd, Expired
  <2>2. /\ gone \in SUBSET Holders
        /\ \A m \in gone : m \in Elems /\ hold[m] # NoIndex /\ putting[m] = NULL
    BY <1>0, <2>1 DEF Members, ElemsOwned
  <2>3. /\ ref' = [PutElems(gone) EXCEPT ![ip_set_list[i]] = @ + 1]
        /\ hold' = [h \in Holders |-> IF h = e THEN i
                       ELSE IF h \in gone THEN NoIndex ELSE hold[h]]
        /\ hold[e] = NoIndex /\ ip_set_list[i] \in Sets
    BY <1>0, <1>4 DEF ListAdd
  <2>4. PutElems(gone) \in [Sets -> Int]
    BY <2>2, PutElemsType DEF RefInv, Inv
  <2>5. ASSUME NEW j \in Used PROVE ref'[ip_set_list[j]] = Cardinality(Holding(j)')
    <3>0. /\ PutElems(gone)[ip_set_list[j]] = Cardinality(Holding(j) \ gone)
          /\ IsFiniteSet(Holding(j) \ gone)
      BY <2>2, PutCount, HoldingFinite, FS_Difference
    <3>1. CASE j = i
      <4>1. /\ Holding(j)' = (Holding(j) \ gone) \cup {e}
            /\ e \notin Holding(j) \ gone
        BY <1>0, <2>3, <3>1 DEF Holding
      <4>2. Cardinality(Holding(j)') = Cardinality(Holding(j) \ gone) + 1
        BY <3>0, <4>1, FS_AddElement
      <4> QED
        BY <2>3, <2>4, <3>0, <3>1, <4>2
    <3>2. CASE j # i
      <4>1. Holding(j)' = Holding(j) \ gone
        BY <1>0, <2>3, <3>2 DEF Holding
      <4>2. ip_set_list[j] # ip_set_list[i] /\ ip_set_list[j] \in Sets
        BY <1>0, <2>3, <3>2 DEF TableExact, Used
      <4> QED
        BY <2>3, <2>4, <3>0, <4>1, <4>2
    <3> QED
      BY <3>1, <3>2
  <2>6. HeldIndexLive'
    BY <1>0, <2>3 DEF HeldIndexLive, Used
  <2>7. PuttingSlot'
    BY <1>0, <2>2, <2>3 DEF PuttingSlot, ElemsOwned
  <2> QED
    BY <1>0, <2>5, <2>6, <2>7 DEF RefsAccounted
<1>5. ASSUME NEW l \in Sets, NEW e \in Elems, NEW gone \in SUBSET Elems,
             ListDel(l, e, gone)
      PROVE  Goal
  <2>1. gone \cup {e} \in SUBSET Members(l)
    BY <1>5 DEF ListDel, Expired
  <2> QED
    BY <1>3, <1>5, <2>1 DEF ListDel
<1>6. ASSUME NEW l \in Sets, ListFlush(l)
      PROVE  Goal
  BY <1>3, <1>6 DEF ListFlush
<1> HIDE DEF Goal
<1>7. Goal
  BY <1>1, <1>2, <1>4, <1>5, <1>6 DEF RefCommand
<1> QED
  BY <1>7 DEF Goal

\* The two halves of an asynchronous put meet the same set
LEMMA RefsDeferred ==
    RefInv /\ Deferred => RefsAccounted' /\ HeldIndexLive' /\ PuttingSlot'
<1> SUFFICES ASSUME RefInv, Deferred
             PROVE  RefsAccounted' /\ HeldIndexLive' /\ PuttingSlot'
  OBVIOUS
<1> DEFINE Goal == RefsAccounted' /\ HeldIndexLive' /\ PuttingSlot'
<1>0. /\ ip_set_list \in [Index -> Sets \cup {NULL}]
      /\ ref \in [Sets -> Int] /\ NULL \notin Sets /\ NoIndex \notin Index
      /\ hold \in [Holders -> Index \cup {NoIndex}] /\ Elems \subseteq Holders
      /\ owner \in [Elems -> Sets \cup {NULL}]
      /\ putting \in [Elems -> Sets \cup {NULL}]
      /\ TableExact /\ RefsAccounted /\ HeldIndexLive /\ PuttingSlot
      /\ ElemsOwned /\ ip_set_list' = ip_set_list
      /\ Used' = Used /\ Used \subseteq Index
  BY SetAssumption, TableAssumption, FrameDeferred
     DEF RefInv, Inv, TypeOK, Holders, slotVars, Index, NoIndex,
         IPSET_INVALID_ID, Used
<1>1. ASSUME NEW l \in Sets, NEW e \in Elems, GcDel(l, e) \/ DestroyDel(l, e)
      PROVE  Goal
  <2>1. hold[e] \in Used
    BY <1>0, <1>1 DEF GcDel, DestroyDel, Members, ElemsOwned, HeldIndexLive
  <2>2. ip_set_list[hold[e]] # NULL
    BY <2>1 DEF Used
  <2>3. /\ putting' = [putting EXCEPT ![e] = ip_set_list[hold[e]]]
        /\ hold' = hold /\ ref' = ref
    BY <1>0, <1>1, <2>2 DEF GcDel, DestroyDel, ReadSlot, setVars
  <2>4. PuttingSlot'
    BY <1>0, <2>3 DEF PuttingSlot
  <2>5. RefsAccounted' /\ HeldIndexLive'
    BY <1>0, <2>3 DEF RefsAccounted, HeldIndexLive, Holding
  <2> QED
    BY <2>4, <2>5
<1>2. ASSUME NEW e \in Elems, PutFinish(e)
      PROVE  Goal
  <2> DEFINE i == hold[e]
  <2>1. i \in Used /\ ip_set_list[i] = putting[e] /\ putting[e] \in Sets
    BY <1>0, <1>2 DEF PutFinish, ElemsOwned, HeldIndexLive, PuttingSlot
  <2>2. /\ ref' = [ref EXCEPT ![ip_set_list[i]] = @ - 1]
        /\ hold' = [hold EXCEPT ![e] = NoIndex]
        /\ putting' = [putting EXCEPT ![e] = NULL]
    BY <1>2, <2>1 DEF PutFinish
  <2>3. ASSUME NEW j \in Used PROVE ref'[ip_set_list[j]] = Cardinality(Holding(j)')
    <3>1. CASE j = i
      <4>1. Holding(j)' = Holding(j) \ {e} /\ e \in Holding(j)
        BY <1>0, <2>2, <3>1 DEF Holding
      <4>2. Cardinality(Holding(j)') = Cardinality(Holding(j)) - 1
        BY <4>1, HoldingFinite, FS_RemoveElement
      <4> QED
        BY <1>0, <2>1, <2>2, <3>1, <4>2 DEF RefsAccounted
    <3>2. CASE j # i
      <4>1. Holding(j)' = Holding(j)
        BY <1>0, <2>2, <3>2 DEF Holding
      <4>2. ip_set_list[j] # ip_set_list[i] /\ ip_set_list[j] \in Sets
        BY <1>0, <2>1, <3>2 DEF TableExact, Used
      <4> QED
        BY <1>0, <2>1, <2>2, <4>1, <4>2 DEF RefsAccounted
    <3> QED
      BY <3>1, <3>2
  <2>4. HeldIndexLive'
    BY <1>0, <2>2 DEF HeldIndexLive
  <2>5. PuttingSlot'
    BY <1>0, <2>2 DEF PuttingSlot
  <2> QED
    BY <1>0, <2>3, <2>4, <2>5 DEF RefsAccounted
<1>3. ASSUME NEW s \in Sets, RcuCallback(s)
      PROVE  Goal
  BY <1>0, <1>3, RefsFrame DEF RcuCallback, elemVars
<1>4. ASSUME NEW s \in Sets, Free(s)
      PROVE  Goal
  <2>1. /\ ref' = [ref EXCEPT ![s] = 0] /\ hold' = hold /\ putting' = putting
        /\ \A i \in Used : ip_set_list[i] # s
    BY <1>0, <1>4 DEF Free, elemVars, TableExact
  <2>2. \A i \in Used : /\ ref'[ip_set_list[i]] = ref[ip_set_list[i]]
                        /\ Holding(i)' = Holding(i)
    BY <1>0, <2>1 DEF Holding, Used
  <2> QED
    BY <1>0, <2>1, <2>2 DEF RefsAccounted, HeldIndexLive, PuttingSlot
<1> HIDE DEF Goal
<1>5. Goal
  BY <1>1, <1>2, <1>3, <1>4 DEF Deferred
<1> QED
  BY <1>5 DEF Goal

\* The strengthened invariant holds when swaps keep out of asynchronous puts
LEMMA RefInvariance == QuietSpec => []RefInv
<1>1. Init => RefInv
  <2>1. ASSUME Init PROVE RefsAccounted /\ HeldIndexLive /\ PuttingSlot
    BY <2>1 DEF Init, RefsAccounted, HeldIndexLive, PuttingSlot, Used
  <2> QED
    BY <2>1, InvInit DEF RefInv
<1>2. RefInv /\ [Next /\ SwapQuiet]_vars => RefInv'
  <2> SUFFICES ASSUME RefInv, [Next /\ SwapQuiet]_vars PROVE RefInv'
    OBVIOUS
  <2>1. Inv'
    BY InvStep DEF RefInv
  <2>2. CASE Next /\ SwapQuiet
    <3>1. CASE SetCommand \/ RefCommand \/ Deferred
      BY <2>1, <2>2, <3>1, RefsSetCommand, RefsRefCommand, RefsDeferred
         DEF RefInv
    <3>2. CASE NetlinkStep \/ PacketPath
      <4>1. UNCHANGED <<ip_set_list, ref, hold, putting>>
        BY <3>2, FrameNetlinkStep, FramePacketPath
           DEF slotVars, setVars, elemVars
      <4> QED
        BY <2>1, <4>1, RefsFrame DEF RefInv
    <3> QED
      BY <2>2, <3>1, <3>2 DEF Next
  <2>3. CASE UNCHANGED vars
    <3>1. UNCHANGED <<ip_set_list, ref, hold, putting>>
      BY <2>3 DEF vars, slotVars, setVars, elemVars
    <3> QED
      BY <2>1, <3>1, RefsFrame DEF RefInv
  <2> QED
    BY <2>2, <2>3
<1> QED
  BY <1>1, <1>2, PTL DEF QuietSpec

\* set->ref of the set behind an index counts the rules and list members that
\* refer to the index, through swaps, renames and the asynchronous
\* destruction of lists, when no swap runs in the middle of a put by the
\* list:set timer or destructor (__ip_set_get, __ip_set_put, ip_set_swap)
THEOREM RefsCorrect == QuietSpec => []RefsAccounted
<1>1. RefInv => RefsAccounted
  BY DEF RefInv
<1> QED
  BY RefInvariance, <1>1, PTL

\* The slot of a referenced index is never empty under the same condition, so
\* BUG_ON(!set) of ip_set_test, ip_set_add and ip_set_del cannot trigger for
\* the set of a rule
THEOREM HeldIndexCorrect == QuietSpec => []HeldIndexLive
<1>1. RefInv => HeldIndexLive
  BY DEF RefInv
<1> QED
  BY RefInvariance, <1>1, PTL
=============================================================================
