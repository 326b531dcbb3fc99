-------------------------- MODULE HashResizeProofs --------------------------
(***************************************************************************)
(* Proofs about HashResize, for any number of elements, tables, packets    *)
(* and dumps and any bound: types, the life of the tables, and that no     *)
(* table is freed that is in use, and none is lost, as long as no resize   *)
(* starts between the two halves of a user's leave (QuietSpec).            *)
(***************************************************************************)
EXTENDS HashResize, FiniteSetTheorems, TLAPS

\* A user inside a table knows the table, and a packet its operation
UserState ==
    \A u \in Users :
       /\ user[u].pc = "idle" => user[u] = NoUser
       /\ user[u].pc # "idle" => user[u].t \in Tables
       /\ user[u].pc = "log" => u \in Packets
       /\ u \in Packets /\ user[u].pc # "idle" =>
             user[u].x \in Elems /\ user[u].op \in KernelOps[user[u].x]

\* The current table is the one that is replaced until the new one is published
ResizeState ==
    /\ resize.pc \in {"idle", "retry"} => resize.orig = NULL /\ resize.new = NULL
    /\ resize.pc \in {"copy", "sync", "replay"} =>
          /\ {resize.orig, resize.new} \subseteq Tables
          /\ table = IF resize.pc = "copy" THEN resize.orig ELSE resize.new

\* The grace period covers every packet that is still inside the old table
GraceCovers ==
    /\ resize.pc = "sync" =>
          \A p \in Packets : user[p].pc # "idle" /\ user[p].t # table => p \in resize.readers
    /\ resize.pc = "replay" =>
          \A p \in Packets : user[p].pc # "idle" => user[p].t = table

\* The inductive invariant of types and grace periods
Shape == TypeOK /\ UserState /\ ResizeState /\ GraceCovers

----------------------------------------------------------------------------
(* Entries and prefix sizes                                                *)

\* Booked prefix sizes stay natural numbers
LEMMA DelCidrType ==
    ASSUME NEW n \in [Cidrs -> Nat], NEW gone \in SUBSET Elems
    PROVE  DelCidr(n, gone) \in [Cidrs -> Nat]
<1>1. ASSUME NEW c \in Cidrs
      PROVE  Cardinality({x \in gone : Cidr[x] = c}) \in Nat
  <2>1. IsFiniteSet({x \in gone : Cidr[x] = c})
    BY HashAssumption, FS_Subset
  <2> QED
    BY <2>1, FS_CardinalityType
<1> QED
  BY <1>1 DEF DelCidr

\* Storing and dropping an entry, and a sweep, preserve the types
LEMMA EntryTypes ==
    ASSUME TypeOK, NEW t \in Tables, NEW x \in Elems, NEW gone \in SUBSET Elems,
           StoreEntry(t, x, gone) \/ DropEntry(t, x) \/ Sweep(t)
    PROVE  /\ entry' \in [Tables -> [Elems -> {"no", "live", "dead"}]]
           /\ nets' \in [Cidrs -> Nat]
<1> USE DEF TypeOK
<1>1. CASE StoreEntry(t, x, gone)
  <2>1. DelCidr(nets, gone) \in [Cidrs -> Nat]
    BY DelCidrType
  <2>2. Cidr[x] \in Cidrs
    BY DEF Cidrs
  <2>3. nets' = IF entry[t][x] = "dead" THEN nets
                ELSE [DelCidr(nets, gone) EXCEPT ![Cidr[x]] = @ + 1]
    BY <1>1 DEF StoreEntry, AddCidr
  <2>4. nets' \in [Cidrs -> Nat]
    BY <2>1, <2>2, <2>3
  <2>5. entry' = [entry EXCEPT ![t] = [y \in Elems |-> IF y = x THEN "live"
                    ELSE IF y \in gone THEN "no" ELSE entry[t][y]]]
    BY <1>1 DEF StoreEntry
  <2> QED
    BY <2>4, <2>5
<1>2. CASE DropEntry(t, x)
  BY <1>2, DelCidrType DEF DropEntry
<1>3. CASE Sweep(t)
  <2>1. Dead(t) \in SUBSET Elems
    BY DEF Dead
  <2> QED
    BY <1>3, <2>1, DelCidrType DEF Sweep
<1> QED
  BY <1>1, <1>2, <1>3

----------------------------------------------------------------------------
(* Types and grace periods                                                 *)

LEMMA ShapeInit == Init => Shape
<1> SUFFICES ASSUME Init PROVE Shape
  OBVIOUS
<1>1. TypeOK
  <2>1. NoResize \in ResizeType /\ NoUser \in UserType /\ Empty \in [Elems -> {"no", "live", "dead"}]
    BY HashAssumption DEF NoResize, NoUser, Empty, ResizeType, UserType
  <2>2. ad \in Seq(OpType) /\ bits \in 0 .. MaxBits
    BY HashAssumption DEF Init
  <2>3. resize \in ResizeType /\ user \in [Users -> UserType]
    BY <2>1 DEF Init
  <2>4. /\ entry \in [Tables -> [Elems -> {"no", "live", "dead"}]]
        /\ ref \in [Tables -> {0, 1}] /\ uref \in [Tables -> Int] /\ nets \in [Cidrs -> Nat]
    BY <2>1 DEF Init
  <2>5. /\ table \in Tables /\ memory \subseteq Tables
        /\ flushing \in BOOLEAN /\ want \subseteq Elems
    BY DEF Init
  <2> QED
    BY <2>2, <2>3, <2>4, <2>5 DEF TypeOK
<1>2. UserState /\ ResizeState /\ GraceCovers
  BY DEF Init, NoResize, NoUser, UserState, ResizeState, GraceCovers, Users
<1> QED
  BY <1>1, <1>2 DEF Shape

\* Neither the entries nor the booked sizes matter to the rest of Shape
LEMMA ShapeFrame ==
    ASSUME Shape, UNCHANGED <<table, resize, user>>, TypeOK'
    PROVE  Shape'
BY DEF Shape, UserState, ResizeState, GraceCovers

LEMMA ShapeCommand == Shape /\ Command => Shape'
<1> SUFFICES ASSUME Shape, Command PROVE Shape'
  OBVIOUS
<1>1. TypeOK' /\ UNCHANGED <<table, resize, user>>
  <2> USE DEF Shape, tableVars
  <2>1. ASSUME NEW x \in Elems, UserAdd(x)
        PROVE  TypeOK' /\ UNCHANGED <<table, resize, user>>
    <3>1. PICK gone \in SUBSET Elems : StoreEntry(table, x, gone)
      BY <2>1 DEF UserAdd
    <3>2. /\ entry' \in [Tables -> [Elems -> {"no", "live", "dead"}]]
          /\ nets' \in [Cidrs -> Nat]
      BY <3>1, EntryTypes DEF TypeOK
    <3> QED
      BY <2>1, <3>2 DEF UserAdd, TypeOK
  <2>2. ASSUME NEW x \in Elems, UserDel(x)
        PROVE  TypeOK' /\ UNCHANGED <<table, resize, user>>
    <3>1. /\ entry' \in [Tables -> [Elems -> {"no", "live", "dead"}]]
          /\ nets' \in [Cidrs -> Nat]
      BY <2>2, EntryTypes DEF UserDel, TypeOK
    <3> QED
      BY <2>2, <3>1 DEF UserDel, TypeOK
  <2>3. CASE Flush
    BY <2>3 DEF Flush, TypeOK, Empty
  <2>4. CASE FlushNets
    BY <2>4 DEF FlushNets, TypeOK
  <2> QED
    BY <2>1, <2>2, <2>3, <2>4 DEF Command
<1> QED
  BY <1>1, ShapeFrame

\* A step of the resize leaves users alone
LEMMA ShapeResize == Shape /\ Resize => Shape'
<1> SUFFICES ASSUME Shape, Resize PROVE Shape'
  OBVIOUS
<1> USE DEF tableVars
<1>t. TypeOK /\ UserState /\ ResizeState /\ GraceCovers
  BY DEF Shape
<1>n. NULL \notin Tables /\ MaxBits \in Nat
  BY HashAssumption
<1>r. ref \in [Tables -> {0, 1}] /\ uref \in [Tables -> Int] /\ memory \subseteq Tables
  BY <1>t DEF TypeOK
<1>0. ASSUME TypeOK', UNCHANGED user, resize'.pc \in {"idle", "retry"},
             resize'.orig = NULL, resize'.new = NULL
      PROVE  Shape'
  BY <1>t, <1>0 DEF Shape, UserState, ResizeState, GraceCovers
<1>1. ASSUME NEW t \in Tables, ResizeStart(t)
      PROVE  Shape'
  <2>1. /\ resize' \in ResizeType /\ resize'.pc = "copy"
        /\ resize'.orig = table /\ resize'.new = t
    <3> DEFINE size == IF resize.pc = "retry" THEN resize.bits + 1 ELSE bits + 1
    <3>0. bits \in 0 .. MaxBits /\ resize.bits \in 0 .. MaxBits
      BY <1>t DEF TypeOK, ResizeType
    <3>1. /\ size \in 0 .. MaxBits
          /\ resize' = [NoResize EXCEPT !.pc = "copy", !.orig = table, !.new = t,
                                        !.bits = size, !.todo = Elems]
      BY <1>1, <1>n, <3>0 DEF ResizeStart
    <3> HIDE DEF size
    <3>2. resize' = [pc |-> "copy", orig |-> table, new |-> t, bits |-> size,
                     todo |-> Elems, bucket |-> {}, seen |-> {}, readers |-> {}]
      BY <3>1 DEF NoResize
    <3>3. table \in Tables
      BY <1>t DEF TypeOK
    <3> QED
      BY <1>n, <3>1, <3>2, <3>3 DEF ResizeType
  <2>2. Empty \in [Elems -> {"no", "live", "dead"}]
    BY DEF Empty
  <2>3. TypeOK'
    <3>1. entry' \in [Tables -> [Elems -> {"no", "live", "dead"}]]
      BY <1>1, <1>t, <2>2 DEF ResizeStart, TypeOK
    <3>2. ref' \in [Tables -> {0, 1}] /\ uref' \in [Tables -> Int]
      BY <1>1, <1>t DEF ResizeStart, TypeOK
    <3> QED
      BY <1>1, <1>t, <2>1, <3>1, <3>2 DEF ResizeStart, TypeOK
  <2>4. table \in Tables
    BY <1>t DEF TypeOK
  <2> QED
    BY <1>1, <1>t, <2>1, <2>3 DEF Shape, ResizeStart, TypeOK, UserState, ResizeState, GraceCovers
<1>2. ASSUME NEW bucket \in SUBSET Elems, ResizeBucket(bucket)
      PROVE  Shape'
  BY <1>2, <1>t DEF ResizeBucket, Shape, TypeOK, ResizeType, UserState, ResizeState, GraceCovers
<1>3. ASSUME NEW x \in Elems, NEW before \in BOOLEAN, ResizeCopy(x, before)
      PROVE  Shape'
  BY <1>3, <1>t DEF ResizeCopy, Shape, TypeOK, ResizeType, UserState, ResizeState, GraceCovers
<1>4. ASSUME NEW fault \in {"nomem", "full"}, ResizeFail(fault)
      PROVE  Shape'
  <2>1. /\ resize' \in ResizeType /\ resize'.pc \in {"idle", "retry"}
        /\ resize'.orig = NULL /\ resize'.new = NULL
    <3>1. NoResize \in ResizeType
      BY <1>n DEF NoResize, ResizeType
    <3>2. resize' = NoResize \/ resize' = [NoResize EXCEPT !.pc = "retry", !.bits = resize.bits]
      BY <1>4 DEF ResizeFail
    <3>3. resize.bits \in 0 .. MaxBits
      BY <1>t DEF TypeOK, ResizeType
    <3> QED
      BY <1>n, <3>1, <3>2, <3>3 DEF NoResize, ResizeType
  <2>2. ref' \in [Tables -> {0, 1}] /\ uref' \in [Tables -> Int]
    <3>1. resize.orig \in Tables
      BY <1>4, <1>t DEF ResizeFail, ResizeState
    <3> QED
      BY <1>4, <1>r, <3>1 DEF ResizeFail
  <2>3. TypeOK' /\ UNCHANGED user
    BY <1>4, <1>t, <2>1, <2>2 DEF ResizeFail, TypeOK
  <2> QED
    BY <2>1, <2>3, <1>0
<1>5. CASE ResizeGiveUp
  <2>1. NoResize \in ResizeType
    BY <1>n DEF NoResize, ResizeType
  <2>2. TypeOK' /\ UNCHANGED user
    BY <1>5, <1>t, <2>1 DEF ResizeGiveUp, TypeOK
  <2> QED
    BY <1>5, <2>2, <1>0 DEF ResizeGiveUp, NoResize
<1>6. CASE ResizePublish
  <2>1. TypeOK'
    BY <1>6, <1>t DEF ResizePublish, Readers, TypeOK, ResizeType, ResizeState
  <2> QED
    BY <1>6, <1>t, <2>1 DEF ResizePublish, Readers, Shape, TypeOK, ResizeType, UserState, ResizeState, GraceCovers
<1>7. CASE ResizeSync
  BY <1>7, <1>t DEF ResizeSync, Shape, TypeOK, ResizeType, UserState, ResizeState, GraceCovers
<1>8. CASE ResizeReplay
  <2>1. Head(ad) \in OpType /\ ad' \in Seq(OpType)
    <3>1. ad # <<>> /\ ad' = Tail(ad) /\ ad \in Seq(OpType)
      BY <1>8, <1>t DEF ResizeReplay, TypeOK
    <3> QED
      BY <3>1
  <2>2. Head(ad).x \in Elems
    BY <2>1 DEF OpType
  <2>3. /\ entry' \in [Tables -> [Elems -> {"no", "live", "dead"}]]
        /\ nets' \in [Cidrs -> Nat]
    <3>1. \/ \E gone \in SUBSET Elems : StoreEntry(table, Head(ad).x, gone)
          \/ DropEntry(table, Head(ad).x)
          \/ UNCHANGED <<entry, nets>>
      BY <1>8 DEF ResizeReplay
    <3>2. CASE UNCHANGED <<entry, nets>>
      BY <1>t, <3>2 DEF TypeOK
    <3>3. table \in Tables
      BY <1>t DEF TypeOK
    <3> QED
      BY <1>t, <2>2, <3>1, <3>2, <3>3, EntryTypes
  <2>4. TypeOK' /\ UNCHANGED <<table, resize, user>>
    BY <1>8, <1>t, <2>1, <2>3 DEF ResizeReplay, TypeOK
  <2> QED
    BY <2>4, ShapeFrame
<1>9. CASE ResizeDone
  <2>1. NoResize \in ResizeType
    BY <1>n DEF NoResize, ResizeType
  <2>2. uref' \in [Tables -> Int] /\ memory' \subseteq Tables
    <3>1. resize.orig \in Tables
      BY <1>9, <1>t DEF ResizeDone, ResizeState
    <3> QED
      BY <1>9, <1>r, <3>1 DEF ResizeDone, DropUref
  <2>3. TypeOK' /\ UNCHANGED user
    BY <1>9, <1>t, <2>1, <2>2 DEF ResizeDone, TypeOK
  <2> QED
    BY <1>9, <2>3, <1>0 DEF ResizeDone, NoResize
<1> QED
  BY <1>1, <1>2, <1>3, <1>4, <1>5, <1>6, <1>7, <1>8, <1>9 DEF Resize, ResizeOn

\* A user that enters the current table, goes on in its own or leaves
LEMMA ShapeUser ==
    ASSUME Shape, TypeOK', NEW u \in Users, NEW new,
           user' = [user EXCEPT ![u] = new], table' = table,
           \/ resize' = resize
           \/ resize' = [resize EXCEPT !.readers = @ \ {u}] /\ new.pc = "idle",
           new.pc = "idle" => new = NoUser,
           new.pc # "idle" => new.t = table \/ (user[u].pc # "idle" /\ new.t = user[u].t),
           new.pc = "log" => u \in Packets,
           u \in Packets /\ new.pc # "idle" => new.x \in Elems /\ new.op \in KernelOps[new.x]
    PROVE  Shape'
<1> USE DEF Shape
<1>1. user \in [Users -> UserType] /\ resize \in ResizeType /\ table \in Tables
  BY DEF TypeOK
<1>2. \A v \in Users : user'[v] = IF v = u THEN new ELSE user[v]
  BY <1>1
<1>3. UserState'
  BY <1>1, <1>2 DEF UserState
<1>4. /\ resize'.pc = resize.pc /\ resize'.orig = resize.orig /\ resize'.new = resize.new
      /\ \A p \in resize.readers : p \in resize'.readers \/ (p = u /\ new.pc = "idle")
  BY <1>1 DEF ResizeType
<1>5. ResizeState'
  BY <1>4 DEF ResizeState
<1>6. GraceCovers'
  <2>1. Packets \subseteq Users
    BY DEF Users
  <2> QED
    BY <1>2, <1>4, <2>1 DEF GraceCovers
<1> QED
  BY <1>3, <1>5, <1>6

\* A user that goes to another place of its way
LEMMA ShapeGo ==
    ASSUME Shape, TypeOK', NEW u \in Users, NEW pc \in {"have", "log", "put", "check"},
           Go(u, pc), user[u].pc # "idle", pc = "log" => u \in Packets,
           table' = table, resize' = resize
    PROVE  Shape'
<1> DEFINE new == [user[u] EXCEPT !.pc = pc]
<1>1. user[u] \in UserType /\ user' = [user EXCEPT ![u] = new]
  BY DEF Shape, TypeOK, Go
<1>2. new.pc = pc /\ new.t = user[u].t /\ new.x = user[u].x /\ new.op = user[u].op
  BY <1>1 DEF UserType
<1>3. u \in Packets => new.x \in Elems /\ new.op \in KernelOps[new.x]
  BY <1>2 DEF Shape, UserState
<1> HIDE DEF new
<1> QED
  BY <1>1, <1>2, <1>3, ShapeUser

LEMMA GoType ==
    ASSUME user \in [Users -> UserType], NEW u \in Users,
           NEW pc \in {"idle", "have", "log", "put", "check"}, Go(u, pc)
    PROVE  user' \in [Users -> UserType]
<1>1. [user[u] EXCEPT !.pc = pc] \in UserType
  BY DEF UserType
<1> QED
  BY <1>1 DEF Go

LEMMA ShapeUserStep == Shape /\ UserStep => Shape'
<1> SUFFICES ASSUME Shape, UserStep PROVE Shape'
  OBVIOUS
<1>t. TypeOK /\ UserState
  BY DEF Shape
<1>u. /\ user \in [Users -> UserType] /\ resize \in ResizeType /\ table \in Tables
      /\ uref \in [Tables -> Int] /\ memory \subseteq Tables
  BY <1>t DEF TypeOK
<1>p. Packets \subseteq Users /\ Dumpers \subseteq Users /\ "gc" \in Users /\ "gc" \notin Packets
      /\ Packets \cap Dumpers = {}
  BY HashAssumption DEF Users
<1>g. ASSUME NEW u \in Users, NEW new \in UserType, Get(u, new),
             u \in Packets => new.x \in Elems /\ new.op \in KernelOps[new.x]
      PROVE  Shape'
  <2> DEFINE got == [new EXCEPT !.pc = "have", !.t = table]
  <2>1. got \in UserType /\ got.pc = "have" /\ got.t = table /\ got.x = new.x /\ got.op = new.op
    BY <1>u DEF UserType
  <2>2. user' = [user EXCEPT ![u] = got] /\ UNCHANGED <<table, resize>>
    BY <1>g DEF Get
  <2> HIDE DEF got
  <2>3. uref' \in [Tables -> Int] /\ user' \in [Users -> UserType]
    BY <1>u, <1>g, <2>1, <2>2 DEF Get
  <2>4. TypeOK'
    BY <1>g, <1>t, <2>3 DEF Get, TypeOK
  <2> QED
    BY <1>g, <2>1, <2>2, <2>4, ShapeUser
<1>1. ASSUME NEW p \in Packets, NEW op \in {"add", "del"}, NEW x \in Elems, PacketGet(p, op, x)
      PROVE  Shape'
  <2> DEFINE new == [NoUser EXCEPT !.op = op, !.x = x]
  <2>1. new \in UserType /\ new.op = op /\ new.x = x
    BY DEF NoUser, UserType
  <2>2. Get(p, new) /\ op \in KernelOps[x]
    BY <1>1 DEF PacketGet
  <2> HIDE DEF new
  <2> QED
    BY <1>g, <1>p, <2>1, <2>2
<1>2. ASSUME NEW p \in Packets, PacketSweep(p)
      PROVE  Shape'
  <2>1. user[p].t \in Tables
    BY <1>2, <1>t, <1>p DEF PacketSweep, UserState
  <2>2. /\ entry' \in [Tables -> [Elems -> {"no", "live", "dead"}]]
        /\ nets' \in [Cidrs -> Nat]
    <3>1. Sweep(user[p].t) /\ user[p].x \in Elems
      BY <1>2, <1>t, <1>p DEF PacketSweep, UserState
    <3> QED
      BY <1>t, <2>1, <3>1, EntryTypes
  <2> QED
    BY <1>2, <1>t, <2>2, ShapeFrame DEF PacketSweep, TypeOK, tableVars
<1>3. ASSUME NEW p \in Packets, PacketAdd(p)
      PROVE  Shape'
  <2>1. /\ user[p].t \in Tables /\ user[p].x \in Elems /\ p \in Users
        /\ user[p].pc # "idle"
    BY <1>3, <1>t, <1>p DEF PacketAdd, UserState
  <2>2. PICK pc \in {"log", "put"} : Go(p, pc)
    BY <1>3 DEF PacketAdd
  <2>3. /\ entry' \in [Tables -> [Elems -> {"no", "live", "dead"}]]
        /\ nets' \in [Cidrs -> Nat]
    <3>1. \/ \E gone \in SUBSET Elems : StoreEntry(user[p].t, user[p].x, gone)
          \/ UNCHANGED <<entry, nets>>
      BY <1>3 DEF PacketAdd
    <3>2. CASE UNCHANGED <<entry, nets>>
      BY <1>t, <3>2 DEF TypeOK
    <3> QED
      BY <1>t, <2>1, <3>1, <3>2, EntryTypes
  <2>4. want' \subseteq Elems /\ UNCHANGED <<tableVars, ad, resize, flushing>>
    BY <1>3, <1>t, <2>1 DEF PacketAdd, TypeOK
  <2>5. TypeOK'
    BY <1>t, <1>u, <2>1, <2>2, <2>3, <2>4, GoType DEF TypeOK, tableVars
  <2> QED
    BY <1>3, <2>1, <2>2, <2>4, <2>5, ShapeGo DEF tableVars
<1>4. ASSUME NEW p \in Packets, PacketDel(p)
      PROVE  Shape'
  <2>1. /\ user[p].t \in Tables /\ user[p].x \in Elems /\ p \in Users
        /\ user[p].pc # "idle"
    BY <1>4, <1>t, <1>p DEF PacketDel, UserState
  <2>2. PICK pc \in {"log", "put"} : Go(p, pc)
    BY <1>4 DEF PacketDel
  <2>3. /\ entry' \in [Tables -> [Elems -> {"no", "live", "dead"}]]
        /\ nets' \in [Cidrs -> Nat]
    <3>1. \/ DropEntry(user[p].t, user[p].x)
          \/ UNCHANGED <<entry, nets>>
      BY <1>4 DEF PacketDel
    <3>2. CASE UNCHANGED <<entry, nets>>
      BY <1>t, <3>2 DEF TypeOK
    <3> QED
      BY <1>t, <2>1, <3>1, <3>2, EntryTypes
  <2>4. want' \subseteq Elems /\ UNCHANGED <<tableVars, ad, resize, flushing>>
    BY <1>4, <1>t, <2>1 DEF PacketDel, TypeOK
  <2>5. TypeOK'
    BY <1>t, <1>u, <2>1, <2>2, <2>3, <2>4, GoType DEF TypeOK, tableVars
  <2> QED
    BY <1>4, <2>1, <2>2, <2>4, <2>5, ShapeGo DEF tableVars
<1>5. ASSUME NEW p \in Packets, PacketLog(p)
      PROVE  Shape'
  <2> DEFINE this == [op |-> user[p].op, x |-> user[p].x]
  <2>1. user[p].x \in Elems /\ p \in Users /\ user[p].pc # "idle" /\ Go(p, "put")
    BY <1>5, <1>t, <1>p DEF PacketLog, UserState
  <2>2. ad' = <<this>> \o ad \/ ad' = Append(ad, this) \/ ad' = ad
    BY <1>5 DEF PacketLog
  <2>3. this \in OpType
    <3>1. user[p].op \in KernelOps[user[p].x]
      BY <1>5, <1>t, <1>p, <2>1 DEF UserState
    <3> QED
      BY <2>1, <3>1, HashAssumption DEF OpType
  <2> HIDE DEF this
  <2>4. ad' \in Seq(OpType)
    <3>1. ad \in Seq(OpType)
      BY <1>t DEF TypeOK
    <3>2. Append(ad, this) \in Seq(OpType) /\ <<this>> \in Seq(OpType)
      BY <2>3, <3>1
    <3>3. <<this>> \o ad \in Seq(OpType)
      BY <3>1, <3>2
    <3> QED
      BY <2>2, <3>1, <3>2, <3>3
  <2>5. UNCHANGED <<tableVars, entry, nets, resize, flushing, want>>
    BY <1>5 DEF PacketLog
  <2>6. TypeOK'
    BY <1>t, <1>u, <2>1, <2>4, <2>5, GoType DEF TypeOK, tableVars
  <2> QED
    BY <2>1, <2>5, <2>6, ShapeGo DEF tableVars
<1>6. ASSUME NEW x \in Elems, Expire(x)
      PROVE  Shape'
  <2>1. entry' \in [Tables -> [Elems -> {"no", "live", "dead"}]]
    BY <1>6, <1>t DEF Expire, TypeOK
  <2>2. /\ resize' \in ResizeType /\ resize'.pc = resize.pc /\ resize'.orig = resize.orig
        /\ resize'.new = resize.new /\ resize'.readers = resize.readers
    BY <1>6, <1>u DEF Expire, ResizeType
  <2>3. TypeOK'
    BY <1>6, <1>t, <2>1, <2>2 DEF Expire, TypeOK, tableVars
  <2> QED
    BY <1>6, <1>t, <2>2, <2>3 DEF Shape, Expire, tableVars, UserState, ResizeState, GraceCovers
<1>7. CASE GcGet
  <2>1. NoUser \in UserType
    BY DEF NoUser, UserType
  <2> QED
    BY <1>7, <1>g, <1>p, <2>1 DEF GcGet
<1>8. CASE GcDo
  <2>1. user["gc"].t \in Tables /\ user["gc"].pc # "idle" /\ Go("gc", "put")
    BY <1>8, <1>t, <1>p DEF GcDo, UserState
  <2>2. entry' \in [Tables -> [Elems -> {"no", "live", "dead"}]] /\ nets' \in [Cidrs -> Nat]
    <3>1. Sweep(user["gc"].t)
      BY <1>8 DEF GcDo
    <3>2. Dead(user["gc"].t) \in SUBSET Elems
      BY DEF Dead
    <3> QED
      <4>1. entry \in [Tables -> [Elems -> {"no", "live", "dead"}]] /\ nets \in [Cidrs -> Nat]
        BY <1>t DEF TypeOK
      <4>2. nets' \in [Cidrs -> Nat]
        BY <3>1, <3>2, <4>1, DelCidrType DEF Sweep
      <4> QED
        BY <2>1, <3>1, <4>1, <4>2 DEF Sweep
  <2>3. TypeOK'
    BY <1>8, <1>t, <1>u, <1>p, <2>1, <2>2, GoType DEF GcDo, TypeOK, tableVars
  <2> QED
    BY <1>8, <1>p, <2>1, <2>3, ShapeGo DEF GcDo, tableVars
<1>9. ASSUME NEW d \in Dumpers, DumpGet(d)
      PROVE  Shape'
  <2>1. NoUser \in UserType
    BY DEF NoUser, UserType
  <2> QED
    BY <1>9, <1>g, <1>p, <2>1 DEF DumpGet
<1>10. ASSUME NEW d \in Dumpers, DumpEnd(d)
       PROVE  Shape'
  <2>1. d \in Users /\ user[d].pc # "idle" /\ Go(d, "put")
    BY <1>10, <1>p DEF DumpEnd
  <2>2. TypeOK'
    BY <1>10, <1>t, <1>u, <2>1, GoType DEF DumpEnd, TypeOK, tableVars
  <2> QED
    BY <1>10, <2>1, <2>2, ShapeGo DEF DumpEnd, tableVars
<1>l. ASSUME NEW u \in Users, user' = [user EXCEPT ![u] = NoUser], Leave(u),
             UNCHANGED <<table, bits, ref, entry, nets, ad, flushing, want>>,
             uref' \in [Tables -> Int], memory' \subseteq Tables
      PROVE  Shape'
  <2>1. NoUser \in UserType
    BY DEF NoUser, UserType
  <2>2. user' \in [Users -> UserType] /\ resize' \in ResizeType
    BY <1>l, <1>u, <2>1 DEF Leave, ResizeType
  <2>3. TypeOK'
    BY <1>l, <1>t, <2>2 DEF TypeOK
  <2> QED
    BY <1>l, <2>3, ShapeUser DEF Leave, NoUser
<1>11. ASSUME NEW u \in Users, Put(u)
       PROVE  Shape'
  <2>1. user[u].t \in Tables
    BY <1>11, <1>t DEF Put, UserState
  <2>2. uref' \in [Tables -> Int]
    BY <1>11, <1>u, <2>1 DEF Put
  <2>3. CASE Go(u, "check") /\ UNCHANGED resize
    <3>1. user' \in [Users -> UserType]
      BY <1>u, <2>3, GoType
    <3>2. TypeOK'
      BY <1>11, <1>t, <2>2, <2>3, <3>1 DEF Put, TypeOK
    <3> QED
      BY <1>11, <2>3, <3>2, ShapeGo DEF Put
  <2>4. CASE user' = [user EXCEPT ![u] = NoUser] /\ Leave(u)
    BY <1>11, <1>l, <1>u, <2>2, <2>4 DEF Put
  <2> QED
    BY <1>11, <2>3, <2>4 DEF Put
<1>12. ASSUME NEW u \in Users, Check(u)
       PROVE  Shape'
  <2>1. memory' \subseteq Tables /\ uref' \in [Tables -> Int]
    BY <1>12, <1>u DEF Check, FreeTable
  <2> QED
    BY <1>12, <1>l, <2>1 DEF Check
<1> QED
  BY <1>1, <1>2, <1>3, <1>4, <1>5, <1>6, <1>7, <1>8, <1>9, <1>10, <1>11, <1>12 DEF UserStep

\* Types, what users and the resize know of their tables, and grace periods
\* are invariant
THEOREM ShapeCorrect == Spec => []Shape
<1>1. Shape /\ [Next]_vars => Shape'
  <2>1. CASE UNCHANGED vars
    BY <2>1 DEF vars, tableVars, Shape, TypeOK, UserState, ResizeState, GraceCovers
  <2> QED
    BY <2>1, ShapeCommand, ShapeResize, ShapeUserStep DEF Next
<1> QED
  BY <1>1, ShapeInit, PTL DEF Spec

\* Every variable of the engine keeps its type, whatever packets, commands, the
\* gc work, dumps and the resize do
THEOREM TypeCorrect == Spec => []TypeOK
<1>1. Shape => TypeOK
  BY DEF Shape
<1> QED
  BY <1>1, ShapeCorrect, PTL

\* While mtype_resize walks h->ad without set->lock no packet is left that
\* could save another operation
THEOREM ReplayAloneCorrect == Spec => []ReplayAlone
<1>1. Shape => ReplayAlone
  BY DEF Shape, GraceCovers, ReplayAlone
<1> QED
  BY <1>1, ShapeCorrect, PTL

----------------------------------------------------------------------------
(* The life of the tables                                                  *)

\* The table that can get users next, or the one being filled, is not marked
RefMarks ==
    \A t \in memory : ref[t] = 0 <=> t = IF resize.pc = "copy" THEN resize.new ELSE table

\* A new table is not the old one, and nobody has seen it while it is filled
NewUnused ==
    /\ resize.pc \in {"copy", "sync", "replay"} => resize.orig # resize.new
    /\ resize.pc = "copy" => \A u \in Users : user[u].t # resize.new

\* A user that was the last one for a moment is in the current table, which
\* no resize has marked, or it is the only one to destroy its table
LastLeavers ==
    \A u \in Users : user[u].pc = "check" =>
       /\ user[u].t \in memory
       /\ user[u].t = table => resize.pc # "copy"
       /\ user[u].t # table => ref[user[u].t] = 1 /\ uref[user[u].t] = 0
       /\ user[u].t # table =>
             \A v \in Users : user[v].pc = "check" /\ user[v].t = user[u].t => v = u

LifeInv ==
    /\ TableAlive /\ UrefExact /\ NoTableLost
    /\ RefMarks /\ NewUnused /\ LastLeavers

LEMMA UsingFinite == \A t : IsFiniteSet(Using(t)) /\ Cardinality(Using(t)) \in Nat
<1> TAKE t
<1>1. Using(t) \subseteq Users /\ IsFiniteSet(Users)
  BY HashAssumption DEF Using
<1> QED
  BY <1>1, FS_Subset, FS_CardinalityType

\* A table is used exactly when its counter is above what the resize holds
LEMMA UsingCounts ==
    ASSUME UrefExact, NEW t \in memory
    PROVE  /\ \A u \in Using(t) : uref[t] >= 1 /\ (resize.orig = t => uref[t] >= 2)
           /\ resize.orig = t => uref[t] >= 1
           /\ \A u, v \in Using(t) : u # v => uref[t] >= 2
           /\ uref[t] = 1 => resize.orig = t \/ \E u \in Using(t) : Using(t) = {u}
           /\ uref[t] \in Nat
           /\ resize.orig # t => uref[t] = Cardinality(Using(t))
<1> DEFINE U == Using(t)
<1>1. IsFiniteSet(U) /\ Cardinality(U) \in Nat
  BY UsingFinite
<1>2. uref[t] = Cardinality(U) + IF resize.orig = t THEN 1 ELSE 0
  BY DEF UrefExact
<1>3. \A u \in U : Cardinality(U \ {u}) = Cardinality(U) - 1 /\ Cardinality(U \ {u}) \in Nat
                   /\ IsFiniteSet(U \ {u})
  BY <1>1, FS_RemoveElement, FS_CardinalityType
<1>4. \A u, v \in U : u # v => Cardinality(U \ {u}) >= 1
  <2> TAKE u, v \in U
  <2> HAVE u # v
  <2>1. Cardinality((U \ {u}) \ {v}) = Cardinality(U \ {u}) - 1
        /\ Cardinality((U \ {u}) \ {v}) \in Nat
    <3>1. v \in U \ {u} /\ IsFiniteSet(U \ {u})
      BY <1>3
    <3> QED
      BY <3>1, FS_RemoveElement, FS_CardinalityType
  <2> QED
    BY <1>3, <2>1
<1>5. Cardinality(U) = 0 <=> U = {}
  BY <1>1, FS_EmptySet
<1>6. Cardinality(U) = 1 => \E u \in U : U = {u}
  <2> SUFFICES ASSUME Cardinality(U) = 1 PROVE \E u \in U : U = {u}
    OBVIOUS
  <2>1. PICK u \in U : TRUE
    BY <1>5
  <2>2. ASSUME NEW v \in U, v # u PROVE FALSE
    <3>1. Cardinality(U \ {u}) = 0 /\ Cardinality(U \ {u}) >= 1
      BY <1>3, <1>4, <2>2
    <3> QED
      BY <3>1
  <2> QED
    BY <2>1, <2>2
<1> DEFINE c == Cardinality(U)
           n == uref[t]
           k == IF resize.orig = t THEN 1 ELSE 0
<1>7. \A u \in U : c >= 1
  <2> TAKE u \in U
  <2> DEFINE d == Cardinality(U \ {u})
  <2>1. d = c - 1 /\ d \in Nat /\ c \in Nat
    BY <1>1, <1>3
  <2> HIDE DEF d, c
  <2> QED
    BY <2>1
<1>8. \A u, v \in U : u # v => c >= 2
  <2> TAKE u, v \in U
  <2> HAVE u # v
  <2> DEFINE d == Cardinality(U \ {u})
  <2>1. d = c - 1 /\ d >= 1 /\ c \in Nat
    BY <1>1, <1>3, <1>4
  <2> HIDE DEF d, c
  <2> QED
    BY <2>1
<1>9. n = c + k /\ c \in Nat /\ k \in {0, 1} /\ (resize.orig = t <=> k = 1)
  BY <1>1, <1>2
<1>10. c = 1 => \E u \in U : U = {u}
  BY <1>6
<1> HIDE DEF U, c, n, k
<1>11. /\ \A u \in U : n >= 1 /\ (resize.orig = t => n >= 2)
       /\ resize.orig = t => n >= 1
       /\ n \in Nat
       /\ resize.orig # t => n = c
  BY <1>7, <1>9
<1>12. \A u, v \in U : u # v => n >= 2
  BY <1>8, <1>9
<1>13. n = 1 => resize.orig = t \/ \E u \in U : U = {u}
  BY <1>9, <1>10
<1> QED
  BY <1>11, <1>12, <1>13 DEF U, c, n

\* Nobody is about to destroy a table that a resize works with
LEMMA LeaverApart ==
    ASSUME Shape, LifeInv, NEW u \in Users, user[u].pc = "check"
    PROVE  /\ user[u].t \in memory /\ user[u].t # resize.orig
           /\ resize.pc = "copy" => user[u].t # table /\ user[u].t # resize.new
           /\ user[u].t # table =>
                 /\ user[u].t # resize.new /\ Using(user[u].t) = {}
                 /\ ref[user[u].t] = 1 /\ uref[user[u].t] = 0
                 /\ \A v \in Users : user[v].pc = "check" /\ user[v].t = user[u].t => v = u
<1> DEFINE t == user[u].t
<1>1. /\ t \in memory /\ (t = table => resize.pc # "copy")
      /\ t # table => ref[t] = 1 /\ uref[t] = 0
      /\ t # table => \A v \in Users : user[v].pc = "check" /\ user[v].t = t => v = u
  BY DEF LifeInv, LastLeavers
<1>2. resize.pc = "copy" => t # resize.new
  BY DEF LifeInv, NewUnused
<1> HIDE DEF t
<1>3. t # table => resize.orig # t /\ Using(t) = {}
  BY <1>1, UsingCounts DEF LifeInv
<1>4. resize \in ResizeType /\ t # NULL
  BY <1>1, HashAssumption DEF Shape, TypeOK
<1>5. /\ resize.pc \in {"idle", "retry"} => resize.orig = NULL /\ resize.new = NULL
      /\ resize.pc \in {"sync", "replay"} => table = resize.new /\ resize.orig # resize.new
  BY DEF Shape, ResizeState, LifeInv, NewUnused
<1>6. resize.pc \in {"idle", "copy", "retry", "sync", "replay"}
  BY <1>4 DEF ResizeType
<1>7. t # resize.orig
  BY <1>1, <1>3, <1>4, <1>5, <1>6
<1>8. t # table => t # resize.new
  BY <1>2, <1>4, <1>5, <1>6
<1> QED
  BY <1>1, <1>2, <1>3, <1>7, <1>8 DEF t

LEMMA LifeInit == Init => LifeInv
<1> SUFFICES ASSUME Init PROVE LifeInv
  OBVIOUS
<1>1. TableAlive /\ NoTableLost /\ RefMarks /\ NewUnused /\ LastLeavers
  BY DEF Init, NoResize, NoUser, TableAlive, NoTableLost, RefMarks, NewUnused, LastLeavers
<1>2. UrefExact
  <2>1. \A t \in Tables : Using(t) = {}
    BY HashAssumption DEF Init, NoUser, Using
  <2>2. \A t \in memory : resize.orig # t /\ uref[t] = 0 /\ t \in Tables
    BY HashAssumption DEF Init, NoResize
  <2>3. Cardinality({}) = 0
    BY FS_EmptySet
  <2> QED
    BY <2>1, <2>2, <2>3 DEF UrefExact
<1> QED
  BY <1>1, <1>2 DEF LifeInv

\* What a table holds does not matter to its life
LEMMA LifeFrame ==
    ASSUME LifeInv, UNCHANGED <<tableVars, user>>, resize'.pc = resize.pc,
           resize'.orig = resize.orig, resize'.new = resize.new
    PROVE  LifeInv'
BY DEF LifeInv, TableAlive, UrefExact, Using, NoTableLost, RefMarks, NewUnused, LastLeavers, tableVars

LEMMA LifeResize ==
    ASSUME Shape, LifeInv, (Quiet /\ \E t \in Tables : ResizeStart(t)) \/ ResizeOn
    PROVE  LifeInv'
<1> USE DEF tableVars
<1>t. /\ resize \in ResizeType /\ user \in [Users -> UserType] /\ memory \subseteq Tables
      /\ ref \in [Tables -> {0, 1}] /\ uref \in [Tables -> Int] /\ table \in Tables
  BY DEF Shape, TypeOK
<1>n. NULL \notin Tables
  BY HashAssumption
<1>1. ASSUME Quiet, NEW t \in Tables, ResizeStart(t)
      PROVE  LifeInv'
  <2>1. /\ resize'.pc = "copy" /\ resize'.orig = table /\ resize'.new = t
        /\ resize.orig = NULL /\ resize.new = NULL /\ resize.pc \in {"idle", "retry"}
        /\ t \notin memory /\ memory' = memory \cup {t}
        /\ UNCHANGED <<table, user>>
    BY <1>1, <1>t DEF ResizeStart, NoResize, Shape, ResizeState, LifeInv, NewUnused
  <2>2. \A s \in Tables : /\ ref'[s] = IF s = table THEN 1 ELSE IF s = t THEN 0 ELSE ref[s]
                          /\ uref'[s] = IF s = table THEN uref[s] + 1
                                         ELSE IF s = t THEN 0 ELSE uref[s]
    <3>1. /\ ref' = [s \in Tables |-> IF s = table THEN 1 ELSE IF s = t THEN 0 ELSE ref[s]]
          /\ uref' = [s \in Tables |-> IF s = table THEN uref[s] + 1
                                       ELSE IF s = t THEN 0 ELSE uref[s]]
      BY <1>1 DEF ResizeStart
    <3> QED
      BY <3>1
  <2>3. \A u \in Users : user[u].t # t
    <3>1. \A u \in Users : user[u].t \in memory \/ user[u].t = NULL
      BY <1>t DEF LifeInv, TableAlive, LastLeavers, UserType, Shape, UserState, NoUser
    <3> QED
      BY <2>1, <3>1, <1>n
  <2>4. TableAlive'
    BY <2>1 DEF LifeInv, TableAlive
  <2>5. NewUnused' /\ NoTableLost'
    <3>1. NewUnused'
      BY <2>1, <2>3 DEF NewUnused, LifeInv, TableAlive
    <3>2. \A s \in memory : s # NULL
      BY <1>t, <1>n
    <3>3. NoTableLost'
      BY <2>1, <3>2 DEF LifeInv, NoTableLost
    <3> QED
      BY <3>1, <3>3
  <2>6. RefMarks'
    <3>1. ASSUME NEW s \in memory'
          PROVE  ref'[s] = 0 <=> s = t
      <4>1. CASE s = t
        <5>1. table # t /\ s \in Tables
          BY <2>1, <4>1 DEF LifeInv, TableAlive
        <5> QED
          BY <2>2, <4>1, <5>1
      <4>2. CASE s # t
        <5>1. s \in memory /\ s \in Tables
          BY <1>t, <2>1, <4>2
        <5>2. ref[s] = 0 <=> s = table
          BY <2>1, <5>1 DEF LifeInv, RefMarks
        <5> QED
          BY <2>2, <4>2, <5>1, <5>2
      <4> QED
        BY <4>1, <4>2
    <3> QED
      BY <2>1, <3>1 DEF RefMarks
  <2>7. UrefExact'
    <3>1. \A s : Using(s)' = Using(s)
      BY <2>1 DEF Using
    <3>2. Using(t) = {} /\ Cardinality({}) = 0
      BY <2>3, FS_EmptySet DEF Using
    <3>3. \A s \in memory : s \in Tables /\ s # NULL /\ uref[s] = Cardinality(Using(s))
      BY <1>t, <1>n, <2>1, UsingCounts DEF LifeInv
    <3>4. ASSUME NEW s \in memory'
          PROVE  uref'[s] = Cardinality(Using(s)) + IF table = s THEN 1 ELSE 0
      <4>1. CASE s = t
        <5>1. table # t
          BY <2>1 DEF LifeInv, TableAlive
        <5>2. uref'[s] = 0
          BY <2>2, <4>1, <5>1
        <5> QED
          BY <3>2, <4>1, <5>1, <5>2
      <4>2. CASE s \in memory
        <5>1. s # t /\ s \in Tables
          BY <1>t, <2>1, <4>2
        <5>2. uref'[s] = IF s = table THEN uref[s] + 1 ELSE uref[s]
          BY <2>2, <5>1
        <5>3. uref[s] = Cardinality(Using(s)) /\ Cardinality(Using(s)) \in Nat
          BY <3>3, <4>2, UsingFinite
        <5> DEFINE c == Cardinality(Using(s))
        <5>4. uref[s] = c /\ c \in Nat /\ uref'[s] = c + IF table = s THEN 1 ELSE 0
          <6> HIDE DEF c
          <6> SUFFICES uref[s] = c /\ c \in Nat
            BY <5>2
          <6> QED
            BY <5>3 DEF c
        <5> QED
          BY <5>4
      <4> QED
        BY <2>1, <4>1, <4>2
    <3> QED
      BY <2>1, <3>1, <3>4 DEF UrefExact
  <2>8. LastLeavers'
    <3>1. ASSUME NEW u \in Users, user[u].pc = "check"
          PROVE  /\ user[u].t # table
                 /\ user[u].t \in memory' /\ ref'[user[u].t] = 1 /\ uref'[user[u].t] = 0
                 /\ \A v \in Users : user[v].pc = "check" /\ user[v].t = user[u].t => v = u
      <4>1. user[u].t # table /\ user[u].t # t
        BY <1>1, <2>3, <3>1 DEF Quiet
      <4>2. /\ user[u].t \in memory /\ ref[user[u].t] = 1 /\ uref[user[u].t] = 0
            /\ \A v \in Users : user[v].pc = "check" /\ user[v].t = user[u].t => v = u
        BY <3>1, <4>1, LeaverApart
      <4>3. user[u].t \in Tables /\ user[u].t \in memory'
        BY <1>t, <2>1, <4>1, <4>2
      <4>4. ref'[user[u].t] = ref[user[u].t] /\ uref'[user[u].t] = uref[user[u].t]
        BY <2>2, <4>1, <4>3
      <4> QED
        BY <4>1, <4>2, <4>3, <4>4
    <3> QED
      BY <2>1, <3>1 DEF LastLeavers
  <2> QED
    BY <2>4, <2>5, <2>6, <2>7, <2>8 DEF LifeInv
<1>2. ASSUME NEW bucket \in SUBSET Elems, ResizeBucket(bucket)
      PROVE  LifeInv'
  BY <1>2, <1>t, LifeFrame DEF ResizeBucket, ResizeType
<1>3. ASSUME NEW x \in Elems, NEW before \in BOOLEAN, ResizeCopy(x, before)
      PROVE  LifeInv'
  BY <1>3, <1>t, LifeFrame DEF ResizeCopy, ResizeType
<1>4. ASSUME NEW fault \in {"nomem", "full"}, ResizeFail(fault)
      PROVE  LifeInv'
  <2> DEFINE orig == resize.orig
  <2>1. /\ resize.pc = "copy" /\ orig = table /\ resize.new \in Tables /\ orig # resize.new
        /\ memory' = memory \ {resize.new} /\ UNCHANGED <<table, user>>
        /\ resize'.pc \in {"idle", "retry"} /\ resize'.orig = NULL /\ resize'.new = NULL
    BY <1>4 DEF ResizeFail, NoResize, Shape, ResizeState, LifeInv, NewUnused
  <2>2. \A s \in Tables : /\ ref'[s] = IF s = table THEN 0 ELSE ref[s]
                          /\ uref'[s] = IF s = table THEN uref[s] - 1 ELSE uref[s]
    <3>1. ref' = [ref EXCEPT ![table] = 0] /\ uref' = [uref EXCEPT ![table] = @ - 1]
      BY <1>4, <2>1 DEF ResizeFail
    <3>2. \A s \in Tables : ref'[s] = IF s = table THEN 0 ELSE ref[s]
      BY <1>t, <3>1
    <3>3. \A s \in Tables : uref'[s] = IF s = table THEN uref[s] - 1 ELSE uref[s]
      BY <1>t, <3>1
    <3> QED
      BY <3>2, <3>3
  <2>3. \A u \in Users : user[u].t # resize.new
    BY <2>1 DEF LifeInv, NewUnused
  <2>4. TableAlive' /\ NewUnused' /\ NoTableLost'
    BY <2>1, <2>3 DEF LifeInv, TableAlive, NewUnused, NoTableLost
  <2>5. RefMarks'
    <3>1. ASSUME NEW s \in memory'
          PROVE  ref'[s] = 0 <=> s = table
      <4>1. s \in memory /\ s \in Tables /\ s # resize.new
        BY <1>t, <2>1
      <4>2. ref[s] # 0
        BY <2>1, <4>1 DEF LifeInv, RefMarks
      <4> QED
        BY <2>2, <4>1, <4>2
    <3> QED
      BY <2>1, <3>1 DEF RefMarks
  <2>6. UrefExact'
    <3>1. \A s : Using(s)' = Using(s) /\ Cardinality(Using(s)) \in Nat
      BY <2>1, UsingFinite DEF Using
    <3>2. ASSUME NEW s \in memory'
          PROVE  uref'[s] = Cardinality(Using(s)) /\ s # NULL
      <4> DEFINE c == Cardinality(Using(s))
      <4>1. s \in memory /\ s \in Tables
        BY <1>t, <2>1
      <4>2. c \in Nat /\ uref[s] = c + IF s = table THEN 1 ELSE 0
        BY <2>1, <3>1, <4>1 DEF LifeInv, UrefExact
      <4>3. uref'[s] = IF s = table THEN uref[s] - 1 ELSE uref[s]
        BY <2>2, <4>1
      <4> HIDE DEF c
      <4>4. uref'[s] = c
        BY <4>2, <4>3
      <4> QED
        BY <1>n, <4>1, <4>4 DEF c
    <3> QED
      BY <2>1, <3>1, <3>2 DEF UrefExact
  <2>7. LastLeavers'
    <3>1. ASSUME NEW u \in Users, user[u].pc = "check"
          PROVE  /\ user[u].t \in memory' /\ ref'[user[u].t] = 1 /\ uref'[user[u].t] = 0
                 /\ \A v \in Users : user[v].pc = "check" /\ user[v].t = user[u].t => v = u
      <4>1. user[u].t # table /\ user[u].t # resize.new
        BY <2>1, <2>3, <3>1, LeaverApart
      <4>2. /\ user[u].t \in memory /\ ref[user[u].t] = 1 /\ uref[user[u].t] = 0
            /\ \A v \in Users : user[v].pc = "check" /\ user[v].t = user[u].t => v = u
        BY <3>1, <4>1, LeaverApart
      <4>3. user[u].t \in Tables /\ user[u].t \in memory'
        BY <1>t, <2>1, <4>1, <4>2
      <4>4. ref'[user[u].t] = ref[user[u].t] /\ uref'[user[u].t] = uref[user[u].t]
        BY <2>2, <4>1, <4>3
      <4> QED
        BY <4>2, <4>3, <4>4
    <3> QED
      BY <2>1, <3>1 DEF LastLeavers
  <2> QED
    BY <2>4, <2>5, <2>6, <2>7 DEF LifeInv
<1>5. CASE ResizeGiveUp
  <2>1. /\ resize.pc = "retry" /\ resize'.pc = "idle" /\ resize'.orig = resize.orig
        /\ resize'.new = resize.new /\ UNCHANGED <<tableVars, user>>
    BY <1>5 DEF ResizeGiveUp, NoResize, Shape, ResizeState, LifeInv, NewUnused
  <2>2. TableAlive' /\ NoTableLost' /\ RefMarks' /\ NewUnused' /\ LastLeavers'
    BY <2>1 DEF LifeInv, TableAlive, NoTableLost, RefMarks, NewUnused, LastLeavers
  <2>3. UrefExact'
    BY <2>1 DEF LifeInv, UrefExact, Using
  <2> QED
    BY <2>2, <2>3 DEF LifeInv
<1>6. CASE ResizePublish
  <2>1. /\ resize.pc = "copy" /\ resize'.pc = "sync" /\ resize'.orig = resize.orig
        /\ resize'.new = resize.new /\ table' = resize.new
        /\ resize.orig \in Tables /\ resize.new \in Tables /\ table = resize.orig
        /\ UNCHANGED <<memory, ref, uref, user>>
    BY <1>6, <1>t DEF ResizePublish, ResizeType, Shape, ResizeState, LifeInv, NewUnused
  <2>2. TableAlive' /\ NoTableLost' /\ RefMarks' /\ NewUnused'
    BY <2>1 DEF LifeInv, TableAlive, NoTableLost, RefMarks, NewUnused
  <2>3. LastLeavers'
    BY <2>1, LeaverApart DEF LastLeavers
  <2>4. UrefExact'
    BY <2>1 DEF LifeInv, UrefExact, Using
  <2> QED
    BY <2>2, <2>3, <2>4 DEF LifeInv
<1>7. CASE ResizeSync
  <2>1. /\ resize.pc = "sync" /\ resize'.pc = "replay" /\ resize'.orig = resize.orig
        /\ resize'.new = resize.new /\ UNCHANGED <<tableVars, user>>
    BY <1>7, <1>t DEF ResizeSync, ResizeType
  <2>2. TableAlive' /\ NoTableLost' /\ RefMarks' /\ NewUnused' /\ LastLeavers'
    BY <2>1 DEF LifeInv, TableAlive, NoTableLost, RefMarks, NewUnused, LastLeavers
  <2>3. UrefExact'
    BY <2>1 DEF LifeInv, UrefExact, Using
  <2> QED
    BY <2>2, <2>3 DEF LifeInv
<1>8. CASE ResizeReplay
  BY <1>8, LifeFrame DEF ResizeReplay
<1>9. CASE ResizeDone
  <2> DEFINE orig == resize.orig
  <2>1. /\ resize.pc = "replay" /\ orig \in Tables /\ orig # resize.new /\ table = resize.new
        /\ resize'.pc = "idle" /\ resize'.orig = NULL /\ resize'.new = NULL
        /\ UNCHANGED <<table, ref, user>>
        /\ memory' = IF uref[orig] = 1 THEN memory \ {orig} ELSE memory
    BY <1>9 DEF ResizeDone, DropUref, NoResize, Shape, ResizeState, LifeInv, NewUnused
  <2>2. \A s \in Tables : uref'[s] = IF s = orig THEN uref[s] - 1 ELSE uref[s]
    BY <1>9, <1>t, <2>1 DEF ResizeDone, DropUref
  <2>3. orig \in memory
    BY <2>1 DEF LifeInv, TableAlive
  <2>4. /\ \A u \in Using(orig) : uref[orig] >= 2
        /\ uref[orig] \in Nat /\ uref[orig] >= 1
    BY <2>3, UsingCounts DEF LifeInv
  <2>5. TableAlive'
    <3>1. ASSUME NEW u \in Users, user[u].pc \in {"have", "log", "put"}, user[u].t = orig
          PROVE  uref[orig] # 1
      BY <2>4, <3>1 DEF Using
    <3> QED
      BY <2>1, <3>1 DEF LifeInv, TableAlive
  <2>6. NoTableLost'
    <3>1. uref[orig] # 1 => \E u \in Users : user[u].t = orig
      <4>1. SUFFICES ASSUME Using(orig) = {} PROVE uref[orig] = 1
        BY DEF Using
      <4>2. Cardinality({}) = 0
        BY FS_EmptySet
      <4> QED
        BY <2>3, <4>1, <4>2 DEF LifeInv, UrefExact
    <3> QED
      BY <2>1, <3>1 DEF LifeInv, NoTableLost
  <2>7. RefMarks' /\ NewUnused'
    BY <2>1 DEF LifeInv, RefMarks, NewUnused
  <2>8. UrefExact'
    <3>1. \A s : Using(s)' = Using(s) /\ Cardinality(Using(s)) \in Nat
      BY <2>1, UsingFinite DEF Using
    <3>2. ASSUME NEW s \in memory'
          PROVE  uref'[s] = Cardinality(Using(s)) /\ s # NULL
      <4> DEFINE c == Cardinality(Using(s))
      <4>1. s \in memory /\ s \in Tables
        BY <1>t, <2>1
      <4>2. c \in Nat /\ uref[s] = c + IF s = orig THEN 1 ELSE 0
        BY <2>1, <3>1, <4>1 DEF LifeInv, UrefExact
      <4>3. uref'[s] = IF s = orig THEN uref[s] - 1 ELSE uref[s]
        BY <2>2, <4>1
      <4> HIDE DEF c
      <4>4. uref'[s] = c
        BY <4>2, <4>3
      <4> QED
        BY <1>n, <4>1, <4>4 DEF c
    <3> QED
      BY <2>1, <3>1, <3>2 DEF UrefExact
  <2>9. LastLeavers'
    <3>1. ASSUME NEW u \in Users, user[u].pc = "check"
          PROVE  /\ user[u].t \in memory'
                 /\ user[u].t # table =>
                       /\ ref'[user[u].t] = 1 /\ uref'[user[u].t] = 0
                       /\ \A v \in Users : user[v].pc = "check" /\ user[v].t = user[u].t => v = u
      <4>1. user[u].t # orig /\ user[u].t \in memory
        BY <3>1, LeaverApart
      <4>2. user[u].t \in Tables /\ user[u].t \in memory'
        BY <1>t, <2>1, <4>1
      <4>3. uref'[user[u].t] = uref[user[u].t] /\ ref'[user[u].t] = ref[user[u].t]
        BY <2>1, <2>2, <4>1, <4>2
      <4> QED
        BY <3>1, <4>2, <4>3, LeaverApart
    <3> QED
      BY <2>1, <3>1 DEF LastLeavers
  <2> QED
    BY <2>5, <2>6, <2>7, <2>8, <2>9 DEF LifeInv
<1> QED
  BY <1>1, <1>2, <1>3, <1>4, <1>5, <1>6, <1>7, <1>8, <1>9 DEF ResizeOn

LEMMA LifeCommand == LifeInv /\ Command => LifeInv'
<1>1. Command => UNCHANGED <<tableVars, user, resize>>
  BY DEF Command, UserAdd, UserDel, Flush, FlushNets
<1> QED
  BY <1>1, LifeFrame

\* A user that only goes on in its table stays counted
LEMMA LifeGo ==
    ASSUME Shape, LifeInv, NEW u \in Users, NEW pc \in {"log", "put"}, Go(u, pc),
           user[u].pc \in {"have", "log"}, UNCHANGED <<tableVars, resize>>
    PROVE  LifeInv'
<1>t. user \in [Users -> UserType]
  BY DEF Shape, TypeOK
<1>1. /\ user'[u].pc = pc /\ user'[u].t = user[u].t
      /\ \A v \in Users : v # u => user'[v] = user[v]
  BY <1>t DEF Go, UserType
<1>2. \A v \in Users : /\ user'[v].t = user[v].t
                       /\ user'[v].pc = "check" <=> user[v].pc = "check"
                       /\ user'[v].pc \in {"have", "log", "put"} <=> user[v].pc \in {"have", "log", "put"}
  BY <1>1
<1>3. TableAlive' /\ NoTableLost' /\ RefMarks' /\ NewUnused' /\ LastLeavers'
  BY <1>2 DEF LifeInv, TableAlive, NoTableLost, RefMarks, NewUnused, LastLeavers, tableVars
<1>4. UrefExact'
  <2>1. \A s : Using(s)' = Using(s)
    BY <1>2 DEF Using
  <2> QED
    BY <2>1 DEF LifeInv, UrefExact, tableVars
<1> QED
  BY <1>3, <1>4 DEF LifeInv

LEMMA LifeGet ==
    ASSUME Shape, LifeInv, NEW u \in Users, NEW new \in UserType, Get(u, new)
    PROVE  LifeInv'
<1>t. /\ user \in [Users -> UserType] /\ uref \in [Tables -> Int] /\ table \in Tables
      /\ memory \subseteq Tables /\ NULL \notin Tables
  BY HashAssumption DEF Shape, TypeOK
<1>1. /\ user'[u].pc = "have" /\ user'[u].t = table
      /\ \A v \in Users : v # u => user'[v] = user[v]
      /\ user[u].pc = "idle" /\ user[u].t = NULL
      /\ UNCHANGED <<table, memory, ref, resize>>
  BY <1>t DEF Get, UserType, Shape, UserState, NoUser
<1>2. \A s \in Tables : uref'[s] = IF s = table THEN uref[s] + 1 ELSE uref[s]
  BY <1>t DEF Get
<1>3. TableAlive' /\ NoTableLost' /\ RefMarks'
  BY <1>1, <1>t DEF LifeInv, TableAlive, NoTableLost, RefMarks
<1>4. NewUnused'
  <2>1. resize.pc = "copy" => table # resize.new
    BY DEF Shape, ResizeState, LifeInv, NewUnused
  <2> QED
    BY <1>1, <2>1 DEF LifeInv, NewUnused
<1>5. UrefExact'
  <2>1. ASSUME NEW s \in memory
        PROVE  uref'[s] = Cardinality(Using(s)') + IF resize.orig = s THEN 1 ELSE 0
    <3> DEFINE c == Cardinality(Using(s))
               k == IF resize.orig = s THEN 1 ELSE 0
    <3>1. uref[s] = c + k /\ c \in Nat /\ k \in {0, 1}
      BY UsingFinite DEF LifeInv, UrefExact
    <3>2. CASE s = table
      <4>1. Using(s)' = Using(s) \cup {u} /\ u \notin Using(s)
        BY <1>1, <3>2 DEF Using
      <4>2. Cardinality(Using(s)') = c + 1
        BY <4>1, UsingFinite, FS_AddElement
      <4>3. uref'[s] = uref[s] + 1
        BY <1>t, <1>2, <3>2
      <4> HIDE DEF c, k
      <4>4. uref'[s] = (c + 1) + k
        BY <3>1, <4>3
      <4> QED
        BY <4>2, <4>4 DEF k
    <3>3. CASE s # table
      <4>1. Using(s)' = Using(s)
        BY <1>1, <1>t, <3>3 DEF Using
      <4>2. uref'[s] = uref[s]
        BY <1>t, <1>2, <3>3
      <4> QED
        BY <3>1, <4>1, <4>2
    <3> QED
      BY <3>2, <3>3
  <2> QED
    BY <1>1, <2>1 DEF UrefExact
<1>6. LastLeavers'
  <2>1. \A v \in Users : user'[v].pc = "check" => user[v].pc = "check" /\ user'[v].t = user[v].t
    BY <1>1
  <2>2. \A v \in Users : user'[v].pc = "check" =>
           user'[v].t \in Tables /\ (user'[v].t # table => uref'[user'[v].t] = uref[user'[v].t])
    BY <1>t, <1>2, <2>1, LeaverApart
  <2> QED
    BY <1>1, <2>1, <2>2 DEF LastLeavers, LifeInv
<1> QED
  BY <1>3, <1>4, <1>5, <1>6 DEF LifeInv

\* A user that leaves was counted; when it is the last one it goes on to look
\* whether the table was replaced
LEMMA LifePut ==
    ASSUME Shape, LifeInv, NEW u \in Users, Put(u)
    PROVE  LifeInv'
<1> DEFINE t == user[u].t
<1>t. /\ user \in [Users -> UserType] /\ uref \in [Tables -> Int] /\ resize \in ResizeType
      /\ ref \in [Tables -> {0, 1}] /\ memory \subseteq Tables /\ NULL \notin Tables
  BY HashAssumption DEF Shape, TypeOK
<1>1. /\ user[u].pc = "put" /\ t \in memory /\ t \in Tables /\ u \in Using(t)
      /\ resize'.pc = resize.pc /\ resize'.orig = resize.orig /\ resize'.new = resize.new
      /\ UNCHANGED <<table, memory, ref>>
  BY <1>t DEF Put, Leave, ResizeType, LifeInv, TableAlive, Using
<1>2. \A s \in Tables : uref'[s] = IF s = t THEN uref[s] - 1 ELSE uref[s]
  <2>1. uref' = [uref EXCEPT ![t] = @ - 1]
    BY DEF Put
  <2> HIDE DEF t
  <2> QED
    BY <1>t, <1>1, <2>1
<1>3. /\ \A v \in Users : v # u => user'[v] = user[v]
      /\ \/ uref[t] = 1 /\ user'[u].pc = "check" /\ user'[u].t = t
         \/ uref[t] # 1 /\ user'[u] = NoUser
  <2>1. \/ uref[t] = 1 /\ Go(u, "check")
        \/ uref[t] # 1 /\ user' = [user EXCEPT ![u] = NoUser]
    BY DEF Put
  <2>2. CASE uref[t] = 1 /\ Go(u, "check")
    BY <1>t, <2>2 DEF Go, UserType
  <2>3. CASE uref[t] # 1 /\ user' = [user EXCEPT ![u] = NoUser]
    BY <1>t, <2>3
  <2> QED
    BY <2>1, <2>2, <2>3
<1> HIDE DEF t
<1>4. TableAlive'
  BY <1>1, <1>3 DEF LifeInv, TableAlive, NoUser
<1>5. RefMarks'
  BY <1>1 DEF LifeInv, RefMarks
<1>6. NewUnused'
  <2>1. resize.pc = "copy" => t # resize.new /\ resize.new \in Tables
    BY DEF LifeInv, NewUnused, Shape, ResizeState, t
  <2> QED
    BY <1>t, <1>1, <1>3, <2>1 DEF LifeInv, NewUnused, NoUser
<1>7. UrefExact'
  <2>1. ASSUME NEW s \in memory
        PROVE  uref'[s] = Cardinality(Using(s)') + IF resize.orig = s THEN 1 ELSE 0
    <3> DEFINE c == Cardinality(Using(s))
               k == IF resize.orig = s THEN 1 ELSE 0
    <3>1. uref[s] = c + k /\ c \in Nat /\ k \in {0, 1}
      BY UsingFinite DEF LifeInv, UrefExact
    <3>2. CASE s = t
      <4>1. Using(s)' = Using(s) \ {u} /\ u \in Using(s)
        BY <1>1, <1>3, <3>2 DEF Using, NoUser
      <4>2. Cardinality(Using(s)') = c - 1
        BY <4>1, UsingFinite, FS_RemoveElement
      <4>3. uref'[s] = uref[s] - 1
        BY <1>1, <1>2, <3>2
      <4> HIDE DEF c, k
      <4>4. uref'[s] = (c - 1) + k
        BY <3>1, <4>3
      <4> QED
        BY <4>2, <4>4 DEF k
    <3>3. CASE s # t
      <4>1. Using(s)' = Using(s)
        BY <1>1, <1>3, <1>t, <3>3 DEF Using, NoUser, t
      <4>2. uref'[s] = uref[s]
        BY <1>t, <1>2, <3>3
      <4> QED
        BY <3>1, <4>1, <4>2
    <3> QED
      BY <3>2, <3>3
  <2> QED
    BY <1>1, <2>1 DEF UrefExact
<1>8. NoTableLost'
  <2>1. ASSUME NEW s \in memory
        PROVE  s = table \/ s = resize.new \/ resize.orig = s \/ \E v \in Users : user'[v].t = s
    <3>1. CASE s # t
      BY <1>3, <3>1 DEF LifeInv, NoTableLost, t
    <3>2. CASE s = t /\ user'[u].t = t
      BY <3>2
    <3>3. CASE s = t /\ uref[t] # 1 /\ resize.orig # t
      <4>1. Using(t) # {u}
        <5>1. uref[t] = Cardinality(Using(t))
          BY <1>1, <3>3, UsingCounts DEF LifeInv
        <5>2. Cardinality({u}) = 1
          BY FS_Singleton
        <5> QED
          BY <3>3, <5>1, <5>2
      <4>2. PICK v \in Using(t) : v # u
        BY <1>1, <4>1
      <4> QED
        BY <1>3, <3>3, <4>2 DEF Using
    <3> QED
      BY <1>3, <3>1, <3>2, <3>3
  <2> QED
    BY <1>1, <2>1 DEF NoTableLost
<1>9. LastLeavers'
  <2>1. ASSUME NEW v \in Users, user[v].pc = "check", user[v].t # table
        PROVE  user[v].t # t /\ user[v].t \in Tables /\ uref'[user[v].t] = uref[user[v].t]
    <3>1. user[v].t # t /\ user[v].t \in Tables
      BY <1>t, <1>1, <2>1, LeaverApart
    <3> QED
      BY <1>t, <1>2, <3>1
  <2>2. ASSUME user'[u].pc = "check"
        PROVE  /\ user'[u].t = t /\ uref'[t] = 0
               /\ t = table => resize.pc # "copy"
               /\ t # table => ref[t] = 1
    <3>1. user'[u].t = t /\ uref[t] = 1
      BY <1>3, <2>2 DEF NoUser
    <3>2. uref'[t] = 0
      BY <1>1, <1>2, <3>1
    <3>3. t = table => resize.pc # "copy"
      <4>1. resize.orig # t
        BY <1>1, <3>1, UsingCounts DEF LifeInv
      <4> QED
        BY <4>1 DEF Shape, ResizeState
    <3>4. t # table => ref[t] = 1
      <4>1. resize.pc = "copy" => t # resize.new
        BY DEF LifeInv, NewUnused, t
      <4>2. ref[t] \in {0, 1}
        BY <1>t, <1>1
      <4> QED
        BY <1>1, <4>1, <4>2 DEF LifeInv, RefMarks
    <3> QED
      BY <3>1, <3>2, <3>3, <3>4
  <2>3. ASSUME NEW v \in Users, user'[v].pc = "check"
        PROVE  /\ user'[v].t \in memory
               /\ user'[v].t = table => resize.pc # "copy"
               /\ user'[v].t # table => ref[user'[v].t] = 1 /\ uref'[user'[v].t] = 0
               /\ user'[v].t # table =>
                     \A w \in Users : user'[w].pc = "check" /\ user'[w].t = user'[v].t => w = v
    <3>1. CASE v = u
      BY <1>1, <1>3, <2>1, <2>2, <2>3, <3>1
    <3>2. CASE v # u
      <4>1. user'[v] = user[v] /\ user[v].pc = "check"
        BY <1>3, <2>3, <3>2
      <4> QED
        BY <1>3, <2>1, <2>2, <4>1 DEF LifeInv, LastLeavers
    <3> QED
      BY <3>1, <3>2
  <2> QED
    BY <1>1, <2>3 DEF LastLeavers
<1> QED
  BY <1>4, <1>5, <1>6, <1>7, <1>8, <1>9 DEF LifeInv

LEMMA LifeCheck ==
    ASSUME Shape, LifeInv, NEW u \in Users, Check(u)
    PROVE  LifeInv'
<1> DEFINE t == user[u].t
<1>t. /\ user \in [Users -> UserType] /\ resize \in ResizeType
      /\ memory \subseteq Tables /\ NULL \notin Tables
  BY HashAssumption DEF Shape, TypeOK
<1>1. /\ user[u].pc = "check" /\ t \in memory /\ t # resize.orig
      /\ resize.pc = "copy" => t # table /\ t # resize.new
      /\ t # table => /\ t # resize.new /\ Using(t) = {} /\ ref[t] = 1
                      /\ \A v \in Users : user[v].pc = "check" /\ user[v].t = t => v = u
  BY LeaverApart DEF Check
<1>2. /\ resize'.pc = resize.pc /\ resize'.orig = resize.orig /\ resize'.new = resize.new
      /\ memory' = (IF ref[t] = 1 THEN memory \ {t} ELSE memory)
      /\ UNCHANGED <<table, ref, uref>>
  BY <1>t DEF Check, Leave, ResizeType, FreeTable
<1>3. user'[u] = NoUser /\ \A v \in Users : v # u => user'[v] = user[v]
  BY <1>t DEF Check
<1> HIDE DEF t
<1>m. t = table => memory' = memory
  <2>1. t = table => ref[t] = 0
    BY <1>1 DEF LifeInv, RefMarks
  <2> QED
    BY <1>2, <2>1
<1>4. TableAlive'
  <2>1. t # table => \A v \in Users : user[v].pc \in {"have", "log", "put"} => user[v].t # t
    BY <1>1 DEF Using
  <2> QED
    BY <1>1, <1>2, <1>3, <1>m, <2>1 DEF LifeInv, TableAlive, NoUser
<1>5. RefMarks'
  BY <1>2 DEF LifeInv, RefMarks
<1>6. NewUnused'
  <2>1. resize.pc = "copy" => resize.new \in Tables
    BY DEF Shape, ResizeState, LifeInv, NewUnused
  <2> QED
    BY <1>t, <1>2, <1>3, <2>1 DEF LifeInv, NewUnused, NoUser
<1>7. UrefExact'
  <2>1. \A s \in memory' : s \in memory /\ Using(s)' = Using(s)
    BY <1>t, <1>1, <1>2, <1>3 DEF Using, NoUser
  <2> QED
    BY <1>2, <2>1 DEF LifeInv, UrefExact
<1>8. NoTableLost'
  <2>1. ASSUME NEW s \in memory', s # t
        PROVE  s = table \/ s = resize.new \/ resize.orig = s \/ \E v \in Users : user'[v].t = s
    BY <1>2, <1>3, <2>1 DEF LifeInv, NoTableLost, t
  <2>2. t \in memory' => t = table
    BY <1>1, <1>2
  <2> QED
    BY <1>2, <2>1, <2>2 DEF NoTableLost
<1>9. LastLeavers'
  <2>1. ASSUME NEW v \in Users, user'[v].pc = "check"
        PROVE  v # u /\ user'[v] = user[v] /\ user[v].t \in memory'
    <3>1. v # u /\ user'[v] = user[v]
      BY <1>3, <2>1 DEF NoUser
    <3>2. user[v].t \in memory /\ (t # table => user[v].t # t)
      BY <1>1, <2>1, <3>1, LeaverApart
    <3> QED
      BY <1>2, <1>m, <3>1, <3>2
  <2> QED
    BY <1>2, <2>1 DEF LifeInv, LastLeavers
<1> QED
  BY <1>4, <1>5, <1>6, <1>7, <1>8, <1>9 DEF LifeInv

LEMMA LifeUserStep == Shape /\ LifeInv /\ UserStep => LifeInv'
<1> SUFFICES ASSUME Shape, LifeInv, UserStep PROVE LifeInv'
  OBVIOUS
<1> USE DEF tableVars
<1>p. Packets \subseteq Users /\ Dumpers \subseteq Users /\ "gc" \in Users
  BY DEF Users
<1>1. ASSUME NEW p \in Packets, NEW op \in {"add", "del"}, NEW x \in Elems, PacketGet(p, op, x)
      PROVE  LifeInv'
  <2>1. [NoUser EXCEPT !.op = op, !.x = x] \in UserType
    BY DEF NoUser, UserType
  <2> QED
    BY <1>1, <1>p, <2>1, LifeGet DEF PacketGet
<1>2. ASSUME NEW p \in Packets, PacketSweep(p)
      PROVE  LifeInv'
  BY <1>2, LifeFrame DEF PacketSweep
<1>3. ASSUME NEW p \in Packets, PacketAdd(p)
      PROVE  LifeInv'
  <2>1. PICK pc \in {"log", "put"} : Go(p, pc)
    BY <1>3 DEF PacketAdd
  <2> QED
    BY <1>3, <1>p, <2>1, LifeGo DEF PacketAdd
<1>4. ASSUME NEW p \in Packets, PacketDel(p)
      PROVE  LifeInv'
  <2>1. PICK pc \in {"log", "put"} : Go(p, pc)
    BY <1>4 DEF PacketDel
  <2> QED
    BY <1>4, <1>p, <2>1, LifeGo DEF PacketDel
<1>5. ASSUME NEW p \in Packets, PacketLog(p)
      PROVE  LifeInv'
  BY <1>5, <1>p, LifeGo DEF PacketLog
<1>6. ASSUME NEW x \in Elems, Expire(x)
      PROVE  LifeInv'
  <2>1. resize \in ResizeType
    BY DEF Shape, TypeOK
  <2> QED
    BY <1>6, <2>1, LifeFrame DEF Expire, ResizeType
<1>7. CASE GcGet
  <2>1. NoUser \in UserType
    BY DEF NoUser, UserType
  <2> QED
    BY <1>7, <1>p, <2>1, LifeGet DEF GcGet
<1>8. CASE GcDo
  BY <1>8, <1>p, LifeGo DEF GcDo
<1>9. ASSUME NEW d \in Dumpers, DumpGet(d)
      PROVE  LifeInv'
  <2>1. NoUser \in UserType
    BY DEF NoUser, UserType
  <2> QED
    BY <1>9, <1>p, <2>1, LifeGet DEF DumpGet
<1>10. ASSUME NEW d \in Dumpers, DumpEnd(d)
       PROVE  LifeInv'
  BY <1>10, <1>p, LifeGo DEF DumpEnd
<1> QED
  BY <1>1, <1>2, <1>3, <1>4, <1>5, <1>6, <1>7, <1>8, <1>9, <1>10, LifePut, LifeCheck DEF UserStep

\* The life of tables is inductive when no resize starts between the two
\* halves of a leave
LEMMA LifeNext == Shape /\ LifeInv /\ [QuietNext]_vars => (Shape /\ LifeInv)'
<1> SUFFICES ASSUME Shape, LifeInv, [QuietNext]_vars PROVE (Shape /\ LifeInv)'
  OBVIOUS
<1>1. CASE UNCHANGED vars
  <2>1. Shape'
    BY <1>1 DEF vars, tableVars, Shape, TypeOK, UserState, ResizeState, GraceCovers
  <2> QED
    BY <1>1, <2>1, LifeFrame DEF vars
<1>2. CASE Command
  BY <1>2, ShapeCommand, LifeCommand
<1>3. CASE (Quiet /\ \E t \in Tables : ResizeStart(t)) \/ ResizeOn
  BY <1>3, ShapeResize, LifeResize DEF Resize
<1>4. CASE UserStep
  BY <1>4, ShapeUserStep, LifeUserStep
<1> QED
  BY <1>1, <1>2, <1>3, <1>4 DEF QuietNext

THEOREM LifeCorrect == QuietSpec => [](Shape /\ LifeInv)
<1>1. Init => Shape /\ LifeInv
  BY ShapeInit, LifeInit
<1> QED
  BY <1>1, LifeNext, PTL DEF QuietSpec

\* t->uref counts the packets, dumps and gc runs inside a table and the resize
\* that replaces it
THEOREM UrefExactCorrect == QuietSpec => []UrefExact
<1>1. LifeInv => UrefExact
  BY DEF LifeInv
<1> QED
  BY <1>1, LifeCorrect, PTL

\* No table is freed that is current, being filled or replaced, or in use: the
\* two separate steps by which a user leaves destroy a table wrongly only when
\* a resize of it starts between them
THEOREM TableAliveCorrect == QuietSpec => []TableAlive
<1>1. LifeInv => TableAlive
  BY DEF LifeInv
<1> QED
  BY <1>1, LifeCorrect, PTL

\* Every allocated table is current, being filled or replaced, or has a user
\* left that will free it
THEOREM NoTableLostCorrect == QuietSpec => []NoTableLost
<1>1. LifeInv => NoTableLost
  BY DEF LifeInv
<1> QED
  BY <1>1, LifeCorrect, PTL
=============================================================================
