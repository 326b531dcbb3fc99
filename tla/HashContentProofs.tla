-------------------------- MODULE HashContentProofs --------------------------
(***************************************************************************)
(* Proofs about HashReplay: what a set holds after its resizes, and which  *)
(* prefix sizes h->nets knows, for every order of commands, packets, gc    *)
(* runs and timeouts, every failure, and any number of elements.           *)
(***************************************************************************)
EXTENDS HashReplay, HashResizeProofs

Live(t, x) == entry[t][x] = "live"

\* Packets are inside the current table, or leave the one that was replaced;
\* a delete that waits to be saved was done in a table that is replaced
PacketPlace ==
    \A p \in Packets : user[p].pc # "idle" =>
       /\ user[p].t = table \/ (resize.pc = "sync" /\ user[p].t = resize.orig)
       /\ resize.pc \in {"sync", "replay"} /\ user[p].pc = "log" /\ user[p].op = "del"
             => user[p].t # table

\* Deletes come before adds in h->ad
Ordered(s) ==
    \A i, j \in 1 .. Len(s) : i < j /\ s[i].op = "add" => s[j].op = "add"

\* Whether the new table has x is right, or will be by what is saved
Agrees(has, x) == Saves(x, "add") \/ Saves(x, "del") \/ (has <=> x \in want)

\* What the tables have of element x
Right(x) ==
    /\ resize.pc \in {"idle", "retry", "copy"} => (Live(table, x) <=> x \in want)
    /\ resize.pc = "copy" =>
          /\ x \in resize.todo \cup resize.bucket => ~ Live(resize.new, x)
          /\ x \in resize.bucket => Agrees(x \in resize.seen, x)
          /\ x \notin resize.todo \cup resize.bucket => Agrees(Live(resize.new, x), x)
    /\ resize.pc \in {"sync", "replay"} => Agrees(Live(resize.new, x), x)

ContentInv ==
    /\ PacketPlace /\ Ordered(ad)
    /\ resize.todo \cap resize.bucket = {}
    /\ \A x \in Elems \ muddled : InTurn(x) /\ Right(x)

----------------------------------------------------------------------------
(* Saved operations                                                        *)

Ops(s) == {s[i] : i \in 1 .. Len(s)}

LEMMA OperationsOf ==
    ASSUME NEW s \in Seq(OpType), NEW e \in OpType
    PROVE  /\ Ops(Append(s, e)) = Ops(s) \cup {e}
           /\ Ops(<<e>> \o s) = Ops(s) \cup {e}
           /\ s # <<>> => Ops(s) = Ops(Tail(s)) \cup {Head(s)} /\ Head(s) \in OpType
           /\ Ops(<<>>) = {}
<1>1. Ops(Append(s, e)) = Ops(s) \cup {e}
  <2>1. /\ Len(Append(s, e)) = Len(s) + 1 /\ Len(s) \in Nat
        /\ \A i \in 1 .. Len(s) : Append(s, e)[i] = s[i]
        /\ Append(s, e)[Len(s) + 1] = e
    OBVIOUS
  <2>2. 1 .. (Len(s) + 1) = (1 .. Len(s)) \cup {Len(s) + 1}
    BY <2>1
  <2> QED
    BY <2>1, <2>2 DEF Ops
<1>2. Ops(<<e>> \o s) = Ops(s) \cup {e}
  <2> DEFINE r == <<e>> \o s
  <2>1. /\ Len(r) = Len(s) + 1 /\ Len(s) \in Nat
        /\ r[1] = e /\ \A i \in 1 .. Len(s) : r[i + 1] = s[i]
    OBVIOUS
  <2> HIDE DEF r
  <2>2. \A j \in 1 .. Len(r) : j = 1 \/ (j - 1 \in 1 .. Len(s) /\ j = (j - 1) + 1)
    BY <2>1
  <2>3. 1 \in 1 .. Len(r) /\ \A i \in 1 .. Len(s) : i + 1 \in 1 .. Len(r)
    BY <2>1
  <2>4. Ops(r) \subseteq Ops(s) \cup {e}
    <3>1. ASSUME NEW j \in 1 .. Len(r), j # 1 PROVE r[j] \in Ops(s)
      <4>1. j - 1 \in 1 .. Len(s) /\ r[(j - 1) + 1] = s[j - 1] /\ (j - 1) + 1 = j
        BY <2>1, <2>2, <3>1
      <4> QED
        BY <4>1 DEF Ops
    <3> QED
      BY <2>1, <3>1 DEF Ops
  <2>5. Ops(s) \cup {e} \subseteq Ops(r)
    <3>1. r[1] \in Ops(r)
      BY <2>3 DEF Ops
    <3>2. ASSUME NEW i \in 1 .. Len(s) PROVE s[i] \in Ops(r)
      <4>1. i + 1 \in 1 .. Len(r) /\ r[i + 1] = s[i]
        BY <2>1, <2>3
      <4> QED
        BY <4>1 DEF Ops
    <3> QED
      BY <2>1, <3>1, <3>2 DEF Ops
  <2> QED
    BY <2>4, <2>5 DEF r
<1>3. ASSUME s # <<>>
      PROVE  Ops(s) = Ops(Tail(s)) \cup {Head(s)} /\ Head(s) \in OpType
  <2> DEFINE r == Tail(s)
  <2>1. /\ Len(s) \in Nat /\ Len(s) >= 1 /\ Len(r) = Len(s) - 1
        /\ Head(s) = s[1] /\ \A i \in 1 .. Len(r) : r[i] = s[i + 1]
        /\ Head(s) \in OpType
    BY <1>3
  <2> HIDE DEF r
  <2>2. \A j \in 1 .. Len(s) : j = 1 \/ (j - 1 \in 1 .. Len(r) /\ j = (j - 1) + 1)
    BY <2>1
  <2>3. 1 \in 1 .. Len(s) /\ \A i \in 1 .. Len(r) : i + 1 \in 1 .. Len(s)
    BY <2>1
  <2>4. Ops(s) \subseteq Ops(r) \cup {Head(s)}
    <3>1. ASSUME NEW j \in 1 .. Len(s), j # 1 PROVE s[j] \in Ops(r)
      <4>1. j - 1 \in 1 .. Len(r) /\ s[(j - 1) + 1] = r[j - 1] /\ (j - 1) + 1 = j
        BY <2>1, <2>2, <3>1
      <4> QED
        BY <4>1 DEF Ops
    <3> QED
      BY <2>1, <3>1 DEF Ops
  <2>5. Ops(r) \cup {Head(s)} \subseteq Ops(s)
    <3>1. s[1] \in Ops(s)
      BY <2>3 DEF Ops
    <3>2. ASSUME NEW i \in 1 .. Len(r) PROVE r[i] \in Ops(s)
      <4>1. i + 1 \in 1 .. Len(s) /\ r[i] = s[i + 1]
        BY <2>1, <2>3
      <4> QED
        BY <4>1 DEF Ops
    <3> QED
      BY <2>1, <3>1, <3>2 DEF Ops
  <2> QED
    BY <2>1, <2>4, <2>5 DEF r
<1>4. Ops(<<>>) = {}
  BY DEF Ops
<1> QED
  BY <1>1, <1>2, <1>3, <1>4

LEMMA OperationsAre ==
    ASSUME TypeOK
    PROVE  Operations = Ops(ad)
<1>1. ad \in Seq(OpType) /\ DOMAIN ad = 1 .. Len(ad)
  BY DEF TypeOK
<1> QED
  BY <1>1 DEF Operations, Ops

LEMMA OrderKept ==
    ASSUME NEW s \in Seq(OpType), NEW e \in OpType, Ordered(s)
    PROVE  /\ e.op = "add" => Ordered(Append(s, e))
           /\ e.op = "del" => Ordered(<<e>> \o s)
           /\ s # <<>> => Ordered(Tail(s))
           /\ s # <<>> /\ Head(s).op = "add" => \A f \in Ops(Tail(s)) : f.op = "add"
<1>1. ASSUME e.op = "add"
      PROVE  Ordered(Append(s, e))
  <2> DEFINE r == Append(s, e)
  <2>1. /\ Len(r) = Len(s) + 1 /\ Len(s) \in Nat /\ r[Len(s) + 1] = e
        /\ \A i \in 1 .. Len(s) : r[i] = s[i]
    OBVIOUS
  <2> HIDE DEF r
  <2>2. ASSUME NEW i \in 1 .. Len(r), NEW j \in 1 .. Len(r), i < j, r[i].op = "add"
        PROVE  r[j].op = "add"
    <3>1. CASE j = Len(s) + 1
      BY <1>1, <2>1, <3>1
    <3>2. CASE j # Len(s) + 1
      <4>1. i \in 1 .. Len(s) /\ j \in 1 .. Len(s)
        BY <2>1, <2>2, <3>2
      <4> QED
        BY <2>1, <2>2, <4>1 DEF Ordered
    <3> QED
      BY <3>1, <3>2
  <2> QED
    BY <2>2 DEF Ordered, r
<1>2. ASSUME e.op = "del"
      PROVE  Ordered(<<e>> \o s)
  <2> DEFINE r == <<e>> \o s
  <2>1. /\ Len(r) = Len(s) + 1 /\ Len(s) \in Nat /\ r[1] = e
        /\ \A i \in 1 .. Len(s) : r[i + 1] = s[i]
    OBVIOUS
  <2> HIDE DEF r
  <2>2. ASSUME NEW i \in 1 .. Len(r), NEW j \in 1 .. Len(r), i < j, r[i].op = "add"
        PROVE  r[j].op = "add"
    <3>1. i # 1
      BY <1>2, <2>1, <2>2
    <3>2. i - 1 \in 1 .. Len(s) /\ j - 1 \in 1 .. Len(s) /\ (i - 1) + 1 = i /\ (j - 1) + 1 = j
          /\ i - 1 < j - 1
      BY <2>1, <2>2, <3>1
    <3>3. r[i] = s[i - 1] /\ r[j] = s[j - 1]
      BY <2>1, <3>2
    <3> QED
      BY <2>2, <3>2, <3>3 DEF Ordered
  <2> QED
    BY <2>2 DEF Ordered, r
<1>3. ASSUME s # <<>>
      PROVE  /\ Ordered(Tail(s))
             /\ Head(s).op = "add" => \A f \in Ops(Tail(s)) : f.op = "add"
  <2> DEFINE r == Tail(s)
  <2>1. /\ Len(s) \in Nat /\ Len(s) >= 1 /\ Len(r) = Len(s) - 1
        /\ Head(s) = s[1] /\ \A i \in 1 .. Len(r) : r[i] = s[i + 1]
    BY <1>3
  <2> HIDE DEF r
  <2>2. \A i \in 1 .. Len(r) : i + 1 \in 1 .. Len(s) /\ 1 < i + 1
    BY <2>1
  <2>3. 1 \in 1 .. Len(s)
    BY <2>1
  <2>4. ASSUME NEW i \in 1 .. Len(r), NEW j \in 1 .. Len(r), i < j, r[i].op = "add"
        PROVE  r[j].op = "add"
    <3>1. i + 1 \in 1 .. Len(s) /\ j + 1 \in 1 .. Len(s) /\ i + 1 < j + 1
      BY <2>2, <2>4
    <3>2. r[i] = s[i + 1] /\ r[j] = s[j + 1]
      BY <2>1
    <3> QED
      BY <2>4, <3>1, <3>2 DEF Ordered
  <2>5. ASSUME Head(s).op = "add", NEW i \in 1 .. Len(r)
        PROVE  r[i].op = "add"
    BY <2>1, <2>2, <2>3, <2>5 DEF Ordered
  <2> QED
    BY <2>4, <2>5 DEF Ordered, Ops, r
<1> QED
  BY <1>1, <1>2, <1>3

----------------------------------------------------------------------------
(* Packets, and what they have yet to save                                 *)

\* What a step of a user does to the users and to h->ad: a packet enters the
\* current table or stays in its own, and comes to save an operation from
\* inside the region lock only
Moves ==
    /\ UNCHANGED <<table, ref, flushing>>
    /\ resize'.pc = resize.pc /\ resize'.orig = resize.orig /\ resize'.new = resize.new
    /\ resize'.todo = resize.todo /\ resize'.bucket = resize.bucket
    /\ resize'.seen \subseteq resize.seen
    /\ \A p \in Packets : user'[p].pc # "idle" =>
          \/ user[p].pc # "idle" /\ user'[p].t = user[p].t
          \/ user'[p].pc = "have" /\ user'[p].t = table
    /\ \A p \in Packets : user'[p].pc = "log" =>
          \/ user'[p] = user[p]
          \/ /\ user[p].pc = "have" /\ user'[p].t = user[p].t
             /\ user'[p].op = user[p].op /\ user'[p].x = user[p].x
             /\ user[p].op = "del" => ref[user[p].t] = 1
    /\ \/ ad' = ad /\ \A p \in Packets : user[p].pc = "log" => user'[p] = user[p]
       \/ \E p \in Packets : PacketLog(p)

LEMMA UserMoves == Shape /\ UserStep => Moves
<1> SUFFICES ASSUME Shape, UserStep PROVE Moves
  OBVIOUS
<1> USE DEF tableVars
<1>u. /\ user \in [Users -> UserType] /\ resize \in ResizeType /\ Packets \subseteq Users
      /\ Dumpers \subseteq Users /\ Packets \cap Dumpers = {} /\ "gc" \in Users
      /\ "gc" \notin Packets
  BY HashAssumption DEF Shape, TypeOK, Users
<1>l. \A u : Leave(u) => /\ resize'.pc = resize.pc /\ resize'.orig = resize.orig
                         /\ resize'.new = resize.new /\ resize'.todo = resize.todo
                         /\ resize'.bucket = resize.bucket /\ resize'.seen = resize.seen
  BY <1>u DEF Leave, ResizeType
<1>f. ASSUME UNCHANGED <<table, ref, flushing, ad>>, resize' = resize \/ \E u : Leave(u),
             NEW u \in Users, NEW r, user' = [user EXCEPT ![u] = r],
             u \in Packets => user[u].pc # "log",
             u \in Packets /\ r.pc # "idle" =>
                \/ user[u].pc # "idle" /\ r.t = user[u].t
                \/ r.pc = "have" /\ r.t = table,
             u \in Packets /\ r.pc = "log" =>
                /\ user[u].pc = "have" /\ r.t = user[u].t
                /\ r.op = user[u].op /\ r.x = user[u].x
                /\ user[u].op = "del" => ref[user[u].t] = 1
      PROVE  Moves
  <2>1. \A p \in Packets : user'[p] = IF p = u THEN r ELSE user[p]
    BY <1>f, <1>u
  <2> QED
    BY <1>f, <1>l, <2>1 DEF Moves
<1>o. ASSUME UNCHANGED <<table, ref, flushing, ad, resize>>,
             NEW u \in Users, NEW pc, Go(u, pc), user[u].pc # "idle",
             u \in Packets => user[u].pc # "log",
             u \in Packets /\ pc = "log" =>
                user[u].pc = "have" /\ (user[u].op = "del" => ref[user[u].t] = 1)
      PROVE  Moves
  <2> DEFINE r == [user[u] EXCEPT !.pc = pc]
  <2>1. user' = [user EXCEPT ![u] = r]
    BY <1>o DEF Go
  <2>2. r.pc = pc /\ r.t = user[u].t /\ r.op = user[u].op /\ r.x = user[u].x
    BY <1>u DEF UserType
  <2> HIDE DEF r
  <2> QED
    BY <1>f, <1>o, <2>1, <2>2
<1>g. ASSUME NEW u \in Users, NEW new \in UserType, Get(u, new)
      PROVE  Moves
  <2> DEFINE r == [new EXCEPT !.pc = "have", !.t = table]
  <2>1. user' = [user EXCEPT ![u] = r] /\ r.pc = "have" /\ r.t = table
    BY <1>g DEF Get, UserType
  <2> HIDE DEF r
  <2> QED
    BY <1>f, <1>g, <2>1 DEF Get
<1>s. ASSUME UNCHANGED <<table, ref, flushing, ad, user>>, resize' = resize
      PROVE  Moves
  BY <1>s DEF Moves
<1>1. ASSUME NEW p \in Packets, NEW op \in {"add", "del"}, NEW x \in Elems, PacketGet(p, op, x)
      PROVE  Moves
  <2>1. [NoUser EXCEPT !.op = op, !.x = x] \in UserType
    BY DEF NoUser, UserType
  <2> QED
    BY <1>1, <1>g, <1>u, <2>1 DEF PacketGet
<1>2. ASSUME NEW p \in Packets, PacketSweep(p)
      PROVE  Moves
  BY <1>2, <1>s DEF PacketSweep
<1>3. ASSUME NEW p \in Packets, PacketAdd(p)
      PROVE  Moves
  <2>1. /\ user[p].pc = "have" /\ user[p].op = "add"
        /\ UNCHANGED <<table, ref, flushing, ad, resize>>
        /\ \E pc : Go(p, pc)
    BY <1>3 DEF PacketAdd
  <2> QED
    BY <1>o, <1>u, <2>1
<1>4. ASSUME NEW p \in Packets, PacketDel(p)
      PROVE  Moves
  <2>1. /\ user[p].pc = "have" /\ UNCHANGED <<table, ref, flushing, ad, resize>>
        /\ \E pc : Go(p, pc) /\ (pc = "log" => ref[user[p].t] = 1)
    BY <1>4 DEF PacketDel
  <2> QED
    BY <1>o, <1>u, <2>1
<1>5. ASSUME NEW p \in Packets, PacketLog(p)
      PROVE  Moves
  <2>1. /\ user' = [user EXCEPT ![p].pc = "put"] /\ user[p].pc = "log"
        /\ UNCHANGED <<table, ref, flushing, resize>>
    BY <1>5 DEF PacketLog, Go
  <2>2. \A q \in Packets : user'[q] = IF q = p THEN [user[p] EXCEPT !.pc = "put"] ELSE user[q]
    BY <1>u, <2>1
  <2>3. user'[p].pc = "put" /\ user'[p].t = user[p].t
    BY <1>u, <2>2 DEF UserType
  <2> QED
    BY <1>5, <2>1, <2>2, <2>3 DEF Moves
<1>6. ASSUME NEW x \in Elems, Expire(x)
      PROVE  Moves
  <2>1. /\ resize'.pc = resize.pc /\ resize'.orig = resize.orig /\ resize'.new = resize.new
        /\ resize'.todo = resize.todo /\ resize'.bucket = resize.bucket
        /\ resize'.seen \subseteq resize.seen
    BY <1>6, <1>u DEF Expire, ResizeType
  <2> QED
    BY <1>6, <2>1 DEF Expire, Moves
<1>7. CASE GcGet
  <2>1. NoUser \in UserType
    BY DEF NoUser, UserType
  <2> QED
    BY <1>7, <1>g, <1>u, <2>1 DEF GcGet
<1>8. CASE GcDo
  <2>1. user["gc"].pc = "have" /\ Go("gc", "put") /\ UNCHANGED <<table, ref, flushing, ad, resize>>
    BY <1>8 DEF GcDo
  <2> QED
    BY <1>o, <1>u, <2>1
<1>9. ASSUME NEW d \in Dumpers, DumpGet(d)
      PROVE  Moves
  <2>1. NoUser \in UserType
    BY DEF NoUser, UserType
  <2> QED
    BY <1>9, <1>g, <1>u, <2>1 DEF DumpGet
<1>10. ASSUME NEW d \in Dumpers, DumpEnd(d)
       PROVE  Moves
  BY <1>10, <1>o, <1>u DEF DumpEnd
<1>11. ASSUME NEW u \in Users, Put(u)
       PROVE  Moves
  <2>1. CASE Go(u, "check") /\ UNCHANGED resize
    BY <1>11, <1>o, <2>1 DEF Put
  <2>2. CASE user' = [user EXCEPT ![u] = NoUser] /\ Leave(u)
    BY <1>11, <1>f, <2>2 DEF Put, NoUser
  <2> QED
    BY <1>11, <2>1, <2>2 DEF Put
<1>12. ASSUME NEW u \in Users, Check(u)
       PROVE  Moves
  BY <1>12, <1>f DEF Check, NoUser
<1> QED
  BY <1>1, <1>2, <1>3, <1>4, <1>5, <1>6, <1>7, <1>8, <1>9, <1>10, <1>11, <1>12 DEF UserStep

\* A packet finds its table marked exactly when it is the one being replaced
LEMMA MarkMeans ==
    ASSUME Shape, LifeInv, PacketPlace, NEW p \in Packets, user[p].pc \in {"have", "log"}
    PROVE  /\ ref[user[p].t] = 1 <=> resize.pc \in {"copy", "sync"} /\ user[p].t = resize.orig
           /\ user[p].t \in memory /\ user[p].t \in Tables /\ user[p].x \in Elems
<1> DEFINE t == user[p].t
<1>1. p \in Users /\ t \in memory /\ user[p].x \in Elems
  BY DEF Users, LifeInv, TableAlive, Shape, UserState
<1>2. t \in Tables /\ ref[t] \in {0, 1}
  BY <1>1 DEF Shape, TypeOK
<1>3. ref[t] = 0 <=> t = IF resize.pc = "copy" THEN resize.new ELSE table
  BY <1>1 DEF LifeInv, RefMarks
<1>4. t = table \/ (resize.pc = "sync" /\ t = resize.orig)
  BY DEF PacketPlace
<1>5. resize.pc \in {"copy", "sync", "replay"} =>
         /\ resize.orig # resize.new
         /\ table = IF resize.pc = "copy" THEN resize.orig ELSE resize.new
  BY DEF Shape, ResizeState, LifeInv, NewUnused
<1> HIDE DEF t
<1>6. ref[t] = 1 <=> resize.pc \in {"copy", "sync"} /\ t = resize.orig
  BY <1>2, <1>3, <1>4, <1>5
<1> QED
  BY <1>1, <1>2, <1>6 DEF t

LEMMA PlaceNext == Shape /\ LifeInv /\ PacketPlace /\ [QuietNext]_vars => PacketPlace'
<1> SUFFICES ASSUME Shape, LifeInv, PacketPlace, [QuietNext]_vars PROVE PacketPlace'
  OBVIOUS
<1> USE DEF tableVars
<1>s. resize.pc \in {"copy", "sync", "replay"} =>
         /\ resize.orig # resize.new
         /\ table = IF resize.pc = "copy" THEN resize.orig ELSE resize.new
  BY DEF Shape, ResizeState, LifeInv, NewUnused
<1>r. resize \in ResizeType
  BY DEF Shape, TypeOK
<1>q. ASSUME UNCHANGED <<table, user>>, resize.pc # "sync",
             resize'.pc \in {"sync", "replay"} => resize' = resize
      PROVE  PacketPlace'
  BY <1>q DEF PacketPlace
<1>1. CASE UNCHANGED vars
  BY <1>1 DEF vars, PacketPlace
<1>2. CASE Command
  BY <1>2, <1>q DEF Command, UserAdd, UserDel, Flush, FlushNets, Idle, PacketPlace
<1>3. CASE (Quiet /\ \E t \in Tables : ResizeStart(t)) \/ ResizeOn
  <2>1. ASSUME NEW t \in Tables, ResizeStart(t)
        PROVE  PacketPlace'
    BY <2>1, <1>q DEF ResizeStart, NoResize
  <2>2. ASSUME NEW bucket \in SUBSET Elems, ResizeBucket(bucket)
        PROVE  PacketPlace'
    BY <2>2, <1>q, <1>r DEF ResizeBucket, ResizeType
  <2>3. ASSUME NEW x \in Elems, NEW before \in BOOLEAN, ResizeCopy(x, before)
        PROVE  PacketPlace'
    BY <2>3, <1>q, <1>r DEF ResizeCopy, ResizeType
  <2>4. ASSUME NEW fault \in {"nomem", "full"}, ResizeFail(fault)
        PROVE  PacketPlace'
    BY <2>4, <1>q DEF ResizeFail, NoResize
  <2>5. CASE ResizeGiveUp
    BY <2>5, <1>q DEF ResizeGiveUp, NoResize
  <2>6. CASE ResizePublish
    <3>1. /\ resize.pc = "copy" /\ resize'.pc = "sync" /\ resize'.orig = resize.orig
          /\ table' = resize.new /\ user' = user
      BY <2>6, <1>r DEF ResizePublish, ResizeType
    <3> QED
      BY <1>s, <3>1 DEF PacketPlace
  <2>7. CASE ResizeSync
    <3>1. /\ resize.pc = "sync" /\ resize.readers = {} /\ resize'.pc = "replay"
          /\ UNCHANGED <<table, user>>
      BY <2>7, <1>r DEF ResizeSync, ResizeType
    <3>2. \A p \in Packets : user[p].pc # "idle" => user[p].t = table
      BY <3>1 DEF Shape, GraceCovers
    <3> QED
      BY <3>1, <3>2 DEF PacketPlace
  <2>8. CASE ResizeReplay
    BY <2>8, <1>q DEF ResizeReplay
  <2>9. CASE ResizeDone
    BY <2>9, <1>q DEF ResizeDone, NoResize
  <2> QED
    BY <1>3, <2>1, <2>2, <2>3, <2>4, <2>5, <2>6, <2>7, <2>8, <2>9 DEF ResizeOn
<1>4. CASE UserStep
  <2>1. Moves
    BY <1>4, UserMoves
  <2>2. ASSUME NEW p \in Packets, user'[p].pc # "idle"
        PROVE  user'[p].t = table' \/ (resize'.pc = "sync" /\ user'[p].t = resize'.orig)
    BY <2>1, <2>2 DEF Moves, PacketPlace
  <2>3. ASSUME NEW p \in Packets, user'[p].pc = "log", user'[p].op = "del",
               resize'.pc \in {"sync", "replay"}
        PROVE  user'[p].t # table'
    <3>1. CASE user'[p] = user[p]
      BY <2>1, <2>3, <3>1 DEF Moves, PacketPlace
    <3>2. CASE /\ user[p].pc = "have" /\ user'[p].t = user[p].t
               /\ user'[p].op = user[p].op /\ (user[p].op = "del" => ref[user[p].t] = 1)
      <4>1. user[p].t = resize.orig /\ resize.pc \in {"sync", "replay"} /\ table' = table
        BY <2>1, <2>3, <3>2, MarkMeans DEF Moves
      <4> QED
        BY <1>s, <3>2, <4>1
    <3> QED
      BY <2>1, <2>3, <3>1, <3>2 DEF Moves
  <2> QED
    BY <2>2, <2>3 DEF PacketPlace
<1> QED
  BY <1>1, <1>2, <1>3, <1>4 DEF QuietNext

\* What was saved, or is about to be, stays so in a step of a user unless the
\* packet has no memory for it
LEMMA SavesKept ==
    ASSUME Shape, UserStep, NEW x \in Elems, ~ Lost(x), NEW op \in {"add", "del"}, Saves(x, op)
    PROVE  Saves(x, op)'
<1>1. Moves /\ TypeOK /\ ref' = ref
  BY UserMoves DEF Moves, Shape
<1>2. CASE ad' = ad /\ \A p \in Packets : user[p].pc = "log" => user'[p] = user[p]
  <2>1. Operations' = Operations
    BY <1>2 DEF Operations
  <2>2. \A p \in Packets : Pending(p) => Pending(p)' /\ user'[p] = user[p]
    BY <1>1, <1>2 DEF Pending
  <2> QED
    BY <2>1, <2>2 DEF Saves
<1>3. ASSUME NEW p \in Packets, PacketLog(p)
      PROVE  Saves(x, op)'
  <2> DEFINE this == [op |-> user[p].op, x |-> user[p].x]
  <2>1. /\ p \in Users /\ user \in [Users -> UserType] /\ ad \in Seq(OpType)
        /\ user[p].pc = "log" /\ user' = [user EXCEPT ![p].pc = "put"]
    BY <1>1, <1>3 DEF TypeOK, Users, PacketLog, Go
  <2>2. user'[p].pc = "put" /\ \A q \in Packets : q # p => user'[q] = user[q]
    BY <2>1 DEF Users, UserType
  <2>3. this \in OpType
    <3>1. user[p].x \in Elems /\ user[p].op \in KernelOps[user[p].x]
      BY <2>1 DEF Shape, UserState
    <3> QED
      BY <3>1, HashAssumption DEF OpType
  <2>4. \/ ad' = <<this>> \o ad \/ ad' = Append(ad, this)
        \/ ad' = ad
    BY <1>3 DEF PacketLog
  <2> HIDE DEF this
  <2>5. DOMAIN ad = 1 .. Len(ad) /\ ad' \in Seq(OpType)
    <3>1. Append(ad, this) \in Seq(OpType) /\ <<this>> \in Seq(OpType)
      BY <2>1, <2>3
    <3>2. <<this>> \o ad \in Seq(OpType)
      BY <2>1, <3>1
    <3>3. ad' \in Seq(OpType)
      BY <2>1, <2>4, <3>1, <3>2, Zenon
    <3>4. DOMAIN ad = 1 .. Len(ad)
      BY <2>1
    <3> QED
      BY <3>3, <3>4
  <2>6. Operations = Ops(ad) /\ Operations' = Ops(ad')
    <3>1. DOMAIN ad' = 1 .. Len(ad')
      BY <2>5
    <3> QED
      BY <2>5, <3>1 DEF Operations, Ops
  <2>7. ad' = ad \/ Operations' = Operations \cup {this}
    BY <2>1, <2>3, <2>4, <2>6, OperationsOf
  <2>8. CASE [op |-> op, x |-> x] \in Operations
    BY <2>7, <2>8 DEF Saves, Operations
  <2>9. ASSUME NEW q \in Packets, Pending(q), user[q].op = op, user[q].x = x, q # p
        PROVE  Saves(x, op)'
    BY <1>1, <2>2, <2>9 DEF Saves, Pending
  <2>10. CASE Pending(p) /\ user[p].op = op /\ user[p].x = x
    <3>1. ~ Forgotten(p)
      BY <2>10, Zenon DEF Lost
    <3>2. ad' = ad => "nomem" \in Faults
      <4>1. Append(ad, this) # ad /\ <<this>> \o ad # ad
        <5>1. Len(Append(ad, this)) = Len(ad) + 1 /\ Len(ad) \in Nat
          BY <2>1, <2>3
        <5>2. Len(<<this>> \o ad) = Len(ad) + 1
          BY <2>1, <2>3
        <5> QED
          BY <5>1, <5>2
      <4>2. user[p].op = "del" \/ ref[user[p].t] = 1
        BY <2>10 DEF Pending
      <4> QED
        BY <1>3, <4>1, <4>2 DEF PacketLog, this
    <3>3. ad' # ad
      BY <2>2, <2>10, <3>1, <3>2 DEF Forgotten
    <3> QED
      BY <2>7, <2>10, <3>3 DEF Saves, this
  <2> QED
    BY <2>8, <2>9, <2>10 DEF Saves
<1> QED
  BY <1>1, <1>2, <1>3 DEF Moves

----------------------------------------------------------------------------
(* What a step does to the tables                                          *)

\* Entry x of table t becomes live, or is gone, and no other live entry changes
Lives(t, x) ==
    \A s \in Tables, y \in Elems : Live(s, y)' <=> Live(s, y) \/ (s = t /\ y = x)
Goes(t, x) ==
    \A s \in Tables, y \in Elems : Live(s, y)' <=> Live(s, y) /\ ~ (s = t /\ y = x)
Stays == \A s \in Tables, y \in Elems : Live(s, y)' <=> Live(s, y)

LEMMA LiveSteps ==
    ASSUME TypeOK, NEW t \in Tables, NEW x \in Elems
    PROVE  /\ \A gone \in SUBSET Elems : StoreEntry(t, x, gone) => Lives(t, x)
           /\ DropEntry(t, x) => Goes(t, x)
           /\ Sweep(t) => Stays
           /\ entry' = entry => Stays
<1>1. entry \in [Tables -> [Elems -> {"no", "live", "dead"}]]
  BY DEF TypeOK
<1>2. ASSUME NEW gone \in SUBSET Elems, StoreEntry(t, x, gone)
      PROVE  Lives(t, x)
  <2>1. /\ gone \subseteq Dead(t)
        /\ entry' = [entry EXCEPT ![t] = [y \in Elems |-> IF y = x THEN "live"
                       ELSE IF y \in gone THEN "no" ELSE entry[t][y]]]
    BY <1>2 DEF StoreEntry
  <2>2. /\ \A y \in Elems : entry'[t][y] = IF y = x THEN "live"
                               ELSE IF y \in gone THEN "no" ELSE entry[t][y]
        /\ \A s \in Tables : s # t => entry'[s] = entry[s]
    BY <1>1, <2>1
  <2>3. \A y \in gone : entry[t][y] # "live"
    BY <2>1 DEF Dead
  <2> QED
    BY <2>2, <2>3 DEF Lives, Live
<1>3. ASSUME DropEntry(t, x)
      PROVE  Goes(t, x)
  <2>1. /\ \A y \in Elems : entry'[t][y] = IF y = x THEN "no" ELSE entry[t][y]
        /\ \A s \in Tables : s # t => entry'[s] = entry[s]
    BY <1>1, <1>3 DEF DropEntry
  <2> QED
    BY <2>1 DEF Goes, Live
<1>4. ASSUME Sweep(t)
      PROVE  Stays
  <2>1. entry' = [entry EXCEPT ![t] =
                    [y \in Elems |-> IF entry[t][y] = "dead" THEN "no" ELSE entry[t][y]]]
    BY <1>4 DEF Sweep
  <2>2. /\ \A y \in Elems : entry'[t][y] = IF entry[t][y] = "dead" THEN "no" ELSE entry[t][y]
        /\ \A s \in Tables : s # t => entry'[s] = entry[s]
    BY <1>1, <2>1
  <2> QED
    BY <2>2 DEF Stays, Live
<1>5. ASSUME entry' = entry
      PROVE  Stays
  BY <1>5 DEF Stays, Live
<1> QED
  BY <1>2, <1>3, <1>4, <1>5

\* While the tables and what is saved of an element stay, so does what is right
LEMMA RightFrame ==
    ASSUME Shape, NEW x \in Elems, Right(x), x \in want' <=> x \in want, table' = table,
           \A s \in Tables : Live(s, x)' <=> Live(s, x),
           \A op \in {"add", "del"} : Saves(x, op) => Saves(x, op)',
           resize'.pc = resize.pc, resize'.new = resize.new, resize'.todo = resize.todo,
           resize'.bucket = resize.bucket, x \in resize'.seen <=> x \in resize.seen
    PROVE  Right(x)'
<1>1. PICK n, t : n = resize.new /\ t = table
  OBVIOUS
<1>2. t \in Tables /\ (resize.pc \in {"copy", "sync", "replay"} => n \in Tables)
  BY <1>1 DEF Shape, TypeOK, ResizeState
<1>3. /\ Live(table, x)' <=> Live(t, x)'
      /\ Live(resize.new, x)' <=> Live(n, x)'
  BY <1>1 DEF Live
<1>4. /\ Live(table, x)' <=> Live(table, x)
      /\ resize.pc \in {"copy", "sync", "replay"} =>
            (Live(resize.new, x)' <=> Live(resize.new, x))
  BY <1>1, <1>2, <1>3
<1>5. \A b : Agrees(b, x) => Agrees(b, x)'
  BY DEF Agrees
<1> QED
  BY <1>4, <1>5 DEF Right, Agrees

\* Commands work on the current table while no resize is in progress
LEMMA RightCommand ==
    ASSUME Shape, NEW x \in Elems, Right(x), Command
    PROVE  Right(x)'
<1> USE DEF tableVars
<1>1. TypeOK /\ table \in Tables /\ entry \in [Tables -> [Elems -> {"no", "live", "dead"}]]
  BY DEF Shape, TypeOK
<1>2. PICK t : t = table
  OBVIOUS
<1>3. Idle => (Live(t, x) <=> x \in want)
  BY <1>2 DEF Idle, Right
<1>4. ASSUME UNCHANGED <<table, resize>>, Idle, Live(t, x)' <=> x \in want'
      PROVE  Right(x)'
  <2>1. Live(table, x)' <=> Live(t, x)'
    BY <1>2, <1>4 DEF Live
  <2> QED
    BY <1>4, <2>1 DEF Right, Idle
<1>5. ASSUME NEW y \in Elems, UserAdd(y)
      PROVE  Right(x)'
  <2>1. PICK gone \in SUBSET Elems : StoreEntry(t, y, gone)
    BY <1>2, <1>5 DEF UserAdd
  <2>2. Lives(t, y)
    BY <1>1, <1>2, <2>1, LiveSteps
  <2>3. Live(t, x)' <=> Live(t, x) \/ x = y
    BY <1>1, <1>2, <2>2 DEF Lives
  <2> QED
    BY <1>3, <1>4, <1>5, <2>3 DEF UserAdd
<1>6. ASSUME NEW y \in Elems, UserDel(y)
      PROVE  Right(x)'
  <2>1. Goes(t, y)
    BY <1>1, <1>2, <1>6, LiveSteps DEF UserDel
  <2>2. Live(t, x)' <=> Live(t, x) /\ x # y
    BY <1>1, <1>2, <2>1 DEF Goes
  <2> QED
    BY <1>3, <1>4, <1>6, <2>2 DEF UserDel
<1>7. CASE Flush
  <2>1. entry'[t][x] = "no"
    BY <1>1, <1>2, <1>7 DEF Flush, Empty
  <2> QED
    BY <1>4, <1>7, <2>1 DEF Flush, Live
<1>8. CASE FlushNets
  <2>1. UNCHANGED <<table, entry, ad, ref, resize, user, want>>
    BY <1>8 DEF FlushNets
  <2>2. \A op \in {"add", "del"} : Saves(x, op) => Saves(x, op)'
    BY <2>1 DEF Saves, Pending, Operations
  <2>3. \A s \in Tables : Live(s, x)' <=> Live(s, x)
    BY <2>1 DEF Live
  <2> QED
    BY <2>1, <2>2, <2>3, RightFrame
<1> QED
  BY <1>5, <1>6, <1>7, <1>8 DEF Command

\* A resize that copies, is published and waits
LEMMA RightCopy ==
    ASSUME Shape, LifeInv, ContentInv, NEW x \in Elems, Right(x),
           (\E t \in Tables : ResizeStart(t)) \/ ResizeOn, ~ ResizeReplay, ~ ResizeDone
    PROVE  Right(x)'
<1> USE DEF tableVars
<1>t. /\ TypeOK /\ table \in Tables /\ table \in memory /\ resize \in ResizeType
      /\ entry \in [Tables -> [Elems -> {"no", "live", "dead"}]]
      /\ resize.todo \cap resize.bucket = {}
  BY DEF Shape, TypeOK, ContentInv, LifeInv, TableAlive
<1>s. resize.pc \in {"copy", "sync", "replay"} =>
         /\ resize.orig \in Tables /\ resize.new \in Tables /\ resize.orig # resize.new
         /\ table = IF resize.pc = "copy" THEN resize.orig ELSE resize.new
  BY DEF Shape, ResizeState, LifeInv, NewUnused
<1>p. PICK n, o, t : n = resize.new /\ o = resize.orig /\ t = table
  OBVIOUS
<1>l. /\ resize'.new = n => (Live(resize.new, x)' <=> Live(n, x)')
      /\ table' = t => (Live(table, x)' <=> Live(t, x)')
  BY DEF Live
<1>1. ASSUME NEW s \in Tables, ResizeStart(s)
      PROVE  Right(x)'
  <2>1. /\ resize.pc \in {"idle", "retry"} /\ s # t
        /\ resize'.pc = "copy" /\ resize'.new = s /\ resize'.todo = Elems /\ resize'.bucket = {}
        /\ UNCHANGED <<table, want>> /\ entry' = [entry EXCEPT ![s] = Empty]
    BY <1>1, <1>t, <1>p DEF ResizeStart, NoResize
  <2>2. entry'[s][x] = "no" /\ entry'[t] = entry[t]
    BY <1>t, <1>p, <2>1 DEF Empty
  <2>3. ~ Live(resize.new, x)' /\ (Live(table, x)' <=> x \in want')
    BY <1>p, <2>1, <2>2 DEF Live, Right
  <2> QED
    BY <2>1, <2>3 DEF Right
<1>2. ASSUME NEW bucket \in SUBSET Elems, ResizeBucket(bucket)
      PROVE  Right(x)'
  <2>1. /\ resize.pc = "copy" /\ resize'.pc = "copy" /\ resize'.new = resize.new
        /\ resize.bucket = {} /\ bucket \subseteq resize.todo
        /\ resize'.todo = resize.todo \ bucket /\ resize'.bucket = bucket
        /\ resize'.seen = {y \in bucket : entry[resize.orig][y] = "live"}
        /\ UNCHANGED <<table, entry, want, ad, ref, user>>
    BY <1>2, <1>t DEF ResizeBucket, ResizeType
  <2>2. /\ Live(table, x)' <=> Live(table, x)
        /\ Live(resize.new, x)' <=> Live(resize.new, x)
    BY <2>1 DEF Live
  <2>3. x \in bucket => (x \in resize'.seen <=> x \in want)
    BY <1>s, <2>1 DEF Right, Live
  <2>4. x \in bucket => Agrees(x \in resize.seen, x)'
    BY <2>1, <2>3 DEF Agrees
  <2>5. x \notin resize'.todo \cup resize'.bucket => Agrees(Live(resize.new, x), x)'
    <3>1. x \notin resize'.todo \cup resize'.bucket => Agrees(Live(resize.new, x), x)
      BY <2>1 DEF Right
    <3>2. Agrees(Live(resize.new, x), x) => Agrees(Live(resize.new, x), x)'
      BY <2>1, <2>2 DEF Agrees, Saves, Pending, Operations
    <3> QED
      BY <3>1, <3>2
  <2> QED
    BY <2>1, <2>2, <2>4, <2>5 DEF Right
<1>3. ASSUME NEW y \in Elems, NEW before \in BOOLEAN, ResizeCopy(y, before)
      PROVE  Right(x)'
  <2> DEFINE met == IF before THEN y \in resize.seen ELSE entry[resize.orig][y] = "live"
  <2>1. /\ resize.pc = "copy" /\ resize'.pc = "copy" /\ resize'.new = n /\ y \in resize.bucket
        /\ resize'.todo = resize.todo /\ resize'.bucket = resize.bucket \ {y}
        /\ resize'.seen = resize.seen \ {y}
        /\ UNCHANGED <<table, want, ad, ref, user>>
        /\ entry' = IF met THEN [entry EXCEPT ![n][y] = "live"] ELSE entry
    BY <1>3, <1>t, <1>p DEF ResizeCopy, ResizeType
  <2>2. n \in Tables /\ t \in Tables /\ n # t
    BY <1>p, <1>s, <1>t, <2>1
  <2>3. /\ Live(t, x)' <=> Live(t, x)
        /\ Live(n, x)' <=> Live(n, x) \/ (x = y /\ met)
    BY <1>t, <2>1, <2>2 DEF Live
  <2>4. /\ Live(table, x)' <=> Live(table, x)
        /\ Live(resize.new, x)' <=> Live(resize.new, x) \/ (x = y /\ met)
    BY <1>l, <1>p, <2>1, <2>3
  <2>5. y = x => Agrees(met, x)
    BY <1>s, <2>1 DEF Right, Live, Agrees
  <2> HIDE DEF met
  <2>7. CASE x = y
    <3>1. Live(resize.new, x)' <=> met
      BY <2>1, <2>4, <2>7 DEF Right
    <3>2. Agrees(Live(resize.new, x), x)'
      BY <2>1, <2>5, <2>7, <3>1 DEF Agrees, Saves, Pending, Operations
    <3>3. x \notin resize'.todo \cup resize'.bucket
      BY <1>t, <2>1, <2>7
    <3> QED
      BY <2>1, <2>4, <3>2, <3>3 DEF Right
  <2>8. CASE x # y
    <3>1. /\ x \in resize'.bucket <=> x \in resize.bucket
          /\ x \in resize'.seen <=> x \in resize.seen
      BY <2>1, <2>8
    <3>2. Live(resize.new, x)' <=> Live(resize.new, x)
      BY <2>4, <2>8
    <3>3. /\ Agrees(Live(resize.new, x), x) => Agrees(Live(resize.new, x), x)'
          /\ Agrees(x \in resize.seen, x) => Agrees(x \in resize.seen, x)'
      BY <2>1, <3>1, <3>2 DEF Agrees, Saves, Pending, Operations
    <3> QED
      BY <2>1, <2>4, <3>1, <3>2, <3>3 DEF Right
  <2> QED
    BY <2>7, <2>8
<1>4. ASSUME UNCHANGED <<table, entry, want>>, resize'.pc \in {"idle", "retry"},
             resize.pc \in {"copy", "retry"}
      PROVE  Right(x)'
  BY <1>4 DEF Right, Live
<1>5. ASSUME NEW fault \in {"nomem", "full"}, ResizeFail(fault)
      PROVE  Right(x)'
  BY <1>4, <1>5 DEF ResizeFail, NoResize
<1>6. CASE ResizeGiveUp
  BY <1>4, <1>6 DEF ResizeGiveUp, NoResize
<1>7. CASE ResizePublish
  <2>1. /\ resize.pc = "copy" /\ resize.todo = {} /\ resize.bucket = {}
        /\ resize'.pc = "sync" /\ resize'.new = resize.new
        /\ UNCHANGED <<entry, want, ad, ref, user>>
    BY <1>7, <1>t DEF ResizePublish, ResizeType
  <2>2. Agrees(Live(resize.new, x), x)
    BY <2>1 DEF Right
  <2>3. Agrees(Live(resize.new, x), x)'
    BY <2>1, <2>2 DEF Agrees, Live, Saves, Pending, Operations
  <2> QED
    BY <2>1, <2>3 DEF Right
<1>8. CASE ResizeSync
  <2>1. /\ resize.pc = "sync" /\ resize'.pc = "replay" /\ resize'.new = resize.new
        /\ UNCHANGED <<entry, want, ad, ref, user>>
    BY <1>8, <1>t DEF ResizeSync, ResizeType
  <2>2. Agrees(Live(resize.new, x), x)
    BY <2>1 DEF Right
  <2>3. Agrees(Live(resize.new, x), x)'
    BY <2>1, <2>2 DEF Agrees, Live, Saves, Pending, Operations
  <2> QED
    BY <2>1, <2>3 DEF Right
<1> QED
  BY <1>1, <1>2, <1>3, <1>5, <1>6, <1>7, <1>8 DEF ResizeOn

\* Nobody is about to save an operation while the saved ones are repeated
LEMMA ReplayedAlone ==
    ASSUME Shape, LifeInv, PacketPlace, resize.pc = "replay", NEW p \in Packets
    PROVE  ~ Pending(p)
<1> SUFFICES ASSUME Pending(p) PROVE FALSE
  OBVIOUS
<1>1. user[p].pc = "log" /\ user[p].t = table
  BY DEF Pending, Shape, GraceCovers
<1>2. user[p].op = "del" \/ ref[user[p].t] = 1
  BY DEF Pending
<1>3. ref[user[p].t] # 1
  BY <1>1, MarkMeans
<1> QED
  BY <1>1, <1>2, <1>3 DEF PacketPlace

\* The saved operations are repeated, and nothing is left to do in the end
LEMMA RightReplay ==
    ASSUME Shape, LifeInv, ContentInv, NEW x \in Elems, InTurn(x), Right(x), ~ Lost(x),
           ResizeReplay
    PROVE  InTurn(x)' /\ Right(x)'
<1> USE DEF tableVars
<1>t. /\ TypeOK /\ table \in Tables /\ ad \in Seq(OpType) /\ PacketPlace /\ Ordered(ad)
      /\ resize.pc = "replay" /\ ad # <<>> /\ ad' = Tail(ad)
      /\ UNCHANGED <<table, ref, resize, user, want>> /\ table = resize.new
  BY DEF Shape, TypeOK, ResizeState, ContentInv, ResizeReplay
<1>p. PICK t, h : t = table /\ h = Head(ad)
  OBVIOUS
<1>h. /\ h \in OpType /\ Tail(ad) \in Seq(OpType) /\ h.x \in Elems /\ h.op \in {"add", "del"}
      /\ h = [op |-> h.op, x |-> h.x]
  <2>1. h \in OpType /\ Tail(ad) \in Seq(OpType)
    BY <1>t, <1>p
  <2> QED
    BY <2>1 DEF OpType
<1>o. /\ Operations = Ops(Tail(ad)) \cup {h} /\ Operations' = Ops(Tail(ad))
      /\ h.op = "add" => \A f \in Ops(Tail(ad)) : f.op = "add"
  <2>1. Operations = Ops(ad) /\ Operations' = Ops(Tail(ad))
    <3>1. DOMAIN ad = 1 .. Len(ad) /\ DOMAIN Tail(ad) = 1 .. Len(Tail(ad))
      BY <1>t, <1>h
    <3> QED
      BY <1>t, <3>1 DEF Operations, Ops
  <2>2. Ops(ad) = Ops(Tail(ad)) \cup {h}
    BY <1>t, <1>h, <1>p, OperationsOf
  <2> QED
    BY <1>t, <1>h, <1>p, <2>1, <2>2, OrderKept
<1>s. \A op \in {"add", "del"} : /\ Saves(x, op) <=> [op |-> op, x |-> x] \in Operations
                                 /\ Saves(x, op)' <=> [op |-> op, x |-> x] \in Operations'
  <2>1. \A p \in Packets : ~ Pending(p) /\ ~ Pending(p)'
    <3>1. \A p \in Packets : ~ Pending(p)
      BY <1>t, ReplayedAlone
    <3> QED
      BY <1>t, <3>1 DEF Pending
  <2> QED
    BY <2>1 DEF Saves
<1>k. \A op \in {"add", "del"} : Saves(x, op) <=> Saves(x, op)' \/ h = [op |-> op, x |-> x]
  BY <1>o, <1>s
<1>i. /\ Saves(x, "add") => x \in want
      /\ Saves(x, "del") /\ ~ Saves(x, "add") => x \notin want
  BY DEF InTurn
<1>1. ASSUME h.x # x, Live(t, x)' <=> Live(t, x)
      PROVE  InTurn(x)' /\ Right(x)'
  <2>1. \A op \in {"add", "del"} : Saves(x, op) <=> Saves(x, op)'
    BY <1>1, <1>k
  <2>2. InTurn(x)'
    BY <1>i, <1>t, <2>1 DEF InTurn
  <2>3. Live(resize.new, x)' <=> Live(resize.new, x)
    BY <1>1, <1>p, <1>t DEF Live
  <2> QED
    BY <1>t, <2>1, <2>2, <2>3 DEF Right, Agrees
<1>2. ASSUME h.x = x, h.op = "add", Live(t, x)'
      PROVE  InTurn(x)' /\ Right(x)'
  <2>1. Saves(x, "add") /\ ~ Saves(x, "del")'
    BY <1>2, <1>h, <1>k, <1>o, <1>s
  <2>2. x \in want'
    BY <1>i, <1>t, <2>1
  <2>3. Live(resize.new, x)'
    BY <1>2, <1>p, <1>t DEF Live
  <2> QED
    BY <1>t, <2>1, <2>2, <2>3 DEF Right, Agrees, InTurn
<1>3. ASSUME h.x = x, h.op = "del", ~ Live(t, x)'
      PROVE  InTurn(x)' /\ Right(x)'
  <2>1. Saves(x, "del") /\ (Saves(x, "add")' <=> Saves(x, "add"))
    BY <1>3, <1>h, <1>k
  <2>2. ~ Live(resize.new, x)'
    BY <1>3, <1>p, <1>t DEF Live
  <2>3. InTurn(x)'
    BY <1>i, <1>t, <2>1 DEF InTurn
  <2> QED
    BY <1>i, <1>t, <2>1, <2>2, <2>3 DEF Right, Agrees
<1>4. /\ h.x = x /\ h.op = "add" => Live(t, x)'
      /\ h.x = x /\ h.op = "del" => ~ Live(t, x)'
      /\ h.x # x => (Live(t, x)' <=> Live(t, x))
  <2>1. \/ h.op = "add" /\ \E gone \in SUBSET Elems : StoreEntry(t, h.x, gone)
        \/ h.op = "del" /\ DropEntry(t, h.x)
        \/ /\ entry' = entry
           /\ \/ h.op = "add"
              \/ h.op = "del" /\ ~ Live(t, h.x)
    BY <1>p DEF ResizeReplay, Live
  <2>2. CASE h.op = "add" /\ \E gone \in SUBSET Elems : StoreEntry(t, h.x, gone)
    <3>1. Lives(t, h.x)
      BY <1>h, <1>p, <1>t, <2>2, LiveSteps
    <3> QED
      BY <1>p, <1>t, <2>2, <3>1 DEF Lives
  <2>3. CASE h.op = "del" /\ DropEntry(t, h.x)
    <3>1. Goes(t, h.x)
      BY <1>h, <1>p, <1>t, <2>3, LiveSteps
    <3> QED
      BY <1>p, <1>t, <2>3, <3>1 DEF Goes
  <2>4. CASE entry' = entry /\ h.op = "del" /\ ~ Live(t, h.x)
    BY <2>4 DEF Live
  <2>5. CASE entry' = entry /\ h.op = "add"
    <3>1. h.x = x => entry'[t][x] = "live"
      BY <1>p, <1>t, <2>5 DEF Lost, Unrepeated, Repeats
    <3> QED
      BY <2>5, <3>1 DEF Live
  <2> QED
    BY <2>1, <2>2, <2>3, <2>4, <2>5
<1> QED
  BY <1>1, <1>2, <1>3, <1>4, <1>h

LEMMA RightDone ==
    ASSUME Shape, LifeInv, ContentInv, NEW x \in Elems, Right(x), ResizeDone
    PROVE  Right(x)'
<1>t. /\ resize.pc = "replay" /\ ad = <<>> /\ UNCHANGED <<table, entry, want>>
      /\ resize'.pc = "idle" /\ table = resize.new /\ PacketPlace
  BY DEF ResizeDone, NoResize, Shape, ResizeState, ContentInv
<1>1. \A p \in Packets : ~ Pending(p)
  BY <1>t, ReplayedAlone
<1>2. Operations = {}
  BY <1>t DEF Operations
<1>3. \A op : ~ Saves(x, op)
  BY <1>1, <1>2 DEF Saves
<1>4. Live(table, x) <=> x \in want
  BY <1>3, <1>t DEF Right, Agrees
<1> QED
  BY <1>4, <1>t DEF Right, Live

\* A packet puts x into its table, or takes it out; if the table is replaced
\* it will save what it did
LEMMA RightChange ==
    ASSUME Shape, LifeInv, ContentInv, NEW x \in Elems, Right(x), UserStep, ~ Lost(x),
           NEW p \in Packets, user[p].pc = "have", user[p].x = x, NEW op \in {"add", "del"},
           IF op = "add" THEN Lives(user[p].t, x) /\ x \in want'
                         ELSE Goes(user[p].t, x) /\ x \notin want',
           ref[user[p].t] = 1 => Saves(x, op)'
    PROVE  Right(x)'
<1>1. PICK n, o, t : n = resize.new /\ o = resize.orig /\ t = user[p].t
  OBVIOUS
<1>2. /\ table' = table /\ resize'.pc = resize.pc /\ resize'.new = n /\ resize'.orig = o
      /\ resize'.todo = resize.todo /\ resize'.bucket = resize.bucket
  BY <1>1, UserMoves DEF Moves
<1>3. /\ t \in Tables /\ table \in Tables
      /\ t = table \/ (resize.pc = "sync" /\ t = o)
      /\ ref[t] = 1 <=> resize.pc \in {"copy", "sync"} /\ t = o
  BY <1>1, MarkMeans DEF ContentInv, PacketPlace, Shape, TypeOK
<1>4. resize.pc \in {"copy", "sync", "replay"} =>
         /\ n \in Tables /\ o \in Tables /\ o # n
         /\ table = IF resize.pc = "copy" THEN o ELSE n
  BY <1>1 DEF Shape, ResizeState, LifeInv, NewUnused
<1>5. /\ t = table => (Live(table, x)' <=> x \in want')
      /\ n \in Tables /\ t # n => (Live(n, x)' <=> Live(n, x))
      /\ t = n => (Live(n, x)' <=> x \in want')
  BY <1>1, <1>2, <1>3 DEF Lives, Goes, Live
<1>6. Live(resize.new, x)' <=> Live(n, x)'
  BY <1>2 DEF Live
<1>7. CASE resize.pc \in {"idle", "retry"}
  BY <1>2, <1>3, <1>5, <1>7 DEF Right
<1>8. CASE resize.pc = "copy"
  <2>1. Saves(x, op)' /\ t = table /\ t # n
    BY <1>1, <1>3, <1>4, <1>8
  <2>2. \A b : (Saves(x, "add")' \/ Saves(x, "del")' \/ b) <=> TRUE
    BY <2>1
  <2>3. x \in resize.todo \cup resize.bucket => ~ Live(resize.new, x)'
    BY <1>1, <1>4, <1>5, <1>6, <1>8, <2>1 DEF Right
  <2> QED
    BY <1>2, <1>5, <1>8, <2>1, <2>2, <2>3 DEF Right, Agrees
<1>9. CASE resize.pc \in {"sync", "replay"}
  <2>1. CASE t = o /\ resize.pc = "sync"
    <3>1. Saves(x, op)'
      BY <1>1, <1>3, <2>1
    <3> QED
      BY <1>2, <2>1, <3>1 DEF Right, Agrees
  <2>2. CASE t = table
    <3>1. Live(resize.new, x)' <=> x \in want'
      BY <1>4, <1>5, <1>6, <1>9, <2>2
    <3> QED
      BY <1>2, <1>9, <3>1 DEF Right, Agrees
  <2> QED
    BY <1>3, <2>1, <2>2
<1> QED
  BY <1>7, <1>8, <1>9 DEF Right, Shape, TypeOK, ResizeType

LEMMA RightUser ==
    ASSUME Shape, LifeInv, ContentInv, NEW x \in Elems, Right(x), UserStep, ~ Lost(x)
    PROVE  Right(x)'
<1> USE DEF tableVars
<1>t. /\ TypeOK /\ PacketPlace /\ user \in [Users -> UserType] /\ Packets \subseteq Users
      /\ "gc" \in Users /\ table \in Tables
      /\ entry \in [Tables -> [Elems -> {"no", "live", "dead"}]]
  BY DEF Shape, TypeOK, ContentInv, Users
<1>m. Moves /\ UNCHANGED <<table, ref>>
  BY UserMoves DEF Moves
<1>k. \A op \in {"add", "del"} : Saves(x, op) => Saves(x, op)'
  BY SavesKept
<1>f. ASSUME \A s \in Tables : Live(s, x)' <=> Live(s, x), x \in want' <=> x \in want,
             resize'.seen = resize.seen
      PROVE  Right(x)'
  BY <1>f, <1>k, <1>m, RightFrame DEF Moves
<1>0. ASSUME Stays, UNCHANGED <<want, resize>>
      PROVE  Right(x)'
  BY <1>0, <1>f DEF Stays
<1>e. ASSUME entry' = entry, want' = want, resize'.seen = resize.seen
      PROVE  Right(x)'
  BY <1>e, <1>f DEF Live
<1>l. \A u : Leave(u) => resize'.seen = resize.seen
  BY DEF Leave, Shape, TypeOK, ResizeType
<1>1. ASSUME NEW p \in Packets, NEW op \in {"add", "del"}, NEW y \in Elems, PacketGet(p, op, y)
      PROVE  Right(x)'
  BY <1>1, <1>e DEF PacketGet, Get
<1>2. ASSUME NEW p \in Packets, PacketSweep(p)
      PROVE  Right(x)'
  <2>1. user[p].t \in Tables /\ Sweep(user[p].t)
    BY <1>2, <1>t, MarkMeans DEF PacketSweep
  <2> QED
    BY <1>0, <1>2, <1>t, <2>1, LiveSteps DEF PacketSweep
<1>3. ASSUME NEW p \in Packets, PacketAdd(p)
      PROVE  Right(x)'
  <2>1. PICK t, y : t = user[p].t /\ y = user[p].x
    OBVIOUS
  <2>2. /\ user[p].pc = "have" /\ user[p].op = "add" /\ t \in Tables /\ y \in Elems
        /\ UNCHANGED <<ref, resize>>
    BY <1>3, <1>t, <2>1, MarkMeans DEF PacketAdd
  <2>3. CASE UNCHANGED <<entry, want>>
    BY <1>e, <2>2, <2>3
  <2>4. ASSUME NEW gone \in SUBSET Elems, StoreEntry(t, y, gone), Go(p, "log"),
               want' = want \cup {y}
        PROVE  Right(x)'
    <3>1. Lives(t, y)
      BY <1>t, <2>2, <2>4, LiveSteps
    <3>2. CASE x # y
      BY <1>f, <2>2, <2>4, <3>1, <3>2 DEF Lives
    <3>3. CASE x = y
      <4>1. user'[p].pc = "log" /\ user'[p].op = "add" /\ user'[p].x = x /\ user'[p].t = t
        BY <1>t, <2>1, <2>2, <2>4, <3>3 DEF Go, UserType
      <4>2. ref[t] = 1 => Saves(x, "add")'
        <5>1. ref[t] = 1 => Pending(p)'
          BY <2>2, <4>1 DEF Pending
        <5> QED
          BY <4>1, <5>1 DEF Saves
      <4>3. Lives(user[p].t, x) /\ x \in want' /\ user[p].x = x
            /\ (ref[user[p].t] = 1 => Saves(x, "add")')
        BY <2>1, <2>4, <3>1, <3>3, <4>2
      <4> QED
        BY <2>2, <4>3, RightChange
    <3> QED
      BY <3>2, <3>3
  <2> QED
    BY <1>3, <2>1, <2>3, <2>4 DEF PacketAdd
<1>4. ASSUME NEW p \in Packets, PacketDel(p)
      PROVE  Right(x)'
  <2>1. PICK t, y : t = user[p].t /\ y = user[p].x
    OBVIOUS
  <2>2. /\ user[p].pc = "have" /\ user[p].op = "del" /\ t \in Tables /\ y \in Elems
        /\ UNCHANGED <<ref, resize>>
    BY <1>4, <1>t, <2>1, MarkMeans DEF PacketDel
  <2>3. CASE UNCHANGED <<entry, want>>
    BY <1>e, <2>2, <2>3
  <2>4. ASSUME DropEntry(t, y), Go(p, IF ref[t] = 1 THEN "log" ELSE "put"),
               want' = want \ {y}
        PROVE  Right(x)'
    <3>1. Goes(t, y)
      BY <1>t, <2>2, <2>4, LiveSteps
    <3>2. CASE x # y
      BY <1>f, <2>2, <2>4, <3>1, <3>2 DEF Goes
    <3>3. CASE x = y
      <4>1. user'[p].pc = (IF ref[t] = 1 THEN "log" ELSE "put")
            /\ user'[p].op = "del" /\ user'[p].x = x
        BY <1>t, <2>1, <2>2, <2>4, <3>3 DEF Go, UserType
      <4>2. ref[t] = 1 => Saves(x, "del")'
        <5>1. ref[t] = 1 => Pending(p)'
          BY <4>1 DEF Pending
        <5> QED
          BY <4>1, <5>1 DEF Saves
      <4>3. Goes(user[p].t, x) /\ x \notin want' /\ user[p].x = x
            /\ (ref[user[p].t] = 1 => Saves(x, "del")')
        BY <2>1, <2>4, <3>1, <3>3, <4>2
      <4> QED
        BY <2>2, <4>3, RightChange
    <3> QED
      BY <3>2, <3>3
  <2> QED
    BY <1>4, <2>1, <2>3, <2>4 DEF PacketDel
<1>5. ASSUME NEW p \in Packets, PacketLog(p)
      PROVE  Right(x)'
  BY <1>5, <1>e DEF PacketLog
<1>6. ASSUME NEW y \in Elems, Expire(y)
      PROVE  Right(x)'
  <2>1. /\ \A s \in Tables : entry'[s] = IF entry[s][y] = "live"
                                         THEN [entry[s] EXCEPT ![y] = "dead"] ELSE entry[s]
        /\ want' = want \ {y} /\ resize'.seen = resize.seen \ {y}
    BY <1>6 DEF Expire, Shape, TypeOK, ResizeType
  <2>2. \A s \in Tables : Live(s, x)' <=> Live(s, x) /\ x # y
    BY <1>t, <2>1 DEF Live
  <2>3. CASE x # y
    <3>1. /\ resize'.pc = resize.pc /\ resize'.new = resize.new /\ resize'.todo = resize.todo
          /\ resize'.bucket = resize.bucket /\ (x \in resize'.seen <=> x \in resize.seen)
      BY <1>m, <2>1, <2>3 DEF Moves
    <3> QED
      BY <1>k, <1>m, <2>1, <2>2, <2>3, <3>1, RightFrame
  <2>4. CASE x = y
    <3>1. x \notin want' /\ x \notin resize'.seen
      BY <2>1, <2>4
    <3>2. ~ Live(table, x)'
      <4>1. PICK t : t = table
        OBVIOUS
      <4>2. Live(table, x)' <=> Live(t, x)'
        BY <1>m, <4>1 DEF Live
      <4> QED
        BY <1>t, <2>2, <2>4, <4>1, <4>2
    <3>3. resize'.pc \in {"copy", "sync", "replay"} => ~ Live(resize.new, x)'
      <4>1. PICK n : n = resize.new
        OBVIOUS
      <4>2. Live(resize.new, x)' <=> Live(n, x)'
        BY <1>m, <4>1 DEF Live, Moves
      <4>3. resize'.pc \in {"copy", "sync", "replay"} => n \in Tables
        BY <1>m, <4>1 DEF Moves, Shape, ResizeState
      <4> QED
        BY <2>2, <2>4, <4>2, <4>3
    <3> QED
      BY <3>1, <3>2, <3>3 DEF Right, Agrees
  <2> QED
    BY <2>3, <2>4
<1>7. CASE GcGet
  BY <1>7, <1>e DEF GcGet, Get
<1>8. CASE GcDo
  <2>1. user["gc"].t \in Tables /\ Sweep(user["gc"].t) /\ UNCHANGED <<want, resize>>
    BY <1>8, <1>t DEF GcDo, Shape, UserState
  <2> QED
    BY <1>0, <1>t, <2>1, LiveSteps
<1>9. ASSUME NEW d \in Dumpers, DumpGet(d)
      PROVE  Right(x)'
  BY <1>9, <1>e DEF DumpGet, Get
<1>10. ASSUME NEW d \in Dumpers, DumpEnd(d)
       PROVE  Right(x)'
  BY <1>10, <1>e DEF DumpEnd
<1>11. ASSUME NEW u \in Users, Put(u)
       PROVE  Right(x)'
  <2>1. UNCHANGED <<entry, want>> /\ resize'.seen = resize.seen
    BY <1>11, <1>l DEF Put
  <2> QED
    BY <1>e, <2>1
<1>12. ASSUME NEW u \in Users, Check(u)
       PROVE  Right(x)'
  <2>1. UNCHANGED <<entry, want>> /\ resize'.seen = resize.seen
    BY <1>12, <1>l DEF Check
  <2> QED
    BY <1>e, <2>1
<1> QED
  BY <1>1, <1>2, <1>3, <1>4, <1>5, <1>6, <1>7, <1>8, <1>9, <1>10, <1>11, <1>12 DEF UserStep

----------------------------------------------------------------------------
(* The contents of the set                                                 *)

LEMMA ContentInit == ReplayInit => ContentInv
<1> SUFFICES ASSUME ReplayInit PROVE ContentInv
  OBVIOUS
<1>1. PacketPlace /\ resize.pc = "idle" /\ resize.todo = {} /\ ad = <<>> /\ want = {}
  BY DEF ReplayInit, Init, PacketPlace, Users, NoUser, NoResize
<1>2. Ordered(ad)
  BY <1>1 DEF Ordered
<1>3. \A p \in Packets : ~ Pending(p)
  BY DEF ReplayInit, Init, Users, NoUser, Pending
<1>4. Operations = {}
  BY <1>1 DEF Operations
<1>5. ASSUME NEW x \in Elems
      PROVE  InTurn(x) /\ Right(x)
  <2>1. ~ Saves(x, "add") /\ ~ Saves(x, "del")
    BY <1>3, <1>4 DEF Saves
  <2>2. ~ Live(table, x)
    BY DEF ReplayInit, Init, Empty, Live
  <2> QED
    BY <1>1, <2>1, <2>2 DEF InTurn, Right
<1> QED
  BY <1>1, <1>2, <1>5 DEF ContentInv

\* Deletes are saved before and adds behind what is in h->ad, and it is
\* repeated from its head
LEMMA OrderedNext == Shape /\ Ordered(ad) /\ QuietNext => Ordered(ad)'
<1> SUFFICES ASSUME Shape, Ordered(ad), QuietNext PROVE Ordered(ad)'
  OBVIOUS
<1>1. ad \in Seq(OpType)
  BY DEF Shape, TypeOK
<1>2. CASE ad' = ad
  BY <1>2 DEF Ordered
<1>3. CASE ResizeReplay
  <2>1. ad # <<>> /\ ad' = Tail(ad) /\ Head(ad) \in OpType
    BY <1>1, <1>3 DEF ResizeReplay
  <2>2. Ordered(Tail(ad))
    BY <1>1, <2>1, OrderKept
  <2> QED
    BY <2>1, <2>2 DEF Ordered
<1>4. ASSUME NEW p \in Packets, PacketLog(p)
      PROVE  Ordered(ad)'
  <2> DEFINE this == [op |-> user[p].op, x |-> user[p].x]
  <2>1. this \in OpType /\ this.op = user[p].op
    <3>1. p \in Users /\ user[p].pc = "log"
      BY <1>4 DEF PacketLog, Users
    <3>2. user[p].x \in Elems /\ user[p].op \in KernelOps[user[p].x]
      BY <3>1 DEF Shape, UserState
    <3> QED
      BY <3>2, HashAssumption DEF OpType
  <2>2. \/ this.op = "del" /\ ad' = <<this>> \o ad
        \/ this.op = "add" /\ ad' = Append(ad, this)
        \/ ad' = ad
    BY <1>4 DEF PacketLog
  <2> HIDE DEF this
  <2>3. CASE this.op = "del" /\ ad' = <<this>> \o ad
    <3>1. Ordered(<<this>> \o ad)
      BY <1>1, <2>1, <2>3, OrderKept
    <3> QED
      BY <2>3, <3>1 DEF Ordered
  <2>4. CASE this.op = "add" /\ ad' = Append(ad, this)
    <3>1. Ordered(Append(ad, this))
      BY <1>1, <2>1, <2>4, OrderKept
    <3> QED
      BY <2>4, <3>1 DEF Ordered
  <2> QED
    BY <1>2, <2>2, <2>3, <2>4
<1>5. CASE Command
  BY <1>2, <1>5 DEF Command, UserAdd, UserDel, Flush, FlushNets
<1>6. CASE (Quiet /\ \E t \in Tables : ResizeStart(t)) \/ ResizeOn
  BY <1>2, <1>3, <1>6 DEF ResizeOn, ResizeStart, ResizeBucket, ResizeCopy, ResizeFail,
     ResizeGiveUp, ResizePublish, ResizeSync, ResizeDone
<1>7. CASE UserStep
  <2>1. Moves
    BY <1>7, UserMoves
  <2> QED
    BY <1>2, <1>4, <2>1 DEF Moves
<1> QED
  BY <1>5, <1>6, <1>7 DEF QuietNext

LEMMA BucketNext ==
    Shape /\ resize.todo \cap resize.bucket = {} /\ QuietNext
       => (resize.todo \cap resize.bucket = {})'
<1> SUFFICES ASSUME Shape, resize.todo \cap resize.bucket = {}, QuietNext
             PROVE  resize'.todo \cap resize'.bucket = {}
  OBVIOUS
<1>1. resize \in ResizeType
  BY DEF Shape, TypeOK
<1>2. CASE Command
  BY <1>2 DEF Command, UserAdd, UserDel, Flush, FlushNets
<1>3. CASE (Quiet /\ \E t \in Tables : ResizeStart(t)) \/ ResizeOn
  <2>1. ASSUME NEW t \in Tables, ResizeStart(t)
        PROVE  resize'.todo \cap resize'.bucket = {}
    BY <2>1 DEF ResizeStart, NoResize
  <2>2. ASSUME NEW bucket \in SUBSET Elems, ResizeBucket(bucket)
        PROVE  resize'.todo \cap resize'.bucket = {}
    BY <2>2, <1>1 DEF ResizeBucket, ResizeType
  <2>3. ASSUME NEW x \in Elems, NEW before \in BOOLEAN, ResizeCopy(x, before)
        PROVE  resize'.todo \cap resize'.bucket = {}
    BY <2>3, <1>1 DEF ResizeCopy, ResizeType
  <2>4. ASSUME NEW fault \in {"nomem", "full"}, ResizeFail(fault)
        PROVE  resize'.todo \cap resize'.bucket = {}
    BY <2>4 DEF ResizeFail, NoResize
  <2>5. CASE ResizePublish \/ ResizeSync \/ ResizeReplay
    BY <2>5, <1>1 DEF ResizePublish, ResizeSync, ResizeReplay, ResizeType
  <2>6. CASE ResizeGiveUp \/ ResizeDone
    BY <2>6 DEF ResizeGiveUp, ResizeDone, NoResize
  <2> QED
    BY <1>3, <2>1, <2>2, <2>3, <2>4, <2>5, <2>6 DEF ResizeOn
<1>4. CASE UserStep
  BY <1>4, UserMoves DEF Moves
<1> QED
  BY <1>2, <1>3, <1>4 DEF QuietNext

LEMMA ContentNext ==
    Shape /\ LifeInv /\ ContentInv /\ [ReplayNext]_replayVars => ContentInv'
<1> SUFFICES ASSUME Shape, LifeInv, ContentInv, [ReplayNext]_replayVars PROVE ContentInv'
  OBVIOUS
<1>1. CASE UNCHANGED replayVars
  <2>1. UNCHANGED <<table, entry, ref, ad, resize, user, want, muddled>>
    BY <1>1 DEF replayVars, vars, tableVars
  <2>2. PacketPlace' /\ Ordered(ad)' /\ (resize.todo \cap resize.bucket = {})'
    BY <2>1 DEF ContentInv, PacketPlace, Ordered
  <2>3. \A x, op : Saves(x, op)' <=> Saves(x, op)
    BY <2>1 DEF Saves, Pending, Operations
  <2>4. \A x \in Elems \ muddled' : InTurn(x)' /\ Right(x)'
    BY <2>1, <2>3 DEF ContentInv, InTurn, Right, Agrees, Live
  <2> QED
    BY <2>2, <2>4 DEF ContentInv
<1>2. CASE ReplayNext
  <2>1. QuietNext /\ Muddle
    BY <1>2 DEF ReplayNext
  <2>2. PacketPlace' /\ Ordered(ad)' /\ (resize.todo \cap resize.bucket = {})'
    BY <2>1, PlaceNext, OrderedNext, BucketNext DEF ContentInv
  <2>3. ASSUME NEW x \in Elems, x \notin muddled'
        PROVE  InTurn(x)' /\ Right(x)'
    <3>1. x \notin muddled /\ ~ Lost(x) /\ (Repeats \/ InTurn(x)')
      BY <2>1, <2>3 DEF Muddle
    <3>2. InTurn(x) /\ Right(x)
      BY <3>1 DEF ContentInv
    <3>3. CASE ResizeReplay
      BY <3>1, <3>2, <3>3, RightReplay
    <3>4. Repeats => ResizeReplay
      <4> SUFFICES ASSUME Repeats PROVE ResizeReplay
        OBVIOUS
      <4>1. resize.pc = "replay" /\ ad # <<>> /\ ad' = Tail(ad) /\ ad \in Seq(OpType)
        BY DEF Repeats, Shape, TypeOK
      <4>2. ad' # ad
        <5>1. Len(Tail(ad)) # Len(ad)
          BY <4>1
        <5> QED
          BY <4>1, <5>1
      <4>3. ~ Command /\ ~ \E t \in Tables : ResizeStart(t)
        BY <4>1 DEF Command, UserAdd, UserDel, Flush, FlushNets, Idle, ResizeStart
      <4>4. ASSUME UserStep
            PROVE  FALSE
        <5>1. PICK p \in Packets : PacketLog(p)
          BY <4>2, <4>4, UserMoves DEF Moves
        <5>2. p \in Users /\ (Pending(p) \/ ad' = ad)
          BY <5>1 DEF PacketLog, Pending, Users
        <5> QED
          BY <4>1, <4>2, <5>2, ReplayedAlone DEF ContentInv
      <4> QED
        BY <2>1, <4>2, <4>3, <4>4 DEF QuietNext, ResizeOn, ResizeBucket, ResizeCopy, ResizeFail,
           ResizeGiveUp, ResizePublish, ResizeSync, ResizeDone
    <3>5. CASE ~ ResizeReplay
      <4>1. InTurn(x)'
        BY <3>1, <3>4, <3>5
      <4>2. Right(x)'
        <5>1. CASE Command
          BY <3>2, <5>1, RightCommand
        <5>2. CASE UserStep
          BY <3>1, <3>2, <5>2, RightUser
        <5>3. CASE ResizeDone
          BY <3>2, <5>3, RightDone
        <5>4. CASE ((\E t \in Tables : ResizeStart(t)) \/ ResizeOn) /\ ~ ResizeDone
          BY <3>2, <3>5, <5>4, RightCopy
        <5> QED
          BY <2>1, <5>1, <5>2, <5>3, <5>4 DEF QuietNext
      <4> QED
        BY <4>1, <4>2
    <3> QED
      BY <3>3, <3>5
  <2> QED
    BY <2>2, <2>3 DEF ContentInv
<1> QED
  BY <1>1, <1>2

LEMMA ReplayIsQuiet == [ReplayNext]_replayVars => [QuietNext]_vars
BY DEF ReplayNext, replayVars

\* At rest the set holds what the operations on it left, those of packets
\* during a resize included, unless they were lost or out of turn: for every
\* failure, every timeout and every order of packets and commands
THEOREM SettledExactCorrect == ReplaySpec => []SettledExact
<1>1. ReplayInit => Shape /\ LifeInv
  BY ShapeInit, LifeInit DEF ReplayInit
<1>2. Shape /\ LifeInv /\ [ReplayNext]_replayVars => (Shape /\ LifeInv)'
  BY LifeNext, ReplayIsQuiet
<1>3. ContentInv => SettledExact
  BY DEF ContentInv, Right, Live, SettledExact, Idle
<1> QED
  BY <1>1, <1>2, <1>3, ContentInit, ContentNext, PTL DEF ReplaySpec

----------------------------------------------------------------------------
(* Prefix sizes                                                            *)

\* The tables of the set: the current one, or both that a resize works with
Homes == IF resize.pc \in {"idle", "retry"} THEN {table} ELSE {resize.orig, resize.new}

\* Elements that have an entry in one of them, expired ones included
Held == {x \in Elems : \E t \in Homes : entry[t][x] # "no"}

Sized(S, c) == {x \in S : Cidr[x] = c}

BookedEnough ==
    \A c \in Cidrs \ miscounted : nets[c] >= Cardinality(Sized(Held, c))

\* What mtype_resize has read of a bucket and will copy is there
SeenHeld ==
    /\ resize.pc \in {"idle", "retry"} => resize.seen = {}
    /\ \A x \in resize.seen : Cidr[x] \in miscounted \/ x \in Held

BookedInv ==
    /\ flushing => resize.pc = "idle"
    /\ BookedEnough /\ SeenHeld

LEMMA SizedFinite ==
    ASSUME NEW S \in SUBSET Elems, NEW c
    PROVE  IsFiniteSet(Sized(S, c)) /\ Cardinality(Sized(S, c)) \in Nat
<1>1. Sized(S, c) \subseteq Elems /\ IsFiniteSet(Elems)
  BY HashAssumption DEF Sized
<1> QED
  BY <1>1, FS_Subset, FS_CardinalityType

LEMMA SizedFewer ==
    ASSUME NEW S \in SUBSET Elems, NEW T \in SUBSET Elems, NEW c, Sized(T, c) \subseteq Sized(S, c)
    PROVE  Cardinality(Sized(T, c)) <= Cardinality(Sized(S, c))
BY SizedFinite, FS_Subset

\* Counting down what has left keeps enough booked for what stays, as long as
\* it was counted at all
LEMMA DelCidrEnough ==
    ASSUME NEW n \in [Cidrs -> Nat], NEW c \in Cidrs, NEW S \in SUBSET Elems,
           NEW gone \in SUBSET Elems, n[c] >= Cardinality(Sized(S, c)),
           Sized(gone, c) \subseteq S
    PROVE  DelCidr(n, gone)[c] >= Cardinality(Sized(S \ gone, c))
<1> DEFINE k == Cardinality(Sized(gone, c))
           m == Cardinality(Sized(S, c))
           r == Cardinality(Sized(S \ gone, c))
<1>1. k \in Nat /\ m \in Nat /\ r \in Nat /\ n[c] \in Nat
  BY SizedFinite
<1>2. r = m - k
  <2>1. Sized(S \ gone, c) = Sized(S, c) \ Sized(gone, c)
    BY DEF Sized
  <2>2. Sized(S, c) \cap Sized(gone, c) = Sized(gone, c)
    BY DEF Sized
  <2>3. IsFiniteSet(Sized(S, c))
    BY SizedFinite
  <2>4. Cardinality(Sized(S, c) \ Sized(gone, c)) =
           Cardinality(Sized(S, c)) - Cardinality(Sized(S, c) \cap Sized(gone, c))
    BY <2>3, FS_Difference
  <2> QED
    BY <2>1, <2>2, <2>4
<1>3. DelCidr(n, gone)[c] = IF n[c] > k THEN n[c] - k ELSE 0
  BY DEF DelCidr, Sized
<1> HIDE DEF k, m, r
<1>4. n[c] >= m
  BY DEF m
<1>5. DelCidr(n, gone)[c] >= r
  BY <1>1, <1>2, <1>3, <1>4
<1> QED
  BY <1>5 DEF r

\* ... and nothing is counted down for a prefix size none of it had
LEMMA DelCidrOther ==
    ASSUME NEW n \in [Cidrs -> Nat], NEW c \in Cidrs, NEW gone \in SUBSET Elems,
           Sized(gone, c) = {}
    PROVE  DelCidr(n, gone)[c] = n[c]
<1>1. Cardinality(Sized(gone, c)) = 0
  BY FS_EmptySet
<1>2. DelCidr(n, gone)[c] = IF n[c] > 0 THEN n[c] - 0 ELSE 0
  BY <1>1 DEF DelCidr, Sized
<1> QED
  BY <1>2

\* One entry more takes one more of its size
LEMMA SizedAdd ==
    ASSUME NEW S \in SUBSET Elems, NEW x \in Elems, NEW c
    PROVE  Cardinality(Sized(S \cup {x}, c)) <=
              Cardinality(Sized(S, c)) + IF Cidr[x] = c THEN 1 ELSE 0
<1>1. IsFiniteSet(Sized(S, c)) /\ Cardinality(Sized(S, c)) \in Nat
  BY SizedFinite
<1>2. CASE x \notin S /\ Cidr[x] = c
  <2>1. Sized(S \cup {x}, c) = Sized(S, c) \cup {x} /\ x \notin Sized(S, c)
    BY <1>2 DEF Sized
  <2>2. Cardinality(Sized(S, c) \cup {x}) = Cardinality(Sized(S, c)) + 1
    BY <1>1, <2>1, FS_AddElement
  <2> QED
    BY <1>1, <1>2, <2>1, <2>2
<1>3. CASE ~ (x \notin S /\ Cidr[x] = c)
  <2>1. Sized(S \cup {x}, c) = Sized(S, c)
    BY <1>3 DEF Sized
  <2> QED
    BY <1>1, <1>3, <2>1
<1> QED
  BY <1>2, <1>3

\* What a step does to entries: those of gone leave table t, one of x comes
Books(t, x, gone, adds) ==
    /\ gone \subseteq {y \in Elems : entry[t][y] # "no"} /\ (adds => x \notin gone)
    /\ \A s \in Tables, y \in Elems :
          entry'[s][y] # "no" <=>
             \/ entry[s][y] # "no" /\ ~ (s = t /\ y \in gone)
             \/ adds /\ s = t /\ y = x
    /\ nets' = IF adds THEN AddCidr(DelCidr(nets, gone), Cidr[x]) ELSE DelCidr(nets, gone)

LEMMA DelCidrNone ==
    ASSUME NEW n \in [Cidrs -> Nat]
    PROVE  DelCidr(n, {}) = n
<1>1. \A c \in Cidrs : DelCidr(n, {})[c] = n[c]
  BY DelCidrOther DEF Sized
<1>2. DelCidr(n, {}) \in [Cidrs -> Nat]
  BY DelCidrType
<1> QED
  BY <1>1, <1>2

LEMMA BooksSteps ==
    ASSUME TypeOK, NEW t \in Tables, NEW x \in Elems
    PROVE  /\ \A gone \in SUBSET Elems : StoreEntry(t, x, gone) =>
                 \E adds \in BOOLEAN : Books(t, x, gone, adds)
           /\ DropEntry(t, x) /\ entry[t][x] # "no" => Books(t, x, {x}, FALSE)
<1>1. entry \in [Tables -> [Elems -> {"no", "live", "dead"}]] /\ nets \in [Cidrs -> Nat]
  BY DEF TypeOK
<1>2. ASSUME NEW gone \in SUBSET Elems, StoreEntry(t, x, gone)
      PROVE  \E adds \in BOOLEAN : Books(t, x, gone, adds)
  <2>1. /\ gone \subseteq Dead(t) \ {x} /\ (entry[t][x] = "dead" => gone = {})
        /\ entry' = [entry EXCEPT ![t] = [y \in Elems |-> IF y = x THEN "live"
                       ELSE IF y \in gone THEN "no" ELSE entry[t][y]]]
        /\ nets' = IF entry[t][x] = "dead" THEN nets
                   ELSE AddCidr(DelCidr(nets, gone), Cidr[x])
    BY <1>2 DEF StoreEntry
  <2>2. /\ \A y \in Elems : entry'[t][y] = IF y = x THEN "live"
                               ELSE IF y \in gone THEN "no" ELSE entry[t][y]
        /\ \A s \in Tables : s # t => entry'[s] = entry[s]
    BY <1>1, <2>1
  <2>3. gone \subseteq {y \in Elems : entry[t][y] # "no"} /\ x \notin gone
    BY <2>1 DEF Dead
  <2>4. CASE entry[t][x] = "dead"
    <3>1. nets' = DelCidr(nets, gone)
      BY <1>1, <2>1, <2>4, DelCidrNone
    <3>2. gone = {} /\ entry[t][x] # "no" /\ entry'[t][x] # "no"
      BY <2>1, <2>2, <2>4
    <3>3. \A s \in Tables, y \in Elems : entry'[s][y] # "no" <=> entry[s][y] # "no"
      BY <2>2, <3>2
    <3>4. Books(t, x, gone, FALSE)
      BY <2>3, <3>1, <3>2, <3>3 DEF Books
    <3> QED
      BY <3>4
  <2>5. CASE entry[t][x] # "dead"
    <3>1. Books(t, x, gone, TRUE)
      BY <2>1, <2>2, <2>3, <2>5 DEF Books
    <3> QED
      BY <3>1
  <2> QED
    BY <2>4, <2>5
<1>3. ASSUME DropEntry(t, x), entry[t][x] # "no"
      PROVE  Books(t, x, {x}, FALSE)
  <2>1. /\ \A y \in Elems : entry'[t][y] = IF y = x THEN "no" ELSE entry[t][y]
        /\ \A s \in Tables : s # t => entry'[s] = entry[s]
        /\ nets' = DelCidr(nets, {x})
    BY <1>1, <1>3 DEF DropEntry
  <2> QED
    BY <1>3, <2>1 DEF Books
<1> QED
  BY <1>2, <1>3

LEMMA BooksSweep ==
    ASSUME TypeOK, NEW t \in Tables, Sweep(t)
    PROVE  \A x : Books(t, x, Dead(t), FALSE)
<1>1. entry \in [Tables -> [Elems -> {"no", "live", "dead"}]]
  BY DEF TypeOK
<1>2. entry' = [entry EXCEPT ![t] =
                  [y \in Elems |-> IF entry[t][y] = "dead" THEN "no" ELSE entry[t][y]]]
  BY DEF Sweep
<1>3. /\ \A y \in Elems : entry'[t][y] = IF entry[t][y] = "dead" THEN "no" ELSE entry[t][y]
      /\ \A s \in Tables : s # t => entry'[s] = entry[s]
  BY <1>1, <1>2
<1> QED
  BY <1>3 DEF Books, Dead, Sweep

\* Entries that come and go in one table, while the set keeps its tables
LEMMA BooksEnough ==
    ASSUME Shape, LifeInv, BookedInv, Miscount, NEW t \in memory, NEW x \in Elems,
           NEW gone \in SUBSET Elems, NEW adds \in BOOLEAN, Books(t, x, gone, adds),
           table' = table, flushing' = flushing, resize'.pc = resize.pc,
           resize'.orig = resize.orig, resize'.new = resize.new, resize'.seen = resize.seen
    PROVE  BookedInv'
<1>t. /\ TypeOK /\ t \in Tables /\ table \in Tables /\ nets \in [Cidrs -> Nat]
      /\ BookedEnough /\ SeenHeld /\ NULL \notin Tables
  BY HashAssumption DEF Shape, TypeOK, BookedInv
<1>r. /\ resize.pc \in {"idle", "retry"} => resize.orig = NULL
      /\ resize.pc \notin {"idle", "retry"} =>
            resize.orig \in Tables /\ resize.new \in Tables /\ resize.orig # NULL
  BY HashAssumption DEF Shape, TypeOK, ResizeType, ResizeState
<1>h. Homes' = Homes /\ Homes \subseteq Tables
  BY <1>r, <1>t DEF Homes
<1>1. gone = Removed(t)
  BY <1>t DEF Books, Removed
<1>2. miscounted \subseteq miscounted'
      /\ \A y \in gone : TwoTables(t) => Cidr[y] \in miscounted'
  BY <1>1 DEF Miscount
<1>3. Held \in SUBSET Elems /\ Held' \in SUBSET Elems
  BY DEF Held
<1>4. Held' \subseteq Held \cup {y \in {x} : adds} /\ \A y \in Held : y \in Held' \/ y \in gone
  <2>1. Held' = {y \in Elems : \E s \in Homes : entry'[s][y] # "no"}
    BY <1>h DEF Held
  <2> QED
    BY <1>h, <2>1 DEF Held, Books
<1>5. ~ TwoTables(t) => /\ gone \subseteq Held
                        /\ Held' \subseteq (Held \ gone) \cup {y \in {x} : adds}
  <2> SUFFICES ASSUME ~ TwoTables(t)
               PROVE  /\ gone \subseteq Held
                      /\ Held' \subseteq (Held \ gone) \cup {y \in {x} : adds}
    OBVIOUS
  <2>1. t = table /\ Homes = {t}
    BY <1>r DEF TwoTables, Homes
  <2>2. Held = {y \in Elems : entry[t][y] # "no"} /\ Held' = {y \in Elems : entry'[t][y] # "no"}
    BY <1>h, <2>1 DEF Held
  <2> QED
    BY <1>t, <2>2 DEF Books
<1>6. ASSUME NEW c \in Cidrs \ miscounted'
      PROVE  nets'[c] >= Cardinality(Sized(Held', c))
  <2> DEFINE K == IF Sized(gone, c) = {} THEN Held ELSE Held \ gone
             d == DelCidr(nets, gone)[c]
             k == Cardinality(Sized(K, c))
             m == Cardinality(Sized(Held', c))
             j == Cardinality(Sized(K \cup {x}, c))
  <2>1. nets[c] >= Cardinality(Sized(Held, c)) /\ K \in SUBSET Elems
    BY <1>2, <1>3, <1>t DEF BookedEnough
  <2>2. d >= k /\ Sized(Held', c) \subseteq Sized(K \cup {y \in {x} : adds}, c)
    <3>1. CASE Sized(gone, c) = {}
      <4>1. d = nets[c] /\ K = Held
        BY <1>t, <3>1, DelCidrOther
      <4> QED
        BY <1>4, <2>1, <4>1 DEF Sized
    <3>2. CASE Sized(gone, c) # {}
      <4>1. ~ TwoTables(t) /\ K = Held \ gone
        BY <1>2, <3>2 DEF Sized
      <4>2. gone \subseteq Held /\ Held' \subseteq K \cup {y \in {x} : adds}
        BY <1>5, <4>1
      <4>3. Sized(gone, c) \subseteq Held
        BY <4>2 DEF Sized
      <4>4. d >= k
        BY <1>3, <1>t, <2>1, <4>1, <4>3, DelCidrEnough
      <4> QED
        BY <4>2, <4>4 DEF Sized
    <3> QED
      BY <3>1, <3>2
  <2>3. d \in Nat /\ k \in Nat /\ m \in Nat /\ j \in Nat
    BY <1>3, <1>t, <2>1, DelCidrType, SizedFinite
  <2>4. nets'[c] = IF adds /\ Cidr[x] = c THEN d + 1 ELSE d
    <3>1. DelCidr(nets, gone) \in [Cidrs -> Nat]
      BY <1>t, DelCidrType
    <3> QED
      BY <3>1 DEF Books, AddCidr
  <2>5. j <= k + IF Cidr[x] = c THEN 1 ELSE 0
    BY <2>1, SizedAdd
  <2>6. adds => m <= j
    <3>1. adds => Sized(Held', c) \subseteq Sized(K \cup {x}, c)
      BY <2>2
    <3> QED
      BY <1>3, <2>1, <3>1, SizedFewer
  <2>7. ~ adds => m <= k
    <3>1. ~ adds => Sized(Held', c) \subseteq Sized(K, c)
      BY <2>2
    <3> QED
      BY <1>3, <2>1, <3>1, SizedFewer
  <2>8. d >= k
    BY <2>2
  <2> HIDE DEF K, d, k, m, j
  <2>9. nets'[c] >= m
    BY <2>3, <2>4, <2>5, <2>6, <2>7, <2>8
  <2> QED
    BY <2>9 DEF m
<1>7. SeenHeld'
  <2>1. ASSUME NEW y \in resize.seen, Cidr[y] \notin miscounted'
        PROVE  y \in Held'
    <3>1. y \in Held /\ resize.pc \notin {"idle", "retry"}
      BY <1>2, <1>t, <2>1 DEF SeenHeld
    <3>2. y \notin gone
      BY <1>2, <1>r, <2>1, <3>1 DEF TwoTables
    <3> QED
      BY <1>4, <3>1, <3>2
  <2> QED
    BY <1>t, <2>1 DEF SeenHeld
<1> QED
  BY <1>6, <1>7 DEF BookedInv, BookedEnough

\* Nothing leaves and nothing comes in the tables of the set
LEMMA BooksFewer ==
    ASSUME Shape, BookedInv, Miscount, nets' = nets, Held' \subseteq Held,
           flushing' => resize'.pc = "idle", SeenHeld'
    PROVE  BookedInv'
<1>1. ASSUME NEW c \in Cidrs \ miscounted'
      PROVE  nets'[c] >= Cardinality(Sized(Held', c))
  <2> DEFINE k == Cardinality(Sized(Held, c))
             m == Cardinality(Sized(Held', c))
  <2>1. c \notin miscounted /\ nets[c] \in Nat
    BY DEF Miscount, Shape, TypeOK
  <2>2. k \in Nat /\ m \in Nat /\ m <= k
    <3>1. Held \in SUBSET Elems /\ Held' \in SUBSET Elems /\ Sized(Held', c) \subseteq Sized(Held, c)
      BY DEF Held, Sized
    <3> QED
      BY <3>1, SizedFinite, SizedFewer
  <2>3. nets[c] >= k
    BY <2>1 DEF BookedInv, BookedEnough
  <2> HIDE DEF k, m
  <2>4. nets'[c] >= m
    BY <2>1, <2>2, <2>3
  <2> QED
    BY <2>4 DEF m
<1> QED
  BY <1>1 DEF BookedInv, BookedEnough

LEMMA BookedInit == ReplayInit => BookedInv
<1> SUFFICES ASSUME ReplayInit PROVE BookedInv
  OBVIOUS
<1>1. Held = {} /\ resize.seen = {} /\ resize.pc = "idle" /\ ~ flushing
  BY DEF ReplayInit, Init, NoResize, Homes, Held, Empty
<1>2. \A c : Cardinality(Sized(Held, c)) = 0
  BY <1>1, FS_EmptySet DEF Sized
<1>3. BookedEnough
  BY <1>2 DEF ReplayInit, Init, BookedEnough
<1> QED
  BY <1>1, <1>3 DEF BookedInv, SeenHeld

LEMMA BookedCommand ==
    Shape /\ LifeInv /\ BookedInv /\ Command /\ Miscount => BookedInv'
<1> SUFFICES ASSUME Shape, LifeInv, BookedInv, Command, Miscount PROVE BookedInv'
  OBVIOUS
<1> USE DEF tableVars
<1>t. /\ TypeOK /\ table \in Tables /\ table \in memory /\ SeenHeld
      /\ entry \in [Tables -> [Elems -> {"no", "live", "dead"}]]
  BY DEF Shape, TypeOK, LifeInv, TableAlive, BookedInv
<1>1. ASSUME NEW x \in Elems, UserAdd(x)
      PROVE  BookedInv'
  <2>1. PICK gone \in SUBSET Elems : StoreEntry(table, x, gone)
    BY <1>1 DEF UserAdd
  <2>2. PICK adds \in BOOLEAN : Books(table, x, gone, adds)
    BY <1>t, <2>1, BooksSteps
  <2> QED
    BY <1>1, <1>t, <2>2, BooksEnough DEF UserAdd
<1>2. ASSUME NEW x \in Elems, UserDel(x)
      PROVE  BookedInv'
  <2>1. Books(table, x, {x}, FALSE)
    BY <1>2, <1>t, BooksSteps DEF UserDel
  <2>2. {x} \in SUBSET Elems
    OBVIOUS
  <2> QED
    BY <1>2, <1>t, <2>1, <2>2, BooksEnough DEF UserDel
<1>3. CASE Flush
  <2>1. /\ resize.pc = "idle" /\ UNCHANGED <<table, nets, resize>>
        /\ \A x \in Elems : entry'[table][x] = "no"
    BY <1>3, <1>t DEF Flush, Idle, Empty
  <2>2. Held' = {}
    BY <2>1 DEF Held, Homes
  <2>3. SeenHeld'
    BY <1>t, <2>1 DEF SeenHeld
  <2> QED
    BY <2>1, <2>2, <2>3, BooksFewer
<1>4. CASE FlushNets
  <2>1. /\ resize.pc = "idle" /\ flushing /\ ~ flushing' /\ UNCHANGED <<table, entry, resize>>
        /\ nets' = [c \in Cidrs |-> 0]
    BY <1>4 DEF FlushNets, BookedInv
  <2>2. \A x \in Held : Cidr[x] \in miscounted'
    BY <1>t, <2>1 DEF Held, Homes, Miscount, Forgets
  <2>3. Held' = Held
    BY <2>1 DEF Held, Homes
  <2>4. \A c \in Cidrs \ miscounted' : Sized(Held', c) = {}
    BY <2>2, <2>3 DEF Sized
  <2>5. \A c \in Cidrs \ miscounted' : nets'[c] = 0 /\ Cardinality(Sized(Held', c)) = 0
    BY <2>1, <2>4, FS_EmptySet
  <2>6. BookedEnough'
    BY <2>5 DEF BookedEnough
  <2>7. SeenHeld'
    BY <1>t, <2>1 DEF SeenHeld
  <2> QED
    BY <2>1, <2>6, <2>7 DEF BookedInv
<1> QED
  BY <1>1, <1>2, <1>3, <1>4 DEF Command

LEMMA BookedResize ==
    ASSUME Shape, LifeInv, BookedInv, Miscount, (\E t \in Tables : ResizeStart(t)) \/ ResizeOn
    PROVE  BookedInv'
<1> USE DEF tableVars
<1>t. /\ TypeOK /\ table \in Tables /\ table \in memory /\ resize \in ResizeType /\ SeenHeld
      /\ entry \in [Tables -> [Elems -> {"no", "live", "dead"}]]
      /\ flushing => resize.pc = "idle"
      /\ miscounted \subseteq miscounted'
  BY DEF Shape, TypeOK, LifeInv, TableAlive, BookedInv, Miscount
<1>s. resize.pc \in {"copy", "sync", "replay"} =>
         /\ resize.orig \in Tables /\ resize.new \in Tables /\ resize.orig # resize.new
         /\ table = IF resize.pc = "copy" THEN resize.orig ELSE resize.new
  BY DEF Shape, ResizeState, LifeInv, NewUnused
<1>e. ASSUME UNCHANGED <<entry, nets, flushing>>, resize.pc # "idle", Homes' \subseteq Homes,
             SeenHeld'
      PROVE  BookedInv'
  <2>1. Held' \subseteq Held
    BY <1>e DEF Held
  <2> QED
    BY <1>e, <1>t, <2>1, BooksFewer
<1>1. ASSUME NEW s \in Tables, ResizeStart(s)
      PROVE  BookedInv'
  <2>1. /\ resize.pc \in {"idle", "retry"} /\ s # table /\ ~ flushing
        /\ resize'.pc = "copy" /\ resize'.orig = table /\ resize'.new = s /\ resize'.seen = {}
        /\ UNCHANGED <<table, nets, flushing>> /\ entry' = [entry EXCEPT ![s] = Empty]
    BY <1>1, <1>t DEF ResizeStart, NoResize
  <2>2. (\A x \in Elems : entry'[s][x] = "no") /\ entry'[table] = entry[table]
    BY <1>t, <2>1 DEF Empty
  <2>3. Homes = {table} /\ Homes' = {table, s}
    BY <2>1 DEF Homes
  <2>4. Held' \subseteq Held
    BY <2>2, <2>3 DEF Held
  <2>5. SeenHeld'
    BY <2>1 DEF SeenHeld
  <2> QED
    BY <2>1, <2>4, <2>5, BooksFewer
<1>2. ASSUME NEW bucket \in SUBSET Elems, ResizeBucket(bucket)
      PROVE  BookedInv'
  <2>1. /\ resize.pc = "copy" /\ resize'.pc = "copy" /\ resize'.orig = resize.orig
        /\ resize'.new = resize.new
        /\ resize'.seen = {x \in bucket : entry[resize.orig][x] = "live"}
        /\ UNCHANGED <<table, entry, nets, flushing>>
    BY <1>2, <1>t DEF ResizeBucket, ResizeType
  <2>2. Homes' = Homes /\ Held' = Held
    BY <2>1 DEF Homes, Held
  <2>3. resize'.seen \subseteq Held
    BY <2>1 DEF Homes, Held
  <2>4. SeenHeld'
    BY <2>1, <2>2, <2>3 DEF SeenHeld
  <2> QED
    BY <1>e, <2>1, <2>2, <2>4
<1>3. ASSUME NEW x \in Elems, NEW before \in BOOLEAN, ResizeCopy(x, before)
      PROVE  BookedInv'
  <2> DEFINE met == IF before THEN x \in resize.seen ELSE entry[resize.orig][x] = "live"
  <2>1. /\ resize.pc = "copy" /\ resize'.pc = "copy" /\ resize'.orig = resize.orig
        /\ resize'.new = resize.new /\ resize'.seen \subseteq resize.seen
        /\ UNCHANGED <<table, nets, flushing>>
        /\ entry' = IF met THEN [entry EXCEPT ![resize.new][x] = "live"] ELSE entry
    BY <1>3, <1>t DEF ResizeCopy, ResizeType
  <2>2. Homes' = Homes /\ Homes = {resize.orig, resize.new}
    BY <2>1 DEF Homes
  <2>3. met => x \in Held \/ Cidr[x] \in miscounted
    BY <1>t, <2>1, <2>2 DEF SeenHeld, Held
  <2> HIDE DEF met
  <2>4. /\ Held \subseteq Held'
        /\ Held' \subseteq Held \cup {y \in {x} : met}
    <3>1. Held' = {y \in Elems : \E s \in Homes : entry'[s][y] # "no"}
      BY <2>2 DEF Held
    <3>2. \A s \in Homes, y \in Elems :
             entry'[s][y] = IF met /\ s = resize.new /\ y = x THEN "live" ELSE entry[s][y]
      BY <1>s, <1>t, <2>1, <2>2
    <3> QED
      BY <3>1, <3>2 DEF Held
  <2>5. SeenHeld'
    BY <1>t, <2>1, <2>4 DEF SeenHeld
  <2>6. ASSUME NEW c \in Cidrs \ miscounted'
        PROVE  nets'[c] >= Cardinality(Sized(Held', c))
    <3>1. Sized(Held', c) = Sized(Held, c)
      BY <1>t, <2>3, <2>4, <2>6 DEF Sized
    <3> QED
      BY <1>t, <2>1, <2>6, <3>1 DEF BookedInv, BookedEnough
  <2> QED
    BY <1>t, <2>1, <2>5, <2>6 DEF BookedInv, BookedEnough
<1>4. ASSUME NEW fault \in {"nomem", "full"}, ResizeFail(fault)
      PROVE  BookedInv'
  <2>1. /\ resize.pc = "copy" /\ resize'.pc \in {"idle", "retry"} /\ resize'.seen = {}
        /\ UNCHANGED <<table, entry, nets, flushing>>
    BY <1>4 DEF ResizeFail, NoResize
  <2>2. Homes' \subseteq Homes /\ SeenHeld'
    BY <1>s, <2>1 DEF Homes, SeenHeld
  <2> QED
    BY <1>e, <2>1, <2>2
<1>5. CASE ResizeGiveUp
  <2>1. /\ resize.pc = "retry" /\ resize'.pc = "idle" /\ resize'.seen = {}
        /\ UNCHANGED <<table, entry, nets, flushing>>
    BY <1>5 DEF ResizeGiveUp, NoResize
  <2>2. Homes' \subseteq Homes /\ SeenHeld'
    BY <2>1 DEF Homes, SeenHeld
  <2> QED
    BY <1>e, <2>1, <2>2
<1>6. CASE ResizePublish \/ ResizeSync
  <2>1. /\ resize.pc \in {"copy", "sync"} /\ resize'.pc \in {"sync", "replay"}
        /\ resize'.orig = resize.orig /\ resize'.new = resize.new /\ resize'.seen = resize.seen
        /\ UNCHANGED <<entry, nets, flushing>>
    BY <1>6, <1>t DEF ResizePublish, ResizeSync, ResizeType
  <2>2. Homes' = Homes /\ Held' = Held
    BY <2>1 DEF Homes, Held
  <2>3. SeenHeld'
    BY <1>t, <2>1, <2>2 DEF SeenHeld
  <2> QED
    BY <1>e, <2>1, <2>2, <2>3
<1>7. CASE ResizeReplay
  <2> DEFINE x == Head(ad).x
  <2>1. /\ resize.pc = "replay" /\ ad # <<>> /\ ad \in Seq(OpType)
        /\ UNCHANGED <<table, resize, flushing>>
    BY <1>7, <1>t DEF ResizeReplay, TypeOK
  <2>2. x \in Elems
    <3>1. Head(ad) \in OpType
      BY <2>1
    <3> QED
      BY <3>1 DEF OpType
  <2>3. \/ \E gone \in SUBSET Elems : StoreEntry(table, x, gone)
        \/ DropEntry(table, x) /\ entry[table][x] = "live"
        \/ UNCHANGED <<entry, nets>>
    BY <1>7 DEF ResizeReplay
  <2> HIDE DEF x
  <2>4. CASE UNCHANGED <<entry, nets>>
    <3>1. Homes' = Homes /\ Held' = Held
      BY <2>1, <2>4 DEF Homes, Held
    <3>2. SeenHeld'
      BY <1>t, <2>1, <3>1 DEF SeenHeld
    <3> QED
      BY <1>e, <2>1, <2>4, <3>1, <3>2
  <2>5. ASSUME NEW gone \in SUBSET Elems, StoreEntry(table, x, gone)
        PROVE  BookedInv'
    <3>1. PICK adds \in BOOLEAN : Books(table, x, gone, adds)
      BY <1>t, <2>2, <2>5, BooksSteps
    <3> QED
      BY <1>t, <2>1, <2>2, <3>1, BooksEnough
  <2>6. CASE DropEntry(table, x) /\ entry[table][x] = "live"
    <3>1. Books(table, x, {x}, FALSE) /\ {x} \in SUBSET Elems
      BY <1>t, <2>2, <2>6, BooksSteps
    <3> QED
      BY <1>t, <2>1, <2>2, <3>1, BooksEnough
  <2> QED
    BY <2>3, <2>4, <2>5, <2>6
<1>8. CASE ResizeDone
  <2>1. /\ resize.pc = "replay" /\ resize'.pc = "idle" /\ resize'.seen = {}
        /\ UNCHANGED <<table, entry, nets, flushing>>
    BY <1>8 DEF ResizeDone, NoResize
  <2>2. Homes' \subseteq Homes /\ SeenHeld'
    BY <1>s, <2>1 DEF Homes, SeenHeld
  <2> QED
    BY <1>e, <2>1, <2>2
<1> QED
  BY <1>1, <1>2, <1>3, <1>4, <1>5, <1>6, <1>7, <1>8 DEF ResizeOn

LEMMA BookedUserStep ==
    Shape /\ LifeInv /\ BookedInv /\ UserStep /\ Miscount => BookedInv'
<1> SUFFICES ASSUME Shape, LifeInv, BookedInv, UserStep, Miscount PROVE BookedInv'
  OBVIOUS
<1> USE DEF tableVars
<1>t. /\ TypeOK /\ SeenHeld /\ Packets \subseteq Users /\ "gc" \in Users
      /\ entry \in [Tables -> [Elems -> {"no", "live", "dead"}]]
      /\ flushing => resize.pc = "idle"
      /\ miscounted \subseteq miscounted'
  BY DEF Shape, TypeOK, BookedInv, Users, Miscount
<1>m. /\ UNCHANGED <<table, flushing>>
      /\ resize'.pc = resize.pc /\ resize'.orig = resize.orig /\ resize'.new = resize.new
      /\ resize'.seen \subseteq resize.seen /\ Homes' = Homes
  BY UserMoves DEF Moves, Homes
<1>i. \A u \in Users : user[u].pc = "have" =>
         /\ user[u].t \in memory /\ user[u].t \in Tables
         /\ u \in Packets => user[u].x \in Elems
  BY DEF LifeInv, TableAlive, Shape, UserState
<1>e. ASSUME UNCHANGED <<entry, nets>>
      PROVE  BookedInv'
  <2>1. Held' = Held
    BY <1>e, <1>m DEF Held
  <2>2. SeenHeld'
    BY <1>m, <1>t, <2>1 DEF SeenHeld
  <2> QED
    BY <1>e, <1>m, <1>t, <2>1, <2>2, BooksFewer
<1>s. ASSUME NEW u \in Users, user[u].pc = "have", Sweep(user[u].t), resize' = resize
      PROVE  BookedInv'
  <2>1. Dead(user[u].t) \in SUBSET Elems
    BY DEF Dead
  <2>2. ASSUME NEW x \in Elems
        PROVE  BookedInv'
    <3>1. Books(user[u].t, x, Dead(user[u].t), FALSE)
      BY <1>i, <1>s, <1>t, BooksSweep
    <3> QED
      BY <1>i, <1>m, <1>s, <2>1, <3>1, BooksEnough
  <2>3. CASE Elems = {}
    <3>1. Cidrs = {} /\ Held = {} /\ Held' = {}
      BY <2>3 DEF Cidrs, Held
    <3>2. resize.seen = {}
      BY <2>3 DEF Shape, TypeOK, ResizeType
    <3> QED
      BY <1>m, <1>t, <3>1, <3>2 DEF BookedInv, BookedEnough, SeenHeld
  <2> QED
    BY <2>2, <2>3
<1>1. ASSUME NEW p \in Packets, NEW op \in {"add", "del"}, NEW x \in Elems, PacketGet(p, op, x)
      PROVE  BookedInv'
  BY <1>1, <1>e DEF PacketGet, Get
<1>2. ASSUME NEW p \in Packets, PacketSweep(p)
      PROVE  BookedInv'
  BY <1>2, <1>s, <1>t DEF PacketSweep
<1>3. ASSUME NEW p \in Packets, PacketAdd(p)
      PROVE  BookedInv'
  <2>1. /\ user[p].t \in memory /\ user[p].t \in Tables /\ user[p].x \in Elems
        /\ resize' = resize
    BY <1>3, <1>i, <1>t DEF PacketAdd
  <2>2. CASE UNCHANGED <<entry, nets>>
    BY <1>e, <2>2
  <2>3. ASSUME NEW gone \in SUBSET Elems, StoreEntry(user[p].t, user[p].x, gone)
        PROVE  BookedInv'
    <3>1. PICK adds \in BOOLEAN : Books(user[p].t, user[p].x, gone, adds)
      BY <1>t, <2>1, <2>3, BooksSteps
    <3> QED
      BY <1>m, <2>1, <3>1, BooksEnough
  <2> QED
    BY <1>3, <2>2, <2>3 DEF PacketAdd
<1>4. ASSUME NEW p \in Packets, PacketDel(p)
      PROVE  BookedInv'
  <2>1. /\ user[p].t \in memory /\ user[p].t \in Tables /\ user[p].x \in Elems
        /\ resize' = resize
    BY <1>4, <1>i, <1>t DEF PacketDel
  <2>2. CASE UNCHANGED <<entry, nets>>
    BY <1>e, <2>2
  <2>3. CASE DropEntry(user[p].t, user[p].x) /\ entry[user[p].t][user[p].x] = "live"
    <3>1. /\ Books(user[p].t, user[p].x, {user[p].x}, FALSE)
          /\ {user[p].x} \in SUBSET Elems
      BY <1>t, <2>1, <2>3, BooksSteps
    <3> QED
      BY <1>m, <2>1, <3>1, BooksEnough
  <2> QED
    BY <1>4, <2>2, <2>3 DEF PacketDel
<1>5. ASSUME NEW p \in Packets, PacketLog(p)
      PROVE  BookedInv'
  BY <1>5, <1>e DEF PacketLog
<1>6. ASSUME NEW x \in Elems, Expire(x)
      PROVE  BookedInv'
  <2>1. \A s \in Tables : entry'[s] = IF entry[s][x] = "live"
                                      THEN [entry[s] EXCEPT ![x] = "dead"] ELSE entry[s]
    BY <1>6 DEF Expire
  <2>2. \A s \in Tables, y \in Elems : entry'[s][y] # "no" <=> entry[s][y] # "no"
    BY <1>t, <2>1
  <2>3. Homes \subseteq Tables
    BY DEF Homes, Shape, TypeOK, ResizeType, ResizeState
  <2>4. Held' = Held
    <3>1. Held' = {y \in Elems : \E s \in Homes : entry'[s][y] # "no"}
      BY <1>m DEF Held
    <3> QED
      BY <2>2, <2>3, <3>1 DEF Held
  <2>5. SeenHeld'
    BY <1>m, <1>t, <2>4 DEF SeenHeld
  <2> QED
    BY <1>6, <1>m, <1>t, <2>4, <2>5, BooksFewer DEF Expire
<1>7. CASE GcGet
  BY <1>7, <1>e DEF GcGet, Get
<1>8. CASE GcDo
  BY <1>8, <1>s, <1>t DEF GcDo
<1>9. ASSUME NEW d \in Dumpers, DumpGet(d)
      PROVE  BookedInv'
  BY <1>9, <1>e DEF DumpGet, Get
<1>10. ASSUME NEW d \in Dumpers, DumpEnd(d)
       PROVE  BookedInv'
  BY <1>10, <1>e DEF DumpEnd
<1>11. ASSUME NEW u \in Users, Put(u)
       PROVE  BookedInv'
  BY <1>11, <1>e DEF Put
<1>12. ASSUME NEW u \in Users, Check(u)
       PROVE  BookedInv'
  BY <1>12, <1>e DEF Check
<1> QED
  BY <1>1, <1>2, <1>3, <1>4, <1>5, <1>6, <1>7, <1>8, <1>9, <1>10, <1>11, <1>12 DEF UserStep

LEMMA BookedNext ==
    Shape /\ LifeInv /\ BookedInv /\ [ReplayNext]_replayVars => BookedInv'
<1> SUFFICES ASSUME Shape, LifeInv, BookedInv, [ReplayNext]_replayVars PROVE BookedInv'
  OBVIOUS
<1>1. CASE UNCHANGED replayVars
  <2>1. UNCHANGED <<table, entry, nets, resize, flushing, miscounted>>
    BY <1>1 DEF replayVars, vars, tableVars
  <2>2. Held' = Held
    BY <2>1 DEF Held, Homes
  <2> QED
    BY <2>1, <2>2 DEF BookedInv, BookedEnough, SeenHeld
<1>2. CASE ReplayNext
  BY <1>2, BookedCommand, BookedResize, BookedUserStep DEF ReplayNext, QuietNext
<1> QED
  BY <1>1, <1>2

\* The prefix size of every stored network is in h->nets, where
\* mtype_test_cidrs looks for it, unless entries of that size were removed
\* while two tables held them or added while the set was flushed
THEOREM CidrBookedCorrect == ReplaySpec => []CidrBooked
<1>1. ReplayInit => Shape /\ LifeInv
  BY ShapeInit, LifeInit DEF ReplayInit
<1>2. Shape /\ LifeInv /\ [ReplayNext]_replayVars => (Shape /\ LifeInv)'
  BY LifeNext, ReplayIsQuiet
<1>3. Shape /\ BookedInv => CidrBooked
  <2> SUFFICES ASSUME Shape, BookedInv, Idle, NEW x \in Elems, entry[table][x] = "live",
                      Cidr[x] \notin miscounted
               PROVE  nets[Cidr[x]] > 0
    BY DEF CidrBooked
  <2> DEFINE c == Cidr[x]
             k == Cardinality(Sized(Held, c))
  <2>1. c \in Cidrs /\ nets[c] \in Nat
    BY DEF Shape, TypeOK, Cidrs
  <2>2. IsFiniteSet(Sized(Held, c)) /\ k \in Nat /\ x \in Sized(Held, c)
    <3>1. Held \in SUBSET Elems /\ x \in Held
      BY DEF Held, Homes, Idle
    <3> QED
      BY <3>1, SizedFinite DEF Sized
  <2>3. k # 0
    BY <2>2, FS_EmptySet
  <2>4. nets[c] >= k
    BY <2>1 DEF BookedInv, BookedEnough
  <2> HIDE DEF k
  <2> QED
    BY <2>1, <2>2, <2>3, <2>4
<1> QED
  BY <1>1, <1>2, <1>3, BookedInit, BookedNext, PTL DEF ReplaySpec
=============================================================================
