----------------------------- MODULE HashResize -----------------------------
(***************************************************************************)
(* Resizing of a hash set (mtype_resize in ip_set_hash_gen.h) against      *)
(* everything that runs beside it: entries added and deleted by packets    *)
(* (SET target), the garbage collector, dumps and the remaining commands.  *)
(*                                                                         *)
(* A table maps every element to "no", "live" or "dead" (its slot is used  *)
(* but the entry has expired).  Where in the table an element is stored is *)
(* left out: a full bucket or a full set is a choice.  The nfnl mutex is   *)
(* held by a resize and by a flush from start to end, so other commands    *)
(* run only when neither is in progress, and t->ref of the table they use  *)
(* stays 0.  Sets created with forceadd, which overwrite live entries, are *)
(* not covered.                                                            *)
(***************************************************************************)
EXTENDS Integers, Sequences, FiniteSets

CONSTANTS
    Elems,      \* elements
    Cidr,       \* function: the prefix size of an element
    Tables,     \* addresses a struct htable can have; freed ones are reused
    NULL,       \* the null pointer
    Packets,    \* packets that add or delete entries, under RCU
    Dumpers,    \* dumps of the set
    KernelOps,  \* function: what packets do with an element, add or del
    UserOps,    \* subset of {"add", "del", "flush"}: what commands do
    Timeouts,   \* TRUE when entries expire and the gc work runs
    Faults,     \* subset of {"nomem", "full"}: what can go wrong
    MaxBits,    \* largest htable_bits htable_size accepts, less the initial
    MaxAd,      \* bound of the length of h->ad
    MaxNets     \* bound of the number of elements booked for a prefix size

Cidrs == {Cidr[x] : x \in Elems}
Users == Packets \cup Dumpers \cup {"gc"}

ASSUME HashAssumption ==
    /\ NULL \notin Tables /\ Timeouts \in BOOLEAN
    /\ Packets \cap Dumpers = {} /\ "gc" \notin Packets \cup Dumpers
    /\ IsFiniteSet(Users) /\ IsFiniteSet(Elems)
    /\ KernelOps \in [Elems -> SUBSET {"add", "del"}] /\ Faults \subseteq {"nomem", "full"}
    /\ UserOps \subseteq {"add", "del", "flush"}
    /\ MaxBits \in Nat /\ MaxAd \in Nat /\ MaxNets \in Nat

VARIABLES
    table,      \* h->table
    bits,       \* its htable_bits, less the initial one
    memory,     \* tables that are allocated
    entry,      \* what each table holds
    ref,        \* t->ref: the table is being replaced
    uref,       \* t->uref: users of the table
    nets,       \* h->nets: elements booked for each prefix size
    ad,         \* h->ad: operations to repeat on the new table
    resize,     \* progress of mtype_resize
    user,       \* progress of packets, dumps and the gc work
    flushing,   \* mtype_flush between its loop and the reset of h->nets
    want        \* elements the set holds if operations count in their order

tableVars == <<table, bits, memory, ref, uref>>
vars == <<tableVars, entry, nets, ad, resize, user, flushing, want>>

NoResize == [pc |-> "idle", orig |-> NULL, new |-> NULL, bits |-> 0,
             todo |-> {}, bucket |-> {}, seen |-> {}, readers |-> {}]
NoUser == [pc |-> "idle", t |-> NULL, op |-> "none", x |-> NULL]
Empty == [x \in Elems |-> "no"]

Init ==
    /\ table \in Tables
    /\ bits = 0
    /\ memory = {table}
    /\ entry = [t \in Tables |-> Empty]
    /\ ref = [t \in Tables |-> 0]
    /\ uref = [t \in Tables |-> 0]
    /\ nets = [c \in Cidrs |-> 0]
    /\ ad = <<>>
    /\ resize = NoResize
    /\ user = [u \in Users |-> NoUser]
    /\ flushing = FALSE
    /\ want = {}

----------------------------------------------------------------------------
(* Helpers: entries and prefix sizes                                       *)

\* mtype_add_cidr
AddCidr(n, c) == [n EXCEPT ![c] = @ + 1]

\* mtype_del_cidr, once for every element of gone: a prefix size that is not
\* booked any more is left alone; variant: it is counted down without a look
DelCidrBlind(n, gone) ==
    [c \in Cidrs |-> n[c] - Cardinality({x \in gone : Cidr[x] = c})]
DelCidr(n, gone) ==
    [c \in Cidrs |->
       LET k == Cardinality({x \in gone : Cidr[x] = c})
       IN  IF n[c] > k THEN n[c] - k ELSE 0]

Dead(t) == {x \in Elems : entry[t][x] = "dead"}

\* An entry for x is stored in table t: in a free slot, in the slot of the
\* expired entry of gone, or over its own expired entry; variant: a prefix size
\* is not booked when the slot is reused
StoreUnbooked(t, x, gone) ==
    /\ gone \subseteq Dead(t) \ {x} /\ Cardinality(gone) <= 1
    /\ entry[t][x] = "dead" => gone = {}
    /\ entry' = [entry EXCEPT ![t] =
                   [y \in Elems |-> IF y = x THEN "live"
                                    ELSE IF y \in gone THEN "no" ELSE @[y]]]
    /\ nets' = IF entry[t][x] = "dead" THEN nets
               ELSE IF gone # {} THEN DelCidr(nets, gone) ELSE AddCidr(nets, Cidr[x])
StoreEntry(t, x, gone) ==
    /\ gone \subseteq Dead(t) \ {x} /\ Cardinality(gone) <= 1
    /\ entry[t][x] = "dead" => gone = {}
    /\ entry' = [entry EXCEPT ![t] =
                   [y \in Elems |-> IF y = x THEN "live"
                                    ELSE IF y \in gone THEN "no" ELSE @[y]]]
    /\ nets' = IF entry[t][x] = "dead" THEN nets
               ELSE AddCidr(DelCidr(nets, gone), Cidr[x])

\* ... and a live entry is deleted
DropEntry(t, x) ==
    /\ entry' = [entry EXCEPT ![t][x] = "no"]
    /\ nets' = DelCidr(nets, {x})

\* mtype_gc_do: expired entries are cleared
Sweep(t) ==
    /\ entry' = [entry EXCEPT ![t] =
                   [x \in Elems |-> IF @[x] = "dead" THEN "no" ELSE @[x]]]
    /\ nets' = DelCidr(nets, Dead(t))

\* Bounds: an operation begins only when it, those under way and those that
\* were saved fit into h->ad and h->nets
Busy == Cardinality({p \in Packets : user[p].pc # "idle"})
RoomFor(x) ==
    /\ Len(ad) + Busy < MaxAd
    /\ nets[Cidr[x]] + Len(ad) + Busy < MaxNets

----------------------------------------------------------------------------
(* Commands under the nfnl mutex                                           *)

Idle == resize.pc = "idle" /\ ~ flushing

\* add of an element that is not there (or has expired)
UserAdd(x) ==
    /\ "add" \in UserOps /\ Idle
    /\ entry[table][x] # "live" /\ RoomFor(x)
    /\ \E gone \in SUBSET Elems : StoreEntry(table, x, gone)
    /\ want' = want \cup {x}
    /\ UNCHANGED <<tableVars, ad, resize, user, flushing>>

UserDel(x) ==
    /\ "del" \in UserOps /\ Idle
    /\ entry[table][x] = "live"
    /\ DropEntry(table, x)
    /\ want' = want \ {x}
    /\ UNCHANGED <<tableVars, ad, resize, user, flushing>>

\* mtype_flush: every bucket under its region lock ...
Flush ==
    /\ "flush" \in UserOps /\ Idle
    /\ entry' = [entry EXCEPT ![table] = Empty]
    /\ want' = {}
    /\ flushing' = TRUE
    /\ UNCHANGED <<tableVars, nets, ad, resize, user>>

\* ... and at last the memset of h->nets, under no lock of the packets
FlushNets ==
    /\ flushing
    /\ flushing' = FALSE
    /\ nets' = [c \in Cidrs |-> 0]
    /\ UNCHANGED <<tableVars, entry, ad, resize, user, want>>

----------------------------------------------------------------------------
(* mtype_resize                                                            *)

\* A bucket is full, or was full in the last attempt: a new table is
\* allocated and the old one marked
ResizeStart(t) ==
    LET size == IF resize.pc = "retry" THEN resize.bits + 1 ELSE bits + 1 IN
    /\ resize.pc \in {"idle", "retry"} /\ ~ flushing
    /\ t \in Tables \ memory /\ size <= MaxBits
    /\ memory' = memory \cup {t}
    /\ entry' = [entry EXCEPT ![t] = Empty]
    /\ ref' = [s \in Tables |-> IF s = table THEN 1 ELSE IF s = t THEN 0 ELSE ref[s]]
    /\ uref' = [s \in Tables |-> IF s = table THEN uref[s] + 1
                                 ELSE IF s = t THEN 0 ELSE uref[s]]
    /\ resize' = [NoResize EXCEPT !.pc = "copy", !.orig = table, !.new = t,
                                  !.bits = size, !.todo = Elems]
    /\ UNCHANGED <<table, bits, nets, ad, user, flushing, want>>

\* The pointer to the next bucket is read under RCU
ResizeBucket(bucket) ==
    /\ resize.pc = "copy" /\ resize.bucket = {}
    /\ bucket # {} /\ bucket \subseteq resize.todo
    /\ resize' = [resize EXCEPT !.todo = @ \ bucket, !.bucket = bucket,
                    !.seen = {x \in bucket : entry[resize.orig][x] = "live"}]
    /\ UNCHANGED <<tableVars, entry, nets, ad, user, flushing, want>>

\* An entry of that bucket is copied unless it has expired.  Writers clear
\* and set bits in the bucket or replace it by a changed copy: the resize
\* meets what is there now or what was there when it read the pointer
ResizeCopy(x, before) ==
    LET met == IF before THEN x \in resize.seen
                         ELSE entry[resize.orig][x] = "live"
    IN
    /\ resize.pc = "copy" /\ x \in resize.bucket
    /\ resize' = [resize EXCEPT !.bucket = @ \ {x}, !.seen = @ \ {x}]
    /\ entry' = IF met
                THEN [entry EXCEPT ![resize.new][x] = "live"] ELSE entry
    /\ UNCHANGED <<tableVars, nets, ad, user, flushing, want>>

\* cleanup: no memory, or the new table is too small as well, and the resize
\* starts over with a larger one
ResizeFail(fault) ==
    /\ resize.pc = "copy"
    /\ fault \in Faults
    /\ ref' = [ref EXCEPT ![resize.orig] = 0]
    /\ uref' = [uref EXCEPT ![resize.orig] = @ - 1]
    /\ memory' = memory \ {resize.new}
    /\ resize' = IF fault = "full"
                 THEN [NoResize EXCEPT !.pc = "retry", !.bits = resize.bits]
                 ELSE NoResize
    /\ UNCHANGED <<table, bits, entry, nets, ad, user, flushing, want>>

\* It gives up: no memory for a larger table, or hbwarn; variant: it does not
\* look at the size
GiveUpNomem ==
    /\ resize.pc = "retry" /\ Tables \subseteq memory
    /\ resize' = NoResize
    /\ UNCHANGED <<tableVars, entry, nets, ad, user, flushing, want>>
ResizeGiveUp ==
    /\ resize.pc = "retry"
    /\ \/ Tables \subseteq memory \/ "nomem" \in Faults
       \/ resize.bits = MaxBits
    /\ resize' = NoResize
    /\ UNCHANGED <<tableVars, entry, nets, ad, user, flushing, want>>

\* Packets an RCU grace period that starts now waits for; variant: none
NoReaders == {}
Readers == {p \in Packets : user[p].pc # "idle"}

\* The new table is published, and readers of the old one are waited for
ResizePublish ==
    /\ resize.pc = "copy" /\ resize.todo = {} /\ resize.bucket = {}
    /\ table' = resize.new /\ bits' = resize.bits
    /\ resize' = [resize EXCEPT !.pc = "sync", !.readers = Readers]
    /\ UNCHANGED <<memory, ref, uref, entry, nets, ad, user, flushing, want>>

ResizeSync ==
    /\ resize.pc = "sync" /\ resize.readers = {}
    /\ resize' = [resize EXCEPT !.pc = "replay"]
    /\ UNCHANGED <<tableVars, entry, nets, ad, user, flushing, want>>

\* An operation saved by a packet is repeated on the new table; an add fails
\* without notice when it meets a full bucket
ResizeReplay ==
    /\ resize.pc = "replay" /\ ad # <<>>
    /\ ad' = Tail(ad)
    /\ LET x == Head(ad).x IN
       \/ /\ Head(ad).op = "add" /\ entry[table][x] # "live"
          /\ \E gone \in SUBSET Elems : StoreEntry(table, x, gone)
       \/ /\ Head(ad).op = "del" /\ entry[table][x] = "live"
          /\ DropEntry(table, x)
       \/ /\ \/ Head(ad).op = "add" /\ entry[table][x] = "live"
             \/ Head(ad).op = "del" /\ entry[table][x] # "live"
             \/ Head(ad).op = "add" /\ "full" \in Faults
          /\ UNCHANGED <<entry, nets>>
    /\ UNCHANGED <<tableVars, resize, user, flushing, want>>

\* The old table goes with its last user; variant: the resize keeps its own
\* reference
KeepUref(t) ==
    /\ UNCHANGED <<uref, memory>>
DropUref(t) ==
    /\ uref' = [uref EXCEPT ![t] = @ - 1]
    /\ memory' = IF uref[t] = 1 THEN memory \ {t} ELSE memory

ResizeDone ==
    /\ resize.pc = "replay" /\ ad = <<>>
    /\ DropUref(resize.orig)
    /\ resize' = NoResize
    /\ UNCHANGED <<table, bits, ref, entry, nets, ad, user, flushing, want>>

----------------------------------------------------------------------------
(* Users of a table: packets, the gc work and dumps                        *)

\* The table is read and its use counted in one RCU read-side section (gc:
\* under set->lock); variant: it is not counted
GetUncounted(u, new) ==
    /\ user[u].pc = "idle"
    /\ user' = [user EXCEPT ![u] = [new EXCEPT !.pc = "have", !.t = table]]
    /\ UNCHANGED <<tableVars, entry, nets, ad, resize, flushing, want>>
Get(u, new) ==
    /\ user[u].pc = "idle"
    /\ user' = [user EXCEPT ![u] = [new EXCEPT !.pc = "have", !.t = table]]
    /\ uref' = [uref EXCEPT ![table] = @ + 1]
    /\ UNCHANGED <<table, bits, memory, ref, entry, nets, ad, resize, flushing,
                   want>>

\* user u goes to the given place and nothing else changes
Go(u, pc) == user' = [user EXCEPT ![u].pc = pc]

PacketGet(p, op, x) ==
    /\ op \in KernelOps[x] /\ RoomFor(x)
    /\ Get(p, [NoUser EXCEPT !.op = op, !.x = x])

\* mtype_add meets a full region: expired entries go first
PacketSweep(p) ==
    /\ Timeouts /\ p \in Packets
    /\ user[p].pc = "have" /\ user[p].op = "add"
    /\ Sweep(user[p].t)
    /\ UNCHANGED <<tableVars, ad, resize, user, flushing, want>>

\* mtype_add under the region lock: the entry is stored; it is there already
\* (and only its extensions change if the rule has the exist flag); the bucket
\* is full and a resize would help; the set is full or memory is short
PacketAdd(p) ==
    LET x == user[p].x
        t == user[p].t
    IN
    /\ p \in Packets /\ user[p].pc = "have" /\ user[p].op = "add"
    /\ \/ /\ entry[t][x] # "live"
          /\ \E gone \in SUBSET Elems : StoreEntry(t, x, gone)
          /\ Go(p, "log") /\ want' = want \cup {x}
       \/ /\ entry[t][x] = "live"
          /\ Go(p, "put") \/ Go(p, "log")
          /\ UNCHANGED <<entry, nets, want>>
       \/ /\ entry[t][x] = "no" /\ Faults # {}
          /\ Go(p, "put") \/ ("full" \in Faults /\ Go(p, "log"))
          /\ UNCHANGED <<entry, nets, want>>
    /\ UNCHANGED <<tableVars, ad, resize, flushing>>

\* mtype_del under the region lock; t->ref is read here as well
PacketDel(p) ==
    LET x == user[p].x
        t == user[p].t
    IN
    /\ p \in Packets /\ user[p].pc = "have" /\ user[p].op = "del"
    /\ IF entry[t][x] = "live"
       THEN /\ DropEntry(t, x)
            /\ Go(p, IF ref[t] = 1 THEN "log" ELSE "put")
            /\ want' = want \ {x}
       ELSE Go(p, "put") /\ UNCHANGED <<entry, nets, want>>
    /\ UNCHANGED <<tableVars, ad, resize, flushing>>

\* The operation is saved for the resize in progress, under set->lock: adds
\* at the tail of h->ad, deletes at its head; an add reads t->ref only here,
\* after it has left the region lock; nobody bothers if there is no memory
\* for it; variant: adds at the head too
LogAtHead(p) ==
    LET this == [op |-> user[p].op, x |-> user[p].x] IN
    /\ user[p].pc = "log"
    /\ \/ (this.op = "add" => ref[user[p].t] = 1) /\ ad' = <<this>> \o ad
       \/ /\ "nomem" \in Faults \/ (this.op = "add" /\ ref[user[p].t] = 0)
          /\ UNCHANGED ad
    /\ Go(p, "put")
    /\ UNCHANGED <<tableVars, entry, nets, resize, flushing, want>>
PacketLog(p) ==
    LET this == [op |-> user[p].op, x |-> user[p].x] IN
    /\ user[p].pc = "log"
    /\ \/ /\ this.op = "del" /\ ad' = <<this>> \o ad
       \/ /\ this.op = "add" /\ ref[user[p].t] = 1 /\ ad' = Append(ad, this)
       \/ /\ "nomem" \in Faults \/ (this.op = "add" /\ ref[user[p].t] = 0)
          /\ UNCHANGED ad
    /\ Go(p, "put")
    /\ UNCHANGED <<tableVars, entry, nets, resize, flushing, want>>

\* Entries expire with time, a copy together with its original
Expire(x) ==
    /\ Timeouts /\ \E t \in memory : entry[t][x] = "live"
    /\ entry' = [t \in Tables |-> IF entry[t][x] = "live"
                                  THEN [entry[t] EXCEPT ![x] = "dead"]
                                  ELSE entry[t]]
    /\ resize' = [resize EXCEPT !.seen = @ \ {x}]
    /\ want' = want \ {x}
    /\ UNCHANGED <<tableVars, nets, ad, user, flushing>>

GcGet == Timeouts /\ Get("gc", NoUser)

GcDo ==
    /\ user["gc"].pc = "have"
    /\ Sweep(user["gc"].t)
    /\ Go("gc", "put")
    /\ UNCHANGED <<tableVars, ad, resize, flushing, want>>

\* mtype_uref at the start of the dump of the set
DumpGet(d) == d \in Dumpers /\ Get(d, NoUser)

\* mtype_uref at the end of it
DumpEnd(d) ==
    /\ d \in Dumpers /\ user[d].pc = "have"
    /\ Go(d, "put")
    /\ UNCHANGED <<tableVars, entry, nets, ad, resize, flushing, want>>

\* A packet that leaves ends the grace period for it
Leave(u) == resize' = [resize EXCEPT !.readers = @ \ {u}]

\* atomic_dec_and_test(&t->uref): the user was not the last one ...
Put(u) ==
    LET t == user[u].t IN
    /\ user[u].pc = "put"
    /\ uref' = [uref EXCEPT ![t] = @ - 1]
    /\ IF uref[t] = 1
       THEN Go(u, "check") /\ UNCHANGED resize
       ELSE user' = [user EXCEPT ![u] = NoUser] /\ Leave(u)
    /\ UNCHANGED <<table, bits, memory, ref, entry, nets, ad, flushing, want>>

\* ... or it was, and atomic_read(&t->ref) says whether to destroy the table;
\* variant: nobody destroys it
KeepTable(t) == memory
FreeTable(t) == IF ref[t] = 1 THEN memory \ {t} ELSE memory

Check(u) ==
    /\ user[u].pc = "check"
    /\ memory' = FreeTable(user[u].t)
    /\ user' = [user EXCEPT ![u] = NoUser]
    /\ Leave(u)
    /\ UNCHANGED <<table, bits, ref, uref, entry, nets, ad, flushing, want>>

----------------------------------------------------------------------------
Command ==
    \/ \E x \in Elems : UserAdd(x)
    \/ \E x \in Elems : UserDel(x)
    \/ Flush
    \/ FlushNets

ResizeOn ==
    \/ \E bucket \in SUBSET Elems : ResizeBucket(bucket)
    \/ \E x \in Elems, before \in BOOLEAN : ResizeCopy(x, before)
    \/ \E fault \in {"nomem", "full"} : ResizeFail(fault)
    \/ ResizeGiveUp
    \/ ResizePublish
    \/ ResizeSync
    \/ ResizeReplay
    \/ ResizeDone

Resize == (\E t \in Tables : ResizeStart(t)) \/ ResizeOn

UserStep ==
    \/ \E p \in Packets, op \in {"add", "del"}, x \in Elems :
          PacketGet(p, op, x)
    \/ \E p \in Packets : PacketSweep(p)
    \/ \E p \in Packets : PacketAdd(p)
    \/ \E p \in Packets : PacketDel(p)
    \/ \E p \in Packets : PacketLog(p)
    \/ \E x \in Elems : Expire(x)
    \/ GcGet
    \/ GcDo
    \/ \E d \in Dumpers : DumpGet(d)
    \/ \E d \in Dumpers : DumpEnd(d)
    \/ \E u \in Users : Put(u)
    \/ \E u \in Users : Check(u)

Next == Command \/ Resize \/ UserStep

Spec == Init /\ [][Next]_vars

\* The code does not keep a resize from starting while somebody who counted
\* t->uref down to 0 has yet to read t->ref: TableAlive fails then.  The other
\* behaviours are those of QuietSpec
Quiet ==
    \A u \in Users : ~ (user[u].pc = "check" /\ user[u].t = table)

QuietNext ==
    \/ Command
    \/ Quiet /\ \E t \in Tables : ResizeStart(t)
    \/ ResizeOn
    \/ UserStep

QuietSpec == Init /\ [][QuietNext]_vars

\* Once it has begun, the resize and its users go on; nothing is assumed of
\* dumps, which userspace may leave half-read
Fairness ==
    /\ WF_vars(\E bucket \in SUBSET Elems : ResizeBucket(bucket))
    /\ WF_vars(\E x \in Elems, before \in BOOLEAN : ResizeCopy(x, before))
    /\ WF_vars(resize.pc = "retry" /\ \E t \in Tables : ResizeStart(t))
    /\ WF_vars(ResizeGiveUp)
    /\ WF_vars(ResizePublish) /\ WF_vars(ResizeSync)
    /\ WF_vars(ResizeReplay) /\ WF_vars(ResizeDone)
    /\ WF_vars(GcDo)
    /\ \A p \in Packets : /\ WF_vars(PacketAdd(p)) /\ WF_vars(PacketDel(p))
                          /\ WF_vars(PacketLog(p))
    /\ \A u \in Users : WF_vars(Put(u)) /\ WF_vars(Check(u))

FairSpec == Spec /\ Fairness
FairQuietSpec == QuietSpec /\ Fairness

----------------------------------------------------------------------------
(* Properties                                                              *)

OpType == [op : {"add", "del"}, x : Elems]
ResizeType ==
    [pc : {"idle", "copy", "retry", "sync", "replay"}, orig : Tables \cup {NULL},
     new : Tables \cup {NULL}, bits : 0 .. MaxBits, todo : SUBSET Elems,
     bucket : SUBSET Elems, seen : SUBSET Elems, readers : SUBSET Packets]
UserType ==
    [pc : {"idle", "have", "log", "put", "check"}, t : Tables \cup {NULL},
     op : {"none", "add", "del"}, x : Elems \cup {NULL}]

\* Every variable has its type; a saved operation is an add or a delete
TypeOK ==
    /\ table \in Tables /\ memory \subseteq Tables
    /\ bits \in 0 .. MaxBits
    /\ entry \in [Tables -> [Elems -> {"no", "live", "dead"}]]
    /\ ref \in [Tables -> {0, 1}]
    /\ uref \in [Tables -> Int]
    /\ nets \in [Cidrs -> Nat]
    /\ ad \in Seq(OpType)
    /\ resize \in ResizeType
    /\ user \in [Users -> UserType]
    /\ flushing \in BOOLEAN
    /\ want \subseteq Elems

\* The users that have counted themselves in t->uref
Using(t) == {u \in Users : user[u].t = t /\ user[u].pc \in {"have", "log", "put"}}

\* t->uref counts the packets, dumps and gc runs inside the table and the
\* resize that replaces it
UrefExact ==
    \A t \in memory :
       uref[t] = Cardinality(Using(t)) + IF resize.orig = t THEN 1 ELSE 0

\* "If there's nobody else using the table, destroy it": no table is freed
\* that is current, being filled or replaced, or that somebody is inside of
TableAlive ==
    /\ table \in memory
    /\ \A u \in Users : user[u].pc \in {"have", "log", "put"} =>
          user[u].t \in memory
    /\ resize.pc \in {"copy", "sync", "replay"} =>
          resize.orig \in memory /\ resize.new \in memory

\* No table is forgotten: an allocated one is current, being filled, or has a
\* user left that will free it
NoTableLost ==
    \A t \in memory :
       \/ t = table \/ t = resize.new
       \/ resize.orig = t \/ \E u \in Users : user[u].t = t

\* While the saved operations are repeated nobody can save another one: the
\* list is walked without set->lock
ReplayAlone ==
    resize.pc = "replay" =>
       \A p \in Packets : user[p].pc \in {"have", "log"} => user[p].t = table

\* A resize comes to its end, however often it starts over and whatever
\* packets do meanwhile
ResizeEnds == resize.pc # "idle" ~> resize.pc = "idle"

\* A table that was replaced is freed in the end, unless a dump stays in it
OldTableFreed ==
    \A t \in Tables :
       t \in memory /\ t # table
          ~> t \notin memory \/ t = table \/ \E d \in Dumpers : user[d].t = t
=============================================================================
