----------------------------- MODULE IpSetCore -----------------------------
(***************************************************************************)
(* The set table of one network namespace (ip_set_core.c) together with    *)
(* everything that holds on to a set: netfilter rules and members of       *)
(* list:set sets hold an INDEX and are counted by set->ref; dumps and      *)
(* interrupted add/del commands hold a SET and are counted by              *)
(* set->ref_netlink; packets hold nothing but an RCU read-side section.    *)
(*                                                                         *)
(* Commands are serialised by the nfnl mutex and are single actions,       *)
(* except where the code lets others in: while it waits in rcu_barrier,    *)
(* between the slots of "destroy all", between the chunks of a dump and in *)
(* the retry window of CALL_AD.  A command that is refused changes nothing *)
(* and is a stuttering step.                                               *)
(***************************************************************************)
EXTENDS Integers, FiniteSets

CONSTANTS
    Sets,       \* addresses a struct ip_set can have; freed ones are reused
    NULL,       \* the null pointer
    Names,      \* set names
    Kinds,      \* subset of {"plain", "list"}: the type features and family
    Rules,      \* netfilter matches/targets referring to a set by index
    Elems,      \* struct set_elem, the members of list:set sets
    Dumpers,    \* netlink sockets that may run a dump
    Clients,    \* processes that may run an add/del command
    Packets,    \* packets, each inside one RCU read-side critical section
    Timeouts,   \* TRUE when list:set sets are created with a timeout
    MaxSets,    \* initial ip_set_max (module parameter max_sets)
    IP_SET_INC, \* growth of the table when it is full
    IdMod       \* number of values of ip_set_id_t (2^16 in the code)

IPSET_INVALID_ID == IdMod - 1
Index == 0 .. (IPSET_INVALID_ID - 1)
NoIndex == IPSET_INVALID_ID
Holders == Rules \cup Elems      \* each owns at most one counted reference
Pinners == Dumpers \cup Clients  \* each owns at most one netlink reference

ASSUME TableAssumption ==
    /\ IdMod \in Nat /\ IP_SET_INC \in Nat /\ MaxSets \in Nat
    /\ IdMod > 1 /\ IP_SET_INC > 0 /\ IP_SET_INC < IdMod
    /\ MaxSets < IPSET_INVALID_ID
ASSUME ActorAssumption ==
    /\ IsFiniteSet(Holders) /\ IsFiniteSet(Pinners)
    /\ Rules \cap Elems = {} /\ Dumpers \cap Clients = {}
    /\ Dumpers \cap {"free", "destroy_one", "barrier_all", "destroy_all"} = {}
ASSUME SetAssumption ==
    /\ NULL \notin Sets /\ NULL \notin Names /\ NULL \notin Rules
    /\ Kinds \subseteq {"plain", "list"} /\ Timeouts \in BOOLEAN

VARIABLES
    ip_set_list,   \* inst->ip_set_list
    ip_set_max,    \* inst->ip_set_max
    is_destroyed,  \* inst->is_destroyed
    state,         \* life of the memory of a set
    name, kind,    \* set->name, set->type (features) and set->family
    ref,           \* set->ref
    ref_netlink,   \* set->ref_netlink
    grace,         \* packets the set's call_rcu callback still waits for
    hold,          \* index a rule or a list element has a reference on
    owner,         \* list:set set an element belongs to
    putting,       \* pointer read by an unfinished ip_set_put_byindex
    elem_grace,    \* packets some pending __list_set_del_rcu waits for
    nfnl,          \* who holds the nfnl mutex across steps
    victim,        \* set being destroyed by the holder of nfnl
    barrier,       \* what the rcu_barrier in progress still waits for
    pin,           \* set a dump or a client has a netlink reference on
    dump,          \* struct netlink_callback of each dumper
    packet         \* each packet's progress

slotVars == <<ip_set_list, ip_set_max, is_destroyed>>
setVars == <<state, name, kind, ref, grace>>
elemVars == <<owner, putting, elem_grace>>
mutexVars == <<nfnl, victim, barrier>>
vars == <<slotVars, setVars, ref_netlink, hold, elemVars, mutexVars, pin,
          dump, packet>>

----------------------------------------------------------------------------
Reclaimable == {"unlinked", "rcu", "destroying"}

ActivePackets == {p \in Packets : packet[p].pc # "idle"}

LiveSets == {s \in Sets : state[s] = "live"}

Used == {i \in Index : ip_set_list[i] # NULL}

\* find_set_and_id: the indices whose set has the given name
ByName(n) == {i \in Used : name[ip_set_list[i]] = n}

\* No set has this name yet; variant: nobody looks
NameFreeUnchecked(n) == TRUE
NameFree(n) == ByName(n) = {}

\* map->members; an element being put is already off the list
Members(l) == {e \in Elems : owner[e] = l /\ putting[e] = NULL}

\* The references rules and list elements have on an index
Holding(i) == {h \in Holders : hold[h] = i}

\* The netlink references on a set
Pinning(s) == {c \in Pinners : pin[c] = s}

\* Variant: packets walk a list:set set without its lock
LockFreeOfTimers(l) == \A e \in Elems : owner[e] = l => putting[e] = NULL

\* set->lock of a list:set set is not held by its gc timer, its destructor
\* or a packet executing list_set_kadd/list_set_kdel
LockFree(l) ==
    /\ \A e \in Elems : owner[e] = l => putting[e] = NULL
    /\ \A p \in Packets : packet[p].locked => packet[p].set # l

\* Variants: only one of the two counters is looked at
UnreferencedByNetlink(s) == ref_netlink[s] = 0
UnreferencedByIndex(s) == ref[s] = 0

Unreferenced(s) == ref[s] = 0 /\ ref_netlink[s] = 0

\* ip_set_id_t arithmetic
IdAdd(a, b) == IF a + b >= IdMod THEN a + b - IdMod ELSE a + b

NoDump == [pc |-> "idle", type |-> "ALL", index |-> 0, max |-> 0,
           arg0 |-> FALSE, set |-> NULL, must |-> {}]
NoPacket == [pc |-> "idle", op |-> "test", rule |-> NULL, set |-> NULL,
             id |-> NoIndex, member |-> NULL, locked |-> FALSE]

Init ==
    /\ ip_set_list = [i \in Index |-> NULL]
    /\ ip_set_max = MaxSets
    /\ is_destroyed = FALSE
    /\ state = [s \in Sets |-> "free"]
    /\ name = [s \in Sets |-> NULL]
    /\ kind = [s \in Sets |-> "plain"]
    /\ ref = [s \in Sets |-> 0]
    /\ ref_netlink = [s \in Sets |-> 0]
    /\ grace = [s \in Sets |-> {}]
    /\ hold = [h \in Holders |-> NoIndex]
    /\ owner = [e \in Elems |-> NULL]
    /\ putting = [e \in Elems |-> NULL]
    /\ elem_grace = {}
    /\ nfnl = "free"
    /\ victim = NULL
    /\ barrier = [sets |-> {}, readers |-> {}]
    /\ pin = [c \in Pinners |-> NULL]
    /\ dump = [d \in Dumpers |-> NoDump]
    /\ packet = [p \in Packets |-> NoPacket]

----------------------------------------------------------------------------
(* Userspace commands on whole sets, under the nfnl mutex                  *)

\* Overflow check of ip_set_create; variant: no check
CanGrowAlways(max) == TRUE
CanGrow(max) == max >= ip_set_max /\ max # IPSET_INVALID_ID

\* find_free_id and, when no slot is free, the growth of the table: the
\* index for a new set together with the size of the table afterwards
NewSlot(i, max) ==
    LET free == {j \in Index : j < ip_set_max /\ ip_set_list[j] = NULL}
        grown == IdAdd(ip_set_max, IP_SET_INC)
    IN  \/ /\ i \in free /\ \A j \in free : i <= j
           /\ max = ip_set_max
        \/ /\ free = {}
           /\ CanGrow(grown)
           /\ i = ip_set_max /\ max = grown

\* ip_set_create.  A clashing name is refused (or ignored with -exist): the
\* set built so far is torn down again and nothing has changed.
Create(s, n, k) ==
    /\ nfnl = "free"
    /\ state[s] = "free"
    /\ NameFree(n)
    /\ \E i \in Index, max \in 0 .. (IdMod - 1) :
          /\ NewSlot(i, max)
          /\ ip_set_list' = [ip_set_list EXCEPT ![i] = s]
          /\ ip_set_max' = max
    /\ state' = [state EXCEPT ![s] = "live"]
    /\ name' = [name EXCEPT ![s] = n]
    /\ kind' = [kind EXCEPT ![s] = k]
    /\ ref' = [ref EXCEPT ![s] = 0]
    /\ ref_netlink' = [ref_netlink EXCEPT ![s] = 0]
    /\ UNCHANGED <<is_destroyed, grace, hold, elemVars, mutexVars, pin, dump,
                   packet>>

\* What an rcu_barrier issued now has to wait for
RcuPending == [sets |-> {s \in Sets : state[s] \in {"rcu", "destroying"}},
               readers |-> elem_grace]

BarrierDone ==
    /\ barrier.readers = {}
    /\ \A s \in barrier.sets : state[s] \notin {"rcu", "destroying"}

\* The dumps in progress need not report the set at index i any more
Forget(i) == [d \in Dumpers |-> [dump[d] EXCEPT !.must = @ \ {i}]]

\* Variants: the callback runs without waiting for a grace period, or never
CallAtOnce(s) ==
    /\ state' = [state EXCEPT ![s] = "rcu"]
    /\ grace' = [grace EXCEPT ![s] = {}]

CallNever(s) ==
    /\ state' = [state EXCEPT ![s] = "unlinked"]
    /\ UNCHANGED grace
CallRcu(s) ==
    /\ state' = [state EXCEPT ![s] = "rcu"]
    /\ grace' = [grace EXCEPT ![s] = ActivePackets]

\* ip_set_destroy with a name
Destroy(i) ==
    LET s == ip_set_list[i] IN
    /\ nfnl = "free"
    /\ s # NULL
    /\ Unreferenced(s)
    /\ ip_set_list' = [ip_set_list EXCEPT ![i] = NULL]
    /\ dump' = Forget(i)
    /\ IF kind[s] = "list"
       THEN /\ state' = [state EXCEPT ![s] = "unlinked"]
            /\ nfnl' = "destroy_one" /\ victim' = s /\ barrier' = RcuPending
            /\ UNCHANGED grace
       ELSE CallRcu(s) /\ UNCHANGED mutexVars
    /\ UNCHANGED <<ip_set_max, is_destroyed, name, kind, ref, ref_netlink,
                   hold, elemVars, pin, packet>>

\* cancel_gc waits for a running timer handler
GcIdle(s) == \A e \in Elems : owner[e] = s => putting[e] = NULL

\* ip_set_destroy of a list:set set, after its rcu_barrier
DestroyFinish ==
    /\ nfnl = "destroy_one"
    /\ BarrierDone
    /\ GcIdle(victim)
    /\ CallRcu(victim)
    /\ nfnl' = "free" /\ victim' = NULL
    /\ barrier' = [sets |-> {}, readers |-> {}]
    /\ UNCHANGED <<slotVars, name, kind, ref, ref_netlink, hold, elemVars,
                   pin, dump, packet>>

\* ip_set_destroy without a name: first rcu_barrier
DestroyAll ==
    /\ nfnl = "free"
    /\ nfnl' = "barrier_all"
    /\ barrier' = RcuPending
    /\ UNCHANGED <<slotVars, setVars, ref_netlink, hold, elemVars, victim,
                   pin, dump, packet>>

\* ... then every set is checked under ip_set_ref_lock, all or nothing
DestroyAllCheck ==
    /\ nfnl = "barrier_all"
    /\ BarrierDone
    /\ barrier' = [sets |-> {}, readers |-> {}]
    /\ IF \A i \in Used : Unreferenced(ip_set_list[i])
       THEN /\ is_destroyed' = TRUE /\ nfnl' = "destroy_all"
            /\ dump' = [d \in Dumpers |-> [dump[d] EXCEPT !.must = {}]]
       ELSE nfnl' = "free" /\ UNCHANGED <<is_destroyed, dump>>
    /\ UNCHANGED <<ip_set_list, ip_set_max, setVars, ref_netlink, hold,
                   elemVars, victim, pin, packet>>

\* ... then slot by slot: unlink, cancel_gc, destroy at once
DestroyAllStep ==
    /\ nfnl = "destroy_all"
    /\ victim = NULL
    /\ \E i \in Used :
          /\ \A j \in Used : i <= j
          /\ GcIdle(ip_set_list[i])
          /\ victim' = ip_set_list[i]
          /\ state' = [state EXCEPT ![ip_set_list[i]] = "destroying"]
          /\ ip_set_list' = [ip_set_list EXCEPT ![i] = NULL]
    /\ UNCHANGED <<ip_set_max, is_destroyed, name, kind, ref, grace,
                   ref_netlink, hold, elemVars, nfnl, barrier, pin, dump,
                   packet>>

DestroyAllFinish ==
    /\ nfnl = "destroy_all"
    /\ victim = NULL
    /\ Used = {}
    /\ is_destroyed' = FALSE
    /\ nfnl' = "free"
    /\ UNCHANGED <<ip_set_list, ip_set_max, setVars, ref_netlink, hold,
                   elemVars, victim, barrier, pin, dump, packet>>

\* ip_set_rename
Rename(i, n2) ==
    LET s == ip_set_list[i] IN
    /\ nfnl = "free"
    /\ s # NULL
    /\ Unreferenced(s)
    /\ NameFree(n2)
    /\ name' = [name EXCEPT ![s] = n2]
    /\ UNCHANGED <<slotVars, state, kind, ref, grace, ref_netlink, hold,
                   elemVars, mutexVars, pin, dump, packet>>

\* Swapping needs the same features and family, and no netlink reference;
\* variants drop one of the two
SwappableAny(from, to) == ref_netlink[from] = 0 /\ ref_netlink[to] = 0
SwappablePinned(from, to) == kind[from] = kind[to]
Swappable(from, to) ==
    /\ kind[from] = kind[to]
    /\ ref_netlink[from] = 0 /\ ref_netlink[to] = 0

\* References stay with the index; variant: they stay with the set
KeptRefs(from, to) == ref
SwappedRefs(from, to) == [ref EXCEPT ![from] = ref[to], ![to] = ref[from]]

\* ip_set_swap: names, references and slots are exchanged
Swap(i, j) ==
    LET from == ip_set_list[i]
        to == ip_set_list[j]
    IN
    /\ nfnl = "free"
    /\ i # j /\ from # NULL /\ to # NULL
    /\ Swappable(from, to)
    /\ name' = [name EXCEPT ![from] = name[to], ![to] = name[from]]
    /\ ref' = SwappedRefs(from, to)
    /\ ip_set_list' = [ip_set_list EXCEPT ![i] = to, ![j] = from]
    /\ UNCHANGED <<ip_set_max, is_destroyed, state, kind, grace, ref_netlink,
                   hold, elemVars, mutexVars, pin, dump, packet>>

----------------------------------------------------------------------------
(* References by index: netfilter rules and members of list:set sets       *)

\* ip_set_nfnl_get_byindex, for a rule that is being inserted
RuleGet(r, i) ==
    /\ nfnl = "free"
    /\ hold[r] = NoIndex
    /\ ip_set_list[i] # NULL
    /\ ref' = [ref EXCEPT ![ip_set_list[i]] = @ + 1]
    /\ hold' = [hold EXCEPT ![r] = i]
    /\ UNCHANGED <<slotVars, state, name, kind, grace, ref_netlink, elemVars,
                   mutexVars, pin, dump, packet>>

\* ref after the elements of gone have been put, none of them racing a swap
PutElems(gone) ==
    [s \in Sets |->
       ref[s] - Cardinality({e \in gone : ip_set_list[hold[e]] = s})]

\* ip_set_nfnl_put, for a rule that is removed; xtables frees a rule only
\* when no packet is inside it
RulePut(r) ==
    /\ nfnl = "free"
    /\ hold[r] # NoIndex
    /\ \A p \in Packets : packet[p].rule # r
    /\ ref' = PutElems({r})
    /\ hold' = [hold EXCEPT ![r] = NoIndex]
    /\ UNCHANGED <<slotVars, state, name, kind, grace, ref_netlink, elemVars,
                   mutexVars, pin, dump, packet>>

\* Elements that set_cleanup_entries may find expired
Expired(l) == IF Timeouts THEN SUBSET Members(l) ELSE {{}}

\* The list:set set an add, del or flush command may work on now
ListReady(l) ==
    /\ nfnl = "free"
    /\ state[l] = "live" /\ kind[l] = "list"
    /\ LockFree(l)

\* list_set_uadt(IPSET_ADD): ip_set_get_byname, "loop detection", cleanup of
\* the expired members gone (a replaced expired member included), then the
\* new element keeps the reference.  A present member is refused, unless it
\* has expired after the cleanup.
ListAdd(l, e, i, gone) ==
    /\ ListReady(l)
    /\ hold[e] = NoIndex
    /\ ip_set_list[i] # NULL /\ kind[ip_set_list[i]] # "list"
    /\ ~ Timeouts => \A m \in Members(l) : hold[m] # i
    /\ gone \in Expired(l)
    /\ ref' = [PutElems(gone) EXCEPT ![ip_set_list[i]] = @ + 1]
    /\ hold' = [h \in Holders |-> IF h = e THEN i
                                  ELSE IF h \in gone THEN NoIndex ELSE hold[h]]
    /\ owner' = [m \in Elems |-> IF m = e THEN l
                                 ELSE IF m \in gone THEN NULL ELSE owner[m]]
    /\ elem_grace' = IF gone = {} THEN elem_grace
                     ELSE elem_grace \cup ActivePackets
    /\ UNCHANGED <<slotVars, state, name, kind, grace, ref_netlink, putting,
                   mutexVars, pin, dump, packet>>

\* Remove and put the elements of gone from list l
ListRemove(l, gone) ==
    /\ ListReady(l)
    /\ gone # {}
    /\ ref' = PutElems(gone)
    /\ hold' = [h \in Holders |-> IF h \in gone THEN NoIndex ELSE hold[h]]
    /\ owner' = [e \in Elems |-> IF e \in gone THEN NULL ELSE owner[e]]
    /\ elem_grace' = elem_grace \cup ActivePackets
    /\ UNCHANGED <<slotVars, state, name, kind, grace, ref_netlink, putting,
                   mutexVars, pin, dump, packet>>

\* list_set_uadt(IPSET_DEL): the member and the expired ones
ListDel(l, e, gone) ==
    /\ e \in Members(l)
    /\ gone \in Expired(l)
    /\ ListRemove(l, gone \cup {e})

\* ip_set_flush of a list:set set
ListFlush(l) == ListRemove(l, Members(l))

\* __ip_set_put_byindex outside the nfnl mutex reads the slot first; the
\* element is off its list by then ...
ReadSlot(e) ==
    LET s == ip_set_list[hold[e]] IN
    /\ putting' = [putting EXCEPT ![e] = s]
    /\ hold' = [hold EXCEPT ![e] = IF s = NULL THEN NoIndex ELSE @]
    /\ owner' = [owner EXCEPT ![e] = IF s = NULL THEN NULL ELSE @]
    /\ UNCHANGED <<slotVars, setVars, ref_netlink, elem_grace, mutexVars, pin,
                   dump, packet>>

\* The gc timer of list:set (list_set_gc) deletes an expired member
GcDel(l, e) ==
    /\ Timeouts /\ e \in Members(l)
    /\ state[l] \in {"live", "unlinked"}
    /\ LockFree(l)
    /\ ReadSlot(e)

\* Variant: the destructor puts its members with ip_set_nfnl_put
DestroyDelLocking(l, e) ==
    /\ nfnl = "free"
    /\ e \in Members(l)
    /\ state[l] = "destroying"
    /\ GcIdle(l)
    /\ ReadSlot(e)

\* list_set_destroy, from the RCU callback or "destroy all"
DestroyDel(l, e) ==
    /\ e \in Members(l)
    /\ state[l] = "destroying"
    /\ GcIdle(l)
    /\ ReadSlot(e)

\* ... and only then takes ip_set_ref_lock: __ip_set_put, with its BUG_ON
PutFinish(e) ==
    /\ putting[e] # NULL
    /\ ref[putting[e]] > 0
    /\ ref' = [ref EXCEPT ![putting[e]] = @ - 1]
    /\ hold' = [hold EXCEPT ![e] = NoIndex]
    /\ owner' = [owner EXCEPT ![e] = NULL]
    /\ putting' = [putting EXCEPT ![e] = NULL]
    /\ elem_grace' = elem_grace \cup ActivePackets
    /\ UNCHANGED <<slotVars, state, name, kind, grace, ref_netlink, mutexVars,
                   pin, dump, packet>>

----------------------------------------------------------------------------
(* Reclaiming a destroyed set                                              *)

\* ip_set_destroy_set_variant_rcu, once the packets of the grace period
\* have left
RcuCallback(s) ==
    /\ state[s] = "rcu"
    /\ grace[s] = {}
    /\ state' = [state EXCEPT ![s] = "destroying"]
    /\ UNCHANGED <<slotVars, name, kind, ref, grace, ref_netlink, hold,
                   elemVars, mutexVars, pin, dump, packet>>

\* the variant's destroy has put every member: kfree(set)
Free(s) ==
    /\ state[s] = "destroying"
    /\ Members(s) = {} /\ GcIdle(s)
    /\ state' = [state EXCEPT ![s] = "free"]
    /\ name' = [name EXCEPT ![s] = NULL]
    /\ kind' = [kind EXCEPT ![s] = "plain"]
    /\ ref' = [ref EXCEPT ![s] = 0]
    /\ victim' = IF victim = s THEN NULL ELSE victim
    /\ UNCHANGED <<slotVars, grace, ref_netlink, hold, elemVars, nfnl, barrier,
                   pin, dump, packet>>

----------------------------------------------------------------------------
(* References by pointer: dumps and interrupted add/del commands           *)

\* __ip_set_get_netlink / __ip_set_put_netlink; variant: the put is lost
GetNetlink(c, s) ==
    /\ pin' = [pin EXCEPT ![c] = s]
    /\ ref_netlink' = [ref_netlink EXCEPT ![s] = @ + 1]

PutNetlinkLost(c, s) ==
    /\ pin' = [pin EXCEPT ![c] = NULL]
    /\ UNCHANGED ref_netlink
PutNetlink(c, s) ==
    /\ pin' = [pin EXCEPT ![c] = NULL]
    /\ ref_netlink' = [ref_netlink EXCEPT ![s] = @ - 1]

\* CALL_AD: uadt asks for another round, the set is pinned and nfnl dropped
AdRetry(c, i) ==
    /\ nfnl = "free"
    /\ pin[c] = NULL
    /\ ip_set_list[i] # NULL /\ kind[ip_set_list[i]] # "list"
    /\ GetNetlink(c, ip_set_list[i])
    /\ UNCHANGED <<slotVars, setVars, hold, elemVars, mutexVars, dump, packet>>

\* ... nfnl is taken again and the set unpinned; uadt then finishes.  When
\* it asks for yet another round instead, the command is back in this state.
AdResume(c) ==
    /\ nfnl = "free"
    /\ pin[c] # NULL
    /\ PutNetlink(c, pin[c])
    /\ UNCHANGED <<slotVars, setVars, hold, elemVars, mutexVars, dump, packet>>

\* A dump moves on
DumpTo(d, new) == dump' = [dump EXCEPT ![d] = new]

\* End of a chunk: the first one runs inside the netlink command and has
\* kept the nfnl mutex until here
ReleaseNfnl(d) == nfnl' = IF nfnl = d THEN "free" ELSE nfnl

\* ip_set_dump_start for all sets, or for the one at index i
DumpStart(d, type, i) ==
    /\ nfnl = "free"
    /\ dump[d].pc = "idle"
    /\ IF type = "ONE" THEN ip_set_list[i] # NULL ELSE i = 0
    /\ DumpTo(d, [NoDump EXCEPT !.pc = "wait", !.type = type, !.index = i,
                    !.must = IF type = "ONE" THEN {i} ELSE Used])
    /\ nfnl' = d
    /\ UNCHANGED <<slotVars, setVars, ref_netlink, hold, elemVars, victim,
                   barrier, pin, packet>>

\* No slot left to dump; variant: off by one
PastEndEarly(d) == dump[d].index + 1 >= ip_set_max
PastEnd(d) == dump[d].index >= ip_set_max

\* Entry of ip_set_dump_do
DumpChunk(d) ==
    /\ dump[d].pc = "wait"
    /\ IF PastEnd(d)
       THEN DumpTo(d, [dump[d] EXCEPT !.pc = "end"]) /\ ReleaseNfnl(d)
       ELSE /\ DumpTo(d, [dump[d] EXCEPT !.pc = "scan",
                           !.max = IF dump[d].type = "ONE"
                                   THEN dump[d].index + 1 ELSE ip_set_max])
            /\ UNCHANGED nfnl
    /\ UNCHANGED <<slotVars, setVars, ref_netlink, hold, elemVars, victim,
                   barrier, pin, packet>>

Scanning(d) == dump[d].pc = "scan" /\ dump[d].index < dump[d].max

\* list:set sets are dumped last
OtherPass(d, s) ==
    /\ dump[d].type # "ONE"
    /\ (dump[d].type = "ALL") = (kind[s] = "list")

\* The loop passes over an empty slot or a set of the other pass
DumpSkip(d) ==
    LET s == ip_set_list[dump[d].index] IN
    /\ Scanning(d)
    /\ ~ is_destroyed
    /\ IF s = NULL THEN dump[d].type # "ONE" ELSE OtherPass(d, s)
    /\ DumpTo(d, [dump[d] EXCEPT !.index = @ + 1, !.set = s])
    /\ UNCHANGED <<slotVars, setVars, ref_netlink, hold, elemVars, mutexVars,
                   pin, packet>>

\* The one set is gone, or all sets are being destroyed
DumpGone(d) ==
    /\ Scanning(d)
    /\ \/ is_destroyed
       \/ dump[d].type = "ONE" /\ ip_set_list[dump[d].index] = NULL
    /\ DumpTo(d, [dump[d] EXCEPT !.pc =
                    IF dump[d].type = "ONE" THEN "err" ELSE "end"])
    /\ ReleaseNfnl(d)
    /\ UNCHANGED <<slotVars, setVars, ref_netlink, hold, elemVars, victim,
                   barrier, pin, packet>>

\* The set in the slot is listed in this pass; variant: even when all sets
\* are being destroyed
ListableDestroyed(d, s) == s # NULL /\ ~ OtherPass(d, s)
Listable(d, s) == ~ is_destroyed /\ s # NULL /\ ~ OtherPass(d, s)

\* A set to list is found; it is pinned unless its listing only continues
DumpPin(d) ==
    LET s == ip_set_list[dump[d].index] IN
    /\ Scanning(d)
    /\ Listable(d, s)
    /\ DumpTo(d, [dump[d] EXCEPT !.pc = "emit", !.set = s])
    /\ IF dump[d].arg0 THEN UNCHANGED <<pin, ref_netlink>>
       ELSE GetNetlink(d, s)
    /\ UNCHANGED <<slotVars, setVars, hold, elemVars, mutexVars, packet>>

\* End of the loop: after all other sets the list:set ones are dumped
DumpPass(d) ==
    /\ dump[d].pc = "scan" /\ dump[d].index = dump[d].max
    /\ IF dump[d].type = "ALL"
       THEN /\ DumpTo(d, [dump[d] EXCEPT !.type = "LAST", !.index = 0,
                                         !.set = NULL])
            /\ UNCHANGED nfnl
       ELSE DumpTo(d, [dump[d] EXCEPT !.pc = "end"]) /\ ReleaseNfnl(d)
    /\ UNCHANGED <<slotVars, setVars, ref_netlink, hold, elemVars, victim,
                   barrier, pin, packet>>

\* The buffer is full before the set is: its listing continues
DumpPartial(d) ==
    /\ dump[d].pc = "emit"
    /\ DumpTo(d, [dump[d] EXCEPT !.pc = "wait", !.arg0 = TRUE, !.set = NULL])
    /\ ReleaseNfnl(d)
    /\ UNCHANGED <<slotVars, setVars, ref_netlink, hold, elemVars, victim,
                   barrier, pin, packet>>

\* next_set: the set is done, the slot is read again to release it
DumpNext(d) ==
    LET i == dump[d].index IN
    /\ dump[d].pc = "emit"
    /\ ip_set_list[i] # NULL
    /\ PutNetlink(d, ip_set_list[i])
    /\ DumpTo(d, [dump[d] EXCEPT !.pc = "wait", !.arg0 = FALSE, !.set = NULL,
                    !.index = IF dump[d].type = "ONE" THEN IPSET_INVALID_ID
                              ELSE i + 1,
                    !.must = @ \ {i}])
    /\ ReleaseNfnl(d)
    /\ UNCHANGED <<slotVars, setVars, hold, elemVars, victim, barrier, packet>>

\* nla_put_failure, or an error while listing: the set is released
DumpFail(d) ==
    /\ dump[d].pc = "emit"
    /\ ip_set_list[dump[d].index] # NULL
    /\ PutNetlink(d, ip_set_list[dump[d].index])
    /\ DumpTo(d, [dump[d] EXCEPT !.pc = "err", !.arg0 = FALSE, !.set = NULL])
    /\ ReleaseNfnl(d)
    /\ UNCHANGED <<slotVars, setVars, hold, elemVars, victim, barrier, packet>>

\* ip_set_dump_done: at the end, or when the socket is closed between chunks
DumpDone(d) ==
    /\ dump[d].pc \in {"wait", "end", "err"}
    /\ nfnl # d
    /\ IF dump[d].arg0
       THEN /\ ip_set_list[dump[d].index] # NULL
            /\ PutNetlink(d, ip_set_list[dump[d].index])
       ELSE UNCHANGED <<pin, ref_netlink>>
    /\ DumpTo(d, NoDump)
    /\ UNCHANGED <<slotVars, setVars, hold, elemVars, mutexVars, packet>>

----------------------------------------------------------------------------
(* Packets: ip_set_test/add/del on the index of a rule, under RCU          *)

PacketStep(p, new) ==
    /\ packet' = [packet EXCEPT ![p] = new]
    /\ UNCHANGED <<slotVars, setVars, ref_netlink, hold, elemVars, mutexVars,
                   pin, dump>>

\* ip_set_rcu_get followed by BUG_ON(!set)
Fetch(i, pc) == IF ip_set_list[i] = NULL THEN "bug" ELSE pc

\* A packet meets rule r, which tests the set or adds/deletes an entry
PacketEnter(p, r, op) ==
    /\ packet[p].pc = "idle"
    /\ hold[r] # NoIndex
    /\ PacketStep(p, [NoPacket EXCEPT !.pc = Fetch(hold[r], "set"),
                        !.op = op, !.rule = r, !.set = ip_set_list[hold[r]]])

\* ip_set_add/ip_set_del take set->lock of a list:set set; ip_set_test does
\* not
PacketLock(p) ==
    LET l == packet[p].set IN
    /\ packet[p].pc = "set" /\ packet[p].op = "ad" /\ ~ packet[p].locked
    /\ kind[l] = "list" /\ LockFree(l)
    /\ PacketStep(p, [packet[p] EXCEPT !.locked = TRUE])

\* list_set_ktest/kadd/kdel reach a member of the list
PacketElem(p, e) ==
    /\ packet[p].pc = "set"
    /\ packet[p].op = "test" \/ packet[p].locked
    /\ kind[packet[p].set] = "list" /\ e \in Members(packet[p].set)
    /\ PacketStep(p, [packet[p] EXCEPT !.pc = "elem", !.id = hold[e]])

\* ... and run ip_set_test/add/del on its index
PacketMember(p) ==
    LET i == packet[p].id IN
    /\ packet[p].pc = "elem"
    /\ PacketStep(p, [packet[p] EXCEPT !.pc = Fetch(i, "member"),
                        !.member = ip_set_list[i]])

\* No match: the loop over the list goes on
PacketNext(p) ==
    /\ packet[p].pc = "member"
    /\ PacketStep(p, [packet[p] EXCEPT !.pc = "set", !.member = NULL,
                        !.id = NoIndex])

\* Verdict found or list exhausted: the lock and the RCU section are left
PacketLeave(p) ==
    /\ packet[p].pc \in {"set", "member"}
    /\ packet' = [packet EXCEPT ![p] = NoPacket]
    /\ grace' = [s \in Sets |-> grace[s] \ {p}]
    /\ elem_grace' = elem_grace \ {p}
    /\ barrier' = [barrier EXCEPT !.readers = @ \ {p}]
    /\ UNCHANGED <<slotVars, state, name, kind, ref, ref_netlink, hold, owner,
                   putting, nfnl, victim, pin, dump>>

----------------------------------------------------------------------------
SetCommand ==
    \/ \E s \in Sets, n \in Names, k \in Kinds : Create(s, n, k)
    \/ \E i \in Index : Destroy(i)
    \/ DestroyFinish
    \/ DestroyAll
    \/ DestroyAllCheck
    \/ DestroyAllStep
    \/ DestroyAllFinish
    \/ \E i \in Index, n \in Names : Rename(i, n)
    \/ \E i, j \in Index : Swap(i, j)

RefCommand ==
    \/ \E r \in Rules, i \in Index : RuleGet(r, i)
    \/ \E r \in Rules : RulePut(r)
    \/ \E l \in Sets, e \in Elems, i \in Index, gone \in SUBSET Elems :
          ListAdd(l, e, i, gone)
    \/ \E l \in Sets, e \in Elems, gone \in SUBSET Elems : ListDel(l, e, gone)
    \/ \E l \in Sets : ListFlush(l)

Deferred ==
    \/ \E l \in Sets, e \in Elems : GcDel(l, e)
    \/ \E l \in Sets, e \in Elems : DestroyDel(l, e)
    \/ \E e \in Elems : PutFinish(e)
    \/ \E s \in Sets : RcuCallback(s)
    \/ \E s \in Sets : Free(s)

NetlinkStep ==
    \/ \E c \in Clients, i \in Index : AdRetry(c, i)
    \/ \E c \in Clients : AdResume(c)
    \/ \E d \in Dumpers, t \in {"ALL", "ONE"}, i \in Index : DumpStart(d, t, i)
    \/ \E d \in Dumpers : DumpChunk(d)
    \/ \E d \in Dumpers : DumpSkip(d)
    \/ \E d \in Dumpers : DumpGone(d)
    \/ \E d \in Dumpers : DumpPin(d)
    \/ \E d \in Dumpers : DumpPass(d)
    \/ \E d \in Dumpers : DumpPartial(d)
    \/ \E d \in Dumpers : DumpNext(d)
    \/ \E d \in Dumpers : DumpFail(d)
    \/ \E d \in Dumpers : DumpDone(d)

PacketPath ==
    \/ \E p \in Packets, r \in Rules, op \in {"test", "ad"} :
          PacketEnter(p, r, op)
    \/ \E p \in Packets : PacketLock(p)
    \/ \E p \in Packets, e \in Elems : PacketElem(p, e)
    \/ \E p \in Packets : PacketMember(p)
    \/ \E p \in Packets : PacketNext(p)
    \/ \E p \in Packets : PacketLeave(p)

Next == SetCommand \/ RefCommand \/ Deferred \/ NetlinkStep \/ PacketPath

Spec == Init /\ [][Next]_vars

\* No swap happens between the two halves of an asynchronous put: the slot of
\* a set changes to another set in swaps only
SwapQuiet ==
    (\E i \in Index : /\ ip_set_list[i] # NULL /\ ip_set_list'[i] # NULL
                      /\ ip_set_list'[i] # ip_set_list[i])
       => \A e \in Elems : putting[e] = NULL

QuietSpec == Init /\ [][Next /\ SwapQuiet]_vars

\* Weak fairness of what the kernel runs by itself: RCU callbacks, timer
\* handlers, the command inside the nfnl mutex and the first chunk of a dump.
\* Strong fairness of leaving: a packet steps through finitely many members.
Fairness ==
    /\ WF_vars(DestroyFinish) /\ WF_vars(DestroyAllCheck)
    /\ WF_vars(DestroyAllStep) /\ WF_vars(DestroyAllFinish)
    /\ \A l \in Sets, e \in Elems : WF_vars(DestroyDel(l, e))
    /\ \A e \in Elems : WF_vars(PutFinish(e))
    /\ \A s \in Sets : WF_vars(RcuCallback(s)) /\ WF_vars(Free(s))
    /\ \A d \in Dumpers :
          /\ WF_vars(DumpChunk(d)) /\ WF_vars(DumpPass(d))
          /\ WF_vars(DumpSkip(d) \/ DumpGone(d) \/ DumpPin(d))
          /\ WF_vars(DumpPartial(d) \/ DumpNext(d) \/ DumpFail(d))
    /\ \A p \in Packets : WF_vars(PacketMember(p)) /\ SF_vars(PacketLeave(p))

FairSpec == Spec /\ Fairness

----------------------------------------------------------------------------
(* Properties                                                              *)

DumpType ==
    [pc : {"idle", "wait", "scan", "emit", "end", "err"},
     type : {"ALL", "ONE", "LAST"}, index : Index \cup {NoIndex},
     max : Index \cup {NoIndex}, arg0 : BOOLEAN, set : Sets \cup {NULL},
     must : SUBSET Index]
PacketType ==
    [pc : {"idle", "set", "elem", "member", "bug"}, op : {"test", "ad"},
     rule : Rules \cup {NULL}, set : Sets \cup {NULL},
     id : Index \cup {NoIndex}, member : Sets \cup {NULL}, locked : BOOLEAN]

\* Every variable has its type; in particular ip_set_max never reaches
\* IPSET_INVALID_ID
TypeOK ==
    /\ ip_set_list \in [Index -> Sets \cup {NULL}]
    /\ ip_set_max \in Index
    /\ is_destroyed \in BOOLEAN
    /\ state \in [Sets -> {"free", "live"} \cup Reclaimable]
    /\ name \in [Sets -> Names \cup {NULL}]
    /\ kind \in [Sets -> {"plain", "list"}]
    /\ ref \in [Sets -> Int]
    /\ ref_netlink \in [Sets -> Int]
    /\ grace \in [Sets -> SUBSET Packets]
    /\ hold \in [Holders -> Index \cup {NoIndex}]
    /\ owner \in [Elems -> Sets \cup {NULL}]
    /\ putting \in [Elems -> Sets \cup {NULL}]
    /\ elem_grace \subseteq Packets
    /\ nfnl \in {"free", "destroy_one", "barrier_all", "destroy_all"}
                   \cup Dumpers
    /\ victim \in Sets \cup {NULL}
    /\ barrier \in [sets : SUBSET Sets, readers : SUBSET Packets]
    /\ pin \in [Pinners -> Sets \cup {NULL}]
    /\ dump \in [Dumpers -> DumpType]
    /\ packet \in [Packets -> PacketType]

\* The table is exact: a set is in the table iff it is live, at one index
\* below ip_set_max, under a name no other set of the table has.  Create,
\* rename, swap, destroy and the growth of the table all rewrite it.
TableExact ==
    /\ \A i \in Used : i < ip_set_max /\ state[ip_set_list[i]] = "live"
    /\ \A i, j \in Used :
          ip_set_list[i] = ip_set_list[j]
             \/ name[ip_set_list[i]] = name[ip_set_list[j]] => i = j
    /\ \A s \in LiveSets : \E i \in Used : ip_set_list[i] = s

\* set->ref of the set behind an index counts the rules and list elements
\* that refer to that index, whatever sets have been swapped there meanwhile
\* (ip_set_swap exchanges the counters with the slots)
RefsAccounted ==
    \A i \in Used : ref[ip_set_list[i]] = Cardinality(Holding(i))

\* The index a rule or a list element refers to has a set behind it: the
\* BUG_ON(!set) of ip_set_test/add/del cannot trigger for a rule
HeldIndexLive == \A h \in Holders : hold[h] # NoIndex => hold[h] \in Used

\* set->ref_netlink counts the dumps and interrupted commands that work on
\* the set, and those sets are in the table
PinsAccounted ==
    /\ \A s \in Sets : ref_netlink[s] = Cardinality(Pinning(s))
    /\ \A c \in Pinners : pin[c] # NULL => state[pin[c]] = "live"

\* A dump that is inside a set finds, through its index, the set it pinned
\* (ip_set_dump_do and ip_set_dump_done read the slot again to release it)
DumpIndexPinned ==
    \A d \in Dumpers :
       /\ pin[d] # NULL <=> dump[d].pc = "emit" \/ dump[d].arg0
       /\ pin[d] # NULL => /\ dump[d].index \in Index
                           /\ ip_set_list[dump[d].index] = pin[d]

\* While dumps or interrupted commands work on a set it keeps its index and
\* its name: no destroy, rename or swap touches it
PinnedSetKept ==
    [][\A s \in Sets : ref_netlink[s] > 0 =>
          /\ name'[s] = name[s]
          /\ \A i \in Index : ip_set_list[i] = s <=> ip_set_list'[i] = s]_vars

\* A set a packet works on is not freed, even when the packet's rule refers
\* to another set by now (swap) and the old one was destroyed
PacketSetAlive ==
    \A p \in Packets : /\ packet[p].set # NULL => state[packet[p].set] # "free"
                       /\ packet[p].member # NULL =>
                             state[packet[p].member] # "free"

\* The SET target walks a list:set set under set->lock: a member index it has
\* reached has a set behind it
LockedMemberLive ==
    \A p \in Packets : packet[p].pc = "elem" /\ packet[p].op = "ad" =>
       packet[p].id \in Used

\* No list:set set is a member of a list:set set, also not after swaps
NoNestedLists ==
    \A e \in Elems : owner[e] # NULL =>
       kind[ip_set_list[hold[e]]] # "list"

\* While "destroy all" runs, nobody gets a reference on a set it is about to
\* free: a dump in progress stops instead of pinning the next set
DestroyAllQuiet == is_destroyed => \A i \in Used : Unreferenced(ip_set_list[i])

\* A dump of all sets that ended regularly has listed every set, other than
\* list:set ones, that was in the table all the time
DumpCoversPlain ==
    \A d \in Dumpers : dump[d].pc = "end" =>
       \A i \in dump[d].must : kind[ip_set_list[i]] = "list"

\* BUG_ON has stopped a packet or an asynchronous put
Crashed ==
    \/ \E p \in Packets : packet[p].pc = "bug"
    \/ \E e \in Elems : putting[e] # NULL /\ ref[putting[e]] = 0

\* A destroyed set is freed in the end
DestroyedSetFreed ==
    \A s \in Sets : state[s] \in Reclaimable ~> state[s] = "free" \/ Crashed

\* The nfnl mutex is always released again: neither rcu_barrier nor
\* cancel_gc, both called under it, waits for something that needs it
NfnlReleased == nfnl # "free" ~> nfnl = "free" \/ Crashed
=============================================================================
