------------------------------- MODULE ListSet -------------------------------
(***************************************************************************)
(* One list:set set (ip_set_list_set.c): its members in their order, with  *)
(* timeouts, the references they hold on other sets, the counter that      *)
(* headers report, and a dump that lists it in several messages.           *)
(*                                                                         *)
(* Commands hold the nfnl mutex and set->lock, the gc timer set->lock: each*)
(* is one action.  A test takes no lock, but only the timer could come     *)
(* between its steps, and that removes what the test skips.  Timeouts obey *)
(* no lock: one member may time out after a command swept the list, before *)
(* or after the command's walk looked at it.                               *)
(*                                                                         *)
(* Names are the indices they resolve to: sets that can be members, a      *)
(* list:set set, or nothing.                                               *)
(***************************************************************************)
EXTENDS Naturals, SequencesExt, FiniteSets, Picking

CONSTANTS Ids,          \* indices of sets of other types
          ListId,       \* the index of a list:set set
          Nobody,       \* IPSET_INVALID_ID
          MaxMembers,   \* bound of the list
          MaxReplaced,  \* bound of replacements between two flushes
          Dumps         \* whether the list is dumped

ASSUME ListSetAssumption ==
    /\ IsFiniteSet(Ids) /\ ListId \notin Ids /\ Nobody \notin Ids \union {ListId}
    /\ {MaxMembers, MaxReplaced} \subseteq Nat /\ Dumps \in BOOLEAN

VARIABLES members,    \* map->members
          elements,   \* set->elements
          ref,        \* references this set has on others
          answer,     \* the last command and its answer
          dump,       \* cb->args, and what was reported
          replaced    \* ghost: list_set_replace since the last flush

vars == <<members, elements, ref, answer, dump, replaced>>

Lives == {"permanent", "timed"}
Said(cmd, id, side, refid, ret) ==
    [ask |-> <<cmd, id, side, refid>>, ret |-> ret]
Member(id, life) == [id |-> id, life |-> life]

Expired(e) == e.life = "expired"
Unexpired(m) == Picked(m, {n \in DOMAIN m : ~Expired(m[n])})
Dead(m) == Picked(m, {n \in DOMAIN m : Expired(m[n])})
IdsOf(m) == [i \in 1..Len(m) |-> m[i].id]
Order(m) == IdsOf(Unexpired(m))
Live(m) == ToSet(Order(m))

\* where the walk from some node finds the member id
FoundFrom(m, first, id) ==
    LET at == {n \in first..Len(m) : m[n].id = id /\ ~Expired(m[n])}
    IN  IF at = {} THEN 0 ELSE Min(at)
\* mutant: the walk starts at the second node
PositionRest(m, id) == FoundFrom(m, 2, id)
Position(m, id) == FoundFrom(m, 1, id)

\* m after the member id timed out
TimedOut(m, id) ==
    [i \in DOMAIN m |-> IF m[i] = Member(id, "timed") THEN Member(id, "expired") ELSE m[i]]
CanTimeOut(m) == {e.id : e \in {x \in ToSet(m) : x.life = "timed"}}

\* ip_set_get_byname, ip_set_put_byindex
Got(r, id) == IF id = Nobody THEN r ELSE [r EXCEPT ![id] = @ + 1]
Released(r, id) == IF id = Nobody THEN r ELSE [r EXCEPT ![id] = @ - 1]
Nodes(m, id) == Cardinality({n \in DOMAIN m : m[n].id = id})
ReleasedAll(r, nodes) == [i \in DOMAIN r |-> r[i] - Nodes(nodes, i)]

(***************************************************************************)
(* The dump.  Removing nodes moves what follows them; owed are the members *)
(* that have been there since the dump began and were not reported yet.    *)
(***************************************************************************)
NoDump == [on |-> FALSE, at |-> 0, owed |-> {}, removed |-> 0]
Least(a, b) == IF a < b THEN a ELSE b
DumpKeeps(kept, n) ==
    dump' = IF dump.on THEN [dump EXCEPT !.owed = @ \intersect kept,
                                         !.removed = Least(@ + n, Cardinality(Ids))]
                       ELSE NoDump

Init ==
    /\ members = << >> /\ elements = 0 /\ replaced = 0
    /\ ref = [i \in Ids \union {ListId} |-> 0]
    /\ answer = Said("none", Nobody, "last", Nobody, "none")
    /\ dump = NoDump

Timeout(id) ==
    /\ id \in CanTimeOut(members)
    /\ members' = TimedOut(members, id)
    /\ DumpKeeps(Live(members'), 0)
    /\ UNCHANGED <<elements, ref, answer, replaced>>

(***************************************************************************)
(* set_cleanup_entries, list_set_gc                                        *)
(***************************************************************************)
list_set_gc ==
    /\ Dead(members) # << >>
    /\ members' = Unexpired(members)
    /\ elements' = elements - Len(Dead(members))
    /\ ref' = ReleasedAll(ref, Dead(members))
    /\ DumpKeeps(Ids, Len(Dead(members)))
    /\ UNCHANGED <<answer, replaced>>

(***************************************************************************)
(* list_set_uadt up to adtfn: an error of its own puts what it got.  A     *)
(* test answers no instead of the error.                                   *)
(***************************************************************************)
\* mutant: a command that failed keeps its name's reference
FinishAdd(r, cmd, ret, id, refid) ==
    LET second == Released(r, refid)
    IN  IF cmd # "add" THEN Released(second, id) ELSE second
Finish(r, cmd, ret, id, refid) ==
    LET second == Released(r, refid)
    IN  IF cmd # "add" \/ ret # "ok" THEN Released(second, id) ELSE second

Side(before, hasref) == IF before THEN "before" ELSE IF hasref THEN "after" ELSE "last"

EarlyError(id, before, hasref, refid) ==
    CASE id = Nobody -> "NAME"
      [] id = ListId -> "LOOP"
      [] id \in Ids /\ before /\ ~hasref -> "BEFORE"
      [] id \in Ids /\ hasref /\ refid = Nobody -> "NAMEREF"
      [] OTHER -> "ok"

Refuse(cmd, id, before, hasref, refid) ==
    /\ EarlyError(id, before, hasref, refid) # "ok"
    /\ answer' = Said(cmd, id, Side(before, hasref), Nobody,
                      IF cmd = "test" THEN "no" ELSE EarlyError(id, before, hasref, refid))
    /\ ref' = IF id = Nobody THEN ref
              ELSE Finish(Got(ref, id), cmd, EarlyError(id, before, hasref, refid), id, Nobody)
    /\ DumpKeeps(Ids, 0)
    /\ UNCHANGED <<members, elements, replaced>>

(***************************************************************************)
(* list_set_uadd.  walked is the list as the walk sees it, now the list    *)
(* after the walk; both are swept.                                         *)
(***************************************************************************)
Reference(walked, side, id, refid) == IF side = "last" \/ refid = id THEN 0 ELSE Position(walked, refid)

\* the neighbour whose place a new member can take when it timed out
Neighbour(now, side, p) ==
    CASE side = "last" -> Len(now)
      [] side = "before" -> IF p < Len(now) THEN p + 1 ELSE 0
      [] side = "after" -> p - 1

\* mutant: a member for ``after'' is put before
InsertedBefore(now, side, p, e) ==
    CASE side = "last" -> Append(now, e)
      [] side \in {"before", "after"} -> InsertAt(now, p, e)
Inserted(now, side, p, e) ==
    CASE side = "last" -> Append(now, e)
      [] side = "before" -> InsertAt(now, p, e)
      [] side = "after" -> InsertAt(now, p + 1, e)

Swept(r) == ReleasedAll(r, Dead(members))
\* mutant: the sweep does not count
SweptUncounted == elements
SweptElements == elements - Len(Dead(members))

\* an add that leaves the list as the sweep left it
AddFails(why, now, side, id, refid) ==
    /\ answer' = Said("add", id, side, refid, why)
    /\ members' = now
    /\ elements' = SweptElements
    /\ ref' = Finish(Swept(Got(Got(ref, id), refid)), "add", why, id, refid)
    /\ DumpKeeps(Live(now), Len(Dead(members)))
    /\ UNCHANGED replaced

AddAgain(now, n, side, id, refid, life) ==
    /\ answer' = Said("add", id, side, refid, "ok")
    /\ members' = [now EXCEPT ![n].life = life]
    /\ elements' = SweptElements
    /\ ref' = Finish(Released(Swept(Got(Got(ref, id), refid)), id), "add", "ok", id, refid)
    /\ DumpKeeps(Live(members'), Len(Dead(members)))
    /\ UNCHANGED replaced

list_set_replace(now, k, side, id, refid, life) ==
    /\ replaced < MaxReplaced
    /\ answer' = Said("add", id, side, refid, "ok")
    /\ members' = [now EXCEPT ![k] = Member(id, life)]
    /\ elements' = SweptElements + 1
    /\ ref' = Finish(Released(Swept(Got(Got(ref, id), refid)), now[k].id), "add", "ok", id, refid)
    /\ DumpKeeps(Live(now), Len(Dead(members)))
    /\ replaced' = replaced + 1

AddNew(now, side, p, id, refid, life) ==
    /\ Len(now) < MaxMembers
    /\ answer' = Said("add", id, side, refid, "ok")
    /\ members' = Inserted(now, side, p, Member(id, life))
    /\ elements' = SweptElements + 1
    /\ ref' = Finish(Swept(Got(Got(ref, id), refid)), "add", "ok", id, refid)
    /\ DumpKeeps(Live(now), Len(Dead(members)))
    /\ UNCHANGED replaced

list_set_uadd(walked, now, side, id, refid) ==
    LET n == Position(walked, id)
        p == Reference(walked, side, id, refid)
        k == Neighbour(now, side, p)
        replaceable == k # 0 /\ Expired(now[k])
    IN  \/ side # "last" /\ p = 0 /\ AddFails("REF_EXIST", now, side, id, refid)
        \/ /\ (side # "last") => p # 0
           /\ \/ n # 0 /\ AddFails("EXIST", now, side, id, refid)           \* without -exist
              \/ n # 0 /\ \E life \in Lives : AddAgain(now, n, side, id, refid, life)  \* with it
              \/ n = 0 /\ AddFails("ENOMEM", now, side, id, refid)
              \/ /\ n = 0 /\ replaceable
                 /\ \E life \in Lives : list_set_replace(now, k, side, id, refid, life)
              \/ /\ n = 0 /\ ~replaceable
                 /\ \E life \in Lives : AddNew(now, side, p, id, refid, life)

(***************************************************************************)
(* list_set_udel, list_set_utest.  Before looks at the next node, timed    *)
(* out or not; after at the last one that had not timed out.               *)
(***************************************************************************)
Placed(walked, side, i, refid) ==
    CASE side = "last" -> TRUE
      [] side = "before" -> i < Len(walked) /\ walked[i + 1].id = refid
      [] side = "after" ->
           LET prev == Order(SubSeq(walked, 1, i - 1))
           IN  prev # << >> /\ Last(prev) = refid

DelAnswer(walked, side, id, refid, exist) ==
    LET i == Position(walked, id)
    IN  CASE i # 0 /\ Placed(walked, side, i, refid) -> "deleted"
          [] i = 0 /\ side = "last" -> IF exist THEN "ok" ELSE "EXIST"
          [] OTHER -> "REF_EXIST"

list_set_udel(walked, now, side, id, refid, exist) ==
    LET ret == DelAnswer(walked, side, id, refid, exist)
        removed == IF ret = "deleted" THEN 1 ELSE 0
        left == IF ret = "deleted" THEN RemoveAt(now, Position(walked, id)) ELSE now
        put == IF ret = "deleted" THEN id ELSE Nobody
    IN  /\ answer' = Said("del", id, side, refid, IF ret = "deleted" THEN "ok" ELSE ret)
        /\ members' = left
        /\ elements' = SweptElements - removed
        /\ ref' = Finish(Released(Swept(Got(Got(ref, id), refid)), put), "del", ret, id, refid)
        /\ DumpKeeps(Live(left), Len(Dead(members)) + removed)
        /\ UNCHANGED replaced

list_set_utest(side, id, refid) ==
    LET i == Position(members, id)
        ret == IF i # 0 /\ Placed(members, side, i, refid) THEN "yes" ELSE "no"
    IN  /\ answer' = Said("test", id, side, refid, ret)
        /\ ref' = Finish(Got(Got(ref, id), refid), "test", ret, id, refid)
        /\ DumpKeeps(Ids, 0)
        /\ UNCHANGED <<members, elements, replaced>>

(***************************************************************************)
(* list_set_uadt                                                           *)
(***************************************************************************)
list_set_uadt(cmd, id, before, hasref, refid) ==
    /\ EarlyError(id, before, hasref, refid) = "ok"
    /\ LET side == Side(before, hasref)
           second == IF hasref THEN refid ELSE Nobody
           swept == Unexpired(members)
       IN  \/ cmd = "test" /\ list_set_utest(side, id, second)
           \/ /\ cmd \in {"add", "del"}
              /\ \E late \in CanTimeOut(swept) \union {Nobody} :
                 \E now \in {TimedOut(swept, late)} : \E walked \in {swept, now} :
                    \/ cmd = "add" /\ list_set_uadd(walked, now, side, id, second)
                    \/ /\ cmd = "del"
                       /\ \E exist \in BOOLEAN :
                            list_set_udel(walked, now, side, id, second, exist)

(***************************************************************************)
(* list_set_flush; list_set_destroy and the creation of the next set       *)
(***************************************************************************)
list_set_flush ==
    /\ members' = << >> /\ elements' = 0 /\ replaced' = 0
    /\ ref' = ReleasedAll(ref, members)
    /\ answer' = Said("flush", Nobody, "last", Nobody, "ok")
    /\ DumpKeeps({}, Len(members))

list_set_destroy == ~dump.on /\ list_set_flush

(***************************************************************************)
(* list_set_list: a message holds the members up to some node, and cb->args*)
(* keeps how many nodes were passed.                                       *)
(***************************************************************************)
DumpStart ==
    /\ Dumps /\ ~dump.on
    /\ dump' = [NoDump EXCEPT !.on = TRUE, !.owed = Live(members)]
    /\ UNCHANGED <<members, elements, ref, answer, replaced>>

ListFrom(first) ==
    /\ dump.on
    /\ \E to \in (dump.at + 1)..Len(members) \union {Len(members)} :
         dump' = [dump EXCEPT !.on = to < Len(members),
                              !.at = to,
                              !.owed = @ \ Live(SubSeq(members, first, to))]
    /\ UNCHANGED <<members, elements, ref, answer, replaced>>

\* mutant: the node cb->args names counts as reported
ListFromNext == ListFrom(dump.at + 2)
list_set_list == ListFrom(dump.at + 1)

\* where an error comes before the rest of a command is looked at, one rest
\* stands for all
Command ==
    \/ \E cmd \in {"add", "del", "test"} :
         \/ \E id \in {Nobody, ListId} : Refuse(cmd, id, FALSE, FALSE, Nobody)
         \/ \E id \in Ids, before, hasref \in BOOLEAN : Refuse(cmd, id, before, hasref, Nobody)
         \/ \E id \in Ids : list_set_uadt(cmd, id, FALSE, FALSE, Nobody)
         \/ \E id \in Ids, before \in BOOLEAN, refid \in Ids \union {ListId} :
              list_set_uadt(cmd, id, before, TRUE, refid)
    \/ list_set_flush \/ list_set_destroy

Next ==
    \/ Command
    \/ \E id \in Ids : Timeout(id)
    \/ list_set_gc
    \/ DumpStart \/ list_set_list

Spec == Init /\ [][Next]_vars

(***************************************************************************)
(* Properties                                                              *)
(***************************************************************************)
\* the state is of its types, and no set is twice on the list unless one of
\* them timed out
TypeOK ==
    /\ members \in Seq([id : Ids, life : Lives \union {"expired"}])
    /\ Len(members) <= MaxMembers
    /\ IsInjective(Order(members))
    /\ elements \in Nat /\ replaced \in 0..MaxReplaced
    /\ ref \in [Ids \union {ListId} -> Nat]
    /\ dump.at \in Nat /\ dump.on \in BOOLEAN
    /\ dump.owed \subseteq Ids

(***************************************************************************)
(* Every node of the list holds one reference on its set, and nothing else *)
(* does between two commands: list_set_uadt gets up to two, and each of    *)
(* its ways out, the sweep, a replacement and a flush put the right ones.  *)
(***************************************************************************)
RefsExact ==
    \A i \in Ids \union {ListId} : ref[i] = Nodes(members, i)

(***************************************************************************)
(* The number of elements that headers report is the number of nodes and   *)
(* one more for each replacement: list_set_replace (list_set.c:167) takes  *)
(* a node off the list and does not count it.                              *)
(***************************************************************************)
ElementsCounted == elements = Len(members) + replaced

(***************************************************************************)
(* A dump passes over at most as many members that are there all the time  *)
(* as nodes were removed while it went on (cb->args counts nodes).         *)
(***************************************************************************)
DumpMisses ==
    Cardinality({i \in dump.owed : Position(members, i) \in 1..dump.at}) <= dump.removed

(***************************************************************************)
(* The list implements ListSpec.                                           *)
(***************************************************************************)
Promise == INSTANCE ListSpec WITH order <- Order(members), tidy <- Dead(members) = << >>
ListKept == Promise!Spec
==============================================================================
