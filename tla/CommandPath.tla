---------------------------- MODULE CommandPath ----------------------------
(***************************************************************************)
(* A command from its words to the kernel and back: a client creates sets  *)
(* of one type, adds, deletes and tests elements, saves everything and     *)
(* restores what it saved.  The module composes the library's tables and   *)
(* checks (SetTypes, CommandLine) with the kernel's (TypeHandlers), which  *)
(* nothing but agreement keeps in step.                                    *)
(*                                                                         *)
(* The kernel is the newest; a library may be older: it knows the          *)
(* revisions of the type up to u.  A script costs: every keyword, every    *)
(* part written in another form than the plain one, an older library, a    *)
(* second set and a second element take one unit of what is left of        *)
(* Budget.  A refused command ends the script.                             *)
(***************************************************************************)
EXTENDS TypeHandlers

CONSTANTS Names,      \* the types to try, one per behaviour
          Budget,     \* what the unusual parts of a script may cost
          MaxArgs,    \* keywords of a command
          MaxSets,    \* sets of a script
          MaxElems    \* elements of a set

ASSUME CommandPathAssumption ==
    /\ Names \subseteq {t.name : t \in typelist}
    /\ {Budget, MaxArgs, MaxSets, MaxElems} \subseteq Nat

VARIABLES typename,  \* the type of this behaviour
          sets,      \* the kernel's sets, in the order they were created
          saved,     \* the lines a save printed
          restored,  \* the sets a restore of these lines creates
          line,      \* how many lines were restored
          outcome,   \* what became of the last command
          spare      \* budget left

vars == <<typename, sets, saved, restored, line, outcome, spare>>

\* the revisions of every type, and what a library knows that ends at one of them
RevisionsOf ==
    Tabulated([n \in {t.name : t \in typelist} |->
                 {t.revision : t \in {x \in typelist : x.name = n}}])
Libraries ==
    Tabulated([n \in DOMAIN RevisionsOf |->
        Tabulated([u \in RevisionsOf[n] |-> {t \in typelist : t.name = n /\ t.revision <= u}])])
NewestTypes == Tabulated([n \in DOMAIN RevisionsOf |-> Newest({t \in typelist : t.name = n})])

Library(u) == Libraries[typename][u]
Revisions == RevisionsOf[typename]
NewestType == NewestTypes[typename]
NewestRevision == NewestType.revision

(***************************************************************************)
(* What a client may write, and what it costs                              *)
(***************************************************************************)
ArgForms(k) ==
    CASE k = "INET" -> {"inet"}
      [] k = "INET6" -> {"inet6"}
      [] OTHER -> Forms(ipset_args[k].parse)

Argument(n, cmd) ==
    UNION {{[keyword |-> k, form |-> f] : f \in ArgForms(k)} : k \in NewestTypes[n][cmd].args}

PlainForms(parser) ==
    CASE parser = "netrange" -> {"ip-ip"}
      [] parser = "net" -> {"ip/net"}
      [] parser \in (AddressParsers \ {"netrange", "net"}) \union {"bitmask"} -> {"ip"}
      [] parser \in {"proto_port", "tcp_udp_port"} -> {"port", "range"}
      [] OTHER -> Forms(parser)

FormCost(parser, form) == IF form \in PlainForms(parser) THEN 0 ELSE 1
ArgCost(a) == 1 + FormCost(ipset_args[a.keyword].parse, a.form)
LibraryCost(u) == IF u = NewestRevision THEN 0 ELSE 1

\* the lists of words within a cost, each with its cost
Costly(x, cost) == [words |-> x, cost |-> cost]
Longer(lists, words, price(_), most) ==
    UNION {{Costly(Append(l.words, w), l.cost + price(w))
              : w \in {x \in words : l.cost + price(x) <= most}} : l \in lists}

ArgLists(n, cmd, most) ==
    LET next(lists, i) == lists \union Longer({l \in lists : Len(l.words) = i - 1},
                                             Argument(n, cmd), ArgCost, most)
    IN  FoldLeft(next, {Costly(<< >>, 0)}, [i \in 1..MaxArgs |-> i])

ArgTable ==
    Tabulated([n \in Names |-> Tabulated([cmd \in {"create", "add", "del", "test"} |->
                Tabulated([most \in 0..(Budget + 1) |-> ArgLists(n, cmd, most)])])])

\* an element of all parts, or without its last one
Elements(n, most) ==
    LET elem == NewestTypes[n].elem
        next(lists, i) ==
          Longer(lists, Forms(elem[i].parse), LAMBDA f : FormCost(elem[i].parse, f), most)
        upto(i) == FoldLeft(next, {Costly(<< >>, 0)}, [j \in 1..i |-> j])
        short == {[l EXCEPT !.cost = @ + 1] : l \in upto(Len(elem) - 1)}
    IN  upto(Len(elem)) \union {l \in short : Len(elem) > 1 /\ l.cost <= most}

ElementTable ==
    Tabulated([n \in Names |-> Tabulated([most \in 0..Budget |-> Elements(n, most)])])

(***************************************************************************)
(* What becomes of a command.  lib is ``sent'' or the reason the library   *)
(* refused it; unsent are options it set and put in no attribute;          *)
(* undeclared are attributes the policy of the kernel's type does not      *)
(* name; foreign: the ICMP of the other family was written.                *)
(***************************************************************************)
Nothing == [cmd |-> "none", lib |-> "sent", unsent |-> {}, undeclared |-> {},
            answer |-> "ok", foreign |-> FALSE]

AttributeName(o) == IF o = "ADT_COMMENT" THEN "COMMENT" ELSE o

\* a prefix length beside the address of ``to'' or ``bitmask'' is filed under
\* CIDR2, a range under IP2_TO; no create message carries them
Unsent(cmd, d, sent) ==
    DOMAIN d \ (DOMAIN sent \union {"FAMILY", "TYPE", "ignored_family"}
                            \union (IF cmd = "create" THEN {"CIDR2", "IP2_TO"} ELSE {}))

Outcome(cmd, d, sent, policy, answer) ==
    [cmd |-> cmd, lib |-> "sent", unsent |-> Unsent(cmd, d, sent),
     undeclared |-> {AttributeName(o) : o \in DOMAIN sent} \ policy,
     answer |-> answer,
     foreign |-> Has(d, "PROTO") /\ d["PROTO"] \in {"icmp", "icmpv6"} /\ ~Has(d, "PORT")]

RefusedOutcome(cmd, d) == [Nothing EXCEPT !.cmd = cmd, !.lib = d["error"], !.answer = "none"]

Going == outcome.lib = "sent" /\ outcome.answer \in {"ok", "tested"}

(***************************************************************************)
(* create, add, del and test, from the words to the kernel's answer, and   *)
(* what they make of the sets in list.                                     *)
(***************************************************************************)
RunCreate(known, args, list, next) ==
    \E d \in {CreateCommand(known, 0, KernelTypeOf(typename).revision_max, args)} :
        \/ Refused(d) /\ outcome' = RefusedOutcome("create", d) /\ next = list
        \/ /\ ~Refused(d)
           /\ \E sent \in {addattr_create(d)}, revision \in {d["TYPE"].revision} :
                \E answer \in {ip_set_create_check(typename, DataFamily(d), revision, sent)} :
                  /\ outcome' = Outcome("create", d, sent,
                                        KernelTypeOf(typename).create_policy, answer)
                  /\ next = IF answer # "ok" THEN list
                            ELSE Append(list, NewSet(typename, revision, DataFamily(d), sent))

RunAdt(known, cmd, i, parts, args, list, next) ==
    \E d \in {AdtCommand(known, list[i], cmd, parts, args)} :
        \/ Refused(d) /\ outcome' = RefusedOutcome(cmd, d) /\ next = list
        \/ /\ ~Refused(d)
           /\ \E sent \in {addattr_adt(d)} :
                \E k \in {IF cmd = "test" THEN ip_set_utest(list[i], sent)
                                         ELSE ip_set_ad(list[i], cmd, sent)} :
                  /\ outcome' = Outcome(cmd, d, sent, KernelTypeOf(typename).adt_policy, k.answer)
                  /\ next = [list EXCEPT ![i].elems = k.elems]

Init ==
    /\ typename \in Names
    /\ sets = << >> /\ saved = << >> /\ restored = << >> /\ line = 0
    /\ outcome = Nothing
    /\ spare = Budget

CreateSet(u, args, cost) ==
    /\ Going /\ saved = << >> /\ Len(sets) < MaxSets
    /\ spare' = spare - cost
    /\ RunCreate(Library(u), args, sets, sets')
    /\ UNCHANGED <<typename, saved, restored, line>>

Adt(u, cmd, i, parts, args, cost) ==
    /\ Going /\ saved = << >>
    /\ cmd = "add" => Len(sets[i].elems) < MaxElems
    /\ spare' = spare - cost
    /\ RunAdt(Library(u), cmd, i, parts, args, sets, sets')
    /\ UNCHANGED <<typename, saved, restored, line>>

(***************************************************************************)
(* save: the listing of all sets goes through one data blob                *)
(***************************************************************************)
CreateLine(i, args) == [cmd |-> "create", set |-> i, parts |-> << >>, args |-> args]
AddLine(i, elem) == [cmd |-> "add", set |-> i, parts |-> elem.parts, args |-> elem.args]

\* the revision and the family of the header decide the type
ipset_type_check(known, set) ==
    {t \in known : t.revision = set.revision /\ MatchFamily(t, set.family)}

callback_list(known, acc, i) ==
    LET set == sets[i]
        match == ipset_type_check(known, set)
        type == Newest(match)
        head == attr2data(("FAMILY" :> set.family) @@ Unset(acc.data, IPSET_CREATE_FLAGS), set.header)
        elem(b, e) ==
          LET d == attr2data(Unset(b.data, IPSET_ADT_FLAGS), e)
          IN  [b EXCEPT !.data = d, !.lines = Append(@, AddLine(i, list_adt(d, type)))]
    IN  IF acc.failed \/ match = {} THEN [acc EXCEPT !.failed = TRUE]
        ELSE FoldLeft(elem,
                      [acc EXCEPT !.data = head,
                                  !.lines = Append(@, CreateLine(i, list_create(head, type)))],
                      set.elems)

Listing(u) ==
    FoldLeft(LAMBDA acc, i : callback_list(Library(u), acc, i),
             [data |-> NoData, lines |-> << >>, failed |-> FALSE],
             [i \in 1..Len(sets) |-> i])

Save(u) ==
    /\ Going /\ saved = << >> /\ sets # << >>
    /\ LibraryCost(u) <= spare
    /\ spare' = spare - LibraryCost(u)
    /\ \E l \in {Listing(u)} :
         IF l.failed THEN /\ outcome' = RefusedOutcome("save", "error" :> "incompatible")
                          /\ UNCHANGED saved
                     ELSE outcome' = [Nothing EXCEPT !.cmd = "save"] /\ saved' = l.lines
    /\ UNCHANGED <<typename, sets, restored, line>>

\* restore: the lines, one after the other, up to the first one refused
Restore ==
    /\ Going /\ line < Len(saved)
    /\ line' = line + 1
    /\ \E l \in {saved[line + 1]}, known \in {Library(NewestRevision)} :
         \/ l.cmd = "create" /\ RunCreate(known, l.args, restored, restored')
         \/ l.cmd = "add" /\ RunAdt(known, "add", l.set, l.parts, l.args, restored, restored')
    /\ UNCHANGED <<typename, sets, saved, spare>>

\* the first keyword of a type that needs one costs nothing
CreateAny ==
    \E u \in Revisions :
        LET free == IF NewestType.create.need = {} THEN 0 ELSE 1
            base == LibraryCost(u) + (IF sets = << >> THEN 0 ELSE 1)
        IN  /\ base <= spare
            /\ \E a \in ArgTable[typename]["create"][spare + free - base] :
                 CreateSet(u, a.words, base + (IF a.cost < free THEN 0 ELSE a.cost - free))

AdtAny ==
    \E cmd \in {"add", "del", "test"}, u \in Revisions, i \in DOMAIN sets :
        LET base == LibraryCost(u) + (IF cmd = "add" /\ sets[i].elems # << >> THEN 1 ELSE 0)
        IN  /\ base <= spare
            /\ \E e \in ElementTable[typename][spare - base] :
                 \E a \in ArgTable[typename][cmd][spare - base - e.cost] :
                   Adt(u, cmd, i, e.words, a.words, base + e.cost + a.cost)

SaveAny == \E u \in Revisions : Save(u)

Next == CreateAny \/ AdtAny \/ SaveAny \/ Restore
Spec == Init /\ [][Next]_vars

(***************************************************************************)
(* Properties                                                              *)
(***************************************************************************)
SetOK(set) ==
    /\ set.type = typename
    /\ set.family \in {"inet", "inet6", "unspec"}
    /\ DOMAIN set.header \subseteq KernelTypeOf(typename).create_policy
    /\ Len(set.elems) <= MaxElems

\* the sets are of one type and their headers carry attributes of its policy
TypeOK ==
    /\ typename \in Names /\ spare \in 0..Budget
    /\ Len(sets) <= MaxSets /\ Len(restored) <= MaxSets
    /\ \A i \in DOMAIN sets : SetOK(sets[i])
    /\ \A i \in DOMAIN restored : SetOK(restored[i])
    /\ line \in 0..Len(saved)
    /\ outcome.cmd \in {"none", "create", "add", "del", "test", "save"}

(***************************************************************************)
(* A command the library checked and sent is never answered with an error  *)
(* that says it did not understand the type: a revision the kernel does    *)
(* not have, an attribute that is missing, a range the type cannot take.   *)
(* The ICMP of the other family is the exception (parse.c:655).            *)
(***************************************************************************)
KernelUnderstands ==
    outcome.foreign \/ outcome.answer \notin
        {"PROTOCOL", "MISSING_PROTO", "RANGE_UNSUPPORTED", "FIND_TYPE", "INVALID_FAMILY",
         "BITMASK_NETMASK_EXCL"}

\* every option that an accepted command set reaches the kernel in an attribute
NothingDropped == outcome.unsent = {}

\* every attribute that is sent is one the policy of the kernel's type validates
Declared == outcome.undeclared = {}

\* the newest library and kernel accept every line that any library saved
RestoreAccepted == line > 0 => outcome.lib = "sent" /\ outcome.answer = "ok"

AllRestored == line > 0 /\ line = Len(saved) /\ Going

WithoutForceadd(header) ==
    IF Has(header, "CADT_FLAGS") THEN
        LET flags == header["CADT_FLAGS"] \ {"FORCEADD"}
        IN  IF flags = {} THEN Unset(header, {"CADT_FLAGS"}) ELSE ("CADT_FLAGS" :> flags) @@ header
    ELSE header

Restored(header, original, twin) ==
    /\ twin.family = original.family
    /\ twin.elems = original.elems
    /\ \A a \in DOMAIN header : Has(twin.header, a) /\ twin.header[a] = header[a]

(***************************************************************************)
(* What is restored is what was saved: the elements with their extensions  *)
(* and flags, and every option of the header but forceadd, which a listing *)
(* carries in CADT_FLAGS and data.c:426 does not decode.                   *)
(***************************************************************************)
RoundTrip ==
    AllRestored =>
        /\ Len(restored) = Len(sets)
        /\ \A i \in DOMAIN sets : Restored(WithoutForceadd(sets[i].header), sets[i], restored[i])

==============================================================================
