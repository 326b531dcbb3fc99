---------------------------- MODULE TypeHandlers ----------------------------
(***************************************************************************)
(* The kernel's side of a command: what each set type demands of the       *)
(* attributes it is sent, what it stores, and what it puts in a listing.   *)
(*                                                                         *)
(* A message is a function from the attributes it carries to their values  *)
(* (the classes of CommandLine).  A handler is the sequence of its checks, *)
(* each with the error it answers; the first check that fails decides.     *)
(* Of the values only what a check looks at is kept, so the checks of an   *)
(* address against the range of a bitmap or against zero are left out.     *)
(***************************************************************************)
EXTENDS CommandLine

Check(bad, err) == [bad |-> bad, err |-> err]
Missing(o, needed) == Check(~(needed \subseteq DOMAIN o), "PROTOCOL")

FirstError(checks) ==
    LET failed == SelectSeq(checks, LAMBDA c : c.bad)
    IN  IF failed = << >> THEN "ok" ELSE Head(failed).err

(***************************************************************************)
(* Extensions.  A set is created with some; an element may only carry      *)
(* what its set has.                                                       *)
(***************************************************************************)
SetFlags(set) == IF Has(set.header, "CADT_FLAGS") THEN set.header["CADT_FLAGS"] ELSE {}
HasTimeout(set) == Has(set.header, "TIMEOUT")
SkbOptions == {"SKBMARK", "SKBPRIO", "SKBQUEUE"}

ip_set_get_extensions(set, o) ==
    <<Check(Has(o, "TIMEOUT") /\ ~HasTimeout(set), "TIMEOUT"),
      Check((Has(o, "BYTES") \/ Has(o, "PACKETS")) /\ "COUNTERS" \notin SetFlags(set), "COUNTER"),
      Check(Has(o, "ADT_COMMENT") /\ "CREATE_COMMENT" \notin SetFlags(set), "COMMENT"),
      Check(SkbOptions \intersect DOMAIN o # {} /\ "SKBINFO" \notin SetFlags(set), "SKBINFO")>>

\* timeouts and counters are listed of every element, the others when they are set
ip_set_put_extensions(set, o) ==
    LET always == (IF HasTimeout(set) THEN {"TIMEOUT"} ELSE {})
                    \union (IF "COUNTERS" \in SetFlags(set) THEN {"BYTES", "PACKETS"} ELSE {})
    IN  [x \in always \union (DOMAIN o \intersect (SkbOptions \union {"ADT_COMMENT"}))
            |-> "value"]

(***************************************************************************)
(* Checks that handlers share in form                                      *)
(***************************************************************************)
ZeroCidr(o, copt) == Check(Has(o, copt) /\ o[copt] = "zero", "INVALID_CIDR")
HostCidrOnly(o) == Check(Has(o, "CIDR") /\ o["CIDR"] # "host", "INVALID_CIDR")
NoRange(o, ends) == Check(ends \intersect DOMAIN o # {}, "RANGE_UNSUPPORTED")
MissingProto(o) == Check(~Has(o, "PROTO"), "MISSING_PROTO")

\* a prefix length is looked at when an IPv4 range is added or deleted
RangeCidr(cmd, o) ==
    Check(cmd # "test" /\ ~Has(o, "IP_TO") /\ Has(o, "CIDR") /\ o["CIDR"] = "zero", "INVALID_CIDR")

bitmap_ip_uadt(set, cmd, o) ==
    <<Missing(o, {"IP"})>> \o ip_set_get_extensions(set, o) \o <<RangeCidr(cmd, o)>>
bitmap_ipmac_uadt(set, cmd, o) ==
    <<Missing(o, {"IP"})>> \o ip_set_get_extensions(set, o)
bitmap_port_uadt(set, cmd, o) ==
    <<Missing(o, {"PORT"})>> \o ip_set_get_extensions(set, o)

hash_ip4_uadt(set, cmd, o) ==
    <<Missing(o, {"IP"})>> \o ip_set_get_extensions(set, o) \o <<RangeCidr(cmd, o)>>
hash_ip6_uadt(set, cmd, o) ==
    <<Missing(o, {"IP"}), NoRange(o, {"IP_TO"}), HostCidrOnly(o)>>
        \o ip_set_get_extensions(set, o)

(***************************************************************************)
(* The address and the extensions of hash:ip,mac are joined by ||, which   *)
(* makes 1 of every error.                                                 *)
(***************************************************************************)
AsTruthValue(checks) == [i \in DOMAIN checks |-> [checks[i] EXCEPT !.err = "1"]]

hash_ipmac4_uadt(set, cmd, o) ==
    <<Missing(o, {"IP", "ETHER"})>> \o AsTruthValue(ip_set_get_extensions(set, o))
hash_ipmac6_uadt(set, cmd, o) ==
    <<Missing(o, {"IP", "ETHER"})>> \o AsTruthValue(ip_set_get_extensions(set, o))
hash_mac4_uadt(set, cmd, o) ==
    <<Missing(o, {"ETHER"})>> \o ip_set_get_extensions(set, o)

hash_ipmark4_uadt(set, cmd, o) ==
    <<Missing(o, {"IP", "MARK"})>> \o ip_set_get_extensions(set, o) \o <<RangeCidr(cmd, o)>>
hash_ipmark6_uadt(set, cmd, o) ==
    <<Missing(o, {"IP", "MARK"}), NoRange(o, {"IP_TO"}), HostCidrOnly(o)>>
        \o ip_set_get_extensions(set, o)

hash_ipport4_uadt(set, cmd, o) ==
    <<Missing(o, {"IP", "PORT"})>> \o ip_set_get_extensions(set, o)
        \o <<MissingProto(o), RangeCidr(cmd, o)>>
hash_ipport6_uadt(set, cmd, o) ==
    <<Missing(o, {"IP", "PORT"}), NoRange(o, {"IP_TO"}), HostCidrOnly(o)>>
        \o ip_set_get_extensions(set, o) \o <<MissingProto(o)>>

hash_ipportip4_uadt(set, cmd, o) ==
    <<Missing(o, {"IP", "PORT", "IP2"})>> \o ip_set_get_extensions(set, o)
        \o <<MissingProto(o), RangeCidr(cmd, o)>>
hash_ipportip6_uadt(set, cmd, o) ==
    <<Missing(o, {"IP", "PORT", "IP2"}), NoRange(o, {"IP_TO"}), HostCidrOnly(o)>>
        \o ip_set_get_extensions(set, o) \o <<MissingProto(o)>>

hash_ipportnet4_uadt(set, cmd, o) ==
    <<Missing(o, {"IP", "PORT", "IP2"})>> \o ip_set_get_extensions(set, o)
        \o <<ZeroCidr(o, "CIDR2"), MissingProto(o), RangeCidr(cmd, o)>>
hash_ipportnet6_uadt(set, cmd, o) ==
    <<Missing(o, {"IP", "PORT", "IP2"}), NoRange(o, {"IP_TO"}), HostCidrOnly(o)>>
        \o ip_set_get_extensions(set, o) \o <<ZeroCidr(o, "CIDR2"), MissingProto(o)>>

hash_net4_uadt(set, cmd, o) ==
    <<Missing(o, {"IP"})>> \o ip_set_get_extensions(set, o) \o <<ZeroCidr(o, "CIDR")>>
hash_net6_uadt(set, cmd, o) ==
    <<Missing(o, {"IP"}), NoRange(o, {"IP_TO"})>>
        \o ip_set_get_extensions(set, o) \o <<ZeroCidr(o, "CIDR")>>

hash_netiface4_uadt(set, cmd, o) ==
    <<Missing(o, {"IP", "IFACE"})>> \o ip_set_get_extensions(set, o)
hash_netiface6_uadt(set, cmd, o) ==
    <<Missing(o, {"IP", "IFACE"}), NoRange(o, {"IP_TO"})>> \o ip_set_get_extensions(set, o)

hash_netnet4_uadt(set, cmd, o) ==
    <<Missing(o, {"IP", "IP2"})>> \o ip_set_get_extensions(set, o)
        \o <<ZeroCidr(o, "CIDR"), ZeroCidr(o, "CIDR2")>>
hash_netnet6_uadt(set, cmd, o) ==
    <<Missing(o, {"IP", "IP2"}), NoRange(o, {"IP_TO", "IP2_TO"})>>
        \o ip_set_get_extensions(set, o) \o <<ZeroCidr(o, "CIDR"), ZeroCidr(o, "CIDR2")>>

hash_netport4_uadt(set, cmd, o) ==
    <<Missing(o, {"IP", "PORT"})>> \o ip_set_get_extensions(set, o)
        \o <<ZeroCidr(o, "CIDR"), MissingProto(o)>>
hash_netport6_uadt(set, cmd, o) ==
    <<Missing(o, {"IP", "PORT"}), NoRange(o, {"IP_TO"})>>
        \o ip_set_get_extensions(set, o) \o <<ZeroCidr(o, "CIDR"), MissingProto(o)>>

hash_netportnet4_uadt(set, cmd, o) ==
    <<Missing(o, {"IP", "PORT", "IP2"})>> \o ip_set_get_extensions(set, o) \o <<MissingProto(o)>>
hash_netportnet6_uadt(set, cmd, o) ==
    <<Missing(o, {"IP", "PORT", "IP2"}), NoRange(o, {"IP_TO", "IP2_TO"})>>
        \o ip_set_get_extensions(set, o) \o <<MissingProto(o)>>

\* a reference set is never on the list here: NAMEREF finds no place
list_set_uadt(set, cmd, o) ==
    <<Missing(o, {"NAME"})>> \o ip_set_get_extensions(set, o)
        \o <<Check(Has(o, "NAMEREF"), "REF_EXIST")>>

(***************************************************************************)
(* The handler of the set's type and family                                *)
(***************************************************************************)
uadt(set, cmd, o) ==
    LET v4 == set.family = "inet"
        checks ==
          CASE set.type = "bitmap:ip" -> bitmap_ip_uadt(set, cmd, o)
            [] set.type = "bitmap:ip,mac" -> bitmap_ipmac_uadt(set, cmd, o)
            [] set.type = "bitmap:port" -> bitmap_port_uadt(set, cmd, o)
            [] set.type = "hash:ip" ->
                 IF v4 THEN hash_ip4_uadt(set, cmd, o) ELSE hash_ip6_uadt(set, cmd, o)
            [] set.type = "hash:ip,mac" ->
                 IF v4 THEN hash_ipmac4_uadt(set, cmd, o) ELSE hash_ipmac6_uadt(set, cmd, o)
            [] set.type = "hash:ip,mark" ->
                 IF v4 THEN hash_ipmark4_uadt(set, cmd, o) ELSE hash_ipmark6_uadt(set, cmd, o)
            [] set.type = "hash:ip,port" ->
                 IF v4 THEN hash_ipport4_uadt(set, cmd, o) ELSE hash_ipport6_uadt(set, cmd, o)
            [] set.type = "hash:ip,port,ip" ->
                 IF v4 THEN hash_ipportip4_uadt(set, cmd, o) ELSE hash_ipportip6_uadt(set, cmd, o)
            [] set.type = "hash:ip,port,net" ->
                 IF v4 THEN hash_ipportnet4_uadt(set, cmd, o)
                       ELSE hash_ipportnet6_uadt(set, cmd, o)
            [] set.type = "hash:mac" -> hash_mac4_uadt(set, cmd, o)
            [] set.type = "hash:net" ->
                 IF v4 THEN hash_net4_uadt(set, cmd, o) ELSE hash_net6_uadt(set, cmd, o)
            [] set.type = "hash:net,iface" ->
                 IF v4 THEN hash_netiface4_uadt(set, cmd, o) ELSE hash_netiface6_uadt(set, cmd, o)
            [] set.type = "hash:net,net" ->
                 IF v4 THEN hash_netnet4_uadt(set, cmd, o) ELSE hash_netnet6_uadt(set, cmd, o)
            [] set.type = "hash:net,port" ->
                 IF v4 THEN hash_netport4_uadt(set, cmd, o) ELSE hash_netport6_uadt(set, cmd, o)
            [] set.type = "hash:net,port,net" ->
                 IF v4 THEN hash_netportnet4_uadt(set, cmd, o)
                       ELSE hash_netportnet6_uadt(set, cmd, o)
            [] set.type = "list:set" -> list_set_uadt(set, cmd, o)
    IN  FirstError(checks)

(***************************************************************************)
(* What is stored and listed of an element: the attributes its type puts   *)
(* in a listing.  A range or a network that a type takes apart is stored   *)
(* element by element; the first stands for all of them here.              *)
(***************************************************************************)
bitmap_ip_do_list == {"IP"}
bitmap_ipmac_do_list == {"IP", "ETHER"}
bitmap_port_do_list == {"PORT"}
hash_ip4_data_list == {"IP"}
hash_ipmac4_data_list == {"IP", "ETHER"}
hash_ipmark4_data_list == {"IP", "MARK"}
hash_ipport4_data_list == {"IP", "PORT", "PROTO"}
hash_ipportip4_data_list == {"IP", "IP2", "PORT", "PROTO"}
hash_ipportnet4_data_list == {"IP", "IP2", "PORT", "CIDR2", "PROTO", "CADT_FLAGS"}
hash_mac4_data_list == {"ETHER"}
hash_net4_data_list == {"IP", "CIDR", "CADT_FLAGS"}
hash_netiface4_data_list == {"IP", "CIDR", "IFACE", "CADT_FLAGS"}
hash_netnet4_data_list == {"IP", "IP2", "CIDR", "CIDR2", "CADT_FLAGS"}
hash_netport4_data_list == {"IP", "PORT", "CIDR", "PROTO", "CADT_FLAGS"}
hash_netportnet4_data_list == {"IP", "IP2", "PORT", "CIDR", "CIDR2", "PROTO", "CADT_FLAGS"}
list_set_list == {"NAME"}

data_list(type) ==
    CASE type = "bitmap:ip" -> bitmap_ip_do_list
      [] type = "bitmap:ip,mac" -> bitmap_ipmac_do_list
      [] type = "bitmap:port" -> bitmap_port_do_list
      [] type = "hash:ip" -> hash_ip4_data_list
      [] type = "hash:ip,mac" -> hash_ipmac4_data_list
      [] type = "hash:ip,mark" -> hash_ipmark4_data_list
      [] type = "hash:ip,port" -> hash_ipport4_data_list
      [] type = "hash:ip,port,ip" -> hash_ipportip4_data_list
      [] type = "hash:ip,port,net" -> hash_ipportnet4_data_list
      [] type = "hash:mac" -> hash_mac4_data_list
      [] type = "hash:net" -> hash_net4_data_list
      [] type = "hash:net,iface" -> hash_netiface4_data_list
      [] type = "hash:net,net" -> hash_netnet4_data_list
      [] type = "hash:net,port" -> hash_netport4_data_list
      [] type = "hash:net,port,net" -> hash_netportnet4_data_list
      [] type = "list:set" -> list_set_list

\* the flags of an element: only hash:net,iface has more than nomatch
ElementFlags(set, o) ==
    LET sent == IF Has(o, "CADT_FLAGS") THEN o["CADT_FLAGS"] ELSE {}
    IN  sent \intersect (IF set.type = "hash:net,iface"
                         THEN {"NOMATCH", "PHYSDEV", "IFACE_WILDCARD"} ELSE {"NOMATCH"})

Prefix(o, copt, to) == IF Has(o, to) THEN "net" ELSE IF Has(o, copt) THEN o[copt] ELSE "host"

Element(set, o) ==
    LET listed == {a \in data_list(set.type) :
                     CASE a = "CADT_FLAGS" -> ElementFlags(set, o) # {}
                       [] a \in {"CIDR", "CIDR2"} -> TRUE
                       [] OTHER -> Has(o, a)}
        attrs == [a \in listed |-> CASE a = "CADT_FLAGS" -> ElementFlags(set, o)
                                     [] a = "CIDR" -> Prefix(o, "CIDR", "IP_TO")
                                     [] a = "CIDR2" -> Prefix(o, "CIDR2", "IP2_TO")
                                     [] OTHER -> o[a]]
    IN  attrs @@ ip_set_put_extensions(set, o)

\* what makes two elements the same; a bitmap knows its elements by their place
Key(set, e) ==
    IF set.type = "bitmap:ip,mac" THEN [a \in {"IP"} |-> e[a]]
    ELSE [a \in data_list(set.type) \intersect DOMAIN e |->
             IF a = "CADT_FLAGS" THEN e[a] \intersect {"PHYSDEV"} ELSE e[a]]

SameKey(set, e, f) == Key(set, e @@ ("CADT_FLAGS" :> {})) = Key(set, f @@ ("CADT_FLAGS" :> {}))

(***************************************************************************)
(* add, del and test of one element.  A test answers only yes or no, and   *)
(* its no is also the answer to everything a handler refuses.              *)
(***************************************************************************)
ip_set_ad(set, cmd, o) ==
    LET err == uadt(set, cmd, o)
        e == Element(set, o)
        at == {i \in DOMAIN set.elems : SameKey(set, set.elems[i], e)}
    IN  IF err # "ok" THEN [answer |-> err, elems |-> set.elems]
        ELSE IF (cmd = "add") # (at = {}) THEN [answer |-> "EXIST", elems |-> set.elems]
        ELSE [answer |-> "ok",
              elems |-> IF cmd = "add" THEN Append(set.elems, e)
                        ELSE RemoveAt(set.elems, CHOOSE i \in at : TRUE)]

ip_set_utest(set, o) ==
    [answer |-> IF uadt(set, "test", o) = "ok" THEN "tested" ELSE "EXIST", elems |-> set.elems]

(***************************************************************************)
(* Creating a set: the checks of the type, then the header that listings   *)
(* will show.                                                              *)
(***************************************************************************)
KernelTypes ==
    Tabulated([n \in {t.name : t \in ip_set_type_list} |->
                 CHOOSE t \in ip_set_type_list : t.name = n])
KernelTypeOf(n) == KernelTypes[n]

find_set_type(n, family, revision) ==
    {t \in {KernelTypeOf(n)} : /\ t.family \in {family, "unspec"}
                               /\ revision \in t.revision_min..t.revision_max}

bitmap_ip_create(family, o) ==
    <<Missing(o, {"IP"}),
      Check(~Has(o, "IP_TO") /\ ~Has(o, "CIDR"), "PROTOCOL"),
      Check(~Has(o, "IP_TO") /\ Has(o, "CIDR") /\ o["CIDR"] = "host", "INVALID_CIDR"),
      Check(~Has(o, "IP_TO") /\ ~Has(o, "NETMASK") /\ Has(o, "CIDR") /\ o["CIDR"] = "zero",
            "BITMAP_RANGE_SIZE")>>
bitmap_ipmac_create(family, o) ==
    <<Missing(o, {"IP"}),
      Check(~Has(o, "IP_TO") /\ ~Has(o, "CIDR"), "PROTOCOL"),
      Check(~Has(o, "IP_TO") /\ Has(o, "CIDR") /\ o["CIDR"] = "host", "INVALID_CIDR"),
      Check(~Has(o, "IP_TO") /\ Has(o, "CIDR") /\ o["CIDR"] = "zero", "BITMAP_RANGE_SIZE")>>
bitmap_port_create(family, o) == <<Missing(o, {"PORT", "PORT_TO"})>>
list_set_create(family, o) == << >>

MaskTypes == {"hash:ip", "hash:ip,port", "hash:net,net"}
hash_create(n, family, o) ==
    <<Check(IF n = "hash:mac" THEN family # "unspec" ELSE family \notin {"inet", "inet6"},
            "INVALID_FAMILY"),
      Check(n \in MaskTypes /\ Has(o, "BITMASK") /\ Has(o, "NETMASK"),
            "BITMASK_NETMASK_EXCL")>>

create(n, family, o) ==
    CASE n = "bitmap:ip" -> bitmap_ip_create(family, o)
      [] n = "bitmap:ip,mac" -> bitmap_ipmac_create(family, o)
      [] n = "bitmap:port" -> bitmap_port_create(family, o)
      [] n = "list:set" -> list_set_create(family, o)
      [] OTHER -> hash_create(n, family, o)

ip_set_create_check(n, family, revision, o) ==
    IF find_set_type(n, family, revision) = {} THEN "FIND_TYPE"
                                               ELSE FirstError(create(n, family, o))

\* a range in prefix notation becomes its two ends
bitmap_do_head(n) ==
    CASE n = "bitmap:ip" -> {"IP", "IP_TO"}
      [] n = "bitmap:ip,mac" -> {"IP", "IP_TO"}
      [] n = "bitmap:port" -> {"PORT", "PORT_TO"}
bitmap_ip_do_head(o) == DOMAIN o \intersect {"NETMASK"}

\* mutant: every hash type lists a netmask
HashHeadMasked(n, revision, o) == {"HASHSIZE", "MAXELEM", "NETMASK"}

hash_head(n, revision, o) ==
    {"HASHSIZE", "MAXELEM"}
        \union (IF n \in MaskTypes THEN DOMAIN o \intersect {"NETMASK", "BITMASK"} ELSE {})
        \union (IF n = "hash:ip,mark" THEN {"MARKMASK"} ELSE {})
        \union (IF revision = KernelTypeOf(n).revision_max
                   THEN {"BUCKETSIZE", "INITVAL"} ELSE {})

\* what ip_set_elem_len takes from the message and ip_set_put_flags lists again
ip_set_put_flags(o) ==
    (IF Has(o, "TIMEOUT") THEN "TIMEOUT" :> "value" ELSE NoData)
        @@ (IF Has(o, "CADT_FLAGS")
              THEN "CADT_FLAGS" :> (o["CADT_FLAGS"] \intersect CreateFlagOptions) ELSE NoData)

Header(n, revision, o) ==
    LET own == CASE n = "list:set" -> {"SIZE"}
                 [] n = "bitmap:ip" -> bitmap_do_head(n) \union bitmap_ip_do_head(o)
                 [] n \in {"bitmap:ip,mac", "bitmap:port"} -> bitmap_do_head(n)
                 [] OTHER -> hash_head(n, revision, o)
    IN  [a \in own |-> IF Has(o, a) THEN o[a]
                       ELSE IF a = "IP_TO" THEN "addr" ELSE "value"] @@ ip_set_put_flags(o)

NewSet(n, revision, family, o) ==
    [type |-> n, revision |-> revision, family |-> family,
     header |-> Header(n, revision, o), elems |-> << >>]

==============================================================================
