---------------------------- MODULE CommandLine ----------------------------
(***************************************************************************)
(* The library between a command line and a netlink message: the data      *)
(* blob, the parsers of the element parts and of the keywords, the checks  *)
(* for missing and forbidden options, the choice of a type revision, the   *)
(* attributes a message carries, and the lines printed from a listing.     *)
(*                                                                         *)
(* A data blob is a function from the options that are set to their        *)
(* values.  Values are classes: an address is ``addr'', a prefix length    *)
(* one of CidrOf, a port what it was written as.  A parser that refuses    *)
(* its input leaves the option ``error'' behind, and nothing is parsed     *)
(* after it.                                                               *)
(***************************************************************************)
EXTENDS SetTypes, SequencesExt

NoData == << >>
Tabulated(f) == f @@ NoData     \* f itself, which TLC then computes once
Has(d, o) == o \in DOMAIN d
Refuse(d, why) == ("error" :> why) @@ d
Refused(d) == Has(d, "error")
DataFamily(d) == IF Has(d, "FAMILY") THEN d["FAMILY"] ELSE "unspec"

\* ipset_data_flags_unset
Unset(d, opts) == [o \in DOMAIN d \ opts |-> d[o]]

CreateFlagOptions == {"COUNTERS", "CREATE_COMMENT", "FORCEADD", "SKBINFO"}
AdtFlagOptions == {"BEFORE", "PHYSDEV", "NOMATCH", "IFACE_WILDCARD"}

\* mutant: a listed nomatch is not taken over
DecodedWithoutNomatch ==
    {"BEFORE", "PHYSDEV", "COUNTERS", "CREATE_COMMENT", "SKBINFO", "IFACE_WILDCARD"}

\* the option bits that receiving CADT_FLAGS sets
DecodedFlags ==
    {"BEFORE", "PHYSDEV", "NOMATCH", "COUNTERS", "CREATE_COMMENT", "SKBINFO", "IFACE_WILDCARD"}

AddressOptions == {"IP", "IP_TO", "IP2", "IP2_TO"}

(***************************************************************************)
(* Setting a flag marks CADT_FLAGS, not the flag's own option; receiving   *)
(* CADT_FLAGS marks the flags it decodes.                                  *)
(***************************************************************************)
ipset_data_set(d, o, v) ==
    CASE o \in CreateFlagOptions \union AdtFlagOptions ->
           LET flags == IF Has(d, "CADT_FLAGS") THEN d["CADT_FLAGS"] ELSE {}
           IN  ("CADT_FLAGS" :> flags \union {o}) @@ d
      [] o = "CADT_FLAGS" ->
           (o :> v) @@ [f \in v \intersect DecodedFlags |-> "set"] @@ d
      [] o = "FAMILY" -> (o :> v) @@ Unset(d, {"ignored_family"})
      [] o \in AddressOptions /\ DataFamily(d) \notin {"inet", "inet6"} ->
           Refuse(d, "no family")
      [] OTHER -> (o :> v) @@ d

\* the options a listing clears before each header and before each element
IPSET_CREATE_FLAGS ==
    {"FAMILY", "TYPENAME", "TYPE", "IP", "IP_TO", "CIDR", "PORT", "PORT_TO", "TIMEOUT",
     "GC", "HASHSIZE", "MAXELEM", "MARKMASK", "NETMASK", "PROBES", "RESIZE", "SIZE",
     "COUNTERS", "CREATE_COMMENT", "FORCEADD", "SKBINFO", "BITMASK"}
IPSET_ADT_FLAGS ==
    {"IP", "IP_TO", "CIDR", "MARK", "PORT", "PORT_TO", "TIMEOUT", "ETHER", "NAME",
     "NAMEREF", "IP2", "CIDR2", "PROTO", "IFACE", "CADT_FLAGS", "BEFORE", "PHYSDEV",
     "NOMATCH", "PACKETS", "BYTES", "ADT_COMMENT", "SKBMARK", "SKBPRIO", "SKBQUEUE",
     "IFACE_WILDCARD"}

\* the options up to IPSET_OPT_FLAGS, in the order check_allowed visits them
ipset_opt ==
    <<"IP", "IP_TO", "CIDR", "MARK", "PORT", "PORT_TO", "TIMEOUT", "GC", "HASHSIZE",
      "MAXELEM", "MARKMASK", "NETMASK", "PROBES", "RESIZE", "SIZE", "FORCEADD", "BITMASK",
      "ETHER", "NAME", "NAMEREF", "IP2", "CIDR2", "IP2_TO", "PROTO", "IFACE", "BEFORE",
      "PHYSDEV", "NOMATCH", "COUNTERS", "PACKETS", "BYTES", "CREATE_COMMENT",
      "ADT_COMMENT", "SKBINFO", "SKBMARK", "SKBPRIO", "SKBQUEUE", "IFACE_WILDCARD",
      "BUCKETSIZE", "INITVAL">>

(***************************************************************************)
(* Addresses.  An address is written plainly, with a prefix length, or as  *)
(* a range; each parser admits some of these forms.                        *)
(***************************************************************************)
Networks == {"ip/host", "ip/net", "ip/0"}
AnyAddress == Networks \union {"ip", "ip-ip"}
CidrOf(form) == CASE form = "ip/host" -> "host" [] form = "ip/net" -> "net"
                  [] form = "ip/0" -> "zero"

WithFamily(d) == IF DataFamily(d) = "unspec" THEN ipset_data_set(d, "FAMILY", "inet") ELSE d

parse_ipaddr(d, opt, form) ==
    LET copt == IF opt = "IP" THEN "CIDR" ELSE "CIDR2"
        opt2 == IF opt = "IP" THEN "IP_TO" ELSE "IP2_TO"
        ip == ipset_data_set(d, opt, "addr")
    IN  CASE form \in Networks -> ipset_data_set(ip, copt, CidrOf(form))
          [] form = "ip-ip" -> ipset_data_set(ip, opt2, "addr")
          [] form = "ip" -> ip

parse_ip(d, opt, form, admitted) ==
    IF form \in admitted THEN parse_ipaddr(WithFamily(d), opt, form)
                         ELSE Refuse(d, "address form")

ipset_parse_single_ip == {"ip", "ip/host"}
ipset_parse_netrange == AnyAddress \ {"ip"}
ipset_parse_ipnet == AnyAddress \ {"ip-ip"}
\* mutant: IPv6 ranges and networks are let through
AnyAddressOf(family) == AnyAddress
ipset_parse_ip4_single6(family) ==
    IF family = "inet6" THEN ipset_parse_single_ip ELSE AnyAddress
ipset_parse_ip4_net6(family) ==
    IF family = "inet6" THEN ipset_parse_ipnet ELSE AnyAddress

AddressForms(parser, family) ==
    CASE parser = "ip" -> AnyAddress
      [] parser = "single_ip" -> ipset_parse_single_ip
      [] parser = "net" -> Networks
      [] parser = "netrange" -> ipset_parse_netrange
      [] parser = "ipnet" -> ipset_parse_ipnet
      [] parser = "ip4_single6" -> ipset_parse_ip4_single6(family)
      [] parser = "ip4_net6" -> ipset_parse_ip4_net6(family)
AddressParsers == {"ip", "single_ip", "net", "netrange", "ipnet", "ip4_single6", "ip4_net6"}

(***************************************************************************)
(* Ports: [proto:]port, where the port may be a range for the protocols    *)
(* with ports, a type for ICMP and the pseudo port 0 for the others.       *)
(***************************************************************************)
Port(p, port) == [proto |-> p, port |-> port]
Written ==
    "port" :> Port("none", "port") @@ "range" :> Port("none", "range")
        @@ "udp:port" :> Port("udp", "port") @@ "icmp:type" :> Port("icmp", "type")
        @@ "icmpv6:type" :> Port("icmpv6", "type") @@ "gre:0" :> Port("gre", "0")
        @@ "gre:port" :> Port("gre", "port")
PortForms == DOMAIN Written

ipset_parse_tcpudp_port(d, opt, port) ==
    LET to == IF port = "range" THEN ipset_data_set(d, "PORT_TO", "port") ELSE d
    IN  ipset_data_set(to, opt, "port")

(***************************************************************************)
(* ICMP in the wrong family is reported, but err is still 0: the command   *)
(* goes on with the protocol and without a port.                           *)
(***************************************************************************)
ipset_parse_proto_port(d, opt, form) ==
    LET port == Written[form].port
        p == IF Written[form].proto = "none" THEN "tcp" ELSE Written[form].proto
        data == ipset_data_set(d, "PROTO", p)
    IN  CASE p \in {"tcp", "udp"} -> ipset_parse_tcpudp_port(data, opt, port)
          [] p = "icmp" ->
               IF DataFamily(d) = "inet" THEN ipset_data_set(data, opt, "type") ELSE data
          [] p = "icmpv6" ->
               IF DataFamily(d) = "inet6" THEN ipset_data_set(data, opt, "type") ELSE data
          [] p = "gre" -> IF port = "0" THEN ipset_data_set(data, opt, "0")
                                             ELSE Refuse(data, "pseudo port")

ipset_parse_tcp_udp_port(d, opt, form) ==
    LET data == ipset_parse_proto_port(d, opt, form)
    IN  IF Refused(data) THEN data
        ELSE IF data["PROTO"] \in {"tcp", "udp"} THEN Unset(data, {"PROTO"})
        ELSE Refuse(data, "tcp or udp")

(***************************************************************************)
(* Other keywords and element parts                                        *)
(***************************************************************************)
ipset_parse_netmask(d, opt) ==
    IF Has(d, "BITMASK") THEN Refuse(d, "bitmask") ELSE ipset_data_set(WithFamily(d), opt, "mask")

\* a mask is an address to the parser: a prefix length or a range beside it
\* sets CIDR2 or IP2_TO and is dropped
ipset_parse_bitmask(d, opt, form) ==
    IF Has(d, "NETMASK") THEN Refuse(d, "netmask") ELSE parse_ipaddr(WithFamily(d), opt, form)

ipset_parse_iface(d, opt, form) ==
    LET data == IF form = "physdev" THEN ipset_data_set(d, "PHYSDEV", "set") ELSE d
    IN  ipset_data_set(data, opt, "name")

ipset_parse_before(d, opt) == ipset_data_set(ipset_data_set(d, "BEFORE", "set"), opt, "name")
ipset_parse_after(d, opt) == ipset_data_set(d, opt, "name")

Parse(d, parser, opt, form) ==
    CASE parser \in AddressParsers ->
           parse_ip(d, opt, form, AddressForms(parser, DataFamily(d)))
      [] parser = "proto_port" -> ipset_parse_proto_port(d, opt, form)
      [] parser = "tcp_udp_port" -> ipset_parse_tcp_udp_port(d, opt, form)
      [] parser = "single_tcp_port" -> ipset_data_set(d, opt, "port")
      [] parser = "family" -> ipset_data_set(d, opt, form)
      [] parser = "netmask" -> ipset_parse_netmask(d, opt)
      [] parser = "bitmask" -> ipset_parse_bitmask(d, opt, form)
      [] parser = "iface" -> ipset_parse_iface(d, opt, form)
      [] parser = "before" -> ipset_parse_before(d, opt)
      [] parser = "after" -> ipset_parse_after(d, opt)
      [] parser = "ignored" -> d
      [] OTHER -> ipset_data_set(d, opt, "value")

\* the forms in which the argument of a parser is written
Forms(parser) ==
    CASE parser \in AddressParsers -> AnyAddress
      [] parser \in {"proto_port", "tcp_udp_port"} -> PortForms
      [] parser = "family" -> {"inet", "inet6"}
      [] parser = "bitmask" -> {"ip", "ip/net"}
      [] parser = "iface" -> {"name", "physdev"}
      [] OTHER -> {"value"}

ipset_call_parser(d, arg, form) ==
    IF Has(d, arg.opt) /\ ~(arg.opt = "FAMILY" /\ Has(d, "ignored_family"))
    THEN Refuse(d, "already specified")
    ELSE Parse(d, arg.parse, arg.opt, form)

\* the parts of an element, in order; only a last part can be left out
ipset_parse_elem(d, type, parts) ==
    IF Len(parts) < Len(type.elem) /\ ~type.last_elem_optional
    THEN Refuse(d, "element missing")
    ELSE FoldLeft(LAMBDA data, i :
                     IF Refused(data) THEN data
                     ELSE Parse(data, type.elem[i].parse, type.elem[i].opt, parts[i]),
                  d, [i \in 1..Len(parts) |-> i])

(***************************************************************************)
(* The keywords of a command, the family ones first or the others, and     *)
(* the checks for options that are missing or not allowed.                 *)
(***************************************************************************)
call_parser(d, type, cmd, args, family) ==
    FoldLeft(LAMBDA data, a :
                IF Refused(data) THEN data
                ELSE IF a.keyword \notin type[cmd].args THEN Refuse(data, "unknown argument")
                ELSE IF (ipset_args[a.keyword].opt = "FAMILY") # family THEN data
                ELSE ipset_call_parser(data, ipset_args[a.keyword], a.form),
             d, args)

KeywordOptions(type, cmd) == {ipset_args[k].opt : k \in type[cmd].args}

check_mandatory(d, type, cmd) ==
    LET flags == DOMAIN d \union (IF Has(d, "CIDR") THEN {"IP_TO"} ELSE {})
        mandatory == type[cmd].need \ flags
    IN  IF mandatory = {} THEN d
        ELSE IF type[cmd].args = {} THEN Refuse(d, "bug")
        ELSE IF mandatory \intersect KeywordOptions(type, cmd) # {} THEN Refuse(d, "mandatory")
        ELSE d

\* the options a command may leave set: full, as ipset_type_add completes it
ipset_type_add(type, cmd) == type[cmd].full \union KeywordOptions(type, cmd)

check_allowed(d, type, cmd) ==
    LET full == ipset_type_add(type, cmd)
        allowed == full \union (IF "IP_TO" \in full THEN {"CIDR"} ELSE {})
        cmdflags == IF cmd = "create" THEN IPSET_CREATE_FLAGS ELSE IPSET_ADT_FLAGS
        forbidden == (cmdflags \intersect DOMAIN d) \ allowed
        extra == SelectSeq(ipset_opt, LAMBDA o : o \in forbidden)
    IN  IF extra = << >> THEN d
        ELSE IF Head(extra) \in {"CIDR", "IP_TO", "PORT_TO"} THEN Refuse(d, "not allowed")
        ELSE Refuse(d, IF Head(extra) \in KeywordOptions(type, cmd) THEN "not allowed"
                                                                    ELSE "bug")

Checked(d, type, cmd) ==
    IF Refused(d) THEN d
    ELSE LET data == check_mandatory(d, type, cmd)
         IN  IF Refused(data) THEN data ELSE check_allowed(data, type, cmd)

(***************************************************************************)
(* The revision of a type.  known is the set of revisions the library has  *)
(* of the type, kmin..kmax what the kernel has.                            *)
(***************************************************************************)
Newest(types) == CHOOSE t \in types : \A u \in types : u.revision <= t.revision

MatchFamily(t, family) == family = "unspec" \/ t.family \in {family, "inet46"}

create_type_get(known, kmin, kmax) ==
    LET match == Newest(known)
        same == {t \in known : t.family = match.family}
        supported == {t \in same : t.revision \in kmin..kmax}
        type == Newest(supported)
        family == CASE match.family = "inet46" -> "FAMILY" :> "inet" @@ "ignored_family" :> TRUE
                    [] match.family = "inet" -> "FAMILY" :> "inet"
                    [] match.family = "unspec" -> NoData
    IN  IF supported = {} THEN Refuse(NoData, "revisions")
                          ELSE "TYPE" :> type @@ family

\* the type of a set the kernel or the cache knows, by its exact revision
adt_type_get(known, set) ==
    LET match == {t \in known : t.revision = set.revision /\ MatchFamily(t, set.family)}
    IN  IF match = {} THEN Refuse(NoData, "incompatible")
        ELSE "TYPE" :> Newest(match) @@ "FAMILY" :> set.family

\* ipset_parser for create, and for add, del and test
CreateCommand(known, kmin, kmax, args) ==
    LET data == create_type_get(known, kmin, kmax)
    IN  IF Refused(data) THEN data
        ELSE Checked(call_parser(call_parser(data, data["TYPE"], "create", args, TRUE),
                                 data["TYPE"], "create", args, FALSE),
                     data["TYPE"], "create")

AdtCommand(known, set, cmd, parts, args) ==
    LET data == adt_type_get(known, set)
        elem == ipset_parse_elem(data, data["TYPE"], parts)
    IN  IF Refused(data) THEN data
        ELSE IF Refused(elem) THEN elem
        ELSE Checked(call_parser(elem, data["TYPE"], cmd, args, FALSE), data["TYPE"], cmd)

(***************************************************************************)
(* The message: every option that is set and that the attribute table of   *)
(* the command names.                                                      *)
(***************************************************************************)
create_attrs ==
    {"IP", "IP_TO", "CIDR", "PORT", "PORT_TO", "TIMEOUT", "PROTO", "CADT_FLAGS", "INITVAL",
     "HASHSIZE", "MAXELEM", "MARKMASK", "NETMASK", "BUCKETSIZE", "RESIZE", "SIZE",
     "ELEMENTS", "REFERENCES", "MEMSIZE", "BITMASK"}
\* mutant: the end of the second range has no attribute
AdtAttrsOneRange ==
    {"IP", "IP_TO", "CIDR", "MARK", "PORT", "PORT_TO", "PROTO", "TIMEOUT", "CADT_FLAGS",
     "LINENO", "ETHER", "NAME", "NAMEREF", "IP2", "CIDR2", "IFACE", "PACKETS",
     "BYTES", "ADT_COMMENT", "SKBMARK", "SKBPRIO", "SKBQUEUE"}
adt_attrs ==
    {"IP", "IP_TO", "CIDR", "MARK", "PORT", "PORT_TO", "PROTO", "TIMEOUT", "CADT_FLAGS",
     "LINENO", "ETHER", "NAME", "NAMEREF", "IP2", "CIDR2", "IP2_TO", "IFACE", "PACKETS",
     "BYTES", "ADT_COMMENT", "SKBMARK", "SKBPRIO", "SKBQUEUE"}

addattr_create(d) == [o \in DOMAIN d \intersect create_attrs |-> d[o]]
addattr_adt(d) == [o \in DOMAIN d \intersect adt_attrs |-> d[o]]

(***************************************************************************)
(* Listing: attributes to data, data to a line that can be read again      *)
(***************************************************************************)
attr2data(d, attrs) ==
    LET set == Unset(attrs, {"CADT_FLAGS"}) @@ d
    IN  IF Has(attrs, "CADT_FLAGS") THEN ipset_data_set(set, "CADT_FLAGS", attrs["CADT_FLAGS"])
                                    ELSE set

\* mutant: the end of a range is not printed
PrintIpFirst(d, opt) ==
    LET copt == IF opt = "IP" THEN "CIDR" ELSE "CIDR2"
    IN  IF Has(d, copt) /\ d[copt] # "host" THEN "ip/net" ELSE "ip"

ipset_print_ip(d, opt) ==
    LET copt == IF opt = "IP" THEN "CIDR" ELSE "CIDR2"
    IN  IF Has(d, "IP_TO") THEN "ip-ip"
        ELSE IF ~Has(d, copt) \/ d[copt] = "host" THEN "ip"
        ELSE IF d[copt] = "net" THEN "ip/net" ELSE "ip/0"

ipset_print_port(d) == IF Has(d, "PORT_TO") THEN "range" ELSE "port"

ipset_print_proto_port(d) ==
    CASE Has(d, "PROTO") /\ d["PROTO"] = "icmp" -> "icmp:type"
      [] Has(d, "PROTO") /\ d["PROTO"] = "icmpv6" -> "icmpv6:type"
      [] Has(d, "PROTO") /\ d["PROTO"] = "gre" -> "gre:0"
      [] Has(d, "PROTO") /\ d["PROTO"] = "udp" -> "udp:port"
      [] OTHER -> ipset_print_port(d)

ipset_print_iface(d) == IF Has(d, "PHYSDEV") THEN "physdev" ELSE "name"

\* the text of option o, as the parser that reads it again names it
PrintOption(d, o, parser) ==
    CASE parser \in AddressParsers \union {"bitmask"} -> ipset_print_ip(d, o)
      [] parser \in {"proto_port", "tcp_udp_port"} -> ipset_print_proto_port(d)
      [] parser = "family" -> d[o]
      [] parser = "iface" -> ipset_print_iface(d)
      [] OTHER -> "value"

\* keywords in the order in which types list them
KeywordOrder ==
    <<"FAMILY", "IPRANGE", "PORTRANGE", "MARKMASK", "HASHSIZE", "MAXELEM", "NETMASK", "SIZE",
      "TIMEOUT", "NOMATCH", "PACKETS", "BYTES", "COUNTERS", "COMMENT", "ADT_COMMENT", "FORCEADD",
      "SKBINFO", "SKBMARK", "SKBPRIO", "SKBQUEUE", "IFACE_WILDCARD", "BUCKETSIZE", "INITVAL",
      "BITMASK", "PROBES", "RESIZE", "GC", "IGNORED_FROM", "IGNORED_TO", "IGNORED_NETWORK">>

PrintKeywords(d, type, cmd, unless) ==
    LET shown(k) == /\ k \in type[cmd].args
                    /\ ipset_args[k].printed
                    /\ Has(d, ipset_args[k].opt)
                    /\ ipset_args[k].opt \notin unless
        words == SelectSeq(KeywordOrder, shown)
    IN  [i \in DOMAIN words |->
           [keyword |-> words[i],
            form |-> PrintOption(d, ipset_args[words[i]].opt, ipset_args[words[i]].parse)]]

list_create(d, type) ==
    PrintKeywords(d, type, "create", IF DataFamily(d) = type.family THEN {"FAMILY"} ELSE {})

\* the number of parts printed: an optional last part only when it is set
ipset_print_elem(d, type) ==
    LET shown == SelectSeq([i \in 1..Len(type.elem) |-> i],
                           LAMBDA i : ~(i > 1 /\ type.last_elem_optional
                                              /\ ~Has(d, type.elem[i].opt)))
    IN  [j \in 1..Len(shown) |->
            PrintOption(d, type.elem[shown[j]].opt, type.elem[shown[j]].parse)]

list_adt(d, type) ==
    [parts |-> ipset_print_elem(d, type), args |-> PrintKeywords(d, type, "add", {})]

==============================================================================
