------------------------------ MODULE SetTypes ------------------------------
(***************************************************************************)
(* What the library and the kernel modules declare about the set types:    *)
(* the keywords of the command line, the 86 revisions of the 16 types the  *)
(* library knows, and the types of the kernel.                             *)
(*                                                                         *)
(* The two sides are separate tables in separate programs: nothing but     *)
(* agreement keeps a keyword of one revision, the option it sets, the      *)
(* attribute it is sent in and the policy that admits it in step.  The     *)
(* revisions of a type differ by what each one introduced, so every table  *)
(* after the first of its type is written as the previous one with the     *)
(* extension it adds.                                                      *)
(***************************************************************************)
EXTENDS Naturals, FiniteSets, Sequences

(***************************************************************************)
(* Keywords.  A keyword sets one option; ``value'' keywords take an        *)
(* argument, ``flag'' keywords none.  Only keywords with a print function  *)
(* are listed by the library, the others are spellings of old versions.    *)
(***************************************************************************)
Keyword(o, parser, kind, print) ==
    [opt |-> o, parse |-> parser, has_arg |-> kind = "value", printed |-> print]

Value(o) == Keyword(o, "value", "value", TRUE)
Flag(o) == Keyword(o, "flag", "flag", TRUE)
Ignored(o) == Keyword(o, "ignored", "value", TRUE)
Alias(o, parser) == Keyword(o, parser, "value", FALSE)

ipset_args ==
    [FAMILY |-> Keyword("FAMILY", "family", "value", TRUE),
     INET |-> Keyword("FAMILY", "family", "flag", FALSE),
     INET6 |-> Keyword("FAMILY", "family", "flag", FALSE),
     HASHSIZE |-> Value("HASHSIZE"), MAXELEM |-> Value("MAXELEM"),
     PROBES |-> Ignored("PROBES"), RESIZE |-> Ignored("RESIZE"), GC |-> Ignored("GC"),
     IGNORED_FROM |-> Ignored("IP"), IGNORED_TO |-> Ignored("IP_TO"),
     IGNORED_NETWORK |-> Ignored("IP"), SIZE |-> Value("SIZE"),
     IPRANGE |-> Keyword("IP", "netrange", "value", TRUE),
     NETMASK |-> Keyword("NETMASK", "netmask", "value", TRUE),
     PORTRANGE |-> Keyword("PORT", "tcp_udp_port", "value", TRUE),
     BEFORE |-> Alias("NAMEREF", "before"), AFTER |-> Alias("NAMEREF", "after"),
     FROM_IP |-> Alias("IP", "single_ip"), TO_IP |-> Alias("IP_TO", "single_ip"),
     NETWORK |-> Alias("IP", "net"), FROM_PORT |-> Alias("PORT", "single_tcp_port"),
     TO_PORT |-> Alias("PORT_TO", "single_tcp_port"),
     FORCEADD |-> Flag("FORCEADD"), MARKMASK |-> Value("MARKMASK"),
     NOMATCH |-> Flag("NOMATCH"), IFACE_WILDCARD |-> Flag("IFACE_WILDCARD"),
     TIMEOUT |-> Value("TIMEOUT"), COUNTERS |-> Flag("COUNTERS"),
     PACKETS |-> Value("PACKETS"), BYTES |-> Value("BYTES"),
     COMMENT |-> Flag("CREATE_COMMENT"), ADT_COMMENT |-> Value("ADT_COMMENT"),
     SKBINFO |-> Flag("SKBINFO"), SKBMARK |-> Value("SKBMARK"),
     SKBPRIO |-> Value("SKBPRIO"), SKBQUEUE |-> Value("SKBQUEUE"),
     BUCKETSIZE |-> Value("BUCKETSIZE"), INITVAL |-> Value("INITVAL"),
     BITMASK |-> Keyword("BITMASK", "bitmask", "value", TRUE)]

Families == {"FAMILY", "INET", "INET6"}

(***************************************************************************)
(* Revisions of a type: the keywords and options each command takes, and   *)
(* the parsers of the parts of an element with the option each one sets.   *)
(***************************************************************************)
Accepts(keywords, needed, allowed) == [args |-> keywords, need |-> needed, full |-> allowed]
Elem(parser, o) == [parse |-> parser, opt |-> o]

\* the next revision of t, with new keywords for create and for add
Introduce(t, creates, adds) ==
    [t EXCEPT !.revision = @ + 1,
              !.create.args = @ \union creates,
              !.add.args = @ \union adds]

NextRevision(t) == Introduce(t, {}, {})
WithCounters(t) == Introduce(t, {"COUNTERS"}, {"PACKETS", "BYTES"})
WithComment(t) == Introduce(t, {"COMMENT"}, {"ADT_COMMENT"})
WithForceadd(t) == Introduce(t, {"FORCEADD"}, {})
WithSkbinfo(t) == Introduce(t, {"SKBINFO"}, {"SKBMARK", "SKBPRIO", "SKBQUEUE"})
WithBucketsize(t) == Introduce(t, {"BUCKETSIZE", "INITVAL"}, {})
WithBitmask(t) == Introduce(t, {"BITMASK"}, {})
WithMasks(t) == Introduce(t, {"NETMASK", "BITMASK"}, {})
WithWildcard(t) == Introduce(t, {}, {"IFACE_WILDCARD"})

WithNomatch(t) ==
    [Introduce(t, {}, {"NOMATCH"}) EXCEPT !.test.args = @ \union {"NOMATCH"}]

\* part i of the element, a network, becomes an IPv4 range as well
WithRange(t, i) ==
    LET last == IF t.elem[i].opt = "IP" THEN "IP_TO" ELSE "IP2_TO"
    IN  [NextRevision(t) EXCEPT !.elem[i].parse = "ip4_net6",
                                !.add.full = @ \union {last},
                                !.del.full = @ \union {last}]

ipset_bitmap_ip0 ==
    [name |-> "bitmap:ip", revision |-> 0, family |-> "inet",
     elem |-> <<Elem("ip", "IP")>>, last_elem_optional |-> FALSE,
     create |-> Accepts({"IPRANGE", "NETMASK", "TIMEOUT", "FROM_IP", "TO_IP", "NETWORK"},
                       {"IP", "IP_TO"}, {"IP", "IP_TO"}),
     add |-> Accepts({"TIMEOUT"}, {"IP"}, {"IP", "IP_TO"}),
     del |-> Accepts({}, {"IP"}, {"IP", "IP_TO"}),
     test |-> Accepts({}, {"IP"}, {"IP"})]
ipset_bitmap_ip1 == WithCounters(ipset_bitmap_ip0)
ipset_bitmap_ip2 == WithComment(ipset_bitmap_ip1)
ipset_bitmap_ip3 == WithSkbinfo(ipset_bitmap_ip2)

ipset_bitmap_ipmac0 ==
    [name |-> "bitmap:ip,mac", revision |-> 0, family |-> "inet",
     elem |-> <<Elem("single_ip", "IP"), Elem("ether", "ETHER")>>, last_elem_optional |-> TRUE,
     create |-> Accepts({"IPRANGE", "TIMEOUT", "FROM_IP", "TO_IP", "NETWORK"},
                       {"IP", "IP_TO"}, {"IP", "IP_TO"}),
     add |-> Accepts({"TIMEOUT"}, {"IP"}, {"IP", "ETHER"}),
     del |-> Accepts({}, {"IP"}, {"IP", "ETHER"}),
     test |-> Accepts({}, {"IP"}, {"IP", "ETHER"})]
ipset_bitmap_ipmac1 == WithCounters(ipset_bitmap_ipmac0)
ipset_bitmap_ipmac2 == WithComment(ipset_bitmap_ipmac1)
ipset_bitmap_ipmac3 == WithSkbinfo(ipset_bitmap_ipmac2)

ipset_bitmap_port0 ==
    [name |-> "bitmap:port", revision |-> 0, family |-> "unspec",
     elem |-> <<Elem("tcp_udp_port", "PORT")>>, last_elem_optional |-> FALSE,
     create |-> Accepts({"PORTRANGE", "TIMEOUT", "FROM_PORT", "TO_PORT"},
                       {"PORT", "PORT_TO"}, {"PORT", "PORT_TO"}),
     add |-> Accepts({"TIMEOUT"}, {"PORT"}, {"PORT", "PORT_TO"}),
     del |-> Accepts({}, {"PORT"}, {"PORT", "PORT_TO"}),
     test |-> Accepts({}, {"PORT"}, {"PORT"})]
ipset_bitmap_port1 == WithCounters(ipset_bitmap_port0)
ipset_bitmap_port2 == WithComment(ipset_bitmap_port1)
ipset_bitmap_port3 == WithSkbinfo(ipset_bitmap_port2)

ipset_hash_ip0 ==
    [name |-> "hash:ip", revision |-> 0, family |-> "inet46",
     elem |-> <<Elem("ip4_single6", "IP")>>, last_elem_optional |-> FALSE,
     create |-> Accepts(Families \union {"HASHSIZE", "MAXELEM", "NETMASK", "TIMEOUT",
                        "PROBES", "RESIZE", "GC"}, {}, {}),
     add |-> Accepts({"TIMEOUT"}, {"IP"}, {"IP", "IP_TO"}),
     del |-> Accepts({}, {"IP"}, {"IP", "IP_TO"}),
     test |-> Accepts({}, {"IP"}, {"IP", "IP_TO"})]
ipset_hash_ip1 == WithCounters(ipset_hash_ip0)
ipset_hash_ip2 == WithComment(ipset_hash_ip1)
ipset_hash_ip3 == WithForceadd(ipset_hash_ip2)
ipset_hash_ip4 == WithSkbinfo(ipset_hash_ip3)
ipset_hash_ip5 == WithBucketsize(ipset_hash_ip4)
ipset_hash_ip6 == WithBitmask(ipset_hash_ip5)

ipset_hash_ipmac0 ==
    [name |-> "hash:ip,mac", revision |-> 0, family |-> "inet46",
     elem |-> <<Elem("ip4_single6", "IP"), Elem("ether", "ETHER")>>,
     last_elem_optional |-> FALSE,
     create |-> Accepts(Families \union {"HASHSIZE", "MAXELEM", "TIMEOUT", "COUNTERS",
                        "COMMENT", "FORCEADD", "SKBINFO"}, {}, {}),
     add |-> Accepts({"TIMEOUT", "PACKETS", "BYTES", "ADT_COMMENT", "SKBMARK", "SKBPRIO", "SKBQUEUE"}, {"IP", "ETHER"},
                     {"IP", "ETHER"}),
     del |-> Accepts({}, {"IP", "ETHER"}, {"IP", "ETHER"}),
     test |-> Accepts({}, {"IP", "ETHER"}, {"IP", "ETHER"})]
\* mutant: the revision offers masks its kernel type does not know
ipset_hash_ipmac1Masks == WithMasks(ipset_hash_ipmac0)
ipset_hash_ipmac1 == WithBucketsize(ipset_hash_ipmac0)

ipset_hash_ipmark0 ==
    [name |-> "hash:ip,mark", revision |-> 0, family |-> "inet46",
     elem |-> <<Elem("ip4_single6", "IP"), Elem("mark", "MARK")>>,
     last_elem_optional |-> FALSE,
     create |-> Accepts(Families \union {"MARKMASK", "HASHSIZE", "MAXELEM", "TIMEOUT",
                        "COUNTERS", "COMMENT", "PROBES", "RESIZE",
                        "IGNORED_FROM", "IGNORED_TO",
                        "IGNORED_NETWORK"}, {}, {}),
     add |-> Accepts({"TIMEOUT", "PACKETS", "BYTES", "ADT_COMMENT"}, {"IP", "MARK"},
                     {"IP", "IP_TO", "MARK"}),
     del |-> Accepts({}, {"IP", "MARK"}, {"IP", "IP_TO", "MARK"}),
     test |-> Accepts({}, {"IP", "MARK"}, {"IP", "IP_TO", "MARK"})]
ipset_hash_ipmark1 == WithForceadd(ipset_hash_ipmark0)
ipset_hash_ipmark2 == WithSkbinfo(ipset_hash_ipmark1)
ipset_hash_ipmark3 == WithBucketsize(ipset_hash_ipmark2)

ipset_hash_ipport1 ==
    [name |-> "hash:ip,port", revision |-> 1, family |-> "inet46",
     elem |-> <<Elem("ip4_single6", "IP"), Elem("proto_port", "PORT")>>,
     last_elem_optional |-> FALSE,
     create |-> Accepts(Families \union {"HASHSIZE", "MAXELEM", "TIMEOUT", "PROBES",
                        "RESIZE", "IGNORED_FROM", "IGNORED_TO",
                        "IGNORED_NETWORK"}, {}, {}),
     add |-> Accepts({"TIMEOUT"}, {"IP", "PORT", "PROTO"},
                     {"IP", "IP_TO", "PORT", "PORT_TO", "PROTO"}),
     del |-> Accepts({}, {"IP", "PORT", "PROTO"}, {"IP", "IP_TO", "PORT", "PORT_TO", "PROTO"}),
     test |-> Accepts({}, {"IP", "PORT", "PROTO"}, {"IP", "PORT", "PROTO"})]
ipset_hash_ipport2 == WithCounters(ipset_hash_ipport1)
ipset_hash_ipport3 == WithComment(ipset_hash_ipport2)
ipset_hash_ipport4 == WithForceadd(ipset_hash_ipport3)
ipset_hash_ipport5 == WithSkbinfo(ipset_hash_ipport4)
ipset_hash_ipport6 == WithBucketsize(ipset_hash_ipport5)
ipset_hash_ipport7 == WithMasks(ipset_hash_ipport6)

ipset_hash_ipportip1 ==
    [name |-> "hash:ip,port,ip", revision |-> 1, family |-> "inet46",
     elem |-> <<Elem("ip4_single6", "IP"), Elem("proto_port", "PORT"), Elem("single_ip", "IP2")>>,
     last_elem_optional |-> FALSE,
     create |-> Accepts(Families \union {"HASHSIZE", "MAXELEM", "TIMEOUT", "PROBES",
                        "RESIZE", "IGNORED_FROM", "IGNORED_TO",
                        "IGNORED_NETWORK"}, {}, {}),
     add |-> Accepts({"TIMEOUT"}, {"IP", "PORT", "PROTO", "IP2"},
                     {"IP", "IP_TO", "PORT", "PORT_TO", "PROTO", "IP2"}),
     del |-> Accepts({}, {"IP", "PORT", "PROTO", "IP2"},
                     {"IP", "IP_TO", "PORT", "PORT_TO", "PROTO", "IP2"}),
     test |-> Accepts({}, {"IP", "PORT", "PROTO", "IP2"}, {"IP", "PORT", "PROTO", "IP2"})]
ipset_hash_ipportip2 == WithCounters(ipset_hash_ipportip1)
ipset_hash_ipportip3 == WithComment(ipset_hash_ipportip2)
ipset_hash_ipportip4 == WithForceadd(ipset_hash_ipportip3)
ipset_hash_ipportip5 == WithSkbinfo(ipset_hash_ipportip4)
ipset_hash_ipportip6 == WithBucketsize(ipset_hash_ipportip5)

ipset_hash_ipportnet1 ==
    [name |-> "hash:ip,port,net", revision |-> 1, family |-> "inet46",
     elem |-> <<Elem("ip4_single6", "IP"), Elem("proto_port", "PORT"), Elem("ipnet", "IP2")>>,
     last_elem_optional |-> FALSE,
     create |-> Accepts(Families \union {"HASHSIZE", "MAXELEM", "TIMEOUT", "PROBES",
                        "RESIZE", "IGNORED_FROM", "IGNORED_TO",
                        "IGNORED_NETWORK"}, {}, {}),
     add |-> Accepts({"TIMEOUT"}, {"IP", "PORT", "PROTO", "IP2"},
                     {"IP", "IP_TO", "PORT", "PORT_TO", "PROTO", "IP2", "CIDR2"}),
     del |-> Accepts({}, {"IP", "PORT", "PROTO", "IP2"},
                     {"IP", "IP_TO", "PORT", "PORT_TO", "PROTO", "IP2", "CIDR2"}),
     test |-> Accepts({}, {"IP", "PORT", "PROTO", "IP2"},
                     {"IP", "PORT", "PROTO", "IP2", "CIDR2"})]
ipset_hash_ipportnet2 == WithRange(ipset_hash_ipportnet1, 3)
ipset_hash_ipportnet3 == WithNomatch(ipset_hash_ipportnet2)
ipset_hash_ipportnet4 == WithCounters(ipset_hash_ipportnet3)
ipset_hash_ipportnet5 == WithComment(ipset_hash_ipportnet4)
ipset_hash_ipportnet6 == WithForceadd(ipset_hash_ipportnet5)
ipset_hash_ipportnet7 == WithSkbinfo(ipset_hash_ipportnet6)
ipset_hash_ipportnet8 == WithBucketsize(ipset_hash_ipportnet7)

ipset_hash_mac0 ==
    [name |-> "hash:mac", revision |-> 0, family |-> "unspec",
     elem |-> <<Elem("ether", "ETHER")>>, last_elem_optional |-> FALSE,
     create |-> Accepts({"HASHSIZE", "MAXELEM", "TIMEOUT", "COUNTERS", "COMMENT",
                        "FORCEADD", "SKBINFO"}, {}, {}),
     add |-> Accepts({"TIMEOUT", "PACKETS", "BYTES", "ADT_COMMENT", "SKBMARK", "SKBPRIO", "SKBQUEUE"}, {"ETHER"},
                     {"ETHER"}),
     del |-> Accepts({}, {"ETHER"}, {"ETHER"}),
     test |-> Accepts({}, {"ETHER"}, {"ETHER"})]
ipset_hash_mac1 == WithBucketsize(ipset_hash_mac0)

ipset_hash_net0 ==
    [name |-> "hash:net", revision |-> 0, family |-> "inet46",
     elem |-> <<Elem("ipnet", "IP")>>, last_elem_optional |-> FALSE,
     create |-> Accepts(Families \union {"HASHSIZE", "MAXELEM", "TIMEOUT", "PROBES",
                        "RESIZE"}, {}, {}),
     add |-> Accepts({"TIMEOUT"}, {"IP"}, {"IP", "CIDR"}),
     del |-> Accepts({}, {"IP"}, {"IP", "CIDR"}),
     test |-> Accepts({}, {"IP"}, {"IP", "CIDR"})]
ipset_hash_net1 == WithRange(ipset_hash_net0, 1)
ipset_hash_net2 == WithNomatch(ipset_hash_net1)
ipset_hash_net3 == WithCounters(ipset_hash_net2)
ipset_hash_net4 == WithComment(ipset_hash_net3)
ipset_hash_net5 == WithForceadd(ipset_hash_net4)
ipset_hash_net6 == WithSkbinfo(ipset_hash_net5)
ipset_hash_net7 == WithBucketsize(ipset_hash_net6)

ipset_hash_netiface0 ==
    [name |-> "hash:net,iface", revision |-> 0, family |-> "inet46",
     elem |-> <<Elem("ip4_net6", "IP"), Elem("iface", "IFACE")>>, last_elem_optional |-> FALSE,
     create |-> Accepts(Families \union {"HASHSIZE", "MAXELEM", "TIMEOUT"}, {}, {}),
     add |-> Accepts({"TIMEOUT"}, {"IP", "IFACE"},
                     {"IP", "IP_TO", "CIDR", "IFACE", "PHYSDEV"}),
     del |-> Accepts({}, {"IP", "IFACE"}, {"IP", "IP_TO", "CIDR", "IFACE", "PHYSDEV"}),
     test |-> Accepts({}, {"IP", "IFACE"}, {"IP", "CIDR", "IFACE", "PHYSDEV"})]
ipset_hash_netiface1 == WithNomatch(ipset_hash_netiface0)
ipset_hash_netiface2 == NextRevision(ipset_hash_netiface1)
ipset_hash_netiface3 == WithCounters(ipset_hash_netiface2)
ipset_hash_netiface4 == WithComment(ipset_hash_netiface3)
ipset_hash_netiface5 == WithForceadd(ipset_hash_netiface4)
ipset_hash_netiface6 == WithSkbinfo(ipset_hash_netiface5)
ipset_hash_netiface7 == WithWildcard(ipset_hash_netiface6)
ipset_hash_netiface8 == WithBucketsize(ipset_hash_netiface7)

ipset_hash_netnet0 ==
    [name |-> "hash:net,net", revision |-> 0, family |-> "inet46",
     elem |-> <<Elem("ip4_net6", "IP"), Elem("ip4_net6", "IP2")>>,
     last_elem_optional |-> FALSE,
     create |-> Accepts(Families \union {"HASHSIZE", "MAXELEM", "TIMEOUT", "COUNTERS",
                        "COMMENT"}, {}, {}),
     add |-> Accepts({"TIMEOUT", "NOMATCH", "PACKETS", "BYTES", "ADT_COMMENT"}, {"IP", "IP2"},
                     {"IP", "IP_TO", "CIDR", "IP2", "CIDR2", "IP2_TO"}),
     del |-> Accepts({}, {"IP", "IP2"}, {"IP", "IP_TO", "CIDR", "IP2", "CIDR2", "IP2_TO"}),
     test |-> Accepts({"NOMATCH"}, {"IP", "IP2"}, {"IP", "CIDR", "IP2", "CIDR2"})]
ipset_hash_netnet1 == WithForceadd(ipset_hash_netnet0)
ipset_hash_netnet2 == WithSkbinfo(ipset_hash_netnet1)
ipset_hash_netnet3 == WithBucketsize(ipset_hash_netnet2)
ipset_hash_netnet4 == WithMasks(ipset_hash_netnet3)

ipset_hash_netport1 ==
    [name |-> "hash:net,port", revision |-> 1, family |-> "inet46",
     elem |-> <<Elem("ipnet", "IP"), Elem("proto_port", "PORT")>>,
     last_elem_optional |-> FALSE,
     create |-> Accepts(Families \union {"HASHSIZE", "MAXELEM", "TIMEOUT"}, {}, {}),
     add |-> Accepts({"TIMEOUT"}, {"IP", "PORT", "PROTO"},
                     {"IP", "CIDR", "PORT", "PORT_TO", "PROTO"}),
     del |-> Accepts({}, {"IP", "PORT", "PROTO"}, {"IP", "CIDR", "PORT", "PORT_TO", "PROTO"}),
     test |-> Accepts({}, {"IP", "PORT", "PROTO"}, {"IP", "CIDR", "PORT", "PROTO"})]
ipset_hash_netport2 == WithRange(ipset_hash_netport1, 1)
ipset_hash_netport3 == WithNomatch(ipset_hash_netport2)
ipset_hash_netport4 == WithCounters(ipset_hash_netport3)
ipset_hash_netport5 == WithComment(ipset_hash_netport4)
ipset_hash_netport6 == WithForceadd(ipset_hash_netport5)
ipset_hash_netport7 == WithSkbinfo(ipset_hash_netport6)
ipset_hash_netport8 == WithBucketsize(ipset_hash_netport7)

ipset_hash_netportnet0 ==
    [name |-> "hash:net,port,net", revision |-> 0, family |-> "inet46",
     elem |-> <<Elem("ip4_net6", "IP"), Elem("proto_port", "PORT"), Elem("ip4_net6", "IP2")>>,
     last_elem_optional |-> FALSE,
     create |-> Accepts(Families \union {"HASHSIZE", "MAXELEM", "TIMEOUT", "COUNTERS",
                        "COMMENT"}, {}, {}),
     add |-> Accepts({"TIMEOUT", "NOMATCH", "PACKETS", "BYTES", "ADT_COMMENT"}, {"IP", "PORT", "PROTO", "IP2"},
                     {"IP", "IP_TO", "CIDR", "PORT", "PORT_TO", "PROTO", "IP2", "CIDR2", "IP2_TO"}),
     del |-> Accepts({}, {"IP", "PORT", "PROTO", "IP2"},
                     {"IP", "IP_TO", "CIDR", "PORT", "PORT_TO", "PROTO", "IP2", "CIDR2", "IP2_TO"}),
     test |-> Accepts({"NOMATCH"}, {"IP", "PORT", "PROTO", "IP2"},
                     {"IP", "CIDR", "PORT", "PROTO", "IP2", "CIDR2"})]
ipset_hash_netportnet1 == WithForceadd(ipset_hash_netportnet0)
ipset_hash_netportnet2 == WithSkbinfo(ipset_hash_netportnet1)
ipset_hash_netportnet3 == WithBucketsize(ipset_hash_netportnet2)

ipset_list_set0 ==
    [name |-> "list:set", revision |-> 0, family |-> "unspec",
     elem |-> <<Elem("setname", "NAME")>>, last_elem_optional |-> FALSE,
     create |-> Accepts({"SIZE", "TIMEOUT"}, {}, {}),
     add |-> Accepts({"TIMEOUT", "BEFORE", "AFTER"}, {"NAME"}, {"NAME", "BEFORE"}),
     del |-> Accepts({"BEFORE", "AFTER"}, {"NAME"}, {"NAME", "BEFORE"}),
     test |-> Accepts({"BEFORE", "AFTER"}, {"NAME"}, {"NAME", "BEFORE"})]
ipset_list_set1 == WithCounters(ipset_list_set0)
ipset_list_set2 == WithComment(ipset_list_set1)
ipset_list_set3 == WithSkbinfo(ipset_list_set2)

typelist ==
    {ipset_bitmap_ip0, ipset_bitmap_ip1, ipset_bitmap_ip2, ipset_bitmap_ip3,
     ipset_bitmap_ipmac0, ipset_bitmap_ipmac1, ipset_bitmap_ipmac2,
     ipset_bitmap_ipmac3, ipset_bitmap_port0, ipset_bitmap_port1, ipset_bitmap_port2,
     ipset_bitmap_port3, ipset_hash_ip0, ipset_hash_ip1, ipset_hash_ip2,
     ipset_hash_ip3, ipset_hash_ip4, ipset_hash_ip5, ipset_hash_ip6, ipset_hash_ipmac0,
     ipset_hash_ipmac1, ipset_hash_ipmark0, ipset_hash_ipmark1, ipset_hash_ipmark2,
     ipset_hash_ipmark3, ipset_hash_ipport1, ipset_hash_ipport2, ipset_hash_ipport3,
     ipset_hash_ipport4, ipset_hash_ipport5, ipset_hash_ipport6, ipset_hash_ipport7,
     ipset_hash_ipportip1, ipset_hash_ipportip2, ipset_hash_ipportip3,
     ipset_hash_ipportip4, ipset_hash_ipportip5, ipset_hash_ipportip6,
     ipset_hash_ipportnet1, ipset_hash_ipportnet2, ipset_hash_ipportnet3,
     ipset_hash_ipportnet4, ipset_hash_ipportnet5, ipset_hash_ipportnet6,
     ipset_hash_ipportnet7, ipset_hash_ipportnet8, ipset_hash_mac0, ipset_hash_mac1,
     ipset_hash_net0, ipset_hash_net1, ipset_hash_net2, ipset_hash_net3,
     ipset_hash_net4, ipset_hash_net5, ipset_hash_net6, ipset_hash_net7,
     ipset_hash_netiface0, ipset_hash_netiface1, ipset_hash_netiface2,
     ipset_hash_netiface3, ipset_hash_netiface4, ipset_hash_netiface5,
     ipset_hash_netiface6, ipset_hash_netiface7, ipset_hash_netiface8,
     ipset_hash_netnet0, ipset_hash_netnet1, ipset_hash_netnet2, ipset_hash_netnet3,
     ipset_hash_netnet4, ipset_hash_netport1, ipset_hash_netport2, ipset_hash_netport3,
     ipset_hash_netport4, ipset_hash_netport5, ipset_hash_netport6,
     ipset_hash_netport7, ipset_hash_netport8, ipset_hash_netportnet0,
     ipset_hash_netportnet1, ipset_hash_netportnet2, ipset_hash_netportnet3,
     ipset_list_set0, ipset_list_set1, ipset_list_set2, ipset_list_set3}

(***************************************************************************)
(* The types of the kernel modules.  The policies name the attributes the  *)
(* kernel validates; an attribute that is in no policy is let through      *)
(* unchecked.  bucketsize_flag: sets of the highest revision report their  *)
(* bucketsize and initval.                                                 *)
(***************************************************************************)
Extensions == {"TIMEOUT", "LINENO", "BYTES", "PACKETS", "COMMENT", "SKBMARK", "SKBPRIO", "SKBQUEUE"}
HashCreate == {"HASHSIZE", "MAXELEM", "INITVAL", "BUCKETSIZE", "RESIZE", "TIMEOUT", "CADT_FLAGS"}

KernelType(n, fam, min, max, bucketsize, create, adt) ==
    [name |-> n, family |-> fam, revision_min |-> min, revision_max |-> max,
     bucketsize_flag |-> bucketsize, create_policy |-> create, adt_policy |-> adt]

bitmap_ip_type ==
    KernelType("bitmap:ip", "inet", 0, 3, FALSE,
               {"IP", "IP_TO", "CIDR", "NETMASK", "TIMEOUT", "CADT_FLAGS"},
               Extensions \union {"IP", "IP_TO", "CIDR"})

bitmap_ipmac_type ==
    KernelType("bitmap:ip,mac", "inet", 0, 3, FALSE,
               {"IP", "IP_TO", "CIDR", "TIMEOUT", "CADT_FLAGS"},
               Extensions \union {"IP", "ETHER"})

bitmap_port_type ==
    KernelType("bitmap:port", "unspec", 0, 3, FALSE,
               {"PORT", "PORT_TO", "TIMEOUT", "CADT_FLAGS"},
               Extensions \union {"PORT", "PORT_TO"})

hash_ip_type ==
    KernelType("hash:ip", "unspec", 0, 6, TRUE,
               HashCreate \union {"NETMASK", "BITMASK"},
               Extensions \union {"IP", "IP_TO", "CIDR"})

hash_ipmac_type ==
    KernelType("hash:ip,mac", "unspec", 0, 1, TRUE,
               HashCreate,
               Extensions \union {"IP", "ETHER"})

hash_ipmark_type ==
    KernelType("hash:ip,mark", "unspec", 0, 3, TRUE,
               HashCreate \union {"MARKMASK"},
               Extensions \union {"IP", "IP_TO", "MARK", "CIDR"})

hash_ipport_type ==
    KernelType("hash:ip,port", "unspec", 0, 7, TRUE,
               HashCreate \union {"PROTO", "NETMASK", "BITMASK"},
               Extensions \union {"IP", "IP_TO", "PORT", "PORT_TO", "CIDR", "PROTO"})

hash_ipportip_type ==
    KernelType("hash:ip,port,ip", "unspec", 0, 6, TRUE,
               HashCreate,
               Extensions \union {"IP", "IP_TO", "IP2", "PORT", "PORT_TO", "CIDR", "PROTO"})

hash_ipportnet_type ==
    KernelType("hash:ip,port,net", "unspec", 0, 8, TRUE,
               HashCreate,
               Extensions \union {"IP", "IP_TO", "IP2", "IP2_TO", "PORT", "PORT_TO", "CIDR", "CIDR2", "PROTO", "CADT_FLAGS"})

hash_mac_type ==
    KernelType("hash:mac", "unspec", 0, 1, TRUE,
               HashCreate,
               Extensions \union {"ETHER"})

hash_net_type ==
    KernelType("hash:net", "unspec", 0, 7, TRUE,
               HashCreate,
               Extensions \union {"IP", "IP_TO", "CIDR", "CADT_FLAGS"})

hash_netiface_type ==
    KernelType("hash:net,iface", "unspec", 0, 8, TRUE,
               HashCreate \union {"PROTO"},
               Extensions \union {"IP", "IP_TO", "IFACE", "CADT_FLAGS", "CIDR"})

hash_netnet_type ==
    KernelType("hash:net,net", "unspec", 0, 4, TRUE,
               HashCreate \union {"NETMASK", "BITMASK"},
               Extensions \union {"IP", "IP_TO", "IP2", "IP2_TO", "CIDR", "CIDR2", "CADT_FLAGS"})

hash_netport_type ==
    KernelType("hash:net,port", "unspec", 0, 8, TRUE,
               HashCreate \union {"PROTO"},
               Extensions \union {"IP", "IP_TO", "PORT", "PORT_TO", "PROTO", "CIDR", "CADT_FLAGS"})

hash_netportnet_type ==
    KernelType("hash:net,port,net", "unspec", 0, 3, TRUE,
               HashCreate,
               Extensions \union {"IP", "IP_TO", "IP2", "IP2_TO", "PORT", "PORT_TO", "CIDR", "CIDR2", "PROTO", "CADT_FLAGS"})

list_set_type ==
    KernelType("list:set", "unspec", 0, 3, FALSE,
               {"SIZE", "TIMEOUT", "CADT_FLAGS"},
               Extensions \union {"NAME", "NAMEREF", "CADT_FLAGS"})

ip_set_type_list ==
    {bitmap_ip_type, bitmap_ipmac_type, bitmap_port_type, hash_ip_type, hash_ipmac_type,
     hash_ipmark_type, hash_ipport_type, hash_ipportip_type, hash_ipportnet_type,
     hash_mac_type, hash_net_type, hash_netiface_type, hash_netnet_type,
     hash_netport_type, hash_netportnet_type, list_set_type}

==============================================================================
