# Verification of ipset

TLA+ models of the kernel side of ipset and of its userspace library, TLC runs that
check them on small instances, and TLAPS proofs for instances of any size. Paths are
relative to the repository root (`src/`); `core.c`, `list_set.c` and `hash_gen.h` stand
for `kernel/net/netfilter/ipset/ip_set_core.c`, `ip_set_list_set.c` and
`ip_set_hash_gen.h`.

## 1. The system

ipset keeps named sets of addresses, ports and networks in the kernel. Netfilter
rules match packets against a set or add and delete entries (`xt_set.c`),
userspace manages sets over netlink (`lib/`, `src/ipset.c`).

| Component | State | Operations | Interacts with |
|---|---|---|---|
| set table (`core.c`) | `ip_set_list[]`, `ip_set_max`, `is_destroyed`; per set name, type, `ref`, `ref_netlink` | create, destroy, destroy all, flush, rename, swap, list/save dumps, add/del/test dispatch, get/put by name and index | everything |
| list:set (`list_set.c`) | ordered members, each holding an index | add (before/after), del, test, flush, gc timer, destroy | holds references on other sets by index; packets go through it to its members |
| hash engine (`hash_gen.h`) | `h->table` with buckets and region locks, `h->ad`, `h->next`, `h->nets` | add, del, test, flush, gc work, resize, dump | all hash types are instances of it |
| hash types (`ip_set_hash_*.c`) | - | element layout, kadt (packet), uadt (netlink, ranges) | hash engine |
| bitmap engine and types (`ip_set_bitmap_*`) | bitmap and extensions | add, del, test, flush, gc timer, dump | core |
| type registry (`core.c`) | list of `ip_set_type` | register, unregister, find, load module | create |
| rules (`xt_set.c`, `em_ipset.c`) | index held by a rule | checkentry, destroy, match, target | get/put by index |
| netlink library (`lib/session.c`, `mnl.c`, `data.c`, `types.c`, `errcode.c`) | session buffers, cached sets and types | build message, commit, callback, restore | kernel |
| parser, printer, front end (`lib/ipset.c`, `parse.c`, `print.c`, `ipset_*.c`, `src/`) | - | command line to session data and back | session |

What is hard: four kinds of actors touch a set at the same time. Commands are
serialised by the nfnl mutex, but give it up in the middle (`CALL_AD`) or wait for
RCU while they hold it; dumps run in chunks, all but the first without the mutex;
timers, work queues and RCU callbacks delete entries and put references; packets
hold nothing but an RCU read-side section. Two reference counters of different
meaning (`ref` belongs to an index, `ref_netlink` to a set) protect a set.

Between the command line and a set lie two programs that only agree by tables: each
type has revisions on both sides, each revision its keywords, attributes, policies and
handlers; a listing travels the same way back and has to be accepted again by restore.
Restore collects lines in messages, while the kernel gives up its mutex in the middle of
a message, so errors, retries and other clients meet lines that were read long before.

## 2. Modules

| Module | Models |
|---|---|
| `IpSetCore` | the set table, both kinds of references, list:set members as references, dumps, packets |
| `Picking` | the entries of an array or list that a loop leaves, in their order |
| `HashResize` | one hash set: its tables, `mtype_resize` and everything that runs beside it |
| `HashReplay` | the same set, with a history of what a resize loses, repeats out of order or miscounts |
| `HashSpec`, `HashBucket` | what a set of a hash type promises; its buckets, regions, `maxelem` and `forceadd`, with one region implementing it |
| `ListSpec`, `ListSet` | what a list:set set promises; `list_set.c`, which implements it |
| `SetTypes` | all types and revisions of library and kernel as one table |
| `CommandLine` | the library: parsers, option checks, messages, listings to lines |
| `TypeHandlers` | the kernel: create, add, del, test and listing of every type |
| `CommandPath` | both composed: scripts, save, restore of what was saved |
| `RestoreSpec`, `Restore` | what restore promises; session, messages, batches and retries, which implement it |
| `MC...` | instances of these for TLC |
| `IpSetCoreProofs`, `IpSetUseProofs` | table, references and commands of `IpSetCore`; its dumps and packets |
| `HashResizeProofs`, `HashContentProofs` | `HashResize`: types and life of the tables; `HashReplay`: contents and prefix sizes |
| `HashBucketProofs` | `HashBucket`: bounds, counters, refinement of `HashSpec` |
| `ListSetProofs` | `ListSet`: references, counter, dumps, refinement of `ListSpec` |
| `RestoreProofs` | `Restore`: types and messages, refinement of `RestoreSpec`, nothing is added unasked |
| `PickingProofs` | lemmas about `Picked`, parts of sequences, least elements and finite sets |

`CommandPath` extends `TypeHandlers`, which extends `CommandLine`, which extends
`SetTypes`; `HashReplay` extends `HashResize`. `HashBucket`, `ListSet` and `Restore` instantiate their specifications. A module
of proofs extends the module it is about; `IpSetUseProofs` extends `IpSetCoreProofs`,
`HashContentProofs` extends `HashResizeProofs` too. Modules share no
variables; where one component meets another it sees what the other promises: commands
in `HashResize` are atomic and serialised because `IpSetCore` shows what the nfnl mutex
protects, `IpSetCore` keeps members as references because `ListSet` shows that each node
holds exactly one.

### IpSetCore and the code

Variables carry the names of the fields they stand for: `ip_set_list`,
`ip_set_max`, `is_destroyed`, `ref`, `ref_netlink`. `state[s]` is the life of the
memory of a set: `free`, `live` (in the table), `unlinked` (out of the table, still
waiting in `rcu_barrier`), `rcu` (queued with `call_rcu`), `destroying` (its variant
puts its members). `hold` gives the index a rule or list element refers to, `pin` the
set a dump or an interrupted command works on: ghost copies of what the counters
count. `nfnl` says who keeps the nfnl mutex across several steps; commands that do
not give it up are single actions that need it to be free.

`grace` and `barrier` model RCU: `call_rcu` and `rcu_barrier` wait for the packets
that were inside a read-side section when they were called. `putting[e]` splits
`__ip_set_put_byindex` where it runs outside the mutex: the slot is read first, the
counter is decremented under `ip_set_ref_lock` later.

A dump is the record `dump[d]`: `index`, `max`, `type` and `arg0` are the fields of
`cb->args` and the locals of `ip_set_dump_do`, `set` its pointer variable, `must` a
ghost: the indices whose sets were there from the start and have to be reported.

A command that is refused changes nothing and is left out. Attribute parsing, message
layout, extensions, and the entries of sets other than list:set are abstracted away.

### HashResize and the code

`table`, `ref`, `uref`, `nets` and `ad` are `h->table`, `t->ref`, `t->uref`, `h->nets`
and `h->ad`; `bits` is `htable_bits` less its initial value. `memory` is the set of
allocated tables, whose addresses are reused. A table maps an element to `no`, `live`
or `dead` (slot in use, entry expired). `resize` follows `mtype_resize`: `copy` (under
RCU, bucket by bucket), `retry`, `sync` (`synchronize_rcu` waits for the packets in
`readers`), `replay` of `h->ad`. `user` follows packets, dumps and the gc work from the
moment they count themselves in (`have`) over saving their operation (`log`) to
`atomic_dec_and_test` (`put`) and the separate `atomic_read(&t->ref)` (`check`).
`want` is a ghost: what the set holds if operations count in their order.

The bucket being copied is read while writers change bits in it or replace it by a
changed copy; `ResizeCopy` therefore meets an entry as it is now or as it was when the
bucket pointer was read. An entry that expires does so in every table, as the copies have
the same time stamp. Memory shortage, full buckets and full sets are choices
(`Faults`). `forceadd`, which overwrites live entries, and the place of an element
inside a table are left to `HashBucket`. Commands other than flush are single actions: they hold
the nfnl mutex, so no resize runs meanwhile and `t->ref` is 0. An add reads `t->ref` when it
has left the region lock (hash_gen.h:997), in the step that saves it (`PacketLog`); a delete
reads it under the lock (`PacketDel`).

`Spec` has every interleaving. `QuietSpec` leaves out one: a resize that starts while a
user that counted `t->uref` of the current table down to 0 has not read `t->ref` yet. The
code does not keep it from happening (section 6), and it destroys the current table; what
happens then is undefined, so the properties about tables and contents are those of
`QuietSpec`. Types and the absence of writers during the replay do not need it.

`HashReplay` adds two history variables that no action reads. `muddled` has the elements
of which an operation was not saved for lack of memory (`Forgotten`), was not repeated since
the new bucket was full (`Unrepeated`), or is saved so that repeating deletes before adds does
not give what the operations gave in their own order (`InTurn`). `miscounted` has the prefix
sizes of entries that were removed while a second table held them (`TwoTables`), or that
were stored before a flush reset `h->nets` (`Forgets`). At rest every other element is in
the set exactly if its last operation left it there, and every other stored prefix size is booked: the
deviations of the code are these and no others.

### HashBucket, HashSpec and the code

`bucket[k]` is an array with `size` and `slots`; the length of `slots` is `pos`, a clear bit
of `used` is a `Hole`. `elements[r]` is the counter of region r, with the width `CountMod`.
`adding` follows `mtype_add`: the counter read without a lock (`AddBegin`), the gc run of a
region that looks full (`AddSweep`), the sum over all regions (`AddSum`), then the part
under the region lock, one action per way through it. Deletes, the gc work and a flush are
one step per region lock. What a smaller copy of an array keeps is `Picked`. A region has two definitions, as in the code: the one adds and
deletes lock by (`Region`) and the buckets gc and flush go through (`KeysOf`).

`testing` follows `mtype_test` slot by slot. Changes in place are seen at once; when a
bucket is replaced the test stays in the old array, of which only matters what it will
find of its element there (`copy`): `live`, `none`, or `stale` when the element was
deleted or renewed meanwhile, so that the old copy times out on its own. `in`, `out` and
`seen` are ghosts of what was true since a test or an add began.

In `HashSpec` an add is judged and answered, a test answers what held at some moment.
`full` is answered only when `maxelem` elements were in the set since the add began. Three
cases are as weak as the code: an add judged to have room, or one that finds a slot,
stores its element whatever `maxelem` says; with `forceadd` an element is given up, or the
new one is lost; a test may miss an element that is being renewed. Each was
verified to be needed: without it TLC refutes the refinement. Whether an add was asked
with -exist is left open. Slots and counters are read and written as a whole.

### ListSet, ListSpec and the code

`members` is the list of nodes; `life` of a node is `permanent`, `timed` or `expired`
(timed out and not swept yet). `elements` is `set->elements`, `ref` what this set
contributes to the reference counters of others, `dump` the position in `cb->args` with
ghosts: the members still to be reported and the nodes removed since the dump began.
`replaced` is a ghost that counts `list_set_replace`. `answer` is the last command with
its answer, for the refinement only.

One command is one action: it gets its references, sweeps, walks, changes the list and
puts references, under the nfnl mutex and `set->lock`. Timeouts respect no lock: one
member may time out after the sweep, before or after the walk looked at it (`walked`,
`now`). Resolving a name is its result: an index, a list:set set or nothing.

`ListSpec` has the list of names that have not timed out. The mapping drops expired nodes
(`order`) and says whether there are any (`tidy`). Two of its cases are weaker than the
manual's words because the code does no better; section 6 names them.

### SetTypes, CommandLine, TypeHandlers, CommandPath and the code

A revision table (`lib/ipset_*.c`, `struct ip_set_type`) is a record: keywords with
parser and option, mandatory and allowed options per command, parts of the element with
their parsers, families, features, and the policies of the kernel. The data blob
(`struct ipset_data`) is a function from options that are set to classes of values: an
address is `host`, `net`, a range, of either family; a number has no value. What a parser
admits is a set of forms (`ip`, `ip/net`, `ip-ip`, `port`, `proto:port`, ...), and
parsing a form sets options or refuses. A handler of the kernel is a sequence of checks
in their order, the first that fails gives the answer; an element is the set of attributes
the type stores. `NewestType`, `Library(u)` are what the newest and an older library know.

`CreateSet` and `Adt` are one command from its words to the answer of the kernel, `Save`
lists all sets to lines, `Restore` runs one of those lines through the newest library and
creates the sets again beside the old ones. `TypeHandlers` names handlers of families of
types once where the code repeats them file by file.

### Restore, RestoreSpec and the code

The library reads a line (`ipset_parser`), joins it to the message under construction
(`build_msg`, `may_aggregate_ad`) or sends that first (`ipset_commit`). `phase` is the
kernel: `queued` (the message was sent), `held` (it works under the nfnl mutex), `released`
(`CALL_AD` gave the mutex up after a batch of a range or for a resize and keeps the set by
`ref_netlink`), `refused`. `at` is the element in work, `sets[s].next` is `h->next`. Type
lookups use the cache of the session or ask the kernel. Other clients create, destroy,
flush, add and delete whenever the mutex is free.

In `RestoreSpec` lines take effect one by one. The mapping takes the first line whose
effect is still to come from the kernel's message, then from the buffer, then from the
file (`FirstPending`, `PendingElement`). A line the library refuses may end a restore before
lines read earlier took effect; the specification admits that (`Reject`), as the code
drops what it had collected.

## 3. Runs

| Run | Shows |
|---|---|
| `core_plain` | 3 sets, 3 slots, 2 rules, a dump, an interrupted command, a packet: table, counters, RCU lifetime |
| `core_list` | 3 sets with list:set and timeouts, 2 members, a rule and a packet: references of members |
| `core_live` | liveness: destroyed sets are freed, the mutex is released |
| `hash_resize` | one element, two table addresses, a packet, gc, a dump, commands, resizes that fail or start over: exact `uref`, no table freed under a user or lost, nobody appends to `h->ad` during the replay, resizes end, old tables are freed |
| `hash_replay` | two elements of one prefix size, two packets that add and delete one of them, commands that add, delete and flush both, timeouts, gc, resizes that fail or start over: contents and prefix sizes after all of them, up to `muddled` and `miscounted` |
| `hash_bucket` | 3 elements in one bucket, a command, a packet, a test, gc, timeouts, flush: `HashBucket` implements `HashSpec`; arrays keep their bounds, the counter is exact |
| `list_set` | a list of up to 4 nodes over 3 sets, up to 2 replacements: it implements `ListSpec`, one reference per node, counted elements |
| `list_dump` | the same, up to 3 nodes, while it is dumped in several messages |
| `command_path` | every type, every older library, scripts within a budget of 3: the two sides agree; what is saved is restored |
| `restore` | all files of up to 3 lines of 10 kinds: `Restore` implements `RestoreSpec` and ends |
| `region_lock`, `range_next` | the code against its own comments (section 6) |

Bounds. Three sets are enough for a swap of two sets against a third user, two
rules for a counter above one, `IdMod` 4 or 5 for a table that is full, grows and hits
`IPSET_INVALID_ID`. Addresses of sets are reused after `kfree`, so behaviours are
unbounded in length although the state is finite. Deadlock is checked where no
`BUG_ON` can stop an actor (`core_plain`) and in `hash_resize`; in `hash_replay` the
bounds `MaxAd` and `MaxNets` let packets stop. For the resize one element is enough
for lifetimes (tables do not depend on what they hold) and two for contents: two packets
race for one element, and the prefix size it shares with another must survive its removal.
`MaxBits` 2 (27 less the initial size in the code) gives a retry, a limit that is
hit, and several resizes in a row; `MaxAd` and `MaxNets` bound how many operations are
under way or saved at once, tested when an operation begins so that none is stuck.

`hash_bucket` has bucket sizes 4 (arrays of 2 that grow and shrink again) and, with
`forceadd`, 2 (a full bucket asks for a resize), `maxelem` 2 with three elements, and at
most two adds and tests under way at once (`MaxBusy`): two adds that race for the last
place, or a test beside an add. Elements of a bucket are interchangeable, buckets do not
meet except in the counter of their region. `region_lock` has two regions of two buckets
in place of 1024.

For the list three members let one stand between two others; a fourth node is an expired
one beside them, possibly of a set that is on the list again. `list_set` and `list_dump`
are one specification: without dumps the lists can be longer. TLC treats members as
interchangeable and states that differ in the last answer alone as one, since no guard
and no invariant reads it; the refinement is checked on every step all the same.

`command_path` gives every script a budget: each keyword, each part written in another
form than the plainest, an older library, a second set and a second element cost one. 3
is enough for any two keywords together with an unusual element, or an old library with a
keyword and an unusual element. Faults of agreement between tables show in pairs of
options; combinations of more keywords differ in nothing the tables test.

`restore` has messages of 3 values (a range takes 2), batches of 2 elements (so a range
over 3 elements gives up the mutex once and the retry begins in the middle), one full
bucket, two commands of another client. A third line is what follows a message that was
sent because the second did not fit. `SharedNext` is FALSE: only this restore writes
`h->next`; `range_next` shows what happens otherwise.

Fairness (`core_live`). RCU callbacks, timer handlers and the body of a command run
by themselves: weak fairness. A packet leaves a finite list of members: strong
fairness of leaving, as the model lets it look at members again and again. Nothing is
assumed of userspace: a dump may stay between its chunks for ever.

Fairness (`hash_resize`). Weak fairness of each step of a resize that has begun, of
packets inside the set and of the gc work; none for commands, failures or dumps.

Fairness (`restore`). Weak fairness of the library, a loop that runs by itself, and of the
kernel inside a command; none of other clients.

`hash_resize` and `hash_replay` run `QuietSpec` of `HashResize`, explained in section 2.
In `hash_replay` TLC takes states as one that differ only in what no later step reads
(`Relevant`): tables that were freed, what a packet that leaves has done, what a muddled
element should be.

`core_list` runs `QuietSpec`: no swap falls between the two halves of an asynchronous
put. Without that condition the counters go wrong (section 6).

## 4. Proofs

Each theorem holds for every value of the constants that the named `ASSUME` of the model
admits: any number of sets, names, rules, members, elements, packets, dumps and clients,
any table and bucket sizes, any bound. Further conditions stand in the theorem as
`ASSUME ... PROVE` or as the specification it is about; each is one under which the code
keeps the property and without which section 6 shows it does not.

| Subject | Theorems | Conditions |
|---|---|---|
| set table | `TypeCorrect`, `TableCorrect`, `PinsCorrect`, `DumpReleasesItsSet`, `DestroyAllCorrect`, `PinnedStaysPut` | none |
| references by index | `RefsCorrect`, `HeldIndexCorrect` | `QuietSpec` |
| dumps of all sets | `DumpCoversCorrect` | none |
| packets and members | `PacketSetCorrect`, `LockedMemberCorrect`, `NestingCorrect`; `PacketSetPlain` | `QuietSpec`; no list:set |
| types, replay of a resize | `TypeCorrect`, `ReplayAloneCorrect` | none |
| life of hash tables | `UrefExactCorrect`, `TableAliveCorrect`, `NoTableLostCorrect` | `QuietSpec` |
| contents after resizes | `SettledExactCorrect` | `ReplaySpec`: `QuietSpec` with its history |
| prefix sizes | `CidrBookedCorrect` | the same |
| buckets | `TypeCorrect` | none |
| counters of regions | `CountedCorrect` | `RegionsAgree` |
| `HashBucket` implements `HashSpec` | `KeptCorrect` | one region |
| list:set | `TypeCorrect`, `RefsExactCorrect`, `ElementsCountedCorrect`, `DumpMissesCorrect` | none |
| `ListSet` implements `ListSpec` | `ListKeptCorrect` | none |
| restore: types, messages | `TypeCorrect` | none |
| `Restore` implements `RestoreSpec` | `InOrderCorrect` | `~SharedNext` |
| restore adds only what lines ask for | `OnlyAskedCorrect` | `~SharedNext` |

### Set table (`IpSetCoreProofs`)

One inductive invariant, `Inv`, carries the first group. Type correctness is not
inductive alone: a dump reads its slot again to release its set, so the type of
`ref_netlink` needs `DumpIndexPinned`, which needs that destroy, rename and swap leave
pinned sets alone (`PinsAccounted`), that "destroy all" starts only when nobody has a
reference (`DestroyAllQuiet` and `CommandState`), that the table is exact
(`TableExact`), and that a dump which continues inside a set does not run past it
(`DumpInside`). `RefInv` adds that an asynchronous put works on the set behind its
index (`PuttingSlot`); that is what a swap between the halves of the put breaks and
`QuietSpec` excludes.

### Dumps and packets (`IpSetUseProofs`)

`CoverInv` says where a dump still finds what it owes: a set it passed in the first pass,
or left for the second, is a list:set set, so when the second pass is through only these
can be missing. It needs `Inv` because a set that is owed leaves the table by a command
that drops it from `must`.

A packet has a reference only through the rule it came by. `UseInv` says that a set it
looks at is live or its reclaim waits for the packet (`PacketsSafe`: `grace` or `barrier`
contains it), that a member it reached under the lock of the list is still held by an
element of that list (`MemberReached`), and that a rule with a packet inside keeps its
index (`PacketRules`). `NoNestedLists` is part of it: were a list a member of a list, a
packet would be inside a set that no rule refers to.

### Tables of a resize (`HashResizeProofs`)

`Shape` is what the program counters say about tables and users. The backlog is safe
from other writers during the replay because `synchronize_rcu` ended after every packet
that was inside when the new table was published (`GraceCovers`), and later ones find a
table with `ref` 0.

`LifeInv` adds exact `uref`, that `ref` is 0 for exactly the table that will get the next
users (`RefMarks`), that nobody has seen a table that is being filled (`NewUnused`) and
that at most one user is about to destroy a table (`LastLeavers`). Between the decrement
and the read of `t->ref` everything else may happen: other users enter and leave the
table, and a resize of it finishes. Only its start is excluded, where `RefMarks` would turn a
user that has nothing to destroy into one that does.

### Contents after a resize (`HashContentProofs`)

Nothing is assumed of packets, commands, failures and timeouts; both theorems are about
the elements and prefix sizes that are not in the history variables.

`ContentInv` relates three things during a resize: what the set should hold (`want`), what
a table holds, and what is in `h->ad` or on its way there (`Saves`). The old table is right
until the new one is published. An element of the new one agrees with `want` or an operation on it is still
saved (`Agrees`, in `Right`), in its bucket as read (`seen`), after it was copied, and through the
replay; one that waits to be copied is not in the new table at all. `Ordered` says that
`h->ad` has all deletes before all adds: with `InTurn`, which the history variable
guarantees, a delete that is repeated leaves what its element should be unless an add of it
follows, and an add that is repeated is the last word on its element. `PacketPlace` is why
the saved operations are complete: a packet that is about to save one is in the table being
replaced.

`BookedInv` counts: for c not miscounted, `h->nets[c]` is at least the number of elements of
size c that the table, or during a resize either of the two, holds (`Held`). An entry that two
tables hold is counted once, so removing it from one of them may cost the other its
place in the count: `miscounted` notes exactly these removals. `SeenHeld` says that what the
resize has yet to copy of its bucket is still held or was miscounted, so that a copy adds
nothing to what is counted.

### Buckets (`HashBucketProofs`)

Bounds: `Table` says that sizes of arrays are multiples of `AHASH_INIT_SIZE` up to
`bucketsize`, that no array has more slots than its size, and that an element has at most
one entry in the bucket of its hash (`Distinct`), which an add needs that looks for its
element, a deleted slot and an expired one in one loop. The assumption about created sets
(`bucketsize` a multiple of `AHASH_INIT_SIZE`) is that of the library and of the default.

Counters: `CountInv` says that a region counts the entries in the buckets it locks. Gc and
flush count in the buckets they visit, hence `RegionsAgree`: both are the same buckets.
`RegionsAgreeWithOne` proves this for one region (up to 2^10 buckets); for two the run
`region_lock` refutes `Counted`.

Refinement: every step of `HashBucket` with one region is mapped to a step of `HashSpec`
or to none: `AddBegin` to `Begin`, the sum of the counters to `Judge`, storing or refusing
to the answer that follows; sweeps, shrinking and growing arrays and the gc work to
nothing; timeouts, deletes and flushes to theirs. `KeptInv` has what the ghosts must show at
the moment of an answer: a test that never saw its element outside the set has its entry
ahead, in the slots still to be visited or in the old array it stays in (`Seen`); an add
that sums up the counters has seen everything they count, so that a refusal is justified
(`Crowd`). The second needs one region: an add sweeps its own region only, and the sum
over others counts entries that have timed out.

### Lists (`ListSetProofs`)

`Lists` has no set twice among live nodes, one reference for each node and the exact
counter. A command is one composed step: the sweep, the replacement, the insertion and the
removal each map positions of the new list to positions of the old one (`Comes`), and
`RefsExact` follows from counting nodes along this map. For dumps the same map shows that
no member that stays comes more nodes forward than nodes were removed (`Forward`), from
which `DumpMisses` follows for any number of chunks.

Refinement: every command of `ListSet` is the command of `ListSpec` with the same answer;
timeouts, the gc work and a flush are `TimeOut`, `Sweep` and `Flush`, dumps are nothing. The
names of a list are computed part by part: the order of a concatenation is the
concatenation of the orders (`OrderConcat`), so that a list cut at a node gives its names
cut at that node's name. `Image` says that the swept list shows the names of the old one,
with the member that times out during the command expired, and `Works` what the command
works on: the names, the one that timed out, and the one its walk does not see any more.
Each way through `list_set_uadd` leaves a part of the list, the new member and another part
(`Amid`), and `PutIs` and `NewOutcome` say what `ListSpec` promises in the same words.
Replacing a neighbour that timed out is the delicate case: to cut before it or after it
gives the same names (`AmidLate`), which is why the new member may stand on the other side
and the specification has to admit that. A deletion rests on `PlacedIs`: the neighbour
that the walk meets is the neighbour among the names.

### Restore (`RestoreProofs`)

The inductive invariant `Inv` says of a message, the one under construction and the one in
the kernel, that its lines follow each other in the file, have the command and the set of
its header and fit the buffer (`Holds`); that the library fills no message while the kernel
has one, and works only when it is answered (`Sides`); that -exist comes from a line that was
read (`Parsed`); that the set the kernel works on is there even when it gave up the mutex,
since `ref_netlink` keeps others from destroying it (`Busy`); and that the kernel is inside the
range of its line and will go on at the element it stopped at (`InRange`). The last
conjunct is where `~SharedNext` is needed: `h->next` belongs to the command, and `range_next`
shows what happens when it does not.

Under the mapping (`FirstPending`, `PendingElement`) reading a line, joining it to a message,
sending, finishing a batch, giving up the mutex and taking it again are no steps; an
element that is added or deleted, the end of a line, COMMIT, a refusal and another client's
command are those of `RestoreSpec`. `OnlyAskedCorrect` follows from `InRange` and `Holds`: what is added
lies in the range of a line of the message, and lines of a message agree with its header.
`range_next` refutes the same formula, `OnlyAsked`, when `h->next` is shared.
`FilesAssumption` says what a file may contain: lines of the modelled commands whose
ranges are not empty.

### How induction over data is done

`Picked` and counting are recursive functions and no induction theorem with an operator
parameter can be used. Facts about them are proved by taking the least counterexample
(`LeastNumber`, from the well-foundedness of < on Nat) and stepping one back
(`PickingProofs`).

### Model-checked only

* Liveness: `DestroyedSetFreed`, `NfnlReleased`, `ResizeEnds`, `OldTableFreed`, `Ends`.
* The invariants of `CommandPath`: they are about the contents of finite tables, for which a
  run over all types says what a proof would.

## 5. What makes each part correct, and the plan

| Component | What has to hold | Where |
|---|---|---|
| set table | table exact; counters equal their users; pinned sets stay put; a set outlives its packets; destroyed sets are freed | `IpSetCore`, proved or checked |
| list:set | a member keeps its set alive and is put exactly once; order and counter of members; before/after; dumps | `ListSet`, proved, with its specification; `IpSetCore`, proved |
| hash engine | resize loses nothing, frees exactly the unused tables, ends; prefix sizes booked; buckets hold what was added, tests find it, a set that is refused was full | `HashResize`, `HashBucket`, proved, that resizes end checked; sorted prefixes open |
| hash types | an interrupted range goes on where it stopped, covers every element once; handlers accept what the library sends | `Restore`, `TypeHandlers`; address arithmetic open |
| bitmaps | handlers accept what the library sends; a timed-out or MAC-less entry never matches | `TypeHandlers`; bit arrays open |
| extensions | saved and restored as they were; an expiry never becomes "permanent" | `CommandPath`; jiffies open |
| rules | every failed or removed rule puts what it got | open |
| session | every restore line takes effect once, in order, and an error is reported for its line | `Restore`, proved, that it ends checked |
| tables of the library | every keyword that is accepted is sent, declared and understood; save and restore agree | `CommandPath`, checked |

What the plan has left, in this order:

1. proofs: the invariants of `CommandPath` that do not depend on the extent of the tables;
2. `BitmapGen` against `HashSpec` without a capacity;
3. arithmetic: ranges at the top of the address space, `netmask`, the decomposition in
   `pfxlen.c`, jiffies;
4. `Rules` (`xt_set.c`), namespace exit and type registration on top of `IpSetCore`.

No module declares a RECURSIVE operator, so theorems can be stated about all of them.

## 6. Findings

Two are runs that TLC refutes; the trace is the scenario.

* `region_lock`: from 2048 buckets on a table has regions, and the region an add or a delete
  locks and counts by is not the one the gc work and a flush visit the bucket under
  (hash_gen.h:66, 68): they change one bucket under different locks, and a counter falls
  below 0.
* `range_next`: a range goes on at an element a packet left in `h->next` while the mutex
  was released; elements no line names are added (`ip_set_hash_ip.c:154`, hash_gen.h:945).

Others follow from the same models and have no run of their own. In the kernel:

* An asynchronous put reads its slot, a swap exchanges the counters, and the decrement hits
  the other set, up to `BUG_ON(set->ref == 0)` (core.c:679, 852): `core_list` with `Spec`
  in place of `QuietSpec` violates `RefsAccounted`.
* Deletes are saved at the head of `h->ad`, adds at its tail; an element added and then
  deleted by packets during a resize is in the set afterwards (hash_gen.h:1011, 1134):
  `hash_replay` violates `SettledExact` with all elements in place of those not `muddled`.
* A deleted slot is reused before `maxelem` is looked at (hash_gen.h:917), and adds that
  read the counter together all have room: a set holds more than `maxelem` elements, which
  the manual calls the maximal number (`src/ipset.8:349`).
* With `forceadd` an add into a bucket whose array is empty is answered as done and stores
  nothing that counts: slot 0 is written, `pos` stays 0 (hash_gen.h:919). Into a missing
  bucket it is refused as full (hash_gen.h:878).
* A packet walking a list:set set tests an index whose set was destroyed;
  `BUG_ON(!set)` (core.c:738): a step of `IpSetCore` that stops the packet.
* With the last slot of the table in use, a dump of all sets ends without the list:set
  sets (core.c:1618); `DumpCoversPlain` is therefore about the other types.
* After the first pass a dump uses a set pointer it has no reference for (core.c:1709).
* `uref` reaches 0, a resize starts, the leaving user reads `ref` = 1 and frees the
  current table (hash_gen.h:1024 and the like): `hash_resize` with `Spec` in place of
  `FairQuietSpec` violates `TableAlive`.
* A delete during a resize counts `h->nets`, the "number of elements for this cidr"
  (hash_gen.h:101), down for the old table and, replayed, again for the new one; another
  network of that size is stored but never tried (hash_gen.h:361, 772): `hash_replay`
  violates `CidrBooked` without the exception of `miscounted`.
* The backlog of a resize that failed is replayed by the next one, even after a flush
  (hash_gen.h:789), and a flush resets `h->nets` after packets may have stored networks
  again (hash_gen.h:423). An add that read no `t->ref` under its lock is saved for a resize
  that began later, even if a command deleted the element in between (hash_gen.h:997).
* `list_set_replace` takes a node off the list without counting it; the number of
  elements a header reports grows by one each time until the next flush (list_set.c:167).
  `ElementsCounted` states the exact amount.
* A member that times out between the sweep and the insertion is replaced by the new
  member, which then stands after the one it was added "before" (list_set.c:296).
* A test with "before" looks at the next node even if that has timed out, one with
  "after" skips such nodes (list_set.c:207).
* An error in hash:ip,mac can be any of the two it combines by `||`, which leaves 1
  (`ip_set_hash_ipmac.c:132`, 251); every error of a test is answered as "NOT in set".

In the library:

* forceadd is listed in a word of flags that `ipset_data_set` decodes without it: it is
  lost by save and restore (`data.c:426`). `RoundTrip` excludes it.
* -exist goes into a message when it is begun; a line with it that joins a message begun
  without it is executed without, and after a line with it all later messages carry it
  (`mnl.c:77`). `RestoreSpec` requires only that no line is more tolerant than the lines up
  to it allow.
* An error in a line of restore loses the adds and deletes still in the buffer
  (`ipset.c:1422`).
* Options that one set of a listing leaves in the data blob reach the next one where the
  cleared flags do not name them (BUCKETSIZE, INITVAL, CIDR2; `session.c:1369`); bucketsize
  is listed by the newest revisions only. `Restored` asks that the header of a restored set
  has every option that the saved one had: one it has in excess shows only if restore
  refuses it.
* `check_allowed` asks for options by the flags of the command: IP2_TO is in none, so a
  second range is not looked at; other combinations end in "It's a bug"
  (`ipset.c:797`, 891, 909).
* ICMP of the wrong family is reported as a syntax error whose return value is dropped
  (`parse.c:655`); the kernel refuses the element later.
* A prefix length beside the address of a bitmask, or a range there, is parsed and
  dropped; `Unsent` names these two options.

## 7. Not modelled

* Reads: header, type and protocol queries; xml, json and sorted output; help texts,
  the interactive mode, the translation to nftables (in `lib/ipset.c`), the front end.
* Characters, numbers, service and host names, units of time: parsers are their forms.
* The sorted array of prefix sizes and tests by prefix, `bucketsize` that grows for
  hash:net,iface, torn reads of slots and counters; bit arrays and gc of bitmaps; counters of packets; lifetime of comments; jiffies and address arithmetic.
* `kadt` handlers and `ip_set_getport.c` take elements out of packets; `pfxlen.c` is a
  table of constants.
* Rules (`xt_set.c`, `em_ipset.c`) are holders of an index in `IpSetCore`; their
  checkentry and destroy are straight-line code per revision.
* Namespace exit, module loading and registration of types: one namespace that lives for
  ever, with all types.
* Growth of the table replaces an array in the code; `IpSetCore` has one that grows in
  place.
* Build files, tests, utilities, kernel compatibility headers.

`PROJECT.json` lists every part with its status and reason, and under "hazards" what no
property covers yet.
