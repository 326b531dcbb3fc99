------------------------------ MODULE Restore ------------------------------
(***************************************************************************)
(* ``ipset restore'' from the file to the kernel: the library reads and    *)
(* checks line by line, collects adds and deletes of one set in one        *)
(* message, and sends it when another command comes, when it is full, at   *)
(* COMMIT and at the end.  The kernel works through the elements of a      *)
(* message, of hash:ip here; in a long range and to resize a full hash it  *)
(* gives up the nfnl mutex, keeps the set by ref_netlink, and goes on      *)
(* where set->data->next says.  Other clients run whenever the mutex is    *)
(* free, packets at any time.                                              *)
(*                                                                         *)
(* The library knows the types of the sets it created (the cache) and asks *)
(* the kernel about the others, once per line.                             *)
(***************************************************************************)
EXTENDS Naturals, Sequences, FiniteSets

CONSTANTS SetNames, MaxElem, Files, Existing,
          BufSize,     \* attributes with values that fit in a message
          Batch,       \* elements handled in one go, IPSET_MAX_RANGE + 1
          MaxForeign,  \* commands of other clients
          MaxFull,     \* times a bucket is full
          SharedNext   \* packets and other clients write next as well

ASSUME RestoreAssumption ==
    /\ Existing \subseteq SetNames
    /\ {MaxElem, BufSize, Batch, MaxForeign, MaxFull} \subseteq Nat
    /\ Batch > 0 /\ BufSize > 1
    /\ SharedNext \in BOOLEAN

\* a line that was read; hash_ip4_uadt orders a range and refuses address 0
ADT == {"add", "del"}
LineType ==
    [cmd : ADT \union {"create", "destroy", "flush", "COMMIT", "bad"},
     set : SetNames \union {"none"}, from : 0..MaxElem, to : 0..MaxElem, exist : BOOLEAN]

ASSUME FilesAssumption ==
    /\ Files \subseteq Seq(LineType)
    /\ \A f \in Files : \A n \in 1..Len(f) :
         /\ f[n].cmd \in ADT => 1 <= f[n].from /\ f[n].from <= f[n].to
         /\ f[n].cmd \notin {"COMMIT", "bad"} => f[n].set \in SetNames

VARIABLES file,       \* the lines of the file
          pos,        \* lines that were read and handed over
          parsed,     \* the line after them has passed the parser
          env_exist,  \* -exist was seen; it is never unset
          cache,      \* sets this session created
          buffer,     \* the message under construction
          msg,        \* the message the kernel works on
          phase,      \* the kernel and the nfnl mutex: see TypeOK
          at,         \* the element the kernel is about to handle
          handled,    \* elements handled since the mutex was taken
          sets,       \* the kernel's sets: elements and next
          status, report,
          foreign, full   \* bounds: commands of others, full buckets

libVars == <<pos, parsed, env_exist, cache, buffer>>
kernelVars == <<msg, phase, at, handled>>
vars == <<file, libVars, kernelVars, sets, status, report, foreign, full>>

NoReport == [line |-> 0, why |-> "none"]
Empty == [lines |-> << >>, len |-> 0, cmd |-> "none", set |-> "none", exist |-> FALSE]
NewSet == [elements |-> {}, next |-> 0]

Without(f, s) == [t \in DOMAIN f \ {s} |-> f[t]]
With(f, s, v) == [t \in DOMAIN f \union {s} |-> IF t = s THEN v ELSE f[t]]

Init ==
    /\ file \in Files
    /\ pos = 0 /\ parsed = FALSE /\ env_exist = FALSE
    /\ cache = {} /\ buffer = Empty /\ msg = Empty
    /\ phase = "idle" /\ at = 0 /\ handled = 0
    /\ sets = [s \in Existing |-> NewSet]
    /\ status = "running" /\ report = NoReport
    /\ foreign = 0 /\ full = 0

(***************************************************************************)
(* The library                                                             *)
(***************************************************************************)
Line == file[pos + 1]
Reading == status = "running" /\ phase = "idle" /\ pos < Len(file)

\* an error ends the program: what is in the buffer is never sent
Fail(n, why) == status' = "failed" /\ report' = [line |-> n, why |-> why]

\* the type of a set comes from the cache or, by HEADER, from the kernel
ipset_type_get(s) == s \in cache \/ s \in DOMAIN sets

ipset_parser ==
    /\ Reading /\ ~parsed /\ Line.cmd # "COMMIT"
    /\ IF Line.cmd = "bad" \/ (Line.cmd \in ADT /\ ~ipset_type_get(Line.set))
       THEN Fail(pos + 1, "parse") /\ UNCHANGED <<parsed, env_exist>>
       ELSE /\ parsed' = TRUE /\ env_exist' = (env_exist \/ Line.exist)
            /\ UNCHANGED <<status, report>>
    /\ UNCHANGED <<file, pos, cache, buffer, kernelVars, sets, foreign, full>>

\* the room a line takes: IP, and IP_TO of a range
AttrLen(l) == IF l.from = l.to THEN 1 ELSE 2
\* mutant: nothing stops the buffer
BufferNeverFull == FALSE
BufferFull == buffer.len + AttrLen(Line) > BufSize

\* mutant: the set is not compared
AggregateAnySet == buffer.lines # << >> /\ Line.cmd = buffer.cmd
may_aggregate_ad ==
    buffer.lines # << >> /\ Line.cmd = buffer.cmd /\ Line.set = buffer.set

\* an add or a del opens a message, with the flags of this moment, or joins one
build_msg ==
    /\ Reading /\ parsed /\ Line.cmd \in ADT
    /\ \/ /\ buffer.lines = << >>
          /\ buffer' = [lines |-> <<pos + 1>>, len |-> AttrLen(Line), cmd |-> Line.cmd,
                        set |-> Line.set, exist |-> env_exist]
       \/ /\ may_aggregate_ad /\ ~BufferFull
          /\ buffer' = [buffer EXCEPT !.lines = Append(@, pos + 1),
                                      !.len = @ + AttrLen(Line)]
    /\ pos' = pos + 1 /\ parsed' = FALSE
    /\ UNCHANGED <<file, env_exist, cache, kernelVars, sets, status, report, foreign, full>>

Send(m) == msg' = m /\ phase' = "queued" /\ UNCHANGED <<at, handled>>

\* the buffer is sent before a line that cannot join it, at COMMIT and at the end
ipset_commit ==
    /\ status = "running" /\ phase = "idle" /\ buffer.lines # << >>
    /\ \/ pos = Len(file)
       \/ Reading /\ Line.cmd = "COMMIT"
       \/ Reading /\ parsed /\ (~may_aggregate_ad \/ BufferFull)
    /\ Send(buffer)
    /\ buffer' = Empty
    /\ UNCHANGED <<file, pos, parsed, env_exist, cache, sets, status, report, foreign, full>>

\* any other command is sent at once
ipset_cmd ==
    /\ Reading /\ parsed /\ Line.cmd \notin ADT /\ buffer.lines = << >>
    /\ Send([lines |-> <<pos + 1>>, len |-> 0, cmd |-> Line.cmd, set |-> Line.set,
             exist |-> env_exist])
    /\ pos' = pos + 1 /\ parsed' = FALSE
    /\ UNCHANGED <<file, env_exist, cache, buffer, sets, status, report, foreign, full>>

SkipCommit ==
    /\ Reading /\ Line.cmd = "COMMIT" /\ buffer.lines = << >>
    /\ pos' = pos + 1
    /\ UNCHANGED <<file, parsed, env_exist, cache, buffer, kernelVars, sets, status, report,
                   foreign, full>>

EndOfFile ==
    /\ status = "running" /\ phase = "idle" /\ pos = Len(file) /\ buffer.lines = << >>
    /\ status' = "done"
    /\ UNCHANGED <<file, libVars, kernelVars, sets, report, foreign, full>>

(***************************************************************************)
(* The kernel.  A message is answered before the library goes on, so the   *)
(* answer and what the library makes of it (callback_error) are one step.  *)
(***************************************************************************)
Answered == msg' = Empty /\ phase' = "idle" /\ at' = 0 /\ handled' = 0

\* the report names the line of the element, or the first of the message
Refused(why) ==
    /\ phase' = "refused"
    /\ Fail(Head(msg.lines), why)
    /\ UNCHANGED <<msg, at, handled, cache, sets>>
Acknowledged == Answered /\ UNCHANGED <<status, report>>

KernelStep == UNCHANGED <<file, pos, parsed, env_exist, buffer, foreign>>

ip_set_create ==
    /\ phase = "queued" /\ msg.cmd = "create"
    /\ IF msg.set \in DOMAIN sets /\ ~msg.exist THEN Refused("exist")
       ELSE /\ Acknowledged
            /\ sets' = IF msg.set \in DOMAIN sets THEN sets ELSE With(sets, msg.set, NewSet)
            /\ cache' = cache \union {msg.set}
    /\ KernelStep /\ UNCHANGED full

ip_set_destroy ==
    /\ phase = "queued" /\ msg.cmd = "destroy"
    /\ IF msg.set \notin DOMAIN sets /\ ~msg.exist THEN Refused("missing")
       ELSE /\ Acknowledged
            /\ sets' = Without(sets, msg.set)
            /\ cache' = cache \ {msg.set}
    /\ KernelStep /\ UNCHANGED full

ip_set_flush ==
    /\ phase = "queued" /\ msg.cmd = "flush"
    /\ IF msg.set \notin DOMAIN sets THEN Refused("missing")
       ELSE /\ Acknowledged
            /\ sets' = [sets EXCEPT ![msg.set].elements = {}]
            /\ UNCHANGED cache
    /\ KernelStep /\ UNCHANGED full

\* add and del: the set is looked up once for the whole message
ip_set_ad ==
    /\ phase = "queued" /\ msg.cmd \in ADT
    /\ IF msg.set \notin DOMAIN sets THEN Refused("missing")
       ELSE /\ phase' = "held" /\ at' = file[Head(msg.lines)].from /\ handled' = 0
            /\ UNCHANGED <<msg, cache, sets, status, report>>
    /\ KernelStep /\ UNCHANGED full

Element == file[Head(msg.lines)]
Working == phase = "held" /\ at <= Element.to
Present == at \in sets[msg.set].elements

\* one turn of the loop of hash_ip4_uadt
hash_ip4_uadt ==
    /\ Working /\ handled < Batch
    /\ IF Present = (msg.cmd = "add") /\ ~msg.exist
       THEN Refused(IF Present THEN "exist" ELSE "missing")
       ELSE /\ sets' = [sets EXCEPT ![msg.set].elements =
                           IF msg.cmd = "add" THEN @ \union {at} ELSE @ \ {at}]
            /\ at' = at + 1 /\ handled' = handled + 1
            /\ UNCHANGED <<msg, phase, cache, status, report>>
    /\ KernelStep /\ UNCHANGED full

\* the mutex is released with the set pinned
\* mutant: the range starts again
RangeStart == sets' = [sets EXCEPT ![msg.set].next = Element.from]
hash_ip4_data_next == sets' = [sets EXCEPT ![msg.set].next = at]
ReleaseNfnl ==
    /\ hash_ip4_data_next
    /\ phase' = "released"
    /\ UNCHANGED <<msg, at, handled, cache, status, report>>

\* a range longer than one batch: ERANGE
RangeBatch ==
    /\ Working /\ handled = Batch
    /\ ReleaseNfnl
    /\ KernelStep /\ UNCHANGED full

\* a full bucket: EAGAIN, and a resize that succeeds or does not
BucketFull ==
    /\ Working /\ handled < Batch /\ msg.cmd = "add" /\ ~Present
    /\ full < MaxFull /\ full' = full + 1
    /\ ReleaseNfnl \/ Refused("full")
    /\ KernelStep

\* what next holds by then: a packet that adds and meets a full bucket, and
\* another client released in a range, leave their elements there
NextFound == {sets[msg.set].next} \union (IF SharedNext THEN 1..MaxElem ELSE {})

\* CALL_AD comes back for the mutex and tries again, where next says
CALL_AD ==
    /\ phase = "released"
    /\ phase' = "held" /\ handled' = 0
    /\ at' \in NextFound
    /\ KernelStep /\ UNCHANGED <<msg, cache, sets, status, report, full>>

NextElement ==
    /\ phase = "held" /\ at > Element.to
    /\ IF Len(msg.lines) = 1 THEN Acknowledged
       ELSE /\ msg' = [msg EXCEPT !.lines = Tail(@)]
            /\ at' = file[msg.lines[2]].from /\ handled' = 0
            /\ UNCHANGED <<phase, status, report>>
    /\ KernelStep /\ UNCHANGED <<cache, sets, full>>

(***************************************************************************)
(* The others                                                              *)
(***************************************************************************)
Pinned(s) == phase = "released" /\ s = msg.set

\* packets add and delete at any time, other clients when the mutex is free
Foreign ==
    /\ foreign < MaxForeign /\ foreign' = foreign + 1
    /\ \/ \E s \in DOMAIN sets, n \in 1..MaxElem :
            \/ sets' = [sets EXCEPT ![s].elements = @ \union {n}]
            \/ sets' = [sets EXCEPT ![s].elements = @ \ {n}]
       \/ phase # "held" /\ \E s \in SetNames \ DOMAIN sets : sets' = With(sets, s, NewSet)
       \/ phase # "held" /\ \E s \in DOMAIN sets : ~Pinned(s) /\ sets' = Without(sets, s)
    /\ UNCHANGED <<file, libVars, kernelVars, status, report, full>>

Library ==
    \/ ipset_parser \/ build_msg \/ ipset_commit \/ ipset_cmd \/ SkipCommit \/ EndOfFile
Kernel ==
    \/ ip_set_create \/ ip_set_destroy \/ ip_set_flush \/ ip_set_ad
    \/ hash_ip4_uadt \/ RangeBatch \/ BucketFull \/ CALL_AD \/ NextElement

Next == Library \/ Kernel \/ Foreign

\* both sides go on by themselves: the library is a plain loop, the kernel's
\* mutex is released by every other command in the end
Spec == Init /\ [][Next]_vars /\ WF_vars(Library) /\ WF_vars(Kernel)

(***************************************************************************)
(* Properties                                                              *)
(***************************************************************************)
Consecutive(lines) == \A i \in 1..(Len(lines) - 1) : lines[i + 1] = lines[i] + 1

\* the lines of a message follow each other, agree with its header, and fit
MessageOK(m) ==
    /\ m.len <= BufSize
    /\ Consecutive(m.lines)
    /\ \A i \in 1..Len(m.lines) :
         m.lines[i] <= pos /\ file[m.lines[i]].cmd = m.cmd /\ file[m.lines[i]].set = m.set

\* types, bounds, and the form of messages
TypeOK ==
    /\ file \in Files /\ pos \in 0..Len(file)
    /\ parsed \in BOOLEAN /\ env_exist \in BOOLEAN /\ cache \subseteq SetNames
    /\ MessageOK(buffer) /\ MessageOK(msg)
    /\ phase \in {"idle", "queued", "held", "released", "refused"}
    /\ (phase = "idle") = (msg = Empty)
    /\ at \in 0..(MaxElem + 1) /\ handled \in 0..Batch
    /\ DOMAIN sets \subseteq SetNames
    /\ \A s \in DOMAIN sets : sets[s].elements \subseteq 1..MaxElem
    /\ status \in {"running", "done", "failed"}
    /\ report.line \in 0..Len(file)
    /\ foreign \in 0..MaxForeign /\ full \in 0..MaxFull

\* the first line that has not taken effect, and its element
FirstPending ==
    CASE msg.lines # << >> -> Head(msg.lines)
      [] msg.lines = << >> /\ buffer.lines # << >> -> Head(buffer.lines)
      [] OTHER -> pos + 1
FirstOf(n) == IF n \in 1..Len(file) /\ file[n].cmd \in ADT THEN file[n].from ELSE 0
PendingElement == IF at # 0 THEN at ELSE FirstOf(FirstPending)
InKernel == [s \in DOMAIN sets |-> sets[s].elements]

(***************************************************************************)
(* The promise of the manual: the lines take effect in order, each element *)
(* once, in spite of messages that collect lines, full buffers, batches    *)
(* and resizes that release the mutex, and other clients; and the line     *)
(* reported is the first that did not take effect, or one the library      *)
(* refused.                                                                *)
(***************************************************************************)
Promise == INSTANCE RestoreSpec
             WITH elements <- InKernel,
                  line <- FirstPending,
                  elem <- PendingElement
InOrder == Promise!Spec

\* a restore comes to an end: no batch and no resize is repeated for ever
Ends == <>(status # "running")

(***************************************************************************)
(* next is ``temporary storage for uadd'' (ip_set_hash_gen.h:305): what an *)
(* add leaves in the sets are elements of lines of the file, or of others. *)
(***************************************************************************)
Asked(s) ==
    UNION {file[i].from..file[i].to : i \in {j \in 1..Len(file) : file[j].cmd = "add" /\ file[j].set = s}}
OnlyAsked == foreign = 0 => \A s \in DOMAIN sets : sets[s].elements \subseteq Asked(s)

=============================================================================
