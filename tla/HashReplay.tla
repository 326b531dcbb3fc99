------------------------------ MODULE HashReplay ------------------------------
(***************************************************************************)
(* What the set holds after its resizes, in any order of commands, packets *)
(* and timeouts and with every failure.                                    *)
(*                                                                         *)
(* A packet that adds or deletes while the set is resized saves the        *)
(* operation in h->ad, and mtype_resize repeats on the new table first the *)
(* deletes, then the adds.  That is not always the order they were done    *)
(* in, and some operations are not saved or not repeated at all.  The      *)
(* history variable muddled collects the elements this happened to, and    *)
(* miscounted the prefix sizes whose count went wrong; no action of        *)
(* HashResize reads them.                                                  *)
(***************************************************************************)
EXTENDS HashResize

VARIABLES
    muddled,    \* elements whose operations were lost or cannot be repeated
                \* in their order
    miscounted  \* prefix sizes that h->nets has counted down too often

replayVars == <<vars, muddled, miscounted>>

\* Packet p is about to save its operation.  An add looks at t->ref first
Pending(p) ==
    user[p].pc = "log" /\ (user[p].op = "del" \/ ref[user[p].t] = 1)

Operations == {ad[i] : i \in DOMAIN ad}

\* An operation op on x is in h->ad or on its way there
Saves(x, op) ==
    \/ [op |-> op, x |-> x] \in Operations
    \/ \E p \in Packets : Pending(p) /\ user[p].op = op /\ user[p].x = x

\* Repeated as h->ad is, deletes before adds, the operations on x give what
\* they gave when they were done
InTurn(x) ==
    IF Saves(x, "add") THEN x \in want ELSE Saves(x, "del") => x \notin want

\* There is no memory to save what packet p did
Forgotten(p) ==
    "nomem" \in Faults /\ Pending(p) /\ user'[p].pc # "log" /\ ad' = ad

\* The operation at the head of h->ad is repeated; if it is an add it meets a
\* full bucket of the new table
Repeats == resize.pc = "replay" /\ ad # <<>> /\ ad' = Tail(ad)
Unrepeated ==
    Repeats /\ Head(ad).op = "add" /\ entry'[table][Head(ad).x] # "live"

Lost(x) ==
    \/ \E p \in Packets : Forgotten(p) /\ user[p].x = x
    \/ Unrepeated /\ Head(ad).x = x

\* Only what others do can bring operations out of turn, not the repetition
Muddle ==
    muddled' = muddled \cup
       {x \in Elems : Lost(x) \/ (~ Repeats /\ ~ InTurn(x)')}

\* Entries that leave table t in this step
Removed(t) == {x \in Elems : entry[t][x] # "no" /\ entry'[t][x] = "no"}

\* h->nets counts for one table: during a resize an entry is counted once and
\* held twice, and a replaced table may still be swept
TwoTables(t) == t # table \/ resize.orig # NULL

\* The end of a flush forgets what packets have added since it emptied the table
Forgets(x) == flushing /\ ~ flushing' /\ entry[table][x] # "no"

Miscount ==
    miscounted' = miscounted \cup
       {Cidr[x] : x \in {y \in Elems :
           Forgets(y) \/ \E t \in memory : TwoTables(t) /\ y \in Removed(t)}}

ReplayInit == Init /\ muddled = {} /\ miscounted = {}
ReplayNext == QuietNext /\ Muddle /\ Miscount
ReplaySpec == ReplayInit /\ [][ReplayNext]_replayVars

----------------------------------------------------------------------------
(* Properties                                                              *)

\* At rest the set holds of every element what the operations on it left,
\* those of packets during a resize included ("Add/delete elements processed
\* by the SET target during resize"), unless they were lost or out of turn
SettledExact ==
    Idle => \A x \in Elems \ muddled :
               entry[table][x] = "live" <=> x \in want

\* A stored network is found by mtype_test_cidrs: its prefix size is booked,
\* unless entries of that size were removed while two tables held them, or
\* added while the set was flushed
CidrBooked ==
    Idle => \A x \in Elems :
       entry[table][x] = "live" /\ Cidr[x] \notin miscounted => nets[Cidr[x]] > 0
=============================================================================
