------------------------------ MODULE HashSpec ------------------------------
(***************************************************************************)
(* What a set of a hash type promises: a set of elements that adds,        *)
(* deletes and timeouts change, in which a test finds an element, and      *)
(* which refuses an element as too many only when it was seen crowded.     *)
(*                                                                         *)
(* An add and a test take time: begin, in an add the judgement whether     *)
(* there is room, answer.  A test may tell what was true at any moment     *)
(* since it began, and a full set is one in which maxelem elements were at *)
(* some moment since the add began.  Nothing is promised about the other   *)
(* direction: an add that was judged to have room stores its element       *)
(* however many there are by then, and so does one that finds a slot.      *)
(***************************************************************************)
EXTENDS Integers, FiniteSets

CONSTANTS Elems, NoElem, Adders, Testers, MaxElem

VARIABLES
    forceadd,   \* the set was created with forceadd
    live,       \* the elements of the set
    adding,     \* adds under way
    testing,    \* tests under way
    answer      \* the last answer and who got it

vars == <<forceadd, live, adding, testing, answer>>

NotAdding == [pc |-> "idle", x |-> NoElem, full |-> FALSE, seen |-> {}]
NotTesting == [x |-> NoElem, in |-> FALSE, out |-> FALSE]

Init ==
    /\ forceadd \in BOOLEAN
    /\ live = {}
    /\ adding = [p \in Adders |-> NotAdding]
    /\ testing = [q \in Testers |-> NotTesting]
    /\ answer = <<NoElem, "none">>

----------------------------------------------------------------------------
\* The set becomes now; the elements of again were added, some perhaps again.
\* A test for one of these may take the entry for the earlier one, which may
\* have timed out meanwhile.
Change(now, again) ==
    /\ live' = now
    /\ testing' = [q \in Testers |->
          LET t == testing[q] IN
          IF t.x = NoElem THEN t
          ELSE [t EXCEPT !.in = @ \/ t.x \in now,
                         !.out = @ \/ t.x \notin now \/ t.x \in again]]

\* ... and adds that have not judged yet see it
Witnessed(again) ==
    [p \in Adders |-> IF adding[p].pc = "begun" THEN [adding[p] EXCEPT !.seen = @ \cup again]
                      ELSE adding[p]]

Begin(p, x) ==
    /\ adding[p].pc = "idle"
    /\ UNCHANGED <<answer, forceadd>>
    /\ \/ adding' = [adding EXCEPT ![p] =
                       [pc |-> "begun", x |-> x, full |-> FALSE, seen |-> live]]
       \/ adding' = [adding EXCEPT ![p] =
                       [pc |-> "judged", x |-> x, full |-> FALSE, seen |-> {}]]
    /\ UNCHANGED <<live, testing>>

Judge(p, full) ==
    /\ adding[p].pc = "begun"
    /\ full => Cardinality(adding[p].seen) >= MaxElem
    /\ adding' = [adding EXCEPT ![p] = [@ EXCEPT !.pc = "judged", !.full = full, !.seen = {}]]
    /\ UNCHANGED <<forceadd, live, testing, answer>>

\* The end of an add: the set becomes now
Answer(p, now, ret) ==
    /\ adding[p].pc = "judged"
    /\ answer' = <<p, ret>>
    /\ adding' = [Witnessed(now) EXCEPT ![p] = NotAdding]
    /\ Change(now, IF ret = "ok" THEN now \cap {adding[p].x} ELSE {})
    /\ UNCHANGED forceadd

\* What was there before is refused, or with -exist renewed
Stored(p) == Answer(p, live \cup {adding[p].x}, "ok")

\* With forceadd a full set gives up an element, or the new one is lost
Forced(p) ==
    /\ forceadd /\ adding[p].full /\ adding[p].x \notin live
    /\ \/ \E y \in live : Answer(p, (live \ {y}) \cup {adding[p].x}, "ok")
       \/ Answer(p, live, "ok")

Exists(p) ==
    /\ adding[p].x \in live
    /\ Answer(p, live, "exist")

Full(p) ==
    /\ adding[p].full /\ adding[p].x \notin live
    /\ Answer(p, live, "full")

\* The table has to grow first, or there is no memory
Failed(p) ==
    /\ adding[p].x \notin live
    /\ \E ret \in {"again", "nomem"} : Answer(p, live, ret)

Del(p, x) ==
    /\ adding[p].pc = "idle"
    /\ answer' = <<p, IF x \in live THEN "ok" ELSE "exist">>
    /\ UNCHANGED <<forceadd, adding>>
    /\ Change(live \ {x}, {})

Expire(x) ==
    /\ x \in live
    /\ UNCHANGED <<forceadd, adding, answer>>
    /\ Change(live \ {x}, {})

Flush ==
    /\ UNCHANGED <<forceadd, adding, answer>>
    /\ Change({}, {})

TestBegin(q, x) ==
    /\ testing[q].x = NoElem
    /\ testing' = [testing EXCEPT ![q] = [x |-> x, in |-> x \in live, out |-> x \notin live]]
    /\ UNCHANGED <<forceadd, live, adding, answer>>

TestAnswer(q, found) ==
    /\ testing[q].x # NoElem
    /\ IF found THEN testing[q].in ELSE testing[q].out
    /\ testing' = [testing EXCEPT ![q] = NotTesting]
    /\ answer' = <<q, IF found THEN "in" ELSE "out">>
    /\ UNCHANGED <<forceadd, live, adding>>

Next ==
    \/ \E p \in Adders :
          \/ \E x \in Elems : Begin(p, x)
          \/ \E full \in BOOLEAN : Judge(p, full)
          \/ Stored(p) \/ Forced(p) \/ Exists(p) \/ Full(p) \/ Failed(p)
          \/ \E x \in Elems : Del(p, x)
    \/ \E x \in Elems : Expire(x)
    \/ Flush
    \/ \E q \in Testers, x \in Elems : TestBegin(q, x)
    \/ \E q \in Testers, found \in BOOLEAN : TestAnswer(q, found)

Spec == Init /\ [][Next]_vars
=============================================================================
