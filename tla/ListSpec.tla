------------------------------ MODULE ListSpec ------------------------------
(***************************************************************************)
(* What a list:set set promises: an ordered list of distinct set names     *)
(* (their indices here).  Names are appended or put right before or after  *)
(* another one, deleted and tested, by themselves or by their place; a     *)
(* name that was added with a timeout leaves the list at some time.        *)
(*                                                                         *)
(* Two cases are weaker than the words ``before'' and ``after''.  A name   *)
(* may time out while a command works, then it is the list with or without *)
(* it that decides, and a new name takes the place of one that timed out   *)
(* on the other side of the name it refers to.  And between a timeout and  *)
(* the next sweep a test with ``before'' may answer anything.              *)
(***************************************************************************)
EXTENDS Naturals, SequencesExt, Picking

CONSTANTS Ids,      \* indices of sets that can be members
          ListId,   \* the index of a set that can not
          Nobody    \* no index

VARIABLES order,   \* the list
          tidy,    \* nothing has timed out since the last sweep
          answer   \* the last command and its answer

vars == <<order, tidy, answer>>

Sides == {"last", "before", "after"}
Listed(x, list) == x \in ToSet(list)
Place(x, list) == CHOOSE i \in DOMAIN list : list[i] = x
Without(x, list) == Picked(list, {i \in DOMAIN list : list[i] # x})

Follows(x, y, list) == \E i \in 1..(Len(list) - 1) : list[i] = x /\ list[i + 1] = y
At(x, side, reference, list) ==
    CASE side = "last" -> Listed(x, list)
      [] side = "before" -> Follows(x, reference, list)
      [] side = "after" -> Follows(reference, x, list)

Put(x, side, reference, list) ==
    CASE side = "last" -> Append(list, x)
      [] side = "before" -> InsertAt(list, Place(reference, list), x)
      [] side = "after" -> InsertAt(list, Place(reference, list) + 1, x)

Said(cmd, x, side, reference, ret) ==
    [ask |-> <<cmd, x, side, reference>>, ret |-> ret]
Asked(cmd, x, side, reference) == answer' = Said(cmd, x, side, reference, answer'.ret)

Init == order = << >> /\ tidy = TRUE /\ answer = Said("none", Nobody, "last", Nobody, "none")

TimeOut(x) ==
    /\ Listed(x, order)
    /\ order' = Without(x, order)
    /\ tidy' = FALSE
    /\ UNCHANGED answer

Sweep == tidy' = TRUE /\ UNCHANGED <<order, answer>>

\* a command that names no set, a list:set set or no reference
Reasons(x, side) ==
    CASE x = Nobody -> {"NAME"}
      [] x = ListId -> {"LOOP"}
      [] x \in Ids /\ side = "before" -> {"BEFORE", "NAMEREF"}
      [] x \in Ids /\ side = "after" -> {"NAMEREF"}
      [] OTHER -> {}

Refuse(cmd, x, side) ==
    /\ Asked(cmd, x, side, Nobody)
    /\ Reasons(x, side) # {}
    /\ answer'.ret \in IF cmd = "test" THEN {"no"} ELSE Reasons(x, side)
    /\ UNCHANGED <<order, tidy>>

(***************************************************************************)
(* late may time out during the command; seen is the list it looks at.     *)
(***************************************************************************)
Late == {Nobody} \union ToSet(order)
Views(late) == {order, Without(late, order)}
Swept(late) == IF late = Nobody THEN tidy' = TRUE ELSE tidy' \in BOOLEAN

Displaces(late, side, reference) ==
    \/ side = "before" /\ Follows(reference, late, order)
    \/ side = "after" /\ Follows(late, reference, order)
OtherSide(side) == IF side = "before" THEN "after" ELSE "before"

\* a name that is on the list already stays where it is; with -exist its
\* timeout starts again
Outcomes(x, side, reference, late, seen) ==
    LET actual == IF Displaces(late, side, reference) THEN OtherSide(side) ELSE side
        placed == Put(x, actual, reference, seen)
        left == Without(late, order)
    IN  IF side # "last" /\ (reference = x \/ ~Listed(reference, seen))
        THEN {<<"REF_EXIST", left>>}
        ELSE IF Listed(x, seen)
        THEN {<<"EXIST", left>>, <<"ok", IF late = x THEN order ELSE left>>}
        ELSE {<<"ENOMEM", left>>,
              <<"ok", IF Listed(late, seen) THEN Without(late, placed) ELSE placed>>}

Add(x, side, reference) ==
    /\ Asked("add", x, side, reference)
    /\ \E late \in Late : \E seen \in Views(late) :
         /\ <<answer'.ret, order'>> \in Outcomes(x, side, reference, late, seen)
         /\ Swept(late)

DelAnswers(x, side, reference, seen, looked) ==
    CASE Listed(x, seen) /\ At(x, side, reference, looked) -> {"ok"}
      [] side = "last" /\ ~Listed(x, seen) -> {"ok", "EXIST"}
      [] side # "last" /\ ~(Listed(x, seen) /\ At(x, side, reference, looked)) -> {"REF_EXIST"}
      [] OTHER -> {}

Del(x, side, reference) ==
    /\ Asked("del", x, side, reference)
    /\ \E late \in Late : \E seen, looked \in Views(late) :
         /\ answer'.ret \in DelAnswers(x, side, reference, seen, looked)
         /\ order' = LET left == Without(late, order)
                     IN  IF answer'.ret = "ok" THEN Without(x, left) ELSE left
         /\ Swept(late)

Test(x, side, reference) ==
    /\ Asked("test", x, side, reference)
    /\ \/ answer'.ret = IF At(x, side, reference, order) THEN "yes" ELSE "no"
       \/ ~tidy /\ side = "before" /\ Listed(x, order) /\ answer'.ret \in {"yes", "no"}
    /\ UNCHANGED <<order, tidy>>

Flush ==
    /\ order' = << >> /\ tidy' = TRUE
    /\ answer' = Said("flush", Nobody, "last", Nobody, "ok")

Next ==
    \/ Sweep \/ Flush
    \/ \E x \in Ids : TimeOut(x)
    \/ \E cmd \in {"add", "del", "test"}, x \in Ids \union {ListId, Nobody}, side \in Sides :
         Refuse(cmd, x, side)
    \/ \E x \in Ids, reference \in Ids \union {ListId, Nobody}, side \in Sides :
         /\ (side = "last") = (reference = Nobody)
         /\ Test(x, side, reference) \/ Del(x, side, reference) \/ Add(x, side, reference)

Spec == Init /\ [][Next]_vars
==============================================================================
