---------------------------- MODULE RestoreSpec ----------------------------
(***************************************************************************)
(* What ``ipset restore'' promises: the lines of the file take effect in   *)
(* their order, every element of every line exactly once, while other      *)
(* clients change the sets in between.  The first line the kernel refuses  *)
(* ends the restore and is the one that is reported.                       *)
(*                                                                         *)
(* One case is weaker.  A line the library itself refuses ends the restore *)
(* when it is read, and that may be before the lines ahead of it took      *)
(* effect: the adds and deletes that were still being collected are lost.  *)
(*                                                                         *)
(* A line is a command with a set and, for add and del, the range of       *)
(* elements from..to.  The kernel's sets are a function from the names in  *)
(* use to the elements.                                                    *)
(***************************************************************************)
EXTENDS Naturals, Sequences, FiniteSets

CONSTANTS SetNames,   \* names of sets
          MaxElem,    \* elements are numbers up to this one
          Files,      \* the files to restore
          Existing    \* the sets that exist before the restore, all empty

VARIABLES file,       \* the file that is restored
          elements,   \* the sets of the kernel
          line,       \* the line whose turn it is
          elem,       \* the element of this line whose turn it is
          status,     \* running, done or failed
          report      \* the line that is reported and why

vars == <<file, elements, line, elem, status, report>>

ADT == {"add", "del"}
Range(l) == l.from..l.to
NoReport == [line |-> 0, why |-> "none"]

At(n) == IF n \in DOMAIN file /\ file[n].cmd \in ADT THEN file[n].from ELSE 0
Midway == status = "running" /\ line \in DOMAIN file /\ elem # At(line)

\* -exist holds for the line it is on and for those after it
Tolerant(n) == \E k \in 1..n : k \in DOMAIN file /\ file[k].exist

Init ==
    /\ file \in Files
    /\ elements = [s \in Existing |-> {}]
    /\ line = 1 /\ elem = At(1)
    /\ status = "running" /\ report = NoReport

Running(cmds) == status = "running" /\ line \in DOMAIN file /\ file[line].cmd \in cmds

NextLine == line' = line + 1 /\ elem' = At(line + 1)

\* one element of an add or a del
Element ==
    /\ Running(ADT)
    /\ LET l == file[line]
       IN  /\ l.set \in DOMAIN elements
           /\ elem \in Range(l)
           /\ (elem \in elements[l.set]) # (l.cmd = "del") => Tolerant(line)
           /\ elements' = [elements EXCEPT ![l.set] =
                              IF l.cmd = "add" THEN @ \union {elem} ELSE @ \ {elem}]
    /\ elem' = elem + 1
    /\ UNCHANGED <<file, line, status, report>>

LastElement ==
    /\ Running(ADT)
    /\ elem > file[line].to
    /\ NextLine
    /\ UNCHANGED <<file, elements, status, report>>

\* the commands that take effect as a whole; COMMIT has no effect
Create ==
    /\ Running({"create"})
    /\ LET s == file[line].set
       IN  IF s \in DOMAIN elements
           THEN Tolerant(line) /\ UNCHANGED elements
           ELSE elements' = [t \in DOMAIN elements \union {s} |->
                               IF t = s THEN {} ELSE elements[t]]
    /\ NextLine
    /\ UNCHANGED <<file, status, report>>

Destroy ==
    /\ Running({"destroy"})
    /\ file[line].set \in DOMAIN elements \/ Tolerant(line)
    /\ elements' = [t \in DOMAIN elements \ {file[line].set} |-> elements[t]]
    /\ NextLine
    /\ UNCHANGED <<file, status, report>>

Flush ==
    /\ Running({"flush"})
    /\ file[line].set \in DOMAIN elements
    /\ elements' = [elements EXCEPT ![file[line].set] = {}]
    /\ NextLine
    /\ UNCHANGED <<file, status, report>>

Commit ==
    /\ Running({"COMMIT"})
    /\ NextLine
    /\ UNCHANGED <<file, elements, status, report>>

Finish ==
    /\ status = "running" /\ line = Len(file) + 1
    /\ status' = "done"
    /\ UNCHANGED <<file, elements, line, elem, report>>

\* the kernel refuses the line whose turn it is
Refuse ==
    /\ Running(ADT \union {"create", "destroy", "flush"})
    /\ status' = "failed"
    /\ \E why \in {"exist", "missing", "full"} : report' = [line |-> line, why |-> why]
    /\ UNCHANGED <<file, elements, line, elem>>

\* the library refuses line n, with the lines before it still collected
Reject ==
    /\ status = "running"
    /\ \E n \in line..Len(file) :
         /\ \A k \in line..(n - 1) : file[k].cmd \in ADT /\ file[k].set = file[line].set
         /\ file[n].cmd = "bad" \/ (file[n].cmd \in ADT /\ file[n].set \notin DOMAIN elements)
         /\ report' = [line |-> n, why |-> "parse"]
    /\ status' = "failed"
    /\ UNCHANGED <<file, elements, line, elem>>

\* another client; the set of a line that is half done stays
Others ==
    /\ \/ \E s \in DOMAIN elements, n \in 1..MaxElem :
            \/ elements' = [elements EXCEPT ![s] = @ \union {n}]
            \/ elements' = [elements EXCEPT ![s] = @ \ {n}]
       \/ \E s \in SetNames \ DOMAIN elements :
            elements' = [t \in DOMAIN elements \union {s} |->
                           IF t = s THEN {} ELSE elements[t]]
       \/ \E s \in DOMAIN elements :
            /\ Midway => s # file[line].set
            /\ elements' = [t \in DOMAIN elements \ {s} |-> elements[t]]
    /\ UNCHANGED <<file, line, elem, status, report>>

Next ==
    \/ Element \/ LastElement \/ Create \/ Destroy \/ Flush \/ Commit
    \/ Finish \/ Refuse \/ Reject \/ Others

Spec == Init /\ [][Next]_vars

=============================================================================
