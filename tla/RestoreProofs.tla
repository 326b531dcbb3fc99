---------------------------- MODULE RestoreProofs ----------------------------
(***************************************************************************)
(* Proofs about Restore, for any files, sets and elements, any size of the *)
(* messages and of a batch, and any number of commands of other clients:   *)
(* its types, and that lines take effect in order as RestoreSpec says,     *)
(* when nothing else writes what a retry reads (SharedNext).               *)
(***************************************************************************)
EXTENDS Restore, SequenceTheorems, TLAPS

----------------------------------------------------------------------------
(* The invariant                                                           *)

Plain == {"create", "destroy", "flush"}
SetType == [elements : SUBSET (1 .. MaxElem), next : 0 .. MaxElem]
MsgType ==
    [lines : Seq(Nat), len : Nat, cmd : ADT \union Plain \union {"none"},
     set : SetNames \union {"none"}, exist : BOOLEAN]

\* -exist is on a line up to line n of file f
Tolerated(f, n) == \E k \in 1 .. n : k \in DOMAIN f /\ f[k].exist

\* A message that is not empty holds the lines up to line p: the library reads on
\* only when the message before it was answered.  Nothing is tolerated that the
\* lines up to its first do not allow
Holds(f, m, p) ==
    /\ m \in MsgType /\ m.len <= BufSize
    /\ \A i \in 1 .. Len(m.lines) :
          /\ m.lines[i] = p + i - Len(m.lines) /\ m.lines[i] \in 1 .. p
          /\ f[m.lines[i]].cmd = m.cmd /\ f[m.lines[i]].set = m.set
    /\ m.lines = << >> => m = Empty
    /\ m.lines # << >> => /\ m.cmd \in ADT \/ (m.cmd \in Plain /\ Len(m.lines) = 1)
                          /\ m.exist => Tolerated(f, m.lines[1])

Typed(f) == f \in [DOMAIN f -> SetType] /\ DOMAIN f \subseteq SetNames

Types ==
    /\ file \in Files /\ pos \in 0 .. Len(file)
    /\ parsed \in BOOLEAN /\ env_exist \in BOOLEAN /\ cache \subseteq SetNames
    /\ Typed(sets)
    /\ status \in {"running", "done", "failed"}
    /\ report \in [line : 0 .. Len(file), why : {"none", "parse", "exist", "missing", "full"}]
    /\ foreign \in 0 .. MaxForeign /\ full \in 0 .. MaxFull
    /\ at \in 0 .. (MaxElem + 1) /\ handled \in 0 .. Batch
    /\ phase \in {"idle", "queued", "held", "released", "refused"}

\* Only one side works at a time
Sides ==
    /\ phase = "idle" <=> msg.lines = << >>
    /\ phase # "idle" => buffer.lines = << >>
    /\ status = "running" => phase # "refused"
    /\ status # "running" => phase \in {"idle", "refused"}

\* What the parser passed is no COMMIT; -exist was on a line that was read
Parsed ==
    /\ parsed => pos < Len(file) /\ Line.cmd \in ADT \union Plain
    /\ env_exist => Tolerated(file, IF parsed THEN pos + 1 ELSE pos)

\* The set the kernel works on is there, and a retry finds an element of it
Busy ==
    /\ phase \in {"idle", "queued"} => at = 0
    /\ phase \in {"held", "released"} =>
          /\ msg.cmd \in ADT /\ msg.set \in DOMAIN sets
          /\ at # 0
          /\ phase = "released" => sets[msg.set].next # 0

\* The kernel is inside the range of its line, and goes on where it stopped
InRange ==
    ~ SharedNext /\ phase \in {"held", "released"} =>
       /\ at \in Element.from .. (Element.to + 1)
       /\ phase = "released" => at <= Element.to /\ sets[msg.set].next = at

Inv ==
    /\ Types /\ Sides /\ Parsed /\ Busy /\ InRange
    /\ Holds(file, buffer, pos) /\ Holds(file, msg, pos)
    /\ buffer.lines # << >> => buffer.cmd \in ADT

----------------------------------------------------------------------------
(* Files and messages                                                      *)

LEMMA FileType ==
    ASSUME NEW f \in Files
    PROVE  /\ f \in Seq(LineType) /\ Len(f) \in Nat /\ DOMAIN f = 1 .. Len(f)
           /\ \A n \in 1 .. Len(f) :
                /\ f[n] \in LineType
                /\ f[n].cmd \in ADT => 1 <= f[n].from /\ f[n].from <= f[n].to
                /\ f[n].cmd \in ADT \union Plain => f[n].set \in SetNames
                /\ f[n].from \in 0 .. MaxElem /\ f[n].to \in 0 .. MaxElem
                /\ f[n].exist \in BOOLEAN
<1>1. f \in Seq(LineType)
  BY FilesAssumption
<1>2. Len(f) \in Nat /\ DOMAIN f = 1 .. Len(f)
      /\ \A n \in 1 .. Len(f) : f[n] \in LineType
  BY <1>1
<1>3. \A l \in LineType : l.from \in 0 .. MaxElem /\ l.to \in 0 .. MaxElem /\ l.exist \in BOOLEAN
  BY DEF LineType
<1>4. \A n \in 1 .. Len(f) :
        /\ f[n].cmd \in ADT => 1 <= f[n].from /\ f[n].from <= f[n].to
        /\ f[n].cmd \in ADT \union Plain => f[n].set \in SetNames
  BY FilesAssumption DEF ADT, Plain
<1> QED
  BY <1>1, <1>2, <1>3, <1>4

LEMMA MsgFields ==
    ASSUME NEW m \in MsgType
    PROVE  /\ m.lines \in Seq(Nat) /\ m.len \in Nat /\ m.exist \in BOOLEAN
           /\ m.cmd \in ADT \union Plain \union {"none"} /\ m.set \in SetNames \union {"none"}
           /\ m = [lines |-> m.lines, len |-> m.len, cmd |-> m.cmd, set |-> m.set,
                   exist |-> m.exist]
           /\ Len(m.lines) \in Nat
           /\ m.lines # << >> <=> Len(m.lines) # 0
<1>1. m.lines \in Seq(Nat) /\ m.len \in Nat /\ m.exist \in BOOLEAN
      /\ m.cmd \in ADT \union Plain \union {"none"} /\ m.set \in SetNames \union {"none"}
  BY DEF MsgType
<1>2. m = [lines |-> m.lines, len |-> m.len, cmd |-> m.cmd, set |-> m.set, exist |-> m.exist]
  BY DEF MsgType
<1>3. Len(m.lines) \in Nat /\ (m.lines # << >> <=> Len(m.lines) # 0)
  BY <1>1, EmptySeq
<1> QED
  BY <1>1, <1>2, <1>3

LEMMA EmptyHolds ==
    ASSUME NEW f, NEW p \in Nat
    PROVE  Holds(f, Empty, p) /\ Empty.lines = << >>
BY RestoreAssumption DEF Holds, Empty, MsgType

LEMMA TolerantMore ==
    ASSUME NEW f, NEW n \in Nat, NEW k \in Nat, n <= k, Tolerated(f, n)
    PROVE  Tolerated(f, k)
BY DEF Tolerated

\* A message is opened by the line that was parsed
LEMMA Opened ==
    ASSUME NEW f \in Files, NEW p \in 1 .. Len(f), f[p].cmd \in ADT \union Plain,
           NEW len \in Nat, len <= BufSize, NEW e \in BOOLEAN, e => Tolerated(f, p), NEW m,
           m = [lines |-> <<p>>, len |-> len, cmd |-> f[p].cmd, set |-> f[p].set, exist |-> e]
    PROVE  Holds(f, m, p) /\ m.lines # << >> /\ m.cmd = f[p].cmd
<1> DEFINE l == f[p]
<1>5. m = [lines |-> <<p>>, len |-> len, cmd |-> l.cmd, set |-> l.set, exist |-> e]
  OBVIOUS
<1>1. p \in Nat /\ l = f[p]
  BY FileType
<1>2. l.cmd \in ADT \union Plain /\ l.set \in SetNames
  BY <1>1, FileType
<1> HIDE DEF l
<1>3. m \in MsgType /\ m.lines = <<p>> /\ m.len = len /\ m.cmd = l.cmd /\ m.set = l.set
      /\ m.exist = e
  BY <1>1, <1>2, <1>5 DEF MsgType
<1>4. Len(m.lines) = 1 /\ m.lines[1] = p /\ m.lines # << >>
  BY <1>3
<1>6. Holds(f, m, p)
  BY <1>1, <1>2, <1>3, <1>4 DEF Holds
<1> QED
  BY <1>3, <1>4, <1>6 DEF l

\* A line joins a message
Joining(b, p, len) == [b EXCEPT !.lines = Append(@, p), !.len = len]

LEMMA Joined ==
    ASSUME NEW f \in Files, NEW p \in 1 .. Len(f), NEW b, Holds(f, b, p - 1), b.lines # << >>,
           b.cmd \in ADT, f[p].cmd = b.cmd, f[p].set = b.set, NEW len \in Nat, len <= BufSize
    PROVE  /\ Holds(f, Joining(b, p, len), p) /\ Joining(b, p, len).lines # << >>
           /\ Joining(b, p, len).cmd = b.cmd
<1>0. PICK m : m = Joining(b, p, len)
  OBVIOUS
<1>1. p \in Nat
  BY FileType
<1>2. b \in MsgType /\ b.lines \in Seq(Nat) /\ Len(b.lines) \in Nat \ {0}
  BY MsgFields DEF Holds
<1>9. Append(b.lines, p) \in Seq(Nat)
  BY <1>1, <1>2
<1>3. /\ m \in MsgType /\ m.lines = Append(b.lines, p) /\ m.len = len /\ m.cmd = b.cmd
      /\ m.set = b.set /\ m.exist = b.exist
  BY <1>0, <1>2, <1>9 DEF MsgType, Joining
<1>4. /\ Len(m.lines) = Len(b.lines) + 1 /\ m.lines[Len(b.lines) + 1] = p
      /\ \A i \in 1 .. Len(b.lines) : m.lines[i] = b.lines[i]
      /\ Len(b.lines) \in Nat \ {0}
  BY <1>1, <1>2, <1>3
<1>5. \A i \in 1 .. Len(m.lines) :
          /\ m.lines[i] = p + i - Len(m.lines) /\ m.lines[i] \in 1 .. p
          /\ f[m.lines[i]].cmd = m.cmd /\ f[m.lines[i]].set = m.set
  <2> SUFFICES ASSUME NEW i \in 1 .. Len(m.lines)
               PROVE  /\ m.lines[i] = p + i - Len(m.lines) /\ m.lines[i] \in 1 .. p
                      /\ f[m.lines[i]].cmd = m.cmd /\ f[m.lines[i]].set = m.set
    OBVIOUS
  <2>1. CASE i = Len(b.lines) + 1
    BY <1>1, <1>3, <1>4, <2>1
  <2>2. CASE i # Len(b.lines) + 1
    <3>1. i \in 1 .. Len(b.lines)
      BY <1>4, <2>2
    <3>2. /\ b.lines[i] = (p - 1) + i - Len(b.lines) /\ b.lines[i] \in 1 .. p - 1
          /\ f[b.lines[i]].cmd = b.cmd /\ f[b.lines[i]].set = b.set
      BY <3>1 DEF Holds
    <3>3. m.lines[i] = b.lines[i] /\ Len(m.lines) = Len(b.lines) + 1
      BY <1>4, <3>1
    <3>4. (p - 1) + i - Len(b.lines) = p + i - Len(m.lines)
      <4>1. PICK k \in Nat : k = Len(b.lines)
        BY <1>2
      <4>2. Len(m.lines) = k + 1
        BY <3>3, <4>1
      <4>3. i \in Int /\ (p - 1) + i - k = p + i - (k + 1)
        BY <1>1, <3>1
      <4> QED
        BY <4>1, <4>2, <4>3, Zenon
    <3>5. b.lines[i] \in 1 .. p
      BY <1>1, <3>2
    <3> QED
      BY <1>3, <3>2, <3>3, <3>4, <3>5
  <2> QED
    BY <2>1, <2>2
<1>6. m.lines # << >> /\ m.lines[1] = b.lines[1]
  BY <1>4
<1>7. m.exist => Tolerated(f, m.lines[1])
  BY <1>3, <1>6 DEF Holds
<1>8. Holds(f, m, p)
  BY <1>3, <1>5, <1>6, <1>7 DEF Holds
<1> QED
  BY <1>0, <1>3, <1>6, <1>8

\* The lines of a message without the first
LEMMA TailLines ==
    ASSUME NEW s \in Seq(Nat), NEW p \in Nat, s # << >>, Len(s) # 1,
           \A i \in 1 .. Len(s) : s[i] = p + i - Len(s) /\ s[i] \in 1 .. p
    PROVE  /\ Tail(s) \in Seq(Nat) /\ Tail(s) # << >> /\ Len(Tail(s)) = Len(s) - 1
           /\ Len(s) \in Nat /\ Len(s) > 1
           /\ Tail(s)[1] = s[2] /\ s[2] = s[1] + 1 /\ s[1] \in Nat /\ s[2] \in 1 .. p
           /\ \A i \in 1 .. Len(Tail(s)) :
                /\ i + 1 \in 1 .. Len(s) /\ Tail(s)[i] = s[i + 1]
                /\ Tail(s)[i] = p + i - Len(Tail(s)) /\ Tail(s)[i] \in 1 .. p
<1>1. Len(s) \in Nat /\ Len(s) > 1
  <2>1. Len(s) \in Nat
    OBVIOUS
  <2>2. Len(s) # 0
    BY EmptySeq
  <2>3. \A n \in Nat : n # 0 /\ n # 1 => n > 1
    OBVIOUS
  <2> QED
    BY <2>1, <2>2, <2>3, Zenon
<1>2. /\ Tail(s) \in Seq(Nat) /\ Len(Tail(s)) = Len(s) - 1
      /\ \A i \in 1 .. Len(Tail(s)) : Tail(s)[i] = s[i + 1]
  BY <1>1, HeadTailProperties
<1>3. Len(Tail(s)) \in Nat /\ Len(Tail(s)) > 0
  BY <1>1, <1>2
<1>4. \A i \in 1 .. Len(Tail(s)) : i + 1 \in 1 .. Len(s)
  BY <1>1, <1>2
<1>5. \A i \in 1 .. Len(Tail(s)) :
         Tail(s)[i] = p + i - Len(Tail(s)) /\ Tail(s)[i] \in 1 .. p
  <2> TAKE i \in 1 .. Len(Tail(s))
  <2>1. s[i + 1] = p + (i + 1) - Len(s) /\ s[i + 1] \in 1 .. p
    BY <1>4
  <2>2. Tail(s)[i] = s[i + 1] /\ Len(Tail(s)) = Len(s) - 1
    BY <1>2
  <2>3. p + (i + 1) - Len(s) = p + i - Len(Tail(s))
    BY <1>1, <2>2
  <2> QED
    BY <2>1, <2>2, <2>3
<1>6. s[1] = p + 1 - Len(s) /\ s[1] \in 1 .. p /\ s[2] = p + 2 - Len(s) /\ s[2] \in 1 .. p
  BY <1>1
<1>7. s[2] = s[1] + 1 /\ s[1] \in Nat
  BY <1>1, <1>6
<1>8. Tail(s)[1] = s[2] /\ Tail(s) # << >>
  <2>1. Len(Tail(s)) # 0 /\ 1 \in 1 .. Len(Tail(s))
    BY <1>3
  <2>2. Tail(s) # << >>
    BY <2>1, EmptySeq, Zenon
  <2>3. Tail(s)[1] = s[1 + 1]
    BY <1>2, <2>1, Zenon
  <2>4. 1 + 1 = 2
    OBVIOUS
  <2> QED
    BY <2>2, <2>3, <2>4, Zenon
<1> QED
  BY <1>1, <1>2, <1>4, <1>5, <1>6, <1>7, <1>8

\* The kernel is through with the first line of a message
Shortened(m) == [m EXCEPT !.lines = Tail(@)]

LEMMA Shorter ==
    ASSUME NEW f, NEW p \in Nat, NEW m, Holds(f, m, p), m.lines # << >>, Len(m.lines) # 1
    PROVE  /\ Holds(f, Shortened(m), p) /\ Shortened(m).lines # << >>
           /\ Shortened(m).cmd = m.cmd /\ Shortened(m).set = m.set
           /\ Shortened(m).exist = m.exist /\ Shortened(m).lines[1] = m.lines[2]
           /\ m.lines[2] = m.lines[1] + 1 /\ m.cmd \in ADT /\ m.lines[2] \in 1 .. p
<1>0. PICK t : t = Shortened(m)
  OBVIOUS
<1>1. PICK s : s = m.lines
  OBVIOUS
<1>2. m \in MsgType /\ s \in Seq(Nat) /\ s # << >> /\ Len(s) # 1
  BY <1>1, MsgFields DEF Holds
<1>3. \A i \in 1 .. Len(s) : s[i] = p + i - Len(s) /\ s[i] \in 1 .. p
  BY <1>1 DEF Holds
<1>4. /\ \A i \in 1 .. Len(s) : f[s[i]].cmd = m.cmd /\ f[s[i]].set = m.set
      /\ m.len <= BufSize /\ m.cmd \in ADT /\ (m.exist => Tolerated(f, s[1]))
  BY <1>1, <1>2 DEF Holds
<1>5. PICK r : r = Tail(s)
  OBVIOUS
<1>6. /\ r \in Seq(Nat) /\ r # << >> /\ r[1] = s[2] /\ s[2] = s[1] + 1 /\ s[1] \in Nat
      /\ s[2] \in 1 .. p
      /\ \A i \in 1 .. Len(r) :
            /\ i + 1 \in 1 .. Len(s) /\ r[i] = s[i + 1]
            /\ r[i] = p + i - Len(r) /\ r[i] \in 1 .. p
  BY <1>2, <1>3, <1>5, TailLines, Zenon
<1>7. t = [m EXCEPT !.lines = r]
  BY <1>0, <1>1, <1>5 DEF Shortened
<1>8. /\ t \in MsgType /\ t.lines = r /\ t.len = m.len /\ t.cmd = m.cmd
      /\ t.set = m.set /\ t.exist = m.exist
  BY <1>2, <1>6, <1>7 DEF MsgType
<1>9. t.exist => Tolerated(f, r[1])
  BY <1>4, <1>6, <1>8, TolerantMore
<1>10. \A i \in 1 .. Len(r) :
          /\ r[i] = p + i - Len(r) /\ r[i] \in 1 .. p
          /\ f[r[i]].cmd = t.cmd /\ f[r[i]].set = t.set
  <2> TAKE i \in 1 .. Len(r)
  <2>1. f[s[i + 1]].cmd = m.cmd /\ f[s[i + 1]].set = m.set
    BY <1>4, <1>6
  <2> QED
    BY <1>6, <1>8, <2>1
<1>11. Holds(f, t, p)
  BY <1>4, <1>6, <1>8, <1>9, <1>10 DEF Holds
<1> QED
  BY <1>0, <1>1, <1>4, <1>6, <1>8, <1>11

----------------------------------------------------------------------------
(* The library                                                             *)

LEMMA HoldsType ==
    ASSUME NEW f, NEW p, NEW m, Holds(f, m, p)
    PROVE  m \in MsgType /\ (m.lines # << >> \/ m = Empty)
BY DEF Holds

\* While the kernel works on a message
LEMMA KernelHas ==
    ASSUME Inv, phase # "idle"
    PROVE  /\ buffer = Empty /\ msg.lines # << >> /\ msg \in MsgType
           /\ Head(msg.lines) = msg.lines[1] /\ msg.lines[1] \in 1 .. Len(file)
           /\ Element = file[msg.lines[1]] /\ Element \in LineType
           /\ Element.cmd = msg.cmd /\ Element.set = msg.set /\ msg.set \in SetNames
           /\ msg.cmd \in ADT \union Plain
           /\ msg.cmd \in ADT => /\ 1 <= Element.from /\ Element.from <= Element.to
                                 /\ {Element.from, Element.to} \subseteq 0 .. MaxElem
           /\ msg.cmd \in Plain => Len(msg.lines) = 1
           /\ Len(msg.lines) = 1 => msg.lines[1] = pos
           /\ msg.exist => Tolerated(file, msg.lines[1])
           /\ msg.exist \in BOOLEAN
<1>1. file \in Files /\ pos \in 0 .. Len(file) /\ Holds(file, buffer, pos) /\ Holds(file, msg, pos)
      /\ buffer.lines = << >> /\ msg.lines # << >>
  BY DEF Inv, Types, Sides
<1>2. buffer = Empty /\ msg \in MsgType
  BY <1>1, HoldsType
<1>3. Len(msg.lines) \in Nat \ {0} /\ msg.exist \in BOOLEAN
  BY <1>1, <1>2, MsgFields
<1>4. Head(msg.lines) = msg.lines[1]
  OBVIOUS
<1>5. 1 \in 1 .. Len(msg.lines)
  BY <1>3
<1>6. /\ msg.lines[1] = pos + 1 - Len(msg.lines) /\ msg.lines[1] \in 1 .. pos
      /\ file[msg.lines[1]].cmd = msg.cmd /\ file[msg.lines[1]].set = msg.set
  BY <1>1, <1>5 DEF Holds
<1>7. msg.lines[1] \in 1 .. Len(file) /\ (Len(msg.lines) = 1 => msg.lines[1] = pos)
  <2>1. \A n \in Nat : \A k : n = 1 /\ k = pos + 1 - n => k = pos
    BY <1>1, FileType
  <2>2. Len(msg.lines) = 1 => msg.lines[1] = pos
    BY <1>3, <1>6, <2>1, Zenon
  <2>3. 1 .. pos \subseteq 1 .. Len(file)
    BY <1>1, FileType
  <2> QED
    BY <1>6, <2>2, <2>3, Zenon
<1>8. msg.cmd \in ADT \/ (msg.cmd \in Plain /\ Len(msg.lines) = 1)
  BY <1>1 DEF Holds
<1>9. msg.exist => Tolerated(file, msg.lines[1])
  BY <1>1 DEF Holds
<1>10. ADT \cap Plain = {}
  BY DEF ADT, Plain
<1>11. Element = file[msg.lines[1]]
  BY <1>4 DEF Element
<1>12. /\ file[msg.lines[1]] \in LineType
       /\ file[msg.lines[1]].cmd \in ADT =>
            1 <= file[msg.lines[1]].from /\ file[msg.lines[1]].from <= file[msg.lines[1]].to
       /\ file[msg.lines[1]].cmd \in ADT \union Plain => file[msg.lines[1]].set \in SetNames
       /\ file[msg.lines[1]].from \in 0 .. MaxElem /\ file[msg.lines[1]].to \in 0 .. MaxElem
  BY <1>1, <1>7, FileType
<1> HIDE DEF Element
<1> QED
  BY <1>1, <1>2, <1>3, <1>4, <1>6, <1>7, <1>8, <1>9, <1>10, <1>11, <1>12

\* While it is idle
LEMMA LibraryHas ==
    ASSUME Inv, phase = "idle"
    PROVE  msg = Empty /\ msg.lines = << >> /\ at = 0
BY HoldsType DEF Inv, Sides, Busy

LEMMA ParserInv ==
    ASSUME Inv, ipset_parser
    PROVE  Inv'
<1>1. file \in Files /\ pos \in 0 .. Len(file) /\ pos + 1 \in 1 .. Len(file) /\ Line = file[pos + 1]
  BY FileType DEF Inv, Types, ipset_parser, Reading, Line
<1>2. Line \in LineType /\ Line.exist \in BOOLEAN /\ Len(file) \in Nat
  BY <1>1, FileType
<1>3. /\ UNCHANGED <<file, pos, cache, buffer, msg, phase, at, handled, sets, foreign, full>>
      /\ phase = "idle" /\ Line.cmd # "COMMIT" /\ ~ parsed /\ pos < Len(file)
  BY DEF ipset_parser, Reading, kernelVars
<1>4. CASE Fail(pos + 1, "parse") /\ UNCHANGED <<parsed, env_exist>>
  <2>0. pos + 1 \in 0 .. Len(file)
    <3>2. \A n \in Nat : \A k \in 0 .. n : k + 1 \in 1 .. n => k + 1 \in 0 .. n
      OBVIOUS
    <3> QED
      BY <1>1, <1>2, <3>2, Zenon
  <2>4. status' \in {"running", "done", "failed"} /\ report' \in [line : 0 .. Len(file),
                                        why : {"none", "parse", "exist", "missing", "full"}]
    BY <1>4, <2>0 DEF Fail
  <2>5. Types'
    BY <1>3, <1>4, <2>4 DEF Inv, Types
  <2>6. status' # "running"
    BY <1>4 DEF Fail
  <2>1. Types' /\ Sides' /\ Busy' /\ InRange'
    BY <1>3, <2>5, <2>6 DEF Inv, Sides, Busy, InRange
  <2>2. Parsed'
    BY <1>3, <1>4 DEF Inv, Parsed, Line
  <2>3. Holds(file, buffer, pos)' /\ Holds(file, msg, pos)' /\ (buffer.lines # << >> => buffer.cmd \in ADT)'
    BY <1>3 DEF Inv, Holds
  <2> QED
    BY <2>1, <2>2, <2>3 DEF Inv
<1>5. CASE /\ Line.cmd # "bad" /\ parsed' = TRUE /\ env_exist' = (env_exist \/ Line.exist)
           /\ UNCHANGED <<status, report>>
  <2>1. Line.cmd \in ADT \union Plain
    BY <1>2, <1>3, <1>5 DEF LineType, ADT, Plain
  <2>2. env_exist' => Tolerated(file, pos + 1)
    <3>1. CASE env_exist
      <4>1. Tolerated(file, pos)
        BY <1>3, <3>1 DEF Inv, Parsed
      <4> QED
        BY <1>1, <1>2, <4>1, TolerantMore
    <3>2. CASE Line.exist
      BY <1>1, <1>2, <3>2, FileType DEF Tolerated
    <3> QED
      BY <1>5, <3>1, <3>2
  <2>3. Parsed'
    BY <1>3, <1>5, <2>1, <2>2 DEF Parsed, Line, Tolerated
  <2>4. Types' /\ Sides' /\ Busy' /\ InRange'
    BY <1>1, <1>2, <1>3, <1>5 DEF Inv, Types, Sides, Busy, InRange, Element
  <2>5. Holds(file, buffer, pos)' /\ Holds(file, msg, pos)' /\ (buffer.lines # << >> => buffer.cmd \in ADT)'
    BY <1>3 DEF Inv, Holds
  <2> QED
    BY <2>3, <2>4, <2>5 DEF Inv
<1> QED
  BY <1>4, <1>5 DEF ipset_parser

LEMMA BuildInv ==
    ASSUME Inv, build_msg
    PROVE  Inv'
<1>1. file \in Files /\ pos \in 0 .. Len(file) /\ pos + 1 \in 1 .. Len(file) /\ Line = file[pos + 1]
      /\ Len(file) \in Nat /\ pos < Len(file)
  BY FileType DEF Inv, Types, build_msg, Reading, Line
<1>2. /\ UNCHANGED <<file, env_exist, cache, msg, phase, at, handled, sets, status, report,
                     foreign, full>>
      /\ phase = "idle" /\ Line.cmd \in ADT /\ parsed /\ pos' = pos + 1 /\ parsed' = FALSE
  BY DEF build_msg, Reading, kernelVars
<1>3. msg = Empty
  BY <1>2, LibraryHas
<1>4. env_exist => Tolerated(file, pos + 1)
  BY <1>2 DEF Inv, Parsed
<1>5. Line \in LineType /\ env_exist \in BOOLEAN
  BY <1>1, FileType DEF Inv, Types
<1>6. AttrLen(Line) \in Nat /\ AttrLen(Line) <= BufSize
  BY RestoreAssumption DEF AttrLen
<1>7. Holds(file, buffer', pos + 1) /\ buffer'.lines # << >> /\ buffer'.cmd \in ADT
  <2>1. CASE buffer' = [lines |-> <<pos + 1>>, len |-> AttrLen(Line), cmd |-> Line.cmd,
                        set |-> Line.set, exist |-> env_exist]
    BY <1>1, <1>2, <1>4, <1>5, <1>6, <2>1, Opened
  <2>2. CASE /\ may_aggregate_ad /\ ~BufferFull
             /\ buffer' = [buffer EXCEPT !.lines = Append(@, pos + 1), !.len = @ + AttrLen(Line)]
    <3>1. Holds(file, buffer, pos) /\ buffer \in MsgType /\ buffer.len \in Nat
      BY MsgFields DEF Inv, Holds
    <3>2. PICK len \in Nat : len = buffer.len + AttrLen(Line)
      BY <1>6, <3>1
    <3>3. len <= BufSize
      BY <2>2, <1>6, <3>1, <3>2, RestoreAssumption DEF BufferFull
    <3>4. buffer' = [buffer EXCEPT !.lines = Append(@, pos + 1), !.len = len]
      BY <2>2, <3>2
    <3>5. buffer.lines # << >> /\ Line.cmd = buffer.cmd /\ Line.set = buffer.set
      BY <2>2 DEF may_aggregate_ad
    <3>6. PICK p \in 1 .. Len(file) : p = pos + 1
      BY <1>1
    <3>7. Holds(file, buffer, p - 1) /\ Line = file[p]
      BY <1>1, <3>1, <3>6
    <3>8. buffer' = [buffer EXCEPT !.lines = Append(@, p), !.len = len]
      BY <3>4, <3>6
    <3>9. Holds(file, buffer', p) /\ buffer'.lines # << >> /\ buffer'.cmd = buffer.cmd
      <4>1. file[p].cmd = buffer.cmd /\ file[p].set = buffer.set /\ buffer.cmd \in ADT
        BY <1>2, <3>5, <3>7
      <4>2. buffer' = Joining(buffer, p, len)
        BY <3>8 DEF Joining
      <4> QED
        BY <1>1, <3>2, <3>3, <3>5, <3>6, <3>7, <4>1, <4>2, Joined
    <3> QED
      BY <1>2, <3>5, <3>6, <3>9
  <2> QED
    BY <2>1, <2>2 DEF build_msg
<1>8. Parsed'
  BY <1>1, <1>2, <1>4 DEF Parsed, Line, Tolerated
<1>9. Types' /\ Sides' /\ Busy' /\ InRange'
  <2>1. pos' \in 0 .. Len(file)
    BY <1>1, <1>2
  <2>2. Types'
    BY <1>2, <2>1 DEF Inv, Types
  <2> QED
    BY <1>2, <2>2 DEF Inv, Sides, Busy, InRange
<1>10. Holds(file, msg, pos)'
  BY <1>1, <1>2, <1>3, EmptyHolds
<1>11. Holds(file, buffer, pos)'
  BY <1>2, <1>7
<1> QED
  BY <1>7, <1>8, <1>9, <1>10, <1>11 DEF Inv

LEMMA CommitInv ==
    ASSUME Inv, ipset_commit
    PROVE  Inv'
<1>1. /\ UNCHANGED <<file, pos, parsed, env_exist, cache, at, handled, sets, status, report,
                     foreign, full>>
      /\ status = "running" /\ phase = "idle" /\ buffer.lines # << >>
      /\ msg' = buffer /\ phase' = "queued" /\ buffer' = Empty
  BY DEF ipset_commit, Send
<1>2. file \in Files /\ pos \in Nat /\ at = 0
  BY <1>1, LibraryHas DEF Inv, Types
<1>3. Holds(file, buffer', pos) /\ buffer'.lines = << >>
  BY <1>1, <1>2, EmptyHolds
<1>4. Types'
  BY <1>1 DEF Inv, Types
<1>5. Sides' /\ Busy' /\ InRange'
  BY <1>1, <1>2, <1>3 DEF Sides, Busy, InRange
<1>6. Parsed'
  BY <1>1 DEF Inv, Parsed, Line
<1>7. Holds(file, msg, pos)' /\ Holds(file, buffer, pos)'
  BY <1>1, <1>3 DEF Inv
<1> QED
  BY <1>3, <1>4, <1>5, <1>6, <1>7 DEF Inv

LEMMA CmdInv ==
    ASSUME Inv, ipset_cmd
    PROVE  Inv'
<1>1. /\ UNCHANGED <<file, env_exist, cache, buffer, at, handled, sets, status, report,
                     foreign, full>>
      /\ status = "running" /\ phase = "idle" /\ buffer.lines = << >> /\ parsed
      /\ Line.cmd \notin ADT /\ pos' = pos + 1 /\ parsed' = FALSE /\ phase' = "queued"
      /\ msg' = [lines |-> <<pos + 1>>, len |-> 0, cmd |-> Line.cmd, set |-> Line.set,
                 exist |-> env_exist]
  BY DEF ipset_cmd, Reading, Send
<1>2. /\ file \in Files /\ pos \in 0 .. Len(file) /\ pos + 1 \in 1 .. Len(file) /\ at = 0
      /\ Line = file[pos + 1] /\ Len(file) \in Nat /\ Line.cmd \in ADT \union Plain
      /\ env_exist \in BOOLEAN /\ (env_exist => Tolerated(file, pos + 1))
  BY <1>1, LibraryHas, FileType DEF Inv, Types, Parsed, Line
<1>3. Holds(file, msg', pos + 1) /\ msg'.lines # << >>
  BY <1>1, <1>2, Opened, RestoreAssumption
<1>4. buffer = Empty /\ Holds(file, buffer, pos + 1)
  <2>1. buffer = Empty
    BY <1>1, HoldsType DEF Inv
  <2> QED
    BY <1>2, <2>1, EmptyHolds
<1>5. Types'
  <2>1. pos' \in 0 .. Len(file)
    BY <1>1, <1>2
  <2> QED
    BY <1>1, <2>1 DEF Inv, Types
<1>6. Sides' /\ Busy' /\ InRange'
  BY <1>1, <1>2, <1>3 DEF Sides, Busy, InRange
<1>7. Parsed'
  BY <1>1, <1>2 DEF Parsed, Tolerated
<1>8. Holds(file, msg, pos)' /\ Holds(file, buffer, pos)'
  BY <1>1, <1>3, <1>4
<1> QED
  BY <1>1, <1>5, <1>6, <1>7, <1>8 DEF Inv

LEMMA SkipInv ==
    ASSUME Inv, SkipCommit
    PROVE  Inv'
<1>1. /\ UNCHANGED <<file, parsed, env_exist, cache, buffer, msg, phase, at, handled, sets,
                     status, report, foreign, full>>
      /\ status = "running" /\ phase = "idle" /\ buffer.lines = << >> /\ pos' = pos + 1
      /\ Line.cmd = "COMMIT" /\ pos < Len(file)
  BY DEF SkipCommit, Reading, kernelVars
<1>2. /\ file \in Files /\ pos \in 0 .. Len(file) /\ pos + 1 \in 0 .. Len(file)
      /\ Len(file) \in Nat /\ msg = Empty /\ buffer = Empty
  <2>1. file \in Files /\ pos \in 0 .. Len(file) /\ Len(file) \in Nat
    BY FileType DEF Inv, Types
  <2>2. msg = Empty /\ buffer = Empty
    BY <1>1, LibraryHas, HoldsType DEF Inv
  <2> QED
    BY <1>1, <2>1, <2>2
<1>3. Holds(file, Empty, pos + 1)
  BY <1>2, EmptyHolds
<1>4. ~ parsed
  BY <1>1 DEF Inv, Parsed, ADT, Plain
<1>5. Parsed'
  <2>1. env_exist => Tolerated(file, pos)
    BY <1>4 DEF Inv, Parsed
  <2>2. env_exist => Tolerated(file, pos + 1)
    BY <1>2, <2>1, TolerantMore
  <2> QED
    BY <1>1, <1>4, <2>2 DEF Parsed
<1>6. Types'
  BY <1>1, <1>2 DEF Inv, Types
<1>7. Sides' /\ Busy' /\ InRange'
  BY <1>1 DEF Inv, Sides, Busy, InRange
<1>8. Holds(file, msg, pos)' /\ Holds(file, buffer, pos)'
  BY <1>1, <1>2, <1>3
<1> QED
  BY <1>1, <1>5, <1>6, <1>7, <1>8 DEF Inv

LEMMA EndInv ==
    ASSUME Inv, EndOfFile
    PROVE  Inv'
<1>1. /\ UNCHANGED <<file, pos, parsed, env_exist, cache, buffer, msg, phase, at, handled, sets,
                     report, foreign, full>>
      /\ phase = "idle" /\ status' = "done"
  BY DEF EndOfFile, libVars, kernelVars
<1>2. Types'
  BY <1>1 DEF Inv, Types
<1>3. Sides' /\ Busy' /\ InRange' /\ Parsed'
  BY <1>1 DEF Inv, Sides, Busy, InRange, Parsed, Line
<1>4. Holds(file, msg, pos)' /\ Holds(file, buffer, pos)'
  BY <1>1 DEF Inv
<1> QED
  BY <1>1, <1>2, <1>3, <1>4 DEF Inv

----------------------------------------------------------------------------
(* The kernel                                                              *)

\* A refusal ends the restore with the line of the element, or the first of the message
LEMMA RefusedInv ==
    ASSUME Inv, phase # "idle", KernelStep, full' \in 0 .. MaxFull,
           NEW why \in {"exist", "missing", "full"}, Refused(why)
    PROVE  Inv'
<1>1. /\ UNCHANGED <<file, pos, parsed, env_exist, cache, buffer, msg, at, handled, sets, foreign>>
      /\ phase' = "refused" /\ status' = "failed"
      /\ report' = [line |-> Head(msg.lines), why |-> why]
  BY DEF KernelStep, Refused, Fail
<1>2. Head(msg.lines) \in 0 .. Len(file) /\ msg.lines # << >>
  <2>1. Head(msg.lines) \in 1 .. Len(file) /\ msg.lines # << >>
    BY KernelHas
  <2> QED
    BY <2>1
<1>3. report' \in [line : 0 .. Len(file), why : {"none", "parse", "exist", "missing", "full"}]
  BY <1>1, <1>2
<1>4. Types'
  BY <1>1, <1>3 DEF Inv, Types
<1>5. Sides' /\ Busy' /\ InRange' /\ Parsed'
  BY <1>1, <1>2 DEF Inv, Sides, Busy, InRange, Parsed, Line
<1>6. Holds(file, msg, pos)' /\ Holds(file, buffer, pos)'
  BY <1>1 DEF Inv
<1> QED
  BY <1>1, <1>4, <1>5, <1>6 DEF Inv

\* An acknowledgement gives the turn back to the library
LEMMA AcknowledgedInv ==
    ASSUME Inv, phase # "idle", KernelStep, Acknowledged, UNCHANGED full,
           Typed(sets)', cache' \subseteq SetNames
    PROVE  Inv'
<1>1. /\ UNCHANGED <<file, pos, parsed, env_exist, buffer, foreign, full, status, report>>
      /\ msg' = Empty /\ phase' = "idle" /\ at' = 0 /\ handled' = 0
  BY DEF KernelStep, Acknowledged, Answered
<1>2. pos \in Nat
  BY FileType DEF Inv, Types
<1>3. Holds(file, Empty, pos) /\ Empty.lines = << >>
  BY <1>2, EmptyHolds
<1>4. at' \in 0 .. (MaxElem + 1) /\ handled' \in 0 .. Batch
  BY <1>1, RestoreAssumption
<1>5. Types'
  BY <1>1, <1>4 DEF Inv, Types
<1>6. Sides' /\ Busy' /\ InRange' /\ Parsed'
  BY <1>1, <1>3 DEF Inv, Sides, Busy, InRange, Parsed, Line
<1>7. Holds(file, msg, pos)' /\ Holds(file, buffer, pos)'
  BY <1>1, <1>3 DEF Inv
<1> QED
  BY <1>1, <1>5, <1>6, <1>7 DEF Inv

\* The sets stay sets of elements
LEMMA TypedWith ==
    ASSUME NEW f, Typed(f), NEW s \in SetNames, NEW v \in SetType
    PROVE  Typed(With(f, s, v))
BY DEF Typed, With

LEMMA TypedWithout ==
    ASSUME NEW f, Typed(f), NEW s
    PROVE  Typed(Without(f, s))
BY DEF Typed, Without

LEMMA TypedElements ==
    ASSUME NEW f, Typed(f), NEW s \in DOMAIN f, NEW e \in SUBSET (1 .. MaxElem)
    PROVE  /\ Typed([f EXCEPT ![s].elements = e])
           /\ [f EXCEPT ![s].elements = e][s].elements = e
           /\ [f EXCEPT ![s].elements = e][s].next = f[s].next
           /\ \A t \in DOMAIN f : t # s => [f EXCEPT ![s].elements = e][t] = f[t]
           /\ DOMAIN [f EXCEPT ![s].elements = e] = DOMAIN f
BY DEF Typed, SetType

LEMMA TypedNext ==
    ASSUME NEW f, Typed(f), NEW s \in DOMAIN f, NEW n \in 0 .. MaxElem
    PROVE  /\ Typed([f EXCEPT ![s].next = n])
           /\ [f EXCEPT ![s].next = n][s].elements = f[s].elements
           /\ [f EXCEPT ![s].next = n][s].next = n
           /\ \A t \in DOMAIN f : [f EXCEPT ![s].next = n][t].elements = f[t].elements
           /\ DOMAIN [f EXCEPT ![s].next = n] = DOMAIN f
BY DEF Typed, SetType

LEMMA NewSetType == NewSet \in SetType
BY RestoreAssumption DEF NewSet, SetType

LEMMA CreateInv ==
    ASSUME Inv, ip_set_create
    PROVE  Inv'
<1>1. phase = "queued" /\ KernelStep /\ UNCHANGED full
  BY DEF ip_set_create
<1>2. CASE Refused("exist")
  <2>1. full' \in 0 .. MaxFull
    BY <1>1 DEF Inv, Types
  <2> QED
    BY <1>1, <1>2, <2>1, RefusedInv
<1>3. CASE /\ Acknowledged /\ cache' = cache \union {msg.set}
           /\ sets' = IF msg.set \in DOMAIN sets THEN sets ELSE With(sets, msg.set, NewSet)
  <2>1. msg.set \in SetNames
    BY <1>1, KernelHas
  <2>2. Typed(sets') /\ cache' \subseteq SetNames
    BY <1>3, <2>1, TypedWith, NewSetType DEF Inv, Types
  <2> QED
    BY <1>1, <1>3, <2>2, AcknowledgedInv DEF Typed
<1> QED
  BY <1>2, <1>3 DEF ip_set_create

LEMMA DestroyInv ==
    ASSUME Inv, ip_set_destroy
    PROVE  Inv'
<1>1. phase = "queued" /\ KernelStep /\ UNCHANGED full
  BY DEF ip_set_destroy
<1>2. CASE Refused("missing")
  <2>1. full' \in 0 .. MaxFull
    BY <1>1 DEF Inv, Types
  <2> QED
    BY <1>1, <1>2, <2>1, RefusedInv
<1>3. CASE /\ Acknowledged /\ cache' = cache \ {msg.set}
           /\ sets' = Without(sets, msg.set)
  <2>2. Typed(sets') /\ cache' \subseteq SetNames
    BY <1>3, TypedWithout DEF Inv, Types
  <2> QED
    BY <1>1, <1>3, <2>2, AcknowledgedInv DEF Typed
<1> QED
  BY <1>2, <1>3 DEF ip_set_destroy

LEMMA FlushInv ==
    ASSUME Inv, ip_set_flush
    PROVE  Inv'
<1>1. phase = "queued" /\ KernelStep /\ UNCHANGED full
  BY DEF ip_set_flush
<1>2. CASE Refused("missing")
  <2>1. full' \in 0 .. MaxFull
    BY <1>1 DEF Inv, Types
  <2> QED
    BY <1>1, <1>2, <2>1, RefusedInv
<1>3. CASE /\ Acknowledged /\ UNCHANGED cache /\ msg.set \in DOMAIN sets
           /\ sets' = [sets EXCEPT ![msg.set].elements = {}]
  <2>2. Typed(sets') /\ cache' \subseteq SetNames
    BY <1>3, TypedElements DEF Inv, Types
  <2> QED
    BY <1>1, <1>3, <2>2, AcknowledgedInv DEF Typed
<1> QED
  BY <1>2, <1>3 DEF ip_set_flush

\* The elements of the line the kernel works on
LEMMA ElementRange ==
    ASSUME Inv, phase # "idle", msg.cmd \in ADT
    PROVE  /\ Element.from \in Nat /\ Element.to \in Nat /\ Element.to <= MaxElem
           /\ 1 <= Element.from /\ Element.from <= Element.to /\ MaxElem \in Nat
<1>1. /\ 1 <= Element.from /\ Element.from <= Element.to
      /\ {Element.from, Element.to} \subseteq 0 .. MaxElem
  BY KernelHas
<1> QED
  BY <1>1, RestoreAssumption

LEMMA AdInv ==
    ASSUME Inv, ip_set_ad
    PROVE  Inv'
<1>1. phase = "queued" /\ msg.cmd \in ADT /\ KernelStep /\ UNCHANGED full
  BY DEF ip_set_ad
<1>2. CASE Refused("missing")
  <2>1. full' \in 0 .. MaxFull
    BY <1>1 DEF Inv, Types
  <2> QED
    BY <1>1, <1>2, <2>1, RefusedInv
<1>3. CASE /\ msg.set \in DOMAIN sets
           /\ phase' = "held" /\ at' = file[Head(msg.lines)].from /\ handled' = 0
           /\ UNCHANGED <<msg, cache, sets, status, report>>
  <2>1. /\ UNCHANGED <<file, pos, parsed, env_exist, buffer, foreign, full, msg, cache, sets,
                       status, report>>
        /\ phase' = "held" /\ at' = Element.from /\ handled' = 0 /\ Element' = Element
    BY <1>1, <1>3 DEF KernelStep, Element
  <2>2. /\ Element.from \in Nat /\ Element.to \in Nat /\ Element.to <= MaxElem
        /\ 1 <= Element.from /\ Element.from <= Element.to /\ MaxElem \in Nat
    BY <1>1, ElementRange
  <2>3. at' \in 0 .. (MaxElem + 1) /\ at' # 0 /\ at' \in Element.from .. (Element.to + 1)
    BY <2>1, <2>2
  <2>4. handled' \in 0 .. Batch
    BY <2>1, RestoreAssumption
  <2>5. Types'
    BY <2>1, <2>3, <2>4 DEF Inv, Types
  <2>6. Sides' /\ Parsed'
    BY <1>1, <2>1 DEF Inv, Sides, Parsed, Line
  <2>7. Busy' /\ InRange'
    BY <1>1, <1>3, <2>1, <2>3 DEF Busy, InRange
  <2>8. Holds(file, msg, pos)' /\ Holds(file, buffer, pos)'
    BY <2>1 DEF Inv
  <2> QED
    BY <2>1, <2>5, <2>6, <2>7, <2>8 DEF Inv
<1> QED
  BY <1>2, <1>3 DEF ip_set_ad

LEMMA UadtInv ==
    ASSUME Inv, hash_ip4_uadt
    PROVE  Inv'
<1>1. /\ phase = "held" /\ at <= Element.to /\ handled < Batch /\ KernelStep /\ UNCHANGED full
      /\ msg.cmd \in ADT /\ msg.set \in DOMAIN sets /\ at # 0
  BY DEF hash_ip4_uadt, Working, Inv, Busy
<1>2. CASE Refused(IF Present THEN "exist" ELSE "missing")
  <2>1. full' \in 0 .. MaxFull
    BY <1>1 DEF Inv, Types
  <2> QED
    BY <1>1, <1>2, <2>1, RefusedInv
<1>3. CASE /\ sets' = [sets EXCEPT ![msg.set].elements =
                         IF msg.cmd = "add" THEN @ \union {at} ELSE @ \ {at}]
           /\ at' = at + 1 /\ handled' = handled + 1
           /\ UNCHANGED <<msg, phase, cache, status, report>>
  <2>1. /\ UNCHANGED <<file, pos, parsed, env_exist, buffer, foreign, full, msg, phase, cache,
                       status, report>>
        /\ Element' = Element
    BY <1>1, <1>3 DEF KernelStep, Element
  <2>2. /\ Element.from \in Nat /\ Element.to \in Nat /\ Element.to <= MaxElem
        /\ 1 <= Element.from /\ Element.from <= Element.to /\ MaxElem \in Nat
    BY <1>1, ElementRange
  <2>3. at \in Nat /\ handled \in Nat /\ Batch \in Nat
    BY RestoreAssumption DEF Inv, Types
  <2>4. at' \in 0 .. (MaxElem + 1) /\ at' # 0 /\ handled' \in 0 .. Batch
    BY <1>1, <1>3, <2>2, <2>3
  <2>5. PICK e \in SUBSET (1 .. MaxElem) : sets' = [sets EXCEPT ![msg.set].elements = e]
    <3> DEFINE o == sets[msg.set].elements
               e == IF msg.cmd = "add" THEN o \union {at} ELSE o \ {at}
    <3>1. o \in SUBSET (1 .. MaxElem)
      BY <1>1 DEF Inv, Types, Typed, SetType
    <3>2. at \in 1 .. MaxElem
      BY <1>1, <2>2, <2>3
    <3>3. e \in SUBSET (1 .. MaxElem)
      BY <3>1, <3>2
    <3>4. sets' = [sets EXCEPT ![msg.set].elements = e]
      BY <1>3
    <3> QED
      BY <3>3, <3>4
  <2>6. Typed(sets') /\ DOMAIN sets' = DOMAIN sets
    BY <1>1, <2>5, TypedElements DEF Inv, Types
  <2>7. Types'
    BY <2>1, <2>4, <2>6 DEF Inv, Types, Typed
  <2>8. Sides' /\ Parsed'
    BY <2>1 DEF Inv, Sides, Parsed, Line
  <2>9. Busy' /\ InRange'
    <3>1. ~ SharedNext => at \in Element.from .. (Element.to + 1)
      BY <1>1 DEF Inv, InRange
    <3>2. ~ SharedNext => at' \in Element.from .. (Element.to + 1)
      BY <1>1, <1>3, <2>2, <2>3, <3>1
    <3> QED
      BY <1>1, <2>1, <2>4, <2>6, <3>2 DEF Busy, InRange
  <2>10. Holds(file, msg, pos)' /\ Holds(file, buffer, pos)'
    BY <2>1 DEF Inv
  <2> QED
    BY <2>1, <2>7, <2>8, <2>9, <2>10 DEF Inv
<1> QED
  BY <1>2, <1>3 DEF hash_ip4_uadt

\* The mutex is released inside a range, and next says where
LEMMA ReleaseInv ==
    ASSUME Inv, Working, ReleaseNfnl, KernelStep, full' \in 0 .. MaxFull
    PROVE  Inv'
<1>1. /\ phase = "held" /\ at <= Element.to
      /\ msg.cmd \in ADT /\ msg.set \in DOMAIN sets /\ at # 0
  BY DEF Working, Inv, Busy
<1>2. /\ UNCHANGED <<file, pos, parsed, env_exist, buffer, foreign, msg, at, handled, cache,
                     status, report>>
      /\ phase' = "released" /\ sets' = [sets EXCEPT ![msg.set].next = at] /\ Element' = Element
  BY DEF KernelStep, ReleaseNfnl, hash_ip4_data_next, Element
<1>3. at \in 0 .. MaxElem
  <2>1. Element.to \in Nat /\ Element.to <= MaxElem /\ MaxElem \in Nat
    BY <1>1, ElementRange
  <2>2. at \in Nat
    BY DEF Inv, Types
  <2> QED
    BY <1>1, <2>1, <2>2
<1>4. Typed(sets') /\ DOMAIN sets' = DOMAIN sets /\ sets'[msg.set].next = at
  BY <1>1, <1>2, <1>3, TypedNext DEF Inv, Types
<1>5. Types'
  BY <1>2, <1>4 DEF Inv, Types, Typed
<1>6. Sides' /\ Parsed'
  BY <1>1, <1>2 DEF Inv, Sides, Parsed, Line
<1>7. Busy' /\ InRange'
  BY <1>1, <1>2, <1>4 DEF Inv, Busy, InRange
<1>8. Holds(file, msg, pos)' /\ Holds(file, buffer, pos)'
  BY <1>2 DEF Inv
<1> QED
  BY <1>2, <1>5, <1>6, <1>7, <1>8 DEF Inv

LEMMA BatchInv ==
    ASSUME Inv, RangeBatch
    PROVE  Inv'
<1>1. full' \in 0 .. MaxFull
  BY DEF RangeBatch, Inv, Types
<1> QED
  BY <1>1, ReleaseInv DEF RangeBatch

LEMMA BucketInv ==
    ASSUME Inv, BucketFull
    PROVE  Inv'
<1>1. full' \in 0 .. MaxFull
  BY RestoreAssumption DEF BucketFull, Inv, Types
<1>2. phase # "idle"
  BY DEF BucketFull, Working
<1>3. Working /\ KernelStep /\ (ReleaseNfnl \/ Refused("full"))
  BY DEF BucketFull
<1> QED
  BY <1>1, <1>2, <1>3, ReleaseInv, RefusedInv

LEMMA CallInv ==
    ASSUME Inv, CALL_AD
    PROVE  Inv'
<1>1. /\ UNCHANGED <<file, pos, parsed, env_exist, buffer, foreign, full, msg, cache, sets,
                     status, report>>
      /\ phase = "released" /\ phase' = "held" /\ handled' = 0 /\ at' \in NextFound
      /\ Element' = Element
  BY DEF CALL_AD, KernelStep, Element
<1>2. /\ msg.cmd \in ADT /\ msg.set \in DOMAIN sets /\ sets[msg.set].next # 0
      /\ sets[msg.set].next \in 0 .. MaxElem /\ MaxElem \in Nat
  BY <1>1, RestoreAssumption DEF Inv, Busy, Types, Typed, SetType
<1>3. at' \in 0 .. (MaxElem + 1) /\ at' # 0
  BY <1>1, <1>2 DEF NextFound
<1>4. handled' \in 0 .. Batch
  BY <1>1, RestoreAssumption
<1>5. Types'
  BY <1>1, <1>3, <1>4 DEF Inv, Types
<1>6. Sides' /\ Parsed'
  BY <1>1 DEF Inv, Sides, Parsed, Line
<1>7. Busy' /\ InRange'
  <2>1. ~ SharedNext => at' = at
    BY <1>1, RestoreAssumption DEF Inv, InRange, NextFound
  <2> QED
    BY <1>1, <1>2, <1>3, <2>1 DEF Inv, Busy, InRange
<1>8. Holds(file, msg, pos)' /\ Holds(file, buffer, pos)'
  BY <1>1 DEF Inv
<1> QED
  BY <1>1, <1>5, <1>6, <1>7, <1>8 DEF Inv

LEMMA NextElementInv ==
    ASSUME Inv, NextElement
    PROVE  Inv'
<1>1. phase = "held" /\ KernelStep /\ UNCHANGED <<cache, sets, full>>
  BY DEF NextElement
<1>2. CASE Len(msg.lines) = 1 /\ Acknowledged
  <2>1. Typed(sets)' /\ cache' \subseteq SetNames
    BY <1>1 DEF Inv, Types, Typed
  <2> QED
    BY <1>1, <1>2, <2>1, AcknowledgedInv
<1>3. CASE /\ Len(msg.lines) # 1 /\ msg' = [msg EXCEPT !.lines = Tail(@)]
           /\ at' = file[msg.lines[2]].from /\ handled' = 0
           /\ UNCHANGED <<phase, status, report>>
  <2>1. UNCHANGED <<file, pos, parsed, env_exist, buffer, foreign, full, cache, sets, phase,
                    status, report>>
    BY <1>1, <1>3 DEF KernelStep
  <2>2. Holds(file, msg, pos) /\ pos \in Nat /\ msg.lines # << >>
    BY <1>1, FileType DEF Inv, Types, Sides
  <2>3. PICK t : t = msg'
    OBVIOUS
  <2>4. /\ Holds(file, t, pos) /\ t.lines # << >> /\ t.cmd = msg.cmd /\ t.set = msg.set
        /\ t.lines[1] = msg.lines[2] /\ msg.cmd \in ADT /\ msg.lines[2] \in 1 .. pos
    <3>1. t = Shortened(msg)
      BY <1>3, <2>3 DEF Shortened
    <3>2. Len(msg.lines) # 1
      BY <1>3
    <3> QED
      BY <2>2, <3>1, <3>2, Shorter
  <2>5. Element' = file[msg.lines[2]]
    BY <2>1, <2>3, <2>4 DEF Element
  <2>6. msg.lines[2] \in 1 .. Len(file) /\ file \in Files
    BY <2>4, FileType DEF Inv, Types
  <2>7. file[msg.lines[2]].cmd = msg.cmd
    <3>1. 1 \in 1 .. Len(t.lines)
      <4>1. Len(t.lines) \in Nat \ {0}
        BY <2>4, HoldsType, MsgFields
      <4> QED
        BY <4>1
    <3>2. file[t.lines[1]].cmd = t.cmd
      BY <2>4, <3>1 DEF Holds
    <3> QED
      BY <2>4, <3>2
  <2>8. /\ file[msg.lines[2]].from \in 0 .. MaxElem /\ file[msg.lines[2]].to \in 0 .. MaxElem
        /\ 1 <= file[msg.lines[2]].from /\ file[msg.lines[2]].from <= file[msg.lines[2]].to
    BY <2>4, <2>6, <2>7, FileType
  <2>9. at' \in 0 .. (MaxElem + 1) /\ at' # 0 /\ handled' \in 0 .. Batch
    BY <1>3, <2>8, RestoreAssumption
  <2>10. at' \in Element'.from .. (Element'.to + 1)
    BY <1>3, <2>5, <2>8, RestoreAssumption, SMTT(40)
  <2>11. Types'
    BY <2>1, <2>9 DEF Inv, Types
  <2>12. Sides' /\ Parsed'
    BY <1>1, <2>1, <2>3, <2>4 DEF Inv, Sides, Parsed, Line
  <2>13. Busy' /\ InRange'
    BY <1>1, <2>1, <2>3, <2>4, <2>9, <2>10 DEF Inv, Busy, InRange
  <2>14. Holds(file, msg, pos)' /\ Holds(file, buffer, pos)'
    BY <2>1, <2>3, <2>4 DEF Inv
  <2> QED
    BY <2>1, <2>11, <2>12, <2>13, <2>14 DEF Inv
<1> QED
  BY <1>2, <1>3 DEF NextElement

\* What another client or a packet does to the sets
Elsewhere ==
    \/ \E s \in DOMAIN sets : \E n \in 1 .. MaxElem :
         \/ sets' = [sets EXCEPT ![s].elements = @ \union {n}]
         \/ sets' = [sets EXCEPT ![s].elements = @ \ {n}]
    \/ phase # "held" /\ \E s \in SetNames \ DOMAIN sets : sets' = With(sets, s, NewSet)
    \/ phase # "held" /\ \E s \in DOMAIN sets : ~ Pinned(s) /\ sets' = Without(sets, s)

LEMMA ElsewhereSets ==
    ASSUME Typed(sets), Elsewhere
    PROVE  /\ Typed(sets')
           /\ phase = "held" => DOMAIN sets \subseteq DOMAIN sets'
           /\ phase = "released" /\ msg.set \in DOMAIN sets =>
                msg.set \in DOMAIN sets' /\ sets'[msg.set].next = sets[msg.set].next
<1>1. CASE \E s \in DOMAIN sets : \E n \in 1 .. MaxElem :
             \/ sets' = [sets EXCEPT ![s].elements = @ \union {n}]
             \/ sets' = [sets EXCEPT ![s].elements = @ \ {n}]
  <2>1. PICK s \in DOMAIN sets : \E n \in 1 .. MaxElem :
             \/ sets' = [sets EXCEPT ![s].elements = @ \union {n}]
             \/ sets' = [sets EXCEPT ![s].elements = @ \ {n}]
    BY <1>1
  <2>2. sets[s].elements \in SUBSET (1 .. MaxElem)
    BY <2>1 DEF Typed, SetType
  <2>3. PICK e \in SUBSET (1 .. MaxElem) : sets' = [sets EXCEPT ![s].elements = e]
    BY <2>1, <2>2
  <2>4. /\ Typed(sets') /\ DOMAIN sets' = DOMAIN sets
        /\ sets'[s].next = sets[s].next /\ \A t \in DOMAIN sets : t # s => sets'[t] = sets[t]
    BY <2>1, <2>3, TypedElements
  <2> QED
    BY <2>4
<1>2. CASE phase # "held" /\ \E s \in SetNames \ DOMAIN sets : sets' = With(sets, s, NewSet)
  <2>1. PICK s \in SetNames \ DOMAIN sets : sets' = With(sets, s, NewSet)
    BY <1>2
  <2>2. Typed(sets')
    BY <2>1, TypedWith, NewSetType
  <2>3. DOMAIN sets \subseteq DOMAIN sets' /\ \A t \in DOMAIN sets : sets'[t] = sets[t]
    BY <2>1 DEF With
  <2> QED
    BY <2>2, <2>3
<1>3. CASE phase # "held" /\ \E s \in DOMAIN sets : ~ Pinned(s) /\ sets' = Without(sets, s)
  <2>1. PICK s \in DOMAIN sets : ~ Pinned(s) /\ sets' = Without(sets, s)
    BY <1>3
  <2>2. Typed(sets')
    BY <2>1, TypedWithout
  <2>3. phase = "released" => s # msg.set
    BY <2>1 DEF Pinned
  <2>4. \A t \in DOMAIN sets : t # s => t \in DOMAIN sets' /\ sets'[t] = sets[t]
    BY <2>1 DEF Without
  <2> QED
    BY <1>3, <2>2, <2>3, <2>4
<1> QED
  BY <1>1, <1>2, <1>3 DEF Elsewhere

LEMMA ForeignInv ==
    ASSUME Inv, Foreign
    PROVE  Inv'
<1>1. /\ UNCHANGED <<file, pos, parsed, env_exist, cache, buffer, msg, phase, at, handled,
                     status, report, full>>
      /\ foreign' \in 0 .. MaxForeign /\ Element' = Element
  BY RestoreAssumption, SMTT(40) DEF Foreign, libVars, kernelVars, Inv, Types, Element
<1>2. Elsewhere
  BY DEF Foreign, Elsewhere
<1>3. /\ Typed(sets')
      /\ phase = "held" => DOMAIN sets \subseteq DOMAIN sets'
      /\ phase = "released" /\ msg.set \in DOMAIN sets =>
           msg.set \in DOMAIN sets' /\ sets'[msg.set].next = sets[msg.set].next
  BY <1>2, ElsewhereSets DEF Inv, Types
<1>4. Types'
  BY <1>1, <1>3 DEF Inv, Types, Typed
<1>5. Sides' /\ Parsed'
  BY <1>1 DEF Inv, Sides, Parsed, Line
<1>6. Busy' /\ InRange'
  BY <1>1, <1>3 DEF Inv, Busy, InRange
<1>7. Holds(file, msg, pos)' /\ Holds(file, buffer, pos)'
  BY <1>1 DEF Inv
<1> QED
  BY <1>1, <1>4, <1>5, <1>6, <1>7 DEF Inv

LEMMA InvInit ==
    ASSUME Init
    PROVE  Inv
<1>1. /\ file \in Files /\ pos = 0 /\ parsed = FALSE /\ env_exist = FALSE /\ cache = {}
      /\ buffer = Empty /\ msg = Empty /\ phase = "idle" /\ at = 0 /\ handled = 0
      /\ sets = [s \in Existing |-> NewSet] /\ status = "running" /\ report = NoReport
      /\ foreign = 0 /\ full = 0
  BY DEF Init
<1>2. Len(file) \in Nat
  BY <1>1, FileType
<1>3. Typed(sets)
  BY <1>1, RestoreAssumption, NewSetType DEF Typed
<1>4. report \in [line : 0 .. Len(file), why : {"none", "parse", "exist", "missing", "full"}]
  BY <1>1, <1>2 DEF NoReport
<1>5. Types
  <2>1. foreign \in 0 .. MaxForeign /\ full \in 0 .. MaxFull /\ handled \in 0 .. Batch
        /\ at \in 0 .. (MaxElem + 1) /\ pos \in 0 .. Len(file)
    BY <1>1, <1>2, RestoreAssumption
  <2> QED
    BY <1>1, <1>3, <1>4, <2>1 DEF Types
<1>6. Holds(file, buffer, pos) /\ Holds(file, msg, pos) /\ Empty.lines = << >>
  BY <1>1, EmptyHolds
<1>7. Sides /\ Parsed /\ Busy /\ InRange
  BY <1>1, <1>6 DEF Sides, Parsed, Busy, InRange
<1> QED
  BY <1>1, <1>5, <1>6, <1>7 DEF Inv

LEMMA InvStep ==
    ASSUME Inv, [Next]_vars
    PROVE  Inv'
<1>1. CASE UNCHANGED vars
  <2>1. /\ UNCHANGED <<file, pos, parsed, env_exist, cache, buffer, msg, phase, at, handled,
                       sets, status, report, foreign, full>>
    BY <1>1 DEF vars, libVars, kernelVars
  <2> QED
    BY <2>1 DEF Inv, Types, Typed, Sides, Parsed, Busy, InRange, Line, Element
<1>2. CASE Next
  BY <1>2, ParserInv, BuildInv, CommitInv, CmdInv, SkipInv, EndInv, CreateInv, DestroyInv,
     FlushInv, AdInv, UadtInv, BatchInv, BucketInv, CallInv, NextElementInv, ForeignInv
     DEF Next, Library, Kernel
<1> QED
  BY <1>1, <1>2

LEMMA Invariance == Spec => []Inv
<1>1. Init => Inv
  BY InvInit
<1>2. Inv /\ [Next]_vars => Inv'
  BY InvStep
<1> QED
  BY <1>1, <1>2, PTL DEF Spec

----------------------------------------------------------------------------
(* What the runs check                                                     *)

LEMMA MessageTyped ==
    ASSUME NEW m, Holds(file, m, pos), pos \in Nat
    PROVE  MessageOK(m)
<1>1. m.lines \in Seq(Nat) /\ Len(m.lines) \in Nat
  BY HoldsType, MsgFields
<1>2. \A i \in 1 .. Len(m.lines) :
          /\ m.lines[i] = pos + i - Len(m.lines) /\ m.lines[i] \in 1 .. pos
          /\ file[m.lines[i]].cmd = m.cmd /\ file[m.lines[i]].set = m.set
  BY DEF Holds
<1>3. m.len <= BufSize
  BY DEF Holds
<1>4. Consecutive(m.lines)
  <2>1. PICK k \in Nat : k = Len(m.lines)
    BY <1>1
  <2>2. \A i \in 1 .. k : m.lines[i] = pos + i - k
    BY <1>2, <2>1
  <2>3. \A i \in 1 .. k - 1 : m.lines[i + 1] = m.lines[i] + 1
    <3> TAKE i \in 1 .. k - 1
    <3>1. i \in 1 .. k /\ i + 1 \in 1 .. k
      BY <2>1
    <3>2. m.lines[i] = pos + i - k /\ m.lines[i + 1] = pos + (i + 1) - k
      BY <2>2, <3>1
    <3>3. pos + (i + 1) - k = (pos + i - k) + 1
      BY <2>1, <3>1
    <3> QED
      BY <3>2, <3>3
  <2> QED
    BY <2>1, <2>3 DEF Consecutive
<1>5. \A i \in 1 .. Len(m.lines) : m.lines[i] <= pos
  <2> TAKE i \in 1 .. Len(m.lines)
  <2>1. m.lines[i] \in 1 .. pos
    BY <1>2
  <2> QED
    BY <2>1
<1> QED
  BY <1>2, <1>3, <1>4, <1>5 DEF MessageOK

\* The program's variables stay in their ranges, and a message that is built or that the
\* kernel works on names lines of the file that follow each other, agree with its header
\* and fit the buffer.
THEOREM TypeCorrect == Spec => []TypeOK
<1>1. Inv => TypeOK
  <2> SUFFICES ASSUME Inv
               PROVE  TypeOK
    OBVIOUS
  <2>1. pos \in Nat /\ Holds(file, buffer, pos) /\ Holds(file, msg, pos)
    BY FileType DEF Inv, Types
  <2>2. MessageOK(buffer) /\ MessageOK(msg)
    BY <2>1, MessageTyped
  <2>3. (phase = "idle") = (msg = Empty)
    BY <2>1, EmptyHolds, HoldsType DEF Inv, Sides
  <2>4. \A s \in DOMAIN sets : sets[s].elements \subseteq 1 .. MaxElem
    BY DEF Inv, Types, Typed, SetType
  <2>5. report.line \in 0 .. Len(file) /\ DOMAIN sets \subseteq SetNames
    BY DEF Inv, Types, Typed
  <2> QED
    BY <2>2, <2>3, <2>4, <2>5 DEF Inv, Types, TypeOK
<1> QED
  BY <1>1, Invariance, PTL

----------------------------------------------------------------------------
(* Restore implements RestoreSpec                                          *)

ElementsOf(f) == [s \in DOMAIN f |-> f[s].elements]

LEMMA ElementsElements ==
    ASSUME NEW f, Typed(f), NEW s \in DOMAIN f, NEW e \in SUBSET (1 .. MaxElem)
    PROVE  ElementsOf([f EXCEPT ![s].elements = e]) = [ElementsOf(f) EXCEPT ![s] = e]
<1>1. PICK g : g = [f EXCEPT ![s].elements = e]
  OBVIOUS
<1>2. /\ DOMAIN g = DOMAIN f /\ g[s].elements = e
      /\ \A t \in DOMAIN f : t # s => g[t] = f[t]
  BY <1>1, TypedElements
<1>3. ElementsOf(g) = [ElementsOf(f) EXCEPT ![s] = e]
  BY <1>2 DEF ElementsOf
<1> QED
  BY <1>1, <1>3

LEMMA ElementsNext ==
    ASSUME NEW f, Typed(f), NEW s \in DOMAIN f, NEW n \in 0 .. MaxElem
    PROVE  ElementsOf([f EXCEPT ![s].next = n]) = ElementsOf(f)
<1>1. PICK g : g = [f EXCEPT ![s].next = n]
  OBVIOUS
<1>2. DOMAIN g = DOMAIN f /\ \A t \in DOMAIN f : g[t].elements = f[t].elements
  BY <1>1, TypedNext
<1>3. ElementsOf(g) = ElementsOf(f)
  BY <1>2 DEF ElementsOf
<1> QED
  BY <1>1, <1>3

LEMMA KernelElements ==
    InKernel = ElementsOf(sets) /\ InKernel' = ElementsOf(sets')
BY DEF InKernel, ElementsOf

\* Where RestoreSpec is while the kernel works on a message
LEMMA KernelMapped ==
    ASSUME Inv, phase # "idle"
    PROVE  /\ FirstPending = msg.lines[1] /\ FirstPending = Head(msg.lines)
           /\ FirstPending \in DOMAIN file /\ FirstPending \in 1 .. Len(file)
           /\ file[FirstPending] = Element
           /\ Element.cmd = msg.cmd /\ Element.set = msg.set
           /\ PendingElement = IF at # 0 THEN at ELSE FirstOf(FirstPending)
           /\ phase # "refused" => status = "running"
<1>1. msg.lines # << >> /\ Head(msg.lines) = msg.lines[1] /\ msg.lines[1] \in 1 .. Len(file)
  BY KernelHas
<1>2. FirstPending = Head(msg.lines)
  BY <1>1 DEF FirstPending
<1>3. 1 .. Len(file) = DOMAIN file
  BY FileType DEF Inv, Types
<1>4. Element = file[msg.lines[1]] /\ Element.cmd = msg.cmd /\ Element.set = msg.set
  BY KernelHas
<1>5. PendingElement = IF at # 0 THEN at ELSE FirstOf(FirstPending)
  BY DEF PendingElement
<1>6. phase # "refused" => status = "running"
  BY DEF Inv, Sides, Types
<1> HIDE DEF Element
<1> QED
  BY <1>1, <1>2, <1>3, <1>4, <1>5, <1>6

\* and while the library does
LEMMA LibraryMapped ==
    ASSUME Inv, phase = "idle"
    PROVE  /\ FirstPending = IF buffer.lines = << >> THEN pos + 1 ELSE buffer.lines[1]
           /\ PendingElement = FirstOf(FirstPending)
<1>1. msg.lines = << >> /\ at = 0
  BY LibraryHas
<1>2. FirstPending = IF buffer.lines = << >> THEN pos + 1 ELSE buffer.lines[1]
  BY <1>1 DEF FirstPending
<1> QED
  BY <1>1, <1>2 DEF PendingElement

LEMMA FirstIsAt ==
    ASSUME Inv, NEW n
    PROVE  FirstOf(n) = Promise!At(n)
<1>1. DOMAIN file = 1 .. Len(file)
  BY FileType DEF Inv, Types
<1> QED
  BY <1>1 DEF FirstOf, Promise!At, ADT, Promise!ADT

LEMMA ToleratedIs ==
    ASSUME NEW n, Tolerated(file, n)
    PROVE  Promise!Tolerant(n)
BY DEF Tolerated, Promise!Tolerant

Stutter == UNCHANGED <<file, InKernel, FirstPending, PendingElement, status, report>>

LEMMA ParserMapped ==
    ASSUME Inv, ipset_parser
    PROVE  Promise!Reject \/ Stutter
<1>1. /\ UNCHANGED <<file, pos, buffer, msg, phase, at, sets>>
      /\ phase = "idle" /\ status = "running"
  BY DEF ipset_parser, Reading, kernelVars
<1>2. UNCHANGED <<file, InKernel, FirstPending, PendingElement>>
  BY <1>1 DEF InKernel, FirstPending, PendingElement, FirstOf
<1>3. CASE /\ Line.cmd = "bad" \/ (Line.cmd \in ADT /\ ~ipset_type_get(Line.set))
           /\ Fail(pos + 1, "parse")
  <2>1. /\ file \in Files /\ pos \in Nat /\ Len(file) \in Nat /\ pos < Len(file)
        /\ Line = file[pos + 1]
    BY FileType DEF Inv, Types, ipset_parser, Reading, Line
  <2>2. PICK n : n = FirstPending
    OBVIOUS
  <2>3. n \in Nat /\ n <= pos + 1
        /\ \A k \in n .. pos : file[k].cmd \in ADT /\ file[k].set = file[n].set
    <3>1. CASE buffer.lines = << >>
      <4>1. n = pos + 1
        BY <1>1, <2>2, <3>1, LibraryMapped
      <4>2. n .. pos = {}
        BY <2>1, <4>1
      <4> QED
        BY <2>1, <4>1, <4>2
    <3>2. CASE buffer.lines # << >>
      <4>1. PICK len \in Nat : len = Len(buffer.lines) /\ len # 0
        BY <3>2, HoldsType, MsgFields DEF Inv
      <4>2. /\ \A i \in 1 .. len : /\ buffer.lines[i] = pos + i - len
                                   /\ buffer.lines[i] \in 1 .. pos
                                   /\ file[buffer.lines[i]].cmd = buffer.cmd
                                   /\ file[buffer.lines[i]].set = buffer.set
            /\ buffer.cmd \in ADT
        BY <3>2, <4>1 DEF Inv, Holds
      <4>3. n = pos + 1 - len /\ n \in 1 .. pos
        BY <1>1, <2>2, <3>2, <4>1, <4>2, LibraryMapped
      <4>4. \A k \in n .. pos : file[k].cmd = buffer.cmd /\ file[k].set = buffer.set
        <5> TAKE k \in n .. pos
        <5>1. PICK i \in 1 .. len : k = pos + i - len
          <6>1. k + len - pos \in 1 .. len /\ k = pos + (k + len - pos) - len
            BY <2>1, <4>1, <4>3
          <6> QED
            BY <6>1
        <5> QED
          BY <4>2, <5>1
      <4>5. n \in n .. pos
        BY <2>1, <4>3
      <4> QED
        BY <2>1, <4>2, <4>3, <4>4, <4>5
    <3> QED
      BY <3>1, <3>2
  <2>4. file[pos + 1].cmd = "bad" \/ (file[pos + 1].cmd \in ADT /\ file[pos + 1].set \notin DOMAIN InKernel)
    BY <1>3, <2>1 DEF ipset_type_get, InKernel
  <2>5. pos + 1 \in n .. Len(file) /\ (pos + 1) - 1 = pos
    BY <2>1, <2>3
  <2>6. status' = "failed" /\ report' = [line |-> pos + 1, why |-> "parse"]
    BY <1>3 DEF Fail
  <2>7. Promise!Reject
    BY <1>1, <1>2, <2>2, <2>3, <2>4, <2>5, <2>6 DEF Promise!Reject, ADT, Promise!ADT
  <2> QED
    BY <2>7
<1>4. CASE UNCHANGED <<status, report>>
  BY <1>2, <1>4 DEF Stutter
<1> QED
  BY <1>3, <1>4 DEF ipset_parser

LEMMA BuildMapped ==
    ASSUME Inv, build_msg
    PROVE  Stutter
<1>1. /\ UNCHANGED <<file, msg, phase, at, sets, status, report>>
      /\ phase = "idle" /\ pos' = pos + 1
  BY DEF build_msg, Reading, kernelVars
<1>2. msg.lines = << >> /\ msg'.lines = << >> /\ at' = 0
  BY <1>1, LibraryHas
<1>3. FirstPending' = FirstPending
  <2>1. CASE buffer.lines = << >> /\ buffer'.lines = <<pos + 1>>
    BY <1>2, <2>1 DEF FirstPending
  <2>2. CASE buffer.lines # << >> /\ buffer' = [buffer EXCEPT !.lines = Append(@, pos + 1),
                                                             !.len = @ + AttrLen(Line)]
    <3>1. buffer \in MsgType /\ pos + 1 \in Nat
      BY HoldsType, FileType DEF Inv, Types
    <3>2. buffer'.lines = Append(buffer.lines, pos + 1)
      BY <2>2, <3>1 DEF MsgType
    <3>3. PICK s \in Seq(Nat) : s = buffer.lines
      BY <3>1, MsgFields
    <3>4. PICK t : t = Append(s, pos + 1)
      OBVIOUS
    <3>5. t[1] = s[1] /\ t # << >>
      BY <2>2, <3>1, <3>3, <3>4
    <3> QED
      BY <1>2, <2>2, <3>2, <3>3, <3>4, <3>5 DEF FirstPending
  <2> QED
    BY <2>1, <2>2 DEF build_msg, may_aggregate_ad
<1>4. PendingElement' = PendingElement
  BY <1>1, <1>3 DEF PendingElement, FirstOf
<1> QED
  BY <1>1, <1>3, <1>4 DEF Stutter, InKernel

LEMMA CommitMapped ==
    ASSUME Inv, ipset_commit
    PROVE  Stutter
<1>1. /\ UNCHANGED <<file, at, sets, status, report>>
      /\ phase = "idle" /\ buffer.lines # << >> /\ msg' = buffer
  BY DEF ipset_commit, Send
<1>2. msg.lines = << >>
  BY <1>1, LibraryHas
<1>3. FirstPending' = FirstPending
  BY <1>1, <1>2 DEF FirstPending
<1> QED
  BY <1>1, <1>3 DEF Stutter, InKernel, PendingElement, FirstOf

LEMMA CmdMapped ==
    ASSUME Inv, ipset_cmd
    PROVE  Stutter
<1>1. /\ UNCHANGED <<file, at, sets, status, report>>
      /\ phase = "idle" /\ buffer.lines = << >> /\ msg'.lines = <<pos + 1>>
  BY DEF ipset_cmd, Send, Reading
<1>2. msg.lines = << >>
  BY <1>1, LibraryHas
<1>3. FirstPending' = FirstPending
  BY <1>1, <1>2 DEF FirstPending
<1> QED
  BY <1>1, <1>3 DEF Stutter, InKernel, PendingElement, FirstOf

LEMMA SkipMapped ==
    ASSUME Inv, SkipCommit
    PROVE  Promise!Commit
<1>1. /\ UNCHANGED <<file, buffer, msg, phase, at, sets, status, report>>
      /\ status = "running" /\ phase = "idle" /\ pos < Len(file) /\ Line.cmd = "COMMIT"
      /\ buffer.lines = << >> /\ pos' = pos + 1
  BY DEF SkipCommit, Reading, kernelVars
<1>2. file \in Files /\ pos \in Nat /\ Len(file) \in Nat /\ DOMAIN file = 1 .. Len(file)
  BY FileType DEF Inv, Types
<1>3. FirstPending = pos + 1 /\ msg.lines = << >> /\ at = 0
  BY <1>1, LibraryMapped, LibraryHas
<1>4. FirstPending' = FirstPending + 1
  BY <1>1, <1>3 DEF FirstPending
<1>5. PendingElement' = FirstOf(FirstPending + 1)
  BY <1>1, <1>3, <1>4 DEF PendingElement, FirstOf
<1>6. FirstPending \in DOMAIN file /\ file[FirstPending].cmd = "COMMIT"
  BY <1>1, <1>2, <1>3 DEF Line
<1> QED
  BY <1>1, <1>4, <1>5, <1>6, FirstIsAt
     DEF Promise!Commit, Promise!Running, Promise!NextLine, InKernel

LEMMA EndMapped ==
    ASSUME Inv, EndOfFile
    PROVE  Promise!Finish
<1>1. /\ UNCHANGED <<file, buffer, pos, msg, at, sets, report>>
      /\ status = "running" /\ phase = "idle" /\ pos = Len(file) /\ buffer.lines = << >>
      /\ status' = "done"
  BY DEF EndOfFile, libVars, kernelVars
<1>2. FirstPending = Len(file) + 1
  BY <1>1, LibraryMapped
<1>3. UNCHANGED <<InKernel, FirstPending, PendingElement>>
  BY <1>1 DEF InKernel, FirstPending, PendingElement, FirstOf
<1> QED
  BY <1>1, <1>2, <1>3 DEF Promise!Finish

LEMMA RefusedMapped ==
    ASSUME Inv, phase \in {"queued", "held"}, KernelStep,
           NEW why \in {"exist", "missing", "full"}, Refused(why)
    PROVE  Promise!Refuse
<1>1. /\ UNCHANGED <<file, pos, buffer, msg, at, sets>>
      /\ status' = "failed" /\ report' = [line |-> Head(msg.lines), why |-> why]
  BY DEF KernelStep, Refused, Fail
<1>2. UNCHANGED <<InKernel, FirstPending, PendingElement>>
  BY <1>1 DEF InKernel, FirstPending, PendingElement, FirstOf
<1>3. /\ FirstPending = Head(msg.lines) /\ FirstPending \in DOMAIN file /\ status = "running"
      /\ file[FirstPending].cmd \in ADT \union Plain
  BY KernelMapped, KernelHas
<1>4. report' = [line |-> FirstPending, why |-> why]
  BY <1>1, <1>3
<1> QED
  BY <1>1, <1>2, <1>3, <1>4
     DEF Promise!Refuse, Promise!Running, ADT, Promise!ADT, Plain

\* The last line of a message is acknowledged
LEMMA AcknowledgedMapped ==
    ASSUME Inv, phase # "idle", KernelStep, Acknowledged, Len(msg.lines) = 1
    PROVE  Promise!NextLine /\ UNCHANGED <<file, status, report>>
<1>1. /\ UNCHANGED <<file, pos, buffer, status, report>> /\ msg' = Empty /\ at' = 0
  BY DEF KernelStep, Acknowledged, Answered
<1>2. FirstPending = pos /\ buffer = Empty
  BY KernelMapped, KernelHas
<1>3. Empty.lines = << >>
  BY DEF Empty
<1>4. FirstPending' = FirstPending + 1
  BY <1>1, <1>2, <1>3 DEF FirstPending
<1>5. PendingElement' = FirstOf(FirstPending + 1)
  BY <1>1, <1>4 DEF PendingElement, FirstOf
<1> QED
  BY <1>1, <1>4, <1>5, FirstIsAt DEF Promise!NextLine

\* What a command that is sent at once finds
LEMMA PlainMapped ==
    ASSUME Inv, phase = "queued", msg.cmd \in Plain
    PROVE  /\ Promise!Running({msg.cmd}) /\ Len(msg.lines) = 1
           /\ file[FirstPending].set = msg.set
           /\ DOMAIN InKernel = DOMAIN sets
           /\ msg.exist => Promise!Tolerant(FirstPending)
<1>1. /\ FirstPending \in DOMAIN file /\ status = "running" /\ file[FirstPending].cmd = msg.cmd
      /\ file[FirstPending].set = msg.set /\ FirstPending = msg.lines[1]
  BY KernelMapped
<1>2. Len(msg.lines) = 1 /\ (msg.exist => Tolerated(file, msg.lines[1]))
  BY KernelHas
<1> QED
  BY <1>1, <1>2, ToleratedIs DEF Promise!Running, InKernel

LEMMA CreateMapped ==
    ASSUME Inv, ip_set_create
    PROVE  Promise!Create \/ Promise!Refuse
<1>1. phase = "queued" /\ KernelStep /\ msg.cmd = "create"
  BY DEF ip_set_create
<1>2. CASE Refused("exist")
  BY <1>1, <1>2, RefusedMapped
<1>3. CASE /\ msg.set \in DOMAIN sets => msg.exist
           /\ Acknowledged
           /\ sets' = IF msg.set \in DOMAIN sets THEN sets ELSE With(sets, msg.set, NewSet)
  <2>1. /\ Promise!Running({"create"}) /\ Len(msg.lines) = 1
        /\ file[FirstPending].set = msg.set
        /\ DOMAIN InKernel = DOMAIN sets
        /\ msg.exist => Promise!Tolerant(FirstPending)
    BY <1>1, PlainMapped DEF Plain
  <2>2. Promise!NextLine /\ UNCHANGED <<file, status, report>>
    BY <1>1, <1>3, <2>1, AcknowledgedMapped
  <2>3. CASE msg.set \in DOMAIN sets
    <3>1. InKernel' = InKernel
      BY <1>3, <2>3 DEF InKernel
    <3> QED
      BY <1>3, <2>1, <2>2, <2>3, <3>1 DEF Promise!Create
  <2>4. CASE msg.set \notin DOMAIN sets
    <3>1. InKernel' = [t \in DOMAIN InKernel \union {msg.set} |->
                         IF t = msg.set THEN {} ELSE InKernel[t]]
      <4>1. sets' = [t \in DOMAIN sets \union {msg.set} |->
                       IF t = msg.set THEN NewSet ELSE sets[t]]
        BY <1>3, <2>4 DEF With
      <4>2. NewSet.elements = {}
        BY DEF NewSet
      <4> QED
        BY <4>1, <4>2 DEF InKernel
    <3> QED
      BY <1>3, <2>1, <2>2, <2>4, <3>1 DEF Promise!Create
  <2> QED
    BY <2>3, <2>4
<1> QED
  BY <1>2, <1>3 DEF ip_set_create

LEMMA DestroyMapped ==
    ASSUME Inv, ip_set_destroy
    PROVE  Promise!Destroy \/ Promise!Refuse
<1>1. phase = "queued" /\ KernelStep /\ msg.cmd = "destroy"
  BY DEF ip_set_destroy
<1>2. CASE Refused("missing")
  BY <1>1, <1>2, RefusedMapped
<1>3. CASE /\ msg.set \in DOMAIN sets \/ msg.exist
           /\ Acknowledged /\ sets' = Without(sets, msg.set)
  <2>1. /\ Promise!Running({"destroy"}) /\ Len(msg.lines) = 1
        /\ file[FirstPending].set = msg.set
        /\ DOMAIN InKernel = DOMAIN sets
        /\ msg.exist => Promise!Tolerant(FirstPending)
    BY <1>1, PlainMapped DEF Plain
  <2>2. Promise!NextLine /\ UNCHANGED <<file, status, report>>
    BY <1>1, <1>3, <2>1, AcknowledgedMapped
  <2>3. InKernel' = [t \in DOMAIN InKernel \ {msg.set} |-> InKernel[t]]
    BY <1>3 DEF InKernel, Without
  <2> QED
    BY <1>3, <2>1, <2>2, <2>3 DEF Promise!Destroy
<1> QED
  BY <1>2, <1>3 DEF ip_set_destroy

LEMMA FlushMapped ==
    ASSUME Inv, ip_set_flush
    PROVE  Promise!Flush \/ Promise!Refuse
<1>1. phase = "queued" /\ KernelStep /\ msg.cmd = "flush"
  BY DEF ip_set_flush
<1>2. CASE Refused("missing")
  BY <1>1, <1>2, RefusedMapped
<1>3. CASE /\ msg.set \in DOMAIN sets /\ Acknowledged
           /\ sets' = [sets EXCEPT ![msg.set].elements = {}]
  <2>1. /\ Promise!Running({"flush"}) /\ Len(msg.lines) = 1
        /\ file[FirstPending].set = msg.set
        /\ DOMAIN InKernel = DOMAIN sets
    BY <1>1, PlainMapped DEF Plain
  <2>2. Promise!NextLine /\ UNCHANGED <<file, status, report>>
    BY <1>1, <1>3, <2>1, AcknowledgedMapped
  <2>3. InKernel' = [InKernel EXCEPT ![msg.set] = {}]
    <3>1. Typed(sets) /\ {} \in SUBSET (1 .. MaxElem)
      BY DEF Inv, Types
    <3> QED
      BY <1>3, <3>1, KernelElements, ElementsElements
  <2> QED
    BY <1>3, <2>1, <2>2, <2>3 DEF Promise!Flush
<1> QED
  BY <1>2, <1>3 DEF ip_set_flush

\* Releasing the mutex changes nothing that RestoreSpec sees
LEMMA ReleaseMapped ==
    ASSUME Inv, Working, ReleaseNfnl, KernelStep
    PROVE  Stutter
<1>1. /\ UNCHANGED <<file, pos, buffer, msg, at, status, report>>
      /\ sets' = [sets EXCEPT ![msg.set].next = at]
  BY DEF KernelStep, ReleaseNfnl, hash_ip4_data_next
<1>2. phase = "held" /\ msg.cmd \in ADT /\ msg.set \in DOMAIN sets /\ at <= Element.to
  BY DEF Working, Inv, Busy
<1>3. at \in 0 .. MaxElem
  <2>1. Element.to \in Nat /\ Element.to <= MaxElem /\ MaxElem \in Nat
    BY <1>2, ElementRange
  <2>2. at \in Nat
    BY DEF Inv, Types
  <2> QED
    BY <1>2, <2>1, <2>2
<1>4. Typed(sets)
  BY DEF Inv, Types
<1>5. ElementsOf([sets EXCEPT ![msg.set].next = at]) = ElementsOf(sets)
  BY <1>2, <1>3, <1>4, ElementsNext
<1>6. InKernel' = InKernel
  BY <1>1, <1>5, KernelElements
<1> QED
  BY <1>1, <1>6 DEF Stutter, FirstPending, PendingElement, FirstOf

LEMMA AdMapped ==
    ASSUME Inv, ip_set_ad
    PROVE  Stutter \/ Promise!Refuse
<1>1. phase = "queued" /\ KernelStep /\ msg.cmd \in ADT /\ at = 0
  BY DEF ip_set_ad, Inv, Busy
<1>2. CASE Refused("missing")
  BY <1>1, <1>2, RefusedMapped
<1>3. CASE /\ at' = file[Head(msg.lines)].from
           /\ UNCHANGED <<msg, cache, sets, status, report>>
  <2>1. UNCHANGED <<file, pos, buffer, msg, sets, status, report>>
    BY <1>1, <1>3 DEF KernelStep
  <2>2. UNCHANGED <<InKernel, FirstPending>>
    BY <2>1 DEF InKernel, FirstPending
  <2>3. /\ FirstPending = Head(msg.lines) /\ FirstPending \in 1 .. Len(file)
        /\ file[FirstPending] = Element /\ Element.cmd = msg.cmd
    BY <1>1, KernelMapped
  <2>4. PendingElement = Element.from
    BY <1>1, <2>3 DEF PendingElement, FirstOf
  <2>5. at' = Element.from
    BY <1>3 DEF Element
  <2>6. Element.from # 0
    <3>1. 1 <= Element.from /\ Element.from \in Nat
      BY <1>1, ElementRange
    <3> QED
      BY <3>1
  <2>7. PendingElement' = PendingElement
    BY <2>4, <2>5, <2>6 DEF PendingElement
  <2> QED
    BY <2>1, <2>2, <2>7 DEF Stutter
<1> QED
  BY <1>2, <1>3 DEF ip_set_ad

LEMMA UadtMapped ==
    ASSUME Inv, ~ SharedNext, hash_ip4_uadt
    PROVE  Promise!Element \/ Promise!Refuse
<1>1. /\ phase = "held" /\ at <= Element.to /\ KernelStep
      /\ msg.cmd \in ADT /\ msg.set \in DOMAIN sets /\ at # 0
      /\ at \in Element.from .. (Element.to + 1)
  BY DEF hash_ip4_uadt, Working, Inv, Busy, InRange
<1>2. CASE Refused(IF Present THEN "exist" ELSE "missing")
  BY <1>1, <1>2, RefusedMapped
<1>3. CASE /\ ~ (Present = (msg.cmd = "add") /\ ~ msg.exist)
           /\ sets' = [sets EXCEPT ![msg.set].elements =
                         IF msg.cmd = "add" THEN @ \union {at} ELSE @ \ {at}]
           /\ at' = at + 1 /\ UNCHANGED <<msg, phase, cache, status, report>>
  <2>1. UNCHANGED <<file, pos, buffer, msg, status, report>>
    BY <1>1, <1>3 DEF KernelStep
  <2>2. /\ Element.from \in Nat /\ Element.to \in Nat /\ Element.to <= MaxElem
        /\ 1 <= Element.from /\ MaxElem \in Nat /\ at \in Nat
    BY <1>1, ElementRange DEF Inv, Types
  <2>3. /\ FirstPending \in DOMAIN file /\ status = "running" /\ FirstPending = msg.lines[1]
        /\ file[FirstPending] = Element /\ Element.cmd = msg.cmd /\ Element.set = msg.set
        /\ PendingElement = at
    BY <1>1, KernelMapped
  <2>4. FirstPending' = FirstPending /\ PendingElement' = at + 1
    BY <1>3, <2>1, <2>2 DEF FirstPending, PendingElement
  <2>5. DOMAIN InKernel = DOMAIN sets /\ InKernel[msg.set] = sets[msg.set].elements
    BY <1>1 DEF InKernel
  <2>6. at \in Element.from .. Element.to
    BY <1>1, <2>2
  <2>7. (at \in InKernel[msg.set]) # (msg.cmd = "del") => Promise!Tolerant(FirstPending)
    <3>1. Present = (at \in InKernel[msg.set])
      BY <2>5 DEF Present
    <3>2. (msg.cmd = "add") = ~ (msg.cmd = "del")
      BY <1>1 DEF ADT
    <3>3. Present \in BOOLEAN
      BY DEF Present
    <3>4. (at \in InKernel[msg.set]) # (msg.cmd = "del") => msg.exist
      BY <1>3, <3>1, <3>2, <3>3
    <3>5. msg.exist => Tolerated(file, FirstPending)
      BY <1>1, <2>3, KernelHas
    <3> QED
      BY <3>4, <3>5, ToleratedIs
  <2>8. InKernel' = [InKernel EXCEPT ![msg.set] =
                       IF msg.cmd = "add" THEN @ \union {at} ELSE @ \ {at}]
    <3> DEFINE o == sets[msg.set].elements
    <3>1. PICK e : e = IF msg.cmd = "add" THEN o \union {at} ELSE o \ {at}
      OBVIOUS
    <3>2. o \in SUBSET (1 .. MaxElem) /\ Typed(sets)
      BY <1>1 DEF Inv, Types, Typed, SetType
    <3>3. at \in 1 .. MaxElem
      BY <1>1, <2>2
    <3>4. e \in SUBSET (1 .. MaxElem)
      BY <3>1, <3>2, <3>3
    <3>5. sets' = [sets EXCEPT ![msg.set].elements = e]
      BY <1>3, <3>1
    <3>6. ElementsOf([sets EXCEPT ![msg.set].elements = e]) = [ElementsOf(sets) EXCEPT ![msg.set] = e]
      BY <1>1, <3>2, <3>4, ElementsElements
    <3>7. InKernel' = [InKernel EXCEPT ![msg.set] = e]
      BY <3>5, <3>6, KernelElements
    <3>8. e = IF msg.cmd = "add" THEN InKernel[msg.set] \union {at} ELSE InKernel[msg.set] \ {at}
      BY <2>5, <3>1
    <3> QED
      BY <3>7, <3>8
  <2> HIDE DEF Element
  <2>9. Promise!Running(Promise!ADT)
    BY <1>1, <2>3 DEF Promise!Running, Promise!ADT, ADT
  <2> QED
    BY <1>1, <2>1, <2>3, <2>4, <2>5, <2>6, <2>7, <2>8, <2>9
       DEF Promise!Element, Promise!Range
<1> QED
  BY <1>2, <1>3 DEF hash_ip4_uadt

LEMMA BatchMapped ==
    ASSUME Inv, RangeBatch
    PROVE  Stutter
BY ReleaseMapped DEF RangeBatch

LEMMA BucketMapped ==
    ASSUME Inv, BucketFull
    PROVE  Stutter \/ Promise!Refuse
<1>1. phase = "held" /\ Working /\ KernelStep /\ (ReleaseNfnl \/ Refused("full"))
  BY DEF BucketFull, Working
<1> QED
  BY <1>1, ReleaseMapped, RefusedMapped

\* A retry goes on where it stopped: next is what the range left there
LEMMA CallMapped ==
    ASSUME Inv, ~ SharedNext, CALL_AD
    PROVE  Stutter
<1>1. /\ UNCHANGED <<file, pos, buffer, msg, sets, status, report>>
      /\ phase = "released" /\ at' \in NextFound
  BY DEF CALL_AD, KernelStep
<1>2. at' = at
  BY <1>1, RestoreAssumption DEF Inv, InRange, NextFound
<1> QED
  BY <1>1, <1>2 DEF Stutter, InKernel, FirstPending, PendingElement, FirstOf

LEMMA NextElementMapped ==
    ASSUME Inv, NextElement
    PROVE  Promise!LastElement
<1>1. /\ phase = "held" /\ at > Element.to /\ KernelStep /\ UNCHANGED <<cache, sets, full>>
      /\ msg.cmd \in ADT /\ at # 0
  BY DEF NextElement, Inv, Busy
<1>2. /\ FirstPending \in DOMAIN file /\ status = "running" /\ FirstPending = msg.lines[1]
      /\ file[FirstPending] = Element /\ Element.cmd = msg.cmd
      /\ PendingElement = at
  BY <1>1, KernelMapped
<1>3. Promise!NextLine /\ UNCHANGED <<file, status, report>>
  <2>1. CASE Len(msg.lines) = 1 /\ Acknowledged
    BY <1>1, <2>1, AcknowledgedMapped
  <2>2. CASE /\ Len(msg.lines) # 1 /\ msg' = [msg EXCEPT !.lines = Tail(@)]
             /\ at' = file[msg.lines[2]].from /\ UNCHANGED <<phase, status, report>>
    <3>1. UNCHANGED <<file, pos, buffer, status, report>>
      BY <1>1, <2>2 DEF KernelStep
    <3>2. PICK t : t = msg' /\ t = Shortened(msg)
      BY <2>2 DEF Shortened
    <3>3. /\ t.lines # << >> /\ t.cmd = msg.cmd /\ t.lines[1] = msg.lines[2]
          /\ msg.lines[2] = msg.lines[1] + 1
      <4>1. Holds(file, msg, pos) /\ pos \in Nat /\ msg.lines # << >> /\ Len(msg.lines) # 1
        BY <1>1, <2>2, FileType DEF Inv, Types, Sides
      <4> QED
        BY <3>2, <4>1, Shorter, ZenonT(60)
    <3>4. FirstPending' = FirstPending + 1
      BY <1>2, <3>2, <3>3 DEF FirstPending
    <3>5. /\ FirstPending' = Head(msg'.lines) /\ FirstPending' \in 1 .. Len(file)
          /\ file[FirstPending'].cmd = msg'.cmd
      <4>1. Inv'
        BY NextElementInv
      <4>2. Holds(file, t, pos)
        BY <3>1, <3>2, <4>1 DEF Inv
      <4>3. 1 \in 1 .. Len(t.lines)
        <5>1. Len(t.lines) \in Nat \ {0}
          BY <3>3, <4>2, HoldsType, MsgFields
        <5> QED
          BY <5>1
      <4>4. t.lines[1] \in 1 .. pos /\ file[t.lines[1]].cmd = t.cmd
        BY <4>2, <4>3 DEF Holds
      <4>5. FirstPending' = t.lines[1] /\ FirstPending' = Head(t.lines)
        BY <3>2, <3>3 DEF FirstPending
      <4>6. 1 .. pos \subseteq 1 .. Len(file)
        BY FileType DEF Inv, Types
      <4> QED
        BY <3>2, <4>4, <4>5, <4>6
    <3>6. PendingElement' = FirstOf(FirstPending + 1)
      <4>1. at' = file[FirstPending + 1].from /\ FirstOf(FirstPending + 1) = file[FirstPending + 1].from
        BY <1>1, <1>2, <2>2, <3>2, <3>3, <3>4, <3>5 DEF FirstOf
      <4>2. at' # 0
        BY <1>1, <2>2, NextElementInv DEF Inv, Busy
      <4> QED
        BY <4>1, <4>2 DEF PendingElement
    <3> QED
      BY <3>1, <3>4, <3>6, FirstIsAt DEF Promise!NextLine
  <2> QED
    BY <2>1, <2>2 DEF NextElement
<1>4. InKernel' = InKernel
  BY <1>1 DEF InKernel
<1> HIDE DEF Element
<1> QED
  BY <1>1, <1>2, <1>3, <1>4 DEF Promise!LastElement, Promise!Running, ADT, Promise!ADT

LEMMA ForeignMapped ==
    ASSUME Inv, Foreign
    PROVE  Promise!Others
<1>1. UNCHANGED <<file, pos, buffer, msg, phase, at, status, report>>
  BY DEF Foreign, libVars, kernelVars
<1>2. Elsewhere /\ Typed(sets)
  BY DEF Foreign, Elsewhere, Inv, Types
<1>3. UNCHANGED <<file, FirstPending, PendingElement, status, report>>
  BY <1>1 DEF FirstPending, PendingElement, FirstOf
<1>4. DOMAIN InKernel = DOMAIN sets /\ \A s \in DOMAIN sets : InKernel[s] = sets[s].elements
  BY DEF InKernel
<1>5. CASE \E s \in DOMAIN sets : \E n \in 1 .. MaxElem :
             \/ sets' = [sets EXCEPT ![s].elements = @ \union {n}]
             \/ sets' = [sets EXCEPT ![s].elements = @ \ {n}]
  <2>1. PICK s \in DOMAIN sets, n \in 1 .. MaxElem :
             \/ sets' = [sets EXCEPT ![s].elements = @ \union {n}]
             \/ sets' = [sets EXCEPT ![s].elements = @ \ {n}]
    BY <1>5
  <2>2. sets[s].elements \in SUBSET (1 .. MaxElem)
    BY <1>2, <2>1 DEF Typed, SetType
  <2>3. PICK e : /\ e = sets[s].elements \union {n} \/ e = sets[s].elements \ {n}
                 /\ sets' = [sets EXCEPT ![s].elements = e]
    BY <2>1
  <2>4. e \in SUBSET (1 .. MaxElem)
    BY <2>1, <2>2, <2>3
  <2>5. ElementsOf([sets EXCEPT ![s].elements = e]) = [ElementsOf(sets) EXCEPT ![s] = e]
    BY <1>2, <2>1, <2>4, ElementsElements
  <2>6. InKernel' = [InKernel EXCEPT ![s] = e]
    BY <2>3, <2>5, KernelElements
  <2>7. \/ InKernel' = [InKernel EXCEPT ![s] = @ \union {n}]
        \/ InKernel' = [InKernel EXCEPT ![s] = @ \ {n}]
    BY <1>4, <2>1, <2>3, <2>6
  <2> QED
    BY <1>3, <1>4, <2>1, <2>7 DEF Promise!Others
<1>6. CASE phase # "held" /\ \E s \in SetNames \ DOMAIN sets : sets' = With(sets, s, NewSet)
  <2>1. PICK s \in SetNames \ DOMAIN sets : sets' = With(sets, s, NewSet)
    BY <1>6
  <2>2. sets' = [t \in DOMAIN sets \union {s} |-> IF t = s THEN NewSet ELSE sets[t]]
    BY <2>1 DEF With
  <2>3. InKernel' = [t \in DOMAIN InKernel \union {s} |-> IF t = s THEN {} ELSE InKernel[t]]
    <3>1. NewSet.elements = {}
      BY DEF NewSet
    <3> QED
      BY <2>1, <2>2, <3>1 DEF InKernel
  <2> QED
    BY <1>3, <1>4, <2>1, <2>3 DEF Promise!Others
<1>7. CASE phase # "held" /\ \E s \in DOMAIN sets : ~ Pinned(s) /\ sets' = Without(sets, s)
  <2>1. PICK s \in DOMAIN sets : ~ Pinned(s) /\ sets' = Without(sets, s)
    BY <1>7
  <2>2. InKernel' = [t \in DOMAIN InKernel \ {s} |-> InKernel[t]]
    BY <2>1 DEF InKernel, Without
  <2>3. Promise!Midway => s # file[FirstPending].set
    <3>1. CASE phase = "released"
      <4>1. s # msg.set
        BY <2>1, <3>1 DEF Pinned
      <4>2. file[FirstPending] = Element /\ Element.set = msg.set
        BY <3>1, KernelMapped
      <4> QED
        BY <4>1, <4>2
    <3>2. CASE phase \in {"idle", "queued"}
      <4>1. PendingElement = FirstOf(FirstPending)
        BY <3>2 DEF Inv, Busy, PendingElement
      <4>2. FirstOf(FirstPending) = Promise!At(FirstPending)
        BY FirstIsAt
      <4>3. ~ Promise!Midway
        BY <4>1, <4>2 DEF Promise!Midway
      <4> QED
        BY <4>3
    <3>3. CASE phase = "refused"
      <4>1. ~ Promise!Midway
        BY <3>3 DEF Inv, Sides, Promise!Midway
      <4> QED
        BY <4>1
    <3> QED
      BY <1>7, <3>1, <3>2, <3>3 DEF Inv, Types
  <2> QED
    BY <1>3, <1>4, <2>1, <2>2, <2>3 DEF Promise!Others
<1> QED
  BY <1>2, <1>5, <1>6, <1>7 DEF Elsewhere

LEMMA InitMapped ==
    ASSUME Init
    PROVE  Promise!Init
<1>1. /\ file \in Files /\ pos = 0 /\ buffer = Empty /\ msg = Empty /\ at = 0
      /\ sets = [s \in Existing |-> NewSet] /\ status = "running" /\ report = NoReport
  BY DEF Init
<1>2. InKernel = [s \in Existing |-> {}]
  BY <1>1 DEF InKernel, NewSet
<1>3. FirstPending = 1
  BY <1>1 DEF FirstPending, Empty
<1>4. PendingElement = Promise!At(1)
  BY <1>1, <1>3, InvInit, FirstIsAt DEF PendingElement
<1> QED
  BY <1>1, <1>2, <1>3, <1>4 DEF Promise!Init, NoReport, Promise!NoReport

LEMMA StepMapped ==
    ASSUME Inv, ~ SharedNext, [Next]_vars
    PROVE  [Promise!Next]_(Promise!vars)
<1>1. Stutter => UNCHANGED Promise!vars
  BY DEF Stutter, Promise!vars
<1>2. CASE UNCHANGED vars
  BY <1>1, <1>2 DEF vars, libVars, kernelVars, Stutter, InKernel, FirstPending,
     PendingElement, FirstOf
<1>3. CASE Library
  <2>1. Stutter \/ Promise!Reject \/ Promise!Commit \/ Promise!Finish
    BY <1>3, ParserMapped, BuildMapped, CommitMapped, CmdMapped, SkipMapped, EndMapped DEF Library
  <2> QED
    BY <1>1, <2>1 DEF Promise!Next
<1>4. CASE Kernel
  <2>1. \/ Stutter \/ Promise!Create \/ Promise!Destroy \/ Promise!Flush \/ Promise!Refuse
        \/ Promise!Element \/ Promise!LastElement
    BY <1>4, CreateMapped, DestroyMapped, FlushMapped, AdMapped, UadtMapped, BatchMapped,
       BucketMapped, CallMapped, NextElementMapped DEF Kernel
  <2> QED
    BY <1>1, <2>1 DEF Promise!Next
<1>5. CASE Foreign
  BY <1>5, ForeignMapped DEF Promise!Next
<1> QED
  BY <1>2, <1>3, <1>4, <1>5 DEF Next

\* The lines of the file take effect in their order and each element of a line once, whatever
\* the library collects in a message, however often a batch or a resize gives up the mutex
\* in the middle of a range, and whatever other clients do; a refusal is reported with the
\* first line that had no effect. next must be the adding command's own: SharedNext is the
\* case in which packets and other clients write it too.
THEOREM InOrderCorrect ==
    ASSUME ~ SharedNext
    PROVE  Spec => InOrder
<1>1. Init => Promise!Init
  BY InitMapped
<1>2. Inv /\ [Next]_vars => [Promise!Next]_(Promise!vars)
  BY StepMapped
<1> QED
  BY <1>1, <1>2, Invariance, PTL DEF Spec, InOrder, Promise!Spec

----------------------------------------------------------------------------
(* Nothing is added that no line asks for                                  *)

LEMMA AskedStep ==
    ASSUME Inv, ~ SharedNext, OnlyAsked, [Next]_vars
    PROVE  OnlyAsked'
<1> SUFFICES ASSUME foreign' = 0, NEW s \in DOMAIN sets'
             PROVE  sets'[s].elements \subseteq Asked(s)'
  BY DEF OnlyAsked
<1>1. file' = file
  BY DEF Next, Library, Kernel, Foreign, vars, ipset_parser, build_msg, ipset_commit, ipset_cmd,
     SkipCommit, EndOfFile, ip_set_create, ip_set_destroy, ip_set_flush, ip_set_ad, hash_ip4_uadt,
     RangeBatch, BucketFull, CALL_AD, NextElement, KernelStep
<1>2. Asked(s)' = Asked(s)
  BY <1>1 DEF Asked
<1>3. foreign \in Nat /\ Typed(sets)
  BY RestoreAssumption DEF Inv, Types
<1>4. ~ Foreign
  BY <1>3 DEF Foreign
<1>5. foreign = 0
  BY <1>4 DEF Next, Library, Kernel, vars, ipset_parser, build_msg, ipset_commit, ipset_cmd,
     SkipCommit, EndOfFile, ip_set_create, ip_set_destroy, ip_set_flush, ip_set_ad, hash_ip4_uadt,
     RangeBatch, BucketFull, CALL_AD, NextElement, KernelStep
<1>6. \A t \in DOMAIN sets : sets[t].elements \subseteq Asked(t)
  BY <1>5 DEF OnlyAsked
<1>7. CASE sets' = sets
  BY <1>2, <1>6, <1>7
<1>8. CASE sets' = With(sets, msg.set, NewSet)
  BY <1>2, <1>6, <1>8 DEF With, NewSet
<1>9. CASE sets' = Without(sets, msg.set)
  BY <1>2, <1>6, <1>9 DEF Without
<1>10. CASE msg.set \in DOMAIN sets /\ sets' = [sets EXCEPT ![msg.set].elements = {}]
  BY <1>2, <1>3, <1>6, <1>10 DEF Typed, SetType
<1>11. CASE msg.set \in DOMAIN sets /\ sets' = [sets EXCEPT ![msg.set].next = at]
  BY <1>2, <1>3, <1>6, <1>11 DEF Typed, SetType
<1>12. CASE /\ Working
            /\ sets' = [sets EXCEPT ![msg.set].elements =
                          IF msg.cmd = "add" THEN @ \union {at} ELSE @ \ {at}]
  <2>1. /\ phase = "held" /\ msg.set \in DOMAIN sets /\ msg.cmd \in ADT
        /\ at \in Element.from .. (Element.to + 1) /\ at <= Element.to
    BY <1>12 DEF Working, Inv, Busy, InRange
  <2>2. /\ Element.from \in Nat /\ Element.to \in Nat /\ msg.lines[1] \in 1 .. Len(file)
        /\ Element = file[msg.lines[1]] /\ Element.cmd = msg.cmd /\ Element.set = msg.set
    BY <2>1, ElementRange, KernelHas
  <2>3. at \in Element.from .. Element.to
    BY <2>1, <2>2
  <2>4. msg.cmd = "add" => at \in Asked(msg.set)
    <3> HIDE DEF Element
    <3> QED
      BY <2>2, <2>3 DEF Asked
  <2> DEFINE e == IF msg.cmd = "add" THEN sets[msg.set].elements \union {at}
                  ELSE sets[msg.set].elements \ {at}
  <2>5. e \subseteq Asked(msg.set)
    BY <1>6, <2>1, <2>4
  <2>6. sets' = [sets EXCEPT ![msg.set].elements = e]
    BY <1>12
  <2> HIDE DEF e
  <2>7. CASE s = msg.set
    <3>1. sets'[s].elements = e
      BY <1>3, <2>1, <2>6, <2>7 DEF Typed, SetType
    <3> QED
      BY <1>2, <2>5, <2>7, <3>1
  <2>8. CASE s # msg.set
    <3>1. s \in DOMAIN sets /\ sets'[s] = sets[s]
      BY <2>1, <2>6, <2>8
    <3> QED
      BY <1>2, <1>6, <3>1
  <2> QED
    BY <2>7, <2>8
<1> QED
  <2>1. CASE Library \/ UNCHANGED vars
    BY <1>7, <2>1 DEF Library, vars, ipset_parser, build_msg, ipset_commit, ipset_cmd, SkipCommit,
       EndOfFile
  <2>2. CASE ip_set_create \/ ip_set_destroy \/ ip_set_flush
    BY <1>7, <1>8, <1>9, <1>10, <2>2 DEF ip_set_create, ip_set_destroy, ip_set_flush, Refused
  <2>3. CASE RangeBatch \/ BucketFull
    BY <1>7, <1>11, <2>3 DEF RangeBatch, BucketFull, ReleaseNfnl, hash_ip4_data_next, Refused,
       Working, Inv, Busy
  <2>4. CASE hash_ip4_uadt
    BY <1>7, <1>12, <2>4 DEF hash_ip4_uadt, Refused
  <2>5. CASE ip_set_ad \/ CALL_AD \/ NextElement
    BY <1>7, <2>5 DEF ip_set_ad, CALL_AD, NextElement, Refused
  <2> QED
    BY <1>4, <2>1, <2>2, <2>3, <2>4, <2>5 DEF Next, Kernel

\* When next is the command's own, what an add leaves in the sets are elements of lines that
\* add to that set.
THEOREM OnlyAskedCorrect ==
    ASSUME ~ SharedNext
    PROVE  Spec => []OnlyAsked
<1>1. Init => OnlyAsked
  BY DEF Init, OnlyAsked, NewSet
<1>2. Inv /\ OnlyAsked /\ [Next]_vars => OnlyAsked'
  BY AskedStep
<1> QED
  BY <1>1, <1>2, Invariance, PTL DEF Spec
=============================================================================
