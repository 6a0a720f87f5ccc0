---------------------------- MODULE AnswersProofs ----------------------------
(***************************************************************************)
(* Proofs about what an agent is told before it starts and while it works. *)
(*                                                                         *)
(* The server, for any lines a client may send, any root and any cache     *)
(* time: answers are recent, fresh where that was asked for and confined   *)
(* to the root, and every request is answered once, in order.  The reports *)
(* in the output are sound because the one in the cache is (CacheIsHonest: *)
(* it was observed after the moment it is stamped with) and because the    *)
(* request that is being scanned for is the last line that was read, at    *)
(* the moment the cache will be stamped with (ScanIsForLast).              *)
(***************************************************************************)
EXTENDS CommandsProofs, McpServer

-----------------------------------------------------------------------------
(* What the manifests declare.                                             *)

(* The provers do not know of a literal that it is a string: this says it  *)
(* of the two that are needed.                                             *)
Words == STRING \cup {"cd", "web"}

Worded == [program : Words, args : Seq(Words)]

Dir == Seq(Words)

LEMMA ClimbStays ==
  ASSUME NEW dir \in Dir, NEW word \in Words
  PROVE  /\ Agent!Climb(dir, word) \in Dir
         /\ word = "." => Agent!Climb(dir, word) = dir
         /\ word \notin {".", ".."} => Agent!Climb(dir, word) = Append(dir, word)
<1>1. word = "." => Agent!Climb(dir, word) = dir
  BY Zenon DEF Agent!Climb
<1>2. word = ".." => Agent!Climb(dir, word) = IF dir = <<>> THEN <<>> ELSE SubSeq(dir, 1, Len(dir) - 1)
  BY Zenon DEF Agent!Climb
<1>3. word \notin {".", ".."} => Agent!Climb(dir, word) = Append(dir, word)
  BY Zenon DEF Agent!Climb
<1>4. dir # <<>> => SubSeq(dir, 1, Len(dir) - 1) \in Dir
  <2> DEFINE m == Len(dir) - 1
  <2>1. m \in Int /\ 1 \in Int /\ \A i \in 1..m : dir[i] \in Words
    BY DEF Dir
  <2> HIDE DEF m
  <2>2. SubSeq(dir, 1, m) \in Seq(Words)
    BY <2>1, SubSeqProperties
  <2> QED BY <2>2 DEF Dir, m
<1>5. <<>> \in Dir /\ Append(dir, word) \in Dir
  <2>1. <<>> \in Seq(Words)
    OBVIOUS
  <2>2. Append(dir, word) \in Seq(Words)
    BY AppendProperties, Zenon DEF Dir
  <2> QED BY <2>1, <2>2 DEF Dir
<1>6. word = ".." => Agent!Climb(dir, word) \in Dir
  BY <1>2, <1>4, <1>5, Zenon
<1>7. CASE word = "."
  BY <1>1, <1>7, Zenon
<1>8. CASE word = ".."
  BY <1>6, <1>8
<1>9. CASE word \notin {".", ".."}
  BY <1>3, <1>5, <1>9
<1> QED BY <1>7, <1>8, <1>9

(* Where the words of a `cd` lead, one after the other.                      *)
Walked(h, dir, args) ==
  /\ h \in [0..Len(args) -> Dir] /\ h[0] = dir
  /\ \A k \in 0..(Len(args) - 1) : h[k + 1] = Agent!Climb(h[k], args[k + 1])

LEMMA WalkIsALoop ==
  ASSUME NEW dir \in Dir, NEW args \in Seq(Words)
  PROVE  \E h : Walked(h, dir, args) /\ Agent!FoldLeft(Agent!Climb, dir, args) = h[Len(args)]
<1> DEFINE n == Len(args)
           A == Dir
           next(acc, i) == Agent!Climb(acc, args[i])
           G == [p \in A \X (1..n) |-> next(p[1], p[2])]
           Loop(f) == f = [s \in SUBSET (1..n) |-> IF s = {} THEN dir
                                                  ELSE next(f[s \ {Agent!Max(s)}], Agent!Max(s))]
           f0 == CHOOSE f : Loop(f)
<1>1. n \in Nat /\ DOMAIN args = 1..n
  OBVIOUS
<1>2. dir \in A
  OBVIOUS
<1>3. \A a \in A, i \in 1..n : next(a, i) \in A
  <2>1. \A i \in 1..n : args[i] \in Words
    OBVIOUS
  <2> HIDE DEF n
  <2> QED BY <2>1, ClimbStays, Zenon
<1>4. Agent!FoldLeft(Agent!Climb, dir, args) = f0[1..n]
  BY <1>1 DEF Agent!FoldLeft, Agent!MapThenFoldSet
<1> HIDE DEF next, A
<1>5. G \in [A \X (1..n) -> A]
  BY <1>3
<1>6. PICK f : IsFold(f, n, A, dir, G)
  <2> HIDE DEF G, n
  <2> QED BY <1>1, <1>2, <1>5, FoldExists, Zenon
<1>7. \A s : Agent!Max(s) = Greatest(s)
  BY DEF Agent!Max, Greatest
<1>8. \A s \in SUBSET (1..n) : s # {} => Greatest(s) \in s
  <2> SUFFICES ASSUME NEW s \in SUBSET (1..n), s # {} PROVE Greatest(s) \in s
    OBVIOUS
  <2> HIDE DEF n
  <2> QED BY <1>1, GreatestIsThere, Zenon
<1>9. Loop(f)
  <2>0. /\ f \in [SUBSET (1..n) -> A]
        /\ \A s \in SUBSET (1..n) : f[s] = IF s = {} THEN dir ELSE G[<<f[s \ {Greatest(s)}], Greatest(s)>>]
    BY <1>6 DEF IsFold
  <2>1. ASSUME NEW s \in SUBSET (1..n), s # {}
        PROVE  f[s] = next(f[s \ {Agent!Max(s)}], Agent!Max(s))
    <3>1. Greatest(s) \in 1..n /\ f[s \ {Greatest(s)}] \in A
      BY <1>8, <2>0, <2>1
    <3>2. G[<<f[s \ {Greatest(s)}], Greatest(s)>>] = next(f[s \ {Greatest(s)}], Greatest(s))
      BY <3>1
    <3> HIDE DEF G
    <3> QED BY <1>7, <2>0, <2>1, <3>2
  <2> HIDE DEF G
  <2> QED BY <2>0, <2>1
<1>10. Loop(f0)
  <2> HIDE DEF Loop
  <2> QED BY <1>9, Zenon
<1>11. f0[1..0] = dir
  <2>1. 1..0 \in SUBSET (1..n) /\ 1..0 = {}
    OBVIOUS
  <2> HIDE DEF f0
  <2> QED BY <1>10, <2>1
<1>12. ASSUME NEW k \in 0..(n - 1) PROVE f0[1..(k + 1)] = next(f0[1..k], k + 1)
  <2>1. 1..(k + 1) \in SUBSET (1..n) /\ k \in Nat
    OBVIOUS
  <2>2. 1..(k + 1) # {} /\ Agent!Max(1..(k + 1)) = k + 1 /\ (1..(k + 1)) \ {k + 1} = 1..k
    BY <1>7, <2>1, GreatestUpTo
  <2> HIDE DEF f0
  <2> QED BY <1>10, <2>1, <2>2
<1>13. FoldsUp(f0, n, A, dir, G)
  <2>1. ASSUME NEW k \in 0..(n - 1), f0[1..k] \in A PROVE f0[1..(k + 1)] = G[<<f0[1..k], k + 1>>]
    <3>1. k + 1 \in 1..n
      OBVIOUS
    <3> HIDE DEF f0
    <3> QED BY <1>12, <2>1, <3>1
  <2> HIDE DEF f0, G
  <2> QED BY <1>11, <2>1 DEF FoldsUp
<1> DEFINE h == StepsOf(f0, n)
<1>14. Iterates(h, n, A, dir, G)
  <2> HIDE DEF f0, G, n
  <2> QED BY <1>1, <1>2, <1>5, <1>13, FoldIterates, Zenon
<1>15. h[n] = f0[1..n]
  BY <1>1 DEF StepsOf
<1> HIDE DEF h
<1>16. \A k \in 0..(n - 1) : h[k + 1] = next(h[k], k + 1)
  <2>1. \A k \in 0..(n - 1) : h[k] \in A /\ k + 1 \in 1..n
    BY <1>14 DEF Iterates
  <2> QED BY <1>14, <2>1 DEF Iterates
<1>17. h \in [0..n -> A] /\ h[0] = dir
  BY <1>14 DEF Iterates
<1>18. Walked(h, dir, args)
  BY <1>16, <1>17 DEF next, A, Walked
<1> QED BY <1>4, <1>15, <1>18

DeclaredLine == Seq(Worded)

(* A command that was read, and where it runs.                             *)
Located == [program : Words, args : Seq(Words), cwd : Dir]

LocatedCommand(c, dir) == [program |-> c.program, args |-> c.args, cwd |-> dir]

LEMMA CdLeadsSomewhere ==
  ASSUME NEW dir \in Dir, NEW args \in Seq(Words)
  PROVE  Agent!apply_cd(dir, args) \in Dir
<1>1. PICK h : Walked(h, dir, args) /\ Agent!FoldLeft(Agent!Climb, dir, args) = h[Len(args)]
  BY WalkIsALoop, Zenon
<1>2. h[Len(args)] \in Dir
  BY <1>1 DEF Walked
<1>3. <<>> \in Dir
  BY DEF Dir
<1> QED BY <1>1, <1>2, <1>3, Zenon DEF Agent!apply_cd

(* Where the command after c runs, and a line as far as it was read.       *)
Onward(dir, c) == IF c.program = "cd" THEN Agent!apply_cd(dir, c.args) ELSE dir

LineSoFar == [cwd : Dir, cmds : Seq(Located)]

ReadOn(acc, c) == [cwd |-> Onward(acc.cwd, c), cmds |-> Append(acc.cmds, LocatedCommand(c, acc.cwd))]

LEMMA ReadOnIsTyped ==
  ASSUME NEW acc \in LineSoFar, NEW c \in Worded
  PROVE  ReadOn(acc, c) \in LineSoFar
<1>1. acc.cwd \in Dir /\ acc.cmds \in Seq(Located) /\ c.args \in Seq(Words) /\ c.program \in Words
  BY DEF LineSoFar, Worded
<1>2. Onward(acc.cwd, c) \in Dir
  BY <1>1, CdLeadsSomewhere DEF Onward
<1>3. LocatedCommand(c, acc.cwd) \in Located
  BY <1>1 DEF LocatedCommand, Located
<1>4. Append(acc.cmds, LocatedCommand(c, acc.cwd)) \in Seq(Located)
  BY <1>1, <1>3, AppendProperties, Zenon
<1> QED BY <1>2, <1>4, Zenon DEF ReadOn, LineSoFar

(* The line as far as it was read, command after command.                  *)
LineIsRead(h, line) ==
  /\ h \in [0..Len(line) -> LineSoFar] /\ h[0] = [cwd |-> <<>>, cmds |-> <<>>]
  /\ \A k \in 0..(Len(line) - 1) : h[k + 1] = ReadOn(h[k], line[k + 1])

LEMMA ParseIsALoop ==
  ASSUME NEW line \in DeclaredLine
  PROVE  \E h : LineIsRead(h, line) /\ Agent!ParseLine(line) = h[Len(line)].cmds
<1> DEFINE n == Len(line)
           A == LineSoFar
           next(acc, i) == ReadOn(acc, line[i])
           G == [p \in A \X (1..n) |-> next(p[1], p[2])]
           Loop(f) == f = [s \in SUBSET (1..n) |-> IF s = {} THEN [cwd |-> <<>>, cmds |-> <<>>]
                                                  ELSE next(f[s \ {Agent!Max(s)}], Agent!Max(s))]
           f0 == CHOOSE f : Loop(f)
<1>1. n \in Nat /\ DOMAIN line = 1..n
  BY DEF DeclaredLine
<1>2. [cwd |-> <<>>, cmds |-> <<>>] \in A
  BY DEF LineSoFar, Dir
<1>3. \A a \in A, i \in 1..n : next(a, i) \in A
  <2>1. \A i \in 1..n : line[i] \in Worded
    BY DEF DeclaredLine
  <2> HIDE DEF n
  <2> QED BY <2>1, ReadOnIsTyped, Zenon
<1>4. Agent!ParseLine(line) = f0[1..n].cmds
  BY <1>1 DEF Agent!ParseLine, ReadOn, Onward, LocatedCommand, Agent!FoldLeft, Agent!MapThenFoldSet
<1> HIDE DEF next, A
<1>5. G \in [A \X (1..n) -> A]
  BY <1>3
<1>6. PICK f : IsFold(f, n, A, [cwd |-> <<>>, cmds |-> <<>>], G)
  <2> HIDE DEF G, n
  <2> QED BY <1>1, <1>2, <1>5, FoldExists, Zenon
<1>7. \A s : Agent!Max(s) = Greatest(s)
  BY DEF Agent!Max, Greatest
<1>8. \A s \in SUBSET (1..n) : s # {} => Greatest(s) \in s
  <2> SUFFICES ASSUME NEW s \in SUBSET (1..n), s # {} PROVE Greatest(s) \in s
    OBVIOUS
  <2> HIDE DEF n
  <2> QED BY <1>1, GreatestIsThere, Zenon
<1>9. Loop(f)
  <2>0. /\ f \in [SUBSET (1..n) -> A]
        /\ \A s \in SUBSET (1..n) : f[s] = IF s = {} THEN [cwd |-> <<>>, cmds |-> <<>>] ELSE G[<<f[s \ {Greatest(s)}], Greatest(s)>>]
    BY <1>6 DEF IsFold
  <2>1. ASSUME NEW s \in SUBSET (1..n), s # {}
        PROVE  f[s] = next(f[s \ {Agent!Max(s)}], Agent!Max(s))
    <3>1. Greatest(s) \in 1..n /\ f[s \ {Greatest(s)}] \in A
      BY <1>8, <2>0, <2>1
    <3>2. G[<<f[s \ {Greatest(s)}], Greatest(s)>>] = next(f[s \ {Greatest(s)}], Greatest(s))
      BY <3>1
    <3> HIDE DEF G
    <3> QED BY <1>7, <2>0, <2>1, <3>2
  <2> HIDE DEF G
  <2> QED BY <2>0, <2>1
<1>10. Loop(f0)
  <2> HIDE DEF Loop
  <2> QED BY <1>9, Zenon
<1>11. f0[1..0] = [cwd |-> <<>>, cmds |-> <<>>]
  <2>1. 1..0 \in SUBSET (1..n) /\ 1..0 = {}
    OBVIOUS
  <2> HIDE DEF f0
  <2> QED BY <1>10, <2>1
<1>12. ASSUME NEW k \in 0..(n - 1) PROVE f0[1..(k + 1)] = next(f0[1..k], k + 1)
  <2>1. 1..(k + 1) \in SUBSET (1..n) /\ k \in Nat
    OBVIOUS
  <2>2. 1..(k + 1) # {} /\ Agent!Max(1..(k + 1)) = k + 1 /\ (1..(k + 1)) \ {k + 1} = 1..k
    BY <1>7, <2>1, GreatestUpTo
  <2> HIDE DEF f0
  <2> QED BY <1>10, <2>1, <2>2
<1>13. FoldsUp(f0, n, A, [cwd |-> <<>>, cmds |-> <<>>], G)
  <2>1. ASSUME NEW k \in 0..(n - 1), f0[1..k] \in A PROVE f0[1..(k + 1)] = G[<<f0[1..k], k + 1>>]
    <3>1. k + 1 \in 1..n
      OBVIOUS
    <3> HIDE DEF f0
    <3> QED BY <1>12, <2>1, <3>1
  <2> HIDE DEF f0, G
  <2> QED BY <1>11, <2>1 DEF FoldsUp
<1> DEFINE h == StepsOf(f0, n)
<1>14. Iterates(h, n, A, [cwd |-> <<>>, cmds |-> <<>>], G)
  <2> HIDE DEF f0, G, n
  <2> QED BY <1>1, <1>2, <1>5, <1>13, FoldIterates, Zenon
<1>15. h[n] = f0[1..n]
  BY <1>1 DEF StepsOf
<1> HIDE DEF h
<1>16. \A k \in 0..(n - 1) : h[k + 1] = next(h[k], k + 1)
  <2>1. \A k \in 0..(n - 1) : h[k] \in A /\ k + 1 \in 1..n
    BY <1>14 DEF Iterates
  <2> QED BY <1>14, <2>1 DEF Iterates
<1>17. h \in [0..n -> A] /\ h[0] = [cwd |-> <<>>, cmds |-> <<>>]
  BY <1>14 DEF Iterates
<1>18. LineIsRead(h, line)
  BY <1>16, <1>17 DEF next, A, LineIsRead
<1> QED BY <1>4, <1>15, <1>18

(* The commands of a line, and where each of them runs.                    *)
LineGives(d, line, cmds) ==
  /\ d \in [0..Len(line) -> Dir] /\ d[0] = <<>>
  /\ \A k \in 0..(Len(line) - 1) : d[k + 1] = Onward(d[k], line[k + 1])
  /\ cmds \in Seq(Located) /\ Len(cmds) = Len(line)
  /\ \A k \in 1..Len(line) : cmds[k] = LocatedCommand(line[k], d[k - 1])

LEMMA LineIsParsed ==
  ASSUME NEW line \in DeclaredLine
  PROVE  \E d : LineGives(d, line, Agent!ParseLine(line))
<1> DEFINE n == Len(line)
<1>1. n \in Nat
  BY DEF DeclaredLine
<1>2. PICK h : LineIsRead(h, line) /\ Agent!ParseLine(line) = h[n].cmds
  BY ParseIsALoop, Zenon
<1>3. /\ h \in [0..n -> LineSoFar] /\ h[0] = [cwd |-> <<>>, cmds |-> <<>>]
      /\ \A k \in 0..(n - 1) : h[k + 1] = ReadOn(h[k], line[k + 1])
  BY <1>2, Zenon DEF LineIsRead
<1> HIDE DEF n
<1>4. ASSUME NEW k \in 0..n PROVE h[k].cwd \in Dir /\ h[k].cmds \in Seq(Located)
  BY <1>3 DEF LineSoFar
<1>5. ASSUME NEW k \in 0..(n - 1)
      PROVE  /\ h[k + 1].cwd = Onward(h[k].cwd, line[k + 1])
             /\ h[k + 1].cmds = Append(h[k].cmds, LocatedCommand(line[k + 1], h[k].cwd))
  <2>1. h[k + 1] = ReadOn(h[k], line[k + 1])
    BY <1>3
  <2>2. \A acc, c : /\ ReadOn(acc, c).cwd = Onward(acc.cwd, c)
                   /\ ReadOn(acc, c).cmds = Append(acc.cmds, LocatedCommand(c, acc.cwd))
    BY DEF ReadOn
  <2> QED BY <2>1, <2>2, Zenon
<1> DEFINE AsFar(k) == /\ Len(h[k].cmds) = k
                       /\ \A i \in 1..k : h[k].cmds[i] = LocatedCommand(line[i], h[i - 1].cwd)
           E == {k \in Nat : k <= n => AsFar(k)}
<1>6. 0 \in E
  BY <1>3
<1>7. ASSUME NEW k \in E PROVE k + 1 \in E
  <2> SUFFICES ASSUME k + 1 <= n PROVE AsFar(k + 1)
    <3> HIDE DEF AsFar
    <3> QED BY <1>1
  <2>1. k \in Nat /\ k \in 0..n /\ k \in 0..(n - 1) /\ k <= n
    BY <1>1
  <2>2. Len(h[k].cmds) = k /\ \A i \in 1..k : h[k].cmds[i] = LocatedCommand(line[i], h[i - 1].cwd)
    BY <2>1
  <2>3. h[k].cmds \in Seq(Located)
    BY <1>4, <2>1
  <2>4. h[k + 1].cmds = Append(h[k].cmds, LocatedCommand(line[k + 1], h[k].cwd))
    BY <1>5, <2>1
  <2> DEFINE last == LocatedCommand(line[k + 1], h[k].cwd)
             seen == h[k].cmds
  <2>5. seen \in Seq(Located) /\ Len(seen) = k /\ h[k + 1].cmds = Append(seen, last)
    BY <2>2, <2>3, <2>4
  <2> HIDE DEF last, seen
  <2>6. Len(h[k + 1].cmds) = k + 1 /\ h[k + 1].cmds[k + 1] = last
        /\ \A i \in 1..k : h[k + 1].cmds[i] = seen[i]
    BY <2>1, <2>5
  <2>7. ASSUME NEW i \in 1..(k + 1) PROVE h[k + 1].cmds[i] = LocatedCommand(line[i], h[i - 1].cwd)
    <3>1. CASE i = k + 1
      <4>1. i - 1 = k
        BY <2>1, <3>1
      <4> QED BY <2>6, <3>1, <4>1 DEF last
    <3>2. CASE i # k + 1
      <4>1. i \in 1..k
        BY <2>1, <3>2
      <4> QED BY <2>2, <2>6, <4>1 DEF seen
    <3> QED BY <3>1, <3>2
  <2> QED BY <2>6, <2>7
<1>8. AsFar(n)
  <2>1. Nat \subseteq E
    <3> HIDE DEF E
    <3> QED BY <1>6, <1>7, Induction
  <2> HIDE DEF AsFar
  <2> QED BY <1>1, <2>1
<1> DEFINE d == [k \in 0..n |-> h[k].cwd]
<1>9. d \in [0..n -> Dir] /\ d[0] = <<>>
  BY <1>1, <1>3, <1>4
<1>10. ASSUME NEW k \in 0..(n - 1) PROVE d[k + 1] = Onward(d[k], line[k + 1])
  <2>1. k \in 0..n /\ k + 1 \in 0..n
    BY <1>1
  <2> QED BY <1>5, <2>1
<1>11. ASSUME NEW k \in 1..n PROVE h[n].cmds[k] = LocatedCommand(line[k], d[k - 1])
  <2>1. k - 1 \in 0..n
    BY <1>1
  <2> QED BY <1>8, <2>1
<1> HIDE DEF d
<1>12. h[n].cmds \in Seq(Located) /\ Len(h[n].cmds) = n
  BY <1>1, <1>4, <1>8
<1>13. LineGives(d, line, h[n].cmds)
  BY <1>9, <1>10, <1>11, <1>12 DEF LineGives, n
<1> QED BY <1>2, <1>13

LEMMA ParseLineIsTyped ==
  ASSUME NEW line \in DeclaredLine
  PROVE  Agent!ParseLine(line) \in Seq(Located)
<1>1. PICK d : LineGives(d, line, Agent!ParseLine(line))
  BY LineIsParsed
<1> QED BY <1>1, Zenon DEF LineGives

(* What a manifest declares, read where it runs.                           *)
DeclaredIn(manifest) == ElementsOf(Agent!Parse(manifest))

LEMMA ParseIsTyped ==
  ASSUME NEW manifest \in Seq(DeclaredLine)
  PROVE  /\ Agent!Parse(manifest) \in Seq(Located)
         /\ DeclaredIn(manifest) = UNION {ElementsOf(Agent!ParseLine(manifest[i])) : i \in 1..Len(manifest)}
<1> DEFINE lines == [i \in 1..Len(manifest) |-> Agent!ParseLine(manifest[i])]
<1>1. \A i \in 1..Len(manifest) : Agent!ParseLine(manifest[i]) \in Seq(Located)
  BY ParseLineIsTyped
<1>2. lines \in Seq(Seq(Located)) /\ Len(lines) = Len(manifest)
      /\ \A i \in 1..Len(manifest) : lines[i] = Agent!ParseLine(manifest[i])
  BY <1>1
<1>3. Agent!Parse(manifest) = Agent!FlattenSeq(lines)
  BY Zenon DEF Agent!Parse
<1> HIDE DEF lines
<1>4. Agent!FlattenSeq(lines) \in Seq(Located)
      /\ ElementsOf(Agent!FlattenSeq(lines)) = ElementsOfAll(lines)
  BY <1>2, FlattenKeepsElements
<1>5. ElementsOfAll(lines) = UNION {ElementsOf(Agent!ParseLine(manifest[i])) : i \in 1..Len(manifest)}
  BY <1>2 DEF ElementsOfAll
<1> QED BY <1>3, <1>4, <1>5 DEF DeclaredIn

(* The checks look at the first command of each program: the states they   *)
(* come to are those of all the programs.                                  *)
LEMMA ChecksSeeEveryProgram ==
  ASSUME NEW machine, NEW commands \in Seq(Located)
  PROVE  /\ {c.status : c \in Agent!Checks(machine, commands)}
              = {Agent!Status(machine, x.program) : x \in ElementsOf(commands)}
         /\ {c.command.program : c \in Agent!Checks(machine, commands)}
              = {x.program : x \in ElementsOf(commands)}
<1> DEFINE n == Len(commands)
           first == {i \in 1..n : \A j \in 1..(i - 1) : commands[j].program # commands[i].program}
           check(i) == [command |-> commands[i], status |-> Agent!Status(machine, commands[i].program)]
<1>1. n \in Nat
  OBVIOUS
<1>2. Agent!Checks(machine, commands) = {check(i) : i \in first}
  BY Zenon DEF Agent!Checks
<1>3. \A i \in 1..n : \E j \in first : commands[j].program = commands[i].program
  <2> SUFFICES ASSUME NEW i \in 1..n PROVE \E j \in first : commands[j].program = commands[i].program
    OBVIOUS
  <2> DEFINE same == {j \in 1..n : commands[j].program = commands[i].program}
  <2>1. same \subseteq Nat /\ same # {}
    BY <1>1
  <2>2. PICK m \in same : \A k \in same : m <= k
    <3> HIDE DEF same
    <3> QED BY <2>1, LeastNumber
  <2>3. ASSUME NEW j \in 1..(m - 1) PROVE commands[j].program # commands[m].program
    <3>1. j \in 1..n /\ ~(m <= j) /\ m \in Nat
      BY <1>1, <2>2
    <3>2. j \notin same
      BY <2>2, <3>1
    <3> QED BY <2>2, <3>1, <3>2
  <2> QED BY <2>2, <2>3
<1>4. \A i \in 1..n : check(i).status = Agent!Status(machine, commands[i].program)
                      /\ check(i).command.program = commands[i].program
  OBVIOUS
<1>5. first \subseteq 1..n
  OBVIOUS
<1> HIDE DEF first, check, n
<1>6. {c.status : c \in {check(i) : i \in first}} = {Agent!Status(machine, commands[i].program) : i \in 1..n}
  <2>1. ASSUME NEW c \in {check(i) : i \in first}
        PROVE  c.status \in {Agent!Status(machine, commands[i].program) : i \in 1..n}
    <3>1. PICK j \in first : c = check(j)
      OBVIOUS
    <3>2. j \in 1..n /\ c.status = Agent!Status(machine, commands[j].program)
      BY <1>4, <1>5, <3>1
    <3> QED BY <3>2
  <2>2. ASSUME NEW k \in 1..n
        PROVE  Agent!Status(machine, commands[k].program) \in {c.status : c \in {check(i) : i \in first}}
    <3>1. PICK j \in first : commands[j].program = commands[k].program
      BY <1>3
    <3>2. check(j).status = Agent!Status(machine, commands[k].program) /\ check(j) \in {check(i) : i \in first}
      BY <1>4, <1>5, <3>1
    <3> QED BY <3>2
  <2> QED BY <2>1, <2>2
<1>7. {c.command.program : c \in {check(i) : i \in first}} = {commands[i].program : i \in 1..n}
  <2>1. ASSUME NEW c \in {check(i) : i \in first}
        PROVE  c.command.program \in {commands[i].program : i \in 1..n}
    <3>1. PICK j \in first : c = check(j)
      OBVIOUS
    <3>2. j \in 1..n /\ c.command.program = commands[j].program
      BY <1>4, <1>5, <3>1
    <3> QED BY <3>2
  <2>2. ASSUME NEW k \in 1..n
        PROVE  commands[k].program \in {c.command.program : c \in {check(i) : i \in first}}
    <3>1. PICK j \in first : commands[j].program = commands[k].program
      BY <1>3
    <3>2. check(j).command.program = commands[k].program /\ check(j) \in {check(i) : i \in first}
      BY <1>4, <1>5, <3>1
    <3> QED BY <3>2
  <2> QED BY <2>1, <2>2
<1>8. {Agent!Status(machine, x.program) : x \in {commands[i] : i \in 1..n}}
        = {Agent!Status(machine, commands[i].program) : i \in 1..n}
  OBVIOUS
<1>9. {x.program : x \in {commands[i] : i \in 1..n}} = {commands[i].program : i \in 1..n}
  OBVIOUS
<1> QED BY <1>2, <1>6, <1>7, <1>8, <1>9 DEF ElementsOf, n

(* A target that its directory does not define, although it defines some.  *)
TargetsOf(machine, dir) == IF dir \in DOMAIN machine.targets THEN machine.targets[dir] ELSE {}

IsStale(machine, c) ==
  /\ c.program \in Runners /\ c.args # <<>> /\ TargetsOf(machine, c.cwd) # {}
  /\ c.args[1] \notin TargetsOf(machine, c.cwd)

LEMMA StaleIs ==
  ASSUME NEW machine, NEW commands
  PROVE  Agent!Stale(machine, commands) = {i \in 1..Len(commands) : IsStale(machine, commands[i])}
BY DEF Agent!Stale, IsStale, TargetsOf

DeclaredByAll(manifests) == UNION {DeclaredIn(manifests[i]) : i \in 1..Len(manifests)}

(* The commands of all manifests, one after the other.                     *)
AllCommands(manifests) == Agent!FlattenSeq([i \in 1..Len(manifests) |-> Agent!Parse(manifests[i])])

Manifests == Seq(Seq(DeclaredLine))

LEMMA CommandsAreDeclared ==
  ASSUME NEW manifests \in Manifests
  PROVE  /\ AllCommands(manifests) \in Seq(Located)
         /\ ElementsOf(AllCommands(manifests)) = DeclaredByAll(manifests)
<1> DEFINE n == Len(manifests)
           parts == [i \in 1..n |-> Agent!Parse(manifests[i])]
<1>1. n \in Nat /\ \A i \in 1..n : manifests[i] \in Seq(DeclaredLine)
  BY DEF Manifests
<1>2. \A i \in 1..n : Agent!Parse(manifests[i]) \in Seq(Located)
  BY <1>1, ParseIsTyped
<1> HIDE DEF n
<1>3. parts \in Seq(Seq(Located)) /\ Len(parts) = n /\ \A i \in 1..n : parts[i] = Agent!Parse(manifests[i])
  BY <1>1, <1>2
<1>4. AllCommands(manifests) = Agent!FlattenSeq(parts)
  BY DEF AllCommands, n
<1> HIDE DEF parts
<1>5. Agent!FlattenSeq(parts) \in Seq(Located) /\ ElementsOf(Agent!FlattenSeq(parts)) = ElementsOfAll(parts)
  BY <1>3, FlattenKeepsElements
<1>6. ElementsOfAll(parts) = UNION {ElementsOf(Agent!Parse(manifests[i])) : i \in 1..n}
  BY <1>3 DEF ElementsOfAll
<1> QED BY <1>4, <1>5, <1>6 DEF DeclaredByAll, DeclaredIn, n

KeysIn(S) == {Agent!Key(x) : x \in S}

(* The signals depend on what is declared, not on its order.               *)
Signalled(s, manifests, ci, machine) ==
  /\ s.manifests = Len(manifests)
  /\ s.checks = {Agent!Status(machine, x.program) : x \in DeclaredByAll(manifests)}
  /\ s.runnable <=> \E x \in DeclaredByAll(manifests) : x.program \notin {"cd", "echo"}
  /\ s.stale <=> \E x \in DeclaredByAll(manifests) : IsStale(machine, x)
  /\ s.drift <=> Agent!Drift(KeysIn(DeclaredByAll(manifests)), ci) # {}
  /\ s.disagree <=> \E i, j \in 1..Len(manifests) :
                       KeysIn(DeclaredIn(manifests[i])) # KeysIn(DeclaredIn(manifests[j]))

LEMMA SignalsAre ==
  ASSUME NEW manifests \in Manifests, NEW ci, NEW machine
  PROVE  Signalled(Agent!Signals(manifests, ci, machine), manifests, ci, machine)
<1> DEFINE n == Len(manifests)
           parts == [i \in 1..n |-> Agent!Parse(manifests[i])]
           checks == UNION {Agent!Checks(machine, parts[i]) : i \in 1..n}
           declared == UNION {Agent!Keys(parts[i]) : i \in 1..n}
           s == Agent!Signals(manifests, ci, machine)
           All == DeclaredByAll(manifests)
           statuses == {c.status : c \in checks}
           runs == \E c \in checks : c.command.program \notin {"cd", "echo"}
           stale == Agent!Stale(machine, Agent!FlattenSeq(parts)) # {}
           drift == Agent!Drift(declared, ci) # {}
           disagree == \E i, j \in 1..n : Agent!Keys(parts[i]) # Agent!Keys(parts[j])
<1>1. n \in Nat /\ \A i \in 1..n : manifests[i] \in Seq(DeclaredLine)
  BY DEF Manifests
<1>2. \A i \in 1..n : parts[i] = Agent!Parse(manifests[i])
  OBVIOUS
<1>3. \A i \in 1..n : Agent!Parse(manifests[i]) \in Seq(Located)
  BY <1>1, ParseIsTyped
<1>4. s = [manifests |-> n, checks |-> statuses, runnable |-> runs, stale |-> stale,
           drift |-> drift, disagree |-> disagree]
  BY Zenon DEF Agent!Signals
<1> HIDE DEF s, statuses, runs, stale, drift, disagree, checks, parts, n
<1>5. /\ s.manifests = n /\ s.checks = statuses /\ s.runnable = runs
      /\ s.stale = stale /\ s.drift = drift /\ s.disagree = disagree
  BY <1>4
<1>6. ASSUME NEW i \in 1..n
      PROVE  /\ {c.status : c \in Agent!Checks(machine, parts[i])}
                   = {Agent!Status(machine, x.program) : x \in DeclaredIn(manifests[i])}
             /\ {c.command.program : c \in Agent!Checks(machine, parts[i])}
                   = {x.program : x \in DeclaredIn(manifests[i])}
             /\ Agent!Keys(parts[i]) = KeysIn(DeclaredIn(manifests[i]))
  <2>1. parts[i] \in Seq(Located) /\ ElementsOf(parts[i]) = DeclaredIn(manifests[i])
    BY <1>2, <1>3 DEF DeclaredIn
  <2>2. Agent!Keys(parts[i]) = KeysIn(ElementsOf(parts[i]))
    BY DEF Agent!Keys, KeysIn, ElementsOf
  <2> QED BY <2>1, <2>2, ChecksSeeEveryProgram
<1>7. statuses = {Agent!Status(machine, x.program) : x \in All}
  <2>1. statuses = UNION {{c.status : c \in Agent!Checks(machine, parts[i])} : i \in 1..n}
    BY DEF statuses, checks
  <2>2. statuses = UNION {{Agent!Status(machine, x.program) : x \in DeclaredIn(manifests[i])} : i \in 1..n}
    BY <1>6, <2>1
  <2> QED BY <2>2 DEF DeclaredByAll, n
<1>8. runs <=> \E x \in All : x.program \notin {"cd", "echo"}
  <2> DEFINE programs == UNION {{c.command.program : c \in Agent!Checks(machine, parts[i])} : i \in 1..n}
  <2>0. programs = {c.command.program : c \in checks}
    BY DEF checks
  <2>1. runs <=> \E p \in {c.command.program : c \in checks} : p \notin {"cd", "echo"}
    BY DEF runs
  <2>2. programs = UNION {{x.program : x \in DeclaredIn(manifests[i])} : i \in 1..n}
    BY <1>6
  <2>3. programs = {x.program : x \in All}
    <3>1. UNION {{x.program : x \in DeclaredIn(manifests[i])} : i \in 1..n}
            = {x.program : x \in UNION {DeclaredIn(manifests[i]) : i \in 1..n}}
      OBVIOUS
    <3>2. All = UNION {DeclaredIn(manifests[i]) : i \in 1..n}
      BY DEF DeclaredByAll, n
    <3> HIDE DEF programs, All
    <3> QED BY <2>2, <3>1, <3>2
  <2> HIDE DEF programs
  <2>4. \A S, P : (\E p \in {x.program : x \in S} : p \notin P) <=> \E x \in S : x.program \notin P
    OBVIOUS
  <2>5. runs <=> \E p \in {x.program : x \in All} : p \notin {"cd", "echo"}
    BY <2>0, <2>1, <2>3, Zenon
  <2> HIDE DEF All
  <2> QED BY <2>4, <2>5, Zenon
<1>9. stale <=> \E x \in All : IsStale(machine, x)
  <2> DEFINE commands == AllCommands(manifests)
  <2>1. commands = Agent!FlattenSeq(parts)
    BY DEF AllCommands, parts, n
  <2>2. ElementsOf(commands) = All
    BY CommandsAreDeclared
  <2>3. Agent!Stale(machine, commands) = {i \in 1..Len(commands) : IsStale(machine, commands[i])}
    BY StaleIs
  <2> HIDE DEF commands, All
  <2> QED BY <2>1, <2>2, <2>3 DEF stale, ElementsOf
<1>10. drift <=> Agent!Drift(KeysIn(All), ci) # {}
  <2>1. declared = UNION {KeysIn(DeclaredIn(manifests[i])) : i \in 1..n}
    BY <1>6
  <2>2. declared = KeysIn(All)
    BY <2>1 DEF DeclaredByAll, KeysIn, n
  <2> QED BY <2>2 DEF drift
<1>11. disagree <=> \E i, j \in 1..n :
                       KeysIn(DeclaredIn(manifests[i])) # KeysIn(DeclaredIn(manifests[j]))
  BY <1>6 DEF disagree
<1> QED BY <1>5, <1>7, <1>8, <1>9, <1>10, <1>11, Zenon DEF Signalled, s, n

(* Nothing that counts against a repository was added.                     *)
Mended(s, t) ==
  /\ s.manifests \in Nat /\ t.manifests = s.manifests
  /\ s.runnable => t.runnable
  /\ t.checks \subseteq s.checks \cup {"ok"}
  /\ t.stale => s.stale
  /\ t.drift => s.drift
  /\ t.disagree => s.disagree

LEMMA MendingPays ==
  ASSUME NEW s, NEW t, Mended(s, t)
  PROVE  /\ Agent!total(s) <= Agent!total(t)
         /\ Agent!Severity(Agent!ExitOf(t)) <= Agent!Severity(Agent!ExitOf(s))
<1>1. /\ s.manifests \in Nat /\ t.manifests = s.manifests
      /\ s.runnable => t.runnable
      /\ t.checks \subseteq s.checks \cup {"ok"}
      /\ (t.stale => s.stale) /\ (t.drift => s.drift) /\ (t.disagree => s.disagree)
  BY DEF Mended
<1>2. /\ "missing" \in t.checks => "missing" \in s.checks
      /\ "not-on-path" \in t.checks => "not-on-path" \in s.checks
      /\ "path-absent" \in t.checks => "path-absent" \in s.checks
  BY <1>1
<1>3. Agent!total(s) <= Agent!total(t)
  <2> DEFINE resolve(r) == CASE ~r.runnable -> 0
                             [] r.runnable /\ "missing" \in r.checks -> 0
                             [] r.runnable /\ "missing" \notin r.checks /\ "not-on-path" \in r.checks -> 2
                             [] OTHER -> 4
  <2>1. \A r : /\ ~r.runnable => resolve(r) = 0
               /\ r.runnable /\ "missing" \in r.checks => resolve(r) = 0
               /\ r.runnable /\ "missing" \notin r.checks /\ "not-on-path" \in r.checks => resolve(r) = 2
               /\ r.runnable /\ "missing" \notin r.checks /\ "not-on-path" \notin r.checks => resolve(r) = 4
    BY Zenon
  <2>2. \A r : /\ Agent!Earned(r).present = IF r.manifests > 0 THEN 3 ELSE 0
               /\ Agent!Earned(r).declared = IF r.runnable THEN 2 ELSE 0
               /\ Agent!Earned(r).current = IF r.stale THEN 0 ELSE 3
               /\ Agent!Earned(r).ci = IF r.drift THEN 0 ELSE 3
               /\ Agent!Earned(r).agree = IF r.manifests >= 2 /\ r.disagree THEN 0 ELSE 2
    BY DEF Agent!Earned
  <2>3. \A r : Agent!Earned(r).resolve = resolve(r)
    <3> SUFFICES ASSUME NEW r PROVE Agent!Earned(r).resolve = resolve(r)
      OBVIOUS
    <3> QED BY DEF Agent!Earned
  <2> HIDE DEF resolve
  <2>4. resolve(s) <= resolve(t) /\ resolve(s) \in Nat /\ resolve(t) \in Nat
    <3>1. resolve(s) \in {0, 2, 4} /\ resolve(t) \in {0, 2, 4}
      BY <2>1, Zenon
    <3>2. resolve(s) = 4 => resolve(t) = 4
      BY <1>1, <1>2, <2>1
    <3>3. resolve(s) = 2 => resolve(t) \in {2, 4}
      BY <1>1, <1>2, <2>1
    <3> QED BY <3>1, <3>2, <3>3
  <2> DEFINE e == Agent!Earned(s)
             f == Agent!Earned(t)
  <2>5. /\ e.present = f.present /\ e.declared <= f.declared /\ e.resolve <= f.resolve
        /\ e.current <= f.current /\ e.ci <= f.ci /\ e.agree <= f.agree
    <3>1. e.present = f.present /\ e.declared <= f.declared
      BY <1>1, <2>2
    <3>2. e.current <= f.current /\ e.ci <= f.ci
      BY <1>1, <2>2
    <3>3. e.agree <= f.agree
      <4>1. (t.manifests >= 2 /\ t.disagree) => (s.manifests >= 2 /\ s.disagree)
        BY <1>1
      <4> QED BY <2>2, <4>1
    <3> QED BY <2>3, <2>4, <3>1, <3>2, <3>3
  <2>6. /\ e.present \in Nat /\ e.declared \in Nat /\ e.resolve \in Nat
        /\ e.current \in Nat /\ e.ci \in Nat /\ e.agree \in Nat
        /\ f.present \in Nat /\ f.declared \in Nat /\ f.resolve \in Nat
        /\ f.current \in Nat /\ f.ci \in Nat /\ f.agree \in Nat
    BY EarnedIs
  <2>7. /\ Agent!total(s) = e.present + e.declared + e.resolve + e.current + e.ci + e.agree
        /\ Agent!total(t) = f.present + f.declared + f.resolve + f.current + f.ci + f.agree
    BY DEF Agent!total
  <2> HIDE DEF e, f
  <2> QED BY <2>5, <2>6, <2>7
<1>4. Agent!Severity(Agent!ExitOf(t)) <= Agent!Severity(Agent!ExitOf(s))
  <2> DEFINE blocks(r) == r.manifests > 0 /\ "missing" \in r.checks
             warns(r) == \/ r.manifests > 0 /\ r.checks \cap {"not-on-path", "path-absent"} # {}
                         \/ r.drift
  <2>1. \A r : /\ blocks(r) => Agent!ExitOf(r) = "BLOCKED"
               /\ ~blocks(r) /\ warns(r) => Agent!ExitOf(r) = "READY_WITH_WARNINGS"
               /\ ~blocks(r) /\ ~warns(r) => Agent!ExitOf(r) = "READY"
    BY Zenon DEF Agent!ExitOf
  <2>2. /\ Agent!Severity("BLOCKED") = 2 /\ Agent!Severity("READY_WITH_WARNINGS") = 1
        /\ Agent!Severity("READY") = 0
    BY Zenon DEF Agent!Severity
  <2>3. blocks(t) => blocks(s)
    BY <1>1, <1>2
  <2>4. warns(t) => warns(s)
    BY <1>1, <1>2
  <2> HIDE DEF blocks, warns
  <2>5. CASE blocks(s)
    <3>1. Agent!Severity(Agent!ExitOf(s)) = 2
      BY <2>1, <2>2, <2>5, Zenon
    <3>2. Agent!Severity(Agent!ExitOf(t)) \in {0, 1, 2}
      BY <2>1, <2>2, Zenon
    <3> QED BY <3>1, <3>2
  <2>6. CASE ~blocks(s) /\ warns(s)
    <3>1. Agent!Severity(Agent!ExitOf(s)) = 1
      BY <2>1, <2>2, <2>6, Zenon
    <3>2. Agent!Severity(Agent!ExitOf(t)) \in {0, 1}
      BY <2>1, <2>2, <2>3, <2>6, Zenon
    <3> QED BY <3>1, <3>2
  <2>7. CASE ~blocks(s) /\ ~warns(s)
    <3>1. Agent!Severity(Agent!ExitOf(s)) = 0 /\ Agent!Severity(Agent!ExitOf(t)) = 0
      BY <2>1, <2>2, <2>3, <2>4, <2>7, Zenon
    <3> QED BY <3>1
  <2> QED BY <2>5, <2>6, <2>7
<1> QED BY <1>3, <1>4

LEMMA StatusIs ==
  ASSUME NEW machine, NEW p
  PROVE  LET named == p \notin Paths /\ p \notin Agent!ShellBuiltins
         IN /\ p \in Paths /\ p \in machine.files => Agent!Status(machine, p) = "ok"
            /\ p \in Paths /\ p \notin machine.files => Agent!Status(machine, p) = "path-absent"
            /\ p \notin Paths /\ p \in Agent!ShellBuiltins => Agent!Status(machine, p) = "shell-builtin"
            /\ named /\ p \in machine.path => Agent!Status(machine, p) = "ok"
            /\ named /\ p \notin machine.path /\ p \in machine.modules =>
                 Agent!Status(machine, p) = "not-on-path"
            /\ named /\ p \notin machine.path /\ p \notin machine.modules =>
                 Agent!Status(machine, p) = "missing"
BY Zenon DEF Agent!Status

(* The programs on PATH, the modules, the files and the targets of a       *)
(* machine: a directory of its project is the sequence of its names.       *)
IsMachine(machine) ==
  /\ machine = [path |-> machine.path, modules |-> machine.modules,
                files |-> machine.files, targets |-> machine.targets]
  /\ machine.targets = [dir \in DOMAIN machine.targets |-> machine.targets[dir]]
  /\ DOMAIN machine.targets \subseteq Dir

(* What is installed is found, and nothing else changes.                   *)
LEMMA InstallingHelps ==
  ASSUME NEW machine, IsMachine(machine), NEW p,
         Agent!Status(machine, p) \in {"missing", "not-on-path"},
         NEW m, m = [machine EXCEPT !.path = @ \cup {p}]
  PROVE  /\ \A q : Agent!Status(m, q) = IF q = p THEN "ok" ELSE Agent!Status(machine, q)
         /\ m.targets = machine.targets
<1>1. m = [path |-> machine.path \cup {p}, modules |-> machine.modules,
           files |-> machine.files, targets |-> machine.targets]
  BY DEF IsMachine
<1>2. /\ m.path = machine.path \cup {p} /\ m.modules = machine.modules
      /\ m.files = machine.files /\ m.targets = machine.targets
  BY <1>1
<1>3. p \notin Paths /\ p \notin Agent!ShellBuiltins
  BY StatusIs
<1>4. ASSUME NEW q, q # p PROVE Agent!Status(m, q) = Agent!Status(machine, q)
  <2>1. q \in m.path <=> q \in machine.path
    BY <1>2, <1>4
  <2> QED BY <1>2, <2>1, Zenon DEF Agent!Status
<1>5. Agent!Status(m, p) = "ok"
  BY <1>2, <1>3, StatusIs
<1> QED BY <1>2, <1>4, <1>5

(* A target that is defined again is one stale command less.               *)
DefinedAgain(m, machine, c) == m = [machine EXCEPT !.targets[c.cwd] = @ \cup {c.args[1]}]

LessStale(m, machine, commands) ==
  /\ \A q : Agent!Status(m, q) = Agent!Status(machine, q)
  /\ \A x : IsStale(m, x) => IsStale(machine, x)
  /\ Cardinality(Agent!Stale(m, commands)) < Cardinality(Agent!Stale(machine, commands))

LEMMA DefiningHelps ==
  ASSUME NEW machine, IsMachine(machine), NEW commands \in Seq(Located),
         NEW i \in Agent!Stale(machine, commands), NEW m, DefinedAgain(m, machine, commands[i])
  PROVE  LessStale(m, machine, commands)
<1> DEFINE dir == commands[i].cwd
           target == commands[i].args[1]
           targets == [machine.targets EXCEPT ![dir] = @ \cup {target}]
<1>1. i \in 1..Len(commands) /\ IsStale(machine, commands[i])
  BY StaleIs
<1>2. m = [path |-> machine.path, modules |-> machine.modules,
           files |-> machine.files, targets |-> targets]
  BY DEF IsMachine, DefinedAgain
<1> HIDE DEF dir, target, targets
<1>3. m.path = machine.path /\ m.modules = machine.modules /\ m.files = machine.files /\ m.targets = targets
  BY <1>2
<1>4. \A q : Agent!Status(m, q) = Agent!Status(machine, q)
  BY <1>3, Zenon DEF Agent!Status
<1>5. TargetsOf(machine, dir) # {} /\ target \notin TargetsOf(machine, dir)
  BY <1>1 DEF IsStale, dir, target
<1>6. dir \in DOMAIN machine.targets /\ TargetsOf(machine, dir) = machine.targets[dir]
  BY <1>5 DEF TargetsOf
<1>7. DOMAIN targets = DOMAIN machine.targets
      /\ \A d \in DOMAIN machine.targets :
           targets[d] = IF d = dir THEN machine.targets[dir] \cup {target} ELSE machine.targets[d]
  BY <1>6 DEF targets, IsMachine
<1>8. TargetsOf(m, dir) = TargetsOf(machine, dir) \cup {target}
      /\ \A d : d # dir => TargetsOf(m, d) = TargetsOf(machine, d)
  BY <1>3, <1>6, <1>7 DEF TargetsOf
<1>9. ASSUME NEW x, IsStale(m, x) PROVE IsStale(machine, x)
  <2>1. CASE x.cwd = dir
    BY <1>5, <1>8, <1>9, <2>1 DEF IsStale
  <2>2. CASE x.cwd # dir
    BY <1>8, <1>9, <2>2 DEF IsStale
  <2> QED BY <2>1, <2>2
<1>10. ~IsStale(m, commands[i])
  BY <1>8 DEF IsStale, dir, target
<1> DEFINE before == Agent!Stale(machine, commands)
           after == Agent!Stale(m, commands)
<1>11. after \subseteq before /\ i \in before \ after
  BY <1>1, <1>9, <1>10, StaleIs
<1>12. IsFiniteSet(before)
  <2>1. before \subseteq 1..Len(commands) /\ IsFiniteSet(1..Len(commands))
    <3>1. Len(commands) \in Int /\ 1 \in Int
      OBVIOUS
    <3>2. IsFiniteSet(1..Len(commands))
      BY <3>1, FS_Interval
    <3> QED BY <3>2, StaleIs
  <2> HIDE DEF before
  <2> QED BY <2>1, FS_Subset
<1> HIDE DEF before, after
<1>13. Cardinality(after) < Cardinality(before)
  BY <1>11, <1>12, FS_Subset, FS_CardinalityType
<1> QED BY <1>4, <1>9, <1>13, Zenon DEF LessStale, before, after

(* A line of one command runs at the root.                                 *)
LEMMA OneCommandRunsAtTheRoot ==
  ASSUME NEW c \in Worded
  PROVE  ElementsOf(Agent!ParseLine(<<c>>)) = {LocatedCommand(c, <<>>)}
<1> DEFINE line == <<c>>
<1>1. line \in DeclaredLine /\ Len(line) = 1 /\ line[1] = c
  BY DEF DeclaredLine
<1> HIDE DEF line
<1>2. PICK d : LineGives(d, line, Agent!ParseLine(line))
  BY <1>1, LineIsParsed
<1> DEFINE cmds == Agent!ParseLine(line)
<1>3. /\ d[0] = <<>> /\ Len(cmds) = Len(line)
      /\ \A k \in 1..Len(line) : cmds[k] = LocatedCommand(line[k], d[k - 1])
  BY <1>2, Zenon DEF LineGives
<1> HIDE DEF cmds
<1>4. 1 \in 1..Len(line) /\ 1 - 1 = 0 /\ 1..Len(line) = {1}
  BY <1>1
<1>5. cmds[1] = LocatedCommand(c, <<>>)
  BY <1>1, <1>3, <1>4
<1>6. {cmds[k] : k \in 1..Len(cmds)} = {cmds[1]}
  BY <1>3, <1>4
<1> QED BY <1>5, <1>6 DEF ElementsOf, cmds, line

LEMMA OneMoreLine ==
  ASSUME NEW manifest \in Seq(DeclaredLine), NEW line \in DeclaredLine
  PROVE  /\ Append(manifest, line) \in Seq(DeclaredLine)
         /\ DeclaredIn(Append(manifest, line))
              = DeclaredIn(manifest) \cup ElementsOf(Agent!ParseLine(line))
<1> DEFINE n == Len(manifest)
           more == Append(manifest, line)
           Of(l) == ElementsOf(Agent!ParseLine(l))
<1>1. n \in Nat /\ more \in Seq(DeclaredLine) /\ Len(more) = n + 1 /\ more[n + 1] = line
      /\ \A i \in 1..n : more[i] = manifest[i]
  BY AppendProperties
<1>2. DeclaredIn(manifest) = UNION {Of(manifest[i]) : i \in 1..n}
  BY ParseIsTyped
<1> HIDE DEF n, more
<1>3. DeclaredIn(more) = UNION {Of(more[i]) : i \in 1..Len(more)}
  BY <1>1, ParseIsTyped
<1> HIDE DEF Of
<1>4. 1..(n + 1) = (1..n) \cup {n + 1}
  BY <1>1
<1>5. UNION {Of(more[i]) : i \in 1..Len(more)} = (UNION {Of(manifest[i]) : i \in 1..n}) \cup Of(line)
  <2>1. \A i \in 1..n : Of(more[i]) = Of(manifest[i])
    BY <1>1
  <2>2. Of(more[n + 1]) = Of(line)
    BY <1>1
  <2>3. 1..Len(more) = (1..n) \cup {n + 1}
    BY <1>1, <1>4
  <2> DEFINE Here(i) == Of(more[i])
             There(i) == Of(manifest[i])
             last == Of(line)
  <2>4. (\A i \in 1..n : Here(i) = There(i)) /\ Here(n + 1) = last
    BY <2>1, <2>2
  <2> HIDE DEF Here, There, last
  <2>5. UNION {Here(i) : i \in (1..n) \cup {n + 1}} = (UNION {There(i) : i \in 1..n}) \cup last
    BY <2>4
  <2> QED BY <2>3, <2>5 DEF Here, There, last
<1> QED BY <1>1, <1>2, <1>3, <1>5 DEF more, Of

(* Every manifest tells of one more command.                               *)
LEMMA TellingPays ==
  ASSUME NEW manifests \in Manifests, NEW ci, NEW machine, NEW c \in Worded,
         Agent!Status(machine, c.program) = "ok", c.program \notin Runners,
         NEW ms, ms = [i \in 1..Len(manifests) |-> Append(manifests[i], <<c>>)]
  PROVE  Mended(Agent!Signals(manifests, ci, machine), Agent!Signals(ms, ci, machine))
<1> DEFINE n == Len(manifests)
           new == LocatedCommand(c, <<>>)
           All == DeclaredByAll(manifests)
           More == DeclaredByAll(ms)
           s == Agent!Signals(manifests, ci, machine)
           t == Agent!Signals(ms, ci, machine)
<1>1. n \in Nat /\ \A i \in 1..n : manifests[i] \in Seq(DeclaredLine)
  BY DEF Manifests
<1>2. <<c>> \in DeclaredLine
  BY DEF DeclaredLine
<1>3. \A i \in 1..n : /\ Append(manifests[i], <<c>>) \in Seq(DeclaredLine)
                      /\ DeclaredIn(Append(manifests[i], <<c>>)) = DeclaredIn(manifests[i]) \cup {new}
  BY <1>1, <1>2, OneMoreLine, OneCommandRunsAtTheRoot
<1> HIDE DEF n, new
<1>4. ms = [i \in 1..n |-> Append(manifests[i], <<c>>)]
  BY DEF n
<1>5. ms \in Manifests /\ Len(ms) = n /\ \A i \in 1..n : DeclaredIn(ms[i]) = DeclaredIn(manifests[i]) \cup {new}
  <2>1. ms \in Seq(Seq(DeclaredLine)) /\ Len(ms) = n /\ \A i \in 1..n : ms[i] = Append(manifests[i], <<c>>)
    BY <1>1, <1>3, <1>4
  <2> QED BY <1>3, <2>1 DEF Manifests
<1>6. All \subseteq More /\ More \subseteq All \cup {new}
  <2>1. All = UNION {DeclaredIn(manifests[i]) : i \in 1..n}
    BY DEF DeclaredByAll, n
  <2>2. More = UNION {DeclaredIn(ms[i]) : i \in 1..n}
    BY <1>5 DEF DeclaredByAll
  <2> HIDE DEF All, More
  <2>3. \A i \in 1..n : DeclaredIn(ms[i]) = DeclaredIn(manifests[i]) \cup {new}
    BY <1>5
  <2>4. ASSUME NEW x \in All PROVE x \in More
    <3>1. PICK i \in 1..n : x \in DeclaredIn(manifests[i])
      BY <2>1
    <3>2. x \in DeclaredIn(ms[i])
      BY <2>3, <3>1
    <3> QED BY <2>2, <3>2
  <2>5. ASSUME NEW x \in More PROVE x \in All \cup {new}
    <3>1. PICK i \in 1..n : x \in DeclaredIn(ms[i])
      BY <2>2
    <3>2. x \in DeclaredIn(manifests[i]) \/ x = new
      BY <2>3, <3>1
    <3> QED BY <2>1, <3>2
  <2> QED BY <2>4, <2>5
<1>7. new.program = c.program
  BY DEF new, LocatedCommand
<1>8. Signalled(s, manifests, ci, machine) /\ Signalled(t, ms, ci, machine)
  BY <1>5, SignalsAre
<1> HIDE DEF All, More, s, t
<1>9. /\ s.manifests = n
      /\ s.checks = {Agent!Status(machine, x.program) : x \in All}
      /\ s.runnable <=> \E x \in All : x.program \notin {"cd", "echo"}
      /\ s.stale <=> \E x \in All : IsStale(machine, x)
      /\ s.drift <=> Agent!Drift(KeysIn(All), ci) # {}
      /\ s.disagree <=> \E i, j \in 1..n : KeysIn(DeclaredIn(manifests[i])) # KeysIn(DeclaredIn(manifests[j]))
  BY <1>8, Zenon DEF Signalled, All, n
<1>10. /\ t.manifests = n
       /\ t.checks = {Agent!Status(machine, x.program) : x \in More}
       /\ t.runnable <=> \E x \in More : x.program \notin {"cd", "echo"}
       /\ t.stale <=> \E x \in More : IsStale(machine, x)
       /\ t.drift <=> Agent!Drift(KeysIn(More), ci) # {}
       /\ t.disagree <=> \E i, j \in 1..n : KeysIn(DeclaredIn(ms[i])) # KeysIn(DeclaredIn(ms[j]))
  <2>1. Len(ms) = n
    BY <1>5
  <2> QED BY <1>8, <2>1, Zenon DEF Signalled, More
<1>11. s.manifests \in Nat /\ t.manifests = s.manifests
  BY <1>1, <1>9, <1>10
<1>12. s.runnable => t.runnable
  BY <1>6, <1>9, <1>10
<1>13. t.checks \subseteq s.checks \cup {"ok"}
  <2>1. \A x \in More : x \in All \/ x.program = c.program
    BY <1>6, <1>7
  <2> QED BY <1>9, <1>10, <2>1
<1>14. t.stale => s.stale
  <2>1. ~IsStale(machine, new)
    BY <1>7 DEF IsStale
  <2> QED BY <1>6, <1>9, <1>10, <2>1
<1>15. t.drift => s.drift
  <2>1. KeysIn(All) \subseteq KeysIn(More)
    BY <1>6 DEF KeysIn
  <2>2. Agent!Drift(KeysIn(More), ci) \subseteq Agent!Drift(KeysIn(All), ci)
    BY <2>1 DEF Agent!Drift
  <2> QED BY <1>9, <1>10, <2>2
<1>16. t.disagree => s.disagree
  <2>1. \A i \in 1..n : KeysIn(DeclaredIn(ms[i])) = KeysIn(DeclaredIn(manifests[i])) \cup {Agent!Key(new)}
    BY <1>5 DEF KeysIn
  <2> QED BY <1>9, <1>10, <2>1
<1> QED BY <1>11, <1>12, <1>13, <1>14, <1>15, <1>16, Zenon DEF Mended, s, t

(* A machine that runs more and knows more targets.                        *)
LEMMA BetterMachinePays ==
  ASSUME NEW manifests \in Manifests, NEW ci, NEW machine, NEW m,
         \A q : Agent!Status(m, q) \in {Agent!Status(machine, q), "ok"},
         \A x : IsStale(m, x) => IsStale(machine, x)
  PROVE  Mended(Agent!Signals(manifests, ci, machine), Agent!Signals(manifests, ci, m))
<1> DEFINE s == Agent!Signals(manifests, ci, machine)
           t == Agent!Signals(manifests, ci, m)
           All == DeclaredByAll(manifests)
<1>1. Signalled(s, manifests, ci, machine) /\ Signalled(t, manifests, ci, m)
  BY SignalsAre
<1>2. Len(manifests) \in Nat
  BY DEF Manifests
<1> HIDE DEF s, t, All
<1>3. /\ s.manifests = Len(manifests) /\ t.manifests = Len(manifests)
      /\ s.checks = {Agent!Status(machine, x.program) : x \in All}
      /\ t.checks = {Agent!Status(m, x.program) : x \in All}
      /\ s.stale <=> \E x \in All : IsStale(machine, x)
      /\ t.stale <=> \E x \in All : IsStale(m, x)
  BY <1>1, Zenon DEF Signalled, All
<1>4. (s.runnable <=> t.runnable) /\ (s.drift <=> t.drift) /\ (s.disagree <=> t.disagree)
  BY <1>1, Zenon DEF Signalled
<1>5. t.checks \subseteq s.checks \cup {"ok"}
  BY <1>3
<1>6. t.stale => s.stale
  BY <1>3
<1>7. s.manifests \in Nat /\ t.manifests = s.manifests
  BY <1>2, <1>3
<1> QED BY <1>4, <1>5, <1>6, <1>7, Zenon DEF Mended, s, t

Complaints(manifests, machine) == Cardinality(Agent!Stale(machine, AllCommands(manifests)))

LEMMA EveryRepairMends ==
  ASSUME NEW manifests \in Manifests, NEW ci, ci \subseteq Worded,
         NEW machine, IsMachine(machine),
         NEW fix \in Agent!Repairs(manifests, ci, machine)
  PROVE  /\ Mended(Agent!Signals(manifests, ci, machine), Agent!Signals(fix[1], ci, fix[2]))
         /\ fix[2].targets # machine.targets =>
              Complaints(manifests, fix[2]) < Complaints(manifests, machine)
<1> DEFINE commands == AllCommands(manifests)
           n == Len(commands)
           Lacking == {i \in 1..n : Agent!Status(machine, commands[i].program) \in {"missing", "not-on-path"}}
           installed(i) == [machine EXCEPT !.path = @ \cup {commands[i].program}]
           defined(i) == [machine EXCEPT !.targets[commands[i].cwd] = @ \cup {commands[i].args[1]}]
           Untold == {d \in Agent!Drift(Agent!Keys(commands), ci) :
                        Agent!Status(machine, d.program) = "ok" /\ d.program \notin Runners}
           told(c) == [i \in 1..Len(manifests) |-> Append(manifests[i], <<c>>)]
           A == {<<manifests, installed(i)>> : i \in Lacking}
           B == {<<manifests, defined(i)>> : i \in Agent!Stale(machine, commands)}
           C == {<<told(c), machine>> : c \in Untold}
<1>1. Agent!Repairs(manifests, ci, machine) = A \cup B \cup C
  BY Zenon DEF Agent!Repairs, AllCommands
<1>2. commands \in Seq(Located)
  BY CommandsAreDeclared
<1>3. CASE fix \in A
  <2>1. PICK i \in Lacking : fix = <<manifests, installed(i)>>
    BY <1>3
  <2> DEFINE m == installed(i)
             p == commands[i].program
  <2>2. Agent!Status(machine, p) \in {"missing", "not-on-path"}
    BY <2>1
  <2>3. m = [machine EXCEPT !.path = @ \cup {p}]
    OBVIOUS
  <2>4. fix[1] = manifests /\ fix[2] = m
    BY <2>1
  <2> HIDE DEF m, p
  <2>5. /\ \A q : Agent!Status(m, q) = IF q = p THEN "ok" ELSE Agent!Status(machine, q)
        /\ m.targets = machine.targets
    BY <2>2, <2>3, InstallingHelps
  <2>6. \A x : IsStale(m, x) => IsStale(machine, x)
    BY <2>5, Zenon DEF IsStale, TargetsOf
  <2>7. \A q : Agent!Status(m, q) \in {Agent!Status(machine, q), "ok"}
    BY <2>5
  <2>8. Mended(Agent!Signals(manifests, ci, machine), Agent!Signals(manifests, ci, m))
    BY <2>6, <2>7, BetterMachinePays
  <2> QED BY <2>4, <2>5, <2>8
<1>4. CASE fix \in B
  <2>1. PICK i \in Agent!Stale(machine, commands) : fix = <<manifests, defined(i)>>
    BY <1>4
  <2> DEFINE m == defined(i)
  <2>2. DefinedAgain(m, machine, commands[i])
    BY Zenon DEF DefinedAgain
  <2>3. fix[1] = manifests /\ fix[2] = m
    BY <2>1
  <2> HIDE DEF m, commands
  <2>4. LessStale(m, machine, commands)
    BY <1>2, <2>1, <2>2, DefiningHelps, Zenon
  <2>5. \A q : Agent!Status(m, q) \in {Agent!Status(machine, q), "ok"}
    BY <2>4 DEF LessStale
  <2>6. \A x : IsStale(m, x) => IsStale(machine, x)
    BY <2>4, Zenon DEF LessStale
  <2>7. Mended(Agent!Signals(manifests, ci, machine), Agent!Signals(manifests, ci, m))
    BY <2>5, <2>6, BetterMachinePays
  <2>8. Complaints(manifests, m) < Complaints(manifests, machine)
    BY <2>4, Zenon DEF LessStale, Complaints, commands
  <2> QED BY <2>3, <2>7, <2>8, Zenon
<1>5. CASE fix \in C
  <2>1. PICK c \in Untold : fix = <<told(c), machine>>
    BY <1>5
  <2> DEFINE ms == told(c)
  <2>2. c \in Worded /\ Agent!Status(machine, c.program) = "ok" /\ c.program \notin Runners
    BY <2>1 DEF Agent!Drift
  <2>3. ms = [i \in 1..Len(manifests) |-> Append(manifests[i], <<c>>)]
    OBVIOUS
  <2>4. fix[1] = ms /\ fix[2] = machine
    BY <2>1
  <2> HIDE DEF ms
  <2>5. Mended(Agent!Signals(manifests, ci, machine), Agent!Signals(ms, ci, machine))
    BY <2>2, <2>3, TellingPays
  <2>6. fix[2].targets = machine.targets
    BY <2>4, Zenon
  <2> QED BY <2>4, <2>5, <2>6, Zenon
<1> QED BY <1>1, <1>3, <1>4, <1>5

LEMMA NothingToRepairScoresInFull ==
  ASSUME NEW manifests \in Manifests, NEW ci, NEW machine,
         NEW s, s = Agent!Signals(manifests, ci, machine),
         s.runnable, Agent!Repairs(manifests, ci, machine) = {},
         ~s.drift, ~(s.manifests > 1 /\ s.disagree)
  PROVE  Agent!percent(s) = 100
<1> DEFINE commands == AllCommands(manifests)
           n == Len(commands)
           Lacking == {i \in 1..n : Agent!Status(machine, commands[i].program) \in {"missing", "not-on-path"}}
           installed(i) == [machine EXCEPT !.path = @ \cup {commands[i].program}]
           defined(i) == [machine EXCEPT !.targets[commands[i].cwd] = @ \cup {commands[i].args[1]}]
           Untold == {d \in Agent!Drift(Agent!Keys(commands), ci) :
                        Agent!Status(machine, d.program) = "ok" /\ d.program \notin Runners}
           told(c) == [i \in 1..Len(manifests) |-> Append(manifests[i], <<c>>)]
           A == {<<manifests, installed(i)>> : i \in Lacking}
           B == {<<manifests, defined(i)>> : i \in Agent!Stale(machine, commands)}
           C == {<<told(c), machine>> : c \in Untold}
<1>1. Agent!Repairs(manifests, ci, machine) = A \cup B \cup C
  BY Zenon DEF Agent!Repairs, AllCommands
<1>2. Lacking = {}
  <2>1. A = {}
    BY <1>1
  <2> HIDE DEF Lacking, installed
  <2> QED BY <2>1
<1>3. Agent!Stale(machine, commands) = {}
  <2>1. B = {}
    BY <1>1
  <2> HIDE DEF commands, defined
  <2> QED BY <2>1
<1>4. Signalled(s, manifests, ci, machine)
  BY SignalsAre
<1>5. ElementsOf(commands) = DeclaredByAll(manifests)
  BY CommandsAreDeclared
<1> HIDE DEF commands, A, B, C
<1>6. \A x \in DeclaredByAll(manifests) : \E i \in 1..n : x = commands[i]
  BY <1>5 DEF ElementsOf
<1>7. s.checks = {Agent!Status(machine, x.program) : x \in DeclaredByAll(manifests)}
      /\ (s.runnable <=> \E x \in DeclaredByAll(manifests) : x.program \notin {"cd", "echo"})
      /\ (s.stale <=> \E x \in DeclaredByAll(manifests) : IsStale(machine, x))
      /\ s.manifests = Len(manifests)
  BY <1>4, Zenon DEF Signalled
<1>8. "missing" \notin s.checks /\ "not-on-path" \notin s.checks
  BY <1>2, <1>6, <1>7
<1>9. ~s.stale
  <2>1. \A i \in 1..n : ~IsStale(machine, commands[i])
    BY <1>3, StaleIs
  <2> QED BY <1>6, <1>7, <2>1
<1>10. s.manifests > 0 /\ s.manifests \in Nat
  <2>1. DeclaredByAll(manifests) # {}
    BY <1>7, Zenon
  <2>2. Len(manifests) \in Nat
    BY DEF Manifests
  <2>3. Len(manifests) = 0 => DeclaredByAll(manifests) = {}
    BY DEF DeclaredByAll
  <2> QED BY <1>7, <2>1, <2>2, <2>3
<1> DEFINE e == Agent!Earned(s)
<1>11. e.present = 3 /\ e.declared = 2 /\ e.current = 3 /\ e.ci = 3
  BY <1>9, <1>10 DEF Agent!Earned
<1>12. e.agree = 2
  <2>1. ~(s.manifests >= 2 /\ s.disagree)
    BY <1>10
  <2> QED BY <2>1 DEF Agent!Earned
<1>13. e.resolve = 4
  <2> DEFINE resolve == CASE ~s.runnable -> 0
                          [] s.runnable /\ "missing" \in s.checks -> 0
                          [] s.runnable /\ "missing" \notin s.checks /\ "not-on-path" \in s.checks -> 2
                          [] OTHER -> 4
  <2>1. e.resolve = resolve
    BY DEF Agent!Earned
  <2>2. resolve = 4
    BY <1>8, Zenon
  <2> QED BY <2>1, <2>2
<1>14. Agent!total(s) = e.present + e.declared + e.resolve + e.current + e.ci + e.agree
  BY DEF Agent!total
<1> HIDE DEF e
<1>15. Agent!total(s) = 17
  BY <1>11, <1>12, <1>13, <1>14
<1>16. (200 * 17 + 17) \div 34 = 100
  OBVIOUS
<1> QED BY <1>15, <1>16, PercentIs

(* A repository seen from its directory web/: paths lead through it.       *)
Web == <<"web">>

ThroughWeb(dir) == Web \o dir

LEMMA InsideIs ==
  ASSUME NEW dir \in Dir
  PROVE  /\ ThroughWeb(dir) \in Dir /\ Len(ThroughWeb(dir)) = Len(dir) + 1 /\ ThroughWeb(dir)[1] = "web"
         /\ \A i \in 1..Len(dir) : ThroughWeb(dir)[i + 1] = dir[i]
<1>1. Web \in Seq(Words) /\ dir \in Seq(Words) /\ Len(Web) = 1 /\ Web[1] = "web" /\ Len(dir) \in Nat
  <2>1. "web" \in Words
    BY DEF Words
  <2>2. <<"web">> \in Seq(Words) /\ Len(<<"web">>) = 1 /\ <<"web">>[1] = "web"
    BY <2>1
  <2>3. dir \in Seq(Words) /\ Len(dir) \in Nat
    BY DEF Dir
  <2> QED BY <2>2, <2>3 DEF Web
<1> DEFINE in == Web \o dir
<1>2. in \in Seq(Words) /\ Len(in) = Len(Web) + Len(dir)
      /\ \A i \in 1..(Len(Web) + Len(dir)) : in[i] = IF i <= Len(Web) THEN Web[i] ELSE dir[i - Len(Web)]
  BY <1>1, ConcatProperties
<1> HIDE DEF in
<1>3. in[1] = "web"
  BY <1>1, <1>2
<1>4. \A i \in 1..Len(dir) : i + 1 \in 1..(1 + Len(dir)) /\ ~(i + 1 <= 1) /\ (i + 1) - 1 = i
  BY <1>1
<1>5. \A i \in 1..Len(dir) : in[i + 1] = dir[i]
  BY <1>1, <1>2, <1>4
<1> QED BY <1>1, <1>2, <1>3, <1>5 DEF ThroughWeb, in, Dir

LEMMA InsideAppend ==
  ASSUME NEW dir \in Dir, NEW word \in Words
  PROVE  Append(ThroughWeb(dir), word) = ThroughWeb(Append(dir, word))
<1> DEFINE a == Append(ThroughWeb(dir), word)
           more == Append(dir, word)
           b == ThroughWeb(more)
           n == Len(dir)
<1>1. n \in Nat /\ ThroughWeb(dir) \in Dir /\ Len(ThroughWeb(dir)) = n + 1 /\ ThroughWeb(dir)[1] = "web"
      /\ \A i \in 1..n : ThroughWeb(dir)[i + 1] = dir[i]
  BY InsideIs DEF Dir
<1>2. more \in Dir /\ Len(more) = n + 1 /\ more[n + 1] = word /\ \A i \in 1..n : more[i] = dir[i]
  <2>1. dir \in Seq(Words)
    BY DEF Dir
  <2>2. /\ Append(dir, word) \in Seq(Words) /\ Len(Append(dir, word)) = Len(dir) + 1
        /\ \A i \in 1..Len(dir) : Append(dir, word)[i] = dir[i]
        /\ Append(dir, word)[Len(dir) + 1] = word
    BY <2>1, AppendProperties
  <2> QED BY <2>2 DEF Dir
<1>3. a \in Dir /\ Len(a) = Len(ThroughWeb(dir)) + 1 /\ a[Len(ThroughWeb(dir)) + 1] = word
      /\ \A i \in 1..Len(ThroughWeb(dir)) : a[i] = ThroughWeb(dir)[i]
  BY <1>1, AppendProperties DEF Dir
<1> HIDE DEF a, more, n
<1>4. b \in Dir /\ Len(b) = Len(more) + 1 /\ b[1] = "web" /\ \A i \in 1..Len(more) : b[i + 1] = more[i]
  BY <1>2, InsideIs
<1> HIDE DEF b
<1>5. Len(a) = n + 2 /\ Len(b) = n + 2
  BY <1>1, <1>2, <1>3, <1>4
<1>6. ASSUME NEW i \in 1..(n + 2) PROVE a[i] = b[i]
  <2>1. CASE i = 1
    BY <1>1, <1>3, <1>4, <2>1
  <2>2. CASE i = n + 2
    <3>1. n + 1 \in 1..Len(more) /\ (n + 1) + 1 = i
      BY <1>1, <1>2, <2>2
    <3>2. b[i] = word
      BY <1>2, <1>4, <3>1
    <3>3. a[i] = word
      BY <1>1, <1>3, <2>2
    <3> QED BY <3>2, <3>3
  <2>3. CASE i # 1 /\ i # n + 2
    <3> DEFINE j == i - 1
    <3>1. j \in 1..n /\ j + 1 = i /\ j \in 1..Len(more) /\ i \in 1..Len(ThroughWeb(dir))
      BY <1>1, <1>2, <2>3
    <3> HIDE DEF j
    <3>2. b[j + 1] = dir[j]
      BY <1>2, <1>4, <3>1
    <3>3. a[j + 1] = dir[j]
      BY <1>1, <1>3, <3>1
    <3> QED BY <3>1, <3>2, <3>3
  <2> QED BY <2>1, <2>2, <2>3
<1>7. a \in Seq(Words) /\ b \in Seq(Words)
  BY <1>3, <1>4 DEF Dir
<1>8. a = b
  BY <1>5, <1>6, <1>7
<1> QED BY <1>8 DEF a, b, more

LEMMA ClimbInside ==
  ASSUME NEW dir \in Dir, NEW word \in Words, word # ".."
  PROVE  Agent!Climb(ThroughWeb(dir), word) = ThroughWeb(Agent!Climb(dir, word))
<1>0. ThroughWeb(dir) \in Dir
  BY InsideIs
<1>1. CASE word = "."
  BY <1>0, <1>1, ClimbStays
<1>2. CASE word # "."
  <2>1. word \notin {".", ".."}
    BY <1>2
  <2>2. Agent!Climb(ThroughWeb(dir), word) = Append(ThroughWeb(dir), word)
    BY <1>0, <2>1, ClimbStays, Zenon
  <2>3. Agent!Climb(dir, word) = Append(dir, word)
    BY <2>1, ClimbStays, Zenon
  <2> QED BY <2>2, <2>3, InsideAppend
<1> QED BY <1>1, <1>2

(* A `cd` that stays below where it starts.                                *)
GoesDown(args) ==
  args # <<>> /\ args[1] # "/" /\ \A i \in DOMAIN args : args[i] # ".."

LEMMA CdInside ==
  ASSUME NEW dir \in Dir, NEW args \in Seq(Words), GoesDown(args)
  PROVE  Agent!apply_cd(ThroughWeb(dir), args) = ThroughWeb(Agent!apply_cd(dir, args))
<1> DEFINE n == Len(args)
<1>1. n \in Nat /\ (\A i \in 1..n : args[i] \in Words /\ args[i] # "..") /\ args # <<>> /\ args[1] # "/"
  BY DEF GoesDown
<1>2. PICK h : Walked(h, dir, args) /\ Agent!FoldLeft(Agent!Climb, dir, args) = h[n]
  BY WalkIsALoop, Zenon
<1>3. ThroughWeb(dir) \in Dir
  BY InsideIs
<1>4. PICK g : Walked(g, ThroughWeb(dir), args) /\ Agent!FoldLeft(Agent!Climb, ThroughWeb(dir), args) = g[n]
  BY <1>3, WalkIsALoop, Zenon
<1>5. h \in [0..n -> Dir] /\ h[0] = dir /\ \A k \in 0..(n - 1) : h[k + 1] = Agent!Climb(h[k], args[k + 1])
  BY <1>2, Zenon DEF Walked
<1>6. g[0] = ThroughWeb(dir) /\ \A k \in 0..(n - 1) : g[k + 1] = Agent!Climb(g[k], args[k + 1])
  BY <1>4, Zenon DEF Walked
<1> HIDE DEF n
<1> DEFINE E == {k \in Nat : k <= n => g[k] = ThroughWeb(h[k])}
<1>7. 0 \in E
  BY <1>5, <1>6
<1>8. ASSUME NEW k \in Nat, k \in E PROVE k + 1 \in E
  <2> SUFFICES ASSUME k + 1 <= n PROVE g[k + 1] = ThroughWeb(h[k + 1])
    OBVIOUS
  <2>1. k \in 0..(n - 1) /\ k \in 0..n /\ k + 1 \in 1..n /\ k <= n
    BY <1>1
  <2>2. g[k] = ThroughWeb(h[k]) /\ h[k] \in Dir
    BY <1>5, <1>8, <2>1
  <2>3. args[k + 1] \in Words /\ args[k + 1] # ".."
    BY <1>1, <2>1
  <2>4. Agent!Climb(ThroughWeb(h[k]), args[k + 1]) = ThroughWeb(Agent!Climb(h[k], args[k + 1]))
    BY <2>2, <2>3, ClimbInside
  <2> QED BY <1>5, <1>6, <2>1, <2>2, <2>4
<1>9. g[n] = ThroughWeb(h[n])
  <2>1. Nat \subseteq E
    <3> HIDE DEF E
    <3> QED BY <1>7, <1>8, Induction
  <2> QED BY <1>1, <2>1
<1>10. \A from : Agent!apply_cd(from, args) = Agent!FoldLeft(Agent!Climb, from, args)
  BY <1>1, Zenon DEF Agent!apply_cd
<1> QED BY <1>2, <1>4, <1>9, <1>10, Zenon DEF n

(* A line that was written for web/, and the same line after `cd web`.     *)
CdWeb == [program |-> "cd", args |-> Web]

LEMMA WebIsADirectory ==
  /\ Web \in Dir /\ Len(Web) = 1 /\ Web[1] = "web" /\ <<>> \in Dir /\ ThroughWeb(<<>>) = Web
  /\ CdWeb \in Worded /\ Agent!apply_cd(<<>>, Web) = Web
<1>1. "web" \in Words /\ "cd" \in Words
  BY DEF Words
<1>2. Web \in Dir /\ Len(Web) = 1 /\ Web[1] = "web" /\ <<>> \in Dir
  BY <1>1 DEF Web, Dir
<1>3. ThroughWeb(<<>>) = Web
  BY <1>2, ConcatEmptySeq, Zenon DEF ThroughWeb, Dir
<1>4. CdWeb \in Worded
  BY <1>1, <1>2 DEF CdWeb, Worded, Dir
<1>5. Web \in Seq(Words)
  BY <1>2 DEF Dir
<1>6. PICK h : Walked(h, <<>>, Web) /\ Agent!FoldLeft(Agent!Climb, <<>>, Web) = h[Len(Web)]
  BY <1>2, <1>5, WalkIsALoop
<1>7. h[1] = Agent!Climb(<<>>, "web")
  <2>1. h[0] = <<>> /\ \A k \in 0..(Len(Web) - 1) : h[k + 1] = Agent!Climb(h[k], Web[k + 1])
    BY <1>6, Zenon DEF Walked
  <2>2. 0 \in 0..(Len(Web) - 1) /\ 0 + 1 = 1
    BY <1>2
  <2> QED BY <1>2, <2>1, <2>2
<1>8. Agent!Climb(<<>>, "web") = Append(<<>>, "web")
  <2>1. "web" \notin {".", ".."}
    OBVIOUS
  <2> QED BY <1>1, <1>2, <2>1, ClimbStays
<1>9. Append(<<>>, "web") = Web
  BY DEF Web
<1>10. Web # <<>> /\ Web[1] # "/"
  BY <1>2 DEF Web
<1>11. Agent!apply_cd(<<>>, Web) = Agent!FoldLeft(Agent!Climb, <<>>, Web)
  BY <1>10, Zenon DEF Agent!apply_cd
<1> QED BY <1>2, <1>3, <1>4, <1>6, <1>7, <1>8, <1>9, <1>11

(* No `cd` of the line climbs.                                             *)
StaysBelow(line) == \A i \in 1..Len(line) : line[i].program = "cd" => GoesDown(line[i].args)

LEMMA OnwardThroughWeb ==
  ASSUME NEW dir \in Dir, NEW c \in Worded, c.program = "cd" => GoesDown(c.args)
  PROVE  Onward(ThroughWeb(dir), c) = ThroughWeb(Onward(dir, c))
<1>1. c.args \in Seq(Words)
  BY DEF Worded
<1>2. CASE c.program = "cd"
  BY <1>1, <1>2, CdInside DEF Onward
<1>3. CASE c.program # "cd"
  BY <1>3 DEF Onward
<1> QED BY <1>2, <1>3

LEMMA LineThroughWeb ==
  ASSUME NEW line \in DeclaredLine, StaysBelow(line),
         NEW longer, longer = <<CdWeb>> \o line,
         NEW d, LineGives(d, line, Agent!ParseLine(line))
  PROVE  /\ longer \in DeclaredLine /\ Len(longer) = Len(line) + 1 /\ longer[1] = CdWeb
         /\ Len(Agent!ParseLine(longer)) = Len(line) + 1
         /\ Agent!ParseLine(longer)[1] = LocatedCommand(CdWeb, <<>>)
         /\ \A k \in 1..Len(line) :
              Agent!ParseLine(longer)[k + 1] = LocatedCommand(line[k], ThroughWeb(d[k - 1]))
<1> DEFINE n == Len(line)
           cmds == Agent!ParseLine(longer)
<1>1. <<CdWeb>> \in Seq(Worded) /\ line \in Seq(Worded) /\ n \in Nat
      /\ Len(<<CdWeb>>) = 1 /\ <<CdWeb>>[1] = CdWeb
  BY WebIsADirectory DEF DeclaredLine
<1>2. longer \in Seq(Worded) /\ Len(longer) = 1 + n
      /\ \A i \in 1..(1 + n) : longer[i] = IF i <= 1 THEN CdWeb ELSE line[i - 1]
  <2> DEFINE first == <<CdWeb>>
  <2>1. first \in Seq(Worded) /\ Len(first) = 1 /\ first[1] = CdWeb /\ longer = first \o line
    BY <1>1
  <2> HIDE DEF first, n
  <2>2. first \o line \in Seq(Worded) /\ Len(first \o line) = Len(first) + Len(line)
        /\ \A i \in 1..(Len(first) + Len(line)) :
             (first \o line)[i] = IF i <= Len(first) THEN first[i] ELSE line[i - Len(first)]
    BY <1>1, <2>1, ConcatProperties
  <2>3. \A i \in 1..(1 + n) : i <= 1 => i = 1
    BY <1>1
  <2> QED BY <1>1, <2>1, <2>2, <2>3 DEF n
<1>3. longer[1] = CdWeb /\ \A k \in 1..n : longer[k + 1] = line[k] /\ line[k] \in Worded
  <2>1. \A k \in 1..n : k + 1 \in 1..(1 + n) /\ ~(k + 1 <= 1) /\ (k + 1) - 1 = k
    BY <1>1
  <2>2. 1 \in 1..(1 + n)
    BY <1>1
  <2> QED BY <1>1, <1>2, <2>1, <2>2
<1>4. longer \in DeclaredLine
  BY <1>2 DEF DeclaredLine
<1>5. PICK e : LineGives(e, longer, cmds)
  BY <1>4, LineIsParsed, Zenon
<1> HIDE DEF n, cmds
<1>6. /\ d \in [0..n -> Dir] /\ d[0] = <<>>
      /\ \A k \in 0..(n - 1) : d[k + 1] = Onward(d[k], line[k + 1])
  BY Zenon DEF LineGives, n
<1>7. /\ e[0] = <<>> /\ \A k \in 0..(Len(longer) - 1) : e[k + 1] = Onward(e[k], longer[k + 1])
      /\ Len(cmds) = Len(longer) /\ \A k \in 1..Len(longer) : cmds[k] = LocatedCommand(longer[k], e[k - 1])
  BY <1>5, Zenon DEF LineGives
<1>8. e[1] = Web
  <2>1. 0 \in 0..(Len(longer) - 1) /\ 0 + 1 = 1
    BY <1>1, <1>2
  <2>2. e[1] = Onward(<<>>, CdWeb)
    BY <1>3, <1>7, <2>1
  <2>3. Onward(<<>>, CdWeb) = Agent!apply_cd(<<>>, Web)
    BY DEF Onward, CdWeb
  <2> QED BY <2>2, <2>3, WebIsADirectory
<1> DEFINE E == {k \in Nat : k <= n => e[k + 1] = ThroughWeb(d[k])}
<1>9. 0 \in E
  <2>1. e[0 + 1] = ThroughWeb(d[0])
    BY <1>6, <1>8, WebIsADirectory
  <2> QED BY <2>1
<1>10. ASSUME NEW k \in Nat, k \in E PROVE k + 1 \in E
  <2> SUFFICES ASSUME k + 1 <= n PROVE e[(k + 1) + 1] = ThroughWeb(d[k + 1])
    OBVIOUS
  <2>1. k \in 0..(n - 1) /\ k \in 0..n /\ k + 1 \in 1..n /\ k <= n /\ k + 1 \in 0..(Len(longer) - 1)
    BY <1>1, <1>2
  <2>2. e[k + 1] = ThroughWeb(d[k]) /\ d[k] \in Dir
    BY <1>6, <1>10, <2>1
  <2>3. e[(k + 1) + 1] = Onward(e[k + 1], longer[(k + 1) + 1])
    BY <1>7, <2>1
  <2>4. longer[(k + 1) + 1] = line[k + 1] /\ line[k + 1] \in Worded
    BY <1>3, <2>1
  <2>5. line[k + 1].program = "cd" => GoesDown(line[k + 1].args)
    BY <2>1 DEF StaysBelow, n
  <2>6. Onward(ThroughWeb(d[k]), line[k + 1]) = ThroughWeb(Onward(d[k], line[k + 1]))
    BY <2>2, <2>4, <2>5, OnwardThroughWeb
  <2>7. d[k + 1] = Onward(d[k], line[k + 1])
    BY <1>6, <2>1
  <2> QED BY <2>2, <2>3, <2>4, <2>6, <2>7
<1>11. Nat \subseteq E
  <2> HIDE DEF E
  <2> QED BY <1>9, <1>10, Induction
<1>12. ASSUME NEW k \in 1..n PROVE cmds[k + 1] = LocatedCommand(line[k], ThroughWeb(d[k - 1]))
  <2> DEFINE j == k - 1
  <2>1. j \in Nat /\ j <= n /\ j + 1 = k /\ k + 1 \in 1..Len(longer) /\ (k + 1) - 1 = k
    BY <1>1, <1>2
  <2> HIDE DEF j
  <2>2. e[k] = ThroughWeb(d[j])
    BY <1>11, <2>1
  <2>3. cmds[k + 1] = LocatedCommand(longer[k + 1], e[k])
    BY <1>7, <2>1
  <2> QED BY <1>3, <2>2, <2>3 DEF j
<1>13. cmds[1] = LocatedCommand(CdWeb, <<>>)
  <2>1. 1 \in 1..Len(longer) /\ 1 - 1 = 0
    BY <1>1, <1>2
  <2> QED BY <1>3, <1>7, <2>1
<1>14. Len(longer) = n + 1
  BY <1>1, <1>2
<1> QED BY <1>3, <1>4, <1>7, <1>12, <1>13, <1>14 DEF cmds, n

LEMMA TargetsFromWeb ==
  ASSUME NEW machine, IsMachine(machine), NEW dir \in Dir
  PROVE  TargetsOf(Agent!From(Web, machine), dir) = TargetsOf(machine, ThroughWeb(dir))
<1> DEFINE D == DOMAIN machine.targets
           Rest(e) == SubSeq(e, Len(Web) + 1, Len(e))
           There == {Rest(e) : e \in {x \in D : Agent!IsPrefix(Web, x)}}
           targets == [d \in There |-> machine.targets[Web \o d]]
           m == Agent!From(Web, machine)
<1>1. m = [machine EXCEPT !.targets = targets]
  BY Zenon DEF Agent!From
<1>2. m.targets = targets
  <2> HIDE DEF m, targets
  <2>1. m = [path |-> machine.path, modules |-> machine.modules, files |-> machine.files, targets |-> targets]
    BY <1>1 DEF IsMachine
  <2> QED BY <2>1
<1>3. Len(Web) = 1 /\ Web[1] = "web" /\ Web \in Dir
  BY WebIsADirectory
<1>4. ASSUME NEW e \in Dir, Len(e) >= 1, e[1] = "web"
      PROVE  Rest(e) \in Dir /\ ThroughWeb(Rest(e)) = e
  <2> DEFINE n == Len(e)
             r == SubSeq(e, 2, n)
  <2>1. n \in Nat /\ n \in Int /\ 2 \in Int /\ \A i \in 2..n : e[i] \in Words
    BY DEF Dir
  <2>2. Rest(e) = r
    BY <1>3
  <2> HIDE DEF n
  <2>3. r \in Seq(Words) /\ Len(r) = (IF 2 <= n THEN n - 2 + 1 ELSE 0) /\ \A i \in 1..(n - 2 + 1) : r[i] = e[2 + i - 1]
    BY <2>1, SubSeqProperties
  <2> HIDE DEF r
  <2>4. r \in Dir /\ Len(r) = n - 1 /\ n >= 1
    <3>1. n >= 1
      BY <1>4 DEF n
    <3>2. (IF 2 <= n THEN n - 2 + 1 ELSE 0) = n - 1
      BY <2>1, <3>1
    <3> QED BY <2>3, <3>1, <3>2 DEF Dir
  <2>5. \A i \in 1..(n - 1) : r[i] = e[i + 1]
    <3>1. \A i \in 1..(n - 1) : i \in 1..(n - 2 + 1) /\ 2 + i - 1 = i + 1
      BY <2>1
    <3> QED BY <2>3, <3>1
  <2> DEFINE w == ThroughWeb(r)
  <2>6. w \in Dir /\ Len(w) = Len(r) + 1 /\ w[1] = "web" /\ \A i \in 1..Len(r) : w[i + 1] = r[i]
    BY <2>4, InsideIs
  <2> HIDE DEF w
  <2>7. w \in Seq(Words) /\ e \in Seq(Words) /\ Len(w) = Len(e)
    BY <2>1, <2>4, <2>6 DEF Dir, n
  <2>8. ASSUME NEW i \in 1..Len(w) PROVE w[i] = e[i]
    <3>1. CASE i = 1
      BY <1>4, <2>6, <3>1
    <3>2. CASE i # 1
      <4> DEFINE j == i - 1
      <4>1. j \in 1..(n - 1) /\ j + 1 = i /\ j \in 1..Len(r)
        BY <2>1, <2>4, <2>6, <3>2
      <4> HIDE DEF j
      <4> QED BY <2>5, <2>6, <4>1
    <3> QED BY <3>1, <3>2
  <2>9. w = e
    BY <2>7, <2>8, SeqEqual
  <2> QED BY <2>2, <2>4, <2>9 DEF w
<1>5. ASSUME NEW e \in Dir
      PROVE  Agent!IsPrefix(Web, e) <=> Len(e) >= 1 /\ e[1] = "web"
  <2>0. Len(e) \in Nat
    BY DEF Dir
  <2>1. Agent!IsPrefix(Web, e) <=> 1 <= Len(e) /\ SubSeq(Web, 1, 1) = SubSeq(e, 1, 1)
    BY <1>3 DEF Agent!IsPrefix
  <2>2. ASSUME NEW x \in Dir, Len(x) >= 1 PROVE SubSeq(x, 1, 1) = <<x[1]>>
    <3> DEFINE t == SubSeq(x, 1, 1)
               u == <<x[1]>>
    <3>1. \A i \in 1..1 : x[i] \in Words
      BY <2>2 DEF Dir
    <3>2. t \in Seq(Words) /\ Len(t) = 1 /\ \A i \in 1..1 : t[i] = x[1 + i - 1]
      <4>1. 1 \in Int
        OBVIOUS
      <4>2. /\ t \in Seq(Words) /\ Len(t) = (IF 1 <= 1 THEN 1 - 1 + 1 ELSE 0)
            /\ \A i \in 1..(1 - 1 + 1) : t[i] = x[1 + i - 1]
        BY <3>1, <4>1, SubSeqProperties
      <4> QED BY <4>2
    <3>3. u \in Seq(Words) /\ Len(u) = 1 /\ u[1] = x[1]
      BY <3>1
    <3> HIDE DEF t, u
    <3>4. \A i \in 1..Len(t) : t[i] = u[i]
      BY <3>2, <3>3
    <3>5. t = u
      BY <3>2, <3>3, <3>4, SeqEqual
    <3> QED BY <3>5 DEF t, u
  <2>3. SubSeq(Web, 1, 1) = <<"web">>
    BY <1>3, <2>2
  <2>4. <<"web">> = <<e[1]>> <=> e[1] = "web"
    OBVIOUS
  <2> QED BY <2>0, <2>1, <2>2, <2>3, <2>4
<1> HIDE DEF Rest, m, targets
<1>6. dir \in There <=> ThroughWeb(dir) \in D
  <2>1. ASSUME ThroughWeb(dir) \in D PROVE dir \in There
    <3> DEFINE e == ThroughWeb(dir)
    <3>1. e \in Dir /\ Len(e) >= 1 /\ e[1] = "web" /\ Len(e) = Len(dir) + 1
      <4>1. Len(dir) \in Nat
        BY DEF Dir
      <4> QED BY <4>1, InsideIs
    <3>2. Agent!IsPrefix(Web, e)
      BY <1>5, <3>1
    <3>3. Rest(e) \in Dir /\ ThroughWeb(Rest(e)) = e
      BY <1>4, <3>1
    <3>4. Rest(e) = dir
      <4>1. Web \in Seq(Words) /\ dir \in Seq(Words) /\ Rest(e) \in Seq(Words)
        BY <1>3, <3>3 DEF Dir
      <4>2. Web \o Rest(e) = Web \o dir
        BY <3>3 DEF ThroughWeb
      <4> HIDE DEF e
      <4> QED BY <4>1, <4>2, ConcatSimplifications
    <3> HIDE DEF e
    <3> QED BY <2>1, <3>2, <3>4 DEF e
  <2>2. ASSUME dir \in There PROVE ThroughWeb(dir) \in D
    <3>1. PICK e \in D : Agent!IsPrefix(Web, e) /\ dir = Rest(e)
      BY <2>2
    <3>2. e \in Dir
      BY <3>1 DEF IsMachine
    <3>3. ThroughWeb(Rest(e)) = e
      BY <1>4, <1>5, <3>1, <3>2
    <3> QED BY <3>1, <3>3
  <2> QED BY <2>1, <2>2
<1>7. DOMAIN targets = There /\ \A d \in There : targets[d] = machine.targets[ThroughWeb(d)]
  BY DEF targets, ThroughWeb
<1> HIDE DEF There
<1> QED BY <1>2, <1>6, <1>7 DEF TargetsOf, m

LEMMA StaleFromWeb ==
  ASSUME NEW machine, IsMachine(machine), NEW line \in DeclaredLine, StaysBelow(line), "cd" \notin Runners
  PROVE  Cardinality(Agent!Stale(machine, Agent!ParseLine(<<CdWeb>> \o line)))
           = Cardinality(Agent!Stale(Agent!From(Web, machine), Agent!ParseLine(line)))
<1> DEFINE n == Len(line)
           longer == <<CdWeb>> \o line
           outer == Agent!ParseLine(longer)
           inner == Agent!ParseLine(line)
           m == Agent!From(Web, machine)
           S == Agent!Stale(machine, outer)
           T == Agent!Stale(m, inner)
<1>1. n \in Nat
  BY DEF DeclaredLine
<1>2. PICK d : LineGives(d, line, inner)
  BY LineIsParsed, Zenon
<1>3. /\ d \in [0..n -> Dir] /\ Len(inner) = n
      /\ \A k \in 1..n : inner[k] = LocatedCommand(line[k], d[k - 1])
  BY <1>2, Zenon DEF LineGives
<1> HIDE DEF n
<1>4. /\ Len(outer) = n + 1 /\ outer[1] = LocatedCommand(CdWeb, <<>>)
      /\ \A k \in 1..n : outer[k + 1] = LocatedCommand(line[k], ThroughWeb(d[k - 1]))
  BY <1>2, LineThroughWeb DEF n
<1> HIDE DEF longer, outer, inner, m
<1>5. S = {i \in 1..(n + 1) : IsStale(machine, outer[i])} /\ T = {i \in 1..n : IsStale(m, inner[i])}
  BY <1>3, <1>4, StaleIs
<1>6. ~IsStale(machine, outer[1])
  BY <1>4 DEF IsStale, LocatedCommand, CdWeb
<1>7. ASSUME NEW k \in 1..n PROVE IsStale(machine, outer[k + 1]) <=> IsStale(m, inner[k])
  <2> DEFINE c == line[k]
             dir == d[k - 1]
  <2>1. k - 1 \in 0..n
    BY <1>1
  <2>2. dir \in Dir
    BY <1>3, <2>1
  <2>3. outer[k + 1] = LocatedCommand(c, ThroughWeb(dir)) /\ inner[k] = LocatedCommand(c, dir)
    BY <1>3, <1>4
  <2> HIDE DEF c, dir
  <2>4. TargetsOf(m, dir) = TargetsOf(machine, ThroughWeb(dir))
    BY <2>2, TargetsFromWeb DEF m
  <2> QED BY <2>3, <2>4 DEF IsStale, LocatedCommand
<1> HIDE DEF S, T
<1>8. \A k \in T : k + 1 \in S
  BY <1>1, <1>5, <1>7
<1>9. \A i \in S : i - 1 \in T /\ (i - 1) + 1 = i
  <2> SUFFICES ASSUME NEW i \in S PROVE i - 1 \in T /\ (i - 1) + 1 = i
    OBVIOUS
  <2>1. i \in 1..(n + 1) /\ IsStale(machine, outer[i]) /\ i # 1
    BY <1>5, <1>6
  <2> DEFINE k == i - 1
  <2>2. k \in 1..n /\ k + 1 = i
    BY <1>1, <2>1
  <2> HIDE DEF k
  <2> QED BY <1>5, <1>7, <2>1, <2>2 DEF k
<1> DEFINE f == [k \in T |-> k + 1]
<1>10. f \in [T -> S] /\ \A t \in S : \E x \in T : f[x] = t
  BY <1>8, <1>9
<1>11. \A x, y \in T : f[x] = f[y] => x = y
  BY <1>5
<1>12. IsFiniteSet(S)
  <2>1. S \subseteq 1..(n + 1) /\ n + 1 \in Int /\ 1 \in Int
    BY <1>1, <1>5
  <2>2. IsFiniteSet(1..(n + 1))
    BY <2>1, FS_Interval
  <2> QED BY <2>1, <2>2, FS_Subset
<1> HIDE DEF f
<1>13. Cardinality(T) = Cardinality(S)
  BY <1>10, <1>11, <1>12, OneToOne
<1> QED BY <1>13 DEF S, T, longer, outer, inner, m

LEMMA AgentCounts == \A S : Agent!Cardinality(S) = Cardinality(S)
BY Zenon DEF Agent!Cardinality, Cardinality

LEMMA RepairsPay ==
  ASSUME NEW manifests \in Manifests, NEW ci, ci \subseteq DeclaredCommand,
         NEW machine, IsMachine(machine), "cd" \notin Runners
  PROVE  Agent!RepairsPayAt(manifests, ci, machine)
<1> DEFINE before == Agent!Signals(manifests, ci, machine)
           after(fix) == Agent!Signals(fix[1], ci, fix[2])
           complaints(ms, m) == Agent!Stale(m, Agent!FlattenSeq([i \in 1..Len(ms) |-> Agent!Parse(ms[i])]))
           cd == [program |-> "cd", args |-> <<"web">>]
<1>1. ci \subseteq Worded
  <2>1. \A S, T : S \subseteq T => Seq(S) \subseteq Seq(T)
    OBVIOUS
  <2>2. STRING \subseteq Words
    BY DEF Words
  <2>3. Seq(STRING) \subseteq Seq(Words)
    BY <2>1, <2>2
  <2> QED BY <2>2, <2>3 DEF DeclaredCommand, Worded
<1>2. \A m : complaints(manifests, m) = Agent!Stale(m, AllCommands(manifests))
  BY DEF AllCommands
<1>3. ASSUME NEW fix \in Agent!Repairs(manifests, ci, machine)
      PROVE  /\ Agent!percent(after(fix)) >= Agent!percent(before)
             /\ Agent!Severity(Agent!ExitOf(after(fix))) <= Agent!Severity(Agent!ExitOf(before))
             /\ fix[2].targets # machine.targets =>
                  Cardinality(complaints(manifests, fix[2])) < Cardinality(complaints(manifests, machine))
  <2>1. /\ Mended(before, after(fix))
        /\ fix[2].targets # machine.targets =>
             Complaints(manifests, fix[2]) < Complaints(manifests, machine)
    BY <1>1, EveryRepairMends
  <2> HIDE DEF before, after
  <2>2. /\ Agent!total(before) <= Agent!total(after(fix))
        /\ Agent!Severity(Agent!ExitOf(after(fix))) <= Agent!Severity(Agent!ExitOf(before))
    BY <2>1, MendingPays
  <2>3. Agent!percent(before) <= Agent!percent(after(fix))
    BY <2>2, PercentFollows
  <2>4. Agent!percent(after(fix)) >= Agent!percent(before)
    BY <2>3, PercentIs
  <2> HIDE DEF complaints
  <2>5. \A m : Cardinality(complaints(manifests, m)) = Complaints(manifests, m)
    BY <1>2, Zenon DEF Complaints
  <2> QED BY <2>1, <2>2, <2>4, <2>5
<1>4. (before.runnable /\ Agent!Repairs(manifests, ci, machine) = {} /\ ~before.drift
         /\ ~(before.manifests > 1 /\ before.disagree)) => Agent!percent(before) = 100
  <2> HIDE DEF before
  <2> QED BY NothingToRepairScoresInFull DEF before
<1>5. ASSUME NEW i \in 1..Len(manifests), NEW j \in 1..Len(manifests[i]), ~Agent!Climbs(manifests[i][j])
      PROVE  Cardinality(Agent!Stale(machine, Agent!ParseLine(<<cd>> \o manifests[i][j])))
               = Cardinality(Agent!Stale(Agent!From(<<"web">>, machine), Agent!ParseLine(manifests[i][j])))
  <2> DEFINE line == manifests[i][j]
  <2>1. line \in DeclaredLine
    <3>1. manifests[i] \in Seq(DeclaredLine)
      BY DEF Manifests
    <3> QED BY <3>1
  <2>2. ~Agent!Climbs(line)
    BY <1>5
  <2> HIDE DEF line
  <2>3. StaysBelow(line)
    BY <2>2 DEF StaysBelow, GoesDown, Agent!Climbs
  <2>4. cd = CdWeb /\ <<"web">> = Web
    BY DEF CdWeb, Web
  <2> HIDE DEF cd
  <2>5. Cardinality(Agent!Stale(machine, Agent!ParseLine(<<CdWeb>> \o line)))
          = Cardinality(Agent!Stale(Agent!From(Web, machine), Agent!ParseLine(line)))
    BY <2>1, <2>3, StaleFromWeb
  <2> QED BY <2>4, <2>5 DEF line
<1> DEFINE Pays(fix) ==
             /\ Agent!percent(after(fix)) >= Agent!percent(before)
             /\ Agent!Severity(Agent!ExitOf(after(fix))) <= Agent!Severity(Agent!ExitOf(before))
             /\ fix[2].targets # machine.targets =>
                  Agent!Cardinality(complaints(manifests, fix[2])) < Agent!Cardinality(complaints(manifests, machine))
           Full == (before.runnable /\ Agent!Repairs(manifests, ci, machine) = {} /\ ~before.drift
                     /\ ~(before.manifests > 1 /\ before.disagree)) => Agent!percent(before) = 100
           Same(line) ==
             Agent!Cardinality(Agent!Stale(machine, Agent!ParseLine(<<cd>> \o line)))
               = Agent!Cardinality(Agent!Stale(Agent!From(<<"web">>, machine), Agent!ParseLine(line)))
<1>6. Agent!RepairsPayAt(manifests, ci, machine) <=>
        /\ \A fix \in Agent!Repairs(manifests, ci, machine) : Pays(fix)
        /\ Full
        /\ \A i \in 1..Len(manifests) : \A j \in 1..Len(manifests[i]) :
             ~Agent!Climbs(manifests[i][j]) => Same(manifests[i][j])
  BY Zenon DEF Agent!RepairsPayAt
<1>7. \A fix \in Agent!Repairs(manifests, ci, machine) : Pays(fix)
  BY <1>3, AgentCounts
<1>8. \A i \in 1..Len(manifests) : \A j \in 1..Len(manifests[i]) :
        ~Agent!Climbs(manifests[i][j]) => Same(manifests[i][j])
  BY <1>5, AgentCounts
<1> HIDE DEF Pays, Full, Same
<1> QED BY <1>4, <1>6, <1>7, <1>8, Zenon DEF Full

(* The gate of an agent, of a sandbox and of a change closes on what it is *)
(* there for and opens when that is set right (agents/gate.py,             *)
(* agents/score.py, agents/sandbox.py, cli/commands/diagnostics.py).       *)
THEOREM GateIsConsistentAlways == CommandsSpec => []GateIsConsistent
<1>1. ASSUME InputFits, Given("agent-check") PROVE ReadinessPays
  <2> DEFINE manifests == input[1]
             ci == input[2]
             machine == input[3]
  <2>1. input \in Repositories
    BY <1>1 DEF InputFits, Given
  <2>2. /\ manifests \in Seq(Seq(Seq(DeclaredCommand))) /\ ci \subseteq DeclaredCommand
        /\ machine = [path |-> machine.path, modules |-> machine.modules,
                      files |-> machine.files, targets |-> machine.targets]
        /\ machine.targets = [dir \in DOMAIN machine.targets |-> machine.targets[dir]]
        /\ DOMAIN machine.targets \subseteq Seq(STRING) /\ "cd" \notin Runners
    BY <2>1, RepositoriesAssumption, Zenon
  <2> HIDE DEF manifests, ci, machine
  <2>3. \A S, T : S \subseteq T => Seq(S) \subseteq Seq(T)
    OBVIOUS
  <2>4. STRING \subseteq Words
    BY DEF Words
  <2>5. Seq(STRING) \subseteq Seq(Words)
    BY <2>3, <2>4
  <2>6. DeclaredCommand \subseteq Worded
    BY <2>4, <2>5 DEF DeclaredCommand, Worded
  <2>7. Seq(Seq(Seq(DeclaredCommand))) \subseteq Manifests
    BY <2>3, <2>6 DEF Manifests, DeclaredLine
  <2>8. IsMachine(machine)
    BY <2>2, <2>5 DEF IsMachine, Dir
  <2>9. Agent!RepairsPayAt(manifests, ci, machine)
    BY <2>2, <2>7, <2>8, RepairsPay
  <2> QED BY <2>9, GateIsConsistentFor, Zenon DEF ReadinessPays, manifests, ci, machine
<1>2. ASSUME InputFits, Given("briefing") PROVE Agent!BriefingIsMonotoneAt(input)
  <2>1. input \in Shells
    BY <1>2 DEF InputFits
  <2>2. input \in Shell /\ None \notin {"dev", "prod"}
    BY <2>1, ShellsAssumption, Zenon DEF Shell
  <2> QED BY <2>2, BriefingIsMonotone
<1>3. ASSUME InputFits, Given("sandbox")
      PROVE  Agent!SandboxIsComparedAt(input[1], input[2], input[3], input[4])
  <2> DEFINE size == [memory : Nat \cup {None}, cpus : Nat \cup {None}]
  <2>1. input \in Sandboxes
    BY <1>3 DEF InputFits
  <2>2. input[1] \in size /\ input[2] \in size /\ input[3] \in Seq(Tight)
    BY <2>1, ShellsAssumption, Zenon DEF Tight
  <2> QED BY <2>2, SandboxIsCompared, Zenon
<1>4. ASSUME InputFits, Given("guard")
      PROVE  /\ Gates!GatesAgreeAt(input[1], input[2], input[3])
             /\ Gates!ScopeIsSafeAt(input[1], input[2], input[3])
  <2> DEFINE found == input[1]
             repo == input[2]
  <2>1. input \in Guarded
    BY <1>4 DEF InputFits
  <2>2. \A finding \in found : finding.state \in {Gates!Order[i] : i \in 1..6}
    BY <2>1, GuardedAssumption, Zenon
  <2>3. repo.compare \in {"merge-base", "ref", "nothing"} /\ input[3] \in BOOLEAN
    BY <2>1, GuardedAssumption, Zenon
  <2>4. \A tree \in {repo.forked, repo.tip, repo.head, repo.index, repo.work} :
          DOMAIN tree = DOMAIN repo.work /\ DOMAIN tree \subseteq (Gates!Kinds \cup {None}) \X Nat
    BY <2>1, GuardedAssumption, Zenon
  <2>5. Gates!GatesAgreeAt(found, repo, input[3])
    BY <2>2, GatesAgree, Zenon
  <2>6. Gates!ScopeIsSafeAt(found, repo, input[3])
    <3> HIDE DEF found, repo
    <3> QED BY <2>3, <2>4, ScopeIsSafe
  <2> QED BY <2>5, <2>6
<1>5. InputFits => GateIsConsistent
  BY <1>1, <1>2, <1>3, <1>4, Zenon DEF GateIsConsistent, ReadinessPays, ExposureIsTold, GuardHolds
<1> QED BY <1>5, InitFits, StepFits, PTL DEF CommandsSpec

-----------------------------------------------------------------------------
(* The MCP server.                                                         *)

CacheIsHonest ==
  report # NoReport => report.project \in Inside /\ taken_at <= report.observed

ClockIsAhead ==
  /\ taken_at <= clock /\ now <= clock
  /\ report # NoReport => report.observed <= clock
  /\ \A i \in 1..Len(received) : received[i].at <= clock

ScanIsForLast ==
  phase = "scanning" =>
    /\ Len(received) > 0
    /\ received[Len(received)].at = now
    /\ UsesReport(Current)

(* A reply to one of the requests, with a report that may answer it. *)
SoundReply(reply, requests) ==
  /\ reply.line \in 1..Len(requests)
  /\ reply.report # NoReport =>
       LET request == requests[reply.line] IN
         /\ \/ reply.report.observed >= request.at
            \/ reply.at - reply.report.observed < CacheSeconds
         /\ reply.report.project \in Inside
         /\ RefreshAsked(request.line) =>
              /\ reply.report.observed >= request.at
              /\ reply.report.project = Asked(request.line)

RepliesAreSound == \A k \in 1..Len(output) : SoundReply(output[k], received)

RepliesAreInOrder ==
  /\ \A j, k \in 1..Len(output) : j < k => output[j].line < output[k].line
  /\ phase \in {"scanning", "exited"} => \A k \in 1..Len(output) : output[k].line < Len(received)
  /\ \A i \in 1..Len(received) :
       NeedsReply(i) /\ ~(phase \in {"scanning", "exited"} /\ i = Len(received)) => Answered(i)

ReadingIsBounded == Len(received) <= MaxLines

Inv == TypeOK /\ ReadingIsBounded /\ CacheIsHonest /\ ClockIsAhead /\ ScanIsForLast
         /\ RepliesAreSound /\ RepliesAreInOrder

-----------------------------------------------------------------------------
(* What a step may do to the output.                                       *)

RepliesSeq == Seq([id : Ids \cup {Null}, outcome : Outcomes, report : Reports,
                   at : 0..MaxClock, line : 1..MaxLines])

RequestsSeq == Seq([line : Lines, at : 0..MaxClock])

LEMMA ElementsOfASequence ==
  ASSUME NEW S, NEW seq \in Seq(S)
  PROVE  Len(seq) \in Nat /\ \A i \in 1..Len(seq) : seq[i] \in S
  OBVIOUS

LEMMA RequestsTyped ==
  ASSUME Inv
  PROVE  /\ Len(received) \in Nat
         /\ \A i \in 1..Len(received) : received[i].line \in Lines /\ received[i].at \in Nat
<1>1. received \in Seq([line : Lines, at : 0..MaxClock])
  BY DEF Inv, TypeOK
<1>2. \A i \in 1..Len(received) : received[i] \in [line : Lines, at : 0..MaxClock]
  BY <1>1, ElementsOfASequence
<1>3. \A r \in [line : Lines, at : 0..MaxClock] : r.line \in Lines /\ r.at \in Nat
  BY BoundsAssumption
<1>4. Len(received) \in Nat
  BY <1>1
<1> QED
  BY <1>2, <1>3, <1>4

(* A report that may answer `request` at this moment. *)
GoodFor(rep, request) ==
  rep # NoReport =>
    /\ \/ rep.observed >= request.at
       \/ clock - rep.observed < CacheSeconds
    /\ rep.project \in Inside
    /\ RefreshAsked(request.line) => /\ rep.observed >= request.at
                                     /\ rep.project = Asked(request.line)

LEMMA OutcomeIsOne ==
  ASSUME NEW line \in Lines, line.shape # "blank", ~UsesReport(line)
  PROVE  Outcome(line) \in Outcomes
<1>1. line.shape = "request" /\ line.method = "tools/call" => CallOutcome(line) \in Outcomes
  <2> SUFFICES ASSUME line.shape = "request", line.method = "tools/call"
               PROVE  CallOutcome(line) \in Outcomes
    OBVIOUS
  <2>1. line.params \in {"object", "list", "bad_arguments"}
    BY LinesAssumption
  <2>2. CASE line.params = "object"
    <3>1. CASE line.tool \in REFUSED_TOOLS
      BY <2>2, <3>1 DEF CallOutcome, Outcomes
    <3>2. CASE line.tool \notin REFUSED_TOOLS \cup tool_definitions
      BY <2>2, <3>2 DEF CallOutcome, Outcomes
    <3>3. CASE line.tool \in tool_definitions
      BY <2>2, <3>3 DEF CallOutcome, Outcomes, tool_definitions, REFUSED_TOOLS, ReportTools,
         ProjectTools
    <3> QED
      BY <3>1, <3>2, <3>3
  <2> QED
    BY <2>1, <2>2 DEF CallOutcome, Outcomes
<1> QED
  BY <1>1, LinesAssumption DEF Outcome, Outcomes

(* The answer to the last line of `received'`, which nothing answered yet. *)
LEMMA RespondKeeps ==
  ASSUME Inv, NEW line \in Lines, NEW outcome \in Outcomes, NEW rep \in Reports,
         Respond(line, outcome, rep),
         \/ phase = "scanning" /\ received' = received /\ Current = line
         \/ phase = "reading" /\ Len(received) < MaxLines
              /\ received' = Append(received, [line |-> line, at |-> clock]),
         phase' = "reading",
         GoodFor(rep, received'[Len(received')])
  PROVE  output' \in RepliesSeq /\ RepliesAreSound' /\ RepliesAreInOrder'
<1> DEFINE last  == Len(received')
           reply == Reply(line, outcome, rep)
<1>1. /\ received \in RequestsSeq /\ output \in RepliesSeq
      /\ clock \in 0..MaxClock /\ Len(received) <= MaxLines
  BY DEF Inv, TypeOK, RequestsSeq, RepliesSeq, ReadingIsBounded
<1>2. /\ last \in 1..MaxLines /\ received' \in RequestsSeq
      /\ received'[last].line = line
      /\ Len(received) <= last
      /\ \A i \in 1..Len(received) : received'[i] = received[i]
      /\ phase = "reading" => last = Len(received) + 1
      /\ phase = "scanning" => last = Len(received)
  <2>1. CASE phase = "scanning" /\ received' = received /\ Current = line
    <3>1. Len(received) > 0 /\ Len(received) \in Nat
      BY <1>1, <2>1 DEF Inv, ScanIsForLast, RequestsSeq
    <3> QED
      BY <1>1, <2>1, <3>1, BoundsAssumption DEF Current
  <2>2. CASE /\ phase = "reading" /\ Len(received) < MaxLines
             /\ received' = Append(received, [line |-> line, at |-> clock])
    <3>1. [line |-> line, at |-> clock] \in [line : Lines, at : 0..MaxClock]
      BY <1>1
    <3> QED
      BY <1>1, <2>2, <3>1, BoundsAssumption DEF RequestsSeq
  <2> QED
    BY <2>1, <2>2
<1>3. \A k \in 1..Len(output) : output[k].line \in 1..Len(received) /\ output[k].line < last
  <2> SUFFICES ASSUME NEW k \in 1..Len(output)
               PROVE  output[k].line \in 1..Len(received) /\ output[k].line < last
    OBVIOUS
  <2>1. output[k].line \in 1..Len(received)
    BY DEF Inv, RepliesAreSound, SoundReply
  <2>2. phase = "scanning" => output[k].line < Len(received)
    BY DEF Inv, RepliesAreInOrder
  <2>3. Len(received) \in Nat /\ last \in Nat
    BY <1>1, <1>2 DEF RequestsSeq
  <2>4. phase = "scanning" \/ phase = "reading"
    OBVIOUS
  <2> HIDE DEF last
  <2> QED
    BY <1>2, <2>1, <2>2, <2>3, <2>4
<1>4. \A i \in 1..last : i # last /\ received'[i].line.shape # "blank" /\ received'[i].line.id # NoId
         => i \in 1..Len(received) /\ Answered(i)
  <2> SUFFICES ASSUME NEW i \in 1..last, i # last,
                      received'[i].line.shape # "blank", received'[i].line.id # NoId
               PROVE  i \in 1..Len(received) /\ Answered(i)
    OBVIOUS
  <2>1. Len(received) \in Nat /\ last \in Nat
    BY <1>1, <1>2 DEF RequestsSeq
  <2> HIDE DEF last
  <2>2. phase = "reading" \/ phase = "scanning"
    OBVIOUS
  <2>3. i \in 1..Len(received) /\ (phase = "scanning" => i # Len(received))
    BY <1>2, <2>1, <2>2
  <2>4. NeedsReply(i)
    BY <1>2, <2>3 DEF NeedsReply
  <2> QED
    BY <2>3, <2>4 DEF Inv, RepliesAreInOrder
<1>5. reply \in [id : Ids \cup {Null}, outcome : Outcomes, report : Reports,
                 at : 0..MaxClock, line : 1..MaxLines]
  BY <1>1, <1>2, LinesAssumption DEF Reply
<1>6. /\ reply.line = last /\ reply.at = clock /\ reply.report = rep
      /\ line.id # NoId => reply.id = line.id
  BY DEF Reply
<1> HIDE DEF reply, last
<1>7. CASE output' = output /\ line.id = NoId
  <2>1. RepliesAreSound'
    <3> SUFFICES ASSUME NEW k \in 1..Len(output) PROVE SoundReply(output[k], received')
      BY <1>7 DEF RepliesAreSound, SoundReply
    <3>1. SoundReply(output[k], received)
      BY DEF Inv, RepliesAreSound
    <3> QED
      BY <1>2, <1>3, <3>1 DEF SoundReply, last
  <2>2. RepliesAreInOrder'
    <3>1. \A j, k \in 1..Len(output) : j < k => output[j].line < output[k].line
      BY DEF Inv, RepliesAreInOrder
    <3>2. \A i \in 1..last : NeedsReply(i)' => Answered(i)'
      <4> SUFFICES ASSUME NEW i \in 1..last, NeedsReply(i)' PROVE Answered(i)'
        OBVIOUS
      <4>1. i # last
        BY <1>2, <1>7 DEF NeedsReply
      <4>2. i \in 1..Len(received) /\ Answered(i)
        BY <1>4, <4>1 DEF NeedsReply
      <4> QED
        BY <1>2, <1>7, <4>2 DEF Answered, Replies
    <3> QED
      BY <1>7, <3>1, <3>2 DEF RepliesAreInOrder, last
  <2> QED
    BY <1>1, <1>7, <2>1, <2>2
<1>8. CASE output' = Append(output, reply)
  <2>1. /\ output' \in RepliesSeq /\ Len(output') = Len(output) + 1
        /\ output'[Len(output) + 1] = reply
        /\ \A k \in 1..Len(output) : output'[k] = output[k]
        /\ Len(output) \in Nat
    BY <1>1, <1>5, <1>8 DEF RepliesSeq
  <2>2. RepliesAreSound'
    <3> SUFFICES ASSUME NEW k \in 1..Len(output') PROVE SoundReply(output'[k], received')
      BY DEF RepliesAreSound, SoundReply
    <3>1. CASE k \in 1..Len(output)
      <4>1. SoundReply(output[k], received)
        BY <3>1 DEF Inv, RepliesAreSound
      <4> QED
        BY <1>2, <1>3, <2>1, <3>1, <4>1 DEF SoundReply, last
    <3>2. CASE k = Len(output) + 1
      BY <1>2, <1>6, <2>1, <3>2 DEF GoodFor, SoundReply, last
    <3> QED
      BY <2>1, <3>1, <3>2
  <2>3. (\A j, k \in 1..Len(output) : j < k => output[j].line < output[k].line)'
    <3>1. \A j, k \in 1..Len(output) : j < k => output[j].line < output[k].line
      BY DEF Inv, RepliesAreInOrder
    <3> SUFFICES ASSUME NEW j \in 1..Len(output'), NEW k \in 1..Len(output'), j < k
                 PROVE  output'[j].line < output'[k].line
      OBVIOUS
    <3>2. j \in 1..Len(output) /\ output'[j] = output[j]
      BY <2>1
    <3>3. CASE k = Len(output) + 1
      BY <1>3, <1>6, <2>1, <3>2, <3>3
    <3>4. CASE k # Len(output) + 1
      <4>1. k \in 1..Len(output) /\ output'[k] = output[k]
        BY <2>1, <3>4
      <4> QED
        BY <3>1, <3>2, <4>1
    <3> QED
      BY <3>3, <3>4
  <2>4. \A i \in 1..last : NeedsReply(i)' => Answered(i)'
    <3> SUFFICES ASSUME NEW i \in 1..last, NeedsReply(i)' PROVE Answered(i)'
      OBVIOUS
    <3>1. CASE i = last
      BY <1>2, <1>6, <2>1, <3>1 DEF NeedsReply, Answered, Replies
    <3>2. CASE i # last
      <4>1. i \in 1..Len(received) /\ Answered(i)
        BY <1>4, <3>2 DEF NeedsReply
      <4> QED
        BY <1>2, <2>1, <4>1 DEF Answered, Replies
    <3> QED
      BY <3>1, <3>2
  <2> QED
    BY <2>1, <2>2, <2>3, <2>4 DEF RepliesAreInOrder, last
<1> QED
  BY <1>7, <1>8 DEF Respond, Silent, reply

-----------------------------------------------------------------------------
(* One lemma per action.                                                   *)

LEMMA InitInv == Init => Inv
  BY BoundsAssumption
  DEF Init, Inv, TypeOK, Reports, CacheIsHonest, ClockIsAhead, ScanIsForLast, RepliesAreSound,
      RepliesAreInOrder, ReadingIsBounded

LEMMA TickInv == Inv /\ Tick => Inv'
<1> SUFFICES ASSUME Inv, Tick PROVE Inv'
  OBVIOUS
<1> USE BoundsAssumption DEF Inv, Tick, cache
<1>1. TypeOK' /\ ReadingIsBounded'
  BY DEF TypeOK, ReadingIsBounded
<1>2. CacheIsHonest'
  BY DEF CacheIsHonest
<1>3. ClockIsAhead'
  <2>1. clock \in Nat /\ taken_at \in Nat /\ now \in Nat /\ report \in Reports
    BY DEF TypeOK
  <2>2. report # NoReport => report.observed \in Nat
    BY <2>1 DEF Reports
  <2>3. \A i \in 1..Len(received) : received[i].at \in Nat
    BY RequestsTyped
  <2> QED
    BY <2>1, <2>2, <2>3 DEF ClockIsAhead
<1>4. ScanIsForLast' /\ RepliesAreInOrder'
  BY DEF ScanIsForLast, Current, UsesReport, RepliesAreInOrder, NeedsReply, Answered, Replies
<1>5. RepliesAreSound'
  BY DEF RepliesAreSound, SoundReply
<1> QED
  BY <1>1, <1>2, <1>3, <1>4, <1>5

(* The line that is read is the last, and was read now. *)
LEMMA ReadAppends ==
  ASSUME Inv, NEW line \in Lines, Read(line)
  PROVE  /\ received' \in RequestsSeq
         /\ Len(received') = Len(received) + 1 /\ Len(received') <= MaxLines
         /\ Len(received) \in Nat
         /\ received'[Len(received')] = [line |-> line, at |-> clock]
         /\ \A i \in 1..Len(received) : received'[i] = received[i]
  BY BoundsAssumption DEF Inv, TypeOK, Read, RequestsSeq

LEMMA BlankInv == ASSUME Inv, NEW line \in Lines, Blank(line) PROVE Inv'
<1>1. /\ received' \in RequestsSeq /\ Len(received') = Len(received) + 1
      /\ Len(received') <= MaxLines /\ Len(received) \in Nat
      /\ received'[Len(received')] = [line |-> line, at |-> clock]
      /\ \A i \in 1..Len(received) : received'[i] = received[i]
  BY ReadAppends DEF Blank
<1> USE DEF Inv, Blank, Read, cache
<1>2. TypeOK' /\ ReadingIsBounded'
  BY <1>1 DEF TypeOK, ReadingIsBounded, RequestsSeq
<1>3. CacheIsHonest' /\ ScanIsForLast' 
  BY DEF CacheIsHonest, ScanIsForLast
<1>4. ClockIsAhead'
  BY <1>1 DEF ClockIsAhead, TypeOK
<1>5. RepliesAreSound'
  BY <1>1 DEF RepliesAreSound, SoundReply
<1>6. RepliesAreInOrder'
  <2>1. \A i \in 1..Len(received') : NeedsReply(i)' => Answered(i)'
    <3> SUFFICES ASSUME NEW i \in 1..Len(received'), NeedsReply(i)' PROVE Answered(i)'
      OBVIOUS
    <3>1. i \in 1..Len(received)
      BY <1>1 DEF NeedsReply
    <3>2. NeedsReply(i) /\ received'[i] = received[i]
      BY <1>1, <3>1 DEF NeedsReply
    <3>3. Answered(i)
      BY <3>1, <3>2 DEF RepliesAreInOrder
    <3> QED
      BY <3>2, <3>3 DEF Answered, Replies
  <2> QED
    BY <2>1 DEF RepliesAreInOrder
<1> QED
  BY <1>2, <1>3, <1>4, <1>5, <1>6

LEMMA AnswerWithoutReportInv ==
  ASSUME Inv, NEW line \in Lines, AnswerWithoutReport(line) PROVE Inv'
<1>1. /\ received' \in RequestsSeq /\ Len(received') = Len(received) + 1
      /\ Len(received') <= MaxLines /\ Len(received) \in Nat
      /\ received'[Len(received')] = [line |-> line, at |-> clock]
      /\ \A i \in 1..Len(received) : received'[i] = received[i]
  BY ReadAppends DEF AnswerWithoutReport
<1>2. Outcome(line) \in Outcomes /\ NoReport \in Reports
  BY OutcomeIsOne DEF AnswerWithoutReport, Reports
<1>3. GoodFor(NoReport, received'[Len(received')])
  BY DEF GoodFor
<1>4. output' \in RepliesSeq /\ RepliesAreSound' /\ RepliesAreInOrder'
  BY <1>2, <1>3, RespondKeeps DEF AnswerWithoutReport, Read
<1> USE DEF Inv, AnswerWithoutReport, Read, cache
<1>5. TypeOK' /\ ReadingIsBounded'
  BY <1>1, <1>4 DEF TypeOK, ReadingIsBounded, RequestsSeq, RepliesSeq
<1>6. CacheIsHonest' /\ ScanIsForLast'
  BY DEF CacheIsHonest, ScanIsForLast
<1>7. ClockIsAhead'
  BY <1>1 DEF ClockIsAhead, TypeOK
<1> QED
  BY <1>4, <1>5, <1>6, <1>7

LEMMA AnswerFromCacheInv ==
  ASSUME Inv, NEW line \in Lines, AnswerFromCache(line) PROVE Inv'
<1>1. /\ received' \in RequestsSeq /\ Len(received') = Len(received) + 1
      /\ Len(received') <= MaxLines /\ Len(received) \in Nat
      /\ received'[Len(received')] = [line |-> line, at |-> clock]
      /\ \A i \in 1..Len(received) : received'[i] = received[i]
  BY ReadAppends DEF AnswerFromCache
<1>2. /\ ReportOutcome(line) \in Outcomes /\ NoReport \in Reports /\ report \in Reports
      /\ clock \in Int /\ taken_at \in Int /\ CacheSeconds \in Int
  BY CacheAssumption DEF ReportOutcome, Outcomes, Reports, Inv, TypeOK
<1>3. GoodFor(report, received'[Len(received')])
  BY <1>1, <1>2, CacheAssumption
  DEF GoodFor, AnswerFromCache, FreshEnough, Inv, CacheIsHonest, Reports
<1>4. GoodFor(NoReport, received'[Len(received')])
  BY DEF GoodFor
<1>5. output' \in RepliesSeq /\ RepliesAreSound' /\ RepliesAreInOrder'
  <2> DEFINE rep == IF ReportOutcome(line) = "result" THEN report ELSE NoReport
  <2>1. rep \in Reports /\ GoodFor(rep, received'[Len(received')])
    BY <1>2, <1>3, <1>4
  <2> QED
    BY <1>2, <2>1, RespondKeeps DEF AnswerFromCache, Answer, Read
<1> USE DEF Inv, AnswerFromCache, Read, cache
<1>6. TypeOK' /\ ReadingIsBounded'
  <2>1. received' \in RequestsSeq /\ output' \in RepliesSeq /\ Len(received') <= MaxLines
    BY <1>1, <1>5
  <2>2. clock' = clock /\ phase' = phase /\ report' = report /\ taken_at' = taken_at /\ now' = now
    OBVIOUS
  <2> QED
    BY <2>1, <2>2 DEF TypeOK, ReadingIsBounded, RequestsSeq, RepliesSeq
<1>7. CacheIsHonest' /\ ScanIsForLast'
  BY DEF CacheIsHonest, ScanIsForLast
<1>8. ClockIsAhead'
  <2>1. /\ clock' = clock /\ report' = report /\ taken_at' = taken_at /\ now' = now
        /\ clock \in 0..MaxClock /\ ClockIsAhead
    BY DEF TypeOK
  <2> HIDE DEF Inv, AnswerFromCache, Read, cache
  <2>2. \A i \in 1..Len(received) : received[i].at <= clock
    BY <2>1 DEF ClockIsAhead
  <2>3. \A i \in 1..Len(received') : received'[i].at <= clock
    <3> SUFFICES ASSUME NEW i \in 1..Len(received') PROVE received'[i].at <= clock
      OBVIOUS
    <3>1. CASE i = Len(received')
      BY <1>1, <2>1, <3>1, BoundsAssumption
    <3>2. CASE i # Len(received')
      <4>1. i \in 1..Len(received)
        BY <1>1, <3>2
      <4> QED
        BY <1>1, <2>2, <4>1
    <3> QED
      BY <3>1, <3>2
  <2> QED
    BY <2>1, <2>3 DEF ClockIsAhead
<1> QED
  BY <1>5, <1>6, <1>7, <1>8

LEMMA StartScanInv == ASSUME Inv, NEW line \in Lines, StartScan(line) PROVE Inv'
<1>1. /\ received' \in RequestsSeq /\ Len(received') = Len(received) + 1
      /\ Len(received') <= MaxLines /\ Len(received) \in Nat
      /\ received'[Len(received')] = [line |-> line, at |-> clock]
      /\ \A i \in 1..Len(received) : received'[i] = received[i]
  BY ReadAppends DEF StartScan
<1> USE DEF Inv, StartScan, Read, cache
<1>2. TypeOK' /\ ReadingIsBounded'
  BY <1>1 DEF TypeOK, ReadingIsBounded, RequestsSeq
<1>3. CacheIsHonest'
  BY DEF CacheIsHonest
<1>4. ScanIsForLast'
  <2>1. Current' = line
    BY <1>1 DEF Current
  <2>2. UsesReport(line)
    OBVIOUS
  <2>3. UsesReport(Current)'
    BY <2>1, <2>2 DEF UsesReport, Asked, Argument, validate_arguments
  <2> QED
    BY <1>1, <2>3 DEF ScanIsForLast, TypeOK
<1>5. ClockIsAhead'
  BY <1>1 DEF ClockIsAhead, TypeOK
<1>6. RepliesAreSound'
  BY <1>1 DEF RepliesAreSound, SoundReply
<1>7. RepliesAreInOrder'
  BY <1>1 DEF RepliesAreInOrder, RepliesAreSound, SoundReply, NeedsReply, Answered, Replies
<1> QED
  BY <1>2, <1>3, <1>4, <1>5, <1>6, <1>7

LEMMA CurrentIsALine ==
  ASSUME Inv, phase = "scanning"
  PROVE  /\ Current \in Lines /\ UsesReport(Current)
         /\ Len(received) \in 1..MaxLines
         /\ received[Len(received)].at = now
         /\ Asked(Current) \in Inside
<1>1. Len(received) \in 1..MaxLines
  <2>1. Len(received) \in Nat
    BY DEF Inv, TypeOK
  <2> QED
    BY <2>1, BoundsAssumption DEF Inv, ScanIsForLast, ReadingIsBounded
<1>2. Current \in Lines
  BY <1>1, RequestsTyped DEF Current
<1>3. UsesReport(Current) /\ received[Len(received)].at = now
  BY DEF Inv, ScanIsForLast
<1> QED
  BY <1>1, <1>2, <1>3 DEF UsesReport

LEMMA ScanReturnsInv == Inv /\ ScanReturns => Inv'
<1> SUFFICES ASSUME Inv, ScanReturns PROVE Inv'
  OBVIOUS
<1>1. /\ Current \in Lines /\ Len(received) \in 1..MaxLines
      /\ received[Len(received)].at = now /\ Asked(Current) \in Inside
  BY CurrentIsALine DEF ScanReturns
<1>2. PICK t \in now..clock : report' = [project |-> Asked(Current), observed |-> t]
  BY DEF ScanReturns
<1>3. /\ report' \in Reports /\ ReportOutcome(Current) \in Outcomes /\ NoReport \in Reports
      /\ t >= now /\ t <= clock /\ t \in 0..MaxClock /\ now \in 0..MaxClock
  BY <1>1, <1>2, BoundsAssumption DEF Reports, ReportOutcome, Outcomes, Inv, TypeOK
<1>4. GoodFor(report', received'[Len(received')])
  BY <1>1, <1>2, <1>3 DEF GoodFor, ScanReturns, Current
<1>5. GoodFor(NoReport, received'[Len(received')])
  BY DEF GoodFor
<1>6. output' \in RepliesSeq /\ RepliesAreSound' /\ RepliesAreInOrder'
  <2> DEFINE rep == IF ReportOutcome(Current) = "result" THEN report' ELSE NoReport
  <2>1. rep \in Reports /\ GoodFor(rep, received'[Len(received')])
    BY <1>3, <1>4, <1>5
  <2> QED
    BY <1>1, <1>3, <2>1, RespondKeeps DEF ScanReturns, Answer
<1> USE DEF Inv, ScanReturns
<1>7. TypeOK' /\ ReadingIsBounded'
  BY <1>3, <1>6 DEF TypeOK, ReadingIsBounded, RepliesSeq
<1>8. CacheIsHonest' /\ ScanIsForLast'
  BY <1>1, <1>2, <1>3 DEF CacheIsHonest, ScanIsForLast
<1>9. ClockIsAhead'
  BY <1>2, <1>3 DEF ClockIsAhead, TypeOK
<1> QED
  BY <1>6, <1>7, <1>8, <1>9

LEMMA ScanRaisesInv == Inv /\ ScanRaises => Inv'
<1> SUFFICES ASSUME Inv, ScanRaises PROVE Inv'
  OBVIOUS
<1>1. Current \in Lines
  BY CurrentIsALine DEF ScanRaises
<1>2. "internal_error" \in Outcomes /\ NoReport \in Reports
  BY DEF Outcomes, Reports
<1>3. GoodFor(NoReport, received'[Len(received')])
  BY DEF GoodFor
<1>4. output' \in RepliesSeq /\ RepliesAreSound' /\ RepliesAreInOrder'
  BY <1>1, <1>2, <1>3, RespondKeeps DEF ScanRaises
<1> USE DEF Inv, ScanRaises, cache
<1>5. TypeOK' /\ ReadingIsBounded'
  BY <1>4 DEF TypeOK, ReadingIsBounded, RepliesSeq
<1>6. CacheIsHonest' /\ ScanIsForLast' /\ ClockIsAhead'
  BY DEF CacheIsHonest, ScanIsForLast, ClockIsAhead
<1> QED
  BY <1>4, <1>5, <1>6

LEMMA ScanExitsInv == Inv /\ ScanExits => Inv'
  BY DEF ScanExits, cache, Inv, TypeOK, CacheIsHonest, ClockIsAhead, ScanIsForLast,
     RepliesAreSound, SoundReply, RepliesAreInOrder, NeedsReply, Answered, Replies, ReadingIsBounded

LEMMA EndOfInputInv == Inv /\ EndOfInput => Inv'
  BY DEF EndOfInput, cache, Inv, TypeOK, CacheIsHonest, ClockIsAhead, ScanIsForLast,
     RepliesAreSound, SoundReply, RepliesAreInOrder, NeedsReply, Answered, Replies, ReadingIsBounded

LEMMA StepInv == Inv /\ [Next]_vars => Inv'
<1> SUFFICES ASSUME Inv, [Next]_vars PROVE Inv'
  OBVIOUS
<1>1. CASE UNCHANGED vars
  <2> USE <1>1 DEF vars, cache
  <2>1. TypeOK' /\ ReadingIsBounded' /\ CacheIsHonest' /\ ClockIsAhead'
    BY DEF Inv, TypeOK, ReadingIsBounded, CacheIsHonest, ClockIsAhead
  <2>2. ScanIsForLast' /\ RepliesAreSound'
    BY DEF Inv, ScanIsForLast, Current, UsesReport, RepliesAreSound, SoundReply
  <2>3. RepliesAreInOrder'
    BY DEF Inv, RepliesAreInOrder, NeedsReply, Answered, Replies
  <2> QED
    BY <2>1, <2>2, <2>3 DEF Inv
<1> QED
  BY <1>1, TickInv, BlankInv, AnswerWithoutReportInv, AnswerFromCacheInv, StartScanInv,
     ScanReturnsInv, ScanRaisesInv, ScanExitsInv, EndOfInputInv DEF Next

-----------------------------------------------------------------------------
(* The theorems.                                                           *)

LEMMA InvAlways == Spec => []Inv
  BY InitInv, StepInv, PTL DEF Spec

(* Every answer that carries a report is recent, from a new scan where a   *)
(* refresh was asked for, and about a project below the root, also after   *)
(* slow scans and scans that raised (mcp/protocol.py, ReportCache.get).    *)
THEOREM McpAnswersAreSound == Spec => []AnswersAreSound
<1>1. Inv => AnswersAreSound
  <2> SUFFICES ASSUME Inv PROVE AnswersAreSound
    OBVIOUS
  <2>1. AnswersAreRecent /\ RefreshIsObeyed
    BY DEF AnswersAreRecent, RefreshIsObeyed, ReportReplies, Replies, Request, Inv, RepliesAreSound,
       SoundReply
  <2>2. ReportsAreConfined
    BY CurrentIsALine
    DEF ReportsAreConfined, ReportReplies, Replies, Inv, RepliesAreSound, SoundReply, CacheIsHonest
  <2> QED
    BY <2>1, <2>2 DEF AnswersAreSound, Inv
<1> QED
  BY <1>1, InvAlways, PTL

(* A client that sends requests with ids gets one answer each, in order,   *)
(* whatever is malformed, refused or raises on the way; a scan that ends   *)
(* the process leaves only its own line unanswered (stdio.py, serve_stdio).*)
THEOREM McpRequestsAnsweredInOrder == Spec => []RequestsAnsweredInOrder
<1>1. Inv => RequestsAnsweredInOrder
  BY DEF Inv, RepliesAreInOrder, RequestsAnsweredInOrder, NeedsReply, Answered, Replies, Unsettled
<1> QED
  BY <1>1, InvAlways, PTL

=============================================================================
