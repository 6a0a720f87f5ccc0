---------------------------- MODULE CommandsProofs ----------------------------
(***************************************************************************)
(* Proofs about Commands: what ranges, advisories, lockfiles and monorepos *)
(* are told to mean, for every version, range, advisory and manifest, and  *)
(* what the published numbers are worth, for every fleet and corpus.       *)
(*                                                                         *)
(* The argument.  A version goes on as zeros (Component), so two versions  *)
(* are compared at the first place where they differ, however long they    *)
(* are written: Before does not mention their lengths, and Precedes is     *)
(* Before followed by the tags (PrecedesIs).  From there                   *)
(*   - the order is total and transitive (OrderIsTotalAlways);             *)
(*   - each clause accepts an interval, so a group of clauses without "!=" *)
(*     does (RangesAreConvexAlways), and a clause written in part accepts  *)
(*     the interval the module promises (ClausesMeanWhatTheySayAlways);    *)
(*   - a fix is an upper bound in a second order, that of the unpadded     *)
(*     tuples (FixesHoldAlways).                                           *)
(* The numbers are counts, so the argument about them is of maps between   *)
(* what is counted: a percentile is a place in an ascending sequence, and  *)
(* the places before it are as many as the durations it exceeds            *)
(* (PlaceCounts); a rate, times the attempts, lies within half of the      *)
(* successes (RatesAre); the first date of a machine is the least of a set *)
(* that only grows upwards (FirstReadyIs); and the causes are pairs of a   *)
(* tool and a machine, counted tool by tool (PairsByTool).                 *)
(* A command computes its answer from its input alone, so the invariant    *)
(* says of the input what the command was started with (InputFits).        *)
(***************************************************************************)
EXTENDS Commands, Versioning, Counting, SequenceTheorems, TLAPS

(* Numbers go on as zeros, so how far two versions are compared does not   *)
(* matter.                                                                 *)
Before(a, b) ==
  \E i \in Nat \ {0} :
    /\ Component(a, i) < Component(b, i)
    /\ \A j \in 1..(i - 1) : Component(a, j) = Component(b, j)

LEMMA ComponentIsNumber ==
  ASSUME NEW a \in Parsed, NEW i \in Nat \ {0}
  PROVE  Component(a, i) \in Nat /\ (i > Len(a.nums) => Component(a, i) = 0)
<1>1. a.nums \in Seq(Nat) /\ Len(a.nums) \in Nat
  BY DEF Parsed
<1>2. CASE i <= Len(a.nums)
  <2>1. a.nums[i] \in Nat
    BY <1>1, <1>2
  <2> QED BY <1>1, <1>2, <2>1 DEF Component
<1>3. CASE i > Len(a.nums)
  <2>1. ~(i <= Len(a.nums))
    BY <1>1, <1>3
  <2> QED BY <2>1 DEF Component
<1> QED BY <1>1, <1>2, <1>3

LEMMA LongerIsLonger ==
  ASSUME NEW a \in Parsed, NEW b \in Parsed
  PROVE  Longer(a, b) \in Nat /\ Longer(a, b) >= Len(a.nums) /\ Longer(a, b) >= Len(b.nums)
<1>1. Len(a.nums) \in Nat /\ Len(b.nums) \in Nat
  BY DEF Parsed
<1> QED BY <1>1 DEF Longer

LEMMA LessIsBefore ==
  ASSUME NEW a \in Parsed, NEW b \in Parsed
  PROVE  NumbersLess(a, b) <=> Before(a, b)
<1>1. NumbersLess(a, b) => Before(a, b)
  <2>1. \A i \in 1..Longer(a, b) : i \in Nat \ {0}
    BY LongerIsLonger
  <2> QED BY <2>1 DEF NumbersLess, Before
<1>2. ASSUME NEW i \in Nat \ {0}, Component(a, i) < Component(b, i),
             \A j \in 1..(i - 1) : Component(a, j) = Component(b, j)
      PROVE  NumbersLess(a, b)
  <2>1. i <= Longer(a, b)
    <3> SUFFICES ASSUME ~(i <= Longer(a, b)) PROVE FALSE
      OBVIOUS
    <3>1. Len(a.nums) \in Nat /\ Len(b.nums) \in Nat
      BY DEF Parsed
    <3>2. i > Len(a.nums) /\ i > Len(b.nums)
      BY <3>1, LongerIsLonger
    <3>3. Component(a, i) = 0 /\ Component(b, i) = 0
      BY <3>2, ComponentIsNumber
    <3> QED BY <1>2, <3>3
  <2>2. i \in 1..Longer(a, b)
    BY <2>1, LongerIsLonger
  <2> QED BY <1>2, <2>2 DEF NumbersLess
<1> QED BY <1>1, <1>2 DEF Before

LEMMA BeforeIsAsymmetric ==
  ASSUME NEW a \in Parsed, NEW b \in Parsed, Before(a, b)
  PROVE  ~Before(b, a)
<1> SUFFICES ASSUME Before(b, a) PROVE FALSE
  OBVIOUS
<1>1. PICK i \in Nat \ {0} : /\ Component(a, i) < Component(b, i)
                             /\ \A k \in 1..(i - 1) : Component(a, k) = Component(b, k)
  BY DEF Before
<1>2. PICK j \in Nat \ {0} : /\ Component(b, j) < Component(a, j)
                             /\ \A k \in 1..(j - 1) : Component(b, k) = Component(a, k)
  BY DEF Before
<1>3. /\ Component(a, i) \in Nat /\ Component(b, i) \in Nat
      /\ Component(a, j) \in Nat /\ Component(b, j) \in Nat
  BY ComponentIsNumber
<1>4. CASE i < j
  <2>1. i \in 1..(j - 1)
    BY <1>4
  <2> QED BY <1>1, <1>2, <1>3, <2>1
<1>5. CASE j < i
  <2>1. j \in 1..(i - 1)
    BY <1>5
  <2> QED BY <1>1, <1>2, <1>3, <2>1
<1>6. CASE i = j
  BY <1>1, <1>2, <1>3, <1>6
<1> QED BY <1>4, <1>5, <1>6

LEMMA BeforeIsTransitive ==
  ASSUME NEW a \in Parsed, NEW b \in Parsed, NEW c \in Parsed, Before(a, b), Before(b, c)
  PROVE  Before(a, c)
<1>1. PICK i \in Nat \ {0} : /\ Component(a, i) < Component(b, i)
                             /\ \A k \in 1..(i - 1) : Component(a, k) = Component(b, k)
  BY DEF Before
<1>2. PICK j \in Nat \ {0} : /\ Component(b, j) < Component(c, j)
                             /\ \A k \in 1..(j - 1) : Component(b, k) = Component(c, k)
  BY DEF Before
<1>3. \A k \in Nat \ {0} : Component(a, k) \in Nat /\ Component(b, k) \in Nat /\ Component(c, k) \in Nat
  BY ComponentIsNumber
<1>4. CASE i < j
  <2>1. Component(a, i) < Component(c, i)
    <3>1. i \in 1..(j - 1)
      BY <1>4
    <3> QED BY <1>1, <1>2, <3>1
  <2>2. \A k \in 1..(i - 1) : Component(a, k) = Component(c, k)
    <3>1. \A k \in 1..(i - 1) : k \in 1..(j - 1)
      BY <1>4
    <3> QED BY <1>1, <1>2, <3>1
  <2> QED BY <2>1, <2>2 DEF Before
<1>5. CASE j < i
  <2>1. Component(a, j) < Component(c, j)
    <3>1. j \in 1..(i - 1)
      BY <1>5
    <3> QED BY <1>1, <1>2, <3>1
  <2>2. \A k \in 1..(j - 1) : Component(a, k) = Component(c, k)
    <3>1. \A k \in 1..(j - 1) : k \in 1..(i - 1)
      BY <1>5
    <3> QED BY <1>1, <1>2, <3>1
  <2> QED BY <2>1, <2>2 DEF Before
<1>6. CASE i = j
  <2>1. Component(a, i) < Component(c, i)
    BY <1>1, <1>2, <1>3, <1>6
  <2>2. \A k \in 1..(i - 1) : Component(a, k) = Component(c, k)
    BY <1>1, <1>2, <1>6
  <2> QED BY <2>1, <2>2 DEF Before
<1> QED BY <1>4, <1>5, <1>6

SameNumbers(a, b) == \A i \in Nat \ {0} : Component(a, i) = Component(b, i)

(* Two versions of which neither is before the other have the same numbers:*)
(* otherwise there is a first place where they differ.                     *)
LEMMA BeforeIsTotal ==
  ASSUME NEW a \in Parsed, NEW b \in Parsed
  PROVE  ~Before(a, b) /\ ~Before(b, a) <=> SameNumbers(a, b)
<1>1. ASSUME SameNumbers(a, b) PROVE ~Before(a, b) /\ ~Before(b, a)
  <2>1. \A i \in Nat \ {0} : Component(a, i) \in Nat /\ Component(a, i) = Component(b, i)
    BY <1>1, ComponentIsNumber DEF SameNumbers
  <2> QED BY <2>1 DEF Before
<1>2. ASSUME ~SameNumbers(a, b) PROVE Before(a, b) \/ Before(b, a)
  <2> DEFINE S == {i \in Nat \ {0} : Component(a, i) # Component(b, i)}
  <2>1. S \subseteq Nat /\ S # {}
    BY <1>2 DEF SameNumbers
  <2>2. PICK i \in S : \A k \in S : i <= k
    <3> HIDE DEF S
    <3> QED BY <2>1, LeastNumber
  <2>3. \A k \in 1..(i - 1) : Component(a, k) = Component(b, k) /\ Component(b, k) = Component(a, k)
    <3> SUFFICES ASSUME NEW k \in 1..(i - 1), Component(a, k) # Component(b, k) PROVE FALSE
      OBVIOUS
    <3>1. k \in S /\ k < i
      OBVIOUS
    <3>2. i <= k /\ i \in Nat /\ k \in Nat
      BY <2>2, <3>1
    <3> QED BY <3>1, <3>2
  <2>4. /\ i \in Nat \ {0} /\ Component(a, i) \in Nat /\ Component(b, i) \in Nat
        /\ Component(a, i) # Component(b, i)
    BY ComponentIsNumber
  <2> HIDE DEF S
  <2>5. Component(a, i) < Component(b, i) \/ Component(b, i) < Component(a, i)
    BY <2>4
  <2> QED BY <2>3, <2>4, <2>5 DEF Before
<1> QED BY <1>1, <1>2

LEMMA BeforeRespectsSame ==
  ASSUME NEW a \in Parsed, NEW b \in Parsed, NEW c \in Parsed, SameNumbers(a, b)
  PROVE  (Before(a, c) <=> Before(b, c)) /\ (Before(c, a) <=> Before(c, b))
<1>1. \A i \in Nat \ {0} : Component(a, i) = Component(b, i)
  BY DEF SameNumbers
<1>2. \A i \in Nat \ {0} : \A j \in 1..(i - 1) : j \in Nat \ {0}
  OBVIOUS
<1> QED BY <1>1, <1>2 DEF Before

LEMMA SameIsSymmetric ==
  ASSUME NEW a, NEW b, NEW c, SameNumbers(a, b)
  PROVE  SameNumbers(b, a) /\ (SameNumbers(b, c) => SameNumbers(a, c))
BY DEF SameNumbers

LEMMA PrecedesIs ==
  ASSUME NEW a \in Parsed, NEW b \in Parsed
  PROVE  Precedes(a, b) <=> Before(a, b) \/ (SameNumbers(a, b) /\ TagLess(a, b))
<1>1. Precedes(a, b) <=> Before(a, b) \/ (~Before(a, b) /\ ~Before(b, a) /\ TagLess(a, b))
  BY LessIsBefore DEF Precedes
<1> QED BY <1>1, BeforeIsTotal

LEMMA TagsAreOrdered ==
  ASSUME NEW a \in Parsed, NEW b \in Parsed, NEW c \in Parsed
  PROVE  /\ ~(TagLess(a, b) /\ TagLess(b, a))
         /\ TagLess(a, b) /\ TagLess(b, c) => TagLess(a, c)
         /\ ~TagLess(a, b) /\ ~TagLess(b, a) <=> a.tag = b.tag
<1>1. a.tag \in Nat /\ b.tag \in Nat /\ c.tag \in Nat
  BY DEF Parsed
<1> QED BY <1>1 DEF TagLess, NoTag

LEMMA PrecedesIsAsymmetric ==
  ASSUME NEW a \in Parsed, NEW b \in Parsed, Precedes(a, b)
  PROVE  ~Precedes(b, a)
BY PrecedesIs, BeforeIsAsymmetric, BeforeIsTotal, SameIsSymmetric, TagsAreOrdered

LEMMA PrecedesIsTransitive ==
  ASSUME NEW a \in Parsed, NEW b \in Parsed, NEW c \in Parsed, Precedes(a, b), Precedes(b, c)
  PROVE  Precedes(a, c)
<1>1. CASE Before(a, b) /\ Before(b, c)
  BY <1>1, BeforeIsTransitive, PrecedesIs
<1>2. CASE Before(a, b) /\ SameNumbers(b, c)
  BY <1>2, BeforeRespectsSame, PrecedesIs
<1>3. CASE SameNumbers(a, b) /\ Before(b, c)
  BY <1>3, BeforeRespectsSame, PrecedesIs
<1>4. CASE SameNumbers(a, b) /\ TagLess(a, b) /\ SameNumbers(b, c) /\ TagLess(b, c)
  BY <1>4, SameIsSymmetric, TagsAreOrdered, PrecedesIs
<1> QED BY <1>1, <1>2, <1>3, <1>4, PrecedesIs

LEMMA SameVersionIs ==
  ASSUME NEW a \in Parsed, NEW b \in Parsed
  PROVE  SameVersion(a, b) <=> SameNumbers(a, b) /\ a.tag = b.tag
<1>1. Precedes(a, b) <=> Before(a, b) \/ (SameNumbers(a, b) /\ TagLess(a, b))
  BY PrecedesIs
<1>2. Precedes(b, a) <=> Before(b, a) \/ (SameNumbers(b, a) /\ TagLess(b, a))
  BY PrecedesIs
<1>3. ~Before(a, b) /\ ~Before(b, a) <=> SameNumbers(a, b)
  BY BeforeIsTotal
<1>4. SameNumbers(a, b) <=> SameNumbers(b, a)
  BY SameIsSymmetric
<1>5. ~TagLess(a, b) /\ ~TagLess(b, a) <=> a.tag = b.tag
  BY TagsAreOrdered
<1> QED BY <1>1, <1>2, <1>3, <1>4, <1>5 DEF SameVersion

(* Beyond both versions every number is zero. *)
LEMMA SameUpToLonger ==
  ASSUME NEW a \in Parsed, NEW b \in Parsed
  PROVE  SameNumbers(a, b) <=> \A i \in 1..Longer(a, b) : Component(a, i) = Component(b, i)
<1>1. Longer(a, b) \in Nat /\ Len(a.nums) \in Nat /\ Len(b.nums) \in Nat
  BY LongerIsLonger DEF Parsed
<1>2. ASSUME NEW i \in Nat \ {0}, i \notin 1..Longer(a, b) PROVE Component(a, i) = Component(b, i)
  <2>1. i > Len(a.nums) /\ i > Len(b.nums)
    BY <1>1, <1>2, LongerIsLonger
  <2>2. Component(a, i) = 0 /\ Component(b, i) = 0
    BY <2>1, ComponentIsNumber
  <2> QED BY <2>2
<1>3. 1..Longer(a, b) \subseteq Nat \ {0}
  BY <1>1
<1> QED BY <1>2, <1>3 DEF SameNumbers

(* Versions are in one order, whichever two are compared: it is total and  *)
(* transitive, and two versions are the same exactly when they differ in   *)
(* trailing zeros alone (core/versioning.py, _cmp_versions).               *)
THEOREM OrderIsTotalAlways ==
  ASSUME NEW a \in Parsed, NEW b \in Parsed, NEW c \in Parsed
  PROVE  OrderIsTotalAt(a, b, c)
<1>1. ~(Precedes(a, b) /\ Precedes(b, a))
  BY PrecedesIsAsymmetric
<1>2. Precedes(a, b) /\ Precedes(b, c) => Precedes(a, c)
  BY PrecedesIsTransitive
<1>3. SameVersion(a, b) /\ SameVersion(b, c) => SameVersion(a, c)
  BY SameVersionIs, SameIsSymmetric
<1>4. SameVersion(a, b) <=>
        a.tag = b.tag /\ \A i \in 1..Longer(a, b) : Component(a, i) = Component(b, i)
  BY SameVersionIs, SameUpToLonger
<1> QED BY <1>1, <1>2, <1>3, <1>4 DEF OrderIsTotalAt

-----------------------------------------------------------------------------

LEMMA ReleaseIsParsed ==
  ASSUME NEW major \in Nat, NEW minor \in Nat
  PROVE  Release(major, minor) \in Parsed
<1>1. <<major, minor, 0>> \in Seq(Nat) /\ Len(<<major, minor, 0>>) = 3
  OBVIOUS
<1> QED BY <1>1 DEF Release, Parsed, NoTag

LEMMA FirstNumbers ==
  ASSUME NEW v \in Parsed
  PROVE  v \in Parsed /\ v.nums[1] \in Nat /\ Component(v, 2) \in Nat /\ v.nums[1] = Component(v, 1)
<1>1. v \in Parsed /\ v.nums \in Seq(Nat) /\ Len(v.nums) \in Nat /\ Len(v.nums) >= 1
  BY DEF Parsed
<1>2. v.nums[1] \in Nat
  BY <1>1
<1>3. Component(v, 2) \in Nat
  BY <1>1, ComponentIsNumber
<1> QED BY <1>1, <1>2, <1>3 DEF Component

(* What the clauses are that a part of a range stands for. *)
LEMMA PartsAreClauses ==
  ASSUME NEW op \in Operators, NEW v \in Parsed, NEW clause \in PartialClauses(op, v)
  PROVE  /\ clause.version \in Parsed
         /\ clause.op \in Operators \ {""}
         /\ op # "!=" => clause.op # "!="
<1> DEFINE major == v.nums[1]
           minor == Component(v, 2)
<1>1. major \in Nat /\ minor \in Nat /\ major + 1 \in Nat /\ v \in Parsed
  BY FirstNumbers
<1>2. Release(major, minor) \in Parsed /\ Release(major + 1, 0) \in Parsed
  BY <1>1, ReleaseIsParsed
<1>3. Len(v.nums) \in Nat /\ Len(v.nums) >= 1
  BY DEF Parsed
<1>4. \/ clause = Clause(IF op = "" THEN "==" ELSE op, v)
      \/ clause = Clause("<", Release(major + 1, 0))
      \/ clause = Clause(">=", Release(major, minor))
  <2> HIDE DEF major, minor
  <2>1. CASE Len(v.nums) >= 3
    BY <1>3, <2>1, Zenon DEF PartialClauses, major, minor
  <2>2. CASE Len(v.nums) = 1 
    BY <1>3, <2>2, Zenon DEF PartialClauses, Operators, major, minor
  <2>3. CASE Len(v.nums) = 2
    BY <1>3, <2>3, Zenon DEF PartialClauses, Operators, major, minor
  <2>4. Len(v.nums) = 1 \/ Len(v.nums) = 2 \/ Len(v.nums) >= 3
    <3>1. \A n \in Nat : n >= 1 => n = 1 \/ n = 2 \/ n >= 3
      OBVIOUS
    <3> QED BY <1>3, <3>1, Zenon
  <2> QED BY <2>1, <2>2, <2>3, <2>4, Zenon
<1> HIDE DEF major, minor
<1>5. CASE clause = Clause(IF op = "" THEN "==" ELSE op, v)
  <2> DEFINE written == IF op = "" THEN "==" ELSE op
  <2>1. written \in Operators \ {""} /\ (op # "!=" => written # "!=")
    BY Zenon DEF Operators
  <2> HIDE DEF written
  <2>2. clause.op = written /\ clause.version = v
    BY <1>5, Zenon DEF Clause, written
  <2> QED BY <2>1, <2>2, Zenon
<1>6. CASE clause = Clause("<", Release(major + 1, 0))
  BY <1>2, <1>6, Zenon DEF Clause, Operators
<1>7. CASE clause = Clause(">=", Release(major, minor))
  BY <1>2, <1>7, Zenon DEF Clause, Operators
<1> QED BY <1>4, <1>5, <1>6, <1>7, Zenon

LEMMA GroupIsRange ==
  ASSUME NEW group, NEW v
  PROVE  satisfies(v, {group}) <=>
           \A part \in group : \A clause \in PartialClauses(part[1], part[2]) : Accepts(clause, v)
<1> DEFINE clauses == UNION {PartialClauses(part[1], part[2]) : part \in group}
<1>1. parse_spec({group}) = {clauses}
  BY DEF parse_spec
<1>2. \A clause : clause \in clauses <=> \E part \in group : clause \in PartialClauses(part[1], part[2])
  OBVIOUS
<1> HIDE DEF clauses
<1>3. satisfies(v, {group}) <=> \A clause \in clauses : Accepts(clause, v)
  BY <1>1 DEF satisfies, RangeAccepts, GroupAccepts
<1> QED BY <1>2, <1>3

LEMMA PartIsGroup ==
  ASSUME NEW op, NEW bound, NEW v
  PROVE  satisfies(v, {{<<op, bound>>}}) <=> \A clause \in PartialClauses(op, bound) : Accepts(clause, v)
<1> DEFINE group == {<<op, bound>>}
<1>1. \A part \in group : part[1] = op /\ part[2] = bound
  OBVIOUS
<1>2. <<op, bound>> \in group
  OBVIOUS
<1> HIDE DEF group
<1>3. satisfies(v, {group}) <=> \A clause \in PartialClauses(op, bound) : Accepts(clause, v)
  BY <1>1, <1>2, GroupIsRange
<1> QED BY <1>3 DEF group

(* Whatever lies between two versions that a clause accepts is accepted.   *)
LEMMA ClauseIsConvex ==
  ASSUME NEW clause, clause.version \in Parsed, clause.op \in Operators \ {"", "!="},
         NEW a \in Parsed, NEW b \in Parsed, NEW c \in Parsed, Precedes(a, b), Precedes(b, c),
         Accepts(clause, a), Accepts(clause, c)
  PROVE  Accepts(clause, b)
<1> DEFINE w == clause.version
<1> HIDE DEF w
<1>0. w \in Parsed
  BY Zenon DEF w
<1>1. CASE clause.op = ">="
  <2>1. ~Precedes(a, w) /\ (Accepts(clause, b) <=> ~Precedes(b, w))
    BY <1>1 DEF Accepts, w
  <2> QED BY <1>0, <2>1, PrecedesIsTransitive, Zenon
<1>2. CASE clause.op = "<="
  <2>1. ~Precedes(w, c) /\ (Accepts(clause, b) <=> ~Precedes(w, b))
    BY <1>2 DEF Accepts, w
  <2> QED BY <1>0, <2>1, PrecedesIsTransitive, Zenon
<1>3. CASE clause.op = ">"
  <2>1. Precedes(w, a) /\ (Accepts(clause, b) <=> Precedes(w, b))
    BY <1>3 DEF Accepts, w
  <2> QED BY <1>0, <2>1, PrecedesIsTransitive, Zenon
<1>4. CASE clause.op = "<"
  <2>1. Precedes(c, w) /\ (Accepts(clause, b) <=> Precedes(b, w))
    BY <1>4 DEF Accepts, w
  <2> QED BY <1>0, <2>1, PrecedesIsTransitive, Zenon
<1>5. CASE clause.op \in {"=", "=="}
  <2>1. SameVersion(a, w) /\ SameVersion(c, w)
    BY <1>5, Zenon DEF Accepts, w
  <2>2. SameVersion(a, c)
    BY <1>0, <2>1, SameVersionIs, SameIsSymmetric, Zenon
  <2>3. Precedes(a, c)
    BY PrecedesIsTransitive, Zenon
  <2> QED BY <2>2, <2>3, Zenon DEF SameVersion
<1> QED BY <1>1, <1>2, <1>3, <1>4, <1>5, Zenon DEF Operators

(* A range without "!=" has no holes, however many bounds it is written    *)
(* with, in full or in part (core/versioning.py, parse_spec).              *)
THEOREM RangesAreConvexAlways ==
  ASSUME NEW a \in Parsed, NEW b \in Parsed, NEW c \in Parsed,
         NEW group \in SUBSET (Operators \X Parsed)
  PROVE  RangesAreConvexAt(a, b, c, group)
<1> SUFFICES ASSUME \A part \in group : part[1] # "!=", satisfies(a, {group}), satisfies(c, {group}),
                    Precedes(a, b), Precedes(b, c)
             PROVE  satisfies(b, {group})
  BY DEF RangesAreConvexAt, satisfies
<1> SUFFICES ASSUME NEW part \in group, NEW clause \in PartialClauses(part[1], part[2])
             PROVE  Accepts(clause, b)
  BY GroupIsRange
<1>1. part[1] \in Operators /\ part[2] \in Parsed /\ part[1] # "!="
  OBVIOUS
<1>2. clause.version \in Parsed /\ clause.op \in Operators \ {"", "!="}
  BY <1>1, PartsAreClauses, Zenon
<1>3. Accepts(clause, a) /\ Accepts(clause, c)
  BY GroupIsRange
<1>4. clause.version \in Parsed /\ a \in Parsed /\ b \in Parsed /\ c \in Parsed
  BY <1>2, FirstNumbers, Zenon
<1> QED BY <1>2, <1>3, <1>4, ClauseIsConvex, Zenon

-----------------------------------------------------------------------------

LEMMA PrecedesRespectsSame ==
  ASSUME NEW v \in Parsed, NEW a \in Parsed, NEW b \in Parsed, SameNumbers(a, b), a.tag = b.tag
  PROVE  Precedes(v, a) <=> Precedes(v, b)
<1>1. Before(v, a) <=> Before(v, b)
  BY BeforeRespectsSame
<1>2. SameNumbers(v, a) <=> SameNumbers(v, b)
  BY DEF SameNumbers
<1>3. TagLess(v, a) <=> TagLess(v, b)
  BY DEF TagLess
<1> QED BY <1>1, <1>2, <1>3, PrecedesIs

(* What is written in part stands for the version that is filled up with   *)
(* zeros.                                                                  *)
LEMMA ReleaseIsSame ==
  ASSUME NEW v \in Parsed, Len(v.nums) < 3
  PROVE  SameNumbers(v, Release(v.nums[1], Component(v, 2)))
<1> DEFINE r == Release(v.nums[1], Component(v, 2))
<1>1. r.nums = <<v.nums[1], Component(v, 2), 0>>
  BY DEF Release
<1> HIDE DEF r
<1>2. v \in Parsed /\ v.nums[1] = Component(v, 1) /\ v.nums[1] \in Nat /\ Component(v, 2) \in Nat
  BY FirstNumbers
<1>3. /\ Len(r.nums) = 3 /\ r.nums[1] = Component(v, 1) /\ r.nums[2] = Component(v, 2)
      /\ r.nums[3] = 0
  BY <1>1, <1>2
<1>4. Component(r, 1) = Component(v, 1) /\ Component(r, 2) = Component(v, 2) /\ Component(r, 3) = 0
  BY <1>3 DEF Component
<1>5. \A i \in Nat \ {0} : i > 3 => Component(r, i) = 0
  BY <1>3 DEF Component
<1>6. \A i \in Nat \ {0} : i >= 3 => Component(v, i) = 0
  <2>1. Len(v.nums) \in Nat
    BY DEF Parsed
  <2> QED BY <1>2, <2>1, ComponentIsNumber
<1>7. \A i \in Nat \ {0} : i = 1 \/ i = 2 \/ i = 3 \/ i > 3
  OBVIOUS
<1>8. \A i \in Nat \ {0} : i = 3 \/ i > 3 => i >= 3
  OBVIOUS
<1>9. \A i \in Nat \ {0} : Component(v, i) = Component(r, i)
  BY <1>4, <1>5, <1>6, <1>7, <1>8
<1> QED BY <1>9 DEF SameNumbers, r

(* A part of a range means what the module says of it: the operator for a  *)
(* version written in full, the whole of a line for one written in part,   *)
(* and every version from the lower bound on (core/versioning.py,          *)
(* _partial_clauses).                                                      *)
THEOREM ClausesMeanWhatTheySayAlways ==
  ASSUME NEW op \in Operators, NEW bound \in Parsed, NEW v \in Parsed
  PROVE  ClausesMeanWhatTheySayAt(op, bound, v)
<1> DEFINE accepted == satisfies(v, {{<<op, bound>>}})
           major    == bound.nums[1]
           minor    == Component(bound, 2)
<1>1. accepted <=> \A clause \in PartialClauses(op, bound) : Accepts(clause, v)
  BY PartIsGroup
<1>2. /\ Len(bound.nums) \in Nat /\ Len(bound.nums) >= 1 /\ v \in Parsed /\ bound \in Parsed
      /\ major \in Nat /\ minor \in Nat
  BY FirstNumbers DEF Parsed
<1>3. ASSUME Len(bound.nums) = 3
      PROVE  accepted <=> Accepts(Clause(IF op = "" THEN "==" ELSE op, bound), v)
  <2>1. PartialClauses(op, bound) = {Clause(IF op = "" THEN "==" ELSE op, bound)}
    BY <1>3 DEF PartialClauses
  <2> HIDE DEF accepted
  <2> QED BY <1>1, <2>1
<1>4. ASSUME Len(bound.nums) = 1, op = "<="
      PROVE  accepted <=> Precedes(v, Release(major + 1, 0))
  <2>1. PartialClauses(op, bound) = {Clause("<", Release(major + 1, 0))}
    BY <1>4 DEF PartialClauses
  <2>2. Accepts(Clause("<", Release(major + 1, 0)), v) <=> Precedes(v, Release(major + 1, 0))
    BY DEF Accepts, Clause
  <2> HIDE DEF accepted
  <2> QED BY <1>1, <2>1, <2>2
<1>5. ASSUME Len(bound.nums) = 1, op = ""
      PROVE  accepted <=> Precedes(v, Release(major + 1, 0)) /\ ~Precedes(v, Release(major, 0))
  <2>1. PartialClauses(op, bound)
          = {Clause(">=", Release(major, minor)), Clause("<", Release(major + 1, 0))}
    <3>1. ~(Len(bound.nums) >= 3) /\ Len(bound.nums) < 3 /\ Len(bound.nums) # 2
      <4>1. ~(1 >= 3) /\ 1 < 3 /\ 1 # 2
        OBVIOUS
      <4> QED BY <1>5, <4>1, Zenon
    <3>2. op \notin {"<", "<="} /\ op \notin {">", ">="} /\ op \in {"", "=", "=="}
      BY <1>5
    <3> QED BY <3>1, <3>2, Zenon DEF PartialClauses
  <2>2. minor = 0
    <3>1. ~(2 <= Len(bound.nums))
      <4>1. ~(2 <= 1)
        OBVIOUS
      <4> QED BY <1>5, <4>1, Zenon
    <3> QED BY <3>1 DEF Component
  <2>3. Accepts(Clause("<", Release(major + 1, 0)), v) <=> Precedes(v, Release(major + 1, 0))
    BY DEF Accepts, Clause
  <2>4. Accepts(Clause(">=", Release(major, minor)), v) <=> ~Precedes(v, Release(major, minor))
    BY DEF Accepts, Clause
  <2> HIDE DEF accepted, minor
  <2> QED BY <1>1, <2>1, <2>2, <2>3, <2>4
<1>6. ASSUME op = ">=", bound.tag = NoTag
      PROVE  accepted <=> ~Precedes(v, bound)
  <2>1. CASE Len(bound.nums) >= 3
    <3>1. PartialClauses(op, bound) = {Clause(">=", bound)}
      BY <1>2, <1>6, <2>1 DEF PartialClauses
    <3>2. Accepts(Clause(">=", bound), v) <=> ~Precedes(v, bound)
      BY DEF Accepts, Clause
    <3> HIDE DEF accepted
    <3> QED BY <1>1, <3>1, <3>2
  <2>2. CASE Len(bound.nums) < 3
    <3>1. PartialClauses(op, bound) = {Clause(">=", Release(major, minor))}
      BY <1>2, <1>6, <2>2 DEF PartialClauses
    <3>2. Accepts(Clause(">=", Release(major, minor)), v) <=> ~Precedes(v, Release(major, minor))
      BY DEF Accepts, Clause
    <3>3. Release(major, minor) \in Parsed /\ Release(major, minor).tag = bound.tag
      BY <1>2, <1>6, ReleaseIsParsed, FirstNumbers DEF Release
    <3>4. Precedes(v, bound) <=> Precedes(v, Release(major, minor))
      BY <1>2, <2>2, <3>3, ReleaseIsSame, PrecedesRespectsSame
    <3> HIDE DEF accepted, major, minor
    <3> QED BY <1>1, <3>1, <3>2, <3>4
  <2> QED BY <1>2, <2>1, <2>2
<1> QED BY <1>3, <1>4, <1>5, <1>6 DEF ClausesMeanWhatTheySayAt

-----------------------------------------------------------------------------

LEMMA UnpaddedIsTransitive ==
  ASSUME NEW a \in Parsed, NEW b \in Parsed, NEW c \in Parsed,
         LessUnpadded(a, b), LessUnpadded(b, c)
  PROVE  LessUnpadded(a, c)
<1>1. /\ Len(a.nums) \in Nat /\ Len(b.nums) \in Nat /\ Len(c.nums) \in Nat
      /\ a.nums \in Seq(Nat) /\ b.nums \in Seq(Nat) /\ c.nums \in Seq(Nat)
  BY DEF Parsed
<1>2. PICK i \in 1..Longer(a, b) :
        /\ \A k \in 1..(i - 1) : k <= Len(a.nums) /\ k <= Len(b.nums) /\ a.nums[k] = b.nums[k]
        /\ i <= Len(b.nums)
        /\ i <= Len(a.nums) => a.nums[i] < b.nums[i]
  BY DEF LessUnpadded
<1>3. PICK j \in 1..Longer(b, c) :
        /\ \A k \in 1..(j - 1) : k <= Len(b.nums) /\ k <= Len(c.nums) /\ b.nums[k] = c.nums[k]
        /\ j <= Len(c.nums)
        /\ j <= Len(b.nums) => b.nums[j] < c.nums[j]
  BY DEF LessUnpadded
<1>4. i \in Nat \ {0} /\ j \in Nat \ {0} /\ Longer(a, c) \in Nat /\ Longer(a, c) >= Len(c.nums)
  BY LongerIsLonger
<1>5. CASE i < j
  <2>1. \A k \in 1..(i - 1) : k \in 1..(j - 1)
    BY <1>4, <1>5
  <2>2. i \in 1..(j - 1)
    BY <1>4, <1>5
  <2>3. i <= Len(c.nums) /\ b.nums[i] = c.nums[i]
    BY <1>3, <2>2
  <2>4. i \in 1..Longer(a, c)
    BY <1>1, <1>4, <2>3
  <2> QED BY <1>2, <1>3, <2>1, <2>3, <2>4 DEF LessUnpadded
<1>6. CASE j < i
  <2>1. \A k \in 1..(j - 1) : k \in 1..(i - 1)
    BY <1>4, <1>6
  <2>2. j \in 1..(i - 1)
    BY <1>4, <1>6
  <2>3. j <= Len(b.nums) /\ j <= Len(a.nums) /\ a.nums[j] = b.nums[j]
    BY <1>2, <2>2
  <2>4. j \in 1..Longer(a, c)
    BY <1>1, <1>3, <1>4
  <2> QED BY <1>2, <1>3, <2>1, <2>3, <2>4 DEF LessUnpadded
<1>7. CASE i = j
  <2>1. i \in 1..Longer(a, c)
    BY <1>1, <1>3, <1>4, <1>7
  <2>2. i <= Len(a.nums) => a.nums[i] < c.nums[i]
    <3> SUFFICES ASSUME i <= Len(a.nums) PROVE a.nums[i] < c.nums[i]
      OBVIOUS
    <3>1. i \in 1..Len(a.nums) /\ i \in 1..Len(b.nums) /\ i \in 1..Len(c.nums)
      BY <1>1, <1>2, <1>3, <1>4, <1>7
    <3>2. a.nums[i] \in Nat /\ b.nums[i] \in Nat /\ c.nums[i] \in Nat
      <4>1. \A s \in Seq(Nat) : \A k \in 1..Len(s) : s[k] \in Nat
        OBVIOUS
      <4> QED BY <1>1, <3>1, <4>1, Zenon
    <3>3. a.nums[i] < b.nums[i] /\ b.nums[i] < c.nums[i]
      BY <1>2, <1>3, <1>7
    <3> QED BY <3>2, <3>3
  <2> QED BY <1>2, <1>3, <1>7, <2>1, <2>2 DEF LessUnpadded
<1> QED BY <1>4, <1>5, <1>6, <1>7

LEMMA KeysAreOrdered ==
  ASSUME NEW a \in Parsed, NEW b \in Parsed, NEW c \in Parsed
  PROVE  ~KeyLess(a, a) /\ (KeyLess(a, b) /\ KeyLess(b, c) => KeyLess(a, c))
<1>1. a.tag \in Nat /\ b.tag \in Nat /\ c.tag \in Nat /\ a.nums \in Seq(Nat)
  BY DEF Parsed
<1>2. ~LessUnpadded(a, a)
  <2> SUFFICES ASSUME LessUnpadded(a, a) PROVE FALSE
    OBVIOUS
  <2>1. PICK i \in 1..Longer(a, a) : i <= Len(a.nums) /\ (i <= Len(a.nums) => a.nums[i] < a.nums[i])
    BY DEF LessUnpadded
  <2>2. i \in 1..Len(a.nums)
    BY <2>1, LongerIsLonger
  <2>3. a.nums[i] \in Nat
    BY <1>1, <2>2
  <2> QED BY <2>1, <2>3
<1>3. a.nums = b.nums => (LessUnpadded(b, c) => LessUnpadded(a, c))
  BY DEF LessUnpadded, Longer
<1>4. b.nums = c.nums => (LessUnpadded(a, b) => LessUnpadded(a, c))
  BY DEF LessUnpadded, Longer
<1>5. a.tag < b.tag /\ b.tag < c.tag => a.tag < c.tag
  BY <1>1
<1>6. ~(a.tag < a.tag)
  BY <1>1
<1> QED BY <1>2, <1>3, <1>4, <1>5, <1>6, UnpaddedIsTransitive DEF KeyLess

(* Once fixed, a branch stays fixed, and the fix of one's own branch is    *)
(* the one that counts, whatever versions an advisory names                *)
(* (compliance/advisories.py, is_affected).                                *)
THEOREM FixesHoldAlways ==
  ASSUME NEW a \in Parsed, NEW b \in Parsed, NEW fixes \in SUBSET Parsed
  PROVE  FixesHoldAt(a, b, fixes)
<1>1. ASSUME Branch(a) = Branch(b), KeyLess(a, b), IsAffected(b, {}, fixes)
      PROVE  IsAffected(a, {}, fixes)
  <2> DEFINE own == {f \in fixes : Branch(f) = Branch(b)}
  <2>1. PICK f \in (IF own # {} THEN own ELSE fixes) : KeyLess(b, f)
    BY <1>1 DEF IsAffected
  <2>2. f \in Parsed
    OBVIOUS
  <2>3. KeyLess(a, f)
    BY <1>1, <2>1, <2>2, KeysAreOrdered
  <2>4. own = {g \in fixes : Branch(g) = Branch(a)}
    BY <1>1
  <2> HIDE DEF own
  <2> QED BY <2>1, <2>3, <2>4 DEF IsAffected
<1>2. ASSUME a \in fixes, \A f \in fixes : Branch(f) = Branch(a) => f = a, IsAffected(a, {}, fixes)
      PROVE  FALSE
  <2>1. {f \in fixes : Branch(f) = Branch(a)} = {a}
    BY <1>2
  <2>2. KeyLess(a, a)
    BY <1>2, <2>1 DEF IsAffected
  <2> QED BY <2>2, KeysAreOrdered
<1>3. KeyLess(a, b) => ~IsAffected(a, {b}, fixes)
  BY DEF IsAffected
<1> QED BY <1>1, <1>2, <1>3 DEF FixesHoldAt

-----------------------------------------------------------------------------
(* Commands uses an instance of all this.                                  *)

LEMMA VersionsAreCompared ==
  ASSUME NEW a, NEW b
  PROVE  /\ Version!Precedes(a, b) = Precedes(a, b)
         /\ Version!SameVersion(a, b) = SameVersion(a, b)
         /\ Version!KeyLess(a, b) = KeyLess(a, b)
<1>1. \A v, i : Version!Component(v, i) = Component(v, i)
  BY DEF Version!Component, Component
<1>2. \A v, w : Version!Longer(v, w) = Longer(v, w)
  BY DEF Version!Longer, Longer
<1>3. \A v, w : Version!NumbersLess(v, w) = NumbersLess(v, w)
  BY <1>1, <1>2 DEF Version!NumbersLess, NumbersLess
<1>4. \A v, w : Version!TagLess(v, w) = TagLess(v, w)
  BY DEF Version!TagLess, TagLess, Version!NoTag, NoTag
<1>5. \A v, w : Version!Precedes(v, w) = Precedes(v, w)
  BY <1>3, <1>4 DEF Version!Precedes, Precedes
<1> QED
  BY <1>5 DEF Version!SameVersion, SameVersion, Version!KeyLess, KeyLess, Version!LessUnpadded, LessUnpadded,
     Version!Longer, Longer

LEMMA RangesAreRead ==
  ASSUME NEW v, NEW written
  PROVE  Version!satisfies(v, written) = satisfies(v, written)
<1>2. \A clause, w : Version!Accepts(clause, w) = Accepts(clause, w)
  BY VersionsAreCompared DEF Version!Accepts, Accepts
<1>3. Version!parse_spec(written) = parse_spec(written)
  BY DEF Version!parse_spec, parse_spec, Version!Anything, Anything, Version!Clause, Clause,
     Version!PartialClauses, PartialClauses, Version!Component, Component,
     Version!Release, Release, Version!NoTag, NoTag
<1> QED
  BY <1>2, <1>3 DEF Version!satisfies, satisfies, Version!RangeAccepts, RangeAccepts,
     Version!GroupAccepts, GroupAccepts

LEMMA PartsAreTheSame ==
  ASSUME NEW a, NEW b, NEW c
  PROVE  /\ Version!OrderIsTotalAt(a, b, c) = OrderIsTotalAt(a, b, c)
         /\ \A group : Version!RangesAreConvexAt(a, b, c, group) = RangesAreConvexAt(a, b, c, group)
         /\ Version!ClausesMeanWhatTheySayAt(a, b, c) = ClausesMeanWhatTheySayAt(a, b, c)
         /\ Version!FixesHoldAt(a, b, c) = FixesHoldAt(a, b, c)
<1>1. Version!OrderIsTotalAt(a, b, c) = OrderIsTotalAt(a, b, c)
  BY VersionsAreCompared DEF Version!OrderIsTotalAt, OrderIsTotalAt, Version!Longer, Longer,
     Version!Component, Component
<1>2. \A group : Version!RangesAreConvexAt(a, b, c, group) = RangesAreConvexAt(a, b, c, group)
  BY VersionsAreCompared, RangesAreRead DEF Version!RangesAreConvexAt, RangesAreConvexAt,
     Version!satisfies, satisfies
<1>3. Version!ClausesMeanWhatTheySayAt(a, b, c) = ClausesMeanWhatTheySayAt(a, b, c)
  <2>1. \A major, minor : Version!Release(major, minor) = Release(major, minor)
    BY DEF Version!Release, Release, Version!NoTag, NoTag
  <2>2. \A clause, w : Version!Accepts(clause, w) = Accepts(clause, w)
    BY VersionsAreCompared DEF Version!Accepts, Accepts
  <2> QED
    BY <2>1, <2>2, VersionsAreCompared, RangesAreRead
    DEF Version!ClausesMeanWhatTheySayAt, ClausesMeanWhatTheySayAt, Version!Clause, Clause,
        Version!NoTag, NoTag
<1>4. Version!FixesHoldAt(a, b, c) = FixesHoldAt(a, b, c)
  BY VersionsAreCompared DEF Version!FixesHoldAt, FixesHoldAt, Version!IsAffected, IsAffected,
     Version!Branch, Branch
<1> QED
  BY <1>1, <1>2, <1>3, <1>4

-----------------------------------------------------------------------------
(* Every command is a check or leaves the check alone, so what is proved   *)
(* of `devrepro check` holds of the process that answers any command       *)
(* (cli/commands/diagnostics.py, check_cmd): PolicyIsComposedAlways and    *)
(* CheckIsTruthfulAlways are proved of CheckSpec.                          *)
THEOREM CommandsRefineCheck == CommandsSpec => CheckSpec
<1>1. CommandsInit => CheckInit
  BY DEF CommandsInit
<1>2. ASSUME [CommandsNext]_allVars PROVE [CheckNext]_checkVars
  <2>1. CASE RunCheck
    BY <2>1 DEF RunCheck
  <2>2. CASE UNCHANGED allVars
    BY <2>2 DEF allVars
  <2>3. \A name, inputs : Reads(name, inputs) => UNCHANGED checkVars
    BY DEF Reads, checkVars
  <2>4. CASE \/ ReadVersions \/ ReadAdvisory \/ ReadLockfile \/ ReadTree
             \/ ReadFindings \/ ReadPlan \/ ReadGraph \/ ReadGuarded \/ ReadBaseline \/ ReadManifests
             \/ ReadShell \/ ReadSandbox \/ ReadEngine \/ ReadProject \/ ReadCorpus
    BY <2>3, <2>4 DEF ReadVersions, ReadAdvisory, ReadLockfile, ReadTree, ReadFindings, ReadPlan,
       ReadGraph, ReadGuarded, ReadBaseline, ReadManifests, ReadShell, ReadSandbox, ReadEngine,
       ReadProject, ReadCorpus
  <2>5. CASE \/ ReadWorkflows \/ ReadMachine \/ ReadHost \/ ReadCheckout \/ ReadArtifact \/ ReadNeeds
             \/ ReadSnapshots \/ ReadDurations \/ ReadEnrolments \/ ReadFleet
    BY <2>3, <2>5 DEF ReadWorkflows, ReadMachine, ReadHost, ReadCheckout, ReadArtifact, ReadNeeds,
       ReadSnapshots, ReadDurations, ReadEnrolments, ReadFleet
  <2> QED BY <1>2, <2>1, <2>2, <2>4, <2>5 DEF CommandsNext
<1> QED BY <1>1, <1>2, PTL DEF CommandsSpec, CheckSpec

-----------------------------------------------------------------------------
(* What a command was given.                                               *)

PlansOfTwo == {<<[s EXCEPT !.id = 1], [t EXCEPT !.id = 2]>> : s, t \in Steps}

InputFits ==
  /\ Given("versions")    => input \in ComparedVersions \X ComparedVersions
  /\ Given("advisories")  => input \in FixSets
  /\ Given("plan")        => input \in UpTo(3, Findings)
  /\ Given("fix")         => input \in PlansOfTwo
  /\ Given("rehearse")    => input \in Graphs
  /\ Given("guard")       => input \in Guarded
  /\ Given("baseline")    => input \in Baselines
  /\ Given("agent-check") => input \in Repositories
  /\ Given("briefing")    => input \in Shells
  /\ Given("sandbox")     => input \in Sandboxes
  /\ Given("lockfiles")   => input \in Locks
  /\ Given("containers")  => input \in Engines
  /\ Given("reproduce")   => input \in Projects
  /\ Given("repro-rate")  => input \in Attempts
  /\ Given("monorepo")    => input \in Trees
  /\ Given("ci-diff")     => input \in Workflows
  /\ Given("scan")        => input \in Machines
  /\ Given("tools")       => input \in Hosts
  /\ Given("checkout")    => input \in Checkouts
  /\ Given("artifacts")   => input \in Artifacts
  /\ Given("needs")       => input \in Declarations
  /\ Given("diff")        => input \in Snapshots \X Snapshots
  /\ Given("percentile")  => input \in Durations
  /\ Given("onboarding")  => input \in Enrolments \X UpTo(2, ReadyRows)
  /\ Given("simulate")    => input \in {DOMAIN e : e \in Enrolments} \X UpTo(2, FleetRows)

LEMMA InitFits == CommandsInit => InputFits
  BY DEF CommandsInit, InputFits, Given

LEMMA StepFits == InputFits /\ [CommandsNext]_allVars => InputFits'
<1> SUFFICES ASSUME InputFits, [CommandsNext]_allVars PROVE InputFits'
  OBVIOUS
<1>1. CASE RunCheck \/ UNCHANGED allVars
  BY <1>1 DEF RunCheck, allVars, InputFits, Given
<1>2. CASE ReadVersions
  BY <1>2 DEF ReadVersions, Reads, InputFits, Given
<1>3. CASE ReadAdvisory
  BY <1>3 DEF ReadAdvisory, Reads, InputFits, Given
<1>4. CASE ReadFindings
  BY <1>4 DEF ReadFindings, Reads, InputFits, Given
<1>5. CASE ReadPlan
  BY <1>5 DEF ReadPlan, PlansOfTwo, Reads, InputFits, Given
<1>6. CASE ReadGraph
  BY <1>6 DEF ReadGraph, Reads, InputFits, Given
<1>7. CASE ReadGuarded
  BY <1>7 DEF ReadGuarded, Reads, InputFits, Given
<1>8. CASE ReadBaseline
  BY <1>8 DEF ReadBaseline, Reads, InputFits, Given
<1>9. CASE ReadManifests
  BY <1>9 DEF ReadManifests, Reads, InputFits, Given
<1>10. CASE ReadShell
  BY <1>10 DEF ReadShell, Reads, InputFits, Given
<1>11. CASE ReadSandbox
  BY <1>11 DEF ReadSandbox, Reads, InputFits, Given
<1>12. CASE ReadLockfile
  BY <1>12 DEF ReadLockfile, Reads, InputFits, Given
<1>13. CASE ReadEngine
  BY <1>13 DEF ReadEngine, Reads, InputFits, Given
<1>14. CASE ReadProject
  BY <1>14 DEF ReadProject, Reads, InputFits, Given
<1>15. CASE ReadCorpus
  BY <1>15 DEF ReadCorpus, Reads, InputFits, Given
<1>16. CASE ReadTree
  BY <1>16 DEF ReadTree, Reads, InputFits, Given
<1>17. CASE ReadWorkflows
  BY <1>17 DEF ReadWorkflows, Reads, InputFits, Given
<1>18. CASE ReadMachine
  BY <1>18 DEF ReadMachine, Reads, InputFits, Given
<1>19. CASE ReadHost
  BY <1>19 DEF ReadHost, Reads, InputFits, Given
<1>20. CASE ReadCheckout
  BY <1>20 DEF ReadCheckout, Reads, InputFits, Given
<1>21. CASE ReadArtifact
  BY <1>21 DEF ReadArtifact, Reads, InputFits, Given
<1>22. CASE ReadNeeds
  BY <1>22 DEF ReadNeeds, Reads, InputFits, Given
<1>23. CASE ReadSnapshots
  BY <1>23 DEF ReadSnapshots, Reads, InputFits, Given
<1>24. CASE ReadDurations
  BY <1>24 DEF ReadDurations, Reads, InputFits, Given
<1>25. CASE ReadEnrolments
  BY <1>25 DEF ReadEnrolments, Reads, InputFits, Given
<1>26. CASE ReadFleet
  BY <1>26 DEF ReadFleet, Reads, InputFits, Given
<1> QED
  BY <1>1, <1>2, <1>3, <1>4, <1>5, <1>6, <1>7, <1>8, <1>9, <1>10, <1>11, <1>12, <1>13,
     <1>14, <1>15, <1>16, <1>17, <1>18, <1>19, <1>20, <1>21, <1>22, <1>23, <1>24, <1>25,
     <1>26 DEF CommandsNext

-----------------------------------------------------------------------------
(* Lockfiles.                                                              *)

LEMMA FormatIsJudged ==
  ASSUME NEW lock, NEW installed
  PROVE  LET floor == Version!minimum_tool(lock)
             found == Version!FormatFindings(lock, installed)
         IN /\ floor = None => found = {}
            /\ floor # None /\ installed = None =>
                 found = {Version!Verdict("manager-missing", "WARN")}
            /\ floor # None /\ installed \in {Unversioned, Garbled} =>
                 found = {Version!Verdict("format-unknown", "UNKNOWN")}
            /\ floor # None /\ installed \notin NotAVersion =>
                 found = {IF Version!satisfies(installed, floor)
                          THEN Version!Verdict("format-supported", "PASS")
                          ELSE Version!Verdict("tool-too-old", "ERROR")}
<1> DEFINE floor == Version!minimum_tool(lock)
           found == Version!FormatFindings(lock, installed)
<1>1. floor = None => found = {}
  BY Zenon DEF Version!FormatFindings
<1>2. floor # None /\ installed = None => found = {Version!Verdict("manager-missing", "WARN")}
  <2>1. None \notin {Unversioned, Garbled}
    BY NotAVersionAssumption
  <2> QED BY <2>1, Zenon DEF Version!FormatFindings
<1>3. floor # None /\ installed \in {Unversioned, Garbled} =>
        found = {Version!Verdict("format-unknown", "UNKNOWN")}
  <2>1. installed \in {Unversioned, Garbled} => installed # None
    BY NotAVersionAssumption
  <2> QED BY <2>1, Zenon DEF Version!FormatFindings
<1>4. floor # None /\ installed \notin NotAVersion =>
        found = {IF Version!satisfies(installed, floor) THEN Version!Verdict("format-supported", "PASS")
                                                        ELSE Version!Verdict("tool-too-old", "ERROR")}
  <2>1. installed \notin NotAVersion => installed # None /\ installed \notin {Unversioned, Garbled}
    BY DEF NotAVersion
  <2> QED BY <2>1, Zenon DEF Version!FormatFindings
<1> QED BY <1>1, <1>2, <1>3, <1>4, Zenon

LEMMA RuntimeIsJudged ==
  ASSUME NEW lock, NEW runtime
  PROVE  LET found == Version!RuntimeFindings(lock, runtime)
         IN /\ lock.pin = None \/ runtime \in {None, Unversioned} => found = {}
            /\ ~(lock.pin = None \/ runtime \in {None, Unversioned}) =>
                 IF Garbled \in {lock.pin, runtime}
                 THEN found = {Version!Verdict("runtime-spec-unparseable", "UNKNOWN")}
                 ELSE found \subseteq {Version!Verdict("runtime-mismatch", "ERROR")}
<1> DEFINE found == Version!RuntimeFindings(lock, runtime)
<1>1. CASE lock.pin = None \/ runtime \in {None, Unversioned}
  <2>1. found = {}
    BY <1>1, Zenon DEF Version!RuntimeFindings
  <2> QED BY <1>1, <2>1
<1>2. CASE ~(lock.pin = None \/ runtime \in {None, Unversioned})
  <2>1. CASE Garbled \in {lock.pin, runtime}
    <3>1. found = {Version!Verdict("runtime-spec-unparseable", "UNKNOWN")}
      BY <1>2, <2>1, Zenon DEF Version!RuntimeFindings
    <3> QED BY <1>2, <2>1, <3>1
  <2>2. CASE Garbled \notin {lock.pin, runtime}
    <3>1. found = IF Version!satisfies(runtime, lock.pin) THEN {}
                  ELSE {Version!Verdict("runtime-mismatch", "ERROR")}
      BY <1>2, <2>2, Zenon DEF Version!RuntimeFindings
    <3>2. found \subseteq {Version!Verdict("runtime-mismatch", "ERROR")}
      BY <3>1
    <3> QED BY <1>2, <2>2, <3>2
  <2> QED BY <2>1, <2>2
<1> QED BY <1>1, <1>2

LEMMA UnknownIsSaid ==
  ASSUME NEW lock, NEW installed, NEW runtime
  PROVE  Version!UnknownIsSaidAt(lock, installed, runtime)
<1> DEFINE floor   == Version!minimum_tool(lock)
           formats == Version!FormatFindings(lock, installed)
           runs    == Version!RuntimeFindings(lock, runtime)
           found   == Version!LockFindings(lock, installed, runtime)
           states  == {v.state : v \in found}
<1>1. /\ \A v \in formats : /\ v.state = "PASS" =>
                                 floor # None /\ installed \notin NotAVersion
                                   /\ Version!satisfies(installed, floor)
                            /\ v.state = "ERROR" => installed \notin NotAVersion
                            /\ v.state = "UNKNOWN" => installed \in NotAVersion
  <2>1. CASE floor = None
    <3>1. formats = {}
      BY <2>1, FormatIsJudged, Zenon
    <3> QED BY <3>1
  <2>2. CASE floor # None /\ installed = None
    <3>1. formats = {Version!Verdict("manager-missing", "WARN")}
      BY <2>2, FormatIsJudged, Zenon
    <3> HIDE DEF formats, floor
    <3> QED BY <3>1 DEF Version!Verdict
  <2>3. CASE floor # None /\ installed \in {Unversioned, Garbled}
    <3>1. formats = {Version!Verdict("format-unknown", "UNKNOWN")}
      BY <2>3, FormatIsJudged, Zenon
    <3> HIDE DEF formats, floor
    <3> QED BY <2>3, <3>1 DEF Version!Verdict, NotAVersion
  <2>4. CASE floor # None /\ installed \notin NotAVersion
    <3>1. formats = {IF Version!satisfies(installed, floor) THEN Version!Verdict("format-supported", "PASS")
                                                            ELSE Version!Verdict("tool-too-old", "ERROR")}
      BY <2>4, FormatIsJudged, Zenon
    <3> HIDE DEF formats, floor
    <3> QED BY <2>4, <3>1 DEF Version!Verdict
  <2> HIDE DEF formats, floor
  <2> QED BY <2>1, <2>2, <2>3, <2>4 DEF NotAVersion
<1>2. \A v \in runs : /\ v.state # "PASS"
                      /\ v.state = "ERROR" => runtime \notin NotAVersion
                      /\ v.state = "UNKNOWN" => runtime \in NotAVersion \/ Garbled = lock.pin
  <2>1. CASE lock.pin = None \/ runtime \in {None, Unversioned}
    <3>1. runs = {}
      BY <2>1, RuntimeIsJudged, Zenon
    <3> QED BY <3>1
  <2>2. CASE ~(lock.pin = None \/ runtime \in {None, Unversioned}) /\ Garbled \in {lock.pin, runtime}
    <3>1. runs = {Version!Verdict("runtime-spec-unparseable", "UNKNOWN")}
      BY <2>2, RuntimeIsJudged, Zenon
    <3> HIDE DEF runs
    <3> QED BY <2>2, <3>1 DEF Version!Verdict, NotAVersion
  <2>3. CASE ~(lock.pin = None \/ runtime \in {None, Unversioned}) /\ Garbled \notin {lock.pin, runtime}
    <3>1. runs \subseteq {Version!Verdict("runtime-mismatch", "ERROR")}
      BY <2>3, RuntimeIsJudged, Zenon
    <3> HIDE DEF runs
    <3> QED BY <2>3, <3>1 DEF Version!Verdict, NotAVersion
  <2> QED BY <2>1, <2>2, <2>3, Zenon
<1>3. \/ lock.format = Unreadable /\ found = {Version!Verdict("unreadable", "UNKNOWN")}
      \/ lock.format # Unreadable /\ found = formats \cup runs
  BY DEF Version!LockFindings
<1> HIDE DEF floor, formats, runs, found
<1>4. /\ "PASS" \in states => floor # None /\ installed \notin NotAVersion /\ Version!satisfies(installed, floor)
      /\ "ERROR" \in states => installed \notin NotAVersion \/ runtime \notin NotAVersion
      /\ "UNKNOWN" \in states =>
           \/ installed \in NotAVersion \/ runtime \in NotAVersion
           \/ Unreadable = lock.format \/ Garbled = lock.pin
  <2>1. CASE lock.format = Unreadable /\ found = {Version!Verdict("unreadable", "UNKNOWN")}
    <3>1. states = {"UNKNOWN"}
      BY <2>1 DEF Version!Verdict
    <3> QED BY <2>1, <3>1
  <2>2. CASE found = formats \cup runs
    <3>1. \A x \in states : \E v \in formats \cup runs : v.state = x
      BY <2>2
    <3>2. \A v \in formats \cup runs :
            /\ v.state = "PASS" =>
                 floor # None /\ installed \notin NotAVersion /\ Version!satisfies(installed, floor)
            /\ v.state = "ERROR" => installed \notin NotAVersion \/ runtime \notin NotAVersion
            /\ v.state = "UNKNOWN" =>
                 \/ installed \in NotAVersion \/ runtime \in NotAVersion
                 \/ Unreadable = lock.format \/ Garbled = lock.pin
      <4> SUFFICES ASSUME NEW v \in formats \cup runs
                   PROVE  /\ v.state = "PASS" =>
                               floor # None /\ installed \notin NotAVersion /\ Version!satisfies(installed, floor)
                          /\ v.state = "ERROR" => installed \notin NotAVersion \/ runtime \notin NotAVersion
                          /\ v.state = "UNKNOWN" =>
                               \/ installed \in NotAVersion \/ runtime \in NotAVersion
                               \/ Unreadable = lock.format \/ Garbled = lock.pin
        BY Zenon
      <4>1. CASE v \in formats
        BY <1>1, <4>1, Zenon
      <4>2. CASE v \in runs
        BY <1>2, <4>2, Zenon
      <4> QED BY <4>1, <4>2
    <3> HIDE DEF states
    <3>3. "PASS" \in states =>
            floor # None /\ installed \notin NotAVersion /\ Version!satisfies(installed, floor)
      BY <3>1, <3>2
    <3>4. "ERROR" \in states => installed \notin NotAVersion \/ runtime \notin NotAVersion
      BY <3>1, <3>2
    <3>5. "UNKNOWN" \in states =>
            \/ installed \in NotAVersion \/ runtime \in NotAVersion
            \/ Unreadable = lock.format \/ Garbled = lock.pin
      BY <3>1, <3>2
    <3> QED BY <3>3, <3>4, <3>5
  <2> QED BY <1>3, <2>1, <2>2
<1>5. \A v : v \notin NotAVersion <=> v \notin {None, Unversioned, Garbled}
  BY DEF NotAVersion
<1> QED BY <1>4, <1>5, Zenon DEF Version!UnknownIsSaidAt, floor, found

(* A floor is one lower bound, and a release: what it means is known.      *)
LEMMA FloorsAreBounds ==
  ASSUME NEW t \in DOMAIN Version!Floors, NEW f \in DOMAIN Version!Floors[t]
  PROVE  \E v \in Parsed : v.tag = NoTag /\ Version!Floors[t][f] = Version!AtLeast(v)
<1> DEFINE Bound(range) == \E v \in Parsed : v.tag = NoTag /\ range = Version!AtLeast(v)
<1>1. \A n \in Nat : Bound(Version!AtLeast(Version!V1(n)))
  <2> SUFFICES ASSUME NEW n \in Nat PROVE Version!V1(n) \in Parsed /\ Version!V1(n).tag = NoTag
    OBVIOUS
  <2>1. <<n>> \in Seq(Nat) /\ Len(<<n>>) = 1
    OBVIOUS
  <2> QED BY <2>1 DEF Version!V1, Version!NoTag, NoTag, Parsed
<1>2. \A n, m \in Nat : Bound(Version!AtLeast(Version!V2(n, m)))
  <2> SUFFICES ASSUME NEW n \in Nat, NEW m \in Nat
               PROVE  Version!V2(n, m) \in Parsed /\ Version!V2(n, m).tag = NoTag
    OBVIOUS
  <2>1. <<n, m>> \in Seq(Nat) /\ Len(<<n, m>>) = 2
    OBVIOUS
  <2> QED BY <2>1 DEF Version!V2, Version!NoTag, NoTag, Parsed
<1> SUFFICES Bound(Version!Floors[t][f])
  OBVIOUS
<1> HIDE DEF Bound
<1>3. /\ Bound(Version!AtLeast(Version!V1(1))) /\ Bound(Version!AtLeast(Version!V1(2)))
      /\ Bound(Version!AtLeast(Version!V1(5))) /\ Bound(Version!AtLeast(Version!V1(6)))
      /\ Bound(Version!AtLeast(Version!V1(7))) /\ Bound(Version!AtLeast(Version!V1(8)))
      /\ Bound(Version!AtLeast(Version!V1(9)))
      /\ Bound(Version!AtLeast(Version!V2(1, 1))) /\ Bound(Version!AtLeast(Version!V2(1, 2)))
      /\ Bound(Version!AtLeast(Version!V2(1, 5))) /\ Bound(Version!AtLeast(Version!V2(2, 0)))
      /\ Bound(Version!AtLeast(Version!V2(1, 53))) /\ Bound(Version!AtLeast(Version!V2(1, 78)))
  BY <1>1, <1>2
<1>4. t \in {"npm", "pnpm", "yarn", "bun", "poetry", "cargo", "composer", "uv"}
  BY DEF Version!Floors
<1>5. CASE t = "npm"
  BY <1>3, <1>5 DEF Version!Floors
<1>6. CASE t = "pnpm"
  BY <1>3, <1>6 DEF Version!Floors
<1>7. CASE t = "yarn"
  BY <1>3, <1>7 DEF Version!Floors
<1>8. CASE t = "bun"
  BY <1>3, <1>8 DEF Version!Floors
<1>9. CASE t = "poetry"
  BY <1>3, <1>9 DEF Version!Floors
<1>10. CASE t = "cargo"
  BY <1>3, <1>10 DEF Version!Floors
<1>11. CASE t = "composer"
  BY <1>3, <1>11 DEF Version!Floors
<1>12. CASE t = "uv"
  BY <1>12 DEF Version!Floors
<1> QED BY <1>4, <1>5, <1>6, <1>7, <1>8, <1>9, <1>10, <1>11, <1>12

(* Upgrading a package manager never takes a format away: floors are lower *)
(* bounds, and versions are in one order.                                  *)
LEMMA UpgradesKeepFormats ==
  ASSUME NEW lock, lock.tool \in DOMAIN Version!Floors,
         NEW older \in Parsed, NEW newer \in Parsed, older \notin NotAVersion, newer \notin NotAVersion
  PROVE  Version!UpgradesKeepFormatsAt(lock, older, newer)
<1> DEFINE floor == Version!minimum_tool(lock)
           supported == Version!Verdict("format-supported", "PASS")
<1> SUFFICES ASSUME Precedes(older, newer), supported \in Version!FormatFindings(lock, older)
             PROVE  supported \in Version!FormatFindings(lock, newer)
  BY VersionsAreCompared DEF Version!UpgradesKeepFormatsAt
<1>1. supported # Version!Verdict("tool-too-old", "ERROR")
  BY DEF Version!Verdict
<1>2. floor # None
  <2>1. Version!FormatFindings(lock, older) # {}
    OBVIOUS
  <2> QED BY <2>1, FormatIsJudged, Zenon
<1>3. Version!satisfies(older, floor)
  <2>1. Version!FormatFindings(lock, older)
          = {IF Version!satisfies(older, floor) THEN supported
                                                ELSE Version!Verdict("tool-too-old", "ERROR")}
    BY <1>2, FormatIsJudged, Zenon
  <2> HIDE DEF supported, floor
  <2> QED BY <1>1, <2>1
<1>4. lock.format \in DOMAIN Version!Floors[lock.tool] /\ floor = Version!Floors[lock.tool][lock.format]
  BY <1>2, Zenon DEF Version!minimum_tool
<1>5. PICK v \in Parsed : v.tag = NoTag /\ floor = {{<<">=", v>>}}
  <2>1. PICK v \in Parsed : v.tag = NoTag /\ Version!Floors[lock.tool][lock.format] = Version!AtLeast(v)
    BY <1>4, FloorsAreBounds
  <2>2. floor = {{<<">=", v>>}}
    BY <1>4, <2>1, Zenon DEF Version!AtLeast
  <2> HIDE DEF floor
  <2> QED BY <2>1, <2>2
<1> HIDE DEF floor
<1>6. \A w \in Parsed : Version!satisfies(w, floor) <=> ~Precedes(w, v)
  <2> SUFFICES ASSUME NEW w \in Parsed PROVE Version!satisfies(w, floor) <=> ~Precedes(w, v)
    OBVIOUS
  <2>1. ">=" \in Operators
    BY DEF Operators
  <2>2. ClausesMeanWhatTheySayAt(">=", v, w)
    BY <2>1, ClausesMeanWhatTheySayAlways
  <2>3. satisfies(w, floor) <=> ~Precedes(w, v)
    BY <1>5, <2>2, Zenon DEF ClausesMeanWhatTheySayAt
  <2> QED BY <2>3, RangesAreRead
<1>7. Version!satisfies(newer, floor)
  BY <1>3, <1>6, PrecedesIsTransitive, Zenon
<1>8. Version!FormatFindings(lock, newer) = {supported}
  BY <1>2, <1>7, FormatIsJudged, Zenon DEF floor
<1> QED BY <1>8, Zenon

-----------------------------------------------------------------------------
(* Manifests of one repository.                                            *)

LEMMA ConflictIsSymmetric ==
  ASSUME NEW a, NEW b
  PROVE  /\ Version!Nested(a, b) = Version!Nested(b, a)
         /\ Version!Conflict(a, b) = Version!Conflict(b, a)
<1>1. Version!Nested(a, b) = Version!Nested(b, a)
  BY DEF Version!Nested, Version!Inside
<1>2. Version!ranges_overlap(a.spec, b.spec) <=> Version!ranges_overlap(b.spec, a.spec)
  BY DEF Version!ranges_overlap
<1>3. Garbled \in {a.spec, b.spec} <=> Garbled \in {b.spec, a.spec}
  OBVIOUS
<1>4. CASE Garbled \in {a.spec, b.spec}
  <2>1. Version!Conflict(a, b) = "not compared"
    BY <1>4, Zenon DEF Version!Conflict
  <2>2. Version!Conflict(b, a) = "not compared"
    BY <1>3, <1>4, Zenon DEF Version!Conflict
  <2> QED BY <1>1, <2>1, <2>2
<1>5. CASE Garbled \notin {a.spec, b.spec}
  <2>1. Version!Conflict(a, b) = IF Version!ranges_overlap(a.spec, b.spec)
                                 THEN "none" ELSE "no version satisfies both"
    BY <1>5, Zenon DEF Version!Conflict
  <2>2. Version!Conflict(b, a) = IF Version!ranges_overlap(b.spec, a.spec)
                                 THEN "none" ELSE "no version satisfies both"
    BY <1>3, <1>5, Zenon DEF Version!Conflict
  <2> QED BY <1>1, <1>2, <2>1, <2>2
<1> QED BY <1>1, <1>4, <1>5

LEMMA NoConflictIsAgreement ==
  ASSUME NEW a, NEW b, Version!Conflict(a, b) = "none"
  PROVE  /\ Garbled \notin {a.spec, b.spec}
         /\ \E v \in Version!Candidates : Version!satisfies(v, a.spec) /\ Version!satisfies(v, b.spec)
<1>1. "not compared" # "none" /\ "no version satisfies both" # "none"
  OBVIOUS
<1>2. Garbled \notin {a.spec, b.spec}
  BY <1>1, Zenon DEF Version!Conflict
<1>3. Version!ranges_overlap(a.spec, b.spec)
  BY <1>1, <1>2, Zenon DEF Version!Conflict
<1> QED BY <1>2, <1>3 DEF Version!ranges_overlap

(* The entries i and j are told of. *)
Told(entries, i, j) ==
  /\ i < j /\ Version!Nested(entries[i].path, entries[j].path)
  /\ Version!Conflict(entries[i], entries[j]) # "none"

Distinct(entries) == {{c[1], c[2]} : c \in Version!detect_conflicts(entries)}

LEMMA ConflictsAre ==
  ASSUME NEW entries
  PROVE  /\ \A c \in Version!detect_conflicts(entries) :
              c[1] \in 1..Len(entries) /\ c[2] \in 1..Len(entries) /\ Told(entries, c[1], c[2])
         /\ \A i, j \in 1..Len(entries) : Told(entries, i, j) =>
              \E c \in Version!detect_conflicts(entries) : c[1] = i /\ c[2] = j
<1>1. \A c \in Version!detect_conflicts(entries) :
        c[1] \in 1..Len(entries) /\ c[2] \in 1..Len(entries) /\ Told(entries, c[1], c[2])
  BY DEF Version!detect_conflicts, Told
<1>2. ASSUME NEW i \in 1..Len(entries), NEW j \in 1..Len(entries), Told(entries, i, j)
      PROVE  \E c \in Version!detect_conflicts(entries) : c[1] = i /\ c[2] = j
  <2> DEFINE c == <<i, j, Version!Conflict(entries[i], entries[j])>>
  <2>1. c \in Version!detect_conflicts(entries)
    <3>1. /\ <<i, j>> \in (1..Len(entries)) \X (1..Len(entries))
          /\ <<i, j>>[1] = i /\ <<i, j>>[2] = j
      OBVIOUS
    <3> QED BY <1>2, <3>1 DEF Version!detect_conflicts, Told
  <2>2. c[1] = i /\ c[2] = j
    OBVIOUS
  <2> QED BY <2>1, <2>2
<1> QED BY <1>1, <1>2

LEMMA DistinctAre ==
  ASSUME NEW entries, NEW i \in 1..Len(entries), NEW j \in 1..Len(entries), Len(entries) \in Nat
  PROVE  {i, j} \in Distinct(entries) <=> Told(entries, i, j) \/ Told(entries, j, i)
<1>1. ASSUME {i, j} \in Distinct(entries) PROVE Told(entries, i, j) \/ Told(entries, j, i)
  <2>1. PICK c \in Version!detect_conflicts(entries) : {i, j} = {c[1], c[2]}
    BY <1>1 DEF Distinct
  <2>2. Told(entries, c[1], c[2]) /\ c[1] # c[2]
    <3>1. Told(entries, c[1], c[2]) /\ c[1] \in 1..Len(entries) /\ c[2] \in 1..Len(entries)
      BY ConflictsAre
    <3> QED BY <3>1 DEF Told
  <2>3. (c[1] = i /\ c[2] = j) \/ (c[1] = j /\ c[2] = i)
    BY <2>1, <2>2
  <2> QED BY <2>2, <2>3
<1>2. ASSUME Told(entries, i, j) \/ Told(entries, j, i) PROVE {i, j} \in Distinct(entries)
  <2>1. PICK c \in Version!detect_conflicts(entries) : (c[1] = i /\ c[2] = j) \/ (c[1] = j /\ c[2] = i)
    BY <1>2, ConflictsAre
  <2>2. {i, j} = {c[1], c[2]}
    BY <2>1
  <2> QED BY <2>1, <2>2 DEF Distinct
<1> QED BY <1>1, <1>2

(* Walking the directories the other way round finds the same conflicts.   *)
LEMMA ReversalTellsTheSame ==
  ASSUME NEW entries, Len(entries) \in Nat, DOMAIN entries = 1..Len(entries)
  PROVE  LET back == Version!Backwards(entries)
             n    == Len(entries)
         IN /\ Len(back) = n
            /\ \A i, j \in 1..n :
                 /\ n + 1 - i \in 1..n
                 /\ Told(back, i, j) <=> Told(entries, n + 1 - j, n + 1 - i)
<1> DEFINE back == Version!Backwards(entries)
           n    == Len(entries)
<1>1. back = [i \in 1..n |-> entries[(n - i) + 1]]
  BY DEF Version!Backwards
<1>2. Len(back) = n
  BY <1>1
<1> HIDE DEF back, n
<1>3. n \in Nat
  BY DEF n
<1>4. ASSUME NEW i \in 1..n, NEW j \in 1..n
      PROVE  /\ n + 1 - i \in 1..n
             /\ Told(back, i, j) <=> Told(entries, n + 1 - j, n + 1 - i)
  <2>1. n + 1 - i \in 1..n /\ (n - i) + 1 = n + 1 - i /\ (n - j) + 1 = n + 1 - j
    BY <1>3
  <2>2. back[i] = entries[n + 1 - i] /\ back[j] = entries[n + 1 - j]
    BY <1>1, <2>1
  <2>3. i < j <=> n + 1 - j < n + 1 - i
    BY <1>3
  <2> QED BY <2>1, <2>2, <2>3, ConflictIsSymmetric DEF Told
<1> QED BY <1>2, <1>4 DEF back, n

(* Two nested projects that cannot agree are told of, in whatever order    *)
(* the directories are walked, and nobody else is.                         *)
LEMMA NestedConflictsAreTold ==
  ASSUME NEW entries, NEW versions, Len(entries) \in Nat, DOMAIN entries = 1..Len(entries)
  PROVE  Version!ConflictsAreToldAt(entries, versions)
<1> DEFINE n    == Len(entries)
           back == Version!Backwards(entries)
           told == Distinct(entries)
           seen == {{n + 1 - c[1], n + 1 - c[2]} : c \in Version!detect_conflicts(back)}
<1> HIDE DEF n, back
<1>0. n \in Nat /\ DOMAIN entries = 1..n /\ Len(entries) = n /\ Len(back) = n
  BY ReversalTellsTheSame, Zenon DEF n, back
<1>1. \A i, j \in 1..n : n + 1 - i \in 1..n /\ (Told(back, i, j) <=> Told(entries, n + 1 - j, n + 1 - i))
  BY ReversalTellsTheSame, Zenon DEF n, back
<1>2. seen = told
  <2>1. ASSUME NEW pair \in seen PROVE pair \in told
    <3>1. PICK c \in Version!detect_conflicts(back) : pair = {n + 1 - c[1], n + 1 - c[2]}
      OBVIOUS
    <3>2. c[1] \in 1..n /\ c[2] \in 1..n /\ Told(back, c[1], c[2])
      BY <1>0, ConflictsAre
    <3>3. /\ n + 1 - c[1] \in 1..n /\ n + 1 - c[2] \in 1..n
          /\ Told(entries, n + 1 - c[2], n + 1 - c[1])
      BY <1>1, <3>2
    <3>4. {n + 1 - c[1], n + 1 - c[2]} \in Distinct(entries)
      BY <1>0, <3>3, DistinctAre
    <3> QED BY <3>1, <3>4
  <2>2. ASSUME NEW pair \in told PROVE pair \in seen
    <3>1. PICK c \in Version!detect_conflicts(entries) : pair = {c[1], c[2]}
      BY DEF Distinct
    <3>2. c[1] \in 1..n /\ c[2] \in 1..n /\ Told(entries, c[1], c[2])
      BY <1>0, ConflictsAre
    <3> DEFINE i == n + 1 - c[2]
               j == n + 1 - c[1]
    <3>3. i \in 1..n /\ j \in 1..n /\ n + 1 - j = c[1] /\ n + 1 - i = c[2]
      BY <1>0, <3>2
    <3> HIDE DEF i, j
    <3>4. Told(back, i, j)
      BY <1>1, <3>2, <3>3
    <3>5. PICK d \in Version!detect_conflicts(back) : d[1] = i /\ d[2] = j
      BY <1>0, <3>3, <3>4, ConflictsAre
    <3>6. pair = {n + 1 - d[1], n + 1 - d[2]}
      BY <3>1, <3>3, <3>5
    <3> QED BY <3>6
  <2> QED BY <2>1, <2>2
<1>3. ASSUME NEW i \in 1..n, NEW j \in 1..n, i # j,
             Version!Nested(entries[i].path, entries[j].path), {i, j} \notin told
      PROVE  /\ Garbled \notin {entries[i].spec, entries[j].spec}
             /\ \E v \in versions \cup Version!Candidates :
                  Version!satisfies(v, entries[i].spec) /\ Version!satisfies(v, entries[j].spec)
  <2>1. ~Told(entries, i, j) /\ ~Told(entries, j, i)
    BY <1>0, <1>3, DistinctAre
  <2>2. i < j \/ j < i
    BY <1>3
  <2>3. Version!Conflict(entries[i], entries[j]) = "none"
    BY <1>3, <2>1, <2>2, ConflictIsSymmetric DEF Told
  <2> QED BY <2>3, NoConflictIsAgreement
<1>4. ASSUME NEW pair \in told
      PROVE  \E i, j \in pair : i # j /\ Version!Nested(entries[i].path, entries[j].path)
  <2>1. PICK c \in Version!detect_conflicts(entries) : pair = {c[1], c[2]}
    BY DEF Distinct
  <2>2. c[1] \in 1..n /\ c[2] \in 1..n /\ Told(entries, c[1], c[2])
    BY <1>0, ConflictsAre
  <2>3. c[1] # c[2] /\ Version!Nested(entries[c[1]].path, entries[c[2]].path)
    BY <2>2 DEF Told
  <2> QED BY <2>1, <2>3
<1> QED BY <1>0, <1>2, <1>3, <1>4 DEF Version!ConflictsAreToldAt, Distinct, n, back

-----------------------------------------------------------------------------
(* Numbers that are published.                                             *)

(* The library counts the same under either name. *)
LEMMA FleetCounts == \A S : Fleet!Cardinality(S) = Cardinality(S)
BY Zenon DEF Fleet!Cardinality, Cardinality

(* Sorting keeps what there is, in ascending order.                        *)
LEMMA SortedIs ==
  ASSUME NEW values \in Seq(Int), values # <<>>
  PROVE  LET n == Len(values)
             s == Fleet!sorted(values)
         IN /\ n \in Nat \ {0}
            /\ s \in [1..n -> Fleet!Range(values)]
            /\ Sorts(s, n, Fleet!Range(values), values)
            /\ Fleet!Range(values) \subseteq Int /\ values \in [1..n -> Fleet!Range(values)]
<1> DEFINE n == Len(values)
           R == Fleet!Range(values)
<1>1. n \in Nat \ {0}
  OBVIOUS
<1>2. R = {values[i] : i \in 1..n}
  BY DEF Fleet!Range
<1>3. R \subseteq Int /\ values \in [1..n -> R] /\ \A r \in R : \E i \in 1..n : values[i] = r
  BY <1>2
<1>4. IsFiniteSet(R)
  <2>1. IsFiniteSet(1..n)
    BY <1>1, FS_Interval
  <2> HIDE DEF R, n
  <2> QED BY <1>3, <2>1, Onto
<1>5. \E s \in [1..n -> R] : Sorts(s, n, R, values)
  <2> HIDE DEF n, R
  <2> QED BY <1>1, <1>3, <1>4, SortingExists
<1>6. Fleet!sorted(values) = CHOOSE s \in [1..n -> R] : Sorts(s, n, R, values)
  <2> DEFINE upTo(t, d) == Fleet!Cardinality({i \in 1..n : t[i] <= d})
  <2>1. Fleet!sorted(values) = CHOOSE t \in [1..n -> R] :
          /\ \A i, j \in 1..n : i < j => t[i] <= t[j]
          /\ \A d \in R : upTo(t, d) = upTo(values, d)
    BY DEF Fleet!sorted
  <2>2. \A t, d : upTo(t, d) = CountUpTo(n, t, d)
    BY FleetCounts DEF CountUpTo
  <2> HIDE DEF upTo, n, R
  <2>3. \A t : Sorts(t, n, R, values) <=>
                 /\ \A i, j \in 1..n : i < j => t[i] <= t[j]
                 /\ \A d \in R : upTo(t, d) = upTo(values, d)
    BY <2>2 DEF Sorts
  <2> QED BY <2>1, <2>3, Zenon
<1> HIDE DEF n, R
<1>7. Fleet!sorted(values) \in [1..n -> R] /\ Sorts(Fleet!sorted(values), n, R, values)
  BY <1>5, <1>6
<1> QED BY <1>1, <1>3, <1>7 DEF n, R

(* The nearest rank is a place, the first that reaches the share.          *)
FirstToReach(r, percentage, n) ==
  r \in 1..n /\ 100 * r >= percentage * n /\ 100 * (r - 1) < percentage * n

LEMMA NearestRankIs ==
  ASSUME NEW percentage \in {50, 90}, NEW n \in Nat \ {0}
  PROVE  FirstToReach(Fleet!NearestRank(percentage, n), percentage, n)
<1>1. percentage * n + 99 \in Nat
  OBVIOUS
<1> QED BY <1>1, Quotient DEF Fleet!NearestRank, FirstToReach

(* The k-th place of an ascending sequence. *)
LEMMA PlaceCounts ==
  ASSUME NEW n \in Nat, NEW s \in [1..n -> Int], \A i, j \in 1..n : i < j => s[i] <= s[j], NEW k \in 1..n
  PROVE  /\ CountUpTo(n, s, s[k]) \in Nat /\ CountUpTo(n, s, s[k]) >= k
         /\ \A d \in Int : d < s[k] => CountUpTo(n, s, d) \in Nat /\ CountUpTo(n, s, d) <= k - 1
<1>1. IsFiniteSet(1..n)
  BY FS_Interval
<1>2. Cardinality(1..k) = k /\ Cardinality(1..(k - 1)) = k - 1 /\ IsFiniteSet(1..(k - 1))
  BY FS_Interval
<1>3. \A d : IsFiniteSet({i \in 1..n : s[i] <= d}) /\ CountUpTo(n, s, d) \in Nat
  <2> SUFFICES ASSUME NEW d PROVE IsFiniteSet({i \in 1..n : s[i] <= d}) /\ CountUpTo(n, s, d) \in Nat
    OBVIOUS
  <2>1. {i \in 1..n : s[i] <= d} \subseteq 1..n
    OBVIOUS
  <2>2. IsFiniteSet({i \in 1..n : s[i] <= d})
    BY <1>1, <2>1, FS_Subset
  <2> QED BY <2>2, FS_CardinalityType DEF CountUpTo
<1>4. CountUpTo(n, s, s[k]) >= k
  <2>1. 1..k \subseteq {i \in 1..n : s[i] <= s[k]}
    OBVIOUS
  <2>2. IsFiniteSet({i \in 1..n : s[i] <= s[k]})
    BY <1>3
  <2>3. Cardinality(1..k) <= Cardinality({i \in 1..n : s[i] <= s[k]})
    BY <2>1, <2>2, FS_Subset
  <2>4. k <= CountUpTo(n, s, s[k])
    BY <1>2, <2>3 DEF CountUpTo
  <2> QED BY <1>3, <2>4
<1>5. ASSUME NEW d \in Int, d < s[k] PROVE CountUpTo(n, s, d) <= k - 1
  <2>1. {i \in 1..n : s[i] <= d} \subseteq 1..(k - 1)
    <3> SUFFICES ASSUME NEW i \in 1..n, s[i] <= d PROVE i < k
      OBVIOUS
    <3> SUFFICES ASSUME ~(i < k) PROVE FALSE
      OBVIOUS
    <3>1. s[i] \in Int /\ s[k] \in Int
      OBVIOUS
    <3>2. s[k] <= s[i]
      <4>1. i = k \/ k < i
        OBVIOUS
      <4> QED BY <3>1, <4>1
    <3> QED BY <1>5, <3>1, <3>2
  <2> QED BY <1>2, <2>1, FS_Subset DEF CountUpTo
<1> QED BY <1>3, <1>4, <1>5

(* At least this share of the n numbers v is no more than x, which is one  *)
(* of R, and of no smaller one of R is that so.                            *)
ReachesShare(n, R, v, percentage, x) ==
  /\ x \in R /\ 100 * CountUpTo(n, v, x) >= percentage * n
  /\ \A d \in R : d < x => 100 * CountUpTo(n, v, d) < percentage * n

(* The place that the nearest rank names.                                  *)
LEMMA RankReaches ==
  ASSUME NEW n \in Nat \ {0}, NEW R \in SUBSET Int, NEW s \in [1..n -> R], NEW v, Sorts(s, n, R, v),
         NEW percentage \in {50, 90}, NEW k, k = Fleet!NearestRank(percentage, n)
  PROVE  k \in 1..n /\ ReachesShare(n, R, v, percentage, s[k])
<1>1. k \in 1..n /\ 100 * k >= percentage * n /\ 100 * (k - 1) < percentage * n
  <2>1. FirstToReach(Fleet!NearestRank(percentage, n), percentage, n)
    BY NearestRankIs, Zenon
  <2> QED BY <2>1, Zenon DEF FirstToReach
<1>2. /\ \A i, j \in 1..n : i < j => s[i] <= s[j]
      /\ \A d \in R : CountUpTo(n, s, d) = CountUpTo(n, v, d)
  BY Zenon DEF Sorts
<1>3. (\A i \in 1..n : s[i] \in R) /\ s = [i \in 1..n |-> s[i]]
  BY Zenon
<1>4. \A d \in R : d \in Int
  BY Zenon
<1>5. s \in [1..n -> Int] /\ s[k] \in R
  <2>1. \A i \in 1..n : s[i] \in Int
    BY <1>3, <1>4, Zenon
  <2> QED BY <1>1, <1>3, <2>1, Zenon
<1>6. /\ CountUpTo(n, s, s[k]) \in Nat /\ CountUpTo(n, s, s[k]) >= k
      /\ \A d \in Int : d < s[k] => CountUpTo(n, s, d) \in Nat /\ CountUpTo(n, s, d) <= k - 1
  <2>1. n \in Nat
    OBVIOUS
  <2> QED BY <1>1, <1>2, <1>5, <2>1, PlaceCounts, Zenon
<1>7. CountUpTo(n, v, s[k]) \in Nat /\ CountUpTo(n, v, s[k]) >= k
  BY <1>2, <1>5, <1>6, Zenon
<1>8. \A d \in R : d < s[k] => CountUpTo(n, v, d) \in Nat /\ CountUpTo(n, v, d) <= k - 1
  BY <1>2, <1>4, <1>6, Zenon
<1>9. \A c \in Nat : c >= k => 100 * c >= percentage * n
  BY <1>1
<1>10. \A c \in Nat : c <= k - 1 => 100 * c < percentage * n
  BY <1>1
<1> QED BY <1>1, <1>5, <1>7, <1>8, <1>9, <1>10, Zenon DEF ReachesShare

(* A percentile is a duration some machine had, at least that share of the *)
(* machines was no slower, and no shorter duration would do.               *)
LEMMA TailIsReachedFor ==
  ASSUME NEW durations \in Seq(Int), durations # <<>>
  PROVE  Fleet!TailIsReachedAt(durations)
<1> DEFINE n == Len(durations)
           R == Fleet!Range(durations)
           s == Fleet!sorted(durations)
           at(percentage) == Fleet!Percentile(durations, percentage)
           rank(percentage) == Fleet!NearestRank(percentage, n)
<1>1. n \in Nat \ {0} /\ s \in [1..n -> R] /\ Sorts(s, n, R, durations) /\ R \subseteq Int
  BY SortedIs
<1>2. \A percentage : at(percentage) =
        s[IF rank(percentage) < 1 THEN 1 ELSE IF rank(percentage) > n THEN n ELSE rank(percentage)]
  BY DEF Fleet!Percentile
<1>3. \A d : Fleet!Cardinality({i \in 1..n : durations[i] <= d}) = CountUpTo(n, durations, d)
  BY FleetCounts DEF CountUpTo
<1>4. Fleet!TailIsReachedAt(durations) <=>
        \A percentage \in {50, 90} :
          LET atMost(d) == Fleet!Cardinality({i \in 1..n : durations[i] <= d})
          IN /\ at(percentage) \in R
             /\ 100 * atMost(at(percentage)) >= percentage * n
             /\ \A d \in R : d < at(percentage) => 100 * atMost(d) < percentage * n
  BY DEF Fleet!TailIsReachedAt
<1> HIDE DEF at, rank, n, R, s
<1>5. ASSUME NEW percentage \in {50, 90}
      PROVE  ReachesShare(n, R, durations, percentage, at(percentage))
  <2>1. rank(percentage) \in 1..n /\ ReachesShare(n, R, durations, percentage, s[rank(percentage)])
    <3>1. rank(percentage) = Fleet!NearestRank(percentage, n)
      BY Zenon DEF rank
    <3>2. R \in SUBSET Int
      BY <1>1, Zenon
    <3>3. n \in Nat \ {0} /\ s \in [1..n -> R] /\ Sorts(s, n, R, durations)
      BY <1>1, Zenon
    <3> QED BY <3>1, <3>2, <3>3, RankReaches
  <2>2. \A k \in 1..n : ~(k < 1) /\ ~(k > n)
    BY <1>1
  <2>3. at(percentage) = s[rank(percentage)]
    BY <1>2, <2>1, <2>2, Zenon
  <2> QED BY <2>1, <2>3, Zenon
<1> QED BY <1>3, <1>4, <1>5 DEF ReachesShare

(* One more or one less of an outcome is one more or less in all.          *)
LEMMA TotalFollows ==
  ASSUME NEW c \in [Recipe!Outcomes -> Int], NEW d \in [Recipe!Outcomes -> Int],
         NEW o \in Recipe!Outcomes, NEW x \in Int, d[o] = c[o] + x,
         \A p \in Recipe!Outcomes \ {o} : d[p] = c[p]
  PROVE  Recipe!Total(d) = Recipe!Total(c) + x
<1>1. \A p \in Recipe!Outcomes : c[p] \in Int /\ d[p] \in Int
  OBVIOUS
<1> QED BY <1>1 DEF Recipe!Total, Recipe!Outcomes

(* A rate is a thousandth within half a thousandth of the exact one.       *)
LEMMA RatesAre ==
  ASSUME NEW c \in [Recipe!Outcomes -> Nat]
  PROVE  LET n == Recipe!Total(c)
             r == c["reproduced"]
         IN /\ n \in Nat /\ r \in Nat /\ r <= n
            /\ n < MINIMUM_SAMPLE => Recipe!Rates(c) = {None}
            /\ n >= MINIMUM_SAMPLE =>
                 \A k \in Recipe!Rates(c) :
                   /\ k \in Nat
                   /\ 2000 * r - n <= 2 * (k * n) /\ 2 * (k * n) <= 2000 * r + n
<1> DEFINE n == Recipe!Total(c)
           r == c["reproduced"]
<1>1. n \in Nat /\ r \in Nat /\ r <= n
  <2>1. /\ c["reproduced"] \in Nat /\ c["not-reproduced"] \in Nat /\ c["different-failure"] \in Nat
        /\ c["could-not-build"] \in Nat /\ c["precondition-unmet"] \in Nat
    BY DEF Recipe!Outcomes
  <2> QED BY <2>1 DEF Recipe!Total
<1>2. n < MINIMUM_SAMPLE => Recipe!Rates(c) = {None}
  BY DEF Recipe!Rates
<1>3. ASSUME n >= MINIMUM_SAMPLE, NEW k \in Recipe!Rates(c)
      PROVE  k \in Nat /\ 2000 * r - n <= 2 * (k * n) /\ 2 * (k * n) <= 2000 * r + n
  <2> DEFINE exact == 1000 * r
             below == exact \div n
  <2>1. ~(n < MINIMUM_SAMPLE) /\ n \in Nat \ {0}
    BY <1>1, <1>3, AttemptsAssumption
  <2>2. /\ k \in {below, below + 1}
        /\ 2 * exact - n <= 2 * k * n /\ 2 * k * n <= 2 * exact + n
    BY <1>3, <2>1 DEF Recipe!Rates
  <2>3. exact \in Nat
    BY <1>1
  <2> HIDE DEF n, r
  <2>4. below \in Nat
    <3> HIDE DEF exact
    <3> QED BY <2>1, <2>3, Quotient
  <2>5. k \in Nat
    BY <2>2, <2>4
  <2>6. 2 * k * n = 2 * (k * n)
    BY <2>1, <2>5
  <2> HIDE DEF below
  <2> QED BY <1>1, <2>2, <2>5, <2>6
<1> QED BY <1>1, <1>2, <1>3

(* The nearest thousandths, one attempt later. *)
LEMMA RateIsAtMostAll ==
  ASSUME NEW n \in Nat \ {0}, NEW r \in Nat, NEW k \in Nat, r <= n, 2 * (k * n) <= 2000 * r + n
  PROVE  k <= 1000
<1> SUFFICES ASSUME k >= 1001 PROVE FALSE
  OBVIOUS
<1>1. PICK j \in Nat : k = 1001 + j
  <2>1. k - 1001 \in Nat /\ k = 1001 + (k - 1001)
    OBVIOUS
  <2> QED BY <2>1
<1>2. k * n = 1001 * n + j * n /\ j * n \in Nat
  BY <1>1
<1> QED BY <1>2

(* ... a success does not lower it and anything else does not raise it.    *)
LEMMA RateFollows ==
  ASSUME NEW n \in Nat \ {0}, NEW r \in Nat, NEW k \in Nat, NEW l \in Nat, r <= n,
         2000 * r - n <= 2 * (k * n), 2 * (k * n) <= 2000 * r + n
  PROVE  /\ 2000 * (r + 1) - (n + 1) <= 2 * (l * (n + 1)) => l >= k
         /\ 2 * (l * (n + 1)) <= 2000 * r + (n + 1) => l <= k
<1>1. k <= 1000
  BY RateIsAtMostAll
<1>2. k * n \in Nat /\ l * (n + 1) \in Nat
  OBVIOUS
<1>3. ASSUME 2000 * (r + 1) - (n + 1) <= 2 * (l * (n + 1)), l < k PROVE FALSE
  <2>1. PICK j \in Nat : k = l + 1 + j
    <3>1. k - l - 1 \in Nat /\ k = l + 1 + (k - l - 1)
      BY <1>3
    <3> QED BY <3>1
  <2>2. k * n + k = l * (n + 1) + (n + 1) + j * (n + 1) /\ j * (n + 1) \in Nat
    BY <2>1
  <2> QED BY <1>1, <1>2, <1>3, <2>2
<1>4. ASSUME 2 * (l * (n + 1)) <= 2000 * r + (n + 1), l > k PROVE FALSE
  <2>1. PICK j \in Nat : l = k + 1 + j
    <3>1. l - k - 1 \in Nat /\ l = k + 1 + (l - k - 1)
      BY <1>4
    <3> QED BY <3>1
  <2>2. l * (n + 1) = k * n + k + (n + 1) + j * (n + 1) /\ j * (n + 1) \in Nat
    BY <2>1
  <2> QED BY <1>1, <1>2, <1>4, <2>2
<1> QED BY <1>3, <1>4

(* The published rate is earned. *)
LEMMA RateIsEarnedFor ==
  ASSUME NEW counts \in [Recipe!Outcomes -> Nat]
  PROVE  Recipe!RateIsEarnedAt(counts)
<1> DEFINE n == Recipe!Total(counts)
           r == counts["reproduced"]
<1> SUFFICES ASSUME NEW told \in Recipe!Rates(counts) \ {None}
             PROVE  /\ n >= MINIMUM_SAMPLE
                    /\ told \in 0..1000
                    /\ \A o \in Recipe!Outcomes : \A next \in Recipe!Rates([counts EXCEPT ![o] = @ + 1]) :
                         next # None /\ IF o = "reproduced" THEN next >= told ELSE next <= told
                    /\ \A o, p \in Recipe!Outcomes \ {"reproduced"} :
                         counts[o] > 0 =>
                           Recipe!Rates([[counts EXCEPT ![o] = @ - 1] EXCEPT ![p] = @ + 1]) = Recipe!Rates(counts)
  BY DEF Recipe!RateIsEarnedAt
<1>1. /\ n \in Nat /\ r \in Nat /\ r <= n /\ MINIMUM_SAMPLE \in Nat \ {0}
      /\ n < MINIMUM_SAMPLE => Recipe!Rates(counts) = {None}
      /\ n >= MINIMUM_SAMPLE =>
           \A k \in Recipe!Rates(counts) :
             /\ k \in Nat
             /\ 2000 * r - n <= 2 * (k * n) /\ 2 * (k * n) <= 2000 * r + n
  BY RatesAre, AttemptsAssumption
<1> HIDE DEF n, r
<1>2. n >= MINIMUM_SAMPLE /\ n \in Nat \ {0}
  BY <1>1
<1>3. told \in Nat /\ 2000 * r - n <= 2 * (told * n) /\ 2 * (told * n) <= 2000 * r + n
  BY <1>1, <1>2
<1>4. told <= 1000
  BY <1>1, <1>2, <1>3, RateIsAtMostAll
<1>5. \A o \in Recipe!Outcomes : counts[o] \in Nat
  OBVIOUS
<1>6. counts \in [Recipe!Outcomes -> Int]
  OBVIOUS
<1>7. ASSUME NEW o \in Recipe!Outcomes, NEW next \in Recipe!Rates([counts EXCEPT ![o] = @ + 1])
      PROVE  next # None /\ IF o = "reproduced" THEN next >= told ELSE next <= told
  <2> DEFINE later == [counts EXCEPT ![o] = @ + 1]
             s     == later["reproduced"]
  <2>1. later \in [Recipe!Outcomes -> Nat]
    OBVIOUS
  <2>2. /\ later[o] = counts[o] + 1 /\ \A p \in Recipe!Outcomes \ {o} : later[p] = counts[p]
        /\ later \in [Recipe!Outcomes -> Int]
    BY <1>5
  <2>3. s = IF o = "reproduced" THEN r + 1 ELSE r
    BY DEF r, Recipe!Outcomes
  <2> HIDE DEF later, s
  <2>4. Recipe!Total(later) = n + 1
    BY <1>6, <2>2, TotalFollows DEF n
  <2>5. /\ next \in Nat
        /\ 2000 * s - (n + 1) <= 2 * (next * (n + 1)) /\ 2 * (next * (n + 1)) <= 2000 * s + (n + 1)
    <3>1. n + 1 >= MINIMUM_SAMPLE
      BY <1>1, <1>2
    <3>2. next \in Recipe!Rates(later)
      BY DEF later
    <3> QED BY <2>1, <2>4, <3>1, <3>2, RatesAre DEF s
  <2>6. next # None
    BY <2>5, AttemptsAssumption
  <2>7. CASE o = "reproduced"
    <3>1. 2000 * (r + 1) - (n + 1) <= 2 * (next * (n + 1))
      BY <2>3, <2>5, <2>7
    <3>2. next >= told
      BY <1>1, <1>2, <1>3, <2>5, <3>1, RateFollows
    <3> QED BY <2>6, <2>7, <3>2
  <2>8. CASE o # "reproduced"
    <3>1. 2 * (next * (n + 1)) <= 2000 * r + (n + 1)
      BY <2>3, <2>5, <2>8
    <3>2. next <= told
      BY <1>1, <1>2, <1>3, <2>5, <3>1, RateFollows
    <3> QED BY <2>6, <2>8, <3>2
  <2> QED BY <2>7, <2>8
<1>8. ASSUME NEW o \in Recipe!Outcomes \ {"reproduced"}, NEW p \in Recipe!Outcomes \ {"reproduced"}
      PROVE  Recipe!Rates([[counts EXCEPT ![o] = @ - 1] EXCEPT ![p] = @ + 1]) = Recipe!Rates(counts)
  <2> DEFINE fewer == [counts EXCEPT ![o] = @ - 1]
             moved == [fewer EXCEPT ![p] = @ + 1]
  <2>1. /\ fewer \in [Recipe!Outcomes -> Int] /\ fewer[o] = counts[o] + (-1)
        /\ \A q \in Recipe!Outcomes \ {o} : fewer[q] = counts[q]
        /\ fewer["reproduced"] = r
    BY <1>5 DEF r, Recipe!Outcomes
  <2> HIDE DEF fewer
  <2>2. /\ moved \in [Recipe!Outcomes -> Int] /\ moved[p] = fewer[p] + 1
        /\ \A q \in Recipe!Outcomes \ {p} : moved[q] = fewer[q]
        /\ moved["reproduced"] = fewer["reproduced"]
    <3>1. \A q \in Recipe!Outcomes : fewer[q] \in Int
      BY <2>1
    <3>2. "reproduced" \in Recipe!Outcomes
      BY DEF Recipe!Outcomes
    <3> QED BY <2>1, <3>1, <3>2
  <2> HIDE DEF moved
  <2>3. Recipe!Total(fewer) = n + (-1)
    BY <1>6, <2>1, TotalFollows DEF n
  <2>4. Recipe!Total(moved) = Recipe!Total(fewer) + 1
    BY <2>1, <2>2, TotalFollows
  <2>5. Recipe!Total(moved) = n /\ moved["reproduced"] = r
    BY <1>1, <2>1, <2>2, <2>3, <2>4
  <2>6. Recipe!Rates(moved) = Recipe!Rates(counts)
    BY <2>5 DEF Recipe!Rates, n, r
  <2> QED BY <2>6 DEF moved, fewer
<1> QED BY <1>2, <1>3, <1>4, <1>7, <1>8

-----------------------------------------------------------------------------
(* The pages of the fleet.                                                 *)

(* The dates at which a machine was ready, and what the page is made of.   *)
Stamps(m, snapshots) ==
  {s.at : s \in {x \in Fleet!Range(snapshots) : x.machine = m /\ x.ready /\ x.at # None}}

Onboarded(enrolled, snapshots) ==
  {m \in {d \in DOMAIN enrolled : enrolled[d] # None} :
     Fleet!FirstReady(m, snapshots) # None /\ Fleet!FirstReady(m, snapshots) >= enrolled[m]}

Never(enrolled, snapshots) ==
  {m \in {d \in DOMAIN enrolled : enrolled[d] # None} : Fleet!FirstReady(m, snapshots) = None}

Took(enrolled, snapshots, machines) ==
  [i \in 1..Len(machines) |-> Fleet!FirstReady(machines[i], snapshots) - enrolled[machines[i]]]

(* What the page shows. *)
LEMMA OnboardingIs ==
  ASSUME NEW enrolled, NEW snapshots
  PROVE  LET page     == Fleet!Onboarding(enrolled, snapshots)
             cohort   == Cardinality(Onboarded(enrolled, snapshots))
             machines == Fleet!InSomeOrder(Onboarded(enrolled, snapshots))
             took     == Took(enrolled, snapshots, machines)
         IN page = [ cohort |-> cohort,
                     never  |-> Cardinality(Never(enrolled, snapshots)),
                     p50    |-> IF cohort >= MINIMUM_COHORT THEN Fleet!Percentile(took, 50) ELSE None,
                     p90    |-> IF cohort >= MINIMUM_COHORT THEN Fleet!Percentile(took, 90) ELSE None ]
BY FleetCounts, Zenon DEF Fleet!Onboarding, Onboarded, Never, Took

(* The page depends on the first dates alone. *)
LEMMA OnboardingFollows ==
  ASSUME NEW enrolled, NEW before, NEW after,
         \A m : Fleet!FirstReady(m, before) = Fleet!FirstReady(m, after)
  PROVE  Fleet!Onboarding(enrolled, before) = Fleet!Onboarding(enrolled, after)
<1>1. Onboarded(enrolled, before) = Onboarded(enrolled, after)
  BY DEF Onboarded
<1>2. Never(enrolled, before) = Never(enrolled, after)
  BY DEF Never
<1>3. \A machines : Took(enrolled, before, machines) = Took(enrolled, after, machines)
  BY DEF Took
<1> QED BY <1>1, <1>2, <1>3, OnboardingIs, Zenon

(* A least number is the one that Min chooses. *)
LEMMA LeastIs ==
  ASSUME NEW S, S \subseteq Int, NEW m \in S, \A k \in S : m <= k
  PROVE  Fleet!Min(S) = m
<1>1. \A x \in S : (\A k \in S : x <= k) => x = m
  BY SMT
<1> QED BY <1>1 DEF Fleet!Min

(* The first date is the least, where there is one. *)
LEMMA FirstReadyIs ==
  ASSUME NEW m, NEW R, NEW snapshots \in Seq(R), \A row \in R : row.at \in Int \cup {None}
  PROVE  LET S     == Stamps(m, snapshots)
             first == Fleet!FirstReady(m, snapshots)
         IN /\ S \subseteq Int /\ None \notin S
            /\ S = {} => first = None
            /\ S # {} => first \in S /\ first = Fleet!Min(S) /\ \A k \in S : first <= k
<1> DEFINE S     == Stamps(m, snapshots)
           n     == Len(snapshots)
           first == Fleet!FirstReady(m, snapshots)
<1>1. n \in Nat /\ Fleet!Range(snapshots) = {snapshots[i] : i \in 1..n} /\ snapshots \in [1..n -> R]
  BY DEF Fleet!Range
<1>2. Fleet!Range(snapshots) \subseteq R
  BY <1>1
<1>3. S \subseteq Int /\ None \notin S
  BY <1>2 DEF Stamps
<1>4. first = IF S = {} THEN None ELSE Fleet!Min(S)
  BY Zenon DEF Fleet!FirstReady, Stamps
<1>5. IsFiniteSet(S)
  <2>1. IsFiniteSet(1..n) /\ IsFiniteSet(Fleet!Range(snapshots))
    <3>1. IsFiniteSet(1..n)
      BY <1>1, FS_Interval
    <3> DEFINE T == Fleet!Range(snapshots)
               f == [i \in 1..n |-> snapshots[i]]
    <3>2. f \in [1..n -> T] /\ \A t \in T : \E i \in 1..n : f[i] = t
      BY <1>1
    <3> HIDE DEF T, f, n
    <3>3. IsFiniteSet(T)
      BY <3>1, <3>2, Onto
    <3> QED BY <3>1, <3>3 DEF T
  <2> DEFINE T == {x \in Fleet!Range(snapshots) : x.machine = m /\ x.ready /\ x.at # None}
             g == [x \in T |-> x.at]
  <2>2. IsFiniteSet(T)
    BY <2>1, FS_Subset
  <2>3. g \in [T -> S] /\ \A t \in S : \E x \in T : g[x] = t
    BY DEF Stamps
  <2> HIDE DEF T, g, S
  <2> QED BY <2>2, <2>3, Onto
<1>6. ASSUME S # {} PROVE first \in S /\ first = Fleet!Min(S) /\ \A k \in S : first <= k
  <2>1. first = Fleet!Min(S)
    BY <1>4, <1>6
  <2> HIDE DEF S, first
  <2>2. PICK k \in S : \A j \in S : k <= j
    BY <1>3, <1>5, <1>6, FiniteMinimum
  <2>3. Fleet!Min(S) = k
    BY <1>3, <2>2, LeastIs
  <2> QED BY <2>1, <2>2, <2>3
<1> HIDE DEF S, first
<1>7. S = {} => first = None
  BY <1>4
<1> QED BY <1>3, <1>6, <1>7 DEF S, first

(* The order of the rows makes no difference to what rows there are.       *)
LEMMA RowsInOrder ==
  ASSUME NEW R, NEW rows \in Seq(R), NEW next
  PROVE  /\ Fleet!Range(Fleet!Backwards(rows)) = Fleet!Range(rows)
         /\ Fleet!Range(<<next>> \o rows) = {next} \cup Fleet!Range(rows)
<1> DEFINE n == Len(rows)
<1>1. n \in Nat /\ DOMAIN rows = 1..n
  OBVIOUS
<1>2. Fleet!Range(Fleet!Backwards(rows)) = Fleet!Range(rows)
  <2> DEFINE back == [i \in 1..n |-> rows[(n - i) + 1]]
  <2>1. Fleet!Backwards(rows) = back
    BY DEF Fleet!Backwards
  <2>2. DOMAIN back = 1..n /\ \A i \in 1..n : back[i] = rows[(n - i) + 1]
    OBVIOUS
  <2> HIDE DEF back, n
  <2>3. \A i \in 1..n : (n - i) + 1 \in 1..n /\ (n - ((n - i) + 1)) + 1 = i
    BY <1>1
  <2>4. {back[i] : i \in 1..n} = {rows[i] : i \in 1..n}
    BY <2>2, <2>3
  <2> QED BY <1>1, <2>1, <2>2, <2>4 DEF Fleet!Range
<1>3. Fleet!Range(<<next>> \o rows) = {next} \cup Fleet!Range(rows)
  <2> DEFINE all == <<next>> \o rows
  <2>1. /\ DOMAIN all = 1..(n + 1) /\ all[1] = next
        /\ \A i \in 1..n : all[i + 1] = rows[i]
    <3>1. <<next>> \in Seq({next} \cup R) /\ rows \in Seq({next} \cup R) /\ Len(<<next>>) = 1
      OBVIOUS
    <3> QED BY <1>1, <3>1
  <2> HIDE DEF all, n
  <2>2. \A i \in 1..(n + 1) : i = 1 \/ (i - 1 \in 1..n /\ (i - 1) + 1 = i)
    BY <1>1
  <2>3. \A i \in 1..n : i + 1 \in 1..(n + 1)
    BY <1>1
  <2>4. 1 \in 1..(n + 1)
    BY <1>1
  <2>5. {all[i] : i \in 1..(n + 1)} = {next} \cup {rows[i] : i \in 1..n}
    BY <2>1, <2>2, <2>3, <2>4
  <2> QED BY <1>1, <2>1, <2>5 DEF Fleet!Range, all
<1> QED BY <1>2, <1>3

(* Of every snapshot: going on reporting changes nothing.                  *)
LEMMA OnboardingIsStableForAll ==
  ASSUME NEW enrolled, IsFiniteSet(DOMAIN enrolled), MINIMUM_COHORT \in Nat,
         NEW R, NEW snapshots \in Seq(R), NEW next \in R, \A row \in R : row.at \in Int \cup {None}
  PROVE  LET before == Fleet!Onboarding(enrolled, snapshots)
             after  == Fleet!Onboarding(enrolled, <<next>> \o snapshots)
             first  == Fleet!FirstReady(next.machine, snapshots)
         IN /\ Fleet!Onboarding(enrolled, Fleet!Backwards(snapshots)) = before
            /\ (first # None /\ next.at # None) => (next.at >= first => after = before)
            /\ after.never <= before.never
            /\ before.cohort < MINIMUM_COHORT => before.p50 = None /\ before.p90 = None
<1> DEFINE before == Fleet!Onboarding(enrolled, snapshots)
           more   == <<next>> \o snapshots
           after  == Fleet!Onboarding(enrolled, more)
           first  == Fleet!FirstReady(next.machine, snapshots)
<1>1. Fleet!Onboarding(enrolled, Fleet!Backwards(snapshots)) = before
  <2>1. \A m : Fleet!FirstReady(m, Fleet!Backwards(snapshots)) = Fleet!FirstReady(m, snapshots)
    BY RowsInOrder, Zenon DEF Fleet!FirstReady
  <2> QED BY <2>1, OnboardingFollows
<1>2. more \in Seq(R)
  OBVIOUS
<1>3. \A m : Stamps(m, more) =
        IF next.machine = m /\ next.ready /\ next.at # None THEN Stamps(m, snapshots) \cup {next.at}
        ELSE Stamps(m, snapshots)
  <2>1. Fleet!Range(more) = {next} \cup Fleet!Range(snapshots)
    BY RowsInOrder
  <2> QED BY <2>1 DEF Stamps
<1> HIDE DEF more
<1>4. ASSUME first # None, next.at # None, next.at >= first PROVE after = before
  <2>1. ASSUME NEW m PROVE Fleet!FirstReady(m, snapshots) = Fleet!FirstReady(m, more)
    <3> DEFINE S == Stamps(m, snapshots)
               T == Stamps(m, more)
    <3>1. CASE T = S
      <4>1. \A s : Fleet!FirstReady(m, s) = IF Stamps(m, s) = {} THEN None ELSE Fleet!Min(Stamps(m, s))
        BY Zenon DEF Fleet!FirstReady, Stamps
      <4> QED BY <3>1, <4>1
    <3>2. CASE T # S
      <4>1. next.machine = m /\ T = S \cup {next.at}
        BY <1>3, <3>2
      <4>2. first \in S /\ \A k \in S : first <= k
        BY <1>4, <4>1, FirstReadyIs
      <4>3. T \subseteq Int /\ T # {} => Fleet!FirstReady(m, more) = Fleet!Min(T)
        BY <1>2, FirstReadyIs
      <4>4. T \subseteq Int
        BY <1>2, FirstReadyIs
      <4> HIDE DEF S, T
      <4>5. first \in T /\ \A k \in T : first <= k
        BY <1>4, <4>1, <4>2
      <4>6. Fleet!Min(T) = first
        BY <4>4, <4>5, LeastIs
      <4> QED BY <4>1, <4>3, <4>4, <4>5, <4>6
    <3> QED BY <3>1, <3>2
  <2> QED BY <2>1, OnboardingFollows
<1>5. after.never <= before.never
  <2>1. Never(enrolled, more) \subseteq Never(enrolled, snapshots)
    <3> SUFFICES ASSUME NEW m, Fleet!FirstReady(m, more) = None PROVE Fleet!FirstReady(m, snapshots) = None
      BY DEF Never
    <3>1. Stamps(m, more) = {}
      BY <1>2, FirstReadyIs
    <3>2. Stamps(m, snapshots) = {}
      BY <1>3, <3>1
    <3> QED BY <3>2, FirstReadyIs
  <2>2. IsFiniteSet(Never(enrolled, snapshots))
    <3>1. Never(enrolled, snapshots) \subseteq DOMAIN enrolled
      BY DEF Never
    <3> QED BY <3>1, FS_Subset
  <2>3. Cardinality(Never(enrolled, more)) <= Cardinality(Never(enrolled, snapshots))
    BY <2>1, <2>2, FS_Subset
  <2>4. after.never = Cardinality(Never(enrolled, more)) /\ before.never = Cardinality(Never(enrolled, snapshots))
    BY OnboardingIs
  <2> QED BY <2>3, <2>4
<1>6. ASSUME before.cohort < MINIMUM_COHORT PROVE before.p50 = None /\ before.p90 = None
  <2> DEFINE cohort == Cardinality(Onboarded(enrolled, snapshots))
  <2>1. cohort \in Nat
    <3>1. Onboarded(enrolled, snapshots) \subseteq DOMAIN enrolled
      BY DEF Onboarded
    <3> QED BY <3>1, FS_Subset, FS_CardinalityType
  <2>2. before.cohort = cohort
    BY OnboardingIs
  <2>3. ~(cohort >= MINIMUM_COHORT)
    BY <1>6, <2>1, <2>2
  <2> QED BY <2>3, OnboardingIs
<1> QED BY <1>1, <1>4, <1>5, <1>6 DEF more

(* There are finitely many rows. *)
LEMMA RowsAreFinite ==
  ASSUME NEW R, NEW rows \in Seq(R)
  PROVE  /\ IsFiniteSet(Fleet!Range(rows)) /\ Fleet!Range(rows) \subseteq R
         /\ Fleet!Range(rows) = {rows[i] : i \in 1..Len(rows)} /\ Len(rows) \in Nat
<1> DEFINE n == Len(rows)
           T == Fleet!Range(rows)
           f == [i \in 1..n |-> rows[i]]
<1>1. n \in Nat /\ T = {rows[i] : i \in 1..n} /\ T \subseteq R
  BY DEF Fleet!Range
<1>2. f \in [1..n -> T] /\ \A t \in T : \E i \in 1..n : f[i] = t
  BY <1>1
<1>3. IsFiniteSet(1..n)
  BY <1>1, FS_Interval
<1> HIDE DEF T, f, n
<1>4. IsFiniteSet(T)
  BY <1>2, <1>3, Onto
<1> QED BY <1>1, <1>4 DEF T, n

(* The newest rows are rows; where there are few they are all.             *)
LEMMA FactsAre ==
  ASSUME NEW R, NEW stored \in Seq(R), FactsLimit \in Nat
  PROVE  LET known == Fleet!snapshot_facts(stored)
         IN /\ known \in Seq(R) /\ Len(known) \in Nat /\ Len(known) <= Len(stored)
            /\ \A i \in 1..Len(known) : i \in 1..Len(stored) /\ known[i] = stored[i]
            /\ Fleet!Range(known) \subseteq Fleet!Range(stored)
            /\ Len(stored) <= FactsLimit => known = stored
<1> DEFINE known == Fleet!snapshot_facts(stored)
           n     == Len(stored)
           k     == IF n < FactsLimit THEN n ELSE FactsLimit
<1>1. known = SubSeq(stored, 1, k)
  BY DEF Fleet!snapshot_facts
<1>2. n \in Nat /\ k \in 0..n /\ (n <= FactsLimit => k = n)
  OBVIOUS
<1> HIDE DEF k, n, known
<1>3. known \in Seq(R) /\ Len(known) = k /\ \A i \in 1..k : known[i] = stored[i]
  <2>1. SubSeq(stored, 1, k) \in Seq(R) /\ Len(SubSeq(stored, 1, k)) = k
        /\ \A i \in 1..k : SubSeq(stored, 1, k)[i] = stored[i]
    BY <1>2 DEF n
  <2> QED BY <1>1, <2>1
<1>4. \A i \in 1..Len(known) : i \in 1..n /\ known[i] = stored[i]
  BY <1>2, <1>3
<1>5. Fleet!Range(known) \subseteq Fleet!Range(stored)
  <2>1. /\ Fleet!Range(known) = {known[i] : i \in 1..Len(known)}
        /\ Fleet!Range(stored) = {stored[i] : i \in 1..n}
    BY <1>3, RowsAreFinite DEF n
  <2> QED BY <1>4, <2>1
<1>6. ASSUME n <= FactsLimit PROVE known = stored
  <2>1. Len(known) = n /\ \A i \in 1..n : known[i] = stored[i]
    BY <1>2, <1>3, <1>6
  <2> QED BY <1>3, <2>1 DEF n
<1> QED BY <1>2, <1>3, <1>4, <1>5, <1>6 DEF n, known

(* No machine looks faster than it was, no stuck one is left out, and      *)
(* while every snapshot is read going on reporting changes nothing.        *)
LEMMA OnboardingIsStableFor ==
  ASSUME NEW enrolled, IsFiniteSet(DOMAIN enrolled), MINIMUM_COHORT \in Nat, FactsLimit \in Nat,
         NEW R, NEW stored \in Seq(R), NEW next \in R, \A row \in R : row.at \in Int \cup {None}
  PROVE  Fleet!OnboardingIsStableAt(enrolled, stored, next)
<1> DEFINE known  == Fleet!snapshot_facts(stored)
           more   == <<next>> \o stored
           newest == Fleet!snapshot_facts(more)
           before == Fleet!OnboardingPage(enrolled, stored)
           after  == Fleet!OnboardingPage(enrolled, more)
           whole  == Fleet!Onboarding(enrolled, more)
           first  == Fleet!FirstReady(next.machine, stored)
<1>1. more \in Seq(R) /\ Len(more) = Len(stored) + 1 /\ Len(stored) \in Nat
  OBVIOUS
<1>2. before = Fleet!Onboarding(enrolled, known) /\ after = Fleet!Onboarding(enrolled, newest)
  BY DEF Fleet!OnboardingPage
<1>3. known \in Seq(R) /\ newest \in Seq(R) /\ Fleet!Range(newest) \subseteq Fleet!Range(more)
  <2> HIDE DEF more
  <2> QED BY <1>1, FactsAre
<1>4. /\ Fleet!Onboarding(enrolled, Fleet!Backwards(known)) = before
      /\ before.cohort < MINIMUM_COHORT => before.p50 = None /\ before.p90 = None
  <2> HIDE DEF known, before
  <2> QED BY <1>2, <1>3, OnboardingIsStableForAll
<1>5. ASSUME Len(more) <= FactsLimit
      PROVE  /\ (first # None /\ next.at # None) => (next.at >= first => after = before)
             /\ after.never <= before.never
  <2>1. newest = more /\ known = stored
    <3>1. Len(stored) <= FactsLimit
      BY <1>1, <1>5
    <3> HIDE DEF more
    <3> QED BY <1>1, <1>5, <3>1, FactsAre
  <2>2. before = Fleet!Onboarding(enrolled, stored) /\ after = Fleet!Onboarding(enrolled, <<next>> \o stored)
    BY <1>2, <2>1
  <2> HIDE DEF before, after, more, known, newest
  <2> QED BY <2>2, OnboardingIsStableForAll
<1> HIDE DEF more, newest, before, after, known
<1>6. \A m : Stamps(m, newest) \subseteq Stamps(m, more)
  BY <1>3 DEF Stamps
<1>7. ASSUME NEW m, Fleet!FirstReady(m, newest) # None
      PROVE  Fleet!FirstReady(m, more) # None /\ Fleet!FirstReady(m, newest) >= Fleet!FirstReady(m, more)
  <2>1. Stamps(m, newest) # {}
    BY <1>3, <1>7, FirstReadyIs
  <2>2. Fleet!FirstReady(m, newest) \in Stamps(m, newest)
    BY <1>3, <2>1, FirstReadyIs
  <2>3. Fleet!FirstReady(m, newest) \in Stamps(m, more)
    BY <1>6, <2>2
  <2>4. /\ Fleet!FirstReady(m, more) <= Fleet!FirstReady(m, newest) /\ Fleet!FirstReady(m, more) \in Stamps(m, more)
        /\ Stamps(m, more) \subseteq Int /\ None \notin Stamps(m, more)
    BY <1>1, <2>3, FirstReadyIs
  <2>5. Fleet!FirstReady(m, more) \in Int /\ Fleet!FirstReady(m, newest) \in Int
    BY <2>3, <2>4
  <2> QED BY <2>4, <2>5
<1>8. after.never >= whole.never
  <2>1. Never(enrolled, more) \subseteq Never(enrolled, newest)
    BY <1>7 DEF Never
  <2>2. Never(enrolled, newest) \subseteq DOMAIN enrolled
    BY DEF Never
  <2>3. IsFiniteSet(Never(enrolled, newest)) /\ IsFiniteSet(Never(enrolled, more))
    BY <2>1, <2>2, FS_Subset
  <2>4. Cardinality(Never(enrolled, more)) <= Cardinality(Never(enrolled, newest))
    BY <2>1, <2>3, FS_Subset
  <2>5. Cardinality(Never(enrolled, more)) \in Nat /\ Cardinality(Never(enrolled, newest)) \in Nat
    BY <2>3, FS_CardinalityType
  <2>6. after.never = Cardinality(Never(enrolled, newest)) /\ whole.never = Cardinality(Never(enrolled, more))
    BY <1>2, OnboardingIs
  <2> HIDE DEF whole
  <2> QED BY <2>4, <2>5, <2>6
<1> QED BY <1>4, <1>5, <1>7, <1>8, Zenon
        DEF Fleet!OnboardingIsStableAt, more, newest, before, after, known

(* Every machine has one latest row. *)
LEMMA LatestRowsAre ==
  ASSUME NEW R, NEW rows \in Seq(R)
  PROVE  LET latest   == Fleet!LatestRows(rows)
             machines == {r.machine : r \in Fleet!Range(rows)}
         IN /\ latest \subseteq Fleet!Range(rows) /\ IsFiniteSet(latest)
            /\ Cardinality(latest) = Cardinality(machines)
<1> DEFINE latest   == Fleet!LatestRows(rows)
           machines == {r.machine : r \in Fleet!Range(rows)}
           n        == Len(rows)
           First(i) == \A k \in 1..(i - 1) : rows[k].machine # rows[i].machine
           f        == [r \in latest |-> r.machine]
<1>1. n \in Nat /\ Fleet!Range(rows) = {rows[i] : i \in 1..n} /\ IsFiniteSet(Fleet!Range(rows))
  BY RowsAreFinite
<1>2. latest = {rows[i] : i \in {j \in 1..n : First(j)}}
  BY DEF Fleet!LatestRows
<1> HIDE DEF n
<1>3. latest \subseteq Fleet!Range(rows)
  <2> HIDE DEF latest, First
  <2> QED BY <1>1, <1>2
<1>4. IsFiniteSet(latest)
  BY <1>1, <1>3, FS_Subset
<1>5. f \in [latest -> machines]
  <2>1. \A r \in latest : r.machine \in machines
    BY <1>3
  <2> HIDE DEF latest, machines
  <2> QED BY <2>1
<1>6. \A r, q \in latest : f[r] = f[q] => r = q
  <2> SUFFICES ASSUME NEW r \in latest, NEW q \in latest, r.machine = q.machine PROVE r = q
    OBVIOUS
  <2>1. PICK i \in 1..n : First(i) /\ r = rows[i]
    BY <1>2
  <2>2. PICK j \in 1..n : First(j) /\ q = rows[j]
    BY <1>2
  <2>3. ~(i \in 1..(j - 1)) /\ ~(j \in 1..(i - 1))
    BY <2>1, <2>2
  <2>4. i = j
    BY <1>1, <2>3
  <2> QED BY <2>1, <2>2, <2>4
<1>7. \A m \in machines : \E r \in latest : f[r] = m
  <2> SUFFICES ASSUME NEW m \in machines PROVE \E r \in latest : r.machine = m
    OBVIOUS
  <2> DEFINE S == {i \in 1..n : rows[i].machine = m}
  <2>1. S \subseteq Nat /\ S # {}
    BY <1>1
  <2>2. PICK i \in S : \A k \in S : i <= k
    <3> HIDE DEF S
    <3> QED BY <2>1, LeastNumber
  <2>3. ASSUME NEW k \in 1..(i - 1), rows[k].machine = rows[i].machine PROVE FALSE
    <3>1. k \in S /\ k < i /\ i \in Nat /\ k \in Nat
      BY <1>1, <2>2, <2>3
    <3>2. i <= k
      BY <2>2, <3>1
    <3> QED BY <3>1, <3>2
  <2>4. rows[i] \in latest
    BY <1>2, <2>2, <2>3
  <2> QED BY <2>4
<1>8. IsFiniteSet(machines)
  <2> DEFINE T == Fleet!Range(rows)
             g == [r \in T |-> r.machine]
  <2>1. g \in [T -> machines] /\ \A m \in machines : \E r \in T : g[r] = m
    OBVIOUS
  <2> HIDE DEF T, g, machines
  <2>2. IsFiniteSet(T)
    BY <1>1 DEF T
  <2> QED BY <2>1, <2>2, Onto
<1> HIDE DEF f, latest, machines
<1>9. Cardinality(latest) = Cardinality(machines)
  BY <1>5, <1>6, <1>7, <1>8, OneToOne
<1> QED BY <1>3, <1>4, <1>9 DEF latest, machines

(* The machines that are evaluated, fail, and fail for a tool.             *)
Simulated(rows, required) == Fleet!simulate_policy(Fleet!LatestRows(rows), required)

Usable(rows) == {r \in Fleet!LatestRows(rows) : \E t \in DOMAIN r.tools : r.tools[t] # None}

Causes(r, required) == {t \in DOMAIN required : Fleet!Breaks(r.tools, required, t)}

Failing(rows, required) == {r \in Usable(rows) : Causes(r, required) # {}}

Affected(rows, required, t) == {r \in Usable(rows) : t \in Causes(r, required)}

(* What the simulation reports. *)
LEMMA SimulationIs ==
  ASSUME NEW rows, NEW required
  PROVE  LET result == Simulated(rows, required)
         IN /\ result.evaluated = Cardinality(Usable(rows))
            /\ result.unevaluated = Cardinality(Fleet!LatestRows(rows)) - Cardinality(Usable(rows))
            /\ result.failing = Cardinality(Failing(rows, required))
            /\ \A t \in DOMAIN required : result.causes[t] = Cardinality(Affected(rows, required, t))
<1>1. Simulated(rows, required) =
        [ evaluated   |-> Cardinality(Usable(rows)),
          unevaluated |-> Cardinality(Fleet!LatestRows(rows)) - Cardinality(Usable(rows)),
          failing     |-> Cardinality(Failing(rows, required)),
          causes      |-> [t \in DOMAIN required |-> Cardinality(Affected(rows, required, t))] ]
  BY FleetCounts, Zenon DEF Simulated, Fleet!simulate_policy, Usable, Failing, Affected, Causes
<1> QED BY <1>1

(* What it counts is finite. *)
LEMMA FailingIsFinite ==
  ASSUME NEW R, NEW rows \in Seq(R), NEW required
  PROVE  /\ IsFiniteSet(Usable(rows)) /\ IsFiniteSet(Failing(rows, required))
         /\ \A t : IsFiniteSet(Affected(rows, required, t))
<1>1. IsFiniteSet(Usable(rows))
  <2>1. Usable(rows) \subseteq Fleet!LatestRows(rows)
    BY DEF Usable
  <2> QED BY <2>1, LatestRowsAre, FS_Subset
<1>2. IsFiniteSet(Failing(rows, required))
  <2>1. Failing(rows, required) \subseteq Usable(rows)
    BY DEF Failing
  <2> QED BY <1>1, <2>1, FS_Subset
<1>3. ASSUME NEW t PROVE IsFiniteSet(Affected(rows, required, t))
  <2>1. Affected(rows, required, t) \subseteq Usable(rows)
    BY DEF Affected
  <2> QED BY <1>1, <2>1, FS_Subset
<1> QED BY <1>1, <1>2, <1>3

(* Pairs counted tool by tool. *)
LEMMA PairsByTool ==
  ASSUME NEW D, IsFiniteSet(D), NEW F, IsFiniteSet(F), NEW A, \A t \in D : A[t] \subseteq F,
         NEW c, \A t \in D : c[t] = Cardinality(A[t]), \A r \in F : \E t \in D : r \in A[t]
  PROVE  LET sum == Cardinality(UNION {{t} \X (1..c[t]) : t \in D})
         IN Cardinality(F) <= sum /\ sum <= Cardinality(F) * Cardinality(D) /\ sum \in Nat
<1> DEFINE P == {p \in D \X F : p[2] \in A[p[1]]}
           Q == UNION {{t} \X (1..c[t]) : t \in D}
           b == [t \in D |-> CHOOSE g \in [1..c[t] -> A[t]] :
                               /\ \A i, j \in 1..c[t] : g[i] = g[j] => i = j
                               /\ \A r \in A[t] : \E i \in 1..c[t] : g[i] = r]
           h == [q \in Q |-> <<q[1], b[q[1]][q[2]]>>]
<1>1. ASSUME NEW t \in D
      PROVE  /\ b[t] \in [1..c[t] -> A[t]]
             /\ \A i, j \in 1..c[t] : b[t][i] = b[t][j] => i = j
             /\ \A r \in A[t] : \E i \in 1..c[t] : b[t][i] = r
  <2>1. IsFiniteSet(A[t])
    BY FS_Subset
  <2>2. PICK n \in Nat : ExistsBijection(1..n, A[t])
    BY <2>1, FS_NatBijection
  <2>3. c[t] = n
    BY <2>2, FS_CountingElements
  <2>4. PICK g : g \in Bijection(1..n, A[t])
    BY <2>2 DEF ExistsBijection
  <2>5. /\ g \in [1..c[t] -> A[t]]
        /\ \A i, j \in 1..c[t] : g[i] = g[j] => i = j
        /\ \A r \in A[t] : \E i \in 1..c[t] : g[i] = r
    BY <2>3, <2>4 DEF Bijection, Injection, Surjection, IsInjective
  <2>6. b[t] = CHOOSE k \in [1..c[t] -> A[t]] :
                 /\ \A i, j \in 1..c[t] : k[i] = k[j] => i = j
                 /\ \A r \in A[t] : \E i \in 1..c[t] : k[i] = r
    OBVIOUS
  <2> HIDE DEF b
  <2> QED BY <2>5, <2>6
<1> HIDE DEF b
<1>2. \A q : q \in Q <=> \E t \in D : \E i \in 1..c[t] : q = <<t, i>>
  OBVIOUS
<1>3. \A p : p \in P <=> \E t \in D : \E r \in A[t] : p = <<t, r>>
  OBVIOUS
<1> HIDE DEF Q, P
<1>4. \A t \in D : \A i \in 1..c[t] : <<t, i>> \in Q /\ h[<<t, i>>] = <<t, b[t][i]>>
  BY <1>2
<1> HIDE DEF h
<1>5. h \in [Q -> P]
  <2>1. h = [q \in Q |-> h[q]]
    BY DEF h
  <2>2. \A q \in Q : h[q] \in P
    <3> SUFFICES ASSUME NEW t \in D, NEW i \in 1..c[t] PROVE h[<<t, i>>] \in P
      BY <1>2
    <3>1. b[t][i] \in A[t]
      BY <1>1
    <3> QED BY <1>3, <1>4, <3>1
  <2> QED BY <2>1, <2>2
<1>6. \A x, y \in Q : h[x] = h[y] => x = y
  <2> SUFFICES ASSUME NEW t \in D, NEW i \in 1..c[t], NEW u \in D, NEW j \in 1..c[u], h[<<t, i>>] = h[<<u, j>>]
               PROVE  <<t, i>> = <<u, j>>
    BY <1>2
  <2>1. <<t, b[t][i]>> = <<u, b[u][j]>>
    BY <1>4
  <2>2. t = u /\ b[t][i] = b[u][j]
    BY <2>1
  <2>3. i = j
    BY <1>1, <2>2
  <2> QED BY <2>2, <2>3
<1>7. \A p \in P : \E x \in Q : h[x] = p
  <2> SUFFICES ASSUME NEW t \in D, NEW r \in A[t] PROVE \E x \in Q : h[x] = <<t, r>>
    BY <1>3
  <2>1. PICK i \in 1..c[t] : b[t][i] = r
    BY <1>1
  <2>2. <<t, i>> \in Q /\ h[<<t, i>>] = <<t, r>>
    BY <1>4, <2>1
  <2> QED BY <2>2
<1>8. IsFiniteSet(P) /\ Cardinality(P) <= Cardinality(D) * Cardinality(F)
  <2>1. P \subseteq D \X F
    BY DEF P
  <2>2. IsFiniteSet(D \X F) /\ Cardinality(D \X F) = Cardinality(D) * Cardinality(F)
    BY FS_Product
  <2>3. IsFiniteSet(P) /\ Cardinality(P) <= Cardinality(D \X F)
    BY <2>1, <2>2, FS_Subset
  <2> QED BY <2>2, <2>3
<1>9. Cardinality(Q) = Cardinality(P)
  BY <1>5, <1>6, <1>7, <1>8, OneToOne
<1>10. Cardinality(F) <= Cardinality(P)
  <2> DEFINE g == [p \in P |-> p[2]]
  <2>1. g \in [P -> F]
    <3>1. \A p \in P : p[2] \in F
      BY <1>3
    <3> QED BY <3>1
  <2>2. \A r \in F : \E p \in P : g[p] = r
    <3> SUFFICES ASSUME NEW r \in F PROVE \E p \in P : p[2] = r
      OBVIOUS
    <3>1. PICK t \in D : r \in A[t]
      OBVIOUS
    <3>2. <<t, r>> \in P /\ <<t, r>>[2] = r
      BY <1>3, <3>1
    <3> QED BY <3>2
  <2> HIDE DEF g
  <2> QED BY <1>8, <2>1, <2>2, Onto
<1>11. Cardinality(F) \in Nat /\ Cardinality(D) \in Nat /\ Cardinality(P) \in Nat
  BY <1>8, FS_CardinalityType
<1>12. Cardinality(D) * Cardinality(F) = Cardinality(F) * Cardinality(D)
  BY <1>11
<1>13. Cardinality(F) <= Cardinality(Q) /\ Cardinality(Q) <= Cardinality(F) * Cardinality(D) /\ Cardinality(Q) \in Nat
  BY <1>8, <1>9, <1>10, <1>11, <1>12
<1> QED BY <1>13 DEF Q

(* A newer row takes the place of those of its machine.                    *)
LEMMA LatestRowsOfMore ==
  ASSUME NEW R, NEW rows \in Seq(R), NEW x
  PROVE  Fleet!LatestRows(<<x>> \o rows) = {r \in Fleet!LatestRows(rows) : r.machine # x.machine} \cup {x}
<1> DEFINE n   == Len(rows)
           all == <<x>> \o rows
           First(s, i) == \A k \in 1..(i - 1) : s[k].machine # s[i].machine
<1>1. /\ n \in Nat /\ Len(all) = n + 1 /\ all[1] = x
      /\ \A i \in 1..n : all[i + 1] = rows[i]
  <2>1. <<x>> \in Seq({x} \cup R) /\ rows \in Seq({x} \cup R) /\ Len(<<x>>) = 1
    OBVIOUS
  <2> QED BY <2>1
<1>2. Fleet!LatestRows(rows) = {rows[i] : i \in {j \in 1..n : First(rows, j)}}
  BY DEF Fleet!LatestRows
<1>3. Fleet!LatestRows(all) = {all[i] : i \in {j \in 1..Len(all) : First(all, j)}}
  BY DEF Fleet!LatestRows
<1> HIDE DEF all, n
<1>4. 1 \in 1..Len(all) /\ First(all, 1)
  BY <1>1
<1>5. ASSUME NEW i \in 1..n
      PROVE  i + 1 \in 1..Len(all) /\ (First(all, i + 1) <=> First(rows, i) /\ x.machine # rows[i].machine)
  <2>1. i + 1 \in 1..Len(all) /\ (i + 1) - 1 = i /\ 1 \in 1..i /\ all[i + 1] = rows[i]
    BY <1>1
  <2>2. \A k \in 1..(i - 1) : k + 1 \in 1..i /\ all[k + 1] = rows[k]
    BY <1>1
  <2>3. \A k \in 1..i : k = 1 \/ (k - 1 \in 1..(i - 1) /\ all[k] = rows[k - 1])
    <3> SUFFICES ASSUME NEW k \in 1..i, k # 1 PROVE k - 1 \in 1..(i - 1) /\ all[k] = rows[k - 1]
      OBVIOUS
    <3>1. k - 1 \in 1..(i - 1) /\ k - 1 \in 1..n /\ (k - 1) + 1 = k
      BY <1>1
    <3> QED BY <1>1, <3>1
  <2>4. First(all, i + 1) <=> \A k \in 1..i : all[k].machine # rows[i].machine
    BY <2>1
  <2> QED BY <1>1, <2>1, <2>2, <2>3, <2>4
<1>6. \A i \in 1..Len(all) : i = 1 \/ (i - 1 \in 1..n /\ (i - 1) + 1 = i)
  BY <1>1
<1> HIDE DEF First
<1>7. ASSUME NEW r \in Fleet!LatestRows(all)
      PROVE  r = x \/ (r \in Fleet!LatestRows(rows) /\ r.machine # x.machine)
  <2>1. PICK i \in 1..Len(all) : First(all, i) /\ r = all[i]
    BY <1>3
  <2>2. CASE i = 1
    BY <1>1, <2>1, <2>2
  <2>3. CASE i - 1 \in 1..n /\ (i - 1) + 1 = i
    <3> DEFINE j == i - 1
    <3>1. j \in 1..n /\ j + 1 = i
      BY <2>3
    <3> HIDE DEF j
    <3>2. r = rows[j] /\ First(rows, j) /\ x.machine # rows[j].machine
      BY <1>1, <1>5, <2>1, <3>1
    <3> QED BY <1>2, <3>1, <3>2
  <2> QED BY <1>6, <2>2, <2>3
<1>8. x \in Fleet!LatestRows(all)
  BY <1>1, <1>3, <1>4
<1>9. ASSUME NEW r \in Fleet!LatestRows(rows), r.machine # x.machine
      PROVE  r \in Fleet!LatestRows(all)
  <2>1. PICK i \in 1..n : First(rows, i) /\ r = rows[i]
    BY <1>2
  <2>2. i + 1 \in 1..Len(all) /\ First(all, i + 1) /\ all[i + 1] = r
    BY <1>1, <1>5, <1>9, <2>1
  <2> QED BY <1>3, <2>2
<1> QED BY <1>7, <1>8, <1>9 DEF all

(* Of rows that are read: each machine is counted once, each failure has a *)
(* cause and each cause a failure, and strictness costs.                   *)
LEMMA SimulationCounts ==
  ASSUME NEW R, NEW rows \in Seq(R), NEW required, NEW stricter, IsFiniteSet(DOMAIN required)
  PROVE  LET result == Simulated(rows, required)
             sum    == Cardinality(UNION {{t} \X (1..result.causes[t]) : t \in DOMAIN required})
         IN /\ result.evaluated + result.unevaluated = Cardinality({r.machine : r \in Fleet!Range(rows)})
            /\ result.failing <= sum /\ sum <= result.failing * Cardinality(DOMAIN required)
            /\ (\A t \in DOMAIN required : t \in DOMAIN stricter /\ stricter[t] \subseteq required[t]) =>
                 Simulated(rows, stricter).failing >= result.failing
<1> DEFINE result == Simulated(rows, required)
           D      == DOMAIN required
           sum    == Cardinality(UNION {{t} \X (1..result.causes[t]) : t \in D})
<1>1. result.evaluated + result.unevaluated = Cardinality({r.machine : r \in Fleet!Range(rows)})
  <2>1. Cardinality(Usable(rows)) \in Nat /\ Cardinality(Fleet!LatestRows(rows)) \in Nat
    BY FailingIsFinite, LatestRowsAre, FS_CardinalityType
  <2>2. /\ result.evaluated = Cardinality(Usable(rows))
        /\ result.unevaluated = Cardinality(Fleet!LatestRows(rows)) - Cardinality(Usable(rows))
    BY SimulationIs
  <2>3. Cardinality(Fleet!LatestRows(rows)) = Cardinality({r.machine : r \in Fleet!Range(rows)})
    BY LatestRowsAre
  <2> HIDE DEF result
  <2> QED BY <2>1, <2>2, <2>3
<1>2. result.failing <= sum /\ sum <= result.failing * Cardinality(D)
  <2> DEFINE F == Failing(rows, required)
             A == [t \in D |-> Affected(rows, required, t)]
             c == result.causes
  <2>1. IsFiniteSet(F) /\ IsFiniteSet(D)
    BY FailingIsFinite
  <2>2. \A t \in D : A[t] \subseteq F
    BY DEF Affected, Failing
  <2>3. \A t \in D : c[t] = Cardinality(A[t])
    BY SimulationIs
  <2>4. \A r \in F : \E t \in D : r \in A[t]
    BY DEF Affected, Failing, Causes
  <2>5. result.failing = Cardinality(F)
    BY SimulationIs
  <2>6. Cardinality(F) <= sum /\ sum <= Cardinality(F) * Cardinality(D)
    <3>1. sum = Cardinality(UNION {{t} \X (1..c[t]) : t \in D})
      OBVIOUS
    <3> HIDE DEF F, A, c, D, result, sum
    <3> QED BY <2>1, <2>2, <2>3, <2>4, <3>1, PairsByTool
  <2> HIDE DEF sum
  <2> QED BY <2>5, <2>6
<1>3. ASSUME \A t \in D : t \in DOMAIN stricter /\ stricter[t] \subseteq required[t]
      PROVE  Simulated(rows, stricter).failing >= result.failing
  <2>1. Failing(rows, required) \subseteq Failing(rows, stricter)
    BY <1>3 DEF Failing, Causes, Fleet!Breaks
  <2>2. Cardinality(Failing(rows, required)) <= Cardinality(Failing(rows, stricter))
    BY <2>1, FailingIsFinite, FS_Subset
  <2>3. /\ Simulated(rows, stricter).failing = Cardinality(Failing(rows, stricter))
        /\ result.failing = Cardinality(Failing(rows, required))
    BY SimulationIs
  <2>4. Cardinality(Failing(rows, stricter)) \in Nat /\ Cardinality(Failing(rows, required)) \in Nat
    BY FailingIsFinite, FS_CardinalityType
  <2> HIDE DEF result
  <2> QED BY <2>2, <2>3, <2>4
<1> QED BY <1>1, <1>2, <1>3

(* A version it cannot read never adds a failure. *)
LEMMA UnreadNeverFails ==
  ASSUME NEW R, NEW rows \in Seq(R), NEW row \in R, NEW required,
         DOMAIN required \subseteq DOMAIN row.tools,
         row = [machine |-> row.machine, tools |-> row.tools], None # Unreadable
  PROVE  LET unread == [t \in DOMAIN row.tools |-> IF row.tools[t] = None THEN None ELSE Unreadable]
         IN Simulated(<<[row EXCEPT !.tools = unread]>> \o rows, required).failing
              <= Simulated(<<row>> \o rows, required).failing
<1> DEFINE D      == DOMAIN required
           unread == [t \in DOMAIN row.tools |-> IF row.tools[t] = None THEN None ELSE Unreadable]
           blind  == [row EXCEPT !.tools = unread]
           rest   == {r \in Fleet!LatestRows(rows) : r.machine # row.machine}
           Fails(r) == (\E t \in DOMAIN r.tools : r.tools[t] # None) /\ Causes(r, required) # {}
           G      == {r \in rest : Fails(r)}
<1>1. blind.machine = row.machine /\ blind.tools = unread
  <2>1. row = [machine |-> row.machine, tools |-> row.tools]
    OBVIOUS
  <2> QED BY <2>1, Zenon
<1>2. ASSUME NEW x, x.machine = row.machine
      PROVE  Failing(<<x>> \o rows, required) = G \cup {r \in {x} : Fails(r)}
  <2>1. Fleet!LatestRows(<<x>> \o rows) = rest \cup {x}
    <3> SUFFICES Fleet!LatestRows(<<x>> \o rows) = {r \in Fleet!LatestRows(rows) : r.machine # x.machine} \cup {x}
      BY <1>2
    <3> QED BY LatestRowsOfMore
  <2> HIDE DEF rest
  <2> QED BY <2>1 DEF Failing, Usable
<1>3. IsFiniteSet(G) /\ Cardinality(G) \in Nat
  <2>1. G \subseteq Fleet!LatestRows(rows)
    OBVIOUS
  <2> QED BY <2>1, LatestRowsAre, FS_Subset, FS_CardinalityType
<1>4. Fails(blind) => Fails(row)
  <2> SUFFICES ASSUME Fails(blind) PROVE Fails(row)
    OBVIOUS
  <2>1. DOMAIN unread = DOMAIN row.tools /\
        \A t \in DOMAIN row.tools : unread[t] = IF row.tools[t] = None THEN None ELSE Unreadable
    OBVIOUS
  <2> HIDE DEF unread, blind
  <2>2. \E t \in DOMAIN row.tools : row.tools[t] # None
    BY <1>1, <2>1
  <2>3. PICK t \in D : Fleet!Breaks(unread, required, t)
    BY <1>1 DEF Causes
  <2>4. row.tools[t] = None /\ unread[t] = None
    BY <2>1, <2>3 DEF Fleet!Breaks
  <2>5. Fleet!Breaks(row.tools, required, t)
    BY <2>3, <2>4 DEF Fleet!Breaks
  <2> QED BY <2>2, <2>5 DEF Causes
<1> HIDE DEF Fails, blind, G
<1>5. row \notin G /\ blind \notin G
  BY <1>1 DEF G
<1>6. Cardinality(Failing(<<blind>> \o rows, required)) <= Cardinality(Failing(<<row>> \o rows, required))
  <2>1. /\ Failing(<<blind>> \o rows, required) = G \cup {r \in {blind} : Fails(r)}
        /\ Failing(<<row>> \o rows, required) = G \cup {r \in {row} : Fails(r)}
    BY <1>1, <1>2
  <2>2. /\ Cardinality(G \cup {row}) = Cardinality(G) + 1
        /\ Cardinality(G \cup {blind}) = Cardinality(G) + 1
    BY <1>3, <1>5, FS_AddElement
  <2>5. /\ Cardinality(G) <= Cardinality(G) /\ Cardinality(G) <= Cardinality(G) + 1
        /\ Cardinality(G) + 1 <= Cardinality(G) + 1
    BY <1>3
  <2>3. CASE Fails(blind)
    <3>1. /\ Failing(<<blind>> \o rows, required) = G \cup {blind}
          /\ Failing(<<row>> \o rows, required) = G \cup {row}
      BY <1>4, <2>1, <2>3
    <3> QED BY <2>2, <2>5, <3>1, Zenon
  <2>4. CASE ~Fails(blind)
    <3>1. Failing(<<blind>> \o rows, required) = G
      BY <2>1, <2>4
    <3>2. Failing(<<row>> \o rows, required) = G \/ Failing(<<row>> \o rows, required) = G \cup {row}
      BY <2>1
    <3> QED BY <2>2, <2>5, <3>1, <3>2, Zenon
  <2> QED BY <2>3, <2>4
<1> QED BY <1>6, SimulationIs DEF blind

(* A newer row takes the place of the oldest that is read.                 *)
LEMMA FactsOfMore ==
  ASSUME NEW R, NEW stored \in Seq(R), FactsLimit \in Nat \ {0}
  PROVE  \E rest \in Seq(R) : \A x : Fleet!snapshot_facts(<<x>> \o stored) = <<x>> \o rest
<1> DEFINE n    == Len(stored)
           k    == IF n < FactsLimit THEN n ELSE FactsLimit - 1
           rest == SubSeq(stored, 1, k)
<1>1. n \in Nat /\ k \in 0..n
  OBVIOUS
<1>2. rest \in Seq(R) /\ Len(rest) = k /\ \A i \in 1..k : rest[i] = stored[i]
  <2> HIDE DEF k
  <2> QED BY <1>1
<1>3. ASSUME NEW x PROVE Fleet!snapshot_facts(<<x>> \o stored) = <<x>> \o rest
  <2> DEFINE Q     == R \cup {x}
             all   == <<x>> \o stored
             known == SubSeq(all, 1, k + 1)
             other == <<x>> \o rest
  <2>1. /\ all \in Seq(Q) /\ Len(all) = n + 1 /\ all[1] = x
        /\ \A i \in 1..n : all[i + 1] = stored[i]
    <3>1. <<x>> \in Seq(Q) /\ stored \in Seq(Q) /\ Len(<<x>>) = 1
      OBVIOUS
    <3> QED BY <1>1, <3>1
  <2>2. Fleet!snapshot_facts(all) = known
    <3>1. (IF Len(all) < FactsLimit THEN Len(all) ELSE FactsLimit) = k + 1
      <4> HIDE DEF all
      <4> QED BY <1>1, <2>1
    <3> HIDE DEF all, k
    <3> QED BY <3>1 DEF Fleet!snapshot_facts
  <2> HIDE DEF k, n
  <2>3. /\ other \in Seq(Q) /\ Len(other) = k + 1 /\ other[1] = x
        /\ \A i \in 1..k : other[i + 1] = rest[i]
    <3>1. <<x>> \in Seq(Q) /\ rest \in Seq(Q) /\ Len(<<x>>) = 1
      BY <1>2
    <3> HIDE DEF rest
    <3> QED BY <1>1, <1>2, <3>1
  <2> HIDE DEF all, other, rest
  <2>4. known \in Seq(Q) /\ Len(known) = k + 1 /\ \A i \in 1..(k + 1) : known[i] = all[i]
    BY <1>1, <2>1
  <2> HIDE DEF known
  <2>5. ASSUME NEW i \in 1..(k + 1) PROVE known[i] = other[i]
    <3>1. CASE i = 1
      BY <1>1, <2>1, <2>3, <2>4, <3>1
    <3>2. CASE i # 1
      <4>1. i - 1 \in 1..k /\ i - 1 \in 1..n /\ (i - 1) + 1 = i
        BY <1>1, <3>2
      <4>2. all[(i - 1) + 1] = stored[i - 1] /\ other[(i - 1) + 1] = rest[i - 1] /\ rest[i - 1] = stored[i - 1]
        BY <1>2, <2>1, <2>3, <4>1
      <4> QED BY <2>4, <4>1, <4>2
    <3> QED BY <3>1, <3>2
  <2>6. known = other
    BY <2>3, <2>4, <2>5
  <2> QED BY <2>2, <2>6 DEF all, other
<1> QED BY <1>2, <1>3

(* The latest row of a machine among the newest is its latest of all.      *)
LEMMA LatestOfFacts ==
  ASSUME NEW R, NEW stored \in Seq(R), FactsLimit \in Nat
  PROVE  Fleet!LatestRows(Fleet!snapshot_facts(stored)) \subseteq Fleet!LatestRows(stored)
<1> DEFINE known == Fleet!snapshot_facts(stored)
<1>1. /\ Len(known) \in Nat /\ \A i \in 1..Len(known) : i \in 1..Len(stored) /\ known[i] = stored[i]
  BY FactsAre
<1> HIDE DEF known
<1> SUFFICES ASSUME NEW i \in 1..Len(known), \A k \in 1..(i - 1) : known[k].machine # known[i].machine
             PROVE  known[i] \in Fleet!LatestRows(stored)
  BY DEF Fleet!LatestRows, known
<1>2. \A k \in 1..(i - 1) : k \in 1..Len(known)
  BY <1>1
<1>3. i \in 1..Len(stored) /\ \A k \in 1..(i - 1) : stored[k].machine # stored[i].machine
  BY <1>1, <1>2
<1> QED BY <1>1, <1>3 DEF Fleet!LatestRows

(* The simulation counts each machine that has a row among the newest once *)
(* and by its latest report, what is not among them never adds a failure,  *)
(* a version it cannot read does not, each failure has a cause and each    *)
(* cause a failure, and strictness costs.                                  *)
LEMMA SimulationIsHonestFor ==
  ASSUME NEW R, NEW stored \in Seq(R), NEW row \in R, NEW required, NEW stricter,
         IsFiniteSet(DOMAIN required), DOMAIN required \subseteq DOMAIN row.tools,
         row = [machine |-> row.machine, tools |-> row.tools], None # Unreadable,
         FactsLimit \in Nat \ {0}
  PROVE  Fleet!SimulationIsHonestAt(stored, required, stricter, row)
<1> DEFINE known  == Fleet!snapshot_facts(stored)
           more   == <<row>> \o stored
           newest == Fleet!snapshot_facts(more)
           result == Fleet!SimulationPage(stored, required)
           unread == [t \in DOMAIN row.tools |-> IF row.tools[t] = None THEN None ELSE Unreadable]
           blind  == [row EXCEPT !.tools = unread]
<1>1. \A s, r : Fleet!SimulationPage(s, r) = Simulated(Fleet!snapshot_facts(s), r)
  BY DEF Fleet!SimulationPage, Simulated
<1>2. known \in Seq(R) /\ more \in Seq(R)
  <2>1. known \in Seq(R)
    BY FactsAre
  <2> QED BY <2>1
<1>3. result = Simulated(known, required) /\ Fleet!SimulationPage(stored, stricter) = Simulated(known, stricter)
  BY <1>1
<1>4. LET sum == Cardinality(UNION {{t} \X (1..result.causes[t]) : t \in DOMAIN required})
      IN /\ result.evaluated + result.unevaluated = Cardinality({r.machine : r \in Fleet!Range(known)})
         /\ result.failing <= sum /\ sum <= result.failing * Cardinality(DOMAIN required)
         /\ (\A t \in DOMAIN required : t \in DOMAIN stricter /\ stricter[t] \subseteq required[t]) =>
              Fleet!SimulationPage(stored, stricter).failing >= result.failing
  <2> DEFINE counts == Simulated(known, required)
             sum    == Cardinality(UNION {{t} \X (1..counts.causes[t]) : t \in DOMAIN required})
  <2> HIDE DEF known
  <2>1. /\ counts.evaluated + counts.unevaluated = Cardinality({r.machine : r \in Fleet!Range(known)})
        /\ counts.failing <= sum /\ sum <= counts.failing * Cardinality(DOMAIN required)
        /\ (\A t \in DOMAIN required : t \in DOMAIN stricter /\ stricter[t] \subseteq required[t]) =>
             Simulated(known, stricter).failing >= counts.failing
    BY <1>2, SimulationCounts
  <2> HIDE DEF result
  <2> QED BY <1>3, <2>1, Zenon
<1>5. Fleet!SimulationPage(more, required).failing <= Simulated(more, required).failing
  <2>1. newest \in Seq(R) /\ Fleet!LatestRows(newest) \subseteq Fleet!LatestRows(more)
    <3> HIDE DEF more
    <3> QED BY <1>2, FactsAre, LatestOfFacts
  <2> HIDE DEF newest, more
  <2>2. Failing(newest, required) \subseteq Failing(more, required)
    BY <2>1 DEF Failing, Usable
  <2>3. IsFiniteSet(Failing(more, required))
    BY <1>2, FailingIsFinite
  <2>4. Cardinality(Failing(newest, required)) <= Cardinality(Failing(more, required))
    BY <2>2, <2>3, FS_Subset
  <2>5. /\ Simulated(newest, required).failing = Cardinality(Failing(newest, required))
        /\ Simulated(more, required).failing = Cardinality(Failing(more, required))
    BY SimulationIs
  <2>6. Fleet!SimulationPage(more, required) = Simulated(newest, required)
    BY <1>1 DEF newest
  <2> QED BY <2>4, <2>5, <2>6
<1>6. Fleet!SimulationPage(<<blind>> \o stored, required).failing
        <= Fleet!SimulationPage(more, required).failing
  <2>1. PICK rest \in Seq(R) : \A x : Fleet!snapshot_facts(<<x>> \o stored) = <<x>> \o rest
    BY FactsOfMore
  <2>2. Simulated(<<blind>> \o rest, required).failing <= Simulated(<<row>> \o rest, required).failing
    BY UnreadNeverFails
  <2> HIDE DEF blind, unread
  <2>3. /\ Fleet!SimulationPage(<<blind>> \o stored, required) = Simulated(<<blind>> \o rest, required)
        /\ Fleet!SimulationPage(more, required) = Simulated(<<row>> \o rest, required)
    BY <1>1, <2>1
  <2> QED BY <2>2, <2>3
<1> HIDE DEF known, result
<1>7. Simulated(more, required) = Fleet!simulate_policy(Fleet!LatestRows(more), required)
  BY DEF Simulated
<1> QED BY <1>4, <1>5, <1>6, <1>7, FleetCounts, Zenon DEF Fleet!SimulationIsHonestAt, known, result

-----------------------------------------------------------------------------
(* Sequences of sequences.                                                 *)

(* The elements of a sequence, and of all the sequences of a sequence.     *)
ElementsOf(s) == {s[i] : i \in 1..Len(s)}

ElementsOfAll(ss) == UNION {ElementsOf(ss[i]) : i \in 1..Len(ss)}

LEMMA ConcatElements ==
  ASSUME NEW T, NEW s \in Seq(T), NEW t \in Seq(T)
  PROVE  s \o t \in Seq(T) /\ ElementsOf(s \o t) = ElementsOf(s) \cup ElementsOf(t)
<1> DEFINE m == Len(s)
           n == Len(t)
           u == s \o t
<1>1. m \in Nat /\ n \in Nat
  OBVIOUS
<1>2. u \in Seq(T) /\ Len(u) = m + n /\ \A i \in 1..(m + n) : u[i] = IF i <= m THEN s[i] ELSE t[i - m]
  BY ConcatProperties
<1> HIDE DEF u, m, n
<1>3. \A i \in 1..m : i \in 1..(m + n) /\ u[i] = s[i]
  BY <1>1, <1>2
<1>4. \A i \in 1..n : m + i \in 1..(m + n) /\ u[m + i] = t[i]
  BY <1>1, <1>2
<1>5. \A i \in 1..(m + n) : i \in 1..m \/ (i - m \in 1..n /\ i = m + (i - m))
  BY <1>1
<1>6. {u[i] : i \in 1..(m + n)} = {s[i] : i \in 1..m} \cup {t[i] : i \in 1..n}
  <2>1. \A i \in 1..(m + n) : u[i] \in {s[j] : j \in 1..m} \cup {t[j] : j \in 1..n}
    BY <1>3, <1>4, <1>5
  <2>2. \A i \in 1..m : s[i] \in {u[j] : j \in 1..(m + n)}
    BY <1>3
  <2>3. \A i \in 1..n : t[i] \in {u[j] : j \in 1..(m + n)}
    BY <1>4
  <2> QED BY <2>1, <2>2, <2>3
<1> QED BY <1>2, <1>6 DEF ElementsOf, u, m, n

LEMMA FlattenKeepsElements ==
  ASSUME NEW T, NEW ss \in Seq(Seq(T))
  PROVE  Agent!FlattenSeq(ss) \in Seq(T) /\ ElementsOf(Agent!FlattenSeq(ss)) = ElementsOfAll(ss)
<1> DEFINE n == Len(ss)
           D == 1..n
           Loop(f) == f = [i \in D |-> IF i = 1 THEN ss[i] ELSE f[i - 1] \o ss[i]]
           f0 == CHOOSE f : Loop(f)
<1>1. n \in Nat /\ \A i \in 1..n : ss[i] \in Seq(T)
  OBVIOUS
<1>2. CASE n = 0
  <2>1. ss = <<>>
    BY <1>2
  <2>2. Agent!FlattenSeq(ss) = ss
    BY <1>2, Zenon DEF Agent!FlattenSeq
  <2>3. <<>> \in Seq(T) /\ ElementsOf(<<>>) = {} /\ ElementsOfAll(<<>>) = {}
    BY DEF ElementsOf, ElementsOfAll
  <2> QED BY <2>1, <2>2, <2>3
<1>3. CASE n # 0
  <2>1. Agent!FlattenSeq(ss) = f0[n]
    BY <1>1, <1>3, Zenon DEF Agent!FlattenSeq
  <2> HIDE DEF n
  <2>2. PICK f : Loop(f)
    <3> DEFINE A == Seq(T)
               G == [p \in Nat \X A |-> IF p[1] + 2 \in 1..n THEN p[2] \o ss[p[1] + 2] ELSE p[2]]
    <3>1. ASSUME NEW k \in Nat, NEW a \in A
          PROVE  G[<<k, a>>] = (IF k + 2 \in 1..n THEN a \o ss[k + 2] ELSE a) /\ G[<<k, a>>] \in A
      <4>1. k + 2 \in 1..n => a \o ss[k + 2] \in Seq(T)
        BY <1>1, ConcatProperties
      <4> QED BY <4>1
    <3>2. ss[1] \in A /\ 1 \in 1..n
      BY <1>1, <1>3
    <3>3. G \in StepFunctions(A)
      BY <3>1 DEF StepFunctions
    <3> HIDE DEF A, G
    <3>4. PICK r : Recursion(r, A, ss[1], G)
      BY <3>2, <3>3, RecursiveFunction, Zenon
    <3>5. /\ r \in [Nat -> A] /\ r[0] = ss[1]
          /\ \A k \in Nat : r[k + 1] = G[<<k, r[k]>>]
      BY <3>4 DEF Recursion
    <3>6. ASSUME NEW i \in 2..n PROVE r[i - 1] = r[i - 2] \o ss[i]
      <4>1. i - 2 \in Nat /\ (i - 2) + 1 = i - 1 /\ (i - 2) + 2 = i /\ i \in 1..n
        BY <1>1
      <4>2. r[i - 2] \in A
        BY <3>5, <4>1
      <4> DEFINE k == i - 2
      <4>3. k \in Nat /\ k + 1 = i - 1 /\ k + 2 = i /\ i \in 1..n
        BY <4>1
      <4> HIDE DEF k
      <4>4. r[k + 1] = G[<<k, r[k]>>] /\ r[k] \in A
        BY <3>5, <4>3
      <4>5. G[<<k, r[k]>>] = r[k] \o ss[k + 2]
        BY <3>1, <4>3, <4>4
      <4> QED BY <4>3, <4>4, <4>5 DEF k
    <3> DEFINE g == [i \in 1..n |-> r[i - 1]]
    <3>7. ASSUME NEW i \in 1..n PROVE g[i] = IF i = 1 THEN ss[i] ELSE g[i - 1] \o ss[i]
      <4>1. CASE i = 1
        BY <3>5, <4>1
      <4>2. CASE i # 1
        <5>1. i \in 2..n /\ i - 1 \in 1..n /\ (i - 1) - 1 = i - 2
          BY <1>1, <4>2
        <5> QED BY <3>6, <4>2, <5>1
      <4> QED BY <4>1, <4>2
    <3>8. Loop(g)
      BY <3>7
    <3> QED BY <3>8
  <2>3. Loop(f0)
    <3> HIDE DEF Loop
    <3> QED BY <2>2, Zenon
  <2>4. f0[1] = ss[1] /\ \A i \in 2..n : f0[i] = f0[i - 1] \o ss[i]
    <3>1. 1 \in 1..n /\ \A i \in 2..n : i \in 1..n /\ i # 1
      BY <1>1, <1>3
    <3> HIDE DEF f0
    <3> QED BY <2>3, <3>1
  <2> HIDE DEF f0
  <2> DEFINE Upto(k) == UNION {ElementsOf(ss[i]) : i \in 1..k}
             E == {k \in Nat : k + 1 <= n => f0[k + 1] \in Seq(T) /\ ElementsOf(f0[k + 1]) = Upto(k + 1)}
  <2>5. 0 \in E
    <3>1. 0 + 1 = 1 /\ 1..1 = {1} /\ 1 \in 1..n
      BY <1>1, <1>3
    <3>2. Upto(1) = ElementsOf(ss[1])
      BY <3>1
    <3> HIDE DEF Upto
    <3>3. f0[1] \in Seq(T) /\ ElementsOf(f0[1]) = Upto(1)
      BY <1>1, <2>4, <3>1, <3>2
    <3> QED BY <3>1, <3>3
  <2>6. ASSUME NEW k \in Nat, k \in E PROVE k + 1 \in E
    <3> SUFFICES ASSUME (k + 1) + 1 <= n
                 PROVE  f0[(k + 1) + 1] \in Seq(T) /\ ElementsOf(f0[(k + 1) + 1]) = Upto((k + 1) + 1)
      OBVIOUS
    <3> DEFINE j == (k + 1) + 1
    <3>1. j \in 2..n /\ j \in 1..n /\ j - 1 = k + 1 /\ k + 1 <= n /\ 1..j = (1..(k + 1)) \cup {j}
      BY <1>1
    <3>2. f0[k + 1] \in Seq(T) /\ ElementsOf(f0[k + 1]) = Upto(k + 1)
      BY <2>6, <3>1
    <3>3. f0[j] = f0[k + 1] \o ss[j] /\ ss[j] \in Seq(T)
      BY <1>1, <2>4, <3>1
    <3> HIDE DEF j
    <3>4. f0[j] \in Seq(T) /\ ElementsOf(f0[j]) = Upto(k + 1) \cup ElementsOf(ss[j])
      BY <3>2, <3>3, ConcatElements
    <3>5. Upto(j) = Upto(k + 1) \cup ElementsOf(ss[j])
      BY <3>1
    <3> QED BY <3>4, <3>5 DEF j
  <2>7. f0[n] \in Seq(T) /\ ElementsOf(f0[n]) = Upto(n)
    <3>1. Nat \subseteq E
      <4> HIDE DEF E
      <4> QED BY <2>5, <2>6, Induction
    <3>2. n - 1 \in Nat /\ (n - 1) + 1 = n /\ n <= n
      BY <1>1, <1>3
    <3>3. n - 1 \in E
      BY <3>1, <3>2
    <3> HIDE DEF Upto
    <3> QED BY <3>2, <3>3
  <2> QED BY <2>1, <2>7 DEF ElementsOfAll, n
<1> QED BY <1>2, <1>3

-----------------------------------------------------------------------------
(* The gates.                                                              *)

(* One more kind of change looks at no less.                               *)
LEMMA MoreKindsLookAtMore ==
  ASSUME NEW kinds, NEW more, kinds \subseteq more, more \subseteq Gates!Kinds, NEW finding,
         kinds # {}, Gates!Relevant(finding, Gates!relevant_rule_prefixes(kinds))
  PROVE  Gates!Relevant(finding, Gates!relevant_rule_prefixes(more))
<1> DEFINE prefixes(K) == UNION {Gates!RELEVANT_PREFIXES[k] : k \in K}
           Reopened(K) == \E k \in K : Gates!RELEVANT_PREFIXES[k] = {}
<1>1. CASE Reopened(more)
  BY <1>1 DEF Gates!Relevant, Gates!relevant_rule_prefixes
<1>2. CASE ~Reopened(more)
  <2>1. ~Reopened(kinds)
    BY <1>2
  <2>2. /\ Gates!relevant_rule_prefixes(kinds) = prefixes(kinds)
        /\ Gates!relevant_rule_prefixes(more) = prefixes(more)
    BY <1>2, <2>1 DEF Gates!relevant_rule_prefixes
  <2>3. None \notin prefixes(kinds)
    BY GuardedAssumption
  <2>4. prefixes(kinds) # Gates!Everything
    BY <2>3 DEF Gates!Everything
  <2>5. finding.pack \in prefixes(kinds)
    BY <2>2, <2>4 DEF Gates!Relevant
  <2>6. prefixes(kinds) \subseteq prefixes(more)
    OBVIOUS
  <2> QED BY <2>2, <2>5, <2>6 DEF Gates!Relevant
<1> QED BY <1>1, <1>2

LEMMA GuardOfAChange ==
  ASSUME NEW found, NEW kinds
  PROVE  Gates!guard(found, "changed", kinds) = "BLOCKED" <=>
           /\ kinds # {}
           /\ \E f \in Gates!Blocking(found) :
                Gates!Relevant(f, Gates!relevant_rule_prefixes(kinds))
  BY Zenon DEF Gates!guard

LEMMA GuardOfAMachine ==
  ASSUME NEW found, NEW kinds
  PROVE  /\ Gates!guard(found, "machine", kinds) \in {"BLOCKED", "READY"}
         /\ Gates!guard(found, "machine", kinds) = "BLOCKED" <=> Gates!Blocking(found) # {}
  BY Zenon DEF Gates!guard

LEMMA GuardKeepsBlocking ==
  ASSUME NEW found, NEW kinds, NEW more, kinds \subseteq more, more \subseteq Gates!Kinds,
         Gates!guard(found, "changed", kinds) = "BLOCKED"
  PROVE  Gates!guard(found, "changed", more) = "BLOCKED"
  BY GuardOfAChange, MoreKindsLookAtMore

LEMMA WorstStateIs ==
  ASSUME NEW found, \A f \in found : f.state \in {Gates!Order[i] : i \in 1..6}
  PROVE  LET states == {f.state : f \in found}
             worst  == Gates!worst_state(found)
         IN /\ states = {} => worst = "PASS"
            /\ states # {} => worst \in states
            /\ states \cap {"BLOCKED", "ERROR"} # {} => worst \in {"BLOCKED", "ERROR"}
            /\ states \cap {"BLOCKED", "ERROR"} = {} /\ states \cap {"WARN", "UNKNOWN"} # {} =>
                 worst \in {"WARN", "UNKNOWN"}
<1> DEFINE states == {f.state : f \in found}
           worst  == Gates!worst_state(found)
           First(i) == Gates!Order[i] \in states /\ \A j \in 1..(i - 1) : Gates!Order[j] \notin states
<1> SUFFICES /\ states = {} => worst = "PASS"
             /\ states # {} => worst \in states
             /\ states \cap {"BLOCKED", "ERROR"} # {} => worst \in {"BLOCKED", "ERROR"}
             /\ states \cap {"BLOCKED", "ERROR"} = {} /\ states \cap {"WARN", "UNKNOWN"} # {} =>
                  worst \in {"WARN", "UNKNOWN"}
  BY Zenon
<1>1. CASE states = {}
  BY <1>1 DEF Gates!worst_state
<1>2. CASE states # {}
  <2>1. \E i \in 1..6 : Gates!Order[i] \in states
    BY <1>2
  <2>2. \E i \in 1..6 : First(i)
    <3> DEFINE Places == {i \in 1..6 : Gates!Order[i] \in states}
    <3>1. Places # {} /\ Places \subseteq Nat
      BY <2>1
    <3>2. PICK i \in Places : \A j \in Places : i <= j
      <4> HIDE DEF Places
      <4> QED BY <3>1, LeastNumber
    <3>3. \A j \in 1..(i - 1) : j \in 1..6 /\ ~(i <= j)
      BY <3>2
    <3> HIDE DEF states
    <3> QED BY <3>2, <3>3
  <2>3. worst = Gates!Order[CHOOSE i \in 1..6 : First(i)]
    BY <1>2 DEF Gates!worst_state
  <2>4. PICK i \in 1..6 : First(i) /\ worst = Gates!Order[i]
    BY <2>2, <2>3
  <2>5. worst \in states /\ \A j \in 1..(i - 1) : Gates!Order[j] \notin states
    BY <2>4
  <2>6. /\ Gates!Order[1] = "BLOCKED" /\ Gates!Order[2] = "ERROR" /\ Gates!Order[3] = "WARN"
        /\ Gates!Order[4] = "UNKNOWN" /\ Gates!Order[5] = "INFO" /\ Gates!Order[6] = "PASS"
    BY DEF Gates!Order
  <2>7. i \in {3, 4, 5, 6} => "BLOCKED" \notin states /\ "ERROR" \notin states
    BY <2>5, <2>6
  <2>8. i \in {5, 6} => "WARN" \notin states /\ "UNKNOWN" \notin states
    BY <2>5, <2>6
  <2>9. i \in {1, 2, 3, 4, 5, 6}
    OBVIOUS
  <2>10. \/ i \in {1, 2} /\ worst \in {"BLOCKED", "ERROR"}
         \/ i \in {3, 4} /\ worst \in {"WARN", "UNKNOWN"}
         \/ i \in {5, 6}
    BY <2>4, <2>6, <2>9
  <2>11. states \cap {"BLOCKED", "ERROR"} # {} => worst \in {"BLOCKED", "ERROR"}
    <3> HIDE DEF states, worst
    <3> QED BY <2>7, <2>10
  <2>12. states \cap {"WARN", "UNKNOWN"} # {} => worst \in {"BLOCKED", "ERROR", "WARN", "UNKNOWN"}
    <3> HIDE DEF states, worst
    <3> QED BY <2>8, <2>10
  <2>13. states \cap {"BLOCKED", "ERROR"} = {} /\ states \cap {"WARN", "UNKNOWN"} # {} =>
           worst \in {"WARN", "UNKNOWN"}
    <3> HIDE DEF states, worst
    <3> QED BY <2>5, <2>12
  <2> HIDE DEF states, worst
  <2> QED BY <1>2, <2>5, <2>11, <2>13, Zenon
<1> QED BY <1>1, <1>2

LEMMA GatesAgree ==
  ASSUME NEW found, NEW repo, NEW base, \A f \in found : f.state \in {Gates!Order[i] : i \in 1..6}
  PROVE  Gates!GatesAgreeAt(found, repo, base)
<1> DEFINE states == {f.state : f \in found}
           worst  == Gates!worst_state(found)
<1>1. /\ states = {} => worst = "PASS"
      /\ states # {} => worst \in states
      /\ states \cap {"BLOCKED", "ERROR"} # {} => worst \in {"BLOCKED", "ERROR"}
      /\ states \cap {"BLOCKED", "ERROR"} = {} /\ states \cap {"WARN", "UNKNOWN"} # {} =>
           worst \in {"WARN", "UNKNOWN"}
  BY WorstStateIs
<1>2. states \subseteq {"BLOCKED", "ERROR", "WARN", "UNKNOWN", "INFO", "PASS"}
  BY DEF Gates!Order
<1> HIDE DEF worst
<1>3. Gates!preflight(found) =
        IF worst \in {"BLOCKED", "ERROR"} THEN "BLOCKED"
        ELSE IF worst \in {"WARN", "UNKNOWN"} THEN "READY_WITH_WARNINGS" ELSE "READY"
  <2>1. worst \in {"BLOCKED", "ERROR", "WARN", "UNKNOWN", "INFO", "PASS"}
    BY <1>1, <1>2
  <2> QED BY <2>1 DEF Gates!preflight, worst
<1>4. Gates!doctor(found) =
        IF states \cap {"BLOCKED", "ERROR"} # {} THEN "BLOCKED"
        ELSE IF states \cap {"WARN", "UNKNOWN"} # {} THEN "READY_WITH_WARNINGS" ELSE "READY"
  BY DEF Gates!doctor
<1>5. Gates!Blocking(found) # {} <=> states \cap {"BLOCKED", "ERROR"} # {}
  BY DEF Gates!Blocking
<1> HIDE DEF states
<1>6. Gates!preflight(found) = Gates!doctor(found)
  BY <1>1, <1>3, <1>4
<1>7. Gates!guard(found, "machine", {}) = "BLOCKED" <=> Gates!doctor(found) = "BLOCKED"
  BY <1>4, <1>5, GuardOfAMachine
<1>8. Gates!GuardChanged(found, repo, base) = "BLOCKED" => Gates!guard(found, "machine", {}) = "BLOCKED"
  BY GuardOfAMachine, GuardOfAChange DEF Gates!GuardChanged
<1> QED BY <1>6, <1>7, <1>8 DEF Gates!GatesAgreeAt

(* A file that differs is reported, unless it is gone and another one is   *)
(* reported in its place.                                                  *)
LEMMA DiffIsComplete ==
  ASSUME NEW old, NEW new, DOMAIN new = DOMAIN old, NEW p \in Gates!Differing(old, new),
         p \notin Gates!DiffNames(old, new)
  PROVE  new[p] = None /\ \E q \in Gates!DiffNames(old, new) : old[q] = None
<1>1. old[p] # None /\ new[p] = None /\ \E q \in DOMAIN old : old[q] = None /\ new[q] = old[p]
  BY DEF Gates!DiffNames, Gates!Moved
<1>2. PICK q \in DOMAIN old : old[q] = None /\ new[q] = old[p]
  BY <1>1
<1>3. q \in Gates!DiffNames(old, new)
  BY <1>1, <1>2 DEF Gates!DiffNames, Gates!Moved, Gates!Differing
<1> QED BY <1>1, <1>2, <1>3

LEMMA ScopeIsSafe ==
  ASSUME NEW found, NEW repo, NEW base \in BOOLEAN,
         repo.compare \in {"merge-base", "ref", "nothing"},
         \A tree \in {repo.forked, repo.tip, repo.head, repo.index, repo.work} :
           DOMAIN tree = DOMAIN repo.work /\ DOMAIN tree \subseteq (Gates!Kinds \cup {None}) \X Nat
  PROVE  Gates!ScopeIsSafeAt(found, repo, base)
<1> DEFINE kinds   == Gates!contract_changes(repo, base)
           old     == Gates!Ends(repo, base)[1]
           new     == Gates!Ends(repo, base)[2]
           changed == Gates!changed_files(repo, base)
           tracked == Gates!TrackedWork(repo)
           paths   == DOMAIN repo.work
<1>1. /\ DOMAIN repo.forked = paths /\ DOMAIN repo.tip = paths /\ DOMAIN repo.head = paths
      /\ DOMAIN repo.index = paths /\ DOMAIN tracked = paths
      /\ \A p \in paths : Gates!classify_contract_path(p) \in Gates!Kinds \cup {None}
  <2>1. DOMAIN tracked = paths
    BY DEF Gates!TrackedWork
  <2> QED BY <2>1 DEF Gates!classify_contract_path
<1> HIDE DEF tracked, paths
<1>2. /\ ~repo.git => changed = {}
      /\ repo.git /\ ~base => changed = Gates!StatusNames(repo)
      /\ repo.git /\ base /\ repo.compare = "merge-base" =>
           changed = Gates!DiffNames(repo.forked, repo.head)
      /\ repo.git /\ base /\ repo.compare = "ref" => changed = Gates!DiffNames(repo.tip, tracked)
      /\ repo.git /\ base /\ repo.compare \notin {"merge-base", "ref"} => changed = {}
  BY Zenon DEF Gates!changed_files, tracked
<1>3. /\ base /\ repo.compare = "merge-base" => old = repo.forked /\ new = repo.head
      /\ base /\ repo.compare # "merge-base" => old = repo.tip /\ new = tracked
      /\ ~base => old = repo.head /\ new = repo.work
  BY DEF Gates!Ends, tracked
<1>4. \A k : k \in kinds <=> k # None /\ \E p \in changed : Gates!classify_contract_path(p) = k
  BY Zenon DEF Gates!contract_changes
<1> HIDE DEF kinds, changed, old, new
<1>5. DOMAIN old = paths /\ DOMAIN new = paths
  BY <1>1, <1>3 DEF paths
<1>6. changed \subseteq paths
  <2>1. Gates!StatusNames(repo) \subseteq paths
    BY <1>1 DEF Gates!StatusNames, Gates!DiffNames, Gates!Differing
  <2>2. Gates!DiffNames(repo.forked, repo.head) \subseteq paths /\ Gates!DiffNames(repo.tip, tracked) \subseteq paths
    BY <1>1 DEF Gates!DiffNames, Gates!Differing
  <2> QED BY <1>2, <2>1, <2>2
<1>7. kinds \subseteq Gates!Kinds
  BY <1>1, <1>4, <1>6
<1>8. ASSUME NEW k \in Gates!Kinds, Gates!guard(found, "changed", kinds) = "BLOCKED"
      PROVE  Gates!guard(found, "changed", kinds \cup {k}) = "BLOCKED"
  <2>1. kinds \subseteq kinds \cup {k} /\ kinds \cup {k} \subseteq Gates!Kinds
    BY <1>7
  <2> QED BY <1>8, <2>1, GuardKeepsBlocking
<1>9. ASSUME "policy" \in kinds
      PROVE  Gates!guard(found, "changed", kinds) = Gates!guard(found, "machine", {})
  <2>1. Gates!RELEVANT_PREFIXES["policy"] = {}
    BY DEF Gates!RELEVANT_PREFIXES
  <2>2. Gates!relevant_rule_prefixes(kinds) = Gates!Everything
    BY <1>9, <2>1 DEF Gates!relevant_rule_prefixes
  <2>3. \A f : Gates!Relevant(f, Gates!relevant_rule_prefixes(kinds))
    BY <2>2 DEF Gates!Relevant
  <2>4. Gates!guard(found, "changed", kinds) \in {"BLOCKED", "READY"}
    BY Zenon DEF Gates!guard
  <2> QED BY <1>9, <2>3, <2>4, GuardOfAChange, GuardOfAMachine
<1>10. ASSUME repo.git, base => repo.compare # "nothing",
              NEW p \in Gates!Differing(old, new)
       PROVE  \/ Gates!classify_contract_path(p) \in kinds \cup {None}
              \/ new[p] = None /\ \E q \in changed : old[q] = None
  <2>1. p \in changed => Gates!classify_contract_path(p) \in kinds \cup {None}
    BY <1>4
  <2>2. ASSUME p \notin changed PROVE new[p] = None /\ \E q \in changed : old[q] = None
    <3>1. CASE base
      <4>1. changed = Gates!DiffNames(old, new)
        BY <1>2, <1>3, <1>10, <3>1
      <4> QED BY <1>5, <1>10, <2>2, <4>1, DiffIsComplete
    <3>2. CASE ~base
      <4>1. changed = Gates!StatusNames(repo) /\ old = repo.head /\ new = repo.work
        BY <1>2, <1>3, <1>10, <3>2
      <4>2. /\ Gates!DiffNames(repo.head, repo.index) \subseteq changed
            /\ Gates!Differing(repo.index, repo.work) \subseteq changed
        BY <4>1 DEF Gates!StatusNames
      <4>3. p \in paths /\ repo.head[p] # repo.work[p] /\ repo.index[p] = repo.work[p]
        BY <1>1, <1>10, <2>2, <4>1, <4>2 DEF Gates!Differing
      <4>4. p \in Gates!Differing(repo.head, repo.index) /\ p \notin Gates!DiffNames(repo.head, repo.index)
        BY <1>1, <2>2, <4>2, <4>3 DEF Gates!Differing
      <4>5. repo.index[p] = None /\ \E q \in Gates!DiffNames(repo.head, repo.index) : repo.head[q] = None
        BY <1>1, <4>4, DiffIsComplete
      <4> QED BY <4>1, <4>2, <4>3, <4>5
    <3> QED BY <3>1, <3>2
  <2> QED BY <2>1, <2>2
<1>11. ASSUME base, NEW k \in kinds
       PROVE  \E p \in Gates!Differing(old, new) : Gates!classify_contract_path(p) = k
  <2>1. PICK p \in changed : Gates!classify_contract_path(p) = k
    BY <1>4, <1>11
  <2>2. changed \subseteq Gates!Differing(old, new)
    BY <1>2, <1>3, <1>11 DEF Gates!DiffNames
  <2> QED BY <2>1, <2>2
<1> QED BY <1>8, <1>9, <1>10, <1>11, Zenon DEF Gates!ScopeIsSafeAt, kinds, changed, old, new

-----------------------------------------------------------------------------
(* What a shell exposes.                                                   *)

Shell == [git : BOOLEAN, changed : Nat, upstream : BOOLEAN, unpushed : Nat, credentials : Nat,
          target : BOOLEAN, cluster : {None, "dev", "prod"}, stores : Nat, root : BOOLEAN]

LEMMA ExposuresAre ==
  ASSUME NEW s \in Shell, NEW kind, NEW severity
  PROVE  Agent!Exposure(kind, severity) \in Agent!Exposures(s) <=>
           \/ /\ kind = "uncommitted-work" /\ s.git /\ s.changed > 0
              /\ severity = IF s.changed < 20 THEN "medium" ELSE "high"
           \/ kind = "unpushed-commits" /\ severity = "medium" /\ s.git /\ s.upstream /\ s.unpushed > 0
           \/ /\ kind = "inherited-credentials" /\ s.credentials > 0
              /\ severity = IF s.credentials > 3 THEN "high" ELSE "medium"
           \/ kind = "production-target" /\ severity = "high" /\ s.target
           \/ /\ kind = "kubernetes-context" /\ s.cluster # None
              /\ severity = IF s.cluster = "prod" THEN "high" ELSE "info"
           \/ kind = "ambient-credentials" /\ severity = "medium" /\ s.stores > 0
           \/ kind = "elevated-privileges" /\ severity = "high" /\ s.root
<1>1. \A condition, e, k, v : Agent!Exposure(k, v) \in Agent!When(condition, e) <=> condition /\ Agent!Exposure(k, v) = e
  BY DEF Agent!When
<1>2. \A k, v, k2, v2 : Agent!Exposure(k, v) = Agent!Exposure(k2, v2) <=> k = k2 /\ v = v2
  BY DEF Agent!Exposure
<1> DEFINE It(k, v) == kind = k /\ severity = v
<1>3. ASSUME NEW condition, NEW k, NEW v
      PROVE  Agent!Exposure(kind, severity) \in Agent!When(condition, Agent!Exposure(k, v)) <=> condition /\ It(k, v)
  <2>1. Agent!Exposure(kind, severity) \in Agent!When(condition, Agent!Exposure(k, v)) <=>
          condition /\ Agent!Exposure(kind, severity) = Agent!Exposure(k, v)
    BY <1>1
  <2>2. Agent!Exposure(kind, severity) = Agent!Exposure(k, v) <=> kind = k /\ severity = v
    BY <1>2
  <2> QED BY <2>1, <2>2, Zenon
<1> HIDE DEF It
<1>4. Agent!Exposure(kind, severity) \in Agent!GitState(s) <=>
        \/ s.git /\ s.changed > 0 /\ It("uncommitted-work", IF s.changed < 20 THEN "medium" ELSE "high")
        \/ s.git /\ s.upstream /\ s.unpushed > 0 /\ It("unpushed-commits", "medium")
  BY <1>3, Zenon DEF Agent!GitState, Agent!ManyChanges
<1>5. Agent!Exposure(kind, severity) \in Agent!ProductionExposure(s) <=>
        \/ s.target /\ It("production-target", "high")
        \/ s.cluster # None /\ It("kubernetes-context", IF s.cluster = "prod" THEN "high" ELSE "info")
  BY <1>3, Zenon DEF Agent!ProductionExposure
<1>6. Agent!Exposure(kind, severity) \in Agent!Exposures(s) <=>
        \/ Agent!Exposure(kind, severity) \in Agent!GitState(s)
        \/ s.credentials > 0 /\ It("inherited-credentials", IF s.credentials > 3 THEN "high" ELSE "medium")
        \/ Agent!Exposure(kind, severity) \in Agent!ProductionExposure(s)
        \/ s.stores > 0 /\ It("ambient-credentials", "medium")
        \/ s.root /\ It("elevated-privileges", "high")
  BY <1>3, Zenon DEF Agent!Exposures, Agent!FewCredentials
<1> QED BY <1>4, <1>5, <1>6, Zenon DEF It

LEMMA ExposuresAreExposures ==
  ASSUME NEW s \in Shell, NEW e \in Agent!Exposures(s)
  PROVE  e = Agent!Exposure(e.kind, e.severity) /\ e.severity \in {"info", "medium", "high"}
<1>1. \E k, v : e = Agent!Exposure(k, v)
  <2>1. \A condition, x : e \in Agent!When(condition, x) => e = x
    BY DEF Agent!When
  <2> QED BY <2>1, Zenon DEF Agent!Exposures, Agent!GitState, Agent!ProductionExposure
<1>2. e = Agent!Exposure(e.kind, e.severity)
  BY <1>1 DEF Agent!Exposure
<1>3. Agent!Exposure(e.kind, e.severity) \in Agent!Exposures(s)
  BY <1>2
<1>4. e.severity \in {"info", "medium", "high"}
  BY <1>3, ExposuresAre
<1> QED BY <1>2, <1>4

LEMMA HighestIs ==
  ASSUME NEW s \in Shell
  PROVE  LET found == {e.severity : e \in Agent!Exposures(s)}
         IN /\ found \subseteq {"info", "medium", "high"}
            /\ Agent!HighestSeverity(s) =
                 IF "high" \in found THEN 4 ELSE IF "medium" \in found THEN 3 ELSE IF found # {} THEN 2 ELSE 1
<1> DEFINE found == {e.severity : e \in Agent!Exposures(s)}
<1>1. found \subseteq {"info", "medium", "high"}
  BY ExposuresAreExposures
<1>2. Agent!HighestSeverity(s) =
        CASE "high" \in found -> 4
          [] "high" \notin found /\ "medium" \in found -> 3
          [] found = {"info"} -> 2
          [] OTHER -> 1
  BY Zenon DEF Agent!HighestSeverity
<1>3. Agent!HighestSeverity(s) =
        IF "high" \in found THEN 4 ELSE IF "medium" \in found THEN 3 ELSE IF found # {} THEN 2 ELSE 1
  <2> HIDE DEF found
  <2>1. "high" \notin found /\ "medium" \notin found => (found = {"info"} <=> found # {})
    BY <1>1
  <2> QED BY <1>2, <2>1
<1> QED BY <1>1, <1>3, Zenon

(* A severity that is at least another. *)
AsSevere(v, w) == v = w \/ (v = "info" /\ w = "medium") \/ w = "high"

LEMMA MoreIsExposed ==
  ASSUME NEW s \in Shell, NEW w \in Shell, NEW e \in Agent!Exposures(s),
         \A kind, severity : Agent!Exposure(kind, severity) \in Agent!Exposures(s) =>
           \E worse : AsSevere(severity, worse) /\ Agent!Exposure(kind, worse) \in Agent!Exposures(w)
  PROVE  \E f \in Agent!Exposures(w) : f.kind = e.kind /\ AsSevere(e.severity, f.severity)
<1>1. Agent!Exposure(e.kind, e.severity) \in Agent!Exposures(s)
  BY ExposuresAreExposures
<1>2. PICK worse : AsSevere(e.severity, worse) /\ Agent!Exposure(e.kind, worse) \in Agent!Exposures(w)
  BY <1>1
<1>3. Agent!Exposure(e.kind, worse).kind = e.kind /\ Agent!Exposure(e.kind, worse).severity = worse
  BY DEF Agent!Exposure
<1> QED BY <1>2, <1>3

LEMMA BriefingIsMonotone ==
  ASSUME NEW s \in Shell, None \notin {"dev", "prod"}
  PROVE  Agent!BriefingIsMonotoneAt(s)
<1>1. ASSUME NEW w \in Agent!Worse(s)
      PROVE  /\ w \in Shell
             /\ \A kind, severity : Agent!Exposure(kind, severity) \in Agent!Exposures(s) =>
                  \E worse : AsSevere(severity, worse) /\ Agent!Exposure(kind, worse) \in Agent!Exposures(w)
  <2>1. w \in Shell
    <3> DEFINE Put(c, u, r, t, k, d, b) ==
                 [git |-> s.git, changed |-> c, upstream |-> s.upstream, unpushed |-> u, credentials |-> r,
                  target |-> t, cluster |-> k, stores |-> d, root |-> b]
    <3>1. s = Put(s.changed, s.unpushed, s.credentials, s.target, s.cluster, s.stores, s.root)
      BY DEF Shell
    <3> DEFINE cluster == IF s.cluster = None THEN "dev" ELSE "prod"
    <3>2. /\ s.git \in BOOLEAN /\ s.upstream \in BOOLEAN /\ s.target \in BOOLEAN /\ s.root \in BOOLEAN
          /\ s.cluster \in {None, "dev", "prod"} /\ cluster \in {None, "dev", "prod"}
          /\ s.changed \in Nat /\ s.unpushed \in Nat /\ s.credentials \in Nat /\ s.stores \in Nat
      BY DEF Shell
    <3>3. \/ w = Put(s.changed + 1, s.unpushed, s.credentials, s.target, s.cluster, s.stores, s.root)
          \/ w = Put(s.changed, s.unpushed + 1, s.credentials, s.target, s.cluster, s.stores, s.root)
          \/ w = Put(s.changed, s.unpushed, s.credentials + 1, s.target, s.cluster, s.stores, s.root)
          \/ w = Put(s.changed, s.unpushed, s.credentials, TRUE, s.cluster, s.stores, s.root)
          \/ w = Put(s.changed, s.unpushed, s.credentials, s.target, cluster, s.stores, s.root)
          \/ w = Put(s.changed, s.unpushed, s.credentials, s.target, s.cluster, s.stores + 1, s.root)
          \/ w = Put(s.changed, s.unpushed, s.credentials, s.target, s.cluster, s.stores, TRUE)
      BY <1>1, <3>1 DEF Agent!Worse
    <3> HIDE DEF cluster
    <3>4. CASE w = Put(s.changed + 1, s.unpushed, s.credentials, s.target, s.cluster, s.stores, s.root)
      BY <3>2, <3>4 DEF Shell
    <3>5. CASE w = Put(s.changed, s.unpushed + 1, s.credentials, s.target, s.cluster, s.stores, s.root)
      BY <3>2, <3>5 DEF Shell
    <3>6. CASE w = Put(s.changed, s.unpushed, s.credentials + 1, s.target, s.cluster, s.stores, s.root)
      BY <3>2, <3>6 DEF Shell
    <3>7. CASE w = Put(s.changed, s.unpushed, s.credentials, TRUE, s.cluster, s.stores, s.root)
      BY <3>2, <3>7 DEF Shell
    <3>8. CASE w = Put(s.changed, s.unpushed, s.credentials, s.target, cluster, s.stores, s.root)
      BY <3>2, <3>8 DEF Shell
    <3>9. CASE w = Put(s.changed, s.unpushed, s.credentials, s.target, s.cluster, s.stores + 1, s.root)
      BY <3>2, <3>9 DEF Shell
    <3>10. CASE w = Put(s.changed, s.unpushed, s.credentials, s.target, s.cluster, s.stores, TRUE)
      BY <3>2, <3>10 DEF Shell
    <3> QED BY <3>3, <3>4, <3>5, <3>6, <3>7, <3>8, <3>9, <3>10
  <2>2. /\ w.git = s.git /\ w.upstream = s.upstream
        /\ w.changed >= s.changed /\ w.unpushed >= s.unpushed /\ w.credentials >= s.credentials
        /\ s.target => w.target
        /\ s.cluster # None => w.cluster # None
        /\ s.cluster = "prod" => w.cluster = "prod"
        /\ w.stores >= s.stores
        /\ s.root => w.root
    BY <1>1 DEF Agent!Worse, Shell
  <2>3. ASSUME NEW kind, NEW severity, Agent!Exposure(kind, severity) \in Agent!Exposures(s)
        PROVE  \E worse : AsSevere(severity, worse) /\ Agent!Exposure(kind, worse) \in Agent!Exposures(w)
    <3> DEFINE worse == CASE kind = "uncommitted-work" -> (IF w.changed < 20 THEN "medium" ELSE "high")
                          [] kind = "inherited-credentials" -> (IF w.credentials > 3 THEN "high" ELSE "medium")
                          [] kind = "kubernetes-context" -> (IF w.cluster = "prod" THEN "high" ELSE "info")
                          [] OTHER -> severity
    <3>1. /\ s.changed \in Nat /\ w.changed \in Nat /\ s.unpushed \in Nat /\ w.unpushed \in Nat
          /\ s.credentials \in Nat /\ w.credentials \in Nat /\ s.stores \in Nat /\ w.stores \in Nat
      BY <2>1 DEF Shell
    <3>2. /\ s.changed > 0 => w.changed > 0
          /\ w.changed < 20 => s.changed < 20
          /\ s.unpushed > 0 => w.unpushed > 0
          /\ s.credentials > 0 => w.credentials > 0
          /\ s.credentials > 3 => w.credentials > 3
          /\ s.stores > 0 => w.stores > 0
      BY <2>2, <3>1
    <3>3. \/ /\ kind = "uncommitted-work" /\ s.git /\ s.changed > 0
             /\ severity = IF s.changed < 20 THEN "medium" ELSE "high"
          \/ kind = "unpushed-commits" /\ severity = "medium" /\ s.git /\ s.upstream /\ s.unpushed > 0
          \/ /\ kind = "inherited-credentials" /\ s.credentials > 0
             /\ severity = IF s.credentials > 3 THEN "high" ELSE "medium"
          \/ kind = "production-target" /\ severity = "high" /\ s.target
          \/ /\ kind = "kubernetes-context" /\ s.cluster # None
             /\ severity = IF s.cluster = "prod" THEN "high" ELSE "info"
          \/ kind = "ambient-credentials" /\ severity = "medium" /\ s.stores > 0
          \/ kind = "elevated-privileges" /\ severity = "high" /\ s.root
      BY <2>3, ExposuresAre
    <3>4. AsSevere(severity, worse)
      BY <2>2, <3>2, <3>3 DEF AsSevere
    <3>5. Agent!Exposure(kind, worse) \in Agent!Exposures(w) <=>
            \/ /\ kind = "uncommitted-work" /\ w.git /\ w.changed > 0
               /\ worse = IF w.changed < 20 THEN "medium" ELSE "high"
            \/ kind = "unpushed-commits" /\ worse = "medium" /\ w.git /\ w.upstream /\ w.unpushed > 0
            \/ /\ kind = "inherited-credentials" /\ w.credentials > 0
               /\ worse = IF w.credentials > 3 THEN "high" ELSE "medium"
            \/ kind = "production-target" /\ worse = "high" /\ w.target
            \/ /\ kind = "kubernetes-context" /\ w.cluster # None
               /\ worse = IF w.cluster = "prod" THEN "high" ELSE "info"
            \/ kind = "ambient-credentials" /\ worse = "medium" /\ w.stores > 0
            \/ kind = "elevated-privileges" /\ worse = "high" /\ w.root
      BY <2>1, ExposuresAre
    <3>6. Agent!Exposure(kind, worse) \in Agent!Exposures(w)
      BY <2>2, <3>2, <3>3, <3>5
    <3> QED BY <3>4, <3>6
  <2> QED BY <2>1, <2>3
<1>2. ASSUME NEW x \in Shell PROVE Agent!production(x) <=> x.target
  <2>1. Agent!production(x) => x.target
    <3> SUFFICES ASSUME NEW e \in Agent!Exposures(x), e.kind = "production-target" PROVE x.target
      BY DEF Agent!production
    <3>1. Agent!Exposure("production-target", e.severity) \in Agent!Exposures(x)
      BY ExposuresAreExposures
    <3> QED BY <3>1, ExposuresAre
  <2>2. x.target => Agent!production(x)
    <3> SUFFICES ASSUME x.target PROVE Agent!production(x)
      OBVIOUS
    <3>1. Agent!Exposure("production-target", "high") \in Agent!Exposures(x)
      BY ExposuresAre
    <3> QED BY <3>1 DEF Agent!production, Agent!Exposure
  <2> QED BY <2>1, <2>2
<1>3. ASSUME NEW w \in Agent!Worse(s)
      PROVE  /\ Agent!HighestSeverity(w) >= Agent!HighestSeverity(s)
             /\ {e.kind : e \in Agent!Exposures(s)} \subseteq {e.kind : e \in Agent!Exposures(w)}
             /\ Agent!production(s) => Agent!production(w)
  <2>1. w \in Shell
    BY <1>1
  <2>2. \A e \in Agent!Exposures(s) : \E f \in Agent!Exposures(w) : f.kind = e.kind /\ AsSevere(e.severity, f.severity)
    BY <1>1, <2>1, MoreIsExposed
  <2>3. Agent!HighestSeverity(w) >= Agent!HighestSeverity(s)
    <3> DEFINE fs == {e.severity : e \in Agent!Exposures(s)}
               fw == {e.severity : e \in Agent!Exposures(w)}
    <3>1. /\ fs \subseteq {"info", "medium", "high"}
          /\ Agent!HighestSeverity(s) =
               IF "high" \in fs THEN 4 ELSE IF "medium" \in fs THEN 3 ELSE IF fs # {} THEN 2 ELSE 1
      BY HighestIs
    <3>2. /\ fw \subseteq {"info", "medium", "high"}
          /\ Agent!HighestSeverity(w) =
               IF "high" \in fw THEN 4 ELSE IF "medium" \in fw THEN 3 ELSE IF fw # {} THEN 2 ELSE 1
      BY <2>1, HighestIs
    <3>3. \A v \in fs : \E u \in fw : AsSevere(v, u)
      BY <2>2
    <3> HIDE DEF fs, fw
    <3>4. /\ "high" \in fs => "high" \in fw
          /\ "medium" \in fs => "medium" \in fw \/ "high" \in fw
          /\ fs # {} => fw # {}
      BY <3>3 DEF AsSevere
    <3> QED BY <3>1, <3>2, <3>4
  <2>4. {e.kind : e \in Agent!Exposures(s)} \subseteq {e.kind : e \in Agent!Exposures(w)}
    BY <2>2
  <2>5. Agent!production(s) => Agent!production(w)
    <3>1. s.target => w.target
      BY <1>3 DEF Agent!Worse, Shell
    <3> QED BY <1>2, <2>1, <3>1
  <2> QED BY <2>3, <2>4, <2>5
<1>4. Agent!production(s) => Agent!HighestSeverity(s) = 4
  <2>1. s.target => Agent!Exposure("production-target", "high") \in Agent!Exposures(s)
    BY ExposuresAre
  <2>2. Agent!Exposure("production-target", "high").severity = "high"
    BY DEF Agent!Exposure
  <2>3. s.target => "high" \in {e.severity : e \in Agent!Exposures(s)}
    BY <2>1, <2>2
  <2> QED BY <1>2, <2>3, HighestIs
<1> QED BY <1>3, <1>4, Zenon DEF Agent!BriefingIsMonotoneAt

-----------------------------------------------------------------------------
(* What a sandbox is given.                                                *)

Tight == [memory : (Nat \ {0}) \cup {None}, cpus : (Nat \ {0}) \cup {None}, offline : BOOLEAN]

LEMMA LimitsAre ==
  ASSUME NEW r \in Tight, NEW key \in {"memory", "cpus"}
  PROVE  r[key] \in (Nat \ {0}) \cup {None}
<1>1. CASE key = "memory"
  BY <1>1 DEF Tight
<1>2. CASE key = "cpus"
  BY <1>2 DEF Tight
<1> QED BY <1>1, <1>2

(* What the loop over the declarations leaves after k of them.             *)
SoFar(h, engine, declared, key) ==
  /\ h \in [0..Len(declared) -> Nat \cup {None}] /\ h[0] = engine
  /\ \A k \in 0..(Len(declared) - 1) :
       h[k + 1] = IF declared[k + 1][key] = None THEN h[k]
                  ELSE Agent!MinusUnknown(h[k], declared[k + 1][key])

LEMMA EffectiveIsALoop ==
  ASSUME NEW declared \in Seq(Tight), NEW engine \in Nat \cup {None}, NEW key \in {"memory", "cpus"}
  PROVE  \E h : /\ SoFar(h, engine, declared, key)
                /\ Agent!Effective(engine, declared, key) = h[Len(declared)]
<1> DEFINE n == Len(declared)
           A == Nat \cup {None}
           next(acc, i) == IF declared[i][key] = None THEN acc ELSE Agent!MinusUnknown(acc, declared[i][key])
           G == [p \in A \X (1..n) |-> next(p[1], p[2])]
           Loop(f) == f = [s \in SUBSET (1..n) |-> IF s = {} THEN engine ELSE next(f[s \ {Agent!Max(s)}], Agent!Max(s))]
           f0 == CHOOSE f : Loop(f)
<1>1. n \in Nat /\ DOMAIN declared = 1..n
  OBVIOUS
<1>2. \A i \in 1..n : declared[i][key] \in Nat \cup {None}
  BY LimitsAre
<1>3. \A a \in A, i \in 1..n : next(a, i) \in A
  BY <1>2 DEF Agent!MinusUnknown
<1>4. Agent!Effective(engine, declared, key) = f0[1..n]
  BY <1>1 DEF Agent!Effective, Agent!FoldLeft, Agent!MapThenFoldSet
<1> HIDE DEF next
<1>5. G \in [A \X (1..n) -> A]
  BY <1>3
<1>6. PICK f : IsFold(f, n, A, engine, G)
  <2>1. engine \in A
    BY DEF A
  <2> HIDE DEF G, A, n
  <2> QED BY <1>1, <1>5, <2>1, FoldExists, Zenon
<1>7. \A s : Agent!Max(s) = Greatest(s)
  BY DEF Agent!Max, Greatest
<1>8. \A s \in SUBSET (1..n) : s # {} => Greatest(s) \in s
  <2> SUFFICES ASSUME NEW s \in SUBSET (1..n), s # {} PROVE Greatest(s) \in s
    OBVIOUS
  <2> HIDE DEF n
  <2> QED BY <1>1, GreatestIsThere, Zenon
<1>9. Loop(f)
  <2>0. /\ f \in [SUBSET (1..n) -> A]
        /\ \A s \in SUBSET (1..n) : f[s] = IF s = {} THEN engine ELSE G[<<f[s \ {Greatest(s)}], Greatest(s)>>]
    BY <1>6 DEF IsFold
  <2>1. ASSUME NEW s \in SUBSET (1..n), s # {}
        PROVE  f[s] = next(f[s \ {Agent!Max(s)}], Agent!Max(s))
    <3>1. Greatest(s) \in 1..n /\ f[s \ {Greatest(s)}] \in A
      BY <1>8, <2>0, <2>1
    <3>2. G[<<f[s \ {Greatest(s)}], Greatest(s)>>] = next(f[s \ {Greatest(s)}], Greatest(s))
      BY <3>1
    <3> HIDE DEF G
    <3> QED BY <1>7, <2>0, <2>1, <3>2
  <2> HIDE DEF G
  <2> QED BY <2>0, <2>1
<1> HIDE DEF A
<1>10. Loop(f0)
  <2> HIDE DEF Loop
  <2> QED BY <1>9, Zenon
<1>11. f0[1..0] = engine
  <2>1. 1..0 \in SUBSET (1..n) /\ 1..0 = {}
    OBVIOUS
  <2> HIDE DEF f0
  <2> QED BY <1>10, <2>1
<1>12. ASSUME NEW k \in 0..(n - 1) PROVE f0[1..(k + 1)] = next(f0[1..k], k + 1)
  <2>1. 1..(k + 1) \in SUBSET (1..n) /\ k \in Nat
    OBVIOUS
  <2>2. 1..(k + 1) # {} /\ Agent!Max(1..(k + 1)) = k + 1 /\ (1..(k + 1)) \ {k + 1} = 1..k
    BY <1>7, <2>1, GreatestUpTo
  <2> HIDE DEF f0
  <2> QED BY <1>10, <2>1, <2>2
<1>13. FoldsUp(f0, n, A, engine, G)
  <2>1. ASSUME NEW k \in 0..(n - 1), f0[1..k] \in A PROVE f0[1..(k + 1)] = G[<<f0[1..k], k + 1>>]
    <3>1. k + 1 \in 1..n
      OBVIOUS
    <3> HIDE DEF f0
    <3> QED BY <1>12, <2>1, <3>1
  <2> HIDE DEF f0, G
  <2> QED BY <1>11, <2>1 DEF FoldsUp
<1> DEFINE h == StepsOf(f0, n)
<1>14. Iterates(h, n, A, engine, G)
  <2>1. engine \in A
    BY DEF A
  <2> HIDE DEF f0, G, n
  <2> QED BY <1>1, <1>5, <1>13, <2>1, FoldIterates, Zenon
<1>18. h[n] = f0[1..n]
  BY <1>1 DEF StepsOf
<1> HIDE DEF h
<1>15. \A k \in 0..(n - 1) : h[k + 1] = next(h[k], k + 1)
  <2>1. \A k \in 0..(n - 1) : h[k] \in A /\ k + 1 \in 1..n
    BY <1>14 DEF Iterates
  <2> QED BY <1>14, <2>1 DEF Iterates
<1>16. h \in [0..n -> A] /\ h[0] = engine
  BY <1>14 DEF Iterates
<1>17. SoFar(h, engine, declared, key)
  BY <1>15, <1>16 DEF next, A, SoFar
<1> QED BY <1>4, <1>17, <1>18

(* The tightest of some limits and of what the engine has, when known.     *)
Tightest(engine, limits, e) ==
  /\ e \in Nat \cup {None}
  /\ limits = {} => e = engine
  /\ limits # {} =>
       /\ e \in Nat /\ e # 0 /\ \A l \in limits : e <= l
       /\ Agent!Known(engine) => e <= engine
       /\ e \in limits \/ (e = engine /\ Agent!Known(engine))

Limits(declared, k, key) == {declared[i][key] : i \in 1..k} \ {None}

LEMMA EffectiveIsTightest ==
  ASSUME NEW declared \in Seq(Tight), NEW engine \in Nat \cup {None}, NEW key \in {"memory", "cpus"}
  PROVE  Tightest(engine, Limits(declared, Len(declared), key), Agent!Effective(engine, declared, key))
<1> DEFINE n == Len(declared)
<1>0. PICK h : SoFar(h, engine, declared, key) /\ Agent!Effective(engine, declared, key) = h[n]
  BY EffectiveIsALoop
<1>1. /\ h \in [0..n -> Nat \cup {None}] /\ h[0] = engine /\ Agent!Effective(engine, declared, key) = h[n]
      /\ \A k \in 0..(n - 1) :
           h[k + 1] = IF declared[k + 1][key] = None THEN h[k]
                      ELSE Agent!MinusUnknown(h[k], declared[k + 1][key])
  BY <1>0 DEF SoFar
<1>2. n \in Nat /\ \A i \in 1..n : declared[i][key] \in (Nat \ {0}) \cup {None}
  BY LimitsAre
<1> DEFINE E == {k \in Nat : k <= n => Tightest(engine, Limits(declared, k, key), h[k])}
<1>3. 0 \in E
  BY <1>1 DEF Limits, Tightest
<1>4. ASSUME NEW k \in Nat, k \in E PROVE k + 1 \in E
  <2> SUFFICES ASSUME k + 1 <= n PROVE Tightest(engine, Limits(declared, k + 1, key), h[k + 1])
    OBVIOUS
  <2> DEFINE l == declared[k + 1][key]
             before == Limits(declared, k, key)
  <2>1. k \in 0..(n - 1) /\ k + 1 \in 1..n /\ Tightest(engine, before, h[k]) /\ h[k] \in Nat \cup {None}
    BY <1>1, <1>2, <1>4
  <2>2. h[k + 1] = (IF l = None THEN h[k] ELSE Agent!MinusUnknown(h[k], l)) /\ l \in (Nat \ {0}) \cup {None}
    BY <1>1, <1>2, <2>1
  <2>3. Limits(declared, k + 1, key) = (before \cup {l}) \ {None}
    <3>1. 1..(k + 1) = (1..k) \cup {k + 1}
      OBVIOUS
    <3> QED BY <3>1 DEF Limits
  <2>4. None \notin before /\ None \notin Nat /\ before \subseteq Nat \ {0}
    <3>1. \A i \in 1..k : i \in 1..n
      BY <1>2
    <3> QED BY <1>2, <3>1, AttemptsAssumption DEF Limits
  <2> HIDE DEF l, before
  <2>5. CASE l = None
    <3>1. Limits(declared, k + 1, key) = before /\ h[k + 1] = h[k]
      BY <2>2, <2>3, <2>4, <2>5
    <3> QED BY <2>1, <3>1
  <2>6. CASE l # None
    <3>1. Limits(declared, k + 1, key) = before \cup {l} /\ h[k + 1] = Agent!MinusUnknown(h[k], l) /\ l \in Nat /\ l # 0
      BY <2>2, <2>3, <2>4, <2>6
    <3>2. h[k + 1] = IF h[k] # None /\ h[k] # 0 /\ h[k] < l THEN h[k] ELSE l
      BY <3>1 DEF Agent!MinusUnknown, Agent!Known
    <3>3. CASE h[k] # None /\ h[k] # 0 /\ h[k] < l
      <4>1. h[k + 1] = h[k] /\ h[k] \in Nat
        BY <2>1, <3>2, <3>3
      <4>2. before = {} => h[k] = engine /\ Agent!Known(engine)
        BY <2>1, <3>3 DEF Tightest, Agent!Known
      <4>3. \A x \in before : h[k] <= x
        BY <2>1 DEF Tightest
      <4>4. Agent!Known(engine) => h[k] <= engine
        BY <2>1, <4>1 DEF Tightest
      <4>5. h[k] \in before \/ (h[k] = engine /\ Agent!Known(engine))
        BY <2>1, <4>2 DEF Tightest
      <4>6. \A x \in before \cup {l} : h[k] <= x
        BY <3>1, <3>3, <4>1, <4>3
      <4> QED BY <3>1, <3>3, <4>1, <4>4, <4>5, <4>6, Zenon DEF Tightest
    <3>4. CASE ~(h[k] # None /\ h[k] # 0 /\ h[k] < l)
      <4>1. h[k + 1] = l
        BY <3>2, <3>4
      <4>2. h[k] = None \/ h[k] = 0 \/ (h[k] \in Nat /\ l <= h[k])
        BY <2>1, <3>1, <3>4
      <4>3. \A x \in before : l <= x
        <5>1. before # {} => h[k] \in Nat /\ h[k] # 0 /\ \A x \in before : h[k] <= x
          BY <2>1 DEF Tightest
        <5> QED BY <2>4, <3>1, <4>2, <5>1
      <4>4. Agent!Known(engine) => l <= engine
        <5>1. before # {} => h[k] \in Nat /\ h[k] # 0 /\ (Agent!Known(engine) => h[k] <= engine)
          BY <2>1 DEF Tightest
        <5>2. before = {} => h[k] = engine
          BY <2>1 DEF Tightest
        <5>3. Agent!Known(engine) => engine \in Nat /\ engine # 0 /\ engine # None
          BY DEF Agent!Known
        <5> QED BY <2>4, <3>1, <4>2, <5>1, <5>2, <5>3
      <4>5. \A x \in before \cup {l} : l <= x
        BY <3>1, <4>3
      <4> QED BY <3>1, <4>1, <4>4, <4>5, Zenon DEF Tightest
    <3> QED BY <3>3, <3>4
  <2> QED BY <2>5, <2>6
<1>5. Tightest(engine, Limits(declared, n, key), h[n])
  <2>1. Nat \subseteq E
    <3> HIDE DEF E
    <3> QED BY <1>3, <1>4, Induction
  <2> QED BY <1>2, <2>1
<1> QED BY <1>1, <1>5

LEMMA TightestIsOne ==
  ASSUME NEW engine \in Nat \cup {None}, NEW limits, limits \subseteq Nat \ {0},
         NEW d, NEW e, Tightest(engine, limits, d), Tightest(engine, limits, e)
  PROVE  d = e
<1>1. CASE limits = {}
  BY <1>1 DEF Tightest
<1>2. CASE limits # {}
  <2>1. d \in Nat /\ e \in Nat
    BY <1>2 DEF Tightest
  <2>2. Agent!Known(engine) => engine \in Nat
    BY DEF Agent!Known
  <2>3. d <= e /\ e <= d
    BY <1>2, <2>2 DEF Tightest
  <2> QED BY <2>1, <2>3
<1> QED BY <1>1, <1>2

(* With fewer limits nothing becomes tighter. *)
LEMMA TightestOfFewer ==
  ASSUME NEW engine \in Nat \cup {None}, NEW limits, limits \subseteq Nat \ {0},
         NEW fewer, fewer \subseteq limits,
         NEW d, NEW e, Tightest(engine, limits, d), Tightest(engine, fewer, e), Agent!Known(e)
  PROVE  Agent!Known(d) /\ d \in Nat /\ e \in Nat /\ d <= e
<1>0. None \notin Nat
  BY AttemptsAssumption
<1>1. e \in Nat /\ e # 0
  BY DEF Tightest, Agent!Known
<1>2. e \in fewer \/ (e = engine /\ Agent!Known(engine))
  BY DEF Tightest
<1>3. CASE limits = {}
  <2>1. fewer = {}
    BY <1>3
  <2> QED BY <1>1, <1>3, <2>1 DEF Tightest
<1>4. CASE limits # {}
  <2>1. d \in Nat /\ d # 0 /\ (\A l \in limits : d <= l) /\ (Agent!Known(engine) => d <= engine)
    BY <1>4 DEF Tightest
  <2>2. d <= e
    BY <1>2, <2>1
  <2> QED BY <1>0, <1>1, <2>1, <2>2 DEF Agent!Known
<1> QED BY <1>3, <1>4

LEMMA LimitsAreKnown ==
  ASSUME NEW declared \in Seq(Tight), NEW key \in {"memory", "cpus"}
  PROVE  Limits(declared, Len(declared), key) \subseteq Nat \ {0}
<1>1. \A i \in 1..Len(declared) : declared[i] \in Tight
  OBVIOUS
<1>2. \A i \in 1..Len(declared) : declared[i][key] \in (Nat \ {0}) \cup {None}
  BY <1>1, LimitsAre
<1> QED BY <1>2 DEF Limits

(* What is said of a sandbox, from its tightest limits. *)
Lacks(host, memory, cpus, offline) ==
  Agent!When(Agent!Known(host.memory) /\ Agent!Known(memory) /\ 4 * memory < host.memory, "memory")
  \cup Agent!When(Agent!Known(host.cpus) /\ Agent!Known(cpus) /\ cpus < host.cpus, "cpu")
  \cup Agent!When(offline, "network")

LEMMA SandboxIsCompared ==
  ASSUME NEW host \in [memory : Nat \cup {None}, cpus : Nat \cup {None}],
         NEW engine \in [memory : Nat \cup {None}, cpus : Nat \cup {None}],
         NEW declared \in Seq(Tight), NEW needsNetwork
  PROVE  Agent!SandboxIsComparedAt(host, engine, declared, needsNetwork)
<1> DEFINE eff(d, key) == Agent!Effective(engine[key], d, key)
           off(d) == needsNetwork /\ \E i \in 1..Len(d) : d[i].offline
           rev == Agent!Reverse(declared)
<1>1. engine["memory"] \in Nat \cup {None} /\ engine["cpus"] \in Nat \cup {None}
  OBVIOUS
<1>2. \A d : Agent!compare_limits(host, engine, d, needsNetwork)
               = Lacks(host, eff(d, "memory"), eff(d, "cpus"), off(d))
  BY Zenon DEF Agent!compare_limits, Lacks
<1>3. ASSUME NEW d \in Seq(Tight), NEW key \in {"memory", "cpus"}
      PROVE  Tightest(engine[key], Limits(d, Len(d), key), eff(d, key))
  <2>1. engine[key] \in Nat \cup {None}
    BY <1>1
  <2> QED BY <2>1, EffectiveIsTightest, Zenon
<1>4. rev \in Seq(Tight) /\ Len(rev) = Len(declared)
      /\ \A i \in 1..Len(declared) : rev[i] = declared[Len(declared) + 1 - i]
  <2>1. rev = [i \in 1..Len(declared) |-> declared[(Len(declared) - i) + 1]]
    BY DEF Agent!Reverse
  <2>2. \A i \in 1..Len(declared) : (Len(declared) - i) + 1 \in 1..Len(declared)
          /\ (Len(declared) - i) + 1 = Len(declared) + 1 - i
    OBVIOUS
  <2>3. rev \in [1..Len(declared) -> Tight]
    BY <2>1, <2>2
  <2> QED BY <2>1, <2>2, <2>3
<1>5. \A i \in 1..Len(declared) : \E j \in 1..Len(declared) : rev[j] = declared[i] /\ rev[i] = declared[j]
  <2>1. \A i \in 1..Len(declared) : Len(declared) + 1 - i \in 1..Len(declared)
          /\ Len(declared) + 1 - (Len(declared) + 1 - i) = i
    OBVIOUS
  <2> QED BY <1>4, <2>1
<1> HIDE DEF rev
<1>6. \A key : Limits(rev, Len(rev), key) = Limits(declared, Len(declared), key)
  <2> SUFFICES ASSUME NEW key
               PROVE  {rev[i][key] : i \in 1..Len(rev)} = {declared[i][key] : i \in 1..Len(declared)}
    BY DEF Limits
  <2>1. ASSUME NEW i \in 1..Len(declared)
        PROVE  /\ rev[i][key] \in {declared[j][key] : j \in 1..Len(declared)}
               /\ declared[i][key] \in {rev[j][key] : j \in 1..Len(rev)}
    <3>1. PICK j \in 1..Len(declared) : rev[j] = declared[i] /\ rev[i] = declared[j]
      BY <1>5
    <3>2. rev[j][key] = declared[i][key] /\ rev[i][key] = declared[j][key] /\ j \in 1..Len(rev)
      BY <1>4, <3>1
    <3> QED BY <3>2
  <2>2. 1..Len(rev) = 1..Len(declared)
    BY <1>4
  <2> QED BY <2>1, <2>2
<1>7. \A key \in {"memory", "cpus"} : eff(rev, key) = eff(declared, key)
  <2> SUFFICES ASSUME NEW key \in {"memory", "cpus"} PROVE eff(rev, key) = eff(declared, key)
    OBVIOUS
  <2>1. /\ Tightest(engine[key], Limits(declared, Len(declared), key), eff(rev, key))
        /\ Tightest(engine[key], Limits(declared, Len(declared), key), eff(declared, key))
    BY <1>3, <1>4, <1>6
  <2>2. Limits(declared, Len(declared), key) \subseteq Nat \ {0} /\ engine[key] \in Nat \cup {None}
    BY <1>1, LimitsAreKnown
  <2> HIDE DEF eff
  <2> QED BY <2>1, <2>2, TightestIsOne, Zenon
<1>8. off(rev) <=> off(declared)
  BY <1>4, <1>5
<1>9. Agent!compare_limits(host, engine, rev, needsNetwork) = Agent!compare_limits(host, engine, declared, needsNetwork)
  <2>1. \A P, Q : (P <=> Q) => Agent!When(P, "network") = Agent!When(Q, "network")
    BY DEF Agent!When
  <2>2. eff(rev, "memory") = eff(declared, "memory") /\ eff(rev, "cpus") = eff(declared, "cpus")
    BY <1>7
  <2>3. Agent!When(off(rev), "network") = Agent!When(off(declared), "network")
    <3> HIDE DEF off
    <3> QED BY <1>8 DEF Agent!When
  <2> HIDE DEF eff, off
  <2>4. Lacks(host, eff(rev, "memory"), eff(rev, "cpus"), off(rev))
          = Lacks(host, eff(declared, "memory"), eff(declared, "cpus"), off(declared))
    BY <2>2, <2>3, Zenon DEF Lacks
  <2> QED BY <1>2, <2>4
<1>10. ASSUME declared # <<>>
       PROVE  Agent!compare_limits(host, engine, Tail(declared), needsNetwork)
                \subseteq Agent!compare_limits(host, engine, declared, needsNetwork)
  <2> DEFINE rest == Tail(declared)
  <2>1. rest \in Seq(Tight) /\ Len(rest) = Len(declared) - 1 /\ \A i \in 1..Len(rest) : rest[i] = declared[i + 1]
    BY <1>10
  <2>2. \A i \in 1..Len(rest) : i + 1 \in 1..Len(declared)
    BY <2>1
  <2> HIDE DEF rest
  <2>3. \A key : Limits(rest, Len(rest), key) \subseteq Limits(declared, Len(declared), key)
    BY <2>1, <2>2 DEF Limits
  <2>4. off(rest) => off(declared)
    BY <2>1, <2>2
  <2>5. ASSUME NEW key \in {"memory", "cpus"}, Agent!Known(eff(rest, key))
        PROVE  /\ Agent!Known(eff(declared, key)) /\ eff(declared, key) \in Nat /\ eff(rest, key) \in Nat
               /\ eff(declared, key) <= eff(rest, key)
    <3>1. /\ Tightest(engine[key], Limits(declared, Len(declared), key), eff(declared, key))
          /\ Tightest(engine[key], Limits(rest, Len(rest), key), eff(rest, key))
      BY <1>3, <2>1
    <3>2. Limits(declared, Len(declared), key) \subseteq Nat \ {0} /\ engine[key] \in Nat \cup {None}
      BY <1>1, LimitsAreKnown
    <3>3. Limits(rest, Len(rest), key) \subseteq Limits(declared, Len(declared), key)
      BY <2>3
    <3> HIDE DEF eff
    <3>4. Agent!Known(eff(rest, key))
      BY <2>5
    <3> QED BY <3>1, <3>2, <3>3, <3>4, TightestOfFewer
  <2>6. \A P, Q, x : (P => Q) => Agent!When(P, x) \subseteq Agent!When(Q, x)
    BY DEF Agent!When
  <2>7. Agent!Known(host.memory) /\ Agent!Known(eff(rest, "memory")) /\ 4 * eff(rest, "memory") < host.memory =>
          Agent!Known(eff(declared, "memory")) /\ 4 * eff(declared, "memory") < host.memory
    <3>1. Agent!Known(host.memory) => host.memory \in Nat
      BY DEF Agent!Known
    <3> HIDE DEF eff
    <3> QED BY <2>5, <3>1
  <2>8. Agent!Known(host.cpus) /\ Agent!Known(eff(rest, "cpus")) /\ eff(rest, "cpus") < host.cpus =>
          Agent!Known(eff(declared, "cpus")) /\ eff(declared, "cpus") < host.cpus
    <3>1. Agent!Known(host.cpus) => host.cpus \in Nat
      BY DEF Agent!Known
    <3> HIDE DEF eff
    <3> QED BY <2>5, <3>1
  <2> HIDE DEF eff, off
  <2>9. Lacks(host, eff(rest, "memory"), eff(rest, "cpus"), off(rest))
          \subseteq Lacks(host, eff(declared, "memory"), eff(declared, "cpus"), off(declared))
    <3>1. \A P, Q : (P => Q) => Agent!When(P, "network") \subseteq Agent!When(Q, "network")
      BY <2>6
    <3>2. Agent!When(off(rest), "network") \subseteq Agent!When(off(declared), "network")
      BY <2>4 DEF Agent!When
    <3>3. Agent!When(Agent!Known(host.memory) /\ Agent!Known(eff(rest, "memory"))
                       /\ 4 * eff(rest, "memory") < host.memory, "memory")
            \subseteq Agent!When(Agent!Known(host.memory) /\ Agent!Known(eff(declared, "memory"))
                       /\ 4 * eff(declared, "memory") < host.memory, "memory")
      BY <2>7 DEF Agent!When
    <3>4. Agent!When(Agent!Known(host.cpus) /\ Agent!Known(eff(rest, "cpus")) /\ eff(rest, "cpus") < host.cpus, "cpu")
            \subseteq Agent!When(Agent!Known(host.cpus) /\ Agent!Known(eff(declared, "cpus"))
                       /\ eff(declared, "cpus") < host.cpus, "cpu")
      BY <2>8 DEF Agent!When
    <3> QED BY <3>2, <3>3, <3>4 DEF Lacks
  <2> QED BY <1>2, <2>9 DEF rest
<1>11. /\ ~Agent!Known(host.memory) => "memory" \notin Agent!compare_limits(host, engine, declared, needsNetwork)
       /\ ~Agent!Known(host.cpus) => "cpu" \notin Agent!compare_limits(host, engine, declared, needsNetwork)
  <2> HIDE DEF eff, off
  <2> QED BY <1>2 DEF Lacks, Agent!When
<1> QED BY <1>9, <1>10, <1>11, Zenon DEF Agent!SandboxIsComparedAt, rev

-----------------------------------------------------------------------------
(* The score and the gate.                                                 *)

LEMMA EarnedIs ==
  ASSUME NEW s
  PROVE  LET e == Agent!Earned(s)
         IN /\ e.present \in {0, 3} /\ e.declared \in {0, 2} /\ e.resolve \in {0, 2, 4}
            /\ e.current \in {0, 3} /\ e.ci \in {0, 3} /\ e.agree \in {0, 2}
<1> DEFINE resolve == CASE ~s.runnable -> 0
                        [] s.runnable /\ "missing" \in s.checks -> 0
                        [] s.runnable /\ "missing" \notin s.checks /\ "not-on-path" \in s.checks -> 2
                        [] OTHER -> 4
<1>1. resolve \in {0, 2, 4}
  BY Zenon
<1>2. Agent!Earned(s).resolve = resolve
  BY DEF Agent!Earned
<1> HIDE DEF resolve
<1> QED BY <1>1, <1>2 DEF Agent!Earned

LEMMA TotalIs ==
  ASSUME NEW s
  PROVE  Agent!total(s) \in 0..17
<1> DEFINE e == Agent!Earned(s)
<1>1. /\ e.present \in {0, 3} /\ e.declared \in {0, 2} /\ e.resolve \in {0, 2, 4}
      /\ e.current \in {0, 3} /\ e.ci \in {0, 3} /\ e.agree \in {0, 2}
  BY EarnedIs
<1>2. Agent!total(s) = e.present + e.declared + e.resolve + e.current + e.ci + e.agree
  BY DEF Agent!total
<1> HIDE DEF e
<1> QED BY <1>1, <1>2

LEMMA PercentIs ==
  ASSUME NEW s
  PROVE  Agent!percent(s) = (200 * Agent!total(s) + 17) \div 34 /\ Agent!percent(s) \in Nat
<1>1. Agent!percent(s) = (200 * Agent!total(s) + 17) \div 34
  BY DEF Agent!percent, Agent!Possible
<1> QED BY <1>1, TotalIs

LEMMA PercentFollows ==
  ASSUME NEW s, NEW t, Agent!total(s) <= Agent!total(t)
  PROVE  Agent!percent(s) <= Agent!percent(t)
<1>1. \A a, b \in 0..17 : a <= b => (200 * a + 17) \div 34 <= (200 * b + 17) \div 34
  <2> SUFFICES ASSUME NEW a \in 0..17, NEW b \in 0..17, a <= b
               PROVE  (200 * a + 17) \div 34 <= (200 * b + 17) \div 34
    OBVIOUS
  <2> QED OBVIOUS
<1> QED BY <1>1, TotalIs, PercentIs

LEMMA GateIsConsistentFor ==
  ASSUME NEW s, NEW shell
  PROVE  Agent!GateIsConsistentAt(s, shell)
<1>1. Agent!percent(s) \in Nat
  BY PercentIs
<1>2. Agent!grade(s) \in {"workable", "ready"} <=> Agent!percent(s) >= 60
  <2> DEFINE p == Agent!percent(s)
  <2>1. Agent!grade(s) = CASE p >= 90 -> "ready" [] p \in 60..89 -> "workable" [] p \in 30..59 -> "rough"
                           [] OTHER -> "unprepared"
    BY DEF Agent!grade
  <2>2. \/ p >= 90 /\ p >= 60 /\ ~(p \in 60..89) /\ ~(p \in 30..59)
        \/ ~(p >= 90) /\ p >= 60 /\ p \in 60..89 /\ ~(p \in 30..59)
        \/ ~(p >= 90) /\ ~(p >= 60) /\ ~(p \in 60..89)
    BY <1>1
  <2> HIDE DEF p
  <2>3. p >= 60 => Agent!grade(s) \in {"workable", "ready"}
    BY <2>1, <2>2, Zenon
  <2>4. ~(p >= 60) => Agent!grade(s) \in {"rough", "unprepared"}
    BY <2>1, <2>2, Zenon
  <2> QED BY <2>3, <2>4 DEF p
<1> QED BY <1>2 DEF Agent!GateIsConsistentAt, Agent!Allowed, Agent!DEFAULT_THRESHOLD
-----------------------------------------------------------------------------

(* What a command was given is among what its assumptions speak of.        *)
LEMMA InputIsRead ==
  ASSUME InputFits
  PROVE  /\ Given("versions") => input[1] \in Parsed /\ input[2] \in Parsed
         /\ Given("advisories") => input \in SUBSET Parsed
         /\ Given("lockfiles") =>
              /\ input[1].tool \in DOMAIN Version!Floors
              /\ input[2] \in Parsed \cup NotAVersion /\ input[3] \in Parsed \cup NotAVersion
         /\ Given("monorepo") => Len(input) \in Nat /\ DOMAIN input = 1..Len(input)
<1>1. Version!Parsed = Parsed
  BY DEF Version!Parsed, Parsed
<1>2. Given("versions") => input[1] \in Parsed /\ input[2] \in Parsed
  BY <1>1, VersionsAssumption DEF InputFits
<1>3. Given("advisories") => input \in SUBSET Parsed
  BY <1>1, VersionsAssumption DEF InputFits
<1>4. Given("lockfiles") =>
        /\ input[1].tool \in DOMAIN Version!Floors
        /\ input[2] \in Parsed \cup NotAVersion /\ input[3] \in Parsed \cup NotAVersion
  BY <1>1, LocksAssumption, Zenon DEF InputFits
<1>5. Given("monorepo") => Len(input) \in Nat /\ DOMAIN input = 1..Len(input)
  BY TreesAssumption, Zenon DEF InputFits
<1> QED BY <1>2, <1>3, <1>4, <1>5

LEMMA ConstantsAreVersions ==
  /\ ComparedVersions \subseteq Parsed /\ Groups \subseteq SUBSET (Operators \X Parsed)
  /\ Version!Operators = Operators
<1>1. Version!Parsed = Parsed /\ Version!Operators = Operators
  BY DEF Version!Parsed, Parsed, Version!Operators, Operators
<1> QED BY <1>1, VersionsAssumption

(* Ranges and advisories mean one thing for every version that was read,   *)
(* nested projects that cannot agree are told of and what a lockfile asks  *)
(* for is never called fine unless it was compared (core/versioning.py,    *)
(* compliance/advisories.py, project/monorepo.py, rules/packs/lockfiles.py)*)
THEOREM RangesMeanWhatTheySayAlways == CommandsSpec => []RangesMeanWhatTheySay
<1>1. ASSUME InputFits PROVE RangesMeanWhatTheySay
  <2>1. VersionOrderIsTotal
    <3> SUFFICES ASSUME Given("versions"), NEW c \in ComparedVersions
                 PROVE  Version!OrderIsTotalAt(input[1], input[2], c)
      BY DEF VersionOrderIsTotal
    <3>1. input[1] \in Parsed /\ input[2] \in Parsed /\ c \in Parsed
      BY <1>1, InputIsRead, ConstantsAreVersions
    <3>2. OrderIsTotalAt(input[1], input[2], c)
      BY <3>1, OrderIsTotalAlways
    <3> QED BY <3>2, PartsAreTheSame
  <2>2. RangesAreConvex
    <3> SUFFICES ASSUME Given("versions"), NEW c \in ComparedVersions, NEW group \in Groups
                 PROVE  Version!RangesAreConvexAt(input[1], input[2], c, group)
      BY DEF RangesAreConvex
    <3>1. input[1] \in Parsed /\ input[2] \in Parsed /\ c \in Parsed
      BY <1>1, InputIsRead, ConstantsAreVersions
    <3>2. group \in SUBSET (Operators \X Parsed)
      BY ConstantsAreVersions
    <3>3. RangesAreConvexAt(input[1], input[2], c, group)
      BY <3>1, <3>2, RangesAreConvexAlways
    <3> QED BY <3>3, PartsAreTheSame
  <2>3. ClausesMeanWhatTheySay
    <3> SUFFICES ASSUME Given("versions"), NEW op \in Version!Operators
                 PROVE  Version!ClausesMeanWhatTheySayAt(op, input[1], input[2])
      BY DEF ClausesMeanWhatTheySay
    <3>1. input[1] \in Parsed /\ input[2] \in Parsed /\ op \in Operators
      BY <1>1, InputIsRead, ConstantsAreVersions
    <3>2. ClausesMeanWhatTheySayAt(op, input[1], input[2])
      BY <3>1, ClausesMeanWhatTheySayAlways
    <3> QED BY <3>2, PartsAreTheSame
  <2>4. FixesHold
    <3> SUFFICES ASSUME Given("advisories"), NEW a \in ComparedVersions, NEW b \in ComparedVersions
                 PROVE  Version!FixesHoldAt(a, b, input)
      BY DEF FixesHold
    <3>1. a \in Parsed /\ b \in Parsed /\ input \in SUBSET Parsed
      BY <1>1, InputIsRead, ConstantsAreVersions
    <3>2. FixesHoldAt(a, b, input)
      BY <3>1, FixesHoldAlways
    <3> QED BY <3>2, PartsAreTheSame
  <2>5. ConflictsAreTold
    <3> SUFFICES ASSUME Given("monorepo") PROVE Version!ConflictsAreToldAt(input, ComparedVersions)
      BY DEF ConflictsAreTold
    <3> QED BY <1>1, InputIsRead, NestedConflictsAreTold
  <2>6. LocksAreCompared
    <3> SUFFICES ASSUME Given("lockfiles")
                 PROVE  /\ Version!UnknownIsSaidAt(input[1], input[2], input[4])
                        /\ {input[2], input[3]} \cap NotAVersion = {} =>
                             Version!UpgradesKeepFormatsAt(input[1], input[2], input[3])
      BY DEF LocksAreCompared
    <3>1. Version!UnknownIsSaidAt(input[1], input[2], input[4])
      BY UnknownIsSaid
    <3>2. ASSUME {input[2], input[3]} \cap NotAVersion = {}
          PROVE  Version!UpgradesKeepFormatsAt(input[1], input[2], input[3])
      <4>1. /\ input[2] \in Parsed /\ input[2] \notin NotAVersion
            /\ input[3] \in Parsed /\ input[3] \notin NotAVersion
            /\ input[1].tool \in DOMAIN Version!Floors
        BY <1>1, <3>2, InputIsRead
      <4> QED BY <4>1, UpgradesKeepFormats
    <3> QED BY <3>1, <3>2
  <2> QED BY <2>1, <2>2, <2>3, <2>4, <2>5, <2>6 DEF RangesMeanWhatTheySay
<1> QED BY <1>1, InitFits, StepFits, PTL DEF CommandsSpec

(* A short list of rows is a sequence of them. *)
LEMMA RowsAreRead ==
  ASSUME NEW R, NEW n \in Nat, NEW rows \in UpTo(n, R)
  PROVE  rows \in Seq(R)
<1>1. PICK k \in 0..n : rows \in [1..k -> R]
  BY DEF UpTo
<1> QED BY <1>1

(* No published number flatters: the p90 reaches the slow machines, no     *)
(* machine looks faster than it was and none that is stuck is left out,    *)
(* while every snapshot is read going on reporting changes nothing, a      *)
(* simulated rollout counts each machine it has a row of once and by its   *)
(* latest, and strictness costs, and a rate of reproduction is told of     *)
(* enough attempts and raised by successes alone (server/analytics.py,     *)
(* server/db.py, reproduce/corpus.py).                                     *)
THEOREM NumbersAreHonestAlways == CommandsSpec => []NumbersAreHonest
<1>1. ASSUME InputFits PROVE NumbersAreHonest
  <2>1. TailIsReached
    <3> SUFFICES ASSUME Given("percentile") PROVE Fleet!TailIsReachedAt(input)
      BY DEF TailIsReached
    <3>1. input \in Seq(Int) /\ input # <<>>
      BY <1>1, FleetAssumption DEF InputFits
    <3> QED BY <3>1, TailIsReachedFor
  <2>2. OnboardingIsStable
    <3> SUFFICES ASSUME Given("onboarding"), NEW row \in ReadyRows
                 PROVE  Fleet!OnboardingIsStableAt(input[1], input[2], row)
      BY DEF OnboardingIsStable
    <3>1. input[1] \in Enrolments /\ input[2] \in UpTo(2, ReadyRows)
      BY <1>1 DEF InputFits
    <3>2. input[2] \in Seq(ReadyRows)
      BY <3>1, RowsAreRead
    <3>3. /\ IsFiniteSet(DOMAIN input[1]) /\ MINIMUM_COHORT \in Nat /\ FactsLimit \in Nat
          /\ \A r \in ReadyRows : r.at \in Int \cup {None}
      BY <3>1, FleetAssumption
    <3> QED BY <3>2, <3>3, OnboardingIsStableFor
  <2>3. SimulationIsHonest
    <3> SUFFICES ASSUME Given("simulate"), NEW required \in Requirements, NEW stricter \in Requirements,
                        NEW row \in FleetRows
                 PROVE  Fleet!SimulationIsHonestAt(input[2], required, stricter, row)
      BY DEF SimulationIsHonest
    <3>1. input[2] \in UpTo(2, FleetRows)
      BY <1>1 DEF InputFits
    <3>2. input[2] \in Seq(FleetRows)
      BY <3>1, RowsAreRead
    <3>3. /\ IsFiniteSet(DOMAIN required) /\ DOMAIN required \subseteq DOMAIN row.tools
          /\ FactsLimit \in Nat \ {0}
          /\ row = [machine |-> row.machine, tools |-> row.tools] /\ None # Unreadable
      BY FleetAssumption, Zenon
    <3> QED BY <3>2, <3>3, SimulationIsHonestFor
  <2>4. RateIsEarned
    <3> SUFFICES ASSUME Given("repro-rate") PROVE Recipe!RateIsEarnedAt(input)
      BY DEF RateIsEarned
    <3>1. input \in [Recipe!Outcomes -> Nat]
      BY <1>1, AttemptsAssumption DEF InputFits
    <3> QED BY <3>1, RateIsEarnedFor
  <2> QED BY <2>1, <2>2, <2>3, <2>4 DEF NumbersAreHonest
<1> QED BY <1>1, InitFits, StepFits, PTL DEF CommandsSpec

=============================================================================
