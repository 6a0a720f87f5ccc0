------------------------------ MODULE Versioning ------------------------------
(***************************************************************************)
(* Versions and ranges: core/versioning.py, and the advisory lookup of     *)
(* compliance/advisories.py that compares versions with it.                *)
(*                                                                         *)
(* A version is the tuple of its numbers and its tag; tags are numbered in *)
(* the order of their text and NoTag is a release.  A range is a set of    *)
(* groups, a group a set of clauses [op, version].                         *)
(***************************************************************************)
EXTENDS Integers, Sequences, FiniteSets

NoTag == 0

(* What parse_version returns, and the operators a clause is written with. *)
Parsed    == {v \in [nums : Seq(Nat), tag : Nat] : Len(v.nums) >= 1}
Operators == {"", "==", "=", ">=", "<=", ">", "<", "!="}

Release(major, minor) == [nums |-> <<major, minor, 0>>, tag |-> NoTag]

(* _pad: a missing component is zero. *)
Component(v, i) == IF i <= Len(v.nums) THEN v.nums[i] ELSE 0

Longer(a, b) == IF Len(a.nums) >= Len(b.nums) THEN Len(a.nums) ELSE Len(b.nums)

LessUnpadded(a, b) ==         \* mutant: tuples compared as Python compares them
  \E i \in 1..Longer(a, b) :
    /\ \A j \in 1..(i - 1) : j <= Len(a.nums) /\ j <= Len(b.nums) /\ a.nums[j] = b.nums[j]
    /\ i <= Len(b.nums)
    /\ i <= Len(a.nums) => a.nums[i] < b.nums[i]

NumbersLess(a, b) ==
  \E i \in 1..Longer(a, b) :
    /\ Component(a, i) < Component(b, i)
    /\ \A j \in 1..(i - 1) : Component(a, j) = Component(b, j)

(* Of two versions with equal numbers: a tagged one precedes the release,  *)
(* two tags are in the order of their text.                                *)
TagLess(a, b) == a.tag # NoTag /\ (b.tag = NoTag \/ a.tag < b.tag)

(* _cmp_versions(a, b) < 0 *)
Precedes(a, b) ==
  \/ NumbersLess(a, b)
  \/ ~NumbersLess(a, b) /\ ~NumbersLess(b, a) /\ TagLess(a, b)

SameVersion(a, b) == ~Precedes(a, b) /\ ~Precedes(b, a)

(* Version.__lt__ compares the keys (nums, tagged?, tag): the tuples are   *)
(* not padded, and a tagged version comes after the release.               *)
KeyLess(a, b) ==
  \/ LessUnpadded(a, b)
  \/ a.nums = b.nums /\ a.tag < b.tag

-----------------------------------------------------------------------------

(* SpecClause.satisfied_by *)
Accepts(clause, v) ==
  CASE clause.op = "*"         -> TRUE
    [] clause.op = ">="        -> ~Precedes(v, clause.version)
    [] clause.op = "<="        -> ~Precedes(clause.version, v)
    [] clause.op = ">"         -> Precedes(clause.version, v)
    [] clause.op = "<"         -> Precedes(v, clause.version)
    [] clause.op = "!="        -> ~SameVersion(v, clause.version)
    [] clause.op \in {"=", "=="} -> SameVersion(v, clause.version)

GroupAccepts(group, v) == \A clause \in group : Accepts(clause, v)
RangeAccepts(range, v) == \E group \in range : GroupAccepts(group, v)

Clause(op, version) == [op |-> op, version |-> version]

(* _partial_clauses: what a clause with one or two components stands for.  *)
PartialClauses(op, v) ==
  LET major == v.nums[1]
      minor == Component(v, 2)
      written == Clause(IF op = "" THEN "==" ELSE op, v)
  IN CASE Len(v.nums) >= 3 -> {written}
       [] Len(v.nums) = 1 /\ op \in {"<", "<="} -> {Clause("<", Release(major + 1, 0))}
       [] Len(v.nums) = 2 /\ op \in {"<", "<="} -> {written}
       [] Len(v.nums) < 3 /\ op \in {">", ">="} -> {Clause(">=", Release(major, minor))}
       [] Len(v.nums) < 3 /\ op \in {"", "==", "="} ->
            {Clause(">=", Release(major, minor)), Clause("<", Release(major + 1, 0))}
       [] OTHER -> {written}

Anything == {{Clause("*", Release(0, 0))}}

(* parse_spec: a range as written is a set of groups of <<op, version>>,   *)
(* in which empty clauses and groups have been dropped.                    *)
parse_spec(written) ==
  IF written = {} THEN Anything
  ELSE {UNION {PartialClauses(part[1], part[2]) : part \in group} : group \in written}

satisfies(v, written) == RangeAccepts(parse_spec(written), v)

-----------------------------------------------------------------------------

Branch(v) == SubSeq(v.nums, 1, IF Len(v.nums) < 2 THEN Len(v.nums) ELSE 2)

(* is_affected: not before the version that introduced the fault (a set of *)
(* at most one), and before the highest fix of its own branch, or before   *)
(* the highest of all when its branch has none.                            *)
IsAffected(v, introduced, fixes) ==
  LET own == {f \in fixes : Branch(f) = Branch(v)}
  IN /\ \A i \in introduced : ~KeyLess(v, i)
     /\ \E f \in (IF own # {} THEN own ELSE fixes) : KeyLess(v, f)

-----------------------------------------------------------------------------

(* The comparison that ranges use is a total order in which padding and    *)
(* nothing else is ignored: what one machine accepts does not depend on    *)
(* which two versions happened to be compared (core/versioning.py,         *)
(* _cmp_versions).                                                         *)
OrderIsTotalAt(a, b, c) ==
  /\ ~(Precedes(a, b) /\ Precedes(b, a))
  /\ Precedes(a, b) /\ Precedes(b, c) => Precedes(a, c)
  /\ SameVersion(a, b) /\ SameVersion(b, c) => SameVersion(a, c)
  /\ SameVersion(a, b) <=>
       a.tag = b.tag /\ \A i \in 1..Longer(a, b) : Component(a, i) = Component(b, i)

(* A range without "!=" has no holes: a version between two accepted ones  *)
(* is accepted, whatever mixture of partial and full bounds it was written *)
(* with, and a bound and the rest of the line meet without a gap.          *)
RangesAreConvexAt(a, b, c, group) ==
  LET accepts(v) == RangeAccepts(parse_spec({group}), v)
  IN (\A part \in group : part[1] # "!=") =>
       (accepts(a) /\ accepts(c) /\ Precedes(a, b) /\ Precedes(b, c) => accepts(b))

(* A clause means what the module says it means: the operator itself for a *)
(* version written in full, "<=16" is <17, a bare 18 is >=18,<19, and a    *)
(* pre-release of the lower bound is outside.                              *)
ClausesMeanWhatTheySayAt(op, bound, v) ==
  LET accepted == satisfies(v, {{<<op, bound>>}})
      major    == bound.nums[1]
  IN /\ Len(bound.nums) = 3 =>
          (accepted <=> Accepts(Clause(IF op = "" THEN "==" ELSE op, bound), v))
     /\ Len(bound.nums) = 1 /\ op = "<=" => (accepted <=> Precedes(v, Release(major + 1, 0)))
     /\ Len(bound.nums) = 1 /\ op = "" =>
          (accepted <=> Precedes(v, Release(major + 1, 0)) /\ ~Precedes(v, Release(major, 0)))
     /\ op = ">=" /\ bound.tag = NoTag => (accepted <=> ~Precedes(v, bound))

(* An upgrade inside a branch never makes a fixed version affected again,  *)
(* and a fix of one's own branch counts more than a higher fix of another: *)
(* "2.44.0 is affected and 2.44.1 is not".                                 *)
FixesHoldAt(a, b, fixes) ==
  /\ Branch(a) = Branch(b) /\ KeyLess(a, b) /\ ~IsAffected(a, {}, fixes)
       => ~IsAffected(b, {}, fixes)
  /\ a \in fixes /\ (\A f \in fixes : Branch(f) = Branch(a) => f = a)
       => ~IsAffected(a, {}, fixes)
  /\ KeyLess(a, b) => ~IsAffected(a, {b}, fixes)

=============================================================================
