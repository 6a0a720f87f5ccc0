---------------------------- MODULE RemediesProofs ----------------------------
(***************************************************************************)
(* Proofs about the way from a finding to its repair: the plan, its        *)
(* execution, the rehearsal of a graph of steps, and the scores and the    *)
(* recipe of a project.  A plan is a permutation, a rehearsal a walk that  *)
(* keeps to its invariant, and a score or a recipe depends on a manifest   *)
(* through the set of what is declared, which only grows.                  *)
(***************************************************************************)
EXTENDS CommandsProofs

-----------------------------------------------------------------------------
(* The plan.                                                               *)

Risks == {"SAFE", "LOW", "MEDIUM", "HIGH"}

LEMMA RanksAreNumbers == \A risk \in Risks : Remedy!Rank(risk) \in 0..3
<1>1. /\ Remedy!Rank("SAFE") = 0 /\ Remedy!Rank("LOW") = 1
      /\ Remedy!Rank("MEDIUM") = 2 /\ Remedy!Rank("HIGH") = 3
  BY DEF Remedy!Rank
<1> QED BY <1>1 DEF Risks

LEMMA RemedyCounts == \A S : Remedy!Cardinality(S) = Cardinality(S)
BY Zenon DEF Remedy!Cardinality, Cardinality

(* Every step has a place of its own, a riskier one a later place.         *)
Placed(plan, n) ==
  /\ \A i \in 1..n : Remedy!Place(plan, i) \in 1..n
  /\ \A i, j \in 1..n : Remedy!Place(plan, i) = Remedy!Place(plan, j) => i = j
  /\ \A k \in 1..n : \E i \in 1..n : Remedy!Place(plan, i) = k
  /\ \A i, j \in 1..n : Remedy!Rank(plan[i].risk) > Remedy!Rank(plan[j].risk) =>
                          Remedy!Place(plan, i) > Remedy!Place(plan, j)

LEMMA StepsHavePlaces ==
  ASSUME NEW n \in Nat, NEW plan, Len(plan) = n, \A i \in 1..n : Remedy!Rank(plan[i].risk) \in 0..3
  PROVE  Placed(plan, n)
<1> DEFINE r(i) == Remedy!Rank(plan[i].risk)
           place(i) == Remedy!Place(plan, i)
           Below(i) == {j \in 1..n : r(j) < r(i) \/ (r(j) = r(i) /\ j <= i)}
<1>1. \A i \in 1..n : r(i) \in Int
  OBVIOUS
<1>2. \A i \in 1..n : place(i) = Cardinality(Below(i))
  BY RemedyCounts, Zenon DEF Remedy!Place
<1> HIDE DEF r, place
<1>3. IsFiniteSet(1..n) /\ Cardinality(1..n) = n
  BY FS_Interval
<1>4. ASSUME NEW i \in 1..n
      PROVE  i \in Below(i) /\ IsFiniteSet(Below(i)) /\ Cardinality(Below(i)) \in 1..n
  <2>1. i \in Below(i) /\ Below(i) \subseteq 1..n
    BY <1>1
  <2>2. IsFiniteSet(Below(i)) /\ Cardinality(Below(i)) <= n
    BY <1>3, <2>1, FS_Subset
  <2>3. Cardinality(Below(i)) \in Nat /\ Cardinality(Below(i)) # 0
    BY <2>1, <2>2, FS_CardinalityType, FS_EmptySet
  <2> HIDE DEF Below
  <2> QED BY <2>1, <2>2, <2>3
<1>5. ASSUME NEW i \in 1..n, NEW j \in 1..n, r(j) < r(i) \/ (r(j) = r(i) /\ j < i)
      PROVE  place(j) < place(i)
  <2>1. Below(j) \subseteq Below(i)
    BY <1>1, <1>5
  <2>2. i \notin Below(j)
    BY <1>1, <1>5
  <2>3. Below(i) # Below(j)
    BY <1>4, <2>2
  <2> HIDE DEF Below
  <2>4. Cardinality(Below(j)) <= Cardinality(Below(i)) /\ Cardinality(Below(j)) # Cardinality(Below(i))
    BY <1>4, <2>1, <2>3, FS_Subset
  <2> QED BY <1>2, <1>4, <2>4
<1>6. \A i \in 1..n : place(i) \in 1..n
  <2> HIDE DEF Below
  <2> QED BY <1>2, <1>4
<1>7. ASSUME NEW i \in 1..n, NEW j \in 1..n, place(i) = place(j) PROVE i = j
  <2>1. i = j \/ r(j) < r(i) \/ r(i) < r(j) \/ (r(j) = r(i) /\ j < i) \/ (r(i) = r(j) /\ i < j)
    BY <1>1
  <2> QED BY <1>5, <1>6, <1>7, <2>1
<1>8. ASSUME NEW k \in 1..n PROVE \E i \in 1..n : place(i) = k
  <2> DEFINE f == [i \in 1..n |-> place(i)]
  <2>1. f \in [1..n -> 1..n] /\ \A i \in 1..n : f[i] = place(i)
    BY <1>6
  <2>2. \A i, j \in 1..n : f[i] = f[j] => i = j
    BY <1>7, <2>1
  <2> HIDE DEF f
  <2>3. f \in Injection(1..n, 1..n)
    BY <2>1, <2>2 DEF Injection, IsInjective
  <2>4. f \in Surjection(1..n, 1..n)
    BY <1>3, <2>3, FS_Injection
  <2> QED BY <2>1, <2>4 DEF Surjection
<1> QED BY <1>5, <1>6, <1>7, <1>8 DEF Placed, r, place

(* The steps the findings ask for.                                         *)
StepsFor(found) == {Remedy!StepOf(found[i]) : i \in 1..Len(found)}

LEMMA KeepFirstIsTyped ==
  ASSUME NEW T, NEW a \in Seq(T), NEW f, Remedy!StepOf(f) \in T
  PROVE  Remedy!KeepFirst(a, f) \in Seq(T)
<1>1. Append(a, Remedy!StepOf(f)) \in Seq(T)
  BY AppendProperties
<1> QED BY <1>1, Zenon DEF Remedy!KeepFirst

(* The plan as it grows, finding after finding.                             *)
Planned(h, found) ==
  /\ h \in [0..Len(found) -> Seq(StepsFor(found))] /\ h[0] = <<>>
  /\ \A k \in 0..(Len(found) - 1) : h[k + 1] = Remedy!KeepFirst(h[k], found[k + 1])

LEMMA PlanIsALoop ==
  ASSUME NEW S, NEW found \in Seq(S)
  PROVE  \E h : Planned(h, found) /\ Remedy!FoldLeft(Remedy!KeepFirst, <<>>, found) = h[Len(found)]
<1> DEFINE n == Len(found)
           A == Seq(StepsFor(found))
           next(acc, i) == Remedy!KeepFirst(acc, found[i])
           G == [p \in A \X (1..n) |-> next(p[1], p[2])]
           Loop(f) == f = [s \in SUBSET (1..n) |-> IF s = {} THEN <<>>
                                                  ELSE next(f[s \ {Remedy!Max(s)}], Remedy!Max(s))]
           f0 == CHOOSE f : Loop(f)
<1>1. n \in Nat /\ DOMAIN found = 1..n
  OBVIOUS
<1>2. <<>> \in A
  OBVIOUS
<1>3. \A a \in A, i \in 1..n : next(a, i) \in A
  <2>1. \A i \in 1..n : Remedy!StepOf(found[i]) \in StepsFor(found)
    BY DEF StepsFor
  <2> QED BY <2>1, KeepFirstIsTyped, Zenon
<1>4. Remedy!FoldLeft(Remedy!KeepFirst, <<>>, found) = f0[1..n]
  BY <1>1 DEF Remedy!FoldLeft, Remedy!MapThenFoldSet
<1> HIDE DEF next, A
<1>5. G \in [A \X (1..n) -> A]
  BY <1>3
<1>6. PICK f : IsFold(f, n, A, <<>>, G)
  <2> HIDE DEF G, n
  <2> QED BY <1>1, <1>2, <1>5, FoldExists, Zenon
<1>7. \A s : Remedy!Max(s) = Greatest(s)
  BY DEF Remedy!Max, Greatest
<1>8. \A s \in SUBSET (1..n) : s # {} => Greatest(s) \in s
  <2> SUFFICES ASSUME NEW s \in SUBSET (1..n), s # {} PROVE Greatest(s) \in s
    OBVIOUS
  <2> HIDE DEF n
  <2> QED BY <1>1, GreatestIsThere, Zenon
<1>9. Loop(f)
  <2>0. /\ f \in [SUBSET (1..n) -> A]
        /\ \A s \in SUBSET (1..n) : f[s] = IF s = {} THEN <<>> ELSE G[<<f[s \ {Greatest(s)}], Greatest(s)>>]
    BY <1>6 DEF IsFold
  <2>1. ASSUME NEW s \in SUBSET (1..n), s # {}
        PROVE  f[s] = next(f[s \ {Remedy!Max(s)}], Remedy!Max(s))
    <3>1. Greatest(s) \in 1..n /\ f[s \ {Greatest(s)}] \in A
      BY <1>8, <2>0, <2>1
    <3>2. G[<<f[s \ {Greatest(s)}], Greatest(s)>>] = next(f[s \ {Greatest(s)}], Greatest(s))
      BY <3>1
    <3> HIDE DEF G
    <3> QED BY <1>7, <2>0, <2>1, <3>2
  <2> HIDE DEF G
  <2> QED BY <2>0, <2>1
<1>10. Loop(f0)
  <2> HIDE DEF Loop
  <2> QED BY <1>9, Zenon
<1>11. f0[1..0] = <<>>
  <2>1. 1..0 \in SUBSET (1..n) /\ 1..0 = {}
    OBVIOUS
  <2> HIDE DEF f0
  <2> QED BY <1>10, <2>1
<1>12. ASSUME NEW k \in 0..(n - 1) PROVE f0[1..(k + 1)] = next(f0[1..k], k + 1)
  <2>1. 1..(k + 1) \in SUBSET (1..n) /\ k \in Nat
    OBVIOUS
  <2>2. 1..(k + 1) # {} /\ Remedy!Max(1..(k + 1)) = k + 1 /\ (1..(k + 1)) \ {k + 1} = 1..k
    BY <1>7, <2>1, GreatestUpTo
  <2> HIDE DEF f0
  <2> QED BY <1>10, <2>1, <2>2
<1>13. FoldsUp(f0, n, A, <<>>, G)
  <2>1. ASSUME NEW k \in 0..(n - 1), f0[1..k] \in A PROVE f0[1..(k + 1)] = G[<<f0[1..k], k + 1>>]
    <3>1. k + 1 \in 1..n
      OBVIOUS
    <3> HIDE DEF f0
    <3> QED BY <1>12, <2>1, <3>1
  <2> HIDE DEF f0, G
  <2> QED BY <1>11, <2>1 DEF FoldsUp
<1> DEFINE h == StepsOf(f0, n)
<1>14. Iterates(h, n, A, <<>>, G)
  <2> HIDE DEF f0, G, n
  <2> QED BY <1>1, <1>2, <1>5, <1>13, FoldIterates, Zenon
<1>15. h[n] = f0[1..n]
  BY <1>1 DEF StepsOf
<1> HIDE DEF h
<1>16. \A k \in 0..(n - 1) : h[k + 1] = next(h[k], k + 1)
  <2>1. \A k \in 0..(n - 1) : h[k] \in A /\ k + 1 \in 1..n
    BY <1>14 DEF Iterates
  <2> QED BY <1>14, <2>1 DEF Iterates
<1>17. h \in [0..n -> A] /\ h[0] = <<>>
  BY <1>14 DEF Iterates
<1>18. Planned(h, found)
  BY <1>16, <1>17 DEF next, A, Planned
<1> QED BY <1>4, <1>15, <1>18

(* What holds of the plan after k findings: one step for each id, each     *)
(* asked for by a finding, and a step for each of the k that asked for one.*)
CoversUpTo(plan, found, k) ==
  /\ plan \in Seq(StepsFor(found))
  /\ \A i, j \in 1..Len(plan) : plan[i].id = plan[j].id => i = j
  /\ \A j \in 1..Len(plan) : \E i \in 1..Len(found) :
       Remedy!HasStep(found[i]) /\ plan[j] = Remedy!StepOf(found[i])
  /\ \A i \in 1..k : Remedy!HasStep(found[i]) =>
       \E j \in 1..Len(plan) : plan[j].id = Remedy!StepOf(found[i]).id

LEMMA PlanGrows ==
  ASSUME NEW S, NEW found \in Seq(S), NEW k \in 0..(Len(found) - 1), NEW plan, CoversUpTo(plan, found, k)
  PROVE  CoversUpTo(Remedy!KeepFirst(plan, found[k + 1]), found, k + 1)
<1> DEFINE f == found[k + 1]
           step == Remedy!StepOf(f)
           Asks(i) == Remedy!HasStep(found[i])
           Step(i) == Remedy!StepOf(found[i])
           m == Len(plan)
<1>1. /\ plan \in Seq(StepsFor(found)) /\ m \in Nat
      /\ \A i, j \in 1..m : plan[i].id = plan[j].id => i = j
      /\ \A j \in 1..m : \E i \in 1..Len(found) : Asks(i) /\ plan[j] = Step(i)
      /\ \A i \in 1..k : Asks(i) => \E j \in 1..m : plan[j].id = Step(i).id
  BY DEF CoversUpTo
<1>2. /\ k \in Nat /\ k + 1 \in 1..Len(found) /\ Step(k + 1) = step
      /\ Asks(k + 1) <=> Remedy!HasStep(f)
  OBVIOUS
<1>3. \A i \in 1..(k + 1) : i \in 1..k \/ i = k + 1
  BY <1>2
<1>4. CASE ~Remedy!HasStep(f)
  <2>1. Remedy!KeepFirst(plan, f) = plan
    BY <1>4, Zenon DEF Remedy!KeepFirst
  <2>2. \A i \in 1..(k + 1) : Asks(i) => \E j \in 1..m : plan[j].id = Step(i).id
    <3> HIDE DEF Asks, Step, m
    <3> QED BY <1>1, <1>2, <1>3, <1>4
  <2> QED BY <1>1, <2>1, <2>2, Zenon DEF CoversUpTo
<1>5. CASE Remedy!HasStep(f) /\ \E i \in 1..m : plan[i].id = step.id
  <2>1. Remedy!KeepFirst(plan, f) = plan
    BY <1>5, Zenon DEF Remedy!KeepFirst
  <2>2. \A i \in 1..(k + 1) : Asks(i) => \E j \in 1..m : plan[j].id = Step(i).id
    <3>1. \E i \in 1..m : plan[i].id = Step(k + 1).id
      BY <1>2, <1>5
    <3> HIDE DEF Asks, Step, m
    <3> QED BY <1>1, <1>3, <3>1
  <2> QED BY <1>1, <2>1, <2>2, Zenon DEF CoversUpTo
<1>6. CASE Remedy!HasStep(f) /\ ~\E i \in 1..m : plan[i].id = step.id
  <2> DEFINE longer == Append(plan, step)
  <2>1. Remedy!KeepFirst(plan, f) = longer
    BY <1>6, Zenon DEF Remedy!KeepFirst
  <2>2. step \in StepsFor(found)
    BY <1>2 DEF StepsFor
  <2>3. /\ longer \in Seq(StepsFor(found)) /\ Len(longer) = m + 1
        /\ longer[m + 1] = step /\ \A i \in 1..m : longer[i] = plan[i]
    BY <1>1, <2>2
  <2> HIDE DEF longer, step, m, Asks, Step, f
  <2>4. \A i \in 1..(m + 1) : i \in 1..m \/ i = m + 1
    BY <1>1
  <2>5. m + 1 \in 1..(m + 1) /\ \A i \in 1..m : i \in 1..(m + 1)
    BY <1>1
  <2>6. ASSUME NEW i \in 1..(m + 1), NEW j \in 1..(m + 1), longer[i].id = longer[j].id PROVE i = j
    <3>1. \A l \in 1..m : plan[l].id # step.id
      BY <1>6
    <3> QED BY <1>1, <2>3, <2>4, <2>6, <3>1
  <2>7. \A j \in 1..(m + 1) : \E i \in 1..Len(found) : Asks(i) /\ longer[j] = Step(i)
    <3>1. \A j \in 1..m : \E i \in 1..Len(found) : Asks(i) /\ longer[j] = Step(i)
      BY <1>1, <2>3, Zenon
    <3>2. Asks(k + 1) /\ longer[m + 1] = Step(k + 1)
      BY <1>2, <1>6, <2>3
    <3> QED BY <1>2, <2>4, <3>1, <3>2, Zenon
  <2>8. \A i \in 1..(k + 1) : Asks(i) => \E j \in 1..(m + 1) : longer[j].id = Step(i).id
    <3>1. \A i \in 1..k : Asks(i) => \E j \in 1..(m + 1) : longer[j].id = Step(i).id
      BY <1>1, <2>3, <2>5
    <3>2. longer[m + 1].id = Step(k + 1).id
      BY <1>2, <2>3
    <3> QED BY <1>3, <2>5, <3>1, <3>2, Zenon
  <2> QED BY <2>1, <2>3, <2>6, <2>7, <2>8, Zenon DEF CoversUpTo, Asks, Step, f
<1> QED BY <1>4, <1>5, <1>6, Zenon

LEMMA PlanBeforeSorting ==
  ASSUME NEW S, NEW found \in Seq(S)
  PROVE  CoversUpTo(Remedy!FoldLeft(Remedy!KeepFirst, <<>>, found), found, Len(found))
<1> DEFINE n == Len(found)
<1>1. PICK h : Planned(h, found) /\ Remedy!FoldLeft(Remedy!KeepFirst, <<>>, found) = h[n]
  BY PlanIsALoop
<1>2. n \in Nat /\ h[0] = <<>> /\ \A k \in 0..(n - 1) : h[k + 1] = Remedy!KeepFirst(h[k], found[k + 1])
  BY <1>1 DEF Planned
<1> DEFINE E == {k \in Nat : k <= n => CoversUpTo(h[k], found, k)}
<1>3. 0 \in E
  <2>1. CoversUpTo(<<>>, found, 0)
    BY DEF CoversUpTo
  <2> QED BY <1>2, <2>1
<1>4. ASSUME NEW k \in E PROVE k + 1 \in E
  <2> HIDE DEF n
  <2> SUFFICES ASSUME k + 1 <= n PROVE CoversUpTo(h[k + 1], found, k + 1)
    BY <1>2
  <2>1. k \in 0..(n - 1) /\ CoversUpTo(h[k], found, k)
    BY <1>2
  <2>2. CoversUpTo(Remedy!KeepFirst(h[k], found[k + 1]), found, k + 1)
    BY <2>1, PlanGrows DEF n
  <2> QED BY <1>2, <2>1, <2>2, Zenon
<1>5. Nat \subseteq E
  <2> HIDE DEF E
  <2> QED BY <1>3, <1>4, Induction
<1>6. CoversUpTo(h[n], found, n)
  <2> HIDE DEF n
  <2> QED BY <1>2, <1>5
<1> QED BY <1>1, <1>6

(* A step that is planned has the id, and a risk, of a finding's step.     *)
LEMMA StepsHaveRanks ==
  ASSUME NEW f, Remedy!HasStep(f)
  PROVE  Remedy!Rank(Remedy!StepOf(f).risk) \in 0..3
<1>1. f.rule \in {"duplicates", "docker", "wsl", "dead-entries", "clock-skew", "missing", "mismatch"}
  BY Zenon DEF Remedy!HasStep
<1>2. Remedy!Risk(f.rule) \in Risks
  BY <1>1 DEF Remedy!Risk, Risks
<1>3. Remedy!StepOf(f).risk = Remedy!Risk(f.rule)
  BY DEF Remedy!StepOf
<1> QED BY <1>2, <1>3, RanksAreNumbers

LEMMA SortingKeepsThePlan ==
  ASSUME NEW S, NEW found \in Seq(S), NEW plan, CoversUpTo(plan, found, Len(found)),
         NEW sorted, sorted = Remedy!ByRisk(plan)
  PROVE  /\ \A i \in 1..Len(found) : Remedy!HasStep(found[i]) =>
              Remedy!Cardinality({j \in 1..Len(sorted) : sorted[j].id = Remedy!StepOf(found[i]).id}) = 1
         /\ \A i, j \in 1..Len(sorted) :
              i < j => Remedy!Rank(sorted[i].risk) <= Remedy!Rank(sorted[j].risk)
<1> DEFINE m == Len(plan)
           place(i) == Remedy!Place(plan, i)
           at(k) == CHOOSE i \in 1..m : place(i) = k
           rank(i) == Remedy!Rank(plan[i].risk)
           asked(i) == Remedy!StepOf(found[i]).id
<1>1. /\ plan \in Seq(StepsFor(found)) /\ m \in Nat
      /\ \A i, j \in 1..m : plan[i].id = plan[j].id => i = j
      /\ \A j \in 1..m : \E i \in 1..Len(found) :
           Remedy!HasStep(found[i]) /\ plan[j] = Remedy!StepOf(found[i])
      /\ \A i \in 1..Len(found) : Remedy!HasStep(found[i]) => \E j \in 1..m : plan[j].id = asked(i)
  BY DEF CoversUpTo
<1>2. \A i \in 1..m : rank(i) \in 0..3
  BY <1>1, StepsHaveRanks, Zenon
<1>3. Placed(plan, m)
  <2>1. \A i \in 1..m : Remedy!Rank(plan[i].risk) \in 0..3
    BY <1>2
  <2> QED BY <1>1, <2>1, StepsHavePlaces
<1>4. /\ \A i \in 1..m : place(i) \in 1..m
      /\ \A i, j \in 1..m : place(i) = place(j) => i = j
      /\ \A k \in 1..m : \E i \in 1..m : place(i) = k
      /\ \A i, j \in 1..m : rank(i) > rank(j) => place(i) > place(j)
  BY <1>3, Zenon DEF Placed
<1>5. sorted = [k \in 1..m |-> plan[at(k)]]
  BY Zenon DEF Remedy!ByRisk
<1> HIDE DEF place, rank, asked
<1>6. \A k \in 1..m : at(k) \in 1..m /\ place(at(k)) = k
  BY <1>4, Zenon
<1>7. \A i \in 1..m : at(place(i)) = i
  BY <1>4, <1>6
<1> HIDE DEF at, m
<1>8. Len(sorted) = m /\ \A k \in 1..m : sorted[k] = plan[at(k)]
  BY <1>1, <1>5
<1>9. ASSUME NEW i \in 1..Len(found), Remedy!HasStep(found[i])
      PROVE  Remedy!Cardinality({j \in 1..Len(sorted) : sorted[j].id = Remedy!StepOf(found[i]).id}) = 1
  <2>1. PICK j \in 1..m : plan[j].id = asked(i)
    BY <1>1, <1>9
  <2>2. place(j) \in 1..m /\ sorted[place(j)].id = asked(i)
    <3>1. place(j) \in 1..m /\ at(place(j)) = j
      BY <1>4, <1>7, <2>1, Zenon
    <3>2. sorted[place(j)] = plan[at(place(j))]
      BY <1>8, <3>1, Zenon
    <3> QED BY <2>1, <3>1, <3>2, Zenon
  <2>3. \A k \in 1..m : sorted[k].id = asked(i) => k = place(j)
    <3>1. \A k \in 1..m : sorted[k].id = asked(i) => at(k) = j
      BY <1>1, <1>6, <1>8, <2>1
    <3> QED BY <1>6, <3>1
  <2>4. {k \in 1..m : sorted[k].id = asked(i)} = {place(j)}
    BY <2>2, <2>3
  <2>5. Cardinality({place(j)}) = 1
    BY FS_Singleton
  <2> QED BY <1>8, <2>4, <2>5, RemedyCounts, Zenon DEF asked
<1>10. ASSUME NEW i \in 1..m, NEW j \in 1..m, i < j PROVE rank(at(i)) <= rank(at(j))
  <2>1. at(i) \in 1..m /\ at(j) \in 1..m /\ place(at(i)) = i /\ place(at(j)) = j
    BY <1>6
  <2>2. rank(at(i)) \in Int /\ rank(at(j)) \in Int
    BY <1>2, <2>1
  <2>3. rank(at(i)) > rank(at(j)) => place(at(i)) > place(at(j))
    BY <1>4, <2>1, Zenon
  <2>4. ~(place(at(i)) > place(at(j)))
    BY <1>10, <2>1
  <2> QED BY <2>2, <2>3, <2>4
<1>11. \A i \in 1..m : Remedy!Rank(sorted[i].risk) = rank(at(i))
  BY <1>8, Zenon DEF rank
<1>12. \A i, j \in 1..m : i < j => Remedy!Rank(sorted[i].risk) <= Remedy!Rank(sorted[j].risk)
  BY <1>10, <1>11
<1> QED BY <1>8, <1>9, <1>12, Zenon

(* Nothing a scan complains about is lost on the way to the plan, no step  *)
(* is planned twice, and nothing risky comes before something safer        *)
(* (planner.py, build_plan): the plan grows finding after finding and      *)
(* keeps what covers those it has seen, and sorting it is a permutation.   *)
LEMMA PlansCover == InputFits => PlanCovers
<1> SUFFICES ASSUME InputFits, Given("plan") PROVE Remedy!PlanCoversAt(input)
  BY Zenon DEF PlanCovers
<1> DEFINE plan == Remedy!FoldLeft(Remedy!KeepFirst, <<>>, input)
           sorted == Remedy!ByRisk(plan)
<1>1. input \in UpTo(3, Findings)
  BY DEF InputFits
<1>2. input \in Seq(Findings)
  <2>1. PICK k \in 0..3 : input \in [1..k -> Findings]
    BY <1>1 DEF UpTo
  <2> QED BY <2>1
<1>3. CoversUpTo(plan, input, Len(input))
  BY <1>2, PlanBeforeSorting, Zenon
<1> HIDE DEF plan
<1>4. sorted = Remedy!build_plan(input)
  BY Zenon DEF Remedy!build_plan, plan, sorted
<1> HIDE DEF sorted
<1>5. sorted = Remedy!ByRisk(plan)
  BY DEF sorted
<1> QED BY <1>2, <1>3, <1>4, <1>5, SortingKeepsThePlan, Zenon DEF Remedy!PlanCoversAt

-----------------------------------------------------------------------------
(* The execution of a plan.                                                *)

StepRecord ==
  [id : Nat, risk : Risks, automatable : BOOLEAN, ready : BOOLEAN, commands : Seq(Int)]

Statuses == {"skipped-manual", "skipped-preconditions", "no-commands", "executed", "failed"}

(* What is told of a step accounts for it.                                 *)
Accounted(step, told) ==
  /\ told # {}
  /\ \/ "failed" \in told
     \/ told \cap {"executed", "failed"} = {}
     \/ \A c \in 1..Len(step.commands) : step.commands[c] = 0
  /\ told \cap {"executed", "failed"} # {} =>
       step.automatable /\ step.ready /\ Remedy!Rank(step.risk) <= 1

ToldOf(entries) == {entries[k][2] : k \in 1..Len(entries)}

ReportsOf(step, entries) ==
  /\ entries \in Seq(Nat \X Statuses)
  /\ \A k \in 1..Len(entries) : entries[k][1] = step.id
  /\ Accounted(step, ToldOf(entries))

LEMMA SkippedIsReported ==
  ASSUME NEW step \in StepRecord,
         NEW outcome \in {"skipped-manual", "skipped-preconditions", "no-commands"}
  PROVE  ReportsOf(step, <<Remedy!Entry(step, outcome)>>)
<1> DEFINE entries == <<Remedy!Entry(step, outcome)>>
<1>1. step.id \in Nat /\ outcome \in Statuses
  BY DEF StepRecord, Statuses
<1>2. Remedy!Entry(step, outcome) = <<step.id, outcome>>
  BY DEF Remedy!Entry
<1>3. /\ entries \in Seq(Nat \X Statuses) /\ Len(entries) = 1
      /\ entries[1][1] = step.id /\ entries[1][2] = outcome
  BY <1>1, <1>2
<1> HIDE DEF entries
<1>4. \A k \in 1..Len(entries) : k = 1
  BY <1>3
<1>5. 1 \in 1..Len(entries)
  BY <1>3
<1>6. ToldOf(entries) = {outcome}
  BY <1>3, <1>4, <1>5, Zenon DEF ToldOf
<1>7. {outcome} \cap {"executed", "failed"} = {} /\ {outcome} # {}
  OBVIOUS
<1>8. Accounted(step, ToldOf(entries))
  BY <1>6, <1>7, Zenon DEF Accounted
<1>9. \A k \in 1..Len(entries) : entries[k][1] = step.id
  BY <1>3, <1>4
<1> QED BY <1>3, <1>8, <1>9, Zenon DEF ReportsOf, entries

LEMMA RunsAreReported ==
  ASSUME NEW step \in StepRecord, step.automatable, step.ready, Remedy!Rank(step.risk) <= 1,
         step.commands # <<>>
  PROVE  ReportsOf(step, Remedy!Runs(step))
<1> DEFINE codes == step.commands
           m == Len(codes)
           outcome(i) == IF codes[i] = 0 THEN "executed" ELSE "failed"
           entries == Remedy!Runs(step)
<1>1. step.id \in Nat /\ codes \in Seq(Int) /\ m \in Nat
  BY DEF StepRecord
<1>2. m # 0
  BY <1>1
<1>3. entries = [i \in 1..m |-> Remedy!Entry(step, outcome(i))]
  BY Zenon DEF Remedy!Runs
<1>4. \A i \in 1..m : Remedy!Entry(step, outcome(i)) = <<step.id, outcome(i)>>
  BY DEF Remedy!Entry
<1>5. \A i \in 1..m : outcome(i) \in Statuses
  BY DEF Statuses
<1>6. \A i \in 1..m : outcome(i) # "failed" => codes[i] = 0
  BY Zenon
<1> HIDE DEF outcome, m, entries
<1>7. /\ entries \in Seq(Nat \X Statuses) /\ Len(entries) = m
      /\ \A i \in 1..m : entries[i][1] = step.id /\ entries[i][2] = outcome(i)
  BY <1>1, <1>3, <1>4, <1>5
<1>8. ToldOf(entries) = {outcome(i) : i \in 1..m}
  BY <1>7 DEF ToldOf
<1>9. 1 \in 1..m
  BY <1>1, <1>2
<1>10. ToldOf(entries) # {}
  BY <1>8, <1>9, Zenon
<1>11. "failed" \in ToldOf(entries) \/ \A c \in 1..Len(codes) : codes[c] = 0
  BY <1>6, <1>8, Zenon DEF m
<1>12. Accounted(step, ToldOf(entries))
  BY <1>10, <1>11, Zenon DEF Accounted
<1>13. \A k \in 1..Len(entries) : entries[k][1] = step.id
  BY <1>7
<1> QED BY <1>7, <1>12, <1>13, Zenon DEF ReportsOf, entries

LEMMA StepsAreReported ==
  ASSUME NEW step \in StepRecord
  PROVE  ReportsOf(step, Remedy!execute_step(step))
<1>1. step.risk \in Risks
  BY DEF StepRecord
<1>2. Remedy!Rank("SAFE") = 0 /\ Remedy!Rank("LOW") = 1
  BY DEF Remedy!Rank
<1>3. step.risk \in Remedy!AUTOMATABLE_RISKS => Remedy!Rank(step.risk) <= 1
  BY <1>2 DEF Remedy!AUTOMATABLE_RISKS
<1>4. CASE ~step.automatable \/ step.risk \notin Remedy!AUTOMATABLE_RISKS
  <2>1. Remedy!execute_step(step) = <<Remedy!Entry(step, "skipped-manual")>>
    BY <1>4, Zenon DEF Remedy!execute_step
  <2> QED BY <2>1, SkippedIsReported
<1>5. CASE step.automatable /\ step.risk \in Remedy!AUTOMATABLE_RISKS /\ ~step.ready
  <2>1. Remedy!execute_step(step) = <<Remedy!Entry(step, "skipped-preconditions")>>
    BY <1>5, Zenon DEF Remedy!execute_step
  <2> QED BY <2>1, SkippedIsReported
<1>6. CASE step.automatable /\ step.risk \in Remedy!AUTOMATABLE_RISKS /\ step.ready
  <2>1. Remedy!execute_step(step) = Remedy!Runs(step)
    BY <1>6, Zenon DEF Remedy!execute_step
  <2>2. CASE step.commands = <<>>
    <3>1. Remedy!Runs(step) = <<Remedy!Entry(step, "no-commands")>>
      BY <2>2, Zenon DEF Remedy!Runs
    <3> QED BY <2>1, <3>1, SkippedIsReported
  <2>3. CASE step.commands # <<>>
    BY <1>3, <1>6, <2>1, <2>3, RunsAreReported, Zenon
  <2> QED BY <2>2, <2>3
<1> QED BY <1>4, <1>5, <1>6, Zenon

(* `fix` accounts for every step of the plan, a command that failed is     *)
(* never covered by one that succeeded, and nothing is run that is not     *)
(* automatable, of low risk and ready (planner.py, execute_plan): each     *)
(* step's entries carry its id, and joining the steps' entries keeps them. *)
LEMMA StepsAreAllReported == InputFits => EveryStepIsReported
<1> SUFFICES ASSUME InputFits, Given("fix") PROVE Remedy!EveryStepIsReportedAt(input)
  BY Zenon DEF EveryStepIsReported
<1>1. input \in PlansOfTwo
  BY DEF InputFits
<1>2. PICK s \in Steps, t \in Steps : input = <<[s EXCEPT !.id = 1], [t EXCEPT !.id = 2]>>
  BY <1>1 DEF PlansOfTwo
<1>3. Steps \subseteq StepRecord
  BY RemediesAssumption DEF StepRecord, Risks
<1> DEFINE first  == [s EXCEPT !.id = 1]
           second == [t EXCEPT !.id = 2]
           T  == Nat \X Statuses
           E1 == Remedy!execute_step(first)
           E2 == Remedy!execute_step(second)
           results == Remedy!execute_plan(input)
           of(i)   == {results[k][2] : k \in {n \in 1..Len(results) : results[n][1] = input[i].id}}
<1>4. s \in StepRecord /\ t \in StepRecord
  BY <1>3
<1>5. first \in StepRecord /\ first.id = 1 /\ second \in StepRecord /\ second.id = 2
  BY <1>4 DEF StepRecord
<1>6. /\ Len(input) = 2 /\ input[1] = first /\ input[2] = second
      /\ [i \in 1..Len(input) |-> Remedy!execute_step(input[i])] = <<E1, E2>>
  BY <1>2
<1> HIDE DEF first, second
<1>7. ReportsOf(first, E1) /\ ReportsOf(second, E2)
  BY <1>5, StepsAreReported
<1>8. E1 \in Seq(T) /\ E2 \in Seq(T)
  BY <1>7, Zenon DEF ReportsOf
<1>9. Remedy!FlattenSeq(<<E1, E2>>) = Agent!FlattenSeq(<<E1, E2>>)
  BY Zenon DEF Remedy!FlattenSeq, Agent!FlattenSeq
<1>10. results = Agent!FlattenSeq(<<E1, E2>>)
  BY <1>6, <1>9, Zenon DEF Remedy!execute_plan
<1> HIDE DEF E1, E2, results, T
<1>11. <<E1, E2>> \in Seq(Seq(T))
  BY <1>8
<1>12. results \in Seq(T) /\ ElementsOf(results) = ElementsOfAll(<<E1, E2>>)
  BY <1>10, <1>11, FlattenKeepsElements
<1>13. ElementsOf(results) = ElementsOf(E1) \cup ElementsOf(E2)
  <2>1. ElementsOfAll(<<E1, E2>>) = UNION {ElementsOf(<<E1, E2>>[i]) : i \in 1..2}
    BY DEF ElementsOfAll
  <2>2. <<E1, E2>>[1] = E1 /\ <<E1, E2>>[2] = E2
    OBVIOUS
  <2>3. \A i \in 1..2 : i = 1 \/ i = 2
    OBVIOUS
  <2>4. 1 \in 1..2 /\ 2 \in 1..2
    OBVIOUS
  <2> QED BY <1>12, <2>1, <2>2, <2>3, <2>4, Zenon
<1> DEFINE All(e, id) == {x[2] : x \in {y \in e : y[1] = id}}
<1>14. \A e, id : ToldOf(e) = {x[2] : x \in ElementsOf(e)}
  BY Zenon DEF ToldOf, ElementsOf
<1>15. \A i : of(i) = All(ElementsOf(results), input[i].id)
  BY Zenon DEF ElementsOf
<1> HIDE DEF of
<1>16. (\A x \in ElementsOf(E1) : x[1] = 1) /\ (\A x \in ElementsOf(E2) : x[1] = 2)
  BY <1>5, <1>7, Zenon DEF ReportsOf, ElementsOf
<1>17. 1 # 2
  OBVIOUS
<1>18. of(1) = ToldOf(E1) /\ of(2) = ToldOf(E2)
  <2>1. {y \in ElementsOf(results) : y[1] = 1} = ElementsOf(E1)
    BY <1>13, <1>16, <1>17
  <2>2. {y \in ElementsOf(results) : y[1] = 2} = ElementsOf(E2)
    BY <1>13, <1>16, <1>17
  <2>3. input[1].id = 1 /\ input[2].id = 2
    BY <1>5, <1>6
  <2>4. of(1) = All(ElementsOf(results), 1) /\ of(2) = All(ElementsOf(results), 2)
    <3> HIDE DEF All
    <3>1. of(1) = All(ElementsOf(results), input[1].id) /\ of(2) = All(ElementsOf(results), input[2].id)
      BY <1>15, Zenon
    <3> QED BY <2>3, <3>1
  <2>5. All(ElementsOf(results), 1) = ToldOf(E1) /\ All(ElementsOf(results), 2) = ToldOf(E2)
    BY <1>14, <2>1, <2>2, Zenon
  <2> HIDE DEF All
  <2> QED BY <2>4, <2>5
<1> HIDE DEF All
<1>19. Accounted(input[1], of(1)) /\ Accounted(input[2], of(2))
  BY <1>6, <1>7, <1>18, Zenon DEF ReportsOf
<1>20. \A i \in 1..Len(input) : Accounted(input[i], of(i))
  <2>1. \A i \in 1..Len(input) : i = 1 \/ i = 2
    BY <1>6
  <2> QED BY <1>19, <2>1
<1> QED BY <1>20, Zenon DEF Remedy!EveryStepIsReportedAt, Accounted, of, results

-----------------------------------------------------------------------------
(* What a step of a graph needs.                                           *)

(* A graph that names no unknown step.                                     *)
GraphOfSteps(g) ==
  /\ IsFiniteSet(DOMAIN g) /\ DOMAIN g \subseteq Nat \ {0}
  /\ \A s \in DOMAIN g : g[s] \subseteq DOMAIN g

Closed(g, C) == \A c \in C : g[c] \subseteq C

(* The needs of a step hold its prerequisites and theirs, and are within   *)
(* every set that does.                                                    *)
Needed(g, s, N) ==
  /\ N \subseteq DOMAIN g /\ g[s] \subseteq N /\ Closed(g, N)
  /\ \A C \in SUBSET DOMAIN g : g[s] \subseteq C /\ Closed(g, C) => N \subseteq C

LEMMA NeedsAreNeeded ==
  ASSUME NEW g, GraphOfSteps(g), NEW s \in DOMAIN g
  PROVE  Needed(g, s, Remedy!Needs(g, s))
<1> DEFINE N == Remedy!Needs(g, s)
           steps == DOMAIN g
<1>1. \A c \in steps : g[c] \subseteq steps
  BY DEF GraphOfSteps
<1>2. N = {t \in steps : \A C \in SUBSET steps : g[s] \subseteq C /\ Closed(g, C) => t \in C}
  BY Zenon DEF Remedy!Needs, Closed
<1> HIDE DEF N, steps
<1>3. N \subseteq steps
  BY <1>2
<1>4. \A C \in SUBSET steps : g[s] \subseteq C /\ Closed(g, C) => N \subseteq C
  BY <1>2, Zenon
<1>5. g[s] \subseteq N
  <2>1. s \in steps
    BY DEF steps
  <2> QED BY <1>1, <1>2, <2>1
<1>6. ASSUME NEW c \in N, NEW t \in g[c] PROVE t \in N
  <2>1. c \in steps
    BY <1>3
  <2>2. t \in steps
    BY <1>1, <1>6, <2>1
  <2>3. ASSUME NEW C \in SUBSET steps, g[s] \subseteq C, Closed(g, C) PROVE t \in C
    <3>1. c \in C
      BY <1>4, <2>3
    <3> QED BY <1>6, <2>3, <3>1 DEF Closed
  <2> QED BY <1>2, <2>2, <2>3
<1>7. Closed(g, N)
  BY <1>6 DEF Closed
<1> QED BY <1>3, <1>4, <1>5, <1>7, Zenon DEF Needed, N, steps

(* What a needed step needs is needed too.                                 *)
LEMMA NeedsOfNeeds ==
  ASSUME NEW g, GraphOfSteps(g), NEW s \in DOMAIN g, NEW t \in Remedy!Needs(g, s)
  PROVE  t \in DOMAIN g /\ Remedy!Needs(g, t) \subseteq Remedy!Needs(g, s)
<1>1. Needed(g, s, Remedy!Needs(g, s))
  BY NeedsAreNeeded
<1>2. t \in DOMAIN g
  BY <1>1 DEF Needed
<1>3. Needed(g, t, Remedy!Needs(g, t))
  BY <1>2, NeedsAreNeeded
<1>4. g[t] \subseteq Remedy!Needs(g, s)
  BY <1>1 DEF Needed, Closed
<1>5. Remedy!Needs(g, s) \in SUBSET DOMAIN g /\ Closed(g, Remedy!Needs(g, s))
  BY <1>1 DEF Needed
<1> QED BY <1>2, <1>3, <1>4, <1>5, Zenon DEF Needed

Holds(ids, S) == ids \in Seq(S) /\ ElementsOf(ids) = S

LEMMA InOrderHoldsAll ==
  ASSUME NEW S, IsFiniteSet(S), S \subseteq Nat
  PROVE  Holds(Remedy!InOrder(S), S)
<1> DEFINE n == Cardinality(S)
           ids == Remedy!InOrder(S)
<1>1. n \in Nat
  BY FS_CardinalityType
<1>2. S \subseteq Int
  OBVIOUS
<1>3. \E a : Ascends(a, n, S)
  BY <1>2, AscendingExists
<1>4. Remedy!Cardinality(S) = n
  BY RemedyCounts
<1>5. ids = CHOOSE a \in [1..n -> S] : \A i, j \in 1..n : i < j => a[i] < a[j]
  BY <1>4, Zenon DEF Remedy!InOrder
<1> HIDE DEF ids
<1>6. \E a \in [1..n -> S] : \A i, j \in 1..n : i < j => a[i] < a[j]
  BY <1>3, Zenon DEF Ascends
<1>7. ids \in [1..n -> S] /\ \A i, j \in 1..n : i < j => ids[i] < ids[j]
  <2> HIDE DEF n
  <2> QED BY <1>5, <1>6, Zenon
<1>8. Ascends(ids, n, S)
  BY <1>7, Zenon DEF Ascends
<1>9. \A x \in S : \E i \in 1..n : ids[i] = x
  <2>1. Reaches(ids, n, S)
    BY <1>2, <1>8, AscendingIsOnto, Zenon
  <2> QED BY <2>1, Zenon DEF Reaches
<1> HIDE DEF n
<1>10. ids \in Seq(S) /\ Len(ids) = n
  BY <1>1, <1>7
<1>11. \A i \in 1..n : ids[i] \in S
  BY <1>7
<1>12. ElementsOf(ids) = S
  BY <1>9, <1>10, <1>11 DEF ElementsOf
<1> QED BY <1>10, <1>12 DEF Holds, ids

-----------------------------------------------------------------------------
(* Visiting the steps of a graph.                                          *)

Orders(steps) == Seq(steps) \cup {Remedy!Failed}

(* What visit answers, from a step, the path to it and what is done.       *)
Visits(steps) == [steps -> [SUBSET steps -> [Seq(steps) -> Orders(steps)]]]

VisitOne(visit, visiting, done, id) ==
  IF done = Remedy!Failed THEN Remedy!Failed ELSE visit[id][visiting][done]

LEMMA VisitOneIsTyped ==
  ASSUME NEW steps, NEW visit \in Visits(steps), NEW visiting \in SUBSET steps,
         NEW done \in Orders(steps), NEW id \in steps
  PROVE  VisitOne(visit, visiting, done, id) \in Orders(steps)
<1>1. CASE done = Remedy!Failed
  BY <1>1 DEF VisitOne, Orders
<1>2. CASE done # Remedy!Failed
  <2>1. done \in Seq(steps)
    BY <1>2 DEF Orders
  <2>2. visit[id][visiting][done] \in Orders(steps)
    BY <2>1 DEF Visits
  <2> QED BY <1>2, <2>2, Zenon DEF VisitOne
<1> QED BY <1>1, <1>2

(* The steps as they are visited, one after the other.                     *)
Visiting(h, steps, visit, ids, visiting, order) ==
  /\ h \in [0..Len(ids) -> Orders(steps)] /\ h[0] = order
  /\ \A k \in 0..(Len(ids) - 1) : h[k + 1] = VisitOne(visit, visiting, h[k], ids[k + 1])

LEMMA VisitEachIsALoop ==
  ASSUME NEW steps, NEW visit \in Visits(steps), NEW visiting \in SUBSET steps,
         NEW order \in Orders(steps), NEW ids \in Seq(steps)
  PROVE  \E h : Visiting(h, steps, visit, ids, visiting, order) /\ Remedy!VisitEach(visit, ids, visiting, order) = h[Len(ids)]
<1> DEFINE n == Len(ids)
           A == Orders(steps)
           next(acc, i) == VisitOne(visit, visiting, acc, ids[i])
           G == [p \in A \X (1..n) |-> next(p[1], p[2])]
           Loop(f) == f = [s \in SUBSET (1..n) |-> IF s = {} THEN order
                                                  ELSE next(f[s \ {Remedy!Max(s)}], Remedy!Max(s))]
           f0 == CHOOSE f : Loop(f)
<1>1. n \in Nat /\ DOMAIN ids = 1..n
  OBVIOUS
<1>2. order \in A
  OBVIOUS
<1>3. \A a \in A, i \in 1..n : next(a, i) \in A
  <2>1. \A i \in 1..n : ids[i] \in steps
    OBVIOUS
  <2> HIDE DEF n
  <2> QED BY <2>1, VisitOneIsTyped, Zenon
<1>4. Remedy!VisitEach(visit, ids, visiting, order) = f0[1..n]
  BY <1>1 DEF Remedy!VisitEach, VisitOne, Remedy!FoldLeft, Remedy!MapThenFoldSet
<1> HIDE DEF next, A
<1>5. G \in [A \X (1..n) -> A]
  BY <1>3
<1>6. PICK f : IsFold(f, n, A, order, G)
  <2> HIDE DEF G, n
  <2> QED BY <1>1, <1>2, <1>5, FoldExists, Zenon
<1>7. \A s : Remedy!Max(s) = Greatest(s)
  BY DEF Remedy!Max, Greatest
<1>8. \A s \in SUBSET (1..n) : s # {} => Greatest(s) \in s
  <2> SUFFICES ASSUME NEW s \in SUBSET (1..n), s # {} PROVE Greatest(s) \in s
    OBVIOUS
  <2> HIDE DEF n
  <2> QED BY <1>1, GreatestIsThere, Zenon
<1>9. Loop(f)
  <2>0. /\ f \in [SUBSET (1..n) -> A]
        /\ \A s \in SUBSET (1..n) : f[s] = IF s = {} THEN order ELSE G[<<f[s \ {Greatest(s)}], Greatest(s)>>]
    BY <1>6 DEF IsFold
  <2>1. ASSUME NEW s \in SUBSET (1..n), s # {}
        PROVE  f[s] = next(f[s \ {Remedy!Max(s)}], Remedy!Max(s))
    <3>1. Greatest(s) \in 1..n /\ f[s \ {Greatest(s)}] \in A
      BY <1>8, <2>0, <2>1
    <3>2. G[<<f[s \ {Greatest(s)}], Greatest(s)>>] = next(f[s \ {Greatest(s)}], Greatest(s))
      BY <3>1
    <3> HIDE DEF G
    <3> QED BY <1>7, <2>0, <2>1, <3>2
  <2> HIDE DEF G
  <2> QED BY <2>0, <2>1
<1>10. Loop(f0)
  <2> HIDE DEF Loop
  <2> QED BY <1>9, Zenon
<1>11. f0[1..0] = order
  <2>1. 1..0 \in SUBSET (1..n) /\ 1..0 = {}
    OBVIOUS
  <2> HIDE DEF f0
  <2> QED BY <1>10, <2>1
<1>12. ASSUME NEW k \in 0..(n - 1) PROVE f0[1..(k + 1)] = next(f0[1..k], k + 1)
  <2>1. 1..(k + 1) \in SUBSET (1..n) /\ k \in Nat
    OBVIOUS
  <2>2. 1..(k + 1) # {} /\ Remedy!Max(1..(k + 1)) = k + 1 /\ (1..(k + 1)) \ {k + 1} = 1..k
    BY <1>7, <2>1, GreatestUpTo
  <2> HIDE DEF f0
  <2> QED BY <1>10, <2>1, <2>2
<1>13. FoldsUp(f0, n, A, order, G)
  <2>1. ASSUME NEW k \in 0..(n - 1), f0[1..k] \in A PROVE f0[1..(k + 1)] = G[<<f0[1..k], k + 1>>]
    <3>1. k + 1 \in 1..n
      OBVIOUS
    <3> HIDE DEF f0
    <3> QED BY <1>12, <2>1, <3>1
  <2> HIDE DEF f0, G
  <2> QED BY <1>11, <2>1 DEF FoldsUp
<1> DEFINE h == StepsOf(f0, n)
<1>14. Iterates(h, n, A, order, G)
  <2> HIDE DEF f0, G, n
  <2> QED BY <1>1, <1>2, <1>5, <1>13, FoldIterates, Zenon
<1>15. h[n] = f0[1..n]
  BY <1>1 DEF StepsOf
<1> HIDE DEF h
<1>16. \A k \in 0..(n - 1) : h[k + 1] = next(h[k], k + 1)
  <2>1. \A k \in 0..(n - 1) : h[k] \in A /\ k + 1 \in 1..n
    BY <1>14 DEF Iterates
  <2> QED BY <1>14, <2>1 DEF Iterates
<1>17. h \in [0..n -> A] /\ h[0] = order
  BY <1>14 DEF Iterates
<1>18. Visiting(h, steps, visit, ids, visiting, order)
  BY <1>16, <1>17 DEF next, A, Visiting
<1> QED BY <1>4, <1>15, <1>18

Cyclic(g) == \E s \in DOMAIN g : s \in Remedy!Needs(g, s)

(* Steps in an order that can be run: each once, and after what it needs.  *)
Runnable(g, order) ==
  /\ order \in Seq(DOMAIN g)
  /\ \A i, j \in 1..Len(order) : order[i] = order[j] => i = j
  /\ \A i \in 1..Len(order) : \A p \in g[order[i]] : \E j \in 1..(i - 1) : order[j] = p

(* What a visit may come to: it fails, and there is a cycle, or it leaves  *)
(* an order that can be run and takes nothing back, without the steps that *)
(* are being visited.                                                      *)
Comes(g, visiting, order, result) ==
  \/ result = Remedy!Failed /\ Cyclic(g)
  \/ /\ Runnable(g, result) /\ ElementsOf(order) \subseteq ElementsOf(result)
     /\ ElementsOf(result) \cap visiting = {}

Brings(result, S) == result # Remedy!Failed => S \subseteq ElementsOf(result)

(* Every step on the path needs the one it leads to.                       *)
OnPath(g, visiting, id) == \A v \in visiting : id \in Remedy!Needs(g, v)

Starts(g, visiting, order) ==
  visiting \in SUBSET DOMAIN g /\ Runnable(g, order) /\ ElementsOf(order) \cap visiting = {}

VisitIsSound(g, visit, left) ==
  \A id \in DOMAIN g, visiting \in SUBSET DOMAIN g, order \in Seq(DOMAIN g) :
    Starts(g, visiting, order) /\ OnPath(g, visiting, id)
      /\ Cardinality(DOMAIN g \ visiting) <= left
    => /\ Comes(g, visiting, order, visit[id][visiting][order])
       /\ Brings(visit[id][visiting][order], {id})

LEMMA FailedIsNoOrder ==
  ASSUME NEW g, GraphOfSteps(g), NEW order, Runnable(g, order)
  PROVE  order # Remedy!Failed /\ order \in Seq(DOMAIN g)
<1>1. order \in Seq(DOMAIN g) /\ 0 \notin DOMAIN g
  BY DEF Runnable, GraphOfSteps
<1>2. order # <<0>>
  <2> SUFFICES ASSUME order = << 0 >> PROVE FALSE
    OBVIOUS
  <2>1. Len(order) = 1 /\ order[1] = 0
    OBVIOUS
  <2>2. order[1] \in DOMAIN g
    BY <1>1, <2>1
  <2> QED BY <1>1, <2>1, <2>2
<1> QED BY <1>1, <1>2 DEF Remedy!Failed

LEMMA EachIsVisited ==
  ASSUME NEW g, GraphOfSteps(g), NEW visit \in Visits(DOMAIN g), NEW left,
         VisitIsSound(g, visit, left),
         NEW ids \in Seq(DOMAIN g), NEW visiting, NEW order, Starts(g, visiting, order),
         \A id \in ElementsOf(ids) : OnPath(g, visiting, id),
         Cardinality(DOMAIN g \ visiting) <= left
  PROVE  /\ Comes(g, visiting, order, Remedy!VisitEach(visit, ids, visiting, order))
         /\ Brings(Remedy!VisitEach(visit, ids, visiting, order), ElementsOf(ids))
<1> DEFINE steps == DOMAIN g
           n == Len(ids)
           First(k) == {ids[i] : i \in 1..k}
<1>0. visiting \in SUBSET steps /\ Runnable(g, order) /\ ElementsOf(order) \cap visiting = {}
  BY DEF Starts
<1>1. order \in Seq(steps) /\ order \in Orders(steps)
  BY <1>0, FailedIsNoOrder DEF Orders
<1>2. PICK h : /\ Visiting(h, steps, visit, ids, visiting, order)
               /\ Remedy!VisitEach(visit, ids, visiting, order) = h[n]
  <2>1. visiting \in SUBSET steps /\ order \in Orders(steps) /\ visit \in Visits(steps) /\ ids \in Seq(steps)
    BY <1>0, <1>1
  <2> HIDE DEF steps
  <2> QED BY <2>1, VisitEachIsALoop
<1>3. n \in Nat /\ \A i \in 1..n : ids[i] \in steps /\ ids[i] \in ElementsOf(ids)
  BY DEF ElementsOf
<1>4. h[0] = order /\ \A k \in 0..(n - 1) : h[k + 1] = VisitOne(visit, visiting, h[k], ids[k + 1])
  BY <1>2, Zenon DEF Visiting
<1> HIDE DEF steps, First
<1> DEFINE So(k) == Comes(g, visiting, order, h[k]) /\ Brings(h[k], First(k))
           E == {k \in Nat : k <= n => So(k)}
<1>5. 0 \in E
  <2>1. First(0) = {}
    BY DEF First
  <2>2. Comes(g, visiting, order, h[0])
    BY <1>0, <1>4, Zenon DEF Comes
  <2> QED BY <2>1, <2>2 DEF Brings
<1>6. ASSUME NEW k \in 0..(n - 1), So(k) PROVE So(k + 1)
  <2> DEFINE id == ids[k + 1]
             a == h[k]
             r == visit[id][visiting][a]
  <2>1. k + 1 \in 1..n /\ First(k + 1) = First(k) \cup {id}
    <3>1. k \in Nat /\ k + 1 \in 1..n
      BY <1>3
    <3>2. \A i \in 1..(k + 1) : i \in 1..k \/ i = k + 1
      BY <3>1
    <3>3. k + 1 \in 1..(k + 1) /\ \A i \in 1..k : i \in 1..(k + 1)
      BY <3>1
    <3> QED BY <3>1, <3>2, <3>3 DEF First
  <2>2. id \in steps /\ OnPath(g, visiting, id)
    BY <1>3, <2>1
  <2>3. h[k + 1] = VisitOne(visit, visiting, a, id)
    BY <1>4
  <2> HIDE DEF id
  <2>4. CASE a = Remedy!Failed
    <3>1. h[k + 1] = Remedy!Failed
      BY <2>3, <2>4 DEF VisitOne
    <3>2. Cyclic(g)
      BY <1>6, <2>4, FailedIsNoOrder, Zenon DEF Comes
    <3> QED BY <3>1, <3>2, Zenon DEF Comes, Brings
  <2>5. CASE a # Remedy!Failed
    <3>1. h[k + 1] = r
      BY <2>3, <2>5, Zenon DEF VisitOne
    <3>2. /\ Runnable(g, a) /\ ElementsOf(order) \subseteq ElementsOf(a)
          /\ ElementsOf(a) \cap visiting = {} /\ First(k) \subseteq ElementsOf(a)
      BY <1>6, <2>5, Zenon DEF Comes, Brings
    <3>3. a \in Seq(steps)
      BY <3>2, FailedIsNoOrder, Zenon DEF steps
    <3>4. Starts(g, visiting, a)
      BY <1>0, <3>2, Zenon DEF Starts, steps
    <3>5. Comes(g, visiting, a, r) /\ Brings(r, {id})
      BY <1>0, <2>2, <3>3, <3>4, Zenon DEF VisitIsSound, steps
    <3> HIDE DEF r, a
    <3>6. CASE r = Remedy!Failed
      <4>1. Cyclic(g)
        BY <3>5, <3>6, FailedIsNoOrder, Zenon DEF Comes
      <4> QED BY <3>1, <3>6, <4>1, Zenon DEF Comes, Brings
    <3>7. CASE r # Remedy!Failed
      <4>1. /\ Runnable(g, r) /\ ElementsOf(a) \subseteq ElementsOf(r)
            /\ ElementsOf(r) \cap visiting = {} /\ {id} \subseteq ElementsOf(r)
        BY <3>5, <3>7, Zenon DEF Comes, Brings
      <4>2. ElementsOf(order) \subseteq ElementsOf(r) /\ First(k + 1) \subseteq ElementsOf(r)
        BY <2>1, <3>2, <4>1
      <4> QED BY <3>1, <4>1, <4>2, Zenon DEF Comes, Brings
    <3> QED BY <3>6, <3>7
  <2> QED BY <2>4, <2>5
<1> HIDE DEF So
<1>7. ASSUME NEW k \in Nat, k \in E PROVE k + 1 \in E
  <2> SUFFICES ASSUME k + 1 <= n PROVE So(k + 1)
    OBVIOUS
  <2>1. k \in 0..(n - 1) /\ So(k)
    BY <1>3, <1>7
  <2> QED BY <1>6, <2>1
<1>8. Nat \subseteq E
  <2> HIDE DEF E
  <2> QED BY <1>5, <1>7, Induction
<1>9. So(n)
  BY <1>3, <1>8
<1>10. First(n) = ElementsOf(ids)
  BY DEF First, ElementsOf
<1> QED BY <1>2, <1>9, <1>10 DEF So

LEMMA StepCanBeAppended ==
  ASSUME NEW g, NEW need, Runnable(g, need), NEW id \in DOMAIN g,
         g[id] \subseteq ElementsOf(need), id \notin ElementsOf(need)
  PROVE  Runnable(g, Append(need, id)) /\ ElementsOf(Append(need, id)) = ElementsOf(need) \cup {id}
<1> DEFINE steps == DOMAIN g
           m == Len(need)
           longer == Append(need, id)
<1>1. /\ need \in Seq(steps) /\ m \in Nat
      /\ \A i, j \in 1..m : need[i] = need[j] => i = j
      /\ \A i \in 1..m : \A p \in g[need[i]] : \E j \in 1..(i - 1) : need[j] = p
  BY DEF Runnable
<1> HIDE DEF steps
<1>2. id \in steps
  BY DEF steps
<1>3. /\ longer \in Seq(steps) /\ Len(longer) = m + 1
      /\ longer[m + 1] = id /\ \A i \in 1..m : longer[i] = need[i]
  BY <1>1, <1>2
<1> HIDE DEF longer
<1>4. /\ \A i \in 1..(m + 1) : i \in 1..m \/ i = m + 1
      /\ m + 1 \in 1..(m + 1) /\ \A i \in 1..m : i \in 1..(m + 1)
  BY <1>1
<1>5. ElementsOf(need) = {need[i] : i \in 1..m}
  BY DEF ElementsOf
<1>6. \A i \in 1..m : need[i] # id
  BY <1>5
<1> HIDE DEF m
<1>7. ElementsOf(longer) = ElementsOf(need) \cup {id}
  <2>1. ElementsOf(longer) = {longer[i] : i \in 1..(m + 1)}
    BY <1>3 DEF ElementsOf
  <2> QED BY <1>3, <1>4, <1>5, <2>1
<1>8. ASSUME NEW i \in 1..(m + 1), NEW j \in 1..(m + 1), longer[i] = longer[j] PROVE i = j
  BY <1>1, <1>3, <1>4, <1>6, <1>8
<1>9. ASSUME NEW i \in 1..(m + 1), NEW p \in g[longer[i]] PROVE \E j \in 1..(i - 1) : longer[j] = p
  <2>1. CASE i = m + 1
    <3>1. p \in ElementsOf(need)
      BY <1>3, <1>9, <2>1
    <3>2. PICK j \in 1..m : need[j] = p
      BY <1>5, <3>1
    <3>3. j \in 1..(i - 1) /\ longer[j] = p
      BY <1>1, <1>3, <2>1, <3>2
    <3> QED BY <3>3
  <2>2. CASE i \in 1..m
    <3>1. longer[i] = need[i]
      BY <1>3, <2>2
    <3>2. PICK j \in 1..(i - 1) : need[j] = p
      BY <1>1, <1>9, <2>2, <3>1
    <3>3. j \in 1..m
      BY <1>1, <2>2
    <3> QED BY <1>3, <3>2, <3>3
  <2> QED BY <1>4, <2>1, <2>2
<1> QED BY <1>3, <1>7, <1>8, <1>9 DEF Runnable, longer, steps

LEMMA PrerequisitesInOrder ==
  ASSUME NEW g, GraphOfSteps(g), NEW id \in DOMAIN g
  PROVE  Remedy!InOrder(g[id]) \in Seq(DOMAIN g) /\ ElementsOf(Remedy!InOrder(g[id])) = g[id]
<1>1. g[id] \subseteq DOMAIN g /\ IsFiniteSet(DOMAIN g) /\ DOMAIN g \subseteq Nat
  BY DEF GraphOfSteps
<1>2. IsFiniteSet(g[id]) /\ g[id] \subseteq Nat
  BY <1>1, FS_Subset
<1>3. Holds(Remedy!InOrder(g[id]), g[id])
  BY <1>2, InOrderHoldsAll
<1> QED BY <1>1, <1>3 DEF Holds

LEMMA VisitWithNeedsIsTyped ==
  ASSUME NEW g, GraphOfSteps(g), NEW visit \in Visits(DOMAIN g), NEW id \in DOMAIN g,
         NEW visiting \in SUBSET DOMAIN g, NEW order \in Seq(DOMAIN g)
  PROVE  Remedy!VisitWithNeeds(g, visit, id, visiting, order) \in Orders(DOMAIN g)
<1> DEFINE steps == DOMAIN g
           ids  == Remedy!InOrder(g[id])
           path == visiting \cup {id}
           need == Remedy!VisitEach(visit, ids, path, order)
<1>1. ids \in Seq(steps)
  BY PrerequisitesInOrder
<1>2. path \in SUBSET steps /\ order \in Orders(steps) /\ visit \in Visits(steps)
  BY DEF Orders
<1> HIDE DEF steps, ids, path
<1>3. PICK h : Visiting(h, steps, visit, ids, path, order) /\ need = h[Len(ids)]
  BY <1>1, <1>2, VisitEachIsALoop
<1>4. Len(ids) \in 0..Len(ids)
  BY <1>1
<1>5. need \in Orders(steps)
  BY <1>3, <1>4 DEF Visiting
<1> HIDE DEF need
<1>6. Remedy!VisitWithNeeds(g, visit, id, visiting, order)
        = IF need = Remedy!Failed THEN Remedy!Failed ELSE Append(need, id)
  BY Zenon DEF Remedy!VisitWithNeeds, need, ids, path
<1>7. CASE need = Remedy!Failed
  BY <1>5, <1>6, <1>7 DEF steps
<1>8. CASE need # Remedy!Failed
  <2>1. need \in Seq(steps) /\ id \in steps
    BY <1>5, <1>8 DEF Orders, steps
  <2>2. Append(need, id) \in Seq(steps)
    BY <2>1, AppendProperties
  <2> QED BY <1>6, <1>8, <2>2 DEF Orders, steps
<1> QED BY <1>7, <1>8

LEMMA NeedsAreVisited ==
  ASSUME NEW g, GraphOfSteps(g), NEW visit \in Visits(DOMAIN g), NEW left \in Nat,
         VisitIsSound(g, visit, left), NEW id \in DOMAIN g,
         NEW visiting, NEW order, Starts(g, visiting, order), OnPath(g, visiting, id),
         id \notin visiting, id \notin ElementsOf(order), Cardinality(DOMAIN g \ visiting) <= left + 1
  PROVE  /\ Comes(g, visiting, order, Remedy!VisitWithNeeds(g, visit, id, visiting, order))
         /\ Brings(Remedy!VisitWithNeeds(g, visit, id, visiting, order), {id})
<1> DEFINE steps == DOMAIN g
           ids  == Remedy!InOrder(g[id])
           path == visiting \cup {id}
           need == Remedy!VisitEach(visit, ids, path, order)
           result == Remedy!VisitWithNeeds(g, visit, id, visiting, order)
<1>1. ids \in Seq(steps) /\ ElementsOf(ids) = g[id]
  BY PrerequisitesInOrder
<1>2. visiting \in SUBSET steps /\ Runnable(g, order) /\ ElementsOf(order) \cap visiting = {}
  BY DEF Starts
<1>3. Starts(g, path, order)
  BY <1>2 DEF Starts
<1>4. Cardinality(steps \ path) <= left
  <2>1. IsFiniteSet(steps)
    BY DEF GraphOfSteps
  <2>2. IsFiniteSet(steps \ visiting)
    BY <2>1, FS_Difference
  <2>3. steps \ path = (steps \ visiting) \ {id} /\ id \in steps \ visiting
    OBVIOUS
  <2> DEFINE U == steps \ visiting
  <2>4. Cardinality(U \ {id}) = Cardinality(U) - 1 /\ Cardinality(U) \in Nat
    <3> HIDE DEF U
    <3>1. IsFiniteSet(U) /\ id \in U
      BY <2>2, <2>3 DEF U
    <3> QED BY <3>1, FS_RemoveElement, FS_CardinalityType
  <2>5. Cardinality(U) <= left + 1
    OBVIOUS
  <2> HIDE DEF U
  <2>6. Cardinality(U \ {id}) <= left
    BY <2>4, <2>5
  <2> QED BY <2>3, <2>6 DEF U
<1>5. ASSUME NEW p \in g[id], NEW v \in path PROVE p \in Remedy!Needs(g, v)
  <2>1. v \in steps
    BY <1>2
  <2>2. Needed(g, v, Remedy!Needs(g, v))
    BY <2>1, NeedsAreNeeded
  <2>3. CASE v = id
    BY <1>5, <2>2, <2>3 DEF Needed
  <2>4. CASE v \in visiting
    <3>1. id \in Remedy!Needs(g, v)
      BY <2>4 DEF OnPath
    <3> QED BY <1>5, <2>2, <3>1 DEF Needed, Closed
  <2> QED BY <2>3, <2>4
<1>6. \A p \in ElementsOf(ids) : OnPath(g, path, p)
  BY <1>1, <1>5 DEF OnPath
<1>7. Comes(g, path, order, need) /\ Brings(need, ElementsOf(ids))
  <2> HIDE DEF ids, path
  <2> QED BY <1>1, <1>3, <1>4, <1>6, EachIsVisited
<1> HIDE DEF need
<1>8. result = IF need = Remedy!Failed THEN Remedy!Failed ELSE Append(need, id)
  BY Zenon DEF Remedy!VisitWithNeeds, need
<1> HIDE DEF result, ids
<1>9. CASE need = Remedy!Failed
  <2>1. Cyclic(g)
    BY <1>7, <1>9, FailedIsNoOrder, Zenon DEF Comes
  <2> QED BY <1>8, <1>9, <2>1, Zenon DEF Comes, Brings, result
<1>10. CASE need # Remedy!Failed
  <2>1. /\ Runnable(g, need) /\ ElementsOf(order) \subseteq ElementsOf(need)
        /\ ElementsOf(need) \cap path = {} /\ g[id] \subseteq ElementsOf(need)
    BY <1>1, <1>7, <1>10, Zenon DEF Comes, Brings
  <2>2. id \notin ElementsOf(need)
    BY <2>1
  <2>3. Runnable(g, Append(need, id)) /\ ElementsOf(Append(need, id)) = ElementsOf(need) \cup {id}
    BY <2>1, <2>2, StepCanBeAppended
  <2>4. result = Append(need, id)
    BY <1>8, <1>10
  <2>5. /\ ElementsOf(order) \subseteq ElementsOf(result) /\ {id} \subseteq ElementsOf(result)
        /\ ElementsOf(result) \cap visiting = {}
    BY <2>1, <2>3, <2>4
  <2> QED BY <2>3, <2>4, <2>5, Zenon DEF Comes, Brings, result
<1> QED BY <1>9, <1>10

(* The answer of a visit that may go `left` steps further, with `below`    *)
(* those of the visits it makes.                                           *)
Answer(g, below, left, id, visiting, order) ==
  IF Remedy!Contains(order, id) THEN order
  ELSE IF id \in visiting \/ left = 0 THEN Remedy!Failed
  ELSE Remedy!VisitWithNeeds(g, below, id, visiting, order)

Answers(g, below, left) ==
  [id \in DOMAIN g |-> [visiting \in SUBSET DOMAIN g |-> [order \in Seq(DOMAIN g) |->
     Answer(g, below, left, id, visiting, order)]]]

LEMMA AnswersAreTyped ==
  ASSUME NEW g, GraphOfSteps(g), NEW left, NEW below, left = 0 \/ below \in Visits(DOMAIN g)
  PROVE  Answers(g, below, left) \in Visits(DOMAIN g)
<1> DEFINE steps == DOMAIN g
<1>1. ASSUME NEW id \in steps, NEW visiting \in SUBSET steps, NEW order \in Seq(steps)
      PROVE  Answer(g, below, left, id, visiting, order) \in Orders(steps)
  <2>1. order \in Orders(steps) /\ Remedy!Failed \in Orders(steps)
    BY DEF Orders
  <2>2. left # 0 => Remedy!VisitWithNeeds(g, below, id, visiting, order) \in Orders(steps)
    BY VisitWithNeedsIsTyped
  <2> HIDE DEF steps
  <2> QED BY <2>1, <2>2, Zenon DEF Answer
<1> QED BY <1>1 DEF Answers, Visits

(* visit as it recurses.                                                   *)
Recurs(g, f, n) == \A left \in 0..n : f[left] = Answers(g, f[left - 1], left)

LEMMA VisitRecurs ==
  ASSUME NEW g, GraphOfSteps(g)
  PROVE  \E f : Recurs(g, f, Cardinality(DOMAIN g)) /\ Remedy!Visit(g) = f[Cardinality(DOMAIN g)]
<1> DEFINE steps == DOMAIN g
           n == Cardinality(steps)
           A == Visits(steps)
           Loop(f) == f = [left \in 0..n |-> Answers(g, f[left - 1], left)]
           f0 == CHOOSE f : Loop(f)
           G == [p \in Nat \X A |-> Answers(g, p[2], p[1] + 1)]
           start == Answers(g, {}, 0)
<1>1. n \in Nat
  BY FS_CardinalityType DEF GraphOfSteps
<1>2. Remedy!Visit(g) = f0[n]
  <2>1. Remedy!Cardinality(steps) = n
    BY RemedyCounts
  <2>2. \A f : [left \in 0..n |->
                  [id \in steps |-> [visiting \in SUBSET steps |-> [order \in Seq(steps) |->
                     IF Remedy!Contains(order, id) THEN order
                     ELSE IF id \in visiting \/ left = 0 THEN Remedy!Failed
                     ELSE Remedy!VisitWithNeeds(g, f[left - 1], id, visiting, order)]]]]
               = [left \in 0..n |-> Answers(g, f[left - 1], left)]
    BY Zenon DEF Answers, Answer
  <2> HIDE DEF n
  <2>3. Remedy!Visit(g) = (CHOOSE f : f = [left \in 0..n |->
                  [id \in steps |-> [visiting \in SUBSET steps |-> [order \in Seq(steps) |->
                     IF Remedy!Contains(order, id) THEN order
                     ELSE IF id \in visiting \/ left = 0 THEN Remedy!Failed
                     ELSE Remedy!VisitWithNeeds(g, f[left - 1], id, visiting, order)]]]])[n]
    BY <2>1, Zenon DEF Remedy!Visit
  <2> QED BY <2>2, <2>3, Zenon
<1> HIDE DEF n, f0
<1>3. start \in A
  BY AnswersAreTyped
<1>4. G \in StepFunctions(A) /\ \A k \in Nat, a \in A : G[<<k, a>>] = Answers(g, a, k + 1)
  <2>1. \A k \in Nat, a \in A : Answers(g, a, k + 1) \in A
    BY AnswersAreTyped
  <2> HIDE DEF A
  <2> QED BY <2>1 DEF StepFunctions
<1>5. \A x, y : Answers(g, x, 0) = Answers(g, y, 0)
  BY Zenon DEF Answers, Answer
<1> HIDE DEF A, G, start
<1>6. PICK r : Recursion(r, A, start, G)
  BY <1>3, <1>4, RecursiveFunction, Zenon
<1>7. r[0] = start /\ \A k \in Nat : r[k] \in A /\ r[k + 1] = Answers(g, r[k], k + 1)
  <2>1. r \in [Nat -> A] /\ r[0] = start /\ \A k \in Nat : r[k + 1] = G[<<k, r[k]>>]
    BY <1>6 DEF Recursion
  <2> QED BY <1>4, <2>1
<1> DEFINE f == [left \in 0..n |-> r[left]]
<1>8. \A left \in 0..n : f[left] = Answers(g, f[left - 1], left)
  <2> SUFFICES ASSUME NEW left \in 0..n PROVE r[left] = Answers(g, f[left - 1], left)
    OBVIOUS
  <2>1. CASE left = 0
    BY <1>5, <1>7, <2>1 DEF start
  <2>2. CASE left # 0
    <3>1. left - 1 \in Nat /\ left - 1 \in 0..n /\ (left - 1) + 1 = left
      BY <1>1, <2>2
    <3>2. f[left - 1] = r[left - 1]
      BY <3>1
    <3> HIDE DEF f
    <3>3. r[(left - 1) + 1] = Answers(g, r[left - 1], (left - 1) + 1)
      BY <1>7, <3>1
    <3> QED BY <3>1, <3>2, <3>3
  <2> QED BY <2>1, <2>2
<1>9. Loop(f)
  BY <1>8
<1>10. Loop(f0)
  <2> HIDE DEF Loop, f
  <2> QED BY <1>9, Zenon DEF f0
<1>11. Recurs(g, f0, n)
  <2>1. \A left \in 0..n : f0[left] = Answers(g, f0[left - 1], left)
    BY <1>10
  <2> QED BY <2>1 DEF Recurs
<1> QED BY <1>2, <1>11 DEF n

LEMMA AnswerIsSound ==
  ASSUME NEW g, GraphOfSteps(g), NEW left \in Nat, NEW below,
         left = 0 \/ (below \in Visits(DOMAIN g) /\ VisitIsSound(g, below, left - 1)),
         NEW id \in DOMAIN g, NEW visiting, NEW order, Starts(g, visiting, order),
         OnPath(g, visiting, id), Cardinality(DOMAIN g \ visiting) <= left
  PROVE  /\ Comes(g, visiting, order, Answer(g, below, left, id, visiting, order))
         /\ Brings(Answer(g, below, left, id, visiting, order), {id})
<1> DEFINE result == Answer(g, below, left, id, visiting, order)
<1>1. visiting \in SUBSET DOMAIN g /\ Runnable(g, order) /\ ElementsOf(order) \cap visiting = {}
  BY DEF Starts
<1>2. Remedy!Contains(order, id) <=> id \in ElementsOf(order)
  BY DEF Remedy!Contains, ElementsOf
<1>3. CASE id \in ElementsOf(order)
  <2>1. result = order
    BY <1>2, <1>3, Zenon DEF Answer
  <2>2. {id} \subseteq ElementsOf(order)
    BY <1>3
  <2> HIDE DEF result
  <2> QED BY <1>1, <2>1, <2>2, Zenon DEF Comes, Brings, result
<1>4. CASE id \notin ElementsOf(order) /\ id \in visiting
  <2>1. result = Remedy!Failed
    BY <1>2, <1>4, Zenon DEF Answer
  <2>2. id \in Remedy!Needs(g, id)
    BY <1>4 DEF OnPath
  <2>3. Cyclic(g)
    BY <2>2 DEF Cyclic
  <2> QED BY <2>1, <2>3, Zenon DEF Comes, Brings
<1>5. CASE id \notin ElementsOf(order) /\ id \notin visiting
  <2>1. left # 0
    <3> SUFFICES ASSUME left = 0 PROVE FALSE
      OBVIOUS
    <3> DEFINE U == DOMAIN g \ visiting
    <3>1. IsFiniteSet(DOMAIN g)
      BY DEF GraphOfSteps
    <3>2. IsFiniteSet(U)
      BY <3>1, FS_Difference
    <3>3. Cardinality(U) \in Nat /\ id \in U
      BY <1>5, <3>2, FS_CardinalityType
    <3>4. Cardinality(U) <= 0
      OBVIOUS
    <3> HIDE DEF U
    <3>5. Cardinality(U) = 0
      BY <3>3, <3>4
    <3> QED BY <3>2, <3>3, <3>5, FS_EmptySet
  <2>2. left - 1 \in Nat /\ (left - 1) + 1 = left /\ below \in Visits(DOMAIN g) /\ VisitIsSound(g, below, left - 1)
    BY <2>1
  <2>3. result = Remedy!VisitWithNeeds(g, below, id, visiting, order)
    BY <1>2, <1>5, <2>1, Zenon DEF Answer
  <2>4. Cardinality(DOMAIN g \ visiting) <= (left - 1) + 1
    BY <2>2
  <2> HIDE DEF result
  <2>5. /\ Comes(g, visiting, order, Remedy!VisitWithNeeds(g, below, id, visiting, order))
        /\ Brings(Remedy!VisitWithNeeds(g, below, id, visiting, order), {id})
    BY <1>5, <2>2, <2>4, NeedsAreVisited
  <2> QED BY <2>3, <2>5 DEF result
<1> QED BY <1>3, <1>4, <1>5

LEMMA VisitHolds ==
  ASSUME NEW g, GraphOfSteps(g)
  PROVE  /\ Remedy!Visit(g) \in Visits(DOMAIN g)
         /\ VisitIsSound(g, Remedy!Visit(g), Cardinality(DOMAIN g))
<1> DEFINE steps == DOMAIN g
           n == Cardinality(steps)
<1>1. n \in Nat
  BY FS_CardinalityType DEF GraphOfSteps
<1>2. PICK f : Recurs(g, f, n) /\ Remedy!Visit(g) = f[n]
  BY VisitRecurs
<1>3. \A left \in 0..n : f[left] = Answers(g, f[left - 1], left)
  BY <1>2, Zenon DEF Recurs
<1> HIDE DEF n
<1> DEFINE So(k) == f[k] \in Visits(steps) /\ VisitIsSound(g, f[k], k)
           E == {k \in Nat : k <= n => So(k)}
<1>4. ASSUME NEW k \in 0..n, k = 0 \/ So(k - 1) PROVE So(k)
  <2> DEFINE below == f[k - 1]
  <2>1. k \in Nat /\ f[k] = Answers(g, below, k)
    BY <1>1, <1>3
  <2>2. k = 0 \/ (below \in Visits(steps) /\ VisitIsSound(g, below, k - 1))
    BY <1>4
  <2> HIDE DEF below, So
  <2>3. f[k] \in Visits(steps)
    BY <2>1, <2>2, AnswersAreTyped
  <2>4. ASSUME NEW id \in steps, NEW visiting \in SUBSET steps, NEW order \in Seq(steps),
               Starts(g, visiting, order), OnPath(g, visiting, id), Cardinality(steps \ visiting) <= k
        PROVE  /\ Comes(g, visiting, order, f[k][id][visiting][order])
               /\ Brings(f[k][id][visiting][order], {id})
    <3>1. f[k][id][visiting][order] = Answer(g, below, k, id, visiting, order)
      BY <2>1 DEF Answers
    <3>2. /\ Comes(g, visiting, order, Answer(g, below, k, id, visiting, order))
          /\ Brings(Answer(g, below, k, id, visiting, order), {id})
      BY <2>1, <2>2, <2>4, AnswerIsSound
    <3> QED BY <3>1, <3>2
  <2>5. VisitIsSound(g, f[k], k)
    BY <2>4, Zenon DEF VisitIsSound
  <2> QED BY <2>3, <2>5 DEF So
<1> HIDE DEF So
<1>5. 0 \in E
  BY <1>1, <1>4
<1>6. ASSUME NEW k \in Nat, k \in E PROVE k + 1 \in E
  <2> SUFFICES ASSUME k + 1 <= n PROVE So(k + 1)
    OBVIOUS
  <2>1. k + 1 \in 0..n /\ So((k + 1) - 1)
    BY <1>1, <1>6
  <2> QED BY <1>4, <2>1
<1>7. Nat \subseteq E
  <2> HIDE DEF E
  <2> QED BY <1>5, <1>6, Induction
<1>8. So(n)
  BY <1>1, <1>7
<1> QED BY <1>2, <1>8 DEF So, n

-----------------------------------------------------------------------------
(* The order of a graph, and its rehearsal.                                *)

LEMMA OrderIsBuilt ==
  ASSUME NEW g, GraphOfSteps(g)
  PROVE  \/ Remedy!build_execution_order(g) = Remedy!Failed /\ Cyclic(g)
         \/ /\ Runnable(g, Remedy!build_execution_order(g))
            /\ ElementsOf(Remedy!build_execution_order(g)) = DOMAIN g
<1> DEFINE steps == DOMAIN g
           ids   == Remedy!InOrder(steps)
           visit == Remedy!Visit(g)
           order == Remedy!VisitEach(visit, ids, {}, <<>>)
<1>1. IsFiniteSet(steps) /\ steps \subseteq Nat /\ \A s \in steps : g[s] \subseteq steps
  BY DEF GraphOfSteps
<1>2. Remedy!build_execution_order(g) = order
  BY <1>1, Zenon DEF Remedy!build_execution_order
<1>3. Holds(ids, steps)
  BY <1>1, InOrderHoldsAll
<1>4. ids \in Seq(steps) /\ ElementsOf(ids) = steps
  BY <1>3 DEF Holds
<1>5. visit \in Visits(steps) /\ VisitIsSound(g, visit, Cardinality(steps))
  BY VisitHolds
<1>6. Starts(g, {}, <<>>)
  BY DEF Starts, Runnable, ElementsOf
<1>7. \A id \in ElementsOf(ids) : OnPath(g, {}, id)
  BY DEF OnPath
<1>8. Cardinality(steps \ {}) <= Cardinality(steps)
  <2>1. steps \ {} = steps /\ Cardinality(steps) \in Nat
    BY <1>1, FS_CardinalityType
  <2> QED BY <2>1
<1> HIDE DEF ids, visit
<1>9. Comes(g, {}, <<>>, order) /\ Brings(order, steps)
  <2> DEFINE left == Cardinality(steps)
  <2>1. VisitIsSound(g, visit, left) /\ Cardinality(steps \ {}) <= left
    BY <1>5, <1>8
  <2> HIDE DEF left
  <2>2. Comes(g, {}, <<>>, order) /\ Brings(order, ElementsOf(ids))
    BY <1>4, <1>5, <1>6, <1>7, <2>1, EachIsVisited
  <2> QED BY <1>4, <2>2
<1> HIDE DEF order
<1>10. CASE order = Remedy!Failed
  <2>1. Cyclic(g)
    BY <1>9, <1>10, FailedIsNoOrder, Zenon DEF Comes
  <2> QED BY <1>2, <1>10, <2>1
<1>11. CASE order # Remedy!Failed
  <2>1. Runnable(g, order) /\ steps \subseteq ElementsOf(order)
    BY <1>9, <1>11, Zenon DEF Comes, Brings
  <2>2. ElementsOf(order) \subseteq steps
    BY <2>1 DEF Runnable, ElementsOf
  <2> QED BY <1>2, <2>1, <2>2
<1> QED BY <1>10, <1>11

(* What comes before a step in an order that can be run holds its needs.   *)
LEMMA OrdersHaveNoCycle ==
  ASSUME NEW g, GraphOfSteps(g), NEW order, Runnable(g, order), ElementsOf(order) = DOMAIN g
  PROVE  ~Cyclic(g)
<1> SUFFICES ASSUME NEW s \in DOMAIN g, s \in Remedy!Needs(g, s) PROVE FALSE
  BY DEF Cyclic
<1> DEFINE n == Len(order)
<1>1. /\ order \in Seq(DOMAIN g) /\ n \in Nat
      /\ \A i, j \in 1..n : order[i] = order[j] => i = j
      /\ \A i \in 1..n : \A p \in g[order[i]] : \E j \in 1..(i - 1) : order[j] = p
  BY DEF Runnable
<1>2. PICK i \in 1..n : order[i] = s
  BY DEF ElementsOf
<1> DEFINE C == {order[j] : j \in 1..(i - 1)}
<1>3. C \in SUBSET DOMAIN g
  <2>1. \A j \in 1..(i - 1) : j \in 1..n
    BY <1>1, <1>2
  <2> QED BY <1>1, <2>1
<1>4. g[s] \subseteq C
  BY <1>1, <1>2
<1>5. ASSUME NEW j \in 1..(i - 1), NEW p \in g[order[j]] PROVE p \in C
  <2>1. j \in 1..n
    BY <1>1, <1>2
  <2>2. PICK k \in 1..(j - 1) : order[k] = p
    BY <1>1, <1>5, <2>1
  <2>3. k \in 1..(i - 1)
    BY <1>1, <1>2, <2>1, <2>2
  <2> QED BY <2>2, <2>3
<1>6. Closed(g, C)
  BY <1>5 DEF Closed
<1>7. Needed(g, s, Remedy!Needs(g, s))
  BY NeedsAreNeeded
<1>8. s \in C
  <2> HIDE DEF C
  <2> QED BY <1>3, <1>4, <1>6, <1>7 DEF Needed
<1>9. PICK j \in 1..(i - 1) : order[j] = s
  BY <1>8
<1>10. j \in 1..n /\ j # i
  BY <1>1, <1>2, <1>9
<1> QED BY <1>1, <1>2, <1>9, <1>10

LEMMA OrdersAreAsLong ==
  ASSUME NEW g, GraphOfSteps(g), NEW order, Runnable(g, order), ElementsOf(order) = DOMAIN g
  PROVE  Len(order) = Cardinality(DOMAIN g)
<1> DEFINE n == Len(order)
           steps == DOMAIN g
<1>1. /\ order \in Seq(steps) /\ n \in Nat
      /\ \A i, j \in 1..n : order[i] = order[j] => i = j
  BY DEF Runnable
<1>2. order \in [1..n -> steps] /\ \A s \in steps : \E i \in 1..n : order[i] = s
  <2>1. steps = {order[i] : i \in 1..n}
    BY DEF ElementsOf
  <2>2. order \in [1..n -> steps]
    BY <1>1
  <2> QED BY <2>1, <2>2
<1>3. IsFiniteSet(steps) /\ IsFiniteSet(1..n) /\ Cardinality(1..n) = n
  BY <1>1, FS_Interval DEF GraphOfSteps
<1> HIDE DEF n, steps
<1>4. order \in Injection(1..n, steps) /\ order \in Surjection(1..n, steps)
  BY <1>1, <1>2 DEF Injection, IsInjective, Surjection
<1>5. Cardinality(1..n) = Cardinality(steps)
  BY <1>3, <1>4, FS_Injection
<1> QED BY <1>3, <1>5 DEF n, steps

(* The steps that ran, as the rehearsal goes on.                            *)
Rehearsing(h, g, gated, order) ==
  /\ h \in [0..Len(order) -> (SUBSET DOMAIN g)] /\ h[0] = {}
  /\ \A k \in 0..(Len(order) - 1) : h[k + 1] = Remedy!Rehearse(g, gated, h[k], order[k + 1])

LEMMA RehearsalIsALoop ==
  ASSUME NEW g, NEW gated, NEW order \in Seq(DOMAIN g), Remedy!build_execution_order(g) = order
  PROVE  \E h : Rehearsing(h, g, gated, order) /\ Remedy!Rehearsed(g, gated) = h[Len(order)]
<1> DEFINE n == Len(order)
           A == (SUBSET DOMAIN g)
           next(acc, i) == Remedy!Rehearse(g, gated, acc, order[i])
           G == [p \in A \X (1..n) |-> next(p[1], p[2])]
           Loop(f) == f = [s \in SUBSET (1..n) |-> IF s = {} THEN {}
                                                  ELSE next(f[s \ {Remedy!Max(s)}], Remedy!Max(s))]
           f0 == CHOOSE f : Loop(f)
<1>1. n \in Nat /\ DOMAIN order = 1..n
  OBVIOUS
<1>2. {} \in A
  OBVIOUS
<1>3. \A a \in A, i \in 1..n : next(a, i) \in A
  <2>1. \A i \in 1..n : order[i] \in DOMAIN g
    OBVIOUS
  <2>2. \A a \in A, s \in DOMAIN g : Remedy!Rehearse(g, gated, a, s) \in A
    BY DEF Remedy!Rehearse
  <2> HIDE DEF n, A
  <2> QED BY <2>1, <2>2
<1>4. Remedy!Rehearsed(g, gated) = f0[1..n]
  BY <1>1 DEF Remedy!Rehearsed, Remedy!FoldLeft, Remedy!MapThenFoldSet
<1> HIDE DEF next, A
<1>5. G \in [A \X (1..n) -> A]
  BY <1>3
<1>6. PICK f : IsFold(f, n, A, {}, G)
  <2> HIDE DEF G, n
  <2> QED BY <1>1, <1>2, <1>5, FoldExists, Zenon
<1>7. \A s : Remedy!Max(s) = Greatest(s)
  BY DEF Remedy!Max, Greatest
<1>8. \A s \in SUBSET (1..n) : s # {} => Greatest(s) \in s
  <2> SUFFICES ASSUME NEW s \in SUBSET (1..n), s # {} PROVE Greatest(s) \in s
    OBVIOUS
  <2> HIDE DEF n
  <2> QED BY <1>1, GreatestIsThere, Zenon
<1>9. Loop(f)
  <2>0. /\ f \in [SUBSET (1..n) -> A]
        /\ \A s \in SUBSET (1..n) : f[s] = IF s = {} THEN {} ELSE G[<<f[s \ {Greatest(s)}], Greatest(s)>>]
    BY <1>6 DEF IsFold
  <2>1. ASSUME NEW s \in SUBSET (1..n), s # {}
        PROVE  f[s] = next(f[s \ {Remedy!Max(s)}], Remedy!Max(s))
    <3>1. Greatest(s) \in 1..n /\ f[s \ {Greatest(s)}] \in A
      BY <1>8, <2>0, <2>1
    <3>2. G[<<f[s \ {Greatest(s)}], Greatest(s)>>] = next(f[s \ {Greatest(s)}], Greatest(s))
      BY <3>1
    <3> HIDE DEF G
    <3> QED BY <1>7, <2>0, <2>1, <3>2
  <2> HIDE DEF G
  <2> QED BY <2>0, <2>1
<1>10. Loop(f0)
  <2> HIDE DEF Loop
  <2> QED BY <1>9, Zenon
<1>11. f0[1..0] = {}
  <2>1. 1..0 \in SUBSET (1..n) /\ 1..0 = {}
    OBVIOUS
  <2> HIDE DEF f0
  <2> QED BY <1>10, <2>1
<1>12. ASSUME NEW k \in 0..(n - 1) PROVE f0[1..(k + 1)] = next(f0[1..k], k + 1)
  <2>1. 1..(k + 1) \in SUBSET (1..n) /\ k \in Nat
    OBVIOUS
  <2>2. 1..(k + 1) # {} /\ Remedy!Max(1..(k + 1)) = k + 1 /\ (1..(k + 1)) \ {k + 1} = 1..k
    BY <1>7, <2>1, GreatestUpTo
  <2> HIDE DEF f0
  <2> QED BY <1>10, <2>1, <2>2
<1>13. FoldsUp(f0, n, A, {}, G)
  <2>1. ASSUME NEW k \in 0..(n - 1), f0[1..k] \in A PROVE f0[1..(k + 1)] = G[<<f0[1..k], k + 1>>]
    <3>1. k + 1 \in 1..n
      OBVIOUS
    <3> HIDE DEF f0
    <3> QED BY <1>12, <2>1, <3>1
  <2> HIDE DEF f0, G
  <2> QED BY <1>11, <2>1 DEF FoldsUp
<1> DEFINE h == StepsOf(f0, n)
<1>14. Iterates(h, n, A, {}, G)
  <2> HIDE DEF f0, G, n
  <2> QED BY <1>1, <1>2, <1>5, <1>13, FoldIterates, Zenon
<1>15. h[n] = f0[1..n]
  BY <1>1 DEF StepsOf
<1> HIDE DEF h
<1>16. \A k \in 0..(n - 1) : h[k + 1] = next(h[k], k + 1)
  <2>1. \A k \in 0..(n - 1) : h[k] \in A /\ k + 1 \in 1..n
    BY <1>14 DEF Iterates
  <2> QED BY <1>14, <2>1 DEF Iterates
<1>17. h \in [0..n -> A] /\ h[0] = {}
  BY <1>14 DEF Iterates
<1>18. Rehearsing(h, g, gated, order)
  BY <1>16, <1>17 DEF next, A, Rehearsing
<1> QED BY <1>4, <1>15, <1>18

(* The steps that nothing unconfirmed stands before.                       *)
May(g, gated) == {s \in DOMAIN g : s \notin gated /\ Remedy!Needs(g, s) \cap gated = {}}

LEMMA MayRun ==
  ASSUME NEW g, GraphOfSteps(g), NEW gated, NEW s \in DOMAIN g
  PROVE  s \in May(g, gated) <=> s \notin gated /\ g[s] \subseteq May(g, gated)
<1> DEFINE M == May(g, gated)
           N(t) == Remedy!Needs(g, t)
<1>1. Needed(g, s, N(s))
  BY NeedsAreNeeded
<1>2. ASSUME s \in M, NEW p \in g[s] PROVE p \in M
  <2>1. p \in N(s)
    BY <1>1, <1>2 DEF Needed
  <2>2. p \in DOMAIN g /\ N(p) \subseteq N(s)
    BY <2>1, NeedsOfNeeds
  <2>3. N(s) \cap gated = {}
    BY <1>2 DEF May
  <2> HIDE DEF N
  <2> QED BY <2>1, <2>2, <2>3 DEF May, N
<1>3. ASSUME s \notin gated, g[s] \subseteq M PROVE s \in M
  <2>1. ASSUME NEW c \in M, NEW p \in g[c] PROVE p \in M
    <3>1. c \in DOMAIN g /\ N(c) \cap gated = {}
      BY <2>1 DEF May
    <3>2. Needed(g, c, N(c))
      BY <3>1, NeedsAreNeeded
    <3>3. p \in N(c)
      BY <2>1, <3>2 DEF Needed
    <3>4. p \in DOMAIN g /\ N(p) \subseteq N(c)
      BY <3>1, <3>3, NeedsOfNeeds
    <3> HIDE DEF N
    <3> QED BY <3>1, <3>3, <3>4 DEF May, N
  <2>2. Closed(g, M)
    BY <2>1 DEF Closed
  <2>3. M \in SUBSET DOMAIN g
    BY DEF May
  <2> HIDE DEF M
  <2>4. N(s) \subseteq M
    BY <1>1, <1>3, <2>2, <2>3 DEF Needed
  <2>5. \A t \in M : t \notin gated
    BY DEF M, May
  <2>6. N(s) \cap gated = {}
    BY <2>4, <2>5
  <2> QED BY <1>3, <2>6 DEF M, May
<1>4. s \in M => s \notin gated
  BY DEF May
<1> HIDE DEF M
<1>5. s \in M => g[s] \subseteq M
  BY <1>2
<1> QED BY <1>3, <1>4, <1>5 DEF M

LEMMA RehearsalRunsWhatItMay ==
  ASSUME NEW g, GraphOfSteps(g), NEW gated, NEW order, Remedy!build_execution_order(g) = order,
         Runnable(g, order), ElementsOf(order) = DOMAIN g
  PROVE  Remedy!Rehearsed(g, gated) = May(g, gated)
<1> DEFINE n == Len(order)
           M == May(g, gated)
           First(k) == {order[i] : i \in 1..k}
<1>1. /\ order \in Seq(DOMAIN g) /\ n \in Nat
      /\ \A i \in 1..n : \A p \in g[order[i]] : \E j \in 1..(i - 1) : order[j] = p
  BY DEF Runnable
<1>2. PICK h : Rehearsing(h, g, gated, order) /\ Remedy!Rehearsed(g, gated) = h[n]
  BY <1>1, RehearsalIsALoop
<1>3. h[0] = {} /\ \A k \in 0..(n - 1) : h[k + 1] = Remedy!Rehearse(g, gated, h[k], order[k + 1])
  BY <1>2, Zenon DEF Rehearsing
<1> HIDE DEF First, M
<1> DEFINE E == {k \in Nat : k <= n => h[k] = First(k) \cap M}
<1>4. 0 \in E
  <2>1. First(0) = {}
    BY DEF First
  <2> QED BY <1>3, <2>1
<1>5. ASSUME NEW k \in 0..(n - 1), h[k] = First(k) \cap M
      PROVE  h[k + 1] = First(k + 1) \cap M
  <2> DEFINE s == order[k + 1]
  <2>1. k \in Nat /\ k + 1 \in 1..n /\ (k + 1) - 1 = k
    BY <1>1
  <2>2. s \in DOMAIN g
    BY <1>1, <2>1
  <2>3. First(k + 1) = First(k) \cup {s}
    <3>1. \A i \in 1..(k + 1) : i \in 1..k \/ i = k + 1
      BY <2>1
    <3>2. k + 1 \in 1..(k + 1) /\ \A i \in 1..k : i \in 1..(k + 1)
      BY <2>1
    <3> QED BY <3>1, <3>2 DEF First
  <2>4. \A p \in g[s] : \E j \in 1..((k + 1) - 1) : order[j] = p
    BY <1>1, <2>1
  <2>5. \A p \in g[s] : \E j \in 1..k : order[j] = p
    BY <2>1, <2>4
  <2>6. g[s] \subseteq First(k)
    BY <2>5 DEF First
  <2>7. h[k + 1] = Remedy!Rehearse(g, gated, h[k], s)
    BY <1>3
  <2> HIDE DEF s
  <2>8. s \in M <=> s \notin gated /\ g[s] \subseteq M
    BY <2>2, MayRun DEF M
  <2>9. h[k + 1] = IF g[s] \subseteq h[k] /\ s \notin gated THEN h[k] \cup {s} ELSE h[k]
    BY <2>7 DEF Remedy!Rehearse
  <2>10. g[s] \subseteq h[k] <=> g[s] \subseteq M
    BY <1>5, <2>6
  <2> QED BY <1>5, <2>3, <2>8, <2>9, <2>10
<1>6. ASSUME NEW k \in Nat, k \in E PROVE k + 1 \in E
  <2> SUFFICES ASSUME k + 1 <= n PROVE h[k + 1] = First(k + 1) \cap M
    OBVIOUS
  <2>1. k \in 0..(n - 1) /\ h[k] = First(k) \cap M
    BY <1>1, <1>6
  <2> QED BY <1>5, <2>1
<1>7. Nat \subseteq E
  <2> HIDE DEF E
  <2> QED BY <1>4, <1>6, Induction
<1>8. h[n] = First(n) \cap M
  BY <1>1, <1>7
<1>9. First(n) = DOMAIN g /\ M \subseteq DOMAIN g
  BY DEF First, M, May, ElementsOf
<1> QED BY <1>2, <1>8, <1>9 DEF M

(* A graph has an order exactly when it has no cycle and no unknown step,  *)
(* the order holds every step once and none before what it needs, and a    *)
(* rehearsal runs exactly what nothing unconfirmed stands before           *)
(* (graph.py): a visit that fails has come back to a step on its own path, *)
(* and one that does not leaves an order that can be run.                  *)
LEMMA RehearsalsAreSound == InputFits => RehearsalIsSound
<1> SUFFICES ASSUME InputFits, Given("rehearse"), NEW gated \in GateSets
             PROVE  Remedy!RehearsalIsSoundAt(input, gated)
  BY Zenon DEF RehearsalIsSound
<1> DEFINE g == input
           steps == DOMAIN g
           order == Remedy!build_execution_order(g)
<1>1. g \in Graphs
  BY DEF InputFits
<1>2. IsFiniteSet(steps) /\ steps \subseteq Nat \ {0}
  BY <1>1, RemediesAssumption
<1>3. CASE \E s \in steps : ~(g[s] \subseteq steps)
  <2>1. order = Remedy!Failed
    BY <1>3, Zenon DEF Remedy!build_execution_order
  <2> QED BY <1>3, <2>1, Zenon DEF Remedy!RehearsalIsSoundAt
<1>4. CASE ~\E s \in steps : ~(g[s] \subseteq steps)
  <2>1. GraphOfSteps(g)
    BY <1>2, <1>4 DEF GraphOfSteps
  <2> HIDE DEF order
  <2>2. \/ order = Remedy!Failed /\ Cyclic(g)
        \/ Runnable(g, order) /\ ElementsOf(order) = steps
    BY <2>1, OrderIsBuilt DEF order
  <2>3. CASE order = Remedy!Failed
    <3>1. Cyclic(g)
      BY <2>1, <2>2, <2>3, FailedIsNoOrder
    <3> QED BY <1>4, <2>3, <3>1, Zenon DEF Remedy!RehearsalIsSoundAt, Cyclic, order
  <2>4. CASE order # Remedy!Failed
    <3>1. Runnable(g, order) /\ ElementsOf(order) = steps
      BY <2>2, <2>4
    <3>2. ~Cyclic(g)
      BY <2>1, <3>1, OrdersHaveNoCycle
    <3>3. Len(order) = Remedy!Cardinality(steps)
      BY <2>1, <3>1, OrdersAreAsLong, RemedyCounts, Zenon
    <3>4. Remedy!Rehearsed(g, gated) = May(g, gated)
      BY <2>1, <3>1, RehearsalRunsWhatItMay DEF order
    <3>5. /\ order \in Seq(steps) /\ \A i, j \in 1..Len(order) : order[i] = order[j] => i = j
          /\ \A i \in 1..Len(order) : \A p \in g[order[i]] : \E j \in 1..(i - 1) : order[j] = p
      BY <3>1 DEF Runnable
    <3>6. Remedy!ToSet(order) = steps
      <4>1. DOMAIN order = 1..Len(order)
        BY <3>5
      <4> QED BY <3>1, <4>1, Zenon DEF Remedy!ToSet, ElementsOf
    <3>7. ASSUME NEW i \in 1..Len(order), NEW j \in 1..Len(order), order[j] \in g[order[i]]
          PROVE  j < i
      <4>1. PICK k \in 1..(i - 1) : order[k] = order[j]
        BY <3>5, <3>7
      <4>2. k \in 1..Len(order) /\ k < i
        BY <3>5, <4>1
      <4> QED BY <3>5, <4>1, <4>2
    <3> QED BY <1>4, <2>4, <3>2, <3>3, <3>4, <3>6, <3>7, Zenon
            DEF Remedy!RehearsalIsSoundAt, Cyclic, May, order
  <2> QED BY <2>3, <2>4
<1> QED BY <1>3, <1>4

-----------------------------------------------------------------------------
(* What a project declares, requirement after requirement.                 *)

(* The texts a recipe writes itself.                                       *)
Words ==
  {"python", "node", "go", "runtime", "dependency", "ci", "tool-versions", "nested", "Dockerfile",
   "devcontainer", "poetry.lock", "poetry.toml", "package-lock.json", "go.sum", "requirements.txt",
   ".nvmrc", ".tool-versions", ".python-version", "of-ci", "of-pin", "of-dep", "any"}

Texts == STRING \cup Words

DeclaredRequirement ==
  [ eco     : {"python", "node", "go", "generic", "container"},
    name    : Words,
    version : Texts \cup {None},
    note    : {"", "lockfile-present", ".nvmrc", ".tool-versions"} ]

LEMMA RequirementFields ==
  \A eco, name, version, note :
    Recipe!Requirement(eco, name, version, note) = [eco |-> eco, name |-> name, version |-> version, note |-> note]
BY DEF Recipe!Requirement

LEMMA ShortSequences ==
  ASSUME NEW T, NEW r \in T
  PROVE  <<r>> \in Seq(T) /\ ElementsOf(<<r>>) = {r} /\ <<>> \in Seq(T) /\ ElementsOf(<<>>) = {}
BY DEF ElementsOf

LEMMA OneHoldsOne ==
  ASSUME NEW T, NEW r \in T, NEW condition
  PROVE  /\ Recipe!One(condition, r) \in Seq(T)
         /\ ElementsOf(Recipe!One(condition, r)) = {x \in {r} : condition}
<1>1. <<r>> \in Seq(T) /\ ElementsOf(<<r>>) = {r} /\ <<>> \in Seq(T) /\ ElementsOf(<<>>) = {}
  BY ShortSequences
<1>2. CASE condition
  <2>1. Recipe!One(condition, r) = <<r>>
    BY <1>2, Zenon DEF Recipe!One
  <2>2. {x \in {r} : condition} = {r}
    BY <1>2
  <2> QED BY <1>1, <2>1, <2>2
<1>3. CASE ~condition
  <2>1. Recipe!One(condition, r) = <<>>
    BY <1>3, Zenon DEF Recipe!One
  <2>2. {x \in {r} : condition} = {}
    BY <1>3
  <2> QED BY <1>1, <2>1, <2>2
<1> QED BY <1>2, <1>3

(* A set as a sequence.                                                    *)
LEMMA SetAsSequence ==
  ASSUME NEW S, IsFiniteSet(S)
  PROVE  /\ Recipe!InSomeOrder(S) \in Seq(S) /\ ElementsOf(Recipe!InSomeOrder(S)) = S
         /\ Len(Recipe!InSomeOrder(S)) = Cardinality(S)
<1> DEFINE n == Cardinality(S)
           s == Recipe!InSomeOrder(S)
<1>1. n \in Nat /\ ExistsBijection(1..n, S)
  BY FS_CardinalityType
<1>2. PICK b : b \in Bijection(1..n, S)
  BY <1>1 DEF ExistsBijection
<1>3. b \in [1..n -> S] /\ \A i, j \in 1..n : b[i] = b[j] => i = j
  BY <1>2 DEF Bijection, Injection, IsInjective
<1>4. DOMAIN b = 1..n
  BY <1>3
<1>5. Recipe!IsInjective(b)
  BY <1>3, <1>4, Zenon DEF Recipe!IsInjective
<1>6. Recipe!Cardinality(S) = n
  BY Zenon DEF Recipe!Cardinality, Cardinality
<1>7. s = CHOOSE f \in [1..n -> S] : Recipe!IsInjective(f)
  BY <1>6, Zenon DEF Recipe!InSomeOrder
<1> HIDE DEF s, n
<1>8. s \in [1..n -> S] /\ Recipe!IsInjective(s)
  BY <1>3, <1>5, <1>7, Zenon
<1>9. DOMAIN s = 1..n
  BY <1>8
<1>10. \A i, j \in 1..n : s[i] = s[j] => i = j
  BY <1>8, <1>9, Zenon DEF Recipe!IsInjective
<1>11. s \in Injection(1..n, S)
  BY <1>8, <1>10 DEF Injection, IsInjective
<1>12. IsFiniteSet(1..n) /\ Cardinality(1..n) = n
  BY <1>1, FS_Interval
<1>13. s \in Surjection(1..n, S)
  BY <1>11, <1>12, FS_Injection DEF n
<1>14. s \in Seq(S) /\ Len(s) = n
  BY <1>1, <1>8
<1>15. ElementsOf(s) = S
  <2>1. \A x \in S : \E i \in 1..n : s[i] = x
    BY <1>13 DEF Surjection
  <2>2. \A i \in 1..n : s[i] \in S
    BY <1>8
  <2> QED BY <1>14, <2>1, <2>2 DEF ElementsOf
<1> QED BY <1>14, <1>15 DEF s, n

(* How many requirements of a sequence are of lockfiles.                   *)
LockIndices(s) == {i \in 1..Len(s) : s[i].note = "lockfile-present"}

LocksIn(s) == Cardinality(LockIndices(s))

LEMMA LocksAreCounted ==
  ASSUME NEW T, NEW s \in Seq(T)
  PROVE  IsFiniteSet(LockIndices(s)) /\ LocksIn(s) \in Nat
<1>1. LockIndices(s) \subseteq 1..Len(s) /\ Len(s) \in Nat
  BY DEF LockIndices
<1>2. IsFiniteSet(1..Len(s))
  BY <1>1, FS_Interval
<1>3. IsFiniteSet(LockIndices(s))
  BY <1>1, <1>2, FS_Subset
<1> QED BY <1>3, FS_CardinalityType DEF LocksIn

LEMMA LocksAddUp ==
  ASSUME NEW T, NEW s \in Seq(T), NEW t \in Seq(T)
  PROVE  LocksIn(s \o t) = LocksIn(s) + LocksIn(t)
<1> DEFINE m == Len(s)
           n == Len(t)
           u == s \o t
           S == LockIndices(s)
           R == LockIndices(t)
           shift == [i \in R |-> m + i]
           M == {m + i : i \in R}
<1>1. /\ m \in Nat /\ n \in Nat /\ u \in Seq(T) /\ Len(u) = m + n
      /\ \A i \in 1..(m + n) : u[i] = IF i <= m THEN s[i] ELSE t[i - m]
  BY ConcatProperties
<1>2. S = {i \in 1..m : s[i].note = "lockfile-present"} /\ R = {i \in 1..n : t[i].note = "lockfile-present"}
  BY DEF LockIndices
<1> HIDE DEF u, m, n, S, R
<1>3. \A i \in 1..m : i \in 1..(m + n) /\ u[i] = s[i]
  BY <1>1
<1>4. \A i \in 1..n : m + i \in 1..(m + n) /\ u[m + i] = t[i]
  BY <1>1
<1>5. \A i \in 1..(m + n) : i \in 1..m \/ (i - m \in 1..n /\ i = m + (i - m))
  BY <1>1
<1>6. LockIndices(u) = {i \in 1..(m + n) : u[i].note = "lockfile-present"}
  BY <1>1 DEF LockIndices
<1>7. LockIndices(u) = S \cup M
  <2>1. ASSUME NEW i \in LockIndices(u) PROVE i \in S \cup M
    <3>1. i \in 1..(m + n) /\ u[i].note = "lockfile-present"
      BY <1>6, <2>1
    <3>2. CASE i \in 1..m
      BY <1>2, <1>3, <3>1, <3>2
    <3>3. CASE i - m \in 1..n /\ i = m + (i - m)
      <4>1. i - m \in R
        BY <1>2, <1>4, <3>1, <3>3
      <4> QED BY <3>3, <4>1
    <3> QED BY <1>5, <3>1, <3>2, <3>3
  <2>2. ASSUME NEW i \in S PROVE i \in LockIndices(u)
    BY <1>2, <1>3, <1>6, <2>2
  <2>3. ASSUME NEW i \in R PROVE m + i \in LockIndices(u)
    BY <1>2, <1>4, <1>6, <2>3
  <2> QED BY <2>1, <2>2, <2>3
<1>8. IsFiniteSet(S) /\ IsFiniteSet(R) /\ Cardinality(S) \in Nat /\ Cardinality(R) \in Nat
  BY LocksAreCounted DEF S, R, LocksIn
<1>9. shift \in Bijection(R, M)
  <2>1. \A i \in R : i \in Int
    BY <1>2
  <2>2. shift \in [R -> M] /\ \A i \in R : shift[i] = m + i
    OBVIOUS
  <2> HIDE DEF shift
  <2>3. \A i, j \in R : shift[i] = shift[j] => i = j
    BY <1>1, <2>1, <2>2
  <2>4. \A x \in M : \E i \in R : shift[i] = x
    BY <2>2
  <2> QED BY <2>2, <2>3, <2>4 DEF Bijection, Injection, IsInjective, Surjection
<1> HIDE DEF shift
<1>10. S \cap M = {}
  BY <1>1, <1>2
<1> HIDE DEF M
<1>11. IsFiniteSet(M) /\ Cardinality(M) = Cardinality(R)
  <2>1. ExistsBijection(R, M)
    BY <1>9 DEF ExistsBijection
  <2> QED BY <1>8, <2>1, FS_Bijection
<1>12. Cardinality(S \cup M) = Cardinality(S) + Cardinality(M) - Cardinality(S \cap M)
  BY <1>8, <1>11, FS_Union
<1>13. Cardinality(S \cap M) = 0
  BY <1>10, FS_EmptySet
<1> QED BY <1>7, <1>8, <1>11, <1>12, <1>13 DEF LocksIn, S, R, u

LEMMA NoLocks ==
  ASSUME NEW T, NEW s \in Seq(T), \A r \in ElementsOf(s) : r.note # "lockfile-present"
  PROVE  LocksIn(s) = 0
<1>1. LockIndices(s) = {}
  BY DEF LockIndices, ElementsOf
<1> QED BY <1>1, FS_EmptySet DEF LocksIn

LEMMA OnlyLocks ==
  ASSUME NEW T, NEW s \in Seq(T), \A r \in ElementsOf(s) : r.note = "lockfile-present"
  PROVE  LocksIn(s) = Len(s)
<1>1. LockIndices(s) = 1..Len(s) /\ Len(s) \in Nat
  BY DEF LockIndices, ElementsOf
<1> DEFINE n == Len(s)
<1>2. n \in Nat
  OBVIOUS
<1> HIDE DEF n
<1>3. Cardinality(1..n) = n
  BY <1>2, FS_Interval
<1> QED BY <1>1, <1>3 DEF LocksIn, n

ManifestRecord == [runtime : STRING \cup {None}, deps : Seq(STRING \cup {"of-dep"})]

Manifest == ManifestRecord \cup {None}

ProjectRecord ==
  [ broken : SUBSET Recipe!Images, manifests : [python : Manifest, node : Manifest, go : Manifest],
    pins : SUBSET Texts, locks : SUBSET Texts, nested : Nat,
    containers : SUBSET Texts, ci : SUBSET Texts ]

LEMMA ManifestOf ==
  ASSUME NEW p \in ProjectRecord, NEW eco \in Recipe!Images
  PROVE  p.manifests[eco] \in Manifest
<1>1. p.manifests \in [python : Manifest, node : Manifest, go : Manifest]
  BY DEF ProjectRecord
<1>2. /\ p.manifests["python"] \in Manifest /\ p.manifests["node"] \in Manifest
      /\ p.manifests["go"] \in Manifest
  BY <1>1
<1>3. eco = "python" \/ eco = "node" \/ eco = "go"
  BY DEF Recipe!Images
<1> QED BY <1>2, <1>3

RuntimeOf(p, eco) == Recipe!Requirement(eco, "runtime", p.manifests[eco].runtime, "")

ManifestSet(p, eco) ==
  IF p.manifests[eco] = None THEN {}
  ELSE {r \in {RuntimeOf(p, eco)} : p.manifests[eco].runtime # None}
       \cup {Recipe!Requirement(eco, "dependency", d, "") : d \in ElementsOf(p.manifests[eco].deps)}

LEMMA RequirementIsTyped ==
  ASSUME NEW eco \in {"python", "node", "go", "generic", "container"}, NEW name \in Words,
         NEW version \in Texts \cup {None},
         NEW note \in {"", "lockfile-present", ".nvmrc", ".tool-versions"}
  PROVE  Recipe!Requirement(eco, name, version, note) \in DeclaredRequirement
BY DEF Recipe!Requirement, DeclaredRequirement

LEMMA ManifestRequirements ==
  ASSUME NEW p \in ProjectRecord, NEW eco \in Recipe!Images
  PROVE  /\ Recipe!ManifestReqs(p, eco) \in Seq(DeclaredRequirement)
         /\ ElementsOf(Recipe!ManifestReqs(p, eco)) = ManifestSet(p, eco)
<1> DEFINE m == p.manifests[eco]
           T == DeclaredRequirement
           r == RuntimeOf(p, eco)
           dep(d) == Recipe!Requirement(eco, "dependency", d, "")
           first == Recipe!One(m.runtime # None, r)
           rest  == [i \in 1..Len(m.deps) |-> dep(m.deps[i])]
           reqs  == Recipe!ManifestReqs(p, eco)
<1>1. m \in Manifest
  BY ManifestOf
<1>2. CASE m = None
  <2>1. reqs = <<>>
    BY <1>2, Zenon DEF Recipe!ManifestReqs
  <2>2. <<>> \in Seq(T) /\ ElementsOf(<<>>) = {}
    BY DEF ElementsOf
  <2>3. ManifestSet(p, eco) = {}
    BY <1>2, Zenon DEF ManifestSet
  <2> QED BY <2>1, <2>2, <2>3
<1>3. CASE m # None
  <2>1. m \in ManifestRecord
    BY <1>1, <1>3 DEF Manifest
  <2>2. m.runtime \in Texts \cup {None} /\ m.deps \in Seq(Texts)
    <3>1. m.runtime \in STRING \cup {None} /\ m.deps \in Seq(STRING \cup {"of-dep"})
      BY <2>1 DEF ManifestRecord
    <3> DEFINE A == STRING \cup {"of-dep"}
    <3>2. STRING \subseteq Texts /\ A \subseteq Texts /\ m.deps \in Seq(A)
      BY <3>1 DEF Texts, Words
    <3> HIDE DEF A
    <3>3. m.deps \in Seq(Texts)
      BY <3>2
    <3> QED BY <3>1, <3>2, <3>3
  <2>3. reqs = first \o rest
    BY <1>3, Zenon DEF Recipe!ManifestReqs, RuntimeOf
  <2>4. eco \in {"python", "node", "go", "generic", "container"} /\ "runtime" \in Words /\ "dependency" \in Words
    BY DEF Recipe!Images, Words
  <2>5. r \in T
    BY <2>2, <2>4, RequirementIsTyped DEF RuntimeOf
  <2>6. \A d \in Texts : dep(d) \in T
    BY <2>4, RequirementIsTyped
  <2> HIDE DEF r, dep, T
  <2>7. first \in Seq(T) /\ ElementsOf(first) = {x \in {r} : m.runtime # None}
    BY <2>5, OneHoldsOne
  <2> DEFINE n == Len(m.deps)
  <2>8. n \in Nat /\ \A i \in 1..n : m.deps[i] \in Texts
    BY <2>2
  <2>9. rest \in Seq(T) /\ Len(rest) = n /\ \A i \in 1..n : rest[i] = dep(m.deps[i])
    BY <2>6, <2>8
  <2> HIDE DEF m, rest, first
  <2>10. ElementsOf(rest) = {dep(d) : d \in ElementsOf(m.deps)}
    BY <2>9, Zenon DEF ElementsOf
  <2>11. first \o rest \in Seq(T) /\ ElementsOf(first \o rest) = ElementsOf(first) \cup ElementsOf(rest)
    BY <2>7, <2>9, ConcatElements
  <2>12. ManifestSet(p, eco) = {x \in {r} : m.runtime # None} \cup {dep(d) : d \in ElementsOf(m.deps)}
    BY <1>3, Zenon DEF ManifestSet, m, r, dep
  <2> QED BY <2>3, <2>7, <2>10, <2>11, <2>12 DEF T
<1> QED BY <1>2, <1>3

(* The lockfiles at the root and further down.                             *)
LockOf(f) == Recipe!Requirement(Recipe!LockEcosystem[f], f, "any", "lockfile-present")

RootLocks(p) == {LockOf(f) : f \in p.locks \cap DOMAIN Recipe!LockEcosystem}

NestedLock == Recipe!Requirement("node", "nested", "any", "lockfile-present")

LockSet(p) == RootLocks(p) \cup {r \in {NestedLock} : p.nested # 0}

LEMMA LockTable ==
  /\ DOMAIN Recipe!LockEcosystem = {"poetry.lock", "poetry.toml", "package-lock.json", "go.sum"}
  /\ \A f \in DOMAIN Recipe!LockEcosystem : Recipe!LockEcosystem[f] \in {"python", "node", "go"}
<1>1. DOMAIN Recipe!LockEcosystem = {"poetry.lock", "poetry.toml", "package-lock.json", "go.sum"}
  BY Zenon DEF Recipe!LockEcosystem
<1>2. /\ Recipe!LockEcosystem["poetry.lock"] = "python" /\ Recipe!LockEcosystem["poetry.toml"] = "python"
      /\ Recipe!LockEcosystem["package-lock.json"] = "node" /\ Recipe!LockEcosystem["go.sum"] = "go"
  BY DEF Recipe!LockEcosystem
<1> QED BY <1>1, <1>2

LEMMA RootLocksAreFinite ==
  ASSUME NEW p
  PROVE  IsFiniteSet(RootLocks(p)) /\ RootLocks(p) \subseteq DeclaredRequirement
<1> DEFINE F == DOMAIN Recipe!LockEcosystem
           X == p.locks \cap F
<1>1. F = {"poetry.lock", "poetry.toml", "package-lock.json", "go.sum"}
  BY LockTable
<1>2. IsFiniteSet({"poetry.lock", "poetry.toml", "package-lock.json", "go.sum"})
  <2>1. IsFiniteSet({"poetry.lock"})
    BY FS_Singleton
  <2>2. IsFiniteSet({"poetry.lock"} \cup {"poetry.toml"})
    BY <2>1, FS_AddElement
  <2>3. IsFiniteSet(({"poetry.lock"} \cup {"poetry.toml"}) \cup {"package-lock.json"})
    BY <2>2, FS_AddElement
  <2>4. IsFiniteSet((({"poetry.lock"} \cup {"poetry.toml"}) \cup {"package-lock.json"}) \cup {"go.sum"})
    BY <2>3, FS_AddElement
  <2>5. (({"poetry.lock"} \cup {"poetry.toml"}) \cup {"package-lock.json"}) \cup {"go.sum"}
          = {"poetry.lock", "poetry.toml", "package-lock.json", "go.sum"}
    OBVIOUS
  <2> QED BY <2>4, <2>5
<1>3. \A f \in F : LockOf(f) \in DeclaredRequirement
  <2>1. /\ \A f \in F : f \in Words
        /\ \A f \in F : Recipe!LockEcosystem[f] \in {"python", "node", "go", "generic", "container"}
    BY LockTable, <1>1 DEF Words
  <2>2. "any" \in Texts \cup {None}
    BY DEF Texts, Words
  <2> HIDE DEF F
  <2> QED BY <2>1, <2>2, RequirementIsTyped DEF LockOf
<1> HIDE DEF F
<1>4. IsFiniteSet(X)
  <2>1. X \subseteq F
    OBVIOUS
  <2> QED BY <1>1, <1>2, <2>1, FS_Subset
<1>5. IsFiniteSet({LockOf(f) : f \in X})
  <2> DEFINE h == [f \in X |-> LockOf(f)]
             Y == {LockOf(f) : f \in X}
  <2>1. h \in [X -> Y] /\ \A y \in Y : \E f \in X : h[f] = y
    OBVIOUS
  <2> HIDE DEF h, Y, X
  <2>2. IsFiniteSet(Y)
    BY <1>4, <2>1, Onto
  <2> QED BY <2>2 DEF Y
<1>6. \A f \in X : LockOf(f) \in DeclaredRequirement
  BY <1>3
<1> QED BY <1>5, <1>6, Zenon DEF RootLocks, F

LEMMA LockRequirements ==
  ASSUME NEW p \in ProjectRecord
  PROVE  /\ Recipe!LockReqs(p) \in Seq(DeclaredRequirement)
         /\ ElementsOf(Recipe!LockReqs(p)) = LockSet(p)
         /\ LocksIn(Recipe!LockReqs(p)) = Cardinality(RootLocks(p)) + p.nested
<1> DEFINE T == DeclaredRequirement
           root == Recipe!InSomeOrder(RootLocks(p))
           down == [i \in 1..p.nested |-> NestedLock]
           both == root \o down
<1>1. Recipe!LockReqs(p) = both
  BY Zenon DEF Recipe!LockReqs, RootLocks, LockOf, NestedLock
<1>2. IsFiniteSet(RootLocks(p)) /\ RootLocks(p) \subseteq T
  BY RootLocksAreFinite
<1>3. /\ root \in Seq(RootLocks(p)) /\ ElementsOf(root) = RootLocks(p)
      /\ Len(root) = Cardinality(RootLocks(p))
  BY <1>2, SetAsSequence
<1>4. root \in Seq(T)
  BY <1>2, <1>3
<1>5. NestedLock \in T
  <2>1. "any" \in Texts \cup {None} /\ "nested" \in Words
    BY DEF Texts, Words
  <2> QED BY <2>1, RequirementIsTyped DEF NestedLock
<1>6. p.nested \in Nat
  BY DEF ProjectRecord
<1> DEFINE n == p.nested
<1>7. down \in Seq(T) /\ Len(down) = n /\ \A i \in 1..n : down[i] = NestedLock
  <2> HIDE DEF T
  <2> QED BY <1>5, <1>6
<1> HIDE DEF T, root, down
<1>8. ElementsOf(down) = {r \in {NestedLock} : n # 0}
  <2>1. ElementsOf(down) = {down[i] : i \in 1..n}
    BY <1>7 DEF ElementsOf
  <2>2. CASE n = 0
    <3>1. 1..n = {}
      BY <2>2
    <3> QED BY <2>1, <2>2, <3>1
  <2>3. CASE n # 0
    <3>1. 1 \in 1..n
      BY <1>6, <2>3
    <3> QED BY <1>7, <2>1, <2>3, <3>1
  <2> QED BY <2>2, <2>3
<1>9. both \in Seq(T) /\ ElementsOf(both) = ElementsOf(root) \cup ElementsOf(down)
  BY <1>4, <1>7, ConcatElements
<1>10. LocksIn(both) = LocksIn(root) + LocksIn(down)
  BY <1>4, <1>7, LocksAddUp
<1>11. \A f : LockOf(f).note = "lockfile-present"
  BY DEF LockOf, Recipe!Requirement
<1>12. NestedLock.note = "lockfile-present"
  BY DEF NestedLock, Recipe!Requirement
<1>13. LocksIn(root) = Len(root)
  <2>1. \A r \in ElementsOf(root) : r.note = "lockfile-present"
    BY <1>3, <1>11, Zenon DEF RootLocks
  <2> QED BY <1>4, <2>1, OnlyLocks
<1>14. LocksIn(down) = Len(down)
  <2>1. \A r \in ElementsOf(down) : r.note = "lockfile-present"
    BY <1>8, <1>12
  <2> QED BY <1>7, <2>1, OnlyLocks
<1> HIDE DEF both
<1>15. ElementsOf(both) = LockSet(p)
  BY <1>3, <1>8, <1>9, Zenon DEF LockSet
<1> QED BY <1>1, <1>3, <1>7, <1>9, <1>10, <1>13, <1>14, <1>15 DEF T

(* The other parts.                                                        *)
PinOf == Recipe!Requirement("node", "runtime", "of-pin", ".nvmrc")

ToolsOf == Recipe!Requirement("generic", "tool-versions", "of-pin", ".tool-versions")

ContainerOf(f) == Recipe!Requirement("container", f, "any", "")

CiOf(eco) == Recipe!Requirement(eco, "ci", "of-ci", "")

PinReqs(p) == Recipe!One(".nvmrc" \in p.pins, PinOf)

ToolReqs(p) == Recipe!One(".tool-versions" \in p.pins, ToolsOf)

ContainerSet(p) == {ContainerOf(f) : f \in p.containers \cap {"Dockerfile", "devcontainer"}}

CiSet(p) == {CiOf(eco) : eco \in p.ci \cap Recipe!Images}

(* A part of what was found: requirements that are there, and no lock.     *)
IsPart(s, S) == s \in Seq(DeclaredRequirement) /\ ElementsOf(s) = S /\ LocksIn(s) = 0

LEMMA PartsJoin ==
  ASSUME NEW s, NEW S, IsPart(s, S), NEW t, NEW R, IsPart(t, R)
  PROVE  IsPart(s \o t, S \cup R)
<1> DEFINE T == DeclaredRequirement
<1>1. s \in Seq(T) /\ t \in Seq(T) /\ ElementsOf(s) = S /\ ElementsOf(t) = R
      /\ LocksIn(s) = 0 /\ LocksIn(t) = 0
  BY DEF IsPart
<1> HIDE DEF T
<1>2. s \o t \in Seq(T) /\ ElementsOf(s \o t) = ElementsOf(s) \cup ElementsOf(t)
  BY <1>1, ConcatElements
<1>3. LocksIn(s \o t) = LocksIn(s) + LocksIn(t)
  BY <1>1, LocksAddUp
<1> QED BY <1>1, <1>2, <1>3 DEF IsPart, T

LEMMA NotALock ==
  ASSUME NEW s \in Seq(DeclaredRequirement), \A r \in ElementsOf(s) : r.note \in {"", ".nvmrc", ".tool-versions"}
  PROVE  IsPart(s, ElementsOf(s))
<1> DEFINE T == DeclaredRequirement
<1>1. \A r \in ElementsOf(s) : r.note # "lockfile-present"
  OBVIOUS
<1> HIDE DEF T
<1>2. LocksIn(s) = 0
  <2>1. s \in Seq(T)
    BY DEF T
  <2> QED BY <1>1, <2>1, NoLocks
<1> QED BY <1>2 DEF IsPart

LEMMA OneIsPart ==
  ASSUME NEW r \in DeclaredRequirement, r.note \in {"", ".nvmrc", ".tool-versions"},
         NEW s, NEW S, (s = <<r>> /\ S = {r}) \/ (s = <<>> /\ S = {})
  PROVE  IsPart(s, S)
<1>1. s \in Seq(DeclaredRequirement) /\ ElementsOf(s) = S
  BY ShortSequences
<1>2. \A x \in ElementsOf(s) : x = r
  BY <1>1
<1>3. \A x \in ElementsOf(s) : x.note \in {"", ".nvmrc", ".tool-versions"}
  BY <1>2
<1>4. IsPart(s, ElementsOf(s))
  BY <1>1, <1>3, NotALock
<1> QED BY <1>1, <1>4

LEMMA ManifestIsPart ==
  ASSUME NEW p \in ProjectRecord, NEW eco \in Recipe!Images
  PROVE  IsPart(Recipe!ManifestReqs(p, eco), ManifestSet(p, eco))
<1> DEFINE s == Recipe!ManifestReqs(p, eco)
<1>1. s \in Seq(DeclaredRequirement) /\ ElementsOf(s) = ManifestSet(p, eco)
  BY ManifestRequirements
<1>2. \A name, version : Recipe!Requirement(eco, name, version, "").note = ""
  BY DEF Recipe!Requirement
<1>3. \A r \in ManifestSet(p, eco) : r.note = ""
  <2>1. CASE p.manifests[eco] = None
    BY <2>1, Zenon DEF ManifestSet
  <2>2. CASE p.manifests[eco] # None
    <3>1. ManifestSet(p, eco) = {r \in {RuntimeOf(p, eco)} : p.manifests[eco].runtime # None}
            \cup {Recipe!Requirement(eco, "dependency", d, "") : d \in ElementsOf(p.manifests[eco].deps)}
      BY <2>2, Zenon DEF ManifestSet
    <3>2. RuntimeOf(p, eco).note = ""
      BY <1>2, Zenon DEF RuntimeOf
    <3> QED BY <1>2, <3>1, <3>2
  <2> QED BY <2>1, <2>2
<1> HIDE DEF s
<1>4. IsPart(s, ElementsOf(s))
  BY <1>1, <1>3, NotALock
<1> QED BY <1>1, <1>4 DEF s

LEMMA FixedRequirements ==
  /\ PinOf \in DeclaredRequirement /\ ToolsOf \in DeclaredRequirement
  /\ PinOf.note = ".nvmrc" /\ ToolsOf.note = ".tool-versions"
  /\ \A eco \in Recipe!Images : CiOf(eco) \in DeclaredRequirement /\ CiOf(eco).note = ""
  /\ \A f \in {"Dockerfile", "devcontainer"} :
       ContainerOf(f) \in DeclaredRequirement /\ ContainerOf(f).note = ""
<1>1. "any" \in Texts \cup {None} /\ "of-pin" \in Texts \cup {None} /\ "of-ci" \in Texts \cup {None}
  BY DEF Texts, Words
<1>2. "runtime" \in Words /\ "tool-versions" \in Words /\ "ci" \in Words
      /\ "Dockerfile" \in Words /\ "devcontainer" \in Words
  BY DEF Words
<1>3. PinOf \in DeclaredRequirement /\ ToolsOf \in DeclaredRequirement
  BY <1>1, <1>2, RequirementIsTyped DEF PinOf, ToolsOf
<1>4. \A eco \in Recipe!Images : CiOf(eco) \in DeclaredRequirement
  <2>1. \A eco \in Recipe!Images : eco \in {"python", "node", "go", "generic", "container"}
    BY DEF Recipe!Images
  <2> QED BY <1>1, <1>2, <2>1, RequirementIsTyped DEF CiOf
<1>5. \A f \in {"Dockerfile", "devcontainer"} : ContainerOf(f) \in DeclaredRequirement
  BY <1>1, <1>2, RequirementIsTyped DEF ContainerOf
<1>6. /\ PinOf.note = ".nvmrc" /\ ToolsOf.note = ".tool-versions"
      /\ \A eco : CiOf(eco).note = "" /\ \A f : ContainerOf(f).note = ""
  BY DEF PinOf, ToolsOf, CiOf, ContainerOf, Recipe!Requirement
<1> QED BY <1>3, <1>4, <1>5, <1>6

LEMMA ContainersArePart ==
  ASSUME NEW p
  PROVE  IsPart(Recipe!ContainerReqs(p), ContainerSet(p))
<1> DEFINE T == DeclaredRequirement
           S == ContainerSet(p)
           s == Recipe!InSomeOrder(S)
           F == {"Dockerfile", "devcontainer"}
           X == p.containers \cap F
<1>1. Recipe!ContainerReqs(p) = s
  BY Zenon DEF Recipe!ContainerReqs, ContainerSet, ContainerOf
<1>2. IsFiniteSet(X)
  <2>1. IsFiniteSet({"Dockerfile"})
    BY FS_Singleton
  <2>2. IsFiniteSet({"Dockerfile"} \cup {"devcontainer"})
    BY <2>1, FS_AddElement
  <2>3. X \subseteq {"Dockerfile"} \cup {"devcontainer"}
    OBVIOUS
  <2> HIDE DEF X
  <2> QED BY <2>2, <2>3, FS_Subset
<1>3. IsFiniteSet(S)
  <2> DEFINE h == [f \in X |-> ContainerOf(f)]
  <2>1. S = {ContainerOf(f) : f \in X}
    BY Zenon DEF ContainerSet
  <2> HIDE DEF S, X
  <2>2. h \in [X -> S] /\ \A y \in S : \E f \in X : h[f] = y
    BY <2>1
  <2> HIDE DEF h
  <2> QED BY <1>2, <2>2, Onto
<1>4. \A r \in S : r \in T /\ r.note = ""
  <2>1. \A f \in X : f \in F
    OBVIOUS
  <2>2. \A f \in X : ContainerOf(f) \in T /\ ContainerOf(f).note = ""
    BY <2>1, FixedRequirements
  <2> QED BY <2>2, Zenon DEF ContainerSet
<1> HIDE DEF S
<1>5. s \in Seq(S) /\ ElementsOf(s) = S
  BY <1>3, SetAsSequence
<1> HIDE DEF s, T
<1>6. s \in Seq(T)
  <2>1. S \subseteq T
    BY <1>4
  <2> QED BY <1>5, <2>1
<1>7. \A r \in ElementsOf(s) : r.note \in {"", ".nvmrc", ".tool-versions"}
  BY <1>4, <1>5
<1>8. s \in Seq(DeclaredRequirement)
  BY <1>6 DEF T
<1>9. IsPart(s, ElementsOf(s))
  BY <1>7, <1>8, NotALock
<1>10. IsPart(s, S)
  BY <1>5, <1>9
<1>11. s = Recipe!ContainerReqs(p)
  BY <1>1 DEF s
<1> QED BY <1>10, <1>11 DEF S

LEMMA CiIsPart ==
  ASSUME NEW p
  PROVE  IsPart(Recipe!CiReqs(p), CiSet(p))
<1> DEFINE c(eco) == Recipe!One(eco \in p.ci, CiOf(eco))
           C(eco) == {x \in {CiOf(eco)} : eco \in p.ci}
<1>1. Recipe!CiReqs(p) = (c("python") \o c("node")) \o c("go")
  BY Zenon DEF Recipe!CiReqs, CiOf
<1>2. ASSUME NEW eco \in Recipe!Images PROVE IsPart(c(eco), C(eco))
  <2>1. CiOf(eco) \in DeclaredRequirement /\ CiOf(eco).note \in {"", ".nvmrc", ".tool-versions"}
    BY FixedRequirements
  <2>2. \/ c(eco) = <<CiOf(eco)>> /\ C(eco) = {CiOf(eco)}
        \/ c(eco) = <<>> /\ C(eco) = {}
    <3>1. CASE eco \in p.ci
      BY <3>1, Zenon DEF Recipe!One
    <3>2. CASE eco \notin p.ci
      BY <3>2, Zenon DEF Recipe!One
    <3> QED BY <3>1, <3>2
  <2> HIDE DEF c, C
  <2> QED BY <2>1, <2>2, OneIsPart
<1>3. "python" \in Recipe!Images /\ "node" \in Recipe!Images /\ "go" \in Recipe!Images
  BY DEF Recipe!Images
<1> HIDE DEF c
<1>4. CiSet(p) = (C("python") \cup C("node")) \cup C("go")
  BY DEF CiSet, Recipe!Images
<1> HIDE DEF C
<1>5. IsPart(c("python") \o c("node"), C("python") \cup C("node"))
  BY <1>2, <1>3, PartsJoin
<1>6. IsPart((c("python") \o c("node")) \o c("go"), (C("python") \cup C("node")) \cup C("go"))
  BY <1>2, <1>3, <1>5, PartsJoin
<1> QED BY <1>1, <1>4, <1>6

(* Everything that is found in a project whose manifests can be parsed.    *)
PinSet(p) == {r \in {PinOf} : ".nvmrc" \in p.pins}

ToolSet(p) == {r \in {ToolsOf} : ".tool-versions" \in p.pins}

ManifestsAndPins(p) ==
  (((ManifestSet(p, "python") \cup ManifestSet(p, "node")) \cup PinSet(p)) \cup ManifestSet(p, "go"))
    \cup ToolSet(p)

FoundSet(p) == ((ManifestsAndPins(p) \cup LockSet(p)) \cup ContainerSet(p)) \cup CiSet(p)

HeadReqs(p) ==
  (((Recipe!ManifestReqs(p, "python") \o Recipe!ManifestReqs(p, "node")) \o PinReqs(p))
     \o Recipe!ManifestReqs(p, "go")) \o ToolReqs(p)

LEMMA WhatIsFound ==
  ASSUME NEW p \in ProjectRecord, NEW found, found = Recipe!detect_requirements(p), p.broken = {}
  PROVE  /\ found \in Seq(DeclaredRequirement) /\ ElementsOf(found) = FoundSet(p)
         /\ LocksIn(found) = Cardinality(RootLocks(p)) + p.nested
<1> DEFINE T == DeclaredRequirement
           locks == Recipe!LockReqs(p)
           containers == Recipe!ContainerReqs(p)
           ci == Recipe!CiReqs(p)
           head == HeadReqs(p)
<1>1. found = ((head \o locks) \o containers) \o ci
  BY Zenon DEF Recipe!detect_requirements, HeadReqs, PinReqs, ToolReqs, PinOf, ToolsOf
<1>2. IsPart(head, ManifestsAndPins(p))
  <2>1. "python" \in Recipe!Images /\ "node" \in Recipe!Images /\ "go" \in Recipe!Images
    BY DEF Recipe!Images
  <2>2. \A eco \in Recipe!Images : IsPart(Recipe!ManifestReqs(p, eco), ManifestSet(p, eco))
    BY ManifestIsPart
  <2>3. IsPart(PinReqs(p), PinSet(p)) /\ IsPart(ToolReqs(p), ToolSet(p))
    <3>1. PinOf \in T /\ PinOf.note \in {"", ".nvmrc", ".tool-versions"}
          /\ ToolsOf \in T /\ ToolsOf.note \in {"", ".nvmrc", ".tool-versions"}
      BY FixedRequirements
    <3>2. \/ PinReqs(p) = <<PinOf>> /\ PinSet(p) = {PinOf}
          \/ PinReqs(p) = <<>> /\ PinSet(p) = {}
      BY Zenon DEF PinReqs, PinSet, Recipe!One
    <3>3. \/ ToolReqs(p) = <<ToolsOf>> /\ ToolSet(p) = {ToolsOf}
          \/ ToolReqs(p) = <<>> /\ ToolSet(p) = {}
      BY Zenon DEF ToolReqs, ToolSet, Recipe!One
    <3> QED BY <3>1, <3>2, <3>3, OneIsPart DEF T
  <2> DEFINE a == Recipe!ManifestReqs(p, "python") \o Recipe!ManifestReqs(p, "node")
             A == ManifestSet(p, "python") \cup ManifestSet(p, "node")
  <2>4. IsPart(a, A)
    BY <2>1, <2>2, PartsJoin
  <2> HIDE DEF a, A
  <2>5. IsPart(a \o PinReqs(p), A \cup PinSet(p))
    BY <2>3, <2>4, PartsJoin
  <2> DEFINE b == a \o PinReqs(p)
             B == A \cup PinSet(p)
  <2>6. IsPart(b \o Recipe!ManifestReqs(p, "go"), B \cup ManifestSet(p, "go"))
    <3> HIDE DEF b, B
    <3>1. IsPart(b, B)
      BY <2>5 DEF b, B
    <3> QED BY <2>1, <2>2, <3>1, PartsJoin
  <2> DEFINE d == b \o Recipe!ManifestReqs(p, "go")
             D == B \cup ManifestSet(p, "go")
  <2>7. IsPart(d \o ToolReqs(p), D \cup ToolSet(p))
    <3> HIDE DEF d, D
    <3>1. IsPart(d, D)
      BY <2>6 DEF d, D
    <3> QED BY <2>3, <3>1, PartsJoin
  <2> QED BY <2>7, Zenon DEF a, A, HeadReqs, ManifestsAndPins
<1>3. /\ locks \in Seq(T) /\ ElementsOf(locks) = LockSet(p)
      /\ LocksIn(locks) = Cardinality(RootLocks(p)) + p.nested
  BY LockRequirements
<1>4. IsPart(containers, ContainerSet(p)) /\ IsPart(ci, CiSet(p))
  BY ContainersArePart, CiIsPart
<1> HIDE DEF T, locks, containers, ci, head
<1>5. /\ head \in Seq(T) /\ containers \in Seq(T) /\ ci \in Seq(T)
      /\ LocksIn(head) = 0 /\ LocksIn(containers) = 0 /\ LocksIn(ci) = 0
      /\ ElementsOf(head) = ManifestsAndPins(p) /\ ElementsOf(containers) = ContainerSet(p)
      /\ ElementsOf(ci) = CiSet(p)
  BY <1>2, <1>4 DEF IsPart, T
<1> DEFINE u == head \o locks
           v == u \o containers
<1>6. u \in Seq(T) /\ ElementsOf(u) = ElementsOf(head) \cup ElementsOf(locks)
      /\ LocksIn(u) = LocksIn(head) + LocksIn(locks)
  BY <1>3, <1>5, ConcatElements, LocksAddUp
<1> HIDE DEF u
<1>7. v \in Seq(T) /\ ElementsOf(v) = ElementsOf(u) \cup ElementsOf(containers)
      /\ LocksIn(v) = LocksIn(u) + LocksIn(containers)
  BY <1>5, <1>6, ConcatElements, LocksAddUp
<1> HIDE DEF v
<1>8. v \o ci \in Seq(T) /\ ElementsOf(v \o ci) = ElementsOf(v) \cup ElementsOf(ci)
      /\ LocksIn(v \o ci) = LocksIn(v) + LocksIn(ci)
  BY <1>5, <1>7, ConcatElements, LocksAddUp
<1>9. found = v \o ci
  BY <1>1 DEF u, v
<1>10. ElementsOf(found) = FoundSet(p)
  BY <1>3, <1>5, <1>6, <1>7, <1>8, <1>9, Zenon DEF FoundSet
<1>11. LocksIn(locks) \in Nat
  BY <1>3, LocksAreCounted
<1>12. LocksIn(found) = LocksIn(locks)
  BY <1>5, <1>6, <1>7, <1>8, <1>9, <1>11
<1> QED BY <1>3, <1>8, <1>9, <1>10, <1>12 DEF T

-----------------------------------------------------------------------------
(* A project that declares more.                                           *)
Manifests == [python : Manifest, node : Manifest, go : Manifest]

LEMMA ReadProjects ==
  ASSUME NEW read \in Projects
  PROVE  read[1] \in ProjectRecord
<1>1. STRING \subseteq Texts
  BY DEF Texts
<1> DEFINE p == read[1]
<1>2. p \in [broken : SUBSET Recipe!Images, manifests : Manifests, pins : SUBSET STRING,
             locks : SUBSET STRING, nested : Nat, containers : SUBSET STRING, ci : SUBSET STRING]
  BY ProjectsAssumption, Zenon DEF Manifests, Manifest, ManifestRecord
<1> HIDE DEF p
<1>3. p \in ProjectRecord
  BY <1>1, <1>2 DEF ProjectRecord, Manifests
<1> QED BY <1>3 DEF p

LEMMA NoManifest == None \notin ManifestRecord
BY ProjectsAssumption, Zenon DEF ManifestRecord

(* What happens to the manifest of an ecosystem.                           *)
SameOrLonger(m, n) ==
  \/ m = None /\ n = None
  \/ /\ m # None /\ n # None /\ n.runtime = m.runtime
     /\ ElementsOf(m.deps) \subseteq ElementsOf(n.deps)

Grows(p, q) ==
  /\ q \in ProjectRecord /\ q.broken \subseteq p.broken /\ q.nested = p.nested
  /\ p.pins \subseteq q.pins /\ p.locks \subseteq q.locks
  /\ p.containers \subseteq q.containers /\ p.ci \subseteq q.ci
  /\ \A eco \in Recipe!Images : SameOrLonger(p.manifests[eco], q.manifests[eco])

LEMMA OneManifestChanges ==
  ASSUME NEW ms \in Manifests, NEW eco \in Recipe!Images, NEW m \in Manifest
  PROVE  /\ [ms EXCEPT ![eco] = m] \in Manifests
         /\ \A e \in Recipe!Images : [ms EXCEPT ![eco] = m][e] = IF e = eco THEN m ELSE ms[e]
<1>1. CASE eco = "python"
  BY <1>1 DEF Manifests, Recipe!Images
<1>2. CASE eco = "node"
  BY <1>2 DEF Manifests, Recipe!Images
<1>3. CASE eco = "go"
  BY <1>3 DEF Manifests, Recipe!Images
<1> QED BY <1>1, <1>2, <1>3 DEF Recipe!Images

LEMMA DependencyIsAdded ==
  ASSUME NEW m \in ManifestRecord
  PROVE  /\ [m EXCEPT !.deps = Append(@, "of-dep")] \in ManifestRecord
         /\ SameOrLonger(m, [m EXCEPT !.deps = Append(@, "of-dep")])
<1> DEFINE T == STRING \cup {"of-dep"}
           d == m.deps
           e == Append(d, "of-dep")
           n == [m EXCEPT !.deps = e]
<1>1. m \in [runtime : STRING \cup {None}, deps : Seq(T)]
  BY DEF ManifestRecord
<1>2. d \in Seq(T) /\ "of-dep" \in T
  BY <1>1
<1> HIDE DEF T
<1>3. e \in Seq(T) /\ Len(e) = Len(d) + 1 /\ Len(d) \in Nat /\ \A i \in 1..Len(d) : e[i] = d[i]
  BY <1>2
<1>4. \A i \in 1..Len(d) : i \in 1..Len(e)
  BY <1>3
<1> HIDE DEF e, d
<1>5. n \in [runtime : STRING \cup {None}, deps : Seq(T)] /\ n.runtime = m.runtime /\ n.deps = e
  BY <1>1, <1>3
<1>6. ElementsOf(d) \subseteq ElementsOf(e)
  BY <1>3, <1>4, Zenon DEF ElementsOf
<1> HIDE DEF n
<1>7. n \in ManifestRecord
  BY <1>5 DEF ManifestRecord, T
<1>8. m # None /\ n # None
  BY <1>7, NoManifest
<1>9. SameOrLonger(m, n)
  BY <1>5, <1>6, <1>8 DEF SameOrLonger, d
<1> QED BY <1>7, <1>9 DEF n, e, d

LEMMA MoreIsMore ==
  ASSUME NEW p \in ProjectRecord, NEW q \in Recipe!Additions(p)
  PROVE  Grows(p, q)
<1> DEFINE Sets == [broken : SUBSET Recipe!Images, manifests : Manifests, pins : SUBSET Texts,
                    locks : SUBSET Texts, nested : Nat, containers : SUBSET Texts, ci : SUBSET Texts]
<1>1. p \in Sets /\ Sets = ProjectRecord
  BY DEF ProjectRecord, Manifests
<1>2. SUFFICES /\ q \in Sets /\ q.broken \subseteq p.broken /\ q.nested = p.nested
               /\ p.pins \subseteq q.pins /\ p.locks \subseteq q.locks
               /\ p.containers \subseteq q.containers /\ p.ci \subseteq q.ci
               /\ \A e \in Recipe!Images : SameOrLonger(p.manifests[e], q.manifests[e])
  BY <1>1, Zenon DEF Grows
<1>3. \A m : SameOrLonger(m, m)
  BY Zenon DEF SameOrLonger
<1>4. \A e \in Recipe!Images : SameOrLonger(p.manifests[e], p.manifests[e])
  BY <1>3
<1>5. CASE \E eco \in p.broken : q = [p EXCEPT !.broken = @ \ {eco}]
  BY <1>1, <1>4, <1>5
<1>6. CASE \E f \in {".nvmrc", ".tool-versions", ".python-version"} : q = [p EXCEPT !.pins = @ \cup {f}]
  <2>1. {".nvmrc", ".tool-versions", ".python-version"} \subseteq Texts
    BY DEF Texts, Words
  <2>2. PICK f \in Texts : q = [p EXCEPT !.pins = @ \cup {f}]
    BY <1>6, <2>1
  <2> QED BY <1>1, <1>4, <2>2
<1>7. CASE \E f \in DOMAIN Recipe!LockEcosystem \cup {"requirements.txt"} : q = [p EXCEPT !.locks = @ \cup {f}]
  <2>1. DOMAIN Recipe!LockEcosystem \cup {"requirements.txt"} \subseteq Texts
    BY LockTable DEF Texts, Words
  <2>2. PICK f \in Texts : q = [p EXCEPT !.locks = @ \cup {f}]
    BY <1>7, <2>1
  <2> QED BY <1>1, <1>4, <2>2
<1>8. CASE \E f \in {"Dockerfile", "devcontainer"} : q = [p EXCEPT !.containers = @ \cup {f}]
  <2>1. {"Dockerfile", "devcontainer"} \subseteq Texts
    BY DEF Texts, Words
  <2>2. PICK f \in Texts : q = [p EXCEPT !.containers = @ \cup {f}]
    BY <1>8, <2>1
  <2> QED BY <1>1, <1>4, <2>2
<1>9. CASE \E eco \in Recipe!Images : q = [p EXCEPT !.ci = @ \cup {eco}]
  <2>1. Recipe!Images \subseteq Texts
    BY DEF Texts, Words, Recipe!Images
  <2>2. PICK f \in Texts : q = [p EXCEPT !.ci = @ \cup {f}]
    BY <1>9, <2>1
  <2> QED BY <1>1, <1>4, <2>2
<1>10. CASE \E eco \in {e \in DOMAIN p.manifests : p.manifests[e] # None} :
              q = [p EXCEPT !.manifests[eco].deps = Append(@, "of-dep")]
  <2>1. PICK eco \in {e \in DOMAIN p.manifests : p.manifests[e] # None} :
          q = [p EXCEPT !.manifests[eco].deps = Append(@, "of-dep")]
    BY <1>10
  <2> DEFINE ms == p.manifests
             m  == ms[eco]
             n  == [m EXCEPT !.deps = Append(@, "of-dep")]
             ns == [ms EXCEPT ![eco] = n]
  <2>2. ms \in Manifests
    BY <1>1
  <2>3. DOMAIN ms = Recipe!Images
    BY <2>2 DEF Manifests, Recipe!Images
  <2>4. eco \in Recipe!Images /\ m # None
    BY <2>3
  <2>5. m \in ManifestRecord
    BY <2>4, ManifestOf DEF Manifest
  <2>6. n \in ManifestRecord /\ SameOrLonger(m, n)
    BY <2>5, DependencyIsAdded
  <2>7. q = [p EXCEPT !.manifests = ns]
    BY <2>1, Zenon
  <2> HIDE DEF n
  <2>8. n \in Manifest
    BY <2>6 DEF Manifest
  <2>9. ns \in Manifests /\ \A e \in Recipe!Images : ns[e] = IF e = eco THEN n ELSE ms[e]
    BY <2>2, <2>4, <2>8, OneManifestChanges
  <2> HIDE DEF ns
  <2>10. q \in Sets /\ q.manifests = ns /\ q.broken = p.broken /\ q.nested = p.nested
         /\ q.pins = p.pins /\ q.locks = p.locks /\ q.containers = p.containers /\ q.ci = p.ci
    BY <1>1, <2>7, <2>9
  <2>11. \A e \in Recipe!Images : SameOrLonger(ms[e], ns[e])
    BY <1>3, <2>6, <2>9, Zenon
  <2> QED BY <2>10, <2>11
<1> QED BY <1>5, <1>6, <1>7, <1>8, <1>9, <1>10, Zenon DEF Recipe!Additions

-----------------------------------------------------------------------------
(* Declaring more costs no point.                                          *)
LEMMA MoreIsFound ==
  ASSUME NEW p \in ProjectRecord, NEW q, Grows(p, q)
  PROVE  FoundSet(p) \subseteq FoundSet(q)
<1>1. /\ q.nested = p.nested /\ p.pins \subseteq q.pins /\ p.locks \subseteq q.locks
      /\ p.containers \subseteq q.containers /\ p.ci \subseteq q.ci
      /\ \A eco \in Recipe!Images : SameOrLonger(p.manifests[eco], q.manifests[eco])
  BY Zenon DEF Grows
<1>2. ASSUME NEW eco \in Recipe!Images PROVE ManifestSet(p, eco) \subseteq ManifestSet(q, eco)
  <2> DEFINE m == p.manifests[eco]
             n == q.manifests[eco]
  <2>1. SameOrLonger(m, n)
    BY <1>1
  <2>2. CASE m = None
    BY <2>2, Zenon DEF ManifestSet
  <2>3. CASE m # None
    <3>1. n # None /\ n.runtime = m.runtime /\ ElementsOf(m.deps) \subseteq ElementsOf(n.deps)
      BY <2>1, <2>3 DEF SameOrLonger
    <3>2. RuntimeOf(p, eco) = RuntimeOf(q, eco)
      BY <3>1 DEF RuntimeOf
    <3>3. ManifestSet(p, eco) = {r \in {RuntimeOf(p, eco)} : m.runtime # None}
            \cup {Recipe!Requirement(eco, "dependency", d, "") : d \in ElementsOf(m.deps)}
      BY <2>3, Zenon DEF ManifestSet
    <3>4. ManifestSet(q, eco) = {r \in {RuntimeOf(q, eco)} : n.runtime # None}
            \cup {Recipe!Requirement(eco, "dependency", d, "") : d \in ElementsOf(n.deps)}
      BY <3>1, Zenon DEF ManifestSet
    <3> QED BY <3>1, <3>2, <3>3, <3>4
  <2> QED BY <2>2, <2>3
<1>3. PinSet(p) \subseteq PinSet(q) /\ ToolSet(p) \subseteq ToolSet(q)
  BY <1>1 DEF PinSet, ToolSet
<1>4. LockSet(p) \subseteq LockSet(q)
  BY <1>1 DEF LockSet, RootLocks
<1>5. ContainerSet(p) \subseteq ContainerSet(q) /\ CiSet(p) \subseteq CiSet(q)
  BY <1>1 DEF ContainerSet, CiSet
<1>6. "python" \in Recipe!Images /\ "node" \in Recipe!Images /\ "go" \in Recipe!Images
  BY DEF Recipe!Images
<1>7. ManifestsAndPins(p) \subseteq ManifestsAndPins(q)
  BY <1>2, <1>3, <1>6 DEF ManifestsAndPins
<1> QED BY <1>4, <1>5, <1>7 DEF FoundSet

(* What is declared, and how many locks are among it.                      *)
Found(p) == IF p.broken = {} THEN FoundSet(p) ELSE {}

LocksOf(p) == IF p.broken = {} THEN Cardinality(RootLocks(p)) + p.nested ELSE 0

LEMMA FoundIsDeclared ==
  ASSUME NEW p \in ProjectRecord, NEW found, found = Recipe!detect_requirements(p)
  PROVE  /\ found \in Seq(DeclaredRequirement)
         /\ ElementsOf(found) = Found(p) /\ Recipe!Range(found) = Found(p)
         /\ LocksIn(found) = LocksOf(p) /\ LocksOf(p) \in Nat
<1>1. found \in Seq(DeclaredRequirement) /\ ElementsOf(found) = Found(p) /\ LocksIn(found) = LocksOf(p)
  <2>1. CASE p.broken = {}
    <3>1. /\ found \in Seq(DeclaredRequirement) /\ ElementsOf(found) = FoundSet(p)
          /\ LocksIn(found) = Cardinality(RootLocks(p)) + p.nested
      BY <2>1, WhatIsFound
    <3> QED BY <2>1, <3>1 DEF Found, LocksOf
  <2>2. CASE p.broken # {}
    <3>1. found = <<>>
      BY <2>2, Zenon DEF Recipe!detect_requirements
    <3>2. found \in Seq(DeclaredRequirement) /\ ElementsOf(found) = {}
      BY <3>1 DEF ElementsOf
    <3>3. LockIndices(found) = {}
      BY <3>1 DEF LockIndices
    <3>4. LocksIn(found) = 0
      BY <3>3, FS_EmptySet DEF LocksIn
    <3> QED BY <2>2, <3>2, <3>4 DEF Found, LocksOf
  <2> QED BY <2>1, <2>2
<1> DEFINE T == DeclaredRequirement
<1>2. LocksIn(found) \in Nat
  <2>1. found \in Seq(T)
    BY <1>1
  <2> HIDE DEF T
  <2> QED BY <2>1, LocksAreCounted
<1>3. DOMAIN found = 1..Len(found)
  <2>1. found \in Seq(T)
    BY <1>1
  <2> HIDE DEF T
  <2> QED BY <2>1
<1>4. Recipe!Range(found) = ElementsOf(found)
  BY <1>3, Zenon DEF Recipe!Range, ElementsOf
<1> QED BY <1>1, <1>2, <1>4

LEMMA FoundGrows ==
  ASSUME NEW p \in ProjectRecord, NEW q, Grows(p, q)
  PROVE  Found(p) \subseteq Found(q) /\ LocksOf(p) <= LocksOf(q)
<1>1. q \in ProjectRecord /\ q.broken \subseteq p.broken /\ q.nested = p.nested /\ p.locks \subseteq q.locks
  BY Zenon DEF Grows
<1>2. LocksOf(p) \in Nat /\ LocksOf(q) \in Nat
  BY <1>1, FoundIsDeclared
<1>3. CASE p.broken # {}
  <2>1. Found(p) = {} /\ LocksOf(p) = 0
    BY <1>3 DEF Found, LocksOf
  <2> QED BY <1>2, <2>1
<1>4. CASE p.broken = {}
  <2>1. q.broken = {}
    BY <1>1, <1>4
  <2>2. /\ Found(p) = FoundSet(p) /\ LocksOf(p) = Cardinality(RootLocks(p)) + p.nested
        /\ Found(q) = FoundSet(q) /\ LocksOf(q) = Cardinality(RootLocks(q)) + p.nested
    BY <1>1, <1>4, <2>1 DEF Found, LocksOf
  <2>3. RootLocks(p) \subseteq RootLocks(q)
    BY <1>1 DEF RootLocks
  <2>4. IsFiniteSet(RootLocks(p)) /\ IsFiniteSet(RootLocks(q))
    BY RootLocksAreFinite
  <2>5. Cardinality(RootLocks(p)) <= Cardinality(RootLocks(q))
    BY <2>3, <2>4, FS_Subset
  <2>6. Cardinality(RootLocks(p)) \in Nat /\ Cardinality(RootLocks(q)) \in Nat /\ p.nested \in Nat
    BY <2>4, FS_CardinalityType DEF ProjectRecord
  <2>7. FoundSet(p) \subseteq FoundSet(q)
    BY MoreIsFound
  <2> QED BY <2>2, <2>5, <2>6, <2>7
<1> QED BY <1>3, <1>4

(* What the score asks of the requirements, and what it gives.             *)
Declares(R) == \E r \in R : r.name \in {"runtime", "dependency", "ci"}
Pins(R)     == \E r \in R : r.note \in {".nvmrc", ".tool-versions"}
Named(R, x) == \E r \in R : r.name = x

Worth(condition, n, x) == (condition /\ x = n) \/ (~condition /\ x = 0)

Scored(R, locks, pinned, score) ==
  \E a, b, c, d, e, f, g :
    /\ score = a + b + c + d + e + f + g
    /\ Worth(Declares(R), 2, a) /\ b = Recipe!AtMost(2, locks)
    /\ Worth(Pins(R), 1, c) /\ Worth(Named(R, "devcontainer"), 1, d)
    /\ Worth(Named(R, "Dockerfile"), 1, e) /\ Worth(pinned, 1, f) /\ Worth(Named(R, "ci"), 1, g)

LEMMA ScoreIsScored ==
  ASSUME NEW p \in ProjectRecord
  PROVE  Scored(Found(p), LocksOf(p), p.pins # {}, Recipe!compute_score(p))
<1> DEFINE found == Recipe!detect_requirements(p)
           R     == Recipe!Range(found)
           locks == {i \in 1..Len(found) : found[i].note = "lockfile-present"}
           a == Recipe!Points(\E r \in R : r.name \in {"runtime", "dependency", "ci"}, 2)
           b == Recipe!AtMost(2, Recipe!Cardinality(locks))
           c == Recipe!Points(\E r \in R : r.note \in {".nvmrc", ".tool-versions"}, 1)
           d == Recipe!Points(\E r \in R : r.name = "devcontainer", 1)
           e == Recipe!Points(\E r \in R : r.name = "Dockerfile", 1)
           f == Recipe!Points(p.pins # {}, 1)
           g == Recipe!Points(\E r \in R : r.name = "ci", 1)
<1>1. Recipe!compute_score(p) = a + b + c + d + e + f + g
  BY Zenon DEF Recipe!compute_score
<1>2. R = Found(p) /\ LocksIn(found) = LocksOf(p)
  BY FoundIsDeclared
<1>3. Recipe!Cardinality(locks) = LocksIn(found)
  BY Zenon DEF Recipe!Cardinality, Cardinality, LocksIn, LockIndices
<1>4. b = Recipe!AtMost(2, LocksOf(p))
  BY <1>2, <1>3, Zenon
<1> HIDE DEF R, locks, b
<1>5. /\ Worth(Declares(R), 2, a) /\ Worth(Pins(R), 1, c) /\ Worth(Named(R, "devcontainer"), 1, d)
      /\ Worth(Named(R, "Dockerfile"), 1, e) /\ Worth(p.pins # {}, 1, f) /\ Worth(Named(R, "ci"), 1, g)
  BY Zenon DEF Worth, Recipe!Points, Declares, Pins, Named
<1> HIDE DEF a, c, d, e, f, g
<1> QED BY <1>1, <1>2, <1>4, <1>5, Zenon DEF Scored

LEMMA ScoresGrow ==
  ASSUME NEW R, NEW S, R \subseteq S, NEW i \in Nat, NEW j \in Nat, i <= j,
         NEW x, NEW y, x \subseteq y, NEW m, NEW n,
         Scored(R, i, x # {}, m), Scored(S, j, y # {}, n)
  PROVE  m \in 0..9 /\ n >= m
<1>1. PICK a, b, c, d, e, f, g :
        /\ m = a + b + c + d + e + f + g
        /\ Worth(Declares(R), 2, a) /\ b = Recipe!AtMost(2, i)
        /\ Worth(Pins(R), 1, c) /\ Worth(Named(R, "devcontainer"), 1, d)
        /\ Worth(Named(R, "Dockerfile"), 1, e) /\ Worth(x # {}, 1, f) /\ Worth(Named(R, "ci"), 1, g)
  BY Zenon DEF Scored
<1>2. PICK a2, b2, c2, d2, e2, f2, g2 :
        /\ n = a2 + b2 + c2 + d2 + e2 + f2 + g2
        /\ Worth(Declares(S), 2, a2) /\ b2 = Recipe!AtMost(2, j)
        /\ Worth(Pins(S), 1, c2) /\ Worth(Named(S, "devcontainer"), 1, d2)
        /\ Worth(Named(S, "Dockerfile"), 1, e2) /\ Worth(y # {}, 1, f2) /\ Worth(Named(S, "ci"), 1, g2)
  BY Zenon DEF Scored
<1>3. /\ (Declares(R) => Declares(S)) /\ (Pins(R) => Pins(S))
      /\ \A z : Named(R, z) => Named(S, z)
      /\ (x # {} => y # {})
  BY DEF Declares, Pins, Named
<1>4. (a = 2 \/ a = 0) /\ (a2 = 2 \/ a2 = 0) /\ (a = 2 => a2 = 2)
  BY <1>1, <1>2, <1>3, Zenon DEF Worth
<1>5. (c = 1 \/ c = 0) /\ (c2 = 1 \/ c2 = 0) /\ (c = 1 => c2 = 1)
  BY <1>1, <1>2, <1>3, Zenon DEF Worth
<1>6. (d = 1 \/ d = 0) /\ (d2 = 1 \/ d2 = 0) /\ (d = 1 => d2 = 1)
  BY <1>1, <1>2, <1>3, Zenon DEF Worth
<1>7. (e = 1 \/ e = 0) /\ (e2 = 1 \/ e2 = 0) /\ (e = 1 => e2 = 1)
  BY <1>1, <1>2, <1>3, Zenon DEF Worth
<1>8. (f = 1 \/ f = 0) /\ (f2 = 1 \/ f2 = 0) /\ (f = 1 => f2 = 1)
  BY <1>1, <1>2, <1>3, Zenon DEF Worth
<1>9. (g = 1 \/ g = 0) /\ (g2 = 1 \/ g2 = 0) /\ (g = 1 => g2 = 1)
  BY <1>1, <1>2, <1>3, Zenon DEF Worth
<1>10. b \in 0..2 /\ b2 \in 0..2 /\ b <= b2
  BY <1>1, <1>2 DEF Recipe!AtMost
<1>11. /\ m = a + b + c + d + e + f + g
       /\ n = a2 + b2 + c2 + d2 + e2 + f2 + g2
  BY <1>1, <1>2
<1> QED BY <1>4, <1>5, <1>6, <1>7, <1>8, <1>9, <1>10, <1>11

(* The second score.                                                       *)
StatesOne(p) ==
  \E eco \in DOMAIN p.manifests \ p.broken :
    p.manifests[eco] # None /\ p.manifests[eco].runtime # None

LocksOne(p) == p.locks \cap {"poetry.lock", "package-lock.json", "go.sum"} # {}

Matured(p, score) ==
  \E a, b, c, d :
    /\ score = a + b + c + d
    /\ Worth(StatesOne(p), 3, a) /\ Worth(LocksOne(p), 3, b)
    /\ Worth(p.ci # {}, 2, c) /\ Worth(p.containers # {}, 2, d)

LEMMA MaturityIsMatured ==
  ASSUME NEW p
  PROVE  Matured(p, Recipe!score_maturity(p))
<1> DEFINE a == Recipe!Points(\E eco \in DOMAIN p.manifests \ p.broken :
                                p.manifests[eco] # None /\ p.manifests[eco].runtime # None, 3)
           b == Recipe!Points(p.locks \cap {"poetry.lock", "package-lock.json", "go.sum"} # {}, 3)
           c == Recipe!Points(p.ci # {}, 2)
           d == Recipe!Points(p.containers # {}, 2)
<1>1. Recipe!score_maturity(p) = a + b + c + d
  BY Zenon DEF Recipe!score_maturity
<1>2. /\ Worth(StatesOne(p), 3, a) /\ Worth(LocksOne(p), 3, b)
      /\ Worth(p.ci # {}, 2, c) /\ Worth(p.containers # {}, 2, d)
  BY Zenon DEF Worth, Recipe!Points, StatesOne, LocksOne
<1> HIDE DEF a, b, c, d
<1> QED BY <1>1, <1>2, Zenon DEF Matured

LEMMA ManifestsAreThree ==
  ASSUME NEW p \in ProjectRecord
  PROVE  DOMAIN p.manifests = Recipe!Images
<1>1. p.manifests \in [python : Manifest, node : Manifest, go : Manifest]
  BY DEF ProjectRecord
<1> QED BY <1>1 DEF Recipe!Images

LEMMA MaturityGrows ==
  ASSUME NEW p \in ProjectRecord, NEW q, Grows(p, q), NEW m, NEW n, Matured(p, m), Matured(q, n)
  PROVE  n >= m
<1>1. /\ q \in ProjectRecord /\ q.broken \subseteq p.broken /\ p.locks \subseteq q.locks
      /\ p.containers \subseteq q.containers /\ p.ci \subseteq q.ci
      /\ \A eco \in Recipe!Images : SameOrLonger(p.manifests[eco], q.manifests[eco])
  BY Zenon DEF Grows
<1>2. DOMAIN p.manifests = Recipe!Images /\ DOMAIN q.manifests = Recipe!Images
  BY <1>1, ManifestsAreThree
<1>3. StatesOne(p) => StatesOne(q)
  <2>1. SUFFICES ASSUME StatesOne(p) PROVE StatesOne(q)
    OBVIOUS
  <2>2. PICK eco \in Recipe!Images \ p.broken : p.manifests[eco] # None /\ p.manifests[eco].runtime # None
    BY <1>2, <2>1, Zenon DEF StatesOne
  <2>3. eco \in Recipe!Images \ q.broken
    BY <1>1, <2>2
  <2>4. q.manifests[eco] # None /\ q.manifests[eco].runtime = p.manifests[eco].runtime
    BY <1>1, <2>2 DEF SameOrLonger
  <2> QED BY <1>2, <2>2, <2>3, <2>4, Zenon DEF StatesOne
<1>4. /\ (LocksOne(p) => LocksOne(q)) /\ (p.ci # {} => q.ci # {})
      /\ (p.containers # {} => q.containers # {})
  BY <1>1 DEF LocksOne
<1>5. PICK a, b, c, d :
        /\ m = a + b + c + d
        /\ Worth(StatesOne(p), 3, a) /\ Worth(LocksOne(p), 3, b)
        /\ Worth(p.ci # {}, 2, c) /\ Worth(p.containers # {}, 2, d)
  BY Zenon DEF Matured
<1>6. PICK a2, b2, c2, d2 :
        /\ n = a2 + b2 + c2 + d2
        /\ Worth(StatesOne(q), 3, a2) /\ Worth(LocksOne(q), 3, b2)
        /\ Worth(q.ci # {}, 2, c2) /\ Worth(q.containers # {}, 2, d2)
  BY Zenon DEF Matured
<1>7. (a = 3 \/ a = 0) /\ (a2 = 3 \/ a2 = 0) /\ (a = 3 => a2 = 3)
  BY <1>3, <1>5, <1>6, Zenon DEF Worth
<1>8. (b = 3 \/ b = 0) /\ (b2 = 3 \/ b2 = 0) /\ (b = 3 => b2 = 3)
  BY <1>4, <1>5, <1>6, Zenon DEF Worth
<1>9. (c = 2 \/ c = 0) /\ (c2 = 2 \/ c2 = 0) /\ (c = 2 => c2 = 2)
  BY <1>4, <1>5, <1>6, Zenon DEF Worth
<1>10. (d = 2 \/ d = 0) /\ (d2 = 2 \/ d2 = 0) /\ (d = 2 => d2 = 2)
  BY <1>4, <1>5, <1>6, Zenon DEF Worth
<1>11. m = a + b + c + d /\ n = a2 + b2 + c2 + d2
  BY <1>5, <1>6
<1> QED BY <1>7, <1>8, <1>9, <1>10, <1>11

(* A score in full: a workflow and a Dockerfile are there.                 *)
LEMMA FullScore ==
  ASSUME NEW R, NEW i \in Nat, NEW x, Scored(R, i, x # {}, 9)
  PROVE  Named(R, "ci") /\ Named(R, "Dockerfile")
<1>1. PICK a, b, c, d, e, f, g :
        /\ 9 = a + b + c + d + e + f + g
        /\ Worth(Declares(R), 2, a) /\ b = Recipe!AtMost(2, i)
        /\ Worth(Pins(R), 1, c) /\ Worth(Named(R, "devcontainer"), 1, d)
        /\ Worth(Named(R, "Dockerfile"), 1, e) /\ Worth(x # {}, 1, f) /\ Worth(Named(R, "ci"), 1, g)
  BY Zenon DEF Scored
<1>2. (a = 2 \/ a = 0) /\ (c = 1 \/ c = 0) /\ (d = 1 \/ d = 0) /\ (f = 1 \/ f = 0)
  BY <1>1, Zenon DEF Worth
<1>3. (e = 0 \/ (e = 1 /\ Named(R, "Dockerfile"))) /\ (g = 0 \/ (g = 1 /\ Named(R, "ci")))
  BY <1>1, Zenon DEF Worth
<1>4. b \in 0..2
  BY <1>1 DEF Recipe!AtMost
<1>5. 9 = a + b + c + d + e + f + g
  BY <1>1
<1>6. e # 0 /\ g # 0
  <2>1. (e = 0 \/ e = 1) /\ (g = 0 \/ g = 1)
    BY <1>3
  <2> QED BY <1>2, <1>4, <1>5, <2>1
<1> QED BY <1>3, <1>6

LEMMA NamesTell ==
  ASSUME NEW p \in ProjectRecord, NEW r \in FoundSet(p)
  PROVE  (r.name = "ci" => p.ci # {}) /\ (r.name = "Dockerfile" => p.containers # {})
<1>1. \A eco, name, version, note : Recipe!Requirement(eco, name, version, note).name = name
  BY DEF Recipe!Requirement
<1>2. ASSUME NEW eco, r \in ManifestSet(p, eco)
      PROVE  r.name \in {"runtime", "dependency"}
  <2>1. CASE p.manifests[eco] = None
    BY <1>2, <2>1, Zenon DEF ManifestSet
  <2>2. CASE p.manifests[eco] # None
    <3>1. ManifestSet(p, eco) = {x \in {RuntimeOf(p, eco)} : p.manifests[eco].runtime # None}
            \cup {Recipe!Requirement(eco, "dependency", d, "") : d \in ElementsOf(p.manifests[eco].deps)}
      BY <2>2, Zenon DEF ManifestSet
    <3>2. RuntimeOf(p, eco).name = "runtime"
      BY DEF RuntimeOf, Recipe!Requirement
    <3>3. \A d : Recipe!Requirement(eco, "dependency", d, "").name = "dependency"
      BY DEF Recipe!Requirement
    <3>4. r = RuntimeOf(p, eco) \/ \E d : r = Recipe!Requirement(eco, "dependency", d, "")
      BY <1>2, <3>1, Zenon
    <3>5. CASE r = RuntimeOf(p, eco)
      BY <3>2, <3>5
    <3>6. CASE \E d : r = Recipe!Requirement(eco, "dependency", d, "")
      <4>1. PICK d : r = Recipe!Requirement(eco, "dependency", d, "")
        BY <3>6
      <4>2. r.name = "dependency"
        BY <3>3, <4>1
      <4> QED BY <4>2
    <3> QED BY <3>4, <3>5, <3>6
  <2> QED BY <2>1, <2>2
<1>3. r \in PinSet(p) => r.name = "runtime"
  BY <1>1 DEF PinSet, PinOf
<1>4. r \in ToolSet(p) => r.name = "tool-versions"
  BY <1>1 DEF ToolSet, ToolsOf
<1>5. r \in LockSet(p) => r.name \in {"poetry.lock", "poetry.toml", "package-lock.json", "go.sum", "nested"}
  <2>1. \A f : LockOf(f).name = f
    BY <1>1 DEF LockOf
  <2>2. NestedLock.name = "nested"
    BY <1>1 DEF NestedLock
  <2>3. r \in RootLocks(p) => r.name \in DOMAIN Recipe!LockEcosystem
    BY <2>1 DEF RootLocks
  <2> QED BY <2>2, <2>3, LockTable DEF LockSet
<1>6. r \in ContainerSet(p) => r.name \in p.containers \cap {"Dockerfile", "devcontainer"}
  <2>1. \A f : ContainerOf(f).name = f
    BY DEF ContainerOf, Recipe!Requirement
  <2> QED BY <2>1 DEF ContainerSet
<1>7. r \in CiSet(p) => r.name = "ci" /\ p.ci # {}
  <2>1. \A eco : CiOf(eco).name = "ci"
    BY DEF CiOf, Recipe!Requirement
  <2> QED BY <2>1 DEF CiSet
<1>8. \/ r \in ManifestSet(p, "python") \/ r \in ManifestSet(p, "node") \/ r \in ManifestSet(p, "go")
      \/ r \in PinSet(p) \/ r \in ToolSet(p) \/ r \in LockSet(p) \/ r \in ContainerSet(p) \/ r \in CiSet(p)
  BY DEF FoundSet, ManifestsAndPins
<1> QED BY <1>2, <1>3, <1>4, <1>5, <1>6, <1>7, <1>8

LEMMA ScoresAreFair ==
  ASSUME NEW p \in ProjectRecord
  PROVE  Recipe!ScoresAreFairAt(p)
<1> DEFINE s(x) == Recipe!compute_score(x)
           t(x) == Recipe!score_maturity(x)
           full == /\ s(p) = Recipe!Possible /\ Recipe!StatesRuntime(p) /\ LocksOne(p)
                   /\ \E eco \in DOMAIN p.manifests : p.manifests[eco] # None
<1>1. ASSUME NEW q \in ProjectRecord
      PROVE  Scored(Found(q), LocksOf(q), q.pins # {}, s(q)) /\ Matured(q, t(q)) /\ LocksOf(q) \in Nat
  BY ScoreIsScored, MaturityIsMatured, FoundIsDeclared
<1> HIDE DEF s, t
<1>2. s(p) \in 0..9
  <2>1. LocksOf(p) <= LocksOf(p)
    BY <1>1
  <2>2. Found(p) \subseteq Found(p) /\ p.pins \subseteq p.pins
    OBVIOUS
  <2> QED BY <1>1, <2>1, <2>2, ScoresGrow
<1>3. ASSUME NEW q \in Recipe!Additions(p) PROVE s(q) >= s(p) /\ t(q) >= t(p)
  <2>1. Grows(p, q)
    BY MoreIsMore
  <2>2. q \in ProjectRecord /\ p.pins \subseteq q.pins
    BY <2>1, Zenon DEF Grows
  <2>3. Found(p) \subseteq Found(q) /\ LocksOf(p) <= LocksOf(q)
    BY <2>1, FoundGrows
  <2>4. s(q) >= s(p)
    BY <1>1, <2>2, <2>3, ScoresGrow
  <2>5. t(q) >= t(p)
    BY <1>1, <2>1, <2>2, MaturityGrows
  <2> QED BY <2>4, <2>5
<1>4. ASSUME full PROVE t(p) = 10
  <2>1. Scored(Found(p), LocksOf(p), p.pins # {}, 9)
    BY <1>1, <1>4 DEF Recipe!Possible
  <2>2. Named(Found(p), "ci") /\ Named(Found(p), "Dockerfile")
    BY <1>1, <2>1, FullScore
  <2>3. PICK r \in Found(p), w \in Found(p) : r.name = "ci" /\ w.name = "Dockerfile"
    BY <2>2 DEF Named
  <2>4. p.broken = {} /\ Found(p) = FoundSet(p)
    BY <2>3 DEF Found
  <2>5. p.ci # {} /\ p.containers # {}
    BY <2>3, <2>4, NamesTell
  <2>6. StatesOne(p)
    <3>1. PICK eco \in DOMAIN p.manifests : p.manifests[eco] # None
      BY <1>4
    <3>2. p.manifests[eco].runtime # None
      BY <1>4, <3>1, Zenon DEF Recipe!StatesRuntime
    <3>3. eco \in DOMAIN p.manifests \ p.broken
      BY <2>4, <3>1
    <3> QED BY <3>1, <3>2, <3>3, Zenon DEF StatesOne
  <2>7. LocksOne(p)
    BY <1>4
  <2>8. PICK a, b, c, d :
          /\ t(p) = a + b + c + d
          /\ Worth(StatesOne(p), 3, a) /\ Worth(LocksOne(p), 3, b)
          /\ Worth(p.ci # {}, 2, c) /\ Worth(p.containers # {}, 2, d)
    BY <1>1, Zenon DEF Matured
  <2>9. a = 3 /\ b = 3 /\ c = 2 /\ d = 2
    BY <2>5, <2>6, <2>7, <2>8, Zenon DEF Worth
  <2> QED BY <2>8, <2>9
<1>5. s(p) \in 0..Recipe!Possible
  BY <1>2 DEF Recipe!Possible
<1> QED BY <1>3, <1>4, <1>5, Zenon DEF Recipe!ScoresAreFairAt, LocksOne, s, t

-----------------------------------------------------------------------------
(* The base image: the first requirement that names one.                   *)
Imaged(r) == r.eco \in Recipe!Images /\ r.version # "any"

(* The first usable requirement of a sequence is r; or there is none.      *)
LeadsWith(s, r) ==
  \E i \in 1..Len(s) : s[i] = r /\ Imaged(r) /\ \A j \in 1..(i - 1) : ~Imaged(s[j])

LeadsNowhere(s) == \A i \in 1..Len(s) : ~Imaged(s[i])

LEMMA LeadersLead ==
  ASSUME NEW T, NEW s \in Seq(T), NEW t \in Seq(T)
  PROVE  /\ \A r : LeadsWith(s, r) => LeadsWith(s \o t, r)
         /\ LeadsNowhere(s) => /\ \A r : LeadsWith(t, r) => LeadsWith(s \o t, r)
                               /\ LeadsNowhere(t) => LeadsNowhere(s \o t)
<1> DEFINE m == Len(s)
           n == Len(t)
           u == s \o t
<1>1. /\ m \in Nat /\ n \in Nat /\ u \in Seq(T) /\ Len(u) = m + n
      /\ \A i \in 1..(m + n) : u[i] = IF i <= m THEN s[i] ELSE t[i - m]
  BY ConcatProperties
<1> HIDE DEF u, m, n
<1>2. \A i \in 1..m : i \in 1..(m + n) /\ u[i] = s[i] /\ \A j \in 1..(i - 1) : j \in 1..m
  BY <1>1
<1>3. \A i \in 1..n : m + i \in 1..(m + n) /\ u[m + i] = t[i]
  BY <1>1
<1>4. \A i \in 1..(m + n) : i \in 1..m \/ (i - m \in 1..n /\ i = m + (i - m))
  BY <1>1
<1>5. ASSUME NEW r, LeadsWith(s, r) PROVE LeadsWith(u, r)
  <2>1. PICK i \in 1..m : s[i] = r /\ Imaged(r) /\ \A j \in 1..(i - 1) : ~Imaged(s[j])
    BY <1>5 DEF LeadsWith, m
  <2>2. i \in 1..Len(u) /\ u[i] = r
    BY <1>1, <1>2, <2>1
  <2>3. \A j \in 1..(i - 1) : ~Imaged(u[j])
    BY <1>2, <2>1, Zenon
  <2> QED BY <2>1, <2>2, <2>3, Zenon DEF LeadsWith
<1>6. ASSUME LeadsNowhere(s), NEW r, LeadsWith(t, r) PROVE LeadsWith(u, r)
  <2>1. PICK i \in 1..n : t[i] = r /\ Imaged(r) /\ \A j \in 1..(i - 1) : ~Imaged(t[j])
    BY <1>6 DEF LeadsWith, n
  <2>2. m + i \in 1..Len(u) /\ u[m + i] = r
    BY <1>1, <1>3, <2>1
  <2>3. ASSUME NEW j \in 1..((m + i) - 1) PROVE ~Imaged(u[j])
    <3>1. j \in 1..(m + n) /\ (j - m \in 1..n => j - m \in 1..(i - 1))
      BY <1>1
    <3>2. CASE j \in 1..m
      BY <1>2, <1>6, <3>2, Zenon DEF LeadsNowhere, m
    <3>3. CASE j - m \in 1..n /\ j = m + (j - m)
      <4>1. u[j] = t[j - m]
        BY <1>3, <3>3, Zenon
      <4> QED BY <2>1, <3>1, <3>3, <4>1, Zenon
    <3> QED BY <1>4, <3>1, <3>2, <3>3
  <2> QED BY <2>1, <2>2, <2>3, Zenon DEF LeadsWith
<1>7. ASSUME LeadsNowhere(s), LeadsNowhere(t) PROVE LeadsNowhere(u)
  <2>1. ASSUME NEW i \in 1..(m + n) PROVE ~Imaged(u[i])
    <3>1. CASE i \in 1..m
      BY <1>2, <1>7, <3>1, Zenon DEF LeadsNowhere, m
    <3>2. CASE i - m \in 1..n /\ i = m + (i - m)
      <4>1. u[i] = t[i - m]
        BY <1>3, <3>2, Zenon
      <4> QED BY <1>7, <3>2, <4>1, Zenon DEF LeadsNowhere, n
    <3> QED BY <1>4, <3>1, <3>2
  <2> QED BY <1>1, <2>1, Zenon DEF LeadsNowhere
<1> QED BY <1>5, <1>6, <1>7, Zenon DEF u

LEMMA LeaderIsBase ==
  ASSUME NEW T, NEW s \in Seq(T)
  PROVE  /\ \A r : LeadsWith(s, r) => Recipe!base_for(s) = r
         /\ LeadsNowhere(s) => Recipe!base_for(s) = None
<1> DEFINE usable == {i \in 1..Len(s) : s[i].eco \in Recipe!Images /\ s[i].version # "any"}
<1>1. usable = {i \in 1..Len(s) : Imaged(s[i])}
  BY Zenon DEF Imaged
<1>2. Recipe!base_for(s) = IF usable = {} THEN None ELSE s[Recipe!Min(usable)]
  BY Zenon DEF Recipe!base_for
<1> HIDE DEF usable
<1>3. ASSUME NEW r, LeadsWith(s, r) PROVE Recipe!base_for(s) = r
  <2>1. PICK i \in 1..Len(s) : s[i] = r /\ Imaged(r) /\ \A j \in 1..(i - 1) : ~Imaged(s[j])
    BY <1>3 DEF LeadsWith
  <2>2. i \in usable /\ usable # {}
    BY <1>1, <2>1
  <2>3. \A j \in usable : j \in Int /\ i <= j
    <3>1. \A j \in usable : j \in 1..Len(s) /\ j \notin 1..(i - 1)
      BY <1>1, <2>1
    <3> QED BY <3>1
  <2>4. Recipe!Min(usable) = i
    <3>1. \A x \in usable : (\A y \in usable : x <= y) => x = i
      BY <2>2, <2>3
    <3>2. Recipe!Min(usable) = CHOOSE x \in usable : \A y \in usable : x <= y
      BY Zenon DEF Recipe!Min
    <3> QED BY <2>2, <2>3, <3>1, <3>2, Zenon
  <2> QED BY <1>2, <2>1, <2>2, <2>4
<1>4. ASSUME LeadsNowhere(s) PROVE Recipe!base_for(s) = None
  <2>1. usable = {}
    BY <1>1, <1>4 DEF LeadsNowhere
  <2> QED BY <1>2, <2>1
<1> QED BY <1>3, <1>4

LEMMA ShortLeads ==
  /\ LeadsNowhere(<<>>)
  /\ \A r : IF Imaged(r) THEN LeadsWith(<<r>>, r) ELSE LeadsNowhere(<<r>>)
<1>1. LeadsNowhere(<<>>)
  BY DEF LeadsNowhere
<1>2. ASSUME NEW r, Imaged(r) PROVE LeadsWith(<<r>>, r)
  <2>1. 1 \in 1..Len(<<r>>) /\ <<r>>[1] = r /\ 1..(1 - 1) = {}
    OBVIOUS
  <2> QED BY <1>2, <2>1, Zenon DEF LeadsWith
<1>3. ASSUME NEW r, ~Imaged(r) PROVE LeadsNowhere(<<r>>)
  <2>1. \A i \in 1..Len(<<r>>) : <<r>>[i] = r
    OBVIOUS
  <2> QED BY <1>3, <2>1, Zenon DEF LeadsNowhere
<1> QED BY <1>1, <1>2, <1>3

LEMMA UnusableLeadNowhere ==
  ASSUME NEW s, \A r \in ElementsOf(s) : ~Imaged(r)
  PROVE  LeadsNowhere(s)
BY Zenon DEF ElementsOf, LeadsNowhere

LEMMA RequirementFacts ==
  \A eco, name, version, note :
    LET r == Recipe!Requirement(eco, name, version, note)
    IN r.eco = eco /\ r.name = name /\ r.version = version /\ r.note = note
BY DEF Recipe!Requirement

LEMMA SomeoneLeads ==
  ASSUME NEW T, NEW s \in Seq(T)
  PROVE  LeadsNowhere(s) \/ \E r \in ElementsOf(s) : LeadsWith(s, r)
<1> DEFINE U == {i \in 1..Len(s) : Imaged(s[i])}
<1>1. CASE U = {}
  <2>1. LeadsNowhere(s)
    BY <1>1, Zenon DEF LeadsNowhere
  <2> QED BY <2>1
<1>2. CASE U # {}
  <2>1. U \subseteq Nat /\ Len(s) \in Nat
    OBVIOUS
  <2>2. \A i \in U : i \in 1..Len(s) /\ Imaged(s[i])
    OBVIOUS
  <2>3. \A i \in 1..Len(s) : Imaged(s[i]) => i \in U
    OBVIOUS
  <2> HIDE DEF U
  <2>4. PICK i \in U : \A k \in U : i <= k
    BY <1>2, <2>1, LeastNumber
  <2>5. ASSUME NEW j \in 1..(i - 1) PROVE ~Imaged(s[j])
    <3>1. j \in 1..Len(s) /\ j < i /\ i \in Nat /\ j \in Nat
      BY <2>1, <2>2, <2>4
    <3>2. j \notin U
      BY <2>4, <3>1
    <3> QED BY <2>3, <3>1, <3>2
  <2>6. s[i] \in ElementsOf(s)
    BY <2>2, <2>4, Zenon DEF ElementsOf
  <2>7. LeadsWith(s, s[i])
    BY <2>2, <2>4, <2>5, Zenon DEF LeadsWith
  <2> QED BY <2>6, <2>7
<1> QED BY <1>1, <1>2

(* Where every manifest states its runtime, the manifest leads with it.    *)
LEMMA ManifestLeads ==
  ASSUME NEW p \in ProjectRecord, Recipe!StatesRuntime(p), NEW eco \in Recipe!Images
  PROVE  IF p.manifests[eco] # None
         THEN LeadsWith(Recipe!ManifestReqs(p, eco), RuntimeOf(p, eco))
         ELSE LeadsNowhere(Recipe!ManifestReqs(p, eco))
<1> DEFINE m == p.manifests[eco]
           r == RuntimeOf(p, eco)
           reqs == Recipe!ManifestReqs(p, eco)
           dep(i) == Recipe!Requirement(eco, "dependency", m.deps[i], "")
           rest == [i \in 1..Len(m.deps) |-> dep(i)]
<1>1. CASE m = None
  <2>1. reqs = <<>>
    BY <1>1, Zenon DEF Recipe!ManifestReqs
  <2>2. LeadsNowhere(reqs)
    BY <2>1, ShortLeads
  <2> QED BY <1>1, <2>2
<1>2. CASE m # None
  <2>1. m \in ManifestRecord
    BY <1>2, ManifestOf DEF Manifest
  <2>2. Len(m.deps) \in Nat
    <3>1. m.deps \in Seq(STRING \cup {"of-dep"})
      BY <2>1 DEF ManifestRecord
    <3> DEFINE A == STRING \cup {"of-dep"}
    <3>2. m.deps \in Seq(A)
      BY <3>1
    <3> HIDE DEF A
    <3> QED BY <3>2
  <2>3. m.runtime \notin {None, "any"}
    BY <1>2, ManifestsAreThree DEF Recipe!StatesRuntime
  <2>4. reqs = Recipe!One(m.runtime # None, r) \o rest
    BY <1>2, Zenon DEF Recipe!ManifestReqs, RuntimeOf
  <2>5. Recipe!One(m.runtime # None, r) = <<r>>
    BY <2>3, Zenon DEF Recipe!One
  <2>6. r.eco = eco /\ r.version = m.runtime
    BY DEF RuntimeOf, Recipe!Requirement
  <2>7. Imaged(r)
    BY <2>3, <2>6 DEF Imaged
  <2> DEFINE n == Len(m.deps)
             T == {r} \cup {dep(i) : i \in 1..n}
  <2>8. r \in T /\ \A i \in 1..n : dep(i) \in T
    OBVIOUS
  <2>9. r \in T /\ rest \in Seq(T)
    <3> HIDE DEF T, dep, r
    <3> QED BY <2>2, <2>8
  <2> HIDE DEF T, rest, r, m
  <2>10. <<r>> \in Seq(T)
    BY <2>9, ShortSequences
  <2>11. LeadsWith(<<r>>, r)
    BY <2>7, ShortLeads
  <2>12. LeadsWith(<<r>> \o rest, r)
    BY <2>9, <2>10, <2>11, LeadersLead
  <2>13. LeadsWith(reqs, r)
    BY <2>4, <2>5, <2>12
  <2> QED BY <1>2, <2>13 DEF m, r
<1> QED BY <1>1, <1>2

(* The base, where every manifest states its runtime.                      *)
BaseIs(p, base) ==
  IF p.manifests["python"] # None THEN base = RuntimeOf(p, "python")
  ELSE IF p.manifests["node"] # None THEN base = RuntimeOf(p, "node")
  ELSE IF ".nvmrc" \in p.pins THEN base = PinOf
  ELSE IF p.manifests["go"] # None THEN base = RuntimeOf(p, "go")
  ELSE base = None \/ base.name = "ci"

(* One part more at the end, seen from the front.                          *)
Follows(s, t, u) ==
  /\ \A r : LeadsWith(s, r) => LeadsWith(u, r)
  /\ LeadsNowhere(s) => /\ \A r : LeadsWith(t, r) => LeadsWith(u, r)
                        /\ LeadsNowhere(t) => LeadsNowhere(u)

LEMMA PartsFollow ==
  ASSUME NEW T, NEW s \in Seq(T), NEW t \in Seq(T), NEW u, u = s \o t
  PROVE  u \in Seq(T) /\ Follows(s, t, u)
<1>1. s \o t \in Seq(T)
  BY ConcatElements
<1>2. Follows(s, t, s \o t)
  BY LeadersLead DEF Follows
<1> QED BY <1>1, <1>2

LEMMA DullParts ==
  ASSUME NEW p \in ProjectRecord
  PROVE  /\ ToolReqs(p) \in Seq(DeclaredRequirement) /\ LeadsNowhere(ToolReqs(p))
         /\ LeadsNowhere(Recipe!LockReqs(p)) /\ LeadsNowhere(Recipe!ContainerReqs(p))
<1>1. ~Imaged(ToolsOf)
  BY DEF Imaged, ToolsOf, Recipe!Requirement, Recipe!Images
<1>2. (ToolReqs(p) = <<ToolsOf>>) \/ (ToolReqs(p) = <<>>)
  BY Zenon DEF ToolReqs, Recipe!One
<1>3. ToolReqs(p) \in Seq(DeclaredRequirement) /\ LeadsNowhere(ToolReqs(p))
  <2>1. ToolsOf \in DeclaredRequirement
    BY FixedRequirements
  <2>2. <<ToolsOf>> \in Seq(DeclaredRequirement) /\ <<>> \in Seq(DeclaredRequirement)
    BY <2>1, ShortSequences
  <2>3. LeadsNowhere(<<ToolsOf>>) /\ LeadsNowhere(<<>>)
    BY <1>1, ShortLeads
  <2> QED BY <1>2, <2>2, <2>3
<1>4. \A f : ~Imaged(LockOf(f)) /\ ~Imaged(ContainerOf(f))
  BY DEF Imaged, LockOf, ContainerOf, Recipe!Requirement
<1>5. ~Imaged(NestedLock)
  BY DEF Imaged, NestedLock, Recipe!Requirement
<1>6. \A r \in LockSet(p) : ~Imaged(r)
  BY <1>4, <1>5, Zenon DEF LockSet, RootLocks
<1>7. \A r \in ContainerSet(p) : ~Imaged(r)
  BY <1>4, Zenon DEF ContainerSet
<1>8. ElementsOf(Recipe!LockReqs(p)) = LockSet(p)
  BY LockRequirements
<1>9. ElementsOf(Recipe!ContainerReqs(p)) = ContainerSet(p)
  BY ContainersArePart DEF IsPart
<1>10. LeadsNowhere(Recipe!LockReqs(p)) /\ LeadsNowhere(Recipe!ContainerReqs(p))
  BY <1>6, <1>7, <1>8, <1>9, UnusableLeadNowhere
<1> QED BY <1>3, <1>10

LEMMA BaseIsAsDeclared ==
  ASSUME NEW p \in ProjectRecord, Recipe!StatesRuntime(p), p.broken = {}
  PROVE  BaseIs(p, Recipe!base_for(Recipe!detect_requirements(p)))
<1> DEFINE T == DeclaredRequirement
           a == Recipe!ManifestReqs(p, "python")
           b == Recipe!ManifestReqs(p, "node")
           c == PinReqs(p)
           d == Recipe!ManifestReqs(p, "go")
           e == ToolReqs(p)
           f == Recipe!LockReqs(p)
           g == Recipe!ContainerReqs(p)
           h == Recipe!CiReqs(p)
           s2 == a \o b
           s3 == s2 \o c
           s4 == s3 \o d
           s5 == s4 \o e
           s6 == s5 \o f
           s7 == s6 \o g
           s8 == s7 \o h
           found == Recipe!detect_requirements(p)
<1>1. found = s8
  BY Zenon DEF Recipe!detect_requirements, PinReqs, ToolReqs, PinOf, ToolsOf
<1>2. "python" \in Recipe!Images /\ "node" \in Recipe!Images /\ "go" \in Recipe!Images
  BY DEF Recipe!Images
<1>3. a \in Seq(T) /\ b \in Seq(T) /\ d \in Seq(T)
  BY <1>2, ManifestRequirements
<1>4. (c = <<PinOf>> /\ ".nvmrc" \in p.pins) \/ (c = <<>> /\ ".nvmrc" \notin p.pins)
  BY Zenon DEF PinReqs, Recipe!One
<1>5. c \in Seq(T)
  <2>1. PinOf \in T
    BY FixedRequirements
  <2> HIDE DEF T, c
  <2> QED BY <1>4, <2>1, ShortSequences
<1>6. e \in Seq(T) /\ LeadsNowhere(e) /\ LeadsNowhere(f) /\ LeadsNowhere(g)
  BY DullParts
<1>7. f \in Seq(T) /\ g \in Seq(T) /\ h \in Seq(T) /\ ElementsOf(h) = CiSet(p)
  <2>1. IsPart(g, ContainerSet(p)) /\ IsPart(h, CiSet(p))
    BY ContainersArePart, CiIsPart
  <2> QED BY <2>1, LockRequirements DEF IsPart
<1>8. /\ IF p.manifests["python"] # None THEN LeadsWith(a, RuntimeOf(p, "python")) ELSE LeadsNowhere(a)
      /\ IF p.manifests["node"] # None THEN LeadsWith(b, RuntimeOf(p, "node")) ELSE LeadsNowhere(b)
      /\ IF p.manifests["go"] # None THEN LeadsWith(d, RuntimeOf(p, "go")) ELSE LeadsNowhere(d)
  BY <1>2, ManifestLeads
<1>9. IF ".nvmrc" \in p.pins THEN LeadsWith(c, PinOf) ELSE LeadsNowhere(c)
  <2>1. Imaged(PinOf)
    BY DEF Imaged, PinOf, Recipe!Requirement, Recipe!Images
  <2> HIDE DEF c
  <2> QED BY <1>4, <2>1, ShortLeads
<1> HIDE DEF T, a, b, c, d, e, f, g, h, s2, s3, s4, s5, s6, s7, s8, found
<1>10. LeadsNowhere(h) \/ \E r : LeadsWith(h, r) /\ r.name = "ci"
  <2>1. LeadsNowhere(h) \/ \E r \in CiSet(p) : LeadsWith(h, r)
    BY <1>7, SomeoneLeads
  <2>2. \A eco : CiOf(eco).name = "ci"
    BY DEF CiOf, Recipe!Requirement
  <2>3. \A r \in CiSet(p) : r.name = "ci"
    BY <2>2 DEF CiSet
  <2> QED BY <2>1, <2>3
<1>11. s2 \in Seq(T) /\ Follows(a, b, s2)
  BY <1>3, PartsFollow DEF s2
<1>12. s3 \in Seq(T) /\ Follows(s2, c, s3)
  BY <1>5, <1>11, PartsFollow DEF s3
<1>13. s4 \in Seq(T) /\ Follows(s3, d, s4)
  BY <1>3, <1>12, PartsFollow DEF s4
<1>14. s5 \in Seq(T) /\ Follows(s4, e, s5)
  BY <1>6, <1>13, PartsFollow DEF s5
<1>15. s6 \in Seq(T) /\ Follows(s5, f, s6)
  BY <1>7, <1>14, PartsFollow DEF s6
<1>16. s7 \in Seq(T) /\ Follows(s6, g, s7)
  BY <1>7, <1>15, PartsFollow DEF s7
<1>17. s8 \in Seq(T) /\ Follows(s7, h, s8)
  BY <1>7, <1>16, PartsFollow DEF s8
<1>18. \A r : LeadsWith(s4, r) => LeadsWith(s8, r)
  BY <1>14, <1>15, <1>16, <1>17, Zenon DEF Follows
<1>19. LeadsNowhere(s4) => LeadsNowhere(s7)
  BY <1>6, <1>14, <1>15, <1>16, Zenon DEF Follows
<1>20. /\ \A r : LeadsWith(s8, r) => Recipe!base_for(found) = r
       /\ LeadsNowhere(s8) => Recipe!base_for(found) = None
  BY <1>1, <1>17, LeaderIsBase
<1>21. CASE p.manifests["python"] # None
  <2>1. LeadsWith(s4, RuntimeOf(p, "python"))
    BY <1>8, <1>11, <1>12, <1>13, <1>21, Zenon DEF Follows
  <2> QED BY <1>18, <1>20, <1>21, <2>1, Zenon DEF BaseIs, found
<1>22. CASE p.manifests["python"] = None /\ p.manifests["node"] # None
  <2>1. LeadsWith(s2, RuntimeOf(p, "node"))
    BY <1>8, <1>11, <1>22, Zenon DEF Follows
  <2>2. LeadsWith(s4, RuntimeOf(p, "node"))
    BY <1>12, <1>13, <2>1, Zenon DEF Follows
  <2> QED BY <1>18, <1>20, <1>22, <2>2, Zenon DEF BaseIs, found
<1>23. CASE p.manifests["python"] = None /\ p.manifests["node"] = None
  <2>1. LeadsNowhere(s2)
    BY <1>8, <1>11, <1>23, Zenon DEF Follows
  <2>2. CASE ".nvmrc" \in p.pins
    <3>1. LeadsWith(s4, PinOf)
      BY <1>9, <1>12, <1>13, <2>1, <2>2, Zenon DEF Follows
    <3> QED BY <1>18, <1>20, <1>23, <2>2, <3>1, Zenon DEF BaseIs, found
  <2>3. CASE ".nvmrc" \notin p.pins
    <3>1. LeadsNowhere(s3)
      BY <1>9, <1>12, <2>1, <2>3, Zenon DEF Follows
    <3>2. CASE p.manifests["go"] # None
      <4>1. LeadsWith(s4, RuntimeOf(p, "go"))
        BY <1>8, <1>13, <3>1, <3>2, Zenon DEF Follows
      <4> QED BY <1>18, <1>20, <1>23, <2>3, <3>2, <4>1, Zenon DEF BaseIs, found
    <3>3. CASE p.manifests["go"] = None
      <4>1. LeadsNowhere(s7)
        BY <1>8, <1>13, <1>19, <3>1, <3>3, Zenon DEF Follows
      <4>2. Recipe!base_for(found) = None \/ Recipe!base_for(found).name = "ci"
        <5>1. CASE LeadsNowhere(h)
          BY <1>17, <1>20, <4>1, <5>1, Zenon DEF Follows
        <5>2. CASE \E r : LeadsWith(h, r) /\ r.name = "ci"
          <6>1. PICK r : LeadsWith(h, r) /\ r.name = "ci"
            BY <5>2
          <6>2. LeadsWith(s8, r)
            BY <1>17, <4>1, <6>1, Zenon DEF Follows
          <6> QED BY <1>20, <6>1, <6>2
        <5> QED BY <1>10, <5>1, <5>2
      <4> QED BY <1>23, <2>3, <3>3, <4>2, Zenon DEF BaseIs, found
    <3> QED BY <3>2, <3>3
  <2> QED BY <2>2, <2>3
<1> QED BY <1>21, <1>22, <1>23

(* The machine decides what a recipe cannot carry.                         *)
LEMMA WhatIsUnmetStays ==
  ASSUME NEW p, NEW q, NEW machine
  PROVE  Recipe!build_reproduction(p, machine).unmet \ {"no-install-step"}
           \subseteq Recipe!build_reproduction(q, machine).unmet
<1> DEFINE U(x) == {u \in {"no-install-step", "container-in-container", "gpu", "platform"} :
                      \/ u = "no-install-step" /\ Recipe!install_steps(x) = {}
                      \/ u = "container-in-container" /\ machine.engine
                      \/ u = "gpu" /\ machine.gpu
                      \/ u = "platform" /\ ~machine.linux}
<1>1. \A x : Recipe!build_reproduction(x, machine).unmet = U(x)
  BY DEF Recipe!build_reproduction
<1>2. U(p) \ {"no-install-step"} \subseteq U(q)
  BY Zenon
<1> QED BY <1>1, <1>2

LEMMA RecipeFields ==
  ASSUME NEW p, NEW machine
  PROVE  LET r == Recipe!build_reproduction(p, machine)
         IN /\ r.base = Recipe!base_for(Recipe!detect_requirements(p))
            /\ r.installs = Recipe!install_steps(p)
BY DEF Recipe!build_reproduction

LEMMA InstallsGrow ==
  ASSUME NEW p \in ProjectRecord, NEW q, Grows(p, q)
  PROVE  Recipe!install_steps(p) \subseteq Recipe!install_steps(q)
<1> DEFINE E(x) == {r.eco : r \in Recipe!Declared(x)}
<1>1. q \in ProjectRecord /\ p.locks \subseteq q.locks
  BY Zenon DEF Grows
<1>2. Recipe!Declared(p) = Found(p) /\ Recipe!Declared(q) = Found(q)
  BY <1>1, FoundIsDeclared DEF Recipe!Declared
<1>3. Found(p) \subseteq Found(q)
  BY FoundGrows
<1>4. E(p) \subseteq E(q)
  BY <1>2, <1>3
<1>5. ASSUME NEW x
      PROVE  Recipe!install_steps(x) =
               {i \in Recipe!INSTALL_COMMANDS :
                  i[2] \in x.locks /\ (i[1] \in E(x) \/ (i[1] = "pip" /\ "python" \in E(x)))}
  BY Zenon DEF Recipe!install_steps
<1> HIDE DEF E
<1> QED BY <1>1, <1>4, <1>5

LEMMA RecipeIsFaithful ==
  ASSUME NEW p \in ProjectRecord, NEW machine
  PROVE  Recipe!RecipeIsFaithfulAt(p, machine)
<1> DEFINE B(x) == Recipe!base_for(Recipe!detect_requirements(x))
           recipe == Recipe!build_reproduction(p, machine)
           later(q) == Recipe!build_reproduction(q, machine)
<1>1. /\ \A q : later(q).base = B(q) /\ later(q).installs = Recipe!install_steps(q)
      /\ recipe.base = B(p) /\ recipe.installs = Recipe!install_steps(p)
  BY RecipeFields
<1>2. \A x, eco : RuntimeOf(x, eco).name = "runtime"
  BY DEF RuntimeOf, Recipe!Requirement
<1>3. PinOf.name = "runtime" /\ PinOf.note = ".nvmrc"
  BY DEF PinOf, Recipe!Requirement
<1>4. ASSUME NEW x \in ProjectRecord, Recipe!StatesRuntime(x), x.broken = {}
      PROVE  BaseIs(x, B(x))
  BY <1>4, BaseIsAsDeclared
<1>5. ASSUME Recipe!StatesRuntime(p)
      PROVE  B(p) = None \/ B(p).name \in {"runtime", "ci"}
  <2>1. CASE p.broken # {}
    <3>1. Recipe!detect_requirements(p) = <<>>
      BY <2>1, Zenon DEF Recipe!detect_requirements
    <3>2. <<>> \in Seq(STRING)
      OBVIOUS
    <3>3. B(p) = None
      BY <3>1, <3>2, ShortLeads, LeaderIsBase
    <3> QED BY <3>3
  <2>2. CASE p.broken = {}
    <3>1. BaseIs(p, B(p))
      BY <1>4, <1>5, <2>2
    <3> HIDE DEF B
    <3> QED BY <1>2, <1>3, <3>1, Zenon DEF BaseIs
  <2> QED BY <2>1, <2>2
<1>6. ASSUME NEW q \in Recipe!Additions(p), Recipe!StatesRuntime(p), p.broken = {},
             B(p) # None, B(p).name # "ci"
      PROVE  B(q) = B(p) \/ B(q).note = ".nvmrc"
  <2>1. Grows(p, q)
    BY MoreIsMore
  <2>2. /\ q \in ProjectRecord /\ q.broken \subseteq p.broken /\ p.pins \subseteq q.pins
        /\ \A eco \in Recipe!Images : SameOrLonger(p.manifests[eco], q.manifests[eco])
    BY <2>1, Zenon DEF Grows
  <2>3. q.broken = {}
    BY <1>6, <2>2
  <2>4. DOMAIN p.manifests = Recipe!Images /\ DOMAIN q.manifests = Recipe!Images
    BY <2>2, ManifestsAreThree
  <2>5. \A eco \in Recipe!Images :
          \/ p.manifests[eco] = None /\ q.manifests[eco] = None
          \/ /\ p.manifests[eco] # None /\ q.manifests[eco] # None
             /\ q.manifests[eco].runtime = p.manifests[eco].runtime
    BY <2>2, Zenon DEF SameOrLonger
  <2>6. Recipe!StatesRuntime(q)
    BY <1>6, <2>4, <2>5 DEF Recipe!StatesRuntime
  <2>7. BaseIs(p, B(p)) /\ BaseIs(q, B(q))
    BY <1>4, <1>6, <2>2, <2>3, <2>6
  <2>8. \A eco \in Recipe!Images : p.manifests[eco] # None => RuntimeOf(p, eco) = RuntimeOf(q, eco)
    BY <2>5 DEF RuntimeOf
  <2>9. "python" \in Recipe!Images /\ "node" \in Recipe!Images /\ "go" \in Recipe!Images
    BY DEF Recipe!Images
  <2>10. ".nvmrc" \in p.pins => ".nvmrc" \in q.pins
    BY <2>2
  <2> HIDE DEF B
  <2>11. CASE p.manifests["python"] # None
    BY <2>5, <2>7, <2>8, <2>9, <2>11, Zenon DEF BaseIs
  <2>12. CASE p.manifests["python"] = None /\ p.manifests["node"] # None
    BY <2>5, <2>7, <2>8, <2>9, <2>12, Zenon DEF BaseIs
  <2>13. CASE p.manifests["python"] = None /\ p.manifests["node"] = None /\ ".nvmrc" \in p.pins
    BY <2>5, <2>7, <2>9, <2>10, <2>13, Zenon DEF BaseIs
  <2>14. CASE p.manifests["python"] = None /\ p.manifests["node"] = None /\ ".nvmrc" \notin p.pins
    <3>1. p.manifests["go"] # None /\ B(p) = RuntimeOf(p, "go")
      BY <1>6, <2>7, <2>14, Zenon DEF BaseIs
    <3>2. B(q) = PinOf \/ B(q) = RuntimeOf(q, "go")
      BY <2>5, <2>7, <2>9, <2>14, <3>1, Zenon DEF BaseIs
    <3> QED BY <1>3, <2>8, <2>9, <3>1, <3>2
  <2> QED BY <2>11, <2>12, <2>13, <2>14
<1>7. ASSUME NEW q \in Recipe!Additions(p)
      PROVE  /\ recipe.installs \subseteq later(q).installs
             /\ recipe.unmet \ {"no-install-step"} \subseteq later(q).unmet
  <2>1. Recipe!install_steps(p) \subseteq Recipe!install_steps(q)
    BY MoreIsMore, InstallsGrow
  <2> HIDE DEF B
  <2> QED BY <1>1, <2>1, WhatIsUnmetStays
<1> HIDE DEF B, recipe, later
<1> QED BY <1>1, <1>5, <1>6, <1>7, Zenon DEF Recipe!RecipeIsFaithfulAt, recipe, later

LEMMA RecipesAreHeld == InputFits => RecipesHold
<1>1. SUFFICES ASSUME InputFits, Given("reproduce")
               PROVE  Recipe!ScoresAreFairAt(input[1]) /\ Recipe!RecipeIsFaithfulAt(input[1], input[2])
  BY Zenon DEF RecipesHold
<1>2. input \in Projects
  BY <1>1 DEF InputFits
<1> DEFINE p == input[1]
           machine == input[2]
<1>3. p \in ProjectRecord
  BY <1>2, ReadProjects
<1> HIDE DEF p, machine
<1>4. Recipe!ScoresAreFairAt(p) /\ Recipe!RecipeIsFaithfulAt(p, machine)
  BY <1>3, ScoresAreFair, RecipeIsFaithful
<1> QED BY <1>4 DEF p, machine

-----------------------------------------------------------------------------
(* A plan covers every finding once and in the order of its risk, every    *)
(* step of its execution is reported, a rehearsal runs what it may in an   *)
(* order that respects the graph, and scores reward what a recipe keeps to *)
(* (remediation/planner.py, remediation/executor.py, remediation/graph.py, *)
(* reproduce/recipe.py, rules/score.py, project/profiles.py).              *)
THEOREM RemediesAreSoundAlways == CommandsSpec => []RemediesAreSound
<1>1. InputFits => RemediesAreSound
  BY PlansCover, StepsAreAllReported, RehearsalsAreSound, RecipesAreHeld, Zenon DEF RemediesAreSound
<1> QED BY <1>1, InitFits, StepFits, PTL DEF CommandsSpec

=============================================================================
