---------------------------- MODULE FleetAnalytics ----------------------------
(***************************************************************************)
(* What the fleet server makes of its rows: the onboarding distribution    *)
(* and the simulation of a policy (server/analytics.py), and the rows they *)
(* are given: the newest snapshots of the organization (server/db.py), and *)
(* of those the latest of each machine (server/api.py).                    *)
(*                                                                         *)
(* `stored` lists the snapshots of the enrolled machines, the last received*)
(* first; what the server stored it can read again.                        *)
(***************************************************************************)
EXTENDS Integers, Sequences, FiniteSets, FiniteSetsExt

CONSTANTS
  None,            \* absent, or a date that cannot be read
  Unreadable,      \* a version that cannot be compared
  MINIMUM_COHORT,  \* 5 in the code
  FactsLimit       \* 5000 in the code

Backwards(rows) == [i \in DOMAIN rows |-> rows[Len(rows) + 1 - i]]

(* The rows either page is made of: the newest, of all the machines.       *)
snapshot_facts(stored) ==
  SubSeq(stored, 1, IF Len(stored) < FactsLimit THEN Len(stored) ELSE FactsLimit)

(* The machines of a set, as a query lists them.                           *)
InSomeOrder(S) == CHOOSE f \in [1..Cardinality(S) -> S] : IsInjective(f)

(* ceil(fraction * n) *)
NearestRank(percentage, n) == (percentage * n + 99) \div 100

(* sorted: in ascending order, with as many up to each duration. *)
sorted(values) ==
  LET upTo(s, d) == Cardinality({i \in 1..Len(values) : s[i] <= d})
  IN CHOOSE s \in [1..Len(values) -> Range(values)] :
       /\ \A i, j \in 1..Len(values) : i < j => s[i] <= s[j]
       /\ \A d \in Range(values) : upTo(s, d) = upTo(values, d)

(* _percentile *)
Percentile(durations, percentage) ==
  LET n     == Len(durations)
      index == NearestRank(percentage, n)
  IN sorted(durations)[IF index < 1 THEN 1 ELSE IF index > n THEN n ELSE index]

LatestReady(machine, snapshots) ==           \* mutant: the first row, which is the newest
  LET rows == SelectSeq(snapshots, LAMBDA x : x.machine = machine /\ x.ready /\ x.at # None)
  IN IF rows = <<>> THEN None ELSE Head(rows).at

(* The first READY snapshot of a machine, [machine, at, ready].            *)
FirstReady(machine, snapshots) ==
  LET stamps == {s.at : s \in {x \in Range(snapshots) :
                                 x.machine = machine /\ x.ready /\ x.at # None}}
  IN IF stamps = {} THEN None ELSE Min(stamps)

(* onboarding_stats, where enrolled[m] is the date machine m was enrolled. *)
(* A machine that was READY before it was enrolled is not counted at all.  *)
Onboarding(enrolled, snapshots) ==
  LET first(m)  == FirstReady(m, snapshots)
      dated     == {m \in DOMAIN enrolled : enrolled[m] # None}
      onboarded == {m \in dated : first(m) # None /\ first(m) >= enrolled[m]}
      machines  == InSomeOrder(onboarded)
      durations == [i \in 1..Len(machines) |-> first(machines[i]) - enrolled[machines[i]]]
      enough    == Cardinality(onboarded) >= MINIMUM_COHORT
  IN [ cohort |-> Cardinality(onboarded),
       never  |-> Cardinality({m \in dated : first(m) = None}),
       p50    |-> IF enough THEN Percentile(durations, 50) ELSE None,
       p90    |-> IF enough THEN Percentile(durations, 90) ELSE None ]

OnboardingPage(enrolled, stored) == Onboarding(enrolled, snapshot_facts(stored))

-----------------------------------------------------------------------------

(* One requirement of the proposed policy, as the versions that meet it.   *)
Breaks(tools, required, t) == tools[t] # Unreadable /\ tools[t] \notin required[t]

(* Of rows [machine, tools], newest first, the first of each machine.      *)
LatestRows(rows) ==
  {rows[i] : i \in {n \in 1..Len(rows) : \A k \in 1..(n - 1) : rows[k].machine # rows[n].machine}}

simulate_policy(latest, required) ==
  LET usable == {r \in latest : \E t \in DOMAIN r.tools : r.tools[t] # None}
      causes(r) == {t \in DOMAIN required : Breaks(r.tools, required, t)}
  IN [ evaluated   |-> Cardinality(usable),
       unevaluated |-> Cardinality(latest) - Cardinality(usable),
       failing     |-> Cardinality({r \in usable : causes(r) # {}}),
       causes      |-> [t \in DOMAIN required |-> Cardinality({r \in usable : t \in causes(r)})] ]

(* The endpoint: a machine without a row among the newest is no machine.   *)
SimulationPage(stored, required) ==
  simulate_policy(LatestRows(snapshot_facts(stored)), required)

-----------------------------------------------------------------------------

(* A percentile is a duration some machine had, at least that share of the *)
(* machines was no slower, and no shorter duration would do: the tail is   *)
(* never left out ("quietly wrong in the flattering direction",            *)
(* analytics.py:82).                                                       *)
TailIsReachedAt(durations) ==
  \A percentage \in {50, 90} :
    LET p         == Percentile(durations, percentage)
        atMost(d) == Cardinality({i \in 1..Len(durations) : durations[i] <= d})
    IN /\ p \in Range(durations)
       /\ 100 * atMost(p) >= percentage * Len(durations)
       /\ \A d \in Range(durations) : d < p => 100 * atMost(d) < percentage * Len(durations)

(* The order of the rows does not matter, and a handful of machines shows  *)
(* no distribution.  While every snapshot is among the newest, going on    *)
(* reporting never changes how long a machine took, and makes no machine   *)
(* stuck.  After that a machine can look slower than it was, or stuck, but *)
(* none looks faster, and none that is stuck is left out (analytics.py,    *)
(* onboarding_stats; db.py, snapshot_facts).                               *)
OnboardingIsStableAt(enrolled, stored, next) ==
  LET more   == <<next>> \o stored
      before == OnboardingPage(enrolled, stored)
      after  == OnboardingPage(enrolled, more)
      first  == FirstReady(next.machine, stored)
      Shown(m) == FirstReady(m, snapshot_facts(more))
  IN /\ Onboarding(enrolled, Backwards(snapshot_facts(stored))) = before
     /\ before.cohort < MINIMUM_COHORT => before.p50 = None /\ before.p90 = None
     /\ Len(more) <= FactsLimit =>
          /\ (first # None /\ next.at # None) => (next.at >= first => after = before)
          /\ after.never <= before.never
     /\ \A m \in DOMAIN enrolled : Shown(m) # None =>
          FirstReady(m, more) # None /\ Shown(m) >= FirstReady(m, more)
     /\ after.never >= Onboarding(enrolled, more).never

(* "Machines that enrolled and have never reported READY"                  *)
(* (analytics.py:103): no other machine is counted as one.  Not so of one  *)
(* whose READY snapshot is no longer among the newest.                     *)
NeverMeansNeverAt(enrolled, stored) ==
  OnboardingPage(enrolled, stored).never =
    Cardinality({m \in DOMAIN enrolled : enrolled[m] # None /\ FirstReady(m, stored) = None})

(* The simulation counts each machine that has a row among the newest once *)
(* and by its latest report; what is no longer among them takes failures   *)
(* away and never adds one.  A version it cannot read never adds a failure,*)
(* each failure has a cause and each cause a failure, and a tool more or a *)
(* narrower range never makes the rollout look safer (analytics.py,        *)
(* simulate_policy; api.py, simulate).                                     *)
SimulationIsHonestAt(stored, required, stricter, row) ==
  LET result  == SimulationPage(stored, required)
      more    == <<row>> \o stored
      sum     == Cardinality(UNION {{t} \X (1..result.causes[t]) : t \in DOMAIN required})
      unread  == [t \in DOMAIN row.tools |-> IF row.tools[t] = None THEN None ELSE Unreadable]
  IN /\ result.evaluated + result.unevaluated =
          Cardinality({r.machine : r \in Range(snapshot_facts(stored))})
     /\ SimulationPage(more, required).failing <= simulate_policy(LatestRows(more), required).failing
     /\ result.failing <= sum /\ sum <= result.failing * Cardinality(DOMAIN required)
     /\ (\A t \in DOMAIN required : t \in DOMAIN stricter /\ stricter[t] \subseteq required[t]) =>
          SimulationPage(stored, stricter).failing >= result.failing
     /\ SimulationPage(<<[row EXCEPT !.tools = unread]>> \o stored, required).failing
          <= SimulationPage(more, required).failing

(* "Machines with no usable snapshot. Reported rather than dropped: a      *)
(* simulation over half a fleet that presents itself as a full one is the  *)
(* way this feature would mislead" (analytics.py:193).  But a machine that *)
(* has not reported, or not among the newest, is in neither number.        *)
EveryMachineIsCountedAt(machines, stored, required) ==
  LET result == SimulationPage(stored, required)
  IN result.evaluated + result.unevaluated = Cardinality(machines)

=============================================================================
