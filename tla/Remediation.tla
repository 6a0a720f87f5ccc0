------------------------------ MODULE Remediation ------------------------------
(***************************************************************************)
(* `devrepro plan` and `devrepro fix`: findings become remediation steps   *)
(* (remediation/planner.py), confirmed steps are run one command after the *)
(* other, and a graph of steps is rehearsed behind risk gates              *)
(* (remediation/graph.py).  Every operator is a pure function of the code. *)
(***************************************************************************)
EXTENDS Integers, Sequences, FiniteSets, SequencesExt

Rank(risk) == CASE risk = "SAFE" -> 0 [] risk = "LOW" -> 1 [] risk = "MEDIUM" -> 2 [] risk = "HIGH" -> 3

AUTOMATABLE_RISKS == {"SAFE", "LOW"}

(* The steps the rules have.  A rule about a tool has one step for a tool; *)
(* the others stand for themselves; a rule that is not listed has none.    *)
Risk(rule) ==
  CASE rule \in {"duplicates", "docker", "wsl"} -> "SAFE"
    [] rule \in {"dead-entries", "clock-skew"}  -> "LOW"
    [] rule \in {"missing", "mismatch"}         -> "MEDIUM"

Automatable(rule) == rule \in {"duplicates", "dead-entries", "wsl"}

HasStep(f) ==
  /\ f.state \notin {"PASS", "INFO"}
  /\ f.rule \in {"duplicates", "docker", "wsl", "dead-entries", "clock-skew", "missing", "mismatch"}

StepOf(f) ==
  [ id   |-> IF f.rule \in {"missing", "mismatch"} THEN <<"install", f.tool>> ELSE <<f.rule>>,
    risk |-> Risk(f.rule), automatable |-> Automatable(f.rule) ]

(* The first finding that asks for a step brings it into the plan. *)
KeepFirst(plan, f) ==
  IF ~HasStep(f) \/ \E i \in 1..Len(plan) : plan[i].id = StepOf(f).id THEN plan
  ELSE Append(plan, StepOf(f))

(* A stable sort by risk: before a step come those that are safer, and     *)
(* those as risky that were planned before it.                             *)
Place(plan, i) ==
  Cardinality({j \in 1..Len(plan) : \/ Rank(plan[j].risk) < Rank(plan[i].risk)
                                    \/ Rank(plan[j].risk) = Rank(plan[i].risk) /\ j <= i})

ByRisk(plan) == [k \in 1..Len(plan) |-> plan[CHOOSE i \in 1..Len(plan) : Place(plan, i) = k]]

build_plan(findings) == ByRisk(FoldLeft(KeepFirst, <<>>, findings))

-----------------------------------------------------------------------------

(* One step: [id, risk, automatable, ready, commands], where commands are  *)
(* the exit codes its commands will have and ready is what the check of    *)
(* its preconditions answers.                                              *)
Entry(step, status) == <<step.id, status>>

RunsFallingThrough(step) ==     \* mutant: a step without commands reports nothing
  [i \in 1..Len(step.commands) |->
     Entry(step, IF step.commands[i] = 0 THEN "executed" ELSE "failed")]

(* Every command runs, those after one that failed too. *)
Runs(step) ==
  IF step.commands = <<>> THEN <<Entry(step, "no-commands")>>
  ELSE [i \in 1..Len(step.commands) |->
          Entry(step, IF step.commands[i] = 0 THEN "executed" ELSE "failed")]

execute_step(step) ==
  IF ~step.automatable \/ step.risk \notin AUTOMATABLE_RISKS
  THEN <<Entry(step, "skipped-manual")>>
  ELSE IF ~step.ready THEN <<Entry(step, "skipped-preconditions")>>
  ELSE Runs(step)

execute_plan(plan) == FlattenSeq([i \in 1..Len(plan) |-> execute_step(plan[i])])

-----------------------------------------------------------------------------

(* A graph of steps: prerequisites[s] are the steps s needs, in the order  *)
(* of their ids; the steps of a graph are numbered by id.                  *)
Failed == <<0>>          \* PlanCycleError: no step is numbered 0

InOrder(S) ==
  CHOOSE ids \in [1..Cardinality(S) -> S] : \A i, j \in 1..Cardinality(S) : i < j => ids[i] < ids[j]

VisitEach(visit, ids, visiting, order) ==
  FoldLeft(LAMBDA done, id : IF done = Failed THEN Failed ELSE visit[id][visiting][done], order, ids)

(* What a step needs, and then the step. *)
VisitWithNeeds(prerequisites, visit, id, visiting, order) ==
  LET need == VisitEach(visit, InOrder(prerequisites[id]), visiting \cup {id}, order)
  IN IF need = Failed THEN Failed ELSE Append(need, id)

(* visit: `visiting` is the path to the step, `order` holds what is done.  *)
(* A path holds no step twice, so it is no longer than there are steps.    *)
Visit(prerequisites) ==
  LET steps == DOMAIN prerequisites
      visit[left \in 0..Cardinality(steps)] ==
        [id \in steps |-> [visiting \in SUBSET steps |-> [order \in Seq(steps) |->
           IF Contains(order, id) THEN order
           ELSE IF id \in visiting \/ left = 0 THEN Failed
           ELSE VisitWithNeeds(prerequisites, visit[left - 1], id, visiting, order)]]]
  IN visit[Cardinality(steps)]

build_execution_order(prerequisites) ==
  IF \E s \in DOMAIN prerequisites : ~(prerequisites[s] \subseteq DOMAIN prerequisites)
  THEN Failed
  ELSE VisitEach(Visit(prerequisites), InOrder(DOMAIN prerequisites), {}, <<>>)

(* One round of DryRunTransaction.run: gated steps are those of MEDIUM or  *)
(* HIGH risk that were not confirmed.                                      *)
Rehearse(prerequisites, gated, completed, step) ==
  IF prerequisites[step] \subseteq completed /\ step \notin gated
  THEN completed \cup {step} ELSE completed

Rehearsed(prerequisites, gated) ==
  FoldLeft(LAMBDA completed, step : Rehearse(prerequisites, gated, completed, step),
           {}, build_execution_order(prerequisites))

-----------------------------------------------------------------------------

(* Nothing a scan complained about is lost between the finding and the     *)
(* plan, no step is planned twice however many findings ask for it, and    *)
(* nothing risky comes before something safer (planner.py, build_plan).    *)
PlanCoversAt(findings) ==
  LET plan == build_plan(findings)
  IN /\ \A i \in 1..Len(findings) :
          HasStep(findings[i]) =>
            Cardinality({j \in 1..Len(plan) : plan[j].id = StepOf(findings[i]).id}) = 1
     /\ \A i, j \in 1..Len(plan) : i < j => Rank(plan[i].risk) <= Rank(plan[j].risk)

(* `fix` accounts for every step of the plan, in its order, and a command  *)
(* that failed is never covered by one that succeeded after it; nothing is *)
(* run that is not automatable, of low risk and ready (planner.py,         *)
(* execute_plan).                                                          *)
EveryStepIsReportedAt(plan) ==
  LET results == execute_plan(plan)
      of(i)   == {results[k][2] : k \in {n \in 1..Len(results) : results[n][1] = plan[i].id}}
  IN \A i \in 1..Len(plan) :
       /\ of(i) # {}
       /\ "failed" \in of(i) \/ of(i) \cap {"executed", "failed"} = {}
            \/ \A c \in 1..Len(plan[i].commands) : plan[i].commands[c] = 0
       /\ of(i) \cap {"executed", "failed"} # {} =>
            plan[i].automatable /\ plan[i].ready /\ Rank(plan[i].risk) <= 1

(* What a step depends on, directly or not: its prerequisites and, with    *)
(* every step, those of the step, and no more.                             *)
Needs(prerequisites, s) ==
  LET steps == DOMAIN prerequisites
      Holds(C) == prerequisites[s] \subseteq C /\ \A c \in C : prerequisites[c] \subseteq C
  IN {t \in steps : \A C \in SUBSET steps : Holds(C) => t \in C}

(* A graph has an order exactly when it has no cycle and no unknown step;  *)
(* the order holds every step once and none before what it needs; and a    *)
(* rehearsal runs exactly the steps that nothing unconfirmed stands before,*)
(* however far away (graph.py).                                            *)
RehearsalIsSoundAt(prerequisites, gated) ==
  LET steps == DOMAIN prerequisites
      order == build_execution_order(prerequisites)
  IN IF \E s \in steps : ~(prerequisites[s] \subseteq steps) THEN order = Failed
     ELSE /\ order = Failed <=> \E s \in steps : s \in Needs(prerequisites, s)
          /\ order # Failed =>
               /\ ToSet(order) = steps /\ Len(order) = Cardinality(steps)
               /\ \A i, j \in 1..Len(order) : order[j] \in prerequisites[order[i]] => j < i
               /\ Rehearsed(prerequisites, gated) =
                    {s \in steps : s \notin gated /\ Needs(prerequisites, s) \cap gated = {}}

=============================================================================
