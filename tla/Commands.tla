------------------------------- MODULE Commands -------------------------------
(***************************************************************************)
(* One process answers one question.  `devrepro check` works through a     *)
(* policy in steps (PolicyCheck); the other commands and the fleet pages   *)
(* read their input at once and compute an answer from it, so their state  *)
(* is the input and what they answer is an operator of it.                 *)
(***************************************************************************)
EXTENDS PolicyCheck

CONSTANTS
  Unreadable, Unversioned, Template, MINIMUM_COHORT, FactsLimit, MINIMUM_SAMPLE,
  Paths, Runners,    \* programs that are paths, programs that run targets
  ComparedVersions,  \* versions that ranges and advisories compare
  Groups,            \* groups of a range as written: sets of <<op, version>>
  FixSets,           \* the versions an advisory says are fixed
  Findings,          \* findings of a scan
  Steps,             \* steps of a plan that is executed
  Graphs,            \* prerequisites of the steps of a graph
  GateSets,          \* steps of a graph nobody confirmed
  Guarded,           \* what guard finds, the repository, whether a base is given
  Baselines,         \* requirements, environment names and the machine compared
  Repositories,      \* agent manifests, gates of the CI and the machine
  Shells, GateShells,  \* shells an agent is started in, and those of the gate
  Sandboxes,         \* host, engine, declarations, whether the network is needed
  Locks,             \* a lockfile, two versions of its tool and the runtime's
  Engines,           \* a machine's container engine and what a project needs
  Projects,          \* what a project declares, the machine that failed
  Attempts,          \* how often each outcome was recorded
  Trees,             \* entries of the manifests of one repository
  Workflows,         \* workflows, a tool they set up, its local version
  Machines,          \* a probe of the host and what it could read
  Hosts,             \* PATH and the programs on it, or the shell profiles
  Checkouts,         \* what git, ports, names and pins a checkout has
  Artifacts,         \* files sealed, signed, migrated, attested to
  Declarations,      \* what a project declares of frameworks and bots
  Snapshots,         \* snapshots to be compared
  Durations,         \* onboarding times, unsorted
  Enrolments,        \* enrolment dates of the machines
  ReadyRows,         \* rows of the onboarding page
  FleetRows,         \* rows of the policy simulation
  Requirements       \* policies, as the versions of each tool that are accepted

Version    == INSTANCE DeclaredVersions    \* and Versioning, which it extends
Remedy     == INSTANCE Remediation
Agent      == INSTANCE AgentReadiness
Gates      == INSTANCE GateCommands
Engine     == INSTANCE ContainerDoctor
Recipe     == INSTANCE Reproduction
Ci         == INSTANCE CiToolchains
Host       == INSTANCE HostProbes
Tools      == INSTANCE PathTools
Work       == INSTANCE Checkout
Kept       == INSTANCE Artifacts
Needs      == INSTANCE ProjectNeeds
Fleet      == INSTANCE FleetAnalytics
Compare    == INSTANCE Comparison

ASSUME VersionsAssumption ==
  /\ ComparedVersions \subseteq Version!Parsed
  /\ Groups \subseteq SUBSET (Version!Operators \X Version!Parsed)
  /\ FixSets \subseteq SUBSET Version!Parsed

NotAVersion == {None, Unversioned, Garbled}

ASSUME NotAVersionAssumption == None # Unversioned /\ None # Garbled /\ Unversioned # Garbled

(* A lockfile of a tool that is known, and versions that could be parsed   *)
(* or were not.                                                            *)
ASSUME LocksAssumption ==
  \A read \in Locks :
    /\ read[1].tool \in DOMAIN Version!Floors
    /\ read[2] \in Version!Parsed \cup NotAVersion /\ read[3] \in Version!Parsed \cup NotAVersion

(* Durations, dates and attempts are numbers, a date may be missing, and   *)
(* the inventory of a machine says something of every tool a policy names. *)
ASSUME FleetAssumption ==
  /\ None # Unreadable /\ MINIMUM_COHORT \in Nat /\ FactsLimit \in Nat \ {0}
  /\ \A durations \in Durations : durations \in Seq(Int) /\ durations # <<>>
  /\ \A enrolled \in Enrolments :
       IsFiniteSet(DOMAIN enrolled) /\ \A m \in DOMAIN enrolled : enrolled[m] \in Int \cup {None}
  /\ \A row \in ReadyRows : row.at \in Int \cup {None}
  /\ \A row \in FleetRows : row = [machine |-> row.machine, tools |-> row.tools]
  /\ \A required \in Requirements :
       IsFiniteSet(DOMAIN required) /\ \A row \in FleetRows : DOMAIN required \subseteq DOMAIN row.tools

(* A step is numbered where it stands; no step has the number 0. *)
ASSUME RemediesAssumption ==
  /\ Steps \subseteq [id : Nat, risk : {"SAFE", "LOW", "MEDIUM", "HIGH"}, automatable : BOOLEAN,
                     ready : BOOLEAN, commands : Seq(Int)]
  /\ \A graph \in Graphs : IsFiniteSet(DOMAIN graph) /\ DOMAIN graph \subseteq Nat \ {0}

(* A project declares each ecosystem once, names and versions are text     *)
(* ("of-dep" is a text too), and having no manifest is no manifest.        *)
ASSUME ProjectsAssumption ==
  LET there    == [runtime : STRING \cup {None}, deps : Seq(STRING \cup {"of-dep"})]
      manifest == there \cup {None}
  IN /\ None \notin there
     /\ \A read \in Projects :
          read[1] \in [broken : SUBSET Recipe!Images,
                       manifests : [python : manifest, node : manifest, go : manifest],
                       pins : SUBSET STRING, locks : SUBSET STRING, nested : Nat,
                       containers : SUBSET STRING, ci : SUBSET STRING]

ASSUME AttemptsAssumption ==
  Attempts \subseteq [Recipe!Outcomes -> Nat] /\ MINIMUM_SAMPLE \in Nat \ {0} /\ None \notin Nat

(* A finding is in one of the six states, and a rule pack has a name.      *)
ASSUME GuardedAssumption ==
  /\ \A kind \in Gates!Kinds : None \notin Gates!RELEVANT_PREFIXES[kind]
  /\ \A read \in Guarded :
       /\ \A finding \in read[1] : finding.state \in {Gates!Order[i] : i \in 1..6}
       /\ read[2].compare \in {"merge-base", "ref", "nothing"} /\ read[3] \in BOOLEAN
       /\ \A tree \in {read[2].forked, read[2].tip, read[2].head, read[2].index, read[2].work} :
            DOMAIN tree = DOMAIN read[2].work /\ DOMAIN tree \subseteq (Gates!Kinds \cup {None}) \X Nat

(* What was counted is a number, and a limit is never declared to be 0.    *)
ASSUME ShellsAssumption ==
  LET shell == [git : BOOLEAN, changed : Nat, upstream : BOOLEAN, unpushed : Nat, credentials : Nat,
                target : BOOLEAN, cluster : {None, "dev", "prod"}, stores : Nat, root : BOOLEAN]
      size  == [memory : Nat \cup {None}, cpus : Nat \cup {None}]
      tight == [memory : (Nat \ {0}) \cup {None}, cpus : (Nat \ {0}) \cup {None}, offline : BOOLEAN]
  IN /\ None \notin {"dev", "prod"} /\ Shells \subseteq shell
     /\ \A read \in Sandboxes : read[1] \in size /\ read[2] \in size /\ read[3] \in Seq(tight)

DeclaredCommand == [program : STRING, args : Seq(STRING)]

(* `cd` runs no targets; a directory is the sequence of its names.         *)
ASSUME RepositoriesAssumption ==
  /\ "cd" \notin Runners
  /\ \A read \in Repositories :
       /\ read[1] \in Seq(Seq(Seq(DeclaredCommand))) /\ read[2] \subseteq DeclaredCommand
       /\ read[3] = [path |-> read[3].path, modules |-> read[3].modules,
                     files |-> read[3].files, targets |-> read[3].targets]
       /\ read[3].targets = [dir \in DOMAIN read[3].targets |-> read[3].targets[dir]]
       /\ DOMAIN read[3].targets \subseteq Seq(STRING)

ASSUME TreesAssumption == \A entries \in Trees : Len(entries) \in Nat /\ DOMAIN entries = 1..Len(entries)

(* Machines are compared for one project; a daemon that was asked answered. *)
ASSUME SnapshotsAssumption ==
  \A s \in Snapshots :
    /\ Len(s.tools) \in Nat
    /\ s.engine # None => s.engine.daemon # None
    /\ \A t \in Snapshots : DOMAIN s.requires = DOMAIN t.requires

VARIABLES command, input

allVars == <<checkVars, command, input>>

Commands ==
  {"check", "versions", "advisories", "plan", "fix", "rehearse", "agent-check", "diff",
   "percentile", "onboarding", "simulate", "guard", "baseline", "briefing", "sandbox",
   "lockfiles", "containers", "reproduce", "repro-rate", "monorepo", "needs", "artifacts", "checkout", "tools", "scan", "ci-diff"}

CommandsInit ==
  /\ CheckInit /\ command \in Commands /\ input = None
  /\ command = "check" \/ \A n \in MaxDepths : n <= limit

Reads(name, inputs) ==
  /\ command = name /\ input = None
  /\ input' \in inputs
  /\ UNCHANGED <<checkVars, command>>

UpTo(n, S) == UNION {[1..k -> S] : k \in 0..n}

ReadVersions    == Reads("versions", ComparedVersions \X ComparedVersions)
ReadAdvisory    == Reads("advisories", FixSets)
ReadFindings    == Reads("plan", UpTo(3, Findings))
ReadPlan        == Reads("fix", {<<[s EXCEPT !.id = 1], [t EXCEPT !.id = 2]>> : s, t \in Steps})
ReadGraph       == Reads("rehearse", Graphs)
ReadGuarded     == Reads("guard", Guarded)
ReadBaseline    == Reads("baseline", Baselines)
ReadManifests   == Reads("agent-check", Repositories)
ReadShell       == Reads("briefing", Shells)
ReadSandbox     == Reads("sandbox", Sandboxes)
ReadLockfile    == Reads("lockfiles", Locks)
ReadEngine      == Reads("containers", Engines)
ReadProject     == Reads("reproduce", Projects)
ReadCorpus      == Reads("repro-rate", Attempts)
ReadTree        == Reads("monorepo", Trees)
ReadWorkflows   == Reads("ci-diff", Workflows)
ReadMachine     == Reads("scan", Machines)
ReadHost        == Reads("tools", Hosts)
ReadCheckout    == Reads("checkout", Checkouts)
ReadArtifact    == Reads("artifacts", Artifacts)
ReadNeeds       == Reads("needs", Declarations)
ReadSnapshots   == Reads("diff", Snapshots \X Snapshots)
ReadDurations   == Reads("percentile", Durations)
ReadEnrolments  == Reads("onboarding", Enrolments \X UpTo(2, ReadyRows))
ReadFleet       == Reads("simulate", {DOMAIN e : e \in Enrolments} \X UpTo(2, FleetRows))

RunCheck == command = "check" /\ CheckNext /\ UNCHANGED <<command, input>>

CommandsNext ==
  \/ RunCheck
  \/ ReadVersions \/ ReadAdvisory \/ ReadFindings \/ ReadPlan \/ ReadGraph
  \/ ReadGuarded \/ ReadBaseline \/ ReadManifests \/ ReadShell \/ ReadSandbox
  \/ ReadLockfile \/ ReadEngine \/ ReadProject \/ ReadCorpus \/ ReadTree
  \/ ReadWorkflows
  \/ ReadMachine
  \/ ReadHost
  \/ ReadCheckout
  \/ ReadArtifact
  \/ ReadNeeds
  \/ ReadSnapshots \/ ReadDurations \/ ReadEnrolments \/ ReadFleet

(* A process that was started runs. *)
CommandsSpec == CommandsInit /\ [][CommandsNext]_allVars /\ WF_allVars(RunCheck)

Given(name) == command = name /\ input # None

-----------------------------------------------------------------------------

(* Loops and diamonds of `extends` end in an answer or an error message    *)
(* (compose.py, _chain).                                                   *)
CheckCommandEnds == command = "check" ~> status \in {"invalid", "checked"}

(* The order ranges compare by is total: what a range accepts does not     *)
(* depend on which versions happened to be compared.                       *)
VersionOrderIsTotal ==
  Given("versions") => \A c \in ComparedVersions : Version!OrderIsTotalAt(input[1], input[2], c)

(* A range without "!=" has no holes.                                      *)
RangesAreConvex ==
  Given("versions") => \A c \in ComparedVersions, group \in Groups :
    Version!RangesAreConvexAt(input[1], input[2], c, group)

(* A clause written in part means what the module says it means.           *)
ClausesMeanWhatTheySay ==
  Given("versions") => \A op \in Version!Operators :
    Version!ClausesMeanWhatTheySayAt(op, input[1], input[2])

(* Once fixed, a branch stays fixed.                                       *)
FixesHold ==
  Given("advisories") => \A a, b \in ComparedVersions : Version!FixesHoldAt(a, b, input)

(* No finding is lost between the scan and the plan.                       *)
PlanCovers == Given("plan") => Remedy!PlanCoversAt(input)

(* `fix` accounts for every step and hides no failure.                     *)
EveryStepIsReported == Given("fix") => Remedy!EveryStepIsReportedAt(input)

(* A graph is ordered exactly when it can be, and gates stop what depends  *)
(* on them.                                                                *)
RehearsalIsSound ==
  Given("rehearse") => \A gated \in GateSets : Remedy!RehearsalIsSoundAt(input, gated)

(* Setting right what agent-check complains about pays, and the gate and   *)
(* the grade agree.                                                        *)
ReadinessPays ==
  Given("agent-check") =>
    /\ Agent!RepairsPayAt(input[1], input[2], input[3])
    /\ \A shell \in GateShells :
         Agent!GateIsConsistentAt(Agent!Signals(input[1], input[2], input[3]), shell)

(* More reach is never described as less, and a sandbox is compared with   *)
(* its tightest limits.                                                    *)
ExposureIsTold ==
  /\ Given("briefing") => Agent!BriefingIsMonotoneAt(input)
  /\ Given("sandbox") => Agent!SandboxIsComparedAt(input[1], input[2], input[3], input[4])

(* The gates agree on a report, and changing more never opens the gate.    *)
GuardHolds ==
  Given("guard") =>
    /\ Gates!GatesAgreeAt(input[1], input[2], input[3])
    /\ Gates!ScopeIsSafeAt(input[1], input[2], input[3])

(* "fall back to a two-dot diff rather than reporting nothing and passing  *)
(* silently" (contract.py:161): a changed policy gates, whatever git has.  *)
NothingPassesSilently ==
  Given("guard") => Gates!NothingPassesSilentlyAt(input[1], input[2], input[3])

(* What a lockfile asks for and cannot be compared is never called fine.   *)
LocksAreCompared ==
  Given("lockfiles") =>
    /\ Version!UnknownIsSaidAt(input[1], input[2], input[4])
    /\ {input[2], input[3]} \cap NotAVersion = {} =>
         Version!UpgradesKeepFormatsAt(input[1], input[2], input[3])

(* A project that needs containers is not ready without an engine.         *)
EngineIsJudged ==
  Given("containers") =>
    Engine!EngineIsThereAt(input[1], input[2]) /\ Engine!StartingTheEngineHelpsAt(input[1], input[2])

(* `baseline diff` and `check` are two ways to one answer, where no policy *)
(* lists known-bad versions.                                               *)
CheckAlone(spec, active) == CheckVersion([key \in Keys |-> None], spec, active)

BaselineAgrees ==
  Given("baseline") =>
    /\ Gates!AgreesWithCheckAt(input[1], input[2], input[3], CheckAlone)
    /\ Gates!BaselineIsFairAt(input[1], input[2], input[3])

(* Scores reward declarations and recipes keep to them.                    *)
RecipesHold ==
  Given("reproduce") =>
    Recipe!ScoresAreFairAt(input[1]) /\ Recipe!RecipeIsFaithfulAt(input[1], input[2])

(* The published rate is earned.                                           *)
RateIsEarned == Given("repro-rate") => Recipe!RateIsEarnedAt(input)

(* Nested projects that cannot agree are told of.                          *)
ConflictsAreTold == Given("monorepo") => Version!ConflictsAreToldAt(input, ComparedVersions)

(* What a workflow tests is read to the last axis, and compared.           *)
CiIsCompared ==
  Given("ci-diff") =>
    Ci!AxesAreReadAt(input[1]) /\ Ci!CiIsComparedAt(input[1], input[2], input[3])

(* What could not be read of a host accuses nobody, what was, truly.       *)
HostIsReadFairly == Given("scan") => Host!HostIsReadFairlyAt(input)

(* What runs, and what its checkout is, are what is told of them.          *)
WorkspaceIsReadTruly ==
  /\ Given("tools")    => Tools!PathIsReadTrulyAt(input[1], input[2])
  /\ Given("checkout") => Work!CheckoutIsReadTrulyAt(input[1], input[2])
  /\ Given("needs")    => Needs!NeedsAreReadTrulyAt(input)

(* What is written down is read back as it was, or refused.                *)
ArtifactsAreKept == Given("artifacts") => Kept!ArtifactIsKeptAt(input)

(* A comparison does not depend on who is called A.                        *)
ComparisonIsFair ==
  Given("diff") => \A c \in Snapshots : Compare!ComparisonIsFairAt(input[1], input[2], c)

(* Where every tool is installed once, a changed version is told of.       *)
LoneDriftIsShown == Given("diff") => Compare!LoneDriftIsShownAt(input[1], input[2])

(* "Compare two snapshots and classify every difference" (diff/engine.py:1)*)
(* for the versions that run, shadowed installations or not.               *)
ActiveDriftIsShown == Given("diff") => Compare!ActiveDriftIsShownAt(input[1], input[2])

(* The p90 reaches the slow machines.                                      *)
TailIsReached == Given("percentile") => Fleet!TailIsReachedAt(input)

(* No machine looks faster than it was, and while every snapshot is read   *)
(* going on reporting changes nothing.                                     *)
OnboardingIsStable ==
  Given("onboarding") => \A row \in ReadyRows :
    Fleet!OnboardingIsStableAt(input[1], input[2], row)

(* "Machines that enrolled and have never reported READY"                  *)
(* (analytics.py:103) are those that the onboarding page counts as such.   *)
NeverMeansNever == Given("onboarding") => Fleet!NeverMeansNeverAt(input[1], input[2])

(* "Machines with no usable snapshot. Reported rather than dropped"        *)
(* (analytics.py:193): every machine of the fleet is in a simulation.      *)
EveryMachineIsCounted ==
  Given("simulate") => \A required \in Requirements :
    Fleet!EveryMachineIsCountedAt(input[1], input[2], required)

(* A simulated rollout counts every machine it has a row of by the latest, *)
(* and strictness costs.                                                   *)
SimulationIsHonest ==
  Given("simulate") => \A required, stricter \in Requirements, row \in FleetRows :
    Fleet!SimulationIsHonestAt(input[2], required, stricter, row)

(* Ranges and advisories mean one thing for every version, in a monorepo   *)
(* and in a lockfile too: the parts above (core/versioning.py,             *)
(* compliance/advisories.py, project/monorepo.py, rules/packs/lockfiles.py)*)
RangesMeanWhatTheySay ==
  /\ VersionOrderIsTotal /\ RangesAreConvex /\ ClausesMeanWhatTheySay /\ FixesHold
  /\ ConflictsAreTold /\ LocksAreCompared

(* From a finding to its repair nothing is lost, skipped or hidden, and a  *)
(* recipe carries what it says (remediation/planner.py,                    *)
(* remediation/graph.py, reproduce/recipe.py, rules/score.py).             *)
RemediesAreSound == PlanCovers /\ EveryStepIsReported /\ RehearsalIsSound /\ RecipesHold

(* What a scan tells of a machine is so, and what it could not read is not *)
(* held against it; what it advises works (rules/base.py,                  *)
(* probes/containers.py and the probes of the host and the checkout).      *)
VerdictsAreTruthful ==
  CheckIsTruthful /\ EngineIsJudged /\ HostIsReadFairly /\ WorkspaceIsReadTruly

(* Every gate - of an agent, of a change - closes on what it is there for  *)
(* and opens when that is set right (agents/gate.py, agents/score.py,      *)
(* agents/blast_radius.py, cli/commands/diagnostics.py).                   *)
GateIsConsistent == ReadinessPays /\ ExposureIsTold /\ GuardHolds

(* A comparison says the same from both sides, what runs alone is compared,*)
(* a baseline blocks what `check` would, CI is compared in every axis, and *)
(* what is compared was read as it had been written (diff/engine.py,       *)
(* snapshots/baseline.py, project/ci_parsers.py, snapshots/protocol.py).   *)
ComparisonIsTrue ==
  ComparisonIsFair /\ LoneDriftIsShown /\ BaselineAgrees /\ CiIsCompared /\ ArtifactsAreKept

(* No published number flatters (server/analytics.py, reproduce/corpus.py).*)
NumbersAreHonest == TailIsReached /\ OnboardingIsStable /\ SimulationIsHonest /\ RateIsEarned

=============================================================================
