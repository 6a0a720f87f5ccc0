SPECIFICATION CommandsSpec
CONSTANTS
  Project = Project
  Team = Team
  Org = Org
  Shared = Shared
  Proxy = Proxy
  Unreadable = Unreadable
  MINIMUM_COHORT = 2
  FactsLimit = 2
  Start = Project
  None = None
  AnyVersion = AnyVersion
  Garbled = Garbled
  MaxDepths = {2, 3}
  Files <- MCFiles
  Versions <- MCVersions
  Specs <- MCSpecs
  AcceptedBy <- MCAcceptedBy
  Contents <- MCContents
  Extensions <- MCExtensions
  ComparedVersions <- MCComparedVersions
  Groups <- MCGroups
  FixSets <- MCFixSets
  Findings <- MCFindings
  Steps <- MCSteps
  Graphs <- MCGraphs
  GateSets <- MCGateSets
  Guarded <- MCGuarded
  Baselines <- MCBaselines
  Repositories <- MCRepositories
  Shells <- MCShells
  GateShells <- MCGateShells
  Sandboxes <- MCSandboxes
  Locks <- MCLocks
  Engines <- MCEngineInputs
  Projects <- MCProjects
  Attempts <- MCAttempts
  Trees <- MCTrees
  Paths = {"./run"}
  Runners = {"make"}
  MINIMUM_SAMPLE = 10
  Unversioned = Unversioned
  Template = Template
  Workflows <- MCWorkflows
  Machines <- MCMachines
  Hosts <- MCHosts
  Checkouts <- MCCheckouts
  Artifacts <- MCArtifacts
  Declarations <- MCDeclarations
  Snapshots <- MCSnapshots
  Durations <- MCDurations
  Enrolments <- MCEnrolments
  ReadyRows <- MCReadyRows
  FleetRows <- MCFleetRows
  Requirements <- MCRequirements
INVARIANTS
  PolicyIsComposed
  VerdictsAreTruthful
  RangesMeanWhatTheySay
  RemediesAreSound
  GateIsConsistent
  ComparisonIsTrue
  NumbersAreHonest
PROPERTIES
  CheckCommandEnds
CHECK_DEADLOCK FALSE
