# A formal model of DevRepro Doctor

DevRepro Doctor answers one question: *why does this project work on that
machine and not on this one?* It probes a machine, applies rules, prints a
verdict, records snapshots, compares them, and - optionally - publishes them to
a fleet server. This directory holds TLA+ specifications of the parts of it
whose correctness depends on order, interleaving, failure, search or boundary
cases, the TLC configurations that check them, and TLAPS proofs. Paths below
are relative to the repository root; `devrepro/` is the Python package.

Contents: 1 inventory, 2 hard behaviours, 3 modules, 4 runs and bounds,
5 fairness, 6 disagreements with the documentation, 7 proofs, 8 what is not
modelled, 9 plan.

## 1. Inventory

Components that keep state, run concurrently or can be interrupted:

| Component | Source | State | Operations | What makes it correct |
|---|---|---|---|---|
| Bisection | `reproduce/bisect.py`, `cli/commands/reproduction.py` | candidate lists, audit trail | `bisect_dimensions`, `minimise_dimensions`, the command | what is named is implicated and minimal, a truthful person reaches a cause, few questions |
| MCP server | `mcp/protocol.py`, `mcp/stdio.py` | one cached report and its time | one JSON-RPC line at a time | each request answered once, in order, with a recent report of a permitted project, as long as no scan ends the process |
| Snapshot history | `snapshots/store.py`, `history.py`, `chain.py` | snapshot files, `chain.jsonl` | save, append, verify | no save lost, one accident always noticed |
| Fleet server, joining | `server/db.py`, `server/api.py` | tokens, machines, snapshots, audit | enroll, publish, set and apply retention | tokens and machines match, identities unique, audit truthful, what is kept stays on record |
| Fleet server, governing | the same | accounts, members, baselines, policies, exceptions | approve, set, request, review | authority, one review wins, the latest approval is in force, the trail is true |
| Backup and restore | `server/backup.py` | the database, its journal, an archive | `backup_database`, `restore_database` | nothing unwritten gets in, a restore nobody disturbs brings back what an undisturbed backup saved |
| Watcher | `watch.py` | fingerprints, pending change | poll, debounce | settled changes are reported, each once, none lost |
| Drift | `drift/monitor.py`, `drift/timeline.py` | snapshot files | `should_snapshot`, timeline, hints | steady under clock jumps, replayable |
| Probe engine | `probes/base.py`, `cli/pipeline.py` | thread pool, futures | `run_all`, `run_scan` | every probe is in the report, timeouts are deserved, the scan ends |
| Remediation | `remediation/` | plan, results | plan, execute, rehearse | nothing found is dropped, no failure hidden, prerequisites first |

Components that answer one question from what they read:

| Component | Source | What makes it correct |
|---|---|---|
| Versions and advisories | `core/versioning.py`, `compliance/advisories.py` | a total order; ranges that mean what they say; fixes that hold |
| Policy | `project/compose.py`, `rules/base.py`, `rules/packs/common.py`, `cli/commands/diagnostics.py` | the `extends` graph ends, the nearest layer decides, verdict and exit code agree |
| Guard | `project/contract.py`, `cli/commands/diagnostics.py` | seeing more changes never opens the gate |
| Agents | `agents/` | scores reward repairs, gate and grade agree, more reach is never told as less |
| Comparison, baselines | `diff/`, `snapshots/baseline.py` | the same answer from both sides, and the same as `check` |
| Lockfiles, monorepos, recipes, frameworks, bots | `project/`, `reproduce/`, `rules/packs/` | what cannot be compared is not called fine |
| CI | `project/ci_parsers.py` | every axis is read and compared |
| Containers | `probes/containers.py`, `containers/` | a project that needs an engine is not ready without one |
| Host, PATH, checkout | `probes/`, `platforms/`, `network/`, `git/`, `services/`, `envvars/`, `envmanagers/` | what was not read accuses nobody; what was is told truly; advice works |
| Artefacts | `snapshots/vault.py`, `signing.py`, `protocol.py`, `compliance/` | what is written is read back as it was, or refused |
| Numbers | `server/analytics.py`, `reproduce/corpus.py` | no published number flatters |
| Text: reports, exporters, generators, redaction, command line, web server, plugins, extensions, packaging | the remaining directories | |

How they interact. A command of the CLI calls the scan pipeline, which runs the
probes in a thread pool, applies the rule packs, redacts, and returns an
immutable `ScanReport`. `devrepro snapshot` and `devrepro monitor` reduce the
report to a snapshot and hand it to `HistoryStore.save`, which writes the file
and then the chain; other runs of the same commands share nothing with it but
the directory, and `drift`, `history` and `diff` read it. The MCP server and the
watcher call the pipeline as a callback that takes seconds and may raise. The
bisection calls back to a person or a command for each verdict. The fleet server
is a WSGI application; each serving process has one SQLite connection, and
processes meet only in the database file, which backup and restore read and
write behind SQLite's back.

## 2. What is hard here

`PROJECT.json` lists the hazards with their lines and the properties about
them. In short:

* **reads used after they are stale**: the chain is read and then appended to;
  a token is read and then spent; a project's members are looked up and then a
  baseline is stored; the stamp of an approval is taken before the lock; the
  clock is read before a scan;
* **death between two steps**: file and chain, half a line, effect and audit
  event, restore page by page, vault and its unlinked source;
* **overlap**: two server processes, two monitors, a backup and the server, an
  editor and the watcher, probes and their timeouts;
* **searches** driven by an oracle that may contradict itself, with a budget;
* **graphs** that loop: layers of policies, prerequisites of steps;
* **boundaries**: percentiles, thresholds, partial versions, tightest limits,
  advisories fixed on several branches;
* **what could not be read**: an answer that did not come must neither accuse
  nor excuse a machine.

## 3. Modules

| Module | Extends | Models |
|---|---|---|
| `Bisect` | | `bisect_dimensions` |
| `Minimise` | | `minimise_dimensions` |
| `BisectCommand` | `Bisect`, instances `Minimise` | the command that runs one of the two |
| `McpServer` | | the MCP server |
| `SnapshotChain` | | saving, accidents, verification |
| `DriftHistory` | | monitors, clocks, the timeline |
| `FleetEnrollment` | | joining, publishing, retention |
| `FleetGovernance` | instances `ExceptionLife` | roles, members, baselines, policies, exceptions |
| `ExceptionLife` | | the abstract life of an exception |
| `BackupRestore` | | backup and restore against SQLite and faults |
| `Watch` | | the polling loop against editors |
| `ProbeEngine` | | the thread pool and the end of a scan |
| `PolicyCheck` | | `check`: layers, verdict, attribution |
| `Commands` | `PolicyCheck`, instances the modules below | one process answers one question |
| `Versioning`, `DeclaredVersions` | | versions; lockfiles and monorepos, which are compared with them |
| `Remediation`, `Reproduction` | | plans, graphs, recipes, scores |
| `AgentReadiness` | | briefing, sandbox, gate; manifests and their score |
| `GateCommands`, `Comparison`, `CiToolchains` | | guard, preflight, doctor, baselines; commands that compare |
| `ContainerDoctor`, `HostProbes`, `PathTools`, `Checkout`, `ProjectNeeds` | | what a scan concludes from what it read |
| `Artifacts`, `FleetAnalytics` | | files written and read back; published numbers |
| `FleetServerProofs` | `FleetEnrollment`, `BackupRestore` | theorems about the server's tables and its database |
| `HistoryProofs` | `SnapshotChain`, `DriftHistory`, `Counting` | theorems about the history and what reads it |
| `CheckProofs` | `ProbeEngine`, `PolicyCheck`, `Counting` | theorems about the scan and the policy it is held against |
| `LongRunningProofs` | `FleetGovernance`, `Watch`, `BisectCommand`, `Counting` | theorems about approvals and their trail, the watcher, and both searches |
| `CommandsProofs` | `Commands`, `Versioning`, `Counting` | theorems about versions, what is compared with them, and published numbers; lemmas about guard |
| `AnswersProofs` | `CommandsProofs`, `McpServer` | theorems about the MCP server and about what agents and guard are told |
| `RemediesProofs` | `CommandsProofs` | the theorem about plans, rehearsals, scores and recipes |
| `Counting` | | lemmas: induction and recursion over the natural numbers, least numbers, folds, sums, sorting |

`MC` modules and configurations instantiate them for TLC. Operators whose
comment begins with "mutant" are deliberately wrong versions of the definition
below them; nothing uses them. Substituting one for its definition makes one
property fail, which shows that the property constrains the code.

**Bisect, Minimise, BisectCommand.** The state is the local state of one call:
the list under search, what is set aside, the granularity, the audit trail,
plus `phase`, the line that runs next. One action is one call of `ask` or one
return. The `fails` callback is outside the program, so the answer is free on
every question; in `BisectCommand` the person is either unreliable or tells the
truth about a build that breaks exactly when every member of `causes` is
applied. Dimensions are distinct, as the keys of a diff are.

**McpServer.** One action is one pass of the loop in `serve_stdio`, except that
a call that needs a scan is two: `StartScan` (the clock is read, the scanner
called) and `ScanReturns`, `ScanRaises` or `ScanExits`, with time passing in
between. The server catches `Exception` only, so a probe that calls `sys.exit`
ends the process without an answer (`ScanExits`; `ProbeEngine` has the same
exit). A line is a record of the fields the code branches on. A report is the project it
shows and the moment at which the machine was looked at.

**SnapshotChain.** A saver is one run of `devrepro snapshot`; its steps are the
separate effects of `save`. A saver dies at any of them, and an append may stop
partway; text appended later joins a line that has no newline. A `scenario`
says whether savers overlap, whether appends tear and which accidents happen.
SHA-256 is an injective constructor.

**DriftHistory.** Real time and the wall clock are separate variables, and the
latter is moved in both directions; two monitors may list the directory before
either saves; a file may be damaged. `drift` reads what is there. Snapshots
copied in from elsewhere are not modelled.

**FleetEnrollment, FleetGovernance.** A worker is a serving process. A request
is the sequence of its transactions: reads outside a transaction, and reads
inside one before its first write, are steps of their own, because SQLite takes
the write lock with the first write. A worker may die between any two. An
`IntegrityError` ends the request with a 500, except where the code catches it.
An organization's limits are set again at any time. `apply_retention` reads them
before the transaction that deletes snapshots and audit events by them; it reads
the clock once for each of the two, which is one moment here, days being what
time is counted in. Its deletion of audit events is in `FleetEnrollment` only:
`FleetGovernance` keeps its trail for ever, so `TrailIsTrue` is about a trail
retention has not reached. `INSERT OR REPLACE` keeps one row per baseline id;
`approved` remembers every row there ever was, so that an approval a later write
replaced is not forgotten by the property about the latest one.
A stamp is read when the arguments of a statement are evaluated, before its
lock. `via`, `from`, `req`, `review`, `after`, `open`, `approved` and the variables marked
"history" are read by no code; they let properties say which request wrote a
row and what it could have known.

**BackupRestore.** A database is pages beside an optional rollback journal; a
transaction copies the old pages into the journal before it writes. SQLite's
default journal mode is assumed, as nothing sets another, so there is no `-wal`;
the journal is not among the files a backup archives. The backup reads page by
page while the server does as it likes. The archive carries digests of the
members its manifest declares; restore compares those, empties the target and
writes every member page by page, so an archive whose manifest declares nothing
of the database is written unverified (`trusted` remembers whether that ever
happened). Neither command asks whether a server runs,
and neither does the model: transactions go on during both, and a server may be
started in the middle of a restore. The server and both commands die anywhere,
the archive is damaged in its members, stream, manifest or declarations, the
database is lost with or without its journal. A commit the server makes into a
file that is being replaced goes where SQLite would write it. An archive whose
declarations were damaged stands for nothing. What a restore can
promise is said by `promised`: nothing, unless the server was down from its
first write to its last; `clear`, if no journal was left beside the file; `saves`,
the state of the database, if nobody wrote to it as it was backed up. What
happens where one of the three is missing is in section 6 (`torn_backup`,
`PlacesTheArchive`).

**Watch.** Editors start and end saves and delete files at any moment, also
between two reads of one poll and during a scan. Reading takes no time. Two
saves of one file are more than a poll apart: closer ones can be half-written
at every poll and be taken for settled.

**ProbeEngine.** Threads take probes from a queue; `run_all` waits for the
futures in order, each with its own timeout. A probe returns, raises, calls
`sys.exit`, or goes on past its timeout and keeps its thread.

**Commands.** Every command but `check` is one step: it reads its input, and
what it says is a function of that. The input is a variable, chosen from a small
set that is given in `MCCommands`; the operators of the instanced modules are
the algorithms of the code, and the properties compare their answers with a
reference definition or with each other. `check` is a walk over layers, one
file per step. The modules are kept apart from `Commands` by component, and
each ends with the part of the property that is about it.

`check` names a layer beside a finding (`blamed`). Whether that layer is the
cause is asked by counterfactuals: the findings of the same machine had the
layer, or one it overrides, stated another range. The files of `MCContents` may
state a range, list bad versions, or both.

`GateCommands` has a repository as five trees (where the branch left its base,
the tip of the base, the branch, the index, the working directory), each a map
from paths to contents. `git status`, the three-dot comparison and `git diff
<base>` are operators on pairs of trees: changes that cancel do not appear, nor
do untracked files where git leaves them out; a file moved as it is appears
under its new name alone. Renames with edits and files git ignores are left out.

Both fleet pages read `snapshot_facts`, a window of the newest `FactsLimit` rows
of all machines (5000 in the code, 2 in the run). A page is compared with
the same page after one more report, and with what it would say of every row
ever stored.

In `Artifacts` an operation on files is the sequence of directories it goes
through, so that it can stop after any of them; HMAC, Fernet and hashes are
one-to-one. `Comparison` leaves out the refusal of snapshots of different schema
versions (`diff/engine.py:116`: nothing is compared) and, of the axes about
containers, all but the engine's daemon. An advisory's `introduced` is assumed to parse (section 6).

## 4. Runs and bounds

| Run | Shows | Bounds |
|---|---|---|
| `bisect_command` | a culprit is implicated, a result minimal, a truthful person reaches a cause, cost bounded, what is printed was found, it ends | diffs of 0 to 17 differences (17 leaves uneven halves at every level), 0 to 7 for minimising, so that chunks and complements alternate at three granularities; all answers; verdict bounds 7 and 200; up to 3 causes. 432 thousand states |
| `mcp_server` | answers recent, fresh where asked, confined; one answer per request, in order; none is left waiting: it is answered, or its scan ended the process | three lines of any of 14 kinds: one that fills the cache, one that hits, refreshes or fails, one after; cache of 2, clock to 3 |
| `snapshot_chain` | overlapping saves and crashes lose and change nothing; quiet histories verify; one accident always shows; an anchored head fixes the past | 3 savers: overlapping and tearing, overlapping with one accident, or one after another with up to 2 accidents, of 8 kinds |
| `fleet_enrollment` | tokens and machines match, identities unique, audit truthful, a snapshot that stays keeps its publication in the trail | 2 workers, 2 organizations, 2 tokens, 2 keys, 3 requests (one publishes, one sets limits, one applies those it read before), 3 days with limits of 0 and 1. 2.0 million states |
| `fleet_governance` | authority, the latest approval, the trail, the end and the life of exceptions | 2 workers, an administrator and a maintainer, 2 documents, 3 requests of five kinds: two overlap and a third saw them answered, or one that was stamped first writes last. 3.0 million states |
| `watch` | scans only of settled changes, each once, complete; nothing missed | 2 files, 3 edits, interval 2, quiet period 3, saves of up to 2: a save spans a poll, and edits fall into a scan. 490 thousand states |
| `backup_restore` | only the server's bytes get in; a restore nobody disturbs brings back what an undisturbed backup saved | 2 pages, so that a transaction, a copy and a restore can each be half done; 1 transaction and 3 faults, so that each of the three is cut short in one run: a restore that dies, is tried again and is followed by a crash. The server writes and is started during all of it. 10.5 million states, over two and a half minutes |
| `probe_engine` | every probe in the report, no timeout before its time, the scan ends | 3 probes, two with one id; pools of 1 to 3; timeout of 2 ticks: more probes than threads, and as many. 186 thousand states |
| `drift_history` | a snapshot per interval, no more, through clock jumps; the timeline replays | 2 monitors, 2 changes, 3 files of which 2 are read, interval 3, time to 6. 1.2 million states |
| `commands` | the answers of every command (below) | up to 4 policy files in every graph with limits 2 and 3; for the others the input sets of `MCCommands`, built to hold each boundary; fleet pages read 2 rows of up to 3. 446 thousand states, two minutes |
| `drift_reversed`, `torn_backup` | violations, section 6 | the instance of `drift_history` with a shorter interval; that of `backup_restore` without faults |

The properties of `commands` are conjunctions, named part by part in
`Commands.tla`: `PolicyIsComposed` and `CheckCommandEnds` (the walk over
layers), `VerdictsAreTruthful` (what `check` and a scan tell, of versions,
engine, host, PATH, checkout and needs), `RangesMeanWhatTheySay` (the order,
ranges, advisories, monorepos and lockfiles), `RemediesAreSound` (plan,
execution, rehearsal, recipe), `GateIsConsistent` (agents and guard),
`ComparisonIsTrue` (diff, baseline, CI, artefacts), `NumbersAreHonest`.

Constants whose name begins with `Max` are bounds of the checking, except
`MaxDepths`, which varies the code's limit. Symmetry is used over savers,
workers, documents, pages and monitors, in runs without liveness properties.
Deadlock is not checked: each of these programs ends (a search or a command
returns, stdin closes, a scan is over) or its bounded environment does.

## 5. Fairness

* `BisectCommand`: weak fairness of its next step. A question that was asked is
  answered and the search goes on; the code is a sequential loop, and a person
  who gives up ends it from outside.
* `McpServer`: a scan returns, raises or exits. It runs in the server's own thread.
  Nothing is assumed of clients.
* `Watch`: the loop polls when its sleep is over, time passes, and a save that
  began ends. Without the last an editor could hold a file half-written for
  ever, and nothing should be reported then.
* `ProbeEngine`: the thread pool runs what it can. Probes need not end:
  `ScanEnds` says the scan does *if* they do, and `TimeoutsBoundTheWait` that
  collecting results does in any case.
* `Commands`: `check` goes on, being sequential.

All other properties are safety properties and hold without fairness.

## 6. Where code and documentation disagree

Two of these are runs that TLC must find violated:

| Run | The repository says | The run shows |
|---|---|---|
| `drift_reversed` | "Build a drift timeline from oldest->newest" (`drift/timeline.py:56`) | `drift` hands over the newest first (`cli/commands/snapshots.py:157`): an upgrade is told as a downgrade |
| `torn_backup` | "can never replace a working database" (`server/backup.py:4`) | a copy read half before and half after a transaction verifies (`:53`), and replaces one |

The others were met while modelling. The modules model what the code does, and
where a statement of the repository can be written as a formula it is beside
the properties, unchecked, with a comment that says how it fails; its name is
given in parentheses. TLC refutes those in bold when they are put in the place of
the properties of their module's run, with the constants given, if any.

Concurrency and state:

* "single-use" (`server/db.py:257`), but two processes read a token before either
  spends it (`:258`), and it mints two machines (**`TokensAreSingleUse`**).
* "Fetch the latest approved baseline" (`server/openapi.py:39`): an approval
  stamped first and written last replaces a newer row of its id (`db.py:452`),
  and one from before that is fetched (**`LatestApprovedIsFetched`**, with
  `MaxClock = 0`).
* "place its database at *target_db*" (`backup.py:84`): a journal left beside the
  target is played into it (`:162`; **`PlacesTheArchive`**, with 2 transactions and
  1 fault).
* An archive "whose manifest does not verify byte-for-byte" is refused
  (`backup.py:87`), but what the manifest does not declare is not verified
  (`:143`) and written (`:162`; **`CorruptNeverReplaces`**).
* "a crash must not take the server down" (`mcp/stdio.py:85`): a probe that calls
  `sys.exit` does, as `SystemExit` is no `Exception` (**`SurvivesEveryScan`**).
* `max_verdicts` is tested once per round of `minimise`, which then asks every
  question it has (`bisect.py:199` and `233`; `VerdictsAreBounded`), and what was
  set below is not printed (`reproduction.py:381`; `SetBelowIsShown`).
* A notification whose scan raises is answered (`mcp/stdio.py:85`;
  `NotificationsAreSilent`); the report cache has one slot for all projects
  (`protocol.py:130`; `AnswersAreAboutTheProjectAsked`).
* Two overlapping saves produce "a record was removed or reordered"
  (`chain.py:175`, `255`; `AccusationsAreTrue`); half a line makes the chain
  unreadable (`chain.py:166`, `196`; `CrashLeavesShortChain`). A record deleted
  at the end of the chain together with its file cannot be seen.
* One machine key in two organizations files a publication under the other
  (`api.py:109`; `SnapshotsStayInTheirOrg`).
* An organization may be given a trail shorter than its snapshots' life: a
  snapshot then outlives the record of its publication.
* A probe that was given up leaves an error and no finding, so the exit code
  may say READY (`probes/base.py:155`, `178`; `TimeoutsBecomeFindings`).
* `write_bytes` over an existing archive is not atomic (`backup.py:50`): a backup
  that dies leaves neither the old archive nor a new one.
* A vault that is not named `.vault` is opened over itself and then unlinked
  (`vault.py:92`; `AnyVaultOpensAt`).
* A policy that exists cannot be put again: the INSERT violates its own
  uniqueness and the answer is a 500 (`db.py:476`).

Policies, gates and numbers:

* A finding is attributed "only when the policy is what caused it"
  (`diagnostics.py:50`), but a known-bad version is said to be required by the
  layer that states the range (`:66`), not by the one that lists it
  (**`KnownBadIsAttributed`**).
* The fallback keeps `guard` from "passing silently" (`contract.py:161`), but where
  the base is absent it fails too (`:165`), and a changed policy is READY
  (**`NothingPassesSilently`**).
* "have never reported READY" (`analytics.py:103`) counts a machine whose READY
  snapshot is not among the newest 5000 (`db.py:373`;
  **`NeverMeansNever`**, with `FactsLimit = 1`); "Reported
  rather than dropped" (`analytics.py:193`) leaves a machine without a row among
  those out of both numbers (`api.py:230`;
  **`EveryMachineIsCounted`**, with `FactsLimit = 1`).
* Of two installations of a tool `diff` compares the shadowed one
  (`engine.py:141`), and a change of the one that runs is missed
  (**`ActiveDriftIsShown`**).
* "Nearest layer wins outright", but the first of the parsed layers is taken
  (`compose.py:271`); where the manifest and a layer both state a range, a
  finding about the manifest's is attributed to the layer (`diagnostics.py:66`),
  and where only the manifest does, a known-bad version is attributed to nobody;
  `guard` does not follow `extends`.
* Two manifests of the root count as one nested in the other, and two of one
  other directory are never compared, whatever they say (`monorepo.py:237`).
* `fix` exits READY with failed steps and never asks the precondition
  (`planner.py:162`).
* A production kubectl context does not close the agent gate (`gate.py:155`);
  the declared limit read last hides a tighter one; only the first command per
  program is run (`EachCommandIsRunAt`).
* `<16` accepts 16.x and tags sort after releases (`versioning.py:15`);
  `>=13 <16` counts as its first number.
* "newly_failing" counts machines that were failing already; an unparsable
  version passes a simulation; an onboarding that began READY is dropped.
* `baseline create` writes every dependency as a tool; `monorepo` and `doctor`
  disagree on which lockfiles exist; recipes install only pip and go packages
  (`LockedProjectsInstallAt`); `_ranges_overlap` samples (`ConflictsAreRealAt`).

What a scan reads:

* Framework requirements are detected (`cli/pipeline.py:80-87`) and not given to
  the rules (`:165`), so no scan tells what its pack would (`ScanTellsFrameworksAt`);
  Django with extras is not read (`EveryDjangoIsReadAt`).
* A Dependabot file "too exotic" is a gap and not unknown (`botpins.py:104`;
  `ExoticFilesAreUnknownAt`); `pins --json` exits READY over an unwatched pin
  (`JsonExitsAlikeAt`).
* Named CI steps lose their version, and a block axis after `include` is lost
  (`EveryStepIsReadAt`, `TestedVersionsMatchAt`).
* The first mount of a directory decides instead of the topmost
  (`TopMountDecidesAt`); the owner of a port is parsed only as Windows prints it
  (`BusyPortsAreToldAt`); ports held by the project's own services block it; a
  sparse checkout is not told (`SparseIsToldAt`); two services with one port are
  one (`EveryServiceIsProbedAt`).
* `.gitignore` is matched by prefix (`IgnoredMeansIgnoredAt`); a template with
  names like secrets is critical (`TemplatesAreFineAt`); fallback versions are
  mismatches (`FallbacksAreFineAt`).
* Moving the shims first does not silence their finding, an alias is told
  though the installation precedes it, commented lines count
  (`MovingShimsHelpsBothAt`, `AliasPrecedesAt`, `CommentsChangeNothingAt`).
* The fields added by a migration have no class (`protocol.py:42`;
  `AdditionsAreClassifiedAt`); `attest --kind reproduction` says reproduced
  without trying (`compliance.py:78`; `ReproductionWasRunAt`); an unparsable
  `introduced` raises out of a scan (`advisories.py:325`, comment at 316).

## 7. Proofs

TLC checks small instances; the theorems hold for every value of the constants,
under the `ASSUME`s of the modules, which are about constants only: accounts
have roles, tokens belong to organizations, limits are natural numbers, the
values that stand for "nothing" are not contents, the watched files are finitely
many, like the policy files, a client's lines have one of the shapes `json.loads`
can produce, and the inputs of commands have the shapes their parsers return.

**LongRunningProofs, the searches.** All five invariants of the command's run, for every list of
differences, every sequence of answers and every `--max-verdicts`.
`CulpritIsImplicated` speaks about the end of the search and is not inductive.
The strengthening (`Bracketed`) says that throughout the halving the trail holds
two verdicts: `lower` passes, and `lower` with all of `remaining` fails; with one
dimension remaining that is the property. No question is asked twice because a
candidate asked about before is no longer than `lower` or at least as long as
`lower` with `remaining`, and the next one lies strictly between. The logarithm
is the account 2^(halvings) * (Len(remaining) - 1) < n.

Of the minimisation, `Held` says that the current list was answered to fail and
`Tried` what the round has asked so far. At granularity n the chunks are the
single dimensions and their complements leave one out, so a search that ends
there is 1-minimal. `Spent` bounds the cost by a potential: `Left(m, g)` is what a
search can still ask that starts a round over m dimensions at granularity g, and
what was asked before the round plus `Left` never exceeds 2n^2. A round that finds
a failing chunk, one that finds a failing complement and one that finds nothing
each lower it by at least what they asked; the bound is for inconsistent answers
too. A truthful minimisation ends with exactly the causes because the result
contains them and a member left out without harm is none of them.

**Counting.** The library's induction rules take an operator, which cannot be
instantiated here. `Counting` proves induction for sets instead, from the
well-foundedness of inclusion of finite sets, and that a function may be defined
by recursion on its argument. `PowerOfTwo`, the loops of `Leaving` and of `_merge`
and the distances in a policy get their values from it. In the same way a finite
set of numbers has a least one, numbers can be sorted (`SortingExists`), and the
folds and sums of the community modules have the values their loops compute.

**AnswersProofs, the MCP server.** `McpAnswersAreSound` and
`McpRequestsAnsweredInOrder`, for any lines, root and cache time. Reports that were sent are sound because the one
in the cache is (`CacheIsHonest`: it was observed after the moment it is stamped
with, since the clock is read before the scan) and because the request that is
being scanned for is the last line that was read (`ScanIsForLast`). Order and
exactly-one follow from the same fact: the output never runs ahead of it, and a
scan that ends the process leaves only its own line unanswered.

**HistoryProofs, the chain.** All three invariants of the run, for any number of
savers and any scenario. However savers overlap, a line that can be parsed tells
the truth about a whole file, and a save that ended has such a line unless one is
torn. Where they do not overlap, the entry a saver planned is still the next one
when it is written (`PlansAreCurrent`), so the chain stays linked; with overlap
that conjunct is what fails, and section 6 says what follows. Those facts are
about histories nobody touched. In any history every line is torn or an entry
(`ChainTyped`), the ones of a chain rebuilt from scratch by induction over its
recursion. `ChainTamperIsEvident` has two halves. An accident leaves a scar
(`Scarred`): a number that is not its place, a digest that is not the entry's, a
file that is not the recorded one, or a file that nobody will record. No save
repairs a scar, because it appends and writes under its own name only
(`Ended`: whoever is recorded has finished). That a swap leaves one even where
overlapping saves had spoilt the numbers rests on `Numbered`: a number is never
larger than its place. The other half, `HeadsDetermine`, goes down two chains
that verify from one head: equal digests mean equal entries, and equal entries
equal digests before them. SHA-256 is taken to be injective; torn lines are
excluded, since a chain with one is unreadable and says so.

**HistoryProofs, monitors and timeline.** `MonitorStaysSteady`, for any number of
monitors and any moves of the clock. `ClocksAgree` says that a snapshot's true age
exceeds the age its stamp shows by no more than the clock was moved back, which
turns a refusal to save into a snapshot that is young enough. `BudgetIsKept`
strengthens the budget: in an interval that has seen a snapshot and still runs,
the snapshots and the monitors about to save are together no more than the
monitors there are, because nobody decides to save while it runs.
`TimelineIsReplayed` follows by induction over the snapshots: at each, a tool has
either one event, which names its version, or none, and then it has the version
it had before.

**LongRunningProofs, the watcher.** `WatchScansAreSettled` and the action property
`WatchChangesAreComplete`, for any files, edits and interval and any quiet
period longer than a save. That a settled baseline holds no half-written file
rests on time (`Settling`): while a change waits, a file seen half-written is
still in that save, for which the quiet period cannot have run out, or it is
whole and will be read so by the next poll. That scans do not outnumber edits is
an account (`Paid`): an edit pays for the file it moves, the poll that reads it
carries that over, and the change that is noted spends it on a scan. That
nothing is left out is `NothingUnnamed`: what separates the baseline from the
last report is named in the pending change.

**FleetServerProofs, the tables.** `FleetTypeCorrect`, `FleetTokensMatchMachines`,
`FleetIdentitiesAreUnique`, `FleetAuditIsTruthful` and the action property
`FleetPublicationsStayOnRecord`, for any number of workers, organizations, tokens, keys
and requests. The invariant adds two facts to the properties: `JobsAreBacked` (a
request that has a machine in hand names an existing row, in an enrollment the
one its token minted) and `MintedInOrg` (a token mints in its own organization).
Without the first, an audit event could name a row that does not exist; without
the second, one of another organization. `FleetPublicationsStayOnRecord` is about
limits that are read before they are used: the two cutoffs were computed from the
limits of one moment, so the one of the trail is not the later; an event that goes
is of a snapshot no younger than itself and of the same organization, which goes
with it. The premise is that no organization is given a trail shorter than its
snapshots' life.
`FleetTokensAreSingleUse` adds the
assumption that there is one worker; its invariant says that the token of a
request about to spend it is unspent, which only another worker could change.

**FleetServerProofs, the database.** `DatabaseStaysSound` and `RestoresRoundTrip`, for any
number of pages, transactions and faults. The server is free during
backups and restores. That a restore writes only good bytes
rests on the digests of an archive being those of the bytes that were read,
whatever is done to its members later, and on the archive having been verified
before the target was opened (`RestoreIsVerified`). `BytesAreWritten` says so of
the file, the journal, the copy, the digests and the archive being restored at
once, while every archive restored so far declared what it holds (`trusted`). That
what is restored is what was saved rests on a backup nobody disturbed having
read the file as it is (`BackupIsFaithful`), and on a server that was down when
the restore began being unable to disturb it without being opened (`alone`). A
journal that was not there when the restore ended is of a later transaction, and
undoes what that did and nothing else (`JournalIsFresh`).

**LongRunningProofs, governance.** All five properties of the run, for any number of
workers, accounts, projects and requests. `Well` says which fields a request in
progress has and that a review names an exception that exists; three lemmas say
how a step moves the requests, and from then on no proof looks inside a job.
`AuthorityStands` adds that a request past `require_role` was sent before its
account was revoked, and one past `may_administer_project` is of somebody
entitled - which stays so because a project's last member row is never
removed. `LaterApprovalsStand` is about every row there ever was. A row is younger
than all whose answers its request knew, because it stamps after it was sent
(`Order`); that settles rows that are still there. A row that was replaced is
followed up (`Succeeded`): the one of its id and project that is there now is
younger, or was stamped earlier and written later by a request that overlapped
it (`Apart`), and then the property names it.
`TrailStaysTrue` adds that a worker about to record an effect finds it as it
left it: a reviewed exception and a stored policy never change again.
`ExceptionsHaveALife` is the refinement: every step maps to a step of
`ExceptionLife` or to none. `ExceptionsAreOver` needs only that no handler moves
`expires` and that the clock goes on.

**CheckProofs, the scan.** `ProbeReportIsComplete` and the action property
`ProbeTimeoutsAreDeserved`, for any probes under any ids, any pool and timeout.
`run_all` works through the futures in order, so the results before the one it
waits for are those of the last probes of their ids so far (`ReportedSoFar`),
and they stay so because a result that was taken is of a probe that is over. A
probe that was running when its turn came has aged by every tick of the wait.

**CheckProofs, the policy.** `PolicyIsComposedAlways`, for any finite set of
files, whatever extends whatever, and any depth limit, and
`CheckIsTruthfulAlways`. That the walk visits files in the order of their distance
cannot be said while it goes on: links that were not read yet could still bring
a file nearer. What holds throughout (`Walk`) is that every layer has a depth,
which grows along the layers and on into the frontier and spans at most one more
there; that a file is within as many links as its depth; and that whatever a
layer extends is a layer, or waits, at most one deeper. With an empty frontier
the last fact is closed under links, so by induction over the distance a depth
is one (`WalkEnds`): the layers are all that can be reached, and a layer in front
is never farther. A depth is below the limit because a deeper file is refused,
and below the number of layers, so `Within` is complete at the number of files.
`ProvenanceIsRecorded` is the loop of `_merge`, by induction over the layers.
`CheckIsTruthfulAlways` says of a finding that names a layer what the findings
would have been had that layer, or one it overrides, stated another range. The
named layer is the first that states one (`OwnerIsFirst`), so restating it moves
the merged policy (`RestatedIsMerged`) and a range the machine meets leaves no
mismatch, while an overridden layer restated leaves the policy, and so the
mismatch, as it was (`MismatchIsFound`).
These theorems are about `CheckSpec`; the run takes the same steps inside
`Commands`, beside the commands that answer at once, and `CommandsRefineCheck`
says that what holds of the one holds of the other.

**CommandsProofs.** `RangesMeanWhatTheySayAlways`, for any versions, ranges,
advisories, manifests and lockfiles: any number of components, any tags, any
bounds. The definitions compare two versions up to the longer of them, and how
far that is depends on the pair, so transitivity cannot be read off them.
`Before` compares numbers that go on as zeros for ever; that it says the same
(`LessIsBefore`) is where padding is needed: `Version.__lt__`, which does not
pad, orders differently (`LessUnpadded`). Totality is the first place where two
versions differ, and two without one are the same up to trailing zeros
(`OrderIsTotalAlways`). Each clause then accepts an interval of that order and a
group the intersection of its clauses' (`RangesAreConvexAlways`); a partial
clause stands for the version filled up with zeros, which is the same version
(`ReleaseIsSame`, `ClausesMeanWhatTheySayAlways`); and a published floor is one
lower bound, so a newer package manager reads what an older one could
(`FloorsAreBounds`). Advisories compare by the unpadded order, of which
transitivity and irreflexivity are enough (`FixesHoldAlways`). That a
monorepo's conflicts do not depend on the order of the walk is the symmetry of
`Conflict`. The assumptions say that the versions given to a command were parsed
(a list of at least one number and a tag), that a lockfile is of a tool the
table names, and that the three ways of having no version are different.

`NumbersAreHonestAlways`, for any durations, dates, rows, policies and attempts,
with any minimum cohort and sample and any limit on the rows that are read. `sorted` is an ascending sequence with as many
up to each duration, which exists (`SortingExists`); the place that the nearest
rank names is in it, what comes before it is shorter or as long, and what is
shorter comes before it (`PlaceCounts`). The first date of a machine is the least
of its stamps, so a later one changes nothing (`FirstReadyIs`) - as long as the
window holds every row. The window is the newest rows (`FactsAre`): of fewer
stamps the least is no smaller, and the latest row of a machine in it is the
latest of all (`LatestOfFacts`). So a machine can look slower or stuck, or fall
out of a simulation, and none looks faster or newly fails. In the simulation
each machine has one latest row (`LatestRowsAre`), the causes are counted as pairs
of a tool and a machine (`PairsByTool`), and of a row and the same row unread, both
in front of one window (`FactsOfMore`), the second fails only where the first does. The rate is kept between two linear bounds
(`RatesAre`), which one attempt more moves by less than a thousandth
(`RateFollows`); how the floating-point quotient breaks a tie between two
thousandths is left open, and the theorem holds for every way of doing it. The
assumptions say that durations, dates and counts are numbers, that at least one
row is read, that an inventory
says something of every tool a policy names, and that "no value" is not a number
of attempts and not an unreadable version.

**AnswersProofs, agents and guard.** `GateIsConsistentAlways`, for any repositories,
manifests, shells, sandboxes and reports. The loop that reads a command line keeps
a directory, and what it reads after a `cd` depends on that directory alone
(`LineIsParsed`), so a line means there what it means in the line. A repair takes
complaints away and adds none (`EveryRepairMends`), each complaint has a price, and
a score that loses fewer points is no lower; the grade and the gate are read off
the same score. The highest severity and the tightest limit are a greatest and a
least element (`HighestIs`, `EffectiveIsTightest`); more reach is a superset. Of guard: the prefixes that are looked at grow
with the kinds of change; a finding blocks the changed scope only if it is one of
the machine's (`GatesAgree`); and a diff names each path that differs, except one
whose file has moved as it is, and that one's new place is named
(`DiffIsComplete`). From this follows `ScopeIsSafe`: each contract file that differs
between the trees that are to be compared is of a kind that is looked at, or was
moved to a place that is - and with a base no kind is looked at none of whose files
differ. The assumptions (`GuardedAssumption`, `ShellsAssumption`,
`RepositoriesAssumption`) say that trees have the same paths, what was counted is a
number, and a directory is the sequence of its names.

**RemediesProofs.** `RemediesAreSoundAlways`, for any plans, graphs of steps and
projects. A plan without duplicates is sorted into a permutation of itself
(`SortingKeepsThePlan`), so nothing is lost and nothing doubled; each step of it
leaves one result. The depth-first visit of a graph keeps that whatever it has
listed comes after what it needs, and that the path it is on is a path of needs;
meeting that path again is a cycle (`VisitHolds`). An order it returns holds every
step (`OrdersAreAsLong`) and so proves there is none (`OrdersHaveNoCycle`). A rehearsal
goes down that order and holds back exactly what stands behind something
unconfirmed (`RehearsalRunsWhatItMay`). A score is a sum over what is declared, which
only grows; and where a project states a runtime, the base image of its recipe is
of the first statement that can be used (`BaseIsAsDeclared`). The assumptions say that a step is numbered, that it has one of
four risks, and that a project declares each ecosystem once.

Only model-checked: `ComparisonIsTrue` and `VerdictsAreTruthful`, the latter except
for the part that `check` decides. They are about operators of an input and not
about steps, and their folds and searches would each need an induction of their
own. Out of the prover's reach is liveness under fairness (`CommandConverges`,
`RequestsAreSettled`, `NothingIsMissed`, `TimeoutsBoundTheWait`, `ScanEnds`,
`CheckCommandEnds`).

## 8. Not modelled, and why

* Rendering: reports, exporters, generators, recipe and SLSA text, the draft
  manifests and token counts of agents, licences, the CSV roll-up, the OpenAPI
  document. They build text from an immutable value.
* The privacy gate is a statement about strings and regular expressions.
* Patterns that pick an answer out of a command's output: what the output says
  is the input of the models.
* Argument parsing and printing; the local web server, which serves files and
  one report; plugins, which are third-party code; extensions, packaging and
  scripts, which are outside the program.
* In `HostProbes` and the rule packs, probes and rules that restate a single
  reading (a table of independent predicates).
* In the fleet server, rows that are inserted and listed and never change:
  organizations, users, webhooks and their delivery; the rate and trend
  summaries of analytics.
* The file systems' own ordering of writes: a crash keeps what was written.

## 9. Plan

What a next extension would take, in order of weight:

1. Theorems about comparisons and about what a scan concludes
   (`ComparisonIsTrue`, `VerdictsAreTruthful`).
2. An append-only log as an abstract specification of `SnapshotChain` with
   sequential savers, and a token registry for `FleetEnrollment` with one
   worker.
3. The SQLite journal in WAL mode, webhooks with their retries, and the axes of
   a comparison that are left out.
