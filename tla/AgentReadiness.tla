------------------------- MODULE AgentReadiness -------------------------
(***************************************************************************)
(* `devrepro agent-check`: the commands the manifests of a repository      *)
(* declare are parsed, resolved on this machine and compared with the CI,  *)
(* with the targets of the project and with each other                     *)
(* (agents/manifest.py, agents/freshness.py, cli/commands/agents.py), and  *)
(* what is found is scored (agents/score.py) and stands before an agent    *)
(* session as a gate (agents/gate.py).                                     *)
(*                                                                         *)
(* A command is [program, args]; a line is the commands `&&` chains; a     *)
(* manifest is a sequence of lines.  A machine is [path, modules, files,   *)
(* targets]: the programs on PATH, those that can be imported, the paths   *)
(* that exist in the repository, and for each directory the targets its    *)
(* build file defines.  Args are sequences of tokens without flags.        *)
(*                                                                         *)
(* What an agent started here could reach (agents/blast_radius.py), what   *)
(* the gate makes of it (agents/gate.py), and how the box it is given      *)
(* differs from the machine the project was tested on (agents/sandbox.py). *)
(*                                                                         *)
(* A shell is [git, changed, upstream, unpushed, credentials, target,      *)
(* cluster, stores, root]: whether `git status` and the upstream branch    *)
(* answer, how much work is uncommitted and unpushed, the credential-      *)
(* shaped variables, whether a variable names a production target, the     *)
(* kubectl context (None, "dev" or "prod"), the credential stores on disk  *)
(* and whether this is root.                                               *)
(***************************************************************************)
EXTENDS Integers, FiniteSets, Sequences, SequencesExt

CONSTANTS
  None,
  Paths,      \* programs written as a path
  Runners     \* programs whose first argument is a target of the build file

-----------------------------------------------------------------------------
(* What an agent started here could reach. *)

Exposure(kind, severity) == [kind |-> kind, severity |-> severity]

ManyChanges     == 20
FewCredentials  == 3

When(condition, exposure) == IF condition THEN {exposure} ELSE {}

(* _git_state: a repository git does not answer for has nothing to lose,   *)
(* and neither has a branch without an upstream.                           *)
GitState(s) ==
  When(s.git /\ s.changed > 0,
       Exposure("uncommitted-work", IF s.changed < ManyChanges THEN "medium" ELSE "high"))
  \cup When(s.git /\ s.upstream /\ s.unpushed > 0, Exposure("unpushed-commits", "medium"))

ProductionExposure(s) ==
  When(s.target, Exposure("production-target", "high"))
  \cup When(s.cluster # None,
            Exposure("kubernetes-context", IF s.cluster = "prod" THEN "high" ELSE "info"))

(* assess_blast_radius *)
Exposures(s) ==
  GitState(s)
  \cup When(s.credentials > 0,
            Exposure("inherited-credentials",
                     IF s.credentials > FewCredentials THEN "high" ELSE "medium"))
  \cup ProductionExposure(s)
  \cup When(s.stores > 0, Exposure("ambient-credentials", "medium"))
  \cup When(s.root, Exposure("elevated-privileges", "high"))

Severities == <<"none", "info", "medium", "high">>

(* highest_severity, as its place in Severities. *)
HighestSeverity(s) ==
  LET found == {e.severity : e \in Exposures(s)}
  IN CASE "high" \in found -> 4
       [] "high" \notin found /\ "medium" \in found -> 3
       [] found = {"info"} -> 2
       [] OTHER -> 1

(* What evaluate_gate looks for: kinds that have "production" in them.     *)
production(s) == \E e \in Exposures(s) : e.kind = "production-target"

-----------------------------------------------------------------------------

(* Memory and cores are numbers of equal parts; 0 and None are unknown.    *)
Known(n) == n # None /\ n # 0

MinusUnknown(a, b) == IF Known(a) /\ a < b THEN a ELSE b

(* The loop over the declarations: the tightest limit counts. *)
Effective(engine, declared, key) ==
  FoldLeft(LAMBDA acc, limit : IF limit[key] = None THEN acc ELSE MinusUnknown(acc, limit[key]),
           engine, declared)

(* compare_limits, with TIGHT_MEMORY_RATIO 1/4. *)
compare_limits(host, engine, declared, needsNetwork) ==
  LET memory == Effective(engine.memory, declared, "memory")
      cpus   == Effective(engine.cpus, declared, "cpus")
  IN When(Known(host.memory) /\ Known(memory) /\ 4 * memory < host.memory, "memory")
     \cup When(Known(host.cpus) /\ Known(cpus) /\ cpus < host.cpus, "cpu")
     \cup When(needsNetwork /\ \E i \in 1..Len(declared) : declared[i].offline, "network")

-----------------------------------------------------------------------------

(* A shell that can reach more. *)
Worse(s) ==
  { [s EXCEPT !.changed = @ + 1], [s EXCEPT !.unpushed = @ + 1],
    [s EXCEPT !.credentials = @ + 1], [s EXCEPT !.target = TRUE],
    [s EXCEPT !.cluster = IF @ = None THEN "dev" ELSE "prod"],
    [s EXCEPT !.stores = @ + 1], [s EXCEPT !.root = TRUE] }

(* A shell that can reach more is never described as less dangerous, no    *)
(* exposure of it disappears, and what the gate calls production is always *)
(* shown as severe (agents/blast_radius.py, highest_severity).             *)
BriefingIsMonotoneAt(s) ==
  /\ \A w \in Worse(s) :
       /\ HighestSeverity(w) >= HighestSeverity(s)
       /\ {e.kind : e \in Exposures(s)} \subseteq {e.kind : e \in Exposures(w)}
       /\ production(s) => production(w)
  /\ production(s) => HighestSeverity(s) = 4

(* What the sandbox is said to lack does not depend on the order the files *)
(* are read in, one more declaration never withdraws it, and a machine     *)
(* nothing is known about is accused of nothing: "a missing host memory    *)
(* figure is not evidence that the sandbox is small" (sandbox.py:222).     *)
(* Held where no declaration says 0: a 0 read last hides a tighter limit   *)
(* (README, section 6).                                                    *)
SandboxIsComparedAt(host, engine, declared, needsNetwork) ==
  LET found == compare_limits(host, engine, declared, needsNetwork)
  IN /\ compare_limits(host, engine, Reverse(declared), needsNetwork) = found
     /\ declared # <<>> => compare_limits(host, engine, Tail(declared), needsNetwork) \subseteq found
     /\ ~Known(host.memory) => "memory" \notin found
     /\ ~Known(host.cpus) => "cpu" \notin found

-----------------------------------------------------------------------------
(* The score and the gate.  The signals: how many manifests there are, the *)
(* states the checks of the declared commands came to, whether one of them *)
(* is a real command (not `cd` or `echo`), and whether a gate of the CI is *)
(* not mentioned, a target is stale and two manifests disagree.            *)

Earned(s) ==
  [ present  |-> IF s.manifests > 0 THEN 3 ELSE 0,
    declared |-> IF s.runnable THEN 2 ELSE 0,
    resolve  |-> CASE ~s.runnable -> 0
                   [] s.runnable /\ "missing" \in s.checks -> 0
                   [] s.runnable /\ "missing" \notin s.checks /\ "not-on-path" \in s.checks -> 2
                   [] OTHER -> 4,
    current  |-> IF s.stale THEN 0 ELSE 3,
    ci       |-> IF s.drift THEN 0 ELSE 3,
    agree    |-> IF s.manifests >= 2 /\ s.disagree THEN 0 ELSE 2 ]

Possible == 17

total(s) ==
  LET e == Earned(s) IN e.present + e.declared + e.resolve + e.current + e.ci + e.agree

(* round(100 * total / 17): a half does not occur. *)
percent(s) == (200 * total(s) + Possible) \div (2 * Possible)

grade(s) ==
  CASE percent(s) >= 90 -> "ready"
    [] percent(s) \in 60..89 -> "workable"
    [] percent(s) \in 30..59 -> "rough"
    [] OTHER -> "unprepared"

DEFAULT_THRESHOLD == 60

(* evaluate_gate with block_on_production: the session may touch production. *)
Allowed(s, touches, threshold) == percent(s) >= threshold /\ ~touches

-----------------------------------------------------------------------------
ShellBuiltins == {"cd", "echo", "true", "false", "test", "pwd", "exit", ":"}

(* One word of a `cd`: ".." never climbs out of the repository.            *)
Climb(dir, word) ==
  CASE word = "." -> dir
    [] word = ".." -> IF dir = <<>> THEN <<>> ELSE SubSeq(dir, 1, Len(dir) - 1)
    [] OTHER -> Append(dir, word)

(* _apply_cd: a bare or an absolute `cd` leaves the project. *)
apply_cd(dir, args) ==
  IF args = <<>> \/ args[1] = "/" THEN <<>> ELSE FoldLeft(Climb, dir, args)

(* parse_declared_commands: a `cd` scopes to its own line. *)
ParseLine(line) ==
  FoldLeft(LAMBDA acc, c :
             [ cwd  |-> IF c.program = "cd" THEN apply_cd(acc.cwd, c.args) ELSE acc.cwd,
               cmds |-> Append(acc.cmds, [program |-> c.program, args |-> c.args,
                                          cwd |-> acc.cwd]) ],
           [cwd |-> <<>>, cmds |-> <<>>], line).cmds

Parse(manifest) == FlattenSeq([i \in 1..Len(manifest) |-> ParseLine(manifest[i])])

Status(machine, program) ==
  CASE program \in Paths -> IF program \in machine.files THEN "ok" ELSE "path-absent"
    [] program \notin Paths /\ program \in ShellBuiltins -> "shell-builtin"
    [] program \notin Paths \cup ShellBuiltins /\ program \in machine.path -> "ok"
    [] program \notin Paths \cup ShellBuiltins \cup machine.path /\ program \in machine.modules ->
         "not-on-path"
    [] OTHER -> "missing"

(* check_declared_commands: one check for the first command of a program   *)
(* in a manifest; the commands that follow it are passed over.             *)
Checks(machine, commands) ==
  LET first == {i \in 1..Len(commands) :
                  \A j \in 1..(i - 1) : commands[j].program # commands[i].program}
  IN {[command |-> commands[i], status |-> Status(machine, commands[i].program)] : i \in first}

(* _execute, where no command needs a shell. *)
Executed(machine, commands) ==
  {c.command : c \in {x \in Checks(machine, commands) : x.status \in {"ok", "shell-builtin"}}}

(* The key two spellings are compared by: program and first argument.      *)
Key(c) == IF c.args = <<>> THEN <<c.program>> ELSE <<c.program, c.args[1]>>

Keys(commands) == {Key(commands[i]) : i \in 1..Len(commands)}

(* manifest_vs_ci: builtins are plumbing. *)
Drift(declared, ci) ==
  {c \in ci : c.program \notin ShellBuiltins /\ Key(c) \notin declared}

(* stale_commands: a directory that defines no target has nothing to say.  *)
Stale(machine, commands) ==
  {i \in 1..Len(commands) :
     LET c == commands[i]
         known == IF c.cwd \in DOMAIN machine.targets THEN machine.targets[c.cwd] ELSE {}
     IN c.program \in Runners /\ c.args # <<>> /\ known # {} /\ c.args[1] \notin known}

(* What agent_check_cmd gathers before it scores. *)
Signals(manifests, ci, machine) ==
  LET commands  == [i \in 1..Len(manifests) |-> Parse(manifests[i])]
      checks    == UNION {Checks(machine, commands[i]) : i \in 1..Len(manifests)}
      declared  == UNION {Keys(commands[i]) : i \in 1..Len(manifests)}
  IN [ manifests |-> Len(manifests),
       checks    |-> {c.status : c \in checks},
       runnable  |-> \E c \in checks : c.command.program \notin {"cd", "echo"},
       stale     |-> Stale(machine, FlattenSeq(commands)) # {},
       drift     |-> Drift(declared, ci) # {},
       disagree  |-> \E i, j \in 1..Len(manifests) : Keys(commands[i]) # Keys(commands[j]) ]

(* _verdict and _exit_code *)
ExitOf(s) ==
  CASE s.manifests > 0 /\ "missing" \in s.checks -> "BLOCKED"
    [] s.manifests > 0 /\ "missing" \notin s.checks
         /\ (s.checks \cap {"not-on-path", "path-absent"} # {} \/ s.drift) -> "READY_WITH_WARNINGS"
    [] OTHER -> IF s.drift THEN "READY_WITH_WARNINGS" ELSE "READY"

-----------------------------------------------------------------------------

(* Setting right one thing `agent-check` complains about: what is missing  *)
(* is installed, a target that is gone is defined again, and a command the *)
(* CI enforces is told of in every manifest.                               *)
Repairs(manifests, ci, machine) ==
  LET commands == FlattenSeq([i \in 1..Len(manifests) |-> Parse(manifests[i])])
      declared == Keys(commands)
  IN {<<manifests, [machine EXCEPT !.path = @ \cup {commands[i].program}]>> :
        i \in {n \in 1..Len(commands) :
                 Status(machine, commands[n].program) \in {"missing", "not-on-path"}}}
     \cup {<<manifests, [machine EXCEPT !.targets[commands[i].cwd] = @ \cup {commands[i].args[1]}]>> :
             i \in Stale(machine, commands)}
     \cup {<<[i \in 1..Len(manifests) |-> Append(manifests[i], <<c>>)], machine>> :
             c \in {d \in Drift(declared, ci) :
                      /\ Status(machine, d.program) = "ok"
                      /\ d.program \notin Runners}}

Severity(exit) ==
  CASE exit = "READY" -> 0 [] exit = "READY_WITH_WARNINGS" -> 1 [] exit = "BLOCKED" -> 2

Climbs(line) ==
  \E i \in 1..Len(line) :
    /\ line[i].program = "cd"
    /\ line[i].args = <<>> \/ line[i].args[1] = "/" \/ \E n \in DOMAIN line[i].args : line[i].args[n] = ".."

(* The same repository seen from one of its directories. *)
From(dir, machine) ==
  [machine EXCEPT !.targets =
     [d \in {SubSeq(e, Len(dir) + 1, Len(e)) : e \in {x \in DOMAIN @ : IsPrefix(dir, x)}} |->
        machine.targets[dir \o d]]]

(* Setting right what was complained about takes the complaint away, never *)
(* lowers the score, closes the gate or worsens the exit code; without a   *)
(* complaint about the machine, the targets, the CI or another manifest a  *)
(* repository that declares a command scores in full; and a line that is   *)
(* written for a directory is judged there as it is from the root after a  *)
(* `cd` (agents/score.py, agents/freshness.py, agents/manifest.py).        *)
RepairsPayAt(manifests, ci, machine) ==
  LET before == Signals(manifests, ci, machine)
      complaints(ms, m) == Stale(m, FlattenSeq([i \in 1..Len(ms) |-> Parse(ms[i])]))
  IN /\ \A fix \in Repairs(manifests, ci, machine) :
          LET after == Signals(fix[1], ci, fix[2])
          IN /\ percent(after) >= percent(before)
             /\ Severity(ExitOf(after)) <= Severity(ExitOf(before))
             /\ fix[2].targets # machine.targets =>
                  Cardinality(complaints(manifests, fix[2])) < Cardinality(complaints(manifests, machine))
     /\ (before.runnable /\ Repairs(manifests, ci, machine) = {} /\ ~before.drift
           /\ ~(before.manifests > 1 /\ before.disagree)) => percent(before) = 100
     /\ \A i \in 1..Len(manifests) : \A j \in 1..Len(manifests[i]) :
          LET line == manifests[i][j]
              cd   == [program |-> "cd", args |-> <<"web">>]
          IN ~Climbs(line) =>
               Cardinality(Stale(machine, ParseLine(<<cd>> \o line)))
                 = Cardinality(Stale(From(<<"web">>, machine), ParseLine(line)))

(* The gate at its default opens exactly for the grades "workable" and     *)
(* "ready" in a shell that names no production target, and no score opens  *)
(* it in one that does: "a clean, well-documented checkout with production *)
(* credentials is the worst case" (gate.py:82).                            *)
GateIsConsistentAt(s, shell) ==
  Allowed(s, production(shell), DEFAULT_THRESHOLD)
    <=> ~production(shell) /\ grade(s) \in {"workable", "ready"}

(* "execute each resolvable declared command" (cli/commands/agents.py:47). *)
(* False: the second command of a program is passed over (README,          *)
(* section 6).                                                             *)
EachCommandIsRunAt(manifest, machine) ==
  LET commands == Parse(manifest)
  IN \A i \in 1..Len(commands) :
       Status(machine, commands[i].program) = "ok" =>
         commands[i] \in Executed(machine, commands)

=============================================================================
