---------------------------- MODULE GateCommands ----------------------------
(***************************************************************************)
(* The commands that answer with an exit code - `doctor`, `preflight` and  *)
(* `guard` (cli/commands/diagnostics.py) - and the environment contract    *)
(* that decides whether `guard --scope changed` looks at the machine at    *)
(* all (project/contract.py).                                              *)
(*                                                                         *)
(* A finding is [pack, state].  A path is <<kind, name>>, the kind None    *)
(* for an ordinary source file; a tree gives each path what the file holds *)
(* and None where there is none, and no two files of a tree hold the same. *)
(* A repository is                                                         *)
(*   [git     : TRUE when git answers at all,                              *)
(*    compare : "merge-base", "ref" or "nothing", what git can compare to, *)
(*    forked, tip, head, index, work : the trees where the branch left its *)
(*              base, of the base now, of the branch, what is staged, and  *)
(*              the files there are, those git ignores left out].          *)
(*                                                                         *)
(* `devrepro baseline create | diff`: the runtime requirements of a        *)
(* project are written down, and a machine is compared with them           *)
(* (snapshots/baseline.py, cli/commands/project.py).                       *)
(*                                                                         *)
(* A requirement is [name, kind, spec] - the kind "runtime", "tool" or,    *)
(* for a pin of the CI, "ci" - a spec one of Specs, AnyVersion or          *)
(* Garbled.  A machine is [tools, env, docker]: the version of each tool   *)
(* or None, the names in the environment, whether `docker info` answers.   *)
(***************************************************************************)
EXTENDS Integers, FiniteSets, Sequences

CONSTANTS None, AnyVersion, Specs, AcceptedBy

Everything == {None}

Languages == {"python", "node", "go", "rust", "java", "dotnet"}

(* A policy re-opens every question. *)
RELEVANT_PREFIXES ==
  [ policy         |-> {},
    lockfile       |-> Languages \cup {"lockfiles", "php", "ruby", "path"},
    manifest       |-> Languages \cup {"lockfiles", "php", "ruby", "cpp", "path"},
    toolchain_pin  |-> Languages \cup {"lockfiles", "php", "ruby", "path", "shell"},
    ci             |-> Languages \cup {"containers", "network"},
    container      |-> {"containers", "wsl", "virt"},
    env_names      |-> {"env"},
    agent_manifest |-> {"agents", "hygiene", "path"} ]

Kinds == DOMAIN RELEVANT_PREFIXES

-----------------------------------------------------------------------------

Differing(old, new) == {p \in DOMAIN old : old[p] # new[p]}

Moved(old, new, p) ==
  old[p] # None /\ new[p] = None /\ \E q \in DOMAIN old : old[q] = None /\ new[q] = old[p]

(* git diff --name-only: of a file that moved, the path it has now.        *)
DiffNames(old, new) == {p \in Differing(old, new) : ~Moved(old, new, p)}

(* git status --porcelain --untracked-files=all: what is staged, what of   *)
(* it has changed since, and what git does not track.                      *)
StatusNames(repo) == DiffNames(repo.head, repo.index) \cup Differing(repo.index, repo.work)

(* What a diff sees of the working tree: the files git tracks.             *)
TrackedWork(repo) ==
  [p \in DOMAIN repo.work |-> IF repo.index[p] = None THEN None ELSE repo.work[p]]

(* A base that cannot be compared at all is no change.  Without a merge    *)
(* base the working tree is compared with the base as it is now.           *)
changed_files(repo, base) ==
  CASE ~repo.git -> {}
    [] repo.git /\ ~base -> StatusNames(repo)
    [] repo.git /\ base /\ repo.compare = "merge-base" -> DiffNames(repo.forked, repo.head)
    [] repo.git /\ base /\ repo.compare = "ref" -> DiffNames(repo.tip, TrackedWork(repo))
    [] OTHER -> {}

classify_contract_path(path) == path[1]

contract_changes(repo, base) ==
  {classify_contract_path(p) : p \in changed_files(repo, base)} \ {None}

FirstKindOnly(kinds) ==          \* mutant: only one of the changes counts
  IF kinds = {} THEN {} ELSE RELEVANT_PREFIXES[CHOOSE k \in kinds : TRUE]

relevant_rule_prefixes(kinds) ==
  IF \E k \in kinds : RELEVANT_PREFIXES[k] = {} THEN Everything
  ELSE UNION {RELEVANT_PREFIXES[k] : k \in kinds}

Blocking(findings) == {f \in findings : f.state \in {"ERROR", "BLOCKED"}}

Relevant(f, prefixes) == prefixes = Everything \/ f.pack \in prefixes

(* guard: nothing changed is READY without a scan; otherwise the machine   *)
(* is scanned and the findings are narrowed to what the change is about.   *)
guard(findings, scope, kinds) ==
  CASE scope = "machine" -> IF Blocking(findings) # {} THEN "BLOCKED" ELSE "READY"
    [] scope = "changed" /\ kinds = {} -> "READY"
    [] OTHER ->
         IF \E f \in Blocking(findings) : Relevant(f, relevant_rule_prefixes(kinds))
         THEN "BLOCKED" ELSE "READY"

GuardChanged(findings, repo, base) == guard(findings, "changed", contract_changes(repo, base))

-----------------------------------------------------------------------------

(* worst_state, and the verdict `preflight` makes of it. *)
Order == <<"BLOCKED", "ERROR", "WARN", "UNKNOWN", "INFO", "PASS">>

worst_state(findings) ==
  LET states == {f.state : f \in findings}
  IN IF states = {} THEN "PASS"
     ELSE Order[CHOOSE i \in 1..6 :
                  Order[i] \in states /\ \A j \in 1..(i - 1) : Order[j] \notin states]

preflight(findings) ==
  [ PASS |-> "READY", INFO |-> "READY",
    WARN |-> "READY_WITH_WARNINGS", UNKNOWN |-> "READY_WITH_WARNINGS",
    ERROR |-> "BLOCKED", BLOCKED |-> "BLOCKED" ][worst_state(findings)]

(* exit_for, the exit code of `doctor`, `scan` and `check`. *)
doctor(findings) ==
  LET states == {f.state : f \in findings}
  IN IF states \cap {"BLOCKED", "ERROR"} # {} THEN "BLOCKED"
     ELSE IF states \cap {"WARN", "UNKNOWN"} # {} THEN "READY_WITH_WARNINGS"
     ELSE "READY"

-----------------------------------------------------------------------------

(* On one report the gates never contradict each other: `preflight` and    *)
(* `doctor` end alike, `guard` blocks on a machine exactly when they do,   *)
(* and scoped to a change it never blocks where the machine would pass.    *)
GatesAgreeAt(findings, repo, base) ==
  /\ preflight(findings) = doctor(findings)
  /\ guard(findings, "machine", {}) = "BLOCKED" <=> doctor(findings) = "BLOCKED"
  /\ GuardChanged(findings, repo, base) = "BLOCKED" => guard(findings, "machine", {}) = "BLOCKED"

(* The trees that are to be compared: the branch from where it left the    *)
(* base, failing that the tracked files from the base, and without a base  *)
(* the uncommitted work.                                                   *)
Ends(repo, base) ==
  CASE base /\ repo.compare = "merge-base" -> <<repo.forked, repo.head>>
    [] base /\ repo.compare # "merge-base" -> <<repo.tip, TrackedWork(repo)>>
    [] OTHER -> <<repo.head, repo.work>>

(* Changing one more contract file never opens the gate, and a changed     *)
(* policy gates on the whole machine.  A contract file that is not what it *)
(* was is gated, staged or not and whatever became of it meanwhile, unless *)
(* it is gone and a file that was not there is reported in its place; and  *)
(* "what this branch changed, not what also landed on base"                *)
(* (contract.py:156): no kind is gated of which no file is other than it   *)
(* was (changed_files, relevant_rule_prefixes).                            *)
ScopeIsSafeAt(findings, repo, base) ==
  LET kinds == contract_changes(repo, base)
      old   == Ends(repo, base)[1]
      new   == Ends(repo, base)[2]
  IN /\ \A k \in Kinds :
          guard(findings, "changed", kinds) = "BLOCKED" =>
            guard(findings, "changed", kinds \cup {k}) = "BLOCKED"
     /\ "policy" \in kinds => guard(findings, "changed", kinds) = guard(findings, "machine", {})
     /\ (repo.git /\ (base => repo.compare # "nothing")) =>
          \A p \in Differing(old, new) :
            \/ classify_contract_path(p) \in kinds \cup {None}
            \/ new[p] = None /\ \E q \in changed_files(repo, base) : old[q] = None
     /\ base => \A k \in kinds : \E p \in Differing(old, new) : classify_contract_path(p) = k

(* "A shallow clone or an absent base ref; fall back to a two-dot diff     *)
(* rather than reporting nothing and passing silently" (contract.py:161):  *)
(* a branch that changed a policy its base left alone, all of it           *)
(* committed, does not pass on a machine with blockers, whatever git can   *)
(* compare with.  Not so where the base is absent, from the fallback too.  *)
NothingPassesSilentlyAt(findings, repo, base) ==
  (/\ base /\ repo.git /\ Blocking(findings) # {}
   /\ repo.tip = repo.forked /\ repo.index = repo.head /\ repo.work = repo.head
   /\ \E p \in Differing(repo.forked, repo.head) :
        classify_contract_path(p) = "policy" /\ repo.head[p] # None) =>
    GuardChanged(findings, repo, base) = "BLOCKED"

-----------------------------------------------------------------------------
(* Baselines. *)

(* local_tool_versions: what it does not ask for is not found. *)
Probed == {"python", "node", "go", "dotnet", "java", "ruby", "php"}

Found(machine, tool) == IF tool \in Probed THEN machine.tools[tool] ELSE None

Pinned(reqs) == {i \in DOMAIN reqs : reqs[i].kind = "runtime" /\ reqs[i].spec # AnyVersion}

(* A dict comprehension: of two requirements of a tool the last is kept.   *)
LastSpec(reqs, tool) ==
  LET stating == {i \in Pinned(reqs) : reqs[i].name = tool}
  IN reqs[CHOOSE i \in stating : \A j \in stating : j <= i].spec

(* `baseline create`; nothing sets require_docker. *)
Create(reqs, envNames) ==
  [tools  |-> [t \in {reqs[i].name : i \in Pinned(reqs)} |-> LastSpec(reqs, t)],
   env    |-> envNames,
   docker |-> FALSE]

(* parse_spec(...).satisfied_by(...); a range that cannot be parsed is     *)
(* compared with the version as text, and differs.                         *)
Satisfied(spec, version) == spec \in Specs /\ version \in AcceptedBy[spec]

Entry(component, name, ok) == [component |-> component, name |-> name, ok |-> ok]

(* diff_against_baseline *)
Diff(baseline, machine) ==
  {Entry("tool", t, Found(machine, t) # None /\ Satisfied(baseline.tools[t], Found(machine, t))) :
     t \in DOMAIN baseline.tools}
  \cup {Entry("env", n, n \in machine.env) : n \in baseline.env}
  \cup (IF baseline.docker THEN {Entry("docker", "daemon", machine.docker)} ELSE {})

Blockers(baseline, machine) == {e \in Diff(baseline, machine) : ~e.ok}

ExitOf(baseline, machine) == IF Blockers(baseline, machine) = {} THEN "READY" ELSE "BLOCKED"

-----------------------------------------------------------------------------

(* Where a project states a runtime once, `baseline diff` and `check` are  *)
(* two ways to the same answer: `verdicts` is what check_version_requirement *)
(* finds for that range and version, and the baseline blocks the tool      *)
(* exactly when it finds something wrong.  A tool local_tool_versions does *)
(* not ask for is always a blocker (README, section 6).                    *)
AgreesWithCheckAt(reqs, envNames, machine, CheckVersion(_, _)) ==
  \A i \in 1..Len(reqs) :
    LET r == reqs[i]
        stated == {j \in 1..Len(reqs) : reqs[j].name = r.name} = {i}
        verdicts == CheckVersion(r.spec, Found(machine, r.name))
    IN (stated /\ r.kind = "runtime" /\ r.spec # AnyVersion /\ r.name \in Probed) =>
         ((\E e \in Blockers(Create(reqs, envNames), machine) :
             e.component = "tool" /\ e.name = r.name)
            <=> \E v \in verdicts : v.state # "PASS")

(* A machine that has more of what the baseline asks for never has more    *)
(* blockers, and the baseline of a project blocks on nothing the project   *)
(* did not ask for.                                                        *)
BaselineIsFairAt(reqs, envNames, machine) ==
  LET baseline == Create(reqs, envNames)
  IN /\ \A n \in envNames :
          Blockers(baseline, [machine EXCEPT !.env = @ \cup {n}]) \subseteq Blockers(baseline, machine)
     /\ \A e \in Blockers(baseline, machine) :
          \/ e.component = "env" /\ e.name \in envNames \ machine.env
          \/ e.component = "tool" /\ \E i \in 1..Len(reqs) :
               /\ reqs[i].name = e.name /\ reqs[i].spec # AnyVersion
               /\ Found(machine, e.name) # None =>
                    ~Satisfied(reqs[i].spec, Found(machine, e.name))

=============================================================================
