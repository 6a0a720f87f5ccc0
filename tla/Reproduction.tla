----------------------------- MODULE Reproduction -----------------------------
(***************************************************************************)
(* What a project declares (project/detectors.py), the two scores made of  *)
(* it (rules/score.py, project/profiles.py), the container recipe that     *)
(* `devrepro reproduce` drafts from it (reproduce/recipe.py) and the rate  *)
(* `devrepro repro-rate` reports of such recipes (reproduce/corpus.py).    *)
(*                                                                         *)
(* A project is                                                            *)
(*   [broken    : the ecosystems whose manifest cannot be parsed,          *)
(*    manifests : for python, node and go, None or [runtime, deps], the    *)
(*                runtime None, "any" or a version and deps a sequence of  *)
(*                "any" or a version; the entries of requirements.txt and  *)
(*                `engines.npm` are among the dependencies,                *)
(*    pins, locks, nested, containers, ci : the pin files, the lockfiles   *)
(*                at the root, how many further down, the container files  *)
(*                and the runtimes the workflows name].                    *)
(***************************************************************************)
EXTENDS Integers, Sequences, FiniteSets, FiniteSetsExt

CONSTANTS None, MINIMUM_SAMPLE

Images == {"python", "node", "go"}     \* of BASE_IMAGES

Requirement(eco, name, version, note) ==
  [eco |-> eco, name |-> name, version |-> version, note |-> note]

(* What a directory holds is found in no order the code settles.           *)
InSomeOrder(S) == CHOOSE f \in [1..Cardinality(S) -> S] : IsInjective(f)

One(condition, requirement) == IF condition THEN <<requirement>> ELSE <<>>

(* _python_deps, _node_deps, _go_deps: the runtime, then the dependencies. *)
ManifestReqs(project, eco) ==
  LET m == project.manifests[eco]
  IN IF m = None THEN <<>>
     ELSE One(m.runtime # None, Requirement(eco, "runtime", m.runtime, ""))
          \o [i \in 1..Len(m.deps) |-> Requirement(eco, "dependency", m.deps[i], "")]

LockEcosystem ==
  [f \in {"poetry.lock", "poetry.toml", "package-lock.json", "go.sum"} |->
     CASE f = "package-lock.json" -> "node" [] f = "go.sum" -> "go" [] OTHER -> "python"]

(* _lockfiles: poetry.toml counts as one, requirements.txt does not. *)
LockReqs(project) ==
  InSomeOrder({Requirement(LockEcosystem[f], f, "any", "lockfile-present") :
              f \in project.locks \cap DOMAIN LockEcosystem})
  \o [i \in 1..project.nested |-> Requirement("node", "nested", "any", "lockfile-present")]

ContainerReqs(project) ==
  InSomeOrder({Requirement("container", f, "any", "") :
              f \in project.containers \cap {"Dockerfile", "devcontainer"}})

(* _ci_deps: in the order of _CI_VERSION_RE. *)
CiReqs(project) ==
  One("python" \in project.ci, Requirement("python", "ci", "of-ci", ""))
  \o One("node" \in project.ci, Requirement("node", "ci", "of-ci", ""))
  \o One("go" \in project.ci, Requirement("go", "ci", "of-ci", ""))

(* detect_requirements, as run_scan calls it: a manifest that cannot be    *)
(* parsed takes every other declaration with it (pipeline.py).             *)
detect_requirements(project) ==
  IF project.broken # {} THEN <<>>
  ELSE ManifestReqs(project, "python")
       \o ManifestReqs(project, "node")
       \o One(".nvmrc" \in project.pins, Requirement("node", "runtime", "of-pin", ".nvmrc"))
       \o ManifestReqs(project, "go")
       \o One(".tool-versions" \in project.pins,
              Requirement("generic", "tool-versions", "of-pin", ".tool-versions"))
       \o LockReqs(project) \o ContainerReqs(project) \o CiReqs(project)

Declared(project) == Range(detect_requirements(project))

-----------------------------------------------------------------------------

Points(condition, n) == IF condition THEN n ELSE 0

AtMost(n, m) == IF m < n THEN m ELSE n

(* compute_score: the dependencies count as runtimes that are declared.    *)
compute_score(project) ==
  LET found == detect_requirements(project)
      reqs  == Range(found)
      locks == {i \in 1..Len(found) : found[i].note = "lockfile-present"}
  IN Points(\E r \in reqs : r.name \in {"runtime", "dependency", "ci"}, 2)
     + AtMost(2, Cardinality(locks))
     + Points(\E r \in reqs : r.note \in {".nvmrc", ".tool-versions"}, 1)
     + Points(\E r \in reqs : r.name = "devcontainer", 1)
     + Points(\E r \in reqs : r.name = "Dockerfile", 1)
     + Points(project.pins # {}, 1)
     + Points(\E r \in reqs : r.name = "ci", 1)

Possible == 9

(* score_maturity reads the files again, a broken one as an empty one, and *)
(* the dependencies do not count; .env.example is left out.                *)
score_maturity(project) ==
  Points(\E eco \in DOMAIN project.manifests \ project.broken :
           project.manifests[eco] # None /\ project.manifests[eco].runtime # None, 3)
  + Points(project.locks \cap {"poetry.lock", "package-lock.json", "go.sum"} # {}, 3)
  + Points(project.ci # {}, 2)
  + Points(project.containers # {}, 2)

-----------------------------------------------------------------------------

(* _base_for: the first requirement of an ecosystem with an image and a    *)
(* version, whatever its name; None is the fallback.                       *)
base_for(reqs) ==
  LET usable == {i \in 1..Len(reqs) : reqs[i].eco \in Images /\ reqs[i].version # "any"}
  IN IF usable = {} THEN None ELSE reqs[Min(usable)]

INSTALL_COMMANDS ==
  { <<"npm", "package-lock.json">>, <<"poetry", "poetry.lock">>,
    <<"pip", "requirements.txt">>, <<"go", "go.sum">> }

(* _install_steps *)
install_steps(project) ==
  LET ecosystems == {r.eco : r \in Declared(project)}
  IN {i \in INSTALL_COMMANDS :
        /\ i[2] \in project.locks
        /\ i[1] \in ecosystems \/ (i[1] = "pip" /\ "python" \in ecosystems)}

(* build_reproduction of a failing command on a machine [engine, gpu, linux]. *)
build_reproduction(project, machine) ==
  [ base     |-> base_for(detect_requirements(project)),
    installs |-> install_steps(project),
    unmet    |-> {u \in {"no-install-step", "container-in-container", "gpu", "platform"} :
                    \/ u = "no-install-step" /\ install_steps(project) = {}
                    \/ u = "container-in-container" /\ machine.engine
                    \/ u = "gpu" /\ machine.gpu
                    \/ u = "platform" /\ ~machine.linux} ]

-----------------------------------------------------------------------------

Outcomes == {"reproduced", "not-reproduced", "different-failure", "could-not-build",
             "precondition-unmet"}

Total(counts) ==
  counts["reproduced"] + counts["not-reproduced"] + counts["different-failure"]
    + counts["could-not-build"] + counts["precondition-unmet"]

(* summarise, in thousandths: None, or a nearest one.  Which of two, when  *)
(* they are equally near, is up to the floating-point quotient.            *)
Rates(counts) ==
  LET n     == Total(counts)
      exact == 1000 * counts["reproduced"]          \* n times the rate
      below == exact \div n
  IN IF n < MINIMUM_SAMPLE THEN {None}
     ELSE {k \in {below, below + 1} : 2 * exact - n <= 2 * k * n /\ 2 * k * n <= 2 * exact + n}

-----------------------------------------------------------------------------

(* One thing more is declared, or a manifest is mended. *)
Additions(p) ==
  {[p EXCEPT !.broken = @ \ {eco}] : eco \in p.broken}
  \cup {[p EXCEPT !.pins = @ \cup {f}] : f \in {".nvmrc", ".tool-versions", ".python-version"}}
  \cup {[p EXCEPT !.locks = @ \cup {f}] : f \in DOMAIN LockEcosystem \cup {"requirements.txt"}}
  \cup {[p EXCEPT !.containers = @ \cup {f}] : f \in {"Dockerfile", "devcontainer"}}
  \cup {[p EXCEPT !.ci = @ \cup {eco}] : eco \in Images}
  \cup {[p EXCEPT !.manifests[eco].deps = Append(@, "of-dep")] :
          eco \in {e \in DOMAIN p.manifests : p.manifests[e] # None}}

StatesRuntime(p) ==
  \A eco \in DOMAIN p.manifests :
    p.manifests[eco] # None => p.manifests[eco].runtime \notin {None, "any"}

(* Declaring one thing more, or mending a manifest, never costs a point in *)
(* either score, and where every manifest states its runtime and a locked  *)
(* dependency is at the root, a project that scores in full in the one has *)
(* all that the other asks for too: two commands do not disagree about one *)
(* tree (detectors.py, _lockfiles).                                        *)
ScoresAreFairAt(p) ==
  /\ \A more \in Additions(p) :
       compute_score(more) >= compute_score(p) /\ score_maturity(more) >= score_maturity(p)
  /\ compute_score(p) \in 0..Possible
  /\ (compute_score(p) = Possible /\ StatesRuntime(p)
        /\ p.locks \cap {"poetry.lock", "package-lock.json", "go.sum"} # {}
        /\ \E eco \in DOMAIN p.manifests : p.manifests[eco] # None) => score_maturity(p) = 10

(* The base image is that of a runtime the project states, not of one of   *)
(* its dependencies, and the recipe of a project that states its runtimes  *)
(* changes its base for no lockfile, container file, workflow or further   *)
(* dependency, so `reproduce --check` does not call it stale for one; what *)
(* it installs is only added to, and what it cannot carry stays listed.    *)
(* The base: where every manifest states its runtime (README, section 6).  *)
RecipeIsFaithfulAt(p, machine) ==
  LET recipe == build_reproduction(p, machine)
  IN /\ StatesRuntime(p) => (recipe.base = None \/ recipe.base.name \in {"runtime", "ci"})
     /\ \A more \in Additions(p) :
          LET later == build_reproduction(more, machine)
          IN /\ (StatesRuntime(p) /\ p.broken = {} /\ recipe.base # None /\ recipe.base.name # "ci")
                  => later.base = recipe.base \/ later.base.note = ".nvmrc"
             /\ recipe.installs \subseteq later.installs
             /\ recipe.unmet \ {"no-install-step"} \subseteq later.unmet

(* No rate is told of too few attempts, an attempt that did not reproduce  *)
(* the failure never raises it - "counting it as a success is how every    *)
(* vendor benchmark ends up at 95%" (corpus.py:171) - and one that did     *)
(* never lowers it; in what way the others failed makes no difference.     *)
RateIsEarnedAt(counts) ==
  \A told \in Rates(counts) \ {None} :
    /\ Total(counts) >= MINIMUM_SAMPLE
    /\ told \in 0..1000
    /\ \A o \in Outcomes : \A next \in Rates([counts EXCEPT ![o] = @ + 1]) :
         next # None /\ IF o = "reproduced" THEN next >= told ELSE next <= told
    /\ \A o, p \in Outcomes \ {"reproduced"} :
         counts[o] > 0 => Rates([[counts EXCEPT ![o] = @ - 1] EXCEPT ![p] = @ + 1]) = Rates(counts)

(* "Locked installs for the ecosystems this project actually locked"       *)
(* (recipe.py:206).  False: npm and poetry are names of no ecosystem the   *)
(* detectors report (README, section 6).                                   *)
LockedProjectsInstallAt(p) ==
  "package-lock.json" \in p.locks => \E i \in install_steps(p) : i[2] = "package-lock.json"

=============================================================================
