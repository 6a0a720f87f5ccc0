----------------------------- MODULE ProjectNeeds -----------------------------
(***************************************************************************)
(* What a project needs and its manifest does not say: the runtime its     *)
(* framework requires and the dependencies that compile                    *)
(* (project/frameworks.py, rules/packs/frameworks.py), and a bot that      *)
(* watches its pins (project/botpins.py).                                  *)
(*                                                                         *)
(* A project is a function from the files it has to what they declare: a   *)
(* set of entries [name, extras, quoted, version, order].  A version is    *)
(* the tuple of the first numbers of the range, None when it has none.     *)
(***************************************************************************)
EXTENDS Integers, Sequences, FiniteSets, TLC, Functions

CONSTANT None

V == INSTANCE Versioning

Number(nums) == [nums |-> nums, tag |-> V!NoTag]

NEXT_NODE_FLOOR ==
  13 :> Number(<<16, 14, 0>>) @@ 14 :> Number(<<18, 17, 0>>) @@ 15 :> Number(<<18, 18, 0>>)

DJANGO_PYTHON_FLOOR ==
  <<4, 2>> :> Number(<<3, 8>>) @@ <<5, 0>> :> Number(<<3, 10>>) @@ <<5, 1>> :> Number(<<3, 10>>)
  @@ <<5, 2>> :> Number(<<3, 10>>)

SPRING_BOOT_JDK_FLOOR == 2 :> Number(<<8>>) @@ 3 :> Number(<<17>>)

NATIVE_BUILD_DEPENDENCIES ==
  {"psycopg2", "mysqlclient", "sharp", "node-gyp", "canvas", "better-sqlite3"}

Declared(project, file) == IF file \in DOMAIN project THEN project[file] ELSE {}

(* A dependency of development hides one of production of its name.        *)
JsDependencies(project) ==
  LET dev == Declared(project, "package.json dev")
  IN dev \cup {e \in Declared(project, "package.json") : \A d \in dev : d.name # e.name}

FrameworkRequirement(framework, version, tool, floor, source) ==
  [framework |-> framework, version |-> version, tool |-> tool, floor |-> floor, source |-> source]

(* A version nobody listed a floor for claims none.                        *)
Floored(framework, version, key, floors, tool, source) ==
  IF key \in DOMAIN floors
  THEN {FrameworkRequirement(framework, version, tool, floors[key], source)} ELSE {}

_major(version) == version[1]
_major_minor(version) == IF Len(version) < 2 THEN None ELSE SubSeq(version, 1, 2)

detect_next(project) ==
  UNION {Floored("next", e.version, _major(e.version), NEXT_NODE_FLOOR, "node", "package.json") :
           e \in {d \in JsDependencies(project) : d.name = "next" /\ d.version # None}}

(* _DJANGO_SPEC wants the name at the start of a line and a number after   *)
(* it; _django_from_pyproject reads the list and then poetry's table, in   *)
(* which extras stand elsewhere.                                           *)
First(entries) == CHOOSE e \in entries : \A f \in entries : e.order <= f.order

DjangoIn(project, file) ==
  LET named == {e \in Declared(project, file) : e.name = "django" /\ e.version # None}
      read  == CASE file = "pyproject.toml" -> {e \in named : ~e.extras}
                 [] file = "pyproject.toml poetry" -> named
                 [] OTHER -> {e \in named : ~e.extras /\ ~e.quoted}
  IN IF read = {} THEN None ELSE First(read).version

FirstOf(files, found) ==
  LET holding == SelectSeq(files, LAMBDA f : found[f] # None)
  IN IF holding = <<>> THEN None ELSE Head(holding)

detect_django(project) ==
  LET files  == <<"requirements.txt", "pyproject.toml", "pyproject.toml poetry", "setup.py", "Pipfile">>
      found  == [f \in Range(files) |-> DjangoIn(project, f)]
      source == FirstOf(files, found)
  IN IF "manage.py" \notin DOMAIN project \/ source = None THEN {}
     ELSE Floored("django", found[source], _major_minor(found[source]), DJANGO_PYTHON_FLOOR, "python",
                  source)

SpringIn(project, file) ==
  LET read == {e \in Declared(project, file) : e.name = "spring-boot" /\ e.version # None}
  IN IF read = {} THEN None ELSE First(read).version

detect_spring_boot(project) ==
  LET files  == <<"build.gradle.kts", "build.gradle", "pom.xml">>
      found  == [f \in Range(files) |-> SpringIn(project, f)]
      source == FirstOf(files, found)
  IN IF source = None THEN {}
     ELSE Floored("spring-boot", found[source], _major(found[source]), SPRING_BOOT_JDK_FLOOR, "java",
                  source)

detect_frameworks(project) ==
  detect_next(project) \cup detect_django(project) \cup detect_spring_boot(project)

(* Each once, from the first file that names it.                           *)
native_dependencies(project) ==
  LET Names(file) == IF file = "package.json" THEN {e.name : e \in JsDependencies(project)}
                     ELSE {e.name : e \in {d \in Declared(project, file) : ~d.extras /\ ~d.quoted}}
      files == <<"package.json", "requirements.txt", "pyproject.toml">>
      Source(name) == FirstOf(files, [f \in Range(files) |-> IF name \in Names(f) THEN f ELSE None])
  IN {<<n, Source(n)>> : n \in {m \in NATIVE_BUILD_DEPENDENCIES : Source(m) # None}}

Meets(version, floor) == V!satisfies(version, {{<<">=", floor>>}})

(* The pack.  A machine is a function from the tools that are active to    *)
(* their versions.                                                         *)
FrameworksPack(machine, requirements, native) ==
  {[rule |-> r.framework, component |-> r.tool, required |-> r.floor, source |-> r.source,
    state |-> IF r.tool \notin DOMAIN machine \/ machine[r.tool] = None THEN "BLOCKED"
              ELSE IF Meets(machine[r.tool], r.floor) THEN "PASS" ELSE "BLOCKED"] : r \in requirements}
  \cup {[rule |-> n[1], component |-> "native", required |-> None, source |-> n[2],
         state |-> "INFO"] : n \in native}

Told(project, machine) ==
  FrameworksPack(machine, detect_frameworks(project), native_dependencies(project))

-----------------------------------------------------------------------------
(* Update bots.                                                            *)

PinFile(path, manager, ecosystem) == [path |-> path, manager |-> manager, ecosystem |-> ecosystem]

PIN_FILES ==
  {PinFile(".nvmrc", "nvm", None), PinFile(".node-version", "nodenv", None),
   PinFile(".python-version", "pyenv", None), PinFile(".ruby-version", "ruby-version", None),
   PinFile(".tool-versions", "asdf", None), PinFile("mise.toml", "mise", None),
   PinFile(".mise.toml", "mise", None), PinFile("rust-toolchain.toml", None, None),
   PinFile("global.json", None, None), PinFile("Dockerfile", "dockerfile", "docker"),
   PinFile("docker-compose.yml", "docker-compose", "docker"),
   PinFile(".github/workflows", "github-actions", "github-actions")}

_pins_present(root) == {pin \in PIN_FILES : pin.path \in DOMAIN root}

(* enabledManagers, if the file says so: None when it is not a list or the *)
(* file is not JSON.                                                       *)
parse_renovate(text) == text

(* The first file of each bot decides; a bot's file that is there counts   *)
(* as a bot whatever it says.                                              *)
Config(root, files) ==
  LET there == SelectSeq(files, LAMBDA f : f \in DOMAIN root)
  IN IF there = <<>> THEN {} ELSE {root[Head(there)]}

Dependabot(root) == Config(root, <<".github/dependabot.yml", ".github/dependabot.yaml">>)
Renovate(root)   == Config(root, <<"renovate.json", ".renovaterc.json", ".github/renovate.json">>)

analyse_pins(root) ==
  LET bots == Dependabot(root) \cup Renovate(root)
      pins == _pins_present(root)
      Watched(pin) ==
        \/ \E ecosystems \in Dependabot(root) : pin.ecosystem # None /\ pin.ecosystem \in ecosystems
        \/ \E text \in Renovate(root) :
             /\ pin.manager # None
             /\ parse_renovate(text) # None => pin.manager \in parse_renovate(text)
      covered == {pin \in pins : Watched(pin)}
  IN IF bots = {} THEN [configured |-> FALSE, covered |-> {}, uncovered |-> {}]
     ELSE [configured |-> TRUE, covered |-> covered, uncovered |-> pins \ covered]

(* `devrepro pins` *)
PinsExit(root, json_out) ==
  IF ~json_out /\ analyse_pins(root).uncovered # {} THEN "READY_WITH_WARNINGS" ELSE "READY"

-----------------------------------------------------------------------------
(* Properties.                                                             *)

(* A newer runtime never blocks what an older one passed, a framework that *)
(* is moved back never requires more, and nothing is blocked that meets    *)
(* the floor (frameworks.py:58-78, packs/frameworks.py:82).                *)
FloorsAreMonotoneAt(project, machine, newer) ==
  LET Blocked(m) == {f \in Told(project, m) : f.state = "BLOCKED"}
  IN /\ (\A t \in DOMAIN machine : t \in DOMAIN newer /\ machine[t] # None
                                    /\ newer[t] # None /\ ~V!Precedes(newer[t], machine[t]))
        => Blocked(newer) \subseteq Blocked(machine)
     /\ \A r \in detect_frameworks(project) :
          \A older \in CASE r.framework = "next" -> DOMAIN NEXT_NODE_FLOOR
                         [] r.framework = "django" -> DOMAIN DJANGO_PYTHON_FLOOR
                         [] OTHER -> DOMAIN SPRING_BOOT_JDK_FLOOR :
            CASE r.framework = "next" ->
                   older <= _major(r.version) => ~V!Precedes(r.floor, NEXT_NODE_FLOOR[older])
              [] r.framework = "django" ->
                   ~V!Precedes(Number(r.version), Number(older))
                     => ~V!Precedes(r.floor, DJANGO_PYTHON_FLOOR[older])
              [] OTHER ->
                   older <= _major(r.version) => ~V!Precedes(r.floor, SPRING_BOOT_JDK_FLOOR[older])

(* One requirement of a framework at most, read where it says; declaring   *)
(* more in a file that was not there hides nothing else, and a native      *)
(* dependency told of stays told of.                                       *)
DeclarationsAreReadAt(project, file, entry) ==
  LET more == (file :> (Declared(project, file) \cup {entry})) @@ project
  IN /\ \A r, q \in detect_frameworks(project) : r.framework = q.framework => r = q
     /\ \A r \in detect_frameworks(project) :
          \E f \in DOMAIN project : \E e \in project[f] :
            /\ e.name = r.framework /\ e.version = r.version
            /\ f = r.source \/ (r.source = "package.json" /\ f = "package.json dev")
     /\ {r \in detect_frameworks(project) : r.framework # entry.name} \subseteq detect_frameworks(more)
     /\ {n[1] : n \in native_dependencies(project)} \subseteq {n[1] : n \in native_dependencies(more)}

(* Disagreement: a requirement with extras, a Pipfile's, are declared and  *)
(* not read (frameworks.py:200).                                           *)
EveryDjangoIsReadAt(project) ==
  (/\ "manage.py" \in DOMAIN project
   /\ \E f \in {"requirements.txt", "Pipfile"} \cap DOMAIN project : \E e \in project[f] :
        e.name = "django" /\ e.version # None /\ _major_minor(e.version) \in DOMAIN DJANGO_PYTHON_FLOOR)
  => detect_django(project) # {}

(* A pin is covered or not, never both; no bot watches what neither can    *)
(* read; without `enabledManagers` every manager runs, with it only what   *)
(* it lists - an empty list none; and listing more uncovers nothing        *)
(* (botpins.py:110, :198).                                                 *)
PinsAreWatchedAt(root, more) ==
  LET found == analyse_pins(root)
  IN /\ found.covered \cap found.uncovered = {}
     /\ found.configured => found.covered \cup found.uncovered = {p \in PIN_FILES : p.path \in DOMAIN root}
     /\ \A p \in found.covered : p.manager # None \/ p.ecosystem # None
     /\ Renovate(root) = {None} => \A p \in found.uncovered : p.manager = None
     /\ Renovate(root) = {{}} /\ Dependabot(root) = {} => found.covered = {}
     /\ Dependabot(root) # {} /\ Renovate(root) = {} => \A p \in found.covered : p.ecosystem # None
     /\ \A f \in DOMAIN root :
          root[f] # None /\ found.configured
            => found.covered \subseteq analyse_pins([root EXCEPT ![f] = @ \cup more]).covered

(* Disagreement: "a file too exotic for this yields no ecosystems, which   *)
(* reports as unknown rather than as a gap" (botpins.py:104).              *)
ExoticFilesAreUnknownAt(root) ==
  Dependabot(root) = {{}} /\ Renovate(root) = {} => analyse_pins(root).uncovered = {}

(* Disagreement: the answer in JSON exits READY over an unwatched pin.     *)
JsonExitsAlikeAt(root) == PinsExit(root, TRUE) = PinsExit(root, FALSE)

(* Disagreement: cli/pipeline.py:80 detects the requirements, and :165     *)
(* builds the context of the rules without them, so that no scan tells     *)
(* what the pack would.                                                    *)
ScanTells(machine) == FrameworksPack(machine, {}, {})
ScanTellsFrameworksAt(project, machine) == ScanTells(machine) = Told(project, machine)

NeedsAreReadTrulyAt(input) ==
  CASE input[1] = "needs"    -> FloorsAreMonotoneAt(input[2], input[3], input[4])
    [] input[1] = "declares" -> DeclarationsAreReadAt(input[2], input[3], input[4])
    [] input[1] = "pins"     -> PinsAreWatchedAt(input[2], input[3])

=============================================================================
