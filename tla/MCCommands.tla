------------------------------ MODULE MCCommands ------------------------------
(* TLC instance of Commands: four policy files and one tool for `check`,   *)
(* and for the other commands the inputs at which their cases meet.        *)
EXTENDS Commands

CONSTANTS Project, Team, Org, Shared, Proxy

MCFiles      == {Project, Team, Org, Shared}
MCVersions   == 1..2
MCSpecs      == {"all", "new"}
MCAcceptedBy    == [s \in MCSpecs \cup {AnyVersion} |-> IF s = "new" THEN {2} ELSE {1, 2}]
MCContents   ==
  { [required |-> "new", bad |-> None,    names |-> {}],
    [required |-> None,  bad |-> "new",   names |-> {Proxy}],
    [required |-> "all", bad |-> Garbled, names |-> {}] }
(* Two parents, a chain, a diamond when both parents extend Shared, and    *)
(* loops onto the file itself or back to the first one.                    *)
MCExtensions == {<<>>, <<Team, Org>>, <<Shared>>, <<Project>>}

V(nums, tag) == [nums |-> nums, tag |-> tag]

MCComparedVersions ==
  {V(<<1>>, 0), V(<<1, 2>>, 0), V(<<1, 2, 0>>, 0), V(<<1, 2, 0>>, 1), V(<<1, 2, 0>>, 2),
   V(<<1, 2, 1>>, 0), V(<<1, 3, 0>>, 1), V(<<2>>, 0), V(<<2, 0, 0>>, 0), V(<<2, 0, 1>>, 0)}
MCBounds  == {V(<<1>>, 0), V(<<1, 2>>, 0), V(<<1, 2, 1>>, 0), V(<<2, 0, 0>>, 0)}
MCParts   == {"", ">=", "<=", ">", "<"} \X MCBounds
MCGroups  == {{p, q} : p, q \in MCParts}
MCFixSets == {S \in SUBSET MCComparedVersions : Cardinality(S) \in 1..2}

MCFindings ==
  {[rule |-> r, state |-> "ERROR", tool |-> "node"] :
     r \in {"duplicates", "dead-entries", "clock-skew", "missing", "mismatch", "other"}}
  \cup {[rule |-> "missing", state |-> "ERROR", tool |-> "go"],
        [rule |-> "docker", state |-> "PASS", tool |-> "docker"]}

MCSteps ==
  [id : {0}, risk : {"SAFE", "LOW", "MEDIUM"}, automatable : BOOLEAN, ready : BOOLEAN,
   commands : {<<>>, <<0>>, <<1, 0>>, <<0, 1>>}]

(* Graphs of four steps with at most two prerequisites each; 5 is unknown. *)
MCGraphs   == [1..4 -> {S \in SUBSET (1..4) : Cardinality(S) <= 2} \cup {{5}}]
MCGateSets == {S \in SUBSET (1..4) : Cardinality(S) <= 1}

(* Two findings of any state where there is no git, and single ones on     *)
(* trees of two files, a policy and a source file or two contract files.   *)
F(pack, state) == [pack |-> pack, state |-> state]
MCFound     == [pack : {"python", "containers", "agents"},
                state : {"BLOCKED", "ERROR", "WARN", "UNKNOWN", "INFO", "PASS"}]
Repo(git, compare, forked, tip, head, index, work) ==
  [git |-> git, compare |-> compare, forked |-> forked, tip |-> tip, head |-> head,
   index |-> index, work |-> work]
MCTreesOf(p, q) ==
  {[x \in {p, q} |-> IF x = p THEN c ELSE d] : <<c, d>> \in
     {pair \in {None, "old", "new"} \X {None, "old", "new"} : pair[1] # pair[2] \/ pair[1] = None}}
MCCompared(trees) ==
  {<<Repo(TRUE, "merge-base", h, h, h, i, w), FALSE>> : h, i, w \in trees}
  \cup {<<Repo(TRUE, c, f, t, h, h, h), TRUE>> : c \in {"merge-base", "nothing"}, f, t, h \in trees}
  \cup {<<Repo(TRUE, "ref", t, t, i, i, w), TRUE>> : t, i, w \in trees}
MCNoGit     == Repo(FALSE, "nothing", <<>>, <<>>, <<>>, <<>>, <<>>)
MCGuarded   ==
  {<<{f, g}, MCNoGit, base>> : f, g \in MCFound, base \in BOOLEAN}
  \cup {<<found, c[1], c[2]>> :
          found \in {{F("python", "ERROR")}, {F("env", "BLOCKED"), F("agents", "ERROR")}},
          c \in MCCompared(MCTreesOf(<<"policy", 1>>, <<None, 1>>))
                 \cup MCCompared(MCTreesOf(<<"lockfile", 1>>, <<"env_names", 1>>))}

(* A range twice, a dependency called a runtime, and a tool nobody probes. *)
MCRequirementsOf ==
  [name : {"python", "node", "flask"}, kind : {"runtime"}, spec : MCSpecs \cup {AnyVersion, Garbled}]
  \cup [name : {"python", "node", "flask"}, kind : {"tool"}, spec : {"all"}]
MCBaselines ==
  (UNION {[1..n -> MCRequirementsOf] : n \in 0..2}) \X {{}, {Proxy}}
  \X [tools : {[t \in Gates!Probed |-> CASE t = "python" -> v [] t = "node" -> w [] OTHER -> None] :
                 v, w \in {None, 1, 2, Garbled}},
      env : {{}, {Proxy}}, docker : {FALSE}]

(* Lines of manifests: a target at the root and below it, the way back up, *)
(* a program, a path and an echo.                                          *)
C(program, args) == [program |-> program, args |-> args]
MCLines ==
  {<<C("make", <<"test">>)>>, <<C("cd", <<"web">>), C("make", <<"lint">>)>>,
   <<C("cd", <<"web">>), C("cd", <<"..">>), C("make", <<"lint">>)>>,
   <<C("pytest", <<>>)>>, <<C("./run", <<>>)>>, <<C("echo", <<>>)>>}
MCManifests ==
  {<<>>} \cup {<<m>> : m \in UNION {[1..n -> MCLines] : n \in 1..2}}
  \cup {<<m, <<l>>>> : m \in UNION {[1..n -> MCLines] : n \in 1..2},
                        l \in {<<C("make", <<"test">>)>>, <<C("pytest", <<>>)>>}}
MCTargets ==
  {[d \in {<<>>, <<"web">>} |-> IF d = <<>> THEN r ELSE w] :
     r \in {{}, {"test"}}, w \in {{}, {"lint"}, {"build"}}}
MCRepositories ==
  MCManifests \X {{}, {C("pytest", <<>>)}, {C("make", <<"test">>)}}
  \X [path : {{}, {"make"}, {"make", "pytest"}}, modules : {{}, {"pytest"}},
      files : {{}, {"./run"}}, targets : MCTargets]

MCShells ==
  [git : BOOLEAN, changed : {0, 19, 20}, upstream : BOOLEAN, unpushed : {0, 1},
   credentials : {0, 1, 3}, target : BOOLEAN, cluster : {None, "dev", "prod"},
   stores : {0, 1}, root : BOOLEAN]
MCGateShells ==
  {s \in MCShells : /\ s.git /\ s.upstream /\ s.stores = 0 /\ s.unpushed = 0
                    /\ s.changed = 0 /\ s.credentials = 0 /\ ~s.root}

(* Memory in units of which the host has sixteen. *)
MCSandboxes ==
  [memory : {None, 0, 16}, cpus : {None, 4}] \X [memory : {None, 3, 16}, cpus : {None, 2}]
  \X (UNION {[1..n -> [memory : {None, 3, 4}, cpus : {None, 1}, offline : BOOLEAN]] : n \in 0..2})
  \X BOOLEAN

MCToolVersions ==
  {V(<<1, 1, 0>>, 0), V(<<1, 4>>, 0), V(<<1, 53, 0>>, 0), V(<<1, 78, 1>>, 0), V(<<2, 0, 0>>, 1),
   V(<<2, 0>>, 0), V(<<5, 2, 0>>, 0), V(<<6, 9, 0>>, 0), V(<<7>>, 0), V(<<9, 1, 0>>, 0)}
MCLockfilesOf(pins) ==
  UNION {[tool : {t}, format : DOMAIN Version!Floors[t] \cup {None, Unreadable, "unlisted"},
          pin : pins] : t \in DOMAIN Version!Floors}
MCLocks ==
  (MCLockfilesOf({None, Garbled, {{<<">=", V(<<2>>, 0)>>}}})
     \X (MCToolVersions \cup {None, Unversioned, Garbled}) \X {None}
     \X {None, Unversioned, Garbled, V(<<1, 4>>, 0), V(<<2, 0>>, 0)})
  \cup (MCLockfilesOf({None}) \X MCToolVersions \X MCToolVersions \X {None})

MCEngineInputs ==
  ([docker : {"absent", "failing", "ok"}, info : {"down", "starting", "up"}, podman : BOOLEAN,
    buildx : BOOLEAN, runtimes : {0, 2}, host : {"amd64", "arm64"},
    server : {None, "x86_64", "aarch64"}, cgroup : {1, 2}, driver : {"overlay2", "vfs"},
    reclaimable : {20}] \cup {None})
  \X [files : {{}, {"compose"}, {"devcontainer"}}, policy : {{}, {"devcontainer"}, {"docker"}}]

Stated(runtime, deps) == [runtime |-> runtime, deps |-> deps]
MCDeclared ==
  {None, Stated(None, <<"of-dep">>), Stated("any", <<>>), Stated("of-runtime", <<"any", "of-dep">>)}
MCProjects ==
  { [p EXCEPT !.broken = {eco \in @ : p.manifests[eco] # None}] :
      p \in [ broken : {{}, {"node"}},
              manifests : [python : MCDeclared, node : MCDeclared,
                           go : {None, Stated("of-go", <<>>)}],
              pins : {{}, {".nvmrc"}, {".tool-versions"}, {".python-version"}},
              locks : {{}, {"poetry.lock", "poetry.toml"}, {"requirements.txt", "package-lock.json"},
                       {"go.sum", "package-lock.json"}},
              nested : {0, 1},
              containers : {{}, {"Dockerfile"}, {"Dockerfile", "devcontainer"}},
              ci : {{}, {"node"}} ] }
  \X {[engine |-> TRUE, gpu |-> FALSE, linux |-> FALSE]}

(* Around the sample of ten at which a rate is told. *)
(* Sixteen attempts are the fewest at which two rates are equally near. *)
MCAttempts ==
  {c \in [Recipe!Outcomes -> 0..3] : Recipe!Total(c) <= 14}
  \cup {[o \in Recipe!Outcomes |-> CASE o = "reproduced" -> r [] o = "could-not-build" -> 16 - r [] OTHER -> 0] :
           r \in 0..16}

MCRanges == {{{<<">=", V(<<1, 2>>, 0)>>, <<"<", V(<<3>>, 0)>>}}, {{<<"<", V(<<1>>, 0)>>}},
             {{<<"", V(<<2>>, 0)>>}, {<<">=", V(<<21>>, 0)>>}}, Garbled}
MCTrees  ==
  UNION {[1..n -> [path : {<<>>, <<"a">>, <<"a", "b">>, <<"c">>}, spec : MCRanges]] : n \in 2..3}

(* Axes of every style, with a list written twice, an expression, and      *)
(* items that stand no deeper than their key; steps that are named or name *)
(* an axis nobody has.                                                     *)
Axis(style, name, values, deep) == [style |-> style, name |-> name, values |-> values, deep |-> deep]
MCAxes ==
  {Axis("list", "py", <<"all", "new">>, TRUE), Axis("list", "os", <<"new">>, TRUE),
   Axis("list", "py", <<Template>>, TRUE), Axis("block", "py", <<"new">>, TRUE),
   Axis("block", "py", <<"all", "new">>, TRUE), Axis("block", "py", <<"new">>, FALSE),
   Axis("include", "py", <<"new">>, TRUE), Axis("include", "py", <<"all">>, FALSE),
   Axis("exclude", "py", <<"all">>, TRUE)}
CiStep(tool, spec, of, named) == [tool |-> tool, spec |-> spec, of |-> of, named |-> named]
MCOfMatrix == CiStep("python", None, "py", FALSE)
MCCiSteps  ==
  {CiStep("python", "new", None, FALSE), MCOfMatrix, CiStep("python", None, "os", FALSE),
   CiStep("python", "new", None, TRUE), CiStep("node", "all", None, FALSE),
   CiStep("node", Garbled, None, FALSE)}
MCWorkflows ==
  ( {<<job>> : job \in [axes : UpTo(2, MCAxes), steps : {<<s>> : s \in MCCiSteps}]
                         \cup [axes : {<<>>}, steps : {<<s, t>> : s, t \in MCCiSteps}]}
    \cup {<<[axes |-> a, steps |-> <<MCOfMatrix>>], [axes |-> b, steps |-> <<MCOfMatrix>>]>> :
             a, b \in UpTo(1, MCAxes)} )
  \X {"python", "node"} \X {None, 1, 2, Garbled}

(* A scan: the facts of each probe, with every reading that may fail.      *)
Home     == <<"home", "me", "work">>
OnDrive  == <<"mnt", "c", "work">>
Mount(point, fstype) == [point |-> point, fstype |-> fstype]
MCMountPoints == {<<>>, <<"home">>, <<"home", "me">>, <<"mnt", "c">>, Home}
MCMounts == {[i \in 1..n |-> Mount(p[i], t[i])] : n \in {2},
               p \in [1..2 -> MCMountPoints], t \in [1..2 -> {"ext4", "nfs4"}]}
MCAskedMounts ==
  [platform : {"linux", "windows"}, unc : BOOLEAN, wsl : BOOLEAN, root : {Home, OnDrive},
   mounts : {None, <<>>} \cup MCMounts]
MCDefenders ==
  [hot : SUBSET {<<"target">>, <<"src", "build">>}, realtime : {TRUE, FALSE, None}, root : {Home},
   exclusions : {None} \cup SUBSET {Home, Home \o <<"target">>, OnDrive}]
MCClocks ==
  [platform : {"linux", "windows"}, w32tm : {None, "hardware", "server", "stopped"},
   timedatectl : {None} \cup [synced : {None, TRUE, FALSE}, service : {None, TRUE, FALSE}],
   chrony : {None} \cup [reference : {None, "hardware", "server"}, stratum : {None, 0, 3}]]
MCSdkVersions == {<<6, 0, 412>>, <<8, 0, 100>>, <<8, 0, 110>>, <<8, 0, 204>>, <<8, 1, 100>>, <<9, 0, 100>>}
MCSdks ==
  [pinned : {None, <<8, 0, 100>>, <<8, 0, 110>>}, sdks : {None} \cup SUBSET MCSdkVersions,
   rollForward : {None, "disable", "latestPatch", "feature", "minor", "major"}]
MCJavas == [home : BOOLEAN, fromHome : {None, Unreadable, 17, 21}, fromPath : {None, 17, 21}, jdks : 0..2]
MCGpus ==
  [ai : BOOLEAN, driver : {TRUE}, other : BOOLEAN, ceiling : {None, <<11, 8>>, <<12, 4>>},
   toolkit : {None, <<11, 8>>, <<12, 6>>, <<13, 0>>}, capabilities : SUBSET {None, 80, 90}]
  \cup [ai : BOOLEAN, driver : {FALSE}, other : BOOLEAN, ceiling : {None},
        toolkit : {None, <<12, 6>>}, capabilities : {{}}]
MCCaches ==
  [free : {None, 0, 1, 4, 5}, hits : {None, 14, 15, 40}, misses : {None, 10, 35}, size : {None, 0, 19, 20},
   limit : {None, 0, 20}, caches : {{}, {[override |-> "directory"]}, {[override |-> "missing"]}}]
MCLibcs ==
  [flavour : {"musl"}, version : {None}]
  \cup [flavour : {"glibc"}, version : {None, <<2, 28>>, <<2, 17, 1>>, <<3, 1>>}]
MCRuntimes ==
  [{"node-arch-mismatch", "go-arch-mismatch"} -> {"x64", "arm64", "win32", "riscv64", None}]
(* What the process is told of the machine when it is translated.          *)
MCAbis ==
  [platform : {"macos"}, translated : {TRUE, None}, host : {"x86_64"}, interpreter : {"x86_64"},
   real : {"arm64"}, runtimes : MCRuntimes, libc : {None}]
  \cup {[platform |-> p, translated |-> FALSE, host |-> h, interpreter |-> i, real |-> r,
         runtimes |-> t, libc |-> l] :
          p \in {"macos", "linux"}, h \in {None}, i \in {"amd64", "i386"}, r \in {"x86_64"},
          t \in MCRuntimes, l \in {None}}
  \cup {[platform |-> "linux", translated |-> FALSE, host |-> r, interpreter |-> i, real |-> r,
         runtimes |-> t, libc |-> l] :
          i \in {"x86_64", "i386", "aarch64"}, r \in {"x86_64", "aarch64"},
          t \in MCRuntimes, l \in {None} \cup MCLibcs}
MCTrust ==
  [mirrors : BOOLEAN,
   bundles : UNION {[S -> BOOLEAN] : S \in SUBSET {"SSL_CERT_FILE", "PIP_CERT", "DENO_CERT"}}]
MCNetworks ==
  [allowed : BOOLEAN, skew : {None, -400, 0, 300, 301}, endpoints : SUBSET BOOLEAN]
MCHygienes ==
  [entries : {None} \cup UpTo(2, {None, "unreadable", "same file", "absent"}), reserved : BOOLEAN,
   symlinks : {None, TRUE, FALSE}, utf8 : BOOLEAN]
MCMachines ==
  ({"filesystem"} \X MCAskedMounts) \cup ({"antivirus"} \X MCDefenders)
  \cup ({"clock"} \X MCClocks) \cup ({"dotnet"} \X MCSdks) \cup ({"java"} \X MCJavas)
  \cup ({"gpu"} \X MCGpus) \cup ({"caches"} \X MCCaches) \cup ({"abi"} \X MCAbis)
  \cup ({"registries"} \X MCTrust) \cup ({"network"} \X MCNetworks)
  \cup ({"hygiene"} \X MCHygienes)

(* PATH: `bin` and `usr` are plain, `shims` belongs to a manager, `apps` to *)
(* the store and `gone` does not exist.                                    *)
MCDirs  == {"bin", "usr", "shims", "apps", "gone"}
File(real, runs, version) == [real |-> real, runs |-> runs, version |-> version]
MCFileSets ==
  { F1 @@ F2 @@ F3 :
      F1 \in {<<"bin", "py">> :> f : f \in {File(1, TRUE, 1), File(1, FALSE, None)}},
      F2 \in {<<"shims", "py">> :> f : f \in {File(2, TRUE, 2), File(1, TRUE, 1)}}
             \cup {<<"shims", "py3">> :> File(2, TRUE, 2)},
      F3 \in {<<"usr", "py">> :> File(1, TRUE, 1), <<"usr", "py3">> :> File(3, TRUE, None),
              <<"apps", "py">> :> File(4, TRUE, None), <<"gone", "py">> :> File(5, TRUE, 3)} }
MCPathMachines ==
  [path : UNION {[1..n -> MCDirs] : n \in 1..4}, exists : {MCDirs \ {"gone"}}, files : MCFileSets,
   manager : {[d \in MCDirs |-> IF d = "shims" THEN "mise" ELSE None]}, aliases : {{"apps"}},
   platform : {"windows"}]
ProfileLine(starts, costs, commented) == [starts |-> starts, costs |-> costs, commented |-> commented]
MCProfileLines ==
  {ProfileLine("conda", "conda", FALSE), ProfileLine("pyenv", "pyenv", TRUE),
   ProfileLine(None, "starship", FALSE), ProfileLine("nvm", "nvm", FALSE),
   ProfileLine(None, "zoxide", TRUE), ProfileLine(None, "zoxide", FALSE)}
MCHosts ==
  ({"path"} \X [machine : MCPathMachines, commands : {<<"py">>, <<"py", "py3">>}])
  \cup ({"profiles"} \X {{p, q} : p, q \in SUBSET MCProfileLines})

ConfigEntry(scope, key, value) == [scope |-> scope, key |-> key, value |-> value]
MCConfigEntries ==
  {ConfigEntry("system", "filter.lfs.smudge", "smudge"), ConfigEntry("local", "filter.lfs.smudge", None),
   ConfigEntry("system", "credential.helper", "gone"), ConfigEntry("local", "credential.helper", "store"),
   ConfigEntry("global", "credential.helper", "custom"), ConfigEntry("local", "core.sparsecheckout", "true"),
   ConfigEntry("local", "remote.origin.partialclonefilter", "blobs")}
MCGits ==
  [is_repo : BOOLEAN, scopes : BOOLEAN, config : UpTo(3, MCConfigEntries), helpers : {{}, {"gone"}},
   lfs_required : BOOLEAN, lfs_available : {TRUE}, shallow : {FALSE},
   submodules : {{}, {[checkout |-> FALSE, modules |-> FALSE]}}]
  \cup [is_repo : {TRUE}, scopes : {TRUE}, config : {<<>>}, helpers : {{}}, lfs_required : {TRUE},
        lfs_available : {FALSE}, shallow : BOOLEAN,
        submodules : {{[checkout |-> TRUE, modules |-> FALSE], [checkout |-> FALSE, modules |-> TRUE]}}]
PortLine(port, file, service, image) ==
  [port |-> port, file |-> file, service |-> service, image |-> image]
MCPortLines ==
  {PortLine(5432, "compose", "postgres", None), PortLine(5433, "compose", "db", "postgres"),
   PortLine(5432, "policy", None, None), PortLine(5432, "compose", "web", None),
   PortLine(6379, "compose", "minio", "redis"), PortLine(9000, "devcontainer", None, None),
   PortLine(70000, "policy", None, None), PortLine(9000, "compose", "store", "minio")}
MCPorts    == [written : UpTo(3, MCPortLines), busy : {{}, {5432}, {6379, 9000}}]
MCEnvNames == {<<".env">>, <<".env", ".local">>, <<".env", ".example">>}
MCDotenvs  ==
  [patterns : SUBSET (MCEnvNames \cup {<<".env", "*">>, <<".venv">>}),
   file : [name : MCEnvNames, secrets : BOOLEAN]]
MCManagers ==
  [files : SUBSET {".tool-versions", "mise.toml", "flake.nix", "flake.lock", "devbox.json", "devbox.lock"},
   tool : {"node"}, versions : UpTo(2, {<<>>, <<20, 1>>, <<20, 2>>, <<22, 0>>}),
   active : [{"node"} -> {None, <<20, 1>>, <<22, 0>>}]]
MCCheckouts ==
  ({"git"} \X MCGits) \cup ({"ports"} \X MCPorts) \cup ({"dotenv"} \X MCDotenvs)
  \cup ({"managers"} \X MCManagers)

(* Frameworks declared in one or two files, ranges with and without a      *)
(* number; machines on each side of the floors; bots and the pins.         *)
MCEntry(name, version, order) ==
  [name |-> name, extras |-> FALSE, quoted |-> FALSE, version |-> version, order |-> order]
MCDjangos   == {{MCEntry("django", <<4, 2>>, 1)}, {MCEntry("django", <<5>>, 1)}, {},
                {[MCEntry("django", <<5, 0>>, 1) EXCEPT !.extras = TRUE], MCEntry("django", <<4, 2>>, 2)},
                {MCEntry("psycopg2", None, 1), [MCEntry("django", <<5, 1>>, 2) EXCEPT !.quoted = TRUE]}}
MCNexts     == {{MCEntry("next", v, 1), MCEntry("sharp", None, 2)} : v \in {<<13>>, <<15, 1>>, <<12>>, None}}
MCSprings   == {{MCEntry("spring-boot", v, 1)} : v \in {<<2, 7>>, <<3, 0>>}}
MCManifestsOf(A, files) == UNION {[S -> A] : S \in SUBSET files}
MCPython    == {p @@ ("manage.py" :> {}) : p \in MCManifestsOf(MCDjangos,
                  {"requirements.txt", "pyproject.toml", "pyproject.toml poetry", "Pipfile"})}
MCNode      == MCManifestsOf(MCNexts, {"package.json", "package.json dev"})
MCJava      == MCManifestsOf(MCSprings, {"build.gradle.kts", "pom.xml"})
MCActive    ==
  {<<>>} \cup {"python" :> v : v \in {None, V(<<3, 8>>, 0), V(<<3, 9, 7>>, 0), V(<<3, 10, 0>>, 1), V(<<3, 10>>, 0)}}
  \cup {"node" :> v : v \in {V(<<16, 14, 0>>, 0), V(<<18, 0>>, 0), V(<<18, 18, 0>>, 0), V(<<20>>, 0)}}
  \cup {"java" :> v : v \in {V(<<8, 0, 392>>, 0), V(<<11>>, 0), V(<<17, 0, 9>>, 0)}}
MCSamples   == {p \in MCPython : Cardinality(DOMAIN p) <= 2} \cup MCNode \cup MCJava
MCPinned    == {".nvmrc", ".tool-versions", "global.json", "Dockerfile", ".github/workflows"}
MCBots      ==
  {(".github/dependabot.yml" :> d) @@ r : d \in SUBSET {"docker", "github-actions"},
     r \in {<<>>} \cup {f :> m : f \in {"renovate.json", ".renovaterc.json"},
                                 m \in {None} \cup SUBSET {"nvm", "asdf", "dockerfile"}}}
  \cup {f :> m : f \in {"renovate.json", ".github/renovate.json"}, m \in {None, {}, {"nvm"}}}
  \cup {("renovate.json" :> {"asdf"}) @@ (".renovaterc.json" :> m) : m \in {None, {}}}
  \cup {<<>>, ".github/dependabot.yaml" :> {"docker"}}
MCDeclarations ==
  ({"needs"} \X MCSamples \X MCActive \X MCActive)
  \cup ({"declares"} \X (MCPython \cup MCNode \cup MCJava)
         \X {"requirements.txt", "package.json dev", "pom.xml", "setup.py"}
         \X {MCEntry("sharp", None, 3), MCEntry("django", <<5, 2>>, 3), MCEntry("spring-boot", <<3, 1>>, 3)})
  \cup ({"pins"} \X {[f \in S |-> {}] @@ b : S \in SUBSET MCPinned, b \in MCBots}
         \X {{"nvm"}, {"docker"}, {"npm", "dockerfile"}})

(* A file, what may already lie beside it, and a vault renamed; bundles    *)
(* with a good, a foreign and no signature; two advisories of one tool.    *)
MCName(n)    == [base |-> "s", vaults |-> n]
MCSealed     == {Kept!Plain("new"), Kept!Plain("old"), Kept!Sealed("k", Kept!Plain("old")), Kept!Torn,
                 Kept!Sealed("k", Kept!Sealed("k2", Kept!Plain("old")))}
MCFolders       == UNION {[S -> MCSealed] : S \in {T \in SUBSET {MCName(0), MCName(1), MCName(2)} :
                                                  MCName(1) \in T \/ MCName(0) \in T}}
MCAdvisory(tool, introduced, fixed, complete) ==
  [tool |-> tool, introduced |-> introduced, fixed |-> fixed, complete |-> complete]
MCAdvisories ==
  {MCAdvisory("git", {}, {V(<<2, 1>>, 0), V(<<3, 1>>, 0)}, TRUE),
   MCAdvisory("git", {V(<<3, 0>>, 0)}, {V(<<3, 2>>, 0)}, TRUE),
   MCAdvisory("ssl", {}, {Garbled, V(<<3, 2>>, 0)}, TRUE),
   MCAdvisory("node", {}, {V(<<4, 1>>, 0)}, TRUE), MCAdvisory("ssl", {}, {}, FALSE)}
MCPayloads  ==
  [schema_version : {"1.0", "2.0"}, advisories : UpTo(2, MCAdvisories) \cup {None},
   covers : {None, {"git"}}]
MCSomePayloads == {p \in MCPayloads : p.advisories = None \/ (p.advisories # None /\ Len(p.advisories) < 2)}
MCBundled   == <<MCAdvisory("git", {}, {V(<<2, 1>>, 0)}, TRUE)>>
MCSigs(payload) ==
  {None, Kept!sign_bytes(payload, "k", None), Kept!sign_bytes(payload, "k2", "id"),
   Kept!sign_bytes([payload EXCEPT !.schema_version = "other"], "k", None)}
MCBundleFiles ==
  UNION {[payload : {p}, sig : MCSigs(p)] : p \in MCSomePayloads}
  \cup {[payload |-> None, sig |-> None], [payload |-> None, sig |-> Kept!sign_bytes(None, "k", None)]}
MCInstalls  ==
  UpTo(2, [name : {"git", "node"}, is_active : BOOLEAN,
           version : {None, Garbled, V(<<2, 0>>, 0), V(<<3, 1>>, 0), V(<<4>>, 0)}])
  \cup UpTo(3, [name : {"git"}, is_active : {TRUE}, version : {None, V(<<2>>, 0), V(<<3, 1>>, 0)}])
MCReqs      == [ecosystem : {"py"}, name : {"a", "b"}, spec : {"1", "2"}]
MCPayloadsOf(fields) ==
  {[f \in fields |-> CASE f = "schema_version" -> version [] f = "requirements_fingerprint" -> reqs
                       [] OTHER -> 1] : version \in 1..3, reqs \in UpTo(2, MCReqs)}
MCArtifacts ==
  {a \in {"vault"} \X MCFolders \X {MCName(0), MCName(1)} \X {"k"} : a[3] \in DOMAIN a[2]}
  \cup ({"bundle"} \X (MCBundleFiles \cup {None}) \X {None, "k", "k2"} \X BOOLEAN \X {MCBundled})
  \cup ({"advice"} \X MCInstalls \X {Kept!Bundle("file", TRUE, p) :
           p \in {q \in MCPayloads : /\ q.schema_version = "1.0" /\ q.advisories # None
                                     /\ \A a \in ToSet(q.advisories) : a.complete}})
  \cup ({"snapshot"} \X UNION {MCPayloadsOf(S) : S \in SUBSET
           {"schema_version", "requirements_fingerprint", "devrepro_version", "env_values", "provenance"}})
  \cup ({"attest"} \X MCInstalls \X UpTo(2, {"PASS", "WARN"}) \X {"a"} \X {"a", "b"})
  \cup ({"sign"} \X {"a"} \X {None, "k"} \X {None, "id"} \X {"a", "b"} \X {None, "k", "k2"})

Tool(name, version, path, active) ==
  [name |-> name, version |-> version, path |-> path, active |-> active]

(* Versions, places, ranges and engines are numbers here: None and what is *)
(* known are told apart, nothing else.                                     *)
MCToolLists ==
  {<<>>, <<Tool("py", 1, 1, TRUE)>>, <<Tool("py", 2, 1, TRUE)>>,
   <<Tool("py", 1, 2, TRUE)>>, <<Tool("py", None, 1, TRUE)>>,
   <<Tool("py", 1, 1, TRUE), Tool("go", 1, 1, TRUE)>>,
   <<Tool("py", 1, 2, TRUE), Tool("py", 1, 1, FALSE)>>,
   <<Tool("py", 2, 2, TRUE), Tool("py", 1, 1, FALSE)>>}
MCEngines ==
  {None, [daemon |-> 1, backend |-> 1], [daemon |-> 0, backend |-> 2]}
MCSnapshots ==
  [tools : MCToolLists, path : {1}, requires : {[py |-> None], [py |-> 2]},
   engine : MCEngines]
  \cup [tools : {<<>>}, path : {2}, requires : {[py |-> None]}, engine : {None}]

MCDurations  == UNION {[1..n -> 1..3] : n \in 1..6}
MCEnrolments == [1..2 -> {None, 0, 1}]
MCReadyRows  == [machine : 1..2, at : {None, 0, 1, 2}, ready : BOOLEAN]

MCFleetTools ==
  {[py |-> None, go |-> None], [py |-> 1, go |-> 2], [py |-> 2, go |-> 2],
   [py |-> None, go |-> 1], [py |-> Unreadable, go |-> 2], [py |-> 1, go |-> Unreadable]}
MCFleetRows    == [machine : 1..2, tools : MCFleetTools]
MCRequirements == [{"py", "go"} -> {{1}, {2}, {1, 2}}] \cup [{"py"} -> {{1}, {1, 2}}]

=============================================================================
