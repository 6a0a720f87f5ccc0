---------------------------- MODULE ContainerDoctor ----------------------------
(***************************************************************************)
(* Is there a container engine a project can build with?  The probe asks   *)
(* (probes/containers.py) and the pack holds the answer against what the   *)
(* project and its policy need (rules/packs/containers.py).                *)
(*                                                                         *)
(* A machine is                                                            *)
(*   [docker  : "absent", "failing" or "ok", what `docker --version` does, *)
(*    info    : "down", "starting" (an object without a server version) or *)
(*              "up", what `docker info` answers,                          *)
(*    podman, buildx : BOOLEAN, runtimes : how many other engines,         *)
(*    host, server : names of architectures, cgroup, driver, reclaimable : *)
(*    what the engine says of itself, None where it says nothing].         *)
(* A project is [files : container definitions it has, policy : demands].  *)
(***************************************************************************)
EXTENDS Integers, FiniteSets

CONSTANT None

Finding(rule, state) == [rule |-> rule, state |-> state]

When(condition, finding) == IF condition THEN {finding} ELSE {}

Spellings ==                               \* _ARCH_ALIASES
  [ x86_64 |-> {"amd64", "x86_64", "x64"}, x86 |-> {"i386", "i686", "x86"},
    aarch64 |-> {"arm64", "aarch64"}, arm |-> {"armv7l", "arm"} ]

(* _normalise_arch *)
NormalArch(name) ==
  IF \E a \in DOMAIN Spellings : name \in Spellings[a]
  THEN CHOOSE a \in DOMAIN Spellings : name \in Spellings[a] ELSE None

LEGACY_STORAGE_DRIVERS == {"aufs", "devicemapper", "vfs", "btrfs", "overlay"}

ReclaimableWarn == 20                      \* _RECLAIMABLE_WARN_BYTES, in GB

(* Whether the answers of the engine were parsed, and whether it is up.    *)
EngineKnown(m) == m.docker = "ok" /\ m.info # "down"
DaemonOk(m)    == m.docker = "ok" /\ m.info = "up"

(* _depth_findings: how the engine is configured, as far as it says. *)
DepthFindings(m) ==
  LET host   == NormalArch(m.host)
      server == IF EngineKnown(m) THEN NormalArch(m.server) ELSE None
  IN When(host # None /\ server # None /\ host # server, Finding("arch-emulated", "WARN"))
     \cup When(EngineKnown(m) /\ m.cgroup = 1, Finding("cgroup-v1", "WARN"))
     \cup When(EngineKnown(m) /\ m.driver \in LEGACY_STORAGE_DRIVERS,
               Finding("storage-driver-legacy", "WARN"))
     \cup When(DaemonOk(m) /\ m.reclaimable >= ReclaimableWarn, Finding("disk-reclaimable", "WARN"))
     \cup When(m.runtimes >= 2, Finding("multiple-runtimes", "INFO"))
     \cup When(DaemonOk(m) /\ ~m.buildx, Finding("buildkit-unavailable", "INFO"))

(* ContainerProbe.run *)
Probed(m) ==
  When(m.docker = "ok" /\ ~DaemonOk(m), Finding("docker-daemon", "BLOCKED"))
  \cup When(m.docker = "absent", Finding("docker-missing", "INFO"))
  \cup DepthFindings(m)
  \cup When(DaemonOk(m), Finding("healthy", "PASS"))

Needed(project) ==
  project.files # {} \/ project.policy \cap {"devcontainer", "compose", "docker"} # {}

(* evaluate; m is None when the probe failed or its data did not validate. *)
(* A range for docker is one more requirement (PolicyCheck) and left out.  *)
PackFindings(m, project) ==
  IF ~Needed(project) THEN {}
  ELSE IF m = None THEN {Finding("state-unknown", "UNKNOWN")}
  ELSE When(m.docker # "ok" /\ ~m.podman, Finding("docker-missing", "BLOCKED"))
       \cup When(m.docker = "ok" /\ ~DaemonOk(m), Finding("docker-daemon-unreachable", "BLOCKED"))
       \cup When("devcontainer" \in project.policy /\ "devcontainer" \notin project.files,
                 Finding("devcontainer-required", "WARN"))

Report(m, project) ==
  (IF m = None THEN {} ELSE Probed(m)) \cup PackFindings(m, project)

States(m, project) == {f.state : f \in Report(m, project)}

-----------------------------------------------------------------------------

(* A project that needs containers is not told READY on a machine that has *)
(* no engine to build it with, nor on one nothing is known of; an engine   *)
(* that is called healthy answered (rules/packs/containers.py).            *)
EngineIsThereAt(m, project) ==
  /\ (Needed(project) /\ States(m, project) \cap {"BLOCKED", "UNKNOWN"} = {}) =>
       m # None /\ IF m.docker = "ok" THEN m.info = "up" ELSE m.podman
  /\ (m # None /\ Finding("healthy", "PASS") \in Report(m, project)) =>
       "BLOCKED" \notin States(m, project)

(* Starting the engine removes every blocker about containers, and two     *)
(* spellings of one architecture are never an emulation.                   *)
StartingTheEngineHelpsAt(m, project) ==
  m # None =>
    LET started == [m EXCEPT !.docker = "ok", !.info = "up"]
    IN /\ "BLOCKED" \notin States(started, project)
       /\ \A a \in DOMAIN Spellings, one, other \in {m.host, m.server} :
            (one \in Spellings[a] /\ other \in Spellings[a]) =>
              Finding("arch-emulated", "WARN")
                \notin Report([started EXCEPT !.host = one, !.server = other], project)

=============================================================================
