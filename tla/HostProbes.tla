------------------------------ MODULE HostProbes ------------------------------
(***************************************************************************)
(* What the probes of the host make of what they could read of it          *)
(* (probes/hostperf.py, sdks.py, gpu.py, caches.py, abi.py, registries.py, *)
(* network.py, hygiene.py and the modules of platforms/ and network/ they  *)
(* call).  Each takes the readings of one machine, None being a command    *)
(* that did not answer or whose answer was not understood, to the set of   *)
(* its findings.                                                           *)
(***************************************************************************)
EXTENDS Integers, Sequences, FiniteSets

CONSTANT None

Finding(rule, state, told) == IF told THEN {[rule |-> rule, state |-> state]} ELSE {}

Accusations(findings) == {f \in findings : f.state \in {"WARN", "ERROR", "BLOCKED"}}

(* A path lies in a directory, a version continues a shorter one.          *)
Begins(s, t) == Len(s) <= Len(t) /\ SubSeq(t, 1, Len(s)) = s

(* Versions are sequences of numbers, compared as Python compares tuples.  *)
AtLeast(v, w) ==
  \/ Begins(w, v)
  \/ \E i \in 1..Len(v) :
       i <= Len(w) /\ v[i] > w[i] /\ \A j \in 1..(i - 1) : v[j] = w[j]

-----------------------------------------------------------------------------
(* The file system: paths are sequences of names, mounts are listed in the *)
(* order in which they were mounted.                                       *)

SLOW_FILESYSTEMS ==
  {"9p", "drvfs", "cifs", "smbfs", "smb3", "nfs", "nfs4", "afpfs", "fuse.sshfs", "virtiofs"}

Covering(mounts, path) == {i \in DOMAIN mounts : Begins(mounts[i].point, path)}

(* parse_proc_mounts sorts by length, and keeps the order of equal ones.   *)
Deciding(mounts, path) ==
  CHOOSE i \in Covering(mounts, path) : \A j \in Covering(mounts, path) :
    \/ Len(mounts[i].point) > Len(mounts[j].point)
    \/ Len(mounts[i].point) = Len(mounts[j].point) /\ i <= j

WindowsDrive(path) == Len(path) > 2 /\ path[1] = "mnt" /\ path[2] = "c"

classify_path(m) ==
  IF m.platform = "windows" THEN (IF m.unc THEN "slow" ELSE "local")
  ELSE IF m.wsl /\ WindowsDrive(m.root) THEN "slow"
  ELSE IF m.mounts = None \/ Covering(m.mounts, m.root) = {} THEN "unknown"
  ELSE IF m.mounts[Deciding(m.mounts, m.root)].fstype \in SLOW_FILESYSTEMS THEN "slow"
  ELSE "local"

Filesystem(m) == Finding("slow-filesystem", "WARN", classify_path(m) = "slow")

(* Defender: `hot` are the directories of the project a build writes to.   *)
Unexcluded(m) ==
  {d \in m.hot : ~\E e \in m.exclusions : Begins(e, m.root \o d)}

Antivirus(m) ==
  IF m.hot = {} THEN {}
  ELSE IF m.exclusions = None THEN Finding("antivirus-unknown", "UNKNOWN", TRUE)
  ELSE IF m.realtime = FALSE THEN Finding("antivirus-not-defender", "INFO", TRUE)
  ELSE Finding("antivirus-scans-build-dirs", "INFO", Unexcluded(m) # {})

(* The clock.  [synchronised, self_referential], as the parsers say. *)
Sync(synchronised, self_referential) ==
  [synchronised |-> synchronised, self_referential |-> self_referential]

parse_w32tm(answer) ==
  CASE answer = "hardware" -> Sync(FALSE, TRUE)
    [] answer = "server"   -> Sync(TRUE, FALSE)
    [] answer = "stopped"  -> Sync(FALSE, FALSE)
    [] answer = None       -> Sync(None, FALSE)

parse_timedatectl(t) ==
  IF t.synced = None /\ t.service = None THEN Sync(None, FALSE)
  ELSE Sync(t.synced = TRUE \/ t.service = TRUE, FALSE)

parse_chronyc(c) ==
  IF c.reference = None THEN Sync(None, FALSE)
  ELSE Sync(c.stratum # 0, c.reference = "hardware")

ClockSource(m) ==
  LET sync == IF m.platform = "windows" THEN parse_w32tm(m.w32tm)
              ELSE IF m.timedatectl # None THEN parse_timedatectl(m.timedatectl)
              ELSE IF m.chrony # None THEN parse_chronyc(m.chrony)
              ELSE Sync(None, FALSE)
  IN Finding("clock-unsynchronised", "WARN", sync.synchronised = FALSE \/ sync.self_referential)

-----------------------------------------------------------------------------
(* SDKs.  A version of .NET is <<major, minor, hundreds + patch>>.         *)

SameFeatureBand(pinned, v) ==
  /\ Len(pinned) >= 3 /\ Len(v) >= 3
  /\ pinned[1] = v[1] /\ pinned[2] = v[2] /\ pinned[3] \div 100 = v[3] \div 100
  /\ v[3] >= pinned[3]

satisfies_global_json(pinned, installed, rollForward) ==
  /\ installed # {}
  /\ \/ pinned \in installed
     \/ /\ rollForward \in {None, "disable", "latestPatch"}
        /\ \E v \in installed : SameFeatureBand(pinned, v)
     \/ rollForward \in {"major", "latestMajor"}
     \/ /\ rollForward \notin {None, "disable", "latestPatch", "major", "latestMajor"}
        /\ \E v \in installed : AtLeast(v, pinned)

Dotnet(m) ==
  IF m.pinned = None THEN {}
  ELSE IF m.sdks \in {None, {}} THEN Finding("sdk-list-unavailable", "UNKNOWN", TRUE)
  ELSE IF satisfies_global_json(m.pinned, m.sdks, m.rollForward)
    THEN Finding("global-json-satisfied", "PASS", TRUE)
  ELSE Finding("global-json-sdk-missing", "BLOCKED", TRUE)

(* A java whose version was not understood has one all the same ("?").    *)
Java(m) ==
  Finding("home-path-mismatch", "WARN",
          m.home /\ m.fromHome # None /\ m.fromPath # None /\ m.fromHome # m.fromPath)
  \cup Finding("multiple-jdks", "INFO", m.jdks > 1)

(* compare_toolkit_to_driver: major versions only. *)
compare_toolkit_to_driver(toolkit, ceiling) ==
  IF toolkit = None \/ ceiling = None THEN None ELSE toolkit[1] <= ceiling[1]

mixed_architectures(capabilities) == Cardinality(capabilities \ {None}) > 1

CudaFindings(m) ==
  LET fits == compare_toolkit_to_driver(m.toolkit, m.ceiling)
  IN Finding("cuda-driver-too-old", "WARN", fits = FALSE)
     \cup Finding("cuda-compatible", "PASS", fits = TRUE)
     \cup Finding("cuda-toolkit-absent", "INFO", fits = None /\ m.driver /\ m.toolkit = None)
     \cup Finding("mixed-architectures", "WARN", mixed_architectures(m.capabilities))

(* The rules of the ai-gpu profile, over what the probe found. *)
ai_gpu(m) ==
  Finding("no-accelerator", "WARN", ~m.driver /\ ~m.other)
  \cup Finding("cuda-toolkit-missing", "INFO", m.driver /\ m.toolkit = None)

Gpu(m) ==
  Finding("stack-detected", "INFO", TRUE) \cup CudaFindings(m)
  \cup (IF m.ai THEN ai_gpu(m) ELSE {})

-----------------------------------------------------------------------------
(* Caches: free space in GB, and the counters of ccache and sccache.       *)

LOW_DISK_BYTES          == 5
CRITICAL_DISK_BYTES     == 1
MIN_CALLS_FOR_A_VERDICT == 50
POOR_HIT_RATE           == 30   \* per cent

Disk(m) ==
  IF m.free = None THEN {}
  ELSE IF m.free < CRITICAL_DISK_BYTES THEN Finding("disk-critical", "BLOCKED", TRUE)
  ELSE Finding("disk-low", "WARN", m.free < LOW_DISK_BYTES)

CompilerCache(m) ==
  IF m.hits = None \/ m.misses = None \/ m.hits + m.misses < MIN_CALLS_FOR_A_VERDICT THEN {}
  ELSE LET poor == 100 * m.hits < POOR_HIT_RATE * (m.hits + m.misses)
       IN Finding("compiler-cache-ineffective", "WARN", poor)
          \cup Finding("compiler-cache-effective", "PASS", ~poor)
          \cup Finding("compiler-cache-full", "WARN",
                       {m.size, m.limit} \cap {None, 0} = {} /\ 100 * m.size >= 95 * m.limit)

(* A variable that names a directory that is not there is not believed.    *)
Relocations(m) == Finding("relocated", "INFO", \E c \in m.caches : c.override = "directory")

Caches(m) == Disk(m) \cup CompilerCache(m) \cup Relocations(m)

-----------------------------------------------------------------------------
(* The binary interface.                                                   *)

normalise_arch(arch) ==
  CASE arch \in {"amd64", "x86_64", "x64", "x86-64"}   -> "x86_64"
    [] arch \in {"i386", "i686", "x86", "ia32", "win32"} -> "x86"
    [] arch \in {"arm64", "aarch64", "armv8"}          -> "aarch64"
    [] OTHER -> None

Differ(a, b) ==
  {normalise_arch(a), normalise_arch(b)} \cap {None} = {} /\ normalise_arch(a) # normalise_arch(b)

COMMON_MANYLINUX == <<2, 28>>

Libc(libc) ==
  IF libc = None THEN {}
  ELSE IF libc.flavour = "musl" THEN Finding("musl-libc", "INFO", TRUE)
  ELSE LET low == libc.version # None /\ ~AtLeast(SubSeq(libc.version, 1, 2), COMMON_MANYLINUX)
       IN Finding("glibc-below-common-wheel-tag", "WARN", low) \cup Finding("glibc-ok", "PASS", ~low)

(* Under Rosetta the process is told x86_64 about the machine too.         *)
Abi(m) ==
  LET translated  == m.platform = "macos" /\ m.translated = TRUE
      host        == IF translated THEN "arm64" ELSE IF m.host # None THEN m.host ELSE m.interpreter
      interpreter == IF translated THEN "x86_64" ELSE m.interpreter
  IN Finding("translated-process", "WARN", translated)
     \cup Finding("interpreter-arch-mismatch", "WARN", ~translated /\ Differ(host, interpreter))
     \cup UNION {Finding(r, "WARN", Differ(m.runtimes[r], host)) : r \in DOMAIN m.runtimes}
     \cup (IF m.platform = "linux" THEN Libc(m.libc) ELSE {})

-----------------------------------------------------------------------------
(* Trust, network and hygiene.                                             *)

CA_BUNDLE_VARS ==
  [ node  |-> {"NODE_EXTRA_CA_CERTS"},
    python |-> {"REQUESTS_CA_BUNDLE", "SSL_CERT_FILE", "CURL_CA_BUNDLE", "PIP_CERT"},
    go    |-> {"SSL_CERT_FILE", "SSL_CERT_DIR"},
    git   |-> {"GIT_SSL_CAINFO", "GIT_SSL_CAPATH"},
    deno  |-> {"DENO_CERT"},
    cargo |-> {"CARGO_HTTP_CAINFO"} ]

Configured(m) == {e \in DOMAIN CA_BUNDLE_VARS : CA_BUNDLE_VARS[e] \cap DOMAIN m.bundles # {}}

ecosystems_without_custom_trust(m) ==
  IF Configured(m) = {} THEN {} ELSE DOMAIN CA_BUNDLE_VARS \ Configured(m)

(* `bundles` are the variables that are set, and whether the file is there *)
Registries(m) ==
  Finding("registry-override", "INFO", m.mirrors)
  \cup Finding("ca-bundle-missing", "ERROR",
               \E e \in DOMAIN CA_BUNDLE_VARS :
                 \E v \in CA_BUNDLE_VARS[e] \cap DOMAIN m.bundles : ~m.bundles[v])
  \cup Finding("trust-store-partial", "WARN", ecosystems_without_custom_trust(m) # {})

Network(m) ==
  IF ~m.allowed THEN Finding("checks-skipped", "INFO", TRUE)
  ELSE Finding("clock-skew", "ERROR", m.skew # None /\ (m.skew > 300 \/ m.skew < -300))
       \cup Finding("endpoint-unreachable", "WARN", FALSE \in m.endpoints)
       \cup Finding("endpoints-ok", "PASS", FALSE \notin m.endpoints)

(* detect_case_sensitivity: the first name with letters decides.  `entries`*)
(* says of each what its name with the case swapped is: None has no        *)
(* letters.                                                                *)
detect_case_sensitivity(entries) ==
  LET telling == {i \in DOMAIN entries : entries[i] \notin {None, "unreadable"}}
  IN IF telling = {} THEN None
     ELSE entries[CHOOSE i \in telling : \A j \in telling : i <= j] # "same file"

Hygiene(m) ==
  Finding("filesystem-case", "INFO", m.entries # None /\ detect_case_sensitivity(m.entries) # None)
  \cup Finding("reserved-filename", "ERROR", m.reserved)
  \cup Finding("symlinks-unavailable", "WARN", m.symlinks = FALSE)
  \cup Finding("non-utf8-locale", "WARN", ~m.utf8)
-----------------------------------------------------------------------------
Probe(probe, m) ==
  CASE probe = "filesystem" -> Filesystem(m)  [] probe = "antivirus"  -> Antivirus(m)
    [] probe = "clock"      -> ClockSource(m) [] probe = "dotnet"     -> Dotnet(m)
    [] probe = "java"       -> Java(m)        [] probe = "gpu"        -> Gpu(m)
    [] probe = "caches"     -> Caches(m)      [] probe = "abi"        -> Abi(m)
    [] probe = "registries" -> Registries(m)  [] probe = "network"    -> Network(m)
    [] probe = "hygiene"    -> Hygiene(m)

(* The readings a machine may fail to give.  Not timedatectl, whose silence *)
(* makes the probe ask chrony, nor the GPU driver, whose absence is news.   *)
Optional ==
  [ filesystem |-> {"mounts"},       antivirus |-> {"exclusions"},
    clock      |-> {"w32tm", "chrony"}, dotnet |-> {"sdks"},
    java       |-> {"fromHome", "fromPath"}, gpu |-> {"ceiling", "toolkit"},
    caches     |-> {"free", "hits", "misses", "size", "limit"},
    abi        |-> {"libc"},         registries |-> {},
    network    |-> {"skew"},         hygiene    |-> {"symlinks", "entries"} ]

(* A reading that fails, on whichever platform, accuses the machine of      *)
(* nothing it was not already accused of.                                  *)
UnreadAccusesNobodyAt(probe, m) ==
  \A f \in Optional[probe] :
    Accusations(Probe(probe, [m EXCEPT ![f] = None])) \subseteq Accusations(Probe(probe, m))

(* What is really mounted on a path is what was mounted last over it.      *)
TopMount(mounts, path) == mounts[CHOOSE i \in Covering(mounts, path) :
                                   \A j \in Covering(mounts, path) : j <= i]

Overmounted(mounts) ==
  \E i, j \in DOMAIN mounts : i < j /\ Begins(mounts[j].point, mounts[i].point)

(* Unless one mount hides another, the project is on a slow file system    *)
(* exactly when the mount it is really on is one (mounts.py:83).            *)
MountIsFoundAt(m) ==
  m.platform = "linux" /\ ~m.wsl /\ m.mounts # None /\ ~Overmounted(m.mounts)
    /\ Covering(m.mounts, m.root) # {}
      => ((classify_path(m) = "slow") <=> (TopMount(m.mounts, m.root).fstype \in SLOW_FILESYSTEMS))

(* Disagreement: also when an automounter's mount point was mounted over.  *)
TopMountDecidesAt(m) ==
  m.mounts # None /\ Covering(m.mounts, m.root) # {}
    => ((classify_path(m) = "slow") <=> (TopMount(m.mounts, m.root).fstype \in SLOW_FILESYSTEMS))

(* Excluding the project or a directory above it leaves nothing to scan.   *)
ExclusionCoversAt(m) ==
  m.exclusions # None
    => \A n \in 1..Len(m.root) :
         Unexcluded([m EXCEPT !.exclusions = @ \cup {SubSeq(m.root, 1, n)}]) = {}

(* What `dotnet` itself does with a global.json.                           *)
Resolves(pinned, v, rollForward) ==
  \/ v = pinned
  \/ /\ AtLeast(v, pinned)
     /\ CASE rollForward \in {None, "latestPatch"} -> SubSeq(v, 1, 2) = SubSeq(pinned, 1, 2)
                                                      /\ v[3] \div 100 = pinned[3] \div 100
          [] rollForward = "disable"  -> FALSE
          [] rollForward = "feature"  -> SubSeq(v, 1, 2) = SubSeq(pinned, 1, 2)
          [] rollForward = "minor"    -> v[1] = pinned[1]
          [] rollForward = "major"    -> TRUE

(* A build that works is not blocked (sdks.py:46-49), and installing one   *)
(* more SDK never turns an accepted machine into a blocked one.            *)
WorkingBuildPassesAt(m) ==
  m.pinned # None /\ m.sdks # None
    => /\ (\E v \in m.sdks : Resolves(m.pinned, v, m.rollForward))
            => Accusations(Dotnet(m)) = {}
       /\ \A S \in SUBSET m.sdks \ {{}} :
            Accusations(Dotnet(m)) # {} => Accusations(Dotnet([m EXCEPT !.sdks = S])) # {}

(* A runtime is accused exactly when it was built for another machine than *)
(* this one really is, also under translation (probes/abi.py:81-92).       *)
AbiIsTrueAt(m) ==
  m.host # None /\ m.translated # None
    => \A r \in DOMAIN m.runtimes :
         (\E f \in Abi(m) : f.rule = r) <=> Differ(m.runtimes[r], m.real)

(* Less space never reads better, and a cache that is hit more often is    *)
(* not called ineffective for it.                                          *)
CachesAreOrderedAt(m) ==
  /\ m.free # None =>
       \A less \in 0..m.free :
         Accusations(Disk(m)) # {} => Accusations(Disk([m EXCEPT !.free = less])) # {}
  /\ m.hits # None =>
       \A more \in m.hits..(m.hits + 20) :
         Finding("compiler-cache-effective", "PASS", TRUE) \subseteq CompilerCache(m)
           => Finding("compiler-cache-effective", "PASS", TRUE)
                \subseteq CompilerCache([m EXCEPT !.hits = more])

HostIsReadFairlyAt(scan) ==
  LET m == scan[2]
  IN /\ UnreadAccusesNobodyAt(scan[1], m)
     /\ CASE scan[1] = "filesystem" -> MountIsFoundAt(m)
          [] scan[1] = "antivirus"  -> ExclusionCoversAt(m)
          [] scan[1] = "dotnet"     -> WorkingBuildPassesAt(m)
          [] scan[1] = "abi"        -> AbiIsTrueAt(m)
          [] scan[1] = "caches"     -> CachesAreOrderedAt(m)
          [] OTHER -> TRUE
=============================================================================
