------------------------------- MODULE Checkout -------------------------------
(***************************************************************************)
(* The checkout a project is built from: what git says of it               *)
(* (git/health.py, probes/git_checkout.py), the ports and services it      *)
(* declares (services/ports.py, probes/ports.py), its .env files           *)
(* (envvars/analysis.py), its environment managers                         *)
(* (envmanagers/diagnostics.py) and the clock                              *)
(* (network/diagnostics.py).                                               *)
(***************************************************************************)
EXTENDS Integers, Sequences, FiniteSets, SequencesExt

CONSTANT None

Finding(rule, state, told) == IF told THEN {[rule |-> rule, state |-> state]} ELSE {}

Accusations(findings) == {f \in findings : f.state \in {"WARN", "ERROR", "BLOCKED"}}

-----------------------------------------------------------------------------
(* Git.  A configuration is the sequence of its entries [scope, key,       *)
(* value], the outermost scope first; an empty value is None.  Git lists   *)
(* keys in lower case, and a git without --show-scope lists nothing.       *)

_config_value(entries, key) ==
  LET set == {i \in DOMAIN entries : entries[i].key = key}
  IN IF set = {} THEN None ELSE entries[CHOOSE i \in set : \A j \in set : j <= i].value

AskedOneByOne == <<"user.signingkey", "credential.helper", "filter.lfs.smudge">>

_read_config(g) ==
  IF g.scopes /\ g.config # <<>> THEN g.config
  ELSE LET Asked(key) == [scope |-> "unknown", key |-> key, value |-> _config_value(g.config, key)]
       IN SelectSeq([k \in DOMAIN AskedOneByOne |-> Asked(AskedOneByOne[k])],
                    LAMBDA e : e.value # None)

BUNDLED_CREDENTIAL_HELPERS == {"store", "cache", "osxkeychain"}

_helper_resolves(g, name) ==
  name = "custom" \/ name \in BUNDLED_CREDENTIAL_HELPERS \cup g.helpers

_credential_helpers(g) ==
  {e.value : e \in {f \in ToSet(_read_config(g)) : f.key = "credential.helper"}} \ {None}

Lfs(g) ==
  IF ~g.lfs_required THEN {}
  ELSE IF ~g.lfs_available THEN Finding("lfs-required-not-installed", "BLOCKED", TRUE)
  ELSE IF _config_value(_read_config(g), "filter.lfs.smudge") = None
    THEN Finding("lfs-not-initialised", "ERROR", TRUE)
  ELSE Finding("lfs-ready", "PASS", TRUE)

(* A submodule that is there, or whose modules are.                        *)
Completeness(g) ==
  Finding("submodules-uninitialised", "ERROR", \E s \in g.submodules : ~s.checkout /\ ~s.modules)
  \cup Finding("sparse-checkout-active", "INFO",
               _config_value(_read_config(g), "core.sparseCheckout") = "true")
  \cup Finding("shallow-clone", "WARN", g.shallow)
  \cup Finding("partial-clone", "INFO",
               _config_value(_read_config(g), "remote.origin.partialclonefilter") # None)

Credentials(g) ==
  Finding("credential-helper-missing", "WARN",
          \E h \in _credential_helpers(g) : ~_helper_resolves(g, h))
  \cup Finding("credential-store-plaintext", "INFO", "store" \in _credential_helpers(g))

GitCheckout(g) == IF g.is_repo THEN Lfs(g) \cup Completeness(g) \cup Credentials(g) ELSE {}

-----------------------------------------------------------------------------
(* Ports.  A declaration is [port, file, service]; services that are known *)
(* by their name or by that of their image have a port of their own.       *)

KNOWN_SERVICES == [postgres |-> 5432, redis |-> 6379, minio |-> 9000]

KnownPorts == {KNOWN_SERVICES[s] : s \in DOMAIN KNOWN_SERVICES}

collect_port_declarations(written) ==
  LET Add(kept, d) ==
        IF \E i \in DOMAIN kept : kept[i].port = d.port /\ kept[i].file = d.file
        THEN kept ELSE Append(kept, d)
  IN FoldLeft(Add, <<>>, SelectSeq(written, LAMBDA d : d.port \in 1..65535))

Busy(decls, busy) == {i \in DOMAIN decls : decls[i].port \in busy}

Known(d) == SelectSeq(<<d.service, d.image>>, LAMBDA name : name \in DOMAIN KNOWN_SERVICES)

infer_required_services(decls) ==
  LET Claim(inferred, service, port) == (service :> port) @@ inferred
      Named(inferred, d) ==
        LET free == SelectSeq(Known(d), LAMBDA s : s \notin DOMAIN inferred)
        IN IF free = <<>> THEN inferred ELSE Claim(inferred, free[1], d.port)
      Numbered(inferred, d) ==
        IF d.port \in KnownPorts /\ \A s \in DOMAIN inferred : inferred[s] # d.port
        THEN LET services == {s \in DOMAIN KNOWN_SERVICES : KNOWN_SERVICES[s] = d.port}
             IN IF services \subseteq DOMAIN inferred THEN inferred
                ELSE Claim(inferred, CHOOSE s \in services \ DOMAIN inferred : TRUE, d.port)
        ELSE inferred
  IN FoldLeft(Numbered, FoldLeft(Named, <<>>, decls), decls)

PortsExit(written, busy) ==
  IF Busy(collect_port_declarations(written), busy) # {} THEN "BLOCKED" ELSE "READY"

(* The probe looks the owner up in words that only Windows prints.         *)
PortsInUse(platform, busy, common) == IF platform = "windows" THEN busy \cap common ELSE {}

-----------------------------------------------------------------------------
(* Names: the files that set them, in order, as [file, names].             *)

duplicated(files) ==
  {n \in UNION {f.names : f \in files} : Cardinality({f \in files : n \in f.names}) > 1}

env_ok(files) == duplicated(files) = {}

(* File names and patterns are sequences of parts: ".env.local" is          *)
(* <<".env", ".local">>.                                                   *)
is_ignored(patterns, name) == \E p \in patterns : IsPrefix(name, p)

dotenv_safety_scan(patterns, file) ==
  LET risk == ~is_ignored(patterns, file.name)
      Graded(bad) == IF risk THEN "critical" ELSE bad
  IN {IF risk /\ file.name # <<".env", ".example">> THEN "critical" ELSE "info"}
     \cup (IF file.secrets THEN {Graded("warn")} ELSE {})

-----------------------------------------------------------------------------
(* Environment managers: the files that are there, the versions each tool  *)
(* is pinned to, sequences of numbers, and those that answer.              *)

inventory_findings(files) ==
  (IF ".tool-versions" \in files /\ "mise.toml" \in files THEN {"duplicate pinning"} ELSE {})
  \cup (IF "flake.nix" \in files /\ "flake.lock" \notin files THEN {"unlocked flake"} ELSE {})
  \cup (IF "devbox.json" \in files /\ "devbox.lock" \notin files THEN {"unlocked devbox"} ELSE {})

parse_tool_versions(tool, versions) ==
  {[name |-> tool, version |-> versions[i]] : i \in DOMAIN versions}

pinned_vs_active(pins, active) ==
  {p \in pins : active[p.name] # None /\ p.version # <<>> /\ active[p.name][1] # p.version[1]}

ManagersWarn(files, pins, active) ==
  inventory_findings(files) # {} \/ pinned_vs_active(pins, active) # {}

(* The clock, against the date a server gave.                              *)
check_clock(clock) ==
  IF ~clock.allowed THEN clock.year \in 2023..2035
  ELSE clock.skew = None \/ (clock.skew < 300 /\ clock.skew > -300)

-----------------------------------------------------------------------------
(* An old git, which is asked for one key after the other, accuses of      *)
(* nothing a new one does not, and neither a large-file filter nor a       *)
(* helper that both name is lost (health.py:321).                          *)
OldGitAgreesAt(g) ==
  LET old == [g EXCEPT !.scopes = FALSE]
  IN /\ Accusations(GitCheckout(old)) \subseteq Accusations(GitCheckout(g))
     /\ Lfs(old) = Lfs(g)

(* Of several scopes the innermost decides on the filter, and emptying it  *)
(* there is to have none (health.py:170-175).                              *)
InnermostDecidesAt(g) ==
  \A v \in {None, "smudge"} :
    LET set == [g EXCEPT !.config = Append(@, [scope |-> "local", key |-> "filter.lfs.smudge",
                                               value |-> v])]
    IN g.is_repo /\ g.lfs_required /\ g.lfs_available
         => (Accusations(Lfs(set)) = {} <=> v # None)

(* Disagreement: git lists the key in lower case.                          *)
SparseIsToldAt(g) ==
  g.is_repo /\ _config_value(g.config, "core.sparsecheckout") = "true"
    => Finding("sparse-checkout-active", "INFO", TRUE) \subseteq GitCheckout(g)

(* Whatever order the files declare their ports in: `ports` is blocked     *)
(* exactly when a declared port is taken, and every service that has a     *)
(* name or a port of its own is probed, on a port that is declared.        *)
PortsAreCoveredAt(written, busy) ==
  LET decls    == collect_port_declarations(written)
      inferred == infer_required_services(decls)
      valid    == {d \in ToSet(written) : d.port \in 1..65535}
  IN /\ (PortsExit(written, busy) = "BLOCKED") <=> \E d \in valid : d.port \in busy
     /\ \A s \in DOMAIN inferred : \E d \in valid : d.port = inferred[s]
     /\ \A i \in DOMAIN decls : Known(decls[i]) # <<>> => \E s \in ToSet(Known(decls[i])) : s \in DOMAIN inferred
     /\ \A d \in valid : d.port \in KnownPorts =>
          \E s \in DOMAIN inferred : inferred[s] = d.port \/ KNOWN_SERVICES[s] = d.port

(* Disagreement: a service is not probed if another one, declared before it*)
(* in the same file, has the same port or claims its name.                 *)
EveryServiceIsProbedAt(written) ==
  LET inferred == infer_required_services(collect_port_declarations(written))
  IN \A d \in ToSet(written) : d.port \in 1..65535 /\ d.service \in DOMAIN KNOWN_SERVICES
       => inferred[d.service] = d.port

(* Disagreement: on Linux a busy port is told too.                         *)
BusyPortsAreToldAt(platform, busy, common) == PortsInUse(platform, busy, common) = busy \cap common

(* A file ignored under its own name is never critical, one that no        *)
(* pattern resembles always is unless it is the template, and listing one  *)
(* more pattern never makes it worse (analysis.py:180-199).                *)
SecretsAreGradedAt(patterns, file) ==
  /\ file.name \in patterns => "critical" \notin dotenv_safety_scan(patterns, file)
  /\ patterns = {} /\ file.name # <<".env", ".example">>
       => "critical" \in dotenv_safety_scan(patterns, file)
  /\ \A p \in {file.name, <<".env">>, <<".env", ".local">>} :
       "critical" \notin dotenv_safety_scan(patterns, file)
         => "critical" \notin dotenv_safety_scan(patterns \cup {p}, file)

(* Disagreement: git ignores a file by a pattern that is its name, or by   *)
(* one that ends in a star and begins it.                                  *)
IgnoredMeansIgnoredAt(patterns, file) ==
  is_ignored(patterns, file.name)
    <=> \E p \in patterns : p = file.name \/ (Last(p) = "*" /\ IsPrefix(Front(p), file.name))

(* Disagreement: a template and the file made of it duplicate nothing.     *)
TemplatesAreFineAt(files) ==
  (\A f \in files : f.file \in {".env", ".env.example"}) => env_ok(files)

(* Committing a lock never adds a warning, running what the one version    *)
(* says never does, and another major version does.                        *)
PinsAreHonouredAt(files, tool, versions, active) ==
  LET pins == parse_tool_versions(tool, versions)
  IN /\ \A lock \in {"flake.lock", "devbox.lock"} :
          ManagersWarn(files \cup {lock}, pins, active) => ManagersWarn(files, pins, active)
     /\ Len(versions) = 1 /\ inventory_findings(files) = {} /\ versions[1] # <<>> /\ active[tool] # None
          => (ManagersWarn(files, pins, active) <=> active[tool][1] # versions[1][1])

(* Disagreement: with a fallback version, the first one may run.           *)
FallbacksAreFineAt(tool, versions, active) ==
  versions # <<>> /\ active[tool] = versions[1]
    => pinned_vs_active(parse_tool_versions(tool, versions), active) = {}

CheckoutIsReadTrulyAt(kind, c) ==
  CASE kind = "git"      -> OldGitAgreesAt(c) /\ InnermostDecidesAt(c)
    [] kind = "ports"    -> PortsAreCoveredAt(c.written, c.busy)
    [] kind = "dotenv"   -> SecretsAreGradedAt(c.patterns, c.file)
    [] kind = "managers" -> PinsAreHonouredAt(c.files, c.tool, c.versions, c.active)
=============================================================================
