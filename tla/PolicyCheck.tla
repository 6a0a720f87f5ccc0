------------------------------ MODULE PolicyCheck ------------------------------
(***************************************************************************)
(* `devrepro check`: a policy file and the layers it extends are read and  *)
(* merged (project/compose.py), the machine is scanned, the rule packs     *)
(* compare the two (rules/base.py, rules/packs/common.py), and the findings*)
(* are shown with the layer they are owed to (cli/commands/diagnostics.py).*)
(*                                                                         *)
(* One tool stands for the tools of a policy: each is merged and checked   *)
(* by itself.  A range is known by the versions it accepts.  What a file   *)
(* says is chosen when it is read.                                         *)
(***************************************************************************)
EXTENDS Integers, Sequences, FiniteSets, SequencesExt

CONSTANTS
  Files,       \* policy files
  Start,       \* the file the command was given
  Contents,    \* what a file may say: [required, bad : Specs or None, names : env names]
  Extensions,  \* the lists of files an `extends` may resolve to
  Specs,       \* ranges that can be parsed
  AcceptedBy,     \* the versions each of them accepts
  Versions,    \* versions that can be parsed
  None,        \* a key that is not there, a tool that is not there
  AnyVersion,  \* the range "*"
  Garbled,     \* a version or a range that cannot be parsed
  MaxDepths    \* the values of MAX_POLICY_DEPTH (8 in the code)

ASSUME FilesAssumption  == Start \in Files /\ IsFiniteSet(Files)
ASSUME LinksAssumption  == Extensions \subseteq Seq(Files) /\ MaxDepths \subseteq Nat
ASSUME RangesAssumption == AcceptedBy \in [Specs \cup {AnyVersion} -> SUBSET Versions]
ASSUME NamesAssumption  == None \notin Files \cup Specs
ASSUME SaidAssumption   ==
  \A said \in Contents :
    said = [required |-> said.required, bad |-> said.bad, names |-> said.names]

VARIABLES
  limit,     \* MAX_POLICY_DEPTH
  frontier,  \* layers still to be read, with their depth
  layers,    \* the files read, nearest first
  extends,   \* what each file read extends
  contents,  \* what each file read says
  status,    \* "loading", "invalid", "loaded" or "checked"
  facts,     \* what the scan found: manifest range, active version, a pack that raises
  findings,
  blamed     \* the findings printed as "required by" a layer, with that layer

checkVars == <<limit, frontier, layers, extends, contents, status, facts, findings, blamed>>

Keys == {"required", "bad"}

NoFacts == [manifest |-> None, active |-> None, raises |-> FALSE]

Facts == [manifest : Specs \cup {None, AnyVersion, Garbled},
          active   : Versions \cup {None, Garbled},
          raises   : BOOLEAN]

-----------------------------------------------------------------------------

CheckInit ==
  /\ limit \in MaxDepths
  /\ frontier = <<<<Start, 0>>>>
  /\ layers = <<>>
  /\ extends = [f \in Files |-> <<>>]
  /\ contents = [f \in Files |-> None]
  /\ status = "loading"
  /\ facts = NoFacts
  /\ findings = {}
  /\ blamed = {}

Seen(file) == \E i \in 1..Len(layers) : layers[i] = file

TooDeep(depth) == depth >= limit

PeekNext == frontier                   \* mutant: looked at and not taken

PopNext == Tail(frontier)

Nearer(rest, parents, depth) ==        \* mutant: depth first
  [i \in 1..Len(parents) |-> <<parents[i], depth + 1>>] \o rest

(* frontier.extend: breadth first, so the file listed first is nearer.     *)
Further(rest, parents, depth) ==
  rest \o [i \in 1..Len(parents) |-> <<parents[i], depth + 1>>]

(* One round of the loop of _chain, with the parts of _extends_of and      *)
(* load_composed_policy that read the same file.                           *)
ReadLayer ==
  /\ status = "loading" /\ frontier # <<>>
  /\ LET file  == Head(frontier)[1]
         depth == Head(frontier)[2]
     IN \/ /\ Seen(file)
           /\ frontier' = PopNext
           /\ UNCHANGED <<layers, extends, contents, status>>
        \/ /\ ~Seen(file) /\ TooDeep(depth)
           /\ status' = "invalid"
           /\ UNCHANGED <<frontier, layers, extends, contents>>
        \/ /\ ~Seen(file) /\ ~TooDeep(depth)
           /\ status' = "invalid"      \* not TOML, a URL, or extends what is not there
           /\ UNCHANGED <<frontier, layers, extends, contents>>
        \/ /\ ~Seen(file) /\ ~TooDeep(depth)
           /\ \E parents \in Extensions, said \in Contents :
                /\ extends'  = [extends EXCEPT ![file] = parents]
                /\ contents' = [contents EXCEPT ![file] = said]
                /\ frontier' = Further(PopNext, parents, depth)
           /\ layers' = Append(layers, file)
           /\ UNCHANGED status
  /\ UNCHANGED <<limit, facts, findings, blamed>>

(* `while frontier` is over: everything was read. *)
Merge ==
  /\ status = "loading" /\ frontier = <<>>
  /\ status' = "loaded"
  /\ UNCHANGED <<limit, frontier, layers, extends, contents, facts, findings, blamed>>

-----------------------------------------------------------------------------

Mentions(said, file, key) == said[file][key] # None

(* The loop of _merge over the layers, nearest first: the first layer that *)
(* mentions a key owns it and every later one is overridden.               *)
AddMention(entry, file) ==
  IF entry.owner = None THEN [owner |-> file, overridden |-> {}]
  ELSE [owner |-> entry.owner, overridden |-> entry.overridden \cup {file}]

Provenance(said, key) ==
  LET after[n \in 0..Len(layers)] ==
        IF n = 0 THEN [owner |-> None, overridden |-> {}]
        ELSE IF Mentions(said, layers[n], key) THEN AddMention(after[n - 1], layers[n])
        ELSE after[n - 1]
  IN after[Len(layers)]

Owner(said, key)      == Provenance(said, key).owner
Overridden(said, key) == Provenance(said, key).overridden

Merged(said, key) == IF Owner(said, key) = None THEN None ELSE said[Owner(said, key)][key]

(* The policy the layers make when that is what they say.                  *)
Policy(said) == [key \in Keys |-> Merged(said, key)]

(* _merge_env_names: names accumulate. *)
Names == UNION {contents[layers[i]].names : i \in 1..Len(layers)}

-----------------------------------------------------------------------------

(* runtime_findings: the manifest's range, unless it has none or "*". *)
RequiredSpec(policy, manifest) ==
  IF manifest \in {None, AnyVersion} /\ policy["required"] # None
  THEN policy["required"] ELSE manifest

Finding(rule, state) == [rule |-> rule, state |-> state]

(* A known-bad range that cannot be parsed is passed over. *)
KnownBad(policy, active) ==
  IF policy["bad"] \in Specs /\ active \in AcceptedBy[policy["bad"]]
  THEN {Finding("known-bad-version", "ERROR")} ELSE {}

(* check_version_requirement *)
CheckVersion(policy, spec, active) ==
  CASE active = None -> {Finding("missing", "BLOCKED")}
    [] active # None /\ Garbled \in {active, spec} ->
         {Finding("version-unparseable", "UNKNOWN")}
    [] OTHER ->
         KnownBad(policy, active)
         \cup {IF active \in AcceptedBy[spec] THEN Finding("version-ok", "PASS")
                                           ELSE Finding("version-mismatch", "ERROR")}

EvaluateQuietly(policy, f) ==             \* mutant: a pack that raises is dropped
  IF f.raises \/ RequiredSpec(policy, f.manifest) = None THEN {}
  ELSE CheckVersion(policy, RequiredSpec(policy, f.manifest), f.active)

(* RuleEngine.evaluate over the pack of the tool. *)
Evaluate(policy, f) ==
  CASE f.raises -> {Finding("failed", "UNKNOWN")}
    [] ~f.raises /\ RequiredSpec(policy, f.manifest) = None -> {}
    [] OTHER -> CheckVersion(policy, RequiredSpec(policy, f.manifest), f.active)

(* _POLICY_RULE_SUFFIXES *)
PolicyRules ==
  {"missing", "version-mismatch", "version-ok", "known-bad-version", "version-unparseable"}

(* _policy_source_for: under required_runtimes, whatever the rule is about.*)
PolicySource(found) ==
  IF found.rule \in PolicyRules THEN Owner(contents, "required") ELSE None

(* The lines "required by: ..." of a report on more than one layer.        *)
Attributed(found) ==
  {[rule |-> x.rule, layer |-> PolicySource(x)] :
     x \in {y \in found : Len(layers) > 1 /\ y.state # "PASS" /\ PolicySource(y) # None}}

Check ==
  /\ status = "loaded"
  /\ status' = "checked"
  /\ facts' \in Facts
  /\ findings' = Evaluate(Policy(contents), facts')
  /\ blamed' = Attributed(findings')
  /\ UNCHANGED <<limit, frontier, layers, extends, contents>>

CheckNext == ReadLayer \/ Merge \/ Check

CheckSpec == CheckInit /\ [][CheckNext]_checkVars

(* exit_for: 0 READY, 1 READY_WITH_WARNINGS, 2 BLOCKED *)
ExitCode ==
  CASE \E x \in findings : x.state \in {"BLOCKED", "ERROR"} -> 2
    [] (\A x \in findings : x.state \notin {"BLOCKED", "ERROR"})
         /\ (\E x \in findings : x.state \in {"WARN", "UNKNOWN"}) -> 1
    [] OTHER -> 0

-----------------------------------------------------------------------------

(* Every variable holds a value the code could give it. *)
PolicyTypeOK ==
  /\ limit \in MaxDepths
  /\ frontier \in Seq(Files \X (0..limit))
  /\ layers \in Seq(Files) /\ IsInjective(layers)
  /\ extends \in [Files -> Extensions \cup {<<>>}]
  /\ contents \in [Files -> Contents \cup {None}]
  /\ status \in {"loading", "invalid", "loaded", "checked"}
  /\ facts \in Facts
  /\ blamed \subseteq [rule : PolicyRules, layer : Files]

Loaded == status \in {"loaded", "checked"}

(* The files at most n links away from the file that was given. *)
Within[n \in Nat] ==
  IF n = 0 THEN {Start}
  ELSE Within[n - 1] \cup UNION {Range(extends[f]) : f \in Within[n - 1]}

(* "The nearest layer wins": no layer fewer links away mentions a key the  *)
(* owner decided, and the layers recorded as overridden are the others     *)
(* that mention it - "nothing merges silently within one key"              *)
(* (compose.py:22).                                                        *)
NearestLayerWins ==
  Loaded => \A key \in Keys :
    LET mentioning == {f \in Range(layers) : Mentions(contents, f, key)}
    IN /\ \A f \in mentioning, n \in 0..Cardinality(Files) :
            f \in Within[n] => Owner(contents, key) \in Within[n]
       /\ Overridden(contents, key) = mentioning \ {Owner(contents, key)}

(* A policy that loads is complete: every file reachable by `extends` is a *)
(* layer, diamonds and loops included, so no requirement of the org is     *)
(* dropped; names accumulate over all of them (compose.py:301).            *)
NothingIsLeftOut ==
  Loaded =>
    /\ Range(layers) = Within[Cardinality(Files)]
    /\ \A f \in Within[Cardinality(Files)] : contents[f].names \subseteq Names

(* A chain that is too deep is refused rather than cut: what is loaded is  *)
(* never more than MAX_POLICY_DEPTH layers deep.                           *)
DepthIsBounded == Loaded => Within[limit - 1] = Within[Cardinality(Files)]

(* Silence is not consent: a machine is called ready only when what the    *)
(* policy or the manifest requires was compared and found satisfied, and   *)
(* no known-bad range that can be read covers the version.                 *)
ReadyIsEarned ==
  (status = "checked" /\ ExitCode = 0) =>
    LET policy == Policy(contents)
        spec   == RequiredSpec(policy, facts.manifest)
    IN /\ ~facts.raises
       /\ spec # None =>
            /\ facts.active \in AcceptedBy[spec]
            /\ policy["bad"] \in Specs => facts.active \notin AcceptedBy[policy["bad"]]

(* The findings, had this layer stated that range.                         *)
FindingsHad(layer, range) ==
  Evaluate(Policy([contents EXCEPT ![layer].required = range]), facts)

(* "... tells you whose rule you are failing and who to argue with"        *)
(* (diagnostics.py:87).  Where the manifest leaves the range to the policy *)
(* (one that does not is blamed on the policy too: README, section 6), the *)
(* layer a mismatch names is the one to argue with: had it stated a range  *)
(* that accepts the version, the mismatch would be gone, and no word of a  *)
(* layer it overrides would have removed it.                               *)
Mismatch == Finding("version-mismatch", "ERROR")

AttributionIsTrue ==
  \A b \in blamed :
    b.rule = "version-mismatch" /\ facts.manifest \in {None, AnyVersion} =>
      \A range \in Specs :
        /\ facts.active \in AcceptedBy[range] => Mismatch \notin FindingsHad(b.layer, range)
        /\ \A f \in Overridden(contents, "required") : Mismatch \in FindingsHad(f, range)

(* "A finding is attributable to a policy layer only when the policy is   *)
(* what caused it" (diagnostics.py:50).  Not so of a known-bad version: it *)
(* is said to be required by the layer that states the range, which may    *)
(* say nothing of bad versions.                                            *)
KnownBadIsAttributed ==
  \A b \in blamed : b.rule = "known-bad-version" => Mentions(contents, b.layer, "bad")

(* A policy that loads is all of its layers and decides each key by the    *)
(* nearest (compose.py, load_composed_policy).                             *)
PolicyIsComposed == PolicyTypeOK /\ NearestLayerWins /\ NothingIsLeftOut /\ DepthIsBounded

(* Neither the verdict of `check` nor the layer it names is unfounded.     *)
CheckIsTruthful == ReadyIsEarned /\ AttributionIsTrue

=============================================================================
