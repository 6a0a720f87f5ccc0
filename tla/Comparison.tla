------------------------------ MODULE Comparison ------------------------------
(***************************************************************************)
(* `devrepro diff` and `devrepro history`: two snapshots are compared      *)
(* (diff/engine.py) and what differs is told as drift                      *)
(* (snapshots/history.py, compute_drift).                                  *)
(*                                                                         *)
(* A snapshot here is what its comparison reads: the installations of the  *)
(* tools in the order they were found, [name, version, path, active], the  *)
(* requirements it fingerprinted, PATH, and the container engine (None, or *)
(* whether its daemon answers and what is behind it).  The platform, wsl   *)
(* and gpu axes are compared like the engine's.                            *)
(***************************************************************************)
EXTENDS Integers, Sequences, FiniteSets, FiniteSetsExt

CONSTANT None    \* absent, or a version that could not be read

Entry(component, name, class, a, b) ==
  [component |-> component, name |-> name, class |-> class, a |-> a, b |-> b]

Named(tools, n) == {i \in 1..Len(tools) : tools[i].name = n}
ToolNames(tools) == {tools[i].name : i \in 1..Len(tools)}

(* {t.name: t for t in tools}: of several installations the last stays.    *)
ToolMap(tools, n) == tools[Max(Named(tools, n))]

Compared(a, b) == ToolNames(a) \cup ToolNames(b)

ToolEntryPathFirst(a, b, n) ==           \* mutant: the place is looked at before the version
  IF Named(a, n) = {} THEN Entry("tool", n, "missing", None, ToolMap(b, n).version)
  ELSE IF Named(b, n) = {} THEN Entry("tool", n, "missing", ToolMap(a, n).version, None)
  ELSE IF ToolMap(a, n).path # ToolMap(b, n).path
  THEN Entry("tool", n, "path-precedence", ToolMap(a, n).path, ToolMap(b, n).path)
  ELSE Entry("tool", n, IF ToolMap(a, n).version = ToolMap(b, n).version THEN "same" ELSE "version-drift",
             ToolMap(a, n).version, ToolMap(b, n).version)

ToolEntry(a, b, n) ==
  IF Named(a, n) = {} THEN Entry("tool", n, "missing", None, ToolMap(b, n).version)
  ELSE IF Named(b, n) = {} THEN Entry("tool", n, "missing", ToolMap(a, n).version, None)
  ELSE LET ta == ToolMap(a, n)
           tb == ToolMap(b, n)
       IN CASE ta.version # tb.version -> Entry("tool", n, "version-drift", ta.version, tb.version)
            [] ta.version = tb.version /\ ta.path # tb.path ->
                 Entry("tool", n, "path-precedence", ta.path, tb.path)
            [] OTHER -> Entry("tool", n, "same", ta.version, tb.version)

(* An axis on which both machines were read, or one with an absent value.  *)
Axis(component, name, class, a, b) ==
  IF a = b THEN {} ELSE {Entry(component, name, class, a, b)}

DaemonOf(s) == IF s.engine = None THEN None ELSE s.engine.daemon

EngineEntries(a, b) ==
  Axis("container", "docker-daemon", "project-critical", DaemonOf(a), DaemonOf(b))
  \cup (IF None \in {a.engine, b.engine} THEN {}
        ELSE Axis("container", "engine-backend", "project-critical",
                  a.engine.backend, b.engine.backend))

RequirementEntries(a, b) ==
  UNION {Axis("requirement", r, "project-critical", a.requires[r], b.requires[r]) :
           r \in DOMAIN a.requires}

diff_snapshots(a, b) ==
  {ToolEntry(a.tools, b.tools, n) : n \in Compared(a.tools, b.tools)}
  \cup Axis("path", "PATH", "path-precedence", a.path, b.path)
  \cup RequirementEntries(a, b)
  \cup EngineEntries(a, b)

Kind(e) ==
  CASE e.component = "tool" /\ e.class = "version-drift" -> "runtime-changed"
    [] e.component = "container"                         -> "docker-state-changed"
    [] e.component = "path"                              -> "path-precedence-changed"
    [] e.component = "tool" /\ e.class = "missing"       -> "tool-missing"
    [] OTHER                                             -> e.class

compute_drift(previous, current) ==
  {[name |-> e.name, kind |-> Kind(e)] :
     e \in {x \in diff_snapshots(previous, current) : x.class # "same"}}

(* ScanReport.active_versions: the first active installation whose version *)
(* could be read; None when there is none.                                 *)
ActiveVersion(tools, n) ==
  LET readable == {i \in Named(tools, n) : tools[i].active /\ tools[i].version # None}
  IN IF readable = {} THEN None ELSE tools[Min(readable)].version

-----------------------------------------------------------------------------

Swapped(entries) == {Entry(e.component, e.name, e.class, e.b, e.a) : e \in entries}

(* A comparison does not depend on which machine is called A, saying       *)
(* nothing is an equivalence (two machines that each agree with a third    *)
(* agree with one another), and every tool of either is told of once.      *)
ComparisonIsFairAt(a, b, c) ==
  /\ diff_snapshots(b, a) = Swapped(diff_snapshots(a, b))
  /\ compute_drift(a, b) = {} /\ compute_drift(b, c) = {} => compute_drift(a, c) = {}
  /\ \A n \in ToolNames(a.tools) \cup ToolNames(b.tools) :
       Cardinality({e \in diff_snapshots(a, b) : e.component = "tool" /\ e.name = n}) = 1

(* "Compare two snapshots and classify every difference" (engine.py:1):    *)
(* when a tool that runs has another version, the comparison says so.      *)
ActiveDriftIsShownAt(a, b) ==
  \A n \in ToolNames(a.tools) \cap ToolNames(b.tools) :
    ActiveVersion(a.tools, n) # ActiveVersion(b.tools, n) =>
      [name |-> n, kind |-> "runtime-changed"] \in compute_drift(a, b)

(* It does where every tool is installed once.                             *)
LoneDriftIsShownAt(a, b) ==
  (\A s \in {a, b} : \A n \in ToolNames(s.tools) :
      Cardinality(Named(s.tools, n)) = 1 /\ s.tools[Max(Named(s.tools, n))].active)
    => ActiveDriftIsShownAt(a, b)

=============================================================================
