----------------------------- MODULE CiToolchains -----------------------------
(***************************************************************************)
(* `devrepro ci-diff`: what the GitHub workflows of a repository test,     *)
(* read line by line, against what this machine runs                       *)
(* (project/ci_parsers.py).                                                *)
(*                                                                         *)
(* A workflow is a sequence of jobs [axes, steps].  An axis is             *)
(*   [style  : "list", "block", "include" or "exclude",                    *)
(*    name, values,                                                        *)
(*    deep   : whether the items of a block stand deeper than its key].    *)
(* A step sets a tool up: [tool, spec, of, named]; its version is `spec`,  *)
(* or the axis `of` of the matrix, and a named step begins with its name,  *)
(* so that `uses:` stands deeper than the dash.                            *)
(***************************************************************************)
EXTENDS Integers, Sequences, FiniteSets, SequencesExt

CONSTANTS None, AnyVersion, Garbled, AcceptedBy,
          Template         \* a value that is an expression

-----------------------------------------------------------------------------
(* The lines of a workflow file.                                           *)

Line(indent, kind, name, values) ==
  [indent |-> indent, kind |-> kind, name |-> name, values |-> values]

AxisLines(axis) ==
  LET below == IF axis.deep THEN 10 ELSE 8
      each(kind) == [i \in 1..Len(axis.values) |->
                       Line(below, kind, axis.name, {axis.values[i]})]
  IN CASE axis.style = "list"  -> <<Line(8, "list", axis.name, Range(axis.values))>>
       [] axis.style = "block" -> <<Line(8, "key", axis.name, {})>> \o each("item")
       [] axis.style \in {"include", "exclude"} ->
            <<Line(8, "key", axis.style, {})>> \o each("pair")

StepLines(step) ==
  LET uses == IF step.named THEN 8 ELSE 6
  IN (IF step.named THEN <<Line(6, "pair", "name", {None})>> ELSE <<>>)
     \o << Line(uses, "uses", step.tool, {}), Line(8, "key", "with", {}),
           IF step.of = None THEN Line(10, "version", step.tool, {step.spec})
           ELSE Line(10, "reference", step.tool, {step.of}) >>

JobLines(name, job) ==
  <<Line(2, "key", name, {})>>
  \o (IF job.axes = <<>> THEN <<>>
      ELSE <<Line(4, "key", "strategy", {}), Line(6, "key", "matrix", {})>>)
  \o FlattenSeq([i \in 1..Len(job.axes) |-> AxisLines(job.axes[i])])
  \o <<Line(4, "key", "steps", {})>>
  \o FlattenSeq([i \in 1..Len(job.steps) |-> StepLines(job.steps[i])])

Lines(workflow) ==
  <<Line(0, "key", "jobs", {})>>
  \o FlattenSeq([i \in 1..Len(workflow) |-> JobLines(<<"build", "test">>[i], workflow[i])])

-----------------------------------------------------------------------------
(* parse_workflow_matrices: the scanner knows the indent of `jobs`, of the *)
(* current job and of its matrix, the axis whose items it expects and      *)
(* whether it is within `include`.  `found` holds <<job, axis, value>>.    *)

Key(line, name) == line.kind = "key" /\ line.name = name

NewScan ==
  [jobs |-> None, job |-> None, jobIndent |-> 0, matrix |-> None,
   axis |-> None, axisIndent |-> 0, including |-> FALSE, found |-> {}]

Values(s, name, line) == {<<s.job, name, v>> : v \in line.values \ {Template}}

Add(s, name, line) == [s EXCEPT !.found = @ \cup Values(s, name, line)]

(* A list replaces what was read of its axis. *)
Replace(s, line) ==
  [s EXCEPT !.found = {t \in @ : t[1] # s.job \/ t[2] # line.name} \cup Values(s, line.name, line),
            !.axis = None]

InMatrix(s, line) ==
  IF Key(line, "include") \/ Key(line, "exclude")
    THEN [s EXCEPT !.including = (line.name = "include"), !.axis = None, !.axisIndent = line.indent]
  ELSE IF s.including /\ line.indent > s.axisIndent
    THEN (IF line.kind = "pair" THEN Add(s, line.name, line) ELSE s)
  ELSE IF line.kind = "list" THEN Replace(s, line)
  ELSE IF line.kind = "key" THEN [s EXCEPT !.axis = line.name, !.axisIndent = line.indent]
  ELSE IF s.axis # None /\ line.indent > s.axisIndent /\ line.kind = "item"
    THEN Add(s, s.axis, line)
  ELSE s

ReadLine(s, line) ==
  IF s.jobs = None THEN [s EXCEPT !.jobs = IF Key(line, "jobs") THEN line.indent ELSE None]
  ELSE IF line.indent <= s.jobs THEN [s EXCEPT !.jobs = None, !.job = None, !.matrix = None]
  ELSE IF (s.job = None \/ line.indent <= s.jobIndent) /\ line.kind = "key"
    THEN [s EXCEPT !.job = line.name, !.jobIndent = line.indent, !.matrix = None,
                   !.axis = None, !.including = FALSE]
  ELSE IF s.job = None THEN s
  ELSE IF s.matrix = None
    THEN [s EXCEPT !.matrix = IF Key(line, "matrix") THEN line.indent ELSE None]
  ELSE IF line.indent <= s.matrix
    THEN [s EXCEPT !.matrix = None, !.axis = None, !.including = FALSE]
  ELSE InMatrix(s, line)

parse_workflow_matrices(lines) == FoldLeft(ReadLine, NewScan, lines).found

(* _resolve_matrix_ref, on the union of the axes of all jobs. *)
Resolve(axes, name) ==
  LET values == {t[3] : t \in {u \in axes : u[2] = name}}
  IN IF values = {} THEN {AnyVersion} ELSE values

(* _parse_github_actions: a version counts below the `uses` it belongs to. *)
ReadStep(s, line, axes) ==
  IF line.kind = "uses" THEN [s EXCEPT !.action = line.name, !.indent = line.indent]
  ELSE [ s EXCEPT
         !.action = IF line.indent <= s.indent THEN None ELSE @,
         !.tools  = @ \cup (IF s.action = None \/ line.indent <= s.indent THEN {}
                            ELSE IF line.kind = "version"
                              THEN {<<line.name, spec>> : spec \in line.values}
                            ELSE IF line.kind = "reference"
                              THEN {<<line.name, spec>> :
                                      spec \in UNION {Resolve(axes, a) : a \in line.values}}
                            ELSE {}) ]

(* collect_ci_toolchains *)
CiToolchainsOf(workflow) ==
  LET lines == Lines(workflow)
      axes  == parse_workflow_matrices(lines)
  IN FoldLeft(LAMBDA s, line : ReadStep(s, line, axes),
              [action |-> None, indent |-> 0, tools |-> {}], lines).tools

(* local_vs_ci_diff, for one tool: every version CI names must accept the  *)
(* local one; what cannot be parsed accepts its own text only.             *)
Status(specs, local) ==
  IF specs = {} THEN "ci-absent"
  ELSE IF AnyVersion \in specs THEN "wildcard"
  ELSE IF local = None THEN "unknown-local"
  ELSE IF (IF Garbled \in specs \/ local = Garbled THEN Garbled \in specs /\ local = Garbled
           ELSE \A spec \in specs : local \in AcceptedBy[spec])
    THEN "match" ELSE "mismatch"

local_vs_ci_diff(workflow, tool, local) ==
  Status({t[2] : t \in {u \in CiToolchainsOf(workflow) : u[1] = tool}}, local)

-----------------------------------------------------------------------------
(* What the workflow says, read as a whole.                                *)

DeclaredIn(job) ==
  UNION {{<<axis.name, v>> : v \in Range(axis.values) \ {Template}} :
           axis \in {a \in Range(job.axes) : a.style # "exclude"}}

(* `include` comes last and items are indented. *)
Tidy(workflow) ==
  \A job \in Range(workflow) : \A i \in 1..Len(job.axes) :
    /\ job.axes[i].deep
    /\ job.axes[i].style = "include" =>
         \A j \in (i + 1)..Len(job.axes) : job.axes[j].style \in {"include", "exclude"}
    /\ job.axes[i].style \in {"list", "block"} =>
         \A j \in 1..Len(job.axes) :
           job.axes[j].style \in {"list", "block"} /\ job.axes[j].name = job.axes[i].name => i = j

Unnamed(workflow) == \A job \in Range(workflow) : \A step \in Range(job.steps) : ~step.named

(* The versions a tool is tested with in some job. *)
TestedWith(workflow, tool) ==
  UNION {UNION {IF step.of = None THEN {step.spec}
                ELSE {d[2] : d \in {e \in DeclaredIn(job) : e[1] = step.of}} :
                  step \in {st \in Range(job.steps) : st.tool = tool}} : job \in Range(workflow)}

Readable(workflow, tool) ==
  \A job \in Range(workflow) : \A step \in Range(job.steps) :
    step.tool = tool =>
      /\ step.spec # AnyVersion
      /\ step.of # None => \E d \in DeclaredIn(job) : d[1] = step.of

(* The scanner, which sees one line at a time, finds the values of every   *)
(* axis of every job, in both styles and in `include`, and none of what is *)
(* excluded (parse_workflow_matrices).                                     *)
AxesAreReadAt(workflow) ==
  Tidy(workflow) =>
    parse_workflow_matrices(Lines(workflow)) =
      UNION {{<<<<"build", "test">>[i], d[1], d[2]>> : d \in DeclaredIn(workflow[i])} :
               i \in 1..Len(workflow)}

(* "CI passes, my machine fails" is explained: a machine no tested version *)
(* accepts is a mismatch, one that is called a match is accepted by all of *)
(* them, and a tool CI sets up is never called absent (ci_parsers.py).     *)
CiIsComparedAt(workflow, tool, local) ==
  LET tested == TestedWith(workflow, tool)
      status == local_vs_ci_diff(workflow, tool, local)
  IN Tidy(workflow) /\ Unnamed(workflow) /\ Garbled \notin tested /\ local # Garbled =>
       /\ status = "ci-absent" <=> \A job \in Range(workflow) :
                                     \A step \in Range(job.steps) : step.tool # tool
       /\ status = "match" => \A spec \in tested : local \in AcceptedBy[spec]
       /\ /\ tested # {} /\ local # None /\ Readable(workflow, tool)
          /\ \A spec \in tested : local \notin AcceptedBy[spec]
          => status = "mismatch"

(* "the ones most worth checking" (ci_parsers.py:108): every step that     *)
(* sets a tool up is read, and every axis.  Not so: a named step loses its *)
(* version, and a block after `include` its values.                        *)
EveryStepIsReadAt(workflow) ==
  \A job \in Range(workflow) : \A step \in Range(job.steps) :
    local_vs_ci_diff(workflow, step.tool, None) # "ci-absent"

(* A machine that runs a version CI tests is no mismatch.  Not so with two *)
(* versions in a matrix, of which it can only run one.                     *)
TestedVersionsMatchAt(workflow, tool, local) ==
  (\E spec \in TestedWith(workflow, tool) : local \in AcceptedBy[spec]) =>
    local_vs_ci_diff(workflow, tool, local) # "mismatch"

=============================================================================
