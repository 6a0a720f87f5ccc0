------------------------- MODULE DeclaredVersions -------------------------
(***************************************************************************)
(* What a lockfile asks of the machine (project/lockfiles.py), and what    *)
(* the lockfiles pack says of the package manager and the runtime that are *)
(* there (rules/packs/lockfiles.py).                                       *)
(*                                                                         *)
(* A lockfile is [tool, format, pin]: format None when the file does not   *)
(* state one, Unreadable when the file cannot be parsed; pin is a range as *)
(* Versioning writes it, Garbled for shorthand that is not understood, or  *)
(* None.  An installed tool is None, Unversioned, Garbled or its version.  *)
(*                                                                         *)
(* And `devrepro monorepo`: which projects of one repository ask for       *)
(* versions of a tool that cannot be had together (project/monorepo.py).   *)
(* An entry is [path, spec]: the directory of a manifest as a sequence of  *)
(* names, and the range it asks for as Versioning writes it, or Garbled.   *)
(***************************************************************************)
EXTENDS Versioning, Sequences

CONSTANTS None, Unreadable, Unversioned, Garbled

V1(n)       == [nums |-> <<n>>, tag |-> NoTag]
V2(n, m)    == [nums |-> <<n, m>>, tag |-> NoTag]
AtLeast(v)  == {{<<">=", v>>}}

(* The published floors: _NPM_LOCK_VERSIONS, _PNPM_LOCK_VERSIONS, _yarn,   *)
(* _bun_text, _POETRY_LOCK_VERSIONS, _CARGO_LOCK_VERSIONS, _composer.      *)
Floors ==
  [ npm      |-> [f1 |-> AtLeast(V1(5)), f2 |-> AtLeast(V1(7)), f3 |-> AtLeast(V1(7))],
    pnpm     |-> [f5_3 |-> AtLeast(V1(6)), f5_4 |-> AtLeast(V1(7)),
                  f6_0 |-> AtLeast(V1(8)), f9_0 |-> AtLeast(V1(9))],
    yarn     |-> [classic |-> AtLeast(V1(1)), berry |-> AtLeast(V1(2))],
    bun      |-> [text |-> AtLeast(V2(1, 2))],
    poetry   |-> [f1_1 |-> AtLeast(V2(1, 1)), f2_0 |-> AtLeast(V2(1, 5)),
                  f2_1 |-> AtLeast(V2(2, 0))],
    cargo    |-> [f3 |-> AtLeast(V2(1, 53)), f4 |-> AtLeast(V2(1, 78))],
    composer |-> [f1 |-> AtLeast(V1(1)), f2 |-> AtLeast(V1(2))],
    uv       |-> [f \in {} |-> {}] ]

(* minimum_tool: no floor is invented for a format that is not listed.     *)
minimum_tool(lock) ==
  IF lock.format \in DOMAIN Floors[lock.tool] THEN Floors[lock.tool][lock.format] ELSE None

Verdict(rule, state) == [rule |-> rule, state |-> state]

(* _format_findings *)
FormatFindings(lock, installed) ==
  LET floor == minimum_tool(lock)
  IN CASE floor = None -> {}
       [] floor # None /\ installed = None -> {Verdict("manager-missing", "WARN")}
       [] floor # None /\ installed \in {Unversioned, Garbled} ->
            {Verdict("format-unknown", "UNKNOWN")}
       [] OTHER -> {IF satisfies(installed, floor) THEN Verdict("format-supported", "PASS")
                                                   ELSE Verdict("tool-too-old", "ERROR")}

(* _runtime_findings: an absent runtime is another pack's business. *)
RuntimeFindings(lock, runtime) ==
  CASE lock.pin = None \/ runtime \in {None, Unversioned} -> {}
    [] lock.pin # None /\ runtime \notin {None, Unversioned} /\ Garbled \in {lock.pin, runtime} ->
         {Verdict("runtime-spec-unparseable", "UNKNOWN")}
    [] OTHER -> IF satisfies(runtime, lock.pin) THEN {} ELSE {Verdict("runtime-mismatch", "ERROR")}

(* evaluate, for one file *)
LockFindings(lock, installed, runtime) ==
  IF lock.format = Unreadable THEN {Verdict("unreadable", "UNKNOWN")}
  ELSE FormatFindings(lock, installed) \cup RuntimeFindings(lock, runtime)

-----------------------------------------------------------------------------

(* What could not be compared is never called fine, and what was compared  *)
(* is never called unknown (rules/packs/lockfiles.py: "Reporting UNKNOWN   *)
(* is honest; guessing is not").                                           *)
UnknownIsSaidAt(lock, installed, runtime) ==
  LET found  == LockFindings(lock, installed, runtime)
      states == {v.state : v \in found}
      known(v) == v \notin {None, Unversioned, Garbled}
  IN /\ "PASS" \in states =>
          known(installed) /\ minimum_tool(lock) # None /\ satisfies(installed, minimum_tool(lock))
     /\ "ERROR" \in states => known(installed) \/ known(runtime)
     /\ ("UNKNOWN" \in states /\ known(installed) /\ known(runtime)) =>
          Unreadable = lock.format \/ Garbled = lock.pin

(* Upgrading the package manager never takes away a format it could read,  *)
(* and of two formats of a tool the one with the higher floor is readable  *)
(* by nothing the other is not.                                            *)
UpgradesKeepFormatsAt(lock, older, newer) ==
  (Precedes(older, newer) /\ Verdict("format-supported", "PASS") \in FormatFindings(lock, older))
    => Verdict("format-supported", "PASS") \in FormatFindings(lock, newer)

-----------------------------------------------------------------------------
(* Manifests of one repository. *)

(* b_rel.startswith(a_rel + "/") *)
Inside(a, b) == Len(a) < Len(b) /\ \A i \in 1..Len(a) : a[i] = b[i]

(* The root contains everything, its own manifests too; of two manifests   *)
(* of one other directory neither is inside the other.                     *)
Nested(a, b) == a = <<>> \/ b = <<>> \/ Inside(a, b) \/ Inside(b, a)

(* The versions _ranges_overlap tries. *)
Candidates ==
  {[nums |-> <<0, 0, 1>>, tag |-> NoTag]}
  \cup {[nums |-> <<n, 0, 0>>, tag |-> NoTag] : n \in {3, 6, 8, 10, 12, 14, 16, 18, 20, 21, 22, 24}}

ranges_overlap(a, b) == \E v \in Candidates : satisfies(v, a) /\ satisfies(v, b)

Conflict(a, b) ==
  CASE Garbled \in {a.spec, b.spec} -> "not compared"
    [] OTHER -> IF ranges_overlap(a.spec, b.spec) THEN "none" ELSE "no version satisfies both"

(* _detect_conflicts: of every two entries of a tool whose directories nest. *)
detect_conflicts(entries) ==
  {<<p[1], p[2], Conflict(entries[p[1]], entries[p[2]])>> :
     p \in {q \in (1..Len(entries)) \X (1..Len(entries)) :
              /\ q[1] < q[2] /\ Nested(entries[q[1]].path, entries[q[2]].path)
              /\ Conflict(entries[q[1]], entries[q[2]]) # "none"}}

Backwards(seq) == [i \in DOMAIN seq |-> seq[Len(seq) + 1 - i]]

(* Two nested projects that no version can satisfy are always told of, in  *)
(* whatever order the directories are walked, and a range that could not   *)
(* be read is told of too; projects side by side never conflict, nor two   *)
(* manifests of one directory other than the root                          *)
(* (project/monorepo.py, _detect_conflicts).                               *)
ConflictsAreToldAt(entries, versions) ==
  LET found == detect_conflicts(entries)
      told  == {{c[1], c[2]} : c \in found}
      n     == Len(entries)
  IN /\ {{n + 1 - c[1], n + 1 - c[2]} : c \in detect_conflicts(Backwards(entries))} = told
     /\ \A i, j \in DOMAIN entries :
          (i # j /\ Nested(entries[i].path, entries[j].path)) =>
            ( {i, j} \notin told =>
                /\ Garbled \notin {entries[i].spec, entries[j].spec}
                /\ \E v \in versions \cup Candidates :
                     satisfies(v, entries[i].spec) /\ satisfies(v, entries[j].spec) )
     /\ \A pair \in told : \E i, j \in pair : i # j /\ Nested(entries[i].path, entries[j].path)

(* "no version satisfies both parent and child constraints"                *)
(* (monorepo.py:250).  False: only thirteen versions are tried (README,    *)
(* section 6).                                                             *)
ConflictsAreRealAt(entries, versions) ==
  \A c \in detect_conflicts(entries) :
    c[3] = "no version satisfies both" =>
      \A v \in versions : ~(satisfies(v, entries[c[1]].spec) /\ satisfies(v, entries[c[2]].spec))

=============================================================================
