------------------------------ MODULE PathTools ------------------------------
(***************************************************************************)
(* Which program of a name runs, and what is told about the others         *)
(* (probes/toolchains.py, path_env.py, shell_profiles.py, helpers.py and   *)
(* platforms/shims.py, shellcost.py).  A machine is its PATH, a sequence   *)
(* of directories, the directories that exist, the file each of them holds *)
(* under a command's name, and the manager whose shims a directory is.     *)
(***************************************************************************)
EXTENDS Integers, Sequences, FiniteSets, SequencesExt

CONSTANT None

Finding(rule, state, told) == IF told THEN {[rule |-> rule, state |-> state]} ELSE {}

(* Every executable of that name in the order of PATH, once for each real  *)
(* file.                                                                   *)
resolve_all_on_path(m, name) ==
  LET Take(found, dir) ==
        IF dir \notin m.exists \/ <<dir, name>> \notin DOMAIN m.files THEN found
        ELSE LET file == m.files[<<dir, name>>]
             IN IF ~file.runs \/ \E i \in DOMAIN found : m.files[found[i]].real = file.real
                THEN found ELSE Append(found, <<dir, name>>)
  IN FoldLeft(Take, <<>>, m.path)

(* The commands of one tool, one after the other.                          *)
Planned(m, commands) == FlattenSeq([c \in DOMAIN commands |-> resolve_all_on_path(m, commands[c])])

Position(m, exe) ==
  CHOOSE i \in 1..Len(m.path) : resolve_all_on_path(m, exe[2])[i] = exe

(* They are asked for their versions at once, and answer in any order.     *)
detect_toolchain(m, commands, order) ==
  LET planned  == Planned(m, commands)
      Answer(versions, i) == [versions EXCEPT ![i] = m.files[planned[i]].version]
      versions == FoldLeft(Answer, [i \in DOMAIN planned |-> None], order)
  IN [i \in DOMAIN planned |->
        [exe |-> planned[i], version |-> versions[i], is_active |-> Position(m, planned[i]) = 1]]

(* One shadowed shim is told, if no shim comes first.                      *)
analyse_shims(m, installs) ==
  LET shims == {i \in DOMAIN installs : m.manager[installs[i].exe[1]] # None}
  IN IF Len(installs) < 2 \/ 1 \in shims \/ shims = {} THEN None
     ELSE installs[CHOOSE i \in shims : \A j \in shims : i <= j].exe[1]

VersionsOf(installs) == {installs[i].version : i \in DOMAIN installs}

StoreAlias(m, installs) ==
  LET aliases == {i \in DOMAIN installs : installs[i].exe[1] \in m.aliases}
  IN m.platform = "windows" /\ aliases # {} /\ aliases # DOMAIN installs

Toolchain(m, commands, order) ==
  LET installs == detect_toolchain(m, commands, order)
  IN Finding("shim-bypassed", "WARN", analyse_shims(m, installs) # None)
     \cup Finding("multiple-installations",
                  IF Cardinality(VersionsOf(installs)) > 1 THEN "WARN" ELSE "INFO",
                  Len(installs) > 1)
     \cup Finding("store-alias-shadow", "WARN", StoreAlias(m, installs))

(* PATH itself.                                                            *)
Duplicates(path) == {i \in DOMAIN path : \E j \in 1..(i - 1) : path[j] = path[i]}
Dead(m)          == {i \in DOMAIN m.path : m.path[i] \notin m.exists}

PathFindings(m) ==
  Finding("duplicates", "WARN", Duplicates(m.path) # {})
  \cup Finding("dead-entries", "WARN", Dead(m) # {})

-----------------------------------------------------------------------------
(* Shell profiles: the lines that start a manager or cost a process, some  *)
(* of them commented out.                                                  *)

SLOW_STARTUP_THRESHOLD == 4

ConflictGroups == [python |-> {"conda", "pyenv"}, node |-> {"nvm", "fnm", "volta"}]

managers_seen(profiles) == {line.starts : line \in UNION profiles} \ {None}

analyse_profile(profile) == {line.costs : line \in {l \in profile : ~l.commented}} \ {None}

ShellProfiles(profiles) ==
  UNION {Finding(e, "WARN", Cardinality(ConflictGroups[e] \cap managers_seen(profiles)) > 1) :
           e \in DOMAIN ConflictGroups}
  \cup Finding("slow-startup", "WARN",
               \E p \in profiles : Cardinality(analyse_profile(p)) >= SLOW_STARTUP_THRESHOLD)
  \cup Finding("managers-initialized", "INFO", TRUE)

-----------------------------------------------------------------------------
(* What the shell runs: the first file of that name it may execute.        *)
ShellRuns(m, name) ==
  LET here == {i \in DOMAIN m.path : m.path[i] \in m.exists /\ <<m.path[i], name>> \in DOMAIN m.files
                                     /\ m.files[<<m.path[i], name>>].runs}
  IN IF here = {} THEN None ELSE <<m.path[CHOOSE i \in here : \A j \in here : i <= j], name>>

(* One installation of each command is the active one, the one the shell   *)
(* runs, and each has its own version, in whatever order the programs      *)
(* answered (toolchains.py:168-182).                                       *)
ActiveRunsAt(m, commands) ==
  LET Detected(order) == detect_toolchain(m, commands, order)
      orders == {o \in [DOMAIN Planned(m, commands) -> DOMAIN Planned(m, commands)] :
                   \A i, j \in DOMAIN o : i # j => o[i] # o[j]}
  IN \A order \in orders :
       /\ \A c \in DOMAIN commands :
            {t.exe : t \in {u \in ToSet(Detected(order)) : u.is_active /\ u.exe[2] = commands[c]}}
              = {ShellRuns(m, commands[c])} \ {None}
       /\ \A t \in ToSet(Detected(order)) : t.version = m.files[t.exe].version

Without(path, dropped) ==
  LET kept == {i \in DOMAIN path : i \notin dropped}
  IN [k \in 1..Cardinality(kept) |-> path[CHOOSE i \in kept : Cardinality({j \in kept : j <= i}) = k]]

(* "removing redundant duplicates does not change resolution"              *)
(* (path_env.py:95), nor does removing entries that are not there; and     *)
(* nothing is left to tell of afterwards.                                  *)
CleaningIsSafeAt(m, commands) ==
  LET cleaned == [m EXCEPT !.path = Without(m.path, Duplicates(m.path) \cup Dead(m))]
  IN /\ \A c \in DOMAIN commands :
          resolve_all_on_path(cleaned, commands[c]) = resolve_all_on_path(m, commands[c])
     /\ PathFindings(cleaned) = {}

(* "Move the shim directory earlier in PATH" (toolchains.py:247) brings the *)
(* manager's program back and silences the finding, for a tool of one name.*)
MovingShimsHelpsAt(m, commands, order) ==
  LET shims == analyse_shims(m, detect_toolchain(m, commands, order))
      moved == [m EXCEPT !.path = <<shims>> \o m.path]
  IN shims # None /\ Len(commands) = 1
       => /\ ShellRuns(moved, commands[1])[1] = shims
          /\ analyse_shims(moved, detect_toolchain(moved, commands, order)) = None

(* Disagreement: for `python` and `python3` too.                           *)
MovingShimsHelpsBothAt(m, commands, order) ==
  LET shims == analyse_shims(m, detect_toolchain(m, commands, order))
      moved == [m EXCEPT !.path = <<shims>> \o m.path]
  IN shims # None => analyse_shims(moved, detect_toolchain(moved, commands, order)) = None

(* Disagreement: "WindowsApps alias precedes real install"                 *)
(* (toolchains.py:307).                                                    *)
AliasPrecedesAt(m, commands, order) ==
  StoreAlias(m, detect_toolchain(m, commands, order))
    => \E c \in DOMAIN commands : ShellRuns(m, commands[c]) # None
                                    /\ ShellRuns(m, commands[c])[1] \in m.aliases

(* A line that is commented out costs nothing (shellcost.py:122).          *)
Uncommented(profiles) == {{l \in p : ~l.commented} : p \in profiles}

CommentsCostNothingAt(profiles) ==
  Finding("slow-startup", "WARN", TRUE) \cap ShellProfiles(profiles)
    = Finding("slow-startup", "WARN", TRUE) \cap ShellProfiles(Uncommented(profiles))

(* Disagreement: nor does it make two managers conflict.                   *)
CommentsChangeNothingAt(profiles) == ShellProfiles(profiles) = ShellProfiles(Uncommented(profiles))

PathIsReadTrulyAt(kind, h) ==
  CASE kind = "path" -> /\ ActiveRunsAt(h.machine, h.commands)
                        /\ CleaningIsSafeAt(h.machine, h.commands)
                        /\ MovingShimsHelpsAt(h.machine, h.commands,
                                              [i \in DOMAIN Planned(h.machine, h.commands) |-> i])
    [] kind = "profiles" -> CommentsCostNothingAt(h)
=============================================================================
