---------------------------- MODULE DriftHistory -----------------------------
(***************************************************************************)
(* The snapshot history over time: `devrepro monitor --snapshot` decides   *)
(* by the files' modification times whether another snapshot is due        *)
(* (devrepro/drift/monitor.py), HistoryStore.latest lists what is stored   *)
(* (devrepro/snapshots/history.py), and `devrepro drift` and `history`     *)
(* read changes off it (devrepro/drift/timeline.py, devrepro/diff).        *)
(*                                                                         *)
(* `now` is real time; the wall clock the code reads may be moved.  A      *)
(* snapshot is the version of each tool on the machine.                    *)
(***************************************************************************)
EXTENDS Integers, FiniteSets, Sequences

CONSTANTS
  Runners,      \* monitors that may run at the same time (scheduler, profile, by hand)
  Tools,
  Versions,
  Absent,       \* a tool that is not installed
  Unreadable,   \* what a damaged or half-written file holds
  Interval,     \* --interval-hours, in ticks
  Depth,        \* how many snapshots `drift` looks at (10 in the code)
  MaxTime,      \* bound: ticks
  MaxChanges,   \* bound: changes of the machine
  MaxFiles,     \* bound: stored snapshots
  Moves,        \* bound: how far the wall clock may be off
  MaxBack       \* bound: ticks it is moved backwards, in all

Snapshots == [Tools -> Versions \cup {Absent}]

ASSUME HistoryAssumption ==
  /\ {MaxTime, MaxChanges, MaxFiles, MaxBack} \subseteq Nat
  /\ {Interval, Depth} \subseteq Nat \ {0} /\ Moves \subseteq Int
  /\ IsFiniteSet(Runners)
  /\ Absent \notin Versions /\ Unreadable \notin Snapshots

VARIABLES
  now,       \* real time
  wall,      \* time.time()
  back,      \* history: ticks the wall clock was moved backwards, in all
  machine,   \* the tools installed
  changes,   \* changes so far
  stored,    \* the history directory: [mtime, taken, holds], taken in real time
  scanning,  \* runners between their decision and the end of their scan
  checked    \* history: real time and outcome of the last finished monitor run

clock       == <<now, wall, back>>
host        == <<machine, changes>>
monitorVars == <<clock, host, stored, scanning, checked>>

Nothing == [t \in Tools |-> Absent]

MonitorInit ==
  /\ now = 0 /\ wall = 0 /\ back = 0
  /\ machine \in Snapshots /\ changes = 0
  /\ stored = {} /\ scanning = {} /\ checked = -1

-----------------------------------------------------------------------------
(* The world.                                                              *)

Tick ==
  /\ now < MaxTime /\ now' = now + 1 /\ wall' = wall + 1
  /\ UNCHANGED <<back, host, stored, scanning, checked>>

(* A virtual machine is restored, NTP finally starts.                      *)
ClockMoves ==
  /\ \E w \in {now + d : d \in Moves \cup {0}}:
       /\ w # wall /\ wall' = w
       /\ back' = IF w < wall THEN back + (wall - w) ELSE back
  /\ back' <= MaxBack
  /\ UNCHANGED <<now, host, stored, scanning, checked>>

ToolChanges ==
  /\ changes < MaxChanges /\ changes' = changes + 1
  /\ \E t \in Tools, v \in Versions \cup {Absent}:
       v # machine[t] /\ machine' = [machine EXCEPT ![t] = v]
  /\ UNCHANGED <<clock, stored, scanning, checked>>

FileIsDamaged ==
  /\ \E f \in stored: /\ f.holds # Unreadable
                      /\ stored' = (stored \ {f}) \cup {[f EXCEPT !.holds = Unreadable]}
  /\ \A f \in stored: f.holds # Unreadable
  /\ UNCHANGED <<clock, host, scanning, checked>>

-----------------------------------------------------------------------------
(* devrepro monitor --snapshot.                                            *)

(* Mutant: the interval has to be over.                                    *)
AfterInterval ==
  \/ \E f \in stored: f.mtime > wall
  \/ \A f \in stored: wall - f.mtime > Interval
(* should_snapshot: nothing is stored, the newest is dated in the future,  *)
(* or it is old enough.                                                    *)
should_snapshot ==
  \/ \E f \in stored: f.mtime > wall
  \/ \A f \in stored: wall - f.mtime >= Interval

Skip(r) ==
  /\ r \notin scanning /\ ~should_snapshot
  /\ checked' = now
  /\ UNCHANGED <<clock, host, stored, scanning>>

Decide(r) ==
  /\ r \notin scanning /\ should_snapshot /\ Cardinality(stored) < MaxFiles
  /\ scanning' = scanning \cup {r}
  /\ UNCHANGED <<clock, host, stored, checked>>

Stored(at) == [mtime |-> at, taken |-> now, holds |-> machine]

(* HistoryStore.save: the file is stamped as it is written.                *)
Save(r) ==
  /\ r \in scanning /\ Cardinality(stored) < MaxFiles
  /\ \A f \in stored: f.taken # now
  /\ stored' = stored \cup {Stored(wall)}
  /\ scanning' = scanning \ {r} /\ checked' = now
  /\ UNCHANGED <<clock, host>>

(* The scan or the save fails, or the machine is switched off.             *)
Fail(r) ==
  /\ r \in scanning /\ scanning' = scanning \ {r}
  /\ UNCHANGED <<clock, host, stored, checked>>

MonitorNext ==
  \/ Tick \/ ClockMoves \/ ToolChanges \/ FileIsDamaged
  \/ \E r \in Runners: Skip(r) \/ Decide(r) \/ Save(r) \/ Fail(r)

MonitorSpec == MonitorInit /\ [][MonitorNext]_monitorVars

-----------------------------------------------------------------------------
(* Reading the history.  `latest` may list files of one stamp in either    *)
(* order.                                                                  *)

Listings == {s \in [1..Cardinality(stored) -> stored]:
               /\ {s[i] : i \in DOMAIN s} = stored
               /\ \A i, j \in DOMAIN s: i < j => s[i].mtime <= s[j].mtime}

(* Newest first, without the files that do not load.                       *)
latest(listing, n) ==
  LET last == IF n < Len(listing) THEN n ELSE Len(listing)
      path(i) == listing[Len(listing) + 1 - i]
      out[i \in 0..last] ==
        IF i = 0 THEN <<>>
        ELSE IF path(i).holds = Unreadable THEN out[i - 1]
        ELSE Append(out[i - 1], path(i))
  IN  out[last]

(* Mutant: the first snapshot is only what the others are compared with.   *)
BeforeFirst(snaps, i) == IF i = 1 THEN snaps[1] ELSE snaps[i - 1]

Before(snaps, i) == IF i = 1 THEN Nothing ELSE snaps[i - 1]

Kind(b, a) == IF b = Absent THEN "added" ELSE IF a = Absent THEN "removed" ELSE "version-changed"

build_timeline(snaps) ==
  UNION {{[at_index |-> i, name |-> t, kind |-> Kind(Before(snaps, i)[t], snaps[i][t]),
           before |-> Before(snaps, i)[t], after |-> snaps[i][t]]
           : t \in {u \in Tools: Before(snaps, i)[u] # snaps[i][u]}} : i \in DOMAIN snaps}

(* devrepro drift.                                                         *)
drift(listing) ==
  LET snaps == latest(listing, Depth)
  IN  build_timeline([i \in DOMAIN snaps |-> snaps[i].holds])

(* root_cause_hints: the last event of a tool.                             *)
root_cause_hints(events, t) ==
  {e \in events: e.name = t /\ \A d \in events: d.name = t => d.at_index <= e.at_index}

-----------------------------------------------------------------------------
(* Every variable keeps its range.                                         *)
MonitorTypeOK ==
  /\ now \in 0..MaxTime /\ wall \in Int /\ back \in 0..MaxBack
  /\ machine \in Snapshots /\ changes \in 0..MaxChanges
  /\ Cardinality(stored) <= MaxFiles
  /\ \A f \in stored: f.mtime \in Int /\ f.taken \in 0..now /\ f.holds \in Snapshots \cup {Unreadable}
  /\ scanning \subseteq Runners /\ checked \in -1..now

(* "Taking one now rather than waiting for the clock to catch up": when a  *)
(* monitor run has ended, a snapshot was taken within the interval before  *)
(* it; a clock that was moved back can add no more than it was moved by.   *)
MonitorCovers == checked >= 0 => \E f \in stored: checked - f.taken < Interval + back

(* "A budget, not a schedule": while the clock is left alone, no interval  *)
(* sees more snapshots than there are monitors running at the same time.   *)
BudgetHolds ==
  wall = now /\ back = 0 /\ (\A f \in stored: f.mtime = f.taken) =>
    \A t \in 0..now: Cardinality({f \in stored: f.taken \in t..(t + Interval - 1)}) <= Cardinality(Runners)

(* A timeline can be replayed: starting from nothing and applying what it  *)
(* says of a tool up to a snapshot gives that snapshot's version of it,    *)
(* whatever files were skipped; and a hint names the last change.          *)
Replayed(events, i, t) ==
  LET past == {e \in events: e.name = t /\ e.at_index <= i}
  IN  IF past = {} THEN Absent ELSE (CHOOSE e \in past: \A d \in past: d.at_index <= e.at_index).after

TimelineReplays ==
  \A s \in Listings:
    LET snaps == latest(s, Depth)
    IN  \A t \in Tools:
          /\ \A i \in DOMAIN snaps: Replayed(drift(s), i, t) = snaps[i].holds[t]
          /\ \A e \in root_cause_hints(drift(s), t): e.after = snaps[Len(snaps)].holds[t]

(* "Build a drift timeline from oldest->newest": the changes it tells end  *)
(* in the newest snapshot.  `devrepro drift` hands the snapshots over      *)
(* newest first, so they end in the oldest and every change is reversed.   *)
TimelineIsForward ==
  \A s \in Listings:
    LET loaded == SelectSeq(s, LAMBDA f: f.holds # Unreadable)
    IN  Len(loaded) > 1 =>
          \A t \in Tools: Replayed(drift(s), Len(loaded), t) = loaded[Len(loaded)].holds[t]

(* The monitor takes a snapshot as often as it promises and no oftener.    *)
MonitorIsSteady == MonitorTypeOK /\ MonitorCovers /\ BudgetHolds

=============================================================================
