-------------------------------- MODULE Watch --------------------------------
(***************************************************************************)
(* `devrepro watch`: the polling loop of devrepro/watch.py against editors *)
(* that save files in several operations at any moment.                    *)
(*                                                                         *)
(* Time is counted in ticks and kept as timers that run down.  It passes   *)
(* while the loop sleeps and while on_change scans; reading the watched    *)
(* files takes several steps, with edits between them, but no time.        *)
(* A content digest stands for the content.                                *)
(***************************************************************************)
EXTENDS Integers, FiniteSets

CONSTANTS
  Names,         \* environment-contract files
  Contents,      \* what a file may hold
  Absent,        \* there is no such file
  Partial,       \* the file in the middle of a save
  Interval,      \* --interval
  QuietPeriod,   \* --quiet-period
  SaveTime,      \* how long a save leaves a file half-written at most
  MaxEdits       \* bound: edits

ASSUME ContentAssumption == Absent \notin Contents /\ Partial \notin Contents \cup {Absent}
ASSUME NamesAreFinite    == IsFiniteSet(Names)
ASSUME TimeAssumption    == /\ {Interval, QuietPeriod, SaveTime, MaxEdits} \subseteq Nat
                            /\ Interval > 0
(* "One save is often three filesystem operations; this collapses them."   *)
(* Saves of one file are more than a poll apart: with closer ones the loop *)
(* may find the file half-written at every poll and take it for settled.   *)
ASSUME SavesAreShort     == SaveTime < QuietPeriod

VARIABLES
  files,      \* the watched tree
  timer,      \* ticks each file may stay half-written, or rests between saves
  edits,      \* edits so far
  stage,      \* where the loop is
  wait,       \* ticks of sleep left
  listed,     \* watched_paths: files listed and not yet read
  taken,      \* `current` of the loop: the fingerprint being taken
  baseline,   \* the fingerprint changes are measured from
  pending,    \* the change waiting to settle; NoChange is None
  quiet,      \* settled_at, as ticks from now
  fired,      \* how often on_change was called
  reported    \* history: the baseline when on_change was last called

tree == <<files, timer, edits>>
loop == <<stage, wait, listed, taken, baseline, pending, quiet, fired, reported>>
watchVars == <<tree, loop>>

Nothing  == [n \in Names |-> Absent]
NoChange == [added |-> {}, removed |-> {}, modified |-> {}]

-----------------------------------------------------------------------------
(* Editors.                                                                *)

BeginSave(n) ==
  /\ edits < MaxEdits
  /\ files[n] # Partial /\ timer[n] = 0
  /\ files' = [files EXCEPT ![n] = Partial]
  /\ timer' = [timer EXCEPT ![n] = SaveTime]
  /\ edits' = edits + 1
  /\ UNCHANGED loop

EndSave(n) ==
  /\ files[n] = Partial
  /\ \E c \in Contents : files' = [files EXCEPT ![n] = c]
  /\ timer' = [timer EXCEPT ![n] = Interval + 1]
  /\ UNCHANGED <<edits, loop>>

Delete(n) ==
  /\ edits < MaxEdits
  /\ files[n] \in Contents
  /\ files' = [files EXCEPT ![n] = Absent]
  /\ edits' = edits + 1
  /\ UNCHANGED <<timer, loop>>

Less(t) == IF t > 0 THEN t - 1 ELSE 0

TimePasses ==
  /\ stage = "scan" \/ (stage = "sleep" /\ wait > 0)
  /\ \A n \in Names : files[n] = Partial => timer[n] > 0
  /\ timer' = [n \in Names |-> Less(timer[n])]
  /\ wait' = Less(wait)
  /\ quiet' = Less(quiet)
  /\ UNCHANGED <<files, edits, stage, listed, taken, baseline, pending, fired, reported>>

-----------------------------------------------------------------------------
(* The loop.                                                               *)

(* watch() takes its first fingerprint before the loop. *)
WatchInit ==
  /\ files \in [Names -> Contents \cup {Absent}]
  /\ timer = [n \in Names |-> 0]
  /\ edits = 0
  /\ stage = "sleep" /\ wait = Interval
  /\ listed = {} /\ taken = files /\ baseline = files
  /\ pending = NoChange /\ quiet = 0
  /\ fired = 0 /\ reported = files

watched_paths ==
  /\ stage = "sleep" /\ wait = 0
  /\ listed' = {n \in Names : files[n] # Absent}
  /\ taken' = Nothing
  /\ stage' = "read"
  /\ UNCHANGED <<tree, wait, baseline, pending, quiet, fired, reported>>

(* A file deleted since it was listed is left out. *)
fingerprint(n) ==
  /\ stage = "read"
  /\ n \in listed
  /\ taken' = [taken EXCEPT ![n] = files[n]]
  /\ listed' = listed \ {n}
  /\ UNCHANGED <<tree, stage, wait, baseline, pending, quiet, fired, reported>>

Diff(before, after) ==
  [added    |-> {n \in Names : before[n] = Absent /\ after[n] # Absent},
   removed  |-> {n \in Names : before[n] # Absent /\ after[n] = Absent},
   modified |-> {n \in Names : before[n] # Absent /\ after[n] # Absent /\ before[n] # after[n]}]

MergeReplaces(first, second) == second      \* mutant: only the last change

Merge(first, second) ==
  [added    |-> first.added \cup second.added,
   removed  |-> first.removed \cup second.removed,
   modified |-> first.modified \cup second.modified]

Sleep == stage' = "sleep" /\ wait' = Interval

NoteChangeOnce ==            \* mutant: the quiet period is not restarted
  /\ stage = "read" /\ listed = {}
  /\ Diff(baseline, taken) # NoChange
  /\ pending' = Merge(pending, Diff(baseline, taken))
  /\ quiet' = IF pending = NoChange THEN QuietPeriod ELSE quiet
  /\ baseline' = taken
  /\ Sleep
  /\ UNCHANGED <<tree, listed, taken, fired, reported>>

(* Every new movement restarts the quiet period. *)
NoteChange ==
  /\ stage = "read" /\ listed = {}
  /\ Diff(baseline, taken) # NoChange
  /\ pending' = IF pending = NoChange THEN Diff(baseline, taken)
                ELSE Merge(pending, Diff(baseline, taken))
  /\ quiet' = QuietPeriod
  /\ baseline' = taken
  /\ Sleep
  /\ UNCHANGED <<tree, listed, taken, fired, reported>>

Settled == pending # NoChange /\ quiet = 0

Fire ==
  /\ stage = "read" /\ listed = {}
  /\ Diff(baseline, taken) = NoChange
  /\ Settled
  /\ stage' = "scan"
  /\ fired' = fired + 1
  /\ reported' = baseline
  /\ UNCHANGED <<tree, wait, listed, taken, baseline, pending, quiet>>

StayQuiet ==
  /\ stage = "read" /\ listed = {}
  /\ Diff(baseline, taken) = NoChange
  /\ ~Settled
  /\ Sleep
  /\ UNCHANGED <<tree, listed, taken, baseline, pending, quiet, fired, reported>>

RecheckReturnsRebased ==        \* mutant: a fresh fingerprint after the scan
  /\ stage = "scan"
  /\ baseline' = files
  /\ pending' = NoChange
  /\ Sleep
  /\ UNCHANGED <<tree, listed, taken, quiet, fired, reported>>

(* on_change scans the machine and returns whenever it likes. *)
RecheckReturns ==
  /\ stage = "scan"
  /\ pending' = NoChange
  /\ Sleep
  /\ UNCHANGED <<tree, listed, taken, baseline, quiet, fired, reported>>

Poll == watched_paths \/ (\E n \in Names : fingerprint(n))
          \/ NoteChange \/ Fire \/ StayQuiet \/ RecheckReturns

Edit(n) == BeginSave(n) \/ EndSave(n) \/ Delete(n)

WatchNext == Poll \/ TimePasses \/ \E n \in Names : Edit(n)

(* The loop keeps running, time passes, scans return and saves end. *)
WatchFairness == /\ WF_watchVars(Poll) /\ WF_watchVars(TimePasses)
            /\ \A n \in Names : WF_watchVars(EndSave(n))

WatchSpec     == WatchInit /\ [][WatchNext]_watchVars
WatchFairSpec == WatchSpec /\ WatchFairness

-----------------------------------------------------------------------------
(* Properties.                                                             *)

Tree   == [Names -> Contents \cup {Absent, Partial}]
Change == [added : SUBSET Names, removed : SUBSET Names, modified : SUBSET Names]

(* Every variable holds a value the code could give it. *)
WatchTypeOK ==
  /\ {files, taken, baseline, reported} \subseteq Tree
  /\ timer \in [Names -> 0..(SaveTime + Interval + 1)]
  /\ edits \in 0..MaxEdits
  /\ stage \in {"sleep", "read", "scan"}
  /\ wait \in 0..Interval
  /\ listed \subseteq Names
  /\ pending \in Change
  /\ quiet \in 0..QuietPeriod
  /\ fired \in Nat

(* "A save in progress must not trigger a scan of a half-written file":    *)
(* when on_change is called, no save that is shorter than the quiet period *)
(* was under way in what the loop last read, however saves of different    *)
(* files overlap.                                                          *)
NoHalfWrittenScan == \A n \in Names : reported[n] # Partial

Named(change) == change.added \cup change.removed \cup change.modified

(* The change handed to on_change leaves nothing out: it names every file  *)
(* that differs from what was there at the previous call.                  *)
Unnamed == {n \in Names : reported'[n] # reported[n]} \ Named(pending)

ChangesAreComplete == [][fired' > fired => Unnamed = {}]_watchVars

(* "Calling on_change once per settled change": a scan costs seconds, and  *)
(* there are never more of them than there were edits.                     *)
OneScanPerChange == fired <= edits

(* "Re-check when the environment contract changes": nothing is missed.    *)
(* Once the editing is over, the last call of on_change was about what is  *)
(* on disk now, also for edits made during a poll or while a scan ran.     *)
NothingIsMissed == <>[](reported = files)

(* What on_change is called for: settled changes, each once.               *)
ScansAreSettled == WatchTypeOK /\ NoHalfWrittenScan /\ OneScanPerChange

=============================================================================
