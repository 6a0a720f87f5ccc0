----------------------------- MODULE ProbeEngine -----------------------------
(***************************************************************************)
(* A scan: ProbeEngine.run_all (devrepro/probes/base.py) runs the probes   *)
(* in a thread pool and waits for each in turn with a timeout; run_scan    *)
(* (devrepro/cli/pipeline.py) then evaluates the rule packs and puts the   *)
(* report together, whose finding states decide the exit code.             *)
(*                                                                         *)
(* A result is what a report keeps of it: the states of its findings and   *)
(* whether it carries an error.  Time is counted in ticks and passes while *)
(* the engine waits and every idle worker has nothing to start.            *)
(***************************************************************************)
EXTENDS Integers, Sequences, FiniteSets

CONSTANTS
  Ids,         \* probe ids
  ProbeIds,    \* the id of each probe, in the order they are submitted
  PoolSizes,   \* what max_workers may be
  Timeout,     \* ticks in timeout_seconds * 4
  NoResult,    \* no result
  Exited       \* a probe that called sys.exit: no Exception, so nothing catches it

Probes == DOMAIN ProbeIds

ASSUME ProbesAssumption == ProbeIds \in Seq(Ids) /\ PoolSizes \subseteq Nat \ {0}
ASSUME TimeAssumption   == Timeout \in Nat \ {0}

VARIABLES
  workers,   \* threads in the pool
  started,   \* probes taken from the queue so far
  future,    \* what each probe's future holds, or NoResult
  age,       \* ticks each probe has been running, up to Timeout
  at,        \* the future run_all waits for; past the last when it leaves the pool,
             \* 0 when it leaves by a SystemExit
  timer,     \* ticks left of the wait
  results,   \* run_all's results, by probe id
  before,    \* history: probes already started when the wait began
  unheard,   \* history: probes whose wait timed out
  report     \* the ScanReport; Exited when the scan ended without one; or NoResult

pool   == <<started, future, age>>
engine == <<at, timer, results, before, unheard>>
vars   == <<workers, pool, engine, report>>

States == {"PASS", "WARN", "BLOCKED", "UNKNOWN"}
Result == [states: SUBSET States, error: BOOLEAN]
Failed == [states |-> {}, error |-> TRUE]

ASSUME ResultsAssumption == {NoResult, Exited} \cap Result = {} /\ NoResult # Exited

Running  == {p \in 1..started: future[p] = NoResult}
Waiting  == at \in Probes
MayStart == started < Len(ProbeIds) /\ Cardinality(Running) < workers

Init ==
  /\ workers \in PoolSizes
  /\ started = 0
  /\ future = [p \in Probes |-> NoResult] /\ age = [p \in Probes |-> 0]
  /\ at = 1 /\ timer = Timeout /\ before = 0
  /\ results = [i \in Ids |-> NoResult] /\ unheard = {}
  /\ report = NoResult

-----------------------------------------------------------------------------
(* The pool.                                                               *)

StartProbe ==
  /\ MayStart /\ started' = started + 1
  /\ UNCHANGED <<workers, future, age, engine, report>>

(* _run_one: what a probe on this platform returned; "unsupported" and a   *)
(* result of another type, as errors without a finding; an exception, as   *)
(* an UNKNOWN finding.                                                     *)
Outcomes == {[states |-> {s}, error |-> FALSE] : s \in {"PASS", "BLOCKED"}}
              \cup {Failed, [states |-> {"UNKNOWN"}, error |-> TRUE]}

FinishProbe(p) ==
  /\ p \in Running
  /\ \E r \in Outcomes \cup {Exited}: future' = [future EXCEPT ![p] = r]
  /\ UNCHANGED <<workers, started, age, engine, report>>

Older(p) == IF p \in Running /\ age[p] < Timeout THEN age[p] + 1 ELSE age[p]

Tick ==
  /\ Waiting /\ future[at] = NoResult /\ timer > 0 /\ ~MayStart
  /\ timer' = timer - 1
  /\ age' = [p \in Probes |-> Older(p)]
  /\ UNCHANGED <<workers, started, future, at, results, before, unheard, report>>

-----------------------------------------------------------------------------
(* run_all, in the thread that scans.                                      *)

(* Mutant: the first result of an id is kept.                              *)
RecordOnce(r) == results' = [results EXCEPT ![ProbeIds[at]] = IF @ = NoResult THEN r ELSE @]
(* A later probe with the same id replaces the result of an earlier one.   *)
Record(r) == results' = [results EXCEPT ![ProbeIds[at]] = r]

NextWait == at' = at + 1 /\ timer' = Timeout /\ before' = started

TakeResult ==
  /\ Waiting /\ future[at] \notin {NoResult, Exited}
  /\ Record(future[at]) /\ NextWait
  /\ UNCHANGED <<workers, pool, unheard, report>>

(* Mutant: the exit is taken for a spurious wake-up.                       *)
TakeExitAgain ==
  /\ Waiting /\ future[at] = Exited
  /\ timer' = Timeout
  /\ UNCHANGED <<workers, pool, at, results, before, unheard, report>>

TakeExit ==
  /\ Waiting /\ future[at] = Exited
  /\ at' = 0
  /\ UNCHANGED <<workers, pool, timer, results, before, unheard, report>>

(* Mutant: future.result() without a timeout.                              *)
TimeOutNever == FALSE /\ UNCHANGED vars

TimeOut ==
  /\ Waiting /\ future[at] = NoResult /\ timer = 0
  /\ Record(Failed) /\ NextWait
  /\ unheard' = unheard \cup {at}
  /\ UNCHANGED <<workers, pool, report>>

(* Leaving the pool waits for every probe, timed out or not.               *)
PoolIsEmpty == \A p \in Probes: future[p] # NoResult

-----------------------------------------------------------------------------
(* run_scan after run_all: rule packs and the environment audit run here;  *)
(* a pack that raises yields an UNKNOWN finding, an audit that raises none.*)
FindingStates(packs, audit) == packs \cup audit \cup UNION {results[i].states : i \in {j \in Ids: results[j] # NoResult}}

ProbeErrors == {i \in Ids: results[i] # NoResult /\ results[i].error}

exit_for(states) ==
  IF {"BLOCKED", "ERROR"} \cap states # {} THEN "BLOCKED"
  ELSE IF {"WARN", "UNKNOWN"} \cap states # {} THEN "READY_WITH_WARNINGS"
  ELSE "READY"

Report ==
  /\ at > Len(ProbeIds) /\ report = NoResult /\ PoolIsEmpty
  /\ \E packs \in {{}, {"PASS"}, {"WARN", "UNKNOWN"}}, audit \in {{}, {"BLOCKED"}}:
       report' = [states |-> FindingStates(packs, audit), probe_errors |-> ProbeErrors,
                  exit |-> exit_for(FindingStates(packs, audit))]
  /\ UNCHANGED <<workers, pool, engine>>

Exit ==
  /\ at = 0 /\ report = NoResult /\ PoolIsEmpty
  /\ report' = Exited
  /\ UNCHANGED <<workers, pool, engine>>

Scan == StartProbe \/ Tick \/ TakeResult \/ TakeExit \/ TimeOut \/ Report \/ Exit

Next == Scan \/ \E p \in Probes: FinishProbe(p)

-----------------------------------------------------------------------------
(* The scanning thread and the pool run on and time passes; nothing makes  *)
(* a probe return.                                                         *)
Spec == Init /\ [][Next]_vars /\ WF_vars(Scan)

-----------------------------------------------------------------------------
LastWith(i) == CHOOSE p \in Probes: ProbeIds[p] = i /\ \A q \in Probes: ProbeIds[q] = i => q <= p

(* Every variable keeps its range, the pool its size, and its queue its    *)
(* order.                                                                  *)
TypeOK ==
  /\ workers \in PoolSizes /\ started \in 0..Len(ProbeIds)
  /\ Cardinality(Running) <= workers
  /\ future \in [Probes -> Result \cup {NoResult, Exited}]
  /\ age \in [Probes -> 0..Timeout]
  /\ \A p \in Probes: p > started => future[p] = NoResult /\ age[p] = 0
  /\ at \in 0..Len(ProbeIds) + 1 /\ timer \in 0..Timeout /\ before \in 0..started
  /\ results \in [Ids -> Result \cup {NoResult}]
  /\ unheard \subseteq Probes

(* Isolation: whatever the other probes do, a scan that reports has for    *)
(* every id what the last probe of that id returned, an error if it was    *)
(* given up; and no probe is still running while the report is read.       *)
EveryProbeIsReported ==
  report \notin {NoResult, Exited} =>
    \A i \in {ProbeIds[p] : p \in Probes}:
      results[i] = IF LastWith(i) \in unheard THEN Failed ELSE future[LastWith(i)]

(* A probe that outlives its timeout keeps its thread: the scan is over    *)
(* only when every probe is, so none runs beside what follows it.          *)
NoProbeOutlivesTheScan == report # NoResult => \A p \in Probes: future[p] # NoResult

(* A probe that is running when its turn comes is never given up before    *)
(* it has had its own timeout, however long the probes before it took.     *)
TimeoutsAreDeserved ==
  [][\A p \in unheard' \ unheard: p <= before => age[p] >= Timeout]_vars

(* Hung probes do not keep the engine from collecting the other results.   *)
TimeoutsBoundTheWait == <>~Waiting

(* A scan ends when its probes do.                                         *)
ScanEnds == (\A p \in Probes: <>(future[p] # NoResult)) => <>(report # NoResult)

(* "exceptions/timeouts become findings": a probe that was given up leaves *)
(* a finding in the report.  It does not: its error alone remains, and the *)
(* exit code may say READY.                                                *)
TimeoutsBecomeFindings ==
  report \notin {NoResult, Exited} =>
    ((\E p \in unheard: LastWith(ProbeIds[p]) = p) => "UNKNOWN" \in report.states)

(* The report of a scan is the work of all its probes, which are over.     *)
ReportIsComplete == TypeOK /\ EveryProbeIsReported /\ NoProbeOutlivesTheScan

(* A timeout neither falls on a probe that had no time nor lets one that   *)
(* hangs hold up the others.                                               *)
TimeoutsAreFair == TimeoutsAreDeserved /\ TimeoutsBoundTheWait

=============================================================================
