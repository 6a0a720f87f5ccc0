------------------------------ MODULE CheckProofs ------------------------------
(***************************************************************************)
(* Proofs about what `devrepro check` rests on: the scan (ProbeEngine) and *)
(* the policy it is held against (PolicyCheck).                            *)
(*                                                                         *)
(* The scan, for any probes under any ids, any pool and any timeout: what  *)
(* a report says of every id, and which probes may be given up.  run_all   *)
(* works through the futures in order, so the results before the one it    *)
(* waits for are those of the last probes of their ids so far              *)
(* (ReportedSoFar), and stay so because a result that was taken is of a    *)
(* probe that is over.  A probe that was running when its turn came has    *)
(* aged by every tick of the wait (AgedByTheWait).                         *)
(*                                                                         *)
(* The policy, for any files, whatever extends whatever, and any limit:    *)
(* the layers are the files within reach, in the order of their distance.  *)
(* While the walk goes on a depth is only a bound of a distance (Walk);    *)
(* when nothing is left to read every link leads to a layer that is at     *)
(* most one deeper, so depths are distances (WalkEnds).                    *)
(***************************************************************************)
EXTENDS ProbeEngine, PolicyCheck, Counting, SequenceTheorems, TLAPS

(* What run_all recorded of probe p. *)
Heard(p, result) ==
  IF p \in unheard THEN result = Failed
  ELSE future[p] \notin {NoResult, Exited} /\ result = future[p]

LastBefore(p, id, n) ==
  p \in 1..n /\ ProbeIds[p] = id /\ \A q \in 1..n : ProbeIds[q] = id => q <= p

ReportedSoFar ==
  \A q \in 1..(at - 1) :
    \E p \in 1..(at - 1) :
      LastBefore(p, ProbeIds[q], at - 1) /\ Heard(p, results[ProbeIds[q]])

GivenUpInTurn == at > 0 => unheard \subseteq 1..(at - 1)

AgedByTheWait ==
  (Waiting /\ at <= before /\ future[at] = NoResult) => age[at] + timer >= Timeout

ReportIsLast ==
  /\ report # NoResult => PoolIsEmpty
  /\ report \notin {NoResult, Exited} => at = Len(ProbeIds) + 1

Inv == TypeOK /\ ReportedSoFar /\ GivenUpInTurn /\ AgedByTheWait /\ ReportIsLast

-----------------------------------------------------------------------------
LEMMA ProbesAreNumbered ==
  /\ Len(ProbeIds) \in Nat /\ Probes = 1..Len(ProbeIds)
  /\ \A p \in Probes : ProbeIds[p] \in Ids
  BY ProbesAssumption DEF Probes

LEMMA OutcomesAreResults == Outcomes \subseteq Result /\ Failed \in Result
<1>1. Failed \in Result /\ [states |-> {"UNKNOWN"}, error |-> TRUE] \in Result
  BY DEF Failed, Result, States
<1>2. \A s \in {"PASS", "BLOCKED"} : [states |-> {s}, error |-> FALSE] \in Result
  BY DEF Result, States
<1> QED
  BY <1>1, <1>2 DEF Outcomes

LEMMA RunningIsFinite ==
  ASSUME started \in Nat
  PROVE  IsFiniteSet(Running) /\ Cardinality(Running) \in Nat
<1>1. IsFiniteSet(1..started)
  BY FS_Interval
<1> QED
  BY <1>1, FS_Subset, FS_CardinalityType DEF Running

LEMMA InitInv == Init => Inv
<1> SUFFICES ASSUME Init PROVE Inv
  OBVIOUS
<1> USE ProbesAreNumbered, ProbesAssumption, TimeAssumption
<1>1. Running = {}
  BY DEF Init, Running
<1>2. TypeOK
  BY <1>1, FS_EmptySet DEF Init, TypeOK
<1> QED
  BY <1>2 DEF Inv, Init, ReportedSoFar, GivenUpInTurn, AgedByTheWait, ReportIsLast, Waiting

-----------------------------------------------------------------------------
(* The steps of the pool.                                                  *)

LEMMA StartProbeInv == Inv /\ StartProbe => Inv'
<1> SUFFICES ASSUME Inv, StartProbe PROVE Inv'
  OBVIOUS
<1> USE ProbesAreNumbered, ProbesAssumption, TimeAssumption
<1>1. Running' \subseteq Running \cup {started + 1}
  BY DEF Running, StartProbe, Inv, TypeOK
<1>2. Cardinality(Running') <= workers
  <2>1. /\ IsFiniteSet(Running \cup {started + 1})
        /\ Cardinality(Running \cup {started + 1}) <= Cardinality(Running) + 1
    <3>1. started \in Nat
      BY DEF Inv, TypeOK
    <3>2. IsFiniteSet(Running) /\ Cardinality(Running) \in Nat
      BY <3>1, RunningIsFinite
    <3>3. /\ IsFiniteSet(Running \cup {started + 1})
          /\ Cardinality(Running \cup {started + 1}) =
               IF started + 1 \in Running THEN Cardinality(Running) ELSE Cardinality(Running) + 1
      BY <3>2, FS_AddElement, Zenon
    <3> QED
      BY <3>2, <3>3
  <2>2. Cardinality(Running') <= Cardinality(Running \cup {started + 1})
    BY <1>1, <2>1, FS_Subset
  <2>3. Cardinality(Running') \in Nat /\ Cardinality(Running) \in Nat
    <3>1. started \in Nat /\ started' \in Nat
      BY DEF Inv, TypeOK, StartProbe
    <3>2. IsFiniteSet(Running')
      BY <1>1, <2>1, FS_Subset
    <3> QED
      BY <3>1, <3>2, RunningIsFinite, FS_CardinalityType
  <2>4. Cardinality(Running \cup {started + 1}) \in Nat
    BY <2>1, FS_CardinalityType
  <2> QED
    BY <2>1, <2>2, <2>3, <2>4 DEF StartProbe, MayStart, Inv, TypeOK
<1>3. TypeOK'
  BY <1>2 DEF Inv, TypeOK, StartProbe, MayStart, engine
<1>4. UNCHANGED <<future, age, engine, report>>
  BY DEF StartProbe
<1>5. ReportedSoFar' /\ GivenUpInTurn' /\ AgedByTheWait' /\ ReportIsLast'
  BY <1>4 DEF Inv, engine, ReportedSoFar, Heard, LastBefore, GivenUpInTurn, AgedByTheWait,
       ReportIsLast, Waiting, PoolIsEmpty
<1> QED
  BY <1>3, <1>5 DEF Inv

LEMMA FinishProbeInv == ASSUME NEW p \in Probes, Inv, FinishProbe(p) PROVE Inv'
<1> USE ProbesAreNumbered, ProbesAssumption, TimeAssumption
<1>1. /\ future' \in [Probes -> Result \cup {NoResult, Exited}]
      /\ \A q \in Probes : q # p => future'[q] = future[q]
      /\ future'[p] # NoResult /\ future[p] = NoResult /\ p \in 1..started
  BY OutcomesAreResults, ResultsAssumption DEF FinishProbe, Running, Inv, TypeOK
<1>2. UNCHANGED <<workers, started, age, engine, report>>
  BY DEF FinishProbe
<1>3. Cardinality(Running') <= workers
  <2>1. Running' \subseteq Running
    BY <1>1, <1>2 DEF Running, Inv, TypeOK
  <2>2. IsFiniteSet(Running) /\ Cardinality(Running) \in Nat
    BY RunningIsFinite DEF Inv, TypeOK
  <2>3. IsFiniteSet(Running') /\ Cardinality(Running') <= Cardinality(Running)
    BY <2>1, <2>2, FS_Subset
  <2>4. Cardinality(Running') \in Nat
    BY <2>3, FS_CardinalityType
  <2> QED
    BY <2>2, <2>3, <2>4 DEF Inv, TypeOK
<1>4. TypeOK'
  BY <1>1, <1>2, <1>3 DEF Inv, TypeOK, engine
<1>5. \A q \in Probes : \A result : Heard(q, result) => Heard(q, result)'
  BY <1>1, <1>2 DEF Heard, engine
<1>6. ReportedSoFar'
  <2>1. \A q \in 1..(at - 1) : q \in Probes
    BY DEF Inv, TypeOK
  <2> QED
    BY <1>1, <1>2, <2>1 DEF Inv, engine, ReportedSoFar, Heard, LastBefore
<1>7. GivenUpInTurn' /\ AgedByTheWait' /\ ReportIsLast'
  BY <1>1, <1>2 DEF Inv, engine, GivenUpInTurn, AgedByTheWait, ReportIsLast, Waiting, PoolIsEmpty
<1> QED
  BY <1>4, <1>6, <1>7 DEF Inv

LEMMA TickInv == Inv /\ Tick => Inv'
<1> SUFFICES ASSUME Inv, Tick PROVE Inv'
  OBVIOUS
<1> USE ProbesAreNumbered, ProbesAssumption, TimeAssumption
<1>1. /\ UNCHANGED <<workers, started, future, at, results, before, unheard, report>>
      /\ timer' = timer - 1 /\ timer > 0 /\ Waiting
      /\ age' = [p \in Probes |-> Older(p)]
  BY DEF Tick
<1>2. Running' = Running
  BY <1>1 DEF Running
<1>3. \A p \in Probes : age'[p] \in 0..Timeout /\ age'[p] >= age[p]
  <2> SUFFICES ASSUME NEW p \in Probes PROVE age'[p] \in 0..Timeout /\ age'[p] >= age[p]
    OBVIOUS
  <2>1. age[p] \in 0..Timeout
    BY DEF Inv, TypeOK
  <2>2. Older(p) \in 0..Timeout /\ Older(p) >= age[p]
    BY <2>1 DEF Older
  <2>3. age'[p] = Older(p)
    BY <1>1
  <2> QED BY <2>2, <2>3
<1>4. TypeOK'
  BY <1>1, <1>2, <1>3 DEF Inv, TypeOK, Older, Running
<1>5. AgedByTheWait'
  <2> SUFFICES ASSUME at <= before, future[at] = NoResult PROVE age'[at] + timer' >= Timeout
    BY <1>1 DEF AgedByTheWait, Waiting
  <2>1. at \in Running /\ at \in Probes
    BY <1>1 DEF Running, Waiting, Inv, TypeOK
  <2>2. age[at] + timer >= Timeout
    BY <2>1 DEF Inv, AgedByTheWait, Waiting
  <2> QED
    <3>1. age[at] \in 0..Timeout /\ timer \in Nat
      BY <2>1 DEF Inv, TypeOK
    <3>2. age'[at] = IF age[at] < Timeout THEN age[at] + 1 ELSE age[at]
      BY <1>1, <2>1 DEF Older
    <3> QED
      BY <1>1, <2>2, <3>1, <3>2
<1>6. ReportedSoFar' /\ GivenUpInTurn' /\ ReportIsLast'
  BY <1>1 DEF Inv, ReportedSoFar, Heard, LastBefore, GivenUpInTurn, ReportIsLast, PoolIsEmpty
<1> QED
  BY <1>4, <1>5, <1>6 DEF Inv

-----------------------------------------------------------------------------
(* The steps of the thread that scans.  The next wait begins with a result *)
(* for the probe that was waited for.                                      *)

LEMMA NextWaitInv ==
  ASSUME Inv, Waiting, NEW r \in Result, Record(r), NextWait,
         UNCHANGED <<workers, pool, report>>,
         \/ unheard' = unheard /\ future[at] \notin {NoResult, Exited} /\ r = future[at]
         \/ unheard' = unheard \cup {at} /\ r = Failed
  PROVE  Inv'
<1> USE ProbesAreNumbered, ProbesAssumption, TimeAssumption
<1>1. /\ UNCHANGED <<workers, started, future, age, report>>
      /\ at' = at + 1 /\ timer' = Timeout /\ before' = started
      /\ at \in 1..Len(ProbeIds)
      /\ results' = [results EXCEPT ![ProbeIds[at]] = r]
  BY DEF pool, NextWait, Record, Waiting
<1>2. Running' = Running
  BY <1>1 DEF Running
<1>3. TypeOK'
  <2>1. results' \in [Ids -> Result \cup {NoResult}] /\ unheard' \subseteq Probes
    BY <1>1 DEF Inv, TypeOK
  <2>2. at' \in 0..Len(ProbeIds) + 1 /\ timer' \in 0..Timeout /\ before' \in 0..started'
    BY <1>1 DEF Inv, TypeOK
  <2> QED
    BY <1>1, <1>2, <2>1, <2>2 DEF Inv, TypeOK
<1>4. at \notin unheard /\ GivenUpInTurn'
  <2>1. at \in Nat /\ at > 0 /\ at' = at + 1 /\ unheard' \subseteq unheard \cup {at}
    BY <1>1
  <2>2. unheard \subseteq 1..(at - 1)
    BY <2>1 DEF Inv, GivenUpInTurn
  <2>3. unheard' \subseteq 1..at
    BY <2>1, <2>2
  <2>4. (at + 1) - 1 = at
    BY <2>1
  <2> QED
    BY <2>1, <2>2, <2>3, <2>4 DEF GivenUpInTurn
<1>5. IF at \in unheard' THEN r = Failed ELSE future'[at] \notin {NoResult, Exited} /\ r = future'[at]
  BY <1>1, <1>4
<1>6. \A p \in 1..(at - 1) : \A result : Heard(p, result) => Heard(p, result)'
  BY <1>1 DEF Heard
<1>7. ReportedSoFar'
  <2> SUFFICES ASSUME NEW q \in 1..at
               PROVE  \E p \in 1..at : /\ LastBefore(p, ProbeIds[q], at)
                                       /\ Heard(p, results[ProbeIds[q]])'
    BY <1>1 DEF ReportedSoFar, LastBefore, Inv, TypeOK
  <2>1. CASE ProbeIds[q] = ProbeIds[at]
    <3>1. LastBefore(at, ProbeIds[q], at)
      BY <1>1, <2>1 DEF LastBefore
    <3>2. results'[ProbeIds[q]] = r
      BY <1>1, <2>1 DEF Inv, TypeOK
    <3> QED
      BY <1>1, <1>5, <3>1, <3>2 DEF Heard
  <2>2. CASE ProbeIds[q] # ProbeIds[at]
    <3>1. q \in 1..(at - 1)
      BY <1>1, <2>2
    <3>2. PICK p \in 1..(at - 1) :
            LastBefore(p, ProbeIds[q], at - 1) /\ Heard(p, results[ProbeIds[q]])
      BY <3>1 DEF Inv, ReportedSoFar
    <3>3. LastBefore(p, ProbeIds[q], at)
      BY <1>1, <2>2, <3>2 DEF LastBefore
    <3>4. results'[ProbeIds[q]] = results[ProbeIds[q]]
      BY <1>1, <2>2, <3>1 DEF Inv, TypeOK
    <3>5. Heard(p, results[ProbeIds[q]])'
      BY <1>1, <3>2, <3>4 DEF Heard
    <3> QED
      BY <1>1, <3>2, <3>3, <3>5
  <2> QED
    BY <2>1, <2>2
<1>8. AgedByTheWait'
  BY <1>1, <1>3 DEF AgedByTheWait, TypeOK, Waiting
<1>9. ReportIsLast'
  BY <1>1 DEF Inv, ReportIsLast, PoolIsEmpty, Waiting
<1> QED
  BY <1>3, <1>4, <1>7, <1>8, <1>9 DEF Inv

LEMMA TakeResultInv == Inv /\ TakeResult => Inv'
<1> SUFFICES ASSUME Inv, TakeResult PROVE Inv'
  OBVIOUS
<1>1. future[at] \in Result
  BY DEF TakeResult, Waiting, Inv, TypeOK
<1> QED
  BY <1>1, NextWaitInv DEF TakeResult

LEMMA TimeOutInv == Inv /\ TimeOut => Inv'
  BY NextWaitInv, OutcomesAreResults DEF TimeOut

LEMMA LeaveInv == Inv /\ (TakeExit \/ Report \/ Exit) => Inv'
<1> SUFFICES ASSUME Inv, TakeExit \/ Report \/ Exit PROVE Inv'
  OBVIOUS
<1> USE ProbesAreNumbered
<1>1. CASE TakeExit
  <2>1. /\ UNCHANGED <<workers, pool, timer, results, before, unheard, report>>
        /\ at' = 0 /\ at <= Len(ProbeIds)
    BY <1>1 DEF TakeExit, Waiting
  <2>2. TypeOK'
    BY <2>1 DEF Inv, TypeOK, pool, Running
  <2>3. ReportedSoFar' /\ GivenUpInTurn' /\ AgedByTheWait' /\ ReportIsLast'
    BY <2>1 DEF Inv, pool, ReportedSoFar, GivenUpInTurn, AgedByTheWait, ReportIsLast, Waiting,
         PoolIsEmpty, TypeOK
  <2> QED
    BY <2>2, <2>3 DEF Inv
<1>2. CASE Report \/ Exit
  <2>1. UNCHANGED <<workers, pool, engine>> /\ PoolIsEmpty
    BY <1>2 DEF Report, Exit
  <2>2. report' \notin {NoResult, Exited} => at = Len(ProbeIds) + 1
    BY <1>2 DEF Report, Exit, Inv, TypeOK
  <2>3. TypeOK'
    BY <2>1 DEF Inv, TypeOK, pool, engine, Running
  <2>4. ReportedSoFar' /\ GivenUpInTurn' /\ AgedByTheWait' /\ ReportIsLast'
    BY <2>1, <2>2 DEF Inv, pool, engine, ReportedSoFar, Heard, LastBefore, GivenUpInTurn,
         AgedByTheWait, ReportIsLast, Waiting, PoolIsEmpty
  <2> QED
    BY <2>3, <2>4 DEF Inv
<1> QED
  BY <1>1, <1>2

LEMMA StepInv == Inv /\ [Next]_vars => Inv'
<1> SUFFICES ASSUME Inv, [Next]_vars PROVE Inv'
  OBVIOUS
<1>1. CASE UNCHANGED vars
  BY <1>1 DEF vars, pool, engine, Inv, TypeOK, Running, ReportedSoFar, Heard, LastBefore,
       GivenUpInTurn, AgedByTheWait, ReportIsLast, Waiting, PoolIsEmpty
<1>2. CASE Next
  BY <1>2, StartProbeInv, FinishProbeInv, TickInv, TakeResultInv, TimeOutInv, LeaveInv
     DEF Next, Scan
<1> QED
  BY <1>1, <1>2

LEMMA InvAlways == Spec => []Inv
  BY InitInv, StepInv, PTL DEF Spec

-----------------------------------------------------------------------------
(* A report has for every id what the last probe of that id returned, or   *)
(* an error if it was given up, and is read when no probe runs any more    *)
(* (probes/base.py, run_all).                                              *)
THEOREM ProbeReportIsComplete == Spec => []ReportIsComplete
<1>1. ASSUME Inv, report \notin {NoResult, Exited}, NEW q \in Probes
      PROVE  results[ProbeIds[q]] = IF LastWith(ProbeIds[q]) \in unheard THEN Failed
                                    ELSE future[LastWith(ProbeIds[q])]
  <2>1. at - 1 = Len(ProbeIds) /\ Probes = 1..(at - 1)
    BY <1>1, ProbesAreNumbered DEF Inv, ReportIsLast
  <2>2. PICK p \in Probes : LastBefore(p, ProbeIds[q], at - 1) /\ Heard(p, results[ProbeIds[q]])
    BY <1>1, <2>1 DEF Inv, ReportedSoFar
  <2>3. LastWith(ProbeIds[q]) = p
    BY <2>1, <2>2 DEF LastWith, LastBefore
  <2> QED
    BY <2>2, <2>3 DEF Heard
<1>2. Inv => EveryProbeIsReported
  BY <1>1 DEF EveryProbeIsReported
<1>3. Inv => NoProbeOutlivesTheScan
  BY DEF Inv, ReportIsLast, PoolIsEmpty, NoProbeOutlivesTheScan
<1>4. Inv => ReportIsComplete
  BY <1>2, <1>3 DEF Inv, ReportIsComplete
<1> QED
  BY <1>4, InvAlways, PTL

(* A probe that runs when its turn comes is given up only after its own    *)
(* timeout (probes/base.py, run_all).                                      *)
THEOREM ProbeTimeoutsAreDeserved == Spec => TimeoutsAreDeserved
<1>1. ASSUME Inv, [Next]_vars, NEW p \in unheard' \ unheard, p <= before
      PROVE  age[p] >= Timeout
  <2>1. TimeOut
    BY <1>1 DEF Next, Scan, StartProbe, FinishProbe, Tick, TakeResult, TakeExit, Report, Exit,
         engine, vars
  <2>2. p = at /\ timer = 0 /\ Waiting /\ future[at] = NoResult
    BY <1>1, <2>1 DEF TimeOut
  <2>3. age[at] \in Nat
    BY <1>1, <2>2, TimeAssumption DEF Waiting, Inv, TypeOK
  <2> QED
    BY <1>1, <2>2, <2>3, TimeAssumption DEF Inv, AgedByTheWait
<1>2. Inv /\ [Next]_vars
        => [\A p \in unheard' \ unheard : p <= before => age[p] >= Timeout]_vars
  BY <1>1
<1> QED
  BY <1>2, InvAlways, PTL DEF Spec, TimeoutsAreDeserved

-----------------------------------------------------------------------------
(* What every file extends. *)
LinksOf == [Files -> Seq(Files)]

(* The files at most n links away, for any links. *)
Reach(e) ==
  CHOOSE reached : reached = [n \in Nat |->
    IF n = 0 THEN {Start}
    ELSE reached[n - 1] \cup UNION {Range(e[f]) : f \in reached[n - 1]}]

LEMMA WithinIsReach == Within = Reach(extends)
  BY DEF Within, Reach

LEMMA RangeOfFiles ==
  ASSUME NEW s \in Seq(Files)
  PROVE  Range(s) \subseteq Files /\ Range(s) = {s[i] : i \in 1..Len(s)}
  BY DEF Range

(* Within as the recursion it is: the links are followed once per number.  *)
LEMMA Reached ==
  ASSUME NEW e \in LinksOf
  PROVE  /\ Reach(e) \in [Nat -> SUBSET Files]
         /\ Reach(e)[0] = {Start}
         /\ \A n \in Nat : Reach(e)[n + 1] = Reach(e)[n] \cup UNION {Range(e[f]) : f \in Reach(e)[n]}
<1> DEFINE A == SUBSET Files
           G == [p \in Nat \X A |-> p[2] \cup UNION {Range(e[f]) : f \in p[2]}]
           Eq(w) == w = [n \in Nat |->
                           IF n = 0 THEN {Start}
                           ELSE w[n - 1] \cup UNION {Range(e[f]) : f \in w[n - 1]}]
<1>1. {Start} \in A
  BY FilesAssumption
<1>2. G \in StepFunctions(A)
  <2>1. ASSUME NEW W \in A
        PROVE  W \cup UNION {Range(e[f]) : f \in W} \in A
    <3>1. \A f \in W : Range(e[f]) \subseteq Files
      BY RangeOfFiles DEF LinksOf
    <3> QED BY <3>1
  <2>2. ASSUME NEW p \in Nat \X A
        PROVE  p[2] \cup UNION {Range(e[f]) : f \in p[2]} \in A
    <3>1. p[2] \in A
      OBVIOUS
    <3> HIDE DEF A
    <3> QED BY <2>1, <3>1
  <2> HIDE DEF A
  <2> QED BY <2>2 DEF StepFunctions
<1>3. PICK w : Recursion(w, A, {Start}, G)
  <2> HIDE DEF G, A
  <2> QED BY <1>1, <1>2, RecursiveFunction
<1>4. /\ w \in [Nat -> A]
      /\ w[0] = {Start}
      /\ \A n \in Nat : w[n + 1] = G[<<n, w[n]>>]
  BY <1>3 DEF Recursion
<1>5. \A n \in Nat : w[n + 1] = w[n] \cup UNION {Range(e[f]) : f \in w[n]}
  <2> TAKE n \in Nat
  <2>1. <<n, w[n]>> \in Nat \X A
    BY <1>4
  <2>2. G[<<n, w[n]>>] = w[n] \cup UNION {Range(e[f]) : f \in w[n]}
    <3> HIDE DEF A
    <3> QED BY <2>1
  <2> HIDE DEF G
  <2> QED BY <1>4, <2>2
<1>6. Eq(w)
  <2>1. ASSUME NEW n \in Nat
        PROVE  w[n] = IF n = 0 THEN {Start}
                      ELSE w[n - 1] \cup UNION {Range(e[f]) : f \in w[n - 1]}
    <3>1. CASE n = 0
      BY <1>4, <3>1
    <3>2. CASE n # 0
      <4>1. n - 1 \in Nat /\ (n - 1) + 1 = n
        BY <3>2
      <4>2. w[(n - 1) + 1] = w[n - 1] \cup UNION {Range(e[f]) : f \in w[n - 1]}
        BY <1>5, <4>1
      <4> QED BY <3>2, <4>1, <4>2
    <3> QED BY <3>1, <3>2
  <2> HIDE DEF A, G
  <2> QED BY <1>4, <2>1
<1>7. Eq(Reach(e))
  <2>1. \E x : Eq(x)
    <3> HIDE DEF Eq
    <3> QED BY <1>6
  <2>2. Reach(e) = CHOOSE x : Eq(x)
    BY DEF Reach
  <2> HIDE DEF Eq
  <2> QED BY <2>1, <2>2
<1> DEFINE r == Reach(e)
<1>8. \A n \in Nat : r[n] = IF n = 0 THEN {Start}
                            ELSE r[n - 1] \cup UNION {Range(e[f]) : f \in r[n - 1]}
  <2> HIDE DEF r
  <2> SUFFICES ASSUME Eq(r) PROVE \A n \in Nat : r[n] = IF n = 0 THEN {Start}
                            ELSE r[n - 1] \cup UNION {Range(e[f]) : f \in r[n - 1]}
    BY <1>7 DEF r
  <2> QED OBVIOUS
<1>9. r[0] = {Start} /\ \A n \in Nat : r[n + 1] = r[n] \cup UNION {Range(e[f]) : f \in r[n]}
  <2>1. r[0] = {Start}
    BY <1>8
  <2>2. ASSUME NEW n \in Nat PROVE r[n + 1] = r[n] \cup UNION {Range(e[f]) : f \in r[n]}
    <3>1. n + 1 \in Nat /\ n + 1 # 0 /\ (n + 1) - 1 = n
      OBVIOUS
    <3> HIDE DEF r
    <3> QED BY <1>8, <3>1
  <2> QED BY <2>1, <2>2
<1>10. \A n \in Nat : r[n] \in A
  <2> DEFINE S == {n \in Nat : r[n] \in A}
  <2>1. 0 \in S
    BY <1>1, <1>9
  <2>2. ASSUME NEW n \in Nat, n \in S PROVE n + 1 \in S
    <3>1. r[n] \subseteq Files /\ r[n + 1] = r[n] \cup UNION {Range(e[f]) : f \in r[n]}
      BY <1>9, <2>2
    <3> HIDE DEF r
    <3>2. \A f \in r[n] : Range(e[f]) \subseteq Files
      BY <3>1, RangeOfFiles DEF LinksOf
    <3>3. r[n + 1] \subseteq Files
      BY <3>1, <3>2
    <3> QED BY <3>3
  <2> HIDE DEF S
  <2>3. Nat \subseteq S
    BY <2>1, <2>2, Induction
  <2> QED BY <2>3 DEF S
<1>11. r \in [Nat -> A]
  <2>1. \E x : r = [n \in Nat |-> x[n]]
    <3> DEFINE x == [n \in Nat |-> IF n = 0 THEN {Start}
                     ELSE r[n - 1] \cup UNION {Range(e[f]) : f \in r[n - 1]}]
    <3>1. r = x
      BY <1>7
    <3>2. x = [n \in Nat |-> x[n]]
      OBVIOUS
    <3> HIDE DEF x, r
    <3> QED BY <3>1, <3>2
  <2> HIDE DEF r, A
  <2> QED BY <1>10, <2>1
<1> QED BY <1>9, <1>11 DEF r

(* What is within m links is within more of them.                          *)
LEMMA ReachGrows ==
  ASSUME NEW e \in LinksOf, NEW m \in Nat, NEW n \in Nat, m <= n
  PROVE  Reach(e)[m] \subseteq Reach(e)[n]
<1> DEFINE S == {k \in Nat : Reach(e)[m] \subseteq Reach(e)[m + k]}
<1>1. 0 \in S
  BY Reached
<1>2. ASSUME NEW k \in Nat, k \in S PROVE k + 1 \in S
  <2>1. m + k \in Nat /\ m + (k + 1) = (m + k) + 1
    OBVIOUS
  <2>2. Reach(e)[(m + k) + 1] = Reach(e)[m + k] \cup UNION {Range(e[f]) : f \in Reach(e)[m + k]}
    BY <2>1, Reached
  <2> QED BY <1>2, <2>1, <2>2
<1> HIDE DEF S
<1>3. Nat \subseteq S
  BY <1>1, <1>2, Induction
<1>4. n - m \in Nat /\ m + (n - m) = n
  OBVIOUS
<1> QED BY <1>3, <1>4 DEF S

(* More links reach more. *)
LEMMA MoreLinksReachMore ==
  ASSUME NEW e \in LinksOf, NEW g \in LinksOf, NEW n \in Nat,
         \A f \in Files : Range(e[f]) \subseteq Range(g[f])
  PROVE  Reach(e)[n] \subseteq Reach(g)[n]
<1> DEFINE S == {k \in Nat : Reach(e)[k] \subseteq Reach(g)[k]}
<1>1. 0 \in S
  BY Reached
<1>2. ASSUME NEW k \in Nat, k \in S PROVE k + 1 \in S
  <2>1. /\ Reach(e)[k + 1] = Reach(e)[k] \cup UNION {Range(e[f]) : f \in Reach(e)[k]}
        /\ Reach(g)[k + 1] = Reach(g)[k] \cup UNION {Range(g[f]) : f \in Reach(g)[k]}
    BY Reached
  <2>2. Reach(e)[k] \subseteq Files
    BY Reached
  <2>3. Reach(e)[k] \subseteq Reach(g)[k]
    BY <1>2
  <2>4. Reach(e)[k + 1] \subseteq Reach(g)[k + 1]
    <3> SUFFICES ASSUME NEW x \in Reach(e)[k + 1] PROVE x \in Reach(g)[k + 1]
      OBVIOUS
    <3>1. CASE x \in Reach(e)[k]
      BY <2>1, <2>3, <3>1
    <3>2. CASE x \notin Reach(e)[k]
      <4>1. PICK f \in Reach(e)[k] : x \in Range(e[f])
        BY <2>1, <3>2
      <4>2. f \in Reach(g)[k] /\ x \in Range(g[f])
        BY <2>2, <2>3, <4>1
      <4> QED BY <2>1, <4>2
    <3> QED BY <3>1, <3>2
  <2> QED BY <2>4
<1> HIDE DEF S
<1>3. Nat \subseteq S
  BY <1>1, <1>2, Induction
<1> QED BY <1>3 DEF S

-----------------------------------------------------------------------------
(* The walk of _chain, where D is the depth at which each layer was read:  *)
(* L are the layers, F the frontier, e the links read so far.  A file is   *)
(* due at a depth when it is a layer or waits in the frontier at no more.  *)
Read(L, e, D) ==
  /\ D \in [1..Len(L) -> Nat]
  /\ \A i \in 1..Len(L) : D[i] < i /\ L[i] \in Reach(e)[D[i]]
  /\ \A i, j \in 1..Len(L) : i <= j => D[i] <= D[j]

Queued(L, F, e, D) ==
  /\ \A k \in 1..Len(F) : /\ F[k][1] \in Reach(e)[F[k][2]] /\ F[k][2] <= Len(L)
                          /\ \A i \in 1..Len(L) : D[i] <= F[k][2]
  /\ \A k, l \in 1..Len(F) : k <= l => F[k][2] <= F[l][2] /\ F[l][2] <= F[k][2] + 1

Due(f, d, L, F, D) ==
  \/ \E i \in 1..Len(L) : L[i] = f /\ D[i] <= d
  \/ \E k \in 1..Len(F) : F[k][1] = f /\ F[k][2] <= d

Owed(L, F, e, D) ==
  /\ Due(Start, 0, L, F, D)
  /\ \A i \in 1..Len(L) : \A f \in Range(e[L[i]]) : Due(f, D[i] + 1, L, F, D)

Unread(L, e) == \A f \in Files : f \notin Range(L) => e[f] = <<>>

Walk(L, F, e, D) == Read(L, e, D) /\ Queued(L, F, e, D) /\ Owed(L, F, e, D) /\ Unread(L, e)

(* A file that was read before is popped: what it was due for is a layer.  *)
LEMMA WalkPops ==
  ASSUME NEW L \in Seq(Files), NEW F \in Seq(Files \X Nat), NEW e \in LinksOf, NEW D,
         Walk(L, F, e, D), F # <<>>, Head(F)[1] \in Range(L)
  PROVE  Walk(L, Tail(F), e, D)
<1>1. /\ Read(L, e, D) /\ Queued(L, F, e, D) /\ Owed(L, F, e, D) /\ Unread(L, e)
      /\ D \in [1..Len(L) -> Nat]
  BY DEF Walk, Read
<1>2. /\ Len(F) \in Nat \ {0} /\ Head(F) = F[1]
      /\ Tail(F) \in Seq(Files \X Nat) /\ Len(Tail(F)) = Len(F) - 1
      /\ \A k \in 1..Len(Tail(F)) : k + 1 \in 1..Len(F) /\ Tail(F)[k] = F[k + 1]
  OBVIOUS
<1>3. \A k \in 1..Len(F) : F[k] \in Files \X Nat /\ F[k][1] \in Files /\ F[k][2] \in Nat
  BY <1>2
<1> DEFINE T == Tail(F)
<1>4. Queued(L, T, e, D)
  <2>1. ASSUME NEW k \in 1..Len(T)
        PROVE  /\ T[k][1] \in Reach(e)[T[k][2]] /\ T[k][2] <= Len(L)
               /\ \A i \in 1..Len(L) : D[i] <= T[k][2]
    BY <1>1, <1>2 DEF Queued
  <2>2. ASSUME NEW k \in 1..Len(T), NEW l \in 1..Len(T), k <= l
        PROVE  T[k][2] <= T[l][2] /\ T[l][2] <= T[k][2] + 1
    <3>1. k + 1 \in 1..Len(F) /\ l + 1 \in 1..Len(F) /\ k + 1 <= l + 1
      BY <1>2, <2>2
    <3>2. T[k] = F[k + 1] /\ T[l] = F[l + 1]
      BY <1>2
    <3> QED BY <1>1, <3>1, <3>2 DEF Queued
  <2> HIDE DEF T
  <2> QED BY <2>1, <2>2 DEF Queued
<1>5. ASSUME NEW f, NEW d \in Nat, Due(f, d, L, F, D) PROVE Due(f, d, L, T, D)
  <2>1. CASE \E i \in 1..Len(L) : L[i] = f /\ D[i] <= d
    BY <2>1 DEF Due
  <2>2. ASSUME NEW k \in 1..Len(F), F[k][1] = f, F[k][2] <= d PROVE Due(f, d, L, T, D)
    <3>1. CASE k = 1
      <4>1. PICK i \in 1..Len(L) : L[i] = f
        <5>1. f \in Range(L)
          BY <1>2, <2>2, <3>1
        <5> QED BY <5>1, RangeOfFiles
      <4>2. D[i] \in Nat /\ F[1][2] \in Nat /\ F[1][2] <= d
        BY <1>1, <1>3, <2>2, <3>1
      <4>3. D[i] <= F[1][2]
        BY <1>1, <2>2, <3>1 DEF Queued
      <4>4. D[i] <= d
        BY <4>2, <4>3
      <4> QED BY <4>1, <4>4 DEF Due
    <3>2. CASE k # 1
      <4>1. k - 1 \in 1..Len(T) /\ (k - 1) + 1 = k
        BY <1>2, <3>2
      <4>2. T[k - 1] = F[k]
        BY <1>2, <4>1
      <4> HIDE DEF T
      <4> QED BY <2>2, <4>1, <4>2 DEF Due
    <3> QED BY <3>1, <3>2
  <2> QED BY <1>5, <2>1, <2>2 DEF Due
<1>6. Owed(L, T, e, D)
  <2> HIDE DEF T
  <2>1. ASSUME NEW i \in 1..Len(L) PROVE D[i] + 1 \in Nat
    <3>1. D[i] \in Nat
      BY <1>1
    <3> QED BY <3>1
  <2> QED BY <1>1, <1>5, <2>1 DEF Owed
<1> QED BY <1>1, <1>4, <1>6 DEF Walk

(* The links and the depths once file was read. *)
Linked(e, file, parents) == [e EXCEPT ![file] = parents]

DepthsWith(L, D, depth) ==
  [i \in 1..(Len(L) + 1) |-> IF i \in 1..Len(L) THEN D[i] ELSE depth]

(* A file that is read goes behind the layers and its parents behind the   *)
(* frontier: depths still grow along both.                                 *)
LEMMA WalkReads ==
  ASSUME NEW L \in Seq(Files), NEW F \in Seq(Files \X Nat), NEW e \in LinksOf, NEW D,
         Walk(L, F, e, D), F # <<>>, NEW parents \in Seq(Files),
         NEW file, NEW depth, Head(F) = <<file, depth>>, file \notin Range(L)
  PROVE  Walk(Append(L, file), Further(Tail(F), parents, depth), Linked(e, file, parents),
              DepthsWith(L, D, depth))
<1> DEFINE M == Append(L, file)
           G == Further(Tail(F), parents, depth)
           g == [e EXCEPT ![file] = parents]
           E == [i \in 1..(Len(L) + 1) |-> IF i \in 1..Len(L) THEN D[i] ELSE depth]
           T == Tail(F)
           P == [i \in 1..Len(parents) |-> <<parents[i], depth + 1>>]
<1>1. /\ Read(L, e, D) /\ Queued(L, F, e, D) /\ Owed(L, F, e, D) /\ Unread(L, e)
      /\ D \in [1..Len(L) -> Nat]
  BY DEF Walk, Read
<1>2. /\ Len(F) \in Nat \ {0} /\ F[1] = <<file, depth>>
      /\ Tail(F) \in Seq(Files \X Nat) /\ Len(Tail(F)) = Len(F) - 1
      /\ \A k \in 1..Len(Tail(F)) : k + 1 \in 1..Len(F) /\ Tail(F)[k] = F[k + 1]
  OBVIOUS
<1>3. \A k \in 1..Len(F) : F[k] \in Files \X Nat /\ F[k][1] \in Files /\ F[k][2] \in Nat
  BY <1>2
<1>4. file \in Files /\ depth \in Nat /\ depth <= Len(L) /\ file \in Reach(e)[depth]
  <2>1. 1 \in 1..Len(F) /\ F[1][1] = file /\ F[1][2] = depth
    BY <1>2
  <2> QED BY <1>1, <1>3, <2>1 DEF Queued
<1>5. /\ M \in Seq(Files) /\ Len(M) = Len(L) + 1 /\ M[Len(L) + 1] = file
      /\ \A i \in 1..Len(L) : M[i] = L[i]
      /\ Len(L) \in Nat
  BY <1>4
<1>6. /\ P \in Seq(Files \X Nat) /\ Len(P) = Len(parents) /\ Len(parents) \in Nat
      /\ \A k \in 1..Len(P) : P[k] = <<parents[k], depth + 1>> /\ parents[k] \in Files
  <2>1. \A k \in 1..Len(parents) : parents[k] \in Files /\ depth + 1 \in Nat
    BY <1>4
  <2>2. \A k \in 1..Len(parents) : <<parents[k], depth + 1>> \in Files \X Nat
    BY <2>1
  <2> QED BY <2>1, <2>2
<1>7. /\ Len(G) = Len(T) + Len(P) /\ Len(T) \in Nat
      /\ \A k \in 1..Len(T) : k \in 1..Len(G) /\ G[k] = T[k]
      /\ \A k \in 1..Len(P) : Len(T) + k \in 1..Len(G) /\ G[Len(T) + k] = P[k]
      /\ \A k \in 1..Len(G) : k \notin 1..Len(T) => k - Len(T) \in 1..Len(P)
  <2>1. G = T \o P
    BY DEF Further
  <2> HIDE DEF G, T, P
  <2>2. T \in Seq(Files \X Nat) /\ P \in Seq(Files \X Nat)
    BY <1>2, <1>6 DEF T
  <2> QED BY <2>1, <2>2
<1>8. g \in LinksOf /\ g[file] = parents /\ \A f \in Files : f # file => g[f] = e[f]
  BY <1>4 DEF LinksOf
<1>9. ASSUME NEW n \in Nat PROVE Reach(e)[n] \subseteq Reach(g)[n]
  <2>1. \A f \in Files : Range(e[f]) \subseteq Range(g[f])
    <3> SUFFICES ASSUME NEW f \in Files PROVE Range(e[f]) \subseteq Range(g[f])
      OBVIOUS
    <3>1. CASE f = file
      <4>1. e[f] = <<>>
        BY <1>1, <3>1 DEF Unread
      <4>2. Range(e[f]) = {}
        BY <4>1 DEF Range
      <4> QED BY <4>2
    <3>2. CASE f # file
      BY <1>8, <3>2
    <3> QED BY <3>1, <3>2
  <2> HIDE DEF g
  <2> QED BY <1>8, <2>1, MoreLinksReachMore
<1>10. /\ E \in [1..Len(M) -> Nat] /\ E[Len(L) + 1] = depth
       /\ \A i \in 1..Len(L) : E[i] = D[i] /\ D[i] \in Nat
       /\ \A i \in 1..Len(M) : i \in 1..Len(L) \/ i = Len(L) + 1
  <2>1. Len(M) = Len(L) + 1 /\ Len(L) \in Nat
    BY <1>5
  <2> HIDE DEF M
  <2>2. \A i \in 1..Len(L) : D[i] \in Nat
    BY <1>1
  <2>3. \A i \in 1..(Len(L) + 1) : i \in 1..Len(L) \/ i = Len(L) + 1
    BY <2>1
  <2>4. E \in [1..(Len(L) + 1) -> Nat]
    BY <1>4, <2>2
  <2>5. E[Len(L) + 1] = depth
    <3>1. Len(L) + 1 \in 1..(Len(L) + 1) /\ Len(L) + 1 \notin 1..Len(L)
      BY <2>1
    <3> QED BY <3>1
  <2>6. \A i \in 1..Len(L) : E[i] = D[i]
    BY <2>1
  <2> HIDE DEF E
  <2> QED BY <2>1, <2>2, <2>3, <2>4, <2>5, <2>6
<1>11. \A i \in 1..Len(L) : D[i] <= depth
  <2>1. 1 \in 1..Len(F) /\ F[1][2] = depth
    BY <1>2
  <2> QED BY <1>1, <2>1 DEF Queued
<1>12. \A k \in 1..Len(T) : /\ T[k][1] \in Files /\ T[k][2] \in Nat
                            /\ T[k][1] \in Reach(e)[T[k][2]] /\ T[k][2] <= Len(L)
                            /\ \A i \in 1..Len(L) : D[i] <= T[k][2]
                            /\ depth <= T[k][2] /\ T[k][2] <= depth + 1
  <2> SUFFICES ASSUME NEW k \in 1..Len(T) PROVE
                            /\ T[k][1] \in Files /\ T[k][2] \in Nat
                            /\ T[k][1] \in Reach(e)[T[k][2]] /\ T[k][2] <= Len(L)
                            /\ \A i \in 1..Len(L) : D[i] <= T[k][2]
                            /\ depth <= T[k][2] /\ T[k][2] <= depth + 1
    OBVIOUS
  <2>1. k + 1 \in 1..Len(F) /\ T[k] = F[k + 1] /\ 1 \in 1..Len(F) /\ 1 <= k + 1 /\ F[1][2] = depth
    BY <1>2
  <2> HIDE DEF T
  <2> QED BY <1>1, <1>3, <2>1 DEF Queued
<1>13. \A k, l \in 1..Len(T) : k <= l => T[k][2] <= T[l][2] /\ T[l][2] <= T[k][2] + 1
  <2> SUFFICES ASSUME NEW k \in 1..Len(T), NEW l \in 1..Len(T), k <= l
               PROVE  T[k][2] <= T[l][2] /\ T[l][2] <= T[k][2] + 1
    OBVIOUS
  <2>1. k + 1 \in 1..Len(F) /\ l + 1 \in 1..Len(F) /\ k + 1 <= l + 1
    BY <1>2
  <2>2. T[k] = F[k + 1] /\ T[l] = F[l + 1]
    BY <1>2
  <2> HIDE DEF T
  <2> QED BY <1>1, <2>1, <2>2 DEF Queued
<1> HIDE DEF M, G, g, E, T, P
<1>14. Read(M, g, E)
  <2>1. ASSUME NEW i \in 1..Len(M) PROVE E[i] < i /\ M[i] \in Reach(g)[E[i]]
    <3>1. CASE i \in 1..Len(L)
      <4>1. D[i] < i /\ L[i] \in Reach(e)[D[i]]
        BY <1>1, <3>1 DEF Read
      <4> QED BY <1>5, <1>9, <1>10, <3>1, <4>1
    <3>2. CASE i = Len(L) + 1
      BY <1>4, <1>5, <1>9, <1>10, <3>2
    <3> QED BY <1>10, <3>1, <3>2
  <2>2. ASSUME NEW i \in 1..Len(M), NEW j \in 1..Len(M), i <= j PROVE E[i] <= E[j]
    <3>1. CASE j \in 1..Len(L)
      <4>1. i \in 1..Len(L)
        BY <1>5, <2>2, <3>1
      <4> QED BY <1>1, <1>10, <2>2, <3>1, <4>1 DEF Read
    <3>2. CASE j = Len(L) + 1
      <4>1. CASE i \in 1..Len(L)
        BY <1>10, <1>11, <3>2, <4>1
      <4>2. CASE i = Len(L) + 1
        BY <1>4, <1>10, <3>2, <4>2
      <4> QED BY <1>10, <4>1, <4>2
    <3> QED BY <1>10, <3>1, <3>2
  <2> QED BY <1>10, <2>1, <2>2 DEF Read
<1>15. \A k \in 1..Len(G) : \/ k \in 1..Len(T) /\ G[k] = T[k]
                            \/ k - Len(T) \in 1..Len(P) /\ G[k] = <<parents[k - Len(T)], depth + 1>>
  <2> SUFFICES ASSUME NEW k \in 1..Len(G), k \notin 1..Len(T)
               PROVE  k - Len(T) \in 1..Len(P) /\ G[k] = <<parents[k - Len(T)], depth + 1>>
    BY <1>7
  <2>1. k - Len(T) \in 1..Len(P) /\ Len(T) + (k - Len(T)) = k
    BY <1>7
  <2> QED BY <1>6, <1>7, <2>1
<1>16. \A m \in 1..Len(parents) : parents[m] \in Reach(g)[depth + 1]
  <2>1. Reach(g)[depth + 1] = Reach(g)[depth] \cup UNION {Range(g[f]) : f \in Reach(g)[depth]}
    BY <1>4, <1>8, Reached
  <2>2. file \in Reach(g)[depth]
    BY <1>4, <1>9
  <2>3. \A m \in 1..Len(parents) : parents[m] \in Range(g[file])
    BY <1>8, RangeOfFiles
  <2> QED BY <2>1, <2>2, <2>3
<1>17. Queued(M, G, g, E)
  <2>1. ASSUME NEW k \in 1..Len(G)
        PROVE  /\ G[k][1] \in Reach(g)[G[k][2]] /\ G[k][2] <= Len(M)
               /\ \A i \in 1..Len(M) : E[i] <= G[k][2]
    <3>1. CASE k \in 1..Len(T) /\ G[k] = T[k]
      <4>1. G[k][1] \in Reach(g)[G[k][2]]
        BY <1>9, <1>12, <3>1
      <4>2. G[k][2] <= Len(M)
        BY <1>5, <1>12, <3>1
      <4>3. ASSUME NEW i \in 1..Len(M) PROVE E[i] <= G[k][2]
        <5>1. CASE i \in 1..Len(L)
          BY <1>10, <1>12, <3>1, <5>1
        <5>2. CASE i = Len(L) + 1
          BY <1>10, <1>12, <3>1, <5>2
        <5> QED BY <1>10, <5>1, <5>2
      <4> QED BY <4>1, <4>2, <4>3
    <3>2. CASE k - Len(T) \in 1..Len(P) /\ G[k] = <<parents[k - Len(T)], depth + 1>>
      <4>1. G[k][1] = parents[k - Len(T)] /\ G[k][2] = depth + 1 /\ k - Len(T) \in 1..Len(parents)
        BY <1>6, <3>2
      <4>2. G[k][1] \in Reach(g)[G[k][2]]
        BY <1>16, <4>1
      <4>3. G[k][2] <= Len(M)
        BY <1>4, <1>5, <4>1
      <4>4. ASSUME NEW i \in 1..Len(M) PROVE E[i] <= G[k][2]
        <5>1. E[i] \in Nat /\ E[i] <= depth
          <6>1. CASE i \in 1..Len(L)
            BY <1>10, <1>11, <6>1
          <6>2. CASE i = Len(L) + 1
            BY <1>4, <1>10, <6>2
          <6> QED BY <1>10, <6>1, <6>2
        <5>2. \A c \in Nat : c <= depth => c <= depth + 1
          BY <1>4
        <5> QED BY <4>1, <5>1, <5>2
      <4> QED BY <4>2, <4>3, <4>4
    <3> QED BY <1>15, <3>1, <3>2
  <2>2. ASSUME NEW k \in 1..Len(G), NEW l \in 1..Len(G), k <= l
        PROVE  G[k][2] <= G[l][2] /\ G[l][2] <= G[k][2] + 1
    <3>1. CASE l \in 1..Len(T) /\ G[l] = T[l]
      <4>1. k \in 1..Len(T)
        BY <1>7, <2>2, <3>1
      <4>2. G[k] = T[k]
        BY <1>7, <4>1
      <4> QED BY <1>13, <2>2, <3>1, <4>1, <4>2
    <3>2. CASE G[l] = <<parents[l - Len(T)], depth + 1>>
      <4>1. G[l][2] = depth + 1
        BY <3>2
      <4>2. CASE k \in 1..Len(T) /\ G[k] = T[k]
        BY <1>4, <1>12, <4>1, <4>2
      <4>3. CASE G[k] = <<parents[k - Len(T)], depth + 1>>
        BY <1>4, <4>1, <4>3
      <4> QED BY <1>15, <4>2, <4>3
    <3> QED BY <1>15, <3>1, <3>2
  <2> QED BY <2>1, <2>2 DEF Queued
<1>18. ASSUME NEW f, NEW d \in Nat, Due(f, d, L, F, D) PROVE Due(f, d, M, G, E)
  <2>1. ASSUME NEW i \in 1..Len(L), L[i] = f, D[i] <= d PROVE Due(f, d, M, G, E)
    <3>1. i \in 1..Len(M) /\ M[i] = f /\ E[i] <= d
      BY <1>5, <1>10, <2>1
    <3> QED BY <3>1 DEF Due
  <2>2. ASSUME NEW k \in 1..Len(F), F[k][1] = f, F[k][2] <= d PROVE Due(f, d, M, G, E)
    <3>1. CASE k = 1
      <4>1. Len(L) + 1 \in 1..Len(M) /\ M[Len(L) + 1] = f /\ E[Len(L) + 1] <= d
        BY <1>2, <1>5, <1>10, <2>2, <3>1
      <4> QED BY <4>1 DEF Due
    <3>2. CASE k # 1
      <4>1. k - 1 \in 1..Len(T) /\ (k - 1) + 1 = k
        BY <1>2, <3>2 DEF T
      <4>2. T[k - 1] = F[k]
        BY <1>2, <4>1 DEF T
      <4>3. k - 1 \in 1..Len(G) /\ G[k - 1] = F[k]
        BY <1>6, <1>7, <4>1, <4>2
      <4> QED BY <2>2, <4>3 DEF Due
    <3> QED BY <3>1, <3>2
  <2> QED BY <1>18, <2>1, <2>2 DEF Due
<1>19. Owed(M, G, g, E)
  <2>1. Due(Start, 0, M, G, E)
    BY <1>1, <1>18 DEF Owed
  <2>2. ASSUME NEW i \in 1..Len(M), NEW f \in Range(g[M[i]]) PROVE Due(f, E[i] + 1, M, G, E)
    <3>1. CASE i \in 1..Len(L)
      <4>1. L[i] \in Files /\ L[i] # file /\ M[i] = L[i] /\ E[i] = D[i] /\ D[i] \in Nat
        BY <1>5, <1>10, <3>1, RangeOfFiles
      <4>2. g[M[i]] = e[L[i]]
        BY <1>8, <4>1
      <4>3. Due(f, D[i] + 1, L, F, D)
        BY <1>1, <2>2, <3>1, <4>2 DEF Owed
      <4>4. D[i] + 1 \in Nat
        BY <4>1
      <4> QED BY <1>18, <4>1, <4>3, <4>4
    <3>2. CASE i = Len(L) + 1
      <4>1. M[i] = file /\ E[i] = depth
        BY <1>5, <1>10, <3>2
      <4>2. f \in Range(parents)
        BY <1>8, <2>2, <4>1
      <4>3. PICK m \in 1..Len(parents) : parents[m] = f
        BY <4>2, RangeOfFiles
      <4>4. G[Len(T) + m] = <<f, depth + 1>> /\ Len(T) + m \in 1..Len(G)
        BY <1>6, <1>7, <4>3
      <4>5. G[Len(T) + m][1] = f /\ G[Len(T) + m][2] = depth + 1
        BY <4>4
      <4>6. G[Len(T) + m][2] <= E[i] + 1
        BY <1>4, <4>1, <4>5
      <4> QED BY <4>4, <4>5, <4>6 DEF Due
    <3> QED BY <1>10, <3>1, <3>2
  <2> QED BY <2>1, <2>2 DEF Owed
<1>20. Unread(M, g)
  <2>1. ASSUME NEW f \in Files, f \notin Range(M) PROVE g[f] = <<>>
    <3>1. f # file
      BY <1>5, <2>1, RangeOfFiles
    <3>2. f \notin Range(L)
      <4> SUFFICES ASSUME f \in Range(L) PROVE FALSE
        OBVIOUS
      <4>1. PICK i \in 1..Len(L) : L[i] = f
        BY RangeOfFiles
      <4>2. i \in 1..Len(M) /\ M[i] = f
        BY <1>5, <4>1
      <4> QED BY <1>5, <2>1, <4>2, RangeOfFiles
    <3> QED BY <1>1, <1>8, <3>1, <3>2 DEF Unread
  <2> QED BY <2>1 DEF Unread
<1>21. Walk(M, G, g, E)
  BY <1>14, <1>17, <1>19, <1>20 DEF Walk
<1> QED BY <1>21 DEF M, G, g, E, Linked, DepthsWith

(* With nothing left to read, a layer's depth is its distance.             *)
LEMMA WalkEnds ==
  ASSUME NEW L \in Seq(Files), NEW e \in LinksOf, NEW D, Walk(L, <<>>, e, D), NEW n \in Nat
  PROVE  Reach(e)[n] = {L[i] : i \in {j \in 1..Len(L) : D[j] <= n}}
<1> DEFINE Upto(m) == {L[i] : i \in {j \in 1..Len(L) : D[j] <= m}}
           S == {m \in Nat : Reach(e)[m] \subseteq Upto(m)}
<1>1. /\ Read(L, e, D) /\ Owed(L, <<>>, e, D)
      /\ D \in [1..Len(L) -> Nat]
  BY DEF Walk, Read
<1>2. \A f, d : Due(f, d, L, <<>>, D) => \E i \in 1..Len(L) : L[i] = f /\ D[i] <= d
  BY DEF Due
<1>3. 0 \in S
  <2>1. Start \in Upto(0)
    BY <1>1, <1>2 DEF Owed
  <2> QED BY <2>1, Reached
<1>4. ASSUME NEW m \in Nat, m \in S PROVE m + 1 \in S
  <2>1. Reach(e)[m] \subseteq Upto(m)
    BY <1>4
  <2>2. ASSUME NEW x \in Reach(e)[m + 1] PROVE x \in Upto(m + 1)
    <3>1. CASE x \in Reach(e)[m]
      <4>1. PICK i \in 1..Len(L) : L[i] = x /\ D[i] <= m
        BY <2>1, <3>1
      <4>2. D[i] \in Nat
        BY <1>1
      <4>3. D[i] <= m + 1
        BY <4>1, <4>2
      <4> QED BY <4>1, <4>3
    <3>2. CASE x \notin Reach(e)[m]
      <4>1. PICK f \in Reach(e)[m] : x \in Range(e[f])
        BY <2>2, <3>2, Reached
      <4>2. PICK i \in 1..Len(L) : L[i] = f /\ D[i] <= m
        BY <2>1, <4>1
      <4>3. Due(x, D[i] + 1, L, <<>>, D)
        BY <1>1, <4>1, <4>2 DEF Owed
      <4>4. PICK j \in 1..Len(L) : L[j] = x /\ D[j] <= D[i] + 1
        BY <1>2, <4>3
      <4>5. D[i] \in Nat /\ D[j] \in Nat
        BY <1>1
      <4>6. D[j] <= m + 1
        BY <4>2, <4>4, <4>5
      <4> QED BY <4>4, <4>6
    <3> QED BY <3>1, <3>2
  <2> HIDE DEF Upto
  <2> QED BY <2>2
<1> HIDE DEF S
<1>5. Nat \subseteq S
  BY <1>3, <1>4, Induction
<1>6. Reach(e)[n] \subseteq Upto(n)
  BY <1>5 DEF S
<1>7. ASSUME NEW i \in 1..Len(L), D[i] <= n PROVE L[i] \in Reach(e)[n]
  <2>1. D[i] \in Nat /\ L[i] \in Reach(e)[D[i]]
    BY <1>1 DEF Read
  <2> QED BY <1>7, <2>1, ReachGrows
<1> QED BY <1>6, <1>7

-----------------------------------------------------------------------------
(* Layer i is the nearest of the first n that mentions the key.            *)
FirstMention(said, i, key, n) ==
  /\ i \in 1..n /\ Mentions(said, layers[i], key)
  /\ \A j \in 1..n : Mentions(said, layers[j], key) => i <= j

(* What the loop of _merge has recorded of a key after n layers.           *)
Recorded(said, entry, key, n) ==
  \/ /\ \A j \in 1..n : ~Mentions(said, layers[j], key)
     /\ entry = [owner |-> None, overridden |-> {}]
  \/ \E i \in 1..n :
       /\ FirstMention(said, i, key, n)
       /\ entry = [owner |-> layers[i],
                  overridden |-> {layers[j] : j \in {k \in (i + 1)..n : Mentions(said, layers[k], key)}}]

LEMMA ProvenanceIsRecorded ==
  ASSUME layers \in Seq(Files), NEW said, NEW key
  PROVE  Recorded(said, Provenance(said, key), key, Len(layers))
<1> DEFINE last == Len(layers)
           A == [owner : Files \cup {None}, overridden : SUBSET Files]
           After(n, entry) ==
             IF Mentions(said, layers[n], key) THEN AddMention(entry, layers[n]) ELSE entry
           Nothing == [owner |-> None, overridden |-> {}]
           G == [p \in Nat \X A |-> IF p[1] < last THEN After(p[1] + 1, p[2]) ELSE p[2]]
           Eq(f) == f = [n \in 0..last |-> IF n = 0 THEN Nothing
                           ELSE IF Mentions(said, layers[n], key) THEN AddMention(f[n - 1], layers[n])
                           ELSE f[n - 1]]
<1>1. last \in Nat /\ \A n \in 1..last : layers[n] \in Files
  OBVIOUS
<1> HIDE DEF last
<1>2. ASSUME NEW n \in 1..last, NEW entry \in A PROVE After(n, entry) \in A
  BY <1>1 DEF AddMention
<1>3. Nothing \in A
  OBVIOUS
<1>add. ASSUME NEW n, NEW o, NEW R, Mentions(said, layers[n], key)
       PROVE  After(n, [owner |-> o, overridden |-> R]) =
                IF o = None THEN [owner |-> layers[n], overridden |-> {}]
                ELSE [owner |-> o, overridden |-> R \cup {layers[n]}]
  BY <1>add DEF AddMention
<1>4. G \in StepFunctions(A)
  <2> HIDE DEF After, A
  <2>1. ASSUME NEW p \in Nat \X A
        PROVE  (IF p[1] < last THEN After(p[1] + 1, p[2]) ELSE p[2]) \in A
    <3>1. p[1] \in Nat /\ p[2] \in A
      OBVIOUS
    <3>2. p[1] < last => p[1] + 1 \in 1..last
      BY <1>1, <3>1
    <3> QED BY <1>2, <3>1, <3>2
  <2> QED BY <2>1 DEF StepFunctions
<1>5. PICK F : Recursion(F, A, Nothing, G)
  <2> HIDE DEF G, A, Nothing
  <2> QED BY <1>3, <1>4, RecursiveFunction
<1>6. /\ \A n \in Nat : F[n] \in A
      /\ F[0] = Nothing
      /\ \A n \in Nat : F[n + 1] = G[<<n, F[n]>>]
  BY <1>5 DEF Recursion
<1>7. ASSUME NEW n \in 1..last PROVE n - 1 \in Nat /\ F[n - 1] \in A /\ F[n] = After(n, F[n - 1])
  <2>1. n - 1 \in Nat /\ (n - 1) + 1 = n /\ n - 1 < last
    BY <1>1
  <2>2. <<n - 1, F[n - 1]>> \in Nat \X A /\ F[n - 1] \in A
    BY <1>6, <2>1
  <2>3. F[n] = G[<<n - 1, F[n - 1]>>]
    <3> HIDE DEF G
    <3>1. F[(n - 1) + 1] = G[<<n - 1, F[n - 1]>>]
      BY <1>6, <2>1
    <3> QED BY <2>1, <3>1
  <2>4. G[<<n - 1, F[n - 1]>>] = After((n - 1) + 1, F[n - 1])
    <3> HIDE DEF A, After
    <3> QED BY <2>1, <2>2
  <2> HIDE DEF G, After
  <2> QED BY <2>1, <2>2, <2>3, <2>4
<1> DEFINE f == [n \in 0..last |-> F[n]]
<1>8. Eq(f)
  <2>1. ASSUME NEW n \in 0..last
        PROVE  f[n] = IF n = 0 THEN Nothing
                      ELSE IF Mentions(said, layers[n], key) THEN AddMention(f[n - 1], layers[n])
                      ELSE f[n - 1]
    <3>1. CASE n = 0
      BY <1>1, <1>6, <3>1
    <3>2. CASE n # 0
      <4>1. n \in 1..last /\ n - 1 \in 0..last
        BY <1>1, <3>2
      <4>2. f[n] = F[n] /\ f[n - 1] = F[n - 1]
        BY <4>1
      <4> HIDE DEF f
      <4> QED BY <1>7, <3>2, <4>1, <4>2
    <3> QED BY <3>1, <3>2
  <2>2. f = [n \in 0..last |-> f[n]]
    OBVIOUS
  <2> HIDE DEF f
  <2> QED BY <2>1, <2>2
<1> DEFINE S == {n \in Nat : n <= last => Recorded(said, F[n], key, n)}
<1>9. ASSUME NEW after, Eq(after) PROVE after[last] = F[last]
  <2> DEFINE T == {n \in Nat : n <= last => after[n] = F[n]}
  <2>1. \A n \in 0..last :
          after[n] = IF n = 0 THEN Nothing
                      ELSE IF Mentions(said, layers[n], key) THEN AddMention(after[n - 1], layers[n])
                      ELSE after[n - 1]
    BY <1>9
  <2>2. 0 \in T
    <3>1. 0 \in 0..last
      BY <1>1
    <3> QED BY <1>6, <2>1, <3>1
  <2>3. ASSUME NEW n \in Nat, n \in T PROVE n + 1 \in T
    <3>1. CASE n + 1 <= last
      <4>1. n + 1 \in 1..last /\ n + 1 \in 0..last /\ n + 1 # 0 /\ (n + 1) - 1 = n /\ n <= last
        BY <1>1, <3>1
      <4>2. after[n] = F[n]
        BY <2>3, <4>1
      <4>3. after[n + 1] = After(n + 1, after[n])
        BY <2>1, <4>1
      <4>4. F[n + 1] = After(n + 1, F[n])
        <5> HIDE DEF After
        <5> QED BY <1>7, <4>1
      <4> HIDE DEF After
      <4> QED BY <4>2, <4>3, <4>4
    <3> QED BY <3>1
  <2> HIDE DEF T
  <2>4. Nat \subseteq T
    BY <2>2, <2>3, Induction
  <2> QED BY <1>1, <2>4 DEF T
<1>10. Provenance(said, key) = F[last]
  <2>1. Eq(CHOOSE g : Eq(g))
    <3> HIDE DEF Eq
    <3> QED BY <1>8
  <2>2. Provenance(said, key) = (CHOOSE g : Eq(g))[last]
    BY DEF Provenance, last
  <2> HIDE DEF Eq
  <2> QED BY <1>9, <2>1, <2>2
<1>11. 0 \in S
  BY <1>6 DEF Recorded
<1>12. ASSUME NEW n \in Nat, n \in S PROVE n + 1 \in S
  <2> SUFFICES ASSUME n + 1 <= last PROVE Recorded(said, F[n + 1], key, n + 1)
    OBVIOUS
  <2>1. n + 1 \in 1..last /\ (n + 1) - 1 = n /\ n <= last
    BY <1>1
  <2>2. Recorded(said, F[n], key, n)
    BY <1>12, <2>1
  <2>3. F[n] \in A /\ F[n + 1] = After(n + 1, F[n])
    <3> HIDE DEF After, A
    <3> QED BY <1>7, <2>1
  <2>4. \A j \in 1..(n + 1) : j \in 1..n \/ j = n + 1
    OBVIOUS
  <2>5. layers[n + 1] \in Files /\ layers[n + 1] # None
    BY <1>1, <2>1, NamesAssumption
  <2>6. CASE ~Mentions(said, layers[n + 1], key)
    <3>1. F[n + 1] = F[n]
      BY <2>3, <2>6
    <3>2. CASE /\ \A j \in 1..n : ~Mentions(said, layers[j], key)
               /\ F[n] = [owner |-> None, overridden |-> {}]
      BY <2>4, <2>6, <3>1, <3>2 DEF Recorded
    <3>3. ASSUME NEW i \in 1..n, FirstMention(said, i, key, n),
                 F[n] = [owner |-> layers[i],
                         overridden |-> {layers[j] : j \in {k \in (i + 1)..n : Mentions(said, layers[k], key)}}]
          PROVE  Recorded(said, F[n + 1], key, n + 1)
      <4>1. i \in 1..(n + 1) /\ FirstMention(said, i, key, n + 1)
        BY <2>4, <2>6, <3>3 DEF FirstMention
      <4>2. {k \in (i + 1)..n : Mentions(said, layers[k], key)} = {k \in (i + 1)..(n + 1) : Mentions(said, layers[k], key)}
        BY <2>6
      <4> QED BY <3>1, <3>3, <4>1, <4>2 DEF Recorded
    <3> QED BY <2>2, <3>2, <3>3 DEF Recorded
  <2>7. CASE Mentions(said, layers[n + 1], key)
    <3>1. CASE /\ \A j \in 1..n : ~Mentions(said, layers[j], key)
               /\ F[n] = [owner |-> None, overridden |-> {}]
      <4>1. F[n + 1] = [owner |-> layers[n + 1], overridden |-> {}]
        <5>1. After(n + 1, [owner |-> None, overridden |-> {}]) = [owner |-> layers[n + 1], overridden |-> {}]
          <6> HIDE DEF After
          <6> QED BY <1>add, <2>1, <2>7
        <5> HIDE DEF After
        <5> QED BY <2>3, <3>1, <5>1
      <4>2. FirstMention(said, n + 1, key, n + 1) /\ n + 1 \in 1..(n + 1)
        BY <2>4, <2>7, <3>1 DEF FirstMention
      <4>3. {layers[j] : j \in {k \in ((n + 1) + 1)..(n + 1) : Mentions(said, layers[k], key)}} = {}
        OBVIOUS
      <4> QED BY <4>1, <4>2, <4>3 DEF Recorded
    <3>2. ASSUME NEW i \in 1..n, FirstMention(said, i, key, n),
                 F[n] = [owner |-> layers[i],
                         overridden |-> {layers[j] : j \in {k \in (i + 1)..n : Mentions(said, layers[k], key)}}]
          PROVE  Recorded(said, F[n + 1], key, n + 1)
      <4> DEFINE Past == {layers[j] : j \in {k \in (i + 1)..n : Mentions(said, layers[k], key)}}
      <4>1. i \in 1..(n + 1) /\ FirstMention(said, i, key, n + 1)
        BY <2>4, <3>2 DEF FirstMention
      <4>2. layers[i] # None
        BY <1>1, <2>1, <3>2, NamesAssumption
      <4>3. F[n + 1] = [owner |-> layers[i], overridden |-> Past \cup {layers[n + 1]}]
        <5> HIDE DEF Past, After
        <5>1. F[n] = [owner |-> layers[i], overridden |-> Past]
          BY <3>2 DEF Past
        <5>2. Past \in SUBSET Files /\ layers[i] \in Files \cup {None}
          BY <1>1, <2>1 DEF Past
        <5>3. After(n + 1, [owner |-> layers[i], overridden |-> Past]) =
                [owner |-> layers[i], overridden |-> Past \cup {layers[n + 1]}]
          BY <1>add, <2>1, <2>7, <4>2, <5>2
        <5> QED BY <2>3, <5>1, <5>3, Zenon
      <4>4. {k \in (i + 1)..(n + 1) : Mentions(said, layers[k], key)} =
              {k \in (i + 1)..n : Mentions(said, layers[k], key)} \cup {n + 1}
        BY <2>7
      <4>5. {layers[j] : j \in {k \in (i + 1)..(n + 1) : Mentions(said, layers[k], key)}} =
              Past \cup {layers[n + 1]}
        BY <4>4
      <4> QED BY <4>1, <4>3, <4>5 DEF Recorded
    <3> QED BY <2>2, <3>1, <3>2 DEF Recorded
  <2> QED BY <2>6, <2>7
<1> HIDE DEF S
<1>13. Nat \subseteq S
  BY <1>11, <1>12, Induction
<1>14. Recorded(said, F[last], key, last)
  BY <1>1, <1>13 DEF S
<1> QED BY <1>10, <1>14 DEF last

-----------------------------------------------------------------------------
(* The walk so far, at a depth for every layer that is below the limit.    *)
Walked ==
  \E D : Walk(layers, frontier, extends, D) /\ \A i \in 1..Len(layers) : D[i] < limit

(* A layer is a file that was read.                                        *)
LayersAreRead == \A i \in 1..Len(layers) : contents[layers[i]] \in Contents

PolicyInv == PolicyTypeOK /\ Walked /\ LayersAreRead /\ (Loaded => frontier = <<>>)

LEMMA LinksAreLinks ==
  ASSUME PolicyTypeOK
  PROVE  /\ extends \in LinksOf /\ layers \in Seq(Files) /\ frontier \in Seq(Files \X Nat)
         /\ limit \in Nat
<1>1. Extensions \cup {<<>>} \subseteq Seq(Files)
  <2>1. <<>> \in Seq(Files)
    OBVIOUS
  <2> QED BY <2>1, LinksAssumption
<1>2. limit \in Nat
  BY LinksAssumption DEF PolicyTypeOK
<1>3. Files \X (0..limit) \subseteq Files \X Nat
  BY <1>2
<1>4. frontier \in Seq(Files \X Nat)
  BY <1>3 DEF PolicyTypeOK
<1> QED BY <1>1, <1>2, <1>4 DEF PolicyTypeOK, LinksOf

(* A layer is blamed, or none.                                             *)
LEMMA OwnerIsALayer ==
  ASSUME layers \in Seq(Files), NEW said, NEW key
  PROVE  Owner(said, key) \in Files \cup {None}
<1>1. Recorded(said, Provenance(said, key), key, Len(layers))
  BY ProvenanceIsRecorded
<1>2. CASE Provenance(said, key) = [owner |-> None, overridden |-> {}]
  BY <1>2 DEF Owner
<1>3. ASSUME NEW i \in 1..Len(layers), NEW R, Provenance(said, key) = [owner |-> layers[i], overridden |-> R]
      PROVE  Owner(said, key) \in Files \cup {None}
  BY <1>3 DEF Owner
<1> QED BY <1>1, <1>2, <1>3 DEF Recorded

LEMMA CheckInitInv == CheckInit => PolicyInv
<1> SUFFICES ASSUME CheckInit PROVE PolicyInv
  OBVIOUS
<1> USE DEF CheckInit
<1>1. PolicyTypeOK
  <2>1. frontier \in Seq(Files \X (0..limit))
    <3>1. <<Start, 0>> \in Files \X (0..limit)
      BY FilesAssumption, LinksAssumption
    <3> QED BY <3>1
  <2>2. layers \in Seq(Files) /\ IsInjective(layers)
    BY DEF IsInjective
  <2>3. facts \in Facts
    BY DEF Facts, NoFacts
  <2> QED BY <2>1, <2>2, <2>3 DEF PolicyTypeOK
<1>2. Walked
  <2> DEFINE D == [i \in 1..0 |-> 0]
  <2>1. extends \in LinksOf /\ Reach(extends)[0] = {Start}
    BY <1>1, LinksAreLinks, Reached
  <2>2. Len(layers) = 0 /\ Len(frontier) = 1 /\ frontier[1] = <<Start, 0>>
    OBVIOUS
  <2>3. Read(layers, extends, D)
    BY <2>2 DEF Read
  <2>4. Queued(layers, frontier, extends, D)
    BY <2>1, <2>2 DEF Queued
  <2>5. Owed(layers, frontier, extends, D)
    <3>1. 1 \in 1..Len(frontier) /\ frontier[1][1] = Start /\ frontier[1][2] <= 0
      BY <2>2
    <3> QED BY <2>2, <3>1 DEF Owed, Due
  <2>6. Unread(layers, extends)
    BY DEF Unread
  <2> QED BY <2>2, <2>3, <2>4, <2>5, <2>6 DEF Walked, Walk
<1> QED BY <1>1, <1>2 DEF PolicyInv, Loaded, LayersAreRead

LEMMA ReadLayerInv ==
  ASSUME PolicyInv, ReadLayer
  PROVE  PolicyInv'
<1>1. /\ PolicyTypeOK /\ status = "loading" /\ frontier # <<>>
      /\ extends \in LinksOf /\ layers \in Seq(Files) /\ frontier \in Seq(Files \X Nat)
      /\ limit \in Nat /\ limit' = limit /\ facts' = facts /\ blamed' = blamed
  BY LinksAreLinks DEF PolicyInv, ReadLayer
<1>2. PICK D : Walk(layers, frontier, extends, D) /\ \A i \in 1..Len(layers) : D[i] < limit
  BY DEF PolicyInv, Walked
<1>3. PICK file, depth : Head(frontier) = <<file, depth>> /\ file \in Files /\ depth \in 0..limit
  <2>1. Head(frontier) \in Files \X (0..limit)
    BY <1>1 DEF PolicyTypeOK
  <2> QED BY <2>1
<1>4. Head(frontier)[1] = file /\ Head(frontier)[2] = depth
  BY <1>3
<1>5. Seen(file) <=> file \in Range(layers)
  BY <1>1, RangeOfFiles DEF Seen
<1>6. Tail(frontier) \in Seq(Files \X (0..limit))
  BY <1>1 DEF PolicyTypeOK
<1>7. CASE /\ Seen(file) /\ frontier' = PopNext
           /\ UNCHANGED <<layers, extends, contents, status>>
  <2>1. frontier' = Tail(frontier)
    BY <1>7 DEF PopNext
  <2>2. Walk(layers, Tail(frontier), extends, D)
    BY <1>1, <1>2, <1>4, <1>5, <1>7, WalkPops
  <2>3. Walked'
    BY <1>1, <1>2, <1>7, <2>1, <2>2 DEF Walked
  <2>4. PolicyTypeOK'
    BY <1>1, <1>6, <1>7, <2>1 DEF PolicyTypeOK
  <2> QED BY <1>1, <1>7, <2>3, <2>4 DEF PolicyInv, Loaded, LayersAreRead
<1>8. CASE status' = "invalid" /\ UNCHANGED <<frontier, layers, extends, contents>>
  BY <1>1, <1>8 DEF PolicyInv, Walked, PolicyTypeOK, Loaded, LayersAreRead
<1>9. ASSUME ~Seen(file), ~TooDeep(depth), NEW parents \in Extensions, NEW said \in Contents,
             extends' = [extends EXCEPT ![file] = parents],
             contents' = [contents EXCEPT ![file] = said],
             frontier' = Further(PopNext, parents, depth),
             layers' = Append(layers, file), UNCHANGED status
      PROVE  PolicyInv'
  <2> DEFINE E == DepthsWith(layers, D, depth)
  <2>1. parents \in Seq(Files)
    BY LinksAssumption
  <2>2. Walk(Append(layers, file), Further(Tail(frontier), parents, depth),
             Linked(extends, file, parents), E)
    <3>1. /\ file \notin Range(layers) /\ Head(frontier) = <<file, depth>>
          /\ Walk(layers, frontier, extends, D)
      BY <1>2, <1>3, <1>5, <1>9
    <3> QED BY <1>1, <2>1, <3>1, WalkReads, Zenon
  <2>3. Walk(layers', frontier', extends', E)
    <3> HIDE DEF E
    <3> QED BY <1>9, <2>2 DEF PopNext, Linked
  <2>4. Len(Append(layers, file)) = Len(layers) + 1 /\ Len(layers) \in Nat
    BY <1>1, <1>3
  <2>5. depth < limit
    BY <1>1, <1>3, <1>9 DEF TooDeep
  <2>6. \A i \in 1..Len(Append(layers, file)) : E[i] < limit
    BY <1>2, <2>4, <2>5 DEF DepthsWith
  <2>7. Walked'
    <3> HIDE DEF E
    <3> QED BY <1>1, <1>9, <2>3, <2>6 DEF Walked
  <2>8. Further(PopNext, parents, depth) \in Seq(Files \X (0..limit))
    <3> DEFINE P == [i \in 1..Len(parents) |-> <<parents[i], depth + 1>>]
    <3>1. P \in Seq(Files \X (0..limit))
      <4>1. depth + 1 \in 0..limit
        BY <1>1, <1>3, <2>5
      <4>2. \A i \in 1..Len(parents) : <<parents[i], depth + 1>> \in Files \X (0..limit)
        BY <2>1, <4>1
      <4> QED BY <2>1, <4>2
    <3> HIDE DEF P
    <3>2. Tail(frontier) \o P \in Seq(Files \X (0..limit))
      BY <1>6, <3>1
    <3> QED BY <3>2 DEF Further, PopNext, P
  <2>9. Append(layers, file) \in Seq(Files) /\ IsInjective(Append(layers, file))
    <3> DEFINE M == Append(layers, file)
    <3>1. /\ M \in Seq(Files) /\ Len(M) = Len(layers) + 1 /\ M[Len(layers) + 1] = file
          /\ DOMAIN M = 1..Len(M) /\ \A i \in 1..Len(layers) : M[i] = layers[i]
      BY <1>1, <1>3
    <3> HIDE DEF M
    <3>2. \A i \in 1..Len(layers) : layers[i] # file
      BY <1>9 DEF Seen
    <3>3. \A i, j \in 1..Len(layers) : layers[i] = layers[j] => i = j
      BY <1>1 DEF PolicyTypeOK, IsInjective
    <3>4. \A i, j \in 1..Len(M) : M[i] = M[j] => i = j
      <4>1. \A i \in 1..Len(M) : i \in 1..Len(layers) \/ i = Len(layers) + 1
        BY <2>4, <3>1
      <4> QED BY <3>1, <3>2, <3>3, <4>1
    <3>5. IsInjective(M)
      BY <3>1, <3>4 DEF IsInjective
    <3> QED BY <3>1, <3>5 DEF M
  <2>10. PolicyTypeOK'
    <3>1. extends' \in [Files -> Extensions \cup {<<>>}] /\ contents' \in [Files -> Contents \cup {None}]
      BY <1>1, <1>9 DEF PolicyTypeOK
    <3> QED BY <1>1, <1>9, <2>8, <2>9, <3>1 DEF PolicyTypeOK
  <2>11. LayersAreRead'
    <3>1. /\ \A i \in 1..Len(layers) : layers'[i] = layers[i] /\ layers[i] # file /\ layers[i] \in Files
          /\ layers'[Len(layers) + 1] = file /\ Len(layers') = Len(layers) + 1
      BY <1>1, <1>9, <2>4 DEF Seen
    <3>2. contents'[file] = said /\ \A g \in Files : g # file => contents'[g] = contents[g]
      BY <1>1, <1>3, <1>9 DEF PolicyTypeOK
    <3>3. \A i \in 1..(Len(layers) + 1) : i \in 1..Len(layers) \/ i = Len(layers) + 1
      BY <2>4
    <3> QED BY <3>1, <3>2, <3>3 DEF LayersAreRead, PolicyInv
  <2> QED BY <1>1, <1>9, <2>7, <2>10, <2>11 DEF PolicyInv, Loaded
<1> QED BY <1>4, <1>7, <1>8, <1>9 DEF ReadLayer

LEMMA CheckNextInv == PolicyInv /\ [CheckNext]_checkVars => PolicyInv'
<1> SUFFICES ASSUME PolicyInv, [CheckNext]_checkVars PROVE PolicyInv'
  OBVIOUS
<1>1. CASE ReadLayer
  BY <1>1, ReadLayerInv
<1>2. CASE Merge
  BY <1>2 DEF PolicyInv, Merge, Walked, PolicyTypeOK, Loaded, LayersAreRead
<1>3. CASE Check
  <2>1. layers \in Seq(Files)
    BY LinksAreLinks DEF PolicyInv
  <2>2. blamed' \subseteq [rule : PolicyRules, layer : Files]
    <3>1. Owner(contents, "required") \in Files \cup {None}
      BY <2>1, OwnerIsALayer
    <3>2. \A x : PolicySource(x) # None => x.rule \in PolicyRules /\ PolicySource(x) \in Files
      BY <3>1 DEF PolicySource
    <3>3. \A found : Attributed(found) \subseteq [rule : PolicyRules, layer : Files]
      BY <3>2 DEF Attributed
    <3> QED BY <1>3, <3>3 DEF Check
  <2> QED BY <1>3, <2>2 DEF Check, PolicyInv, Walked, PolicyTypeOK, Loaded, LayersAreRead
<1>4. CASE UNCHANGED checkVars
  BY <1>4 DEF checkVars, PolicyInv, Walked, PolicyTypeOK, Loaded, LayersAreRead
<1> QED BY <1>1, <1>2, <1>3, <1>4 DEF CheckNext

LEMMA CheckInvariant == CheckSpec => []PolicyInv
  BY CheckInitInv, CheckNextInv, PTL DEF CheckSpec

-----------------------------------------------------------------------------
(* No file is a layer twice, so there are no more layers than files.       *)
LEMMA LayersAreFew ==
  ASSUME PolicyTypeOK
  PROVE  /\ Cardinality(Files) \in Nat /\ Len(layers) \in Nat
         /\ Len(layers) <= Cardinality(Files)
<1>1. layers \in Seq(Files) /\ \A i, j \in 1..Len(layers) : layers[i] = layers[j] => i = j
  <2>1. layers \in Seq(Files) /\ DOMAIN layers = 1..Len(layers)
    BY DEF PolicyTypeOK
  <2> QED BY <2>1 DEF PolicyTypeOK, IsInjective
<1>2. layers \in Injection(1..Len(layers), Files)
  <2>1. layers \in [1..Len(layers) -> Files]
    BY <1>1
  <2> QED BY <1>1, <2>1 DEF Injection, IsInjective
<1>3. Cardinality(1..Len(layers)) <= Cardinality(Files)
  BY <1>2, FilesAssumption, FS_Injection
<1>4. Len(layers) \in Nat
  BY <1>1
<1>5. Cardinality(1..Len(layers)) = Len(layers)
  <2>1. \A n \in Nat : Cardinality(1..n) = n
    BY FS_Interval
  <2> QED BY <1>4, <2>1, Zenon
<1>6. Cardinality(Files) \in Nat
  BY FilesAssumption, FS_CardinalityType
<1> QED BY <1>3, <1>4, <1>5, <1>6

(* What was read of a policy that loads.                                   *)
LEMMA LoadedPolicyIsWalked ==
  ASSUME PolicyInv, Loaded
  PROVE  \E D \in [1..Len(layers) -> Nat] :
           /\ \A i \in 1..Len(layers) : D[i] < limit /\ D[i] < i
           /\ \A i, j \in 1..Len(layers) : i <= j => D[i] <= D[j]
           /\ \A n \in Nat : Within[n] = {layers[i] : i \in {j \in 1..Len(layers) : D[j] <= n}}
<1>1. extends \in LinksOf /\ layers \in Seq(Files) /\ frontier = <<>>
  BY LinksAreLinks DEF PolicyInv
<1>2. PICK D : Walk(layers, frontier, extends, D) /\ \A i \in 1..Len(layers) : D[i] < limit
  BY DEF PolicyInv, Walked
<1>3. Walk(layers, <<>>, extends, D)
  BY <1>1, <1>2
<1>4. Read(layers, extends, D)
  BY <1>3 DEF Walk
<1>5. ASSUME NEW n \in Nat
      PROVE  Within[n] = {layers[i] : i \in {j \in 1..Len(layers) : D[j] <= n}}
  BY <1>1, <1>3, WalkEnds, WithinIsReach
<1> QED BY <1>2, <1>4, <1>5 DEF Read

LEMMA LoadedPolicyIsComposed ==
  ASSUME PolicyInv, Loaded
  PROVE  NearestLayerWins /\ NothingIsLeftOut /\ DepthIsBounded
<1> DEFINE last == Len(layers)
           card == Cardinality(Files)
<1>1. PICK D \in [1..last -> Nat] :
           /\ \A i \in 1..last : D[i] < limit /\ D[i] < i
           /\ \A i, j \in 1..last : i <= j => D[i] <= D[j]
           /\ \A n \in Nat : Within[n] = {layers[i] : i \in {j \in 1..last : D[j] <= n}}
  BY LoadedPolicyIsWalked
<1>2. /\ layers \in Seq(Files) /\ limit \in Nat /\ card \in Nat /\ last \in Nat /\ last <= card
      /\ \A i, j \in 1..last : layers[i] = layers[j] => i = j
  <2>1. DOMAIN layers = 1..last
    BY LinksAreLinks DEF PolicyInv
  <2> QED BY <2>1, LinksAreLinks, LayersAreFew DEF PolicyInv, PolicyTypeOK, IsInjective
<1>3. Range(layers) = {layers[i] : i \in 1..last}
  BY <1>2, RangeOfFiles
<1> HIDE DEF last, card
<1>4. ASSUME NEW n \in Nat, \A i \in 1..last : D[i] <= n PROVE Within[n] = Range(layers)
  <2>1. {j \in 1..last : D[j] <= n} = 1..last
    BY <1>4
  <2> QED BY <1>1, <1>3, <2>1
<1>5. Within[card] = Range(layers)
  <2>1. \A i \in 1..last : D[i] <= card
    BY <1>1, <1>2
  <2> QED BY <1>2, <1>4, <2>1
<1>6. NothingIsLeftOut
  <2>1. \A f \in Range(layers) : contents[f].names \subseteq Names
    BY <1>3 DEF Names, last
  <2> QED BY <1>5, <2>1 DEF NothingIsLeftOut, card
<1>7. DepthIsBounded
  <2>1. limit - 1 \in Nat /\ \A i \in 1..last : D[i] <= limit - 1
    <3>1. Start \in Within[0]
      BY LinksAreLinks, Reached, WithinIsReach DEF PolicyInv
    <3>2. PICK i \in 1..last : D[i] <= 0
      BY <1>1, <3>1
    <3>3. D[i] \in Nat /\ D[i] < limit
      BY <1>1
    <3>4. limit - 1 \in Nat
      BY <1>2, <3>3
    <3> QED BY <1>1, <1>2, <3>4
  <2>2. Within[limit - 1] = Range(layers)
    BY <1>4, <2>1
  <2> QED BY <1>5, <2>2 DEF DepthIsBounded, card
<1>8. NearestLayerWins
  <2> SUFFICES ASSUME NEW key \in Keys
               PROVE  LET mentioning == {f \in Range(layers) : Mentions(contents, f, key)}
                      IN /\ \A f \in mentioning, n \in 0..card :
                              f \in Within[n] => Owner(contents, key) \in Within[n]
                         /\ Overridden(contents, key) = mentioning \ {Owner(contents, key)}
    BY DEF NearestLayerWins, card
  <2> DEFINE mentioning == {f \in Range(layers) : Mentions(contents, f, key)}
  <2>1. Recorded(contents, Provenance(contents, key), key, last)
    BY <1>2, ProvenanceIsRecorded DEF last
  <2>2. CASE /\ \A j \in 1..last : ~Mentions(contents, layers[j], key)
             /\ Provenance(contents, key) = [owner |-> None, overridden |-> {}]
    <3>1. mentioning = {}
      BY <1>3, <2>2
    <3>2. Overridden(contents, key) = {}
      BY <2>2 DEF Overridden
    <3> QED BY <3>1, <3>2
  <2>3. ASSUME NEW i \in 1..last, FirstMention(contents, i, key, last),
               Provenance(contents, key) = [owner |-> layers[i],
                  overridden |-> {layers[j] : j \in {k \in (i + 1)..last : Mentions(contents, layers[k], key)}}]
        PROVE  /\ \A f \in mentioning, n \in 0..card :
                     f \in Within[n] => Owner(contents, key) \in Within[n]
               /\ Overridden(contents, key) = mentioning \ {Owner(contents, key)}
    <3>1. /\ Owner(contents, key) = layers[i]
          /\ Overridden(contents, key) = {layers[j] : j \in {k \in (i + 1)..last : Mentions(contents, layers[k], key)}}
      BY <2>3 DEF Owner, Overridden
    <3>2. ASSUME NEW f \in mentioning, NEW n \in 0..card, f \in Within[n]
          PROVE  Owner(contents, key) \in Within[n]
      <4>1. n \in Nat
        BY <1>2
      <4>2. PICK j \in 1..last : layers[j] = f /\ D[j] <= n
        BY <1>1, <3>2, <4>1
      <4>3. Mentions(contents, layers[j], key)
        BY <3>2, <4>2
      <4>4. i <= j
        BY <2>3, <4>3 DEF FirstMention
      <4>5. D[i] \in Nat /\ D[j] \in Nat /\ D[i] <= D[j]
        BY <1>1, <4>4
      <4>6. D[i] <= n
        BY <4>1, <4>2, <4>5
      <4> QED BY <1>1, <3>1, <4>1, <4>6
    <3>3. ASSUME NEW f \in Overridden(contents, key) PROVE f \in mentioning \ {Owner(contents, key)}
      <4>1. PICK j \in (i + 1)..last : Mentions(contents, layers[j], key) /\ f = layers[j]
        BY <3>1, <3>3
      <4>2. j \in 1..last /\ j # i
        BY <1>2, <4>1
      <4> QED BY <1>2, <1>3, <3>1, <4>1, <4>2
    <3>4. ASSUME NEW f \in mentioning, f # Owner(contents, key) PROVE f \in Overridden(contents, key)
      <4>1. PICK j \in 1..last : layers[j] = f
        BY <1>3
      <4>2. Mentions(contents, layers[j], key) /\ j # i
        BY <3>1, <3>4, <4>1
      <4>3. i <= j
        BY <2>3, <4>2 DEF FirstMention
      <4>4. j \in (i + 1)..last
        BY <1>2, <4>2, <4>3
      <4> QED BY <3>1, <4>1, <4>2, <4>4
    <3> HIDE DEF mentioning
    <3> QED BY <3>2, <3>3, <3>4
  <2> QED BY <2>1, <2>2, <2>3 DEF Recorded
<1> QED BY <1>6, <1>7, <1>8

(* A policy that loads is every file reachable by `extends`, at most       *)
(* MAX_POLICY_DEPTH layers deep, and each key is decided by the nearest    *)
(* layer that mentions it (compose.py, _chain and _merge).                 *)
THEOREM PolicyIsComposedAlways == CheckSpec => []PolicyIsComposed
<1>1. PolicyInv => PolicyIsComposed
  <2>1. CASE Loaded
    BY <2>1, LoadedPolicyIsComposed DEF PolicyInv, PolicyIsComposed
  <2>2. CASE ~Loaded
    BY <2>2 DEF PolicyInv, PolicyIsComposed, NearestLayerWins, NothingIsLeftOut, DepthIsBounded
  <2> QED BY <2>1, <2>2
<1> QED BY <1>1, CheckInvariant, PTL

-----------------------------------------------------------------------------
(* What `check` tells was decided from what it read.                       *)
Decided ==
  status = "checked" => /\ findings = Evaluate(Policy(contents), facts)
                        /\ blamed = Attributed(findings)

Undecided == status # "checked" => blamed = {}

(* What is decided of a finding depends on the layers alone, which `check` *)
(* no longer changes.                                                      *)
LEMMA DecisionIsKept ==
  ASSUME UNCHANGED <<layers, contents>>, NEW found
  PROVE  Policy(contents)' = Policy(contents) /\ Attributed(found)' = Attributed(found)
<1>1. \A said, key : Provenance(said, key)' = Provenance(said, key)
  BY DEF Provenance, Mentions, AddMention
<1>2. \A said, key : Owner(said, key)' = Owner(said, key)
  BY <1>1 DEF Owner
<1>3. Policy(contents)' = Policy(contents)
  BY <1>2 DEF Policy, Merged
<1>4. \A x : PolicySource(x)' = PolicySource(x)
  BY <1>2 DEF PolicySource
<1>5. Attributed(found)' = Attributed(found)
  BY <1>4 DEF Attributed
<1> QED BY <1>3, <1>5

LEMMA DecidedInit == CheckInit => Decided /\ Undecided
  BY DEF CheckInit, Decided, Undecided

LEMMA DecidedNext == Decided /\ Undecided /\ [CheckNext]_checkVars => Decided' /\ Undecided'
<1> SUFFICES ASSUME Decided, Undecided, [CheckNext]_checkVars PROVE Decided' /\ Undecided'
  OBVIOUS
<1>1. CASE ReadLayer
  BY <1>1 DEF ReadLayer, Decided, Undecided
<1>2. CASE Merge
  BY <1>2 DEF Merge, Decided, Undecided
<1>3. CASE Check
  <2>1. /\ UNCHANGED <<layers, contents>> /\ status' = "checked"
        /\ findings' = Evaluate(Policy(contents), facts') /\ blamed' = Attributed(findings')
    BY <1>3 DEF Check
  <2>2. PICK found : findings' = found
    OBVIOUS
  <2>3. Policy(contents)' = Policy(contents) /\ Attributed(found)' = Attributed(found)
    BY <2>1, DecisionIsKept
  <2>4. Decided'
    BY <2>1, <2>2, <2>3 DEF Decided
  <2> QED BY <2>1, <2>4 DEF Undecided
<1>4. CASE UNCHANGED checkVars
  <2>1. UNCHANGED <<layers, contents, status, facts, findings, blamed>>
    BY <1>4 DEF checkVars
  <2>2. PICK found : findings = found
    OBVIOUS
  <2>3. Policy(contents)' = Policy(contents) /\ Attributed(found)' = Attributed(found)
    BY <2>1, DecisionIsKept
  <2>4. Decided'
    BY <2>1, <2>2, <2>3 DEF Decided
  <2> QED BY <2>1, <2>4 DEF Undecided
<1> QED BY <1>1, <1>2, <1>3, <1>4 DEF CheckNext

(* READY leaves no finding but those that pass.                            *)
LEMMA ReadyFindings ==
  ASSUME ExitCode = 0, NEW x \in findings
  PROVE  x.state \notin {"BLOCKED", "ERROR", "WARN", "UNKNOWN"}
  BY DEF ExitCode

(* The first layer that mentions a key owns it.                            *)
LEMMA OwnerIsFirst ==
  ASSUME layers \in Seq(Files), NEW said, NEW key,
         NEW i \in 1..Len(layers), FirstMention(said, i, key, Len(layers))
  PROVE  /\ Owner(said, key) = layers[i]
         /\ Overridden(said, key) =
              {layers[j] : j \in {k \in (i + 1)..Len(layers) : Mentions(said, layers[k], key)}}
<1>1. Recorded(said, Provenance(said, key), key, Len(layers))
  BY ProvenanceIsRecorded
<1>2. PICK j \in 1..Len(layers) :
        /\ FirstMention(said, j, key, Len(layers))
        /\ Provenance(said, key) =
             [owner |-> layers[j],
              overridden |-> {layers[m] : m \in {k \in (j + 1)..Len(layers) :
                                                   Mentions(said, layers[k], key)}}]
  BY <1>1 DEF Recorded, FirstMention
<1>3. i <= j /\ j <= i
  BY <1>2 DEF FirstMention
<1>4. i = j
  BY <1>3
<1> QED BY <1>2, <1>4 DEF Owner, Overridden

LEMMA OwnerIsThere ==
  ASSUME layers \in Seq(Files), NEW said, NEW key, Owner(said, key) # None
  PROVE  \E i \in 1..Len(layers) : FirstMention(said, i, key, Len(layers))
<1>1. Recorded(said, Provenance(said, key), key, Len(layers))
  BY ProvenanceIsRecorded
<1>2. Provenance(said, key) # [owner |-> None, overridden |-> {}]
  BY DEF Owner
<1> QED BY <1>1, <1>2 DEF Recorded

(* A layer that stated a range and states another is the nearest to state  *)
(* one exactly when it was before.                                         *)
LEMMA RestatedIsMerged ==
  ASSUME PolicyInv, NEW i \in 1..Len(layers),
         FirstMention(contents, i, "required", Len(layers)),
         NEW j \in 1..Len(layers), Mentions(contents, layers[j], "required"),
         NEW range \in Specs
  PROVE  Policy([contents EXCEPT ![layers[j]].required = range])["required"] =
           IF j = i THEN range ELSE Policy(contents)["required"]
<1> DEFINE said == [contents EXCEPT ![layers[j]].required = range]
<1>1. /\ layers \in Seq(Files) /\ DOMAIN contents = Files
      /\ \A k \in 1..Len(layers) : layers[k] \in Files /\ contents[layers[k]] \in Contents
  BY LinksAreLinks DEF PolicyInv, LayersAreRead, PolicyTypeOK
<1>2. \A k, m \in 1..Len(layers) : layers[k] = layers[m] => k = m
  <2>1. DOMAIN layers = 1..Len(layers)
    BY <1>1
  <2> QED BY <2>1 DEF PolicyInv, PolicyTypeOK, IsInjective
<1>3. said[layers[j]]["required"] = range
  <2>1. said[layers[j]] = [contents[layers[j]] EXCEPT !.required = range]
    BY <1>1
  <2>2. "required" \in DOMAIN contents[layers[j]]
    BY <1>1, SaidAssumption
  <2> QED BY <2>1, <2>2
<1>4. \A k \in 1..Len(layers) : k # j => said[layers[k]] = contents[layers[k]]
  BY <1>1, <1>2
<1> HIDE DEF said
<1>5. \A k \in 1..Len(layers) :
        Mentions(said, layers[k], "required") <=> Mentions(contents, layers[k], "required")
  BY <1>3, <1>4, NamesAssumption DEF Mentions
<1>6. FirstMention(said, i, "required", Len(layers))
  BY <1>5 DEF FirstMention
<1>7. Owner(said, "required") = layers[i] /\ Owner(contents, "required") = layers[i]
  BY <1>1, <1>6, OwnerIsFirst
<1>8. layers[i] # None
  BY <1>1, NamesAssumption
<1>9. /\ Policy(said)["required"] = said[layers[i]]["required"]
      /\ Policy(contents)["required"] = contents[layers[i]]["required"]
  BY <1>7, <1>8 DEF Policy, Keys, Merged
<1>10. Policy(said)["required"] = IF j = i THEN range ELSE Policy(contents)["required"]
  BY <1>3, <1>4, <1>9
<1> QED BY <1>10 DEF said

(* When a version is said not to match.                                    *)
LEMMA MismatchIsFound ==
  ASSUME NEW policy, NEW f
  PROVE  /\ Mismatch \in Evaluate(policy, f) <=>
              /\ ~f.raises /\ RequiredSpec(policy, f.manifest) # None /\ f.active # None
              /\ Garbled \notin {f.active, RequiredSpec(policy, f.manifest)}
              /\ f.active \notin AcceptedBy[RequiredSpec(policy, f.manifest)]
         /\ \A x \in Evaluate(policy, f) : x.rule = "version-mismatch" => x = Mismatch
<1> DEFINE spec == RequiredSpec(policy, f.manifest)
<1>1. CASE f.raises
  BY <1>1 DEF Evaluate, Finding, Mismatch
<1>2. CASE ~f.raises /\ spec = None
  BY <1>2 DEF Evaluate, Finding, Mismatch
<1>3. CASE ~f.raises /\ spec # None
  <2>1. Evaluate(policy, f) = CheckVersion(policy, spec, f.active)
    BY <1>3 DEF Evaluate
  <2> HIDE DEF spec
  <2>2. CASE f.active = None
    BY <2>1, <2>2 DEF CheckVersion, Finding, Mismatch, spec
  <2>3. CASE f.active # None /\ Garbled \in {f.active, spec}
    BY <2>1, <2>3 DEF CheckVersion, Finding, Mismatch, spec
  <2>4. CASE f.active # None /\ Garbled \notin {f.active, spec}
    <3>1. Evaluate(policy, f) =
            KnownBad(policy, f.active)
              \cup {IF f.active \in AcceptedBy[spec] THEN Finding("version-ok", "PASS")
                                                    ELSE Finding("version-mismatch", "ERROR")}
      BY <2>1, <2>4 DEF CheckVersion
    <3>2. \A x \in KnownBad(policy, f.active) : x.rule = "known-bad-version"
      BY DEF KnownBad, Finding
    <3> QED BY <1>3, <2>4, <3>1, <3>2 DEF Finding, Mismatch, spec
  <2> QED BY <2>2, <2>3, <2>4
<1> QED BY <1>1, <1>2, <1>3

LEMMA DecisionIsTruthful ==
  ASSUME PolicyInv, Decided, Undecided
  PROVE  CheckIsTruthful
<1> DEFINE policy == Policy(contents)
<1>1. ReadyIsEarned
  <2> SUFFICES ASSUME status = "checked", ExitCode = 0
               PROVE  /\ ~facts.raises
                      /\ RequiredSpec(policy, facts.manifest) # None =>
                           /\ facts.active \in AcceptedBy[RequiredSpec(policy, facts.manifest)]
                           /\ policy["bad"] \in Specs => facts.active \notin AcceptedBy[policy["bad"]]
    BY DEF ReadyIsEarned
  <2> DEFINE spec == RequiredSpec(policy, facts.manifest)
             active == facts.active
             bad == policy["bad"]
  <2> HIDE DEF policy
  <2>1. findings = Evaluate(policy, facts)
    BY DEF Decided, policy
  <2>2. \A rule, state : Finding(rule, state) \in findings =>
                           state \notin {"BLOCKED", "ERROR", "WARN", "UNKNOWN"}
    BY ReadyFindings DEF Finding
  <2>3. ~facts.raises
    <3> SUFFICES ASSUME facts.raises PROVE FALSE
      OBVIOUS
    <3>1. findings = {Finding("failed", "UNKNOWN")}
      BY <2>1 DEF Evaluate
    <3> QED BY <2>2, <3>1
  <2>4. ASSUME spec # None
        PROVE  active \in AcceptedBy[spec] /\ (bad \in Specs => active \notin AcceptedBy[bad])
    <3>1. findings = CheckVersion(policy, spec, active)
      BY <2>1, <2>3, <2>4 DEF Evaluate
    <3>2. active # None
      <4> SUFFICES ASSUME active = None PROVE FALSE
        OBVIOUS
      <4>1. findings = {Finding("missing", "BLOCKED")}
        BY <3>1 DEF CheckVersion
      <4> QED BY <2>2, <4>1
    <3>3. Garbled \notin {active, spec}
      <4> SUFFICES ASSUME Garbled \in {active, spec} PROVE FALSE
        OBVIOUS
      <4>1. findings = {Finding("version-unparseable", "UNKNOWN")}
        BY <3>1, <3>2 DEF CheckVersion
      <4> QED BY <2>2, <4>1
    <3>4. findings = KnownBad(policy, active)
                       \cup {IF active \in AcceptedBy[spec] THEN Finding("version-ok", "PASS")
                                                            ELSE Finding("version-mismatch", "ERROR")}
      BY <3>1, <3>2, <3>3 DEF CheckVersion
    <3>5. active \in AcceptedBy[spec]
      <4> SUFFICES ASSUME active \notin AcceptedBy[spec] PROVE FALSE
        OBVIOUS
      <4>1. Finding("version-mismatch", "ERROR") \in findings
        BY <3>4
      <4> QED BY <2>2, <4>1
    <3>6. bad \in Specs => active \notin AcceptedBy[bad]
      <4> SUFFICES ASSUME bad \in Specs, active \in AcceptedBy[bad] PROVE FALSE
        OBVIOUS
      <4>1. Finding("known-bad-version", "ERROR") \in findings
        BY <3>4 DEF KnownBad
      <4> QED BY <2>2, <4>1
    <3> QED BY <3>5, <3>6
  <2> QED BY <2>3, <2>4
<1>2. AttributionIsTrue
  <2> SUFFICES ASSUME NEW b \in blamed, b.rule = "version-mismatch",
                      facts.manifest \in {None, AnyVersion}, NEW range \in Specs
               PROVE  /\ facts.active \in AcceptedBy[range] =>
                           Mismatch \notin FindingsHad(b.layer, range)
                      /\ \A f \in Overridden(contents, "required") :
                           Mismatch \in FindingsHad(f, range)
    BY DEF AttributionIsTrue
  <2>1. /\ layers \in Seq(Files)
        /\ findings = Evaluate(policy, facts) /\ blamed = Attributed(findings)
    BY LinksAreLinks DEF PolicyInv, Decided, Undecided
  <2>2. PICK x \in findings : b = [rule |-> x.rule, layer |-> PolicySource(x)] /\ PolicySource(x) # None
    BY <2>1 DEF Attributed
  <2>3. Mismatch \in Evaluate(policy, facts)
    BY <2>1, <2>2, MismatchIsFound
  <2>4. b.layer = Owner(contents, "required") /\ Owner(contents, "required") # None
    BY <2>2 DEF PolicySource
  <2>5. PICK i \in 1..Len(layers) : FirstMention(contents, i, "required", Len(layers))
    BY <2>1, <2>4, OwnerIsThere
  <2>6. /\ b.layer = layers[i] /\ Mentions(contents, layers[i], "required")
        /\ Overridden(contents, "required") =
             {layers[j] : j \in {k \in (i + 1)..Len(layers) : Mentions(contents, layers[k], "required")}}
    BY <2>1, <2>4, <2>5, OwnerIsFirst DEF FirstMention
  <2>7. range # None
    BY NamesAssumption
  <2>8. ASSUME facts.active \in AcceptedBy[range] PROVE Mismatch \notin FindingsHad(b.layer, range)
    <3> DEFINE had == Policy([contents EXCEPT ![layers[i]].required = range])
    <3>1. had["required"] = range
      BY <2>5, <2>6, RestatedIsMerged
    <3> HIDE DEF had
    <3>2. RequiredSpec(had, facts.manifest) = range
      BY <2>7, <3>1 DEF RequiredSpec
    <3>3. Mismatch \notin Evaluate(had, facts)
      BY <2>8, <3>2, MismatchIsFound
    <3> QED BY <2>6, <3>3 DEF FindingsHad, had
  <2>9. ASSUME NEW f \in Overridden(contents, "required") PROVE Mismatch \in FindingsHad(f, range)
    <3>1. PICK j \in 1..Len(layers) : f = layers[j] /\ j # i /\ Mentions(contents, layers[j], "required")
      BY <2>1, <2>6
    <3> DEFINE had == Policy([contents EXCEPT ![layers[j]].required = range])
    <3>2. had["required"] = policy["required"]
      BY <2>5, <3>1, RestatedIsMerged DEF policy
    <3> HIDE DEF had
    <3>3. RequiredSpec(had, facts.manifest) = RequiredSpec(policy, facts.manifest)
      BY <3>2 DEF RequiredSpec
    <3>4. Mismatch \in Evaluate(had, facts)
      BY <2>3, <3>3, MismatchIsFound
    <3> QED BY <3>1, <3>4 DEF FindingsHad, had
  <2> QED BY <2>8, <2>9
<1> QED BY <1>1, <1>2 DEF CheckIsTruthful

(* A machine is called ready only when what is required was compared and   *)
(* found satisfied, and the layer a mismatch names, where the range is the *)
(* policy's, is the one that can settle it (rules/base.py, evaluate_all;   *)
(* compose.py, _merge; diagnostics.py, _policy_source_for).                *)
THEOREM CheckIsTruthfulAlways == CheckSpec => []CheckIsTruthful
<1>1. CheckSpec => [](Decided /\ Undecided)
  BY DecidedInit, DecidedNext, PTL DEF CheckSpec
<1>2. PolicyInv /\ Decided /\ Undecided => CheckIsTruthful
  BY DecisionIsTruthful
<1> QED BY <1>1, <1>2, CheckInvariant, PTL

=============================================================================
