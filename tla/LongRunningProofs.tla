--------------------------- MODULE LongRunningProofs ---------------------------
(***************************************************************************)
(* Proofs about processes that run for long: those of the fleet server     *)
(* (FleetGovernance), `devrepro watch` (Watch), and `devrepro bisect`,     *)
(* which waits for a person between its questions (BisectCommand).         *)
(*                                                                         *)
(* Fleet governance, for any number of server processes, accounts,         *)
(* projects and requests.  Well is what every other invariant needs to     *)
(* know of the requests in progress: which fields they have, and that a    *)
(* review names an exception that exists.  On it stand four invariants     *)
(* that do not need each other: Authority, Order, Trail, and the           *)
(* refinement of ExceptionLife.                                            *)
(*                                                                         *)
(* The watcher, for any number of files and edits, any interval and any    *)
(* quiet period longer than a save: no scan of a half-written file, no     *)
(* more scans than edits, and no scan that leaves a change out.  That a    *)
(* settled baseline holds no half-written file rests on time (Settling):   *)
(* while a change waits, a file the loop saw half-written is still in that *)
(* save, for which the quiet period is too long to have run out, or it is  *)
(* whole and will stay so until the next poll has read it.  That scans do  *)
(* not outnumber edits is an account (Paid): an edit pays for the file it  *)
(* moves, which the poll that reads it carries over, and which the change  *)
(* that is noted spends on the scan to come.  The end of a save costs      *)
(* nothing, since the half-written file was paid for.                      *)
(*                                                                         *)
(* Both searches of reproduce/bisect.py and the command that runs them,    *)
(* for every list of differences, every sequence of answers and every      *)
(* --max-verdicts.                                                         *)
(***************************************************************************)
EXTENDS FleetGovernance, Watch, BisectCommand, Counting, SequenceTheorems, TLAPS

Verdicts == {"approved", "rejected"}
Steps    == Ops \cup {"authenticate", "may_administer", "stamp", "audit", "audit_denied"}
Targets  == {<<>>} \cup {<<p>> : p \in Projects} \cup {<<e>> : e \in Nat}
Values   == {<<>>} \cup {<<d>> : d \in Docs} \cup Memberships \cup {<<v>> : v \in Verdicts}

Job == [step : Steps, op : Ops, by : Accounts, target : Targets, value : Values,
        at : Nat, req : Nat, after : SUBSET Nat, open : BOOLEAN]

Live(w) == jobs[w] # Idle

(* The step a request is at tells its kind, and its kind what it carries.  *)
Formed(j, excs) ==
  /\ j.step \in Ops => j.op = j.step
  /\ j.step \in {"may_administer", "stamp", "audit_denied"} => j.op = "baseline"
  /\ j.op = "baseline" => j.target[1] \in Projects /\ j.value[1] \in Docs
  /\ j.op = "member" => /\ j.target[1] \in Projects
                        /\ j.value[1] \in Emails /\ j.value[2] \in {"maintainer", "member"}
  /\ j.op = "policy" => j.value[1] \in Docs
  /\ j.op = "review" => j.target[1] \in DOMAIN excs /\ j.value[1] \in Verdicts

JobsAreWell ==
  /\ jobs \in [Workers -> {Idle} \cup Job]
  /\ \A w \in Workers : Live(w) => Formed(jobs[w], exceptions)

HistoryIsWell == answered \subseteq Nat /\ cutoff \in [Accounts -> Nat \cup {Never}]

Well == TypeOK /\ JobsAreWell /\ HistoryIsWell

-----------------------------------------------------------------------------
(* What a step does to the jobs: one worker moves, no other does.          *)

LEMMA GotoMoves ==
  ASSUME JobsAreWell, NEW w \in Workers, Live(w), NEW step \in Steps, Goto(w, step)
  PROVE  /\ jobs' \in [Workers -> {Idle} \cup Job]
         /\ jobs'[w] \in Job /\ jobs'[w].step = step
         /\ jobs'[w].op = jobs[w].op /\ jobs'[w].by = jobs[w].by
         /\ jobs'[w].target = jobs[w].target /\ jobs'[w].value = jobs[w].value
         /\ jobs'[w].at = jobs[w].at /\ jobs'[w].req = jobs[w].req
         /\ jobs'[w].after = jobs[w].after /\ jobs'[w].open = jobs[w].open
         /\ \A v \in Workers \ {w} : jobs'[v] = jobs[v]
<1>1. jobs[w] \in Job
  BY DEF JobsAreWell, Live
<1>2. [jobs[w] EXCEPT !.step = step] \in Job
  BY <1>1 DEF Job
<1>3. jobs' = [jobs EXCEPT ![w] = [jobs[w] EXCEPT !.step = step]]
  BY DEF Goto
<1>4. /\ jobs' \in [Workers -> {Idle} \cup Job]
      /\ jobs'[w] = [jobs[w] EXCEPT !.step = step]
      /\ \A v \in Workers \ {w} : jobs'[v] = jobs[v]
  BY <1>2, <1>3 DEF JobsAreWell
<1> QED
  BY <1>1, <1>2, <1>4 DEF Job

LEMMA StampMoves ==
  ASSUME JobsAreWell, NEW w \in Workers, Live(w), now \in Nat, StampBaseline(w)
  PROVE  /\ jobs' \in [Workers -> {Idle} \cup Job]
         /\ jobs'[w] \in Job /\ jobs'[w].step = "baseline" /\ jobs'[w].at = now + 1
         /\ jobs'[w].op = jobs[w].op /\ jobs'[w].by = jobs[w].by
         /\ jobs'[w].target = jobs[w].target /\ jobs'[w].value = jobs[w].value
         /\ jobs'[w].req = jobs[w].req
         /\ jobs'[w].after = jobs[w].after /\ jobs'[w].open = jobs[w].open
         /\ \A v \in Workers \ {w} : jobs'[v] = jobs[v]
<1> DEFINE job == [jobs[w] EXCEPT !.step = "baseline", !.at = now + 1]
<1>1. jobs[w] \in Job
  BY DEF JobsAreWell, Live
<1>2. job \in Job
  <2>1. "baseline" \in Steps /\ now + 1 \in Nat
    BY DEF Steps, Ops
  <2> QED
    BY <1>1, <2>1 DEF Job
<1>3. jobs' = [jobs EXCEPT ![w] = job]
  BY DEF StampBaseline, JobsAreWell
<1>4. /\ jobs' \in [Workers -> {Idle} \cup Job]
      /\ jobs'[w] = job
      /\ \A v \in Workers \ {w} : jobs'[v] = jobs[v]
  BY <1>2, <1>3 DEF JobsAreWell
<1> QED
  BY <1>1, <1>2, <1>4 DEF Job

LEMMA AnswerMoves ==
  ASSUME JobsAreWell, NEW w \in Workers, jobs' = [jobs EXCEPT ![w] = Idle]
  PROVE  /\ jobs' \in [Workers -> {Idle} \cup Job]
         /\ jobs'[w] = Idle
         /\ \A v \in Workers \ {w} : jobs'[v] = jobs[v]
  BY DEF JobsAreWell

(* A worker at a step other than "idle" has a request.                     *)
LEMMA AtIsLive ==
  ASSUME JobsAreWell, NEW w \in Workers, NEW step \in Steps, At(w, step)
  PROVE  Live(w) /\ jobs[w] \in Job
<1>1. jobs[w].step # "idle"
  BY DEF At, Steps, Ops
<1>2. jobs[w] # Idle
  BY <1>1 DEF Idle
<1> QED
  BY <1>2 DEF JobsAreWell, Live

LEMMA IdleIsNoJob == Idle \notin Job
<1>1. Idle.step = "idle"
  BY DEF Idle
<1>2. \A j \in Job : j.step # "idle"
  BY DEF Job, Steps, Ops
<1> QED
  BY <1>1, <1>2

-----------------------------------------------------------------------------
(* Well is inductive.                                                      *)

LEMMA InitWell == Init => Well
<1> SUFFICES ASSUME Init PROVE Well
  OBVIOUS
<1>1. TypeOK
  BY BoundAssumption DEF Init, TypeOK
<1>2. JobsAreWell
  BY DEF Init, JobsAreWell, Live
<1>3. HistoryIsWell
  BY DEF Init, HistoryIsWell
<1> QED
  BY <1>1, <1>2, <1>3 DEF Well

(* One worker goes on to a job that is well, the others stay as they are.  *)
LEMMA WellStays ==
  ASSUME JobsAreWell, NEW w \in Workers, jobs' \in [Workers -> {Idle} \cup Job],
         \A v \in Workers \ {w} : jobs'[v] = jobs[v],
         jobs'[w] # Idle => Formed(jobs'[w], exceptions'),
         DOMAIN exceptions \subseteq DOMAIN exceptions'
  PROVE  JobsAreWell'
<1>1. ASSUME NEW v \in Workers, jobs'[v] # Idle PROVE Formed(jobs'[v], exceptions')
  <2>1. CASE v = w
    BY <1>1, <2>1
  <2>2. CASE v # w
    BY <1>1, <2>2 DEF JobsAreWell, Live, Formed
  <2> QED
    BY <2>1, <2>2
<1> QED
  BY <1>1 DEF JobsAreWell, Live

LEMMA ReceiveMoves ==
  ASSUME Well, NEW w \in Workers, NEW a \in Accounts, NEW op \in Ops, NEW target \in Targets,
         NEW value \in Values, Receive(w, a, op, target, value)
  PROVE  /\ jobs' \in [Workers -> {Idle} \cup Job]
         /\ jobs'[w] \in Job /\ jobs'[w].step = "authenticate" /\ jobs'[w].op = op
         /\ jobs'[w].by = a /\ jobs'[w].target = target /\ jobs'[w].value = value
         /\ jobs'[w].at = 0 /\ jobs'[w].req = requests + 1
         /\ jobs'[w].after = IF op = "baseline" THEN answered ELSE {}
         /\ jobs'[w].open = (op = "baseline" /\ Row(members, target[1]) = {})
         /\ \A v \in Workers \ {w} : jobs'[v] = jobs[v]
<1> DEFINE after == IF op = "baseline" THEN answered ELSE {}
           open  == op = "baseline" /\ Row(members, target[1]) = {}
           job   == [step |-> "authenticate", op |-> op, by |-> a, target |-> target,
                     value |-> value, at |-> 0, req |-> requests + 1, after |-> after,
                     open |-> open]
<1>1. "authenticate" \in Steps /\ requests + 1 \in Nat /\ after \in SUBSET Nat
      /\ open \in BOOLEAN
  BY BoundAssumption DEF Steps, Well, TypeOK, HistoryIsWell
<1>2. job \in Job
  BY <1>1 DEF Job
<1>3. jobs' = [jobs EXCEPT ![w] = job]
  BY DEF Receive
<1> QED
  BY <1>2, <1>3 DEF Well, JobsAreWell

(* Sending a request.                                                      *)
LEMMA ReceiveIsWell ==
  ASSUME Well, NEW w \in Workers, Requests(w)
  PROVE  Well'
<1>1. PICK a \in Accounts :
        \/ \E p \in Projects, d \in Docs : Receive(w, a, "baseline", <<p>>, <<d>>)
        \/ \E p \in Projects, m \in Memberships : Receive(w, a, "member", <<p>>, m)
        \/ \E d \in Docs : Receive(w, a, "policy", <<>>, <<d>>)
        \/ Receive(w, a, "exception", <<>>, <<>>)
        \/ \E e \in DOMAIN exceptions, v \in {"approved", "rejected"} :
             Receive(w, a, "review", <<e>>, <<v>>)
  BY DEF Requests
<1>2. SUFFICES ASSUME NEW op \in Ops, NEW target \in Targets, NEW value \in Values,
                      Receive(w, a, op, target, value),
                      op = "baseline" => target[1] \in Projects /\ value[1] \in Docs,
                      op = "member" => /\ target[1] \in Projects /\ value[1] \in Emails
                                       /\ value[2] \in {"maintainer", "member"},
                      op = "policy" => value[1] \in Docs,
                      op = "review" => target[1] \in DOMAIN exceptions /\ value[1] \in Verdicts
               PROVE  Well'
  <2>1. ASSUME NEW p \in Projects, NEW d \in Docs, Receive(w, a, "baseline", <<p>>, <<d>>)
        PROVE  Well'
    <3>1. "baseline" \in Ops /\ <<p>> \in Targets /\ <<d>> \in Values
      BY DEF Ops, Targets, Values
    <3> QED
      BY <2>1, <3>1, <1>2
  <2>2. ASSUME NEW p \in Projects, NEW m \in Memberships, Receive(w, a, "member", <<p>>, m)
        PROVE  Well'
    <3>1. "member" \in Ops /\ <<p>> \in Targets /\ m \in Values
      BY DEF Ops, Targets, Values
    <3>2. m[1] \in Emails /\ m[2] \in {"maintainer", "member"}
      BY DEF Memberships
    <3> QED
      BY <2>2, <3>1, <3>2, <1>2
  <2>3. ASSUME NEW d \in Docs, Receive(w, a, "policy", <<>>, <<d>>) PROVE Well'
    <3>1. "policy" \in Ops /\ <<>> \in Targets /\ <<d>> \in Values
      BY DEF Ops, Targets, Values
    <3> QED
      BY <2>3, <3>1, <1>2
  <2>4. ASSUME Receive(w, a, "exception", <<>>, <<>>) PROVE Well'
    <3>1. "exception" \in Ops /\ <<>> \in Targets /\ <<>> \in Values
      BY DEF Ops, Targets, Values
    <3> QED
      BY <2>4, <3>1, <1>2
  <2>5. ASSUME NEW e \in DOMAIN exceptions, NEW v \in {"approved", "rejected"},
               Receive(w, a, "review", <<e>>, <<v>>)
        PROVE  Well'
    <3>1. "review" \in Ops /\ <<e>> \in Targets /\ <<v>> \in Values /\ v \in Verdicts
      BY DEF Ops, Targets, Values, Verdicts, Well, TypeOK
    <3> QED
      BY <2>5, <3>1, <1>2
  <2> QED
    BY <1>1, <2>1, <2>2, <2>3, <2>4, <2>5
<1>3. JobsAreWell'
  <2>1. /\ jobs' \in [Workers -> {Idle} \cup Job]
        /\ jobs'[w].step = "authenticate" /\ jobs'[w].op = op
        /\ jobs'[w].target = target /\ jobs'[w].value = value
        /\ \A v \in Workers \ {w} : jobs'[v] = jobs[v]
    BY <1>2, ReceiveMoves
  <2>2. exceptions' = exceptions
    BY <1>2 DEF Receive, db
  <2>3. Formed(jobs'[w], exceptions)
    BY <1>2, <2>1 DEF Formed, Ops
  <2> QED
    BY <2>1, <2>2, <2>3, WellStays DEF Well
<1>4. TypeOK'
  <2>1. requests' \in 0..MaxRequests
    BY <1>2, BoundAssumption DEF Receive, Well, TypeOK
  <2>2. UNCHANGED <<clock, now, revoked, members, baselines, approved, policies, exceptions, audit>>
    BY <1>2 DEF Receive, db
  <2>3. \A v \in Workers : jobs'[v] # Idle =>
          jobs'[v].op \in Ops /\ jobs'[v].by \in Accounts /\ jobs'[v].step \in Steps
    BY <1>3 DEF JobsAreWell, Job
  <2> QED
    BY <2>1, <2>2, <2>3 DEF Well, TypeOK, Steps
<1>5. HistoryIsWell'
  BY <1>2 DEF Receive, history, Well, HistoryIsWell
<1> QED
  BY <1>3, <1>4, <1>5 DEF Well

(* The tables, without the requests.                                       *)
TablesAreTyped ==
  /\ clock \in Nat /\ now \in Nat /\ requests \in 0..MaxRequests
  /\ revoked \subseteq Accounts
  /\ members \subseteq [project : Projects, email : Accounts, role : Roles \cup {"member"}]
  /\ baselines \subseteq Baseline /\ approved \subseteq Baseline
  /\ policies \subseteq [org : Orgs, doc : Docs, req : Nat]
  /\ exceptions \in Seq(Exc)
  /\ \A e \in audit : e.org \in Orgs /\ e.actor \in Accounts /\ e.action \in Ops \cup {"denied"}

LEMMA TypesSplit ==
  /\ TypeOK => TablesAreTyped
  /\ TablesAreTyped /\ JobsAreWell => TypeOK
<1>1. JobsAreWell => \A w \in Workers : jobs[w] # Idle =>
        jobs[w].op \in Ops /\ jobs[w].by \in Accounts /\ jobs[w].step \in Steps
  BY DEF JobsAreWell, Job
<1> QED
  BY <1>1 DEF TypeOK, TablesAreTyped, Steps

LEMMA TypesSplitNext == TablesAreTyped' /\ JobsAreWell' => TypeOK'
  BY TypesSplit, PTL

(* A handler goes on to its next step.                                     *)
LEMMA GotoIsWell ==
  ASSUME Well, NEW w \in Workers, Live(w), NEW step \in Steps, Goto(w, step),
         UNCHANGED <<answered, cutoff>>, DOMAIN exceptions \subseteq DOMAIN exceptions',
         step \in Ops => jobs[w].op = step,
         step \in {"may_administer", "stamp", "audit_denied"} => jobs[w].op = "baseline",
         TablesAreTyped'
  PROVE  Well'
<1>1. /\ jobs' \in [Workers -> {Idle} \cup Job]
      /\ jobs'[w].step = step /\ jobs'[w].op = jobs[w].op
      /\ jobs'[w].target = jobs[w].target /\ jobs'[w].value = jobs[w].value
      /\ \A v \in Workers \ {w} : jobs'[v] = jobs[v]
  BY GotoMoves DEF Well
<1>2. Formed(jobs'[w], exceptions')
  BY <1>1 DEF Formed, Well, JobsAreWell
<1>3. JobsAreWell'
  BY <1>1, <1>2, WellStays DEF Well
<1>4. HistoryIsWell'
  BY DEF Well, HistoryIsWell
<1> QED
  BY <1>3, <1>4, TypesSplitNext DEF Well

(* A handler answers.                                                      *)
LEMMA AnswerIsWell ==
  ASSUME Well, NEW w \in Workers, Live(w), Answer(w), UNCHANGED <<cutoff, exceptions>>,
         TablesAreTyped'
  PROVE  Well'
<1>1. /\ jobs' \in [Workers -> {Idle} \cup Job] /\ jobs'[w] = Idle
      /\ \A v \in Workers \ {w} : jobs'[v] = jobs[v]
  BY AnswerMoves DEF Well, Answer
<1>2. JobsAreWell'
  BY <1>1, WellStays DEF Well
<1>3. jobs[w].req \in Nat
  BY DEF Well, JobsAreWell, Live, Job
<1>4. HistoryIsWell'
  BY <1>3 DEF Well, HistoryIsWell, Answer
<1> QED
  BY <1>2, <1>4, TypesSplitNext DEF Well

LEMMA DieIsWell ==
  ASSUME Well, NEW w \in Workers, Die(w)
  PROVE  Well'
<1>1. /\ jobs' \in [Workers -> {Idle} \cup Job] /\ jobs'[w] = Idle
      /\ \A v \in Workers \ {w} : jobs'[v] = jobs[v]
  BY AnswerMoves DEF Well, Die
<1>2. JobsAreWell'
  BY <1>1, WellStays DEF Well, Die, db
<1>3. HistoryIsWell' /\ TablesAreTyped'
  BY TypesSplit DEF Well, HistoryIsWell, Die, TablesAreTyped, db
<1> QED
  BY <1>2, <1>3, TypesSplitNext DEF Well

LEMMA RequireRoleIsWell ==
  ASSUME Well, NEW w \in Workers, require_role(w)
  PROVE  Well'
<1>1. Live(w) /\ jobs[w] \in Job
  BY AtIsLive DEF Well, require_role, Steps
<1>2. TablesAreTyped' /\ exceptions' = exceptions
  BY TypesSplit DEF Well, TablesAreTyped, require_role, Refuse, Quiet, db
<1>3. CASE Refuse(w)
  BY <1>1, <1>2, <1>3, AnswerIsWell DEF require_role, Refuse, Quiet
<1>4. CASE Goto(w, IF jobs[w].op = "baseline" THEN "may_administer" ELSE jobs[w].op)
             /\ UNCHANGED answered
  <2> DEFINE step == IF jobs[w].op = "baseline" THEN "may_administer" ELSE jobs[w].op
  <2>1. step \in Steps /\ (step \in Ops => jobs[w].op = step)
        /\ (step \in {"may_administer", "stamp", "audit_denied"} => jobs[w].op = "baseline")
    BY <1>1 DEF Job, Steps, Ops
  <2> QED
    BY <1>1, <1>2, <1>4, <2>1, GotoIsWell DEF require_role, Quiet
<1> QED
  BY <1>3, <1>4 DEF require_role

LEMMA CheckProjectIsWell ==
  ASSUME Well, NEW w \in Workers, CheckProject(w)
  PROVE  Well'
<1>1. Live(w) /\ jobs[w] \in Job /\ jobs[w].op = "baseline"
  BY AtIsLive DEF Well, CheckProject, Steps, JobsAreWell, Formed, At
<1>2. TablesAreTyped' /\ exceptions' = exceptions
  BY TypesSplit DEF Well, TablesAreTyped, CheckProject, Quiet, db
<1>3. \A step \in {"stamp", "audit_denied"} : step \in Steps /\ step \notin Ops
  BY DEF Steps, Ops
<1> QED
  BY <1>1, <1>2, <1>3, GotoIsWell DEF CheckProject, Quiet

LEMMA StampIsWell ==
  ASSUME Well, NEW w \in Workers, StampBaseline(w)
  PROVE  Well'
<1>1. Live(w) /\ jobs[w] \in Job /\ jobs[w].op = "baseline" /\ now \in Nat
  BY AtIsLive DEF Well, StampBaseline, Steps, JobsAreWell, Formed, At, TypeOK
<1>2. /\ jobs' \in [Workers -> {Idle} \cup Job]
      /\ jobs'[w].step = "baseline" /\ jobs'[w].op = jobs[w].op
      /\ jobs'[w].target = jobs[w].target /\ jobs'[w].value = jobs[w].value
      /\ \A v \in Workers \ {w} : jobs'[v] = jobs[v]
  BY <1>1, StampMoves DEF Well
<1>3. TablesAreTyped' /\ exceptions' = exceptions /\ HistoryIsWell'
  BY <1>1, TypesSplit DEF Well, TablesAreTyped, StampBaseline, Quiet, db, HistoryIsWell
<1>4. Formed(jobs'[w], exceptions')
  BY <1>1, <1>2, <1>3 DEF Formed, Well, JobsAreWell
<1>5. JobsAreWell'
  BY <1>2, <1>3, <1>4, WellStays DEF Well
<1> QED
  BY <1>3, <1>5, TypesSplitNext DEF Well

LEMMA ApproveIsWell ==
  ASSUME Well, NEW w \in Workers, approve_baseline(w)
  PROVE  Well'
<1>1. /\ Live(w) /\ jobs[w] \in Job /\ jobs[w].op = "baseline"
      /\ jobs[w].target[1] \in Projects /\ jobs[w].value[1] \in Docs
  BY AtIsLive DEF Well, approve_baseline, StoreBaseline, Steps, Ops, JobsAreWell, Formed, At
<1>2. NewBaseline(w, jobs[w].at) \in Baseline
  BY <1>1 DEF NewBaseline, Baseline, Project, Value, Job
<1>3. baselines' \subseteq Baseline /\ approved' \subseteq Baseline
  BY <1>2 DEF approve_baseline, StoreBaseline, SameBaseline, Row, Well, TypeOK
<1>4. TablesAreTyped'
  BY <1>3, TypesSplit DEF Well, TablesAreTyped, approve_baseline, StoreBaseline, Quiet
<1> QED
  BY <1>1, <1>4, GotoIsWell DEF approve_baseline, StoreBaseline, Quiet, Steps, Ops

LEMMA AddMemberIsWell ==
  ASSUME Well, NEW w \in Workers, add_project_member(w)
  PROVE  Well'
<1>1. /\ Live(w) /\ jobs[w] \in Job /\ jobs[w].target[1] \in Projects
      /\ jobs[w].value[1] \in Emails /\ jobs[w].value[2] \in {"maintainer", "member"}
  BY AtIsLive DEF Well, add_project_member, Steps, Ops, JobsAreWell, Formed, At
<1> DEFINE m == [project |-> Project(w), email |-> jobs[w].value[1], role |-> jobs[w].value[2]]
<1>2. m \in [project : Projects, email : Accounts, role : Roles \cup {"member"}]
  BY <1>1, AccountAssumption DEF Project, Roles
<1>3. members' \subseteq [project : Projects, email : Accounts, role : Roles \cup {"member"}]
  BY <1>2 DEF add_project_member, Well, TypeOK
<1>4. TablesAreTyped'
  BY <1>3, TypesSplit DEF Well, TablesAreTyped, add_project_member
<1> QED
  BY <1>1, <1>4, GotoIsWell DEF add_project_member, Steps, Ops

LEMMA SetPolicyIsWell ==
  ASSUME Well, NEW w \in Workers, set_policy(w)
  PROVE  Well'
<1>1. Live(w) /\ jobs[w] \in Job /\ jobs[w].value[1] \in Docs
  BY AtIsLive DEF Well, set_policy, Steps, Ops, JobsAreWell, Formed, At
<1>2. CASE Refuse(w)
  <2>1. TablesAreTyped'
    BY <1>2, TypesSplit DEF Well, TablesAreTyped, set_policy, Refuse, Quiet, db
  <2> QED
    BY <1>1, <1>2, <2>1, AnswerIsWell DEF set_policy, Refuse, Quiet, db
<1>3. CASE /\ policies' = policies \cup
               {[org |-> AccountOrg[jobs[w].by], doc |-> Value(w), req |-> jobs[w].req]}
           /\ Goto(w, "audit")
           /\ UNCHANGED <<now, revoked, members, baselines, approved, exceptions, audit, answered>>
  <2>1. [org |-> AccountOrg[jobs[w].by], doc |-> Value(w), req |-> jobs[w].req]
          \in [org : Orgs, doc : Docs, req : Nat]
    BY <1>1 DEF Orgs, Value, Job
  <2>2. TablesAreTyped'
    BY <1>3, <2>1, TypesSplit DEF Well, TablesAreTyped, set_policy, Quiet
  <2> QED
    BY <1>1, <1>3, <2>2, GotoIsWell DEF set_policy, Quiet, Steps, Ops
<1> QED
  BY <1>2, <1>3 DEF set_policy

LEMMA RequestExceptionIsWell ==
  ASSUME Well, NEW w \in Workers, request_exception(w)
  PROVE  /\ Well'
         /\ Len(exceptions') = Len(exceptions) + 1
         /\ \A i \in DOMAIN exceptions : i \in DOMAIN exceptions' /\ exceptions'[i] = exceptions[i]
         /\ exceptions'[Len(exceptions) + 1].status = "pending"
         /\ exceptions'[Len(exceptions) + 1].reviewed_by = {}
         /\ exceptions'[Len(exceptions) + 1].req = jobs[w].req
<1>1. Live(w) /\ jobs[w] \in Job
  BY AtIsLive DEF Well, request_exception, Steps, Ops
<1> DEFINE row == [org |-> AccountOrg[jobs[w].by], status |-> "pending",
                   expires |-> clock + ExceptionDays, reviewed_by |-> {},
                   req |-> jobs[w].req, review |-> 0]
<1>2. clock + ExceptionDays \in Nat
  BY DaysAssumption DEF Well, TypeOK
<1>3. row \in Exc
  BY <1>1, <1>2 DEF Exc, Orgs, Job
<1>4. exceptions \in Seq(Exc) /\ exceptions' = Append(exceptions, row)
  BY DEF request_exception, Well, TypeOK
<1>5. /\ exceptions' \in Seq(Exc)
      /\ Len(exceptions') = Len(exceptions) + 1
      /\ \A i \in DOMAIN exceptions : i \in DOMAIN exceptions' /\ exceptions'[i] = exceptions[i]
      /\ exceptions'[Len(exceptions) + 1] = row
  BY <1>3, <1>4
<1>6. TablesAreTyped'
  BY <1>5, TypesSplit DEF Well, TablesAreTyped, request_exception, Quiet
<1>7. Well'
  BY <1>1, <1>5, <1>6, GotoIsWell DEF request_exception, Quiet, Steps, Ops
<1> QED
  BY <1>5, <1>7

(* Either nothing changes, or one pending exception is reviewed.           *)
LEMMA ReviewIsWell ==
  ASSUME Well, NEW w \in Workers, review_exception(w)
  PROVE  /\ Well'
         /\ jobs[w].op = "review" /\ jobs[w].target[1] \in DOMAIN exceptions
         /\ jobs[w].value[1] \in Verdicts
         /\ DOMAIN exceptions' = DOMAIN exceptions
         /\ \A i \in DOMAIN exceptions :
              IF i = jobs[w].target[1] /\ exceptions[i].status = "pending"
              THEN /\ exceptions'[i].status = jobs[w].value[1]
                   /\ exceptions'[i].reviewed_by = {jobs[w].by}
                   /\ exceptions'[i].review = jobs[w].req
                   /\ exceptions'[i].req = exceptions[i].req
                   /\ exceptions'[i].expires = exceptions[i].expires
              ELSE exceptions'[i] = exceptions[i]
<1> DEFINE e == jobs[w].target[1]
<1>1. /\ Live(w) /\ jobs[w] \in Job /\ jobs[w].op = "review"
      /\ e \in DOMAIN exceptions /\ jobs[w].value[1] \in Verdicts
  BY AtIsLive DEF Well, review_exception, Steps, Ops, JobsAreWell, Formed, At
<1>2. CASE exceptions[e].status # "pending"
  <2>1. Refuse(w)
    BY <1>2 DEF review_exception
  <2>2. TablesAreTyped'
    BY <2>1, TypesSplit DEF Well, TablesAreTyped, review_exception, Refuse, Quiet, db
  <2>3. exceptions' = exceptions
    BY <2>1 DEF Refuse, db
  <2>4. Well'
    BY <1>1, <2>1, <2>2, <2>3, AnswerIsWell DEF review_exception, Refuse, Quiet
  <2> QED
    BY <1>1, <1>2, <2>3, <2>4
<1>3. CASE exceptions[e].status = "pending"
  <2> DEFINE row == [exceptions[e] EXCEPT !.status = jobs[w].value[1],
                                          !.reviewed_by = {jobs[w].by},
                                          !.review = jobs[w].req]
  <2>1. exceptions \in Seq(Exc) /\ exceptions[e] \in Exc
    BY <1>1 DEF Well, TypeOK
  <2>2. exceptions' = [exceptions EXCEPT ![e] = row]
    BY <1>1, <1>3, <2>1 DEF review_exception, Reviewed, Value, Exc
  <2>3. /\ row \in Exc
        /\ row.status = jobs[w].value[1] /\ row.reviewed_by = {jobs[w].by}
        /\ row.review = jobs[w].req /\ row.req = exceptions[e].req
        /\ row.expires = exceptions[e].expires
    BY <1>1, <2>1 DEF Exc, Job, Verdicts
  <2>4. /\ exceptions' \in Seq(Exc) /\ DOMAIN exceptions' = DOMAIN exceptions
        /\ exceptions'[e] = row
        /\ \A i \in DOMAIN exceptions : i # e => exceptions'[i] = exceptions[i]
    BY <1>1, <2>1, <2>2, <2>3
  <2>5. Goto(w, "audit")
    BY <1>3 DEF review_exception
  <2>6. TablesAreTyped'
    BY <1>3, <2>4, TypesSplit DEF Well, TablesAreTyped, review_exception, Quiet
  <2>7. Well'
    BY <1>1, <1>3, <2>4, <2>5, <2>6, GotoIsWell DEF review_exception, Quiet, Steps, Ops
  <2> QED
    BY <1>1, <1>3, <2>3, <2>4, <2>7
<1> QED
  BY <1>2, <1>3

LEMMA AuditIsWell ==
  ASSUME Well, NEW w \in Workers, Audit(w) \/ AuditDenied(w)
  PROVE  Well'
<1>1. Live(w) /\ jobs[w] \in Job
  BY AtIsLive DEF Well, Audit, AuditDenied, Steps
<1>2. PICK action \in Ops \cup {"denied"} :
        Audited(w, action, jobs[w].target, jobs[w].value)
  BY <1>1 DEF Audit, AuditDenied, Job
<1> DEFINE event == [org |-> AccountOrg[jobs[w].by], actor |-> jobs[w].by,
                     action |-> action, target |-> jobs[w].target, value |-> jobs[w].value,
                     req |-> jobs[w].req]
<1>3. event.org \in Orgs /\ event.actor \in Accounts /\ event.action \in Ops \cup {"denied"}
  BY <1>1, <1>2 DEF Orgs, Job
<1>4. audit' = audit \cup {event}
  BY <1>2 DEF Audited
<1>5. TablesAreTyped'
  BY <1>2, <1>3, <1>4, TypesSplit DEF Well, TablesAreTyped, Audited, Quiet
<1> QED
  BY <1>1, <1>2, <1>5, AnswerIsWell DEF Audited, Quiet

LEMMA NextWell == Well /\ [Next]_vars => Well'
<1> SUFFICES ASSUME Well, [Next]_vars PROVE Well'
  OBVIOUS
<1>1. CASE UNCHANGED vars \/ Tick \/ \E a \in Accounts : revoke_service_account(a)
  <2>1. UNCHANGED <<jobs, exceptions, answered>>
    BY <1>1 DEF vars, db, history, Tick, revoke_service_account
  <2>2. JobsAreWell'
    BY <2>1 DEF Well, JobsAreWell, Live
  <2>3. clock' \in Nat
    BY <1>1 DEF Well, TypeOK, vars, Tick, revoke_service_account
  <2>4. cutoff' \in [Accounts -> Nat \cup {Never}] /\ revoked' \subseteq Accounts
    BY <1>1 DEF Well, TypeOK, HistoryIsWell, vars, db, history, Tick, revoke_service_account
  <2>5. UNCHANGED <<now, requests, members, baselines, approved, policies, exceptions, audit>>
    BY <1>1 DEF vars, db, Tick, revoke_service_account
  <2>6. TablesAreTyped' /\ HistoryIsWell'
    BY <2>1, <2>3, <2>4, <2>5, TypesSplit DEF Well, TablesAreTyped, HistoryIsWell
  <2> QED
    BY <2>2, <2>6, TypesSplitNext DEF Well
<1>2. ASSUME NEW w \in Workers, Requests(w) \/ Handle(w) \/ Die(w) PROVE Well'
  BY <1>2, ReceiveIsWell, DieIsWell, RequireRoleIsWell, CheckProjectIsWell, StampIsWell,
     ApproveIsWell, AddMemberIsWell, SetPolicyIsWell, RequestExceptionIsWell, ReviewIsWell,
     AuditIsWell DEF Handle
<1> QED
  BY <1>1, <1>2 DEF Next

-----------------------------------------------------------------------------
(* Exceptions.                                                             *)

(* Rows are appended and reviewed, and nothing else happens to them.       *)
LEMMA ExceptionsChange ==
  ASSUME Well, [Next]_vars
  PROVE  \/ UNCHANGED exceptions
         \/ \E w \in Workers : request_exception(w) \/ review_exception(w)
<1>1. CASE UNCHANGED vars \/ Tick \/ \E a \in Accounts : revoke_service_account(a)
  BY <1>1 DEF vars, db, history, Tick, revoke_service_account
<1>2. ASSUME NEW w \in Workers, Requests(w) \/ Die(w) PROVE UNCHANGED exceptions \/ request_exception(w) \/ review_exception(w)
  BY <1>2 DEF Requests, Receive, Die, db, history
<1>3. ASSUME NEW w \in Workers, require_role(w) \/ CheckProject(w) \/ AuditDenied(w) \/ Audit(w)
      PROVE  UNCHANGED exceptions \/ request_exception(w) \/ review_exception(w)
  BY <1>3 DEF require_role, CheckProject, AuditDenied, Audit, Audited, Refuse, Quiet, db
<1>4. ASSUME NEW w \in Workers, StampBaseline(w) \/ approve_baseline(w) \/ set_policy(w)
      PROVE  UNCHANGED exceptions \/ request_exception(w) \/ review_exception(w)
  BY <1>4 DEF StampBaseline, approve_baseline, StoreBaseline, set_policy, Refuse, Quiet, db
<1>5. ASSUME NEW w \in Workers,
             add_project_member(w) \/ request_exception(w) \/ review_exception(w)
      PROVE  UNCHANGED exceptions \/ request_exception(w) \/ review_exception(w)
  BY <1>5 DEF add_project_member, request_exception, review_exception, Refuse, Quiet, db
<1> QED
  BY <1>1, <1>2, <1>3, <1>4, <1>5 DEF Next, Handle

LEMMA ClockIsMonotone ==
  ASSUME Well, [Next]_vars
  PROVE  clock' \in Nat /\ clock <= clock'
<1>1. clock \in Nat
  BY DEF Well, TypeOK
<1>2. CASE UNCHANGED vars \/ Tick
  BY <1>1, <1>2 DEF vars, Tick
<1>3. ASSUME NEW a \in Accounts, revoke_service_account(a) PROVE clock' = clock
  BY <1>3 DEF revoke_service_account
<1>4. ASSUME NEW w \in Workers, Requests(w) \/ Die(w) PROVE clock' = clock
  BY <1>4 DEF Requests, Receive, Die
<1>5. ASSUME NEW w \in Workers, Handle(w) PROVE clock' = clock
  <2>1. CASE require_role(w) \/ CheckProject(w) \/ StampBaseline(w)
    BY <2>1 DEF require_role, CheckProject, StampBaseline, Quiet
  <2>2. CASE AuditDenied(w) \/ Audit(w)
    BY <2>2 DEF AuditDenied, Audit, Audited, Quiet
  <2>3. CASE approve_baseline(w) \/ add_project_member(w) \/ set_policy(w)
    BY <2>3 DEF approve_baseline, StoreBaseline, add_project_member, set_policy, Quiet
  <2>4. CASE request_exception(w) \/ review_exception(w)
    BY <2>4 DEF request_exception, review_exception, Quiet
  <2> QED
    BY <1>5, <2>1, <2>2, <2>3, <2>4 DEF Handle
<1> QED
  BY <1>1, <1>2, <1>3, <1>4, <1>5 DEF Next

(* The day an exception ends is never moved.                               *)
LEMMA ExpiryIsFixed ==
  ASSUME Well, [Next]_vars, NEW i \in DOMAIN exceptions
  PROVE  exceptions'[i].expires = exceptions[i].expires
  BY ExceptionsChange, RequestExceptionIsWell, ReviewIsWell

LEMMA ExpiredStaysOffNext == Well /\ [Next]_vars => [ExpiredStaysOff]_vars
<1> SUFFICES ASSUME Well, [Next]_vars, NEW i \in DOMAIN exceptions, Over(exceptions[i])
             PROVE  ~Active(exceptions[i])'
  BY DEF ExpiredStaysOff
<1>1. exceptions[i].expires \in Nat /\ clock \in Nat
  <2>1. exceptions \in Seq(Exc) /\ clock \in Nat
    BY DEF Well, TypeOK
  <2>2. exceptions[i] \in Exc
    BY <2>1
  <2> QED
    BY <2>1, <2>2 DEF Exc
<1>2. exceptions[i].expires <= clock
  BY DEF Over
<1> QED
  BY <1>1, <1>2, ClockIsMonotone, ExpiryIsFixed DEF Active

(* The statuses of a table, as ExceptionLife sees them.                    *)
Statuses(excs) == [i \in DOMAIN excs |-> excs[i].status]

LEMMA LifeInit == Init => Life!Init
<1> SUFFICES ASSUME Init PROVE Statuses(exceptions) = <<>>
  BY DEF Life!Init, Statuses
<1>1. exceptions = <<>> /\ DOMAIN exceptions = {}
  BY DEF Init
<1> QED
  BY <1>1 DEF Statuses

LEMMA StatusesAreASequence ==
  ASSUME NEW excs \in Seq(Exc)
  PROVE  /\ Statuses(excs) \in Seq({"pending", "approved", "rejected"})
         /\ Len(Statuses(excs)) = Len(excs)
         /\ DOMAIN Statuses(excs) = 1..Len(excs)
<1>1. DOMAIN excs = 1..Len(excs) /\ \A i \in DOMAIN excs : excs[i] \in Exc
  OBVIOUS
<1> QED
  BY <1>1 DEF Statuses, Exc

LEMMA LifeNext == Well /\ [Next]_vars => [Life!Next]_(Statuses(exceptions))
<1> SUFFICES ASSUME Well, [Next]_vars PROVE [Life!Next]_(Statuses(exceptions))
  OBVIOUS
<1>1. CASE UNCHANGED exceptions
  BY <1>1 DEF Statuses
<1>2. ASSUME NEW w \in Workers, request_exception(w) PROVE Life!Request
  <2>1. /\ exceptions \in Seq(Exc) /\ exceptions' \in Seq(Exc)
        /\ Len(exceptions') = Len(exceptions) + 1
        /\ \A i \in DOMAIN exceptions : exceptions'[i] = exceptions[i]
        /\ exceptions'[Len(exceptions) + 1].status = "pending"
    BY <1>2, RequestExceptionIsWell DEF Well, TypeOK
  <2>2. Statuses(exceptions') = Append(Statuses(exceptions), "pending")
    BY <2>1, StatusesAreASequence DEF Statuses
  <2> QED
    BY <2>2 DEF Life!Request, Statuses
<1>3. ASSUME NEW w \in Workers, review_exception(w)
      PROVE  UNCHANGED Statuses(exceptions)
               \/ \E e \in DOMAIN Statuses(exceptions) : Life!Review(e)
  <2> DEFINE e == jobs[w].target[1]
  <2>1. /\ e \in DOMAIN exceptions /\ jobs[w].value[1] \in Verdicts
        /\ DOMAIN exceptions' = DOMAIN exceptions
        /\ \A i \in DOMAIN exceptions :
             IF i = e /\ exceptions[i].status = "pending"
             THEN exceptions'[i].status = jobs[w].value[1]
             ELSE exceptions'[i] = exceptions[i]
    BY <1>3, ReviewIsWell
  <2>2. CASE exceptions[e].status # "pending"
    <3>1. \A i \in DOMAIN exceptions : exceptions'[i].status = exceptions[i].status
      BY <2>1, <2>2
    <3> QED
      BY <2>1, <3>1 DEF Statuses
  <2>3. CASE exceptions[e].status = "pending"
    <3>1. Statuses(exceptions') = [Statuses(exceptions) EXCEPT ![e] = jobs[w].value[1]]
      BY <2>1, <2>3 DEF Statuses
    <3>2. e \in DOMAIN Statuses(exceptions) /\ Statuses(exceptions)[e] = "pending"
      BY <2>1, <2>3 DEF Statuses
    <3> QED
      BY <2>1, <3>1, <3>2 DEF Life!Review, Life!Verdicts, Verdicts, Statuses
  <2> QED
    BY <2>2, <2>3
<1> QED
  BY <1>1, <1>2, <1>3, ExceptionsChange DEF Life!Next, Statuses

(* An exception is requested once, reviewed at most once, and what the     *)
(* review said is final, whatever overlaps and whoever dies: the endpoints *)
(* implement ExceptionLife (server/db.py, review_exception).               *)
THEOREM ExceptionsHaveALife == Spec => LifeSpec
<1>1. [Life!Next]_(Statuses(exceptions)) => [Life!Next]_[i \in DOMAIN exceptions |-> exceptions[i].status]
  BY DEF Statuses
<1> QED
  BY <1>1, LifeInit, LifeNext, InitWell, NextWell, PTL DEF Spec, LifeSpec, Life!Spec

(* Once its time has passed an exception never applies again, however late *)
(* it is approved: no handler moves expires_at, and the clock only goes on *)
(* (server/db.py, active_exceptions).                                      *)
THEOREM ExceptionsAreOver == Spec => ExceptionsEnd
  BY InitWell, NextWell, ExpiredStaysOffNext, PTL DEF Spec, ExceptionsEnd

-----------------------------------------------------------------------------
(* What the rest rests on: how a request and how a table changes.          *)

Kept(v) ==
  /\ jobs'[v].op = jobs[v].op /\ jobs'[v].by = jobs[v].by
  /\ jobs'[v].target = jobs[v].target /\ jobs'[v].value = jobs[v].value
  /\ jobs'[v].req = jobs[v].req /\ jobs'[v].after = jobs[v].after
  /\ jobs'[v].open = jobs[v].open

Advances(v) ==
  \/ require_role(v) \/ CheckProject(v) \/ StampBaseline(v) \/ approve_baseline(v)
  \/ add_project_member(v) \/ set_policy(v) \/ request_exception(v) \/ review_exception(v)

Received(v) ==
  /\ jobs[v] = Idle /\ jobs'[v].step = "authenticate"
  /\ jobs'[v].req = requests + 1 /\ requests' = requests + 1
  /\ jobs'[v].after \subseteq answered
  /\ jobs'[v].op = "baseline" =>
       /\ jobs'[v].after = answered
       /\ jobs'[v].open \/ Row(members, jobs'[v].target[1]) # {}
  /\ UNCHANGED <<db, now, history>>

LEMMA ReceivedBy ==
  ASSUME Well, NEW w \in Workers, Requests(w)
  PROVE  Received(w) /\ \A v \in Workers \ {w} : jobs'[v] = jobs[v]
<1>1. PICK a \in Accounts :
        \/ \E p \in Projects, d \in Docs : Receive(w, a, "baseline", <<p>>, <<d>>)
        \/ \E p \in Projects, m \in Memberships : Receive(w, a, "member", <<p>>, m)
        \/ \E d \in Docs : Receive(w, a, "policy", <<>>, <<d>>)
        \/ Receive(w, a, "exception", <<>>, <<>>)
        \/ \E e \in DOMAIN exceptions, v \in {"approved", "rejected"} :
             Receive(w, a, "review", <<e>>, <<v>>)
  BY DEF Requests
<1>2. PICK op \in Ops, target \in Targets, value \in Values : Receive(w, a, op, target, value)
  <2>1. \A p \in Projects, d \in Docs : <<p>> \in Targets /\ <<d>> \in Values
    BY DEF Targets, Values
  <2>2. \A m \in Memberships : m \in Values
    BY DEF Values
  <2>3. <<>> \in Targets /\ <<>> \in Values
    BY DEF Targets, Values
  <2>4. \A e \in DOMAIN exceptions, v \in Verdicts : <<e>> \in Targets /\ <<v>> \in Values
    BY DEF Targets, Values, Well, TypeOK
  <2> DEFINE Sent == \E op \in Ops, target \in Targets, value \in Values :
                       Receive(w, a, op, target, value)
  <2>5. ASSUME NEW p \in Projects, NEW d \in Docs, Receive(w, a, "baseline", <<p>>, <<d>>)
        PROVE  Sent
    BY <2>1, <2>5 DEF Ops
  <2>6. ASSUME NEW p \in Projects, NEW m \in Memberships, Receive(w, a, "member", <<p>>, m)
        PROVE  Sent
    <3>1. <<p>> \in Targets
      BY DEF Targets
    <3> QED
      BY <2>2, <2>6, <3>1 DEF Ops
  <2>7. ASSUME NEW d \in Docs, Receive(w, a, "policy", <<>>, <<d>>) PROVE Sent
    <3>1. <<d>> \in Values
      BY DEF Values
    <3> QED
      BY <2>3, <2>7, <3>1 DEF Ops
  <2>8. ASSUME Receive(w, a, "exception", <<>>, <<>>) PROVE Sent
    BY <2>3, <2>8 DEF Ops
  <2>9. ASSUME NEW e \in DOMAIN exceptions, NEW v \in {"approved", "rejected"},
               Receive(w, a, "review", <<e>>, <<v>>)
        PROVE  Sent
    BY <2>4, <2>9 DEF Ops, Verdicts
  <2> QED
    BY <1>1, <2>5, <2>6, <2>7, <2>8, <2>9
<1>3. /\ jobs'[w].step = "authenticate" /\ jobs'[w].op = op
      /\ jobs'[w].target = target /\ jobs'[w].req = requests + 1
      /\ jobs'[w].after = IF op = "baseline" THEN answered ELSE {}
      /\ jobs'[w].open = (op = "baseline" /\ Row(members, target[1]) = {})
      /\ \A v \in Workers \ {w} : jobs'[v] = jobs[v]
  BY <1>2, ReceiveMoves
<1>4. /\ jobs[w] = Idle /\ requests' = requests + 1 /\ UNCHANGED <<db, now, history>>
  BY <1>2 DEF Receive
<1> QED
  BY <1>3, <1>4 DEF Received

(* One worker finishes: by an answer, or by dying.                         *)
Finishes(w) == jobs' = [jobs EXCEPT ![w] = Idle]

LEMMA HandleMoves ==
  ASSUME Well, NEW w \in Workers, Handle(w)
  PROVE  /\ Live(w)
         /\ \/ Finishes(w)
            \/ Advances(w) /\ Kept(w) /\ \A v \in Workers \ {w} : jobs'[v] = jobs[v]
<1>1. ASSUME NEW step \in Steps, At(w, step) PROVE Live(w)
  BY <1>1, AtIsLive DEF Well
<1>2. ASSUME NEW step \in Steps, Live(w), Goto(w, step)
      PROVE  Kept(w) /\ \A v \in Workers \ {w} : jobs'[v] = jobs[v]
  BY <1>2, GotoMoves DEF Kept, Well
<1>3. CASE require_role(w)
  <2>1. Live(w) /\ jobs[w] \in Job
    BY <1>3, AtIsLive DEF Well, require_role, Steps
  <2>2. (IF jobs[w].op = "baseline" THEN "may_administer" ELSE jobs[w].op) \in Steps
    BY <2>1 DEF Job, Steps
  <2> QED
    BY <1>2, <1>3, <2>1, <2>2 DEF require_role, Refuse, Answer, Finishes, Advances
<1>4. CASE StampBaseline(w)
  <2>1. Live(w) /\ now \in Nat
    BY <1>1, <1>4 DEF StampBaseline, Steps, Well, TypeOK
  <2> QED
    BY <1>4, <2>1, StampMoves DEF Kept, Advances, Well
<1>5. CASE Audit(w) \/ AuditDenied(w)
  BY <1>1, <1>5 DEF Audit, AuditDenied, Audited, Answer, Finishes, Steps
<1>6. CASE CheckProject(w)
  BY <1>1, <1>2, <1>6 DEF CheckProject, Steps, Advances
<1>7. CASE approve_baseline(w) \/ add_project_member(w) \/ request_exception(w)
  BY <1>1, <1>2, <1>7 DEF approve_baseline, StoreBaseline, add_project_member, request_exception, Steps, Ops,
     Advances
<1>8. CASE set_policy(w) \/ review_exception(w)
  BY <1>1, <1>2, <1>8 DEF set_policy, review_exception, Steps, Ops, Advances, Refuse, Answer,
     Finishes
<1> QED
  BY <1>3, <1>4, <1>5, <1>6, <1>7, <1>8 DEF Handle

LEMMA JobsMove ==
  ASSUME Well, [Next]_vars, NEW v \in Workers, jobs'[v] # Idle
  PROVE  \/ jobs'[v] = jobs[v]
         \/ Received(v)
         \/ Live(v) /\ Kept(v) /\ Advances(v)
<1>1. CASE UNCHANGED vars \/ Tick \/ \E a \in Accounts : revoke_service_account(a)
  BY <1>1 DEF vars, Tick, revoke_service_account
<1>2. ASSUME NEW w \in Workers, Requests(w) \/ Handle(w) \/ Die(w)
      PROVE  jobs'[v] = jobs[v] \/ Received(v) \/ (Live(v) /\ Kept(v) /\ Advances(v))
  <2>1. ASSUME Finishes(w) PROVE jobs'[v] = jobs[v]
    BY <2>1, AnswerMoves DEF Finishes, Well
  <2> QED
    BY <1>2, <2>1, ReceivedBy, HandleMoves DEF Die, Finishes
<1> QED
  BY <1>1, <1>2 DEF Next

LEMMA BaselinesChange ==
  ASSUME [Next]_vars
  PROVE  UNCHANGED <<baselines, approved>> \/ \E w \in Workers : approve_baseline(w)
<1>1. CASE UNCHANGED vars \/ Tick \/ \E a \in Accounts : revoke_service_account(a)
  BY <1>1 DEF vars, db, history, Tick, revoke_service_account
<1>2. ASSUME NEW w \in Workers, Requests(w) \/ Die(w) PROVE UNCHANGED <<baselines, approved>> \/ approve_baseline(w)
  BY <1>2 DEF Requests, Receive, Die, db, history
<1>3. ASSUME NEW w \in Workers, require_role(w) \/ CheckProject(w) \/ AuditDenied(w) \/ Audit(w)
      PROVE  UNCHANGED <<baselines, approved>> \/ approve_baseline(w)
  BY <1>3 DEF require_role, CheckProject, AuditDenied, Audit, Audited, Refuse, Quiet, db
<1>4. ASSUME NEW w \in Workers, StampBaseline(w) \/ approve_baseline(w) \/ set_policy(w)
      PROVE  UNCHANGED <<baselines, approved>> \/ approve_baseline(w)
  BY <1>4 DEF StampBaseline, set_policy, Refuse, Quiet, db
<1>5. ASSUME NEW w \in Workers,
             add_project_member(w) \/ request_exception(w) \/ review_exception(w)
      PROVE  UNCHANGED <<baselines, approved>> \/ approve_baseline(w)
  BY <1>5 DEF add_project_member, request_exception, review_exception, Refuse, Quiet, db
<1> QED
  BY <1>1, <1>2, <1>3, <1>4, <1>5 DEF Next, Handle

LEMMA PoliciesChange ==
  ASSUME [Next]_vars
  PROVE  policies \subseteq policies'
<1>1. CASE UNCHANGED vars \/ Tick \/ \E a \in Accounts : revoke_service_account(a)
  BY <1>1 DEF vars, db, Tick, revoke_service_account
<1>2. ASSUME NEW w \in Workers, Requests(w) \/ Die(w) PROVE UNCHANGED policies
  BY <1>2 DEF Requests, Receive, Die, db
<1>3. ASSUME NEW w \in Workers, Handle(w) PROVE policies \subseteq policies'
  <2>1. CASE require_role(w) \/ CheckProject(w) \/ AuditDenied(w) \/ Audit(w) \/ StampBaseline(w)
    BY <2>1 DEF require_role, Refuse, CheckProject, AuditDenied, Audited, Audit, StampBaseline, db
  <2>2. CASE approve_baseline(w) \/ add_project_member(w) \/ request_exception(w) \/ review_exception(w)
    BY <2>2 DEF Refuse, approve_baseline, StoreBaseline, add_project_member, request_exception, review_exception, db
  <2>3. CASE set_policy(w)
    BY <2>3 DEF set_policy, Refuse, db
  <2> QED
    BY <1>3, <2>1, <2>2, <2>3 DEF Handle
<1> QED
  BY <1>1, <1>2, <1>3 DEF Next

LEMMA PoliciesWritten ==
  ASSUME [Next]_vars
  PROVE  UNCHANGED policies \/ \E w \in Workers : set_policy(w) /\ ~Refuse(w)
<1>1. CASE UNCHANGED vars \/ Tick \/ \E a \in Accounts : revoke_service_account(a)
  BY <1>1 DEF vars, db, history, Tick, revoke_service_account
<1>2. ASSUME NEW w \in Workers, Requests(w) \/ Die(w) PROVE UNCHANGED policies \/ (set_policy(w) /\ ~Refuse(w))
  BY <1>2 DEF Requests, Receive, Die, db, history
<1>3. ASSUME NEW w \in Workers, require_role(w) \/ CheckProject(w) \/ AuditDenied(w) \/ Audit(w)
      PROVE  UNCHANGED policies \/ (set_policy(w) /\ ~Refuse(w))
  BY <1>3 DEF require_role, CheckProject, AuditDenied, Audit, Audited, Refuse, Quiet, db
<1>4. ASSUME NEW w \in Workers, StampBaseline(w) \/ approve_baseline(w) \/ set_policy(w)
      PROVE  UNCHANGED policies \/ (set_policy(w) /\ ~Refuse(w))
  BY <1>4 DEF StampBaseline, approve_baseline, StoreBaseline, set_policy, Refuse, Quiet, db
<1>5. ASSUME NEW w \in Workers,
             add_project_member(w) \/ request_exception(w) \/ review_exception(w)
      PROVE  UNCHANGED policies \/ (set_policy(w) /\ ~Refuse(w))
  BY <1>5 DEF add_project_member, request_exception, review_exception, Refuse, Quiet, db
<1> QED
  BY <1>1, <1>2, <1>3, <1>4, <1>5 DEF Next, Handle

LEMMA AuditChange ==
  ASSUME [Next]_vars
  PROVE  UNCHANGED audit \/ \E w \in Workers : Audit(w) \/ AuditDenied(w)
<1>1. CASE UNCHANGED vars \/ Tick \/ \E a \in Accounts : revoke_service_account(a)
  BY <1>1 DEF vars, db, history, Tick, revoke_service_account
<1>2. ASSUME NEW w \in Workers, Requests(w) \/ Die(w) PROVE UNCHANGED audit \/ Audit(w) \/ AuditDenied(w)
  BY <1>2 DEF Requests, Receive, Die, db, history
<1>3. ASSUME NEW w \in Workers, require_role(w) \/ CheckProject(w) \/ AuditDenied(w) \/ Audit(w)
      PROVE  UNCHANGED audit \/ Audit(w) \/ AuditDenied(w)
  BY <1>3 DEF require_role, CheckProject, Refuse, Quiet, db
<1>4. ASSUME NEW w \in Workers, StampBaseline(w) \/ approve_baseline(w) \/ set_policy(w)
      PROVE  UNCHANGED audit \/ Audit(w) \/ AuditDenied(w)
  BY <1>4 DEF StampBaseline, approve_baseline, StoreBaseline, set_policy, Refuse, Quiet, db
<1>5. ASSUME NEW w \in Workers,
             add_project_member(w) \/ request_exception(w) \/ review_exception(w)
      PROVE  UNCHANGED audit \/ Audit(w) \/ AuditDenied(w)
  BY <1>5 DEF add_project_member, request_exception, review_exception, Refuse, Quiet, db
<1> QED
  BY <1>1, <1>2, <1>3, <1>4, <1>5 DEF Next, Handle

LEMMA MembersChange ==
  ASSUME [Next]_vars
  PROVE  UNCHANGED <<members, entitled>> \/ \E w \in Workers : add_project_member(w)
<1>1. CASE UNCHANGED vars \/ Tick \/ \E a \in Accounts : revoke_service_account(a)
  BY <1>1 DEF vars, db, history, Tick, revoke_service_account
<1>2. ASSUME NEW w \in Workers, Requests(w) \/ Die(w) PROVE UNCHANGED <<members, entitled>>
  BY <1>2 DEF Requests, Receive, Die, db, history
<1>3. ASSUME NEW w \in Workers, require_role(w) \/ CheckProject(w) \/ AuditDenied(w) \/ Audit(w)
      PROVE  UNCHANGED <<members, entitled>>
  BY <1>3 DEF require_role, CheckProject, AuditDenied, Audit, Audited, Refuse, Quiet, db
<1>4. ASSUME NEW w \in Workers, StampBaseline(w) \/ approve_baseline(w) \/ set_policy(w)
      PROVE  UNCHANGED <<members, entitled>>
  BY <1>4 DEF StampBaseline, approve_baseline, StoreBaseline, set_policy, Refuse, Quiet, db
<1>5. ASSUME NEW w \in Workers, request_exception(w) \/ review_exception(w)
      PROVE  UNCHANGED <<members, entitled>>
  BY <1>5 DEF request_exception, review_exception, Refuse, Quiet, db
<1> QED
  BY <1>1, <1>2, <1>3, <1>4, <1>5 DEF Next, Handle

LEMMA RevokedChange ==
  ASSUME [Next]_vars
  PROVE  UNCHANGED <<revoked, cutoff>> \/ \E a \in Accounts : revoke_service_account(a)
<1>1. CASE UNCHANGED vars \/ Tick
  BY <1>1 DEF vars, db, history, Tick
<1>2. ASSUME NEW w \in Workers, Requests(w) \/ Die(w) PROVE UNCHANGED <<revoked, cutoff>>
  BY <1>2 DEF Requests, Receive, Die, db, history
<1>3. ASSUME NEW w \in Workers, require_role(w) \/ CheckProject(w) \/ AuditDenied(w) \/ Audit(w)
      PROVE  UNCHANGED <<revoked, cutoff>>
  BY <1>3 DEF require_role, CheckProject, AuditDenied, Audit, Audited, Refuse, Quiet, db
<1>4. ASSUME NEW w \in Workers, StampBaseline(w) \/ approve_baseline(w) \/ set_policy(w)
      PROVE  UNCHANGED <<revoked, cutoff>>
  BY <1>4 DEF StampBaseline, approve_baseline, StoreBaseline, set_policy, Refuse, Quiet, db
<1>5. ASSUME NEW w \in Workers,
             add_project_member(w) \/ request_exception(w) \/ review_exception(w)
      PROVE  UNCHANGED <<revoked, cutoff>>
  BY <1>5 DEF add_project_member, request_exception, review_exception, Refuse, Quiet, db
<1> QED
  BY <1>1, <1>2, <1>3, <1>4, <1>5 DEF Next, Handle

LEMMA RequestsGrow ==
  ASSUME Well, [Next]_vars
  PROVE  requests' \in Nat /\ requests <= requests'
<1>1. requests \in Nat
  BY BoundAssumption DEF Well, TypeOK
<1>2. requests' = requests \/ requests' = requests + 1
  <2>1. CASE UNCHANGED vars \/ Tick \/ \E a \in Accounts : revoke_service_account(a)
    BY <2>1 DEF vars, db, history, Tick, revoke_service_account
  <2>2. ASSUME NEW w \in Workers, Requests(w) \/ Die(w) PROVE requests' = requests \/ requests' = requests + 1
    BY <2>2 DEF Requests, Receive, Die, db, history
  <2>3. ASSUME NEW w \in Workers, require_role(w) \/ CheckProject(w) \/ AuditDenied(w) \/ Audit(w)
        PROVE  requests' = requests \/ requests' = requests + 1
    BY <2>3 DEF require_role, CheckProject, AuditDenied, Audit, Audited, Refuse, Quiet, db
  <2>4. ASSUME NEW w \in Workers, StampBaseline(w) \/ approve_baseline(w) \/ set_policy(w)
        PROVE  requests' = requests \/ requests' = requests + 1
    BY <2>4 DEF StampBaseline, approve_baseline, StoreBaseline, set_policy, Refuse, Quiet, db
  <2>5. ASSUME NEW w \in Workers,
               add_project_member(w) \/ request_exception(w) \/ review_exception(w)
        PROVE  requests' = requests \/ requests' = requests + 1
    BY <2>5 DEF add_project_member, request_exception, review_exception, Refuse, Quiet, db
  <2> QED
    BY <2>1, <2>2, <2>3, <2>4, <2>5 DEF Next, Handle
<1> QED
  BY <1>1, <1>2

-----------------------------------------------------------------------------
(* Authority.  A request past require_role was sent before its account was *)
(* revoked; a request past may_administer_project is of somebody entitled. *)

Authentic(gone, cut, sent, by, req) ==
  by \in Accounts /\ req \in Nat /\ req <= sent /\ (by \in gone => req <= cut[by])

WritesAreAuthentic ==
  /\ \A b \in baselines : Authentic(revoked, cutoff, requests, b.by, b.req)
  /\ \A e \in audit : Authentic(revoked, cutoff, requests, e.actor, e.req)
  /\ \A i \in DOMAIN exceptions : \A a \in exceptions[i].reviewed_by :
       Authentic(revoked, cutoff, requests, a, exceptions[i].review)

JobsAreAuthentic ==
  \A w \in Workers : Live(w) =>
    /\ jobs[w].req <= requests
    /\ jobs[w].step # "authenticate" =>
         Authentic(revoked, cutoff, requests, jobs[w].by, jobs[w].req)

Authority == JobsAreAuthentic /\ WritesAreAuthentic

LEMMA AuthenticStays ==
  ASSUME Well, [Next]_vars, NEW by, NEW req, Authentic(revoked, cutoff, requests, by, req)
  PROVE  Authentic(revoked', cutoff', requests', by, req)
<1>1. req <= requests'
  BY RequestsGrow, BoundAssumption DEF Authentic, Well, TypeOK
<1>2. CASE UNCHANGED <<revoked, cutoff>>
  BY <1>1, <1>2 DEF Authentic
<1>3. ASSUME NEW a \in Accounts, revoke_service_account(a)
      PROVE  Authentic(revoked', cutoff', requests', by, req)
  BY <1>1, <1>3 DEF Authentic, revoke_service_account, Well, HistoryIsWell
<1> QED
  BY <1>2, <1>3, RevokedChange

LEMMA JobsAuthenticNext == ASSUME Well, Authority, [Next]_vars PROVE JobsAreAuthentic'
<1> SUFFICES ASSUME NEW v \in Workers, jobs'[v] # Idle
             PROVE  /\ jobs'[v].req <= requests'
                    /\ jobs'[v].step # "authenticate" =>
                         Authentic(revoked', cutoff', requests', jobs'[v].by, jobs'[v].req)
  BY DEF JobsAreAuthentic, Live
<1>1. requests \in Nat /\ requests' \in Nat /\ requests <= requests'
  BY RequestsGrow, BoundAssumption DEF Well, TypeOK
<1>2. CASE Received(v)
  BY <1>1, <1>2 DEF Received
<1>3. ASSUME Live(v), jobs'[v].req = jobs[v].req, jobs'[v].by = jobs[v].by,
             jobs[v].step = "authenticate" =>
               \/ jobs'[v].step = "authenticate"
               \/ Authentic(revoked, cutoff, requests, jobs[v].by, jobs[v].req)
      PROVE  /\ jobs'[v].req <= requests'
             /\ jobs'[v].step # "authenticate" =>
                  Authentic(revoked', cutoff', requests', jobs'[v].by, jobs'[v].req)
  <2>1. jobs[v].req \in Nat /\ jobs[v].req <= requests
    BY <1>3 DEF Authority, JobsAreAuthentic, Well, JobsAreWell, Live, Job
  <2>2. jobs'[v].step # "authenticate" =>
          Authentic(revoked, cutoff, requests, jobs[v].by, jobs[v].req)
    BY <1>3 DEF Authority, JobsAreAuthentic
  <2> QED
    BY <1>1, <1>3, <2>1, <2>2, AuthenticStays
<1>4. CASE jobs'[v] = jobs[v]
  BY <1>3, <1>4 DEF Live
<1>5. CASE Live(v) /\ Kept(v) /\ Advances(v)
  <2>1. jobs[v] \in Job
    BY <1>5 DEF Well, JobsAreWell, Live
  <2>2. ASSUME jobs[v].step = "authenticate"
        PROVE  Authentic(revoked, cutoff, requests, jobs[v].by, jobs[v].req)
    <3>1. require_role(v)
      BY <1>5, <2>2 DEF Advances, At, CheckProject, StampBaseline, approve_baseline, StoreBaseline,
         add_project_member, set_policy, request_exception, review_exception
    <3>2. ~Refuse(v)
      BY AnswerMoves DEF Refuse, Answer, Well
    <3>3. jobs[v].by \notin revoked
      BY <3>1, <3>2 DEF require_role, authenticate_service_token
    <3>4. jobs[v].req <= requests
      BY <1>5 DEF Authority, JobsAreAuthentic
    <3> QED
      BY <2>1, <3>3, <3>4 DEF Authentic, Job
  <2> QED
    BY <1>3, <1>5, <2>2 DEF Kept
<1> QED
  BY <1>2, <1>4, <1>5, JobsMove

LEMMA WritesAuthenticNext == ASSUME Well, Authority, [Next]_vars PROVE WritesAreAuthentic'
<1>1. ASSUME NEW w \in Workers, NEW step \in Steps \ {"authenticate"}, At(w, step)
      PROVE  Authentic(revoked, cutoff, requests, jobs[w].by, jobs[w].req)
  BY <1>1, AtIsLive DEF Authority, JobsAreAuthentic, Well, At
<1>2. ASSUME NEW b \in baselines' PROVE Authentic(revoked', cutoff', requests', b.by, b.req)
  <2>1. CASE b \in baselines
    BY <2>1, AuthenticStays DEF Authority, WritesAreAuthentic
  <2>2. CASE b \notin baselines
    <3>1. PICK w \in Workers : approve_baseline(w)
      BY <2>2, BaselinesChange
    <3>2. b.by = jobs[w].by /\ b.req = jobs[w].req /\ At(w, "baseline")
      BY <2>2, <3>1 DEF approve_baseline, StoreBaseline, NewBaseline
    <3> QED
      BY <1>1, <3>2, AuthenticStays DEF Steps, Ops
  <2> QED
    BY <2>1, <2>2
<1>3. ASSUME NEW e \in audit' PROVE Authentic(revoked', cutoff', requests', e.actor, e.req)
  <2>1. CASE e \in audit
    BY <2>1, AuthenticStays DEF Authority, WritesAreAuthentic
  <2>2. CASE e \notin audit
    <3>1. PICK w \in Workers : Audit(w) \/ AuditDenied(w)
      BY <2>2, AuditChange
    <3>2. e.actor = jobs[w].by /\ e.req = jobs[w].req /\ (At(w, "audit") \/ At(w, "audit_denied"))
      BY <2>2, <3>1 DEF Audit, AuditDenied, Audited
    <3> QED
      BY <1>1, <3>2, AuthenticStays DEF Steps
  <2> QED
    BY <2>1, <2>2
<1>4. ASSUME NEW i \in DOMAIN exceptions', NEW a \in exceptions'[i].reviewed_by
      PROVE  Authentic(revoked', cutoff', requests', a, exceptions'[i].review)
  <2>1. CASE i \in DOMAIN exceptions /\ exceptions'[i] = exceptions[i]
    BY <1>4, <2>1, AuthenticStays DEF Authority, WritesAreAuthentic
  <2>2. ASSUME NEW w \in Workers, request_exception(w),
               ~(i \in DOMAIN exceptions /\ exceptions'[i] = exceptions[i])
        PROVE  FALSE
    <3>1. exceptions \in Seq(Exc) /\ exceptions' \in Seq(Exc)
      BY <2>2, RequestExceptionIsWell DEF Well, TypeOK
    <3>2. i = Len(exceptions) + 1
      BY <2>2, <3>1, RequestExceptionIsWell
    <3> QED
      BY <1>4, <2>2, <3>2, RequestExceptionIsWell
  <2>3. ASSUME NEW w \in Workers, review_exception(w), i \in DOMAIN exceptions,
               exceptions'[i] # exceptions[i]
        PROVE  Authentic(revoked', cutoff', requests', a, exceptions'[i].review)
    <3>1. exceptions'[i].reviewed_by = {jobs[w].by} /\ exceptions'[i].review = jobs[w].req
      BY <2>3, ReviewIsWell
    <3>2. At(w, "review")
      BY <2>3 DEF review_exception
    <3> QED
      BY <1>1, <1>4, <3>1, <3>2, AuthenticStays DEF Steps, Ops
  <2> QED
    BY <2>1, <2>2, <2>3, ExceptionsChange, ReviewIsWell
<1> QED
  BY <1>2, <1>3, <1>4 DEF WritesAreAuthentic

(* Teams.                                                                  *)
Entitled(j, given) == AccountRole[j.by] = "admin" \/ j.open \/ <<j.target[1], j.by>> \in given

Teams ==
  /\ \A m \in members : m.role \in {"admin", "maintainer"} => <<m.project, m.email>> \in entitled
  /\ \A w \in Workers : Live(w) /\ jobs[w].op = "baseline" =>
       /\ jobs[w].open \/ Row(members, jobs[w].target[1]) # {}
       /\ jobs[w].step \in {"stamp", "baseline"} => Entitled(jobs[w], entitled)
  /\ TeamsAreSeparate

LEMMA MembersGrow ==
  ASSUME Teams, [Next]_vars
  PROVE  /\ entitled \subseteq entitled'
         /\ \A p : Row(members, p) # {} => Row(members', p) # {}
         /\ \A m \in members' :
              m.role \in {"admin", "maintainer"} => <<m.project, m.email>> \in entitled'
<1>1. CASE UNCHANGED <<members, entitled>>
  BY <1>1 DEF Teams
<1>2. ASSUME NEW w \in Workers, add_project_member(w)
      PROVE  /\ entitled \subseteq entitled'
             /\ \A p : Row(members, p) # {} => Row(members', p) # {}
             /\ \A m \in members' :
                  m.role \in {"admin", "maintainer"} => <<m.project, m.email>> \in entitled'
  <2> DEFINE m == [project |-> Project(w), email |-> jobs[w].value[1], role |-> jobs[w].value[2]]
  <2>1. members' = {n \in members : n.project # m.project \/ n.email # m.email} \cup {m}
    BY <1>2 DEF add_project_member
  <2>2. entitled' = IF m.role \in {"admin", "maintainer"}
                    THEN entitled \cup {<<m.project, m.email>>} ELSE entitled
    BY <1>2 DEF add_project_member
  <2> HIDE DEF m
  <2>3. \A p : Row(members, p) # {} => Row(members', p) # {}
    BY <2>1 DEF Row
  <2> QED
    BY <2>1, <2>2, <2>3 DEF Teams
<1> QED
  BY <1>1, <1>2, MembersChange

LEMMA TeamsNext == ASSUME Well, Teams, [Next]_vars PROVE Teams'
<1>1. ASSUME NEW v \in Workers, jobs'[v] # Idle, jobs'[v].op = "baseline"
      PROVE  /\ jobs'[v].open \/ Row(members', jobs'[v].target[1]) # {}
             /\ jobs'[v].step \in {"stamp", "baseline"} => Entitled(jobs'[v], entitled')
  <2>1. CASE Received(v)
    BY <1>1, <2>1 DEF Received, db
  <2>2. CASE jobs'[v] = jobs[v]
    BY <1>1, <2>2, MembersGrow DEF Teams, Live, Entitled
  <2>3. CASE Live(v) /\ Kept(v) /\ Advances(v)
    <3>1. jobs[v].op = "baseline" /\ (jobs[v].open \/ Row(members, jobs[v].target[1]) # {})
      BY <1>1, <2>3 DEF Kept, Teams
    <3>2. ASSUME jobs'[v].step \in {"stamp", "baseline"} PROVE Entitled(jobs[v], entitled)
      <4>1. CASE jobs[v].step \in {"stamp", "baseline"}
        BY <2>3, <3>1, <4>1 DEF Teams
      <4>2. CASE CheckProject(v)
        <5>1. may_administer_project(v)
          <6>1. jobs'[v].step = IF may_administer_project(v) THEN "stamp" ELSE "audit_denied"
            BY <2>3, <4>2, GotoMoves DEF CheckProject, Well, Steps
          <6> QED
            BY <3>2, <6>1
        <5> QED
          BY <3>1, <5>1 DEF may_administer_project, Entitled, Teams, Project, Row
      <4>3. CASE require_role(v)
        <5>1. jobs'[v].step = "may_administer"
          <6>1. ~Refuse(v)
            BY <1>1, AnswerMoves DEF Refuse, Answer, Well
          <6>2. Goto(v, "may_administer")
            BY <3>1, <4>3, <6>1 DEF require_role
          <6> QED
            BY <2>3, <6>2, GotoMoves DEF Well, Steps
        <5> QED
          BY <3>2, <5>1
      <4>4. CASE add_project_member(v) \/ set_policy(v) \/ request_exception(v) \/ review_exception(v)
        <5>1. jobs[v].step \in {"member", "policy", "exception", "review"}
          BY <4>4 DEF At, add_project_member, set_policy, request_exception, review_exception
        <5> QED
          BY <2>3, <3>1, <5>1 DEF Well, JobsAreWell, Formed, Ops
      <4>5. CASE StampBaseline(v) \/ approve_baseline(v)
        BY <4>1, <4>5 DEF StampBaseline, approve_baseline, StoreBaseline, At
      <4> QED
        BY <2>3, <4>2, <4>3, <4>4, <4>5 DEF Advances
    <3> QED
      BY <2>3, <3>1, <3>2, MembersGrow DEF Kept, Entitled
  <2> QED
    BY <1>1, <2>1, <2>2, <2>3, JobsMove
<1>2. ASSUME NEW b \in baselines'
      PROVE  AccountRole[b.by] = "admin" \/ b.open \/ <<b.project, b.by>> \in entitled'
  <2>1. CASE b \in baselines
    BY <2>1, MembersGrow DEF Teams, TeamsAreSeparate
  <2>2. CASE b \notin baselines
    <3>1. PICK w \in Workers : approve_baseline(w)
      BY <2>2, BaselinesChange
    <3>2. /\ b.by = jobs[w].by /\ b.project = jobs[w].target[1] /\ b.open = jobs[w].open
          /\ At(w, "baseline")
      BY <2>2, <3>1 DEF approve_baseline, StoreBaseline, NewBaseline, Project
    <3>3. Live(w) /\ jobs[w].op = "baseline"
      BY <3>2, AtIsLive DEF Well, JobsAreWell, Formed, Steps, Ops, At
    <3>4. Entitled(jobs[w], entitled)
      BY <3>2, <3>3 DEF Teams, At
    <3> QED
      BY <3>2, <3>4, MembersGrow DEF Entitled
  <2> QED
    BY <2>1, <2>2
<1> QED
  BY <1>1, <1>2, MembersGrow DEF Teams, TeamsAreSeparate, Live

(* Revoking an account ends it and teams stay separate, in every           *)
(* interleaving of requests with revocations and changes of membership     *)
(* (server/auth.py require_role, api.py may_administer_project).           *)
THEOREM AuthorityStands == Spec => []AuthorityHolds
<1>1. Init => Authority /\ Teams
  BY DEF Init, Authority, JobsAreAuthentic, WritesAreAuthentic, Teams, TeamsAreSeparate, Live
<1>2. Well /\ Authority /\ Teams /\ [Next]_vars => Authority' /\ Teams'
  BY JobsAuthenticNext, WritesAuthenticNext, TeamsNext DEF Authority
<1>3. Authority /\ Teams => AuthorityHolds
  BY DEF Authority, WritesAreAuthentic, Authentic, Teams, AuthorityHolds, RevocationHolds, Writes
<1> QED
  BY <1>1, <1>2, <1>3, InitWell, NextWell, PTL DEF Spec

-----------------------------------------------------------------------------
(* Order.  A request does not know of answers that were sent after it, so  *)
(* its row is younger than every row it knows the answer for.  A row that  *)
(* was replaced is succeeded by a younger one or overtaken by an older one.*)

Younger(rows, at, after) == \A b \in rows : b.req \in after => b.at < at

Apart(c, a) == c.req \notin a.after /\ a.req \notin c.after

Succeeded(rows, a) ==
  \E c \in rows : c.project = a.project /\ c.id = a.id /\ (c.at < a.at => Apart(c, a))

Order ==
  /\ \A r \in answered : r <= requests
  /\ \A w \in Workers : Live(w) =>
       /\ jobs[w].req <= requests /\ jobs[w].req \notin answered
       /\ jobs[w].after \subseteq answered
       /\ jobs[w].step = "baseline" =>
            jobs[w].at <= now /\ Younger(approved, jobs[w].at, jobs[w].after)
  /\ \A v, w \in Workers : v # w /\ Live(v) /\ Live(w) => jobs[v].req # jobs[w].req
  /\ baselines \subseteq approved
  /\ \A a \in approved : /\ a.at <= now /\ a.after \subseteq answered
                         /\ Younger(approved, a.at, a.after)
                         /\ Succeeded(baselines, a)

LEMMA NowGrows ==
  ASSUME Well, [Next]_vars
  PROVE  now' \in Nat /\ now <= now'
<1>1. now \in Nat
  BY DEF Well, TypeOK
<1>2. now' = now \/ now' = now + 1
  <2>1. CASE UNCHANGED vars \/ Tick \/ \E a \in Accounts : revoke_service_account(a)
    BY <2>1 DEF vars, db, history, Tick, revoke_service_account
  <2>2. ASSUME NEW w \in Workers, Requests(w) \/ Die(w) PROVE now' = now \/ now' = now + 1
    BY <2>2 DEF Requests, Receive, Die, db, history
  <2>3. ASSUME NEW w \in Workers, require_role(w) \/ CheckProject(w) \/ AuditDenied(w) \/ Audit(w)
        PROVE  now' = now \/ now' = now + 1
    BY <2>3 DEF require_role, CheckProject, AuditDenied, Audit, Audited, Refuse, Quiet, db
  <2>4. ASSUME NEW w \in Workers, StampBaseline(w) \/ approve_baseline(w) \/ set_policy(w)
        PROVE  now' = now \/ now' = now + 1
    BY <2>4 DEF StampBaseline, approve_baseline, StoreBaseline, set_policy, Refuse, Quiet, db
  <2>5. ASSUME NEW w \in Workers,
               add_project_member(w) \/ request_exception(w) \/ review_exception(w)
        PROVE  now' = now \/ now' = now + 1
    BY <2>5 DEF add_project_member, request_exception, review_exception, Refuse, Quiet, db
  <2> QED
    BY <2>1, <2>2, <2>3, <2>4, <2>5 DEF Next, Handle
<1> QED
  BY <1>1, <1>2

LEMMA AnsweredChange ==
  ASSUME Well, [Next]_vars
  PROVE  \/ UNCHANGED answered
         \/ \E w \in Workers : Live(w) /\ Finishes(w) /\ answered' = answered \cup {jobs[w].req}
<1>1. CASE UNCHANGED vars \/ Tick \/ \E a \in Accounts : revoke_service_account(a)
  BY <1>1 DEF vars, history, Tick, revoke_service_account
<1>2. ASSUME NEW w \in Workers, Requests(w) \/ Die(w) PROVE UNCHANGED answered
  BY <1>2 DEF Requests, Receive, Die, history
<1>3. ASSUME NEW w \in Workers, Handle(w)
      PROVE  UNCHANGED answered
               \/ (Live(w) /\ Finishes(w) /\ answered' = answered \cup {jobs[w].req})
  <2>1. Live(w)
    BY <1>3, HandleMoves
  <2>2. Answer(w) \/ UNCHANGED answered
    BY <1>3 DEF Handle, require_role, CheckProject, AuditDenied, Audited, Audit, StampBaseline,
       approve_baseline, StoreBaseline, Refuse, add_project_member, set_policy, request_exception,
       review_exception
  <2> QED
    BY <2>1, <2>2 DEF Answer, Finishes
<1> QED
  BY <1>1, <1>2, <1>3 DEF Next

(* Only one worker moves at a time.                                        *)
LEMMA OneMoves ==
  ASSUME Well, [Next]_vars, NEW v \in Workers, NEW w \in Workers, v # w
  PROVE  jobs'[v] = jobs[v] \/ jobs'[w] = jobs[w]
<1>1. CASE UNCHANGED vars \/ Tick \/ \E a \in Accounts : revoke_service_account(a)
  BY <1>1 DEF vars, Tick, revoke_service_account
<1>2. ASSUME NEW u \in Workers, Requests(u) \/ Handle(u) \/ Die(u)
      PROVE  \A x \in Workers \ {u} : jobs'[x] = jobs[x]
  <2>1. Finishes(u) => \A x \in Workers \ {u} : jobs'[x] = jobs[x]
    BY AnswerMoves DEF Finishes, Well
  <2> QED
    BY <1>2, <2>1, ReceivedBy, HandleMoves DEF Die, Finishes
<1> QED
  BY <1>1, <1>2 DEF Next

(* A request comes to write its row by stamping it.                        *)
LEMMA StampedFirst ==
  ASSUME Well, NEW v \in Workers, Live(v), Advances(v), jobs'[v] # Idle,
         jobs'[v].step = "baseline"
  PROVE  StampBaseline(v)
<1>1. \A step \in Steps : Goto(v, step) => step = "baseline"
  BY GotoMoves DEF Well
<1>2. ~Refuse(v)
  BY AnswerMoves DEF Refuse, Answer, Well
<1>3. ~require_role(v)
  <2> SUFFICES ASSUME require_role(v) PROVE FALSE
    OBVIOUS
  <2> DEFINE step == IF jobs[v].op = "baseline" THEN "may_administer" ELSE jobs[v].op
  <2>1. Goto(v, step)
    BY <1>2 DEF require_role
  <2>2. step \in Steps /\ step # "baseline"
    BY DEF Well, JobsAreWell, Live, Job, Steps
  <2> QED
    BY <1>1, <2>1, <2>2
<1>4. "audit" \in Steps /\ "stamp" \in Steps /\ "audit_denied" \in Steps
  BY DEF Steps
<1> QED
  BY <1>1, <1>2, <1>3, <1>4 DEF Advances, CheckProject, approve_baseline, StoreBaseline, add_project_member,
     set_policy, request_exception, review_exception

LEMMA OrderNext == ASSUME Well, Order, [Next]_vars PROVE Order'
<1>1. /\ requests \in Nat /\ requests' \in Nat /\ requests <= requests'
      /\ now \in Nat /\ now' \in Nat /\ now <= now'
      /\ approved \subseteq Baseline /\ baselines \subseteq approved
  BY RequestsGrow, NowGrows, BoundAssumption DEF Well, TypeOK, Order
<1>2. \A w \in Workers : Live(w) => jobs[w] \in Job
  BY DEF Well, JobsAreWell, Live
<1>3. answered \subseteq answered'
  BY AnsweredChange
<1>4. \A r \in answered' : r <= requests'
  <2> SUFFICES ASSUME NEW r \in answered' PROVE r <= requests'
    OBVIOUS
  <2>1. answered \subseteq Nat /\ \A q \in answered : q <= requests
    BY DEF Order, Well, HistoryIsWell
  <2>2. \A w \in Workers : Live(w) => jobs[w].req \in Nat /\ jobs[w].req <= requests
    BY <1>2 DEF Order, Job
  <2>3. r \in answered \/ \E w \in Workers : Live(w) /\ r = jobs[w].req
    BY AnsweredChange
  <2>4. r \in Nat /\ r <= requests
    BY <2>1, <2>2, <2>3
  <2> QED
    BY <1>1, <2>4
<1>5. ASSUME NEW w \in Workers, approve_baseline(w)
      PROVE  /\ Live(w) /\ jobs[w] \in Job /\ jobs[w].step = "baseline"
             /\ jobs'[w].step = "audit" /\ UNCHANGED <<answered, now>>
             /\ approved' = approved \cup {NewBaseline(w, jobs[w].at)}
             /\ baselines' = (baselines \ SameBaseline(w)) \cup {NewBaseline(w, jobs[w].at)}
  <2>1. Live(w) /\ jobs[w] \in Job /\ jobs[w].step = "baseline"
    BY <1>5, AtIsLive DEF Well, approve_baseline, StoreBaseline, At, Steps, Ops
  <2>2. jobs'[w].step = "audit"
    BY <1>5, <2>1, GotoMoves DEF approve_baseline, StoreBaseline, Well, Steps
  <2> QED
    BY <1>5, <2>1, <2>2 DEF approve_baseline, StoreBaseline
(* Rows that are new are of a request nobody has been answered for.        *)
<1>6. ASSUME NEW b \in approved', b \notin approved
      PROVE  /\ b.req \notin answered /\ b.at <= now /\ b.after \subseteq answered
             /\ Younger(approved, b.at, b.after) /\ UNCHANGED answered
             /\ b.at \in Nat
  <2>1. PICK w \in Workers : approve_baseline(w)
    BY <1>6, BaselinesChange
  <2>2. b = NewBaseline(w, jobs[w].at)
    BY <1>5, <1>6, <2>1
  <2>3. b.req = jobs[w].req /\ b.at = jobs[w].at /\ b.after = jobs[w].after
    BY <2>2 DEF NewBaseline
  <2> QED
    BY <1>5, <2>1, <2>3 DEF Order, Job
<1>7. ASSUME NEW v \in Workers, jobs'[v] # Idle
      PROVE  /\ jobs'[v].req <= requests' /\ jobs'[v].req \notin answered'
             /\ jobs'[v].after \subseteq answered'
  <2>1. CASE Received(v)
    <3>1. answered' = answered /\ jobs'[v].req = requests + 1 /\ requests' = requests + 1
      BY <2>1 DEF Received, history
    <3>2. requests + 1 \notin answered
      BY <1>1 DEF Order
    <3> QED
      BY <1>1, <2>1, <3>1, <3>2 DEF Received
  <2>2. ASSUME Live(v), jobs'[v].req = jobs[v].req, jobs'[v].after = jobs[v].after
        PROVE  /\ jobs'[v].req <= requests' /\ jobs'[v].req \notin answered'
               /\ jobs'[v].after \subseteq answered'
    <3>1. jobs[v].req \in Nat /\ jobs[v].req <= requests /\ jobs[v].req \notin answered
          /\ jobs[v].after \subseteq answered
      BY <1>2, <2>2 DEF Order, Job
    <3>2. jobs[v].req \notin answered'
      <4> SUFFICES ASSUME NEW w \in Workers, Live(w), Finishes(w),
                          answered' = answered \cup {jobs[w].req}
                   PROVE  jobs[v].req \notin answered'
        BY <3>1, AnsweredChange
      <4>1. v # w
        BY <1>7, AnswerMoves DEF Finishes, Well
      <4> QED
        BY <2>2, <3>1, <4>1 DEF Order
    <3> QED
      BY <1>1, <1>3, <2>2, <3>1, <3>2
  <2> QED
    BY <1>7, <2>1, <2>2, JobsMove DEF Kept, Live
<1>8. ASSUME NEW v \in Workers, jobs'[v] # Idle, jobs'[v].step = "baseline"
      PROVE  jobs'[v].at <= now' /\ Younger(approved', jobs'[v].at, jobs'[v].after)
  <2>1. ~Received(v)
    BY <1>8 DEF Received
  <2>2. CASE jobs'[v] = jobs[v]
    <3>1. Live(v) /\ jobs[v].step = "baseline" /\ jobs[v].at \in Nat
      BY <1>2, <1>8, <2>2 DEF Live, Job
    <3>2. /\ jobs[v].at <= now /\ Younger(approved, jobs[v].at, jobs[v].after)
          /\ jobs[v].after \subseteq answered
      BY <3>1 DEF Order
    <3> QED
      BY <1>1, <1>6, <2>2, <3>1, <3>2 DEF Younger
  <2>3. CASE Live(v) /\ Kept(v) /\ Advances(v)
    <3>1. StampBaseline(v)
      BY <1>8, <2>3, StampedFirst
    <3>2. jobs'[v].at = now + 1 /\ now' = now + 1 /\ approved' = approved
      BY <1>1, <2>3, <3>1, StampMoves DEF StampBaseline, Well, db
    <3>3. \A b \in approved : b.at < now + 1
      BY <1>1 DEF Order, Baseline
    <3> QED
      BY <1>1, <3>2, <3>3 DEF Younger
  <2> QED
    BY <1>8, <2>1, <2>2, <2>3, JobsMove
<1>9. ASSUME NEW v \in Workers, NEW w \in Workers, v # w, jobs'[v] # Idle, jobs'[w] # Idle
      PROVE  jobs'[v].req # jobs'[w].req
  <2>1. ASSUME NEW x \in Workers, NEW y \in Workers, x # y, Received(x), jobs'[y] # Idle,
               jobs'[x] # Idle
        PROVE  jobs'[x].req # jobs'[y].req
    <3>1. jobs'[y] = jobs[y]
      BY <2>1, OneMoves DEF Received
    <3>2. jobs'[y].req \in Nat /\ jobs'[y].req <= requests
      BY <1>2, <2>1, <3>1 DEF Order, Live, Job
    <3> QED
      BY <1>1, <2>1, <3>2 DEF Received
  <2>2. CASE ~Received(v) /\ ~Received(w)
    <3>1. Live(v) /\ Live(w) /\ jobs'[v].req = jobs[v].req /\ jobs'[w].req = jobs[w].req
      BY <1>9, <2>2, JobsMove DEF Kept, Live
    <3> QED
      BY <1>9, <3>1 DEF Order
  <2> QED
    BY <1>9, <2>1, <2>2
<1>10. ASSUME NEW b \in approved'
       PROVE  /\ b.at <= now' /\ b.after \subseteq answered'
              /\ Younger(approved', b.at, b.after)
  <2>1. /\ b.at \in Nat /\ b.at <= now /\ b.after \subseteq answered
        /\ Younger(approved, b.at, b.after)
    BY <1>1, <1>6 DEF Order, Baseline
  <2> QED
    BY <1>1, <1>3, <1>6, <2>1 DEF Younger
<1>11. baselines' \subseteq approved'
  BY <1>1, <1>5, BaselinesChange
(* What replaces the row that succeeds another succeeds it in its turn: it *)
(* is younger, or of a request that knew nothing of the other's answer and *)
(* had not been answered when the other was asked for.                     *)
<1>12. ASSUME NEW a \in approved' PROVE Succeeded(baselines', a)
  <2>1. CASE UNCHANGED <<baselines, approved>>
    BY <1>12, <2>1 DEF Order
  <2>2. ASSUME NEW w \in Workers, approve_baseline(w) PROVE Succeeded(baselines', a)
    <3> DEFINE n == NewBaseline(w, jobs[w].at)
    <3>1. /\ n \in baselines' /\ n.project = Project(w) /\ n.id = Value(w) /\ n.at = jobs[w].at
          /\ n.req = jobs[w].req /\ n.after = jobs[w].after
      BY <1>5, <2>2 DEF NewBaseline
    <3>2. CASE a = n
      <4>1. ~(n.at < n.at)
        BY <1>5, <2>2, <3>1 DEF Job
      <4> QED
        BY <3>1, <3>2, <4>1 DEF Succeeded
    <3>3. CASE a \in approved
      <4>1. PICK c \in baselines : /\ c.project = a.project /\ c.id = a.id
                                   /\ c.at < a.at => Apart(c, a)
        BY <3>3 DEF Order, Succeeded
      <4>2. CASE c \in baselines'
        BY <4>1, <4>2 DEF Succeeded
      <4>3. CASE c \notin baselines'
        <5>1. c \in SameBaseline(w)
          BY <1>5, <2>2, <4>3
        <5>2. n.project = a.project /\ n.id = a.id
          BY <3>1, <4>1, <5>1 DEF SameBaseline, Row
        <5>3. a.after \subseteq answered /\ jobs[w].req \notin answered
              /\ Younger(approved, jobs[w].at, jobs[w].after)
          BY <1>5, <2>2, <3>3 DEF Order
        <5>4. a.at \in Nat /\ jobs[w].at \in Nat
          BY <1>1, <1>5, <2>2, <3>3 DEF Baseline, Job
        <5>5. n.at < a.at => Apart(n, a)
          BY <3>1, <3>3, <5>3, <5>4 DEF Apart, Younger
        <5> QED
          BY <3>1, <5>2, <5>5 DEF Succeeded
      <4> QED
        BY <4>2, <4>3
    <3> QED
      BY <1>5, <1>12, <2>2, <3>2, <3>3
  <2> QED
    BY <2>1, <2>2, BaselinesChange
<1> QED
  BY <1>4, <1>7, <1>8, <1>9, <1>10, <1>11, <1>12 DEF Order, Live

(* Of two approvals one of which was answered before the other was asked   *)
(* for, latest_baseline returns the earlier only where the row of the      *)
(* later was replaced by that of a request which overlapped it and had     *)
(* stamped its row before (server/db.py, approve_baseline and              *)
(* latest_baseline).                                                       *)
THEOREM LaterApprovalsStand == Spec => []LatestRespectsRealTime
<1>1. Init => Order
  BY DEF Init, Order, Live
<1>2. Well /\ Order /\ [Next]_vars => Order'
  BY OrderNext
<1>3. Well /\ Order => LatestRespectsRealTime
  <2> SUFFICES ASSUME Well, Order, NEW b \in baselines, NEW a \in approved,
                      b.project = a.project, b.req \in a.after, IsLatest(b)
               PROVE  Overtaken(a)
    BY DEF LatestRespectsRealTime
  <2>1. b.at < a.at /\ b.at \in Nat /\ a.at \in Nat
    BY DEF Order, Younger, Well, TypeOK, Baseline
  <2>2. PICK c \in baselines : /\ c.project = a.project /\ c.id = a.id
                               /\ c.at < a.at => Apart(c, a)
    BY DEF Order, Succeeded
  <2>3. c.at <= b.at /\ c.at \in Nat
    BY <2>2 DEF IsLatest, Row, Well, TypeOK, Baseline
  <2>4. Apart(c, a) /\ c.at < a.at
    BY <2>1, <2>2, <2>3
  <2> QED
    BY <2>2, <2>4 DEF Overtaken, Apart, Row
<1> QED
  BY <1>1, <1>2, <1>3, InitWell, NextWell, PTL DEF Spec

-----------------------------------------------------------------------------
(* The trail.  A handler about to record an effect still finds the effect  *)
(* as it left it.                                                          *)

Stands(excs, target, value, by) ==
  /\ target[1] \in DOMAIN excs /\ value[1] \in Verdicts
  /\ excs[target[1]].status = value[1] /\ excs[target[1]].reviewed_by = {by}

Stored(pols, org, req) == \E p \in pols : p.org = org /\ p.req = req

Trail ==
  /\ TrailIsComplete
  /\ \A e \in audit : /\ e.action = "review" => Stands(exceptions, e.target, e.value, e.actor)
                      /\ e.action = "policy" => Stored(policies, e.org, e.req)
  /\ \A w \in Workers : At(w, "audit") =>
       /\ jobs[w].op = "review" => Stands(exceptions, jobs[w].target, jobs[w].value, jobs[w].by)
       /\ jobs[w].op = "policy" => Stored(policies, AccountOrg[jobs[w].by], jobs[w].req)

(* A review is final.                                                      *)
LEMMA StandsStays ==
  ASSUME Well, [Next]_vars, NEW target, NEW value, NEW by, Stands(exceptions, target, value, by)
  PROVE  Stands(exceptions', target, value, by)
<1> DEFINE i == target[1]
<1>1. i \in DOMAIN exceptions /\ exceptions[i].status # "pending"
  BY DEF Stands, Verdicts
<1>2. i \in DOMAIN exceptions' /\ exceptions'[i] = exceptions[i]
  BY <1>1, ExceptionsChange, RequestExceptionIsWell, ReviewIsWell
<1> QED
  BY <1>2 DEF Stands

(* The event an audit step writes.                                         *)
LEMMA EventOf ==
  ASSUME Well, NEW w \in Workers, Audit(w) \/ AuditDenied(w)
  PROVE  \E e : /\ audit' = audit \cup {e}
                /\ e.org = AccountOrg[jobs[w].by] /\ e.actor = jobs[w].by
                /\ e.target = jobs[w].target /\ e.value = jobs[w].value /\ e.req = jobs[w].req
                /\ Audit(w) => At(w, "audit") /\ e.action = jobs[w].op
                /\ Audit(w) \/ e.action = "denied"
<1> DEFINE event(action) ==
             [org |-> AccountOrg[jobs[w].by], actor |-> jobs[w].by, action |-> action,
              target |-> jobs[w].target, value |-> jobs[w].value, req |-> jobs[w].req]
<1>1. CASE Audit(w)
  <2>1. audit' = audit \cup {event(jobs[w].op)} /\ At(w, "audit")
    BY <1>1 DEF Audit, Audited
  <2> QED
    BY <1>1, <2>1
<1>2. CASE AuditDenied(w) /\ ~Audit(w)
  <2>1. audit' = audit \cup {event("denied")}
    BY <1>2 DEF AuditDenied, Audited
  <2>2. ~Audit(w)
    BY <1>2
  <2> HIDE DEF event
  <2>3. LET e == event("denied")
        IN  /\ e.org = AccountOrg[jobs[w].by] /\ e.actor = jobs[w].by /\ e.action = "denied"
            /\ e.target = jobs[w].target /\ e.value = jobs[w].value /\ e.req = jobs[w].req
    BY DEF event
  <2> QED
    BY <2>1, <2>2, <2>3
<1> QED
  BY <1>1, <1>2

(* A worker about to record does nothing else, unless it dies.             *)
LEMMA AuditIsNext ==
  ASSUME Well, [Next]_vars, NEW w \in Workers, At(w, "audit")
  PROVE  jobs'[w] = jobs[w] \/ Audit(w) \/ Die(w)
<1>1. jobs[w].step = "audit" /\ jobs[w] # Idle
  BY AtIsLive DEF At, Well, Live, Steps
<1>2. CASE UNCHANGED vars \/ Tick \/ \E a \in Accounts : revoke_service_account(a)
  BY <1>2 DEF vars, Tick, revoke_service_account
<1>3. ASSUME NEW u \in Workers, Requests(u) \/ Handle(u) \/ Die(u)
      PROVE  jobs'[w] = jobs[w] \/ Audit(w) \/ Die(w)
  <2>1. CASE u # w
    <3>1. Finishes(u) => jobs'[w] = jobs[w]
      BY <2>1, AnswerMoves DEF Finishes, Well
    <3> QED
      BY <1>3, <2>1, <3>1, ReceivedBy, HandleMoves DEF Die, Finishes
  <2>2. CASE u = w
    <3>1. ~Requests(w)
      BY <1>1, ReceivedBy DEF Received
    <3> QED
      BY <1>1, <1>3, <2>2, <3>1 DEF Handle, At, require_role, CheckProject, AuditDenied,
         StampBaseline, approve_baseline, StoreBaseline, add_project_member, set_policy, request_exception,
         review_exception
  <2> QED
    BY <2>1, <2>2
<1> QED
  BY <1>2, <1>3 DEF Next

LEMMA RecordedStays ==
  ASSUME Well, [Next]_vars, NEW req, Recorded(req)
  PROVE  \/ \E e \in audit' : e.req = req /\ e.action # "denied"
         \/ \E w \in Workers : jobs'[w].step = "audit" /\ jobs'[w].req = req
         \/ req \in lost'
<1>1. audit \subseteq audit'
  BY AuditChange, EventOf
<1>2. lost \subseteq lost'
  <2>1. CASE UNCHANGED vars \/ Tick \/ \E a \in Accounts : revoke_service_account(a)
    BY <2>1 DEF vars, db, history, Tick, revoke_service_account
  <2>2. ASSUME NEW w \in Workers, Requests(w) \/ Die(w) PROVE lost \subseteq lost'
    BY <2>2 DEF Requests, Receive, Die, db, history
  <2>3. ASSUME NEW w \in Workers, require_role(w) \/ CheckProject(w) \/ AuditDenied(w) \/ Audit(w)
        PROVE  lost \subseteq lost'
    BY <2>3 DEF require_role, CheckProject, AuditDenied, Audit, Audited, Refuse, Quiet, db
  <2>4. ASSUME NEW w \in Workers, StampBaseline(w) \/ approve_baseline(w) \/ set_policy(w)
        PROVE  lost \subseteq lost'
    BY <2>4 DEF StampBaseline, approve_baseline, StoreBaseline, set_policy, Refuse, Quiet, db
  <2>5. ASSUME NEW w \in Workers,
               add_project_member(w) \/ request_exception(w) \/ review_exception(w)
        PROVE  lost \subseteq lost'
    BY <2>5 DEF add_project_member, request_exception, review_exception, Refuse, Quiet, db
  <2> QED
    BY <2>1, <2>2, <2>3, <2>4, <2>5 DEF Next, Handle
<1>3. ASSUME NEW w \in Workers, At(w, "audit"), jobs[w].req = req
      PROVE  \/ \E e \in audit' : e.req = req /\ e.action # "denied"
             \/ jobs'[w].step = "audit" /\ jobs'[w].req = req
             \/ req \in lost'
  <2>1. CASE jobs'[w] = jobs[w]
    BY <1>3, <2>1 DEF At
  <2>2. CASE Audit(w)
    <3>1. jobs[w].op # "denied"
      BY <1>3, AtIsLive DEF Well, Steps, Job, Ops
    <3> QED
      BY <1>3, <2>2, <3>1, EventOf
  <2>3. CASE Die(w)
    BY <1>3, <2>3 DEF Die
  <2> QED
    BY <1>3, <2>1, <2>2, <2>3, AuditIsNext
<1> QED
  BY <1>1, <1>2, <1>3 DEF Recorded

RecordedNext(req) ==
  \/ \E e \in audit' : e.req = req /\ e.action # "denied"
  \/ \E w \in Workers : jobs'[w].step = "audit" /\ jobs'[w].req = req
  \/ req \in lost'

(* What has just been written is about to be recorded.                     *)
LEMMA RowIsRecorded ==
  ASSUME Well, NEW w \in Workers, Live(w), Goto(w, "audit")
  PROVE  RecordedNext(jobs[w].req)
  BY GotoMoves DEF RecordedNext, Well, Steps

LEMMA CompleteNext == ASSUME Well, Trail, [Next]_vars PROVE TrailIsComplete'
<1>1. \A req : Recorded(req) => RecordedNext(req)
  BY RecordedStays DEF RecordedNext
<1>2. ASSUME NEW b \in baselines' PROVE RecordedNext(b.req)
  <2>1. CASE b \in baselines
    BY <1>1, <2>1 DEF Trail, TrailIsComplete
  <2>2. CASE b \notin baselines
    <3>1. PICK w \in Workers : approve_baseline(w)
      BY <2>2, BaselinesChange
    <3>2. b.req = jobs[w].req /\ Goto(w, "audit")
      BY <2>2, <3>1 DEF approve_baseline, StoreBaseline, NewBaseline
    <3>3. Live(w)
      BY <3>1, AtIsLive DEF approve_baseline, StoreBaseline, Well, Steps, Ops
    <3> QED
      BY <3>2, <3>3, RowIsRecorded
  <2> QED
    BY <2>1, <2>2
<1>3. ASSUME NEW p \in policies' PROVE RecordedNext(p.req)
  <2>1. CASE p \in policies
    BY <1>1, <2>1 DEF Trail, TrailIsComplete
  <2>2. CASE p \notin policies
    <3>1. PICK w \in Workers : set_policy(w) /\ ~Refuse(w)
      BY <2>2, PoliciesWritten
    <3>2. p.req = jobs[w].req /\ Goto(w, "audit")
      BY <2>2, <3>1 DEF set_policy
    <3>3. Live(w)
      BY <3>1, AtIsLive DEF set_policy, Well, Steps, Ops
    <3> QED
      BY <3>2, <3>3, RowIsRecorded
  <2> QED
    BY <2>1, <2>2
<1>4. ASSUME NEW i \in DOMAIN exceptions'
      PROVE  /\ RecordedNext(exceptions'[i].req)
             /\ exceptions'[i].status # "pending" => RecordedNext(exceptions'[i].review)
  <2>1. CASE i \in DOMAIN exceptions /\ exceptions'[i] = exceptions[i]
    BY <1>1, <2>1 DEF Trail, TrailIsComplete
  <2>2. ASSUME NEW w \in Workers, request_exception(w),
               ~(i \in DOMAIN exceptions /\ exceptions'[i] = exceptions[i])
        PROVE  exceptions'[i].status = "pending" /\ RecordedNext(exceptions'[i].req)
    <3>1. exceptions \in Seq(Exc) /\ exceptions' \in Seq(Exc)
      BY <2>2, RequestExceptionIsWell DEF Well, TypeOK
    <3>2. i = Len(exceptions) + 1
      BY <2>2, <3>1, RequestExceptionIsWell
    <3>3. exceptions'[i].status = "pending" /\ exceptions'[i].req = jobs[w].req
      BY <2>2, <3>2, RequestExceptionIsWell
    <3>4. Live(w) /\ Goto(w, "audit")
      BY <2>2, AtIsLive DEF request_exception, Well, Steps, Ops
    <3> QED
      BY <3>3, <3>4, RowIsRecorded
  <2>3. ASSUME NEW w \in Workers, review_exception(w), i \in DOMAIN exceptions,
               exceptions'[i] # exceptions[i]
        PROVE  /\ RecordedNext(exceptions'[i].req) /\ RecordedNext(exceptions'[i].review)
    <3>1. /\ i = jobs[w].target[1] /\ exceptions[i].status = "pending"
          /\ exceptions'[i].review = jobs[w].req /\ exceptions'[i].req = exceptions[i].req
      BY <2>3, ReviewIsWell
    <3>2. Live(w) /\ Goto(w, "audit")
      BY <2>3, <3>1, AtIsLive DEF review_exception, Well, Steps, Ops
    <3> QED
      BY <1>1, <2>3, <3>1, <3>2, RowIsRecorded DEF Trail, TrailIsComplete
  <2> QED
    BY <1>4, <2>1, <2>2, <2>3, ExceptionsChange, ReviewIsWell
<1> QED
  BY <1>2, <1>3, <1>4 DEF TrailIsComplete, Recorded, RecordedNext, At

LEMMA EventsNext ==
  ASSUME Well, Trail, [Next]_vars, NEW e \in audit'
  PROVE  /\ e.action = "review" => Stands(exceptions', e.target, e.value, e.actor)
         /\ e.action = "policy" => Stored(policies', e.org, e.req)
<1>1. CASE e \in audit
  BY <1>1, StandsStays, PoliciesChange DEF Trail, Stored
<1>2. CASE e \notin audit
  <2>1. PICK w \in Workers : Audit(w) \/ AuditDenied(w)
    BY <1>2, AuditChange
  <2>2. PICK f : /\ audit' = audit \cup {f}
                 /\ f.org = AccountOrg[jobs[w].by] /\ f.actor = jobs[w].by
                 /\ f.target = jobs[w].target /\ f.value = jobs[w].value
                 /\ f.req = jobs[w].req
                 /\ Audit(w) => At(w, "audit") /\ f.action = jobs[w].op
                 /\ Audit(w) \/ f.action = "denied"
    BY <2>1, EventOf
  <2>3. e = f
    BY <1>2, <2>2
  <2>4. CASE Audit(w)
    BY <2>2, <2>3, <2>4, StandsStays, PoliciesChange DEF Trail, Stored
  <2>5. CASE ~Audit(w)
    BY <2>2, <2>3, <2>5
  <2> QED
    BY <2>4, <2>5
<1> QED
  BY <1>1, <1>2

(* A request comes to be recorded by writing its row.                      *)
LEMMA WrittenFirst ==
  ASSUME Well, NEW v \in Workers, Live(v), Advances(v), jobs'[v] # Idle, jobs'[v].step = "audit"
  PROVE  /\ jobs[v].op = "review" => review_exception(v)
         /\ jobs[v].op = "policy" => set_policy(v)
<1>1. \A step \in Steps : Goto(v, step) => step = "audit"
  BY GotoMoves DEF Well
<1>2. ~Refuse(v)
  BY AnswerMoves DEF Refuse, Answer, Well
<1>3. ~require_role(v)
  <2> SUFFICES ASSUME require_role(v) PROVE FALSE
    OBVIOUS
  <2> DEFINE step == IF jobs[v].op = "baseline" THEN "may_administer" ELSE jobs[v].op
  <2>1. Goto(v, step)
    BY <1>2 DEF require_role
  <2>2. step \in Steps /\ step # "audit"
    BY DEF Well, JobsAreWell, Live, Job, Steps, Ops
  <2> QED
    BY <1>1, <2>1, <2>2
<1>4. ~CheckProject(v)
  BY <1>1 DEF CheckProject, Steps
<1>5. ~StampBaseline(v)
  BY StampMoves DEF Well, TypeOK
<1>6. jobs[v].step \in Ops => jobs[v].op = jobs[v].step
  BY DEF Well, JobsAreWell, Formed
<1> QED
  BY <1>3, <1>4, <1>5, <1>6 DEF Advances, At, approve_baseline, StoreBaseline, add_project_member, set_policy,
     request_exception, review_exception, Ops

LEMMA WorkersNext ==
  ASSUME Well, Trail, [Next]_vars, NEW v \in Workers, jobs'[v].step = "audit"
  PROVE  /\ jobs'[v].op = "review" => Stands(exceptions', jobs'[v].target, jobs'[v].value, jobs'[v].by)
         /\ jobs'[v].op = "policy" => Stored(policies', AccountOrg[jobs'[v].by], jobs'[v].req)
<1>1. jobs'[v] # Idle /\ ~Received(v)
  BY DEF Idle, Received
<1>2. CASE jobs'[v] = jobs[v]
  BY <1>2, StandsStays, PoliciesChange DEF Trail, At, Stored
<1>3. CASE Live(v) /\ Kept(v) /\ Advances(v)
  <2>1. ASSUME review_exception(v) PROVE Stands(exceptions', jobs[v].target, jobs[v].value, jobs[v].by)
    <3>1. ~Refuse(v)
      BY <1>1, AnswerMoves DEF Refuse, Answer, Well
    <3>2. exceptions[jobs[v].target[1]].status = "pending"
      BY <2>1, <3>1 DEF review_exception
    <3> QED
      BY <2>1, <3>2, ReviewIsWell DEF Stands
  <2>2. ASSUME set_policy(v) PROVE Stored(policies', AccountOrg[jobs[v].by], jobs[v].req)
    <3>1. ~Refuse(v)
      BY <1>1, AnswerMoves DEF Refuse, Answer, Well
    <3> DEFINE row == [org |-> AccountOrg[jobs[v].by], doc |-> Value(v), req |-> jobs[v].req]
    <3>2. row \in policies'
      BY <2>2, <3>1 DEF set_policy
    <3>3. row.org = AccountOrg[jobs[v].by] /\ row.req = jobs[v].req
      OBVIOUS
    <3> QED
      BY <3>2, <3>3 DEF Stored
  <2> QED
    BY <1>1, <1>3, <2>1, <2>2, WrittenFirst DEF Kept
<1> QED
  BY <1>1, <1>2, <1>3, JobsMove

(* Tables and trail agree in both directions: what a table holds was       *)
(* recorded or its worker died, and what was recorded stands               *)
(* (server/api.py, the audit call every handler ends with).                *)
THEOREM TrailStaysTrue == Spec => []TrailIsTrue
<1>1. Init => Trail
  BY DEF Init, Trail, TrailIsComplete, At, Idle
<1>2. Well /\ Trail /\ [Next]_vars => Trail'
  BY CompleteNext, EventsNext, WorkersNext DEF Trail, At
<1>3. Well /\ Trail => TrailIsTrue
  BY DEF Well, Trail, TrailIsTrue, ReviewsAreTold, PoliciesStand, Stands, Stored
<1> QED
  BY <1>1, <1>2, <1>3, InitWell, NextWell, PTL DEF Spec

-----------------------------------------------------------------------------
(* The watcher.                                                            *)

(* What the loop holds of a file: what this poll read, or the baseline. *)
View(n) == IF stage = "read" /\ n \notin listed THEN taken[n] ELSE baseline[n]

ChangeWaits == pending # NoChange /\ stage # "scan"

OnlyReadsList == stage # "read" => listed = {}

SavesRunOut == \A n \in Names : files[n] = Partial => timer[n] <= SaveTime

(* A file read half-written in this poll is so still, or its save has ended *)
(* since: a poll takes no time.                                             *)
ReadJustNow ==
  \A n \in Names : stage = "read" /\ taken[n] = Partial =>
    n \notin listed /\ (files[n] = Partial \/ timer[n] = Interval + 1)

StillSaving(n) == files[n] = Partial /\ timer[n] + QuietPeriod - quiet <= SaveTime

WillBeSeen(n) ==
  /\ files[n] # Partial
  /\ \/ stage = "sleep" /\ wait < timer[n]
     \/ stage = "read" /\ timer[n] >= 1 /\ (n \in listed \/ taken[n] # Partial)
     \/ stage = "read" /\ timer[n] = Interval + 1 /\ quiet > 0

Settling ==
  /\ ChangeWaits => \A n \in Names : baseline[n] = Partial => StillSaving(n) \/ WillBeSeen(n)
  /\ ~ChangeWaits => \A n \in Names : baseline[n] # Partial

(* What separates the baseline from the last report is in the change. *)
NothingUnnamed ==
  IF stage = "scan" THEN baseline = reported
  ELSE \A n \in Names : baseline[n] # reported[n] => n \in Named(pending)

Steady == WatchTypeOK /\ OnlyReadsList /\ SavesRunOut /\ ReadJustNow /\ Settling
            /\ NothingUnnamed /\ NoHalfWrittenScan

-----------------------------------------------------------------------------
(* A difference names the files that differ.                               *)

LEMMA DiffNamesDifferences ==
  ASSUME NEW a \in Tree, NEW b \in Tree
  PROVE  /\ Diff(a, b) \in Change
         /\ Named(Diff(a, b)) = {n \in Names : a[n] # b[n]}
         /\ Diff(a, b) = NoChange <=> a = b
<1>1. Diff(a, b) \in Change
  BY DEF Diff, Change
<1>2. Named(Diff(a, b)) = {n \in Names : a[n] # b[n]}
  BY DEF Diff, Named
<1>3. Diff(a, b) = NoChange => Named(Diff(a, b)) = {}
  BY DEF Named, NoChange
<1>4. ASSUME Named(Diff(a, b)) = {} PROVE a = b
  BY <1>2, <1>4 DEF Tree
<1>5. a = b => Diff(a, b) = NoChange
  BY DEF Diff, NoChange
<1> QED
  BY <1>1, <1>2, <1>3, <1>4, <1>5

LEMMA MergeNamesBoth ==
  ASSUME NEW first \in Change, NEW second \in Change
  PROVE  /\ Merge(first, second) \in Change
         /\ Named(Merge(first, second)) = Named(first) \cup Named(second)
  BY DEF Merge, Change, Named

(* A change that names a file is a change. *)
LEMMA NamedIsAChange ==
  ASSUME NEW change \in Change
  PROVE  change = NoChange <=> Named(change) = {}
  BY DEF Change, NoChange, Named

-----------------------------------------------------------------------------
(* The timing of the loop.                                                 *)

LEMMA InitSteady == WatchInit => Steady
  BY ContentAssumption, TimeAssumption
  DEF WatchInit, Steady, WatchTypeOK, Tree, Change, NoChange, OnlyReadsList, SavesRunOut, ReadJustNow,
      Settling, ChangeWaits, NothingUnnamed, NoHalfWrittenScan, Named

LEMMA BeginSaveSteady == ASSUME NEW n \in Names, Steady, BeginSave(n) PROVE Steady'
<1> USE ContentAssumption, TimeAssumption, SavesAreShort
<1> USE DEF Steady, BeginSave, loop, WatchTypeOK
<1>1. WatchTypeOK'
  BY DEF Tree
<1>2. (OnlyReadsList /\ SavesRunOut /\ NothingUnnamed /\ NoHalfWrittenScan)'
  BY DEF OnlyReadsList, SavesRunOut, NothingUnnamed, NoHalfWrittenScan, Tree
<1>3. ReadJustNow'
  BY DEF ReadJustNow, Tree
<1>4. Settling'
  BY DEF Settling, ChangeWaits, StillSaving, WillBeSeen, Tree
<1> QED
  BY <1>1, <1>2, <1>3, <1>4 DEF Steady

LEMMA EndSaveSteady == ASSUME NEW n \in Names, Steady, EndSave(n) PROVE Steady'
<1> USE ContentAssumption, TimeAssumption, SavesAreShort
<1> USE DEF Steady, EndSave, loop, WatchTypeOK
<1>1. WatchTypeOK'
  BY DEF Tree
<1>2. (OnlyReadsList /\ SavesRunOut /\ NothingUnnamed /\ NoHalfWrittenScan)'
  BY DEF OnlyReadsList, SavesRunOut, NothingUnnamed, NoHalfWrittenScan, Tree
<1>3. ReadJustNow'
  BY DEF ReadJustNow, Tree
<1>4. Settling'
  BY DEF Settling, ChangeWaits, StillSaving, WillBeSeen, Tree, ReadJustNow
<1> QED
  BY <1>1, <1>2, <1>3, <1>4 DEF Steady

LEMMA DeleteSteady == ASSUME NEW n \in Names, Steady, Delete(n) PROVE Steady'
<1> USE ContentAssumption, TimeAssumption, SavesAreShort
<1> USE DEF Steady, Delete, loop, WatchTypeOK
<1>1. WatchTypeOK'
  BY DEF Tree
<1>2. (OnlyReadsList /\ SavesRunOut /\ NothingUnnamed /\ NoHalfWrittenScan)'
  BY DEF OnlyReadsList, SavesRunOut, NothingUnnamed, NoHalfWrittenScan, Tree
<1>3. ReadJustNow'
  BY DEF ReadJustNow, Tree
<1>4. Settling'
  BY DEF Settling, ChangeWaits, StillSaving, WillBeSeen, Tree
<1> QED
  BY <1>1, <1>2, <1>3, <1>4 DEF Steady

LEMMA TickSteady == Steady /\ TimePasses => Steady'
<1> SUFFICES ASSUME Steady, TimePasses PROVE Steady'
  OBVIOUS
<1> USE ContentAssumption, TimeAssumption, SavesAreShort
<1> USE DEF Steady, TimePasses, Less, WatchTypeOK
<1>1. WatchTypeOK'
  OBVIOUS
<1>2. (OnlyReadsList /\ NothingUnnamed /\ NoHalfWrittenScan)'
  BY DEF OnlyReadsList, NothingUnnamed, NoHalfWrittenScan
<1>3. SavesRunOut'
  BY DEF SavesRunOut
<1>4. ReadJustNow'
  BY DEF ReadJustNow
<1>5. Settling'
  BY DEF Settling, ChangeWaits, StillSaving, WillBeSeen
<1> QED
  BY <1>1, <1>2, <1>3, <1>4, <1>5 DEF Steady

LEMMA ListSteady == Steady /\ watched_paths => Steady'
<1> SUFFICES ASSUME Steady, watched_paths PROVE Steady'
  OBVIOUS
<1> USE ContentAssumption, TimeAssumption, SavesAreShort
<1> USE DEF Steady, watched_paths, tree, WatchTypeOK, Nothing
<1>1. WatchTypeOK'
  BY DEF Tree
<1>2. (OnlyReadsList /\ SavesRunOut /\ NothingUnnamed /\ NoHalfWrittenScan)'
  BY DEF OnlyReadsList, SavesRunOut, NothingUnnamed, NoHalfWrittenScan
<1>3. ReadJustNow'
  BY DEF ReadJustNow
<1>4. Settling'
  BY DEF Settling, ChangeWaits, StillSaving, WillBeSeen
<1> QED
  BY <1>1, <1>2, <1>3, <1>4 DEF Steady

LEMMA FingerprintSteady == ASSUME NEW n \in Names, Steady, fingerprint(n) PROVE Steady'
<1> USE ContentAssumption, TimeAssumption, SavesAreShort
<1> USE DEF Steady, fingerprint, tree, WatchTypeOK
<1>1. WatchTypeOK'
  BY DEF Tree
<1>2. (OnlyReadsList /\ SavesRunOut /\ NothingUnnamed /\ NoHalfWrittenScan)'
  BY DEF OnlyReadsList, SavesRunOut, NothingUnnamed, NoHalfWrittenScan
<1>3. ReadJustNow'
  BY DEF ReadJustNow, Tree
<1>4. Settling'
  BY DEF Settling, ChangeWaits, StillSaving, WillBeSeen, Tree
<1> QED
  BY <1>1, <1>2, <1>3, <1>4 DEF Steady

LEMMA NoteChangeSteady == Steady /\ NoteChange => Steady'
<1> SUFFICES ASSUME Steady, NoteChange PROVE Steady'
  OBVIOUS
<1> USE ContentAssumption, TimeAssumption, SavesAreShort
<1> DEFINE change == Diff(baseline, taken)
<1>1. /\ change \in Change /\ change # NoChange
      /\ Named(change) = {n \in Names : baseline[n] # taken[n]}
  BY DiffNamesDifferences DEF Steady, WatchTypeOK, NoteChange
<1>2. /\ pending' \in Change
      /\ Named(pending') = Named(pending) \cup Named(change)
  <2>1. CASE pending = NoChange
    BY <1>1, <2>1, NamedIsAChange DEF Steady, WatchTypeOK, NoteChange
  <2>2. CASE pending # NoChange
    BY <1>1, <2>2, MergeNamesBoth DEF Steady, WatchTypeOK, NoteChange
  <2> QED
    BY <2>1, <2>2
<1>3. pending' # NoChange
  BY <1>1, <1>2, NamedIsAChange
<1> HIDE DEF change
<1> USE DEF Steady, NoteChange, Sleep, tree
<1>4. WatchTypeOK'
  BY <1>2 DEF WatchTypeOK
<1>5. (OnlyReadsList /\ SavesRunOut /\ NoHalfWrittenScan /\ ReadJustNow)'
  BY DEF OnlyReadsList, SavesRunOut, NoHalfWrittenScan, ReadJustNow
<1>6. NothingUnnamed'
  BY <1>1, <1>2 DEF NothingUnnamed
<1>7. Settling'
  BY <1>3, <1>4 DEF Settling, ChangeWaits, StillSaving, WillBeSeen, ReadJustNow, SavesRunOut, WatchTypeOK
<1> QED
  BY <1>4, <1>5, <1>6, <1>7 DEF Steady

(* When a change has settled, no file of the baseline is half-written. *)
LEMMA SettledIsWhole ==
  ASSUME Steady, stage = "read", listed = {}, taken = baseline, Settled, NEW n \in Names
  PROVE  baseline[n] # Partial
  BY TimeAssumption, SavesAreShort
  DEF Steady, WatchTypeOK, Settling, ChangeWaits, Settled, StillSaving, WillBeSeen

LEMMA FireSteady == Steady /\ Fire => Steady'
<1> SUFFICES ASSUME Steady, Fire PROVE Steady'
  OBVIOUS
<1>1. taken = baseline
  BY DiffNamesDifferences DEF Steady, WatchTypeOK, Fire
<1>2. \A n \in Names : baseline[n] # Partial
  BY <1>1, SettledIsWhole DEF Fire
<1> USE DEF Steady, Fire, tree
<1>3. WatchTypeOK'
  BY DEF WatchTypeOK
<1>4. (OnlyReadsList /\ SavesRunOut /\ NothingUnnamed /\ ReadJustNow)'
  BY DEF OnlyReadsList, SavesRunOut, NothingUnnamed, ReadJustNow
<1>5. (Settling /\ NoHalfWrittenScan)'
  BY <1>2 DEF Settling, ChangeWaits, NoHalfWrittenScan
<1> QED
  BY <1>3, <1>4, <1>5 DEF Steady

LEMMA StayQuietSteady == Steady /\ StayQuiet => Steady'
<1> SUFFICES ASSUME Steady, StayQuiet PROVE Steady'
  OBVIOUS
<1>1. taken = baseline
  BY DiffNamesDifferences DEF Steady, WatchTypeOK, StayQuiet
<1> USE TimeAssumption, SavesAreShort DEF Steady, StayQuiet, Sleep, tree
<1>2. WatchTypeOK'
  BY DEF WatchTypeOK
<1>3. (OnlyReadsList /\ SavesRunOut /\ NothingUnnamed /\ ReadJustNow /\ NoHalfWrittenScan)'
  BY DEF OnlyReadsList, SavesRunOut, NothingUnnamed, ReadJustNow, NoHalfWrittenScan
<1>4. Settling'
  BY <1>1 DEF Settling, ChangeWaits, StillSaving, WillBeSeen, ReadJustNow, WatchTypeOK
<1> QED
  BY <1>2, <1>3, <1>4 DEF Steady

LEMMA RecheckReturnsSteady == Steady /\ RecheckReturns => Steady'
  BY TimeAssumption
  DEF Steady, RecheckReturns, Sleep, tree, WatchTypeOK, Change, NoChange, OnlyReadsList, SavesRunOut,
      ReadJustNow, Settling, ChangeWaits, NothingUnnamed, NoHalfWrittenScan

LEMMA StepSteady == Steady /\ [WatchNext]_watchVars => Steady'
<1> SUFFICES ASSUME Steady, [WatchNext]_watchVars PROVE Steady'
  OBVIOUS
<1>1. CASE Poll
  BY <1>1, ListSteady, FingerprintSteady, NoteChangeSteady, FireSteady, StayQuietSteady,
     RecheckReturnsSteady DEF Poll
<1>2. CASE TimePasses
  BY <1>2, TickSteady
<1>3. CASE \E n \in Names : Edit(n)
  BY <1>3, BeginSaveSteady, EndSaveSteady, DeleteSteady DEF Edit
<1>4. CASE UNCHANGED watchVars
  BY <1>4 DEF watchVars, tree, loop, Steady, WatchTypeOK, OnlyReadsList, SavesRunOut, ReadJustNow, Settling,
     ChangeWaits, StillSaving, WillBeSeen, NothingUnnamed, NoHalfWrittenScan
<1> QED
  BY <1>1, <1>2, <1>3, <1>4 DEF WatchNext

-----------------------------------------------------------------------------
(* The account of scans and edits.                                         *)

(* Files this poll has found different, and files it has yet to find so. *)
SeenMoved ==
  IF stage = "read"
  THEN {n \in Names \ listed : baseline[n] # Partial /\ taken[n] # baseline[n]}
  ELSE {}

Unseen == {n \in Names : View(n) # Partial /\ files[n] # View(n)}

Owed == IF ChangeWaits THEN 1 ELSE 0

Paid == fired + Owed + Cardinality(SeenMoved) + Cardinality(Unseen) <= edits

LEMMA CountsAreNatural ==
  /\ IsFiniteSet(SeenMoved) /\ Cardinality(SeenMoved) \in Nat
  /\ IsFiniteSet(Unseen) /\ Cardinality(Unseen) \in Nat
<1>1. SeenMoved \subseteq Names /\ Unseen \subseteq Names
  BY DEF SeenMoved, Unseen
<1> QED
  BY <1>1, NamesAreFinite, FS_Subset, FS_CardinalityType

LEMMA CountsStayNatural ==
  /\ IsFiniteSet(SeenMoved') /\ Cardinality(SeenMoved') \in Nat
  /\ IsFiniteSet(Unseen') /\ Cardinality(Unseen') \in Nat
<1>1. SeenMoved' \subseteq Names /\ Unseen' \subseteq Names
  BY DEF SeenMoved, Unseen
<1> QED
  BY <1>1, NamesAreFinite, FS_Subset, FS_CardinalityType

LEMMA SmallerSets ==
  ASSUME NEW S, NEW T, T \subseteq Names, S \subseteq T
  PROVE  Cardinality(S) \in Nat /\ Cardinality(T) \in Nat /\ Cardinality(S) <= Cardinality(T)
  BY NamesAreFinite, FS_Subset, FS_CardinalityType

LEMMA OneMore ==
  ASSUME NEW S, NEW T, NEW n \in Names, T \subseteq Names, S \subseteq T \cup {n}
  PROVE  Cardinality(S) \in Nat /\ Cardinality(T) \in Nat /\ Cardinality(S) <= Cardinality(T) + 1
<1>1. IsFiniteSet(T) /\ Cardinality(T \cup {n}) <= Cardinality(T) + 1
  BY NamesAreFinite, FS_Subset, FS_AddElement, FS_CardinalityType
<1>2. T \cup {n} \subseteq Names
  OBVIOUS
<1> QED
  BY <1>1, <1>2, SmallerSets, FS_CardinalityType, NamesAreFinite, FS_Subset

LEMMA InitPaid == WatchInit => Paid
<1> SUFFICES ASSUME WatchInit PROVE Paid
  OBVIOUS
<1>1. SeenMoved = {} /\ Unseen = {}
  BY DEF WatchInit, SeenMoved, Unseen, View
<1> QED
  BY <1>1, FS_EmptySet DEF WatchInit, Paid, Owed, ChangeWaits

(* An edit moves one file, and is counted. *)
LEMMA EditPaid ==
  ASSUME NEW n \in Names, Steady, Paid, BeginSave(n) \/ Delete(n)
  PROVE  Paid'
<1>1. SeenMoved' = SeenMoved /\ Owed' = Owed /\ fired' = fired /\ edits' = edits + 1
  BY DEF BeginSave, Delete, loop, SeenMoved, Owed, ChangeWaits
<1>2. Unseen' \subseteq Unseen \cup {n} /\ Unseen \subseteq Names
  BY DEF BeginSave, Delete, loop, Unseen, View, Steady, WatchTypeOK, Tree
<1>3. Cardinality(Unseen') <= Cardinality(Unseen) + 1
  BY <1>2, OneMore
<1> QED
  BY <1>1, <1>3, CountsAreNatural, CountsStayNatural DEF Paid, Owed, Steady, WatchTypeOK

(* The end of a save moves no file that was not paid for. *)
LEMMA EndSavePaid ==
  ASSUME NEW n \in Names, Steady, Paid, EndSave(n)
  PROVE  Paid'
<1>1. SeenMoved' = SeenMoved /\ Owed' = Owed /\ fired' = fired /\ edits' = edits
  BY DEF EndSave, loop, SeenMoved, Owed, ChangeWaits
<1>2. Unseen' \subseteq Unseen /\ Unseen \subseteq Names
  BY DEF EndSave, loop, Unseen, View, Steady, WatchTypeOK, Tree
<1> QED
  BY <1>1, <1>2, SmallerSets, CountsAreNatural, CountsStayNatural DEF Paid, Owed, Steady, WatchTypeOK

LEMMA TickPaid == Paid /\ TimePasses => Paid'
<1> SUFFICES ASSUME Paid, TimePasses PROVE Paid'
  OBVIOUS
<1>1. SeenMoved' = SeenMoved /\ Unseen' = Unseen /\ Owed' = Owed
  BY DEF TimePasses, SeenMoved, Unseen, View, Owed, ChangeWaits
<1> QED
  BY <1>1 DEF Paid, TimePasses

(* A file that is gone when the poll lists is seen to have moved. *)
LEMMA ListPaid == Steady /\ Paid /\ watched_paths => Paid'
<1> SUFFICES ASSUME Steady, Paid, watched_paths PROVE Paid'
  OBVIOUS
<1> DEFINE gone == {n \in Names : /\ files[n] = Absent
                                  /\ baseline[n] \notin {Absent, Partial}}
           left == {n \in Names : /\ files[n] # Absent
                                  /\ baseline[n] # Partial /\ files[n] # baseline[n]}
<1>1. SeenMoved' = gone /\ SeenMoved = {} /\ Unseen' = left
  BY ContentAssumption
  DEF watched_paths, tree, SeenMoved, Unseen, View, Nothing, Steady, WatchTypeOK, Tree
<1>2. Unseen = gone \cup left /\ gone \cap left = {}
  BY ContentAssumption DEF watched_paths, Unseen, View, Steady, WatchTypeOK, Tree
<1>3. IsFiniteSet(gone) /\ IsFiniteSet(left)
  BY NamesAreFinite, FS_Subset
<1> HIDE DEF gone, left
<1>4. Cardinality(Unseen) = Cardinality(gone) + Cardinality(left)
  <2>1. Cardinality(gone \cap left) = 0
    BY <1>2, FS_EmptySet
  <2>2. Cardinality(gone \cup left) =
          Cardinality(gone) + Cardinality(left) - Cardinality(gone \cap left)
    BY <1>3, FS_Union
  <2> QED
    BY <1>2, <1>3, <2>1, <2>2, FS_CardinalityType
<1>5. Owed' = Owed /\ fired' = fired /\ edits' = edits /\ Cardinality(SeenMoved) = 0
  BY <1>1, FS_EmptySet DEF watched_paths, tree, Owed, ChangeWaits
<1> QED
  BY <1>1, <1>3, <1>4, <1>5, FS_CardinalityType DEF Paid, Owed, Steady, WatchTypeOK

(* A file that is read is no longer unseen. *)
LEMMA FingerprintPaid ==
  ASSUME NEW n \in Names, Steady, Paid, fingerprint(n)
  PROVE  Paid'
<1>1. Owed' = Owed /\ fired' = fired /\ edits' = edits
  BY DEF fingerprint, tree, Owed, ChangeWaits
<1>2. SeenMoved \subseteq Names /\ Unseen' \subseteq Unseen /\ Unseen \subseteq Names
  BY DEF fingerprint, tree, SeenMoved, Unseen, View, Steady, WatchTypeOK, Tree
<1>3. CASE n \in Unseen
  <2>1. SeenMoved' \subseteq SeenMoved \cup {n}
    BY DEF fingerprint, tree, SeenMoved, Steady, WatchTypeOK, Tree
  <2>2. Unseen' \subseteq Unseen \ {n}
    BY DEF fingerprint, tree, Unseen, View, Steady, WatchTypeOK, Tree
  <2>3. Cardinality(SeenMoved') <= Cardinality(SeenMoved) + 1
    BY <1>2, <2>1, OneMore
  <2>4. Cardinality(Unseen \ {n}) = Cardinality(Unseen) - 1
    BY <1>3, CountsAreNatural, FS_RemoveElement
  <2>5. Cardinality(Unseen') <= Cardinality(Unseen \ {n})
    BY <1>2, <2>2, SmallerSets
  <2> QED
    BY <1>1, <2>3, <2>4, <2>5, CountsAreNatural, CountsStayNatural DEF Paid, Owed, Steady, WatchTypeOK
<1>4. CASE n \notin Unseen
  <2>1. SeenMoved' \subseteq SeenMoved
    BY <1>4 DEF fingerprint, tree, SeenMoved, Unseen, View, Steady, WatchTypeOK, Tree
  <2> QED
    BY <1>1, <1>2, <2>1, SmallerSets, CountsAreNatural, CountsStayNatural
    DEF Paid, Owed, Steady, WatchTypeOK
<1> QED
  BY <1>3, <1>4

(* The first change that is noted was paid for by a file that moved. *)
LEMMA NoteChangePaid == Steady /\ Paid /\ NoteChange => Paid'
<1> SUFFICES ASSUME Steady, Paid, NoteChange PROVE Paid'
  OBVIOUS
<1>1. taken # baseline
  BY DiffNamesDifferences DEF Steady, WatchTypeOK, NoteChange
<1>2. SeenMoved' = {} /\ Unseen' = Unseen /\ Cardinality(SeenMoved') = 0
  BY FS_EmptySet DEF NoteChange, Sleep, tree, SeenMoved, Unseen, View
<1>3. fired' = fired /\ edits' = edits
  BY DEF NoteChange, tree
<1>4. CASE ChangeWaits
  BY <1>2, <1>3, <1>4, CountsAreNatural DEF Paid, Owed, Steady, WatchTypeOK
<1>5. CASE ~ChangeWaits
  <2>1. PICK n \in Names : taken[n] # baseline[n]
    BY <1>1 DEF Steady, WatchTypeOK, Tree
  <2>2. n \in SeenMoved
    BY <1>5, <2>1 DEF NoteChange, SeenMoved, Steady, Settling
  <2>3. Cardinality(SeenMoved) # 0
    BY <2>2, CountsAreNatural, FS_EmptySet
  <2> QED
    BY <1>2, <1>3, <1>5, <2>3, CountsAreNatural DEF Paid, Owed, Steady, WatchTypeOK
<1> QED
  BY <1>4, <1>5

LEMMA FirePaid == Steady /\ Paid /\ Fire => Paid'
<1> SUFFICES ASSUME Steady, Paid, Fire PROVE Paid'
  OBVIOUS
<1>1. taken = baseline
  BY DiffNamesDifferences DEF Steady, WatchTypeOK, Fire
<1>2. SeenMoved' = SeenMoved /\ Unseen' = Unseen
  BY <1>1 DEF Fire, tree, SeenMoved, Unseen, View
<1>3. Owed = 1 /\ Owed' = 0 /\ fired' = fired + 1 /\ edits' = edits
  BY DEF Fire, Settled, tree, Owed, ChangeWaits
<1> QED
  BY <1>2, <1>3, CountsAreNatural DEF Paid, Steady, WatchTypeOK

LEMMA StayQuietPaid == Steady /\ Paid /\ StayQuiet => Paid'
<1> SUFFICES ASSUME Steady, Paid, StayQuiet PROVE Paid'
  OBVIOUS
<1>1. taken = baseline
  BY DiffNamesDifferences DEF Steady, WatchTypeOK, StayQuiet
<1>2. SeenMoved' = SeenMoved /\ Unseen' = Unseen /\ Owed' = Owed
  BY <1>1 DEF StayQuiet, Sleep, tree, SeenMoved, Unseen, View, Owed, ChangeWaits
<1> QED
  BY <1>2 DEF StayQuiet, tree, Paid

LEMMA RecheckReturnsPaid == Paid /\ RecheckReturns => Paid'
<1> SUFFICES ASSUME Paid, RecheckReturns PROVE Paid'
  OBVIOUS
<1>1. SeenMoved' = SeenMoved /\ Unseen' = Unseen /\ Owed' = Owed
  BY DEF RecheckReturns, Sleep, tree, SeenMoved, Unseen, View, Owed, ChangeWaits
<1> QED
  BY <1>1 DEF RecheckReturns, tree, Paid

LEMMA StepPaid == Steady /\ Paid /\ [WatchNext]_watchVars => Paid'
<1> SUFFICES ASSUME Steady, Paid, [WatchNext]_watchVars PROVE Paid'
  OBVIOUS
<1>1. CASE Poll
  BY <1>1, ListPaid, FingerprintPaid, NoteChangePaid, FirePaid, StayQuietPaid, RecheckReturnsPaid
  DEF Poll
<1>2. CASE TimePasses
  BY <1>2, TickPaid
<1>3. CASE \E n \in Names : Edit(n)
  BY <1>3, EditPaid, EndSavePaid DEF Edit
<1>4. CASE UNCHANGED watchVars
  <2>1. SeenMoved' = SeenMoved /\ Unseen' = Unseen /\ Owed' = Owed
    BY <1>4 DEF watchVars, tree, loop, SeenMoved, Unseen, View, Owed, ChangeWaits
  <2> QED
    BY <1>4, <2>1 DEF watchVars, tree, loop, Paid
<1> QED
  BY <1>1, <1>2, <1>3, <1>4 DEF WatchNext

-----------------------------------------------------------------------------
(* The theorems.                                                           *)

LEMMA SteadyAlways == WatchSpec => [](Steady /\ Paid)
<1>1. WatchInit => Steady /\ Paid
  BY InitSteady, InitPaid
<1>2. Steady /\ Paid /\ [WatchNext]_watchVars => (Steady /\ Paid)'
  BY StepSteady, StepPaid
<1> QED
  BY <1>1, <1>2, PTL DEF WatchSpec

(* on_change is called for changes that have settled: never while a file   *)
(* the loop read was half-written, and never more often than there were    *)
(* edits (watch.py, watch).                                                *)
THEOREM WatchScansAreSettled == WatchSpec => []ScansAreSettled
<1>1. Steady /\ Paid => ScansAreSettled
  BY CountsAreNatural DEF Steady, Paid, Owed, WatchTypeOK, ScansAreSettled, OneScanPerChange
<1> QED
  BY <1>1, SteadyAlways, PTL

(* The change handed to on_change names every file that differs from what  *)
(* was there at the previous call, also when it was noted in several parts *)
(* (watch.py, Change.merge).                                               *)
THEOREM WatchChangesAreComplete == WatchSpec => ChangesAreComplete
<1>1. Steady /\ [WatchNext]_watchVars => [fired' > fired => Unnamed = {}]_watchVars
  <2> SUFFICES ASSUME Steady, WatchNext, fired' > fired PROVE Unnamed = {}
    BY DEF watchVars
  <2>1. Fire
    BY DEF WatchNext, Poll, Edit, BeginSave, EndSave, Delete, TimePasses, watched_paths, fingerprint,
       NoteChange, StayQuiet, RecheckReturns, loop, Steady, WatchTypeOK
  <2> QED
    BY <2>1 DEF Fire, Unnamed, Steady, NothingUnnamed
<1> QED
  BY <1>1, SteadyAlways, PTL DEF WatchSpec, ChangesAreComplete

-----------------------------------------------------------------------------
(* The bisection.                                                          *)

Noted(t, candidate, answer) ==
  \E i \in 1..Len(t) : t[i] = <<candidate, answer>>

(* What the loop has established: `lower` is known to work, and `lower`    *)
(* with everything in `remaining` is known to fail.                        *)
Bracketed ==
  /\ phase \in {"empty_check", "nothing", "everything"} =>
       lower = <<>> /\ remaining = dimensions
  /\ phase \in {"nothing", "everything"} => dimensions # <<>>
  /\ phase = "everything" => Noted(trail, <<>>, FALSE)
  /\ phase = "halving" =>
       /\ remaining # <<>>
       /\ Noted(trail, lower, FALSE)
       /\ Noted(trail, lower \o remaining, TRUE)

OnlyAtTheEnd == culprit # NoCulprit => phase = "done"

IInv == BisectTypeOK /\ Bracketed /\ OnlyAtTheEnd /\ CulpritIsImplicated

(* What the halving has cost: after k halvings fewer than n / 2^k + 1      *)
(* dimensions remain, and a candidate asked about before is no longer than *)
(* `lower` or at least as long as `lower` with all of `remaining`.         *)
Halved ==
  /\ phase \in {"empty_check", "nothing"} => trail = <<>>
  /\ phase = "everything" => Len(trail) = 1 /\ trail[1][1] = <<>>
  /\ phase = "halving" =>
       /\ Len(trail) >= 2
       /\ PowerOfTwo[Len(trail) - 2] * (Len(remaining) - 1) < Len(dimensions)
       /\ \A i \in 1..Len(trail) : \/ Len(trail[i][1]) <= Len(lower)
                                   \/ Len(trail[i][1]) >= Len(lower) + Len(remaining)
  /\ NoQuestionTwice
  /\ LogarithmicCost

Concluded == (phase # "done" => inconclusive = "none") /\ ConclusionIsStated

NamesACause == (reliable /\ culprit # NoCulprit) => culprit \in causes

-----------------------------------------------------------------------------
(* The invariant of the minimisation.                                      *)

Outside(list, lo, hi) == SubSeq(list, 1, lo - 1) \o SubSeq(list, hi + 1, Len(list))

Differing(list) == \A i, j \in 1..Len(list) : list[i] = list[j] => i = j

Rounds == {"round", "chunk", "complement"}

(* The current list was answered to fail; nothing was found out before.    *)
Held ==
  /\ Differing(current) /\ Len(current) <= Len(dimensions)
  /\ phase \in {"empty_check", "everything"} =>
       current = dimensions /\ trail = <<>> /\ granularity = 2
  /\ phase = "everything" => current # <<>>
  /\ phase # "done" => inconclusive = "none"
  /\ (phase \in Rounds \/ (phase = "done" /\ inconclusive \in {"none", "truncated"})) =>
       current # <<>> /\ Noted(trail, current, TRUE)

(* What a round has tried did not fail, nor does it at the end of an uncut *)
(* search with any single dimension alone or left out.                     *)
Tried ==
  /\ phase \in {"chunk", "complement"} => Len(current) > 1 /\ index \in 1..M!NChunks
  /\ phase = "chunk" => \A k \in 1..(index - 1) : Noted(trail, M!Chunk(k), FALSE)
  /\ phase = "complement" =>
       /\ \A k \in 1..M!NChunks : Noted(trail, M!Chunk(k), FALSE)
       /\ \A k \in 1..(index - 1) : Noted(trail, M!Complement(k), FALSE)
  /\ (phase = "done" /\ inconclusive = "none" /\ Len(current) > 1) =>
       \A i \in 1..Len(current) :
         /\ Noted(trail, <<current[i]>>, FALSE)
         /\ Noted(trail, M!Leaving(current, <<current[i]>>), FALSE)

(* How many verdicts a search can still need that starts a round over m    *)
(* dimensions at granularity g: what it takes when every round leaves out  *)
(* one dimension and no more, the round that makes single dimensions of    *)
(* the chunks, and the coarser rounds before that.                         *)
Left(m, g) == m * m + m - 2 + (IF g < m THEN 2 * m ELSE 0)
                            + (IF 2 * g < m THEN 3 * (m - g) ELSE 0)

Ceiling == 2 * Len(dimensions) * Len(dimensions)

(* The verdicts when the round began. *)
Started ==
  Len(trail) - (CASE phase = "chunk" -> index - 1
                  [] phase = "complement" -> M!NChunks + index - 1
                  [] OTHER -> 0)

Spent ==
  /\ phase \in Rounds => Started + Left(Len(current), granularity) <= Ceiling
  /\ phase \in {"chunk", "complement"} => Started < max_verdicts
  /\ M!QuadraticCost
  /\ M!OverrunIsOneRound

-----------------------------------------------------------------------------
(* The invariant of the command.                                           *)

BisectInv   == IInv /\ Halved /\ Concluded /\ NamesACause
MinimiseInv == M!TypeOK /\ Held /\ Tried /\ Spent /\ culprit = NoCulprit

(* What is shown is what the search came to. *)
Told ==
  shown # {} =>
    \/ phase = "empty_check" /\ caller = "command" /\ (dimensions = <<>> \/ mode = "plan")
    \/ phase = "done" /\ shown \in {Found, Everything}

CommandInv ==
  /\ mode \in {"bisect", "minimise", "plan"}
  /\ Truthful(trail)
  /\ mode # "minimise" => BisectInv
  /\ mode = "minimise" => MinimiseInv
  /\ mode = "plan" => phase = "empty_check"
  /\ Told

-----------------------------------------------------------------------------
(* Concatenation, in a form in which the provers can use it.              *)
Associative(S) == \A s, t, u \in Seq(S) : (s \o t) \o u = s \o (t \o u)

LEMMA JoinAssociative == \A S : Associative(S)
<1>1. ASSUME NEW S PROVE Associative(S)
  <2>1. ASSUME NEW s \in Seq(S), NEW t \in Seq(S), NEW u \in Seq(S)
        PROVE  (s \o t) \o u = s \o (t \o u)
    BY ConcatAssociative, SMT
  <2> QED BY <2>1, Zenon DEF Associative
<1> QED BY <1>1, Zenon

(* A list that is not empty and not longer than one element.               *)
LEMMA SingletonLemma ==
  ASSUME NEW S, NEW s \in Seq(S), s # <<>>, Len(s) <= 1
  PROVE  Len(s) = 1 /\ s[1] \in S /\ s = <<s[1]>>
<1>1. Len(s) \in Nat \ {0}
  <2>1. \A q \in Seq(S) : q # <<>> => Len(q) \in Nat \ {0}
    BY EmptySeq, Zenon
  <2> QED BY <2>1, Zenon
<1>2. Len(s) = 1
  BY <1>1
<1>3. s[1] \in S /\ <<s[1]>> \in Seq(S)
  BY <1>2
<1> QED BY <1>2, <1>3, SeqEqual, SMT

(* Splitting a non-empty list in two: both parts are lists of dimensions,  *)
(* the second is not empty, and together they are the list.                *)
LEMMA HalvesLemma ==
  ASSUME BisectTypeOK, Len(remaining) > 1
  PROVE  /\ FirstHalf \in Seq(Dimensions)
         /\ SecondHalf \in Seq(Dimensions)
         /\ FirstHalf # <<>>
         /\ SecondHalf # <<>>
         /\ FirstHalf \o SecondHalf = remaining
         /\ half \in 1..(Len(remaining) - 1)
         /\ Len(FirstHalf) = half
         /\ Len(SecondHalf) = Len(remaining) - half
<1> DEFINE n == Len(remaining)
<1>1. remaining \in Seq(Dimensions) /\ n \in Nat /\ n > 1
  BY DEF BisectTypeOK
<1>2. half \in 1..(n - 1)
  BY <1>1 DEF half
<1>3. \A i \in 1..n : remaining[i] \in Dimensions
  BY <1>1
<1>4. FirstHalf \in Seq(Dimensions) /\ Len(FirstHalf) = half
  BY <1>1, <1>2, <1>3, SubSeqProperties, SMT DEF FirstHalf
<1>5. SecondHalf \in Seq(Dimensions) /\ Len(SecondHalf) = n - half
  BY <1>1, <1>2, <1>3, SubSeqProperties, SMT DEF SecondHalf
<1>6. FirstHalf # <<>> /\ SecondHalf # <<>>
  BY <1>2, <1>4, <1>5, <1>1
<1>7. FirstHalf \o SecondHalf = SubSeq(remaining, 1, n)
  BY <1>1, <1>2, ConcatAdjacentSubSeq, SMT DEF FirstHalf, SecondHalf
<1>8. SubSeq(remaining, 1, n) = remaining
  BY <1>1, SubSeqFull
<1> QED BY <1>2, <1>4, <1>5, <1>6, <1>7, <1>8

(* Asking a question adds its answer to the trail and keeps the earlier    *)
(* ones.                                                                   *)
LEMMA AskLemma ==
  ASSUME trail \in Seq(Seq(Dimensions) \X BOOLEAN)
  PROVE  \A candidate \in Seq(Dimensions), answer \in BOOLEAN :
           Ask(candidate, answer) =>
             /\ trail' \in Seq(Seq(Dimensions) \X BOOLEAN)
             /\ Noted(trail', candidate, answer)
             /\ \A c, a : Noted(trail, c, a) => Noted(trail', c, a)
             /\ Len(trail') = Len(trail) + 1
             /\ \A i \in 1..Len(trail) : trail'[i] = trail[i]
             /\ trail'[Len(trail) + 1] = <<candidate, answer>>
<1> SUFFICES ASSUME NEW candidate \in Seq(Dimensions), NEW answer \in BOOLEAN,
                    Ask(candidate, answer)
             PROVE  /\ trail' \in Seq(Seq(Dimensions) \X BOOLEAN)
                    /\ Noted(trail', candidate, answer)
                    /\ \A c, a : Noted(trail, c, a) => Noted(trail', c, a)
                    /\ Len(trail') = Len(trail) + 1
                    /\ \A i \in 1..Len(trail) : trail'[i] = trail[i]
                    /\ trail'[Len(trail) + 1] = <<candidate, answer>>
  OBVIOUS
<1> DEFINE S == Seq(Dimensions) \X BOOLEAN
           e == <<candidate, answer>>
<1>1. e \in S /\ trail \in Seq(S) /\ trail' = Append(trail, e)
  BY DEF Ask
<1> HIDE DEF S, e
<1>2. /\ trail' \in Seq(S)
      /\ Len(trail') = Len(trail) + 1
      /\ \A i \in 1..Len(trail) : trail'[i] = trail[i]
      /\ trail'[Len(trail) + 1] = e
  BY <1>1, AppendProperties
<1>3. Len(trail) \in Nat
  BY <1>1
<1>4. Len(trail) + 1 \in 1..Len(trail') /\ 1..Len(trail) \subseteq 1..Len(trail')
  BY <1>2, <1>3
<1>5. Noted(trail', candidate, answer)
  BY <1>2, <1>4 DEF Noted, e
<1>6. \A c, a : Noted(trail, c, a) => Noted(trail', c, a)
  BY <1>2, <1>4 DEF Noted
<1> QED BY <1>2, <1>5, <1>6 DEF S, e

-----------------------------------------------------------------------------

LEMMA InitLemma == BisectInit => IInv
<1> SUFFICES ASSUME BisectInit PROVE IInv
  OBVIOUS
<1>1. BisectTypeOK
  BY DiffsAssumption DEF BisectInit, BisectTypeOK, Phases, Reasons
<1> QED
  BY <1>1 DEF BisectInit, IInv, Bracketed, OnlyAtTheEnd, CulpritIsImplicated

LEMMA StepLemma == IInv /\ [BisectNext]_bisectVars => IInv'
<1> SUFFICES ASSUME IInv, [BisectNext]_bisectVars PROVE IInv'
  OBVIOUS
<1> USE DEF IInv
<1> dimensions \in Seq(Dimensions)
  BY DiffsAssumption DEF BisectTypeOK
<1>1. CASE CheckDiffers
  <2>1. BisectTypeOK'
    BY <1>1 DEF CheckDiffers, Conclude, Continue, BisectTypeOK, Phases, Reasons
  <2>2. Bracketed'
    BY <1>1 DEF CheckDiffers, Conclude, Continue, Bracketed, Noted
  <2>3. OnlyAtTheEnd' /\ CulpritIsImplicated'
    BY <1>1 DEF CheckDiffers, Conclude, Continue, OnlyAtTheEnd, CulpritIsImplicated
  <2> QED BY <2>1, <2>2, <2>3
<1>2. CASE AskNothing
  <2>0. <<>> \in Seq(Dimensions)
    OBVIOUS
  <2>1. CASE Ask(<<>>, TRUE) /\ Conclude(NoCulprit, "baseline_fails")
    <3>1. trail' \in Seq(Seq(Dimensions) \X BOOLEAN)
      BY <2>0, <2>1, AskLemma DEF BisectTypeOK
    <3> QED BY <3>1, <2>1 DEF Conclude, BisectTypeOK, Phases, Reasons, Bracketed,
                              OnlyAtTheEnd, CulpritIsImplicated
  <2>2. CASE Ask(<<>>, FALSE) /\ Continue("everything")
    <3>1. trail' \in Seq(Seq(Dimensions) \X BOOLEAN) /\ Noted(trail', <<>>, FALSE)
      BY <2>0, <2>2, AskLemma DEF BisectTypeOK
    <3>2. phase = "nothing" /\ culprit = NoCulprit
      BY <1>2 DEF AskNothing, OnlyAtTheEnd
    <3>3. BisectTypeOK'
      BY <3>1, <2>2 DEF Continue, BisectTypeOK, Phases
    <3>4. Bracketed'
      BY <3>1, <3>2, <2>2 DEF Continue, Bracketed
    <3> QED BY <3>2, <3>3, <3>4, <2>2 DEF Continue, OnlyAtTheEnd, CulpritIsImplicated
  <2> QED BY <1>2, <2>1, <2>2 DEF AskNothing
<1>3. CASE AskEverything
  <2>1. CASE Ask(dimensions, FALSE) /\ Conclude(NoCulprit, "not_reproduced")
    <3>1. trail' \in Seq(Seq(Dimensions) \X BOOLEAN)
      BY <2>1, AskLemma DEF BisectTypeOK
    <3> QED BY <3>1, <2>1 DEF Conclude, BisectTypeOK, Phases, Reasons, Bracketed,
                              OnlyAtTheEnd, CulpritIsImplicated
  <2>2. CASE Ask(dimensions, TRUE) /\ Continue("halving")
    <3>1. /\ trail' \in Seq(Seq(Dimensions) \X BOOLEAN)
          /\ Noted(trail', dimensions, TRUE)
          /\ Noted(trail, <<>>, FALSE) => Noted(trail', <<>>, FALSE)
      BY <2>2, AskLemma DEF BisectTypeOK
    <3>2. /\ phase = "everything" /\ culprit = NoCulprit
          /\ lower = <<>> /\ remaining = dimensions /\ dimensions # <<>>
          /\ Noted(trail, <<>>, FALSE)
      BY <1>3 DEF AskEverything, OnlyAtTheEnd, Bracketed
    <3>3. <<>> \o dimensions = dimensions
      BY ConcatEmptySeq
    <3>4. lower' = <<>> /\ remaining' = dimensions /\ phase' = "halving"
      BY <2>2, <3>2 DEF Continue
    <3>5. Noted(trail', lower', FALSE) /\ Noted(trail', lower' \o remaining', TRUE)
      BY <3>1, <3>2, <3>3, <3>4 DEF Noted
    <3>6. BisectTypeOK'
      BY <3>1, <2>2 DEF Continue, BisectTypeOK, Phases
    <3>7. Bracketed'
      BY <3>2, <3>4, <3>5 DEF Bracketed
    <3> QED BY <3>2, <3>6, <3>7, <2>2 DEF Continue, OnlyAtTheEnd, CulpritIsImplicated
  <2> QED BY <1>3, <2>1, <2>2 DEF AskEverything
<1>4. CASE Halve
  <2>1. /\ phase = "halving" /\ Len(remaining) > 1
        /\ phase' = phase /\ culprit' = culprit /\ culprit = NoCulprit
        /\ dimensions' = dimensions /\ inconclusive' = inconclusive
    BY <1>4 DEF Halve, OnlyAtTheEnd
  <2>2. /\ FirstHalf \in Seq(Dimensions) /\ SecondHalf \in Seq(Dimensions)
        /\ FirstHalf # <<>> /\ SecondHalf # <<>>
        /\ FirstHalf \o SecondHalf = remaining
    BY <2>1, HalvesLemma
  <2>3. /\ lower \in Seq(Dimensions)
        /\ lower \o FirstHalf \in Seq(Dimensions)
        /\ trail \in Seq(Seq(Dimensions) \X BOOLEAN)
    BY <2>2 DEF BisectTypeOK
  <2>4. Noted(trail, lower, FALSE) /\ Noted(trail, lower \o remaining, TRUE)
    BY <2>1 DEF Bracketed
  <2>5. CASE /\ Ask(lower \o FirstHalf, TRUE)
             /\ remaining' = FirstHalf /\ lower' = lower
    <3>1. /\ trail' \in Seq(Seq(Dimensions) \X BOOLEAN)
          /\ Noted(trail', lower \o FirstHalf, TRUE)
          /\ \A c, a : Noted(trail, c, a) => Noted(trail', c, a)
      BY <2>3, <2>5, AskLemma
    <3>2. Noted(trail', lower', FALSE) /\ Noted(trail', lower' \o remaining', TRUE)
      BY <3>1, <2>4, <2>5 DEF Noted
    <3>3. BisectTypeOK'
      BY <3>1, <2>1, <2>2, <2>5 DEF BisectTypeOK
    <3>4. Bracketed'
      BY <3>2, <2>1, <2>2, <2>5 DEF Bracketed
    <3> QED BY <3>3, <3>4, <2>1 DEF OnlyAtTheEnd, CulpritIsImplicated
  <2>6. CASE /\ Ask(lower \o FirstHalf, FALSE)
             /\ lower' = lower \o FirstHalf /\ remaining' = SecondHalf
    <3>1. /\ trail' \in Seq(Seq(Dimensions) \X BOOLEAN)
          /\ Noted(trail', lower \o FirstHalf, FALSE)
          /\ \A c, a : Noted(trail, c, a) => Noted(trail', c, a)
      BY <2>3, <2>6, AskLemma
    <3>2. (lower \o FirstHalf) \o SecondHalf = lower \o remaining
      <4>1. (lower \o FirstHalf) \o SecondHalf = lower \o (FirstHalf \o SecondHalf)
        <5>1. Associative(Dimensions)
          BY JoinAssociative, Zenon
        <5> QED BY <2>2, <2>3, <5>1, ZenonT(40) DEF Associative
      <4> QED BY <4>1, <2>2
    <3>3. Noted(trail', lower', FALSE) /\ Noted(trail', lower' \o remaining', TRUE)
      BY <3>1, <3>2, <2>4, <2>6 DEF Noted
    <3>4. BisectTypeOK'
      BY <3>1, <2>1, <2>2, <2>3, <2>6 DEF BisectTypeOK
    <3>5. Bracketed'
      BY <3>3, <2>1, <2>2, <2>6 DEF Bracketed
    <3> QED BY <3>4, <3>5, <2>1 DEF OnlyAtTheEnd, CulpritIsImplicated
  <2> QED BY <1>4, <2>5, <2>6 DEF Halve
<1>5. CASE NameCulprit
  <2>1. /\ phase = "halving" /\ Len(remaining) <= 1
        /\ remaining # <<>> /\ remaining \in Seq(Dimensions)
        /\ lower \in Seq(Dimensions)
        /\ Noted(trail, lower, FALSE) /\ Noted(trail, lower \o remaining, TRUE)
    BY <1>5 DEF NameCulprit, Bracketed, BisectTypeOK
  <2>2. remaining = <<remaining[1]>> /\ remaining[1] \in Dimensions
    BY <2>1, SingletonLemma
  <2>3. lower \o remaining = Append(lower, remaining[1])
    BY <2>1, <2>2, AppendIsConcat
  <2>4. /\ culprit' = remaining[1] /\ trail' = trail /\ phase' = "done"
        /\ inconclusive' = "none"
        /\ UNCHANGED <<dimensions, lower, remaining>>
    BY <1>5 DEF NameCulprit, Conclude
  <2>5. PICK i \in 1..Len(trail) : trail[i] = <<lower, FALSE>>
    BY <2>1 DEF Noted
  <2>6. PICK j \in 1..Len(trail) : trail[j] = <<lower \o remaining, TRUE>>
    BY <2>1 DEF Noted
  <2>7. /\ trail[i][1] = lower /\ trail[i][2] = FALSE
        /\ trail[j] = <<Append(trail[i][1], remaining[1]), TRUE>>
    BY <2>3, <2>5, <2>6
  <2>8. CulpritIsImplicated'
    BY <2>4, <2>7 DEF CulpritIsImplicated
  <2>9. BisectTypeOK'
    BY <2>2, <2>4 DEF BisectTypeOK, Phases, Reasons
  <2> QED BY <2>4, <2>8, <2>9 DEF Bracketed, OnlyAtTheEnd
<1>6. CASE UNCHANGED bisectVars
  BY <1>6 DEF bisectVars, BisectTypeOK, Bracketed, Noted, OnlyAtTheEnd, CulpritIsImplicated
<1> QED BY <1>1, <1>2, <1>3, <1>4, <1>5, <1>6 DEF BisectNext

-----------------------------------------------------------------------------
(* What `bisect` costs and what it names.                                  *)

LEMMA PowerLemma ==
  /\ PowerOfTwo[0] = 1
  /\ \A n \in Nat : PowerOfTwo[n + 1] = 2 * PowerOfTwo[n]
  /\ \A n \in Nat : PowerOfTwo[n] \in Nat \ {0}
<1> DEFINE A == Nat \ {0}
           G == [x \in Nat \X A |-> 2 * x[2]]
           Eq(f) == f = [n \in Nat |-> IF n = 0 THEN 1 ELSE 2 * f[n - 1]]
<1>1. 1 \in A /\ G \in StepFunctions(A)
  BY DEF StepFunctions
<1>2. PICK f : f \in [Nat -> A] /\ f[0] = 1 /\ \A n \in Nat : f[n + 1] = G[<<n, f[n]>>]
  <2> HIDE DEF A, G
  <2>1. \E f : Recursion(f, A, 1, G)
    BY <1>1, RecursiveFunction
  <2> QED BY <2>1 DEF Recursion
<1>3. \A n \in Nat : f[n + 1] = 2 * f[n]
  BY <1>2
<1>4. \A n \in Nat : f[n] = IF n = 0 THEN 1 ELSE 2 * f[n - 1]
  <2> SUFFICES ASSUME NEW n \in Nat, n # 0 PROVE f[n] = 2 * f[n - 1]
    BY <1>2
  <2>1. n - 1 \in Nat /\ (n - 1) + 1 = n
    OBVIOUS
  <2> HIDE DEF A, G
  <2> QED BY <1>3, <2>1
<1>5. Eq(f)
  <2>1. f = [n \in Nat |-> f[n]]
    BY <1>2
  <2> QED BY <1>4, <2>1
<1>6. Eq(PowerOfTwo)
  <2>1. PowerOfTwo = CHOOSE g : Eq(g)
    BY DEF PowerOfTwo
  <2> HIDE DEF Eq
  <2> QED BY <1>5, <2>1
<1>7. PowerOfTwo[0] = 1
  BY <1>6
<1>8. ASSUME NEW n \in Nat PROVE PowerOfTwo[n + 1] = 2 * PowerOfTwo[n]
  <2>1. n + 1 \in Nat /\ n + 1 # 0 /\ (n + 1) - 1 = n
    OBVIOUS
  <2> QED BY <1>6, <2>1
<1> DEFINE S == {n \in Nat : PowerOfTwo[n] \in Nat \ {0}}
<1>9. Nat \subseteq S
  <2>1. 0 \in S
    BY <1>7
  <2>2. ASSUME NEW n \in Nat, n \in S PROVE n + 1 \in S
    <3>1. PowerOfTwo[n] \in Nat \ {0}
      BY <2>2
    <3> QED BY <1>8, <3>1
  <2> HIDE DEF S
  <2> QED BY <2>1, <2>2, Induction
<1> QED BY <1>7, <1>8, <1>9

LEMMA HalvedInit == BisectInit => Halved
BY DEF BisectInit, Halved, NoQuestionTwice, LogarithmicCost, verdicts

LEMMA HalvedStep ==
  ASSUME IInv, Halved, [BisectNext]_bisectVars
  PROVE  Halved'
<1> USE DEF IInv
<1>0. /\ dimensions \in Seq(Dimensions) /\ Len(dimensions) \in Nat
      /\ lower \in Seq(Dimensions) /\ remaining \in Seq(Dimensions)
      /\ Len(lower) \in Nat /\ Len(remaining) \in Nat
      /\ trail \in Seq(Seq(Dimensions) \X BOOLEAN) /\ Len(trail) \in Nat
      /\ <<>> \in Seq(Dimensions)
      /\ dimensions # <<>> => Len(dimensions) >= 1
  BY DiffsAssumption DEF BisectTypeOK
<1>1. CASE CheckDiffers
  BY <1>1 DEF CheckDiffers, Conclude, Continue, Halved, NoQuestionTwice, LogarithmicCost, verdicts
<1>2. CASE AskNothing
  <2>1. trail = <<>> /\ Len(trail) = 0 /\ phase' \in {"done", "everything"}
    BY <1>2 DEF AskNothing, Halved, Conclude, Continue
  <2>2. PICK a \in BOOLEAN : Ask(<<>>, a)
    BY <1>2 DEF AskNothing
  <2>3. Len(trail') = 1 /\ trail'[1] = <<<<>>, a>>
    <3>1. Len(trail') = Len(trail) + 1 /\ trail'[Len(trail) + 1] = <<<<>>, a>>
      BY <1>0, <2>2, AskLemma, Zenon
    <3> QED BY <2>1, <3>1
  <2>4. NoQuestionTwice' /\ LogarithmicCost'
    BY <2>3 DEF NoQuestionTwice, LogarithmicCost, verdicts
  <2> QED BY <2>1, <2>3, <2>4 DEF Halved
<1>3. CASE AskEverything
  <2>1. /\ phase = "everything" /\ phase' \in {"done", "halving"}
        /\ UNCHANGED <<dimensions, lower, remaining>>
        /\ lower = <<>> /\ remaining = dimensions /\ dimensions # <<>>
        /\ Len(trail) = 1 /\ trail[1][1] = <<>>
    BY <1>3 DEF AskEverything, Halved, Bracketed, Conclude, Continue
  <2>2. PICK a \in BOOLEAN : Ask(dimensions, a)
    BY <1>3 DEF AskEverything
  <2>3. /\ Len(trail') = 2 /\ trail'[1] = trail[1] /\ trail'[2] = <<dimensions, a>>
        /\ trail'[1][1] = <<>> /\ trail'[2][1] = dimensions
    BY <1>0, <2>1, <2>2, AskLemma
  <2>4. NoQuestionTwice' /\ LogarithmicCost'
    <3>1. \A i \in 1..2 : i = 1 \/ i = 2
      OBVIOUS
    <3>2. NoQuestionTwice'
      BY <2>1, <2>3, <3>1 DEF NoQuestionTwice
    <3> QED BY <2>3, <3>2 DEF LogarithmicCost, verdicts
  <2>5. PowerOfTwo[Len(trail') - 2] * (Len(remaining') - 1) < Len(dimensions')
    <3>1. PowerOfTwo[Len(trail') - 2] = 1
      BY <2>3, PowerLemma
    <3> QED BY <1>0, <2>1, <3>1
  <2>6. \A i \in 1..Len(trail') : \/ Len(trail'[i][1]) <= Len(lower')
                                  \/ Len(trail'[i][1]) >= Len(lower') + Len(remaining')
    <3>1. \A i \in 1..2 : i = 1 \/ i = 2
      OBVIOUS
    <3>2. Len(lower') = 0 /\ Len(remaining') = Len(dimensions)
      BY <2>1
    <3> QED BY <1>0, <2>1, <2>3, <3>1, <3>2
  <2> QED BY <2>1, <2>3, <2>4, <2>5, <2>6 DEF Halved
<1>4. CASE Halve
  <2>1. phase = "halving" /\ Len(remaining) > 1 /\ phase' = phase /\ dimensions' = dimensions
    BY <1>4 DEF Halve
  <2> DEFINE l == Len(lower)
             r == Len(remaining)
             v == Len(trail)
             h == half
             P == PowerOfTwo[v - 2]
             asked == lower \o FirstHalf
  <2>2. /\ FirstHalf \in Seq(Dimensions) /\ SecondHalf \in Seq(Dimensions)
        /\ h \in 1..(r - 1) /\ Len(FirstHalf) = h /\ Len(SecondHalf) = r - h
    BY <2>1, HalvesLemma
  <2>3. 2 * h <= r /\ r <= 2 * h + 1
    BY <1>0 DEF half
  <2>4. asked \in Seq(Dimensions) /\ Len(asked) = l + h
    BY <1>0, <2>2, ConcatProperties
  <2> HIDE DEF asked
  <2>5. PICK a \in BOOLEAN :
          /\ Ask(asked, a)
          /\ \/ a = TRUE /\ lower' = lower /\ Len(remaining') = h
             \/ a = FALSE /\ Len(lower') = l + h /\ Len(remaining') = r - h
    <3>1. CASE Ask(asked, TRUE) /\ remaining' = FirstHalf /\ lower' = lower
      BY <2>2, <3>1
    <3>2. CASE Ask(asked, FALSE) /\ lower' = asked /\ remaining' = SecondHalf
      BY <2>2, <2>4, <3>2
    <3> QED BY <1>4, <3>1, <3>2 DEF Halve, asked
  <2>6. /\ trail' \in Seq(Seq(Dimensions) \X BOOLEAN) /\ Len(trail') = v + 1
        /\ \A i \in 1..v : trail'[i] = trail[i]
        /\ trail'[v + 1] = <<asked, a>>
    BY <1>0, <2>4, <2>5, AskLemma
  <2>7. /\ v >= 2 /\ P * (r - 1) < Len(dimensions)
        /\ \A i \in 1..v : Len(trail[i][1]) <= l \/ Len(trail[i][1]) >= l + r
        /\ NoQuestionTwice
    BY <2>1 DEF Halved
  <2>8. v \in Nat /\ l \in Nat /\ r \in Nat /\ r > 1 /\ h \in Nat /\ 1 <= h /\ h <= r - 1
    BY <1>0, <2>1, <2>2
  <2>9. P \in Nat \ {0} /\ PowerOfTwo[v - 1] = 2 * P
    <3>1. v - 2 \in Nat /\ (v - 2) + 1 = v - 1
      BY <2>7, <2>8
    <3> QED BY <3>1, PowerLemma
  <2>10. \A i \in 1..v : Len(trail'[i][1]) <= l \/ Len(trail'[i][1]) >= l + r
    BY <2>6, <2>7
  <2>11. Len(trail'[v + 1][1]) = l + h /\ trail'[v + 1][1] = asked
    BY <2>4, <2>6
  <2>12. NoQuestionTwice'
    <3>1. \A i, j \in 1..v : trail'[i][1] = trail'[j][1] => i = j
      BY <2>6, <2>7 DEF NoQuestionTwice
    <3>2. \A i \in 1..v : trail'[i][1] # trail'[v + 1][1]
      <4> SUFFICES ASSUME NEW i \in 1..v PROVE Len(trail'[i][1]) # Len(trail'[v + 1][1])
        OBVIOUS
      <4> QED BY <2>8, <2>10, <2>11
    <3>3. \A i \in 1..(v + 1) : i \in 1..v \/ i = v + 1
      BY <2>8
    <3> QED BY <2>6, <3>1, <3>2, <3>3 DEF NoQuestionTwice
  <2>13. \A i \in 1..Len(trail') : \/ Len(trail'[i][1]) <= Len(lower')
                                   \/ Len(trail'[i][1]) >= Len(lower') + Len(remaining')
    <3> SUFFICES ASSUME NEW i \in 1..(v + 1)
                 PROVE  \/ Len(trail'[i][1]) <= Len(lower')
                        \/ Len(trail'[i][1]) >= Len(lower') + Len(remaining')
      BY <2>6
    <3> DEFINE x == Len(trail'[i][1])
    <3>1. x <= l \/ x >= l + r \/ x = l + h
      <4>1. i \in 1..v \/ i = v + 1
        BY <2>8
      <4> QED BY <2>10, <2>11, <4>1
    <3>2. x \in Int
      <4>1. trail'[i] \in Seq(Dimensions) \X BOOLEAN
        BY <1>0, <2>6
      <4> QED BY <4>1
    <3>3. \A y \in Int : (y <= l \/ y >= l + r \/ y = l + h) =>
            (y <= l \/ y >= l + h) /\ (y <= l + h \/ y >= (l + h) + (r - h))
      BY <2>8
    <3>4. (x <= l \/ x >= l + h) /\ (x <= l + h \/ x >= (l + h) + (r - h))
      BY <3>1, <3>2, <3>3
    <3> QED BY <2>5, <3>4
  <2>14. 2 * (Len(remaining') - 1) <= r - 1 /\ Len(remaining') \in Nat
    BY <2>3, <2>5, <2>8
  <2>15. P * (2 * (Len(remaining') - 1)) <= P * (r - 1) /\ P <= P * (r - 1)
    <3>1. \A x, y \in Int : x <= y => P * x <= P * y
      <4> HIDE DEF P
      <4> QED BY <2>9
    <3>2. /\ 2 * (Len(remaining') - 1) \in Int /\ r - 1 \in Int
          /\ 1 <= r - 1 /\ P * 1 = P
      BY <2>8, <2>9, <2>14
    <3> HIDE DEF P
    <3> QED BY <2>14, <3>1, <3>2
  <2>16. PowerOfTwo[Len(trail') - 2] * (Len(remaining') - 1) < Len(dimensions')
    <3>1. Len(trail') - 2 = v - 1
      BY <2>6, <2>8
    <3>2. PowerOfTwo[Len(trail') - 2] * (Len(remaining') - 1) = P * (2 * (Len(remaining') - 1))
      <4>1. \A p, x \in Int : (2 * p) * x = p * (2 * x)
        OBVIOUS
      <4>2. P \in Int /\ Len(remaining') - 1 \in Int
        BY <2>9, <2>14
      <4> HIDE DEF P
      <4> QED BY <2>9, <3>1, <4>1, <4>2
    <3> DEFINE w == P * (2 * (Len(remaining') - 1))
               u == P * (r - 1)
    <3>3. w \in Int /\ u \in Int /\ w <= u /\ u < Len(dimensions)
      <4>1. \A p, x \in Int : p * x \in Int
        OBVIOUS
      <4>2. P \in Int /\ 2 * (Len(remaining') - 1) \in Int /\ r - 1 \in Int
        BY <2>8, <2>9, <2>14
      <4>3. w \in Int /\ u \in Int
        BY <4>1, <4>2
      <4>4. w <= u
        BY <2>15
      <4>5. u < Len(dimensions)
        BY <2>7
      <4> QED BY <4>3, <4>4, <4>5
    <3>4. w < Len(dimensions)
      <4> HIDE DEF w, u
      <4> QED BY <1>0, <3>3
    <3> HIDE DEF P
    <3> QED BY <2>1, <3>2, <3>4
  <2>17. LogarithmicCost'
    <3>1. Len(trail') - 3 = v - 2 /\ Len(trail') > 2
      BY <2>6, <2>7, <2>8
    <3>2. P < Len(dimensions)
      <4>1. P * (r - 1) \in Int
        BY <2>8, <2>9
      <4> HIDE DEF P
      <4> QED BY <1>0, <2>7, <2>9, <2>15, <4>1
    <3> QED BY <2>1, <3>1, <3>2 DEF LogarithmicCost, verdicts
  <2>18. Len(trail') >= 2
    BY <2>6, <2>7, <2>8
  <2> QED BY <2>1, <2>12, <2>13, <2>16, <2>17, <2>18 DEF Halved
<1>5. CASE NameCulprit
  BY <1>5 DEF NameCulprit, Conclude, Halved, NoQuestionTwice, LogarithmicCost, verdicts
<1>6. CASE UNCHANGED bisectVars
  BY <1>6 DEF bisectVars, Halved, NoQuestionTwice, LogarithmicCost, verdicts
<1> QED BY <1>1, <1>2, <1>3, <1>4, <1>5, <1>6 DEF BisectNext

(* A search ends with a culprit or a reason, whatever is answered.         *)
LEMMA ConcludedStep ==
  ASSUME IInv, Concluded, [BisectNext]_bisectVars
  PROVE  Concluded'
<1> USE DEF Concluded, ConclusionIsStated
<1>1. CASE CheckDiffers \/ AskNothing \/ AskEverything
  BY <1>1 DEF CheckDiffers, AskNothing, AskEverything, Conclude, Continue, IInv, OnlyAtTheEnd
<1>2. CASE Halve
  BY <1>2 DEF Halve
<1>3. CASE NameCulprit
  <2>1. remaining # <<>> /\ remaining \in Seq(Dimensions) /\ Len(remaining) <= 1
    BY <1>3 DEF NameCulprit, IInv, Bracketed, BisectTypeOK
  <2>2. remaining[1] \in Dimensions
    BY <2>1, SingletonLemma
  <2>3. culprit' = remaining[1] /\ inconclusive' = "none" /\ phase' = "done"
    BY <1>3 DEF NameCulprit, Conclude
  <2> QED BY <2>2, <2>3, NoCulpritAssumption
<1>4. CASE UNCHANGED bisectVars
  BY <1>4 DEF bisectVars
<1> QED BY <1>1, <1>2, <1>3, <1>4 DEF BisectNext

(* What a recorded answer of somebody who tells the truth means.           *)
LEMMA TruthLemma ==
  ASSUME Truthful(trail), reliable,
         NEW candidate, NEW answer, Noted(trail, candidate, answer)
  PROVE  answer = (causes \subseteq Members(candidate))
<1>1. PICK i \in 1..Len(trail) : trail[i] = <<candidate, answer>>
  BY DEF Noted
<1>2. trail[i][2] = (causes \subseteq Members(trail[i][1]))
  BY DEF Truthful
<1>3. trail[i][1] = candidate /\ trail[i][2] = answer
  BY <1>1
<1> QED BY <1>2, <1>3

(* What fails with the last dimension and works without it has one of its  *)
(* causes in that dimension.                                               *)
LEMMA NamesACauseStep ==
  ASSUME IInv, NamesACause, Truthful(trail), [BisectNext]_bisectVars, UNCHANGED <<reliable, causes>>
  PROVE  NamesACause'
<1> USE DEF NamesACause
<1>1. CASE CheckDiffers \/ AskNothing \/ AskEverything
  BY <1>1 DEF CheckDiffers, AskNothing, AskEverything, Conclude, Continue
<1>2. CASE Halve
  BY <1>2 DEF Halve
<1>3. CASE NameCulprit
  <2> SUFFICES ASSUME reliable PROVE remaining[1] \in causes
    BY <1>3 DEF NameCulprit, Conclude
  <2>1. /\ remaining # <<>> /\ remaining \in Seq(Dimensions) /\ Len(remaining) <= 1
        /\ lower \in Seq(Dimensions)
        /\ Noted(trail, lower, FALSE) /\ Noted(trail, lower \o remaining, TRUE)
    BY <1>3 DEF NameCulprit, IInv, Bracketed, BisectTypeOK
  <2>2. ~(causes \subseteq Members(lower)) /\ causes \subseteq Members(lower \o remaining)
    BY <2>1, TruthLemma
  <2>3. Len(remaining) = 1 /\ Len(lower) \in Nat
    BY <2>1, SingletonLemma
  <2>4. /\ Len(lower \o remaining) = Len(lower) + 1
        /\ \A i \in 1..(Len(lower) + 1) :
             (lower \o remaining)[i] = IF i <= Len(lower) THEN lower[i] ELSE remaining[i - Len(lower)]
    BY <2>1, <2>3, ConcatProperties
  <2>5. Members(lower \o remaining) \subseteq Members(lower) \cup {remaining[1]}
    <3> SUFFICES ASSUME NEW i \in 1..(Len(lower) + 1)
                 PROVE  (lower \o remaining)[i] \in Members(lower) \cup {remaining[1]}
      BY <2>4 DEF Members
    <3>1. CASE i <= Len(lower)
      <4>1. i \in 1..Len(lower) /\ (lower \o remaining)[i] = lower[i]
        BY <2>3, <2>4, <3>1
      <4> QED BY <4>1 DEF Members
    <3>2. CASE i = Len(lower) + 1
      <4>1. i - Len(lower) = 1 /\ ~(i <= Len(lower))
        BY <2>3, <3>2
      <4> QED BY <2>4, <4>1
    <3> QED BY <2>3, <3>1, <3>2
  <2> QED BY <2>2, <2>5
<1>4. CASE UNCHANGED bisectVars
  BY <1>4 DEF bisectVars
<1> QED BY <1>1, <1>2, <1>3, <1>4 DEF BisectNext

LEMMA BisectInvInit == BisectInit => BisectInv
<1> SUFFICES ASSUME BisectInit PROVE BisectInv
  OBVIOUS
<1>1. Concluded /\ NamesACause
  BY DEF BisectInit, Concluded, ConclusionIsStated, NamesACause
<1> QED BY <1>1, InitLemma, HalvedInit DEF BisectInv

LEMMA BisectInvStep ==
  ASSUME BisectInv, Truthful(trail), [BisectNext]_bisectVars, UNCHANGED <<reliable, causes>>
  PROVE  BisectInv'
BY StepLemma, HalvedStep, ConcludedStep, NamesACauseStep DEF BisectInv

-----------------------------------------------------------------------------
(* The lists minimise_dimensions makes.                                    *)

(* The comprehension that leaves out a chunk is what its loop makes of it. *)
LEMMA LeavingLoop ==
  ASSUME NEW S, NEW list \in Seq(S), NEW chunk
  PROVE  \E f : /\ f[0] = <<>>
                /\ \A i \in 1..Len(list) :
                     f[i] = IF list[i] \in M!Range(chunk) THEN f[i - 1]
                            ELSE Append(f[i - 1], list[i])
                /\ M!Leaving(list, chunk) = f[Len(list)]
<1> DEFINE n == Len(list)
           Eq(f, k) == f = [i \in 0..k |->
                         IF i = 0 THEN <<>>
                         ELSE IF list[i] \in M!Range(chunk) THEN f[i - 1]
                         ELSE Append(f[i - 1], list[i])]
           E == {k \in Nat : \E f : Eq(f, k)}
<1>0. n \in Nat
  OBVIOUS
<1>1. Nat \subseteq E
  <2>1. 0 \in E
    <3>1. Eq([i \in 0..0 |-> <<>>], 0)
      OBVIOUS
    <3> QED BY <3>1
  <2>2. ASSUME NEW k \in Nat, k \in E PROVE k + 1 \in E
    <3>1. PICK f : Eq(f, k)
      BY <2>2
    <3> DEFINE g == [i \in 0..(k + 1) |->
                       IF i = k + 1
                       THEN IF list[i] \in M!Range(chunk) THEN f[i - 1]
                            ELSE Append(f[i - 1], list[i])
                       ELSE f[i]]
    <3>2. \A i \in 0..k : g[i] = f[i]
      OBVIOUS
    <3>3. ASSUME NEW i \in 0..(k + 1)
          PROVE  g[i] = IF i = 0 THEN <<>>
                        ELSE IF list[i] \in M!Range(chunk) THEN g[i - 1]
                        ELSE Append(g[i - 1], list[i])
      <4>1. CASE i = k + 1
        <5>1. g[i] = IF list[i] \in M!Range(chunk) THEN f[i - 1]
                     ELSE Append(f[i - 1], list[i])
          BY <4>1
        <5>2. i - 1 \in 0..k /\ i # 0
          BY <4>1
        <5>3. g[i - 1] = f[i - 1]
          BY <5>2, <3>2
        <5> HIDE DEF g
        <5> QED BY <5>1, <5>2, <5>3
      <4>2. CASE i # k + 1 /\ i # 0
        <5>1. i \in 0..k /\ i - 1 \in 0..k
          BY <4>2
        <5>2. g[i] = f[i] /\ g[i - 1] = f[i - 1]
          BY <5>1, <3>2
        <5>3. f[i] = IF list[i] \in M!Range(chunk) THEN f[i - 1]
                     ELSE Append(f[i - 1], list[i])
          BY <5>1, <3>1, <4>2
        <5> HIDE DEF g
        <5> QED BY <5>2, <5>3, <4>2
      <4>3. CASE i = 0
        <5>1. 0 \in 0..k
          OBVIOUS
        <5>2. g[0] = f[0] /\ f[0] = <<>>
          BY <5>1, <3>1, <3>2
        <5> HIDE DEF g
        <5> QED BY <5>2, <4>3
      <4> QED BY <4>1, <4>2, <4>3
    <3>4. Eq(g, k + 1)
      <4>1. DOMAIN g = 0..(k + 1) /\ g = [i \in 0..(k + 1) |-> g[i]]
        OBVIOUS
      <4> HIDE DEF g
      <4> QED BY <3>3, <4>1
    <3>5. k + 1 \in Nat
      OBVIOUS
    <3> HIDE DEF Eq, g
    <3> QED BY <3>4, <3>5
  <2> HIDE DEF E
  <2> QED BY <2>1, <2>2, Induction
<1>2. \E f : Eq(f, n)
  BY <1>0, <1>1
<1> DEFINE kept == CHOOSE f : Eq(f, n)
<1>3. Eq(kept, n)
  <2> HIDE DEF Eq
  <2> QED BY <1>2
<1>4. M!Leaving(list, chunk) = kept[n]
  BY DEF M!Leaving
<1> HIDE DEF kept
<1>5. kept[0] = <<>>
  BY <1>0, <1>3
<1>6. \A i \in 1..n : kept[i] = IF list[i] \in M!Range(chunk) THEN kept[i - 1]
                            ELSE Append(kept[i - 1], list[i])
  <2> SUFFICES ASSUME NEW i \in 1..n
               PROVE  kept[i] = IF list[i] \in M!Range(chunk) THEN kept[i - 1]
                                ELSE Append(kept[i - 1], list[i])
    OBVIOUS
  <2>1. i \in 0..n /\ i # 0
    BY <1>0
  <2> QED BY <1>3, <2>1
<1> QED BY <1>4, <1>5, <1>6

(* Leaving out a slice of a list whose elements differ leaves what stands  *)
(* before it and after it.                                                 *)
LEMMA LeavingSlice ==
  ASSUME NEW S, NEW list \in Seq(S), Differing(list),
         NEW lo \in 1..Len(list), NEW hi \in lo..Len(list)
  PROVE  M!Leaving(list, SubSeq(list, lo, hi)) = Outside(list, lo, hi)
<1> DEFINE n == Len(list)
           chunk == SubSeq(list, lo, hi)
           before == SubSeq(list, 1, lo - 1)
           Piece(k) == IF k < lo THEN SubSeq(list, 1, k) ELSE before \o SubSeq(list, hi + 1, k)
<1>0. /\ n \in Nat /\ lo \in Nat /\ hi \in Nat
      /\ 1 <= lo /\ lo <= hi /\ hi <= n
      /\ \A i \in 1..n : list[i] \in S
  OBVIOUS
<1>1. \A i \in 1..n : list[i] \in M!Range(chunk) <=> i \in lo..hi
  <2>1. /\ chunk \in Seq(S) /\ Len(chunk) = hi - lo + 1
        /\ \A j \in 1..(hi - lo + 1) : chunk[j] = list[lo + j - 1]
    BY <1>0, SubSeqProperties
  <2> HIDE DEF chunk
  <2>2. M!Range(chunk) = {chunk[j] : j \in 1..(hi - lo + 1)}
    <3>1. DOMAIN chunk = 1..(hi - lo + 1)
      BY <2>1
    <3> QED BY <3>1, Zenon DEF M!Range
  <2> SUFFICES ASSUME NEW i \in 1..n PROVE list[i] \in M!Range(chunk) <=> i \in lo..hi
    OBVIOUS
  <2>3. ASSUME i \in lo..hi PROVE list[i] \in M!Range(chunk)
    <3>1. i - lo + 1 \in 1..(hi - lo + 1) /\ lo + (i - lo + 1) - 1 = i
      BY <1>0, <2>3
    <3>2. list[i] = chunk[i - lo + 1]
      BY <2>1, <3>1
    <3> QED BY <2>2, <3>1, <3>2
  <2>4. ASSUME list[i] \in M!Range(chunk) PROVE i \in lo..hi
    <3>1. PICK j \in 1..(hi - lo + 1) : list[i] = chunk[j]
      BY <2>2, <2>4
    <3>2. lo + j - 1 \in lo..hi /\ lo + j - 1 \in 1..n
      BY <1>0
    <3>3. list[i] = list[lo + j - 1]
      BY <2>1, <3>1
    <3>4. i = lo + j - 1
      BY <3>2, <3>3 DEF Differing
    <3> QED BY <3>2, <3>4
  <2> QED BY <2>3, <2>4
<1>2. PICK f : /\ f[0] = <<>>
               /\ \A i \in 1..n : f[i] = IF list[i] \in M!Range(chunk) THEN f[i - 1]
                                         ELSE Append(f[i - 1], list[i])
               /\ M!Leaving(list, chunk) = f[n]
  BY LeavingLoop
<1> HIDE DEF chunk
<1>3. before \in Seq(S)
  BY <1>0, SubSeqProperties
<1> HIDE DEF before
<1> DEFINE E == {k \in Nat : k <= n => f[k] = Piece(k)}
<1>4. 0 \in E
  <2>1. SubSeq(list, 1, 0) = <<>>
    BY SubSeqEmpty
  <2>2. 0 < lo
    BY <1>0
  <2>3. f[0] = Piece(0)
    BY <1>2, <2>1, <2>2
  <2> HIDE DEF Piece
  <2> QED BY <2>3
<1>5. ASSUME NEW k \in Nat, k \in E PROVE k + 1 \in E
  <2> SUFFICES ASSUME k + 1 <= n PROVE f[k + 1] = Piece(k + 1)
    OBVIOUS
  <2>0. /\ k + 1 \in 1..n /\ (k + 1) - 1 = k /\ f[k] = Piece(k)
        /\ list[k + 1] \in S
    BY <1>0, <1>5
  <2>1. f[k + 1] = IF k + 1 \in lo..hi THEN f[k] ELSE Append(f[k], list[k + 1])
    BY <1>1, <1>2, <2>0
  <2>2. CASE k + 1 < lo
    <3>1. SubSeq(list, 1, k + 1) = SubSeq(list, 1, k) \o <<list[k + 1]>>
      BY <1>0, <2>0, SubSeqRecursiveSecond
    <3>2. SubSeq(list, 1, k) \in Seq(S)
      BY <1>0, <2>0, SubSeqProperties
    <3>3. Append(SubSeq(list, 1, k), list[k + 1]) = SubSeq(list, 1, k) \o <<list[k + 1]>>
      BY <2>0, <3>2, AppendIsConcat
    <3>4. k < lo /\ ~(k + 1 \in lo..hi)
      BY <1>0, <2>2
    <3> QED BY <2>0, <2>1, <2>2, <3>1, <3>3, <3>4
  <2>3. CASE k + 1 \in lo..hi
    <3>1. SubSeq(list, hi + 1, k + 1) = <<>> /\ SubSeq(list, hi + 1, k) = <<>>
      BY <1>0, <2>3, SubSeqEmpty
    <3>2. before \o <<>> = before
      BY <1>3, ConcatEmptySeq
    <3>3. Piece(k) = before
      <4>1. CASE k < lo
        <5>1. k = lo - 1
          BY <1>0, <2>3, <4>1
        <5> QED BY <4>1, <5>1 DEF before
      <4>2. CASE ~(k < lo)
        BY <3>1, <3>2, <4>2
      <4> QED BY <4>1, <4>2
    <3>4. Piece(k + 1) = before
      <4>1. ~(k + 1 < lo)
        BY <1>0, <2>3
      <4> QED BY <3>1, <3>2, <4>1
    <3> QED BY <2>0, <2>1, <2>3, <3>3, <3>4
  <2>4. CASE k + 1 > hi
    <3>1. /\ ~(k < lo) /\ ~(k + 1 < lo) /\ ~(k + 1 \in lo..hi)
          /\ hi + 1 \in 1..n /\ k + 1 \in (hi + 1)..n
      BY <1>0, <2>0, <2>4
    <3>2. SubSeq(list, hi + 1, k + 1) = SubSeq(list, hi + 1, k) \o <<list[k + 1]>>
      <4>1. SubSeq(list, hi + 1, k + 1) = SubSeq(list, hi + 1, (k + 1) - 1) \o <<list[k + 1]>>
        BY <3>1, SubSeqRecursiveSecond
      <4> QED BY <4>1, <2>0
    <3> DEFINE after == SubSeq(list, hi + 1, k)
    <3>3. after \in Seq(S)
      BY <1>0, <2>0, SubSeqProperties
    <3> HIDE DEF after
    <3>4. <<list[k + 1]>> \in Seq(S) /\ before \o after \in Seq(S)
      BY <2>0, <3>3, <1>3
    <3>5. Append(before \o after, list[k + 1]) = (before \o after) \o <<list[k + 1]>>
      BY <2>0, <3>4, AppendIsConcat
    <3>6. (before \o after) \o <<list[k + 1]>> = before \o (after \o <<list[k + 1]>>)
      <4>1. Associative(S)
        BY JoinAssociative, Zenon
      <4> QED BY <1>3, <3>3, <3>4, <4>1, Zenon DEF Associative
    <3>7. f[k] = before \o after
      BY <2>0, <3>1 DEF after
    <3>8. Piece(k + 1) = before \o (after \o <<list[k + 1]>>)
      BY <3>1, <3>2 DEF after
    <3> QED BY <2>1, <3>1, <3>5, <3>6, <3>7, <3>8
  <2> QED BY <1>0, <2>2, <2>3, <2>4
<1>6. Nat \subseteq E
  <2> HIDE DEF E
  <2> QED BY <1>4, <1>5, Induction
<1>7. f[n] = Piece(n)
  BY <1>0, <1>6
<1>8. ~(n < lo)
  BY <1>0
<1> QED BY <1>2, <1>7, <1>8 DEF Outside, chunk, before

(* What stands before and after the slice: shorter by the slice, still     *)
(* without repetition, and exactly the other members of the list.          *)
LEMMA OutsideProperties ==
  ASSUME NEW S, NEW list \in Seq(S), Differing(list),
         NEW lo \in 1..Len(list), NEW hi \in lo..Len(list)
  PROVE  /\ Outside(list, lo, hi) \in Seq(S)
         /\ Len(Outside(list, lo, hi)) = Len(list) - (hi - lo + 1)
         /\ Differing(Outside(list, lo, hi))
         /\ \A i \in 1..Len(list) :
              list[i] \in Members(Outside(list, lo, hi)) <=> i \notin lo..hi
<1> DEFINE n == Len(list)
           before == SubSeq(list, 1, lo - 1)
           after == SubSeq(list, hi + 1, n)
           out == before \o after
           d == hi - lo + 1
<1>0. /\ n \in Nat /\ lo \in Nat /\ hi \in Nat
      /\ 1 <= lo /\ lo <= hi /\ hi <= n
      /\ \A i \in 1..n : list[i] \in S
  OBVIOUS
<1>1. /\ before \in Seq(S) /\ Len(before) = lo - 1
      /\ \A i \in 1..(lo - 1) : before[i] = list[i]
  <2>1. \A i \in 1..(lo - 1) : list[i] \in S
    BY <1>0
  <2>2. /\ before \in Seq(S) /\ Len(before) = IF 1 <= lo - 1 THEN (lo - 1) - 1 + 1 ELSE 0
        /\ \A i \in 1..((lo - 1) - 1 + 1) : before[i] = list[1 + i - 1]
    BY <1>0, <2>1, SubSeqProperties
  <2> HIDE DEF before
  <2> QED BY <1>0, <2>2
<1>2. /\ after \in Seq(S) /\ Len(after) = n - hi
      /\ \A i \in 1..(n - hi) : after[i] = list[hi + i]
  <2>1. \A i \in (hi + 1)..n : list[i] \in S
    BY <1>0
  <2>2. /\ after \in Seq(S) /\ Len(after) = IF hi + 1 <= n THEN n - (hi + 1) + 1 ELSE 0
        /\ \A i \in 1..(n - (hi + 1) + 1) : after[i] = list[hi + 1 + i - 1]
    BY <1>0, <2>1, SubSeqProperties
  <2> HIDE DEF after
  <2> QED BY <1>0, <2>2
<1> HIDE DEF before, after
<1>3. /\ out \in Seq(S) /\ Len(out) = n - d
      /\ \A i \in 1..(n - d) : out[i] = IF i < lo THEN list[i] ELSE list[i + d]
  <2>1. /\ out \in Seq(S) /\ Len(out) = (lo - 1) + (n - hi)
        /\ \A i \in 1..((lo - 1) + (n - hi)) :
             out[i] = IF i <= lo - 1 THEN before[i] ELSE after[i - (lo - 1)]
    <3>1. /\ out \in Seq(S) /\ Len(out) = Len(before) + Len(after)
          /\ \A i \in 1..(Len(before) + Len(after)) :
               out[i] = IF i <= Len(before) THEN before[i] ELSE after[i - Len(before)]
      BY <1>1, <1>2, ConcatProperties
    <3>2. Len(before) = lo - 1 /\ Len(after) = n - hi
      BY <1>1, <1>2
    <3> QED BY <3>1, <3>2
  <2> HIDE DEF out
  <2>2. (lo - 1) + (n - hi) = n - d
    BY <1>0
  <2>3. ASSUME NEW i \in 1..(n - d) PROVE out[i] = IF i < lo THEN list[i] ELSE list[i + d]
    <3>1. CASE i < lo
      <4>1. i \in 1..(lo - 1) /\ i <= lo - 1
        BY <3>1, <1>0
      <4> QED BY <1>1, <2>1, <2>2, <3>1, <4>1
    <3>2. CASE ~(i < lo)
      <4>1. i - (lo - 1) \in 1..(n - hi) /\ ~(i <= lo - 1) /\ hi + (i - (lo - 1)) = i + d
        BY <3>2, <1>0
      <4> QED BY <1>2, <2>1, <2>2, <3>2, <4>1
    <3> QED BY <3>1, <3>2
  <2> QED BY <2>1, <2>2, <2>3
<1> HIDE DEF out
<1>4. Differing(out)
  <2> SUFFICES ASSUME NEW i \in 1..(n - d), NEW j \in 1..(n - d), out[i] = out[j]
               PROVE  i = j
    BY <1>3 DEF Differing
  <2> DEFINE p == IF i < lo THEN i ELSE i + d
             q == IF j < lo THEN j ELSE j + d
  <2>1. p \in 1..n /\ q \in 1..n
    BY <1>0
  <2>2. list[p] = list[q]
    BY <1>3
  <2>3. p = q
    <3> HIDE DEF p, q
    <3> QED BY <2>1, <2>2 DEF Differing
  <2> QED BY <1>0, <2>3
<1>5. ASSUME NEW i \in 1..n PROVE list[i] \in Members(out) <=> i \notin lo..hi
  <2>1. ASSUME i \notin lo..hi PROVE list[i] \in Members(out)
    <3> DEFINE p == IF i < lo THEN i ELSE i - d
    <3>1. p \in 1..(n - d) /\ (IF p < lo THEN p ELSE p + d) = i
      BY <1>0, <2>1
    <3>2. out[p] = list[i]
      <4> HIDE DEF p
      <4> QED BY <1>3, <3>1
    <3> HIDE DEF p
    <3> QED BY <1>3, <3>1, <3>2 DEF Members
  <2>2. ASSUME list[i] \in Members(out) PROVE i \notin lo..hi
    <3>1. PICK p \in 1..(n - d) : list[i] = out[p]
      BY <1>3, <2>2 DEF Members
    <3> DEFINE q == IF p < lo THEN p ELSE p + d
    <3>2. q \in 1..n /\ q \notin lo..hi
      BY <1>0
    <3>3. list[i] = list[q]
      BY <1>3, <3>1
    <3>4. i = q
      <4> HIDE DEF q
      <4> QED BY <3>2, <3>3 DEF Differing
    <3> QED BY <3>2, <3>4
  <2> QED BY <2>1, <2>2
<1> QED BY <1>3, <1>4, <1>5 DEF Outside, out, before, after

-----------------------------------------------------------------------------
(* The sizes and the cost of its rounds.                                   *)

LEMMA DivisionLemma ==
  ASSUME NEW a \in Nat, NEW b \in Nat \ {0}
  PROVE  /\ a \div b \in Nat
         /\ (a \div b) * b <= a
         /\ a < (a \div b) * b + b
  OBVIOUS

(* A round over m dimensions at granularity g: c chunks of s dimensions,   *)
(* of which the last may be shorter.                                       *)
Sizes(m, g, s, c) ==
  /\ m \in Nat /\ m > 1 /\ g \in Nat /\ g >= 2
  /\ s \in Nat \ {0} /\ c \in Nat
  /\ c >= 2 /\ c <= m /\ s < m
  /\ (c - 1) * s < m /\ m <= c * s
  /\ 2 * g > m => s = 1 /\ c = m
  /\ 2 * g <= m => 2 * s <= m /\ 2 <= s /\ 2 * c <= 3 * g /\ s * g <= m

LEMMA RoundSizes ==
  ASSUME NEW m \in Nat, m > 1, NEW g \in Nat \ {0, 1},
         NEW s, s = M!Largest(1, m \div g),
         NEW c, c = (m + s - 1) \div s
  PROVE  Sizes(m, g, s, c)
<1> DEFINE q == m \div g
<1>1. q \in Nat /\ q * g <= m /\ m < q * g + g
  BY DivisionLemma
<1>2. s = IF 1 >= q THEN 1 ELSE q
  BY DEF M!Largest
<1> HIDE DEF q
<1>3. s \in Nat \ {0}
  BY <1>1, <1>2
<1>4. c \in Nat /\ c * s <= m + s - 1 /\ m + s - 1 < c * s + s
  <2>1. m + s - 1 \in Nat
    BY <1>3
  <2> QED BY <1>3, <2>1, DivisionLemma
<1>5. (c - 1) * s < m /\ m <= c * s
  <2>1. (c - 1) * s = c * s - s /\ c * s \in Int
    BY <1>3, <1>4
  <2> QED BY <1>3, <1>4, <2>1
<1>6. ASSUME 2 * g > m PROVE s = 1
  <2>1. ASSUME q >= 2 PROVE FALSE
    <3>1. q * g >= 2 * g
      BY <1>1, <2>1
    <3> QED BY <1>1, <1>6, <3>1
  <2> QED BY <1>1, <1>2, <2>1
<1>7. ASSUME 2 * g <= m PROVE 2 <= s /\ s * g <= m /\ 2 * s <= m /\ m < s * g + g
  <2>1. ASSUME q <= 1 PROVE FALSE
    <3>1. q * g <= g
      BY <1>1, <2>1
    <3> QED BY <1>1, <1>7, <3>1
  <2>2. s = q /\ q >= 2
    BY <1>1, <1>2, <2>1
  <2>3. q * 2 <= q * g
    BY <1>1
  <2> QED BY <1>1, <2>2, <2>3
<1>8. s < m
  BY <1>3, <1>6, <1>7
<1>9. c <= m
  <2>1. ASSUME c > m PROVE FALSE
    <3>1. c - 1 \in Nat /\ c - 1 >= m
      BY <1>4, <2>1
    <3>2. (c - 1) * 1 <= (c - 1) * s
      BY <1>3, <3>1
    <3> QED BY <1>5, <1>3, <3>1, <3>2
  <2> QED BY <1>4, <2>1
<1>10. c >= 2
  <2>1. ASSUME c <= 1 PROVE FALSE
    <3>1. c * s <= s
      BY <1>3, <1>4, <2>1
    <3> QED BY <1>3, <1>4, <1>5, <1>8, <3>1
  <2> QED BY <1>4, <2>1
<1>11. ASSUME s = 1 PROVE c = m
  <2>1. c * s = c
    BY <1>11, <1>4
  <2> QED BY <1>4, <1>11, <2>1
<1>12. ASSUME 2 * g <= m PROVE 2 * c <= 3 * g
  <2> SUFFICES ASSUME 2 * c >= 3 * g + 1 PROVE FALSE
    BY <1>4
  <2>1. s >= 2 /\ m < s * g + g
    BY <1>7, <1>12
  <2> DEFINE sg == s * g
             cs == c * s
  <2>2. sg \in Int /\ cs \in Int
    BY <1>3, <1>4
  <2>3. (2 * c) * s >= (3 * g + 1) * s
    BY <1>3, <1>4
  <2>4. (2 * c) * s = 2 * cs /\ (3 * g + 1) * s = 3 * sg + s
    BY <1>3, <1>4
  <2>5. 2 * cs <= 2 * sg + 2 * g + 2 * s - 4
    <3> HIDE DEF sg
    <3>1. m <= sg + g - 1
      BY <2>1, <2>2 DEF sg
    <3>2. cs <= m + s - 1
      BY <1>4
    <3> HIDE DEF cs
    <3> QED BY <1>3, <2>2, <3>1, <3>2
  <2>6. sg <= 2 * g + s - 4
    <3> HIDE DEF sg, cs
    <3> QED BY <1>3, <2>2, <2>3, <2>4, <2>5
  <2>7. sg = (s - 2) * (g - 2) + 2 * g + 2 * s - 4
    BY <1>3
  <2>8. (s - 2) * (g - 2) >= 0
    <3>1. s - 2 \in Nat /\ g - 2 \in Nat
      BY <1>3, <2>1
    <3> QED BY <3>1
  <2> DEFINE p == (s - 2) * (g - 2)
  <2>9. p \in Int /\ p >= 0 /\ sg = p + 2 * g + 2 * s - 4
    BY <1>3, <2>7, <2>8
  <2> HIDE DEF sg, p
  <2> QED BY <1>3, <2>1, <2>2, <2>6, <2>9
<1> QED BY <1>3, <1>4, <1>5, <1>6, <1>7, <1>8, <1>9, <1>10, <1>11, <1>12 DEF Sizes

LEMMA LeftIsNumber ==
  ASSUME NEW m \in Nat, m >= 1, NEW g \in Nat
  PROVE  /\ Left(m, g) \in Nat
         /\ Left(m, g) >= m * m + m - 2
         /\ m * m >= m
<1>1. m * m \in Nat /\ m * m >= m
  <2>1. m * m >= m * 1
    OBVIOUS
  <2> QED BY <2>1
<1> DEFINE mm == m * m
<1>2. mm \in Nat /\ mm >= m
  BY <1>1
<1> HIDE DEF mm
<1>3. Left(m, g) = mm + m - 2 + (IF g < m THEN 2 * m ELSE 0)
                            + (IF 2 * g < m THEN 3 * (m - g) ELSE 0)
  BY DEF Left, mm
<1>4. (IF g < m THEN 2 * m ELSE 0) \in Nat /\ (IF 2 * g < m THEN 3 * (m - g) ELSE 0) \in Nat
  OBVIOUS
<1>5. Left(m, g) \in Nat /\ Left(m, g) >= mm + m - 2
  BY <1>2, <1>3, <1>4
<1> QED BY <1>2, <1>5 DEF mm

(* The search has not asked two questions for every pair when it starts.   *)
LEMMA LeftAtStart ==
  ASSUME NEW n \in Nat, n >= 1
  PROVE  1 + Left(n, 2) <= 2 * n * n
<1> DEFINE nn == n * n
<1>1. nn \in Nat /\ 2 * n * n = 2 * nn
  OBVIOUS
<1>2. nn >= 5 * n \/ n \in 1..4
  <2>1. n >= 5 => n * n >= 5 * n
    OBVIOUS
  <2> QED BY <2>1
<1>3. CASE n \in 1..4
  <2>1. n = 1 \/ n = 2 \/ n = 3 \/ n = 4
    BY <1>3
  <2> QED BY <2>1 DEF Left
<1>4. CASE n >= 5
  <2>1. nn + n - 2 + 2 * n + 3 * (n - 2) + 1 <= 2 * nn
    <3>1. nn >= 5 * n /\ nn + 1 >= 6 * n - 6
      <4>1. (n - 3) * (n - 3) >= 4
        <5>1. n - 3 \in Nat /\ n - 3 >= 2
          BY <1>4
        <5>2. (n - 3) * (n - 3) >= 2 * (n - 3)
          BY <5>1
        <5> QED BY <5>1, <5>2
      <4>2. (n - 3) * (n - 3) = n * n - 6 * n + 9
        OBVIOUS
      <4>3. n * n >= 5 * n
        BY <1>4
      <4> QED BY <4>1, <4>2, <4>3
    <3> HIDE DEF nn
    <3>2. nn >= 6 * n - 7
      BY <3>1, <1>1
    <3> QED BY <1>1, <1>4, <3>1, <3>2
  <2>2. Left(n, 2) <= nn + n - 2 + 2 * n + 3 * (n - 2)
    <3> HIDE DEF nn
    <3>1. Left(n, 2) = nn + n - 2 + (IF 2 < n THEN 2 * n ELSE 0)
                            + (IF 4 < n THEN 3 * (n - 2) ELSE 0)
      BY DEF Left, nn
    <3> QED BY <1>1, <1>4, <3>1
  <2>3. Left(n, 2) \in Nat
    BY <1>4, LeftIsNumber
  <2> HIDE DEF nn
  <2> QED BY <1>1, <2>1, <2>2, <2>3
<1> QED BY <1>3, <1>4

(* A whole round is paid for, ...                                          *)
LEMMA LeftPaysRound ==
  ASSUME NEW m, NEW g, NEW s, NEW c, Sizes(m, g, s, c)
  PROVE  2 * c <= Left(m, g)
<1>1. m \in Nat /\ m > 1 /\ g \in Nat /\ c \in Nat /\ c <= m
  BY DEF Sizes
<1>2. m * m >= 2 * m
  BY <1>1
<1> DEFINE mm == m * m
<1>3. mm \in Int /\ mm >= 2 * m
  BY <1>1, <1>2
<1>4. Left(m, g) \in Nat /\ Left(m, g) >= mm + m - 2
  BY <1>1, LeftIsNumber
<1> HIDE DEF mm
<1> QED BY <1>1, <1>3, <1>4

(* ... and so is what remains after it, when the chunks get smaller, ...   *)
LEMMA LeftWhenFiner ==
  ASSUME NEW m, NEW g, NEW s, NEW c, Sizes(m, g, s, c), g < m
  PROVE  2 * c + Left(m, M!Least(m, g * 2)) <= Left(m, g)
<1> DEFINE h == M!Least(m, g * 2)
           mm == m * m
<1>1. /\ m \in Nat /\ m > 1 /\ g \in Nat /\ g >= 2 /\ c \in Nat /\ c <= m
      /\ 2 * g <= m => 2 * c <= 3 * g
      /\ mm \in Int
  BY DEF Sizes
<1>2. h \in Nat /\ h <= m /\ (2 * g <= m => h = 2 * g) /\ (2 * g > m => h = m)
  BY <1>1 DEF M!Least
<1> SUFFICES 2 * c + Left(m, h) <= Left(m, g)
  OBVIOUS
<1> HIDE DEF h
<1>3. /\ Left(m, g) = mm + m - 2 + (IF g < m THEN 2 * m ELSE 0)
                            + (IF 2 * g < m THEN 3 * (m - g) ELSE 0)
      /\ Left(m, h) = mm + m - 2 + (IF h < m THEN 2 * m ELSE 0)
                            + (IF 2 * h < m THEN 3 * (m - h) ELSE 0)
  BY DEF Left
<1> HIDE DEF mm
<1>4. CASE 2 * g > m
  BY <1>1, <1>2, <1>3, <1>4
<1>5. CASE 2 * g = m
  BY <1>1, <1>2, <1>3, <1>5
<1>6. CASE 2 * g < m
  BY <1>1, <1>2, <1>3, <1>6
<1> QED BY <1>1, <1>4, <1>5, <1>6

(* ... when a chunk of d dimensions fails, ...                             *)
LEMMA LeftAfterChunk ==
  ASSUME NEW m, NEW g, NEW s, NEW c, Sizes(m, g, s, c), NEW d \in 1..s
  PROVE  c + Left(d, 2) <= Left(m, g)
<1> DEFINE mm == m * m
           dd == d * d
<1>1. /\ m \in Nat /\ m > 1 /\ g \in Nat /\ g >= 2 /\ c \in Nat /\ c <= m
      /\ s \in Nat /\ d \in Nat /\ 1 <= d /\ d <= s
      /\ 2 * g > m => s = 1
      /\ 2 * g <= m => 2 * c <= 3 * g /\ 2 * s <= m
      /\ mm \in Int /\ dd \in Int
  BY DEF Sizes
<1>2. Left(d, 2) = dd + d - 2 + (IF 2 < d THEN 2 * d ELSE 0)
                            + (IF 4 < d THEN 3 * (d - 2) ELSE 0)
  BY DEF Left
<1>3. Left(m, g) = mm + m - 2 + (IF g < m THEN 2 * m ELSE 0)
                            + (IF 2 * g < m THEN 3 * (m - g) ELSE 0)
  BY DEF Left
<1>4. CASE 2 * g > m
  <2>1. d = 1
    BY <1>1, <1>4
  <2>2. Left(d, 2) = 0
    BY <2>1 DEF Left
  <2>3. mm >= 2 * m
    BY <1>1
  <2>4. Left(m, g) \in Nat /\ Left(m, g) >= mm + m - 2
    BY <1>1, LeftIsNumber
  <2> HIDE DEF mm, dd
  <2> QED BY <1>1, <2>2, <2>3, <2>4
<1>5. CASE 2 * g <= m
  <2>1. 4 * dd <= mm
    <3>1. 2 * d <= m
      BY <1>1, <1>5
    <3>2. (2 * d) * (2 * d) <= m * (2 * d)
      BY <1>1, <3>1
    <3>3. m * (2 * d) <= m * m
      BY <1>1, <3>1
    <3>4. (2 * d) * (2 * d) = 4 * dd /\ m * (2 * d) \in Int
      BY <1>1
    <3> QED BY <1>1, <3>2, <3>3, <3>4
  <2>2. m >= 4 /\ mm >= 4 * m
    <3>1. m >= 4
      BY <1>1, <1>5
    <3> QED BY <1>1, <3>1
  <2> HIDE DEF mm, dd
  <2>3. Left(d, 2) <= dd + 6 * d
    BY <1>1, <1>2
  <2>4. Left(m, g) >= mm + 3 * m - 2 /\ Left(m, g) \in Int /\ Left(d, 2) \in Int
    BY <1>1, <1>2, <1>3, <1>5
  <2>5. 4 * c <= 3 * m /\ 2 * d <= m
    BY <1>1, <1>5
  <2> QED BY <1>1, <2>1, <2>2, <2>3, <2>4, <2>5
<1> QED BY <1>1, <1>4, <1>5

(* ... and when leaving out a chunk of d dimensions fails.                 *)
LEMMA LeftAfterComplement ==
  ASSUME NEW m, NEW g, NEW s, NEW c, Sizes(m, g, s, c), NEW d \in 1..s,
         2 * g = m => d = 2
  PROVE  2 * c + Left(m - d, M!Largest(2, g - 1)) <= Left(m, g)
<1> DEFINE h == M!Largest(2, g - 1)
           k == m - d
           mm == m * m
           kk == k * k
           dm == d * m
           dd == d * d
<1>1. /\ m \in Nat /\ m > 1 /\ g \in Nat /\ g >= 2 /\ c \in Nat /\ c <= m
      /\ s \in Nat /\ d \in Nat /\ 1 <= d /\ d <= s /\ s < m
      /\ 2 * g > m => s = 1 /\ c = m
      /\ 2 * g <= m => 2 * c <= 3 * g /\ 2 * s <= m /\ 2 <= s
      /\ mm \in Int /\ kk \in Int /\ dm \in Int /\ dd \in Int
  BY DEF Sizes
<1>2. h \in Nat /\ h >= 2 /\ h >= g - 1 /\ (h = 2 \/ h = g - 1)
  BY <1>1 DEF M!Largest
<1>3. /\ Left(m, g) = mm + m - 2 + (IF g < m THEN 2 * m ELSE 0)
                            + (IF 2 * g < m THEN 3 * (m - g) ELSE 0)
      /\ Left(k, h) = kk + k - 2 + (IF h < k THEN 2 * k ELSE 0)
                            + (IF 2 * h < k THEN 3 * (k - h) ELSE 0)
  BY DEF Left
<1>4. kk = mm - 2 * dm + dd
  BY <1>1
<1>5. k \in Nat /\ k >= 1
  BY <1>1
<1> SUFFICES 2 * c + Left(k, h) <= Left(m, g)
  OBVIOUS
<1> HIDE DEF h, kk, mm
<1>6. CASE 2 * g > m
  <2>1. d = 1 /\ c = m /\ dm = m /\ dd = 1 /\ k = m - 1
    BY <1>1, <1>6
  <2> HIDE DEF dm, dd, k
  <2>2. kk = mm - 2 * m + 1
    BY <1>1, <1>4, <2>1
  <2>3. 2 * h >= k
    BY <1>1, <1>2, <1>6, <2>1
  <2>4. g >= m => h >= k
    BY <1>1, <1>2, <2>1
  <2> QED BY <1>1, <1>2, <1>3, <1>5, <2>1, <2>2, <2>3, <2>4
<1>7. CASE 2 * g = m
  <2>1. d = 2 /\ dm = 2 * m /\ dd = 4 /\ k = m - 2
    BY <1>1, <1>7
  <2> HIDE DEF dm, dd, k
  <2>2. kk = mm - 4 * m + 4
    BY <1>1, <1>4, <2>1
  <2> QED BY <1>1, <1>2, <1>3, <1>5, <1>7, <2>1, <2>2
<1>8. CASE 2 * g < m
  <2>1. 2 * dm - dd >= 2 * m - 1
    <3>1. (d - 1) * (2 * m - d - 1) = 2 * dm - dd - 2 * m + 1
      BY <1>1
    <3>2. (d - 1) * (2 * m - d - 1) >= 0
      <4>1. d - 1 \in Nat /\ 2 * m - d - 1 \in Nat
        BY <1>1
      <4> QED BY <4>1
    <3> DEFINE x == (d - 1) * (2 * m - d - 1)
    <3>3. x \in Int /\ x >= 0 /\ x = 2 * dm - dd - 2 * m + 1
      BY <3>1, <3>2, <1>1
    <3> HIDE DEF x, dm, dd
    <3> QED BY <1>1, <3>3
  <2>2. k <= m - 1
    BY <1>1
  <2> HIDE DEF dm, dd, k
  <2>3. kk <= mm - 2 * m + 1
    BY <1>1, <1>4, <2>1
  <2>4. 2 * c <= 3 * g
    BY <1>1, <1>8
  <2>5. Left(m, g) = mm + m - 2 + 2 * m + 3 * (m - g)
    BY <1>1, <1>3, <1>8
  <2>6. CASE h >= k
    <3>1. Left(k, h) = kk + k - 2
      BY <1>1, <1>2, <1>3, <1>5, <2>6
    <3> QED BY <1>1, <1>5, <1>8, <2>2, <2>3, <2>4, <2>5, <3>1
  <2>7. CASE h < k
    <3>1. Left(k, h) <= kk + k - 2 + 2 * k + 3 * (k - h) /\ Left(k, h) \in Int
      BY <1>1, <1>2, <1>3, <1>5, <2>7
    <3> QED BY <1>1, <1>2, <1>5, <1>8, <2>2, <2>3, <2>4, <2>5, <3>1
  <2> QED BY <1>2, <1>5, <2>6, <2>7
<1> QED BY <1>1, <1>6, <1>7, <1>8

-----------------------------------------------------------------------------
(* Every step of minimise_dimensions.                                      *)

LEMMA RoundLemma ==
  ASSUME M!TypeOK, Len(current) > 1
  PROVE  Sizes(Len(current), granularity, M!size, M!NChunks)
<1> DEFINE m == Len(current)
           s == M!size
           c == M!NChunks
<1>1. m \in Nat /\ m > 1 /\ granularity \in Nat \ {0, 1}
  BY DEF M!TypeOK
<1>2. s = M!Largest(1, m \div granularity) /\ c = (m + s - 1) \div s
  BY DEF M!size, M!NChunks
<1> HIDE DEF m, s, c
<1>3. Sizes(m, granularity, s, c)
  BY <1>1, <1>2, RoundSizes
<1> QED BY <1>3 DEF m, s, c

(* Each chunk of a round, and what remains without it, is a list shorter   *)
(* than the current one that is not empty.                                 *)
LEMMA ChunkLemma ==
  ASSUME M!TypeOK, Len(current) > 1, Differing(current), NEW k \in 1..M!NChunks
  PROVE  /\ M!Chunk(k) \in Seq(Dimensions)
         /\ M!Chunk(k) # <<>>
         /\ Differing(M!Chunk(k))
         /\ Len(M!Chunk(k)) \in 1..M!size
         /\ 2 * granularity = Len(current) => Len(M!Chunk(k)) = 2
         /\ M!Complement(k) \in Seq(Dimensions)
         /\ M!Complement(k) # <<>>
         /\ Differing(M!Complement(k))
         /\ Len(M!Complement(k)) = Len(current) - Len(M!Chunk(k))
<1> DEFINE m == Len(current)
           g == granularity
           s == M!size
           c == M!NChunks
           before == (k - 1) * s
           lo == before + 1
           hi == M!Least(k * s, m)
<1>1. current \in Seq(Dimensions) /\ m \in Nat /\ g \in Nat
  BY DEF M!TypeOK
<1>2. Sizes(m, g, s, c)
  BY RoundLemma
<1>3. /\ s \in Nat \ {0} /\ c \in Nat /\ s < m /\ m > 1 /\ g >= 2
      /\ (c - 1) * s < m /\ m <= c * s
      /\ 2 * g <= m => 2 <= s /\ s * g <= m
  BY <1>2 DEF Sizes
<1>4. M!Chunk(k) = SubSeq(current, lo, hi)
  BY DEF M!Chunk
<1>5. M!Complement(k) = M!Leaving(current, M!Chunk(k))
  BY DEF M!Complement
<1>6. k \in Nat /\ 1 <= k /\ k <= c
  BY <1>3
<1> HIDE DEF m, s, c, g
<1>7. before \in Nat /\ k * s = before + s
  <2>1. k - 1 \in Nat /\ k * s = (k - 1) * s + s
    BY <1>3, <1>6
  <2> QED BY <1>3, <2>1
<1>8. before < m
  <2>1. \A x, y \in Nat : x <= y => x * s <= y * s
    BY <1>3
  <2>2. k - 1 \in Nat /\ c - 1 \in Nat /\ k - 1 <= c - 1
    BY <1>3, <1>6
  <2>3. before <= (c - 1) * s /\ (c - 1) * s \in Int
    BY <1>3, <2>1, <2>2
  <2> QED BY <1>1, <1>3, <1>7, <2>3
<1>9. hi = IF before + s <= m THEN before + s ELSE m
  BY <1>7 DEF M!Least
<1> HIDE DEF before, hi
<1>10. lo \in 1..m /\ hi \in lo..m /\ hi - lo + 1 \in 1..s
  BY <1>1, <1>3, <1>7, <1>8, <1>9
<1>11. ASSUME 2 * g = m PROVE hi - lo + 1 = 2
  <2>1. s * g <= m /\ s >= 2
    BY <1>1, <1>3, <1>11
  <2>2. s = 2
    <3>1. ASSUME s >= 3 PROVE FALSE
      <4>1. s * g >= 3 * g
        BY <1>1, <1>3, <3>1
      <4> QED BY <1>1, <1>3, <1>11, <2>1, <4>1
    <3> QED BY <1>3, <2>1, <3>1
  <2>3. before = (k - 1) * 2 /\ (c - 1) * 2 < m
    BY <1>3, <2>2 DEF before
  <2> QED BY <1>1, <1>3, <1>6, <1>9, <1>11, <2>2, <2>3
<1> HIDE DEF lo
<1>12. m = Len(current)
  BY DEF m
<1>13. /\ M!Chunk(k) \in Seq(Dimensions)
       /\ Len(M!Chunk(k)) = hi - lo + 1
       /\ \A i \in 1..(hi - lo + 1) : M!Chunk(k)[i] = current[lo + i - 1]
  <2>1. lo \in Int /\ hi \in Int /\ lo <= hi
    BY <1>1, <1>10
  <2>2. \A i \in lo..hi : current[i] \in Dimensions
    BY <1>1, <1>10, <1>12
  <2> QED BY <1>4, <2>1, <2>2, SubSeqProperties
<1>14. Differing(M!Chunk(k))
  <2> SUFFICES ASSUME NEW i \in 1..(hi - lo + 1), NEW j \in 1..(hi - lo + 1),
                      M!Chunk(k)[i] = M!Chunk(k)[j]
               PROVE  i = j
    BY <1>13 DEF Differing
  <2>1. lo + i - 1 \in 1..m /\ lo + j - 1 \in 1..m
    BY <1>1, <1>10
  <2>2. lo + i - 1 = lo + j - 1
    BY <1>12, <1>13, <2>1 DEF Differing
  <2> QED BY <1>1, <1>10, <2>2
<1>15. M!Complement(k) = Outside(current, lo, hi)
  BY <1>1, <1>4, <1>5, <1>10, <1>12, LeavingSlice
<1>16. /\ M!Complement(k) \in Seq(Dimensions)
       /\ Differing(M!Complement(k))
       /\ Len(M!Complement(k)) = Len(current) - (hi - lo + 1)
  BY <1>1, <1>10, <1>12, <1>15, OutsideProperties
<1>17. M!Chunk(k) # <<>> /\ M!Complement(k) # <<>>
  BY <1>1, <1>3, <1>10, <1>12, <1>13, <1>16
<1> QED BY <1>10, <1>11, <1>13, <1>14, <1>16, <1>17 DEF m, s, g

(* When the granularity has reached the length of the list its chunks are  *)
(* single dimensions.                                                      *)
LEMMA SingleLemma ==
  ASSUME M!TypeOK, Len(current) > 1, granularity >= Len(current)
  PROVE  /\ M!NChunks = Len(current)
         /\ \A k \in 1..Len(current) :
              /\ M!Chunk(k) = <<current[k]>>
              /\ M!Complement(k) = M!Leaving(current, <<current[k]>>)
<1> DEFINE m == Len(current)
<1>1. current \in Seq(Dimensions) /\ m \in Nat /\ granularity \in Nat
  BY DEF M!TypeOK
<1>2. M!size = 1 /\ M!NChunks = m
  <2>1. 2 * granularity > m
    BY <1>1
  <2> QED BY <2>1, RoundLemma DEF Sizes
<1>3. ASSUME NEW k \in 1..m PROVE M!Chunk(k) = <<current[k]>>
  <2>1. (k - 1) * M!size + 1 = k /\ M!Least(k * M!size, m) = k
    BY <1>1, <1>2 DEF M!Least
  <2>2. M!Chunk(k) = SubSeq(current, k, k)
    BY <2>1 DEF M!Chunk
  <2>3. current[k] \in Dimensions
    BY <1>1
  <2>4. /\ SubSeq(current, k, k) \in Seq(Dimensions)
        /\ Len(SubSeq(current, k, k)) = 1
        /\ SubSeq(current, k, k)[1] = current[k]
    <3>1. k \in Int /\ k <= k /\ k - k + 1 = 1 /\ k + 1 - 1 = k
      BY <1>1
    <3>2. \A i \in k..k : current[i] \in Dimensions
      BY <2>3, <3>1
    <3> QED BY <3>1, <3>2, SubSeqProperties
  <2>5. M!Chunk(k) # <<>> /\ Len(M!Chunk(k)) <= 1
    BY <2>2, <2>4
  <2> QED BY <2>2, <2>4, <2>5, SingletonLemma
<1> QED BY <1>2, <1>3 DEF M!Complement

LEMMA MinimiseAsk == \A candidate, answer : M!Ask(candidate, answer) <=> Ask(candidate, answer)
BY DEF M!Ask, Ask

LEMMA SameRound ==
  ASSUME UNCHANGED <<current, granularity>>
  PROVE  /\ M!size' = M!size /\ M!NChunks' = M!NChunks
         /\ \A k : M!Chunk(k)' = M!Chunk(k) /\ M!Complement(k)' = M!Complement(k)
<1>1. M!size' = M!size
  BY DEF M!size
<1>2. M!NChunks' = M!NChunks
  BY <1>1 DEF M!NChunks
<1>3. \A k : M!Chunk(k)' = M!Chunk(k)
  BY <1>1 DEF M!Chunk
<1>4. \A k : M!Complement(k)' = M!Complement(k)
  BY <1>3 DEF M!Complement
<1> QED BY <1>1, <1>2, <1>3, <1>4

(* Within a round: what it has asked and what it may still cost.           *)
LEMMA RoundFacts ==
  ASSUME MinimiseInv, phase \in {"chunk", "complement"}
  PROVE  /\ current \in Seq(Dimensions) /\ Len(current) \in Nat /\ Len(current) > 1
         /\ Len(dimensions) \in Nat /\ Len(current) <= Len(dimensions)
         /\ M!NChunks \in Nat /\ 2 <= M!NChunks /\ M!NChunks <= Len(current)
         /\ index \in 1..M!NChunks
         /\ Len(trail) \in Nat /\ Ceiling \in Nat /\ max_verdicts \in Nat
         /\ Started \in Int /\ Started < max_verdicts
         /\ phase = "chunk" => Started = Len(trail) - (index - 1)
         /\ phase = "complement" => Started = Len(trail) - (M!NChunks + index - 1)
         /\ Left(Len(current), granularity) \in Nat
         /\ 2 * M!NChunks <= Left(Len(current), granularity)
         /\ Started + Left(Len(current), granularity) <= Ceiling
         /\ Sizes(Len(current), granularity, M!size, M!NChunks)
<1> USE DEF MinimiseInv
<1>1. /\ current \in Seq(Dimensions) /\ Len(current) \in Nat /\ granularity \in Nat \ {0, 1}
      /\ dimensions \in Seq(Dimensions) /\ Len(dimensions) \in Nat /\ Len(trail) \in Nat
      /\ max_verdicts \in Nat
  BY DiffsAssumption, BoundsAssumption DEF M!TypeOK
<1>2. Len(current) > 1 /\ index \in 1..M!NChunks /\ Len(current) <= Len(dimensions)
  BY DEF Tried, Held
<1>3. Sizes(Len(current), granularity, M!size, M!NChunks)
  BY <1>2, RoundLemma
<1>4. M!NChunks \in Nat /\ 2 <= M!NChunks /\ M!NChunks <= Len(current)
  BY <1>3 DEF Sizes
<1>5. Left(Len(current), granularity) \in Nat
  <2>1. Len(current) \in Nat /\ Len(current) >= 1 /\ granularity \in Nat
    BY <1>1, <1>2
  <2> QED BY <2>1, LeftIsNumber
<1>6. 2 * M!NChunks <= Left(Len(current), granularity)
  BY <1>3, LeftPaysRound
<1>7. Started < max_verdicts /\ Started + Left(Len(current), granularity) <= Ceiling
  BY DEF Spent, Rounds
<1>8. Ceiling \in Nat
  BY <1>1 DEF Ceiling
<1>9. /\ phase = "chunk" => Started = Len(trail) - (index - 1)
      /\ phase = "complement" => Started = Len(trail) - (M!NChunks + index - 1)
  BY DEF Started
<1>10. Started \in Int
  BY <1>1, <1>2, <1>4, <1>9
<1> QED BY <1>1, <1>2, <1>3, <1>4, <1>5, <1>6, <1>7, <1>8, <1>9, <1>10

(* One more verdict within a round is within its costs.                    *)
LEMMA VerdictLemma ==
  ASSUME MinimiseInv, phase \in {"chunk", "complement"},
         Len(trail') = Len(trail) + 1, UNCHANGED <<dimensions, max_verdicts>>
  PROVE  M!QuadraticCost' /\ M!OverrunIsOneRound'
<1> DEFINE m == Len(current)
           n == Len(dimensions)
           c == M!NChunks
           v == Len(trail)
           R == Left(Len(current), granularity)
<1>1. /\ m \in Nat /\ n \in Nat /\ m > 1 /\ m <= n
      /\ c \in Nat /\ c <= m /\ index \in 1..c
      /\ v \in Nat /\ Ceiling \in Nat /\ max_verdicts \in Nat
      /\ Started \in Int /\ Started < max_verdicts
      /\ R \in Nat /\ 2 * c <= R /\ Started + R <= Ceiling
  BY RoundFacts
<1>2. v + 1 <= Started + 2 * c
  <2>1. CASE phase = "chunk"
    <3>1. Started = v - (index - 1)
      BY <2>1, RoundFacts
    <3> QED BY <1>1, <3>1
  <2>2. CASE phase = "complement"
    <3>1. Started = v - (c + index - 1)
      BY <2>2, RoundFacts
    <3> QED BY <1>1, <3>1
  <2> QED BY <2>1, <2>2
<1> HIDE DEF m, n, c, v, R
<1>3. v + 1 <= Ceiling
  BY <1>1, <1>2
<1>4. v + 1 < M!Largest(1, max_verdicts) + 2 * M!Largest(1, n)
  BY <1>1, <1>2 DEF M!Largest
<1>5. M!QuadraticCost'
  BY <1>3 DEF M!QuadraticCost, M!verdicts, Ceiling, v
<1>6. M!OverrunIsOneRound'
  BY <1>4 DEF M!OverrunIsOneRound, M!verdicts, n, v
<1> QED BY <1>5, <1>6

(* A candidate that fails becomes the current list.                        *)
LEMMA ReduceLemma ==
  ASSUME MinimiseInv, phase \in {"chunk", "complement"},
         NEW candidate \in Seq(Dimensions), NEW g \in Nat \ {0, 1},
         candidate # <<>>, Differing(candidate), Len(candidate) <= Len(current),
         M!ReduceTo(candidate, g), UNCHANGED culprit,
         Len(trail) + 1 + Left(Len(candidate), g) <= Ceiling
  PROVE  MinimiseInv'
<1> USE DEF MinimiseInv
<1>1. /\ current' = candidate /\ granularity' = g /\ phase' = "round"
      /\ UNCHANGED <<dimensions, max_verdicts, index, inconclusive>>
      /\ Ask(candidate, TRUE)
  BY MinimiseAsk DEF M!ReduceTo
<1>2. /\ trail' \in Seq(Seq(Dimensions) \X BOOLEAN)
      /\ Noted(trail', candidate, TRUE)
      /\ Len(trail') = Len(trail) + 1
  BY <1>1, AskLemma DEF M!TypeOK
<1>3. M!TypeOK'
  BY <1>1, <1>2 DEF M!TypeOK, M!Phases
<1>4. Held'
  <2>1. Len(current') <= Len(dimensions')
    <3>1. Len(candidate) \in Nat
      OBVIOUS
    <3> QED BY <1>1, <3>1, RoundFacts
  <2>2. inconclusive' = "none"
    BY <1>1 DEF Held
  <2>3. Differing(current')
    BY <1>1
  <2>4. phase' \in Rounds => current' # <<>> /\ Noted(trail', current', TRUE)
    BY <1>1, <1>2
  <2> QED BY <1>1, <2>1, <2>2, <2>3, <2>4 DEF Held
<1>5. Tried'
  BY <1>1 DEF Tried
<1>6. Spent'
  <2>1. Started' = Len(trail') - 0
    BY <1>1 DEF Started
  <2>2. Len(trail') \in Nat
    BY <1>2
  <2>3. Started' + Left(Len(current'), granularity') <= Ceiling'
    BY <1>1, <1>2, <2>1, <2>2 DEF Ceiling
  <2>4. M!QuadraticCost' /\ M!OverrunIsOneRound'
    BY <1>1, <1>2, VerdictLemma
  <2> QED BY <1>1, <2>3, <2>4 DEF Spent
<1> QED BY <1>3, <1>4, <1>5, <1>6

LEMMA MinimiseStart ==
  ASSUME MinimiseInv, M!CheckDiffers \/ M!AskEverything \/ M!LoopHead, UNCHANGED culprit
  PROVE  MinimiseInv'
<1> USE DEF MinimiseInv
<1> DEFINE n == Len(dimensions)
<1>0. /\ current \in Seq(Dimensions) /\ dimensions \in Seq(Dimensions)
      /\ n \in Nat /\ Len(trail) \in Nat /\ max_verdicts \in Nat /\ Ceiling \in Nat
      /\ Len(current) \in Nat
  <2>1. /\ current \in Seq(Dimensions) /\ dimensions \in Seq(Dimensions) /\ max_verdicts \in Nat
        /\ trail \in Seq(Seq(Dimensions) \X BOOLEAN)
    BY DiffsAssumption, BoundsAssumption DEF M!TypeOK
  <2>2. n \in Nat /\ Len(trail) \in Nat /\ Len(current) \in Nat
    BY <2>1
  <2>3. Ceiling \in Nat
    BY <2>2 DEF Ceiling
  <2> QED BY <2>1, <2>2, <2>3
<1>1. CASE M!CheckDiffers
  <2>1. /\ UNCHANGED <<dimensions, max_verdicts, current, granularity, index, trail>>
        /\ phase = "empty_check"
        /\ \/ current = <<>> /\ phase' = "done" /\ inconclusive' = "no_difference"
           \/ current # <<>> /\ phase' = "everything" /\ UNCHANGED inconclusive
    BY <1>1 DEF M!CheckDiffers, M!Return
  <2>2. current = dimensions /\ trail = <<>> /\ granularity = 2 /\ inconclusive = "none"
    BY <2>1 DEF Held
  <2>3. M!TypeOK'
    BY <2>1 DEF M!TypeOK, M!Phases, M!Reasons
  <2>4. Held'
    BY <2>1, <2>2 DEF Held, Rounds
  <2>5. Tried'
    BY <2>1 DEF Tried
  <2>6. Spent'
    BY <2>1 DEF Spent, Rounds, M!QuadraticCost, M!OverrunIsOneRound, M!verdicts
  <2> QED BY <2>3, <2>4, <2>5, <2>6
<1>2. CASE M!AskEverything
  <2>1. /\ UNCHANGED <<dimensions, max_verdicts, current, granularity, index>>
        /\ phase = "everything"
        /\ \/ Ask(current, FALSE) /\ phase' = "done" /\ inconclusive' = "not_reproduced"
           \/ Ask(current, TRUE) /\ phase' = "round" /\ UNCHANGED inconclusive
    BY <1>2, MinimiseAsk DEF M!AskEverything, M!Return
  <2>2. /\ current = dimensions /\ trail = <<>> /\ granularity = 2 /\ inconclusive = "none"
        /\ current # <<>> /\ Differing(current)
    BY <2>1 DEF Held
  <2>3. PICK a \in BOOLEAN : Ask(current, a) /\ (phase' = "round" => a = TRUE)
    BY <2>1
  <2>4. /\ trail' \in Seq(Seq(Dimensions) \X BOOLEAN)
        /\ Noted(trail', current, a)
        /\ Len(trail') = Len(trail) + 1
    BY <1>0, <2>3, AskLemma DEF M!TypeOK
  <2>5. Len(trail') = 1
    <3>1. Len(trail) = 0
      BY <2>2
    <3> QED BY <2>4, <3>1
  <2>6. n >= 1
    <3>1. \A q \in Seq(Dimensions) : q # <<>> => Len(q) \in Nat \ {0}
      BY EmptySeq, Zenon
    <3>2. n \in Nat \ {0}
      BY <1>0, <2>2, <3>1
    <3> QED BY <3>2
  <2>7. M!TypeOK'
    BY <2>1, <2>4 DEF M!TypeOK, M!Phases, M!Reasons
  <2>8. Held'
    BY <2>1, <2>2, <2>3, <2>4, <1>0 DEF Held, Rounds
  <2>9. Tried'
    BY <2>1 DEF Tried
  <2>10. Spent'
    <3>1. 1 + Left(n, 2) <= Ceiling
      BY <1>0, <2>6, LeftAtStart DEF Ceiling
    <3>2. Left(n, 2) \in Nat
      BY <1>0, <2>6, LeftIsNumber
    <3>3. Ceiling' = Ceiling /\ n' = n
      BY <2>1 DEF Ceiling
    <3>4. M!QuadraticCost'
      <4>1. 1 <= Ceiling
        BY <1>0, <3>1, <3>2
      <4> QED BY <2>5, <3>3, <4>1 DEF M!QuadraticCost, M!verdicts, Ceiling
    <3>5. M!OverrunIsOneRound'
      <4>1. 1 < M!Largest(1, max_verdicts) + 2 * M!Largest(1, n)
        <5>1. \A x \in Nat : M!Largest(1, x) \in Nat /\ M!Largest(1, x) >= 1
          BY DEF M!Largest
        <5>2. /\ M!Largest(1, max_verdicts) \in Nat /\ M!Largest(1, max_verdicts) >= 1
              /\ M!Largest(1, n) \in Nat /\ M!Largest(1, n) >= 1
          BY <1>0, <5>1
        <5> QED BY <5>2
      <4> QED BY <2>1, <2>5, <4>1 DEF M!OverrunIsOneRound, M!verdicts
    <3>6. phase' = "round" => Started' + Left(Len(current'), granularity') <= Ceiling'
      <4>1. phase' = "round" => Started' = Len(trail') - 0
        BY DEF Started
      <4>2. Len(trail') - 0 = 1 /\ Len(current') = n /\ granularity' = 2
        BY <2>1, <2>2, <2>5
      <4> QED BY <3>1, <3>3, <4>1, <4>2
    <3>7. phase' \in {"done", "round"}
      BY <2>1
    <3> QED BY <3>4, <3>5, <3>6, <3>7 DEF Spent, Rounds
  <2> QED BY <2>7, <2>8, <2>9, <2>10
<1>3. CASE M!LoopHead
  <2>1. /\ UNCHANGED <<dimensions, max_verdicts, current, granularity, trail>>
        /\ phase = "round"
        /\ \/ /\ phase' = "done" /\ UNCHANGED index
              /\ \/ Len(current) <= 1 /\ inconclusive' = "none"
                 \/ inconclusive' = "truncated"
           \/ /\ Len(current) > 1 /\ Len(trail) < max_verdicts
              /\ phase' = "chunk" /\ index' = 1 /\ UNCHANGED inconclusive
    BY <1>3 DEF M!LoopHead, M!Return, M!verdicts
  <2>2. /\ current # <<>> /\ Noted(trail, current, TRUE)
        /\ Differing(current) /\ Len(current) <= n /\ inconclusive = "none"
    BY <2>1 DEF Held, Rounds
  <2>3. /\ Len(trail) + Left(Len(current), granularity) <= Ceiling
        /\ M!QuadraticCost /\ M!OverrunIsOneRound
    <3>1. Started = Len(trail) - 0
      BY <2>1 DEF Started
    <3>2. Started = Len(trail)
      BY <1>0, <3>1
    <3> QED BY <2>1, <3>2 DEF Spent, Rounds
  <2>4. M!TypeOK'
    <3>1. 1 \in 1..M!Largest(1, n)
      BY <1>0 DEF M!Largest
    <3> QED BY <2>1, <3>1 DEF M!TypeOK, M!Phases, M!Reasons
  <2>5. Held'
    BY <2>1, <2>2 DEF Held, Rounds
  <2>6. Tried'
    <3>1. CASE phase' = "done"
      <4>1. inconclusive' = "none" => ~(Len(current') > 1)
        <5>1. inconclusive' = "none" => Len(current) <= 1
          BY <2>1, <3>1
        <5> QED BY <1>0, <2>1, <5>1
      <4> QED BY <3>1, <4>1 DEF Tried
    <3>2. CASE phase' = "chunk"
      <4>1. Len(current) > 1 /\ index' = 1 /\ M!NChunks' = M!NChunks
        BY <2>1, <3>2, SameRound
      <4>2. 1 \in 1..M!NChunks
        BY <4>1, RoundLemma DEF Sizes
      <4>3. ~(\E k : k \in 1..(index' - 1))
        BY <4>1
      <4> QED BY <2>1, <3>2, <4>1, <4>2, <4>3 DEF Tried
    <3> QED BY <2>1, <3>1, <3>2
  <2>7. Spent'
    <3>1. M!QuadraticCost' /\ M!OverrunIsOneRound'
      BY <2>1, <2>3 DEF M!QuadraticCost, M!OverrunIsOneRound, M!verdicts
    <3>2. phase' = "chunk" =>
            /\ Started' + Left(Len(current'), granularity') <= Ceiling'
            /\ Started' < max_verdicts'
      <4> SUFFICES ASSUME phase' = "chunk"
                   PROVE  /\ Started' + Left(Len(current'), granularity') <= Ceiling'
                          /\ Started' < max_verdicts'
        OBVIOUS
      <4>1. Started' = Len(trail') - (index' - 1)
        BY DEF Started
      <4>2. Len(trail') = Len(trail) /\ index' = 1 /\ Len(trail) < max_verdicts
        BY <2>1
      <4>3. Started' = Len(trail)
        BY <1>0, <4>1, <4>2
      <4>4. Ceiling' = Ceiling
        BY <2>1 DEF Ceiling
      <4> QED BY <2>1, <2>3, <4>2, <4>3, <4>4
    <3>3. phase' \in {"done", "chunk"}
      BY <2>1
    <3> QED BY <3>1, <3>2, <3>3 DEF Spent, Rounds
  <2> QED BY <2>4, <2>5, <2>6, <2>7
<1> QED BY <1>1, <1>2, <1>3

LEMMA MinimiseChunk ==
  ASSUME MinimiseInv, M!TryChunk, UNCHANGED culprit
  PROVE  MinimiseInv'
<1> USE DEF MinimiseInv
<1> DEFINE chunk == M!Chunk(index)
<1>0. phase = "chunk" /\ Differing(current)
  BY DEF M!TryChunk, Held
<1>1. /\ index \in 1..M!NChunks /\ Len(current) > 1
      /\ Len(trail) \in Nat /\ M!NChunks \in Nat /\ Ceiling \in Nat
      /\ Started = Len(trail) - (index - 1)
      /\ Started \in Int /\ Started < max_verdicts
      /\ Left(Len(current), granularity) \in Nat
      /\ Started + Left(Len(current), granularity) <= Ceiling
      /\ M!NChunks <= Len(current) /\ Len(current) <= Len(dimensions)
      /\ Len(current) \in Nat /\ Len(dimensions) \in Nat
      /\ Sizes(Len(current), granularity, M!size, M!NChunks)
  BY <1>0, RoundFacts
<1>2. /\ chunk \in Seq(Dimensions) /\ chunk # <<>> /\ Differing(chunk)
      /\ Len(chunk) \in 1..M!size
  BY <1>0, <1>1, ChunkLemma
<1> HIDE DEF chunk
<1>3. CASE M!ReduceTo(chunk, 2)
  <2>1. Len(chunk) <= Len(current)
    <3>1. M!size \in Nat /\ M!size < Len(current)
      BY <1>1 DEF Sizes
    <3> QED BY <1>1, <1>2, <3>1
  <2>2. M!NChunks + Left(Len(chunk), 2) <= Left(Len(current), granularity)
    BY <1>1, <1>2, LeftAfterChunk
  <2>3. Left(Len(chunk), 2) \in Nat
    <3>1. Len(chunk) \in Nat /\ Len(chunk) >= 1
      BY <1>2
    <3> QED BY <3>1, LeftIsNumber
  <2>4. Len(trail) + 1 + Left(Len(chunk), 2) <= Ceiling
    BY <1>1, <2>2, <2>3
  <2> QED BY <1>0, <1>2, <1>3, <2>1, <2>4, ReduceLemma
<1>4. CASE /\ M!Ask(chunk, FALSE)
           /\ phase' = IF index = M!NChunks THEN "complement" ELSE "chunk"
           /\ index' = IF index = M!NChunks THEN 1 ELSE index + 1
           /\ UNCHANGED <<dimensions, max_verdicts, current, granularity, inconclusive>>
  <2>1. /\ trail' \in Seq(Seq(Dimensions) \X BOOLEAN)
        /\ Noted(trail', chunk, FALSE)
        /\ \A c, a : Noted(trail, c, a) => Noted(trail', c, a)
        /\ Len(trail') = Len(trail) + 1
    BY <1>2, <1>4, MinimiseAsk, AskLemma DEF M!TypeOK
  <2>2. /\ M!NChunks' = M!NChunks
        /\ \A k : M!Chunk(k)' = M!Chunk(k) /\ M!Complement(k)' = M!Complement(k)
    BY <1>4, SameRound
  <2>3. index' \in 1..M!NChunks
    BY <1>1, <1>4
  <2>4. M!TypeOK'
    <3>1. index' \in 1..M!Largest(1, Len(dimensions))
      BY <1>1, <2>3 DEF M!Largest
    <3> QED BY <1>4, <2>1, <3>1 DEF M!TypeOK, M!Phases
  <2>5. Held'
    <3>1. /\ current # <<>> /\ Noted(trail, current, TRUE)
          /\ Len(current) <= Len(dimensions) /\ inconclusive = "none"
      BY <1>0 DEF Held, Rounds
    <3>2. phase' \in {"chunk", "complement"} /\ Noted(trail', current, TRUE)
      BY <1>4, <2>1, <3>1
    <3> QED BY <1>0, <1>4, <3>1, <3>2 DEF Held
  <2>6. \A k \in 1..index : Noted(trail', M!Chunk(k)', FALSE)
    <3> SUFFICES ASSUME NEW k \in 1..index PROVE Noted(trail', M!Chunk(k)', FALSE)
      OBVIOUS
    <3>1. CASE k = index
      BY <2>1, <2>2, <3>1 DEF chunk
    <3>2. CASE k # index
      <4>1. k \in 1..(index - 1)
        BY <1>1, <3>2
      <4>2. Noted(trail, M!Chunk(k), FALSE)
        BY <1>0, <4>1 DEF Tried
      <4> QED BY <2>1, <2>2, <4>2
    <3> QED BY <3>1, <3>2
  <2>7. Tried'
    <3>1. CASE index = M!NChunks
      <4>1. phase' = "complement" /\ index' = 1
        BY <1>4, <3>1
      <4>2. ~(\E k : k \in 1..(index' - 1))
        BY <4>1
      <4>3. \A k \in 1..M!NChunks' : Noted(trail', M!Chunk(k)', FALSE)
        BY <2>2, <2>6, <3>1
      <4> QED BY <1>1, <1>4, <2>2, <2>3, <4>1, <4>2, <4>3 DEF Tried
    <3>2. CASE index # M!NChunks
      <4>1. phase' = "chunk" /\ index' = index + 1 /\ index' - 1 = index
        BY <1>1, <1>4, <3>2
      <4>2. \A k \in 1..(index' - 1) : Noted(trail', M!Chunk(k)', FALSE)
        BY <2>6, <4>1
      <4> QED BY <1>1, <1>4, <2>2, <2>3, <4>1, <4>2 DEF Tried
    <3> QED BY <3>1, <3>2
  <2>8. Spent'
    <3>1. M!QuadraticCost' /\ M!OverrunIsOneRound'
      BY <1>0, <1>4, <2>1, VerdictLemma
    <3>2. Started' = Started
      <4>1. CASE index = M!NChunks
        <5>1. phase' = "complement" /\ index' = 1
          BY <1>4, <4>1
        <5>2. Started' = Len(trail') - (M!NChunks' + index' - 1)
          BY <5>1 DEF Started
        <5> QED BY <1>1, <2>1, <2>2, <4>1, <5>1, <5>2
      <4>2. CASE index # M!NChunks
        <5>1. phase' = "chunk" /\ index' = index + 1
          BY <1>4, <4>2
        <5>2. Started' = Len(trail') - (index' - 1)
          BY <5>1 DEF Started
        <5> QED BY <1>1, <2>1, <5>1, <5>2
      <4> QED BY <4>1, <4>2
    <3>3. Ceiling' = Ceiling
      BY <1>4 DEF Ceiling
    <3> QED BY <1>1, <1>4, <3>1, <3>2, <3>3 DEF Spent
  <2> QED BY <1>4, <2>4, <2>5, <2>7, <2>8
<1> QED BY <1>3, <1>4 DEF M!TryChunk, chunk


LEMMA MinimiseComplement ==
  ASSUME MinimiseInv, M!TryComplement, UNCHANGED culprit
  PROVE  MinimiseInv'
<1> USE DEF MinimiseInv
<1> DEFINE rest == M!Complement(index)
<1>0. phase = "complement" /\ Differing(current)
  BY DEF M!TryComplement, Held
<1>1. /\ index \in 1..M!NChunks /\ Len(current) > 1
      /\ Len(trail) \in Nat /\ M!NChunks \in Nat /\ Ceiling \in Nat
      /\ Started = Len(trail) - (M!NChunks + index - 1)
      /\ Started \in Int /\ Started < max_verdicts
      /\ Left(Len(current), granularity) \in Nat
      /\ Started + Left(Len(current), granularity) <= Ceiling
      /\ M!NChunks <= Len(current) /\ Len(current) <= Len(dimensions)
      /\ Len(current) \in Nat /\ Len(dimensions) \in Nat
      /\ Sizes(Len(current), granularity, M!size, M!NChunks)
  BY <1>0, RoundFacts
<1>2. /\ rest \in Seq(Dimensions) /\ rest # <<>> /\ Differing(rest)
      /\ Len(M!Chunk(index)) \in 1..M!size
      /\ 2 * granularity = Len(current) => Len(M!Chunk(index)) = 2
      /\ Len(rest) = Len(current) - Len(M!Chunk(index))
  BY <1>0, <1>1, ChunkLemma
<1>3. granularity \in Nat \ {0, 1}
  BY DEF M!TypeOK
<1> HIDE DEF rest
<1>4. CASE M!ReduceTo(rest, M!CoarserGranularity)
  <2>1. M!size \in Nat /\ M!size < Len(current)
    BY <1>1 DEF Sizes
  <2>2. Len(rest) \in Nat /\ Len(rest) <= Len(current) /\ Len(rest) >= 1
    BY <1>1, <1>2, <2>1
  <2>3. M!CoarserGranularity = M!Largest(2, granularity - 1)
    BY DEF M!CoarserGranularity
  <2>4. M!CoarserGranularity \in Nat \ {0, 1}
    BY <1>3, <2>3 DEF M!Largest
  <2>5. 2 * M!NChunks + Left(Len(rest), M!CoarserGranularity) <= Left(Len(current), granularity)
    BY <1>1, <1>2, <2>3, LeftAfterComplement
  <2>6. Left(Len(rest), M!CoarserGranularity) \in Nat
    <3>1. M!CoarserGranularity \in Nat
      BY <2>4
    <3> QED BY <2>2, <3>1, LeftIsNumber
  <2>7. Len(trail) + 1 + Left(Len(rest), M!CoarserGranularity) <= Ceiling
    BY <1>1, <2>5, <2>6
  <2> QED BY <1>0, <1>2, <1>4, <2>2, <2>4, <2>7, ReduceLemma
<1>5. ASSUME M!Ask(rest, FALSE), UNCHANGED <<dimensions, max_verdicts, current>>
      PROVE  /\ trail' \in Seq(Seq(Dimensions) \X BOOLEAN)
             /\ Noted(trail', rest, FALSE)
             /\ \A c, a : Noted(trail, c, a) => Noted(trail', c, a)
             /\ Len(trail') = Len(trail) + 1
             /\ M!QuadraticCost' /\ M!OverrunIsOneRound'
             /\ Ceiling' = Ceiling
             /\ current # <<>> /\ Noted(trail', current, TRUE)
             /\ inconclusive = "none"
             /\ \A k \in 1..M!NChunks : Noted(trail', M!Chunk(k), FALSE)
             /\ \A k \in 1..index : Noted(trail', M!Complement(k), FALSE)
  <2>1. /\ trail' \in Seq(Seq(Dimensions) \X BOOLEAN)
        /\ Noted(trail', rest, FALSE)
        /\ \A c, a : Noted(trail, c, a) => Noted(trail', c, a)
        /\ Len(trail') = Len(trail) + 1
    BY <1>2, <1>5, MinimiseAsk, AskLemma DEF M!TypeOK
  <2>2. M!QuadraticCost' /\ M!OverrunIsOneRound'
    BY <1>0, <1>5, <2>1, VerdictLemma
  <2>3. Ceiling' = Ceiling
    BY <1>5 DEF Ceiling
  <2>4. current # <<>> /\ Noted(trail, current, TRUE) /\ inconclusive = "none"
    BY <1>0 DEF Held, Rounds
  <2>5. \A k \in 1..M!NChunks : Noted(trail', M!Chunk(k), FALSE)
    BY <1>0, <2>1 DEF Tried
  <2>6. \A k \in 1..index : Noted(trail', M!Complement(k), FALSE)
    <3> SUFFICES ASSUME NEW k \in 1..index PROVE Noted(trail', M!Complement(k), FALSE)
      OBVIOUS
    <3>1. CASE k = index
      BY <2>1, <3>1 DEF rest
    <3>2. CASE k # index
      <4>1. k \in 1..(index - 1)
        BY <1>1, <3>2
      <4>2. Noted(trail, M!Complement(k), FALSE)
        BY <1>0, <4>1 DEF Tried
      <4> QED BY <2>1, <4>2
    <3> QED BY <3>1, <3>2
  <2> QED BY <2>1, <2>2, <2>3, <2>4, <2>5, <2>6
<1>6. CASE /\ M!Ask(rest, FALSE) /\ index < M!NChunks /\ index' = index + 1
           /\ UNCHANGED <<dimensions, max_verdicts, current, granularity, phase, inconclusive>>
  <2>1. /\ M!NChunks' = M!NChunks
        /\ \A k : M!Chunk(k)' = M!Chunk(k) /\ M!Complement(k)' = M!Complement(k)
    BY <1>6, SameRound
  <2>2. index' \in 1..M!NChunks /\ index' - 1 = index
    BY <1>1, <1>6
  <2>3. M!TypeOK'
    <3>1. index' \in 1..M!Largest(1, Len(dimensions))
      BY <1>1, <2>2 DEF M!Largest
    <3> QED BY <1>5, <1>6, <3>1 DEF M!TypeOK
  <2>4. Held'
    <3>1. Len(current) <= Len(dimensions)
      BY <1>1
    <3> QED BY <1>0, <1>5, <1>6, <3>1 DEF Held
  <2>5. Tried'
    <3>1. \A k \in 1..M!NChunks' : Noted(trail', M!Chunk(k)', FALSE)
      BY <1>5, <1>6, <2>1
    <3>2. \A k \in 1..(index' - 1) : Noted(trail', M!Complement(k)', FALSE)
      BY <1>5, <1>6, <2>1, <2>2
    <3> QED BY <1>0, <1>1, <1>6, <2>1, <2>2, <3>1, <3>2 DEF Tried
  <2>6. Spent'
    <3>1. Started' = Started
      <4>1. Started' = Len(trail') - (M!NChunks' + index' - 1)
        BY <1>0, <1>6 DEF Started
      <4>2. Len(trail') = Len(trail) + 1
        BY <1>5, <1>6
      <4> QED BY <1>1, <1>6, <2>1, <4>1, <4>2
    <3> QED BY <1>0, <1>1, <1>5, <1>6, <3>1 DEF Spent
  <2> QED BY <1>6, <2>3, <2>4, <2>5, <2>6
<1>7. CASE M!Ask(rest, FALSE) /\ index = M!NChunks /\ M!Finished /\ M!Return("none")
  <2>1. /\ phase' = "done" /\ inconclusive' = "none"
        /\ UNCHANGED <<dimensions, max_verdicts, current, granularity, index>>
    BY <1>7 DEF M!Return
  <2>2. M!TypeOK'
    BY <1>5, <1>7, <2>1 DEF M!TypeOK, M!Phases, M!Reasons
  <2>3. Held'
    <3>1. Len(current) <= Len(dimensions)
      BY <1>1
    <3> QED BY <1>0, <1>5, <1>7, <2>1, <3>1 DEF Held, Rounds
  <2>4. /\ M!NChunks = Len(current)
        /\ \A k \in 1..Len(current) :
             /\ M!Chunk(k) = <<current[k]>>
             /\ M!Complement(k) = M!Leaving(current, <<current[k]>>)
    BY <1>1, <1>7, SingleLemma DEF M!Finished
  <2>5. \A i \in 1..Len(current) :
          /\ Noted(trail', <<current[i]>>, FALSE)
          /\ Noted(trail', M!Leaving(current, <<current[i]>>), FALSE)
    <3> SUFFICES ASSUME NEW i \in 1..Len(current)
                 PROVE  /\ Noted(trail', <<current[i]>>, FALSE)
                        /\ Noted(trail', M!Leaving(current, <<current[i]>>), FALSE)
      OBVIOUS
    <3>1. i \in 1..M!NChunks /\ i \in 1..index
      BY <1>7, <2>4
    <3>2. Noted(trail', M!Chunk(i), FALSE) /\ Noted(trail', M!Complement(i), FALSE)
      BY <1>5, <1>7, <2>1, <3>1
    <3> QED BY <2>4, <3>2
  <2>6. Tried'
    BY <2>1, <2>5 DEF Tried
  <2>7. Spent'
    BY <1>5, <1>7, <2>1 DEF Spent, Rounds
  <2> QED BY <2>2, <2>3, <2>6, <2>7
<1>8. CASE /\ M!Ask(rest, FALSE) /\ index = M!NChunks /\ ~M!Finished
           /\ granularity' = M!NextGranularity /\ phase' = "round"
           /\ UNCHANGED <<dimensions, max_verdicts, current, index, inconclusive>>
  <2>1. granularity < Len(current)
    BY <1>1, <1>3, <1>8 DEF M!Finished
  <2>2. granularity' = M!Least(Len(current), granularity * 2)
    BY <1>8 DEF M!NextGranularity
  <2>3. granularity' \in Nat \ {0, 1}
    <3>1. \A x, y : M!Least(x, y) \in {x, y}
      BY DEF M!Least
    <3>2. granularity * 2 \in Nat \ {0, 1} /\ Len(current) \in Nat \ {0, 1}
      <4>1. Len(current) \in Nat /\ Len(current) > 1
        BY <1>1
      <4>2. granularity \in Nat /\ granularity >= 2
        BY <1>3
      <4>3. granularity * 2 \in Nat /\ granularity * 2 >= 2
        BY <4>2
      <4>4. granularity * 2 \in Nat \ {0, 1}
        BY <4>3
      <4>5. Len(current) \in Nat \ {0, 1}
        <5>1. \A x \in Nat : x > 1 => x \in Nat \ {0, 1}
          OBVIOUS
        <5> QED BY <4>1, <5>1
      <4> QED BY <4>4, <4>5
    <3>3. M!Least(Len(current), granularity * 2) \in {Len(current), granularity * 2}
      BY <3>1, <3>2
    <3> QED BY <2>2, <3>2, <3>3
  <2>4. M!TypeOK'
    BY <1>5, <1>8, <2>3 DEF M!TypeOK, M!Phases
  <2>5. Held'
    <3>1. Len(current) <= Len(dimensions)
      BY <1>1
    <3> QED BY <1>0, <1>5, <1>8, <3>1 DEF Held
  <2>6. Tried'
    BY <1>8 DEF Tried
  <2>7. Spent'
    <3>1. 2 * M!NChunks + Left(Len(current), granularity') <= Left(Len(current), granularity)
      BY <1>1, <2>1, <2>2, LeftWhenFiner
    <3>2. Left(Len(current), granularity') \in Nat
      <4>1. granularity' \in Nat
        BY <2>3
      <4>2. Len(current) >= 1
        BY <1>1
      <4> QED BY <1>1, <4>1, <4>2, LeftIsNumber
    <3>3. Started' = Len(trail') - 0
      BY <1>8 DEF Started
    <3>4. Len(trail') = Len(trail) + 1
      BY <1>5, <1>8
    <3>5. Started' = Started + 2 * M!NChunks
      BY <1>1, <1>8, <3>3, <3>4
    <3>6. Started' + Left(Len(current'), granularity') <= Ceiling'
      <4>1. Ceiling' = Ceiling /\ current' = current
        BY <1>5, <1>8
      <4>2. Started' + Left(Len(current), granularity') <= Ceiling
        BY <1>1, <3>1, <3>2, <3>5
      <4> QED BY <4>1, <4>2
    <3> QED BY <1>5, <1>8, <3>6 DEF Spent
  <2> QED BY <1>8, <2>4, <2>5, <2>6, <2>7
<1> QED BY <1>4, <1>6, <1>7, <1>8 DEF M!TryComplement, rest

LEMMA MinimiseInvStep ==
  MinimiseInv /\ ((M!Next /\ UNCHANGED bisecting) \/ UNCHANGED searchVars) => MinimiseInv'
<1> SUFFICES ASSUME MinimiseInv, (M!Next /\ UNCHANGED bisecting) \/ UNCHANGED searchVars
             PROVE  MinimiseInv'
  OBVIOUS
<1>1. CASE M!Next /\ UNCHANGED bisecting
  BY <1>1, MinimiseStart, MinimiseChunk, MinimiseComplement DEF M!Next, bisecting
<1>2. CASE UNCHANGED searchVars
  <2>1. UNCHANGED <<dimensions, max_verdicts, current, granularity, index, trail, phase,
                    inconclusive, culprit>>
    BY <1>2 DEF searchVars, bisecting, minimising
  <2>2. /\ M!NChunks' = M!NChunks
        /\ \A k : M!Chunk(k)' = M!Chunk(k) /\ M!Complement(k)' = M!Complement(k)
    BY <2>1, SameRound
  <2>3. M!TypeOK'
    BY <2>1 DEF MinimiseInv, M!TypeOK
  <2>4. Held'
    BY <2>1 DEF MinimiseInv, Held
  <2>5. Tried'
    BY <2>1, <2>2 DEF MinimiseInv, Tried
  <2>6. Spent'
    <3>1. Started' = Started
      BY <2>1, <2>2 DEF Started
    <3>2. Ceiling' = Ceiling
      BY <2>1 DEF Ceiling
    <3>3. M!QuadraticCost' /\ M!OverrunIsOneRound'
      BY <2>1 DEF MinimiseInv, Spent, M!QuadraticCost, M!OverrunIsOneRound, M!verdicts
    <3> QED BY <2>1, <3>1, <3>2, <3>3 DEF MinimiseInv, Spent
  <2> QED BY <2>1, <2>3, <2>4, <2>5, <2>6 DEF MinimiseInv
<1> QED BY <1>1, <1>2

LEMMA MinimiseInvInit ==
  ASSUME CommandInit, mode = "minimise"
  PROVE  MinimiseInv
<1>1. /\ dimensions \in Diffs /\ max_verdicts \in Bounds /\ current = dimensions
      /\ granularity = 2 /\ index = 1 /\ trail = <<>> /\ phase = "empty_check"
      /\ inconclusive = "none" /\ culprit = NoCulprit
  BY DEF CommandInit, M!Init, BisectInit
<1>2. dimensions \in Seq(Dimensions) /\ Differing(dimensions)
  BY <1>1, DiffsAssumption, DistinctAssumption DEF Differing
<1>3. Len(dimensions) \in Nat /\ max_verdicts \in Nat
  BY <1>1, <1>2, BoundsAssumption
<1>4. Len(trail) = 0
  BY <1>1
<1>5. M!TypeOK
  <2>1. 1 \in 1..M!Largest(1, Len(dimensions))
    BY <1>3 DEF M!Largest
  <2>2. trail \in Seq(Seq(Dimensions) \X BOOLEAN)
    BY <1>1
  <2> QED BY <1>1, <1>2, <2>1, <2>2 DEF M!TypeOK, M!Phases, M!Reasons
<1>6. Held
  <2>1. Len(current) <= Len(dimensions)
    BY <1>1, <1>3
  <2> QED BY <1>1, <1>2, <2>1 DEF Held, Rounds
<1>7. Tried
  BY <1>1 DEF Tried
<1>8. Spent
  <2>1. M!QuadraticCost
    <3>1. 2 * Len(dimensions) * Len(dimensions) >= 0
      BY <1>3
    <3> QED BY <1>3, <1>4, <3>1 DEF M!QuadraticCost, M!verdicts
  <2>2. M!OverrunIsOneRound
    <3>1. \A x \in Nat : M!Largest(1, x) \in Nat /\ M!Largest(1, x) >= 1
      BY DEF M!Largest
    <3>2. /\ M!Largest(1, max_verdicts) \in Nat /\ M!Largest(1, max_verdicts) >= 1
          /\ M!Largest(1, Len(dimensions)) \in Nat /\ M!Largest(1, Len(dimensions)) >= 1
      BY <1>3, <3>1
    <3>3. 0 < M!Largest(1, max_verdicts) + 2 * M!Largest(1, Len(dimensions))
      BY <3>2
    <3> QED BY <1>4, <3>3 DEF M!OverrunIsOneRound, M!verdicts
  <2> QED BY <1>1, <2>1, <2>2 DEF Spent, Rounds
<1> QED BY <1>1, <1>5, <1>6, <1>7, <1>8 DEF MinimiseInv

(* Leaving one dimension out of a list loses that dimension alone.         *)
LEMMA LeavingOne ==
  ASSUME NEW S, NEW list \in Seq(S), Differing(list), NEW i \in 1..Len(list)
  PROVE  \A j \in 1..Len(list) :
           list[j] \in Members(M!Leaving(list, <<list[i]>>)) <=> j # i
<1>1. Len(list) \in Nat /\ i \in Int /\ i \in i..Len(list)
  OBVIOUS
<1>2. SubSeq(list, i, i) = <<list[i]>>
  <2>1. \A k \in i..i : list[k] \in S
    BY <1>1
  <2>2. /\ SubSeq(list, i, i) \in Seq(S)
        /\ Len(SubSeq(list, i, i)) = 1
        /\ SubSeq(list, i, i)[1] = list[i]
    <3>1. i <= i /\ i - i + 1 = 1 /\ i + 1 - 1 = i
      BY <1>1
    <3> QED BY <1>1, <2>1, <3>1, SubSeqProperties
  <2>3. SubSeq(list, i, i) # <<>> /\ Len(SubSeq(list, i, i)) <= 1
    BY <2>2
  <2> QED BY <2>2, <2>3, SingletonLemma
<1>3. M!Leaving(list, <<list[i]>>) = Outside(list, i, i)
  <2>1. M!Leaving(list, SubSeq(list, i, i)) = Outside(list, i, i)
    BY <1>1, LeavingSlice
  <2> QED BY <1>2, <2>1
<1>4. \A j \in 1..Len(list) : list[j] \in Members(Outside(list, i, i)) <=> j \notin i..i
  BY <1>1, OutsideProperties
<1>5. \A j \in 1..Len(list) : j \notin i..i <=> j # i
  BY <1>1
<1> QED BY <1>3, <1>4, <1>5

(* What a finished minimisation holds for the current list.                *)
LEMMA MinimalFacts ==
  ASSUME MinimiseInv, phase = "done", inconclusive \in {"none", "truncated"}
  PROVE  /\ M!minimal = current /\ current # <<>> /\ current \in Seq(Dimensions)
         /\ Differing(current) /\ Noted(trail, current, TRUE)
         /\ inconclusive = "none" /\ Len(current) > 1 =>
              \A i \in 1..Len(current) :
                /\ Noted(trail, <<current[i]>>, FALSE)
                /\ Noted(trail, M!Leaving(current, <<current[i]>>), FALSE)
BY DEF MinimiseInv, M!TypeOK, Held, Tried, M!minimal

LEMMA MinimalReproduces == MinimiseInv => M!ResultReproduces
<1> SUFFICES ASSUME MinimiseInv, M!minimal # <<>> PROVE M!Answered(M!minimal, TRUE)
  BY DEF M!ResultReproduces
<1>1. phase = "done" /\ inconclusive \in {"none", "truncated"}
  BY DEF M!minimal
<1>2. M!minimal = current /\ Noted(trail, current, TRUE)
  BY <1>1, MinimalFacts
<1> QED BY <1>2 DEF M!Answered, Noted

LEMMA MinimalIsOneMinimal == MinimiseInv => M!OneMinimal /\ M!InteractionIsReal
<1> SUFFICES ASSUME MinimiseInv, M!interacting, inconclusive = "none",
                    NEW d \in M!Range(M!minimal)
             PROVE  /\ M!Answered(M!Leaving(M!minimal, <<d>>), FALSE)
                    /\ M!Answered(<<d>>, FALSE)
  BY DEF M!OneMinimal, M!InteractionIsReal
<1>1. phase = "done"
  <2>1. Len(M!minimal) > 1
    BY DEF M!interacting
  <2>2. phase # "done" => M!minimal = <<>>
    BY DEF M!minimal
  <2>3. phase # "done" => Len(M!minimal) = 0
    BY <2>2
  <2> QED BY <2>1, <2>3
<1>2. /\ M!minimal = current /\ current \in Seq(Dimensions)
      /\ Len(current) > 1 =>
           \A i \in 1..Len(current) :
             /\ Noted(trail, <<current[i]>>, FALSE)
             /\ Noted(trail, M!Leaving(current, <<current[i]>>), FALSE)
  BY <1>1, MinimalFacts
<1>3. PICK i \in 1..Len(current) : d = current[i]
  <2>1. M!Range(current) = {current[x] : x \in DOMAIN current} /\ DOMAIN current = 1..Len(current)
    BY <1>2 DEF M!Range
  <2> QED BY <1>2, <2>1
<1>4. Len(current) > 1
  BY <1>2 DEF M!interacting
<1> QED BY <1>2, <1>3, <1>4 DEF M!Answered, Noted

LEMMA CausesAreMinimal ==
  ASSUME MinimiseInv, Truthful(trail), reliable, phase = "done", inconclusive = "none",
         causes # {}
  PROVE  Members(M!minimal) = causes
<1>1. /\ M!minimal = current /\ current # <<>> /\ current \in Seq(Dimensions)
      /\ Differing(current) /\ Noted(trail, current, TRUE)
      /\ Len(current) > 1 =>
           \A i \in 1..Len(current) :
             Noted(trail, M!Leaving(current, <<current[i]>>), FALSE)
  BY MinimalFacts
<1>2. causes \subseteq Members(current)
  <2>1. TRUE = (causes \subseteq Members(current))
    BY <1>1, TruthLemma
  <2> QED BY <2>1
<1>3. Len(current) \in Nat
  BY <1>1
<1>4. CASE Len(current) <= 1
  <2>1. Len(current) = 1 /\ current = <<current[1]>>
    BY <1>1, <1>4, SingletonLemma
  <2>2. Members(current) = {current[1]}
    BY <2>1 DEF Members
  <2> QED BY <1>1, <1>2, <2>2
<1>5. CASE Len(current) > 1
  <2>1. ASSUME NEW i \in 1..Len(current) PROVE current[i] \in causes
    <3>1. Noted(trail, M!Leaving(current, <<current[i]>>), FALSE)
      BY <1>1, <1>5
    <3>2. FALSE = (causes \subseteq Members(M!Leaving(current, <<current[i]>>)))
      BY <3>1, TruthLemma
    <3>3. PICK c \in causes : c \notin Members(M!Leaving(current, <<current[i]>>))
      BY <3>2
    <3>4. PICK j \in 1..Len(current) : c = current[j]
      BY <1>2 DEF Members
    <3>5. j = i
      BY <1>1, <3>3, <3>4, LeavingOne
    <3> QED BY <3>3, <3>4, <3>5
  <2>2. Members(current) \subseteq causes
    BY <2>1 DEF Members
  <2> QED BY <1>1, <1>2, <2>2
<1> QED BY <1>3, <1>4, <1>5

LEMMA CommandInvInit == CommandInit => CommandInv
<1> SUFFICES ASSUME CommandInit PROVE CommandInv
  OBVIOUS
<1>1. /\ BisectInit /\ trail = <<>> /\ phase = "empty_check" /\ shown = {}
      /\ mode \in {"bisect", "minimise", "plan"}
  BY DEF CommandInit, BisectInit
<1>2. Truthful(trail)
  <2>1. 1..Len(trail) = {}
    BY <1>1
  <2> QED BY <2>1 DEF Truthful
<1>3. BisectInv
  BY <1>1, BisectInvInit
<1>4. mode = "minimise" => MinimiseInv
  BY MinimiseInvInit
<1>5. Told
  BY <1>1 DEF Told
<1> QED BY <1>1, <1>2, <1>3, <1>4, <1>5 DEF CommandInv

(* Once a part of the outcome is shown the search is over.                 *)
LEMMA SearchIsOver ==
  ASSUME CommandInv, shown # {}
  PROVE  ~Search
<1>1. CASE phase = "empty_check" /\ caller = "command" /\ (dimensions = <<>> \/ mode = "plan")
  BY <1>1 DEF Search
<1>2. CASE phase = "done"
  <2>1. ~BisectNext
    BY <1>2 DEF BisectNext, CheckDiffers, AskNothing, AskEverything, Halve, NameCulprit
  <2>2. ~M!Next
    BY <1>2 DEF M!Next, M!CheckDiffers, M!AskEverything, M!LoopHead, M!TryChunk, M!TryComplement
  <2> QED BY <2>1, <2>2 DEF Search
<1> QED BY <1>1, <1>2 DEF CommandInv, Told

(* What leaves the search where it is keeps what is known of it.           *)
LEMMA SearchStays ==
  ASSUME CommandInv, UNCHANGED <<searchVars, caller, mode, reliable, causes>>
  PROVE  /\ Truthful(trail')
         /\ mode' \in {"bisect", "minimise", "plan"}
         /\ Truthful(trail)'
         /\ mode' # "minimise" => BisectInv'
         /\ mode' = "minimise" => MinimiseInv'
         /\ mode' = "plan" => phase' = "empty_check"
<1> USE DEF CommandInv
<1>1. UNCHANGED bisectVars
  BY DEF searchVars, bisecting, bisectVars
<1>2. Truthful(trail)'
  BY DEF Truthful, searchVars
<1>3. Truthful(trail')
  BY DEF Truthful, searchVars
<1>4. mode' # "minimise" => BisectInv'
  BY <1>1, BisectInvStep
<1>5. mode' = "minimise" => MinimiseInv'
  BY MinimiseInvStep
<1> QED BY <1>2, <1>3, <1>4, <1>5 DEF searchVars

LEMMA CommandInvStep == CommandInv /\ [CommandNext]_commandVars => CommandInv'
<1> SUFFICES ASSUME CommandInv, [CommandNext]_commandVars PROVE CommandInv'
  OBVIOUS
<1>1. CASE EndAtOnce
  <2>1. UNCHANGED <<searchVars, caller, mode, reliable, causes>>
    BY <1>1 DEF EndAtOnce
  <2>2. Told'
    BY <1>1 DEF EndAtOnce, Told, searchVars
  <2> QED BY <2>1, <2>2, SearchStays DEF CommandInv
<1>2. CASE Search
  <2>1. /\ Truthful(trail') /\ shown = {}
        /\ UNCHANGED <<caller, mode, reliable, causes, shown>>
    BY <1>2, SearchIsOver DEF Search
  <2>2. Truthful(trail)'
    BY <2>1 DEF Truthful
  <2>3. Told'
    BY <2>1 DEF Told
  <2>4. CASE mode = "bisect" /\ BisectNext
    <3>1. BisectInv'
      BY <2>1, <2>4, BisectInvStep DEF CommandInv
    <3> QED BY <2>1, <2>2, <2>3, <2>4, <3>1 DEF CommandInv
  <2>5. CASE mode = "minimise" /\ M!Next /\ UNCHANGED bisecting
    <3>1. MinimiseInv'
      BY <2>5, MinimiseInvStep DEF CommandInv
    <3> QED BY <2>1, <2>2, <2>3, <2>5, <3>1 DEF CommandInv
  <2> QED BY <1>2, <2>4, <2>5 DEF Search
<1>3. CASE Tell
  <2>1. UNCHANGED <<searchVars, caller, mode, reliable, causes>>
    BY <1>3 DEF Tell
  <2>2. Found' = Found /\ Everything' = Everything
    BY <2>1 DEF Found, Everything, searchVars, bisecting, minimising, M!minimal
  <2>3. Told'
    BY <1>3, <2>2 DEF Tell, Told, searchVars
  <2> QED BY <2>1, <2>3, SearchStays DEF CommandInv
<1>4. CASE UNCHANGED commandVars
  <2>1. UNCHANGED <<searchVars, caller, mode, reliable, causes>> /\ shown' = shown
    BY <1>4 DEF commandVars
  <2>2. Found' = Found /\ Everything' = Everything
    BY <2>1 DEF Found, Everything, searchVars, bisecting, minimising, M!minimal
  <2>3. Told'
    BY <2>1, <2>2 DEF CommandInv, Told, searchVars
  <2> QED BY <2>1, <2>3, SearchStays DEF CommandInv
<1> QED BY <1>1, <1>2, <1>3, <1>4 DEF CommandNext

LEMMA CommandImplicates == CommandInv => CulpritIsImplicated
<1> SUFFICES ASSUME CommandInv PROVE CulpritIsImplicated
  OBVIOUS
<1>1. CASE mode # "minimise"
  BY <1>1 DEF CommandInv, BisectInv, IInv
<1>2. CASE mode = "minimise"
  BY <1>2 DEF CommandInv, MinimiseInv, CulpritIsImplicated
<1> QED BY <1>1, <1>2

LEMMA CommandBounds == CommandInv => CostIsBounded
<1> SUFFICES ASSUME CommandInv PROVE CostIsBounded
  OBVIOUS
<1>1. mode = "bisect" => NoQuestionTwice /\ LogarithmicCost
  BY DEF CommandInv, BisectInv, Halved
<1>2. mode = "minimise" => M!QuadraticCost /\ M!OverrunIsOneRound
  BY DEF CommandInv, MinimiseInv, Spent
<1> QED BY <1>1, <1>2 DEF CostIsBounded

LEMMA CommandMinimises == CommandInv => ResultIsMinimal
BY MinimalReproduces, MinimalIsOneMinimal DEF CommandInv, ResultIsMinimal

LEMMA CommandFinds == CommandInv => CausesAreFound
<1> SUFFICES ASSUME CommandInv, reliable, phase = "done", inconclusive = "none"
             PROVE  /\ mode = "bisect" => culprit \in causes
                    /\ mode = "minimise" /\ causes # {} => Members(M!minimal) = causes
  BY DEF CausesAreFound
<1>1. mode = "bisect" => culprit \in causes
  BY DEF CommandInv, BisectInv, NamesACause, Concluded, ConclusionIsStated
<1>2. mode = "minimise" /\ causes # {} => Members(M!minimal) = causes
  BY CausesAreMinimal DEF CommandInv
<1> QED BY <1>1, <1>2

LEMMA CommandTells == CommandInv => OutcomeIsTold
<1> SUFFICES ASSUME CommandInv PROVE OutcomeIsTold
  OBVIOUS
<1>1. mode = "bisect" => ConclusionIsStated
  BY DEF CommandInv, BisectInv, Concluded
<1>2. ASSUME shown # {}, phase = "done"
      PROVE  /\ "culprit" \in shown => culprit # NoCulprit
             /\ "minimal" \in shown => M!minimal # <<>>
             /\ inconclusive # "none" => "reason" \in shown
  <2>1. CASE shown = Found
    <3>1. mode \in {"bisect", "minimise"}
      BY <1>2 DEF CommandInv
    <3>2. mode = "minimise" /\ inconclusive = "none" => M!minimal # <<>>
      BY <1>2, MinimalFacts DEF CommandInv
    <3> QED BY <1>1, <1>2, <2>1, <3>1, <3>2 DEF Found, ConclusionIsStated
  <2>2. CASE shown = Everything
    BY <2>2 DEF Everything
  <2>3. shown \in {Found, Everything}
    BY <1>2 DEF CommandInv, Told
  <2> QED BY <2>1, <2>2, <2>3
<1> QED BY <1>1, <1>2 DEF OutcomeIsTold

-----------------------------------------------------------------------------

(* bisect_dimensions keeps every variable within the values the code could *)
(* give it, for every list of differences and every sequence of answers.   *)
THEOREM BisectTypeCorrect == BisectSpec => []BisectTypeOK
<1>1. IInv => BisectTypeOK
  BY DEF IInv
<1> QED BY <1>1, InitLemma, StepLemma, PTL DEF BisectSpec

(* bisect_dimensions never names a dimension its audit trail does not      *)
(* implicate: for every diff and every sequence of verdicts, a culprit's   *)
(* addition turned a working candidate into a failing one.                 *)
THEOREM BisectImplicatesCulprit == BisectSpec => []CulpritIsImplicated
<1>1. IInv => CulpritIsImplicated
  BY DEF IInv
<1> QED BY <1>1, InitLemma, StepLemma, PTL DEF BisectSpec

(* The invariant of the bisect command, from which the theorems below      *)
(* follow: what either search has established so far, and that what is     *)
(* shown is what the search came to.                                       *)
THEOREM BisectCommandInvariant == CommandSpec => []CommandInv
BY CommandInvInit, CommandInvStep, PTL DEF CommandSpec

(* What `bisect --minimise` returns was seen to fail; unless the search    *)
(* was cut short, leaving out any one member was tried and did not fail,   *)
(* and no member of a larger result fails alone.                           *)
THEOREM MinimisedResultIsMinimal == CommandSpec => []ResultIsMinimal
BY BisectCommandInvariant, CommandMinimises, PTL

(* For every number of differences and every --max-verdicts: halving asks  *)
(* nothing twice and 2^(verdicts - 3) < n; minimising asks at most 2n^2    *)
(* questions and overruns the bound by less than one round.                *)
THEOREM BisectCostIsBounded == CommandSpec => []CostIsBounded
BY BisectCommandInvariant, CommandBounds, PTL

(* Told the truth, a bisect that concludes names one of the causes and a   *)
(* minimisation that was not cut short returns exactly the causes.         *)
THEOREM BisectFindsCauses == CommandSpec => []CausesAreFound
BY BisectCommandInvariant, CommandFinds, PTL

(* Whatever is printed as found was found, and a search that could not     *)
(* conclude says why.                                                      *)
THEOREM BisectTellsOutcome == CommandSpec => []OutcomeIsTold
BY BisectCommandInvariant, CommandTells, PTL

(* The command never names a dimension its trail does not implicate.       *)
THEOREM CommandImplicatesCulprit == CommandSpec => []CulpritIsImplicated
BY BisectCommandInvariant, CommandImplicates, PTL

=============================================================================
