-------------------------- MODULE FleetServerProofs --------------------------
(***************************************************************************)
(* Theorems about FleetEnrollment, for any number of server processes,     *)
(* organizations, tokens, keys and requests.  The inductive invariant adds *)
(* to the properties what a request in progress knows of its machine, and  *)
(* that a token mints machines in its own organization only.  Then about   *)
(* BackupRestore, the database the server keeps all that in.               *)
(***************************************************************************)
EXTENDS FleetEnrollment, BackupRestore, TLAPS

EnrollSteps  == {"lookup", "register", "audit_enroll"}
PublishSteps == {"store", "audit_publish"}

(* A request past the row it inserted or found names that row; one that is *)
(* about to purge forgets no event that is younger than what it deletes.   *)
Backed(job, rows) ==
  /\ job.step \in EnrollSteps =>
       job.machine \in 1..Len(rows) /\ rows[job.machine].via = job.token
  /\ job.step \in PublishSteps => job.machine \in 1..Len(rows)
  /\ job.step = "purge" /\ LimitsInOrder => job.audit_cutoff <= job.snap_cutoff

JobsAreBacked == \A w \in Workers : Backed(jobs[w], machines)

(* A machine a token minted is in the organization of the token. *)
MintedInOrg ==
  \A m \in Ids : machines[m].via \in Tokens => machines[m].org = TokenOrg[machines[m].via]

IInv == /\ TypeOK
        /\ JobsAreBacked
        /\ TokensMatchMachines
        /\ IdentitiesAreUnique
        /\ MintedInOrg
        /\ AuditIsTruthful

-----------------------------------------------------------------------------
(* What a step does to the jobs and to the machines table.                 *)

Job == {Idle} \cup EnrollJob \cup PublishJob \cup RetentionJob

(* The step a request is at tells its kind, hence its fields. *)
LEMMA JobOfStep ==
  ASSUME TypeOK, NEW w \in Workers
  PROVE  /\ jobs[w] \in Job
         /\ jobs[w].step \in {"redeem", "spend", "lookup", "register", "audit_enroll"} =>
              jobs[w] \in EnrollJob
         /\ jobs[w].step \in {"find", "store", "audit_publish"} => jobs[w] \in PublishJob
         /\ jobs[w].step \in {"set", "audit_set"} => jobs[w] \in SetJob
         /\ jobs[w].step = "limits" => jobs[w] \in LimitsJob
         /\ jobs[w].step \in {"purge", "audit_purge"} => jobs[w] \in PurgeJob
BY DEF TypeOK, Job, Idle, EnrollJob, PublishJob, RetentionJob, SetJob, LimitsJob, PurgeJob

(* Moving one worker to a well-typed job moves no other. *)
LEMMA GotoMoves ==
  ASSUME TypeOK, NEW w \in Workers, NEW job \in Job, Goto(w, job)
  PROVE  /\ jobs' \in [Workers -> Job]
         /\ jobs'[w] = job
         /\ \A v \in Workers \ {w} : jobs'[v] = jobs[v]
BY DEF TypeOK, Job, Goto

(* The machines table only grows, one row at a time. *)
Inserts(row) == machines' = Append(machines, row)

LEMMA InsertGrows ==
  ASSUME TypeOK, NEW row \in Machine, Inserts(row)
  PROVE  /\ machines' \in Seq(Machine)
         /\ Len(machines') = Len(machines) + 1
         /\ \A m \in Ids : machines'[m] = machines[m]
         /\ machines'[Len(machines) + 1] = row
         /\ Ids' = Ids \cup {Len(machines) + 1}
         /\ Len(machines) + 1 \notin Ids
BY DEF TypeOK, Inserts, Ids

(* A row inserted behind a request's back leaves it backed. *)
LEMMA BackedStays ==
  ASSUME TypeOK, JobsAreBacked, NEW w \in Workers, NEW job \in Job, Goto(w, job),
         machines' = machines \/ \E row \in Machine : Inserts(row),
         Backed(job, machines')
  PROVE  JobsAreBacked'
<1>1. \A v \in Workers : Backed(jobs[v], machines')
  <2>1. CASE machines' = machines
    BY <2>1 DEF JobsAreBacked
  <2>2. CASE \E row \in Machine : Inserts(row)
    <3>1. /\ \A m \in Ids : machines'[m] = machines[m]
          /\ 1..Len(machines) \subseteq 1..Len(machines')
      BY <2>2, InsertGrows DEF Ids
    <3> QED BY <3>1 DEF JobsAreBacked, Backed, Ids
  <2> QED BY <2>1, <2>2
<1>2. \A v \in Workers : jobs'[v] = IF v = w THEN job ELSE jobs[v]
  BY GotoMoves
<1> QED BY <1>1, <1>2 DEF JobsAreBacked

LEMMA IdleIsBacked ==
  /\ Idle \in Job
  /\ \A rows : Backed(Idle, rows)
BY DEF Idle, Job, Backed, EnrollSteps, PublishSteps

-----------------------------------------------------------------------------
(* The steps, by what they touch. *)

(* A step that moves a job and writes no table. *)
LEMMA QuietStep ==
  ASSUME IInv, NEW w \in Workers, NEW job \in Job, Goto(w, job), UNCHANGED <<clock, db>>,
         Backed(job, machines), requests' \in 0..MaxRequests
  PROVE  IInv'
<1>1. TypeOK'
  BY GotoMoves DEF IInv, TypeOK, db, Job
<1>2. JobsAreBacked'
  BY BackedStays DEF IInv, db
<1> QED BY <1>1, <1>2
  DEF IInv, db, TokensMatchMachines, IdentitiesAreUnique, MintedInOrg, AuditIsTruthful, Ids

(* The first step of a request, and the last of a worker that dies. *)
LEMMA ReceiveStep ==
  ASSUME IInv, NEW w \in Workers, NEW job \in Job, Receive(w), Goto(w, job),
         job.step \in {"redeem", "find", "set", "limits"}
  PROVE  IInv'
<1>1. Backed(job, machines)
  BY DEF Backed, EnrollSteps, PublishSteps
<1>2. requests' \in 0..MaxRequests
  BY BoundAssumption DEF Receive, IInv, TypeOK
<1> QED BY <1>1, <1>2, QuietStep DEF Receive

LEMMA FinishStep ==
  ASSUME IInv, NEW w \in Workers, Finish(w), UNCHANGED <<clock, db, requests>>
  PROVE  IInv'
<1>1. requests' \in 0..MaxRequests
  BY DEF IInv, TypeOK
<1> QED BY <1>1, IdleIsBacked, QuietStep DEF Finish, db

LEMMA ReadTokenStep ==
  ASSUME IInv, NEW w \in Workers, ReadToken(w)
  PROVE  IInv'
<1> DEFINE job == [jobs[w] EXCEPT !.step = "spend"]
<1>1. CASE Finish(w)
  BY <1>1, FinishStep DEF ReadToken
<1>2. CASE Proceed(w, "spend")
  <2>1. job \in Job /\ Backed(job, machines)
    BY JobOfStep DEF IInv, ReadToken, At, EnrollJob, Job, Backed, EnrollSteps, PublishSteps
  <2>2. requests' \in 0..MaxRequests
    BY DEF ReadToken, IInv, TypeOK
  <2> QED BY <1>2, <2>1, <2>2, QuietStep DEF ReadToken, Proceed, db
<1> QED BY <1>1, <1>2 DEF ReadToken

LEMMA LookUpStep ==
  ASSUME IInv, NEW w \in Workers, LookUpMachine(w)
  PROVE  IInv'
<1>1. PICK s \in {"audit_enroll", "register"} : Proceed(w, s)
  BY DEF LookUpMachine
<1> DEFINE job == [jobs[w] EXCEPT !.step = s]
<1>2. jobs[w] \in EnrollJob /\ jobs[w].step = "lookup" /\ Backed(jobs[w], machines)
  BY JobOfStep DEF IInv, LookUpMachine, At, JobsAreBacked
<1>3. job \in Job /\ Backed(job, machines)
  BY <1>2 DEF EnrollJob, Job, Backed, EnrollSteps, PublishSteps
<1>4. requests' \in 0..MaxRequests
  BY DEF LookUpMachine, IInv, TypeOK
<1> QED BY <1>1, <1>3, <1>4, QuietStep DEF LookUpMachine, Proceed, db

LEMMA FindMachineStep ==
  ASSUME IInv, NEW w \in Workers, FindMachine(w)
  PROVE  IInv'
<1>1. CASE Finish(w)
  BY <1>1, FinishStep DEF FindMachine
<1>2. ASSUME NEW m \in Ids, Goto(w, [jobs[w] EXCEPT !.step = "store", !.machine = m])
      PROVE  IInv'
  <2> DEFINE job == [jobs[w] EXCEPT !.step = "store", !.machine = m]
  <2>1. jobs[w].step = "find"
    BY DEF FindMachine, At
  <2>2. m \in Nat
    BY DEF IInv, TypeOK, Ids
  <2>3. jobs[w] \in PublishJob
    BY <2>1, JobOfStep DEF IInv
  <2>4. job \in PublishJob /\ job.step = "store" /\ job.machine = m
    BY <2>2, <2>3 DEF PublishJob
  <2>5. job \in Job /\ Backed(job, machines)
    BY <2>4 DEF Job, Backed, EnrollSteps, PublishSteps, Ids
  <2>6. requests' \in 0..MaxRequests
    BY DEF FindMachine, IInv, TypeOK
  <2> QED BY <1>2, <2>5, <2>6, QuietStep DEF FindMachine, db
<1> QED BY <1>1, <1>2 DEF FindMachine

(* A step of one worker that writes one row of the audit trail and ends. *)
LEMMA RecordStep ==
  ASSUME IInv, NEW w \in Workers, NEW org \in Orgs, NEW machine \in Nat,
         NEW action \in {"machine.enroll", "snapshot.publish", "retention.set", "retention.apply"},
         NEW snapshot \in SnapshotIds \cup {NoSnapshot},
         Record(w, org, action, machine, snapshot),
         action \in {"machine.enroll", "snapshot.publish"} =>
           machine \in Ids /\ machines[machine].org = org,
         action = "machine.enroll" =>
           machines[machine].via \in Tokens /\ TokenOrg[machines[machine].via] = org
  PROVE  IInv'
<1>1. TypeOK'
  <2>1. [org |-> org, action |-> action, machine |-> machine,
         snapshot |-> snapshot, at |-> clock] \in Event
    BY DEF IInv, TypeOK, Event
  <2> QED BY <2>1, GotoMoves, IdleIsBacked DEF IInv, TypeOK, Record, Finish, Job
<1>2. JobsAreBacked'
  BY BackedStays, IdleIsBacked DEF IInv, Record, Finish
<1>3. AuditIsTruthful'
  BY DEF IInv, Record, AuditIsTruthful, Ids
<1> QED BY <1>1, <1>2, <1>3
  DEF IInv, Record, TokensMatchMachines, IdentitiesAreUnique, MintedInOrg, Ids

LEMMA AuditSteps ==
  ASSUME IInv, NEW w \in Workers,
         AuditEnroll(w) \/ AuditPublish(w) \/ AuditSet(w) \/ AuditPurge(w)
  PROVE  IInv'
<1>1. CASE AuditEnroll(w)
  <2>1. jobs[w] \in EnrollJob /\ Backed(jobs[w], machines) /\ jobs[w].step = "audit_enroll"
    BY <1>1, JobOfStep DEF IInv, AuditEnroll, At, JobsAreBacked
  <2> DEFINE m == jobs[w].machine
  <2>2. m \in Ids /\ machines[m].via \in Tokens /\ machines[m] \in Machine /\ m \in Nat
    BY <2>1 DEF Backed, EnrollSteps, EnrollJob, IInv, TypeOK, Ids
  <2>3. machines[m].org \in Orgs /\ TokenOrg[machines[m].via] = machines[m].org
    BY <2>2 DEF IInv, MintedInOrg, Machine
  <2> QED BY <1>1, <2>2, <2>3, RecordStep DEF AuditEnroll
<1>2. CASE AuditPublish(w)
  <2>1. jobs[w] \in PublishJob /\ Backed(jobs[w], machines) /\ jobs[w].step = "audit_publish"
    BY <1>2, JobOfStep DEF IInv, AuditPublish, At, JobsAreBacked
  <2>2. /\ jobs[w].machine \in Ids /\ jobs[w].machine \in Nat
        /\ machines[jobs[w].machine] \in Machine
    BY <2>1 DEF Backed, PublishSteps, PublishJob, IInv, TypeOK, Ids
  <2>3. machines[jobs[w].machine].org \in Orgs /\ jobs[w].snapshot \in SnapshotIds
    BY <2>1, <2>2 DEF Machine, PublishJob
  <2>4. Record(w, machines[jobs[w].machine].org, "snapshot.publish", jobs[w].machine,
               jobs[w].snapshot)
    BY <1>2 DEF AuditPublish
  <2> QED BY <2>2, <2>3, <2>4, RecordStep
<1>3. CASE AuditPurge(w)
  <2>1. jobs[w].org \in Orgs /\ Null \in Nat
    BY <1>3, JobOfStep DEF IInv, AuditPurge, At, PurgeJob, Null
  <2> QED BY <1>3, <2>1, RecordStep DEF AuditPurge
<1>4. CASE AuditSet(w)
  <2>1. jobs[w].org \in Orgs /\ Null \in Nat
    BY <1>4, JobOfStep DEF IInv, AuditSet, At, SetJob, Null
  <2> QED BY <1>4, <2>1, RecordStep DEF AuditSet
<1> QED BY <1>1, <1>2, <1>3, <1>4

LEMMA StoreSnapshotStep ==
  ASSUME IInv, NEW w \in Workers, StoreSnapshot(w)
  PROVE  IInv'
<1> DEFINE job == [jobs[w] EXCEPT !.step = "audit_publish"]
<1>1. jobs[w] \in PublishJob /\ Backed(jobs[w], machines) /\ jobs[w].step = "store"
  BY JobOfStep DEF IInv, StoreSnapshot, At, JobsAreBacked
<1>2. job \in Job /\ Backed(job, machines)
  BY <1>1 DEF PublishJob, Job, Backed, EnrollSteps, PublishSteps
<1>3. jobs[w].machine \in Nat \ {0}
  BY <1>1 DEF Backed, PublishSteps, IInv, TypeOK
<1>4. snapshots' \subseteq Snapshot
  BY <1>1, <1>3 DEF StoreSnapshot, Snapshot, PublishJob, IInv, TypeOK
<1>5. TypeOK'
  BY <1>2, <1>4, GotoMoves DEF IInv, TypeOK, StoreSnapshot, Proceed, Job
<1>6. JobsAreBacked'
  BY <1>2, BackedStays DEF IInv, StoreSnapshot, Proceed
<1> QED BY <1>5, <1>6
  DEF IInv, StoreSnapshot, TokensMatchMachines, IdentitiesAreUnique, MintedInOrg,
      AuditIsTruthful, Ids

LEMMA SetRetentionStep ==
  ASSUME IInv, NEW w \in Workers, SetRetention(w)
  PROVE  IInv'
<1> DEFINE job == [jobs[w] EXCEPT !.step = "audit_set"]
<1>1. jobs[w] \in SetJob /\ jobs[w].org \in Orgs /\ jobs[w].limits \in Limits
  BY JobOfStep DEF IInv, SetRetention, At, SetJob
<1>2. job \in Job /\ Backed(job, machines)
  BY <1>1 DEF SetJob, RetentionJob, Job, Backed, EnrollSteps, PublishSteps
<1>3. TypeOK'
  BY <1>1, <1>2, GotoMoves DEF IInv, TypeOK, SetRetention, Proceed, Job
<1>4. JobsAreBacked'
  BY <1>2, BackedStays DEF IInv, SetRetention, Proceed
<1> QED BY <1>3, <1>4
  DEF IInv, SetRetention, TokensMatchMachines, IdentitiesAreUnique, MintedInOrg,
      AuditIsTruthful, Ids

(* Both cutoffs are computed from one row and at one moment. *)
LEMMA ReadLimitsStep ==
  ASSUME IInv, NEW w \in Workers, ReadLimits(w)
  PROVE  IInv'
<1> DEFINE limits == retention[jobs[w].org]
           job == [step |-> "purge", org |-> jobs[w].org,
                   snap_cutoff |-> clock - limits.snapshot_days,
                   audit_cutoff |-> clock - limits.audit_days]
<1>1. jobs[w].org \in Orgs
  BY JobOfStep DEF IInv, ReadLimits, At, LimitsJob
<1>2. limits \in Limits /\ limits.snapshot_days \in Nat /\ limits.audit_days \in Nat /\ clock \in Nat
  BY <1>1, DaysAssumption DEF IInv, TypeOK
<1>3. LimitsInOrder => limits.snapshot_days <= limits.audit_days
  BY <1>2 DEF LimitsInOrder
<1> HIDE DEF limits
<1>4. /\ job \in PurgeJob /\ job.step = "purge"
      /\ LimitsInOrder => job.audit_cutoff <= job.snap_cutoff
  <2>1. clock - limits.snapshot_days \in Int /\ clock - limits.audit_days \in Int
    BY <1>2
  <2>2. LimitsInOrder => clock - limits.audit_days <= clock - limits.snapshot_days
    BY <1>2, <1>3
  <2> QED BY <1>1, <2>1, <2>2 DEF PurgeJob
<1>5. job \in Job /\ Backed(job, machines)
  BY <1>4 DEF RetentionJob, Job, Backed, EnrollSteps, PublishSteps
<1>6. requests' \in 0..MaxRequests
  BY DEF ReadLimits, IInv, TypeOK
<1>7. Goto(w, job) /\ UNCHANGED <<clock, db>>
  BY DEF ReadLimits, limits
<1> QED BY <1>5, <1>6, <1>7, QuietStep

LEMMA PurgeStep ==
  ASSUME IInv, NEW w \in Workers, Purge(w)
  PROVE  IInv'
<1> DEFINE job == [jobs[w] EXCEPT !.step = "audit_purge"]
<1>1. jobs[w] \in PurgeJob
  BY JobOfStep DEF IInv, Purge, At
<1>2. job \in Job /\ Backed(job, machines)
  BY <1>1 DEF PurgeJob, RetentionJob, Job, Backed, EnrollSteps, PublishSteps
<1>3. snapshots' \subseteq snapshots /\ audit' \subseteq audit
  BY DEF Purge
<1>4. TypeOK'
  BY <1>2, <1>3, GotoMoves DEF IInv, TypeOK, Purge, Proceed, Job
<1>5. JobsAreBacked'
  BY <1>2, BackedStays DEF IInv, Purge, Proceed
<1> QED BY <1>3, <1>4, <1>5
  DEF IInv, Purge, TokensMatchMachines, IdentitiesAreUnique, MintedInOrg, AuditIsTruthful, Ids

-----------------------------------------------------------------------------
(* The two steps that insert a machine. *)

LEMMA SpendTokenStep ==
  ASSUME IInv, NEW w \in Workers, SpendToken(w)
  PROVE  IInv'
<1> DEFINE t == jobs[w].token
           k == jobs[w].key
           new == Len(machines) + 1
           row == [org |-> TokenOrg[t], key |-> k, via |-> t]
           job == [jobs[w] EXCEPT !.step = "lookup", !.machine = new]
<1>1. /\ jobs[w] \in EnrollJob /\ t \in Tokens /\ k \in Keys
      /\ new \in Nat \ {0}
      /\ row \in Machine /\ TokenOrg[t] \in Orgs
  <2>1. jobs[w].step = "spend"
    BY DEF SpendToken, At
  <2>2. jobs[w] \in EnrollJob
    BY <2>1, JobOfStep DEF IInv
  <2>3. t \in Tokens /\ k \in Keys
    BY <2>2 DEF EnrollJob
  <2>4. TokenOrg[t] \in Orgs /\ row \in Machine
    BY <2>3, OrgAssumption DEF Machine
  <2>5. new \in Nat \ {0}
    BY DEF IInv, TypeOK
  <2> QED BY <2>2, <2>3, <2>4, <2>5
<1>2. Inserts(row) /\ Goto(w, job) /\ ~HasMachine(TokenOrg[t], k)
      /\ used_by' = [used_by EXCEPT ![t] = new]
  BY DEF SpendToken, Inserts
<1>3. /\ machines' \in Seq(Machine) /\ Len(machines') = new
      /\ \A m \in Ids : machines'[m] = machines[m]
      /\ machines'[new] = row
      /\ Ids' = Ids \cup {new} /\ new \notin Ids
  BY <1>1, <1>2, InsertGrows DEF IInv
<1>4. job \in EnrollJob /\ job.step = "lookup" /\ job.machine = new /\ job.token = t
  BY <1>1 DEF EnrollJob
<1>5. job \in Job /\ Backed(job, machines')
  BY <1>1, <1>3, <1>4 DEF Job, Backed, EnrollSteps, PublishSteps
<1>6. TypeOK'
  BY <1>1, <1>2, <1>3, <1>5, GotoMoves DEF IInv, TypeOK, SpendToken, Job
<1>7. JobsAreBacked'
  BY <1>1, <1>2, <1>5, BackedStays DEF IInv
<1>8. TokensMatchMachines'
  <2>1. \A u \in Tokens : used_by'[u] = IF u = t THEN new ELSE used_by[u]
    BY <1>1, <1>2 DEF IInv, TypeOK
  <2>2. \A u \in Tokens : used_by'[u] # Null => used_by'[u] \in Ids' /\ machines'[used_by'[u]].via = u
    BY <2>1, <1>3 DEF IInv, TokensMatchMachines
  <2>3. \A m \in Ids' : machines'[m].via \in Tokens => used_by'[machines'[m].via] # Null
    BY <2>1, <1>1, <1>3 DEF IInv, TokensMatchMachines, Null
  <2> QED BY <2>2, <2>3 DEF TokensMatchMachines
<1>9. IdentitiesAreUnique'
  BY <1>2, <1>3 DEF IInv, IdentitiesAreUnique, HasMachine
<1>10. MintedInOrg'
  BY <1>3 DEF IInv, MintedInOrg
<1>11. AuditIsTruthful'
  BY <1>3 DEF IInv, AuditIsTruthful, SpendToken
<1> QED BY <1>6, <1>7, <1>8, <1>9, <1>10, <1>11 DEF IInv

LEMMA RegisterMachineStep ==
  ASSUME IInv, NEW w \in Workers, RegisterMachine(w)
  PROVE  IInv'
<1> DEFINE o == RegisterOrg(w)
           k == jobs[w].key
           new == Len(machines) + 1
           row == [org |-> o, key |-> k, via |-> Registered]
           job == [jobs[w] EXCEPT !.step = "audit_enroll"]
<1>1. jobs[w] \in EnrollJob /\ jobs[w].step = "register" /\ Backed(jobs[w], machines)
  BY JobOfStep DEF IInv, RegisterMachine, At, JobsAreBacked
<1>2. machines[jobs[w].machine] \in Machine
  BY <1>1 DEF Backed, EnrollSteps, IInv, TypeOK
<1>3. o \in Orgs /\ k \in Keys /\ row \in Machine
  BY <1>1, <1>2 DEF RegisterOrg, EnrollJob, Machine
<1>4. Inserts(row) /\ Goto(w, job) /\ ~HasMachine(o, k)
  BY DEF RegisterMachine, Inserts, Proceed
<1>5. /\ machines' \in Seq(Machine) /\ Len(machines') = new
      /\ \A m \in Ids : machines'[m] = machines[m]
      /\ machines'[new] = row
      /\ Ids' = Ids \cup {new} /\ new \notin Ids
  BY <1>3, <1>4, InsertGrows DEF IInv
<1>6. /\ job \in EnrollJob /\ job.step = "audit_enroll"
      /\ job.machine = jobs[w].machine /\ job.token = jobs[w].token
  BY <1>1 DEF EnrollJob
<1>7. jobs[w].machine \in Ids /\ machines[jobs[w].machine].via = jobs[w].token
  BY <1>1 DEF Backed, EnrollSteps, Ids
<1>8. job \in Job /\ Backed(job, machines')
  BY <1>5, <1>6, <1>7 DEF Job, Backed, EnrollSteps, PublishSteps, Ids
<1>9. TypeOK'
  BY <1>4, <1>5, <1>8, GotoMoves DEF IInv, TypeOK, RegisterMachine, Job
<1>10. JobsAreBacked'
  BY <1>3, <1>4, <1>8, BackedStays DEF IInv
<1>11. row.via \notin Tokens
  BY TokenAssumption DEF Registered
<1>12. TokensMatchMachines' /\ MintedInOrg'
  <2>1. used_by' = used_by
    BY DEF RegisterMachine
  <2>2. TokensMatchMachines'
    BY <1>5, <1>11, <2>1 DEF IInv, TokensMatchMachines
  <2> QED BY <1>5, <1>11, <2>2 DEF IInv, MintedInOrg
<1>13. IdentitiesAreUnique'
  BY <1>4, <1>5 DEF IInv, IdentitiesAreUnique, HasMachine
<1>14. AuditIsTruthful'
  BY <1>5 DEF IInv, AuditIsTruthful, RegisterMachine
<1> QED BY <1>9, <1>10, <1>12, <1>13, <1>14 DEF IInv

-----------------------------------------------------------------------------
(* The invariant. *)

LEMMA InitIInv == Init => IInv
<1> SUFFICES ASSUME Init PROVE IInv
  OBVIOUS
<1>1. TypeOK
  BY BoundAssumption, DaysAssumption DEF Init, TypeOK, Null, Idle
<1>2. JobsAreBacked
  BY IdleIsBacked DEF Init, JobsAreBacked
<1> QED BY <1>1, <1>2
  DEF Init, IInv, TokensMatchMachines, IdentitiesAreUnique, MintedInOrg, AuditIsTruthful, Ids

LEMMA ClockAndTokenSteps ==
  ASSUME IInv, Tick \/ \E t \in Tokens : create_enrollment_token(t)
  PROVE  IInv'
<1>1. TypeOK'
  BY DaysAssumption DEF IInv, TypeOK, Tick, create_enrollment_token, db
<1>2. UNCHANGED <<machines, used_by, audit, jobs>>
  BY DEF Tick, create_enrollment_token, db
<1> QED BY <1>1, <1>2
  DEF IInv, JobsAreBacked, TokensMatchMachines, IdentitiesAreUnique, MintedInOrg,
      AuditIsTruthful, Ids

LEMMA NextIInv == IInv /\ [Next]_vars => IInv'
<1> SUFFICES ASSUME IInv, [Next]_vars PROVE IInv'
  OBVIOUS
<1>1. CASE Tick \/ \E t \in Tokens : create_enrollment_token(t)
  BY <1>1, ClockAndTokenSteps
<1>2. ASSUME NEW w \in Workers,
             \/ \E t \in Tokens, k \in Keys, o \in BodyOrgs : enroll(w, t, k, o)
             \/ \E k \in Keys, s \in SnapshotIds, o \in Orgs \cup {NoOrg} : publish_snapshot(w, k, s, o)
             \/ \E o \in Orgs, l \in Limits : put_retention(w, o, l)
             \/ \E o \in Orgs : apply_retention(w, o)
      PROVE  IInv'
  <2>1. ASSUME NEW t \in Tokens, NEW k \in Keys, NEW o \in BodyOrgs, enroll(w, t, k, o)
        PROVE  IInv'
    <3>1. [step |-> "redeem", token |-> t, key |-> k, org |-> o, machine |-> Null] \in Job
      BY BodyAssumption DEF Job, EnrollJob, Null
    <3> QED BY <2>1, <3>1, ReceiveStep DEF enroll
  <2>2. ASSUME NEW k \in Keys, NEW s \in SnapshotIds, NEW o \in Orgs \cup {NoOrg},
               publish_snapshot(w, k, s, o)
        PROVE  IInv'
    <3>1. [step |-> "find", key |-> k, snapshot |-> s, org |-> o, machine |-> Null] \in Job
      BY DEF Job, PublishJob, Null
    <3> QED BY <2>2, <3>1, ReceiveStep DEF publish_snapshot
  <2>3. ASSUME NEW o \in Orgs, apply_retention(w, o)
        PROVE  IInv'
    <3>1. [step |-> "limits", org |-> o] \in Job
      BY DEF Job, RetentionJob, LimitsJob
    <3> QED BY <2>3, <3>1, ReceiveStep DEF apply_retention
  <2>4. ASSUME NEW o \in Orgs, NEW l \in Limits, put_retention(w, o, l)
        PROVE  IInv'
    <3>1. [step |-> "set", org |-> o, limits |-> l] \in Job
      BY DEF Job, RetentionJob, SetJob
    <3> QED BY <2>4, <3>1, ReceiveStep DEF put_retention
  <2> QED BY <1>2, <2>1, <2>2, <2>3, <2>4
<1>3. ASSUME NEW w \in Workers, EnrollStep(w)
      PROVE  IInv'
  BY <1>3, ReadTokenStep, SpendTokenStep, LookUpStep, RegisterMachineStep, AuditSteps, FinishStep
  DEF EnrollStep, SpendTokenFails, RegisterMachineFails
<1>4. ASSUME NEW w \in Workers, PublishStep(w) \/ RetentionStep(w)
      PROVE  IInv'
  BY <1>4, FindMachineStep, StoreSnapshotStep, SetRetentionStep, ReadLimitsStep, PurgeStep, AuditSteps
  DEF PublishStep, RetentionStep
<1>5. ASSUME NEW w \in Workers, Die(w)
      PROVE  IInv'
  BY <1>5, FinishStep DEF Die
<1>6. CASE UNCHANGED vars
  BY <1>6 DEF vars, db, IInv, TypeOK, JobsAreBacked, TokensMatchMachines, IdentitiesAreUnique,
              MintedInOrg, AuditIsTruthful, Ids
<1> QED BY <1>1, <1>2, <1>3, <1>4, <1>5, <1>6 DEF Next

(* The tables and the requests in progress are well typed at any load.     *)
THEOREM FleetTypeCorrect == Spec => []TypeOK
<1>1. IInv => TypeOK
  BY DEF IInv
<1> QED BY <1>1, InitIInv, NextIInv, PTL DEF Spec

(* A token and the machine it minted are committed together (the           *)
(* transaction of redeem_enrollment_token), whatever else the processes do *)
(* and whenever one of them dies.                                          *)
THEOREM FleetTokensMatchMachines == Spec => []TokensMatchMachines
<1>1. IInv => TokensMatchMachines
  BY DEF IInv
<1> QED BY <1>1, InitIInv, NextIInv, PTL DEF Spec

(* No interleaving of redeem_enrollment_token and register_machine gives   *)
(* an organization two machines with one key.                              *)
THEOREM FleetIdentitiesAreUnique == Spec => []IdentitiesAreUnique
<1>1. IInv => IdentitiesAreUnique
  BY DEF IInv
<1> QED BY <1>1, InitIInv, NextIInv, PTL DEF Spec

(* Whatever an audit trail says was enrolled or published exists, in the   *)
(* organization that reads the trail.                                      *)
THEOREM FleetAuditIsTruthful == Spec => []AuditIsTruthful
<1>1. IInv => AuditIsTruthful
  BY DEF IInv
<1> QED BY <1>1, InitIInv, NextIInv, PTL DEF Spec

(* Where no limit keeps snapshots for longer than the trail, a snapshot    *)
(* that stays keeps the record of its publication: an event that goes is   *)
(* no older than what it records, and that is of the same organization     *)
(* (apply_retention).                                                      *)
THEOREM FleetPublicationsStayOnRecord == Spec => PublicationsStayOnRecord
<1>1. ASSUME IInv, [Next]_vars PROVE [KeepsRecords]_vars
  <2>1. ASSUME NEW w \in Workers, Purge(w) PROVE KeepsRecords
    <3> SUFFICES ASSUME LimitsInOrder, NEW r \in snapshots \cap snapshots', OnRecord(r)
                 PROVE  OnRecord(r)'
      BY DEF KeepsRecords
    <3>1. PICK e \in audit : /\ e.action = "snapshot.publish"
                             /\ e.machine = r.machine /\ e.snapshot = r.id /\ e.at >= r.received
      BY DEF OnRecord
    <3>2. jobs[w] \in PurgeJob /\ Backed(jobs[w], machines) /\ jobs[w].step = "purge"
      BY <1>1, <2>1, JobOfStep DEF IInv, Purge, At, JobsAreBacked
    <3>3. jobs[w].audit_cutoff <= jobs[w].snap_cutoff
      BY <3>2 DEF Backed
    <3>4. /\ e.at \in Int /\ r.received \in Int
          /\ jobs[w].audit_cutoff \in Int /\ jobs[w].snap_cutoff \in Int
      BY <1>1, <3>2 DEF IInv, TypeOK, Event, Snapshot, PurgeJob
    <3>5. machines[r.machine].org = e.org
      BY <1>1, <3>1 DEF IInv, AuditIsTruthful
    <3>6. ~(r.received < jobs[w].snap_cutoff /\ e.org = jobs[w].org)
      BY <2>1, <3>5 DEF Purge, Expired
    <3>7. e \notin Forgotten(jobs[w])
      BY <3>1, <3>3, <3>4, <3>6 DEF Forgotten
    <3>8. e \in audit'
      BY <2>1, <3>7 DEF Purge
    <3> QED BY <3>1, <3>8 DEF OnRecord
  <2>2. CASE audit \subseteq audit'
    BY <2>2 DEF KeepsRecords, OnRecord
  <2>3. (\E w \in Workers : Purge(w)) \/ audit \subseteq audit'
    BY <1>1 DEF Next, vars, db, Tick, create_enrollment_token, enroll, publish_snapshot,
                put_retention, apply_retention, Receive, Die, Record, EnrollStep, PublishStep,
                RetentionStep, ReadToken, SpendToken, SpendTokenFails, LookUpMachine,
                RegisterMachine, RegisterMachineFails, AuditEnroll, FindMachine, StoreSnapshot,
                AuditPublish, SetRetention, AuditSet, ReadLimits, AuditPurge
  <2> QED BY <2>1, <2>2, <2>3
<1> QED BY <1>1, InitIInv, NextIInv, PTL DEF Spec, PublicationsStayOnRecord

-----------------------------------------------------------------------------
(* One server process.                                                     *)

(* A token that was read as redeemable is still unspent when it is spent:  *)
(* what a second process breaks.                                           *)
SpendIsFresh == \A w \in Workers : At(w, "spend") => used_by[jobs[w].token] = Null

SInv == IInv /\ SpendIsFresh /\ TokensAreSingleUse

(* A request that does not go on to spend its token has nothing to keep.   *)
LEMMA OnlyWorkerMoves ==
  ASSUME TypeOK, NEW w \in Workers, \A v \in Workers : v = w,
         NEW job, Goto(w, job), job.step # "spend"
  PROVE  SpendIsFresh'
<1>1. jobs'[w].step # "spend"
  BY DEF TypeOK, Goto
<1> QED BY <1>1 DEF SpendIsFresh, At

LEMMA OnlyWorkerProceeds ==
  ASSUME TypeOK, NEW w \in Workers, \A v \in Workers : v = w,
         NEW s, s # "spend", Proceed(w, s)
  PROVE  SpendIsFresh'
<1>1. jobs[w] \in Job
  BY JobOfStep
<1>2. [jobs[w] EXCEPT !.step = s].step = s
  BY <1>1 DEF Job, Idle, EnrollJob, PublishJob, RetentionJob, SetJob, LimitsJob, PurgeJob
<1> QED BY <1>2, OnlyWorkerMoves DEF Proceed

LEMMA FreshnessKept ==
  ASSUME SInv, NEW w \in Workers, \A v \in Workers : v = w, Next
  PROVE  SpendIsFresh'
<1>1. TypeOK /\ SpendIsFresh
  BY DEF SInv, IInv
<1>2. CASE Tick \/ \E t \in Tokens : create_enrollment_token(t)
  BY <1>1, <1>2 DEF SpendIsFresh, At, Tick, create_enrollment_token, db
<1>3. CASE \/ \E t \in Tokens, k \in Keys, o \in BodyOrgs : enroll(w, t, k, o)
           \/ \E k \in Keys, s \in SnapshotIds, o \in Orgs \cup {NoOrg} : publish_snapshot(w, k, s, o)
           \/ \E o \in Orgs, l \in Limits : put_retention(w, o, l)
           \/ \E o \in Orgs : apply_retention(w, o)
  BY <1>1, <1>3, OnlyWorkerMoves DEF enroll, publish_snapshot, put_retention, apply_retention, Receive
<1>4. CASE Finish(w)
  BY <1>1, <1>4, OnlyWorkerMoves DEF Finish, Idle
<1>5. CASE ReadToken(w) /\ Redeemable(jobs[w].token)
  <2>1. jobs[w] \in EnrollJob
    BY <1>1, <1>5, JobOfStep DEF ReadToken, At
  <2>2. jobs' = [jobs EXCEPT ![w] = [jobs[w] EXCEPT !.step = "spend"]]
    BY <1>5 DEF ReadToken, Proceed, Goto
  <2>3. jobs'[w].token = jobs[w].token
    BY <1>1, <2>1, <2>2 DEF TypeOK, EnrollJob
  <2> QED BY <1>5, <2>3 DEF ReadToken, Redeemable, db, SpendIsFresh
<1>6. CASE SpendToken(w)
  <2> DEFINE job == [jobs[w] EXCEPT !.step = "lookup", !.machine = Len(machines) + 1]
  <2>1. jobs[w] \in EnrollJob /\ Goto(w, job)
    BY <1>1, <1>6, JobOfStep DEF SpendToken, At
  <2>2. job.step = "lookup"
    BY <2>1 DEF EnrollJob
  <2> QED BY <1>1, <2>1, <2>2, OnlyWorkerMoves
<1>7. CASE FindMachine(w)
  <2>1. ASSUME NEW m \in Ids, Goto(w, [jobs[w] EXCEPT !.step = "store", !.machine = m])
        PROVE  SpendIsFresh'
    <3>1. jobs[w] \in PublishJob
      BY <1>1, <1>7, JobOfStep DEF FindMachine, At
    <3>2. [jobs[w] EXCEPT !.step = "store", !.machine = m].step = "store"
      BY <3>1 DEF PublishJob
    <3> QED BY <1>1, <2>1, <3>2, OnlyWorkerMoves
  <2> QED BY <1>4, <1>7, <2>1 DEF FindMachine
<1>8. CASE \/ LookUpMachine(w) \/ RegisterMachine(w) \/ StoreSnapshot(w)
           \/ SetRetention(w) \/ Purge(w)
  <2>1. \E s \in {"audit_enroll", "register", "audit_publish", "audit_set", "audit_purge"} :
          Proceed(w, s)
    BY <1>8 DEF LookUpMachine, RegisterMachine, StoreSnapshot, SetRetention, Purge
  <2> QED BY <1>1, <2>1, OnlyWorkerProceeds
<1>9. CASE \/ ReadToken(w) /\ ~Redeemable(jobs[w].token)
           \/ SpendTokenFails(w) \/ RegisterMachineFails(w)
           \/ AuditEnroll(w) \/ AuditPublish(w) \/ AuditSet(w) \/ AuditPurge(w) \/ Die(w)
  BY <1>4, <1>9 DEF ReadToken, SpendTokenFails, RegisterMachineFails, AuditEnroll,
                    AuditPublish, AuditSet, AuditPurge, Record, Die
<1>10. CASE ReadLimits(w)
  <2>1. PICK org, s, a : Goto(w, [step |-> "purge", org |-> org,
                                  snap_cutoff |-> s, audit_cutoff |-> a])
    BY <1>10 DEF ReadLimits
  <2> QED BY <1>1, <2>1, OnlyWorkerMoves
<1> QED BY <1>2, <1>3, <1>5, <1>6, <1>7, <1>8, <1>9, <1>10
  DEF Next, EnrollStep, PublishStep, RetentionStep

(* A fresh token has minted nothing yet. *)
LEMMA SingleUseKept ==
  ASSUME SInv, Next
  PROVE  TokensAreSingleUse'
<1>1. ASSUME NEW w \in Workers, SpendToken(w)
      PROVE  TokensAreSingleUse'
  <2> DEFINE t == jobs[w].token
             row == [org |-> TokenOrg[t], key |-> jobs[w].key, via |-> t]
  <2>1. jobs[w] \in EnrollJob /\ used_by[t] = Null
    BY <1>1, JobOfStep DEF SInv, IInv, SpendToken, SpendIsFresh, At
  <2>2. t \in Tokens /\ jobs[w].key \in Keys
    BY <2>1 DEF EnrollJob
  <2>3. row \in Machine /\ Inserts(row)
    BY <1>1, <2>2, OrgAssumption DEF Machine, SpendToken, Inserts
  <2>4. \A m \in Ids : machines[m].via # t
    BY <2>1, <2>2 DEF SInv, IInv, TokensMatchMachines
  <2> QED BY <2>3, <2>4, InsertGrows DEF SInv, IInv, TokensAreSingleUse
<1>2. ASSUME NEW w \in Workers, RegisterMachine(w)
      PROVE  TokensAreSingleUse'
  <2> DEFINE row == [org |-> RegisterOrg(w), key |-> jobs[w].key, via |-> Registered]
  <2>1. jobs[w] \in EnrollJob /\ Backed(jobs[w], machines) /\ jobs[w].step = "register"
    BY <1>2, JobOfStep DEF SInv, IInv, RegisterMachine, At, JobsAreBacked
  <2>2. machines[jobs[w].machine] \in Machine
    BY <2>1 DEF Backed, EnrollSteps, SInv, IInv, TypeOK
  <2>3. RegisterOrg(w) \in Orgs /\ jobs[w].key \in Keys
    BY <2>1, <2>2 DEF RegisterOrg, EnrollJob, Machine
  <2>4. row \in Machine /\ Inserts(row) /\ row.via \notin Tokens
    BY <1>2, <2>3, TokenAssumption DEF Machine, RegisterMachine, Inserts, Registered
  <2> QED BY <2>4, InsertGrows DEF SInv, IInv, TokensAreSingleUse
<1>3. CASE machines' = machines
  BY <1>3 DEF SInv, TokensAreSingleUse, Ids
<1>4. machines' = machines \/ \E w \in Workers : SpendToken(w) \/ RegisterMachine(w)
  BY DEF Next, db, Tick, create_enrollment_token, enroll, publish_snapshot, put_retention,
         apply_retention, SetRetention, AuditSet, ReadLimits, Receive, Die, Record, EnrollStep, PublishStep, RetentionStep, ReadToken,
         SpendTokenFails, LookUpMachine, RegisterMachineFails, AuditEnroll, FindMachine,
         StoreSnapshot, AuditPublish, Purge, AuditPurge
<1> QED BY <1>1, <1>2, <1>3, <1>4

(* With one server process a token mints one machine at most, also when    *)
(* that process dies and is restarted (redeem_enrollment_token; with two   *)
(* it may mint several).                                                   *)
THEOREM FleetTokensAreSingleUse ==
  ASSUME \A v, w \in Workers : v = w
  PROVE  Spec => []TokensAreSingleUse
<1>1. Init => SInv
  BY InitIInv DEF Init, SInv, SpendIsFresh, At, Idle, TokensAreSingleUse, Ids
<1>2. SInv /\ [Next]_vars => SInv'
  <2> SUFFICES ASSUME SInv, [Next]_vars PROVE SInv'
    OBVIOUS
  <2>1. IInv'
    BY NextIInv DEF SInv
  <2>2. CASE UNCHANGED vars
    BY <2>1, <2>2 DEF vars, db, SInv, SpendIsFresh, At, TokensAreSingleUse, Ids
  <2>3. CASE Next
    <3>1. ASSUME NEW w \in Workers PROVE SpendIsFresh'
      BY <2>3, FreshnessKept
    <3>2. SpendIsFresh'
      BY <3>1 DEF SpendIsFresh
    <3> QED BY <2>1, <2>3, <3>2, SingleUseKept DEF SInv
  <2> QED BY <2>2, <2>3
<1>3. SInv => TokensAreSingleUse
  BY DEF SInv
<1> QED BY <1>1, <1>2, <1>3, PTL DEF Spec

-----------------------------------------------------------------------------
(***************************************************************************)
(* BackupRestore, for any number of pages, transactions and faults, with   *)
(* the server, a backup and a restore in any order: a restore that was     *)
(* finished with the server down brings back what a quiet backup saved,    *)
(* and no byte the server did not write gets into the database unless an   *)
(* archive was restored that declares nothing.                             *)
(*                                                                         *)
(* Neither is inductive.  That what is restored is what was saved rests on *)
(* a backup that nobody disturbed having read the file as it is            *)
(* (BackupIsFaithful), on what the archive saves being what it declares    *)
(* (ArchivesAreHonest), on the archive having been verified before it is   *)
(* restored (RestoreIsVerified), and on the server being unable to disturb *)
(* a restore without having been opened.  A journal it left later undoes   *)
(* what it did to the restored file, and nothing else (JournalIsFresh).    *)
(* That a restore writes only good bytes rests on the digests of an        *)
(* archive being those of the bytes that were read, whatever is done to    *)
(* its members later (BytesAreWritten).                                    *)
(***************************************************************************)

Clean(content) == content # None => \A p \in Pages : content[p] # Garbage

Archives == [member : Contents, digest : Contents \cup {None},
             form : {"whole", "unreadable", "no manifest object"},
             saves : Contents \cup {None}]

Typed ==
  /\ BackupTypeOK
  /\ archive \in Archives \cup {None} /\ restore \in Archives \cup {None}

FilesAreWritten ==
  /\ server # "down" => file # None
  /\ file # None => Holds(file, None)

BackupIsFaithful ==
  /\ copy # None => file # None
  /\ calm # None => /\ copy # None /\ restore = None /\ file = calm /\ Recovered = file
                    /\ \A p \in Pages : copy[p] \in {None, calm[p]}

HonestArchive(a) == Holds(a.member, None) /\ (a.saves # None => a.digest = a.saves)

ArchivesAreHonest == archive # None => HonestArchive(archive)

RestoreIsVerified ==
  restore # None =>
    /\ file # None /\ promised = None /\ calm = None
    /\ HonestArchive(restore) /\ restore.digest \in {None, restore.member}
    /\ alone => server = "down" /\ \A p \in Pages \ left : file[p] = restore.member[p]

(* The pages a journal keeps have been overwritten by the server.          *)
JournalIsFresh ==
  promised # None /\ promised.clear /\ journal # None =>
    \A p \in Pages : journal[p] # None => file[p] # Missing

BackupInv ==
  /\ Typed /\ FilesAreWritten /\ BackupIsFaithful /\ ArchivesAreHonest /\ RestoreIsVerified
  /\ promised # None => file # None
  /\ JournalIsFresh
  /\ RoundTrip

BytesAreWritten ==
  trusted =>
    /\ Clean(file) /\ Clean(journal) /\ Clean(copy)
    /\ archive # None => Clean(archive.digest)
    /\ restore # None => Clean(restore.member)

-----------------------------------------------------------------------------

LEMMA BackupInitInv == BackupInit => BackupInv
<1> SUFFICES ASSUME BackupInit PROVE BackupInv
  OBVIOUS
<1>1. Blank \in Contents /\ Blank # None /\ Holds(Blank, None) /\ Holds(Blank, Garbage)
  BY ConstantAssumption DEF Blank, Contents, Holds
<1>2. BackupTypeOK
  <2>1. {file, journal, copy, calm} \subseteq Contents \cup {None}
    BY <1>1 DEF BackupInit
  <2>2. writes \in 0..MaxWrites /\ faults \in 0..MaxFaults
    BY ConstantAssumption DEF BackupInit
  <2> QED
    BY <2>1, <2>2 DEF BackupInit, BackupTypeOK
<1>5. Typed /\ RoundTrip
  BY <1>2 DEF BackupInit, Typed, RoundTrip
<1>3. FilesAreWritten
  BY <1>1 DEF BackupInit, FilesAreWritten, Holds
<1>4. BackupIsFaithful /\ ArchivesAreHonest /\ RestoreIsVerified /\ promised = None
  BY DEF BackupInit, BackupIsFaithful, ArchivesAreHonest, RestoreIsVerified
<1> QED
  BY <1>3, <1>4, <1>5 DEF BackupInv, JournalIsFresh

LEMMA OpenKeeps == BackupInv /\ Open => BackupInv'
<1> SUFFICES ASSUME BackupInv, Open PROVE BackupInv'
  OBVIOUS
<1> USE ConstantAssumption
<1>1. Empty \in Contents /\ Empty # None /\ Holds(Empty, None)
  BY DEF Empty, Contents, Holds
<1>2. CASE file \in {None, Empty}
  <2>1. file' = Empty /\ journal' = None /\ Recovered' = Empty
    BY <1>2 DEF Open, Recovered
  <2>2. Typed'
    BY <1>1, <2>1 DEF Open, BackupInv, Typed, BackupTypeOK, backupVars
  <2>3. FilesAreWritten'
    BY <1>1, <2>1 DEF Open, BackupInv, FilesAreWritten, backupVars
  <2>4. BackupIsFaithful' /\ ArchivesAreHonest' /\ RestoreIsVerified'
    BY <1>1, <1>2, <2>1 DEF Open, BackupInv, BackupIsFaithful, ArchivesAreHonest, RestoreIsVerified, backupVars
  <2>5. ASSUME promised # None, promised.clear, promised.saves # None PROVE Empty = promised.saves
    <3>1. file = Empty /\ Recovered = promised.saves
      BY <1>2, <2>5 DEF BackupInv, RoundTrip
    <3>2. CASE journal = None
      BY <3>1, <3>2 DEF Recovered
    <3>3. CASE journal # None
      <4>1. \A p \in Pages : journal[p] = None
        BY <2>5, <3>1, <3>3 DEF BackupInv, JournalIsFresh, Empty
      <4>2. Recovered = [p \in Pages |-> file[p]]
        BY <3>3, <4>1 DEF Recovered
      <4> QED
        BY <3>1, <4>2 DEF Empty
    <3> QED
      BY <3>2, <3>3
  <2>6. RoundTrip'
    BY <2>1, <2>5 DEF Open, RoundTrip
  <2> QED
    BY <1>1, <2>1, <2>2, <2>3, <2>4, <2>6 DEF BackupInv, JournalIsFresh
<1>3. CASE file \notin {None, Empty}
  <2>1. /\ file' = Recovered /\ journal' = None /\ Recovered' = Recovered
        /\ server' = "idle" /\ alone' = FALSE
        /\ UNCHANGED <<writes, faults, copy, calm, archive, restore, left, trusted, promised>>
    BY <1>3 DEF Open, Recovered, backupVars
  <2>2. file \in Contents /\ journal \in Contents \cup {None}
    BY <1>3 DEF BackupInv, Typed, BackupTypeOK
  <2>3. Recovered \in Contents /\ Holds(Recovered, None)
    BY <1>3, <2>2 DEF BackupInv, FilesAreWritten, Recovered, Contents, Holds
  <2>4. Typed'
    BY <2>1, <2>3 DEF BackupInv, Typed, BackupTypeOK
  <2>5. Recovered # None
    BY <2>3
  <2>6. FilesAreWritten' /\ BackupIsFaithful' /\ ArchivesAreHonest' /\ RestoreIsVerified'
    BY <2>1, <2>3, <2>5 DEF BackupInv, FilesAreWritten, BackupIsFaithful, ArchivesAreHonest,
       RestoreIsVerified
  <2>7. RoundTrip' /\ JournalIsFresh'
    BY <2>1 DEF BackupInv, RoundTrip, JournalIsFresh
  <2> QED
    BY <2>1, <2>5, <2>6, <2>4, <2>7 DEF BackupInv
<1> QED
  BY <1>2, <1>3

LEMMA BeginKeeps == BackupInv /\ Begin => BackupInv'
  BY ConstantAssumption DEF Begin, Unread, Contents, BackupInv, Typed, BackupTypeOK, FilesAreWritten,
     BackupIsFaithful, ArchivesAreHonest, HonestArchive, RestoreIsVerified, RoundTrip, JournalIsFresh, Recovered, Holds,
     dbVars, backupVars, restoreVars

LEMMA WritePageKeeps == ASSUME NEW p \in Pages, BackupInv, WritePage(p) PROVE BackupInv'
  BY ConstantAssumption DEF WritePage, Contents, BackupInv, Typed, BackupTypeOK, FilesAreWritten,
     BackupIsFaithful, ArchivesAreHonest, HonestArchive, RestoreIsVerified, RoundTrip, JournalIsFresh, Recovered, Holds,
     dbVars, backupVars, restoreVars

LEMMA EndTxKeeps == BackupInv /\ EndTx => BackupInv'
  BY ConstantAssumption DEF EndTx, Contents, BackupInv, Typed, BackupTypeOK, FilesAreWritten,
     BackupIsFaithful, ArchivesAreHonest, HonestArchive, RestoreIsVerified, RoundTrip, JournalIsFresh, Recovered, Holds,
     dbVars, backupVars, restoreVars

LEMMA StopKeeps == BackupInv /\ Stop => BackupInv'
  BY ConstantAssumption DEF Stop, Contents, BackupInv, Typed, BackupTypeOK, FilesAreWritten,
     BackupIsFaithful, ArchivesAreHonest, HonestArchive, RestoreIsVerified, RoundTrip, JournalIsFresh, Recovered, Holds,
     dbVars, backupVars, restoreVars

LEMMA ServerDiesKeeps == BackupInv /\ ServerDies => BackupInv'
  BY ConstantAssumption DEF ServerDies, Fault, Contents, BackupInv, Typed, BackupTypeOK, FilesAreWritten,
     BackupIsFaithful, ArchivesAreHonest, HonestArchive, RestoreIsVerified, RoundTrip, JournalIsFresh, Recovered, Holds,
     dbVars, backupVars, restoreVars

LEMMA DatabaseIsLostKeeps == BackupInv /\ DatabaseIsLost => BackupInv'
  BY ConstantAssumption DEF DatabaseIsLost, Fault, Contents, BackupInv, Typed, BackupTypeOK, FilesAreWritten,
     BackupIsFaithful, ArchivesAreHonest, HonestArchive, RestoreIsVerified, RoundTrip, JournalIsFresh, Recovered, Holds,
     dbVars, backupVars, restoreVars

LEMMA RefusedIsHonest ==
  ASSUME NEW form \in {"unreadable", "no manifest object"}
  PROVE  Refused(form) \in Archives /\ HonestArchive(Refused(form))
  BY ConstantAssumption DEF Refused, Archives, HonestArchive, Empty, Contents, Holds

LEMMA ArchiveIsDamagedKeeps == BackupInv /\ ArchiveIsDamaged => BackupInv'
<1> SUFFICES ASSUME BackupInv, ArchiveIsDamaged PROVE BackupInv'
  OBVIOUS
<1>1. archive \in Archives /\ archive # None /\ HonestArchive(archive)
  BY DEF BackupInv, Typed, ArchiveIsDamaged, ArchivesAreHonest
<1>2. archive' \in Archives /\ HonestArchive(archive')
  <2>1. ASSUME NEW p \in Pages, archive' = [archive EXCEPT !.member[p] = Garbage] PROVE <1>2
    BY <1>1, <2>1, ConstantAssumption DEF Archives, Contents, HonestArchive, Holds
  <2>2. ASSUME NEW form \in {"unreadable", "no manifest object"}, archive' = Refused(form)
        PROVE  <1>2
    BY <2>2, RefusedIsHonest
  <2>3. ASSUME archive' = [archive EXCEPT !.digest = None, !.saves = None] PROVE <1>2
    BY <1>1, <2>3 DEF Archives, HonestArchive
  <2> QED
    BY <2>1, <2>2, <2>3 DEF ArchiveIsDamaged
<1>3. faults' \in 0..MaxFaults
  <2>1. faults \in 0..MaxFaults
    BY DEF BackupInv, Typed, BackupTypeOK
  <2>2. faults < MaxFaults /\ faults' = faults + 1
    BY DEF ArchiveIsDamaged, Fault
  <2> QED
    BY <2>1, <2>2, ConstantAssumption
<1>4. UNCHANGED <<dbVars, copy, calm, restoreVars, promised>>
  BY DEF ArchiveIsDamaged
<1> QED
  BY <1>2, <1>3, <1>4 DEF BackupInv, Typed, BackupTypeOK, FilesAreWritten, BackupIsFaithful,
     ArchivesAreHonest, HonestArchive, RestoreIsVerified, RoundTrip, JournalIsFresh, Recovered, Holds, dbVars, restoreVars

LEMMA BackupDiesKeeps == BackupInv /\ BackupDies => BackupInv'
<1> SUFFICES ASSUME BackupInv, BackupDies PROVE BackupInv'
  OBVIOUS
<1>1. archive' \in Archives \cup {None} /\ (archive' # None => HonestArchive(archive'))
  <2>1. CASE archive' = archive
    BY <2>1 DEF BackupInv, Typed, ArchivesAreHonest
  <2>2. CASE archive' = Refused("unreadable")
    BY <2>2, RefusedIsHonest
  <2> QED
    BY <2>1, <2>2 DEF BackupDies
<1>2. Typed'
  BY <1>1, ConstantAssumption DEF BackupDies, Fault, BackupInv, Typed, BackupTypeOK, dbVars, restoreVars
<1>3. copy' = None /\ calm' = None /\ UNCHANGED <<dbVars, restoreVars, promised>>
  BY DEF BackupDies
<1> QED
  BY <1>1, <1>2, <1>3 DEF BackupInv, FilesAreWritten, BackupIsFaithful, ArchivesAreHonest, RestoreIsVerified,
     RoundTrip, JournalIsFresh, Recovered, Holds, dbVars, restoreVars

LEMMA RestoreDiesKeeps == BackupInv /\ RestoreDies => BackupInv'
<1> SUFFICES ASSUME BackupInv, RestoreDies PROVE BackupInv'
  OBVIOUS
<1>1. /\ restore' = None /\ left' = {} /\ alone' = FALSE
      /\ UNCHANGED <<file, journal, server, writes, copy, calm, archive, trusted, promised>>
  BY DEF RestoreDies, dbVars, backupVars
<1>2. faults' \in 0..MaxFaults
  BY ConstantAssumption DEF RestoreDies, Fault, BackupInv, Typed, BackupTypeOK
<1>3. Typed'
  <2>1. BackupTypeOK'
    BY <1>1, <1>2 DEF BackupInv, Typed, BackupTypeOK
  <2>2. archive' \in Archives \cup {None} /\ restore' \in Archives \cup {None}
    BY <1>1 DEF BackupInv, Typed
  <2> QED
    BY <2>1, <2>2 DEF Typed
<1> QED
  BY <1>1, <1>3 DEF BackupInv, FilesAreWritten, BackupIsFaithful, ArchivesAreHonest, RestoreIsVerified,
     RoundTrip, JournalIsFresh, Recovered, Holds

LEMMA StartBackupKeeps == BackupInv /\ StartBackup => BackupInv'
  BY ConstantAssumption DEF StartBackup, Unread, Contents, BackupInv, Typed, BackupTypeOK, FilesAreWritten,
     BackupIsFaithful, ArchivesAreHonest, HonestArchive, RestoreIsVerified, RoundTrip, JournalIsFresh, Recovered, Holds,
     dbVars, backupVars, restoreVars

LEMMA WriteArchiveKeeps == BackupInv /\ WriteArchive => BackupInv'
<1> SUFFICES ASSUME BackupInv, WriteArchive PROVE BackupInv'
  OBVIOUS
<1>1. copy \in Contents /\ copy # None /\ calm \in Contents \cup {None}
  BY DEF BackupInv, Typed, BackupTypeOK, WriteArchive
<1>2. calm # None => copy = calm
  <2> SUFFICES ASSUME calm # None PROVE copy = calm
    OBVIOUS
  <2>1. \A p \in Pages : copy[p] = calm[p]
    BY DEF BackupInv, BackupIsFaithful, WriteArchive, Holds
  <2> QED
    BY <1>1, <2>1 DEF Contents
<1>3. archive' \in Archives /\ HonestArchive(archive')
  BY <1>1, <1>2 DEF WriteArchive, Archives, HonestArchive, BackupInv, FilesAreWritten
<1> QED
  BY <1>3, ConstantAssumption DEF WriteArchive, BackupInv, Typed, BackupTypeOK, FilesAreWritten, BackupIsFaithful,
     ArchivesAreHonest, RestoreIsVerified, RoundTrip, JournalIsFresh, Recovered, Holds, dbVars, restoreVars

LEMMA FinishRestoreKeeps == BackupInv /\ FinishRestore => BackupInv'
<1> SUFFICES ASSUME BackupInv, FinishRestore PROVE BackupInv'
  OBVIOUS
<1>1. restore \in Archives /\ file \in Contents /\ file # None
  BY DEF BackupInv, Typed, BackupTypeOK, FinishRestore, RestoreIsVerified
<1>2. ASSUME alone PROVE file = restore.member
  <2>1. \A p \in Pages : file[p] = restore.member[p]
    BY <1>2 DEF BackupInv, RestoreIsVerified, FinishRestore
  <2>2. restore.member \in Contents
    BY <1>1 DEF Archives
  <2> QED
    BY <1>1, <2>1, <2>2 DEF Contents
<1>3. ASSUME alone, restore.saves # None PROVE file = restore.saves
  BY <1>2, <1>3 DEF BackupInv, RestoreIsVerified, FinishRestore, HonestArchive
<1>4. file' = file /\ journal' = journal /\ server' = server
  BY DEF FinishRestore, dbVars
<1>5. RoundTrip'
  <2>1. CASE alone
    <3>1. promised' = [placed |-> restore.member, saves |-> restore.saves, clear |-> journal = None]
      BY <2>1 DEF FinishRestore, Promise
    <3>2. promised'.saves = restore.saves /\ promised'.clear = (journal = None)
      BY <3>1
    <3> QED
      BY <1>3, <1>4, <2>1, <3>2 DEF RoundTrip, Recovered
  <2>2. CASE ~alone
    BY <2>2 DEF FinishRestore, RoundTrip, Promise
  <2> QED
    BY <2>1, <2>2
<1>6. JournalIsFresh'
  <2>1. CASE alone
    <3>1. promised'.clear = (journal = None)
      BY <2>1 DEF FinishRestore, Promise
    <3> QED
      BY <1>4, <3>1 DEF JournalIsFresh
  <2>2. CASE ~alone
    BY <2>2 DEF FinishRestore, JournalIsFresh, Promise
  <2> QED
    BY <2>1, <2>2
<1> QED
  BY <1>1, <1>4, <1>5, <1>6, ConstantAssumption DEF FinishRestore, BackupInv, Typed, BackupTypeOK, FilesAreWritten,
     BackupIsFaithful, ArchivesAreHonest, RestoreIsVerified, Recovered, Holds, dbVars, backupVars

LEMMA ReadPageKeeps == ASSUME NEW p \in Pages, BackupInv, ReadPage(p) PROVE BackupInv'
  BY ConstantAssumption DEF ReadPage, Contents, BackupInv, Typed, BackupTypeOK, FilesAreWritten,
     BackupIsFaithful, ArchivesAreHonest, HonestArchive, RestoreIsVerified, RoundTrip, JournalIsFresh, Recovered, Holds,
     dbVars, backupVars, restoreVars

LEMMA RestorePageKeeps == ASSUME NEW p \in Pages, BackupInv, RestorePage(p) PROVE BackupInv'
<1>1. restore \in Archives /\ file \in Contents /\ promised = None /\ restore # None /\ calm = None
  BY DEF BackupInv, Typed, BackupTypeOK, RestorePage, RestoreIsVerified
<1>2. Holds(restore.member, None)
  BY DEF BackupInv, RestoreIsVerified, RestorePage, HonestArchive
<1>3. restore.member \in Contents
  BY <1>1 DEF Archives
<1>4. restore.member # None
  BY <1>3, ConstantAssumption
<1>5. file # None
  BY <1>1, ConstantAssumption
<1>6. file' \in Contents /\ Holds(file', None)
  BY <1>1, <1>2, <1>3, <1>4, <1>5 DEF RestorePage, BackupInv, FilesAreWritten, Holds, Contents
<1>7. ASSUME alone PROVE \A q \in Pages \ left' : file'[q] = restore.member[q]
  BY <1>1, <1>7 DEF RestorePage, BackupInv, RestoreIsVerified, Contents
<1>8. file' # None
  BY <1>6, ConstantAssumption
<1>9. UNCHANGED <<journal, server, writes, faults, copy, archive, restore, alone, trusted, promised>> /\ calm' = None
  BY DEF RestorePage
<1>10. left' \subseteq Pages
  BY DEF RestorePage, BackupInv, Typed, BackupTypeOK
<1>11. Typed'
  BY <1>6, <1>9, <1>10, <1>1 DEF BackupInv, Typed, BackupTypeOK
<1>12. FilesAreWritten' /\ BackupIsFaithful' /\ ArchivesAreHonest' /\ RestoreIsVerified'
  BY <1>1, <1>6, <1>7, <1>8, <1>9 DEF BackupInv, FilesAreWritten, BackupIsFaithful, ArchivesAreHonest,
     RestoreIsVerified
<1> QED
  BY <1>1, <1>8, <1>9, <1>11, <1>12 DEF BackupInv, RoundTrip, JournalIsFresh

LEMMA StartRestoreKeeps == ASSUME NEW o \in BOOLEAN, BackupInv, StartRestore(o) PROVE BackupInv'
<1>1. archive \in Archives /\ HonestArchive(archive) /\ archive # None
  BY DEF BackupInv, Typed, ArchivesAreHonest, StartRestore
<1>2. archive.digest \in {None, archive.member}
  BY DEF StartRestore, Verifies
<1>3. Empty \in Contents /\ Empty # None /\ Holds(Empty, None)
  BY ConstantAssumption DEF Empty, Contents, Holds
<1> QED
  BY <1>1, <1>2, <1>3 DEF StartRestore, BackupInv, Typed, BackupTypeOK, FilesAreWritten,
     BackupIsFaithful, ArchivesAreHonest, RestoreIsVerified, RoundTrip, JournalIsFresh

LEMMA BackupNextInv == BackupInv /\ [BackupNext]_allBackupVars => BackupInv'
<1> SUFFICES ASSUME BackupInv, [BackupNext]_allBackupVars PROVE BackupInv'
  OBVIOUS
<1>1. CASE UNCHANGED allBackupVars
  BY <1>1 DEF allBackupVars, dbVars, backupVars, restoreVars, BackupInv, Typed, BackupTypeOK, FilesAreWritten,
     BackupIsFaithful, ArchivesAreHonest, HonestArchive, RestoreIsVerified, RoundTrip, JournalIsFresh, Recovered, Holds
<1>2. CASE Open \/ Begin \/ EndTx \/ Stop
  BY <1>2, OpenKeeps, BeginKeeps, EndTxKeeps, StopKeeps
<1>3. CASE ServerDies \/ DatabaseIsLost \/ ArchiveIsDamaged \/ BackupDies \/ RestoreDies
  BY <1>3, ServerDiesKeeps, DatabaseIsLostKeeps, ArchiveIsDamagedKeeps, BackupDiesKeeps,
     RestoreDiesKeeps
<1>4. CASE StartBackup \/ WriteArchive \/ FinishRestore
  BY <1>4, StartBackupKeeps, WriteArchiveKeeps, FinishRestoreKeeps
<1>5. CASE \E p \in Pages : WritePage(p) \/ ReadPage(p) \/ RestorePage(p)
  BY <1>5, WritePageKeeps, ReadPageKeeps, RestorePageKeeps
<1>6. CASE \E overwrite \in BOOLEAN : StartRestore(overwrite)
  BY <1>6, StartRestoreKeeps
<1> QED
  BY <1>1, <1>2, <1>3, <1>4, <1>5, <1>6 DEF BackupNext

LEMMA BackupInvAlways == BackupSpec => []BackupInv
  BY BackupInitInv, BackupNextInv, PTL DEF BackupSpec

-----------------------------------------------------------------------------
(* The bytes.                                                              *)

LEMMA OthersAreClean ==
  /\ Clean(None) /\ Clean(Blank) /\ Clean(Empty) /\ Clean(Unread)
  /\ \A n \in Nat : n # Garbage
  BY ConstantAssumption DEF Clean, Blank, Empty, Unread

(* The server writes its own bytes, and plays back those it had read.      *)
LEMMA ServerWritesBytes ==
  ASSUME BackupInv, BytesAreWritten, trusted,
         Open \/ Begin \/ EndTx \/ Stop \/ \E p \in Pages : WritePage(p)
  PROVE  BytesAreWritten'
<1>1. /\ Clean(file) /\ Clean(journal)
      /\ {file, journal} \subseteq Contents \cup {None} /\ writes \in Nat
  BY ConstantAssumption DEF BytesAreWritten, BackupInv, Typed, BackupTypeOK
<1>2. file # None => Clean(Recovered)
  <2> SUFFICES ASSUME file # None, journal # None PROVE Clean(Recovered)
    BY <1>1 DEF Recovered
  <2> QED
    BY <1>1 DEF Recovered, Clean
<1>3. Clean(file') /\ Clean(journal')
  <2>1. CASE Open
    BY <1>2, <2>1, OthersAreClean DEF Open
  <2>2. CASE Begin
    BY <1>1, <2>2, OthersAreClean DEF Begin
  <2>3. CASE EndTx
    <3>1. file # None
      BY <2>3 DEF EndTx, BackupInv, FilesAreWritten
    <3> QED
      BY <1>1, <1>2, <2>3, <3>1, OthersAreClean DEF EndTx
  <2>4. CASE Stop
    BY <1>1, <2>4 DEF Stop
  <2>5. ASSUME NEW p \in Pages, WritePage(p) PROVE Clean(file') /\ Clean(journal')
    <3>1. file # None /\ journal # None
      BY <2>5 DEF WritePage, BackupInv, FilesAreWritten, Typed, BackupTypeOK
    <3>2. file \in Contents /\ journal \in Contents
      BY <1>1, <3>1
    <3> QED
      BY <1>1, <2>5, <3>1, <3>2, OthersAreClean DEF WritePage, Clean, Contents
  <2> QED
    BY <2>1, <2>2, <2>3, <2>4, <2>5
<1>4. UNCHANGED <<copy, archive, restore>>
  BY DEF Open, Begin, EndTx, Stop, WritePage, backupVars, restoreVars
<1> QED
  BY <1>3, <1>4 DEF BytesAreWritten

LEMMA BytesNext == BackupInv /\ BytesAreWritten /\ [BackupNext]_allBackupVars => BytesAreWritten'
<1> SUFFICES ASSUME BackupInv, BytesAreWritten, [BackupNext]_allBackupVars, trusted'
             PROVE  BytesAreWritten'
  BY DEF BytesAreWritten
<1>1. trusted
  <2>1. trusted' = trusted \/ \E o \in BOOLEAN : StartRestore(o)
    BY DEF BackupNext, allBackupVars, restoreVars, Open, Begin, EndTx, Stop, ServerDies, DatabaseIsLost,
       ArchiveIsDamaged, BackupDies, RestoreDies, StartBackup, WriteArchive, FinishRestore, WritePage,
       ReadPage, RestorePage
  <2> QED
    BY <2>1 DEF StartRestore
<1>2. /\ Clean(file) /\ Clean(journal) /\ Clean(copy)
      /\ archive # None => Clean(archive.digest)
      /\ restore # None => Clean(restore.member)
  BY <1>1 DEF BytesAreWritten
<1>3. /\ {file, copy} \subseteq Contents \cup {None} /\ {archive, restore} \subseteq Archives \cup {None}
  BY DEF BackupInv, Typed, BackupTypeOK
<1>4. CASE UNCHANGED allBackupVars
  BY <1>2, <1>4 DEF allBackupVars, dbVars, backupVars, restoreVars, BytesAreWritten, Clean
<1>5. CASE Open \/ Begin \/ EndTx \/ Stop \/ \E p \in Pages : WritePage(p)
  BY <1>1, <1>5, ServerWritesBytes
<1>6. CASE ServerDies \/ DatabaseIsLost
  BY <1>2, <1>6, OthersAreClean DEF ServerDies, DatabaseIsLost, backupVars, restoreVars, BytesAreWritten
<1>7. CASE ArchiveIsDamaged
  <2>1. archive \in Archives
    BY <1>3, <1>7 DEF ArchiveIsDamaged
  <2>2. archive'.digest \in {archive.digest, Empty, None}
    <3>1. ASSUME NEW p \in Pages, archive' = [archive EXCEPT !.member[p] = Garbage]
          PROVE  archive'.digest = archive.digest
      BY <2>1, <3>1 DEF Archives
    <3>2. ASSUME archive' = [archive EXCEPT !.digest = None, !.saves = None]
          PROVE  archive'.digest = None
      BY <2>1, <3>2 DEF Archives
    <3>3. ASSUME NEW form, archive' = Refused(form)
          PROVE  archive'.digest = Empty
      BY <3>3 DEF Refused
    <3> QED
      BY <1>7, <3>1, <3>2, <3>3 DEF ArchiveIsDamaged
  <2>3. Clean(archive'.digest)
    BY <1>2, <1>7, <2>2, OthersAreClean DEF ArchiveIsDamaged
  <2> QED
    BY <1>2, <1>7, <2>3 DEF ArchiveIsDamaged, dbVars, restoreVars, BytesAreWritten
<1>8. CASE BackupDies
  <2>1. copy' = None /\ (archive' = archive \/ archive'.digest = Empty)
    BY <1>8 DEF BackupDies, Refused
  <2>2. archive' # None => Clean(archive'.digest)
    BY <1>2, <2>1, OthersAreClean
  <2> QED
    BY <1>2, <1>8, <2>1, <2>2, OthersAreClean DEF BackupDies, dbVars, restoreVars, BytesAreWritten
<1>9. CASE RestoreDies \/ FinishRestore
  BY <1>2, <1>9 DEF RestoreDies, FinishRestore, dbVars, backupVars, BytesAreWritten
<1>10. CASE StartBackup
  BY <1>2, <1>10, OthersAreClean DEF StartBackup, dbVars, restoreVars, BytesAreWritten
<1>11. ASSUME NEW p \in Pages, ReadPage(p) PROVE BytesAreWritten'
  <2>1. copy \in Contents /\ file \in Contents
    BY <1>3, <1>11 DEF ReadPage, BackupInv, BackupIsFaithful
  <2>2. Clean(copy')
    BY <1>2, <1>11, <2>1 DEF ReadPage, Clean, Contents, BackupInv, BackupIsFaithful
  <2> QED
    BY <1>2, <1>11, <2>2 DEF ReadPage, dbVars, restoreVars, BytesAreWritten
<1>12. CASE WriteArchive
  <2>1. copy' = None /\ archive'.digest = copy
    BY <1>12 DEF WriteArchive
  <2> QED
    BY <1>2, <1>12, <2>1, OthersAreClean DEF WriteArchive, dbVars, restoreVars, BytesAreWritten
<1>13. ASSUME NEW o \in BOOLEAN, StartRestore(o) PROVE BytesAreWritten'
  <2>1. archive.digest = archive.member
    BY <1>13 DEF StartRestore, Verifies
  <2>2. /\ file' = Empty /\ restore' = archive /\ archive # None
        /\ UNCHANGED <<journal, copy, archive>>
    BY <1>13 DEF StartRestore
  <2> QED
    BY <1>2, <2>1, <2>2, OthersAreClean DEF BytesAreWritten
<1>14. ASSUME NEW p \in Pages, RestorePage(p) PROVE BytesAreWritten'
  <2>1. restore \in Archives /\ file \in Contents /\ file # None /\ Clean(restore.member)
    BY <1>2, <1>3, <1>14 DEF RestorePage, BackupInv, RestoreIsVerified
  <2>2. restore.member \in Contents /\ restore.member # None
    BY <2>1, ConstantAssumption DEF Archives
  <2>3. Clean(file')
    BY <1>2, <1>14, <2>1, <2>2 DEF RestorePage, Clean, Contents
  <2> QED
    BY <1>2, <1>14, <2>3 DEF RestorePage, BytesAreWritten
<1> QED
  BY <1>4, <1>5, <1>6, <1>7, <1>8, <1>9, <1>10, <1>11, <1>12, <1>13, <1>14 DEF BackupNext

-----------------------------------------------------------------------------

(* No byte the server did not write ever gets into the database: whatever  *)
(* is damaged, lost or interrupted, and whatever the server does meanwhile,*)
(* restore_database verifies before it writes what the manifest declares   *)
(* (backup.py, restore_database); only an archive that declares nothing    *)
(* brings in what it likes.                                                *)
THEOREM DatabaseStaysSound == BackupSpec => []DatabaseIsSound
<1>1. BackupInit => BytesAreWritten
  BY OthersAreClean DEF BackupInit, BytesAreWritten
<1>2. BackupInv /\ BytesAreWritten => DatabaseIsSound
  BY DEF BackupInv, Typed, BytesAreWritten, Clean, DatabaseIsSound, CorruptNeverReplaces, Holds
<1> QED
  BY <1>1, <1>2, BackupInvAlways, BytesNext, PTL DEF BackupSpec

(* What a restore that the server left alone owes its operator stays there *)
(* until the server commits something newer, through every crash of the    *)
(* server after it (backup.py, backup_database and restore_database).      *)
THEOREM RestoresRoundTrip == BackupSpec => []RoundTrip
<1>1. BackupInv => RoundTrip
  BY DEF BackupInv
<1> QED
  BY <1>1, BackupInvAlways, PTL

=============================================================================
