--------------------------- MODULE FleetEnrollment ---------------------------
(***************************************************************************)
(* How machines join the fleet server and publish to it: the endpoints     *)
(* enroll, publish_snapshot, put_retention and apply_retention of          *)
(* devrepro/server/api.py over the tables of devrepro/server/db.py.        *)
(*                                                                         *)
(* A worker is a server process with its own connection to the SQLite      *)
(* file.  It handles one request at a time, and a request is a sequence of *)
(* separate transactions: between two of them another worker may commit,   *)
(* and the worker may die.  A read outside a `tx()` block is a step of its *)
(* own, and so is a read inside one: sqlite3 opens the transaction at the  *)
(* first write.                                                            *)
(*                                                                         *)
(* The audit table is the set of its events: nothing here counts or orders *)
(* them.  Time is counted in days.  Two fields are history, which no code  *)
(* reads: `via`, the token that minted a machine, and `from`, the          *)
(* organization the machine that sent a snapshot was enrolled in.          *)
(***************************************************************************)
EXTENDS Integers, Sequences, FiniteSets

CONSTANTS
  Workers,       \* server processes
  Orgs,          \* organizations
  Tokens,        \* enrollment tokens
  TokenOrg,      \* the organization each token was issued for
  Keys,          \* machine keys, chosen by the machines
  SnapshotIds,   \* snapshot ids
  TtlDays,       \* create_enrollment_token's ttl_days
  Limits,        \* the retention limits an organization may be given
  DefaultLimits, \* those it has before
  NoOrg,         \* no org_id in the body of an enroll request
  BodyOrgs,      \* the org_ids a body may carry
  MaxRequests,   \* bound: requests sent
  MaxClock       \* bound: days that pass

ASSUME OrgAssumption  == TokenOrg \in [Tokens -> Orgs] /\ NoOrg \notin Orgs
ASSUME BodyAssumption == BodyOrgs \subseteq Orgs \cup {NoOrg}
ASSUME TokenAssumption == "register_machine" \notin Tokens
ASSUME BoundAssumption == {MaxRequests, MaxClock} \subseteq Nat
ASSUME DaysAssumption ==
  /\ TtlDays \in Nat
  /\ Limits \subseteq [snapshot_days : Nat, audit_days : Nat] /\ DefaultLimits \in Limits

VARIABLES
  clock,
  expires,    \* enrollment_tokens.expires_at; NotIssued before the token exists
  used_by,    \* enrollment_tokens.used_by_machine; 0 is NULL
  machines,   \* the machines table; a row's id is its position
  snapshots,  \* the snapshots table
  audit,      \* the audit_events table
  retention,  \* the retention_policies table
  jobs,       \* what each worker is doing
  requests    \* how many requests have been sent

db   == <<expires, used_by, machines, snapshots, audit, retention>>
vars == <<clock, db, jobs, requests>>

NotIssued  == -1
Null       == 0
Registered == "register_machine"      \* `via` of a row no token minted
NoSnapshot == "none"                  \* the event is about no snapshot

Idle == [step |-> "idle"]
Ids  == 1..Len(machines)

-----------------------------------------------------------------------------

Init ==
  /\ clock = 0
  /\ expires = [t \in Tokens |-> NotIssued]
  /\ used_by = [t \in Tokens |-> Null]
  /\ machines = <<>>
  /\ snapshots = {}
  /\ audit = {}
  /\ retention = [o \in Orgs |-> DefaultLimits]
  /\ jobs = [w \in Workers |-> Idle]
  /\ requests = 0

Tick == /\ clock < MaxClock
        /\ clock' = clock + 1
        /\ UNCHANGED <<db, jobs, requests>>

create_enrollment_token(t) ==
  /\ expires[t] = NotIssued
  /\ expires' = [expires EXCEPT ![t] = clock + TtlDays]
  /\ UNCHANGED <<clock, used_by, machines, snapshots, audit, retention, jobs, requests>>

(* The worker goes on to another step of its request, or ends it. *)
Goto(w, job)  == jobs' = [jobs EXCEPT ![w] = job]
Finish(w)     == Goto(w, Idle)
Proceed(w, s) == Goto(w, [jobs[w] EXCEPT !.step = s])

Receive(w) ==
  /\ jobs[w] = Idle
  /\ requests < MaxRequests
  /\ requests' = requests + 1
  /\ UNCHANGED <<clock, db>>

At(w, step) == jobs[w].step = step

(* A worker killed between two transactions leaves what it committed. *)
Die(w) ==
  /\ jobs[w] # Idle
  /\ Finish(w)
  /\ UNCHANGED <<clock, db, requests>>

Record(w, org, action, machine, snapshot) ==
  /\ audit' = audit \cup {[org |-> org, action |-> action, machine |-> machine,
                           snapshot |-> snapshot, at |-> clock]}
  /\ Finish(w)
  /\ UNCHANGED <<clock, expires, used_by, machines, snapshots, retention, requests>>

-----------------------------------------------------------------------------
(* POST /enroll: redeem_enrollment_token, register_machine, audit.         *)

enroll(w, t, k, o) ==
  /\ Receive(w)
  /\ Goto(w, [step |-> "redeem", token |-> t, key |-> k, org |-> o, machine |-> Null])

Redeemable(t) == expires[t] # NotIssued /\ used_by[t] = Null /\ expires[t] >= clock

(* The SELECT runs before the transaction that spends the token. *)
ReadToken(w) ==
  /\ At(w, "redeem")
  /\ IF Redeemable(jobs[w].token) THEN Proceed(w, "spend") ELSE Finish(w)
  /\ UNCHANGED <<clock, db, requests>>

HasMachine(o, k) == \E m \in Ids : machines[m].org = o /\ machines[m].key = k

SpendTokenMintsOnly(w) ==       \* mutant: the token is not marked used
  /\ At(w, "spend")
  /\ ~HasMachine(TokenOrg[jobs[w].token], jobs[w].key)
  /\ machines' = Append(machines, [org |-> TokenOrg[jobs[w].token], key |-> jobs[w].key,
                                   via |-> jobs[w].token])
  /\ Goto(w, [jobs[w] EXCEPT !.step = "lookup", !.machine = Len(machines) + 1])
  /\ UNCHANGED <<clock, expires, used_by, snapshots, audit, retention, requests>>

(* One transaction: the machine row and the token's used_by_machine. *)
SpendToken(w) ==
  LET t == jobs[w].token
      k == jobs[w].key
  IN  /\ At(w, "spend")
      /\ ~HasMachine(TokenOrg[t], k)
      /\ machines' = Append(machines, [org |-> TokenOrg[t], key |-> k, via |-> t])
      /\ used_by' = [used_by EXCEPT ![t] = Len(machines) + 1]
      /\ Goto(w, [jobs[w] EXCEPT !.step = "lookup", !.machine = Len(machines) + 1])
      /\ UNCHANGED <<clock, expires, snapshots, audit, retention, requests>>

(* UNIQUE(org_id, machine_key): rolled back, answered with a 500. *)
SpendTokenFails(w) ==
  /\ At(w, "spend")
  /\ HasMachine(TokenOrg[jobs[w].token], jobs[w].key)
  /\ Finish(w)
  /\ UNCHANGED <<clock, db, requests>>

RegisterOrgOfBody(w) == jobs[w].org      \* mutant: the fallback is dropped

(* int(body.get("org_id", 0)) or _org_for_machine(machine_id) *)
RegisterOrg(w) == IF jobs[w].org # NoOrg THEN jobs[w].org ELSE machines[jobs[w].machine].org

(* register_machine looks the machine up ... *)
LookUpMachine(w) ==
  /\ At(w, "lookup")
  /\ Proceed(w, IF HasMachine(RegisterOrg(w), jobs[w].key) THEN "audit_enroll" ELSE "register")
  /\ UNCHANGED <<clock, db, requests>>

RegisterMachineUnconstrained(w) ==       \* mutant: no UNIQUE(org_id, machine_key)
  /\ At(w, "register")
  /\ machines' = Append(machines, [org |-> RegisterOrg(w), key |-> jobs[w].key,
                                   via |-> Registered])
  /\ Proceed(w, "audit_enroll")
  /\ UNCHANGED <<clock, expires, used_by, snapshots, audit, retention, requests>>

(* ... and inserts a row if it saw none.  (The UPDATE of the row it did    *)
(* see changes nothing that is modelled.)                                  *)
RegisterMachine(w) ==
  /\ At(w, "register")
  /\ ~HasMachine(RegisterOrg(w), jobs[w].key)
  /\ machines' = Append(machines, [org |-> RegisterOrg(w), key |-> jobs[w].key,
                                   via |-> Registered])
  /\ Proceed(w, "audit_enroll")
  /\ UNCHANGED <<clock, expires, used_by, snapshots, audit, retention, requests>>

RegisterMachineFails(w) ==
  /\ At(w, "register")
  /\ HasMachine(RegisterOrg(w), jobs[w].key)
  /\ Finish(w)
  /\ UNCHANGED <<clock, db, requests>>

AuditEnrollInBodyOrg(w) ==      \* mutant: audited where the machine was registered
  /\ At(w, "audit_enroll")
  /\ Record(w, RegisterOrg(w), "machine.enroll", jobs[w].machine, NoSnapshot)

AuditEnroll(w) ==
  /\ At(w, "audit_enroll")
  /\ Record(w, machines[jobs[w].machine].org, "machine.enroll", jobs[w].machine, NoSnapshot)

-----------------------------------------------------------------------------
(* POST /snapshots: find the machine by its key, store, audit.             *)

(* Any machine may call, one of organization o or one not enrolled. *)
publish_snapshot(w, k, s, o) ==
  /\ o # NoOrg => HasMachine(o, k)
  /\ Receive(w)
  /\ Goto(w, [step |-> "find", key |-> k, snapshot |-> s, org |-> o, machine |-> Null])

(* SELECT * FROM machines WHERE machine_key=?: 403 if no row has the key,  *)
(* else the first row in an order the query leaves open.                   *)
FindMachine(w) ==
  LET rows == {m \in Ids : machines[m].key = jobs[w].key}
  IN  /\ At(w, "find")
      /\ \/ rows = {} /\ Finish(w)
         \/ \E m \in rows : Goto(w, [jobs[w] EXCEPT !.step = "store", !.machine = m])
      /\ UNCHANGED <<clock, db, requests>>

HasSnapshot(m, s) == \E r \in snapshots : r.machine = m /\ r.id = s

(* store_snapshot: inserted, or already there under its machine. *)
StoreSnapshot(w) ==
  /\ At(w, "store")
  /\ IF HasSnapshot(jobs[w].machine, jobs[w].snapshot) THEN UNCHANGED snapshots
     ELSE snapshots' = snapshots \cup {[machine |-> jobs[w].machine, id |-> jobs[w].snapshot,
                                        received |-> clock, from |-> jobs[w].org]}
  /\ Proceed(w, "audit_publish")
  /\ UNCHANGED <<clock, expires, used_by, machines, audit, retention, requests>>

AuditPublish(w) ==
  /\ At(w, "audit_publish")
  /\ Record(w, machines[jobs[w].machine].org, "snapshot.publish", jobs[w].machine, jobs[w].snapshot)

-----------------------------------------------------------------------------
(* Retention, set and applied by administrators of an organization.        *)

put_retention(w, o, limits) ==
  /\ Receive(w)
  /\ Goto(w, [step |-> "set", org |-> o, limits |-> limits])

SetRetention(w) ==
  /\ At(w, "set")
  /\ retention' = [retention EXCEPT ![jobs[w].org] = jobs[w].limits]
  /\ Proceed(w, "audit_set")
  /\ UNCHANGED <<clock, expires, used_by, machines, snapshots, audit, requests>>

AuditSet(w) ==
  /\ At(w, "audit_set")
  /\ Record(w, jobs[w].org, "retention.set", Null, NoSnapshot)

apply_retention(w, o) == Receive(w) /\ Goto(w, [step |-> "limits", org |-> o])

(* The limits are read and the two cutoffs computed before the transaction. *)
ReadLimits(w) ==
  LET limits == retention[jobs[w].org]
  IN  /\ At(w, "limits")
      /\ Goto(w, [step |-> "purge", org |-> jobs[w].org,
                  snap_cutoff |-> clock - limits.snapshot_days,
                  audit_cutoff |-> clock - limits.audit_days])
      /\ UNCHANGED <<clock, db, requests>>

Expired(job) ==
  {r \in snapshots : r.received < job.snap_cutoff /\ machines[r.machine].org = job.org}

ForgottenByNow(job) ==          \* mutant: this cutoff is computed in the transaction
  {e \in audit : e.org = job.org /\ e.at < clock - retention[job.org].audit_days}

Forgotten(job) == {e \in audit : e.org = job.org /\ e.at < job.audit_cutoff}

(* One transaction deletes the old snapshots and audit events of one org. *)
Purge(w) ==
  /\ At(w, "purge")
  /\ snapshots' = snapshots \ Expired(jobs[w])
  /\ audit' = audit \ Forgotten(jobs[w])
  /\ Proceed(w, "audit_purge")
  /\ UNCHANGED <<clock, expires, used_by, machines, retention, requests>>

AuditPurge(w) ==
  /\ At(w, "audit_purge")
  /\ Record(w, jobs[w].org, "retention.apply", Null, NoSnapshot)

-----------------------------------------------------------------------------

EnrollStep(w) ==
  \/ ReadToken(w) \/ SpendToken(w) \/ SpendTokenFails(w)
  \/ LookUpMachine(w) \/ RegisterMachine(w) \/ RegisterMachineFails(w) \/ AuditEnroll(w)

PublishStep(w) == FindMachine(w) \/ StoreSnapshot(w) \/ AuditPublish(w)

RetentionStep(w) ==
  \/ SetRetention(w) \/ AuditSet(w) \/ ReadLimits(w) \/ Purge(w) \/ AuditPurge(w)

Next ==
  \/ Tick
  \/ \E t \in Tokens : create_enrollment_token(t)
  \/ \E w \in Workers :
       \/ \E t \in Tokens, k \in Keys, o \in BodyOrgs : enroll(w, t, k, o)
       \/ \E k \in Keys, s \in SnapshotIds, o \in Orgs \cup {NoOrg} : publish_snapshot(w, k, s, o)
       \/ \E o \in Orgs, l \in Limits : put_retention(w, o, l)
       \/ \E o \in Orgs : apply_retention(w, o)
       \/ EnrollStep(w) \/ PublishStep(w) \/ RetentionStep(w)
       \/ Die(w)

Spec == Init /\ [][Next]_vars

-----------------------------------------------------------------------------
(* Properties.                                                             *)

Machine  == [org : Orgs, key : Keys, via : Tokens \cup {Registered}]
Snapshot == [machine : Nat \ {0}, id : SnapshotIds, received : Nat,
             from : Orgs \cup {NoOrg}]
Event    == [org : Orgs,
             action : {"machine.enroll", "snapshot.publish", "retention.set", "retention.apply"},
             machine : Nat, snapshot : SnapshotIds \cup {NoSnapshot}, at : Nat]
EnrollJob    == [step : {"redeem", "spend", "lookup", "register", "audit_enroll"},
                 token : Tokens, key : Keys, org : Orgs \cup {NoOrg}, machine : Nat]
PublishJob   == [step : {"find", "store", "audit_publish"}, key : Keys,
                 snapshot : SnapshotIds, org : Orgs \cup {NoOrg}, machine : Nat]
SetJob       == [step : {"set", "audit_set"}, org : Orgs, limits : Limits]
LimitsJob    == [step : {"limits"}, org : Orgs]
PurgeJob     == [step : {"purge", "audit_purge"}, org : Orgs,
                 snap_cutoff : Int, audit_cutoff : Int]
RetentionJob == SetJob \cup LimitsJob \cup PurgeJob

(* Every variable holds a value the code could give it. *)
TypeOK ==
  /\ clock \in Nat
  /\ expires \in [Tokens -> Nat \cup {NotIssued}]
  /\ used_by \in [Tokens -> Nat]
  /\ machines \in Seq(Machine)
  /\ snapshots \subseteq Snapshot
  /\ audit \subseteq Event
  /\ retention \in [Orgs -> Limits]
  /\ jobs \in [Workers -> {Idle} \cup EnrollJob \cup PublishJob \cup RetentionJob]
  /\ requests \in 0..MaxRequests

(* A token is spent together with the machine it mints, whoever dies in    *)
(* between: a spent token names a machine it minted, and no machine was    *)
(* minted by a token that can still be redeemed.                           *)
TokensMatchMachines ==
  /\ \A t \in Tokens : used_by[t] # Null =>
       used_by[t] \in Ids /\ machines[used_by[t]].via = t
  /\ \A m \in Ids : machines[m].via \in Tokens => used_by[machines[m].via] # Null

(* A machine key names one machine of an organization, however enrollments *)
(* overlap (UNIQUE(org_id, machine_key) and the two ways a row is made).   *)
IdentitiesAreUnique ==
  \A m, n \in Ids :
    machines[m].org = machines[n].org /\ machines[m].key = machines[n].key => m = n

(* The audit trail records effects, not intentions: an enrollment it lists *)
(* made a machine, in the organization whose trail it is, from a token of  *)
(* that organization; a publication it lists is by a machine of that       *)
(* organization.                                                           *)
AuditIsTruthful ==
  \A e \in audit :
    /\ e.action \in {"machine.enroll", "snapshot.publish"} =>
         e.machine \in Ids /\ machines[e.machine].org = e.org
    /\ e.action = "machine.enroll" =>
         machines[e.machine].via \in Tokens /\ TokenOrg[machines[e.machine].via] = e.org

(* The trail has the publication of a stored snapshot. *)
OnRecord(r) ==
  \E e \in audit : /\ e.action = "snapshot.publish"
                    /\ e.machine = r.machine /\ e.snapshot = r.id /\ e.at >= r.received

(* Nobody is asked to keep snapshots for longer than the trail. *)
LimitsInOrder == \A limits \in Limits : limits.snapshot_days <= limits.audit_days

KeepsRecords == LimitsInOrder => \A r \in snapshots \cap snapshots' : OnRecord(r) => OnRecord(r)'

(* A snapshot the fleet keeps never loses its publication from the trail:  *)
(* apply_retention deletes from two tables by two limits it read before    *)
(* its transaction, while limits change, snapshots are published again and *)
(* other organizations purge theirs.                                       *)
PublicationsStayOnRecord == [][KeepsRecords]_vars

(* "Redeem a token for a new machine identity; single-use." *)
TokensAreSingleUse ==
  \A m, n \in Ids : machines[m].via \in Tokens /\ machines[m].via = machines[n].via => m = n

(* "Multi-tenant isolation is enforced in every query": what an enrolled   *)
(* machine publishes is stored under the organization it is enrolled in    *)
(* (publish_snapshot's lookup of the machine row).                         *)
SnapshotsStayInTheirOrg ==
  \A r \in snapshots : r.from # NoOrg => machines[r.machine].org = r.from

==============================================================================
