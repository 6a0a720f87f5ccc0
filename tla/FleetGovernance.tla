--------------------------- MODULE FleetGovernance ---------------------------
(***************************************************************************)
(* How people govern a fleet: the endpoints approve_baseline, add_member,  *)
(* put_policy, request_exception and review_exception of                   *)
(* devrepro/server/api.py over the tables of devrepro/server/db.py, and    *)
(* the bearer tokens and roles that guard them.                            *)
(*                                                                         *)
(* As in FleetEnrollment a worker is a server process with its own         *)
(* connection, a request is a sequence of separate transactions and reads, *)
(* and between two of them another worker may commit or this one may die.  *)
(*                                                                         *)
(* The fields `req` and `review` of rows and events are history, which no  *)
(* code reads: the request that wrote them.                                *)
(***************************************************************************)
EXTENDS Integers, Sequences, FiniteSets

CONSTANTS
  Workers,       \* server processes
  Accounts,      \* service accounts
  AccountOrg,    \* the organization of each
  AccountRole,   \* its role: "viewer", "maintainer", "admin" or "agent"
  Projects,      \* project ids
  Emails,        \* accounts that are made members of projects
  Docs,          \* baseline ids and policy documents
  ExceptionDays, \* the days a requester asks for, after the clamp to 1..365
  MaxRequests,   \* bound: requests sent
  MaxClock       \* bound: days that pass

Roles == {"viewer", "maintainer", "admin", "agent"}

ASSUME AccountAssumption == AccountRole \in [Accounts -> Roles] /\ Emails \subseteq Accounts
ASSUME DaysAssumption    == ExceptionDays \in 1..365
ASSUME BoundAssumption   == MaxRequests \in Nat /\ MaxClock \in Nat

VARIABLES
  clock,       \* days
  now,         \* what _now() returned last: a finer clock, for created_at
  revoked,     \* accounts with revoked_at set
  members,     \* the project_members table
  baselines,   \* the baselines table
  policies,    \* the policies table (of one policy name)
  exceptions,  \* the exceptions table; a row's id is its position
  audit,       \* the audit_events table
  jobs,        \* what each worker is doing
  requests,    \* how many requests have been sent
  approved,    \* history: every row the baselines table has had
  answered,    \* history: approvals of a baseline whose answer was sent
  lost,        \* history: requests whose worker died
  cutoff,      \* history: requests sent when an account was revoked
  entitled     \* history: who was ever given a project to maintain

db      == <<revoked, members, baselines, approved, policies, exceptions, audit>>
history == <<answered, lost, cutoff, entitled>>
vars    == <<clock, now, db, jobs, requests, history>>

Idle == [step |-> "idle"]
Orgs == {AccountOrg[a] : a \in Accounts}
Never == -1

Row(tables, p) == {m \in tables : m.project = p}

-----------------------------------------------------------------------------

Init ==
  /\ clock = 0 /\ now = 0
  /\ revoked = {} /\ members = {} /\ baselines = {} /\ approved = {} /\ policies = {}
  /\ exceptions = <<>>
  /\ audit = {}
  /\ jobs = [w \in Workers |-> Idle]
  /\ requests = 0
  /\ answered = {} /\ lost = {} /\ entitled = {}
  /\ cutoff = [a \in Accounts |-> Never]

Tick == /\ clock < MaxClock
        /\ clock' = clock + 1
        /\ UNCHANGED <<now, db, jobs, requests, history>>

(* revoke_service_account, called by whoever runs the server. *)
revoke_service_account(a) ==
  /\ a \notin revoked
  /\ revoked' = revoked \cup {a}
  /\ cutoff' = [cutoff EXCEPT ![a] = requests]
  /\ UNCHANGED <<clock, now, members, baselines, approved, policies, exceptions, audit, jobs,
                 requests, answered, lost, entitled>>

Project(w)    == jobs[w].target[1]
Value(w)      == jobs[w].value[1]
At(w, step)   == jobs[w].step = step
Goto(w, step) == jobs' = [jobs EXCEPT ![w].step = step]

(* Every endpoint starts in the decorator require_role. *)
Receive(w, a, op, target, value) ==
  /\ jobs[w] = Idle
  /\ requests < MaxRequests
  /\ requests' = requests + 1
  /\ jobs' = [jobs EXCEPT ![w] =
       [step |-> "authenticate", op |-> op, by |-> a, target |-> target, value |-> value,
        at |-> 0, req |-> requests + 1, after |-> IF op = "baseline" THEN answered ELSE {},
        open |-> op = "baseline" /\ Row(members, target[1]) = {}]]
  /\ UNCHANGED <<clock, now, db, history>>

(* The answer is sent and the worker is free. *)
Answer(w) ==
  /\ jobs' = [jobs EXCEPT ![w] = Idle]
  /\ answered' = answered \cup (IF jobs[w].op = "baseline" THEN {jobs[w].req} ELSE {})

(* An answer that changes no table. *)
Refuse(w) == Answer(w) /\ UNCHANGED <<db, now>>

Quiet == UNCHANGED <<clock, requests, lost, cutoff, entitled>>

Die(w) ==
  /\ jobs[w] # Idle
  /\ jobs' = [jobs EXCEPT ![w] = Idle]
  /\ lost' = lost \cup {jobs[w].req}
  /\ UNCHANGED <<clock, now, db, requests, answered, cutoff, entitled>>

-----------------------------------------------------------------------------
(* Authentication and roles.                                               *)

Rank(role) == CASE role = "viewer" -> 1 [] role = "maintainer" -> 2 [] role = "admin" -> 3
                [] OTHER -> 0

(* The min_role each endpoint is decorated with. *)
MinRole(op) == IF op \in {"baseline", "exception"} THEN "maintainer" ELSE "admin"

authenticate_service_token(a) == a \notin revoked

require_role(w) ==
  LET j == jobs[w]
  IN  /\ At(w, "authenticate")
      /\ IF authenticate_service_token(j.by) /\ Rank(AccountRole[j.by]) >= Rank(MinRole(j.op))
         THEN /\ Goto(w, IF j.op = "baseline" THEN "may_administer" ELSE j.op)
              /\ UNCHANGED <<db, now, answered>>
         ELSE Refuse(w)
      /\ Quiet

(* db.audit: the last thing a handler does, in a transaction of its own. *)
Audited(w, action, target, value) ==
  /\ audit' = audit \cup {[org |-> AccountOrg[jobs[w].by], actor |-> jobs[w].by,
                           action |-> action, target |-> target, value |-> value,
                           req |-> jobs[w].req]}
  /\ Answer(w)
  /\ UNCHANGED <<now, revoked, members, baselines, approved, policies, exceptions>>
  /\ Quiet

Audit(w) == At(w, "audit") /\ Audited(w, jobs[w].op, jobs[w].target, jobs[w].value)

-----------------------------------------------------------------------------
(* POST /baselines: who may, then the row, then the event.                 *)

MayAdministerAnyMember(w) ==         \* mutant: the member's role is not asked
  \/ AccountRole[jobs[w].by] = "admin"
  \/ Row(members, Project(w)) = {}
  \/ \E m \in Row(members, Project(w)) : m.email = jobs[w].by

may_administer_project(w) ==
  \/ AccountRole[jobs[w].by] = "admin"
  \/ Row(members, Project(w)) = {}
  \/ \E m \in Row(members, Project(w)) :
       m.email = jobs[w].by /\ m.role \in {"admin", "maintainer"}

CheckProject(w) ==
  /\ At(w, "may_administer")
  /\ Goto(w, IF may_administer_project(w) THEN "stamp" ELSE "audit_denied")
  /\ UNCHANGED <<now, db, answered>>
  /\ Quiet

AuditDenied(w) == At(w, "audit_denied") /\ Audited(w, "denied", jobs[w].target, jobs[w].value)

(* _now() is an argument of the statement: it is read before SQLite's lock *)
(* is taken, and its microseconds are taken to be distinct.                *)
StampBaseline(w) ==
  /\ At(w, "stamp")
  /\ now' = now + 1
  /\ jobs' = [jobs EXCEPT ![w].step = "baseline", ![w].at = now + 1]
  /\ UNCHANGED <<db, answered>>
  /\ Quiet

SameBaseline(w) ==
  {b \in Row(baselines, Project(w)) : b.id = Value(w)}

NewBaseline(w, at) ==
  [project |-> Project(w), id |-> Value(w), by |-> jobs[w].by, at |-> at,
   req |-> jobs[w].req, after |-> jobs[w].after, open |-> jobs[w].open]

StoreBaseline(w, at) ==
  /\ At(w, "baseline")
  /\ baselines' = (baselines \ SameBaseline(w)) \cup {NewBaseline(w, at)}
  /\ approved' = approved \cup {NewBaseline(w, at)}
  /\ Goto(w, "audit")
  /\ UNCHANGED <<now, revoked, members, policies, exceptions, audit, answered>>
  /\ Quiet

ApproveBaselineKeepsDate(w) ==       \* mutant: ON CONFLICT keeps created_at
  StoreBaseline(w, IF SameBaseline(w) = {} THEN jobs[w].at
                   ELSE (CHOOSE b \in SameBaseline(w) : TRUE).at)

(* INSERT OR REPLACE, UNIQUE(project_id, baseline_id): of two rows for one *)
(* id the one written last stays, whichever was stamped last.              *)
approve_baseline(w) == StoreBaseline(w, jobs[w].at)

(* ORDER BY created_at DESC LIMIT 1 *)
IsLatest(b) == \A c \in Row(baselines, b.project) : c.at <= b.at

-----------------------------------------------------------------------------
(* POST /projects/<id>/members and PUT /policies/<name>                    *)

(* INSERT OR REPLACE, UNIQUE(project_id, user_email) *)
add_project_member(w) ==
  LET m == [project |-> Project(w), email |-> jobs[w].value[1], role |-> jobs[w].value[2]]
  IN  /\ At(w, "member")
      /\ members' = {n \in members : n.project # m.project \/ n.email # m.email} \cup {m}
      /\ entitled' = IF m.role \in {"admin", "maintainer"}
                     THEN entitled \cup {<<m.project, m.email>>} ELSE entitled
      /\ Goto(w, "audit")
      /\ UNCHANGED <<clock, now, revoked, baselines, approved, policies, exceptions, audit, requests,
                     answered, lost, cutoff>>

OwnPolicies(w) == {p \in policies : p.org = AccountOrg[jobs[w].by]}

(* A plain INSERT: a name that is taken violates UNIQUE(org_id, name), the *)
(* exception is not caught and the answer is a 500 with nothing stored.    *)
set_policy(w) ==
  /\ At(w, "policy")
  /\ IF OwnPolicies(w) # {} THEN Refuse(w)
     ELSE /\ policies' = policies \cup
               {[org |-> AccountOrg[jobs[w].by], doc |-> Value(w), req |-> jobs[w].req]}
          /\ Goto(w, "audit")
          /\ UNCHANGED <<now, revoked, members, baselines, approved, exceptions, audit, answered>>
  /\ Quiet

-----------------------------------------------------------------------------
(* POST /exceptions and POST /exceptions/<id>/review                       *)

request_exception(w) ==
  /\ At(w, "exception")
  /\ exceptions' = Append(exceptions,
       [org |-> AccountOrg[jobs[w].by], status |-> "pending", expires |-> clock + ExceptionDays,
        reviewed_by |-> {}, req |-> jobs[w].req, review |-> 0])
  /\ Goto(w, "audit")
  /\ UNCHANGED <<now, revoked, members, baselines, approved, policies, audit, answered>>
  /\ Quiet

Reviewed(w) ==
  exceptions' = [exceptions EXCEPT
    ![jobs[w].target[1]].status = Value(w),
    ![jobs[w].target[1]].reviewed_by = {jobs[w].by},
    ![jobs[w].target[1]].review = jobs[w].req]

ReviewUnconditionally(w) ==          \* mutant: no AND status='pending'
  /\ At(w, "review")
  /\ Reviewed(w)
  /\ Goto(w, "audit")
  /\ UNCHANGED <<now, revoked, members, baselines, approved, policies, audit, answered>>
  /\ Quiet

ReviewUnaudited(w) ==                \* mutant: answered before it is audited
  /\ At(w, "review")
  /\ exceptions[jobs[w].target[1]].status = "pending"
  /\ Reviewed(w)
  /\ Answer(w)
  /\ UNCHANGED <<now, revoked, members, baselines, approved, policies, audit>>
  /\ Quiet

(* UPDATE ... WHERE id=? AND status='pending': of no organization in       *)
(* particular.  No row changed: 409.                                       *)
review_exception(w) ==
  /\ At(w, "review")
  /\ IF exceptions[jobs[w].target[1]].status # "pending" THEN Refuse(w)
     ELSE /\ Reviewed(w)
          /\ Goto(w, "audit")
          /\ UNCHANGED <<now, revoked, members, baselines, approved, policies, audit, answered>>
  /\ Quiet

ActiveWithoutEnd(e) == e.status = "approved"      \* mutant: no expires_at > now

(* active_exceptions *)
Active(e) == e.status = "approved" /\ e.expires > clock

-----------------------------------------------------------------------------

Memberships == Emails \X {"maintainer", "member"}

Requests(w) ==
  \E a \in Accounts :
    \/ \E p \in Projects, d \in Docs : Receive(w, a, "baseline", <<p>>, <<d>>)
    \/ \E p \in Projects, m \in Memberships : Receive(w, a, "member", <<p>>, m)
    \/ \E d \in Docs : Receive(w, a, "policy", <<>>, <<d>>)
    \/ Receive(w, a, "exception", <<>>, <<>>)
    \/ \E e \in DOMAIN exceptions, v \in {"approved", "rejected"} :
         Receive(w, a, "review", <<e>>, <<v>>)

Handle(w) ==
  \/ require_role(w)
  \/ CheckProject(w) \/ AuditDenied(w) \/ StampBaseline(w) \/ approve_baseline(w)
  \/ add_project_member(w) \/ set_policy(w)
  \/ request_exception(w) \/ review_exception(w)
  \/ Audit(w)

Next ==
  \/ Tick
  \/ \E a \in Accounts : revoke_service_account(a)
  \/ \E w \in Workers : Requests(w) \/ Handle(w) \/ Die(w)

Spec == Init /\ [][Next]_vars

-----------------------------------------------------------------------------
(* Properties.                                                             *)

Ops == {"baseline", "member", "policy", "exception", "review"}

Baseline == [project : Projects, id : Docs, by : Accounts, at : Nat, req : Nat,
             after : SUBSET Nat, open : BOOLEAN]
Exc      == [org : Orgs, status : {"pending", "approved", "rejected"}, expires : Nat,
             reviewed_by : SUBSET Accounts, req : Nat, review : Nat]

(* Every table and every request in progress holds values the code gives. *)
TypeOK ==
  /\ clock \in Nat /\ now \in Nat /\ requests \in 0..MaxRequests
  /\ revoked \subseteq Accounts
  /\ members \subseteq [project : Projects, email : Accounts, role : Roles \cup {"member"}]
  /\ baselines \subseteq Baseline /\ approved \subseteq Baseline
  /\ policies \subseteq [org : Orgs, doc : Docs, req : Nat]
  /\ exceptions \in Seq(Exc)
  /\ \A e \in audit : e.org \in Orgs /\ e.actor \in Accounts /\ e.action \in Ops \cup {"denied"}
  /\ \A w \in Workers : jobs[w] # Idle =>
       /\ jobs[w].op \in Ops /\ jobs[w].by \in Accounts
       /\ jobs[w].step \in Ops \cup {"authenticate", "may_administer", "stamp", "audit", "audit_denied"}

(* Revoking an account ends it: no table holds the effect of a request     *)
(* sent after the revocation (require_role reads revoked_at on every       *)
(* request; one that was already past it is let finish).                   *)
Writes == {[by |-> b.by, req |-> b.req] : b \in baselines}
            \cup {[by |-> e.actor, req |-> e.req] : e \in audit}
            \cup UNION {{[by |-> a, req |-> exceptions[i].review] : a \in exceptions[i].reviewed_by} :
                          i \in DOMAIN exceptions}

RevocationHolds ==
  \A r \in Writes : r.by \in revoked => r.req <= cutoff[r.by]

(* Teams are separate: a baseline in force was approved by an              *)
(* administrator, by somebody who was given the project to maintain, or by *)
(* a request sent while the project had no members at all                  *)
(* (may_administer_project; a project without members is open on purpose). *)
TeamsAreSeparate ==
  \A b \in baselines :
    AccountRole[b.by] = "admin" \/ b.open \/ <<b.project, b.by>> \in entitled

(* The later of two approvals stands: if one was answered before another   *)
(* was asked for, latest_baseline does not return the earlier - unless a   *)
(* third, for the same baseline id as the later one and neither finished   *)
(* before it nor asked for after it, was stamped before it and written     *)
(* after it, and so replaced its row by an older one.                      *)
Overtaken(a) ==
  \E c \in Row(baselines, a.project) :
    c.id = a.id /\ c.at < a.at /\ c.req \notin a.after /\ a.req \notin c.after

LatestRespectsRealTime ==
  \A b \in baselines, a \in approved :
    b.project = a.project /\ b.req \in a.after /\ IsLatest(b) => Overtaken(a)

(* "Fetch the latest approved baseline for a project" (openapi.py:39): not *)
(* one that was answered before another was asked for.  Not so when the    *)
(* row of the other was replaced by one that had been stamped earlier.     *)
LatestApprovedIsFetched ==
  \A b \in baselines, a \in approved :
    b.project = a.project /\ b.req \in a.after => ~IsLatest(b)

(* Rows and trail agree: whatever a table holds is in the audit trail, or  *)
(* its worker is about to record it, or that worker died; so a trail with  *)
(* a gap means a crash.                                                    *)
Recorded(req) ==
  \/ \E e \in audit : e.req = req /\ e.action # "denied"
  \/ \E w \in Workers : At(w, "audit") /\ jobs[w].req = req
  \/ req \in lost

TrailIsComplete ==
  /\ \A b \in baselines : Recorded(b.req)
  /\ \A p \in policies : Recorded(p.req)
  /\ \A i \in DOMAIN exceptions :
       /\ Recorded(exceptions[i].req)
       /\ exceptions[i].status # "pending" => Recorded(exceptions[i].review)

(* The trail says what happened: a review it lists is the one that stands, *)
(* with its outcome and its reviewer, however many administrators reviewed *)
(* the exception at the same time.                                         *)
ReviewsAreTold ==
  \A e \in audit : e.action = "review" =>
    /\ exceptions[e.target[1]].status = e.value[1]
    /\ exceptions[e.target[1]].reviewed_by = {e.actor}

(* A policy the trail lists is the policy in force: nothing an             *)
(* administrator was told is stored is replaced or lost behind it.         *)
PoliciesStand ==
  \A e \in audit : e.action = "policy" => \E p \in policies : p.org = e.org /\ p.req = e.req

(* Exceptions end: one whose time has passed never applies again, however  *)
(* late it is approved (active_exceptions; no code sets "expired").        *)
Over(e)         == e.expires <= clock
ExpiredStaysOff == \A i \in DOMAIN exceptions : Over(exceptions[i]) => ~Active(exceptions[i])'
ExceptionsEnd   == [][ExpiredStaysOff]_vars

(* An exception's life is requested, reviewed once, final.                 *)
Life == INSTANCE ExceptionLife WITH
          status <- [i \in DOMAIN exceptions |-> exceptions[i].status]

LifeSpec == Life!Spec

(* Authority: both of the above, in every interleaving of requests with    *)
(* revocations and changes of membership.                                  *)
AuthorityHolds == RevocationHolds /\ TeamsAreSeparate

(* Tables and trail agree in both directions: what a table holds was       *)
(* recorded, and what was recorded stands (server/db.py, audit).           *)
TrailIsTrue == TypeOK /\ TrailIsComplete /\ ReviewsAreTold /\ PoliciesStand

=============================================================================
