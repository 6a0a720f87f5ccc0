---------------------------- MODULE ExceptionLife ----------------------------
(***************************************************************************)
(* What the fleet server promises about exceptions to rules                *)
(* (docs/SERVER.md, "Time-boxed rule exceptions with justification +       *)
(* reviewer"): each is requested once, reviewed at most once, and what the *)
(* review said is final.  FleetGovernance implements it with requests that *)
(* overlap and server processes that die.                                  *)
(***************************************************************************)
EXTENDS Naturals, Sequences

VARIABLE status      \* the status of each exception, in the order of requests

Verdicts == {"approved", "rejected"}

Init == status = <<>>

Request == status' = Append(status, "pending")

Review(e) ==
  /\ status[e] = "pending"
  /\ \E v \in Verdicts : status' = [status EXCEPT ![e] = v]

Next == Request \/ \E e \in DOMAIN status : Review(e)

Spec == Init /\ [][Next]_status

=============================================================================
