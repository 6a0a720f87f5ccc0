------------------------- MODULE MCFleetEnrollment -------------------------
(* TLC instances of FleetEnrollment: at most two server processes, two     *)
(* organizations.                                                          *)
EXTENDS FleetEnrollment, TLC

CONSTANTS acme, globex, t1, t2

MCDefaultLimits == [snapshot_days |-> 1, audit_days |-> 1]
MCLimits == {MCDefaultLimits, [snapshot_days |-> 0, audit_days |-> 1]}

Symmetry == Permutations(Workers) \cup Permutations(Keys)

MCTokenOrg == (t1 :> acme) @@ (t2 :> globex)

=============================================================================
