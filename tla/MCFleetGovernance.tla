------------------------- MODULE MCFleetGovernance -------------------------
(* TLC instance of FleetGovernance: two server processes, an administrator *)
(* and a maintainer of one organization, one project.                      *)
EXTENDS FleetGovernance, TLC

CONSTANTS ann, max

MCAccountOrg  == (ann :> "acme") @@ (max :> "acme")
MCAccountRole == (ann :> "admin") @@ (max :> "maintainer")

MCSymmetry == Permutations(Workers) \cup Permutations(Docs)

=============================================================================
