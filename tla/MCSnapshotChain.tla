--------------------------- MODULE MCSnapshotChain ---------------------------
(* TLC instance of SnapshotChain.  Savers are interchangeable.             *)
EXTENDS SnapshotChain, TLC

Scenario(concurrent, tears, kinds, max) ==
  [concurrent |-> concurrent, tears |-> tears, kinds |-> kinds, max |-> max]

Overlapping == Scenario(TRUE, TRUE, {}, 0)
Mixed       == Scenario(TRUE, FALSE, AccidentKinds, 1)
Accidental  == Scenario(FALSE, FALSE, AccidentKinds, 2)

MCScenarios == {Overlapping, Mixed, Accidental}

Symmetry == Permutations(Savers)
==============================================================================
