SPECIFICATION CommandSpec
CONSTANTS
  MaxDimensions = 17
  MaxMinimised = 7
  MaxCauses = 3
  NoCulprit = NoCulprit
  Bounds = {7, 200}
  Dimensions <- MCDimensions
  Diffs <- MCDiffs
  MinimisedDiffs <- MCMinimisedDiffs
  Causes <- MCCauses
INVARIANTS
  CulpritIsImplicated
  ResultIsMinimal
  CostIsBounded
  CausesAreFound
  OutcomeIsTold
PROPERTY
  CommandConverges
CHECK_DEADLOCK FALSE
