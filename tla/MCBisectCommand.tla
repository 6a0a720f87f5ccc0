--------------------------- MODULE MCBisectCommand ---------------------------
(* TLC instance of BisectCommand.  Dimensions of a diff are distinct, so   *)
(* <<1, ..., n>> stands for every diff of n dimensions.                    *)
EXTENDS BisectCommand

CONSTANTS
  MaxDimensions,   \* bound on the size of a diff
  MaxMinimised,    \* bound on the size of a diff given to --minimise
  MaxCauses        \* bound on the number of changes that break things together

DiffsUpTo(n)     == {[i \in 1..k |-> i] : k \in 0..n}
MCDimensions     == 1..MaxDimensions
MCDiffs          == DiffsUpTo(MaxDimensions)
MCMinimisedDiffs == DiffsUpTo(MaxMinimised)
MCCauses         == {c \in SUBSET (1..MaxMinimised) : Cardinality(c) <= MaxCauses}
                      \cup {{d} : d \in MCDimensions}

=============================================================================
