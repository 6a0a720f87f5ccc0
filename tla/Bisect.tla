------------------------------- MODULE Bisect -------------------------------
(***************************************************************************)
(* `bisect_dimensions` of devrepro/reproduce/bisect.py: halve the list of  *)
(* differences between a working and a broken environment until one of     *)
(* them is responsible.  The code never runs a test itself; every verdict  *)
(* comes from the `fails` callback (a person, or a command's exit code).   *)
(* The callback is external: each answer is a free choice, so the search   *)
(* is checked against monotone, non-monotone and flaky oracles alike.      *)
(*                                                                         *)
(* A candidate is the tuple of dimensions handed to the callback; the      *)
(* trail is the audit trail the result carries.                            *)
(***************************************************************************)
EXTENDS Integers, Sequences

CONSTANTS
  Dimensions,   \* the dimensions a diff may consist of
  Diffs,        \* the lists of differences a search may be given
  NoCulprit     \* BisectResult.culprit = None

ASSUME DiffsAssumption     == Diffs \subseteq Seq(Dimensions)
ASSUME NoCulpritAssumption == NoCulprit \notin Dimensions

(* A diff has one entry per component and name. *)
ASSUME DistinctAssumption ==
  \A diff \in Diffs : \A i, j \in 1..Len(diff) : diff[i] = diff[j] => i = j

VARIABLES
  dimensions,   \* the argument: the differences, in the order of the diff
  lower,        \* dimensions already known not to break the build
  remaining,    \* dimensions among which the culprit is searched
  trail,        \* every <<candidate, answer>>, in order
  phase,        \* which line of the search runs next
  culprit,
  inconclusive  \* inconclusive_because, reduced to which return set it

bisectVars == <<dimensions, lower, remaining, trail, phase, culprit, inconclusive>>

Phases  == {"empty_check", "nothing", "everything", "halving", "done"}
Reasons == {"none", "no_difference", "baseline_fails", "not_reproduced"}

(* len(trail) and `verdicts` are incremented together in `ask`. *)
verdicts == Len(trail)

-----------------------------------------------------------------------------

BisectInit ==
  /\ dimensions \in Diffs
  /\ lower = <<>>
  /\ remaining = dimensions
  /\ trail = <<>>
  /\ phase = "empty_check"
  /\ culprit = NoCulprit
  /\ inconclusive = "none"

Ask(candidate, answer) == trail' = Append(trail, <<candidate, answer>>)

Conclude(c, why) ==
  /\ phase' = "done"
  /\ culprit' = c
  /\ inconclusive' = why
  /\ UNCHANGED <<dimensions, lower, remaining>>

Continue(next) ==
  /\ phase' = next
  /\ UNCHANGED <<dimensions, lower, remaining, culprit, inconclusive>>

CheckDiffers ==
  /\ phase = "empty_check"
  /\ UNCHANGED trail
  /\ \/ dimensions = <<>>  /\ Conclude(NoCulprit, "no_difference")
     \/ dimensions # <<>>  /\ Continue("nothing")

AskNothing ==
  /\ phase = "nothing"
  /\ \/ Ask(<<>>, TRUE)  /\ Conclude(NoCulprit, "baseline_fails")
     \/ Ask(<<>>, FALSE) /\ Continue("everything")

AskEverything ==
  /\ phase = "everything"
  /\ \/ Ask(dimensions, FALSE) /\ Conclude(NoCulprit, "not_reproduced")
     \/ Ask(dimensions, TRUE)  /\ Continue("halving")

halfOneByOne == 1             \* mutant: scans instead of halving
half       == Len(remaining) \div 2
FirstHalf  == SubSeq(remaining, 1, half)
SecondHalf == SubSeq(remaining, half + 1, Len(remaining))

HalveForgetsLower ==          \* mutant: the half ruled out is not kept applied
  /\ phase = "halving" /\ Len(remaining) > 1
  /\ \/ Ask(lower \o FirstHalf, TRUE)  /\ remaining' = FirstHalf
     \/ Ask(lower \o FirstHalf, FALSE) /\ remaining' = SecondHalf
  /\ UNCHANGED <<dimensions, lower, phase, culprit, inconclusive>>

(* One iteration of the while loop: the candidate fails, so the culprit is *)
(* in its first half; or it does not, so that half is ruled out.           *)
Halve ==
  /\ phase = "halving"
  /\ Len(remaining) > 1
  /\ \/ /\ Ask(lower \o FirstHalf, TRUE)
        /\ remaining' = FirstHalf
        /\ UNCHANGED lower
     \/ /\ Ask(lower \o FirstHalf, FALSE)
        /\ lower' = lower \o FirstHalf
        /\ remaining' = SecondHalf
  /\ UNCHANGED <<dimensions, phase, culprit, inconclusive>>

NameCulpritTooLate ==         \* mutant: waits for an empty list
  /\ phase = "halving" /\ Len(remaining) < 1
  /\ Conclude(lower[Len(lower)], "none") /\ UNCHANGED trail

NameCulprit ==
  /\ phase = "halving"
  /\ Len(remaining) <= 1
  /\ Conclude(remaining[1], "none")
  /\ UNCHANGED trail

BisectNext == CheckDiffers \/ AskNothing \/ AskEverything \/ Halve \/ NameCulprit

BisectSpec     == BisectInit /\ [][BisectNext]_bisectVars
(* The loop runs to its end as long as the callback keeps answering. *)
FairSpec == BisectSpec /\ WF_bisectVars(BisectNext)

-----------------------------------------------------------------------------

(* Every variable holds a value the code could give it. *)
BisectTypeOK ==
  /\ dimensions \in Diffs
  /\ lower \in Seq(Dimensions)
  /\ remaining \in Seq(Dimensions)
  /\ trail \in Seq(Seq(Dimensions) \X BOOLEAN)
  /\ phase \in Phases
  /\ culprit \in Dimensions \cup {NoCulprit}
  /\ inconclusive \in Reasons

(* "A bisect that names a dimension it has not actually implicated is      *)
(* worse than one that admits the diff was the wrong place to look": a     *)
(* named culprit is exactly the dimension whose addition to a working      *)
(* candidate turned the verdict to failing, and both verdicts are in the   *)
(* audit trail, whatever the callback answered.                            *)
CulpritIsImplicated ==
  culprit # NoCulprit =>
    \E i, j \in 1..Len(trail) :
      /\ trail[i][2] = FALSE
      /\ trail[j] = <<Append(trail[i][1], culprit), TRUE>>

(* A search that ends says either who is responsible or why it cannot say, *)
(* never both and never neither (result fields culprit and                 *)
(* inconclusive_because of every return of bisect_dimensions).             *)
ConclusionIsStated ==
  phase = "done" => ((culprit = NoCulprit) <=> (inconclusive # "none"))

(* A verdict costs a person minutes: no question is asked twice.           *)
NoQuestionTwice ==
  \A i, j \in 1..Len(trail) : trail[i][1] = trail[j][1] => i = j

PowerOfTwo[n \in Nat] == IF n = 0 THEN 1 ELSE 2 * PowerOfTwo[n - 1]

(* "Converges in log(n) verdicts": two sanity checks and one verdict per   *)
(* halving of the larger half, 2^(verdicts-3) < n once halving has begun.  *)
LogarithmicCost ==
  verdicts > 2 => PowerOfTwo[verdicts - 3] < Len(dimensions)

(* The search converges for every sequence of answers. *)
Converges == <>(phase = "done")

=============================================================================
