------------------------------ MODULE Minimise ------------------------------
(***************************************************************************)
(* `minimise_dimensions` of devrepro/reproduce/bisect.py: delta debugging  *)
(* over the differences of two environments.  Each round splits the        *)
(* current failing list into chunks, asks about every chunk alone, then    *)
(* about every complement; a failing one becomes the current list, and     *)
(* when none fails the chunks get smaller.  As in Bisect the answers are   *)
(* a free choice of the external `fails` callback.                         *)
(***************************************************************************)
EXTENDS Integers, Sequences, SequencesExt

CONSTANTS
  Dimensions,   \* the dimensions a diff may consist of
  Diffs,        \* the lists of differences a search may be given
  Bounds        \* the values of max_verdicts (200 unless the caller says so)

VARIABLES
  dimensions,    \* the argument
  max_verdicts,  \* the argument
  current,       \* the smallest list known to fail
  granularity,
  index,         \* which chunk of the round is tried next
  trail,         \* every <<candidate, answer>>, in order
  phase,
  inconclusive   \* inconclusive_because, reduced to which return set it

vars == <<dimensions, max_verdicts, current, granularity, index, trail, phase, inconclusive>>

Phases  == {"empty_check", "everything", "round", "chunk", "complement", "done"}
Reasons == {"none", "no_difference", "not_reproduced", "truncated"}

verdicts == Len(trail)

(* MinimisationResult.minimal of each return *)
minimal == IF phase = "done" /\ inconclusive \in {"none", "truncated"} THEN current ELSE <<>>

(* MinimisationResult.interacting *)
interacting == Len(minimal) > 1

-----------------------------------------------------------------------------

Least(a, b)   == IF a <= b THEN a ELSE b
Largest(a, b) == IF a >= b THEN a ELSE b

(* [current[i : i + size] for i in range(0, len(current), size)] *)
size     == Largest(1, Len(current) \div granularity)
NChunks  == (Len(current) + size - 1) \div size
Chunk(k) == SubSeq(current, (k - 1) * size + 1, Least(k * size, Len(current)))

(* [d for d in list if d not in chunk] *)
Leaving(list, chunk) ==
  LET kept[i \in 0..Len(list)] ==
        IF i = 0 THEN <<>>
        ELSE IF list[i] \in Range(chunk) THEN kept[i - 1]
        ELSE Append(kept[i - 1], list[i])
  IN  kept[Len(list)]

Complement(k) == Leaving(current, Chunk(k))

Ask(candidate, answer) == trail' = Append(trail, <<candidate, answer>>)

-----------------------------------------------------------------------------

Init ==
  /\ dimensions \in Diffs
  /\ max_verdicts \in Bounds
  /\ current = dimensions
  /\ granularity = 2
  /\ index = 1
  /\ trail = <<>>
  /\ phase = "empty_check"
  /\ inconclusive = "none"

Return(why) ==
  /\ phase' = "done"
  /\ inconclusive' = why
  /\ UNCHANGED <<dimensions, max_verdicts, current, granularity, index>>

CheckDiffers ==
  /\ phase = "empty_check"
  /\ UNCHANGED trail
  /\ \/ current = <<>> /\ Return("no_difference")
     \/ /\ current # <<>>
        /\ phase' = "everything"
        /\ UNCHANGED <<dimensions, max_verdicts, current, granularity, index, inconclusive>>

AskEverything ==
  /\ phase = "everything"
  /\ \/ Ask(current, FALSE) /\ Return("not_reproduced")
     \/ /\ Ask(current, TRUE)
        /\ phase' = "round"
        /\ UNCHANGED <<dimensions, max_verdicts, current, granularity, index, inconclusive>>

(* The head of the while loop: one dimension left, or the bound reached,   *)
(* or another round.  The bound is tested here and nowhere else.           *)
LoopHead ==
  /\ phase = "round"
  /\ UNCHANGED trail
  /\ \/ Len(current) <= 1 /\ Return("none")
     \/ Len(current) > 1 /\ verdicts >= max_verdicts /\ Return("truncated")
     \/ /\ Len(current) > 1 /\ verdicts < max_verdicts
        /\ phase' = "chunk"
        /\ index' = 1
        /\ UNCHANGED <<dimensions, max_verdicts, current, granularity, inconclusive>>

(* A failing candidate starts a new round with a new granularity. *)
ReduceTo(candidate, g) ==
  /\ Ask(candidate, TRUE)
  /\ current' = candidate
  /\ granularity' = g
  /\ phase' = "round"
  /\ UNCHANGED <<dimensions, max_verdicts, index, inconclusive>>

TryChunk ==
  /\ phase = "chunk"
  /\ \/ ReduceTo(Chunk(index), 2)
     \/ /\ Ask(Chunk(index), FALSE)
        /\ phase' = IF index = NChunks THEN "complement" ELSE "chunk"
        /\ index' = IF index = NChunks THEN 1 ELSE index + 1
        /\ UNCHANGED <<dimensions, max_verdicts, current, granularity, inconclusive>>

FinishedTooCoarse   == 2 * granularity >= Len(current)   \* mutant: one round early
Finished            == granularity >= Len(current)

NextGranularity     == Least(Len(current), granularity * 2)
CoarserGranularity  == Largest(2, granularity - 1)

(* `if not reduced` after the last complement: the search is over when the *)
(* chunks were single dimensions, else they get smaller.                   *)
TryComplement ==
  /\ phase = "complement"
  /\ \/ ReduceTo(Complement(index), CoarserGranularity)
     \/ /\ Ask(Complement(index), FALSE)
        /\ index < NChunks
        /\ index' = index + 1
        /\ UNCHANGED <<dimensions, max_verdicts, current, granularity, phase, inconclusive>>
     \/ /\ Ask(Complement(index), FALSE)
        /\ index = NChunks
        /\ Finished
        /\ Return("none")
     \/ /\ Ask(Complement(index), FALSE)
        /\ index = NChunks
        /\ ~Finished
        /\ granularity' = NextGranularity
        /\ phase' = "round"
        /\ UNCHANGED <<dimensions, max_verdicts, current, index, inconclusive>>

Next == CheckDiffers \/ AskEverything \/ LoopHead \/ TryChunk \/ TryComplement

Spec == Init /\ [][Next]_vars

-----------------------------------------------------------------------------

Answered(candidate, answer) ==
  \E i \in 1..Len(trail) : trail[i] = <<candidate, answer>>

(* Every variable holds a value the code could give it. *)
TypeOK ==
  /\ dimensions \in Diffs
  /\ max_verdicts \in Bounds
  /\ current \in Seq(Dimensions)
  /\ granularity \in Nat \ {0, 1}
  /\ index \in 1..Largest(1, Len(dimensions))
  /\ trail \in Seq(Seq(Dimensions) \X BOOLEAN)
  /\ phase \in Phases
  /\ inconclusive \in Reasons

(* "The set below still reproduces the failure": whatever stops the        *)
(* search, a set it returns was itself answered as failing, not merely     *)
(* deduced from larger or smaller ones.                                    *)
ResultReproduces == minimal # <<>> => Answered(minimal, TRUE)

(* A search that ends without a caveat is 1-minimal: leaving out any one   *)
(* dimension was tried and did not fail.  The other half of the docstring, *)
(* "a truncated search returning its current best as minimal would be the  *)
(* dishonest version".                                                     *)
OneMinimal ==
  (interacting /\ inconclusive = "none") =>
    \A d \in Range(minimal) :
      Answered(Leaving(minimal, <<d>>), FALSE)

(* `interacting`, "more than one dimension is needed together": no single  *)
(* dimension of the result fails alone.                                    *)
InteractionIsReal ==
  (interacting /\ inconclusive = "none") =>
    \A d \in Range(minimal) : Answered(<<d>>, FALSE)

(* How far the search overruns max_verdicts: less than one round, which    *)
(* asks at most two questions per dimension.                               *)
OverrunIsOneRound == verdicts < Largest(1, max_verdicts) + 2 * Largest(1, Len(dimensions))

(* "max_verdicts is a real bound, not a formality." *)
VerdictsAreBounded == verdicts <= max_verdicts

(* The rounds add up to at most two verdicts for every pair of dimensions, *)
(* even for a callback that contradicts itself: each verdict is a person   *)
(* applying a change and running a build.                                  *)
QuadraticCost ==
  LET n == Len(dimensions) IN verdicts <= 2 * n * n

=============================================================================
