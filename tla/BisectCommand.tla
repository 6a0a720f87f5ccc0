---------------------------- MODULE BisectCommand ----------------------------
(***************************************************************************)
(* The `bisect` command (devrepro/cli/commands/reproduction.py): it turns  *)
(* the diff of two snapshots into dimensions, runs one of the two searches *)
(* of reproduce/bisect.py and prints what it found.  Bisect and Minimise   *)
(* share the argument, the audit trail and the callback, so both searches  *)
(* are over the same variables.                                            *)
(*                                                                         *)
(* The person answering is either unreliable (every answer is free) or     *)
(* tells the truth about a build that breaks exactly when every member of  *)
(* `causes` is applied; an empty set is a build that is broken anyway, and *)
(* a set outside the diff one that the diff does not explain.              *)
(***************************************************************************)
EXTENDS Bisect, FiniteSets

CONSTANTS
  Bounds,           \* the values of --max-verdicts (200 unless the user says so)
  MinimisedDiffs,   \* the diffs given to --minimise, whose search is longer
  Causes            \* the sets of dimensions that together break the build

ASSUME BoundsAssumption    == Bounds \subseteq Nat
ASSUME MinimisedAssumption == MinimisedDiffs \subseteq Diffs
ASSUME CausesAssumption    == {} \in Causes /\ \A c \in Causes : c \subseteq Dimensions

VARIABLES
  max_verdicts, current, granularity, index,   \* of minimise_dimensions
  caller,   \* the command, or a direct call of the library function
  mode,     \* which option the command was given
  reliable, \* whether the person answering tells the truth
  causes,   \* what breaks the build
  shown     \* the parts of the outcome on the screen

bisecting   == <<lower, remaining, culprit>>
minimising  == <<max_verdicts, current, granularity, index>>
searchVars  == <<dimensions, trail, phase, inconclusive, bisecting, minimising>>
commandVars == <<searchVars, caller, mode, reliable, causes, shown>>

M == INSTANCE Minimise

Parts == {"no_difference", "plan", "reason", "culprit", "minimal"}

Members(candidate) == {candidate[i] : i \in 1..Len(candidate)}

(* What an answer of the person says of the candidate just applied. *)
Truthful(asked) ==
  \A i \in 1..Len(asked) :
    reliable => asked[i][2] = (causes \subseteq Members(asked[i][1]))

-----------------------------------------------------------------------------

CommandInit ==
  /\ BisectInit
  /\ M!Init
  /\ caller \in {"command", "library"}
  /\ mode \in {"bisect", "minimise"} \cup (IF caller = "command" THEN {"plan"} ELSE {})
  /\ mode = "minimise" => dimensions \in MinimisedDiffs
  /\ mode # "minimise" => max_verdicts = CHOOSE b \in Bounds : TRUE
  /\ reliable \in BOOLEAN
  /\ causes \in (IF reliable THEN Causes ELSE {{}})
  /\ shown = {}

(* `if not dimensions` and `if plan`: the command ends without a question. *)
EndAtOnce ==
  /\ caller = "command"
  /\ shown = {}
  /\ phase = "empty_check"
  /\ \/ dimensions = <<>> /\ shown' = {"no_difference"}
     \/ dimensions # <<>> /\ mode = "plan" /\ shown' = {"plan"}
  /\ UNCHANGED <<searchVars, caller, mode, reliable, causes>>

(* One step of the search that was asked for. *)
Search ==
  /\ caller = "command" => dimensions # <<>>
  /\ \/ mode = "bisect" /\ BisectNext /\ UNCHANGED minimising
     \/ mode = "minimise" /\ M!Next /\ UNCHANGED bisecting
  /\ Truthful(trail')
  /\ UNCHANGED <<caller, mode, reliable, causes, shown>>

FoundAnyway == {IF mode = "bisect" THEN "culprit" ELSE "minimal"}   \* mutant: ignores the reason

(* Without --json the reason a search is inconclusive is printed, or else  *)
(* what it found.                                                          *)
Found ==
  IF inconclusive # "none" THEN {"reason"}
  ELSE {IF mode = "bisect" THEN "culprit" ELSE "minimal"}

(* With --json everything the result holds. *)
Everything ==
  {part \in {"reason", "culprit", "minimal"} :
     CASE part = "reason"  -> inconclusive # "none"
       [] part = "culprit" -> culprit # NoCulprit
       [] part = "minimal" -> mode = "minimise" /\ M!minimal # <<>>}

Tell ==
  /\ caller = "command"
  /\ phase = "done"
  /\ shown = {}
  /\ shown' \in {Found, Everything}
  /\ UNCHANGED <<searchVars, caller, mode, reliable, causes>>

CommandNext == EndAtOnce \/ Search \/ Tell

(* Each question is answered in the end, and the program runs on. *)
CommandSpec == CommandInit /\ [][CommandNext]_commandVars /\ WF_commandVars(CommandNext)

-----------------------------------------------------------------------------

(* What `bisect --minimise` shows as the smallest set that still breaks    *)
(* the build was seen to break it, and unless it says that the search was  *)
(* cut short nothing can be left out of it and no member does it alone     *)
(* (MinimisationResult; the three parts are explained in Minimise).        *)
ResultIsMinimal ==
  mode = "minimise" => M!ResultReproduces /\ M!OneMinimal /\ M!InteractionIsReal

(* A verdict costs a person minutes.  Halving asks nothing twice and       *)
(* converges in log(n) verdicts; delta debugging asks at most two for      *)
(* every pair of differences, and --max-verdicts cuts it short within one  *)
(* round, whatever the answers are.                                        *)
CostIsBounded ==
  /\ mode = "bisect" => NoQuestionTwice /\ LogarithmicCost
  /\ mode = "minimise" => M!QuadraticCost /\ M!OverrunIsOneRound

(* Told the truth about a build that breaks when all of some set of        *)
(* differences are applied, `bisect` names a member of that set, and a     *)
(* search of `bisect --minimise` that was not cut short ends with exactly  *)
(* that set: "two changes are each harmless and break things only          *)
(* together, a bisect names one of them".                                  *)
CausesAreFound ==
  (reliable /\ phase = "done" /\ inconclusive = "none") =>
    /\ mode = "bisect" => culprit \in causes
    /\ mode = "minimise" /\ causes # {} => Members(M!minimal) = causes

(* What is printed as found was found: no culprit is announced by a search *)
(* that has none, and a search that could not conclude always says why,    *)
(* never both and never neither.                                           *)
OutcomeIsTold ==
  /\ mode = "bisect" => ConclusionIsStated
  /\ (shown # {} /\ phase = "done") =>
       /\ "culprit" \in shown => culprit # NoCulprit
       /\ "minimal" \in shown => M!minimal # <<>>
       /\ inconclusive # "none" => "reason" \in shown

(* The reason of a search cut short speaks of "the set below": the set     *)
(* that still reproduces the failure is printed below it.                  *)
SetBelowIsShown ==
  (shown # {} /\ inconclusive = "truncated") => "minimal" \in shown

(* Whatever is answered, the command comes to its end and prints.          *)
CommandConverges == <>(IF caller = "command" THEN shown # {} ELSE phase = "done")

=============================================================================
