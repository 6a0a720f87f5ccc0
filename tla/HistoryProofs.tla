----------------------------- MODULE HistoryProofs -----------------------------
(***************************************************************************)
(* Proofs about SnapshotChain, for any number of savers, any scenario and  *)
(* any accidents, and about DriftHistory.                                  *)
(*                                                                         *)
(* In a history nobody has touched, a line that can be parsed tells the    *)
(* truth about a whole file however savers overlap (LinesAreTrue), and a   *)
(* save that ended is recorded unless a line is torn (SavesCount).  When   *)
(* saves do not overlap, the entry a saver is about to append is the next  *)
(* one of the chain as it is (PlansAreCurrent), so the chain stays linked. *)
(* In any history the lines are torn or well-formed (ChainTyped).  One     *)
(* accident leaves a scar that no save repairs (TamperInv), and a sealed   *)
(* chain is determined by its head (HeadsDetermine).                       *)
(***************************************************************************)
EXTENDS SnapshotChain, DriftHistory, Counting, SequenceTheorems, TLAPS

IsSequence(seq) == \E S : seq \in Seq(S)

Typed ==
  /\ files \in [Names -> Contents]
  /\ pc \in [Savers -> Steps]
  /\ planned = [s \in Savers |-> planned[s]]
  /\ unterminated \in BOOLEAN
  /\ scenario \in Scenarios
  /\ IsSequence(accidents)

TrueEntry(e) ==
  /\ e # Torn
  /\ e.filename \in Savers /\ e.digest = "whole"
  /\ e.digest_of_entry = entry_digest(e.seq, e.filename, e.digest, e.prev)

(* What is under a saver's name, as far as it has come. *)
FilesFollow ==
  /\ files[Stray] = "absent"
  /\ \A s \in Savers : pc[s] \in {"chaining", "appending", "done"} => files[s] = "whole"

PlansAreTrue ==
  \A s \in Savers : pc[s] = "appending" => TrueEntry(planned[s]) /\ planned[s].filename = s

LinesAreTrue ==
  \A i \in 1..Len(chain) :
    chain[i] # Torn => TrueEntry(chain[i]) /\ files[chain[i].filename] = "whole"
                         /\ pc[chain[i].filename] \in {"done", "crashed"}

Chained(s) == \E i \in 1..Len(chain) : chain[i] # Torn /\ chain[i].filename = s

SavesCount == \A s \in Savers : pc[s] = "done" => Chained(s) \/ ~Readable

OneAtATime == \A s, t \in Active : s = t

Linked ==
  /\ Readable /\ ~unterminated
  /\ \A i \in 1..Len(chain) : chain[i].seq = i /\ chain[i].prev = ExpectedPrev(i)

PlansAreCurrent ==
  \A s \in Savers : pc[s] = "appending" =>
    planned[s].seq = Len(chain) + 1 /\ planned[s].prev = head_digest(chain)

TornLineExists == unterminated => chain # <<>>

Kept   == /\ IsSequence(chain)
          /\ FilesFollow /\ PlansAreTrue /\ LinesAreTrue /\ SavesCount /\ TornLineExists
InLine == OneAtATime /\ Linked /\ PlansAreCurrent

Inv == Typed /\ (Untouched => Kept) /\ (Untouched /\ Orderly => InLine)

-----------------------------------------------------------------------------
(* Sequences and entries.                                                  *)

LEMMA AppendExtends ==
  ASSUME NEW seq, IsSequence(seq), NEW e
  PROVE  /\ IsSequence(Append(seq, e)) /\ Len(seq) \in Nat
         /\ Len(Append(seq, e)) = Len(seq) + 1
         /\ Append(seq, e)[Len(seq) + 1] = e
         /\ \A i \in 1..Len(seq) : Append(seq, e)[i] = seq[i]
         /\ Append(seq, e) # <<>>
<1>1. PICK S : seq \in Seq(S)
  BY DEF IsSequence
<1>2. seq \in Seq(S \cup {e}) /\ e \in S \cup {e}
  BY <1>1
<1>3. Append(seq, e) \in Seq(S \cup {e})
  BY <1>2
<1> QED
  BY <1>2, <1>3 DEF IsSequence

Replaced(seq, n, e) == [seq EXCEPT ![n] = e]

LEMMA ReplaceKeeps ==
  ASSUME NEW seq, IsSequence(seq), NEW n, NEW e
  PROVE  /\ IsSequence(Replaced(seq, n, e)) /\ Len(seq) \in Nat
         /\ Len(Replaced(seq, n, e)) = Len(seq)
         /\ \A i \in 1..Len(seq) : /\ i = n => Replaced(seq, n, e)[i] = e
                                   /\ i # n => Replaced(seq, n, e)[i] = seq[i]
<1> USE DEF Replaced
<1>1. PICK S : seq \in Seq(S)
  BY DEF IsSequence
<1>2. seq \in Seq(S \cup {e})
  BY <1>1
<1>3. CASE n \in 1..Len(seq)
  <2>1. [seq EXCEPT ![n] = e] \in Seq(S \cup {e})
    BY <1>2, <1>3, ExceptSeq
  <2> QED
    BY <1>2, <1>3, <2>1 DEF IsSequence
<1>4. CASE n \notin 1..Len(seq)
  <2>1. seq \in [1..Len(seq) -> S \cup {e}]
    BY <1>2
  <2>2. [seq EXCEPT ![n] = e] = [i \in 1..Len(seq) |-> seq[i]]
    BY <1>4, <2>1
  <2>3. seq = [i \in 1..Len(seq) |-> seq[i]]
    BY <2>1
  <2> QED
    <3>1. [seq EXCEPT ![n] = e] = seq
      BY <2>2, <2>3
    <3>2. /\ Len(seq) \in Nat /\ IsSequence(seq)
          /\ \A i \in 1..Len(seq) : i # n
      BY <1>2, <1>4 DEF IsSequence
    <3> QED
      BY <3>1, <3>2, Zenon
<1> QED
  BY <1>3, <1>4

LEMMA EntriesAreNotTorn ==
  ASSUME NEW seq, NEW filename, NEW digest, NEW prev
  PROVE  LET e == ChainEntry(seq, filename, digest, prev) IN
           /\ e # Torn
           /\ e.seq = seq /\ e.filename = filename /\ e.digest = digest /\ e.prev = prev
           /\ e.digest_of_entry = entry_digest(seq, filename, digest, prev)
<1> DEFINE e == ChainEntry(seq, filename, digest, prev)
<1>1. DOMAIN e = {"seq", "filename", "digest", "prev", "digest_of_entry"}
  BY DEF ChainEntry
<1>2. DOMAIN Torn = {"torn"}
  BY DEF Torn
<1>3. e # Torn
  BY <1>1, <1>2
<1> QED
  BY <1>3 DEF ChainEntry

-----------------------------------------------------------------------------

LEMMA InitInv == Init => Inv
<1> SUFFICES ASSUME Init PROVE Inv
  OBVIOUS
<1>1. IsSequence(chain) /\ IsSequence(accidents)
  BY DEF Init, IsSequence
<1>2. Typed
  BY <1>1 DEF Init, Typed, Contents, Steps
<1> QED
  BY <1>1, <1>2, ConfigAssumption
  DEF Init, Inv, Kept, InLine, TornLineExists, FilesFollow, PlansAreTrue, LinesAreTrue, SavesCount, OneAtATime,
      Linked, Readable, PlansAreCurrent, Active, Names

-----------------------------------------------------------------------------
(* The steps of a saver before it appends.                                 *)

(* A step that neither writes to the chain nor plans for it. *)
Advances(s, step, content) ==
  /\ UNCHANGED <<scenario, chain, unterminated, planned, accidents>>
  /\ pc[s] \in {"idle", "writing", "chaining", "appending"}
  /\ step \in {"writing", "chaining", "done", "crashed"} /\ content \in Contents
  /\ pc' = [pc EXCEPT ![s] = step] /\ files' = [files EXCEPT ![s] = content]
  /\ content # files[s] => pc[s] \in {"idle", "writing"}
  /\ pc[s] = "idle" => step = "writing"
  /\ step = "writing" => scenario.concurrent \/ Active = {}
  /\ step \in {"chaining", "done"} => content = "whole"
  /\ step = "done" /\ Untouched => Chained(s) \/ ~Readable

LEMMA ChainUntouchedKeeps ==
  ASSUME Inv, NEW s \in Savers, NEW step, NEW content, Advances(s, step, content)
  PROVE  Inv'
<1> USE DEF Advances
<1>1. Typed'
  BY DEF Inv, Typed, Names, Steps
<1>2. ASSUME Untouched' PROVE Kept'
  <2>1. Untouched /\ Kept
    BY <1>2 DEF Inv, Untouched
  <2>2. FilesFollow'
    BY <2>1, ConfigAssumption DEF Kept, FilesFollow, Inv, Typed, Names
  <2>3. PlansAreTrue'
    BY <2>1 DEF Kept, PlansAreTrue, TrueEntry, Inv, Typed
  <2>4. LinesAreTrue'
    BY <2>1 DEF Kept, LinesAreTrue, TrueEntry, Inv, Typed, Names
  <2>5. SavesCount'
    BY <2>1 DEF Kept, SavesCount, Chained, Readable, Inv, Typed, Untouched
  <2>6. TornLineExists' /\ IsSequence(chain)'
    BY <2>1 DEF Kept, TornLineExists, IsSequence
  <2> QED
    BY <2>2, <2>3, <2>4, <2>5, <2>6 DEF Kept
<1>3. ASSUME Untouched', Orderly' PROVE InLine'
  <2>1. Untouched /\ Orderly /\ InLine
    BY <1>3 DEF Inv, Untouched, Orderly
  <2>2. OneAtATime'
    BY <2>1 DEF InLine, OneAtATime, Active, Orderly, Inv, Typed
  <2>3. Linked' /\ PlansAreCurrent'
    BY <2>1 DEF InLine, Linked, Readable, ExpectedPrev, PlansAreCurrent, head_digest, Inv, Typed
  <2> QED
    BY <2>2, <2>3 DEF InLine
<1> QED
  BY <1>1, <1>2, <1>3 DEF Inv

LEMMA CreateFileInv == ASSUME NEW s \in Savers, Inv, CreateFile(s) PROVE Inv'
<1>1. Advances(s, "writing", "partial")
  BY DEF CreateFile, Goto, Contents, Advances
<1> QED
  BY <1>1, ChainUntouchedKeeps

LEMMA WriteFileInv == ASSUME NEW s \in Savers, Inv, WriteFile(s) PROVE Inv'
<1>1. Advances(s, "chaining", "whole")
  BY DEF WriteFile, Goto, Contents, Advances
<1> QED
  BY <1>1, ChainUntouchedKeeps

LEMMA CrashInv == ASSUME NEW s \in Savers, Inv, Crash(s) PROVE Inv'
<1>1. files[s] \in Contents /\ files' = [files EXCEPT ![s] = files[s]]
  BY DEF Crash, Inv, Typed, Names
<1>2. Advances(s, "crashed", files[s])
  BY <1>1 DEF Crash, Goto, Active, Advances
<1> QED
  BY <1>2, ChainUntouchedKeeps

(* A save that cannot be chained leaves a whole file and a torn chain. *)
LEMMA GiveUpChainingInv == ASSUME NEW s \in Savers, Inv, GiveUpChaining(s) PROVE Inv'
<1>1. files[s] \in Contents /\ files' = [files EXCEPT ![s] = files[s]]
  BY DEF GiveUpChaining, Inv, Typed, Names
<1>2. CASE Untouched
  <2>1. files[s] = "whole" /\ ~Readable
    BY <1>2 DEF GiveUpChaining, Inv, Kept, FilesFollow
  <2>2. Advances(s, "done", files[s])
    BY <1>1, <2>1 DEF GiveUpChaining, Goto, Advances
  <2> QED
    BY <2>2, ChainUntouchedKeeps
<1>3. CASE ~Untouched
  BY <1>1, <1>3 DEF GiveUpChaining, Goto, Inv, Typed, Untouched, Steps
<1> QED
  BY <1>2, <1>3

LEMMA PlanEntryInv == ASSUME NEW s \in Savers, Inv, PlanEntry(s) PROVE Inv'
<1> DEFINE e == ChainEntry(Len(chain) + 1, s, files[s], head_digest(chain))
<1>1. /\ e # Torn
      /\ e.seq = Len(chain) + 1 /\ e.filename = s /\ e.digest = files[s]
      /\ e.prev = head_digest(chain)
      /\ e.digest_of_entry = entry_digest(e.seq, e.filename, e.digest, e.prev)
  BY EntriesAreNotTorn
<1>2. planned' = [planned EXCEPT ![s] = e]
  BY DEF PlanEntry
<1> HIDE DEF e
<1> USE DEF PlanEntry, Goto
<1>3. Typed'
  BY <1>2 DEF Inv, Typed, Steps
<1>4. ASSUME Untouched' PROVE Kept'
  <2>1. Untouched /\ Kept /\ files[s] = "whole"
    BY <1>4 DEF Inv, Untouched, Kept, FilesFollow
  <2>2. FilesFollow'
    BY <2>1 DEF Kept, FilesFollow, Inv, Typed
  <2>3. PlansAreTrue'
    <3> SUFFICES ASSUME NEW t \in Savers, (pc[t] = "appending")'
                 PROVE  (TrueEntry(planned[t]) /\ planned[t].filename = t)'
      BY DEF PlansAreTrue
    <3>1. CASE t = s
      <4>1. planned'[t] = e
        BY <1>2, <3>1 DEF Inv, Typed
      <4> QED
        BY <1>1, <2>1, <3>1, <4>1 DEF TrueEntry
    <3>2. CASE t # s
      <4>1. planned'[t] = planned[t] /\ pc[t] = "appending"
        BY <1>2, <3>2 DEF Inv, Typed
      <4> QED
        BY <2>1, <4>1 DEF Kept, PlansAreTrue, TrueEntry
    <3> QED
      BY <3>1, <3>2
  <2>4. LinesAreTrue'
    BY <2>1 DEF Kept, LinesAreTrue, TrueEntry, Inv, Typed
  <2>5. SavesCount'
    BY <2>1 DEF Kept, SavesCount, Chained, Readable, Inv, Typed
  <2>6. TornLineExists' /\ IsSequence(chain)'
    BY <2>1 DEF Kept, TornLineExists, IsSequence
  <2> QED
    BY <2>2, <2>3, <2>4, <2>5, <2>6 DEF Kept
<1>5. ASSUME Untouched', Orderly' PROVE InLine'
  <2>1. Untouched /\ Orderly /\ InLine
    BY <1>5 DEF Inv, Untouched, Orderly
  <2>2. OneAtATime'
    BY <2>1 DEF InLine, OneAtATime, Active, Inv, Typed
  <2>3. Linked'
    BY <2>1 DEF InLine, Linked, Readable, ExpectedPrev
  <2>4. PlansAreCurrent'
    <3> SUFFICES ASSUME NEW t \in Savers, (pc[t] = "appending")'
                 PROVE  (planned[t].seq = Len(chain) + 1 /\ planned[t].prev = head_digest(chain))'
      BY DEF PlansAreCurrent
    <3>1. CASE t = s
      <4>1. planned'[t] = e
        BY <1>2, <3>1 DEF Inv, Typed
      <4> QED
        BY <1>1, <4>1 DEF head_digest
    <3>2. CASE t # s
      <4>1. planned'[t] = planned[t] /\ pc[t] = "appending"
        BY <1>2, <3>2 DEF Inv, Typed
      <4> QED
        BY <2>1, <4>1 DEF InLine, PlansAreCurrent, head_digest
    <3> QED
      BY <3>1, <3>2
  <2> QED
    BY <2>2, <2>3, <2>4 DEF InLine
<1> QED
  BY <1>3, <1>4, <1>5 DEF Inv

-----------------------------------------------------------------------------
(* Appending, all of a line or some of it.                                 *)

LEMMA ExtendedChain ==
  ASSUME IsSequence(chain), NEW line, Extend(line)
  PROVE  /\ IsSequence(chain') /\ Len(chain) \in Nat
         /\ unterminated =>
              /\ Len(chain') = Len(chain)
              /\ \A i \in 1..Len(chain) : (i = Len(chain) => chain'[i] = Torn)
                                             /\ (i # Len(chain) => chain'[i] = chain[i])
         /\ ~unterminated =>
              /\ Len(chain') = Len(chain) + 1 /\ chain'[Len(chain) + 1] = line
              /\ \A i \in 1..Len(chain) : chain'[i] = chain[i]
<1>1. CASE unterminated
  <2>1. chain' = Replaced(chain, Len(chain), Torn)
    BY <1>1 DEF Extend, Replaced
  <2>2. /\ IsSequence(chain') /\ Len(chain) \in Nat /\ Len(chain') = Len(chain)
        /\ \A i \in 1..Len(chain) : (i = Len(chain) => chain'[i] = Torn)
                                       /\ (i # Len(chain) => chain'[i] = chain[i])
    BY <2>1, ReplaceKeeps
  <2> QED
    BY <1>1, <2>2
<1>2. CASE ~unterminated
  BY <1>2, AppendExtends DEF Extend
<1> QED
  BY <1>1, <1>2

LEMMA EmptyHasLengthZero ==
  ASSUME NEW seq, IsSequence(seq)
  PROVE  seq = <<>> <=> Len(seq) = 0
<1>1. PICK S : seq \in Seq(S)
  BY DEF IsSequence
<1> QED
  BY <1>1

(* The end of a save: its line is appended, or it dies on the way. *)
Writes(s, line, step) ==
  /\ pc[s] = "appending" /\ pc' = [pc EXCEPT ![s] = step]
  /\ Extend(line) /\ line \in {Torn, planned[s]}
  /\ UNCHANGED <<scenario, files, planned, accidents>>
  /\ \/ step = "done" /\ line = planned[s] /\ ~unterminated'
     \/ step = "crashed" /\ scenario.tears /\ unterminated'
  /\ unterminated' \in BOOLEAN

LEMMA WritesKeeps ==
  ASSUME Inv, Untouched, NEW s \in Savers, NEW line, NEW step, Writes(s, line, step)
  PROVE  Inv'
<1> USE DEF Writes
<1>1. /\ IsSequence(chain') /\ Len(chain) \in Nat
      /\ unterminated =>
           /\ Len(chain') = Len(chain)
           /\ \A i \in 1..Len(chain) : (i = Len(chain) => chain'[i] = Torn)
                                          /\ (i # Len(chain) => chain'[i] = chain[i])
      /\ ~unterminated =>
           /\ Len(chain') = Len(chain) + 1 /\ chain'[Len(chain) + 1] = line
           /\ \A i \in 1..Len(chain) : chain'[i] = chain[i]
  BY ExtendedChain DEF Inv, Kept
<1>2. Typed'
  BY <1>1 DEF Inv, Typed, Steps
<1>3. /\ \A t \in Savers : t # s => pc'[t] = pc[t]
      /\ pc'[s] = step
  BY DEF Inv, Typed
<1>4. ASSUME Untouched' PROVE Kept'
  <2>1. Untouched /\ Kept
    BY <1>4 DEF Inv, Untouched
  <2>2. /\ files[s] = "whole" /\ TrueEntry(planned[s]) /\ planned[s].filename = s
        /\ unterminated => Len(chain) \in 1..Len(chain)
    BY <1>1, <2>1, EmptyHasLengthZero
    DEF Kept, FilesFollow, PlansAreTrue, TornLineExists, Inv, Typed
  <2>3. FilesFollow'
    BY <1>3, <2>1 DEF Kept, FilesFollow
  <2>4. PlansAreTrue'
    BY <1>3, <2>1 DEF Kept, PlansAreTrue, TrueEntry
  <2>5. LinesAreTrue'
    <3> SUFFICES ASSUME NEW i \in 1..Len(chain'), chain'[i] # Torn
                 PROVE  /\ TrueEntry(chain'[i]) /\ files[chain'[i].filename] = "whole"
                        /\ pc'[chain'[i].filename] \in {"done", "crashed"}
      BY DEF LinesAreTrue, TrueEntry
    <3>1. CASE i \in 1..Len(chain) /\ chain'[i] = chain[i]
      <4>1. /\ TrueEntry(chain[i]) /\ files[chain[i].filename] = "whole"
            /\ pc[chain[i].filename] \in {"done", "crashed"}
        BY <2>1, <3>1 DEF Kept, LinesAreTrue
      <4>2. chain[i].filename \in Savers \ {s}
        BY <4>1 DEF TrueEntry
      <4> QED
        BY <1>3, <3>1, <4>1, <4>2
    <3>2. CASE chain'[i] = planned[s]
      BY <1>3, <2>2, <3>2
    <3> QED
      BY <1>1, <3>1, <3>2
  <2>6. SavesCount'
    <3> SUFFICES ASSUME NEW t \in Savers, pc'[t] = "done" PROVE (Chained(t) \/ ~Readable)'
      BY DEF SavesCount
    <3>1. CASE unterminated
      <4>1. chain'[Len(chain)] = Torn /\ Len(chain) \in 1..Len(chain')
        BY <1>1, <2>2, <3>1
      <4> QED
        BY <4>1 DEF Readable
    <3>2. CASE ~unterminated /\ t = s
      <4>1. chain'[Len(chain) + 1] = planned[s] /\ Len(chain) + 1 \in 1..Len(chain')
        BY <1>1, <1>3, <3>2
      <4> QED
        BY <2>2, <3>2, <4>1 DEF Chained, TrueEntry
    <3>3. CASE ~unterminated /\ t # s
      <4>1. Chained(t) \/ ~Readable
        BY <1>3, <2>1, <3>3 DEF Kept, SavesCount
      <4>2. \A i \in 1..Len(chain) : i \in 1..Len(chain') /\ chain'[i] = chain[i]
        BY <1>1, <3>3
      <4> QED
        BY <4>1, <4>2 DEF Chained, Readable
    <3> QED
      BY <3>1, <3>2, <3>3
  <2>7. TornLineExists' /\ IsSequence(chain)'
    BY <1>1, <2>2, EmptyHasLengthZero DEF TornLineExists, IsSequence
  <2> QED
    BY <2>3, <2>4, <2>5, <2>6, <2>7 DEF Kept
<1>5. ASSUME Untouched', Orderly' PROVE InLine'
  <2>1. Untouched /\ Orderly /\ Kept /\ InLine
    BY <1>5 DEF Inv, Untouched, Orderly
  <2>2. /\ step = "done" /\ line = planned[s] /\ ~unterminated /\ ~unterminated'
        /\ TrueEntry(planned[s])
        /\ planned[s].seq = Len(chain) + 1 /\ planned[s].prev = head_digest(chain)
    BY <2>1 DEF Orderly, InLine, Linked, PlansAreCurrent, Kept, PlansAreTrue
  <2>3. OneAtATime'
    BY <1>3, <2>1, <2>2 DEF InLine, OneAtATime, Active
  <2>4. PlansAreCurrent'
    <3>1. \A t \in Savers : pc'[t] # "appending"
      BY <1>3, <2>1, <2>2 DEF InLine, OneAtATime, Active
    <3> QED
      BY <3>1 DEF PlansAreCurrent
  <2>5. \A i \in 1..Len(chain) : ExpectedPrev(i)' = ExpectedPrev(i)
    BY <1>1, <2>2 DEF ExpectedPrev
  <2>6. ASSUME NEW i \in {Len(chain) + 1} PROVE ExpectedPrev(i)' = head_digest(chain)
    <3>1. CASE Len(chain) = 0
      <4>1. chain = <<>> /\ i = 1
        BY <3>1, EmptyHasLengthZero DEF Inv, Typed
      <4> QED
        BY <4>1 DEF ExpectedPrev, head_digest
    <3>2. CASE Len(chain) # 0
      <4>1. /\ chain'[Len(chain)] = chain[Len(chain)] /\ chain # <<>>
            /\ i # 1 /\ i - 1 = Len(chain)
        BY <1>1, <2>2, <3>2, EmptyHasLengthZero DEF Inv, Typed
      <4> QED
        BY <4>1 DEF ExpectedPrev, head_digest
    <3> QED
      BY <3>1, <3>2
  <2>7. Linked'
    <3> SUFFICES ASSUME NEW i \in 1..Len(chain')
                 PROVE  /\ chain'[i] # Torn /\ chain'[i].seq = i
                        /\ chain'[i].prev = ExpectedPrev(i)'
      BY <2>2 DEF Linked, Readable, ExpectedPrev
    <3>1. CASE i \in 1..Len(chain)
      <4>1. chain'[i] = chain[i] /\ ExpectedPrev(i)' = ExpectedPrev(i)
        BY <1>1, <2>2, <2>5, <3>1
      <4> QED
        BY <2>1, <3>1, <4>1 DEF InLine, Linked, Readable
    <3>2. CASE i = Len(chain) + 1
      BY <1>1, <2>2, <2>6, <3>2 DEF TrueEntry
    <3> QED
      BY <1>1, <2>2, <3>1, <3>2
  <2> QED
    BY <2>3, <2>4, <2>7 DEF InLine
<1> QED
  BY <1>2, <1>4, <1>5 DEF Inv

(* Of a history that has been touched nothing is claimed. *)
LEMMA TouchedStays == Typed' /\ ~Untouched' => Inv'
  BY DEF Inv

LEMMA AppendLineInv == ASSUME NEW s \in Savers, Inv, AppendLine(s) PROVE Inv'
<1>1. Writes(s, planned[s], "done")
  BY DEF AppendLine, Goto, Writes
<1>2. CASE Untouched
  BY <1>1, <1>2, WritesKeeps
<1>3. CASE ~Untouched
  BY <1>1, <1>3, TouchedStays DEF Writes, Inv, Typed, Steps, Untouched
<1> QED
  BY <1>2, <1>3

LEMMA TearLineInv == ASSUME NEW s \in Savers, Inv, TearLine(s) PROVE Inv'
<1>1. PICK line \in {Torn, planned[s]} : Extend(line)
  BY DEF TearLine
<1>2. Writes(s, line, "crashed")
  BY <1>1 DEF TearLine, Goto, Writes
<1>3. CASE Untouched
  BY <1>2, <1>3, WritesKeeps
<1>4. CASE ~Untouched
  BY <1>2, <1>4, TouchedStays DEF Writes, Inv, Typed, Steps, Untouched
<1> QED
  BY <1>3, <1>4

-----------------------------------------------------------------------------
(* Accidents: from then on nothing is claimed.                             *)

LEMMA TouchedInv ==
  ASSUME Inv, NEW kind, Accident(kind), files' \in [Names -> Contents],
         unterminated' = unterminated
  PROVE  Inv'
<1>1. IsSequence(accidents') /\ ~Untouched'
  BY AppendExtends DEF Accident, Inv, Typed, Untouched
<1>2. Typed'
  BY <1>1 DEF Accident, Inv, Typed
<1> QED
  BY <1>1, <1>2, TouchedStays

LEMMA AccidentsInv == Inv /\ (FileAccidents \/ ChainAccidents \/ Rebuild) => Inv'
<1> SUFFICES ASSUME Inv, FileAccidents \/ ChainAccidents \/ Rebuild PROVE Inv'
  OBVIOUS
<1>1. \A f : \A content \in Contents : [files EXCEPT ![f] = content] \in [Names -> Contents]
  BY DEF Inv, Typed
<1>2. \E kind \in AccidentKinds : Accident(kind) /\ unterminated' = unterminated
  BY DEF FileAccidents, ChainAccidents, Rebuild, FileAccident, ChainAccident, AccidentKinds
<1>3. files' \in [Names -> Contents]
  BY <1>1
  DEF FileAccidents, ChainAccidents, Rebuild, FileAccident, ChainAccident, Contents, Inv, Typed
<1> QED
  BY <1>2, <1>3, TouchedInv

LEMMA UnchangedInv ==
  Inv /\ UNCHANGED <<scenario, files, chain, unterminated, pc, planned, accidents>> => Inv'
  BY DEF Inv, Typed, Kept, InLine, IsSequence, FilesFollow, PlansAreTrue, TrueEntry, LinesAreTrue,
     SavesCount, Chained, Readable, TornLineExists, OneAtATime, Active, Linked, ExpectedPrev,
     PlansAreCurrent, head_digest, Untouched, Orderly

LEMMA StepInv == Inv /\ [Next]_vars => Inv'
<1> SUFFICES ASSUME Inv, [Next]_vars PROVE Inv'
  OBVIOUS
<1>1. CASE \E s \in Savers : SaverStep(s)
  BY <1>1, CreateFileInv, WriteFileInv, PlanEntryInv, GiveUpChainingInv, AppendLineInv,
     TearLineInv, CrashInv DEF SaverStep
<1>2. CASE FileAccidents \/ ChainAccidents \/ Rebuild
  BY <1>2, AccidentsInv
<1>3. CASE Anchor \/ UNCHANGED vars
  BY <1>3, UnchangedInv DEF Anchor, vars
<1> QED
  BY <1>1, <1>2, <1>3 DEF Next

LEMMA InvAlways == Spec => []Inv
  BY InitInv, StepInv, PTL DEF Spec

-----------------------------------------------------------------------------
(* The theorems.                                                           *)

LEMMA ChainedIsRecorded == ASSUME NEW s PROVE Chained(s) <=> s \in Recorded
  BY DEF Chained, Recorded

(* However saves overlap, tear each other's lines and die, one that ends   *)
(* leaves its whole file, chained or reported (snapshots/history.py, save).*)
THEOREM ChainSavesAreKept == Spec => []SavesAreKept
<1>1. Inv => SavesAreKept
  BY ChainedIsRecorded DEF Inv, Kept, FilesFollow, SavesCount, SavesAreKept, VerifiesOk
<1> QED
  BY <1>1, InvAlways, PTL

(* And what the chain says of a file is what the file holds                *)
(* (snapshots/chain.py, append_entry).                                     *)
THEOREM ChainRecordsMatchFiles == Spec => []RecordsMatchFiles
<1>1. ASSUME Inv, Untouched, Readable, NEW i \in 1..Len(chain)
      PROVE  EntryProblems(i) \cap {"entry-altered", "missing-snapshot", "snapshot-altered"} = {}
  <2>1. TrueEntry(chain[i]) /\ files[chain[i].filename] = "whole"
    BY <1>1 DEF Inv, Kept, LinesAreTrue, Readable
  <2> QED
    BY <2>1 DEF EntryProblems, TrueEntry
<1>2. ASSUME Inv, Untouched, Readable, NEW problem \in verify_chain
      PROVE  problem \notin {"entry-altered", "missing-snapshot", "snapshot-altered"}
  <2>1. CASE \E i \in 1..Len(chain) : problem \in EntryProblems(i)
    BY <1>1, <1>2, <2>1
  <2>2. CASE problem = "unchained-snapshot"
    BY <2>2
  <2>3. problem \in UNION {EntryProblems(i) : i \in 1..Len(chain)} \/ problem = "unchained-snapshot"
    BY <1>2 DEF verify_chain
  <2> QED
    BY <2>1, <2>2, <2>3
<1>3. Inv => RecordsMatchFiles
  BY <1>2 DEF RecordsMatchFiles
<1> QED
  BY <1>3, InvAlways, PTL

(* Saves made one after the other, whatever becomes of them short of a     *)
(* torn line, leave a history that verifies but for the files of saves     *)
(* that did not end (snapshots/chain.py, verify_chain).                    *)
THEOREM ChainQuietHistoryVerifies == Spec => []QuietHistoryVerifies
<1>1. Inv => QuietHistoryVerifies
  <2> SUFFICES ASSUME Inv, Orderly, Untouched
               PROVE  /\ Readable
                      /\ verify_chain \subseteq {"unchained-snapshot"}
                      /\ \A f \in Unchained : pc[f] # "done"
    BY DEF QuietHistoryVerifies
  <2>1. Readable /\ Kept /\ Linked
    BY DEF Inv, InLine, Linked
  <2>2. ASSUME NEW i \in 1..Len(chain) PROVE EntryProblems(i) = {}
    <3>1. /\ TrueEntry(chain[i]) /\ files[chain[i].filename] = "whole"
          /\ chain[i].seq = i /\ chain[i].prev = ExpectedPrev(i)
      BY <2>1 DEF Kept, LinesAreTrue, Linked, Readable
    <3>2. /\ chain[i].digest_of_entry =
               entry_digest(chain[i].seq, chain[i].filename, chain[i].digest, chain[i].prev)
          /\ files[chain[i].filename] # "absent"
          /\ files[chain[i].filename] \in {"absent", chain[i].digest}
      BY <3>1 DEF TrueEntry
    <3>3. /\ ~(chain[i].seq # i) /\ ~(chain[i].prev # ExpectedPrev(i))
          /\ ~(files[chain[i].filename] \notin {"absent", chain[i].digest})
      BY <3>1, <3>2
    <3> QED
      BY <3>2, <3>3 DEF EntryProblems
  <2>3. verify_chain \subseteq {"unchained-snapshot"}
    BY <2>2 DEF verify_chain
  <2>4. ASSUME NEW f \in Unchained PROVE pc[f] # "done"
    <3>1. f \in Savers /\ ~Chained(f)
      BY <2>1, ChainedIsRecorded DEF Unchained, Names, Kept, FilesFollow
    <3> QED
      BY <2>1, <3>1 DEF Kept, SavesCount
  <2> QED
    BY <2>1, <2>3, <2>4
<1> QED
  BY <1>1, InvAlways, PTL

-----------------------------------------------------------------------------
(* What can stand in chain.jsonl, whatever was done to it.                 *)

Entry(e) ==
  /\ IsEntry(e) /\ e # Torn
  /\ e = [seq |-> e.seq, filename |-> e.filename, digest |-> e.digest, prev |-> e.prev,
          digest_of_entry |-> e.digest_of_entry]

Lines(seq) == \E S : seq \in Seq(S) /\ \A x \in S : x = Torn \/ Entry(x)
Whole(seq) == \E S : seq \in Seq(S) /\ \A x \in S : Entry(x)

PlansAreEntries ==
  \A s \in Savers : /\ planned[s] = NoEntry \/ Entry(planned[s])
                    /\ pc[s] = "appending" => Entry(planned[s]) /\ planned[s].filename = s

ChainTyped ==
  /\ Lines(chain) /\ PlansAreEntries
  /\ accidents \in Seq(scenario.kinds) /\ Len(accidents) <= scenario.max
  /\ ~scenario.tears => ~unterminated /\ Readable

LEMMA LinesHold ==
  ASSUME NEW seq, Lines(seq)
  PROVE  /\ IsSequence(seq) /\ Len(seq) \in Nat
         /\ \A i \in 1..Len(seq) : seq[i] = Torn \/ Entry(seq[i])
BY DEF Lines, IsSequence

LEMMA LinesOf ==
  ASSUME NEW seq, IsSequence(seq), \A i \in 1..Len(seq) : seq[i] = Torn \/ Entry(seq[i])
  PROVE  Lines(seq)
<1>1. PICK S : seq \in Seq(S)
  BY DEF IsSequence
<1> DEFINE U == {x \in S : x = Torn \/ Entry(x)}
<1>2. seq \in Seq(U)
  <2>1. Len(seq) \in Nat /\ seq = [i \in 1..Len(seq) |-> seq[i]]
    BY <1>1
  <2>2. \A i \in 1..Len(seq) : seq[i] \in U
    BY <1>1
  <2>3. seq \in [1..Len(seq) -> U]
    BY <2>1, <2>2
  <2> QED BY <2>1, <2>3
<1> QED BY <1>2 DEF Lines

(* Cutting a line out of a chain.                                          *)
Cut(seq, i) == SubSeq(seq, 1, i - 1) \o SubSeq(seq, i + 1, Len(seq))

LEMMA CutKeeps ==
  ASSUME NEW seq, IsSequence(seq), NEW i \in 1..Len(seq)
  PROVE  /\ IsSequence(Cut(seq, i)) /\ Len(seq) \in Nat /\ Len(Cut(seq, i)) = Len(seq) - 1
         /\ \A j \in 1..(Len(seq) - 1) :
              Cut(seq, i)[j] = IF j < i THEN seq[j] ELSE seq[j + 1]
<1>1. PICK S : seq \in Seq(S)
  BY DEF IsSequence
<1> DEFINE a == SubSeq(seq, 1, i - 1)
           b == SubSeq(seq, i + 1, Len(seq))
           n == Len(seq)
<1>2. n \in Nat /\ i \in Int /\ 1 <= i /\ i <= n
  BY <1>1
<1>3. /\ a \in Seq(S) /\ Len(a) = i - 1
      /\ \A j \in 1..(i - 1) : a[j] = seq[j]
  <2>1. \A k \in 1..(i - 1) : seq[k] \in S
    BY <1>1, <1>2
  <2> QED BY <1>1, <1>2, <2>1, SubSeqProperties
<1>4. /\ b \in Seq(S) /\ Len(b) = n - i
      /\ \A j \in 1..(n - i) : b[j] = seq[i + j]
  <2>1. CASE i = n
    <3>1. b = <<>>
      BY <1>1, <1>2, <2>1, SubSeqEmpty
    <3> QED BY <1>2, <2>1, <3>1
  <2>2. CASE i < n
    <3>1. i + 1 \in 1..n /\ n \in (i + 1)..n
      BY <1>2, <2>2
    <3>2. /\ b \in Seq(S) /\ Len(b) = n - (i + 1) + 1
          /\ \A j \in 1..(n - (i + 1) + 1) : b[j] = seq[(i + 1) + j - 1]
      BY <1>1, <1>2, <3>1, SubSeqProperties
    <3>3. n - (i + 1) + 1 = n - i /\ \A j \in 1..(n - i) : (i + 1) + j - 1 = i + j
      BY <1>2
    <3> HIDE DEF b, n
    <3> QED BY <3>2, <3>3
  <2> QED BY <1>2, <2>1, <2>2
<1> HIDE DEF a, b
<1>5. /\ a \o b \in Seq(S) /\ Len(a \o b) = Len(a) + Len(b)
      /\ \A j \in 1..(Len(a) + Len(b)) : (a \o b)[j] = IF j <= Len(a) THEN a[j] ELSE b[j - Len(a)]
  BY <1>3, <1>4, ConcatProperties
<1>6. Cut(seq, i) = a \o b
  BY DEF Cut, a, b
<1>7. ASSUME NEW j \in 1..(n - 1)
      PROVE  (a \o b)[j] = IF j < i THEN seq[j] ELSE seq[j + 1]
  <2>1. (a \o b)[j] = IF j <= i - 1 THEN a[j] ELSE b[j - (i - 1)]
    BY <1>2, <1>3, <1>4, <1>5
  <2>2. CASE j < i
    <3>1. j \in 1..(i - 1)
      BY <1>2, <2>2
    <3> QED BY <1>3, <2>1, <2>2, <3>1
  <2>3. CASE ~(j < i)
    <3>1. j - (i - 1) \in 1..(n - i) /\ i + (j - (i - 1)) = j + 1 /\ ~(j <= i - 1)
      BY <1>2, <2>3
    <3>2. b[j - (i - 1)] = seq[i + (j - (i - 1))]
      BY <1>4, <3>1
    <3> QED BY <2>1, <2>3, <3>1, <3>2
  <2> QED BY <2>2, <2>3
<1>8. Len(a \o b) = n - 1
  BY <1>2, <1>3, <1>4, <1>5
<1> QED BY <1>2, <1>5, <1>6, <1>7, <1>8 DEF IsSequence

LEMMA EntriesAreEntries ==
  ASSUME NEW seq \in Nat \ {0}, NEW filename \in Names, NEW digest \in Contents \ {"absent"}, NEW prev
  PROVE  Entry(ChainEntry(seq, filename, digest, prev))
BY EntriesAreNotTorn DEF ChainEntry, Entry, IsEntry

LEMMA WholeAppend ==
  ASSUME NEW seq, Whole(seq), NEW e, Entry(e)
  PROVE  Whole(Append(seq, e))
<1>1. PICK S : seq \in Seq(S) /\ \A x \in S : Entry(x)
  BY DEF Whole
<1>2. seq \in Seq(S \cup {e}) /\ e \in S \cup {e}
  BY <1>1
<1>3. Append(seq, e) \in Seq(S \cup {e}) /\ \A x \in S \cup {e} : Entry(x)
  BY <1>1, <1>2
<1> QED BY <1>3, Zenon DEF Whole

(* A chain written from scratch is one of entries.                         *)
LEMMA RebuiltIsWhole ==
  ASSUME files \in [Names -> Contents], NEW n \in Nat,
         NEW order \in [1..n -> {f \in Names : files[f] # "absent"}]
  PROVE  Whole(Rebuilt(order))
<1> DEFINE Added(f, i) == Append(f[i - 1], ChainEntry(i, order[i], files[order[i]], head_digest(f[i - 1])))
           Eq(f, k) == f = [i \in 0..k |-> IF i = 0 THEN <<>> ELSE Added(f, i)]
           D == {k \in Nat : \E f : Eq(f, k)}
<1>0. Len(order) = n
  OBVIOUS
<1>1. Nat \subseteq D
  <2>1. 0 \in D
    <3>1. Eq([i \in 0..0 |-> <<>>], 0)
      OBVIOUS
    <3> QED BY <3>1
  <2>2. ASSUME NEW k \in Nat, k \in D PROVE k + 1 \in D
    <3>1. PICK f : Eq(f, k)
      BY <2>2
    <3> DEFINE g == [i \in 0..(k + 1) |-> IF i = k + 1 THEN Added(f, i) ELSE f[i]]
    <3>2. \A i \in 0..k : g[i] = f[i]
      OBVIOUS
    <3>3. ASSUME NEW i \in 0..(k + 1)
          PROVE  g[i] = IF i = 0 THEN <<>> ELSE Added(g, i)
      <4>1. CASE i = k + 1
        <5>1. g[i] = Added(f, i)
          BY <4>1
        <5>2. i - 1 \in 0..k /\ i # 0
          BY <4>1
        <5>3. g[i - 1] = f[i - 1]
          BY <5>2, <3>2
        <5> HIDE DEF g
        <5> QED BY <5>1, <5>2, <5>3
      <4>2. CASE i # k + 1 /\ i # 0
        <5>1. i \in 0..k /\ i - 1 \in 0..k
          BY <4>2
        <5>2. g[i] = f[i] /\ g[i - 1] = f[i - 1]
          BY <5>1, <3>2
        <5>3. f[i] = Added(f, i)
          BY <5>1, <3>1, <4>2
        <5> HIDE DEF g
        <5> QED BY <5>2, <5>3, <4>2
      <4>3. CASE i = 0
        <5>1. 0 \in 0..k
          OBVIOUS
        <5>2. g[0] = f[0] /\ f[0] = <<>>
          BY <5>1, <3>1, <3>2
        <5> HIDE DEF g
        <5> QED BY <5>2, <4>3
      <4> QED BY <4>1, <4>2, <4>3
    <3>4. Eq(g, k + 1)
      <4>1. g = [i \in 0..(k + 1) |-> g[i]]
        OBVIOUS
      <4> HIDE DEF g, Added
      <4> QED BY <3>3, <4>1
    <3>5. k + 1 \in Nat
      OBVIOUS
    <3> HIDE DEF Eq, g
    <3> QED BY <3>4, <3>5
  <2> HIDE DEF D
  <2> QED BY <2>1, <2>2, Induction
<1> DEFINE entries == CHOOSE f : Eq(f, n)
<1>2. Eq(entries, n)
  <2>1. \E f : Eq(f, n)
    BY <1>1
  <2> HIDE DEF Eq
  <2> QED BY <2>1
<1>3. Rebuilt(order) = entries[n]
  BY <1>0 DEF Rebuilt
<1> HIDE DEF entries
<1> DEFINE E == {k \in Nat : k <= n => Whole(entries[k])}
<1>4. 0 \in E
  <2>1. entries[0] = <<>>
    BY <1>2
  <2>2. Whole(<<>>)
    <3> DEFINE none == <<>>
    <3>1. none \in Seq({}) /\ \A x \in {} : Entry(x)
      OBVIOUS
    <3> HIDE DEF none
    <3>2. Whole(none)
      BY <3>1 DEF Whole
    <3> QED BY <3>2 DEF none
  <2> QED BY <2>1, <2>2
<1>5. ASSUME NEW k \in Nat, k \in E PROVE k + 1 \in E
  <2> SUFFICES ASSUME k + 1 <= n PROVE Whole(entries[k + 1])
    OBVIOUS
  <2>1. k + 1 \in 1..n /\ k + 1 \in 0..n /\ (k + 1) - 1 = k /\ k + 1 # 0 /\ Whole(entries[k])
    BY <1>5
  <2> DEFINE e == ChainEntry(k + 1, order[k + 1], files[order[k + 1]], head_digest(entries[k]))
  <2>2. entries[k + 1] = Append(entries[k], e)
    BY <1>2, <2>1
  <2>3. Entry(e)
    <3>1. k + 1 \in Nat \ {0} /\ order[k + 1] \in Names /\ files[order[k + 1]] \in Contents \ {"absent"}
      BY <2>1
    <3> QED BY <3>1, EntriesAreEntries
  <2> HIDE DEF e
  <2> QED BY <2>1, <2>2, <2>3, WholeAppend
<1>6. Nat \subseteq E
  <2> HIDE DEF E
  <2> QED BY <1>4, <1>5, Induction
<1> QED BY <1>3, <1>6

LEMMA ChainTypedInit == Init => ChainTyped
<1> SUFFICES ASSUME Init PROVE ChainTyped
  OBVIOUS
<1>1. Lines(chain)
  <2>1. IsSequence(chain) /\ Len(chain) = 0
    BY DEF Init, IsSequence
  <2> QED BY <2>1, LinesOf
<1>2. PlansAreEntries
  BY DEF Init, PlansAreEntries
<1>3. accidents \in Seq(scenario.kinds) /\ Len(accidents) <= scenario.max
  <2>1. accidents \in Seq(scenario.kinds) /\ Len(accidents) = 0 /\ scenario.max \in Nat
    BY ConfigAssumption DEF Init
  <2> QED BY <2>1
<1>4. ~unterminated /\ Readable
  BY DEF Init, Readable
<1> QED BY <1>1, <1>2, <1>3, <1>4 DEF ChainTyped

(* A step of a saver that does not write to the chain.                     *)
LEMMA ChainTypedKept ==
  ASSUME ChainTyped, UNCHANGED <<scenario, chain, unterminated, accidents>>, PlansAreEntries'
  PROVE  ChainTyped'
BY DEF ChainTyped, Lines, Readable

LEMMA PlansKept ==
  ASSUME Inv, PlansAreEntries, NEW s \in Savers, NEW step \in Steps \ {"appending"},
         pc' = [pc EXCEPT ![s] = step], planned' = planned
  PROVE  PlansAreEntries'
<1>1. \A t \in Savers : pc'[t] = "appending" => pc[t] = "appending"
  BY DEF Inv, Typed
<1> QED BY <1>1 DEF PlansAreEntries, Entry, IsEntry

LEMMA PlanIsEntry ==
  ASSUME Inv, ChainTyped, NEW s \in Savers, PlanEntry(s)
  PROVE  PlansAreEntries'
<1> DEFINE e == ChainEntry(Len(chain) + 1, s, files[s], head_digest(chain))
<1>1. Entry(e) /\ e.filename = s
  <2>1. Len(chain) + 1 \in Nat \ {0}
    BY LinesHold DEF ChainTyped
  <2>2. s \in Names /\ files[s] \in Contents \ {"absent"}
    BY DEF Inv, Typed, Names, PlanEntry
  <2> QED BY <2>1, <2>2, EntriesAreEntries, EntriesAreNotTorn
<1>2. planned' = [planned EXCEPT ![s] = e] /\ pc' = [pc EXCEPT ![s] = "appending"]
  BY DEF PlanEntry, Goto
<1> HIDE DEF e
<1>3. planned'[s] = e /\ \A t \in Savers : t # s => planned'[t] = planned[t] /\ pc'[t] = pc[t]
  BY <1>2 DEF Inv, Typed
<1> SUFFICES ASSUME NEW t \in Savers
             PROVE  /\ planned'[t] = NoEntry \/ Entry(planned'[t])
                    /\ pc'[t] = "appending" => Entry(planned'[t]) /\ planned'[t].filename = t
  BY DEF PlansAreEntries, Entry, IsEntry
<1>4. CASE t = s
  BY <1>1, <1>3, <1>4
<1>5. CASE t # s
  BY <1>3, <1>5 DEF ChainTyped, PlansAreEntries
<1> QED BY <1>4, <1>5

LEMMA WritesTyped ==
  ASSUME Inv, ChainTyped, NEW s \in Savers, NEW line, NEW step, Writes(s, line, step)
  PROVE  ChainTyped'
<1> USE DEF Writes
<1>1. Entry(planned[s])
  BY DEF ChainTyped, PlansAreEntries
<1>2. /\ IsSequence(chain) /\ Len(chain) \in Nat
      /\ \A i \in 1..Len(chain) : chain[i] = Torn \/ Entry(chain[i])
  BY LinesHold DEF ChainTyped
<1>3. /\ IsSequence(chain')
      /\ unterminated =>
           /\ Len(chain') = Len(chain)
           /\ \A i \in 1..Len(chain) : (i = Len(chain) => chain'[i] = Torn)
                                          /\ (i # Len(chain) => chain'[i] = chain[i])
      /\ ~unterminated =>
           /\ Len(chain') = Len(chain) + 1 /\ chain'[Len(chain) + 1] = line
           /\ \A i \in 1..Len(chain) : chain'[i] = chain[i]
  BY <1>2, ExtendedChain
<1>4. \A i \in 1..Len(chain') : chain'[i] = Torn \/ Entry(chain'[i])
  <2>1. CASE unterminated
    BY <1>2, <1>3, <2>1
  <2>2. CASE ~unterminated
    BY <1>1, <1>2, <1>3, <2>2
  <2> QED BY <2>1, <2>2
<1>5. Lines(chain')
  BY <1>3, <1>4, LinesOf
<1>6. ~scenario.tears => ~unterminated' /\ Readable'
  <2> SUFFICES ASSUME ~scenario.tears PROVE ~unterminated' /\ Readable'
    OBVIOUS
  <2>1. ~unterminated /\ ~unterminated' /\ line = planned[s] /\ Readable
    BY DEF ChainTyped
  <2>2. planned[s] # Torn
    BY <1>1 DEF Entry
  <2> QED BY <1>2, <1>3, <2>1, <2>2 DEF Readable
<1>7. PlansAreEntries'
  BY PlansKept DEF ChainTyped, Steps
<1> QED BY <1>5, <1>6, <1>7 DEF ChainTyped, Lines

LEMMA SaversTyped ==
  ASSUME Inv, ChainTyped, NEW s \in Savers, SaverStep(s)
  PROVE  ChainTyped'
<1>1. ASSUME NEW step \in Steps \ {"appending"}, Goto(s, step),
             UNCHANGED <<scenario, chain, unterminated, accidents, planned>>
      PROVE  ChainTyped'
  BY <1>1, PlansKept, ChainTypedKept DEF Goto, ChainTyped
<1>2. CASE CreateFile(s)
  BY <1>1, <1>2 DEF CreateFile, Steps
<1>3. CASE WriteFile(s)
  BY <1>1, <1>3 DEF WriteFile, Steps
<1>4. CASE GiveUpChaining(s)
  BY <1>1, <1>4 DEF GiveUpChaining, Steps
<1>5. CASE Crash(s)
  BY <1>1, <1>5 DEF Crash, Steps
<1>6. CASE PlanEntry(s)
  BY <1>6, PlanIsEntry, ChainTypedKept DEF PlanEntry
<1>7. CASE AppendLine(s)
  <2>1. Writes(s, planned[s], "done")
    BY <1>7 DEF AppendLine, Goto, Writes
  <2> QED BY <2>1, WritesTyped
<1>8. CASE TearLine(s)
  <2>1. PICK line \in {Torn, planned[s]} : Extend(line)
    BY <1>8 DEF TearLine
  <2>2. Writes(s, line, "crashed")
    BY <1>8, <2>1 DEF TearLine, Goto, Writes
  <2> QED BY <2>2, WritesTyped
<1> QED BY <1>2, <1>3, <1>4, <1>5, <1>6, <1>7, <1>8 DEF SaverStep

-----------------------------------------------------------------------------
(* The lines an accident leaves.                                           *)

Edited(i) == Replaced(chain, i, [chain[i] EXCEPT !.digest = "edited"])
Swapped(i) == Replaced(Replaced(chain, i, chain[i + 1]), i + 1, chain[i])

LEMMA EditedEntry ==
  ASSUME NEW e, Entry(e)
  PROVE  LET d == [e EXCEPT !.digest = "edited"] IN
           /\ Entry(d) /\ d.digest = "edited"
           /\ d.seq = e.seq /\ d.filename = e.filename /\ d.prev = e.prev
           /\ d.digest_of_entry = e.digest_of_entry
<1> DEFINE d == [e EXCEPT !.digest = "edited"]
           flat == [seq |-> e.seq, filename |-> e.filename, digest |-> "edited", prev |-> e.prev,
                    digest_of_entry |-> e.digest_of_entry]
<1>1. e = [seq |-> e.seq, filename |-> e.filename, digest |-> e.digest, prev |-> e.prev,
           digest_of_entry |-> e.digest_of_entry]
  BY DEF Entry
<1>2. d = flat
  BY <1>1
<1>3. /\ flat.seq = e.seq /\ flat.filename = e.filename /\ flat.digest = "edited" /\ flat.prev = e.prev
      /\ flat.digest_of_entry = e.digest_of_entry
      /\ DOMAIN flat = {"seq", "filename", "digest", "prev", "digest_of_entry"}
  OBVIOUS
<1>4. flat # Torn
  <2>1. DOMAIN Torn = {"torn"}
    BY DEF Torn
  <2> QED BY <1>3, <2>1
<1>5. /\ e.seq \in Nat \ {0} /\ e.filename \in Names /\ "edited" \in Contents \ {"absent"}
  BY DEF Entry, IsEntry, Contents
<1> HIDE DEF flat, d
<1>6. flat = [seq |-> flat.seq, filename |-> flat.filename, digest |-> flat.digest, prev |-> flat.prev,
              digest_of_entry |-> flat.digest_of_entry]
  BY <1>3 DEF flat
<1>7. Entry(flat)
  BY <1>3, <1>4, <1>5, <1>6 DEF Entry, IsEntry
<1>8. Entry(d) /\ d.digest = "edited" /\ d.seq = e.seq /\ d.filename = e.filename /\ d.prev = e.prev
      /\ d.digest_of_entry = e.digest_of_entry
  BY <1>2, <1>3, <1>7
<1> QED BY <1>8 DEF d

(* Each accident to the chain, by index.                                   *)
LEMMA AccidentsByIndex ==
  ASSUME Lines(chain), Readable, NEW i \in 1..Len(chain)
  PROVE  /\ /\ IsSequence(Edited(i)) /\ Len(Edited(i)) = Len(chain)
            /\ \A j \in 1..Len(chain) :
                 Edited(i)[j] = IF j = i THEN [chain[i] EXCEPT !.digest = "edited"] ELSE chain[j]
         /\ /\ IsSequence(Without(i)) /\ Len(Without(i)) = Len(chain) - 1
            /\ \A j \in 1..(Len(chain) - 1) : Without(i)[j] = IF j < i THEN chain[j] ELSE chain[j + 1]
         /\ i < Len(chain) =>
              /\ IsSequence(Swapped(i)) /\ Len(Swapped(i)) = Len(chain)
              /\ \A j \in 1..Len(chain) :
                   Swapped(i)[j] = IF j = i THEN chain[i + 1] ELSE IF j = i + 1 THEN chain[i] ELSE chain[j]
<1>1. IsSequence(chain) /\ Len(chain) \in Nat
  BY LinesHold
<1>2. /\ IsSequence(Edited(i)) /\ Len(Edited(i)) = Len(chain)
      /\ \A j \in 1..Len(chain) :
           Edited(i)[j] = IF j = i THEN [chain[i] EXCEPT !.digest = "edited"] ELSE chain[j]
  BY <1>1, ReplaceKeeps DEF Edited
<1>3. /\ IsSequence(Without(i)) /\ Len(Without(i)) = Len(chain) - 1
      /\ \A j \in 1..(Len(chain) - 1) : Without(i)[j] = IF j < i THEN chain[j] ELSE chain[j + 1]
  BY <1>1, CutKeeps DEF Without, Cut
<1>4. /\ IsSequence(Swapped(i)) /\ Len(Swapped(i)) = Len(chain)
      /\ \A j \in 1..Len(chain) :
           Swapped(i)[j] = IF j = i THEN chain[i + 1] ELSE IF j = i + 1 THEN chain[i] ELSE chain[j]
  <2> DEFINE r == Replaced(chain, i, chain[i + 1])
  <2>1. /\ IsSequence(r) /\ Len(r) = Len(chain)
        /\ \A j \in 1..Len(chain) : r[j] = IF j = i THEN chain[i + 1] ELSE chain[j]
    BY <1>1, ReplaceKeeps
  <2> HIDE DEF r
  <2>2. /\ IsSequence(Replaced(r, i + 1, chain[i])) /\ Len(Replaced(r, i + 1, chain[i])) = Len(chain)
        /\ \A j \in 1..Len(chain) : Replaced(r, i + 1, chain[i])[j] = IF j = i + 1 THEN chain[i] ELSE r[j]
    BY <2>1, ReplaceKeeps
  <2>3. Swapped(i) = Replaced(r, i + 1, chain[i])
    BY DEF Swapped, r
  <2>4. i + 1 # i
    OBVIOUS
  <2> QED BY <2>1, <2>2, <2>3, <2>4
<1> QED BY <1>2, <1>3, <1>4

LEMMA AccidentTyped ==
  ASSUME Inv, ChainTyped, NEW kind, Accident(kind), unterminated' = unterminated,
         IsSequence(chain'), \A j \in 1..Len(chain') : chain'[j] = Torn \/ Entry(chain'[j]),
         Readable => Readable'
  PROVE  ChainTyped'
<1>1. /\ kind \in scenario.kinds /\ Len(accidents) < scenario.max
      /\ accidents' = Append(accidents, kind)
      /\ UNCHANGED <<scenario, pc, planned>>
  BY DEF Accident
<1>2. accidents' \in Seq(scenario.kinds) /\ Len(accidents') = Len(accidents) + 1 /\ Len(accidents) \in Nat
  BY <1>1 DEF ChainTyped
<1>3. Len(accidents') <= scenario.max
  <2>1. scenario.max \in Nat
    BY ConfigAssumption DEF Inv, Typed
  <2> QED BY <1>1, <1>2, <2>1
<1>4. Lines(chain')
  BY LinesOf
<1>5. PlansAreEntries'
  BY <1>1 DEF ChainTyped, PlansAreEntries, Entry, IsEntry
<1> QED BY <1>1, <1>2, <1>3, <1>4, <1>5 DEF ChainTyped, Lines

LEMMA ChainAccidentsTyped ==
  ASSUME Inv, ChainTyped, Readable, ChainAccidents
  PROVE  ChainTyped'
<1>1. PICK i \in 1..Len(chain) :
        \/ /\ chain[i].digest = "whole"
           /\ ChainAccident("edit_entry", [chain EXCEPT ![i].digest = "edited"])
        \/ ChainAccident("drop_entry", Without(i))
        \/ /\ i < Len(chain)
           /\ ChainAccident("swap_entries", [chain EXCEPT ![i] = chain[i + 1], ![i + 1] = chain[i]])
        \/ /\ Accident("delete_record")
           /\ files' = [files EXCEPT ![chain[i].filename] = "absent"]
           /\ chain' = Without(i)
           /\ UNCHANGED unterminated
  BY DEF ChainAccidents
<1>2. /\ Len(chain) \in Nat /\ \A j \in 1..Len(chain) : Entry(chain[j]) /\ chain[j] # Torn
      /\ Lines(chain)
  BY LinesHold DEF ChainTyped, Readable, Entry
<1>3. ASSUME NEW kind, Accident(kind), unterminated' = unterminated, IsSequence(chain'),
             \A j \in 1..Len(chain') : Entry(chain'[j])
      PROVE  ChainTyped'
  <2>1. Readable'
    BY <1>3 DEF Readable, Entry
  <2> QED BY <1>3, <2>1, AccidentTyped
<1>4. CASE ChainAccident("edit_entry", [chain EXCEPT ![i].digest = "edited"])
  <2>1. chain' = Edited(i) /\ Accident("edit_entry") /\ unterminated' = unterminated
    BY <1>4 DEF ChainAccident, Edited, Replaced
  <2>2. Entry([chain[i] EXCEPT !.digest = "edited"])
    BY <1>2, EditedEntry
  <2>3. IsSequence(chain') /\ \A j \in 1..Len(chain') : Entry(chain'[j])
    BY <1>2, <2>1, <2>2, AccidentsByIndex
  <2> QED BY <1>3, <2>1, <2>3
<1>5. CASE \E kind : Accident(kind) /\ chain' = Without(i) /\ unterminated' = unterminated
  <2>1. /\ IsSequence(Without(i)) /\ Len(Without(i)) = Len(chain) - 1
        /\ \A j \in 1..(Len(chain) - 1) : Without(i)[j] = IF j < i THEN chain[j] ELSE chain[j + 1]
    BY <1>2, AccidentsByIndex
  <2>2. \A j \in 1..(Len(chain) - 1) : j \in 1..Len(chain) /\ j + 1 \in 1..Len(chain)
    BY <1>2
  <2>3. IsSequence(chain') /\ \A j \in 1..Len(chain') : Entry(chain'[j])
    BY <1>2, <1>5, <2>1, <2>2
  <2> QED BY <1>3, <1>5, <2>3
<1>6. CASE i < Len(chain) /\ ChainAccident("swap_entries", [chain EXCEPT ![i] = chain[i + 1], ![i + 1] = chain[i]])
  <2>1. chain' = Swapped(i) /\ Accident("swap_entries") /\ unterminated' = unterminated
    BY <1>6 DEF ChainAccident, Swapped, Replaced
  <2>2. i + 1 \in 1..Len(chain)
    BY <1>2, <1>6
  <2>3. IsSequence(chain') /\ \A j \in 1..Len(chain') : Entry(chain'[j])
    <3>1. /\ IsSequence(Swapped(i)) /\ Len(Swapped(i)) = Len(chain)
          /\ \A j \in 1..Len(chain) :
               Swapped(i)[j] = IF j = i THEN chain[i + 1] ELSE IF j = i + 1 THEN chain[i] ELSE chain[j]
      BY <1>2, <1>6, AccidentsByIndex
    <3>2. \A j \in 1..Len(chain) : Entry(Swapped(i)[j])
      BY <1>2, <2>2, <3>1
    <3> QED BY <2>1, <3>1, <3>2
  <2> QED BY <1>3, <2>1, <2>3
<1> QED BY <1>1, <1>4, <1>5, <1>6 DEF ChainAccident

LEMMA AccidentsTyped ==
  ASSUME Inv, ChainTyped, FileAccidents \/ (Readable /\ ChainAccidents) \/ Rebuild
  PROVE  ChainTyped'
<1>1. CASE FileAccidents
  <2>1. PICK kind : Accident(kind) /\ chain' = chain /\ unterminated' = unterminated
    BY <1>1 DEF FileAccidents, FileAccident
  <2>2. IsSequence(chain') /\ \A j \in 1..Len(chain') : chain'[j] = Torn \/ Entry(chain'[j])
    BY <2>1, LinesHold DEF ChainTyped
  <2>3. Readable => Readable'
    BY <2>1 DEF Readable
  <2> QED BY <2>1, <2>2, <2>3, AccidentTyped
<1>2. CASE Readable /\ ChainAccidents
  BY <1>2, ChainAccidentsTyped
<1>3. CASE Rebuild
  <2>1. Cardinality(Names) \in Nat
    BY ConfigAssumption, FS_AddElement, FS_CardinalityType DEF Names
  <2>2. PICK n \in 1..Cardinality(Names) :
          \E order \in [1..n -> {f \in Names : files[f] # "absent"}] :
            ChainAccident("rebuild", Rebuilt(order))
    BY <1>3 DEF Rebuild
  <2> PICK order \in [1..n -> {f \in Names : files[f] # "absent"}] :
        ChainAccident("rebuild", Rebuilt(order))
    BY <2>2
  <2>3. n \in Nat
    BY <2>1
  <2>4. chain' = Rebuilt(order) /\ Accident("rebuild") /\ unterminated' = unterminated
    BY DEF ChainAccident
  <2>5. Whole(chain')
    BY <2>3, <2>4, RebuiltIsWhole DEF Inv, Typed
  <2>6. IsSequence(chain') /\ \A j \in 1..Len(chain') : Entry(chain'[j])
    BY <2>5 DEF Whole, IsSequence
  <2>7. Readable'
    BY <2>6 DEF Readable, Entry
  <2> QED BY <2>4, <2>6, <2>7, AccidentTyped
<1> QED BY <1>1, <1>2, <1>3

LEMMA ChainTypedStep == Inv /\ ChainTyped /\ [Next]_vars => ChainTyped'
<1> SUFFICES ASSUME Inv, ChainTyped, [Next]_vars PROVE ChainTyped'
  OBVIOUS
<1>1. CASE \E s \in Savers : SaverStep(s)
  BY <1>1, SaversTyped
<1>2. CASE FileAccidents \/ (Readable /\ ChainAccidents) \/ Rebuild
  BY <1>2, AccidentsTyped
<1>3. CASE Anchor \/ UNCHANGED vars
  <2>1. UNCHANGED <<scenario, chain, unterminated, pc, planned, accidents>>
    BY <1>3 DEF Anchor, vars
  <2>2. PlansAreEntries'
    BY <2>1 DEF ChainTyped, PlansAreEntries, Entry, IsEntry
  <2> QED BY <2>1, <2>2, ChainTypedKept
<1> QED BY <1>1, <1>2, <1>3 DEF Next

LEMMA ChainTypedAlways == Spec => [](Inv /\ ChainTyped)
BY InitInv, StepInv, ChainTypedInit, ChainTypedStep, PTL DEF Spec

(* A save costs nobody a snapshot or a record, and whatever is done to a   *)
(* history by hand, its lines stay torn or well-formed                     *)
(* (snapshots/history.py, save; snapshots/chain.py, read_chain).           *)
THEOREM ChainSavesAreRecorded == Spec => []SavesAreRecorded
<1>1. Inv /\ ChainTyped => TypeOK
  <2> SUFFICES ASSUME Inv, ChainTyped PROVE TypeOK
    OBVIOUS
  <2>1. \A i \in 1..Len(chain) : chain[i] = Torn \/ IsEntry(chain[i])
    BY LinesHold DEF ChainTyped, Entry
  <2>2. \A s \in Savers : planned[s] = NoEntry \/ IsEntry(planned[s])
    BY DEF ChainTyped, PlansAreEntries, Entry
  <2> QED BY <2>1, <2>2 DEF TypeOK, Inv, Typed, ChainTyped
<1> QED BY <1>1, ChainTypedAlways, ChainSavesAreKept, ChainRecordsMatchFiles, PTL DEF SavesAreRecorded

-----------------------------------------------------------------------------
(* One accident is reported ever after: it leaves an entry or a file that  *)
(* verification reports and that no save repairs, because a save appends   *)
(* and writes under its own name only.                                     *)

Over == {"done", "crashed"}

ScarAt(i) ==
  \/ chain[i].seq # i
  \/ chain[i].digest_of_entry # entry_digest(chain[i].seq, chain[i].filename, chain[i].digest, chain[i].prev)
  \/ files[chain[i].filename] # chain[i].digest

Orphan(f) == files[f] # "absent" /\ f \notin Recorded /\ (f = Stray \/ pc[f] \in Over)

Scarred == (\E i \in 1..Len(chain) : ScarAt(i)) \/ (\E f \in Names : Orphan(f))

Ended == \A i \in 1..Len(chain) : chain[i].filename \in Savers /\ pc[chain[i].filename] \in Over

(* However savers overlap, an entry's number is at most its place.         *)
Numbered ==
  /\ \A i \in 1..Len(chain) : chain[i].seq <= i
  /\ \A i, j \in 1..Len(chain) : chain[i].filename = chain[j].filename => i = j
  /\ \A s \in Savers : pc[s] = "appending" => planned[s].seq <= Len(chain) + 1

Detectable == Len(accidents) = 1 /\ accidents[1] \notin {"delete_record", "rebuild"}

TamperInv ==
  ~scenario.tears => (Untouched => Numbered) /\ (Detectable => Ended /\ Scarred)

LEMMA UntouchedChain ==
  ASSUME Inv, ChainTyped, ~scenario.tears, Untouched
  PROVE  /\ Ended
         /\ \A i \in 1..Len(chain) : TrueEntry(chain[i]) /\ files[chain[i].filename] = "whole"
<1>1. \A i \in 1..Len(chain) : chain[i] # Torn
  BY DEF ChainTyped, Readable
<1> QED BY <1>1 DEF Inv, Kept, LinesAreTrue, TrueEntry, Ended, Over

LEMMA TamperInit == Init => TamperInv
<1> SUFFICES ASSUME Init PROVE TamperInv
  OBVIOUS
<1>1. Len(chain) = 0 /\ Len(accidents) = 0 /\ \A s \in Savers : pc[s] # "appending"
  BY DEF Init
<1> QED BY <1>1 DEF TamperInv, Numbered, Detectable

(* A step of a saver that does not write to the chain.                     *)
LEMMA TamperQuietStep ==
  ASSUME Inv, ChainTyped, TamperInv, NEW s \in Savers, NEW step, NEW content,
         UNCHANGED <<scenario, chain, accidents>>,
         pc[s] \notin Over, pc' = [pc EXCEPT ![s] = step], files' = [files EXCEPT ![s] = content],
         Untouched => \A t \in Savers :
           pc'[t] = "appending" => (pc[t] = "appending" /\ planned'[t] = planned[t]) \/ planned'[t].seq = Len(chain) + 1
  PROVE  TamperInv'
<1>1. /\ \A t \in Savers : t # s => pc'[t] = pc[t]
      /\ \A f \in Names : f # s => files'[f] = files[f]
  BY DEF Inv, Typed
<1>2. Len(chain) \in Nat
  BY LinesHold DEF ChainTyped
<1>3. ASSUME ~scenario.tears, Untouched PROVE Numbered'
  <2>1. Numbered
    BY <1>3 DEF TamperInv
  <2>2. \A t \in Savers : pc'[t] = "appending" => planned'[t].seq <= Len(chain) + 1
    BY <1>2, <1>3, <2>1 DEF Numbered
  <2> QED BY <2>1, <2>2 DEF Numbered
<1>4. ASSUME ~scenario.tears, Detectable PROVE Ended' /\ Scarred'
  <2>1. Ended /\ Scarred
    BY <1>4 DEF TamperInv
  <2>2. \A i \in 1..Len(chain) : chain[i].filename \in Savers /\ chain[i].filename # s
    BY <2>1 DEF Ended
  <2>3. Ended'
    BY <1>1, <2>1, <2>2 DEF Ended
  <2>4. ASSUME NEW i \in 1..Len(chain), ScarAt(i) PROVE ScarAt(i)'
    <3>1. files'[chain[i].filename] = files[chain[i].filename]
      BY <1>1, <2>2 DEF Names
    <3> QED BY <2>4, <3>1 DEF ScarAt, entry_digest
  <2>5. ASSUME NEW f \in Names, Orphan(f) PROVE Orphan(f)'
    <3>1. f # s
      BY <2>5, ConfigAssumption DEF Orphan
    <3>2. files'[f] = files[f] /\ (f # Stray => pc'[f] = pc[f])
      BY <1>1, <3>1 DEF Names
    <3> QED BY <2>5, <3>2 DEF Orphan, Recorded
  <2> QED BY <2>1, <2>3, <2>4, <2>5 DEF Scarred
<1> QED BY <1>3, <1>4 DEF TamperInv, Untouched, Detectable

(* A save appends its entry.                                               *)
LEMMA TamperAppend ==
  ASSUME Inv, ChainTyped, TamperInv, NEW s \in Savers, AppendLine(s)
  PROVE  TamperInv'
<1>1. /\ UNCHANGED <<scenario, files, planned, accidents>>
      /\ pc[s] = "appending" /\ pc' = [pc EXCEPT ![s] = "done"]
      /\ Extend(planned[s])
  BY DEF AppendLine, Goto
<1>2. pc'[s] = "done" /\ \A t \in Savers : t # s => pc'[t] = pc[t]
  BY <1>1 DEF Inv, Typed
<1>3. Entry(planned[s]) /\ planned[s].filename = s
  BY <1>1 DEF ChainTyped, PlansAreEntries
<1>4. SUFFICES ASSUME ~scenario.tears
               PROVE  (Untouched => Numbered') /\ (Detectable => Ended' /\ Scarred')
  BY <1>1 DEF TamperInv, Untouched, Detectable
<1>5. /\ Len(chain) \in Nat /\ Len(chain') = Len(chain) + 1 /\ chain'[Len(chain) + 1] = planned[s]
      /\ \A i \in 1..Len(chain) : chain'[i] = chain[i]
  <2>1. ~unterminated /\ IsSequence(chain)
    BY <1>4, LinesHold DEF ChainTyped
  <2> QED BY <1>1, <2>1, ExtendedChain
<1>6. \A i \in 1..Len(chain') : i \in 1..Len(chain) \/ i = Len(chain) + 1
  BY <1>5
<1>7. ASSUME Untouched PROVE Numbered'
  <2>1. Numbered /\ Ended
    BY <1>4, <1>7, UntouchedChain DEF TamperInv
  <2>2. \A i \in 1..Len(chain) : chain[i].filename # s
    BY <1>1, <2>1 DEF Ended, Over
  <2>3. \A i \in 1..Len(chain') : chain'[i].seq <= i
    <3>1. planned[s].seq <= Len(chain) + 1
      BY <1>1, <2>1 DEF Numbered
    <3> QED BY <1>5, <1>6, <2>1, <3>1 DEF Numbered
  <2>4. \A i, j \in 1..Len(chain') : chain'[i].filename = chain'[j].filename => i = j
    BY <1>3, <1>5, <1>6, <2>1, <2>2 DEF Numbered
  <2>5. ASSUME NEW t \in Savers, pc'[t] = "appending" PROVE planned'[t].seq <= Len(chain') + 1
    <3>1. pc[t] = "appending"
      BY <1>2, <2>5
    <3>2. planned[t].seq \in Nat /\ planned[t].seq <= Len(chain) + 1
      BY <2>1, <3>1 DEF Numbered, ChainTyped, PlansAreEntries, Entry, IsEntry
    <3> QED BY <1>1, <1>5, <3>2
  <2> QED BY <2>3, <2>4, <2>5 DEF Numbered
<1>8. ASSUME Detectable PROVE Ended' /\ Scarred'
  <2>1. Ended /\ Scarred
    BY <1>4, <1>8 DEF TamperInv
  <2>2. Ended'
    <3> SUFFICES ASSUME NEW i \in 1..Len(chain')
                 PROVE  chain'[i].filename \in Savers /\ pc'[chain'[i].filename] \in Over
      BY DEF Ended, Over
    <3>1. CASE i \in 1..Len(chain)
      BY <1>1, <1>2, <1>5, <2>1, <3>1 DEF Ended, Over
    <3>2. CASE i = Len(chain) + 1
      BY <1>2, <1>3, <1>5, <3>2 DEF Over
    <3> QED BY <1>6, <3>1, <3>2
  <2>3. ASSUME NEW i \in 1..Len(chain), ScarAt(i) PROVE i \in 1..Len(chain') /\ ScarAt(i)'
    BY <1>1, <1>5, <2>3 DEF ScarAt, entry_digest
  <2>4. ASSUME NEW f \in Names, Orphan(f) PROVE Orphan(f)'
    <3>1. f # s
      BY <1>1, <2>4, ConfigAssumption DEF Orphan, Over
    <3>2. f \notin Recorded'
      <4> SUFFICES ASSUME NEW i \in 1..Len(chain'), chain'[i] # Torn, chain'[i].filename = f PROVE FALSE
        BY DEF Recorded
      <4>1. i \in 1..Len(chain) /\ chain[i] = chain'[i]
        BY <1>3, <1>5, <1>6, <3>1
      <4> QED BY <2>4, <4>1 DEF Orphan, Recorded
    <3>3. f # Stray => pc'[f] = pc[f]
      BY <1>2, <3>1 DEF Names
    <3> QED BY <1>1, <2>4, <3>2, <3>3 DEF Orphan, Over
  <2> QED BY <2>1, <2>2, <2>3, <2>4 DEF Scarred
<1> QED BY <1>7, <1>8

LEMMA TamperSavers ==
  ASSUME Inv, ChainTyped, TamperInv, NEW s \in Savers, SaverStep(s)
  PROVE  TamperInv'
<1>1. files' = [files EXCEPT ![s] = files[s]] \/ files' # files
  BY DEF Inv, Typed
<1>2. ASSUME NEW step \in Steps \ {"appending"}, Goto(s, step), pc[s] \notin Over,
             UNCHANGED <<scenario, chain, accidents, planned>>,
             \E content : files' = [files EXCEPT ![s] = content]
      PROVE  TamperInv'
  <2>1. \A t \in Savers : pc'[t] = "appending" => pc[t] = "appending" /\ planned'[t] = planned[t]
    BY <1>2 DEF Goto, Inv, Typed
  <2>2. PICK content : files' = [files EXCEPT ![s] = content]
    BY <1>2
  <2> QED BY <1>2, <2>1, <2>2, TamperQuietStep DEF Goto
<1>3. CASE CreateFile(s)
  BY <1>2, <1>3 DEF CreateFile, Steps, Over
<1>4. CASE WriteFile(s)
  BY <1>2, <1>4 DEF WriteFile, Steps, Over
<1>5. CASE GiveUpChaining(s)
  BY <1>1, <1>2, <1>5 DEF GiveUpChaining, Steps, Over
<1>6. CASE Crash(s)
  BY <1>1, <1>2, <1>6 DEF Crash, Steps, Over, Active
<1>7. CASE PlanEntry(s)
  <2> DEFINE e == ChainEntry(Len(chain) + 1, s, files[s], head_digest(chain))
  <2>1. /\ planned' = [planned EXCEPT ![s] = e] /\ pc' = [pc EXCEPT ![s] = "appending"]
        /\ pc[s] = "chaining" /\ UNCHANGED <<scenario, files, chain, accidents>>
    BY <1>7 DEF PlanEntry, Goto
  <2>2. e.seq = Len(chain) + 1
    BY EntriesAreNotTorn
  <2> HIDE DEF e
  <2>3. planned'[s].seq = Len(chain) + 1
    BY <2>1, <2>2 DEF Inv, Typed
  <2>4. \A t \in Savers : t # s => planned'[t] = planned[t] /\ pc'[t] = pc[t]
    BY <2>1 DEF Inv, Typed
  <2>5. pc[s] \notin Over /\ files' = [files EXCEPT ![s] = files[s]]
    BY <1>1, <2>1 DEF Over
  <2> QED BY <2>1, <2>3, <2>4, <2>5, TamperQuietStep
<1>8. CASE AppendLine(s)
  BY <1>8, TamperAppend
<1>9. CASE TearLine(s)
  BY <1>9 DEF TearLine, TamperInv
<1> QED BY <1>3, <1>4, <1>5, <1>6, <1>7, <1>8, <1>9 DEF SaverStep

LEMMA FileScars ==
  ASSUME Inv, ChainTyped, ~scenario.tears, Untouched, FileAccidents
  PROVE  Ended' /\ Scarred'
<1>1. UNCHANGED <<chain, pc>>
  BY DEF FileAccidents, FileAccident, Accident
<1>2. /\ Ended /\ \A i \in 1..Len(chain) : TrueEntry(chain[i]) /\ files[chain[i].filename] = "whole"
      /\ \A i \in 1..Len(chain) : chain[i] # Torn
  BY UntouchedChain DEF ChainTyped, Readable
<1>3. Ended'
  BY <1>1, <1>2 DEF Ended
<1>4. ASSUME NEW f \in Recorded, NEW content, content # "whole", files' = [files EXCEPT ![f] = content]
      PROVE  Scarred'
  <2>1. PICK i \in 1..Len(chain) : chain[i].filename = f
    BY DEF Recorded
  <2>2. f \in Names /\ chain[i].digest = "whole"
    BY <1>2, <2>1 DEF TrueEntry, Names
  <2>3. files'[chain'[i].filename] # chain'[i].digest
    BY <1>1, <1>4, <2>1, <2>2 DEF Inv, Typed
  <2> QED BY <1>1, <2>3 DEF Scarred, ScarAt
<1>5. CASE files' = [files EXCEPT ![Stray] = "whole"]
  <2>1. Stray \notin Recorded
    BY <1>2, ConfigAssumption DEF Recorded, TrueEntry
  <2>2. files'[Stray] # "absent"
    BY <1>5 DEF Inv, Typed, Names
  <2>3. Orphan(Stray)'
    BY <1>1, <2>1, <2>2 DEF Orphan, Recorded
  <2>4. (\E f \in Names : Orphan(f))'
    BY <2>3 DEF Names, Orphan, Recorded, Over
  <2> QED BY <1>3, <2>4 DEF Scarred
<1>6. \/ \E f \in Recorded : \E content : content # "whole" /\ files' = [files EXCEPT ![f] = content]
      \/ files' = [files EXCEPT ![Stray] = "whole"]
  BY DEF FileAccidents, FileAccident
<1> QED BY <1>3, <1>4, <1>5, <1>6

LEMMA ChainScars ==
  ASSUME Inv, ChainTyped, TamperInv, ~scenario.tears, Untouched, ChainAccidents,
         accidents'[1] # "delete_record"
  PROVE  Ended' /\ Scarred'
<1>1. PICK i \in 1..Len(chain) :
        \/ /\ chain[i].digest = "whole"
           /\ ChainAccident("edit_entry", [chain EXCEPT ![i].digest = "edited"])
        \/ ChainAccident("drop_entry", Without(i))
        \/ /\ i < Len(chain)
           /\ ChainAccident("swap_entries", [chain EXCEPT ![i] = chain[i + 1], ![i + 1] = chain[i]])
        \/ /\ Accident("delete_record")
           /\ files' = [files EXCEPT ![chain[i].filename] = "absent"]
           /\ chain' = Without(i)
           /\ UNCHANGED unterminated
  BY DEF ChainAccidents
<1>2. ~Accident("delete_record")
  BY DEF Accident, Untouched
<1>3. /\ Readable /\ Lines(chain) /\ Len(chain) \in Nat
      /\ \A j \in 1..Len(chain) : Entry(chain[j]) /\ chain[j] # Torn
  BY LinesHold DEF ChainTyped, Readable
<1>4. /\ Ended /\ Numbered
      /\ \A j \in 1..Len(chain) : TrueEntry(chain[j]) /\ files[chain[j].filename] = "whole"
  BY UntouchedChain DEF TamperInv
<1>5. CASE ChainAccident("edit_entry", [chain EXCEPT ![i].digest = "edited"])
  <2>1. chain' = Edited(i) /\ pc' = pc
    BY <1>5 DEF ChainAccident, Accident, Edited, Replaced
  <2> DEFINE d == [chain[i] EXCEPT !.digest = "edited"]
  <2>2. /\ d.digest = "edited" /\ d.seq = chain[i].seq /\ d.filename = chain[i].filename
        /\ d.prev = chain[i].prev /\ d.digest_of_entry = chain[i].digest_of_entry
    BY <1>3, EditedEntry
  <2>3. Len(Edited(i)) = Len(chain) /\ \A j \in 1..Len(chain) : Edited(i)[j] = IF j = i THEN d ELSE chain[j]
    BY <1>3, AccidentsByIndex
  <2> HIDE DEF d
  <2>4. Ended'
    BY <1>4, <2>1, <2>2, <2>3 DEF Ended
  <2>5. d.digest_of_entry # entry_digest(d.seq, d.filename, d.digest, d.prev)
    <3>1. d.digest_of_entry = entry_digest(chain[i].seq, chain[i].filename, "whole", chain[i].prev)
      BY <1>4, <2>2 DEF TrueEntry
    <3>2. entry_digest(d.seq, d.filename, d.digest, d.prev).sha256.digest = "edited"
      BY <2>2 DEF entry_digest
    <3>3. entry_digest(chain[i].seq, chain[i].filename, "whole", chain[i].prev).sha256.digest = "whole"
      BY DEF entry_digest
    <3> QED BY <3>1, <3>2, <3>3
  <2>6. i \in 1..Len(chain') /\ chain'[i] = d
    BY <2>1, <2>3
  <2>7. ScarAt(i)'
    BY <2>5, <2>6 DEF ScarAt, entry_digest
  <2> QED BY <2>4, <2>6, <2>7 DEF Scarred
<1>6. CASE ChainAccident("drop_entry", Without(i))
  <2>1. chain' = Without(i) /\ pc' = pc /\ files' = files
    BY <1>6 DEF ChainAccident, Accident
  <2>2. /\ Len(Without(i)) = Len(chain) - 1
        /\ \A j \in 1..(Len(chain) - 1) : Without(i)[j] = IF j < i THEN chain[j] ELSE chain[j + 1]
    BY <1>3, AccidentsByIndex
  <2>3. ASSUME NEW j \in 1..Len(chain') PROVE \E k \in 1..Len(chain) : k # i /\ chain'[j] = chain[k]
    <3>1. j \in 1..(Len(chain) - 1)
      BY <2>1, <2>2
    <3>2. CASE j < i
      BY <1>3, <2>1, <2>2, <3>1, <3>2
    <3>3. CASE ~(j < i)
      <4>1. j + 1 \in 1..Len(chain) /\ j + 1 # i
        BY <1>3, <3>1, <3>3
      <4> QED BY <2>1, <2>2, <3>1, <3>3, <4>1
    <3> QED BY <3>2, <3>3
  <2>4. Ended'
    BY <1>4, <2>1, <2>3 DEF Ended
  <2> PICK f \in Savers : f = chain[i].filename
    BY <1>4 DEF Ended
  <2>5. f \in Savers /\ pc[f] \in Over /\ files[f] = "whole"
    BY <1>4 DEF Ended
  <2>6. f \notin Recorded'
    <3> SUFFICES ASSUME NEW j \in 1..Len(chain'), chain'[j].filename = f PROVE FALSE
      BY DEF Recorded
    <3>1. PICK k \in 1..Len(chain) : k # i /\ chain'[j] = chain[k]
      BY <2>3
    <3> QED BY <1>4, <3>1 DEF Numbered
  <2>7. (\E g \in Names : Orphan(g))'
    BY <2>1, <2>5, <2>6 DEF Orphan, Names, Over
  <2> QED BY <2>4, <2>7 DEF Scarred
<1>7. CASE i < Len(chain) /\ ChainAccident("swap_entries", [chain EXCEPT ![i] = chain[i + 1], ![i + 1] = chain[i]])
  <2>1. chain' = Swapped(i) /\ pc' = pc
    BY <1>7 DEF ChainAccident, Accident, Swapped, Replaced
  <2>2. /\ Len(Swapped(i)) = Len(chain)
        /\ \A j \in 1..Len(chain) :
             Swapped(i)[j] = IF j = i THEN chain[i + 1] ELSE IF j = i + 1 THEN chain[i] ELSE chain[j]
    BY <1>3, <1>7, AccidentsByIndex
  <2>3. i + 1 \in 1..Len(chain) /\ i + 1 # i
    BY <1>3, <1>7
  <2>4. \A j \in 1..Len(chain) : \E k \in 1..Len(chain) : chain'[j] = chain[k]
    BY <2>1, <2>2, <2>3
  <2>5. Ended'
    BY <1>4, <2>1, <2>2, <2>4 DEF Ended
  <2>6. chain'[i + 1] = chain[i] /\ i + 1 \in 1..Len(chain')
    BY <2>1, <2>2, <2>3
  <2>7. chain[i].seq # i + 1
    <3>1. chain[i].seq <= i /\ chain[i].seq \in Nat
      BY <1>3, <1>4 DEF Numbered, Entry, IsEntry
    <3> QED BY <3>1
  <2>8. ScarAt(i + 1)'
    BY <2>6, <2>7 DEF ScarAt
  <2> QED BY <2>5, <2>6, <2>8 DEF Scarred
<1> QED BY <1>1, <1>2, <1>5, <1>6, <1>7

LEMMA TamperAccidents ==
  ASSUME Inv, ChainTyped, TamperInv, FileAccidents \/ (Readable /\ ChainAccidents) \/ Rebuild
  PROVE  TamperInv'
<1>1. PICK kind : Accident(kind) /\ (Rebuild => kind = "rebuild")
  BY DEF FileAccidents, ChainAccidents, Rebuild, FileAccident, ChainAccident
<1>2. scenario' = scenario /\ accidents' = Append(accidents, kind)
  BY <1>1 DEF Accident
<1>3. /\ Len(accidents) \in Nat /\ Len(accidents') = Len(accidents) + 1
      /\ accidents'[Len(accidents) + 1] = kind /\ accidents' # <<>>
  BY <1>2, AppendExtends DEF Inv, Typed
<1>4. ~Untouched'
  BY <1>3 DEF Untouched
<1>5. SUFFICES ASSUME ~scenario.tears, Detectable' PROVE Ended' /\ Scarred'
  BY <1>2, <1>4 DEF TamperInv
<1>6. Len(accidents) = 0 /\ Untouched
  <2>1. Len(accidents') = 1
    BY <1>5 DEF Detectable
  <2>2. Len(accidents) = 0
    <3>1. Len(accidents) + 1 = 1
      BY <1>3, <2>1, Zenon
    <3> QED BY <1>3, <3>1
  <2> QED BY <2>2, EmptyHasLengthZero DEF Inv, Typed, Untouched
<1>7. accidents'[1] = kind /\ kind \notin {"delete_record", "rebuild"}
  <2>1. accidents'[1] \notin {"delete_record", "rebuild"}
    BY <1>5 DEF Detectable
  <2> QED BY <1>3, <1>6, <2>1
<1>8. ~Rebuild
  BY <1>1, <1>7
<1> QED BY <1>5, <1>6, <1>7, <1>8, FileScars, ChainScars

LEMMA TamperStep == Inv /\ ChainTyped /\ TamperInv /\ [Next]_vars => TamperInv'
<1> SUFFICES ASSUME Inv, ChainTyped, TamperInv, [Next]_vars PROVE TamperInv'
  OBVIOUS
<1>1. CASE \E s \in Savers : SaverStep(s)
  BY <1>1, TamperSavers
<1>2. CASE FileAccidents \/ (Readable /\ ChainAccidents) \/ Rebuild
  BY <1>2, TamperAccidents
<1>3. CASE Anchor \/ UNCHANGED vars
  <2>1. UNCHANGED <<scenario, files, chain, unterminated, pc, planned, accidents>>
    BY <1>3 DEF Anchor, vars
  <2> QED BY <2>1 DEF TamperInv, Untouched, Numbered, Detectable, Ended, Scarred, ScarAt, Orphan, Recorded
<1> QED BY <1>1, <1>2, <1>3 DEF Next

(* What is left is reported.                                               *)
LEMMA ScarsShow == ASSUME Scarred, ChainTyped PROVE ~VerifiesOk
<1> SUFFICES ASSUME Readable PROVE verify_chain # {}
  BY DEF VerifiesOk
<1>1. ASSUME NEW i \in 1..Len(chain), ScarAt(i) PROVE verify_chain # {}
  <2>1. EntryProblems(i) # {}
    <3>1. CASE chain[i].seq # i
      <4>1. "sequence-gap" \in EntryProblems(i)
        BY <3>1 DEF EntryProblems
      <4> QED BY <4>1
    <3>2. CASE chain[i].digest_of_entry # entry_digest(chain[i].seq, chain[i].filename, chain[i].digest, chain[i].prev)
      <4>1. "entry-altered" \in EntryProblems(i)
        BY <3>2 DEF EntryProblems
      <4> QED BY <4>1
    <3>3. CASE files[chain[i].filename] # chain[i].digest
      <4>1. "missing-snapshot" \in EntryProblems(i) \/ "snapshot-altered" \in EntryProblems(i)
        BY <3>3 DEF EntryProblems
      <4> QED BY <4>1
    <3> QED BY <1>1, <3>1, <3>2, <3>3 DEF ScarAt
  <2> QED BY <2>1 DEF verify_chain
<1>2. ASSUME NEW f \in Names, Orphan(f) PROVE verify_chain # {}
  <2>1. f \in Unchained
    BY <1>2 DEF Orphan, Unchained
  <2> QED BY <2>1 DEF verify_chain
<1> QED BY <1>1, <1>2 DEF Scarred

-----------------------------------------------------------------------------
(* The anchor.                                                             *)

(* A chain whose every entry is linked and whole.                          *)
Sealed(seq) ==
  /\ Lines(seq)
  /\ \A i \in 1..Len(seq) :
       /\ Entry(seq[i]) /\ seq[i].seq = i
       /\ seq[i].digest_of_entry = entry_digest(i, seq[i].filename, seq[i].digest, seq[i].prev)
       /\ i # 1 => seq[i].prev = seq[i - 1].digest_of_entry

AnchorInv == anchored = NoAnchor \/ (Sealed(anchored) /\ anchored # <<>>)

LEMMA VerifiedIsSealed == ASSUME ChainTyped, VerifiesOk PROVE Sealed(chain)
<1>1. /\ Lines(chain) /\ \A i \in 1..Len(chain) : Entry(chain[i])
  BY LinesHold DEF ChainTyped, VerifiesOk, Readable
<1>2. ASSUME NEW i \in 1..Len(chain) PROVE EntryProblems(i) = {}
  BY DEF VerifiesOk, verify_chain
<1>3. ASSUME NEW i \in 1..Len(chain)
      PROVE  /\ chain[i].seq = i /\ chain[i].prev = ExpectedPrev(i)
             /\ chain[i].digest_of_entry = entry_digest(chain[i].seq, chain[i].filename, chain[i].digest, chain[i].prev)
  <2>1. "sequence-gap" \notin EntryProblems(i) /\ "broken-link" \notin EntryProblems(i) /\ "entry-altered" \notin EntryProblems(i)
    BY <1>2
  <2> QED BY <2>1 DEF EntryProblems
<1> QED BY <1>1, <1>3 DEF Sealed, ExpectedPrev

LEMMA DigestsDetermine ==
  ASSUME NEW s, NEW f, NEW d, NEW p, NEW t, NEW g, NEW e, NEW q,
         entry_digest(s, f, d, p) = entry_digest(t, g, e, q)
  PROVE  s = t /\ f = g /\ d = e /\ p = q
<1> DEFINE x == entry_digest(s, f, d, p)
           y == entry_digest(t, g, e, q)
<1>1. /\ x.sha256.seq = s /\ x.sha256.filename = f /\ x.sha256.digest = d /\ x.sha256.prev = p
      /\ y.sha256.seq = t /\ y.sha256.filename = g /\ y.sha256.digest = e /\ y.sha256.prev = q
  BY DEF entry_digest
<1> HIDE DEF x, y
<1>2. x = y
  BY DEF x, y
<1> QED BY <1>1, <1>2

(* A head fixes the chain that leads to it, back to the first entry.       *)
LEMMA HeadsDetermine ==
  ASSUME NEW c, Sealed(c), NEW a, Sealed(a), a # <<>>, NEW i \in 1..Len(c),
         c[i].digest_of_entry = a[Len(a)].digest_of_entry
  PROVE  SubSeq(c, 1, i) = a
<1>1. /\ IsSequence(c) /\ IsSequence(a) /\ Len(c) \in Nat /\ Len(a) \in Nat /\ Len(a) # 0
  BY LinesHold, EmptyHasLengthZero DEF Sealed
<1>2. ASSUME NEW j \in 1..Len(c), NEW k \in 1..Len(a), c[j].digest_of_entry = a[k].digest_of_entry
      PROVE  /\ j = k /\ c[j] = a[k]
             /\ j # 1 => c[j - 1].digest_of_entry = a[k - 1].digest_of_entry
  <2>1. /\ Entry(c[j]) /\ c[j].seq = j
        /\ c[j].digest_of_entry = entry_digest(j, c[j].filename, c[j].digest, c[j].prev)
        /\ j # 1 => c[j].prev = c[j - 1].digest_of_entry
    BY DEF Sealed
  <2>2. /\ Entry(a[k]) /\ a[k].seq = k
        /\ a[k].digest_of_entry = entry_digest(k, a[k].filename, a[k].digest, a[k].prev)
        /\ k # 1 => a[k].prev = a[k - 1].digest_of_entry
    BY DEF Sealed
  <2>3. j = k /\ c[j].filename = a[k].filename /\ c[j].digest = a[k].digest /\ c[j].prev = a[k].prev
    <3>1. entry_digest(j, c[j].filename, c[j].digest, c[j].prev)
            = entry_digest(k, a[k].filename, a[k].digest, a[k].prev)
      BY <1>2, <2>1, <2>2
    <3> QED BY <3>1, DigestsDetermine
  <2>4. c[j] = a[k]
    BY <1>2, <2>1, <2>2, <2>3 DEF Entry
  <2> QED BY <2>1, <2>2, <2>3, <2>4
<1> DEFINE m == Len(a)
<1>3. m \in 1..m /\ m \in Nat
  BY <1>1
<1>4. i = m
  BY <1>2, <1>3
<1> DEFINE E == {k \in Nat : k < m => c[m - k].digest_of_entry = a[m - k].digest_of_entry}
<1>5. 0 \in E
  <2>1. m - 0 = m
    BY <1>3
  <2>2. c[m].digest_of_entry = a[m].digest_of_entry
    BY <1>4
  <2> HIDE DEF m
  <2> QED BY <2>1, <2>2
<1>6. ASSUME NEW k \in Nat, k \in E PROVE k + 1 \in E
  <2> SUFFICES ASSUME k + 1 < m PROVE c[m - (k + 1)].digest_of_entry = a[m - (k + 1)].digest_of_entry
    OBVIOUS
  <2>1. /\ m - k \in 1..m /\ m - k \in 1..Len(c) /\ m - k # 1 /\ (m - k) - 1 = m - (k + 1) /\ k < m
    BY <1>1, <1>3, <1>4
  <2>2. c[m - k].digest_of_entry = a[m - k].digest_of_entry
    BY <1>6, <2>1
  <2>3. c[(m - k) - 1].digest_of_entry = a[(m - k) - 1].digest_of_entry
    BY <1>2, <2>1, <2>2
  <2> HIDE DEF m
  <2> QED BY <2>1, <2>3
<1>7. Nat \subseteq E
  <2> HIDE DEF E
  <2> QED BY <1>5, <1>6, Induction
<1>8. ASSUME NEW j \in 1..m PROVE c[j] = a[j]
  <2>1. m - j \in Nat /\ m - j < m /\ m - (m - j) = j /\ j \in 1..Len(c)
    BY <1>1, <1>3, <1>4
  <2>2. c[m - (m - j)].digest_of_entry = a[m - (m - j)].digest_of_entry
    BY <1>7, <2>1
  <2> QED BY <1>2, <2>1, <2>2
<1>9. PICK S : a \in Seq(S)
  BY <1>1 DEF IsSequence
<1>10. /\ SubSeq(c, 1, m) \in Seq(S) /\ Len(SubSeq(c, 1, m)) = m
       /\ \A j \in 1..m : SubSeq(c, 1, m)[j] = a[j]
  <2>1. \A j \in 1..m : c[j] \in S
    BY <1>8, <1>9
  <2>2. /\ SubSeq(c, 1, m) \in Seq(S)
        /\ Len(SubSeq(c, 1, m)) = IF 1 <= m THEN m - 1 + 1 ELSE 0
        /\ \A j \in 1..(m - 1 + 1) : SubSeq(c, 1, m)[j] = c[1 + j - 1]
    BY <1>3, <2>1, SubSeqProperties
  <2>3. 1 <= m /\ m - 1 + 1 = m /\ \A j \in 1..m : 1 + j - 1 = j
    BY <1>3
  <2> QED BY <1>8, <2>2, <2>3
<1> QED BY <1>4, <1>9, <1>10, SeqEqual

LEMMA AnchorStep == ChainTyped /\ AnchorInv /\ [Next]_vars => AnchorInv'
<1> SUFFICES ASSUME ChainTyped, AnchorInv, [Next]_vars PROVE AnchorInv'
  OBVIOUS
<1>1. CASE Anchor
  <2>1. anchored' = chain /\ chain # <<>> /\ Sealed(chain)
    BY <1>1, VerifiedIsSealed DEF Anchor
  <2> QED BY <2>1 DEF AnchorInv, Sealed, Lines, Entry, IsEntry, entry_digest
<1>2. CASE anchored' = anchored
  BY <1>2 DEF AnchorInv, Sealed, Lines, Entry, IsEntry, entry_digest
<1>3. Anchor \/ anchored' = anchored
  BY DEF Next, vars, SaverStep, CreateFile, WriteFile, PlanEntry, GiveUpChaining, AppendLine, TearLine, Crash,
         FileAccidents, ChainAccidents, Rebuild, FileAccident, ChainAccident, Accident
<1> QED BY <1>1, <1>2, <1>3

(* Where no line is torn, whatever savers do and however they overlap: one *)
(* edit, deletion, insertion or reordering is reported from then on; and   *)
(* an anchored head fixes all of the history up to it, whatever was done   *)
(* to the directory since (snapshots/chain.py, verify_chain).              *)
THEOREM ChainTamperIsEvident == Spec => []TamperIsEvident
<1>1. Init => AnchorInv
  BY DEF Init, AnchorInv
<1>2. ChainTyped /\ TamperInv => OneAccidentIsDetected
  BY ScarsShow DEF TamperInv, Detectable, OneAccidentIsDetected
<1>3. ChainTyped /\ AnchorInv => AnchorFixesHistory
  <2> SUFFICES ASSUME ChainTyped, AnchorInv, anchored # NoAnchor, VerifiesOk, NEW i \in 1..Len(chain),
                      chain[i].digest_of_entry = head_digest(anchored)
               PROVE  SubSeq(chain, 1, i) = anchored
    BY DEF AnchorFixesHistory
  <2>1. Sealed(anchored) /\ anchored # <<>> /\ Sealed(chain)
    BY VerifiedIsSealed DEF AnchorInv
  <2> QED BY <2>1, HeadsDetermine DEF head_digest
<1> QED BY <1>1, <1>2, <1>3, InitInv, StepInv, ChainTypedInit, ChainTypedStep, TamperInit, TamperStep, AnchorStep, PTL
        DEF Spec, TamperIsEvident

-----------------------------------------------------------------------------
(***************************************************************************)
(* DriftHistory, for any number of monitors, tools and snapshots and any   *)
(* moves of the clock.                                                     *)
(***************************************************************************)

StoredFile == [mtime : Int, taken : Nat, holds : Snapshots \cup {Unreadable}]

MonitorTyped == MonitorTypeOK /\ IsFiniteSet(stored) /\ stored \subseteq StoredFile /\ IsFiniteSet(scanning)

(* How far the wall clock is ahead of what it was can only be more than    *)
(* real time if it was moved ahead; it is never less by more than `back`.  *)
ClocksAgree ==
  /\ now <= wall + back
  /\ \A f \in stored : now - f.taken <= (wall - f.mtime) + back

SeenIn(t)  == {f \in stored : f.taken \in t..(t + Interval - 1)}
LeftAlone  == wall = now /\ back = 0 /\ \A f \in stored : f.mtime = f.taken

(* In an interval that has seen a snapshot and is not over, the monitors   *)
(* that still may save are among those that had decided before it.         *)
BudgetIsKept ==
  LeftAlone =>
    \A t \in Nat :
      /\ Cardinality(SeenIn(t)) <= Cardinality(Runners)
      /\ (SeenIn(t) # {} /\ now < t + Interval) =>
           Cardinality(SeenIn(t)) + Cardinality(scanning) <= Cardinality(Runners)

MonitorInv == MonitorTyped /\ ClocksAgree /\ MonitorCovers /\ BudgetIsKept

-----------------------------------------------------------------------------

LEMMA MonitorInvInit == MonitorInit => MonitorInv
<1> SUFFICES ASSUME MonitorInit PROVE MonitorInv
  OBVIOUS
<1>1. Cardinality(stored) = 0 /\ IsFiniteSet(stored) /\ Cardinality(scanning) = 0 /\ IsFiniteSet(scanning)
  BY FS_EmptySet DEF MonitorInit
<1>2. MonitorTyped
  BY <1>1, HistoryAssumption DEF MonitorInit, MonitorTyped, MonitorTypeOK
<1>3. ClocksAgree /\ MonitorCovers
  BY DEF MonitorInit, ClocksAgree, MonitorCovers
<1>4. BudgetIsKept
  <2>1. Cardinality(Runners) \in Nat
    BY HistoryAssumption, FS_CardinalityType
  <2>2. \A t : SeenIn(t) = {}
    BY DEF MonitorInit, SeenIn
  <2>3. \A t : Cardinality(SeenIn(t)) = 0
    BY <2>2, FS_EmptySet
  <2> QED BY <2>1, <2>2, <2>3 DEF BudgetIsKept
<1> QED BY <1>2, <1>3, <1>4 DEF MonitorInv

(* The provers do no arithmetic on primed variables, so it is done on      *)
(* integers: a moment that was near enough stays so as the clocks go on.   *)
LEMMA AgesKeepUp ==
  \A n, w, b, m, v, c, x, y \in Int :
    m + w + b <= n + v + c => (n - x <= (w - y) + b => m - x <= (v - y) + c)
OBVIOUS

(* The clocks go on or are moved; nothing is stored and nobody decides.    *)
LEMMA ClockStep ==
  ASSUME MonitorInv, Tick \/ ClockMoves
  PROVE  MonitorInv'
<1> USE DEF MonitorInv
<1>0. /\ now \in Nat /\ wall \in Int /\ back \in Nat /\ UNCHANGED <<host, stored, scanning, checked>>
      /\ \A f \in stored : f.mtime \in Int /\ f.taken \in 0..now
      /\ checked \in -1..now
  BY HistoryAssumption DEF MonitorTyped, MonitorTypeOK, Tick, ClockMoves
<1>1. /\ now <= now' /\ now' <= MaxTime /\ now' \in Nat /\ wall' \in Int
      /\ back' \in 0..MaxBack /\ back' \in Nat /\ back <= back'
      /\ now' + wall + back <= now + wall' + back'
  <2>1. CASE Tick
    <3>1. now < MaxTime /\ now' = now + 1 /\ wall' = wall + 1 /\ back' = back
      BY <2>1 DEF Tick
    <3>2. MaxTime \in Nat /\ back \in 0..MaxBack
      BY HistoryAssumption DEF MonitorTyped, MonitorTypeOK
    <3> QED BY <1>0, <3>1, <3>2
  <2>2. CASE ClockMoves
    <3>1. PICK d \in Moves \cup {0} :
            /\ wall' = now + d
            /\ back' = IF now + d < wall THEN back + (wall - (now + d)) ELSE back
      BY <2>2 DEF ClockMoves
    <3>2. d \in Int /\ now' = now /\ back' <= MaxBack /\ MaxBack \in Nat /\ MaxTime \in Nat
      BY <2>2, HistoryAssumption DEF ClockMoves
    <3>3. now \in 0..MaxTime
      BY DEF MonitorTyped, MonitorTypeOK
    <3> QED BY <1>0, <3>1, <3>2, <3>3
  <2> QED BY <2>1, <2>2
<1>2. MonitorTyped'
  <2>1. \A f \in stored' : f.taken \in 0..now'
    BY <1>0, <1>1
  <2>2. checked' \in -1..now' /\ now' \in 0..MaxTime
    BY <1>0, <1>1, HistoryAssumption
  <2>3. machine' = machine /\ changes' = changes
    BY <1>0 DEF host
  <2> QED BY <1>0, <1>1, <2>1, <2>2, <2>3 DEF MonitorTyped, MonitorTypeOK
<1>3. ClocksAgree'
  <2>1. now \in Int /\ wall \in Int /\ back \in Int
    BY <1>0
  <2>2. now' \in Int /\ wall' \in Int /\ back' \in Int
    BY <1>1
  <2>3. now' + wall + back <= now + wall' + back'
    BY <1>1
  <2>4. now' <= wall' + back'
    <3>1. now <= wall + back
      BY DEF ClocksAgree
    <3>2. \A m, v, c \in Int : m + wall + back <= now + v + c => m <= v + c
      BY <2>1, <3>1
    <3> QED BY <2>2, <2>3, <3>2, Zenon
  <2>5. ASSUME NEW f \in stored PROVE now' - f.taken <= (wall' - f.mtime) + back'
    <3>1. f.mtime \in Int /\ f.taken \in Int
      BY <1>0
    <3>2. now - f.taken <= (wall - f.mtime) + back
      BY DEF ClocksAgree
    <3> QED BY <2>1, <2>2, <2>3, <3>1, <3>2, AgesKeepUp, Zenon
  <2> QED BY <1>0, <2>4, <2>5 DEF ClocksAgree
<1>4. MonitorCovers'
  <2> SUFFICES ASSUME checked' >= 0 PROVE \E f \in stored' : checked' - f.taken < Interval + back'
    BY DEF MonitorCovers
  <2>1. PICK f \in stored : checked - f.taken < Interval + back
    BY <1>0 DEF MonitorCovers
  <2>2. f.taken \in Int /\ checked \in Int /\ Interval \in Int
    BY <1>0, HistoryAssumption
  <2> QED BY <1>0, <1>1, <2>1, <2>2
<1>5. BudgetIsKept'
  <2> SUFFICES ASSUME LeftAlone' PROVE BudgetIsKept'
    BY DEF BudgetIsKept
  <2>1. wall' = now' /\ back' = 0 /\ \A f \in stored : f.mtime = f.taken
    BY <1>0 DEF LeftAlone
  <2>2. Tick
    <3>1. ASSUME ClockMoves PROVE FALSE
      <4>1. /\ wall' # wall /\ now' = now
            /\ back' = IF wall' < wall THEN back + (wall - wall') ELSE back
        BY <3>1 DEF ClockMoves
      <4>2. back = 0 /\ wall <= wall'
        BY <1>0, <1>1, <2>1, <4>1
      <4> QED BY <1>0, <1>1, <2>1, <4>1, <4>2 DEF ClocksAgree
    <3> QED BY <3>1
  <2>3. now' = now + 1 /\ wall' = wall + 1 /\ back' = back
    BY <2>2 DEF Tick
  <2>4. LeftAlone
    BY <1>0, <2>1, <2>3 DEF LeftAlone
  <2>5. ASSUME NEW t \in Nat
        PROVE  /\ SeenIn(t)' = SeenIn(t)
               /\ now' < t + Interval => now < t + Interval
    <3>1. Interval \in Int
      BY HistoryAssumption
    <3> QED BY <1>0, <2>3, <3>1 DEF SeenIn
  <2> QED BY <1>0, <2>4, <2>5 DEF BudgetIsKept
<1> QED BY <1>2, <1>3, <1>4, <1>5

(* One element is exchanged for another.                                   *)
LEMMA Exchange ==
  ASSUME NEW S, IsFiniteSet(S), NEW x \in S, NEW y, y \notin S
  PROVE  IsFiniteSet((S \ {x}) \cup {y}) /\ Cardinality((S \ {x}) \cup {y}) = Cardinality(S)
<1>1. IsFiniteSet(S \ {x}) /\ Cardinality(S \ {x}) = Cardinality(S) - 1
  BY FS_RemoveElement
<1>2. y \notin S \ {x} /\ Cardinality(S) \in Nat
  BY FS_CardinalityType
<1>3. /\ IsFiniteSet((S \ {x}) \cup {y})
      /\ Cardinality((S \ {x}) \cup {y}) = Cardinality(S \ {x}) + 1
  BY <1>1, <1>2, FS_AddElement
<1> QED BY <1>1, <1>2, <1>3

LEMMA SeenInIsFinite ==
  ASSUME MonitorTyped, NEW t
  PROVE  IsFiniteSet(SeenIn(t)) /\ SeenIn(t) \subseteq stored
<1>1. SeenIn(t) \subseteq stored
  BY DEF SeenIn
<1> QED BY <1>1, FS_Subset DEF MonitorTyped

(* The host changes; the history does not.                                 *)
LEMMA HostStep ==
  ASSUME MonitorInv, ToolChanges
  PROVE  MonitorInv'
<1> USE DEF MonitorInv
<1>1. /\ UNCHANGED <<now, wall, back, stored, scanning, checked>>
      /\ changes < MaxChanges /\ changes' = changes + 1
  BY DEF ToolChanges, clock
<1>2. machine' \in Snapshots
  <2>1. PICK t \in Tools, v \in Versions \cup {Absent} : machine' = [machine EXCEPT ![t] = v]
    BY DEF ToolChanges
  <2> QED BY <2>1 DEF MonitorTyped, MonitorTypeOK, Snapshots
<1>3. changes' \in 0..MaxChanges
  BY <1>1, HistoryAssumption DEF MonitorTyped, MonitorTypeOK
<1>4. MonitorTyped'
  BY <1>1, <1>2, <1>3 DEF MonitorTyped, MonitorTypeOK
<1>5. ClocksAgree' /\ MonitorCovers'
  BY <1>1 DEF ClocksAgree, MonitorCovers
<1>6. BudgetIsKept'
  BY <1>1 DEF BudgetIsKept, LeftAlone, SeenIn
<1> QED BY <1>4, <1>5, <1>6

(* A file is damaged: it keeps its stamp, and its moment.                  *)
LEMMA DamageStep ==
  ASSUME MonitorInv, FileIsDamaged
  PROVE  MonitorInv'
<1> USE DEF MonitorInv
<1>1. PICK f \in stored :
        /\ f.holds # Unreadable
        /\ stored' = (stored \ {f}) \cup {[f EXCEPT !.holds = Unreadable]}
  BY DEF FileIsDamaged
<1> DEFINE g == [f EXCEPT !.holds = Unreadable]
<1>2. /\ UNCHANGED <<now, wall, back, machine, changes, scanning, checked>>
      /\ \A h \in stored : h.holds # Unreadable
  BY DEF FileIsDamaged, clock, host
<1>3. f \in StoredFile /\ g \in StoredFile /\ g.mtime = f.mtime /\ g.taken = f.taken /\ g.holds = Unreadable
  BY DEF MonitorTyped, StoredFile
<1>4. g \notin stored
  BY <1>2, <1>3
<1>5. stored' = (stored \ {f}) \cup {g}
  BY <1>1
<1> HIDE DEF g
<1>6. MonitorTyped'
  <2>1. IsFiniteSet(stored') /\ Cardinality(stored') = Cardinality(stored)
    BY <1>4, <1>5, Exchange DEF MonitorTyped
  <2>2. stored' \subseteq StoredFile
    BY <1>3, <1>5 DEF MonitorTyped
  <2>3. \A h \in stored' : h.mtime \in Int /\ h.taken \in 0..now /\ h.holds \in Snapshots \cup {Unreadable}
    BY <1>3, <1>5 DEF MonitorTyped, MonitorTypeOK
  <2> QED BY <1>2, <2>1, <2>2, <2>3 DEF MonitorTyped, MonitorTypeOK
<1>7. ClocksAgree'
  BY <1>2, <1>3, <1>5 DEF ClocksAgree
<1>8. MonitorCovers'
  <2> SUFFICES ASSUME checked >= 0 PROVE \E h \in stored' : checked - h.taken < Interval + back
    BY <1>2 DEF MonitorCovers
  <2>1. PICK h \in stored : checked - h.taken < Interval + back
    BY DEF MonitorCovers
  <2>2. CASE h = f
    BY <1>3, <1>5, <2>1, <2>2
  <2>3. CASE h # f
    BY <1>5, <2>1, <2>3
  <2> QED BY <2>2, <2>3
<1>9. BudgetIsKept'
  <2>1. LeftAlone' => LeftAlone
    BY <1>2, <1>3, <1>5 DEF LeftAlone
  <2>2. ASSUME NEW t \in Nat
        PROVE  Cardinality(SeenIn(t)') = Cardinality(SeenIn(t)) /\ (SeenIn(t)' # {} => SeenIn(t) # {})
    <3>1. CASE f \in SeenIn(t)
      <4>1. SeenIn(t)' = (SeenIn(t) \ {f}) \cup {g} /\ g \notin SeenIn(t)
        BY <1>2, <1>3, <1>4, <1>5, <3>1 DEF SeenIn
      <4> QED BY <3>1, <4>1, SeenInIsFinite, Exchange
    <3>2. CASE f \notin SeenIn(t)
      <4>1. SeenIn(t)' = SeenIn(t)
        BY <1>1, <1>2, <1>3, <1>5, <3>2 DEF SeenIn
      <4> QED BY <4>1
    <3> QED BY <3>1, <3>2
  <2>3. Cardinality(scanning') = Cardinality(scanning) /\ now' = now
    BY <1>2
  <2> QED BY <2>1, <2>2, <2>3 DEF BudgetIsKept
<1> QED BY <1>6, <1>7, <1>8, <1>9

(* The newest snapshot is too young for another one.                       *)
LEMMA SkipStep ==
  ASSUME MonitorInv, NEW r \in Runners, Skip(r)
  PROVE  MonitorInv'
<1> USE DEF MonitorInv
<1>1. /\ UNCHANGED <<now, wall, back, machine, changes, stored, scanning>>
      /\ checked' = now /\ ~should_snapshot
  BY DEF Skip, clock, host
<1>2. PICK f \in stored : wall - f.mtime < Interval
  <2>1. Interval \in Int /\ wall \in Int /\ \A f \in stored : f.mtime \in Int
    BY HistoryAssumption DEF MonitorTyped, MonitorTypeOK
  <2> QED BY <1>1, <2>1 DEF should_snapshot
<1>3. now - f.taken < Interval + back
  <2>1. Interval \in Int /\ wall \in Int /\ f.mtime \in Int /\ f.taken \in Int /\ now \in Int /\ back \in Int
    BY HistoryAssumption DEF MonitorTyped, MonitorTypeOK
  <2>2. now - f.taken <= (wall - f.mtime) + back
    BY DEF ClocksAgree
  <2> QED BY <1>2, <2>1, <2>2
<1>4. MonitorTyped'
  <2>1. now \in -1..now
    BY DEF MonitorTyped, MonitorTypeOK
  <2> QED BY <1>1, <2>1 DEF MonitorTyped, MonitorTypeOK
<1>5. ClocksAgree' /\ MonitorCovers'
  BY <1>1, <1>3 DEF ClocksAgree, MonitorCovers
<1>6. BudgetIsKept'
  BY <1>1 DEF BudgetIsKept, LeftAlone, SeenIn
<1> QED BY <1>4, <1>5, <1>6

(* A snapshot is due: while the clock is left alone, no interval that has  *)
(* seen one is still running.                                              *)
LEMMA DecideStep ==
  ASSUME MonitorInv, NEW r \in Runners, Decide(r)
  PROVE  MonitorInv'
<1> USE DEF MonitorInv
<1>1. /\ UNCHANGED <<now, wall, back, machine, changes, stored, checked>>
      /\ scanning' = scanning \cup {r} /\ should_snapshot
  BY DEF Decide, clock, host
<1>2. MonitorTyped'
  <2>1. IsFiniteSet(scanning')
    BY <1>1, FS_AddElement DEF MonitorTyped
  <2> QED BY <1>1, <2>1 DEF MonitorTyped, MonitorTypeOK
<1>3. ClocksAgree' /\ MonitorCovers'
  BY <1>1 DEF ClocksAgree, MonitorCovers
<1>4. BudgetIsKept'
  <2>1. LeftAlone' => LeftAlone
    BY <1>1 DEF LeftAlone
  <2>2. ASSUME LeftAlone, NEW t \in Nat, now < t + Interval, NEW f \in SeenIn(t)
        PROVE  FALSE
    <3>1. /\ f \in stored /\ f.taken \in t..(t + Interval - 1) /\ f.taken \in 0..now
          /\ f.mtime = f.taken /\ wall = now /\ \A h \in stored : h.mtime = h.taken /\ h.taken \in 0..now
      BY <2>2 DEF LeftAlone, SeenIn, MonitorTyped, MonitorTypeOK
    <3>2. now \in Int /\ Interval \in Int
      BY HistoryAssumption DEF MonitorTyped, MonitorTypeOK
    <3>3. wall - f.mtime < Interval
      BY <2>2, <3>1, <3>2
    <3>4. ~ \E h \in stored : h.mtime > wall
      BY <3>1, <3>2
    <3> QED BY <1>1, <3>1, <3>2, <3>3, <3>4 DEF should_snapshot
  <2>3. \A t : SeenIn(t)' = SeenIn(t)
    BY <1>1 DEF SeenIn
  <2> QED BY <1>1, <2>1, <2>2, <2>3 DEF BudgetIsKept
<1> QED BY <1>2, <1>3, <1>4

(* A scan or a save fails: one monitor fewer may still save.               *)
LEMMA FailStep ==
  ASSUME MonitorInv, NEW r \in Runners, Fail(r)
  PROVE  MonitorInv'
<1> USE DEF MonitorInv
<1>1. /\ UNCHANGED <<now, wall, back, machine, changes, stored, checked>>
      /\ r \in scanning /\ scanning' = scanning \ {r}
  BY DEF Fail, clock, host
<1>2. /\ IsFiniteSet(scanning) /\ IsFiniteSet(scanning \ {r})
      /\ Cardinality(scanning) \in Nat /\ Cardinality(scanning \ {r}) = Cardinality(scanning) - 1
  BY <1>1, FS_RemoveElement, FS_CardinalityType DEF MonitorTyped
<1>3. MonitorTyped'
  BY <1>1, <1>2 DEF MonitorTyped, MonitorTypeOK
<1>4. ClocksAgree' /\ MonitorCovers'
  BY <1>1 DEF ClocksAgree, MonitorCovers
<1>5. BudgetIsKept'
  <2>1. LeftAlone' => LeftAlone
    BY <1>1 DEF LeftAlone
  <2>2. Cardinality(Runners) \in Nat /\ \A t : SeenIn(t)' = SeenIn(t) /\ Cardinality(SeenIn(t)) \in Nat
    BY <1>1, HistoryAssumption, SeenInIsFinite, FS_CardinalityType DEF SeenIn
  <2>3. \A w, n \in Nat : w + Cardinality(scanning) <= n => w + Cardinality(scanning \ {r}) <= n
    BY <1>2
  <2> QED BY <1>1, <2>1, <2>2, <2>3 DEF BudgetIsKept
<1> QED BY <1>3, <1>4, <1>5

(* A monitor saves: either the interval had seen none, and there are as    *)
(* many others as may still save, or this one was counted already.         *)
LEMMA SaveStep ==
  ASSUME MonitorInv, NEW r \in Runners, Save(r)
  PROVE  MonitorInv'
<1> USE DEF MonitorInv
<1> DEFINE g == Stored(wall)
<1>1. /\ UNCHANGED <<now, wall, back, machine, changes>>
      /\ r \in scanning /\ scanning' = scanning \ {r} /\ checked' = now
      /\ Cardinality(stored) < MaxFiles
      /\ stored' = stored \cup {g} /\ \A f \in stored : f.taken # now
  BY DEF Save, clock, host
<1>2. g.mtime = wall /\ g.taken = now /\ g.holds = machine
  BY DEF Stored
<1>3. g \in StoredFile
  BY DEF Stored, StoredFile, MonitorTyped, MonitorTypeOK
<1>4. g \notin stored
  BY <1>1, <1>2
<1> HIDE DEF g
<1>5. now \in Nat /\ wall \in Int /\ back \in Nat /\ Interval \in Nat \ {0}
  BY HistoryAssumption DEF MonitorTyped, MonitorTypeOK
<1>6. /\ IsFiniteSet(scanning) /\ IsFiniteSet(scanning \ {r})
      /\ Cardinality(scanning) \in Nat /\ Cardinality(scanning \ {r}) \in Nat
      /\ Cardinality(scanning \ {r}) = Cardinality(scanning) - 1
  BY <1>1, FS_RemoveElement, FS_CardinalityType DEF MonitorTyped
<1>7. MonitorTyped'
  <2>1. IsFiniteSet(stored') /\ Cardinality(stored') = Cardinality(stored) + 1 /\ Cardinality(stored) \in Nat
    BY <1>1, <1>4, FS_AddElement, FS_CardinalityType DEF MonitorTyped
  <2>2. Cardinality(stored) + 1 <= MaxFiles
    BY <1>1, <2>1, HistoryAssumption
  <2>3. stored' \subseteq StoredFile
    BY <1>1, <1>3 DEF MonitorTyped
  <2>4. \A h \in stored' : h.mtime \in Int /\ h.taken \in 0..now /\ h.holds \in Snapshots \cup {Unreadable}
    BY <1>1, <1>2, <1>5 DEF MonitorTyped, MonitorTypeOK
  <2>5. now \in -1..now
    BY <1>5
  <2> QED BY <1>1, <1>6, <2>1, <2>2, <2>3, <2>4, <2>5 DEF MonitorTyped, MonitorTypeOK
<1>8. ClocksAgree'
  <2>1. now - g.taken <= (wall - g.mtime) + back
    BY <1>2, <1>5
  <2> QED BY <1>1, <2>1 DEF ClocksAgree
<1>9. MonitorCovers'
  <2>1. now - g.taken < Interval + back
    BY <1>2, <1>5
  <2> QED BY <1>1, <2>1 DEF MonitorCovers
<1>10. BudgetIsKept'
  <2>1. LeftAlone' => LeftAlone
    BY <1>1 DEF LeftAlone
  <2>2. /\ Cardinality(Runners) \in Nat /\ Cardinality(scanning) <= Cardinality(Runners)
        /\ \A t \in Nat : IsFiniteSet(SeenIn(t)) /\ Cardinality(SeenIn(t)) \in Nat
    <3>1. scanning \subseteq Runners
      BY DEF MonitorTyped, MonitorTypeOK
    <3> QED BY <3>1, HistoryAssumption, SeenInIsFinite, FS_Subset, FS_CardinalityType
  <2>3. ASSUME LeftAlone, NEW t \in Nat
        PROVE  /\ Cardinality(SeenIn(t)') <= Cardinality(Runners)
               /\ (SeenIn(t)' # {} /\ now < t + Interval) =>
                    Cardinality(SeenIn(t)') + Cardinality(scanning \ {r}) <= Cardinality(Runners)
    <3>1. /\ Cardinality(SeenIn(t)) <= Cardinality(Runners)
          /\ (SeenIn(t) # {} /\ now < t + Interval) =>
               Cardinality(SeenIn(t)) + Cardinality(scanning) <= Cardinality(Runners)
      BY <2>3 DEF BudgetIsKept
    <3>2. CASE now \in t..(t + Interval - 1)
      <4>1. SeenIn(t)' = SeenIn(t) \cup {g} /\ g \notin SeenIn(t)
        BY <1>1, <1>2, <1>4, <3>2 DEF SeenIn
      <4>2. Cardinality(SeenIn(t)') = Cardinality(SeenIn(t)) + 1
        BY <2>2, <4>1, FS_AddElement
      <4>3. now < t + Interval
        BY <1>5, <3>2
      <4>4. Cardinality(SeenIn(t)) + Cardinality(scanning) <= Cardinality(Runners)
        <5>1. CASE SeenIn(t) = {}
          <6>1. Cardinality(SeenIn(t)) = 0
            BY <5>1, FS_EmptySet
          <6> QED BY <1>6, <2>2, <6>1
        <5>2. CASE SeenIn(t) # {}
          BY <3>1, <4>3, <5>2
        <5> QED BY <5>1, <5>2
      <4>5. /\ Cardinality(SeenIn(t)) + 1 <= Cardinality(Runners)
            /\ Cardinality(SeenIn(t)) + 1 + Cardinality(scanning \ {r}) <= Cardinality(Runners)
        BY <1>6, <2>2, <4>4
      <4> QED BY <4>2, <4>5
    <3>3. CASE now \notin t..(t + Interval - 1)
      <4>1. SeenIn(t)' = SeenIn(t)
        BY <1>1, <1>2, <3>3 DEF SeenIn
      <4>2. Cardinality(SeenIn(t)) + Cardinality(scanning) <= Cardinality(Runners)
              => Cardinality(SeenIn(t)) + Cardinality(scanning \ {r}) <= Cardinality(Runners)
        BY <1>6, <2>2
      <4> QED BY <3>1, <4>1, <4>2
    <3> QED BY <3>2, <3>3
  <2> QED BY <1>1, <2>1, <2>3 DEF BudgetIsKept
<1> QED BY <1>7, <1>8, <1>9, <1>10

LEMMA MonitorInvStep == MonitorInv /\ [MonitorNext]_monitorVars => MonitorInv'
<1> SUFFICES ASSUME MonitorInv, [MonitorNext]_monitorVars PROVE MonitorInv'
  OBVIOUS
<1>1. CASE Tick \/ ClockMoves
  BY <1>1, ClockStep
<1>2. CASE ToolChanges
  BY <1>2, HostStep
<1>3. CASE FileIsDamaged
  BY <1>3, DamageStep
<1>4. ASSUME NEW r \in Runners, Skip(r) PROVE MonitorInv'
  BY <1>4, SkipStep
<1>5. ASSUME NEW r \in Runners, Decide(r) PROVE MonitorInv'
  BY <1>5, DecideStep
<1>6. ASSUME NEW r \in Runners, Save(r) PROVE MonitorInv'
  BY <1>6, SaveStep
<1>7. ASSUME NEW r \in Runners, Fail(r) PROVE MonitorInv'
  BY <1>7, FailStep
<1>8. CASE UNCHANGED monitorVars
  <2>1. UNCHANGED <<now, wall, back, machine, changes, stored, scanning, checked>>
    BY <1>8 DEF monitorVars, clock, host
  <2> QED BY <2>1 DEF MonitorInv, MonitorTyped, MonitorTypeOK, ClocksAgree, MonitorCovers, BudgetIsKept, LeftAlone, SeenIn
<1> QED BY <1>1, <1>2, <1>3, <1>4, <1>5, <1>6, <1>7, <1>8 DEF MonitorNext

(* `monitor --snapshot` leaves no interval uncovered, however often it is  *)
(* run and by whomever: when a run has ended, a snapshot was taken within  *)
(* the interval before it, give or take what the clock was moved back;     *)
(* and with the clock left alone no interval sees more snapshots than      *)
(* monitors running at the same time.                                      *)
THEOREM MonitorStaysSteady == MonitorSpec => []MonitorIsSteady
<1>1. MonitorInv => MonitorIsSteady
  <2> SUFFICES ASSUME MonitorInv PROVE MonitorIsSteady
    OBVIOUS
  <2>1. 0..now \subseteq Nat
    OBVIOUS
  <2>2. BudgetHolds
    BY <2>1 DEF MonitorInv, BudgetIsKept, BudgetHolds, LeftAlone, SeenIn
  <2> QED BY <2>2 DEF MonitorInv, MonitorTyped, MonitorIsSteady
<1> QED BY <1>1, MonitorInvInit, MonitorInvStep, PTL DEF MonitorSpec

-----------------------------------------------------------------------------
(* Reading the history.                                                    *)

Readables == {f \in stored : f.holds # Unreadable}

(* The loop of `latest` lists files that load.                             *)
LEMMA LatestLoads ==
  ASSUME NEW listing \in Seq(stored), NEW n \in Nat
  PROVE  latest(listing, n) \in Seq(Readables)
<1> DEFINE last == IF n < Len(listing) THEN n ELSE Len(listing)
           path(i) == listing[Len(listing) + 1 - i]
           A == Seq(Readables)
           G == [p \in Nat \X A |->
                   IF p[1] < last /\ path(p[1] + 1).holds # Unreadable
                   THEN Append(p[2], path(p[1] + 1)) ELSE p[2]]
           Eq(f) == f = [i \in 0..last |->
                           IF i = 0 THEN <<>>
                           ELSE IF path(i).holds = Unreadable THEN f[i - 1]
                           ELSE Append(f[i - 1], path(i))]
<1>1. last \in Nat /\ last <= Len(listing) /\ Len(listing) \in Nat
  OBVIOUS
<1>2. \A i \in 1..last : path(i) \in stored
  BY <1>1
<1> HIDE DEF last, path
<1>3. <<>> \in A
  OBVIOUS
<1>4. G \in StepFunctions(A)
  <2>1. ASSUME NEW k \in Nat, NEW x \in A, k < last, path(k + 1).holds # Unreadable
        PROVE  Append(x, path(k + 1)) \in A
    <3>1. k + 1 \in 1..last
      BY <1>1, <2>1
    <3>2. path(k + 1) \in Readables
      BY <1>2, <2>1, <3>1 DEF Readables
    <3> QED BY <3>2
  <2> HIDE DEF A
  <2> QED BY <2>1 DEF StepFunctions
<1>5. PICK F : Recursion(F, A, <<>>, G)
  <2> HIDE DEF G, A
  <2> QED BY <1>3, <1>4, RecursiveFunction
<1> DEFINE g == [i \in 0..last |-> F[i]]
<1>6. /\ \A i \in Nat : F[i] \in A
      /\ F[0] = <<>>
      /\ \A k \in Nat : F[k + 1] = G[<<k, F[k]>>]
  BY <1>5 DEF Recursion
<1>7. ASSUME NEW i \in 1..last
      PROVE  F[i] = IF path(i).holds = Unreadable THEN F[i - 1] ELSE Append(F[i - 1], path(i))
  <2>1. i - 1 \in Nat /\ (i - 1) + 1 = i /\ i - 1 < last
    BY <1>1
  <2>2. F[i] = G[<<i - 1, F[i - 1]>>]
    BY <1>6, <2>1
  <2>3. <<i - 1, F[i - 1]>> \in Nat \X A
    BY <1>6, <2>1
  <2>4. G[<<i - 1, F[i - 1]>>] =
          IF i - 1 < last /\ path((i - 1) + 1).holds # Unreadable
          THEN Append(F[i - 1], path((i - 1) + 1)) ELSE F[i - 1]
    <3> HIDE DEF A
    <3> QED BY <2>3
  <2> HIDE DEF G
  <2> QED BY <2>1, <2>2, <2>4
<1>8. Eq(g)
  <2>1. ASSUME NEW i \in 0..last
        PROVE  g[i] = IF i = 0 THEN <<>>
                      ELSE IF path(i).holds = Unreadable THEN g[i - 1]
                      ELSE Append(g[i - 1], path(i))
    <3>1. CASE i = 0
      BY <1>1, <1>6, <3>1
    <3>2. CASE i # 0
      <4>1. i \in 1..last /\ i - 1 \in 0..last
        BY <1>1, <3>2
      <4>2. g[i] = F[i] /\ g[i - 1] = F[i - 1]
        BY <4>1
      <4> HIDE DEF g
      <4> QED BY <1>7, <3>2, <4>1, <4>2
    <3> QED BY <3>1, <3>2
  <2>2. g = [i \in 0..last |-> g[i]]
    OBVIOUS
  <2> HIDE DEF g
  <2> QED BY <2>1, <2>2
<1> DEFINE out == CHOOSE f : Eq(f)
<1>9. Eq(out)
  <2> HIDE DEF Eq, g
  <2> QED BY <1>8
<1>10. latest(listing, n) = out[last]
  BY DEF latest, last, path
<1> HIDE DEF out
<1> DEFINE E == {k \in Nat : k <= last => out[k] \in A}
<1>11. 0 \in E
  <2>1. out[0] = <<>>
    BY <1>1, <1>9
  <2> HIDE DEF A
  <2> QED BY <1>3, <2>1
<1>12. ASSUME NEW k \in Nat, k \in E PROVE k + 1 \in E
  <2> SUFFICES ASSUME k + 1 <= last PROVE out[k + 1] \in A
    OBVIOUS
  <2>1. k + 1 \in 1..last /\ k + 1 \in 0..last /\ k + 1 # 0 /\ (k + 1) - 1 = k /\ out[k] \in A
    BY <1>1, <1>12
  <2>2. out[k + 1] = IF path(k + 1).holds = Unreadable THEN out[k] ELSE Append(out[k], path(k + 1))
    BY <1>9, <2>1
  <2>3. path(k + 1) \in stored
    BY <1>2, <2>1
  <2>4. CASE path(k + 1).holds # Unreadable
    <3>1. path(k + 1) \in Readables
      BY <2>3, <2>4 DEF Readables
    <3> QED BY <2>1, <2>2, <2>4, <3>1
  <2> QED BY <2>1, <2>2, <2>4
<1>13. Nat \subseteq E
  <2> HIDE DEF E
  <2> QED BY <1>11, <1>12, Induction
<1> QED BY <1>1, <1>10, <1>13

(* What a timeline tells of a tool up to a snapshot.                       *)
Past(H, i, t) == {e \in build_timeline(H) : e.name = t /\ e.at_index <= i}
Last(e, S)    == \A d \in S : d.at_index <= e.at_index

(* A tool has one event at every snapshot that changes it, and no other.   *)
LEMMA TimelineEvents ==
  ASSUME NEW H, NEW i \in DOMAIN H, NEW t \in Tools
  PROVE  {e \in build_timeline(H) : e.at_index = i /\ e.name = t} =
           IF Before(H, i)[t] # H[i][t]
           THEN {[at_index |-> i, name |-> t, kind |-> Kind(Before(H, i)[t], H[i][t]),
                  before |-> Before(H, i)[t], after |-> H[i][t]]}
           ELSE {}
BY DEF build_timeline

LEMMA EventsHaveAnIndex ==
  ASSUME NEW H, NEW e \in build_timeline(H)
  PROVE  e.at_index \in DOMAIN H
BY DEF build_timeline

(* Applying what the timeline says of a tool up to a snapshot gives that   *)
(* snapshot's version of it: a snapshot without an event has the version   *)
(* of the one before it, any other is told by its event.                   *)
LEMMA TimelineTells ==
  ASSUME NEW n \in Nat, NEW H \in [1..n -> Snapshots], NEW t \in Tools, NEW k \in 0..n
  PROVE  LET version == IF k = 0 THEN Absent ELSE H[k][t]
         IN  /\ Past(H, k, t) = {} => version = Absent
             /\ Past(H, k, t) # {} => \E e \in Past(H, k, t) : Last(e, Past(H, k, t))
             /\ \A e \in Past(H, k, t) : Last(e, Past(H, k, t)) => e.after = version
<1> DEFINE version(i) == IF i = 0 THEN Absent ELSE H[i][t]
           Told(i) == /\ Past(H, i, t) = {} => version(i) = Absent
                      /\ Past(H, i, t) # {} => \E e \in Past(H, i, t) : Last(e, Past(H, i, t))
                      /\ \A e \in Past(H, i, t) : Last(e, Past(H, i, t)) => e.after = version(i)
           E == {i \in Nat : i <= n => Told(i)}
<1>1. \A e \in build_timeline(H) : e.at_index \in 1..n
  BY EventsHaveAnIndex
<1>2. 0 \in E
  <2>1. Past(H, 0, t) = {}
    BY <1>1 DEF Past
  <2>2. version(0) = Absent
    OBVIOUS
  <2> HIDE DEF version
  <2> QED BY <2>1, <2>2
<1>3. ASSUME NEW i \in Nat, i \in E PROVE i + 1 \in E
  <2> SUFFICES ASSUME i + 1 <= n PROVE Told(i + 1)
    OBVIOUS
  <2>1. Told(i) /\ i + 1 \in 1..n
    BY <1>3
  <2>2. Before(H, i + 1)[t] = version(i)
    <3>1. CASE i = 0
      BY <3>1 DEF Before, Nothing
    <3>2. CASE i # 0
      BY <3>2 DEF Before
    <3> QED BY <3>1, <3>2
  <2>3. version(i + 1) = H[i + 1][t]
    OBVIOUS
  <2> DEFINE new == {e \in build_timeline(H) : e.at_index = i + 1 /\ e.name = t}
  <2>4. Past(H, i + 1, t) = Past(H, i, t) \cup new
    BY <1>1 DEF Past
  <2>5. \A e \in Past(H, i, t) : e.at_index <= i /\ e.at_index \in Int
    BY <1>1 DEF Past
  <2>6. \A e \in new : e.at_index = i + 1
    OBVIOUS
  <2>7. /\ version(i) = version(i + 1) => new = {}
        /\ version(i) # version(i + 1) => \E e : new = {e} /\ e.after = version(i + 1)
    <3> DEFINE told == [at_index |-> i + 1, name |-> t, kind |-> Kind(Before(H, i + 1)[t], H[i + 1][t]),
                        before |-> Before(H, i + 1)[t], after |-> H[i + 1][t]]
    <3>1. new = IF Before(H, i + 1)[t] # H[i + 1][t] THEN {told} ELSE {}
      <4>1. i + 1 \in DOMAIN H
        BY <2>1
      <4> QED BY <4>1, TimelineEvents
    <3>2. told.after = H[i + 1][t]
      OBVIOUS
    <3> HIDE DEF new, version, told
    <3> QED BY <2>2, <2>3, <3>1, <3>2
  <2> HIDE DEF new, version
  <2>8. CASE version(i) = version(i + 1)
    <3>1. Past(H, i + 1, t) = Past(H, i, t)
      BY <2>4, <2>7, <2>8
    <3> QED BY <2>1, <2>8, <3>1
  <2>9. CASE version(i) # version(i + 1)
    <3>1. PICK e : new = {e} /\ e.after = version(i + 1)
      BY <2>7, <2>9
    <3>2. Past(H, i + 1, t) = Past(H, i, t) \cup {e} /\ e.at_index = i + 1
      BY <2>4, <2>6, <3>1
    <3>3. Last(e, Past(H, i + 1, t))
      BY <2>5, <3>2 DEF Last
    <3>4. \A d \in Past(H, i + 1, t) : Last(d, Past(H, i + 1, t)) => d = e
      <4>1. SUFFICES ASSUME NEW d \in Past(H, i, t), i + 1 <= d.at_index PROVE FALSE
        BY <3>2 DEF Last
      <4> QED BY <2>5, <4>1
    <3> QED BY <3>1, <3>2, <3>3, <3>4
  <2> QED BY <2>8, <2>9
<1>4. Nat \subseteq E
  <2> HIDE DEF E
  <2> QED BY <1>2, <1>3, Induction
<1> QED BY <1>4

(* `devrepro drift` and the root-cause hints, whatever files are stored,   *)
(* in whatever order stamps that are equal are listed: what the timeline   *)
(* tells of a tool up to a snapshot is that snapshot's version of it, and  *)
(* a hint names the last change.                                           *)
THEOREM TimelineIsReplayed == MonitorSpec => []TimelineReplays
<1>1. MonitorInv => TimelineReplays
  <2> SUFFICES ASSUME MonitorInv, NEW s \in Listings
               PROVE  LET snaps == latest(s, Depth)
                      IN  \A t \in Tools:
                            /\ \A i \in DOMAIN snaps: Replayed(drift(s), i, t) = snaps[i].holds[t]
                            /\ \A e \in root_cause_hints(drift(s), t): e.after = snaps[Len(snaps)].holds[t]
    BY DEF TimelineReplays
  <2> DEFINE snaps == latest(s, Depth)
             n == Len(snaps)
             H == [i \in DOMAIN snaps |-> snaps[i].holds]
  <2>1. s \in Seq(stored)
    <3>1. Cardinality(stored) \in Nat
      BY FS_CardinalityType DEF MonitorInv, MonitorTyped
    <3>2. s \in [1..Cardinality(stored) -> stored]
      BY DEF Listings
    <3> QED BY <3>1, <3>2
  <2>2. snaps \in Seq(Readables)
    BY <2>1, HistoryAssumption, LatestLoads
  <2>3. \A f \in Readables : f.holds \in Snapshots
    BY DEF Readables, MonitorInv, MonitorTyped, MonitorTypeOK
  <2> HIDE DEF snaps
  <2>4. n \in Nat /\ DOMAIN snaps = 1..n
    BY <2>2
  <2>5. \A i \in 1..n : snaps[i] \in Readables
    BY <2>2, <2>4
  <2>6. H \in [1..n -> Snapshots] /\ \A i \in 1..n : H[i] = snaps[i].holds
    BY <2>3, <2>4, <2>5
  <2>7. drift(s) = build_timeline(H)
    BY DEF drift, snaps
  <2> HIDE DEF H, n
  <2> SUFFICES ASSUME NEW t \in Tools
               PROVE  /\ \A i \in 1..n : Replayed(build_timeline(H), i, t) = snaps[i].holds[t]
                      /\ \A e \in root_cause_hints(build_timeline(H), t) : e.after = snaps[n].holds[t]
    BY <2>4, <2>7 DEF snaps, n
  <2>8. ASSUME NEW i \in 1..n PROVE Replayed(build_timeline(H), i, t) = snaps[i].holds[t]
    <3>1. /\ i \in 0..n /\ i # 0
          /\ Past(H, i, t) = {} => H[i][t] = Absent
          /\ Past(H, i, t) # {} => \E e \in Past(H, i, t) : Last(e, Past(H, i, t))
          /\ \A e \in Past(H, i, t) : Last(e, Past(H, i, t)) => e.after = H[i][t]
      <4>1. i \in 0..n /\ i # 0
        BY <2>4
      <4> QED BY <2>4, <2>6, <4>1, TimelineTells
    <3>2. Replayed(build_timeline(H), i, t) =
            IF Past(H, i, t) = {} THEN Absent
            ELSE (CHOOSE e \in Past(H, i, t) : Last(e, Past(H, i, t))).after
      BY DEF Replayed, Past, Last
    <3>3. Replayed(build_timeline(H), i, t) = H[i][t]
      BY <3>1, <3>2
    <3> QED BY <2>6, <3>3
  <2>9. ASSUME NEW e \in root_cause_hints(build_timeline(H), t) PROVE e.after = snaps[n].holds[t]
    <3>1. \A d \in build_timeline(H) : d.at_index \in 1..n
      BY <2>6, EventsHaveAnIndex
    <3>2. e \in Past(H, n, t) /\ Last(e, Past(H, n, t)) /\ n \in 1..n
      BY <2>4, <3>1 DEF root_cause_hints, Past, Last
    <3>3. \A d \in Past(H, n, t) : Last(d, Past(H, n, t)) => d.after = H[n][t]
      <4>1. n \in 0..n /\ n # 0
        BY <2>4, <3>2
      <4> QED BY <2>4, <2>6, <4>1, TimelineTells
    <3> QED BY <2>6, <3>2, <3>3
  <2> QED BY <2>8, <2>9
<1>2. MonitorSpec => []MonitorInv
  BY MonitorInvInit, MonitorInvStep, PTL DEF MonitorSpec
<1> QED BY <1>1, <1>2, PTL

=============================================================================
