---------------------------- MODULE SnapshotChain ----------------------------
(***************************************************************************)
(* The local snapshot history of devrepro/snapshots: `HistoryStore.save`   *)
(* writes a snapshot file and records it in chain.jsonl, an append-only    *)
(* hash chain that `verify_chain` checks.                                  *)
(*                                                                         *)
(* A saver is one run of `devrepro snapshot`; nothing locks the directory, *)
(* so several may run at once.  Between and during saves the directory     *)
(* suffers accidents ("sync conflicts, careless cleanup scripts"), and a   *)
(* saver may die at any step, also halfway through the line it appends.    *)
(*                                                                         *)
(* SHA-256 is taken to be injective: the digest of a value is the value in *)
(* a wrapper.  recorded_at is one of the digested fields, plays no other   *)
(* part, and is left out.                                                  *)
(***************************************************************************)
EXTENDS Integers, Sequences, FiniteSets

CONSTANTS
  Savers,        \* runs of `devrepro snapshot`; each names its own file
  Stray,         \* the name of a file copied into the directory by hand
  Scenarios      \* the circumstances a history may be written under

AccidentKinds == {"edit_snapshot", "delete_snapshot", "copy_in", "edit_entry",
                  "drop_entry", "swap_entries", "delete_record", "rebuild"}

(* A scenario says whether savers overlap, whether an append may stop       *)
(* halfway (full disk, power cut), which accidents happen and, as a bound,  *)
(* how many of them.                                                        *)
ASSUME ConfigAssumption ==
  /\ Stray \notin Savers /\ IsFiniteSet(Savers)
  /\ \A c \in Scenarios : /\ c.concurrent \in BOOLEAN
                          /\ c.tears \in BOOLEAN
                          /\ c.kinds \subseteq AccidentKinds
                          /\ c.max \in Nat

Names == Savers \cup {Stray}

VARIABLES
  scenario,      \* the one this history is written under
  files,         \* what is under each snapshot's name
  chain,         \* the lines of chain.jsonl
  unterminated,  \* whether its last line lacks the newline
  pc,            \* where each saver is
  planned,       \* the entry a saver computed and has not appended yet
  accidents,     \* the kinds of the accidents that have happened, in order
  anchored       \* the chain whose head somebody wrote down elsewhere

vars == <<scenario, files, chain, unterminated, pc, planned, accidents, anchored>>

Contents == {"absent", "partial", "whole", "edited"}
Steps    == {"idle", "writing", "chaining", "appending", "done", "crashed"}
GENESIS  == [genesis |-> TRUE]
Torn     == [torn |-> TRUE]          \* a line read_chain cannot parse
NoEntry  == [none |-> TRUE]
NoAnchor == <<Torn>>

-----------------------------------------------------------------------------
(* Reading and checking the chain.                                         *)

entry_digest(seq, filename, digest, prev) ==
  [sha256 |-> [seq |-> seq, filename |-> filename, digest |-> digest, prev |-> prev]]

ChainEntry(seq, filename, digest, prev) ==
  [seq |-> seq, filename |-> filename, digest |-> digest, prev |-> prev,
   digest_of_entry |-> entry_digest(seq, filename, digest, prev)]

(* read_chain raises ChainError on a malformed line. *)
Readable == \A i \in 1..Len(chain) : chain[i] # Torn

head_digest(entries) ==
  IF entries = <<>> THEN GENESIS ELSE entries[Len(entries)].digest_of_entry

Recorded == {chain[i].filename : i \in {j \in 1..Len(chain) : chain[j] # Torn}}

ExpectedPrev(i) == IF i = 1 THEN GENESIS ELSE chain[i - 1].digest_of_entry

EntryProblemsLinkOnly(i) ==     \* mutant: the loop checks links, not contents
  LET e == chain[i] IN
    (IF e.seq # i THEN {"sequence-gap"} ELSE {})
    \cup (IF e.prev # ExpectedPrev(i) THEN {"broken-link"} ELSE {})

(* One pass of verify_chain's loop: everything wrong with entry i. *)
EntryProblems(i) ==
  LET e == chain[i] IN
    (IF e.seq # i THEN {"sequence-gap"} ELSE {})
    \cup (IF e.prev # ExpectedPrev(i) THEN {"broken-link"} ELSE {})
    \cup (IF e.digest_of_entry # entry_digest(e.seq, e.filename, e.digest, e.prev)
          THEN {"entry-altered"} ELSE {})
    \cup (IF files[e.filename] = "absent" THEN {"missing-snapshot"} ELSE {})
    \cup (IF files[e.filename] \notin {"absent", e.digest} THEN {"snapshot-altered"} ELSE {})

Unchained == {f \in Names : files[f] # "absent" /\ f \notin Recorded}

verify_chain ==
  (UNION {EntryProblems(i) : i \in 1..Len(chain)})
    \cup (IF Unchained # {} THEN {"unchained-snapshot"} ELSE {})

(* ChainVerification.ok; a chain that cannot be read is not ok either. *)
VerifiesOk == Readable /\ verify_chain = {}

-----------------------------------------------------------------------------
(* HistoryStore.save.                                                      *)

Init ==
  /\ scenario \in Scenarios
  /\ files = [f \in Names |-> "absent"]
  /\ chain = <<>>
  /\ unterminated = FALSE
  /\ pc = [s \in Savers |-> "idle"]
  /\ planned = [s \in Savers |-> NoEntry]
  /\ accidents = <<>>
  /\ anchored = NoAnchor

Active == {s \in Savers : pc[s] \in {"writing", "chaining", "appending"}}

Goto(s, step) == pc' = [pc EXCEPT ![s] = step]

(* write_text opens the file, which creates it empty, ... *)
CreateFile(s) ==
  /\ pc[s] = "idle"
  /\ scenario.concurrent \/ Active = {}
  /\ files' = [files EXCEPT ![s] = "partial"]
  /\ Goto(s, "writing")
  /\ UNCHANGED <<scenario, chain, unterminated, planned, accidents, anchored>>

(* ... and then fills it. *)
WriteFile(s) ==
  /\ pc[s] = "writing"
  /\ files' = [files EXCEPT ![s] = "whole"]
  /\ Goto(s, "chaining")
  /\ UNCHANGED <<scenario, chain, unterminated, planned, accidents, anchored>>

PlanEntryFromZero(s) ==         \* mutant: off by one, seq = len(existing)
  /\ pc[s] = "chaining" /\ files[s] # "absent" /\ Readable
  /\ planned' = [planned EXCEPT ![s] =
                   ChainEntry(Len(chain), s, files[s], head_digest(chain))]
  /\ Goto(s, "appending")
  /\ UNCHANGED <<scenario, files, chain, unterminated, accidents, anchored>>

(* append_entry up to its open(): digest the file, read the chain, compute *)
(* the next entry from what was read.                                      *)
PlanEntry(s) ==
  /\ pc[s] = "chaining"
  /\ files[s] # "absent"
  /\ Readable
  /\ planned' = [planned EXCEPT ![s] =
                   ChainEntry(Len(chain) + 1, s, files[s], head_digest(chain))]
  /\ Goto(s, "appending")
  /\ UNCHANGED <<scenario, files, chain, unterminated, accidents, anchored>>

GiveUpSaving(s) ==              \* mutant: a file that cannot be chained is removed
  /\ pc[s] = "chaining"
  /\ files[s] = "absent" \/ ~Readable
  /\ files' = [files EXCEPT ![s] = "absent"]
  /\ Goto(s, "done")
  /\ UNCHANGED <<scenario, chain, unterminated, planned, accidents, anchored>>

(* save suppresses ChainError: the snapshot stays, unchained. *)
GiveUpChaining(s) ==
  /\ pc[s] = "chaining"
  /\ files[s] = "absent" \/ ~Readable
  /\ Goto(s, "done")
  /\ UNCHANGED <<scenario, files, chain, unterminated, planned, accidents, anchored>>

(* Text appended to a file whose last line has no newline joins that line. *)
Extend(line) ==
  chain' = IF unterminated THEN [chain EXCEPT ![Len(chain)] = Torn]
           ELSE Append(chain, line)

AppendLine(s) ==
  /\ pc[s] = "appending"
  /\ Extend(planned[s])
  /\ unterminated' = FALSE
  /\ Goto(s, "done")
  /\ UNCHANGED <<scenario, files, planned, accidents, anchored>>

(* The write stops partway: some of the line, or all but its newline. *)
TearLine(s) ==
  /\ scenario.tears
  /\ pc[s] = "appending"
  /\ \E line \in {Torn, planned[s]} : Extend(line)
  /\ unterminated' = TRUE
  /\ Goto(s, "crashed")
  /\ UNCHANGED <<scenario, files, planned, accidents, anchored>>

Crash(s) ==
  /\ s \in Active
  /\ Goto(s, "crashed")
  /\ UNCHANGED <<scenario, files, chain, unterminated, planned, accidents, anchored>>

-----------------------------------------------------------------------------
(* What happens to the directory besides.                                  *)

Accident(kind) ==
  /\ kind \in scenario.kinds
  /\ Len(accidents) < scenario.max
  /\ accidents' = Append(accidents, kind)
  /\ UNCHANGED <<scenario, pc, planned, anchored>>

FileAccident(kind, f, content) ==
  /\ Accident(kind)
  /\ files' = [files EXCEPT ![f] = content]
  /\ UNCHANGED <<chain, unterminated>>

ChainAccident(kind, newChain) ==
  /\ Accident(kind)
  /\ chain' = newChain
  /\ UNCHANGED <<files, unterminated>>

Without(i) == SubSeq(chain, 1, i - 1) \o SubSeq(chain, i + 1, Len(chain))

(* A chain written from scratch over files that are in the directory. *)
Rebuilt(order) ==
  LET entries[n \in 0..Len(order)] ==
        IF n = 0 THEN <<>>
        ELSE Append(entries[n - 1],
                    ChainEntry(n, order[n], files[order[n]], head_digest(entries[n - 1])))
  IN  entries[Len(order)]

FileAccidents ==
  \/ \E s \in Recorded \ {Stray} : /\ files[s] = "whole"
                                   /\ FileAccident("edit_snapshot", s, "edited")
  \/ \E s \in Recorded : /\ files[s] # "absent"
                         /\ FileAccident("delete_snapshot", s, "absent")
  \/ files[Stray] = "absent" /\ FileAccident("copy_in", Stray, "whole")

ChainAccidents ==
  \E i \in 1..Len(chain) :
    \/ /\ chain[i].digest = "whole"
       /\ ChainAccident("edit_entry", [chain EXCEPT ![i].digest = "edited"])
    \/ ChainAccident("drop_entry", Without(i))
    \/ /\ i < Len(chain)
       /\ ChainAccident("swap_entries",
                        [chain EXCEPT ![i] = chain[i + 1], ![i + 1] = chain[i]])
    \/ /\ Accident("delete_record")
       /\ files' = [files EXCEPT ![chain[i].filename] = "absent"]
       /\ chain' = Without(i)
       /\ UNCHANGED unterminated

Rebuild ==
  \E n \in 1..Cardinality(Names) :
    \E order \in [1..n -> {f \in Names : files[f] # "absent"}] :
      /\ \A i, j \in 1..n : order[i] = order[j] => i = j
      /\ ChainAccident("rebuild", Rebuilt(order))

(* Somebody records the head outside the directory. *)
Anchor ==
  /\ anchored = NoAnchor
  /\ VerifiesOk
  /\ chain # <<>>
  /\ anchored' = chain
  /\ UNCHANGED <<scenario, files, chain, unterminated, pc, planned, accidents>>

SaverStep(s) ==
  \/ CreateFile(s) \/ WriteFile(s) \/ PlanEntry(s) \/ GiveUpChaining(s)
  \/ AppendLine(s) \/ TearLine(s) \/ Crash(s)

Next ==
  \/ \E s \in Savers : SaverStep(s)
  \/ FileAccidents
  \/ Readable /\ ChainAccidents
  \/ Rebuild
  \/ Anchor

Spec == Init /\ [][Next]_vars

-----------------------------------------------------------------------------
(* Properties.                                                             *)

IsEntry(e) ==
  /\ DOMAIN e = {"seq", "filename", "digest", "prev", "digest_of_entry"}
  /\ e.seq \in Nat \ {0}
  /\ e.filename \in Names
  /\ e.digest \in Contents \ {"absent"}

(* Every variable holds a value the code could give it. *)
TypeOK ==
  /\ files \in [Names -> Contents]
  /\ \A i \in 1..Len(chain) : chain[i] = Torn \/ IsEntry(chain[i])
  /\ unterminated \in BOOLEAN
  /\ pc \in [Savers -> Steps]
  /\ \A s \in Savers : planned[s] = NoEntry \/ IsEntry(planned[s])
  /\ scenario \in Scenarios
  /\ accidents \in Seq(scenario.kinds) /\ Len(accidents) <= scenario.max

Untouched == accidents = <<>>

(* Saves made one after the other, none of which stopped halfway in a line. *)
Orderly == ~scenario.concurrent /\ ~scenario.tears

(* "A chain that cannot be appended to must not cost the user their        *)
(* snapshot.  The break is reported by `devrepro history --verify`": a     *)
(* save that ran to its end left the whole file, and the file is either    *)
(* chained or makes the verification fail.                                 *)
SavesAreKept ==
  Untouched =>
    \A s \in Savers : pc[s] = "done" =>
      /\ files[s] = "whole"
      /\ s \in Recorded \/ ~VerifiesOk

(* Overlapping saves may spoil each other's links, never each other's      *)
(* records: what an untouched chain says of a file is what the file holds. *)
RecordsMatchFiles ==
  (Untouched /\ Readable) =>
    verify_chain \cap {"entry-altered", "missing-snapshot", "snapshot-altered"} = {}

(* Saves made one after the other, some of which died, verify: the only    *)
(* thing reported is a file of a save that is under way or died.           *)
QuietHistoryVerifies ==
  (Orderly /\ Untouched) =>
    /\ Readable
    /\ verify_chain \subseteq {"unchained-snapshot"}
    /\ \A f \in Unchained : pc[f] # "done"

(* "It detects edits, deletions and reordering": one accident to the       *)
(* files or to the chain is reported ever after, whatever is saved before, *)
(* meanwhile and later, overlapping or not.                                *)
(* A record deleted together with its file at the end of the chain, and a  *)
(* chain rebuilt from scratch, are not such accidents: nothing inside the  *)
(* directory can tell.                                                     *)
OneAccidentIsDetected ==
  /\ ~scenario.tears
  /\ Len(accidents) = 1 /\ accidents[1] \notin {"delete_record", "rebuild"}
  => ~VerifiesOk

(* "Everything up to it becomes fixed": in a chain that verifies and still *)
(* has the anchored head, all entries up to it are the anchored ones, even *)
(* if the chain was rebuilt in between.                                    *)
AnchorFixesHistory ==
  (anchored # NoAnchor /\ VerifiesOk) =>
    \A i \in 1..Len(chain) :
      chain[i].digest_of_entry = head_digest(anchored) => SubSeq(chain, 1, i) = anchored

(* "A record was removed or reordered", "the history was edited at or      *)
(* before this point": what verify_chain says of a gap or a broken link.   *)
AccusationsAreTrue ==
  (Readable /\ verify_chain \cap {"sequence-gap", "broken-link"} # {}) => ~Untouched

(* "A crash halfway through leaves a chain that is short rather than a     *)
(* chain that is wrong."                                                   *)
CrashLeavesShortChain == Untouched => Readable

(* A save costs nobody a snapshot or a record, however saves overlap       *)
(* (snapshots/history.py, save).                                           *)
SavesAreRecorded == TypeOK /\ SavesAreKept /\ RecordsMatchFiles

(* What is done to a history shows (snapshots/chain.py, verify_chain).     *)
TamperIsEvident == OneAccidentIsDetected /\ AnchorFixesHistory

==============================================================================
