---------------------------- MODULE BackupRestore ----------------------------
(***************************************************************************)
(* `devrepro server-backup` and `server-restore` (devrepro/server/backup.py)*)
(* around a fleet server that goes on writing its SQLite database, dies and *)
(* comes back, while files are lost and archives are damaged.  Neither     *)
(* command asks whether the server runs: it may do anything meanwhile, and *)
(* may be started in the middle of a restore.                              *)
(*                                                                         *)
(* The server opens its database without any PRAGMA, so SQLite keeps a     *)
(* rollback journal beside the file: no -wal and no -shm ever exist, and   *)
(* the journal is not among the files a backup archives.                   *)
(***************************************************************************)
EXTENDS Integers

CONSTANTS
  Pages,        \* pages of the database file
  None,         \* no file, no journal, no archive, nothing read
  Missing,      \* a page beyond the end of a file being restored
  Garbage,      \* bytes nobody wrote
  Damages,      \* what may happen to an archive
  MaxWrites,    \* bound: transactions
  MaxFaults     \* bound: crashes, losses, damages

VARIABLES
  file,       \* fleet.db: what each page holds, or None
  journal,    \* fleet.db-journal: the old pages the open transaction has
              \* overwritten (None: not this one), or None
  server,     \* "down", "idle", "writing"
  writes,     \* transactions so far
  faults,     \* faults so far
  copy,       \* server-backup: the pages read so far, or None when not running
  calm,       \* history: the database as the backup began, None once it is written to
  committed,  \* history: the databases the server has committed or made
  archive,    \* the archive on disk, or None
  restore,    \* server-restore: the archive as it was verified, or None
  left,       \* pages it has still to write
  alone,      \* history: the server has been down since the restore began
  trusted,    \* history: every archive restored so far declared what it holds
  promised    \* history: the last restore that was finished alone, or None

dbVars        == <<file, journal, server, writes, committed>>
backupVars    == <<copy, calm, archive>>
restoreVars   == <<restore, left, alone, trusted>>
allBackupVars == <<dbVars, faults, backupVars, restoreVars, promised>>

Contents == [Pages -> (0..MaxWrites) \cup {None, Missing, Garbage}]

ASSUME ConstantAssumption ==
  /\ MaxWrites \in Nat /\ MaxFaults \in Nat
  /\ Missing \notin Nat /\ Garbage \notin Nat \cup {None, Missing} /\ None # Missing
  /\ None \notin Nat \cup Contents
  /\ Damages \subseteq {"member", "stream", "manifest", "declarations"}

Blank  == [p \in Pages |-> 0]
Unread == [p \in Pages |-> None]
Empty  == [p \in Pages |-> Missing]

(* An archive that is refused for what it is, whatever was in it.          *)
Refused(form) == [member |-> Empty, digest |-> Empty, form |-> form, saves |-> None]

Holds(content, hole) == \A p \in Pages: content[p] # hole

(* What SQLite makes of a file with a journal beside it: the old pages.    *)
Recovered ==
  IF journal = None THEN file
  ELSE [p \in Pages |-> IF journal[p] = None THEN file[p] ELSE journal[p]]

BackupInit ==
  /\ file = Blank /\ journal = None /\ server = "idle" /\ writes = 0 /\ faults = 0
  /\ committed = {Blank, Empty}
  /\ copy = None /\ calm = None /\ archive = None
  /\ restore = None /\ left = {} /\ alone = FALSE /\ trusted = TRUE /\ promised = None

-----------------------------------------------------------------------------
(* The server (FleetDB and SQLite's rollback journal).                     *)

(* ServerDB.__init__ connects: a journal left by a crash is played back,   *)
(* or dropped beside a database that is empty or had to be created.        *)
Open ==
  /\ server = "down"
  /\ server' = "idle" /\ journal' = None
  /\ file' = IF file \in {None, Empty} THEN Empty ELSE Recovered
  /\ alone' = FALSE
  /\ UNCHANGED <<writes, committed, faults, backupVars, restore, left, trusted, promised>>

Begin ==
  /\ server = "idle" /\ writes < MaxWrites
  /\ server' = "writing" /\ journal' = Unread /\ writes' = writes + 1
  /\ UNCHANGED <<file, committed, faults, backupVars, restoreVars, promised>>

WritePage(p) ==
  /\ server = "writing"
  /\ journal' = IF journal[p] = None THEN [journal EXCEPT ![p] = file[p]] ELSE journal
  /\ file' = [file EXCEPT ![p] = writes]
  /\ calm' = None
  /\ UNCHANGED <<server, writes, committed, faults, copy, archive, restoreVars, promised>>

(* tx: COMMIT deletes the journal, ROLLBACK plays it back first.           *)
EndTx ==
  /\ server = "writing"
  /\ server' = "idle" /\ journal' = None
  /\ \/ /\ committed' = committed \cup {file} /\ promised' = None
        /\ UNCHANGED file
     \/ /\ file' = Recovered
        /\ UNCHANGED <<committed, promised>>
  /\ UNCHANGED <<writes, faults, backupVars, restoreVars>>

Stop ==
  /\ server = "idle" /\ server' = "down"
  /\ UNCHANGED <<file, journal, writes, committed, faults, backupVars, restoreVars, promised>>

-----------------------------------------------------------------------------
(* Faults.                                                                 *)

Fault == faults < MaxFaults /\ faults' = faults + 1

ServerDies ==
  /\ Fault /\ server = "writing" /\ server' = "down"
  /\ UNCHANGED <<file, journal, writes, committed, backupVars, restoreVars, promised>>

(* The file alone is lost, or its directory with everything beside it.     *)
DatabaseIsLost ==
  /\ Fault /\ server = "down" /\ file # None /\ restore = None /\ copy = None
  /\ file' = None /\ journal' \in {journal, None} /\ promised' = None
  /\ UNCHANGED <<server, writes, committed, backupVars, restoreVars>>

(* Bytes of the archive change: in a member, in the compressed stream, in  *)
(* the manifest, which is then no manifest any more or one that declares   *)
(* nothing of the database, and stands for nothing.                        *)
ArchiveIsDamaged ==
  /\ Fault /\ archive # None /\ archive.form = "whole"
  /\ \/ /\ "member" \in Damages
        /\ \E p \in Pages: archive' = [archive EXCEPT !.member[p] = Garbage]
     \/ "stream" \in Damages /\ archive' = Refused("unreadable")
     \/ "manifest" \in Damages /\ archive' = Refused("no manifest object")
     \/ "declarations" \in Damages /\ archive' = [archive EXCEPT !.digest = None, !.saves = None]
  /\ UNCHANGED <<dbVars, copy, calm, restoreVars, promised>>

(* write_bytes empties the archive before it writes.                       *)
BackupDies ==
  /\ Fault /\ copy # None
  /\ copy' = None /\ calm' = None
  /\ \/ UNCHANGED archive
     \/ Holds(copy, None) /\ archive' = Refused("unreadable")
  /\ UNCHANGED <<dbVars, restoreVars, promised>>

RestoreDies ==
  /\ Fault /\ restore # None
  /\ restore' = None /\ left' = {} /\ alone' = FALSE
  /\ UNCHANGED <<dbVars, backupVars, trusted, promised>>

-----------------------------------------------------------------------------
(* server-backup: backup_database.                                         *)

StartBackup ==
  /\ copy = None /\ file # None
  /\ copy' = Unread /\ calm' = IF restore = None /\ Recovered = file THEN file ELSE None
  /\ UNCHANGED <<dbVars, faults, archive, restoreVars, promised>>

ReadPage(p) ==
  /\ copy # None /\ copy[p] = None
  /\ copy' = [copy EXCEPT ![p] = file[p]]
  /\ UNCHANGED <<dbVars, faults, calm, archive, restoreVars, promised>>

(* The manifest is computed from the bytes read; the archive is written    *)
(* over whatever bore its name.  `saves` is history: the state the archive *)
(* stands for, when nothing wrote to the file as it was read.              *)
WriteArchive ==
  /\ copy # None /\ Holds(copy, None)
  /\ archive' = [member |-> copy, digest |-> copy, form |-> "whole", saves |-> calm]
  /\ copy' = None /\ calm' = None
  /\ UNCHANGED <<dbVars, faults, restoreVars, promised>>

-----------------------------------------------------------------------------
(* server-restore: restore_database.                                       *)

(* Mutant: names are checked and checksums are not.                        *)
VerifiesNames(a) == a.form = "whole"

(* Readable, a manifest object, and what it declares has its digest.       *)
Verifies(a) == a.form = "whole" /\ a.digest \in {None, a.member}

(* What is declared is verified before the target is opened for writing,   *)
(* which empties it.                                                       *)
StartRestore(overwrite) ==
  /\ restore = None
  /\ archive # None /\ (file = None \/ overwrite)
  /\ Verifies(archive)
  /\ restore' = archive /\ left' = Pages /\ alone' = (server = "down")
  /\ trusted' = (trusted /\ archive.digest # None)
  /\ file' = Empty /\ calm' = None /\ promised' = None
  /\ UNCHANGED <<journal, server, writes, committed, faults, copy, archive>>

(* Every member is written, declared or not.                               *)
RestorePage(p) ==
  /\ restore # None /\ p \in left
  /\ file' = [file EXCEPT ![p] = restore.member[p]]
  /\ left' = left \ {p}
  /\ calm' = None
  /\ UNCHANGED <<journal, server, writes, committed, faults, copy, archive, restore, alone, trusted, promised>>

(* What a finished restore stands for, if the server was down for all of   *)
(* it; `clear`, if no journal of the replaced database is left beside it.  *)
Promise ==
  IF alone THEN [placed |-> restore.member, saves |-> restore.saves, clear |-> journal = None]
  ELSE None

(* Mutant: a short write is taken for a finished restore.                  *)
FinishRestoreEarly ==
  /\ restore # None
  /\ restore' = None /\ left' = {} /\ alone' = FALSE /\ promised' = Promise
  /\ UNCHANGED <<dbVars, faults, backupVars, trusted>>

(* A journal of the lost or replaced database stays where it was.          *)
FinishRestore ==
  /\ restore # None /\ left = {}
  /\ restore' = None /\ alone' = FALSE /\ promised' = Promise
  /\ UNCHANGED <<dbVars, faults, backupVars, left, trusted>>

-----------------------------------------------------------------------------
BackupNext ==
  \/ Open \/ Begin \/ EndTx \/ Stop
  \/ ServerDies \/ DatabaseIsLost \/ ArchiveIsDamaged \/ BackupDies \/ RestoreDies
  \/ StartBackup \/ WriteArchive \/ FinishRestore
  \/ \E p \in Pages: WritePage(p) \/ ReadPage(p) \/ RestorePage(p)
  \/ \E overwrite \in BOOLEAN: StartRestore(overwrite)

BackupSpec == BackupInit /\ [][BackupNext]_allBackupVars

-----------------------------------------------------------------------------
(* Every variable keeps its range; the server has a journal while, and     *)
(* only while, a transaction is open.                                      *)
BackupTypeOK ==
  /\ {file, journal, copy, calm} \subseteq Contents \cup {None}
  /\ server \in {"down", "idle", "writing"}
  /\ writes \in 0..MaxWrites /\ faults \in 0..MaxFaults
  /\ (server = "writing" => journal # None) /\ (server = "idle" => journal = None)
  /\ left \subseteq Pages /\ (restore = None => left = {}) /\ {alone, trusted} \subseteq BOOLEAN

(* "a corrupted or truncated archive can never replace a working          *)
(* database" (backup.py:5).  Not so of an archive that declares nothing of *)
(* the database: the loop at backup.py:143 verifies what is declared, and  *)
(* the one at backup.py:162 writes every member.                           *)
CorruptNeverReplaces == file # None => Holds(file, Garbage)

(* The database is always one the server wrote: whatever is damaged,       *)
(* whoever writes at the same time, and wherever commands die, no byte     *)
(* that the server did not write ever gets into it, unless an archive that *)
(* declared nothing was restored.                                          *)
DatabaseIsSound == BackupTypeOK /\ (trusted => CorruptNeverReplaces)

(* A restore that was finished while the server was down, with no journal  *)
(* beside the file, brings back exactly what the archive saves, if nothing *)
(* wrote to the database as it was backed up: whatever died before,        *)
(* another restore included, and however often the server dies in a        *)
(* transaction afterwards.  Only a later commit replaces it.               *)
RoundTrip ==
  promised # None /\ promised.clear /\ promised.saves # None => Recovered = promised.saves

(* "can never replace a working database" (backup.py:4): what an archive   *)
(* that verifies puts in the place of a database is one the server had     *)
(* committed.  Not so when a transaction wrote between the reads of two    *)
(* pages: the torn copy bears the digest of itself.                        *)
ReplacesByWorkingDatabase ==
  promised # None /\ promised.clear => promised.placed \in committed

(* "Verify *archive* checksums, then place its database at *target_db*"    *)
(* (backup.py:84): what the server finds is what was archived.  Not so     *)
(* when a transaction had died: its journal is played into the new file.   *)
PlacesTheArchive ==
  promised # None /\ promised.saves # None => Recovered = promised.saves

=============================================================================
