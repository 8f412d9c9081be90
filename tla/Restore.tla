------------------------------- MODULE Restore -------------------------------
(***************************************************************************)
(* Losing and getting back the database: the nightly snapshot and its        *)
(* retention, a restore from the control room, from the root helper or by    *)
(* hand while other processes write, and the migrations that bring an older  *)
(* snapshot up to the code that runs.                                        *)
(*                                                                         *)
(* A database is kept as the writes committed to it and, for each migration, *)
(* how many of its statements have run and whether it is marked as applied.  *)
(***************************************************************************)
EXTENDS Nothing, Naturals, FiniteSets

CONSTANTS
    Writes,                 \* what the web service and the scans commit
    Migrations,             \* the files of store/migrations, 1..n
    Statements,             \* how many statements each has
    LeftRun,                \* how many an older build may have run without the marker
    Days,                   \* bound: the days there are
    RetainDays,             \* snapshots older than this are pruned
    MaxRestores,            \* bound on restores asked for
    Absent, Corrupt, Mixed  \* a database file that is missing, malformed, or
                            \* a restored file read with the old one's WAL

VARIABLES
    live,           \* the live database
    wal,            \* is a write-ahead log left beside it that is not its own?
    nightlyCopies,  \* the backup directory: the snapshot of each day
    safety,         \* the safety copies in it, by the day they were made
    night,
    scanning,       \* is the morning scan running?
    tx,             \* the write transaction that is open: what it saw, what it adds
    restoring,      \* the restore under way
    restoresAsked,  \* restores so far
    putBack, since, \* history: the last installed database, the writes since
    before          \* history: what the live database held when a restore was confirmed

restoreVars == <<live, wal, nightlyCopies, safety, night, scanning, tx, restoring,
                 restoresAsked, putBack, since, before>>

Databases == [writes : SUBSET Writes, run : [Migrations -> 0..Statements],
              marked : SUBSET Migrations]
WholeDatabase(d) == d \notin {Absent, Corrupt, Mixed, None}
NoRestore == [at |-> "idle"]

ASSUME RestoreAssumption ==
    /\ {Absent, Corrupt, Mixed, None} \cap Databases = {}
    /\ Mixed \notin {Absent, Corrupt, None}
    /\ Migrations \subseteq Nat /\ Statements \in Nat /\ LeftRun \subseteq 0..Statements
    /\ Days \in Nat \ {0} /\ RetainDays \in Nat

------------------------------------------------------------------------------
(* The processes that use the database.                                     *)

\* Db.tx, over the write lock of SQLite: one writer at a time, on the pages it
\* read; a reader is never in the way.
BeginWrite(w) ==
    /\ WholeDatabase(live) /\ tx = None /\ restoring.at # "installing"
    /\ w \notin live.writes
    /\ tx' = [saw |-> live, adds |-> w]
    /\ UNCHANGED <<live, wal, nightlyCopies, safety, night, scanning, restoring,
                   restoresAsked, putBack, since, before>>

CommitWrite ==
    /\ tx # None
    /\ live' = [tx.saw EXCEPT !.writes = @ \cup {tx.adds}]
    /\ since' = since \cup {tx.adds}
    /\ tx' = None
    /\ UNCHANGED <<wal, nightlyCopies, safety, night, scanning, restoring,
                   restoresAsked, putBack, before>>

Rollback ==
    /\ tx # None /\ tx' = None
    /\ UNCHANGED <<live, wal, nightlyCopies, safety, night, scanning, restoring,
                   restoresAsked, putBack, since, before>>

\* Every CLI command and the web service migrate when they open the database.
\* _apply_migration: the statements and the marker commit together; a statement
\* that adds a column which is there already has been run before.
Applied(d, m) == [d EXCEPT !.run = [@ EXCEPT ![m] = Statements], !.marked = @ \cup {m}]

Migrate(m) ==
    /\ WholeDatabase(live) /\ tx = None /\ restoring.at # "installing"
    /\ m \notin live.marked /\ \A k \in Migrations : k < m => k \in live.marked
    /\ live' = Applied(live, m)
    /\ putBack' = Applied(putBack, m)
    /\ UNCHANGED <<wal, nightlyCopies, safety, night, scanning, tx, restoring,
                   restoresAsked, since, before>>

ScanStarts == ~scanning /\ scanning' = TRUE
             /\ UNCHANGED <<live, wal, nightlyCopies, safety, night, tx, restoring,
                            restoresAsked, putBack, since, before>>
ScanEnds   == scanning /\ scanning' = FALSE
             /\ UNCHANGED <<live, wal, nightlyCopies, safety, night, tx, restoring,
                            restoresAsked, putBack, since, before>>

\* The disk: the file is lost or damaged, with or without a log left beside it.
Damage ==
    /\ WholeDatabase(live) /\ tx = None
    /\ \/ live' = Absent /\ wal' = FALSE
       \/ live' = Corrupt /\ wal' \in BOOLEAN
    /\ UNCHANGED <<nightlyCopies, safety, night, scanning, tx, restoring, restoresAsked,
                   putBack, since, before>>

------------------------------------------------------------------------------
(* Snapshots.                                                               *)

\* Pruned after the new snapshot is on disk, safety copies by the same name
\* pattern.
KeptSnapshots(d) == d + RetainDays >= night

\* deploy/backup.sh: written under another name and moved into place.
NightlyBackup ==
    /\ WholeDatabase(live)
    /\ nightlyCopies' = [d \in 1..Days |->
                            CASE d = night -> live
                              [] d # night /\ KeptSnapshots(d) -> nightlyCopies[d]
                              [] OTHER -> None]
    /\ safety' = {c \in safety : KeptSnapshots(c.day)}
    /\ UNCHANGED <<live, wal, night, scanning, tx, restoring, restoresAsked, putBack,
                   since, before>>

\* founder-radar db backup writes to the name itself: stopped half way it
\* leaves no database under today's date.
BackupStopped ==
    /\ WholeDatabase(live) /\ nightlyCopies[night] = None
    /\ nightlyCopies' = [nightlyCopies EXCEPT ![night] = Corrupt]
    /\ UNCHANGED <<live, wal, safety, night, scanning, tx, restoring, restoresAsked,
                   putBack, since, before>>

NextNight == night < Days /\ night' = night + 1
           /\ UNCHANGED <<live, wal, nightlyCopies, safety, scanning, tx, restoring,
                          restoresAsked, putBack, since, before>>

------------------------------------------------------------------------------
(* A restore.                                                               *)

Refused == /\ restoring' = NoRestore /\ before' = None
           /\ UNCHANGED <<live, wal, nightlyCopies, safety, night, scanning, tx,
                          restoresAsked, putBack, since>>

\* restore_snapshot, and restore_db of rollback.sh: the date is confirmed, the
\* file is there, and no scan is running just then.
Request(d) ==
    /\ restoring = NoRestore /\ restoresAsked < MaxRestores
    /\ nightlyCopies[d] # None
    /\ ~scanning
    /\ restoring' = [at |-> "confirmed", date |-> d] /\ restoresAsked' = restoresAsked + 1
    /\ before' = IF WholeDatabase(live) THEN [day |-> night, writes |-> live.writes] ELSE None
    /\ UNCHANGED <<live, wal, nightlyCopies, safety, night, scanning, tx, putBack, since>>

\* founder-radar db restore: neither asks for the scan nor makes a copy.
RequestByHand(d) ==
    /\ restoring = NoRestore /\ restoresAsked < MaxRestores
    /\ nightlyCopies[d] # None
    /\ restoring' = [at |-> "copied", date |-> d] /\ restoresAsked' = restoresAsked + 1
    /\ before' = None
    /\ UNCHANGED <<live, wal, nightlyCopies, safety, night, scanning, tx, putBack, since>>

\* _safety_copy, of what is committed; without a database to read it raises.
SafetyCopy ==
    /\ restoring.at = "confirmed"
    /\ \/ ~WholeDatabase(live) /\ Refused
       \/ /\ WholeDatabase(live)
          /\ safety' = safety \cup {[day |-> night, of |-> live]}
          /\ restoring' = [restoring EXCEPT !.at = "copied"]
          /\ UNCHANGED <<live, wal, nightlyCopies, night, scanning, tx, restoresAsked,
                         putBack, since, before>>

\* _copy_and_verify: the temporary copy passes integrity_check and is one of ours.
Verify ==
    /\ restoring.at = "copied"
    /\ \/ ~WholeDatabase(nightlyCopies[restoring.date]) /\ Refused
       \/ /\ WholeDatabase(nightlyCopies[restoring.date])
          /\ restoring' = [at |-> "verified", copy |-> nightlyCopies[restoring.date]]
          /\ UNCHANGED <<live, wal, nightlyCopies, safety, night, scanning, tx,
                         restoresAsked, putBack, since, before>>

NeverBusy == FALSE

\* _lock_live_database: an open write transaction that does not end within the
\* timeout refuses the restore.
WriterHolds == tx # None

Lock ==
    /\ restoring.at = "verified"
    /\ \/ WholeDatabase(live) /\ WriterHolds /\ Refused
       \/ /\ ~(WholeDatabase(live) /\ WriterHolds)
          /\ restoring' = [restoring EXCEPT
                              !.at = IF WholeDatabase(live) THEN "unlocked" ELSE "replacing"]
          /\ UNCHANGED <<live, wal, nightlyCopies, safety, night, scanning, tx,
                         restoresAsked, putBack, since, before>>

\* The first lock is given back; SQLite's backup takes the write lock itself,
\* or meets a writer that came in between and is refused.
TakeWriteLock ==
    /\ restoring.at = "unlocked"
    /\ \/ WriterHolds /\ Refused
       \/ /\ ~WriterHolds
          /\ restoring' = [restoring EXCEPT !.at = "installing"]
          /\ UNCHANGED <<live, wal, nightlyCopies, safety, night, scanning, tx,
                         restoresAsked, putBack, since, before>>

InstallCopy(file, next) ==
    /\ live' = file /\ putBack' = restoring.copy /\ since' = {}
    /\ restoring' = next
    /\ UNCHANGED <<wal, nightlyCopies, safety, night, scanning, tx, restoresAsked, before>>

\* The pages arrive in one transaction of the destination.
BackUpInto == restoring.at = "installing" /\ InstallCopy(restoring.copy, NoRestore)

\* No valid database to protect: the copy takes its place.  With the old file's
\* log still beside it, whoever opens it reads the two together.
Replace ==
    /\ restoring.at = "replacing"
    /\ InstallCopy(IF wal THEN Mixed ELSE restoring.copy, [restoring EXCEPT !.at = "replaced"])

\* The log goes after it.
DropWal ==
    /\ restoring.at = "replaced"
    /\ live' = IF live = Mixed THEN restoring.copy ELSE live
    /\ wal' = FALSE /\ restoring' = NoRestore
    /\ UNCHANGED <<nightlyCopies, safety, night, scanning, tx, restoresAsked, putBack, since,
                   before>>

\* The process dies.  An open backup transaction is rolled back; a log that was
\* not dropped stays.
Crash ==
    /\ restoring # NoRestore
    /\ restoring' = NoRestore
    /\ before' = None
    /\ UNCHANGED <<live, wal, nightlyCopies, safety, night, scanning, tx, restoresAsked,
                   putBack, since>>

------------------------------------------------------------------------------

\* An older build ran the statements one by one and the marker after them: it
\* may have left some of the first migration's run, and no marker.
Old(k) == [writes |-> {}, run |-> [m \in Migrations |-> IF m = 1 THEN k ELSE 0], marked |-> {}]

RestoreInit ==
    /\ live \in {Old(k) : k \in LeftRun} /\ wal = FALSE
    /\ nightlyCopies = [d \in 1..Days |-> None] /\ safety = {}
    /\ night = 1 /\ scanning = FALSE /\ tx = None /\ restoring = NoRestore /\ restoresAsked = 0
    /\ putBack = live /\ since = {} /\ before = None

RestoreNext ==
    \/ \E w \in Writes : BeginWrite(w)
    \/ CommitWrite \/ Rollback \/ ScanStarts \/ ScanEnds \/ Damage
    \/ \E m \in Migrations : Migrate(m)
    \/ NightlyBackup \/ BackupStopped \/ NextNight
    \/ \E d \in 1..Days : Request(d) \/ RequestByHand(d)
    \/ SafetyCopy \/ Verify \/ Lock \/ TakeWriteLock \/ BackUpInto \/ Replace \/ DropWal
    \/ Crash

RestoreSpec == RestoreInit /\ [][RestoreNext]_restoreVars

------------------------------------------------------------------------------
(* Properties.                                                              *)

RestoreTypeOK ==
    /\ live \in Databases \cup {Absent, Corrupt, Mixed}
    /\ putBack \in Databases /\ since \subseteq Writes
    /\ \A d \in 1..Days : nightlyCopies[d] \in Databases \cup {Corrupt, None}
    /\ \A c \in safety : c.day \in 1..Days /\ c.of \in Databases

\* The database is one that was installed whole and the writes committed since,
\* whatever was open, refused, stopped or retried on the way: no writer commits
\* pages of the database it replaced, no half of a copy is seen.
LiveIsWhole ==
    WholeDatabase(live) => live = [putBack EXCEPT !.writes = @ \cup since]

\* A migration is marked only with every statement run, in the live database
\* and in every copy, although some were left half run and unmarked.
MarkedIsRun ==
    \A d \in {live, putBack} \cup {c.of : c \in safety} \cup {nightlyCopies[k] : k \in 1..Days} :
        WholeDatabase(d) => \A m \in d.marked : d.run[m] = Statements

\* What was committed when a restore was confirmed in the control room is in a
\* safety copy from before the database is touched until it is old.
OldWritesAreCopied ==
    before # None /\ restoring.at # "confirmed" /\ before.day + RetainDays >= night =>
        \E c \in safety : before.writes \subseteq c.of.writes

RestoreStands == LiveIsWhole /\ MarkedIsRun /\ OldWritesAreCopied

\* "A corrupt or absent destination is installed atomically from the verified
\* temporary copy" (restore_database).
InstalledAtomically == live # Mixed

==============================================================================
