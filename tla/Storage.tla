------------------------------- MODULE Storage -------------------------------
(***************************************************************************)
(* core/database.py (SQLite) and core/backups.py on the disk they share:   *)
(* the live database and the write-ahead log beside it, the copies of an   *)
(* upgrade, and the archives.  Initialisation, upgrade, restore and backup *)
(* proceed by the file operations that survive a crash, one per step; any  *)
(* of them may raise and the process may die between two.                  *)
(*                                                                         *)
(* The bot must be stopped for everything but a backup, as docs/OPERATIONS *)
(* and upgrade_safely() ask, and `Alone' assumes more: that no two command *)
(* lines change the database at once, which no document asks for.  Nothing *)
(* in the code enforces either.                                            *)
(***************************************************************************)
EXTENDS Integers, FiniteSets

CONSTANTS
  None,
  Processes,       \* command lines, and the bot's thread for `db backup'
  DataFiles,       \* what lies below paths.data_root
  Head,            \* the schema revision of this release
  Packs,           \* backups.compression = "bzip3"
  MaxClock,        \* bound: the seconds that staging paths are named after
  MaxWrites, MaxFaults   \* bounds

VARIABLES
  live,       \* the file database.path, or None
  wal,        \* the -wal beside it, or None; "of" says whether it belongs to it
  data,       \* which write each data file holds
  previous, candidate, prepared,  \* [second -> file]: an upgrade's copies
  temporary,  \* the file .restore.tmp
  tar, bz3,   \* [second -> archive]: the backup directory
  bot,        \* "down", "up", or "writing": its connection is not closed yet
  proc,       \* what each process is at
  clock, written, faults,
  truth,      \* the writes that the database must hold
  reported,   \* [second -> archive]: what create() returned
  mispaired   \* has a restore ended between its rename and its unlinks
              \* (or restored an archive made after that)?

disk == <<live, wal, data, previous, candidate, prepared, temporary, tar, bz3>>
ghosts == <<truth, reported, mispaired>>
vars == <<disk, bot, proc, clock, written, faults, ghosts>>

Seconds == 0..MaxClock
Writes == 1..MaxWrites

(* A schema of -1 is a file without tables.                                *)
Database ==
  [schema : -1..Head, name : {"me", "other", None}, rows : SUBSET Writes,
   whole : BOOLEAN]
Archive ==
  [db : Database, data : [DataFiles -> 0..MaxWrites],
   members : SUBSET ({"db"} \cup DataFiles)]

Log == [of : {"live", "gone"}, rows : SUBSET Writes]

ASSUME StorageAssumption ==
  /\ Head \in Nat \ {0} /\ Packs \in BOOLEAN
  /\ MaxClock \in Nat \ {0} /\ MaxWrites \in Nat \ {0} /\ MaxFaults \in Nat
  /\ None \notin Database \cup Archive \cup Log

Members == {"db"} \cup DataFiles
Complete(a) == a /= None /\ a.members = Members

UpgradeSteps ==
  {"copy", "candidate", "migrate", "prepare", "validate", "replace", "sidecars",
   "verify"}
RestoreSteps == {"r_copy", "r_replace", "r_sidecars", "r_data"}
InitSteps == {"schema", "name"}
BackupSteps ==
  {"b_snapshot", "b_data", "b_tar", "b_fill", "b_pack", "b_packed", "b_unlink"}

Work ==
  [at : {"idle"} \cup UpgradeSteps \cup RestoreSteps \cup InitSteps \cup BackupSteps,
   second : Seconds, was : Database \cup {None},
   archive : Archive \cup {None}, withData : BOOLEAN, left : SUBSET DataFiles]

TypeOK ==
  /\ live \in Database \cup {None} /\ temporary \in Database \cup {None}
  /\ wal \in Log \cup {None}
  /\ data \in [DataFiles -> 0..MaxWrites]
  /\ \A copies \in {previous, candidate, prepared} :
       copies \in [Seconds -> Database \cup {None}]
  /\ \A archives \in {tar, bz3, reported} : archives \in [Seconds -> Archive \cup {None}]
  /\ bot \in {"down", "up", "writing"} /\ truth \subseteq Writes
  /\ proc \in [Processes -> Work]
  /\ clock \in Seconds /\ written \in 0..MaxWrites /\ faults \in 0..MaxFaults
  /\ mispaired \in BOOLEAN

(***************************************************************************)
(* What SQLite reads.  A log that is left beside another file than the one *)
(* it was written for is replayed into that file.                          *)
(***************************************************************************)
Read(file, log) ==
  CASE file = None \/ log = None -> file
    [] OTHER -> IF log.of = "live" THEN [file EXCEPT !.rows = @ \cup log.rows]
                                   ELSE [file EXCEPT !.whole = FALSE]

View == Read(live, wal)

(* The last writable connection that closes moves the log into the file.   *)
CloseWritable ==
  IF bot = "writing" THEN UNCHANGED <<live, wal>>
                     ELSE live' = View /\ wal' = None

MigrationRequired(db) == db.schema < Head

Known(db) == db /= None /\ db.schema >= 0

(* check(): may it answer ok?  quick_check need not notice a mixed file.   *)
Checks(ok) ==
  LET fits == View /= None /\ View.schema = Head /\ View.name = "me" IN
  IF ok THEN fits ELSE fits => ~View.whole

Idle == [at |-> "idle", second |-> 0, was |-> None, archive |-> None,
         withData |-> FALSE, left |-> {}]

Init ==
  /\ live \in {None} \cup
       [schema : {0, Head}, name : {"me", "other"}, rows : {{}}, whole : {TRUE}]
  /\ temporary = None
  /\ \/ wal = None /\ written = 0 /\ truth = {}
     \/ /\ live /= None   \* an earlier release was killed after a commit
        /\ wal = [of |-> "live", rows |-> {1}] /\ written = 1 /\ truth = {1}
  /\ data = [d \in DataFiles |-> 0]
  /\ previous = [s \in Seconds |-> None]
  /\ candidate = previous /\ prepared = previous /\ bz3 = previous /\ reported = previous
  /\ tar = [previous EXCEPT ![0] =   \* made by an earlier release
       [db |-> [schema |-> 0, name |-> "me", rows |-> {}, whole |-> TRUE],
        data |-> data, members |-> Members]]
  /\ bot = "down" /\ proc = [p \in Processes |-> Idle]
  /\ clock = 1 /\ faults = 0 /\ mispaired = FALSE

-----------------------------------------------------------------------------
Move(p, step) == proc' = [proc EXCEPT ![p].at = step]

End(p) == proc' = [proc EXCEPT ![p] = Idle]

Begin(p, work) == proc' = [proc EXCEPT ![p] = work]

Alone(p) == bot = "down" /\ \A q \in Processes : proc[q].at = "idle"

NobodyReplaces ==
  \A q \in Processes : proc[q].at \notin UpgradeSteps \cup RestoreSteps \cup InitSteps

still == UNCHANGED <<data, previous, candidate, prepared, temporary, tar, bz3>>

(***************************************************************************)
(* The bot.  A start checks the database and, when owners are configured,  *)
(* opens it for writing; every write has a connection of its own.          *)
(***************************************************************************)
BotStart ==
  /\ bot = "down" /\ NobodyReplaces /\ Checks(TRUE)
  /\ bot' = "up"
  /\ CloseWritable \/ UNCHANGED <<live, wal>>
  /\ still /\ UNCHANGED <<proc, clock, written, faults, ghosts>>

BotCommit ==
  /\ bot = "up" /\ written < MaxWrites
  /\ bot' = "writing" /\ written' = written + 1
  /\ wal' = IF wal = None THEN [of |-> "live", rows |-> {written'}]
                          ELSE [wal EXCEPT !.rows = @ \cup {written'}]
  /\ truth' = truth \cup {written'}
  /\ still /\ UNCHANGED <<live, proc, clock, faults, reported, mispaired>>

BotClose ==
  /\ bot = "writing"
  /\ bot' = "up" /\ live' = View /\ wal' = None
  /\ still /\ UNCHANGED <<proc, clock, written, faults, ghosts>>

BotWritesData(d) ==
  /\ bot = "up" /\ written < MaxWrites
  /\ written' = written + 1 /\ data' = [data EXCEPT ![d] = written']
  /\ UNCHANGED <<live, wal, previous, candidate, prepared, temporary, tar, bz3,
                 bot, proc, clock, faults, ghosts>>

BotStop ==
  /\ bot = "up" /\ bot' = "down"
  /\ UNCHANGED <<disk, proc, clock, written, faults, ghosts>>

BotCrash ==
  /\ bot = "writing" /\ faults < MaxFaults
  /\ bot' = "down" /\ faults' = faults + 1
  /\ UNCHANGED <<disk, proc, clock, written, ghosts>>

(***************************************************************************)
(* initialize(create=True) of a missing file: the file, the migrations and *)
(* the bot's name are three commits.  One without tables may be empty, and *)
(* is taken up again then.  Of any other file it is an upgrade.            *)
(***************************************************************************)
Initialize(p) ==
  /\ Alone(p)
  /\ \/ /\ live = None
        /\ live' = [schema |-> -1, name |-> None, rows |-> {}, whole |-> TRUE]
     \/ live /= None /\ live.schema = -1 /\ UNCHANGED live
  /\ Move(p, "schema")
  /\ still /\ UNCHANGED <<wal, bot, clock, written, faults, ghosts>>

_initialize_in_place(p) ==
  /\ \/ proc[p].at = "schema" /\ live' = [live EXCEPT !.schema = Head] /\ Move(p, "name")
     \/ proc[p].at = "name" /\ live' = [live EXCEPT !.name = "me"] /\ End(p)
  /\ still /\ UNCHANGED <<wal, bot, clock, written, faults, ghosts>>

(***************************************************************************)
(* upgrade_safely().                                                       *)
(***************************************************************************)
StagingTaken == \E copies \in {previous, candidate, prepared} : copies[clock] /= None

UpgradeBegins(p) ==
  /\ Alone(p) /\ Known(View) /\ MigrationRequired(View) /\ ~StagingTaken
  /\ Begin(p, [Idle EXCEPT !.at = "copy", !.second = clock])
  /\ UNCHANGED <<disk, bot, clock, written, faults, ghosts>>

(* Mutant: the file is copied without its log.                            *)
Snapshot_of_the_file == live

(* create_backup_snapshot(): SQLite's backup API reads through the log.    *)
Snapshot == View

CopyPrevious(p) ==
  /\ proc[p].at = "copy"
  /\ previous' = [previous EXCEPT ![proc[p].second] = Snapshot]
  /\ CloseWritable /\ Move(p, "candidate")
  /\ UNCHANGED <<data, candidate, prepared, temporary, tar, bz3,
                 bot, clock, written, faults, ghosts>>

CopyCandidate(p) ==
  /\ proc[p].at = "candidate"
  /\ candidate' = [candidate EXCEPT ![proc[p].second] = Snapshot]
  /\ CloseWritable /\ Move(p, "migrate")
  /\ UNCHANGED <<data, previous, prepared, temporary, tar, bz3,
                 bot, clock, written, faults, ghosts>>

Cleaned(copies, p) == [copies EXCEPT ![proc[p].second] = None]

(* The handler of upgrade_safely(): the copy of the old file stays.        *)
Abandon(p) ==
  /\ candidate' = Cleaned(candidate, p) /\ prepared' = Cleaned(prepared, p)
  /\ End(p)

(* The candidate is migrated in place and must carry the bot's name.       *)
Migrate(p) ==
  /\ proc[p].at = "migrate"
  /\ LET file == candidate[proc[p].second] IN
     \/ /\ file.name /= "other"
        /\ candidate' = [candidate EXCEPT ![proc[p].second] =
                           [file EXCEPT !.schema = Head, !.name = "me"]]
        /\ Move(p, "prepare") /\ UNCHANGED prepared
     \/ (file.name = "other" \/ ~file.whole) /\ Abandon(p)
  /\ UNCHANGED <<live, wal, data, previous, temporary, tar, bz3,
                 bot, clock, written, faults, ghosts>>

Prepare(p) ==
  /\ proc[p].at = "prepare"
  /\ prepared' = [prepared EXCEPT ![proc[p].second] = candidate[proc[p].second]]
  /\ Move(p, "validate")
  /\ UNCHANGED <<live, wal, data, previous, candidate, temporary, tar, bz3,
                 bot, clock, written, faults, ghosts>>

Validate(p) ==
  /\ proc[p].at = "validate"
  /\ \/ Move(p, "replace") /\ UNCHANGED <<candidate, prepared>>
     \/ ~prepared[proc[p].second].whole /\ Abandon(p)
  /\ UNCHANGED <<live, wal, data, previous, temporary, tar, bz3,
                 bot, clock, written, faults, ghosts>>

(* A rename leaves the log where it is.                                    *)
Orphaned == IF wal = None THEN None ELSE [wal EXCEPT !.of = "gone"]

Replace(p) ==
  /\ proc[p].at = "replace"
  /\ live' = prepared[proc[p].second] /\ prepared' = Cleaned(prepared, p)
  /\ wal' = Orphaned /\ Move(p, "sidecars")
  /\ UNCHANGED <<data, previous, candidate, temporary, tar, bz3,
                 bot, clock, written, faults, ghosts>>

RemoveSidecars(p) ==
  /\ proc[p].at = "sidecars"
  /\ wal' = None /\ candidate' = Cleaned(candidate, p) /\ Move(p, "verify")
  /\ UNCHANGED <<live, data, previous, prepared, temporary, tar, bz3,
                 bot, clock, written, faults, ghosts>>

Verify(p) ==
  /\ proc[p].at = "verify"
  /\ \/ Checks(TRUE) /\ End(p) /\ UNCHANGED <<candidate, prepared>>
     \/ Checks(FALSE) /\ Abandon(p)
  /\ UNCHANGED <<live, wal, data, previous, temporary, tar, bz3,
                 bot, clock, written, faults, ghosts>>

Upgrade(p) ==
  \/ UpgradeBegins(p) \/ CopyPrevious(p) \/ CopyCandidate(p)
  \/ Migrate(p) \/ Prepare(p) \/ Validate(p) \/ Replace(p) \/ RemoveSidecars(p)
  \/ Verify(p)

(* Mutant: only the database is looked for.                                *)
Verified_db(a) == "db" \in a.members

(***************************************************************************)
(* BackupManager.restore().                                                *)
(***************************************************************************)
(* Every file of the manifest must be there with its size and its hash.    *)
Verified(a) == a.members = Members

Archives == {tar[s] : s \in Seconds} \cup {bz3[s] : s \in Seconds}

RestoreBegins(p) ==
  \E a \in Archives \ {None}, replace, withData \in BOOLEAN :
    /\ Alone(p)
    /\ Verified(a) /\ (live = None \/ replace)
    /\ Begin(p, [at |-> "r_copy", second |-> 0, was |-> View, archive |-> a,
                 withData |-> withData, left |-> DataFiles])
    /\ UNCHANGED <<disk, bot, clock, written, faults, ghosts>>

RestoreCopy(p) ==
  /\ proc[p].at = "r_copy"
  /\ temporary' = proc[p].archive.db /\ Move(p, "r_replace")
  /\ UNCHANGED <<live, wal, data, previous, candidate, prepared, tar, bz3,
                 bot, clock, written, faults, ghosts>>

(* Mutant: the old log stays.                                              *)
restore_backup_snapshot_beside_the_log(p) ==
  /\ \/ /\ proc[p].at = "r_replace"
        /\ live' = temporary /\ temporary' = None /\ wal' = Orphaned
        /\ truth' = temporary.rows /\ Move(p, "r_sidecars")
        /\ UNCHANGED mispaired
     \/ /\ proc[p].at = "r_sidecars" /\ Move(p, "r_data")
        /\ UNCHANGED <<live, wal, temporary, truth, mispaired>>
  /\ UNCHANGED <<data, previous, candidate, prepared, tar, bz3,
                 bot, clock, written, faults, reported>>

restore_backup_snapshot(p) ==
  /\ \/ /\ proc[p].at = "r_replace"
        /\ live' = temporary /\ temporary' = None /\ wal' = Orphaned
        /\ truth' = temporary.rows /\ Move(p, "r_sidecars")
        /\ UNCHANGED mispaired
     \/ /\ proc[p].at = "r_sidecars"
        /\ wal' = None /\ mispaired' = ~live.whole /\ Move(p, "r_data")
        /\ UNCHANGED <<live, temporary, truth>>
  /\ UNCHANGED <<data, previous, candidate, prepared, tar, bz3,
                 bot, clock, written, faults, reported>>

RestoreData(p) ==
  /\ proc[p].at = "r_data" /\ proc[p].withData
  /\ \E d \in proc[p].left \cap proc[p].archive.members :
       /\ data' = [data EXCEPT ![d] = proc[p].archive.data[d]]
       /\ proc' = [proc EXCEPT ![p].left = @ \ {d}]
  /\ UNCHANGED <<live, wal, previous, candidate, prepared, temporary, tar, bz3,
                 bot, clock, written, faults, ghosts>>

(* The check comes last: a database that needs migration is in place then. *)
RestoreEnds(p, ok) ==
  /\ proc[p].at = "r_data"
  /\ proc[p].withData => proc[p].left \cap proc[p].archive.members = {}
  /\ Checks(ok) /\ End(p)
  /\ UNCHANGED <<disk, bot, clock, written, faults, ghosts>>

Restore(p) ==
  RestoreBegins(p) \/ RestoreCopy(p) \/ restore_backup_snapshot(p) \/ RestoreData(p)
  \/ RestoreEnds(p, TRUE) \/ RestoreEnds(p, FALSE)

(***************************************************************************)
(* BackupManager.create(), beside a running bot or not.                    *)
(***************************************************************************)
BackupBegins(p) ==
  /\ proc[p].at = "idle" /\ NobodyReplaces /\ Checks(TRUE)
  /\ Begin(p, [Idle EXCEPT !.at = "b_snapshot", !.second = clock, !.left = DataFiles])
  /\ UNCHANGED <<disk, bot, clock, written, faults, ghosts>>

BackupSnapshot(p) ==
  /\ proc[p].at = "b_snapshot"
  /\ proc' = [proc EXCEPT ![p].at = "b_data",
                ![p].archive = [db |-> Snapshot, data |-> data, members |-> {"db"}]]
  /\ CloseWritable
  /\ still /\ UNCHANGED <<bot, clock, written, faults, ghosts>>

_copy_data(p) ==
  /\ proc[p].at = "b_data"
  /\ \E d \in proc[p].left :
       proc' = [proc EXCEPT ![p].left = @ \ {d}, ![p].archive.data[d] = data[d],
                            ![p].archive.members = @ \cup {d}]
  /\ UNCHANGED <<disk, bot, clock, written, faults, ghosts>>

(* Mutant: mode "w".                                                       *)
OpenTar_w(p) ==
  /\ proc[p].at = "b_data" /\ proc[p].left = {}
  /\ tar' = [tar EXCEPT ![proc[p].second] = [proc[p].archive EXCEPT !.members = {}]]
  /\ Move(p, "b_tar")
  /\ UNCHANGED <<live, wal, data, previous, candidate, prepared, temporary, bz3,
                 bot, clock, written, faults, ghosts>>

(* tarfile.open(.., "x"): the file of another backup of this second stays. *)
OpenTar(p) ==
  /\ proc[p].at = "b_data" /\ proc[p].left = {}
  /\ IF tar[proc[p].second] = None
       THEN /\ tar' = [tar EXCEPT ![proc[p].second] = [proc[p].archive EXCEPT !.members = {}]]
            /\ Move(p, "b_tar")
       ELSE End(p) /\ UNCHANGED tar
  /\ UNCHANGED <<live, wal, data, previous, candidate, prepared, temporary, bz3,
                 bot, clock, written, faults, ghosts>>

(* The manifest is written first, then the database, then the data.        *)
FillTar(p) ==
  /\ \/ /\ proc[p].at = "b_tar"
        /\ tar' = [tar EXCEPT ![proc[p].second] = [proc[p].archive EXCEPT !.members = {"db"}]]
        /\ Move(p, "b_fill")
     \/ /\ proc[p].at = "b_fill"
        /\ tar' = [tar EXCEPT ![proc[p].second] = proc[p].archive]
        /\ Move(p, IF Packs THEN "b_pack" ELSE "b_packed")
  /\ UNCHANGED <<live, wal, data, previous, candidate, prepared, temporary, bz3,
                 bot, clock, written, faults, ghosts>>

Pack(p) ==
  /\ proc[p].at = "b_pack"
  /\ IF bz3[proc[p].second] = None
       THEN /\ bz3' = [bz3 EXCEPT ![proc[p].second] = [proc[p].archive EXCEPT !.members = {}]]
            /\ Move(p, "b_unlink")
       ELSE End(p) /\ UNCHANGED bz3
  /\ UNCHANGED <<live, wal, data, previous, candidate, prepared, temporary, tar,
                 bot, clock, written, faults, ghosts>>

Report(p, archive) ==
  /\ reported' = [reported EXCEPT ![proc[p].second] = archive]
  /\ End(p)

BackupEnds(p) ==
  /\ \/ /\ proc[p].at = "b_packed" /\ Report(p, tar[proc[p].second])
        /\ UNCHANGED <<tar, bz3>>
     \/ /\ proc[p].at = "b_unlink"
        /\ bz3' = [bz3 EXCEPT ![proc[p].second] = tar[proc[p].second]]
        /\ tar' = [tar EXCEPT ![proc[p].second] = None]
        /\ Report(p, tar[proc[p].second])
  /\ UNCHANGED <<live, wal, data, previous, candidate, prepared, temporary,
                 bot, clock, written, faults, truth, mispaired>>

Backup(p) ==
  BackupBegins(p) \/ BackupSnapshot(p) \/ _copy_data(p) \/ OpenTar(p) \/ FillTar(p)
  \/ Pack(p) \/ BackupEnds(p)

-----------------------------------------------------------------------------
(***************************************************************************)
(* A step raises, or the process is killed.  Only the handler of           *)
(* upgrade_safely() cleans up; its first copy is made before the try.      *)
(***************************************************************************)
HalfCopied(p) ==
  \/ UNCHANGED previous
  \/ previous' = [previous EXCEPT ![proc[p].second] =
       [schema |-> -1, name |-> None, rows |-> {}, whole |-> TRUE]]

Interrupted(p) ==
  /\ proc[p].at /= "idle" /\ faults < MaxFaults /\ faults' = faults + 1
  /\ IF proc[p].at = "copy" THEN HalfCopied(p) ELSE UNCHANGED previous
  /\ mispaired' = (mispaired \/ (proc[p].at = "r_sidecars" /\ ~View.whole))
  /\ UNCHANGED <<live, wal, data, temporary, tar, bz3, bot, clock, written,
                 truth, reported>>

Fail(p) ==
  /\ Interrupted(p)
  /\ IF proc[p].at \in UpgradeSteps \ {"copy"}
       THEN Abandon(p)
       ELSE End(p) /\ UNCHANGED <<candidate, prepared>>

Kill(p) == Interrupted(p) /\ End(p) /\ UNCHANGED <<candidate, prepared>>

(* What a command line asks for; `database init' of an existing database   *)
(* is an upgrade, and the bot's `db backup' a backup.                      *)
DatabaseCommand(p) ==
  Initialize(p) \/ _initialize_in_place(p) \/ Upgrade(p) \/ Restore(p) \/ Backup(p)

Tick ==
  /\ clock < MaxClock /\ clock' = clock + 1
  /\ UNCHANGED <<disk, bot, proc, written, faults, ghosts>>

Next ==
  \/ BotStart \/ BotCommit \/ BotClose \/ BotStop \/ BotCrash \/ Tick
  \/ \E d \in DataFiles : BotWritesData(d)
  \/ \E p \in Processes : DatabaseCommand(p) \/ Fail(p) \/ Kill(p)

Spec == Init /\ [][Next]_vars

-----------------------------------------------------------------------------
(* Whatever is interrupted, the database is a whole file that holds exactly *)
(* the writes committed to it, those in its log included: those since the   *)
(* archive, after a restore.  The one exception is the moment between the   *)
(* rename and the unlinks of restore_backup_snapshot(), and a restore that  *)
(* ended there beside a log: until another restore, the log of the old      *)
(* database belongs to the new one.                                         *)
CommittedRowsStay ==
  \/ mispaired \/ \E p \in Processes : proc[p].at = "r_sidecars"
  \/ live = None
  \/ View.whole /\ View.rows = truth

(* docs/OPERATIONS.md: the live file is replaced only after its last state *)
(* was copied, and that copy is never touched again, by later upgrades of  *)
(* the same second or by a failing one.                                    *)
OriginalKept ==
  [][/\ \A p \in Processes :
          proc[p].at = "replace" /\ proc'[p].at = "sidecars" =>
            \E s \in Seconds : previous[s] = View
     /\ \A s \in Seconds :
          previous[s] /= None /\ Known(previous[s]) => previous'[s] = previous[s]]_vars

(* What create() returned is there for good: complete, of this release and *)
(* this bot, whatever other backups of the same second do or fail to do.   *)
ArchivesStay ==
  \A s \in Seconds : reported[s] /= None =>
    /\ reported[s] \in {tar[s], bz3[s]} /\ Complete(reported[s])
    /\ reported[s].db.schema = Head /\ reported[s].db.name = "me"

(* A restore that succeeds leaves the archive's database and, if asked to, *)
(* every data file of it, from complete archives only.  One that fails or  *)
(* is killed leaves the old database or the archive's, and the old data    *)
(* beside the old database; beside the archive's, part of the data may be  *)
(* the archive's and the rest old, for there is no way back.  Excepted is  *)
(* a restore that ends between its rename and its unlinks (mispaired), and *)
(* whatever is restored from then on until a restore has put it right.     *)
RestoredOldOrNew ==
  [][\A p \in Processes : proc[p].at \in RestoreSteps =>
       /\ data' /= data => View = proc[p].archive.db
       /\ proc'[p].at = "idle" /\ ~mispaired' =>
            IF RestoreEnds(p, TRUE)
              THEN /\ View' = proc[p].archive.db
                   /\ proc[p].withData => data' = proc[p].archive.data
              ELSE View' \in {proc[p].was, proc[p].archive.db}]_vars

(* docs/OPERATIONS.md:49-58: when check finds an older schema, the bot is   *)
(* stopped and `database backup' comes before `database upgrade'.  create() *)
(* begins with check(), which refuses an older schema.                      *)
BackupBeforeUpgrade ==
  Known(View) /\ View.whole /\ View.name = "me" /\ MigrationRequired(View) =>
    \A p \in Processes : Alone(p) => ENABLED BackupBegins(p)

=============================================================================
