----------------------------- MODULE StorageProofs -----------------------------
(***************************************************************************)
(* Theorems about Storage, for any number of processes, data files,        *)
(* seconds, writes and faults: what is committed, copied, restored and     *)
(* archived stays what it is, wherever a step raises or a process dies.    *)
(***************************************************************************)
EXTENDS Storage, TLAPS

\* What SQLite reads is the file, with its log; beside a log that is not its
\* own it is a whole file no more.
LEMMA ReadFacts ==
  ASSUME NEW file \in Database \cup {None}, NEW log \in Log \cup {None}
  PROVE  /\ Read(file, log) \in Database \cup {None}
         /\ Read(file, log) = None <=> file = None
         /\ log = None => Read(file, log) = file
         /\ file # None =>
              /\ Read(file, log).schema = file.schema /\ Read(file, log).name = file.name
              /\ log # None /\ log.of = "live" =>
                   /\ Read(file, log).whole = file.whole
                   /\ Read(file, log).rows = file.rows \cup log.rows
              /\ log # None /\ log.of = "gone" =>
                   ~Read(file, log).whole /\ Read(file, log).rows = file.rows
<1>1. CASE file = None \/ log = None
  BY <1>1, StorageAssumption DEF Read
<1>2. CASE file \in Database /\ log \in Log /\ log.of = "live"
  <2>1. Read(file, log) = [file EXCEPT !.rows = @ \cup log.rows]
    BY <1>2, StorageAssumption DEF Read
  <2>2. log.rows \subseteq Writes /\ file.rows \subseteq Writes
    BY <1>2 DEF Log, Database
  <2>3. [file EXCEPT !.rows = @ \cup log.rows] \in Database
    BY <1>2, <2>2 DEF Database
  <2> QED
    BY <1>2, <2>1, <2>3, StorageAssumption DEF Database
<1>3. CASE file \in Database /\ log \in Log /\ log.of = "gone"
  <2>1. Read(file, log) = [file EXCEPT !.whole = FALSE]
    BY <1>3, StorageAssumption DEF Read
  <2>2. [file EXCEPT !.whole = FALSE] \in Database
    BY <1>3 DEF Database
  <2> QED
    BY <1>3, <2>1, <2>2, StorageAssumption DEF Database
<1> QED
  BY <1>1, <1>2, <1>3 DEF Log

\* Moving the log into the file changes nothing of what is read.
LEMMA ClosingIsSilent ==
  ASSUME live \in Database \cup {None}, wal \in Log \cup {None}, CloseWritable
  PROVE  /\ live' \in Database \cup {None} /\ wal' \in Log \cup {None}
         /\ View' = View /\ (live = None <=> live' = None)
         /\ bot # "writing" => wal' = None
<1>1. CASE bot = "writing"
  BY <1>1 DEF CloseWritable, View
<1>2. CASE live' = View /\ wal' = None
  <2>1. View \in Database \cup {None} /\ (View = None <=> live = None)
    BY ReadFacts DEF View
  <2>2. Read(live', wal') = live'
    BY <1>2, <2>1, ReadFacts
  <2> QED
    BY <1>2, <2>1, <2>2 DEF View
<1> QED
  BY <1>1, <1>2 DEF CloseWritable

-----------------------------------------------------------------------------
(* What the processes do.                                                  *)

Steps == {"idle"} \cup UpgradeSteps \cup RestoreSteps \cup InitSteps \cup BackupSteps

LEMMA Moves ==
  ASSUME proc \in [Processes -> Work], NEW p \in Processes, NEW step \in Steps, Move(p, step)
  PROVE  /\ proc' \in [Processes -> Work]
         /\ proc'[p].at = step /\ proc'[p].second = proc[p].second /\ proc'[p].was = proc[p].was
         /\ proc'[p].archive = proc[p].archive /\ proc'[p].withData = proc[p].withData
         /\ proc'[p].left = proc[p].left
         /\ \A q \in Processes \ {p} : proc'[q] = proc[q]
<1>1. [proc[p] EXCEPT !.at = step] \in Work
  BY DEF Work, Steps
<1>2. proc' = [proc EXCEPT ![p] = [proc[p] EXCEPT !.at = step]]
  BY DEF Move
<1>3. proc'[p] = [proc[p] EXCEPT !.at = step]
  BY <1>2
<1> QED
  BY <1>1, <1>2, <1>3 DEF Work

LEMMA Begins ==
  ASSUME proc \in [Processes -> Work], NEW p \in Processes, NEW work \in Work, Begin(p, work)
  PROVE  /\ proc' \in [Processes -> Work] /\ proc'[p] = work
         /\ \A q \in Processes \ {p} : proc'[q] = proc[q]
BY DEF Begin

LEMMA Ends ==
  ASSUME proc \in [Processes -> Work], NEW p \in Processes, End(p)
  PROVE  /\ proc' \in [Processes -> Work] /\ proc'[p].at = "idle"
         /\ \A q \in Processes \ {p} : proc'[q] = proc[q]
<1>1. Idle \in Work /\ Idle.at = "idle"
  BY StorageAssumption DEF Idle, Work, Seconds
<1> QED
  BY <1>1 DEF End

-----------------------------------------------------------------------------
(* The inductive invariant.                                                *)

Replacing == UpgradeSteps \cup RestoreSteps \cup InitSteps
TarSteps == {"b_tar", "b_fill", "b_pack", "b_packed", "b_unlink"}

\* Who replaces the database is alone.
Exclusive ==
  \A p \in Processes : proc[p].at \in Replacing =>
    bot = "down" /\ \A q \in Processes \ {p} : proc[q].at = "idle"

\* What there is to do while there is no database.
Missing ==
  live = None =>
    /\ wal = None /\ truth = {} /\ bot = "down"
    /\ \A p \in Processes : proc[p].at \in {"idle", "r_copy", "r_replace"}

SameRows(file) == file # None /\ file.whole = View.whole /\ file.rows = View.rows

\* The copies hold what the database holds, which stands still.
Upgrading(p) ==
  LET s == proc[p].second IN
  /\ proc[p].at = "copy" => previous[s] = None
  /\ proc[p].at \in {"candidate", "migrate", "prepare", "validate", "replace"} =>
       wal = None /\ previous[s] = View
  /\ proc[p].at \in {"migrate", "prepare"} => SameRows(candidate[s])
  /\ proc[p].at \in {"validate", "replace"} => SameRows(prepared[s])
  /\ proc[p].at \in {"sidecars", "verify"} => wal = None

Restoring(p) ==
  LET a == proc[p].archive IN
  /\ proc[p].at \in RestoreSteps => Complete(a)
  /\ proc[p].at \in {"r_copy", "r_replace"} => View = proc[p].was
  /\ proc[p].at = "r_replace" => temporary = a.db
  /\ proc[p].at \in {"r_sidecars", "r_data"} => live = a.db
  /\ proc[p].at = "r_sidecars" => truth = live.rows /\ (wal # None => wal.of = "gone")
  /\ proc[p].at = "r_data" => wal = None
  /\ proc[p].at \in RestoreSteps /\ proc[p].withData =>
       \A d \in DataFiles \ proc[p].left : data[d] = a.data[d]

\* Who has made a tar file has it alone, until it is reported or given up.
BackingUp(p) ==
  LET s == proc[p].second
      a == proc[p].archive IN
  /\ proc[p].at = "b_snapshot" =>
       live # None /\ live.schema = Head /\ live.name = "me" /\ proc[p].left = DataFiles
  /\ proc[p].at \in {"b_data"} \cup TarSteps =>
       /\ a # None /\ a.db.schema = Head /\ a.db.name = "me"
       /\ a.members = {"db"} \cup (DataFiles \ proc[p].left)
  /\ proc[p].at \in TarSteps =>
       /\ proc[p].left = {} /\ tar[s] # None
       /\ reported[s] = None \/ reported[s] = bz3[s]
  /\ proc[p].at \in {"b_pack", "b_packed", "b_unlink"} => tar[s] = a
  /\ proc[p].at = "b_unlink" => reported[s] = None /\ bz3[s] # None

OneTarEach ==
  \A p, q \in Processes :
    p # q /\ proc[p].at \in TarSteps /\ proc[q].at \in TarSteps =>
      proc[p].second # proc[q].second

Inv ==
  /\ TypeOK /\ Exclusive /\ Missing /\ OneTarEach
  /\ CommittedRowsStay /\ ArchivesStay
  /\ \A p \in Processes : Upgrading(p) /\ Restoring(p) /\ BackingUp(p)

LEMMA RowsKept ==
  ASSUME CommittedRowsStay, \A q \in Processes : proc[q].at # "r_sidecars",
         truth' = truth, mispaired => mispaired', live = None => live' = None,
         live' # None => View'.whole = View.whole /\ View'.rows = View.rows
  PROVE  CommittedRowsStay'
BY DEF CommittedRowsStay

\* A step of the process that is alone.
LEMMA AloneSteps ==
  ASSUME Inv, NEW p \in Processes,
         \A q \in Processes \ {p} : proc[q].at = "idle" /\ proc'[q] = proc[q],
         bot' = "down", TypeOK', Missing', CommittedRowsStay',
         UNCHANGED <<tar, bz3, reported>>,
         Upgrading(p)', Restoring(p)', BackingUp(p)'
  PROVE  Inv'
<1>1. \A q \in Processes \ {p} : proc'[q].at = "idle"
  OBVIOUS
<1>2. Exclusive' /\ OneTarEach'
  BY <1>1 DEF Exclusive, OneTarEach, Replacing, UpgradeSteps, RestoreSteps, InitSteps, TarSteps
<1>3. ArchivesStay'
  BY DEF Inv, ArchivesStay, Complete
<1>4. \A q \in Processes \ {p} : Upgrading(q)' /\ Restoring(q)' /\ BackingUp(q)'
  BY <1>1 DEF Upgrading, Restoring, BackingUp, RestoreSteps, TarSteps
<1> QED
  BY <1>2, <1>3, <1>4 DEF Inv

\* Who is alone, when, and with what.
LEMMA AloneWhenReplacing ==
  ASSUME Inv, NEW p \in Processes, proc[p].at \in Replacing
  PROVE  /\ bot = "down" /\ \A q \in Processes \ {p} : proc[q].at = "idle"
         /\ live \in Database \cup {None} /\ wal \in Log \cup {None}
         /\ proc \in [Processes -> Work] /\ proc[p] \in Work
         /\ proc[p].second \in Seconds
         /\ Upgrading(p) /\ Restoring(p)
BY DEF Inv, Exclusive, TypeOK, Work

LEMMA UpgradeBeginsInv ==
  ASSUME Inv, NEW p \in Processes, UpgradeBegins(p)
  PROVE  Inv'
<1> DEFINE work == [Idle EXCEPT !.at = "copy", !.second = clock]
<1>1. /\ proc \in [Processes -> Work] /\ clock \in Seconds
      /\ live \in Database \cup {None} /\ wal \in Log \cup {None}
      /\ UNCHANGED <<live, wal, data, previous, candidate, prepared, temporary, tar, bz3, bot,
                     clock, written, faults, truth, reported, mispaired>>
  BY DEF Inv, TypeOK, UpgradeBegins, disk, ghosts
<1>2. work \in Work /\ work.at = "copy" /\ work.second = clock
  BY <1>1, StorageAssumption DEF Idle, Work, UpgradeSteps
<1>3. /\ proc' \in [Processes -> Work] /\ proc'[p] = work
      /\ \A q \in Processes \ {p} : proc'[q] = proc[q]
  BY <1>1, <1>2, Begins DEF UpgradeBegins
<1>4. /\ bot = "down" /\ \A q \in Processes : proc[q].at = "idle"
      /\ View # None /\ previous[clock] = None
  BY DEF UpgradeBegins, Alone, Known, StagingTaken
<1>5. TypeOK'
  BY <1>1, <1>3 DEF Inv, TypeOK
<1>6. live # None
  BY <1>1, <1>4, ReadFacts DEF View
<1>7. Missing' /\ CommittedRowsStay'
  BY <1>1, <1>4, <1>6, RowsKept DEF Inv, Missing, View
<1>8. Upgrading(p)' /\ Restoring(p)' /\ BackingUp(p)'
  BY <1>1, <1>2, <1>3, <1>4 DEF Upgrading, Restoring, BackingUp, RestoreSteps, TarSteps
<1> QED
  BY <1>1, <1>3, <1>4, <1>5, <1>7, <1>8, AloneSteps

\* The two copies of the database as it was.
LEMMA CopiesInv ==
  ASSUME Inv, NEW p \in Processes, CopyPrevious(p) \/ CopyCandidate(p)
  PROVE  Inv'
<1> DEFINE s == proc[p].second
<1>1. proc[p].at \in {"copy", "candidate"} /\ CloseWritable
      /\ UNCHANGED <<data, prepared, temporary, tar, bz3, bot, clock, written, faults,
                     truth, reported, mispaired>>
  BY DEF CopyPrevious, CopyCandidate, ghosts
<1>2. /\ bot = "down" /\ \A q \in Processes \ {p} : proc[q].at = "idle"
      /\ live \in Database \cup {None} /\ wal \in Log \cup {None}
      /\ proc \in [Processes -> Work] /\ s \in Seconds
      /\ Upgrading(p)
  BY <1>1, AloneWhenReplacing DEF Replacing, UpgradeSteps
<1>3. /\ live' \in Database \cup {None} /\ wal' = None
      /\ View' = View /\ (live = None <=> live' = None)
  BY <1>1, <1>2, ClosingIsSilent
<1>4. live # None /\ View # None /\ View \in Database
  <2>1. live # None
    BY <1>1 DEF Inv, Missing
  <2> QED
    BY <1>2, <2>1, ReadFacts DEF View
<1>5. CASE CopyPrevious(p)
  <2>1. proc[p].at = "copy" /\ Move(p, "candidate")
        /\ previous' = [previous EXCEPT ![s] = View] /\ candidate' = candidate
    BY <1>5 DEF CopyPrevious, Snapshot
  <2>2. /\ proc' \in [Processes -> Work] /\ proc'[p].at = "candidate" /\ proc'[p].second = s
        /\ \A q \in Processes \ {p} : proc'[q] = proc[q]
    BY <1>2, <2>1, Moves DEF Steps, UpgradeSteps
  <2>3. previous' \in [Seconds -> Database \cup {None}] /\ previous'[s] = View
    BY <1>2, <1>4, <2>1 DEF Inv, TypeOK
  <2>4. TypeOK'
    BY <1>1, <1>3, <2>1, <2>2, <2>3 DEF Inv, TypeOK
  <2>5. Missing' /\ CommittedRowsStay'
    BY <1>1, <1>2, <1>3, <1>4, <2>1, RowsKept DEF Inv, Missing
  <2>6. Upgrading(p)' /\ Restoring(p)' /\ BackingUp(p)'
    BY <1>3, <2>2, <2>3 DEF Upgrading, Restoring, BackingUp, RestoreSteps, TarSteps
  <2> QED
    BY <1>1, <1>2, <2>2, <2>4, <2>5, <2>6, AloneSteps
<1>6. CASE CopyCandidate(p)
  <2>1. proc[p].at = "candidate" /\ Move(p, "migrate")
        /\ candidate' = [candidate EXCEPT ![s] = View] /\ previous' = previous
    BY <1>6 DEF CopyCandidate, Snapshot
  <2>2. /\ proc' \in [Processes -> Work] /\ proc'[p].at = "migrate" /\ proc'[p].second = s
        /\ \A q \in Processes \ {p} : proc'[q] = proc[q]
    BY <1>2, <2>1, Moves DEF Steps, UpgradeSteps
  <2>3. candidate' \in [Seconds -> Database \cup {None}] /\ candidate'[s] = View
    BY <1>2, <1>4, <2>1 DEF Inv, TypeOK
  <2>4. TypeOK'
    BY <1>1, <1>3, <2>1, <2>2, <2>3 DEF Inv, TypeOK
  <2>5. Missing' /\ CommittedRowsStay'
    BY <1>1, <1>2, <1>3, <1>4, <2>1, RowsKept DEF Inv, Missing
  <2>6. Upgrading(p)' /\ Restoring(p)' /\ BackingUp(p)'
    BY <1>2, <1>3, <1>4, <2>1, <2>2, <2>3
       DEF Upgrading, Restoring, BackingUp, RestoreSteps, TarSteps, SameRows
  <2> QED
    BY <1>1, <1>2, <2>2, <2>4, <2>5, <2>6, AloneSteps
<1> QED
  BY <1>5, <1>6 DEF CopyPrevious, CopyCandidate

\* The copies of an upgrade that are not in use are nobody's.
LEMMA Cleans ==
  ASSUME NEW copies \in [Seconds -> Database \cup {None}], NEW p
  PROVE  Cleaned(copies, p) \in [Seconds -> Database \cup {None}]
BY DEF Cleaned

\* A process that ends, fails or dies leaves the database as it is.
LEMMA EndsInv ==
  ASSUME Inv, NEW p \in Processes, proc[p].at # "idle", End(p),
         \A copies \in {previous', candidate', prepared'} :
           copies \in [Seconds -> Database \cup {None}],
         UNCHANGED <<live, wal, data, temporary, tar, bz3, bot, clock, written, truth, reported>>,
         faults' \in 0 .. MaxFaults,
         mispaired' \in BOOLEAN, mispaired => mispaired',
         proc[p].at = "r_sidecars" => mispaired' \/ (View.whole /\ View.rows = truth)
  PROVE  Inv'
<1>1. /\ proc \in [Processes -> Work]
      /\ \A q \in Processes \ {p} : proc[q].at \notin Replacing
  BY DEF Inv, TypeOK, Exclusive
<1>2. /\ proc' \in [Processes -> Work] /\ proc'[p].at = "idle"
      /\ \A q \in Processes \ {p} : proc'[q] = proc[q]
  BY <1>1, Ends
<1>3. TypeOK'
  BY <1>2 DEF Inv, TypeOK
<1>4. View' = View
  BY DEF View
<1>5. CommittedRowsStay'
  <2>1. \A q \in Processes \ {p} : proc[q].at # "r_sidecars"
    BY <1>1 DEF Replacing, RestoreSteps
  <2> QED
    BY <1>4, <2>1 DEF Inv, CommittedRowsStay
<1>6. Missing' /\ Exclusive' /\ OneTarEach'
  BY <1>1, <1>2 DEF Inv, Missing, Exclusive, OneTarEach, Replacing, TarSteps, UpgradeSteps,
                    RestoreSteps, InitSteps
<1>7. ArchivesStay'
  BY DEF Inv, ArchivesStay, Complete
<1>8. Upgrading(p)' /\ Restoring(p)' /\ BackingUp(p)'
  BY <1>2 DEF Upgrading, Restoring, BackingUp, RestoreSteps, TarSteps
<1>9. ASSUME NEW q \in Processes \ {p}
      PROVE  Upgrading(q)' /\ Restoring(q)' /\ BackingUp(q)'
  <2>1. proc'[q] = proc[q] /\ proc[q].at \notin Replacing /\ BackingUp(q)
    BY <1>1, <1>2 DEF Inv
  <2>2. Upgrading(q)' /\ Restoring(q)'
    BY <2>1 DEF Upgrading, Restoring, Replacing, UpgradeSteps, RestoreSteps
  <2>3. BackingUp(q)'
    BY <2>1 DEF BackingUp
  <2> QED
    BY <2>2, <2>3
<1> QED
  BY <1>3, <1>5, <1>6, <1>7, <1>8, <1>9 DEF Inv

\* The steps between the copies and the rename.
LEMMA MigrationInv ==
  ASSUME Inv, NEW p \in Processes, Migrate(p) \/ Prepare(p) \/ Validate(p)
  PROVE  Inv'
<1> DEFINE s == proc[p].second
<1>1. /\ proc[p].at \in {"migrate", "prepare", "validate"}
      /\ UNCHANGED <<live, wal, data, previous, temporary, tar, bz3, bot, clock, written, faults,
                     truth, reported, mispaired>>
  BY DEF Migrate, Prepare, Validate, ghosts
<1>2. /\ bot = "down" /\ \A q \in Processes \ {p} : proc[q].at = "idle"
      /\ proc \in [Processes -> Work] /\ s \in Seconds /\ Upgrading(p)
      /\ candidate \in [Seconds -> Database \cup {None}]
      /\ prepared \in [Seconds -> Database \cup {None}] /\ faults \in 0 .. MaxFaults
  BY <1>1, AloneWhenReplacing DEF Replacing, UpgradeSteps, Inv, TypeOK
<1>3. View' = View /\ wal = None /\ previous[s] = View
  BY <1>1, <1>2 DEF View, Upgrading
<1>4. ASSUME Abandon(p)
      PROVE  Inv'
  <2>1. /\ candidate' \in [Seconds -> Database \cup {None}]
        /\ prepared' \in [Seconds -> Database \cup {None}] /\ End(p)
    BY <1>2, <1>4, Cleans DEF Abandon
  <2> QED
    BY <1>1, <1>2, <2>1, EndsInv DEF Inv, TypeOK
\* What is left to show of a step that goes on.
<1>5. ASSUME NEW step \in {"prepare", "validate", "replace"}, Move(p, step),
             candidate' \in [Seconds -> Database \cup {None}],
             prepared' \in [Seconds -> Database \cup {None}],
             step = "prepare" => SameRows(candidate[s])',
             step \in {"validate", "replace"} => SameRows(prepared[s])'
      PROVE  Inv'
  <2>1. /\ proc' \in [Processes -> Work] /\ proc'[p].at = step /\ proc'[p].second = s
        /\ \A q \in Processes \ {p} : proc'[q] = proc[q]
    BY <1>2, <1>5, Moves DEF Steps, UpgradeSteps
  <2>2. TypeOK'
    BY <1>1, <1>5, <2>1 DEF Inv, TypeOK
  <2>3. Missing' /\ CommittedRowsStay'
    BY <1>1, <1>2, <1>3, <2>1, RowsKept DEF Inv, Missing
  <2>4. Upgrading(p)'
    BY <1>1, <1>3, <1>5, <2>1 DEF Upgrading, SameRows
  <2>5. Restoring(p)' /\ BackingUp(p)'
    BY <2>1 DEF Restoring, BackingUp, RestoreSteps, TarSteps
  <2> QED
    BY <1>1, <1>2, <2>1, <2>2, <2>3, <2>4, <2>5, AloneSteps
<1>6. CASE Migrate(p) /\ ~Abandon(p)
  <2> DEFINE file == candidate[s]
             new == [file EXCEPT !.schema = Head, !.name = "me"]
  <2>1. /\ proc[p].at = "migrate" /\ Move(p, "prepare") /\ prepared' = prepared
        /\ candidate' = [candidate EXCEPT ![s] = new]
    BY <1>6 DEF Migrate
  <2>2. file \in Database /\ SameRows(file)
    BY <1>2, <2>1 DEF Upgrading, SameRows
  <2>3. new \in Database /\ new.whole = file.whole /\ new.rows = file.rows
    <3>1. Head \in -1 .. Head
      BY StorageAssumption
    <3>2. new \in Database
      BY <2>2, <3>1 DEF Database
    <3>3. new.whole = file.whole /\ new.rows = file.rows
      BY <2>2 DEF Database
    <3> QED
      BY <3>2, <3>3
  <2>4. candidate' \in [Seconds -> Database \cup {None}] /\ candidate'[s] = new
    BY <1>2, <2>1, <2>3
  <2>5. SameRows(candidate[s])'
    <3>1. new # None
      BY <2>3, StorageAssumption
    <3>2. proc'[p].second = s
      BY <1>2, <2>1, Moves DEF Steps, UpgradeSteps
    <3> QED
      BY <1>3, <2>2, <2>3, <2>4, <3>1, <3>2 DEF SameRows
  <2> QED
    BY <1>2, <1>5, <2>1, <2>4, <2>5
<1>7. CASE Prepare(p)
  <2>1. /\ proc[p].at = "prepare" /\ Move(p, "validate") /\ candidate' = candidate
        /\ prepared' = [prepared EXCEPT ![s] = candidate[s]]
    BY <1>7 DEF Prepare
  <2>2. SameRows(candidate[s])
    BY <1>2, <2>1 DEF Upgrading
  <2>3. prepared' \in [Seconds -> Database \cup {None}] /\ prepared'[s] = candidate[s]
    BY <1>2, <2>1
  <2>4. proc'[p].second = s
    BY <1>2, <2>1, Moves DEF Steps, UpgradeSteps
  <2>5. SameRows(prepared[s])'
    BY <1>3, <2>2, <2>3, <2>4 DEF SameRows
  <2> QED
    BY <1>2, <1>5, <2>1, <2>3, <2>5
<1>8. CASE Validate(p) /\ ~Abandon(p)
  <2>1. /\ proc[p].at = "validate" /\ Move(p, "replace") /\ UNCHANGED <<candidate, prepared>>
    BY <1>8 DEF Validate
  <2>2. SameRows(prepared[s])
    BY <1>2, <2>1 DEF Upgrading
  <2>3. proc'[p].second = s
    BY <1>2, <2>1, Moves DEF Steps, UpgradeSteps
  <2>4. SameRows(prepared[s])'
    BY <1>3, <2>1, <2>2, <2>3 DEF SameRows
  <2> QED
    BY <1>2, <1>5, <2>1, <2>4
<1> QED
  BY <1>4, <1>6, <1>7, <1>8

\* The rename, and what follows it.
LEMMA ReplaceInv ==
  ASSUME Inv, NEW p \in Processes, Replace(p) \/ RemoveSidecars(p)
  PROVE  Inv'
<1> DEFINE s == proc[p].second
<1>1. /\ proc[p].at \in {"replace", "sidecars"}
      /\ UNCHANGED <<data, previous, temporary, tar, bz3, bot, clock, written, faults,
                     truth, reported, mispaired>>
  BY DEF Replace, RemoveSidecars, ghosts
<1>2. /\ bot = "down" /\ \A q \in Processes \ {p} : proc[q].at = "idle"
      /\ live \in Database \cup {None} /\ wal = None
      /\ proc \in [Processes -> Work] /\ s \in Seconds /\ Upgrading(p)
      /\ candidate \in [Seconds -> Database \cup {None}]
      /\ prepared \in [Seconds -> Database \cup {None}]
  BY <1>1, AloneWhenReplacing DEF Replacing, UpgradeSteps, Inv, TypeOK, Upgrading
<1>3. live # None
  BY <1>1 DEF Inv, Missing
<1>4. ASSUME NEW step \in {"sidecars", "verify"}, Move(p, step), wal' = None,
             live' \in Database, live'.whole = View.whole, live'.rows = View.rows,
             candidate' \in [Seconds -> Database \cup {None}],
             prepared' \in [Seconds -> Database \cup {None}]
      PROVE  Inv'
  <2>1. /\ proc' \in [Processes -> Work] /\ proc'[p].at = step /\ proc'[p].second = s
        /\ \A q \in Processes \ {p} : proc'[q] = proc[q]
    BY <1>2, <1>4, Moves DEF Steps, UpgradeSteps
  <2>2. TypeOK'
    BY <1>1, <1>4, <2>1 DEF Inv, TypeOK
  <2>3. View' = live' /\ live' # None
    BY <1>4, ReadFacts, StorageAssumption DEF View
  <2>4. Missing' /\ CommittedRowsStay'
    BY <1>1, <1>2, <1>3, <1>4, <2>3, RowsKept DEF Inv, Missing
  <2>5. Upgrading(p)' /\ Restoring(p)' /\ BackingUp(p)'
    BY <1>4, <2>1 DEF Upgrading, Restoring, BackingUp, RestoreSteps, TarSteps
  <2> QED
    BY <1>1, <1>2, <2>1, <2>2, <2>4, <2>5, AloneSteps
<1>5. CASE Replace(p)
  <2>1. /\ proc[p].at = "replace" /\ Move(p, "sidecars") /\ live' = prepared[s] /\ wal' = None
        /\ candidate' = candidate /\ prepared' \in [Seconds -> Database \cup {None}]
    BY <1>2, <1>5, Cleans DEF Replace, Orphaned
  <2>2. prepared[s] \in Database /\ SameRows(prepared[s])
    BY <1>2, <2>1 DEF Upgrading, SameRows
  <2> QED
    BY <1>2, <1>4, <2>1, <2>2 DEF SameRows
<1>6. CASE RemoveSidecars(p)
  <2>1. /\ Move(p, "verify") /\ wal' = None /\ live' = live /\ prepared' = prepared
        /\ candidate' \in [Seconds -> Database \cup {None}]
    BY <1>2, <1>6, Cleans DEF RemoveSidecars
  <2>2. View = live
    BY <1>2, ReadFacts DEF View
  <2> QED
    BY <1>2, <1>3, <1>4, <2>1, <2>2
<1> QED
  BY <1>5, <1>6

LEMMA VerifyInv ==
  ASSUME Inv, NEW p \in Processes, Verify(p)
  PROVE  Inv'
<1>1. /\ previous \in [Seconds -> Database \cup {None}]
      /\ candidate \in [Seconds -> Database \cup {None}]
      /\ prepared \in [Seconds -> Database \cup {None}]
      /\ faults \in 0 .. MaxFaults /\ mispaired \in BOOLEAN
  BY DEF Inv, TypeOK
<1>2. /\ candidate' \in [Seconds -> Database \cup {None}]
      /\ prepared' \in [Seconds -> Database \cup {None}] /\ End(p)
  BY <1>1, Cleans DEF Verify, Abandon
<1>3. /\ proc[p].at = "verify"
      /\ UNCHANGED <<live, wal, data, previous, temporary, tar, bz3, bot, clock, written, faults,
                     truth, reported, mispaired>>
  BY DEF Verify, ghosts
<1> QED
  BY <1>1, <1>2, <1>3, EndsInv

-----------------------------------------------------------------------------
(* Initialisation.                                                         *)

LEMMA InitializeInv ==
  ASSUME Inv, NEW p \in Processes, Initialize(p)
  PROVE  Inv'
<1> DEFINE file == [schema |-> -1, name |-> None, rows |-> {}, whole |-> TRUE]
<1>1. /\ bot = "down" /\ \A q \in Processes : proc[q].at = "idle"
      /\ \/ live = None /\ live' = file /\ wal = None /\ truth = {}
         \/ live # None /\ live' = live
      /\ Move(p, "schema")
      /\ UNCHANGED <<wal, data, previous, candidate, prepared, temporary, tar, bz3, bot, clock,
                     written, faults, truth, reported, mispaired>>
      /\ proc \in [Processes -> Work]
  BY DEF Initialize, Alone, still, ghosts, Inv, Missing, TypeOK
<1>2. /\ proc' \in [Processes -> Work] /\ proc'[p].at = "schema"
      /\ \A q \in Processes \ {p} : proc'[q] = proc[q]
  BY <1>1, Moves DEF Steps, InitSteps
<1>3. file \in Database /\ file # None /\ file.whole /\ file.rows = {}
  <2>1. -1 \in -1 .. Head
    BY StorageAssumption
  <2>2. file \in Database
    BY <2>1 DEF Database
  <2> QED
    BY <2>2, StorageAssumption
<1>4. \/ wal = None /\ truth = {} /\ live' = file /\ View' = live'
      \/ live # None /\ live' = live /\ View' = View
  <2>1. CASE live = None /\ live' = file /\ wal = None /\ truth = {}
    BY <1>1, <1>3, <2>1 DEF View, Read
  <2>2. CASE live # None /\ live' = live
    BY <1>1, <2>2 DEF View
  <2> QED
    BY <1>1, <2>1, <2>2
<1> HIDE DEF file
<1>5. TypeOK'
  BY <1>1, <1>2, <1>3 DEF Inv, TypeOK
<1>6. Missing' /\ CommittedRowsStay'
  BY <1>1, <1>3, <1>4 DEF Inv, Missing, CommittedRowsStay
<1>7. Upgrading(p)' /\ Restoring(p)' /\ BackingUp(p)'
  BY <1>2 DEF Upgrading, Restoring, BackingUp, RestoreSteps, TarSteps
<1> QED
  BY <1>1, <1>2, <1>5, <1>6, <1>7, AloneSteps

LEMMA InitializeInPlaceInv ==
  ASSUME Inv, NEW p \in Processes, _initialize_in_place(p)
  PROVE  Inv'
<1>1. /\ proc[p].at \in {"schema", "name"}
      /\ UNCHANGED <<wal, data, previous, candidate, prepared, temporary, tar, bz3, bot, clock,
                     written, faults, truth, reported, mispaired>>
  BY DEF _initialize_in_place, still, ghosts
<1>2. /\ bot = "down" /\ \A q \in Processes \ {p} : proc[q].at = "idle"
      /\ wal \in Log \cup {None} /\ proc \in [Processes -> Work] /\ live \in Database
  BY <1>1, AloneWhenReplacing DEF Replacing, InitSteps, Inv, Missing
<1>3. /\ proc' \in [Processes -> Work] /\ proc'[p].at \in {"name", "idle"}
      /\ \A q \in Processes \ {p} : proc'[q] = proc[q]
  BY <1>1, <1>2, Moves, Ends DEF _initialize_in_place, Steps, InitSteps
<1>4. live' \in Database /\ live'.whole = live.whole /\ live'.rows = live.rows
  <2>1. Head \in -1 .. Head
    BY StorageAssumption
  <2>2. live' = [live EXCEPT !.schema = Head] \/ live' = [live EXCEPT !.name = "me"]
    BY DEF _initialize_in_place
  <2> QED
    BY <1>2, <2>1, <2>2 DEF Database
<1>5. live # None /\ live' # None
  BY <1>2, <1>4, StorageAssumption
<1>6. View'.whole = View.whole /\ View'.rows = View.rows
  <2>1. /\ wal = None => View = live /\ View' = live'
        /\ wal # None /\ wal.of = "live" =>
             /\ View.whole = live.whole /\ View.rows = live.rows \cup wal.rows
             /\ View'.whole = live'.whole /\ View'.rows = live'.rows \cup wal.rows
        /\ wal # None /\ wal.of = "gone" =>
             ~View.whole /\ View.rows = live.rows /\ ~View'.whole /\ View'.rows = live'.rows
    BY <1>1, <1>2, <1>4, <1>5, ReadFacts DEF View
  <2>2. View \in Database /\ View' \in Database
    <3>1. View \in Database \cup {None} /\ View # None
      BY <1>2, <1>5, ReadFacts DEF View
    <3>2. View' \in Database \cup {None} /\ View' # None
      BY <1>1, <1>2, <1>4, <1>5, ReadFacts DEF View
    <3> QED
      BY <3>1, <3>2
  <2> QED
    BY <1>2, <1>4, <2>1, <2>2 DEF Log, Database
<1>7. TypeOK'
  BY <1>1, <1>3, <1>4 DEF Inv, TypeOK
<1>8. Missing' /\ CommittedRowsStay'
  BY <1>1, <1>2, <1>5, <1>6, RowsKept DEF Inv, Missing
<1>9. Upgrading(p)' /\ Restoring(p)' /\ BackingUp(p)'
  BY <1>3 DEF Upgrading, Restoring, BackingUp, RestoreSteps, TarSteps
<1> QED
  BY <1>1, <1>2, <1>3, <1>7, <1>8, <1>9, AloneSteps

-----------------------------------------------------------------------------
(* Restore.                                                                *)

LEMMA RestoreBeginsInv ==
  ASSUME Inv, NEW p \in Processes, RestoreBegins(p)
  PROVE  Inv'
<1>1. PICK a \in Archives \ {None}, withData \in BOOLEAN :
        /\ Alone(p) /\ Verified(a)
        /\ Begin(p, [at |-> "r_copy", second |-> 0, was |-> View, archive |-> a,
                     withData |-> withData, left |-> DataFiles])
  BY DEF RestoreBegins
<1> DEFINE work == [at |-> "r_copy", second |-> 0, was |-> View, archive |-> a,
                    withData |-> withData, left |-> DataFiles]
<1>2. /\ bot = "down" /\ \A q \in Processes : proc[q].at = "idle"
      /\ UNCHANGED <<live, wal, data, previous, candidate, prepared, temporary, tar, bz3, bot,
                     clock, written, faults, truth, reported, mispaired>>
      /\ live \in Database \cup {None} /\ wal \in Log \cup {None}
      /\ proc \in [Processes -> Work]
  BY <1>1 DEF RestoreBegins, Alone, disk, ghosts, Inv, TypeOK
<1>3. a \in Archive /\ Complete(a)
  BY <1>1, StorageAssumption DEF Archives, Inv, TypeOK, Verified, Complete
<1>4. View \in Database \cup {None} /\ View' = View
  BY <1>2, ReadFacts DEF View
<1>5. work \in Work
  BY <1>3, <1>4, StorageAssumption DEF Work, RestoreSteps, Seconds
<1>6. /\ proc' \in [Processes -> Work] /\ proc'[p] = work
      /\ \A q \in Processes \ {p} : proc'[q] = proc[q]
  BY <1>1, <1>2, <1>5, Begins
<1>7. TypeOK'
  BY <1>2, <1>6 DEF Inv, TypeOK
<1>8. Missing' /\ CommittedRowsStay'
  BY <1>2, <1>4, <1>6, RowsKept DEF Inv, Missing
<1>9. Upgrading(p)' /\ Restoring(p)' /\ BackingUp(p)'
  BY <1>3, <1>4, <1>6 DEF Upgrading, Restoring, BackingUp, RestoreSteps, TarSteps
<1> QED
  BY <1>2, <1>6, <1>7, <1>8, <1>9, AloneSteps

LEMMA RestoreCopyInv ==
  ASSUME Inv, NEW p \in Processes, RestoreCopy(p)
  PROVE  Inv'
<1> DEFINE a == proc[p].archive
<1>1. /\ proc[p].at = "r_copy" /\ temporary' = a.db /\ Move(p, "r_replace")
      /\ UNCHANGED <<live, wal, data, previous, candidate, prepared, tar, bz3, bot, clock,
                     written, faults, truth, reported, mispaired>>
  BY DEF RestoreCopy, ghosts
<1>2. /\ bot = "down" /\ \A q \in Processes \ {p} : proc[q].at = "idle"
      /\ proc \in [Processes -> Work] /\ Restoring(p) /\ proc[p] \in Work
  BY <1>1, AloneWhenReplacing DEF Replacing, RestoreSteps
<1>3. a \in Archive /\ a.db \in Database
  BY <1>1, <1>2 DEF Restoring, RestoreSteps, Complete, Work, Archive
<1>4. /\ proc' \in [Processes -> Work] /\ proc'[p].at = "r_replace"
      /\ proc'[p].archive = a /\ proc'[p].was = proc[p].was
      /\ proc'[p].withData = proc[p].withData /\ proc'[p].left = proc[p].left
      /\ \A q \in Processes \ {p} : proc'[q] = proc[q]
  BY <1>1, <1>2, Moves DEF Steps, RestoreSteps
<1>5. View' = View
  BY <1>1 DEF View
<1>6. TypeOK'
  BY <1>1, <1>3, <1>4 DEF Inv, TypeOK
<1>7. Missing' /\ CommittedRowsStay'
  BY <1>1, <1>2, <1>4, <1>5, RowsKept DEF Inv, Missing
<1>8. Upgrading(p)' /\ Restoring(p)' /\ BackingUp(p)'
  BY <1>1, <1>2, <1>4, <1>5 DEF Upgrading, Restoring, BackingUp, RestoreSteps, TarSteps
<1> QED
  BY <1>1, <1>2, <1>4, <1>6, <1>7, <1>8, AloneSteps

\* The rename of restore_backup_snapshot(), and the unlinks.
LEMMA RestoreReplaceInv ==
  ASSUME Inv, NEW p \in Processes, restore_backup_snapshot(p)
  PROVE  Inv'
<1> DEFINE a == proc[p].archive
<1>1. /\ proc[p].at \in {"r_replace", "r_sidecars"}
      /\ UNCHANGED <<data, previous, candidate, prepared, tar, bz3, bot, clock, written, faults,
                     reported>>
  BY DEF restore_backup_snapshot
<1>2. /\ bot = "down" /\ \A q \in Processes \ {p} : proc[q].at = "idle"
      /\ live \in Database \cup {None} /\ wal \in Log \cup {None}
      /\ proc \in [Processes -> Work] /\ Restoring(p) /\ proc[p] \in Work
  BY <1>1, AloneWhenReplacing DEF Replacing, RestoreSteps
<1>3. a \in Archive /\ a.db \in Database /\ a.db # None /\ a.db.rows \subseteq Writes
      /\ a.db.whole \in BOOLEAN
  BY <1>1, <1>2, StorageAssumption
     DEF Restoring, RestoreSteps, Complete, Work, Archive, Database
<1>4. ASSUME NEW step \in RestoreSteps, Move(p, step)
      PROVE  /\ proc' \in [Processes -> Work] /\ proc'[p].at = step
             /\ proc'[p].archive = a /\ proc'[p].was = proc[p].was
             /\ proc'[p].withData = proc[p].withData /\ proc'[p].left = proc[p].left
             /\ \A q \in Processes \ {p} : proc'[q] = proc[q]
  BY <1>2, <1>4, Moves DEF Steps
<1>5. CASE proc[p].at = "r_replace"
  <2>1. /\ temporary = a.db /\ live' = temporary /\ temporary' = None /\ wal' = Orphaned
        /\ truth' = temporary.rows /\ Move(p, "r_sidecars") /\ mispaired' = mispaired
    BY <1>2, <1>5 DEF restore_backup_snapshot, Restoring
  <2>2. /\ proc' \in [Processes -> Work] /\ proc'[p].at = "r_sidecars"
        /\ proc'[p].archive = a /\ proc'[p].left = proc[p].left
        /\ proc'[p].withData = proc[p].withData
        /\ \A q \in Processes \ {p} : proc'[q] = proc[q]
    BY <1>4, <2>1 DEF RestoreSteps
  <2>3. wal' \in Log \cup {None} /\ (wal' # None => wal'.of = "gone")
    BY <1>2, <2>1 DEF Orphaned, Log
  <2>4. TypeOK'
    BY <1>1, <1>3, <2>1, <2>2, <2>3 DEF Inv, TypeOK
  <2>5. Missing' /\ CommittedRowsStay'
    BY <1>3, <2>1, <2>2 DEF Missing, CommittedRowsStay
  <2>6. Upgrading(p)' /\ BackingUp(p)'
    BY <2>2 DEF Upgrading, BackingUp, TarSteps
  <2>7. Restoring(p)'
    BY <1>1, <1>2, <1>5, <2>1, <2>2, <2>3 DEF Restoring, RestoreSteps
  <2> QED
    BY <1>1, <1>2, <2>2, <2>4, <2>5, <2>6, <2>7, AloneSteps
<1>6. CASE proc[p].at = "r_sidecars"
  <2>1. /\ live = a.db /\ truth = live.rows /\ wal' = None /\ mispaired' = ~live.whole
        /\ Move(p, "r_data") /\ UNCHANGED <<live, temporary, truth>>
    BY <1>2, <1>6 DEF restore_backup_snapshot, Restoring
  <2>2. /\ proc' \in [Processes -> Work] /\ proc'[p].at = "r_data"
        /\ proc'[p].archive = a /\ proc'[p].left = proc[p].left
        /\ proc'[p].withData = proc[p].withData
        /\ \A q \in Processes \ {p} : proc'[q] = proc[q]
    BY <1>4, <2>1 DEF RestoreSteps
  <2>3. TypeOK'
    BY <1>1, <1>3, <2>1, <2>2 DEF Inv, TypeOK
  <2>4. View' = live'
    BY <1>2, <2>1, ReadFacts DEF View
  <2>5. Missing' /\ CommittedRowsStay'
    BY <1>3, <2>1, <2>4 DEF Missing, CommittedRowsStay
  <2>6. Upgrading(p)' /\ BackingUp(p)'
    BY <2>2 DEF Upgrading, BackingUp, TarSteps
  <2>7. Restoring(p)'
    BY <1>1, <1>2, <1>6, <2>1, <2>2 DEF Restoring, RestoreSteps
  <2> QED
    BY <1>1, <1>2, <2>2, <2>3, <2>5, <2>6, <2>7, AloneSteps
<1> QED
  BY <1>1, <1>5, <1>6

LEMMA RestoreDataInv ==
  ASSUME Inv, NEW p \in Processes, RestoreData(p)
  PROVE  Inv'
<1> DEFINE a == proc[p].archive
<1>1. PICK d \in proc[p].left \cap a.members :
        /\ data' = [data EXCEPT ![d] = a.data[d]]
        /\ proc' = [proc EXCEPT ![p].left = @ \ {d}]
  BY DEF RestoreData
<1>2. /\ proc[p].at = "r_data"
      /\ UNCHANGED <<live, wal, previous, candidate, prepared, temporary, tar, bz3, bot, clock,
                     written, faults, truth, reported, mispaired>>
  BY DEF RestoreData, ghosts
<1>3. /\ bot = "down" /\ \A q \in Processes \ {p} : proc[q].at = "idle"
      /\ proc \in [Processes -> Work] /\ Restoring(p) /\ proc[p] \in Work
      /\ data \in [DataFiles -> 0 .. MaxWrites] /\ wal \in Log \cup {None}
  BY <1>2, AloneWhenReplacing DEF Replacing, RestoreSteps, Inv, TypeOK
<1>4. a \in Archive /\ a.data \in [DataFiles -> 0 .. MaxWrites] /\ d \in DataFiles
      /\ proc[p].left \subseteq DataFiles
  BY <1>2, <1>3 DEF Restoring, RestoreSteps, Complete, Work, Archive
<1> DEFINE work == [proc[p] EXCEPT !.left = @ \ {d}]
<1>5. /\ work \in Work /\ work.at = proc[p].at /\ work.archive = a /\ work.was = proc[p].was
      /\ work.withData = proc[p].withData /\ work.left = proc[p].left \ {d}
  BY <1>3 DEF Work
<1>6. /\ proc' \in [Processes -> Work] /\ proc'[p] = work
      /\ \A q \in Processes \ {p} : proc'[q] = proc[q]
  BY <1>1, <1>3, <1>5
<1> HIDE DEF work
<1>7. TypeOK'
  BY <1>1, <1>2, <1>3, <1>4, <1>6 DEF Inv, TypeOK
<1>8. View' = View
  BY <1>2 DEF View
<1>9. Missing' /\ CommittedRowsStay'
  BY <1>2, <1>3, <1>8, RowsKept DEF Inv, Missing
<1>10. Upgrading(p)' /\ BackingUp(p)'
  BY <1>2, <1>5, <1>6 DEF Upgrading, BackingUp, TarSteps
<1>11. Restoring(p)'
  <2>1. \A e \in DataFiles \ work.left : proc[p].withData => data'[e] = a.data[e]
    BY <1>1, <1>2, <1>3, <1>4, <1>5 DEF Restoring, RestoreSteps
  <2> QED
    BY <1>2, <1>3, <1>5, <1>6, <2>1 DEF Restoring, RestoreSteps
<1> QED
  BY <1>2, <1>3, <1>6, <1>7, <1>9, <1>10, <1>11, AloneSteps

LEMMA RestoreEndsInv ==
  ASSUME Inv, NEW p \in Processes, NEW ok \in BOOLEAN, RestoreEnds(p, ok)
  PROVE  Inv'
BY EndsInv DEF RestoreEnds, disk, ghosts, Inv, TypeOK

-----------------------------------------------------------------------------
(* A step raises, or the process is killed.                                *)

LEMMA InterruptedInv ==
  ASSUME Inv, NEW p \in Processes, Fail(p) \/ Kill(p)
  PROVE  Inv'
<1> DEFINE s == proc[p].second
<1>1. /\ previous \in [Seconds -> Database \cup {None}]
      /\ candidate \in [Seconds -> Database \cup {None}]
      /\ prepared \in [Seconds -> Database \cup {None}]
      /\ faults \in 0 .. MaxFaults /\ mispaired \in BOOLEAN
      /\ proc \in [Processes -> Work] /\ proc[p] \in Work /\ s \in Seconds
      /\ live \in Database \cup {None} /\ wal \in Log \cup {None}
  BY DEF Inv, TypeOK, Work
<1>2. /\ Interrupted(p) /\ End(p)
      /\ candidate' \in [Seconds -> Database \cup {None}]
      /\ prepared' \in [Seconds -> Database \cup {None}]
  BY <1>1, Cleans DEF Fail, Kill, Abandon
<1>3. previous' \in [Seconds -> Database \cup {None}]
  <2>1. -1 \in -1 .. Head
    BY StorageAssumption
  <2>2. [schema |-> -1, name |-> None, rows |-> {}, whole |-> TRUE] \in Database
    BY <2>1 DEF Database
  <2> QED
    BY <1>1, <1>2, <2>2 DEF Interrupted, HalfCopied
<1>4. /\ proc[p].at # "idle" /\ faults' = faults + 1 /\ faults < MaxFaults
      /\ mispaired' = (mispaired \/ (proc[p].at = "r_sidecars" /\ ~View.whole))
      /\ UNCHANGED <<live, wal, data, temporary, tar, bz3, bot, clock, written, truth, reported>>
  BY <1>2 DEF Interrupted
<1>5. faults' \in 0 .. MaxFaults /\ mispaired' \in BOOLEAN /\ (mispaired => mispaired')
  BY <1>1, <1>4, StorageAssumption
<1>6. ASSUME proc[p].at = "r_sidecars"
      PROVE  mispaired' \/ (View.whole /\ View.rows = truth)
  <2>1. live # None /\ truth = live.rows /\ (wal # None => wal.of = "gone")
    BY <1>6 DEF Inv, Missing, Restoring
  <2>2. CASE wal = None
    BY <1>1, <1>4, <1>6, <2>1, <2>2, ReadFacts DEF View
  <2>3. CASE wal # None
    BY <1>1, <1>4, <1>6, <2>1, <2>3, ReadFacts DEF View
  <2> QED
    BY <2>2, <2>3
<1> QED
  BY <1>2, <1>3, <1>4, <1>5, <1>6, EndsInv

-----------------------------------------------------------------------------
(* The bot, and time.                                                      *)

\* A step of the bot: nobody replaces the database, and the processes stay.
LEMMA BotSteps ==
  ASSUME Inv, proc' = proc, bot # "down" \/ \A p \in Processes : proc[p].at \notin Replacing,
         bot' # "down" => live' # None, UNCHANGED <<tar, bz3, reported>>,
         TypeOK', CommittedRowsStay',
         live = None <=> live' = None,
         live # None => live'.schema = live.schema /\ live'.name = live.name,
         live = None => wal' = None /\ truth' = {}
  PROVE  Inv'
<1>1. \A p \in Processes : proc[p].at \notin Replacing
  BY DEF Inv, Exclusive
<1>2. Exclusive' /\ OneTarEach'
  BY <1>1 DEF Inv, Exclusive, OneTarEach
<1>3. Missing'
  BY DEF Inv, Missing
<1>4. ArchivesStay'
  BY DEF Inv, ArchivesStay, Complete
<1>5. ASSUME NEW p \in Processes
      PROVE  Upgrading(p)' /\ Restoring(p)' /\ BackingUp(p)'
  <2>1. BackingUp(p) /\ proc[p].at \notin Replacing
    BY <1>1 DEF Inv
  <2>2. Upgrading(p)' /\ Restoring(p)'
    BY <2>1 DEF Upgrading, Restoring, Replacing, UpgradeSteps, RestoreSteps
  <2>3. BackingUp(p)'
    BY <2>1 DEF BackingUp
  <2> QED
    BY <2>2, <2>3
<1> QED
  BY <1>2, <1>3, <1>4, <1>5 DEF Inv

LEMMA BotWithoutRows ==
  ASSUME Inv,
         \/ BotStart \/ BotClose \/ BotStop \/ BotCrash
         \/ \E d \in DataFiles : BotWritesData(d)
  PROVE  Inv'
<1>1. /\ live \in Database \cup {None} /\ wal \in Log \cup {None}
      /\ faults \in 0 .. MaxFaults /\ written \in 0 .. MaxWrites
      /\ data \in [DataFiles -> 0 .. MaxWrites] /\ bot \in {"down", "up", "writing"}
  BY DEF Inv, TypeOK
<1>2. /\ UNCHANGED <<previous, candidate, prepared, temporary, tar, bz3, proc, clock, truth,
                     reported, mispaired>>
      /\ bot # "down" \/ \A p \in Processes : proc[p].at \notin Replacing
      /\ bot' \in {"down", "up", "writing"}
  BY DEF BotStart, BotClose, BotStop, BotCrash, BotWritesData, still, disk, ghosts,
         NobodyReplaces, Replacing
<1>3. /\ live' \in Database \cup {None} /\ wal' \in Log \cup {None}
      /\ View' = View /\ (live = None <=> live' = None)
      /\ live = None => wal' = None
  <2>1. CASE UNCHANGED <<live, wal>>
    BY <1>1, <2>1 DEF View, Inv, Missing
  <2>2. CASE CloseWritable
    <3>1. live = None => wal' = None
      BY <2>2 DEF CloseWritable, Inv, Missing
    <3> QED
      BY <1>1, <2>2, <3>1, ClosingIsSilent
  <2>3. CASE live' = View /\ wal' = None
    <3>1. Read(live', wal') = live' /\ live' \in Database \cup {None}
          /\ (live' = None <=> live = None)
      BY <1>1, <2>3, ReadFacts DEF View
    <3> QED
      BY <2>3, <3>1 DEF View
  <2> QED
    BY <2>1, <2>2, <2>3 DEF BotStart, BotClose, BotStop, BotCrash, BotWritesData, disk
<1>4. bot' # "down" => live' # None
  <2>1. ASSUME BotStart PROVE live # None
    <3>1. View # None
      BY <2>1 DEF BotStart, Checks
    <3> QED
      BY <1>1, <3>1, ReadFacts DEF View
  <2>2. bot # "down" => live # None
    BY DEF Inv, Missing
  <2> QED
    BY <1>3, <2>1, <2>2 DEF BotClose, BotStop, BotCrash, BotWritesData
<1>5. live # None => live'.schema = live.schema /\ live'.name = live.name
  BY <1>1, <1>3, ReadFacts DEF View
<1>6. TypeOK'
  <2>1. faults' \in 0 .. MaxFaults /\ written' \in 0 .. MaxWrites
        /\ data' \in [DataFiles -> 0 .. MaxWrites]
    <3>1. CASE UNCHANGED <<faults, written, data>>
      BY <1>1, <3>1
    <3>2. CASE BotCrash
      BY <1>1, <3>2, StorageAssumption DEF BotCrash, disk
    <3>3. CASE \E d \in DataFiles : BotWritesData(d)
      <4>1. PICK d \in DataFiles : BotWritesData(d)
        BY <3>3
      <4>2. written' = written + 1 /\ written < MaxWrites /\ faults' = faults
            /\ data' = [data EXCEPT ![d] = written']
        BY <4>1 DEF BotWritesData
      <4>3. written' \in 0 .. MaxWrites
        BY <1>1, <4>2, StorageAssumption
      <4> QED
        BY <1>1, <4>2, <4>3
    <3> QED
      BY <3>1, <3>2, <3>3 DEF BotStart, BotClose, BotStop, still, disk
  <2> QED
    BY <1>2, <1>3, <2>1 DEF Inv, TypeOK
<1>7. CommittedRowsStay'
  BY <1>2, <1>3 DEF Inv, CommittedRowsStay
<1>8. live = None => wal' = None /\ truth' = {}
  BY <1>2, <1>3 DEF Inv, Missing
<1> QED
  BY <1>2, <1>3, <1>4, <1>5, <1>6, <1>7, <1>8, BotSteps

LEMMA BotCommitInv ==
  ASSUME Inv, BotCommit
  PROVE  Inv'
<1> DEFINE w == written + 1
<1>1. /\ live \in Database /\ wal \in Log \cup {None} /\ written \in 0 .. MaxWrites
      /\ truth \subseteq Writes /\ bot = "up" /\ written < MaxWrites
  BY DEF Inv, TypeOK, BotCommit, Missing
<1>2. /\ UNCHANGED <<live, data, previous, candidate, prepared, temporary, tar, bz3, proc, clock,
                     faults, reported, mispaired>>
      /\ bot' = "writing" /\ written' = w /\ truth' = truth \cup {w}
      /\ wal' = IF wal = None THEN [of |-> "live", rows |-> {w}]
                              ELSE [wal EXCEPT !.rows = @ \cup {w}]
  BY DEF BotCommit, still
<1>3. w \in Writes /\ w \in 0 .. MaxWrites
  BY <1>1, StorageAssumption DEF Writes
<1> HIDE DEF w
<1>4. /\ wal' \in Log
      /\ wal'.of = (IF wal = None THEN "live" ELSE wal.of)
      /\ wal'.rows = (IF wal = None THEN {w} ELSE wal.rows \cup {w})
  <2>1. CASE wal = None
    BY <1>2, <1>3, <2>1 DEF Log
  <2>2. CASE wal \in Log
    <3>1. wal # None /\ wal' = [wal EXCEPT !.rows = @ \cup {w}]
      BY <1>2, <2>2, StorageAssumption
    <3> QED
      BY <1>3, <2>2, <3>1 DEF Log
  <2> QED
    BY <1>1, <2>1, <2>2
<1>5. live # None /\ wal' # None
  BY <1>1, <1>4, StorageAssumption
<1>6. TypeOK'
  BY <1>1, <1>2, <1>3, <1>4 DEF Inv, TypeOK
<1>7. CommittedRowsStay'
  <2>1. CASE mispaired
    BY <1>2, <2>1 DEF CommittedRowsStay
  <2>2. CASE ~mispaired
    <3>1. \A p \in Processes : proc[p].at # "r_sidecars"
      BY <1>1 DEF Inv, Exclusive, Replacing, RestoreSteps
    <3>2. View.whole /\ View.rows = truth
      BY <1>5, <2>2, <3>1 DEF Inv, CommittedRowsStay
    <3>3. /\ wal = None => live.whole /\ live.rows = truth
          /\ wal # None => wal.of = "live" /\ live.whole /\ live.rows \cup wal.rows = truth
      BY <1>1, <1>5, <3>2, ReadFacts DEF View, Log
    <3>4. /\ live' \in Database \cup {None} /\ live' # None
          /\ wal' \in Log \cup {None} /\ wal' # None /\ wal'.of = "live"
      BY <1>1, <1>2, <1>4, <1>5, <3>3
    <3>5. /\ Read(live', wal').whole = live'.whole
          /\ Read(live', wal').rows = live'.rows \cup wal'.rows
      BY <3>4, ReadFacts
    <3>6. View'.whole = live'.whole /\ View'.rows = live'.rows \cup wal'.rows
      BY <3>5 DEF View
    <3> QED
      BY <1>2, <1>4, <3>3, <3>6 DEF CommittedRowsStay
  <2> QED
    BY <2>1, <2>2
<1> QED
  BY <1>1, <1>2, <1>5, <1>6, <1>7, BotSteps

\* The clock moves, or nothing does, under whatever is running.
LEMMA TickInv ==
  ASSUME Inv, Tick \/ UNCHANGED vars
  PROVE  Inv'
<1>1. /\ UNCHANGED <<live, wal, data, previous, candidate, prepared, temporary, tar, bz3, bot,
                     proc, written, faults, truth, reported, mispaired>>
      /\ clock' = clock \/ (clock < MaxClock /\ clock' = clock + 1)
      /\ clock \in Seconds
  BY DEF Tick, vars, disk, ghosts, Inv, TypeOK
<1>2. clock' \in Seconds
  BY <1>1, StorageAssumption DEF Seconds
<1>3. TypeOK'
  BY <1>1, <1>2 DEF Inv, TypeOK
<1>4. View' = View
  BY <1>1 DEF View
<1>5. Exclusive' /\ Missing' /\ OneTarEach'
  BY <1>1 DEF Inv, Exclusive, Missing, OneTarEach
<1>6. CommittedRowsStay' /\ ArchivesStay'
  BY <1>1, <1>4 DEF Inv, CommittedRowsStay, ArchivesStay, Complete
<1>7. ASSUME NEW p \in Processes
      PROVE  Upgrading(p)' /\ Restoring(p)' /\ BackingUp(p)'
  <2>1. Upgrading(p) /\ Restoring(p) /\ BackingUp(p)
    BY DEF Inv
  <2>2. Upgrading(p)'
    BY <1>1, <1>4, <2>1 DEF Upgrading, SameRows
  <2>3. Restoring(p)'
    BY <1>1, <1>4, <2>1 DEF Restoring, Complete
  <2>4. BackingUp(p)'
    BY <1>1, <2>1 DEF BackingUp
  <2> QED
    BY <2>2, <2>3, <2>4
<1> QED
  BY <1>3, <1>5, <1>6, <1>7 DEF Inv

-----------------------------------------------------------------------------
(* Backups run beside the bot and beside each other.                       *)

LEMMA WhoBacksUp ==
  ASSUME Inv, NEW p \in Processes, proc[p].at \in BackupSteps
  PROVE  /\ live \in Database /\ live # None /\ wal \in Log \cup {None}
         /\ \A q \in Processes : proc[q].at \notin Replacing
         /\ proc \in [Processes -> Work] /\ proc[p] \in Work /\ proc[p].second \in Seconds
         /\ BackingUp(p)
         /\ tar \in [Seconds -> Archive \cup {None}] /\ bz3 \in [Seconds -> Archive \cup {None}]
         /\ reported \in [Seconds -> Archive \cup {None}]
<1>1. /\ live \in Database \cup {None} /\ wal \in Log \cup {None}
      /\ proc \in [Processes -> Work] /\ BackingUp(p)
      /\ tar \in [Seconds -> Archive \cup {None}] /\ bz3 \in [Seconds -> Archive \cup {None}]
      /\ reported \in [Seconds -> Archive \cup {None}]
  BY DEF Inv, TypeOK
<1>2. proc[p] \in Work /\ proc[p].second \in Seconds
  BY <1>1 DEF Work
<1>3. proc[p].at \notin {"idle", "r_copy", "r_replace"} /\ proc[p].at \notin Replacing
  BY DEF BackupSteps, Replacing, UpgradeSteps, RestoreSteps, InitSteps
<1>4. live # None
  BY <1>3 DEF Inv, Missing
<1>5. \A q \in Processes : proc[q].at \notin Replacing
  BY <1>3 DEF Inv, Exclusive
<1> QED
  BY <1>1, <1>2, <1>4, <1>5

\* A step of a backup touches no archive that another has open.
LEMMA BackupStepsInv ==
  ASSUME Inv, NEW p \in Processes, live # None,
         \A q \in Processes : proc[q].at \notin Replacing,
         \A q \in Processes \ {p} : proc'[q] = proc[q],
         proc'[p].at \in {"idle"} \cup BackupSteps,
         bot' = bot, TypeOK', View' = View, UNCHANGED <<truth, mispaired>>,
         live' # None /\ live'.schema = live.schema /\ live'.name = live.name,
         BackingUp(p)', ArchivesStay',
         \A q \in Processes \ {p} : proc[q].at \in TarSteps =>
           /\ proc'[p].at \in TarSteps => proc'[p].second # proc[q].second
           /\ tar'[proc[q].second] = tar[proc[q].second]
           /\ bz3'[proc[q].second] = bz3[proc[q].second]
           /\ reported'[proc[q].second] = reported[proc[q].second]
  PROVE  Inv'
<1>1. \A q \in Processes : proc'[q].at \notin Replacing
  BY DEF Replacing, BackupSteps, UpgradeSteps, RestoreSteps, InitSteps
<1>2. Exclusive' /\ Missing'
  BY <1>1 DEF Exclusive, Missing
<1>3. OneTarEach'
  BY DEF Inv, OneTarEach
<1>4. CommittedRowsStay'
  <2>1. \A q \in Processes : proc[q].at # "r_sidecars"
    BY DEF Replacing, RestoreSteps
  <2> QED
    BY <2>1, RowsKept DEF Inv
<1>5. ASSUME NEW q \in Processes
      PROVE  Upgrading(q)' /\ Restoring(q)'
  BY <1>1 DEF Upgrading, Restoring, Replacing, UpgradeSteps, RestoreSteps
<1>6. ASSUME NEW q \in Processes \ {p}
      PROVE  BackingUp(q)'
  <2>1. BackingUp(q) /\ proc'[q] = proc[q]
    BY DEF Inv
  <2>2. CASE proc[q].at \in TarSteps
    BY <2>1, <2>2 DEF BackingUp, TarSteps
  <2>3. CASE proc[q].at \notin TarSteps
    BY <2>1, <2>3 DEF BackingUp, TarSteps
  <2> QED
    BY <2>2, <2>3
<1> QED
  BY <1>2, <1>3, <1>4, <1>5, <1>6 DEF Inv

LEMMA BackupBeginsInv ==
  ASSUME Inv, NEW p \in Processes, BackupBegins(p)
  PROVE  Inv'
<1> DEFINE work == [Idle EXCEPT !.at = "b_snapshot", !.second = clock, !.left = DataFiles]
<1>1. /\ proc \in [Processes -> Work] /\ clock \in Seconds
      /\ live \in Database \cup {None} /\ wal \in Log \cup {None}
      /\ UNCHANGED <<live, wal, data, previous, candidate, prepared, temporary, tar, bz3, bot,
                     clock, written, faults, truth, reported, mispaired>>
      /\ \A q \in Processes : proc[q].at \notin Replacing
  BY DEF Inv, TypeOK, BackupBegins, disk, ghosts, NobodyReplaces, Replacing
<1>2. work \in Work /\ work.at = "b_snapshot" /\ work.left = DataFiles
  BY <1>1, StorageAssumption DEF Idle, Work, BackupSteps
<1>3. /\ proc' \in [Processes -> Work] /\ proc'[p] = work
      /\ \A q \in Processes \ {p} : proc'[q] = proc[q]
  BY <1>1, <1>2, Begins DEF BackupBegins
<1> HIDE DEF work
<1>4. live # None /\ live.schema = Head /\ live.name = "me"
  <2>1. View # None /\ View.schema = Head /\ View.name = "me"
    BY DEF BackupBegins, Checks
  <2> QED
    BY <1>1, <2>1, ReadFacts DEF View
<1>5. TypeOK' /\ View' = View
  BY <1>1, <1>3 DEF Inv, TypeOK, View
<1>6. BackingUp(p)'
  BY <1>1, <1>2, <1>3, <1>4 DEF BackingUp, TarSteps
<1>7. ArchivesStay'
  BY <1>1 DEF Inv, ArchivesStay, Complete
<1> QED
  BY <1>1, <1>2, <1>3, <1>4, <1>5, <1>6, <1>7, BackupStepsInv DEF BackupSteps, TarSteps

LEMMA BackupSnapshotInv ==
  ASSUME Inv, NEW p \in Processes, BackupSnapshot(p)
  PROVE  Inv'
<1> DEFINE work == [proc[p] EXCEPT !.at = "b_data",
                      !.archive = [db |-> View, data |-> data, members |-> {"db"}]]
<1>1. /\ proc[p].at = "b_snapshot" /\ CloseWritable /\ proc' = [proc EXCEPT ![p] = work]
      /\ UNCHANGED <<data, previous, candidate, prepared, temporary, tar, bz3, bot, clock,
                     written, faults, truth, reported, mispaired>>
  BY DEF BackupSnapshot, Snapshot, still, ghosts
<1>2. /\ live \in Database /\ live # None /\ wal \in Log \cup {None}
      /\ \A q \in Processes : proc[q].at \notin Replacing
      /\ proc \in [Processes -> Work] /\ proc[p] \in Work
      /\ live.schema = Head /\ live.name = "me" /\ proc[p].left = DataFiles
  BY <1>1, WhoBacksUp DEF BackupSteps, BackingUp
<1>3. /\ live' \in Database \cup {None} /\ wal' \in Log \cup {None}
      /\ View' = View /\ live' # None
  BY <1>1, <1>2, ClosingIsSilent
<1>4. /\ View \in Database /\ View.schema = Head /\ View.name = "me"
      /\ live'.schema = live.schema /\ live'.name = live.name
  <2>1. View \in Database /\ View.schema = Head /\ View.name = "me"
    BY <1>2, ReadFacts DEF View
  <2>2. Read(live', wal').schema = live'.schema /\ Read(live', wal').name = live'.name
    BY <1>3, ReadFacts
  <2> QED
    BY <1>2, <1>3, <2>1, <2>2 DEF View
<1>5. /\ [db |-> View, data |-> data, members |-> {"db"}] \in Archive
      /\ data \in [DataFiles -> 0 .. MaxWrites]
  BY <1>4 DEF Archive, Inv, TypeOK
<1>6. /\ work \in Work /\ work.at = "b_data" /\ work.archive.db = View
      /\ work.archive.members = {"db"} /\ work.archive \in Archive /\ work.left = proc[p].left
  BY <1>2, <1>5 DEF Work, BackupSteps
<1> HIDE DEF work
<1>7. /\ proc' \in [Processes -> Work] /\ proc'[p] = work
      /\ \A q \in Processes \ {p} : proc'[q] = proc[q]
  BY <1>1, <1>2, <1>6
<1>8. TypeOK'
  BY <1>1, <1>3, <1>7 DEF Inv, TypeOK
<1>9. ArchivesStay'
  BY <1>1 DEF Inv, ArchivesStay, Complete
<1>10. BackingUp(p)'
  <2>1. work.archive # None
    BY <1>6, StorageAssumption
  <2>2. work.archive.members = {"db"} \cup (DataFiles \ work.left)
    BY <1>2, <1>6
  <2> QED
    BY <1>4, <1>6, <1>7, <2>1, <2>2 DEF BackingUp, TarSteps
<1> QED
  BY <1>1, <1>2, <1>3, <1>4, <1>6, <1>7, <1>8, <1>9, <1>10, BackupStepsInv
     DEF BackupSteps, TarSteps

LEMMA CopyDataInv ==
  ASSUME Inv, NEW p \in Processes, _copy_data(p)
  PROVE  Inv'
<1> DEFINE a == proc[p].archive
<1>1. PICK d \in proc[p].left :
        proc' = [proc EXCEPT ![p].left = @ \ {d}, ![p].archive.data[d] = data[d],
                             ![p].archive.members = @ \cup {d}]
  BY DEF _copy_data
<1>2. /\ proc[p].at = "b_data"
      /\ UNCHANGED <<live, wal, data, previous, candidate, prepared, temporary, tar, bz3, bot,
                     clock, written, faults, truth, reported, mispaired>>
  BY DEF _copy_data, disk, ghosts
<1>3. /\ live \in Database /\ live # None
      /\ \A q \in Processes : proc[q].at \notin Replacing
      /\ proc \in [Processes -> Work] /\ proc[p] \in Work /\ BackingUp(p)
      /\ data \in [DataFiles -> 0 .. MaxWrites]
  BY <1>2, WhoBacksUp DEF BackupSteps, Inv, TypeOK
<1>4. /\ a \in Archive /\ a.db.schema = Head /\ a.db.name = "me"
      /\ a.members = {"db"} \cup (DataFiles \ proc[p].left)
      /\ d \in DataFiles /\ proc[p].left \subseteq DataFiles
  BY <1>1, <1>2, <1>3 DEF BackingUp, Work
<1> DEFINE new == [a EXCEPT !.data = [a.data EXCEPT ![d] = data[d]], !.members = @ \cup {d}]
           work == [proc[p] EXCEPT !.left = @ \ {d}, !.archive = new]
<1>5. /\ new \in Archive /\ new.db = a.db /\ new.members = a.members \cup {d}
  <2>1. [a.data EXCEPT ![d] = data[d]] \in [DataFiles -> 0 .. MaxWrites]
    BY <1>3, <1>4 DEF Archive
  <2> HIDE DEF a
  <2>2. a.members \cup {d} \in SUBSET ({"db"} \cup DataFiles)
    BY <1>4 DEF Archive
  <2> QED
    BY <1>4, <2>1, <2>2 DEF Archive
<1>6. proc' = [proc EXCEPT ![p] = work]
  BY <1>1, <1>3, <1>4 DEF Work, Archive
<1> HIDE DEF new, a
<1>7. /\ work \in Work /\ work.at = "b_data" /\ work.left = proc[p].left \ {d}
      /\ work.archive = new
  BY <1>2, <1>3, <1>5 DEF Work
<1> HIDE DEF work
<1>8. /\ proc' \in [Processes -> Work] /\ proc'[p] = work
      /\ \A q \in Processes \ {p} : proc'[q] = proc[q]
  BY <1>3, <1>6, <1>7
<1>9. TypeOK' /\ View' = View
  BY <1>2, <1>8 DEF Inv, TypeOK, View
<1>10. ArchivesStay'
  BY <1>2 DEF Inv, ArchivesStay, Complete
<1>11. BackingUp(p)'
  <2>1. new # None
    BY <1>5, StorageAssumption
  <2>2. new.members = {"db"} \cup (DataFiles \ work.left)
    BY <1>4, <1>5, <1>7
  <2> QED
    BY <1>4, <1>5, <1>7, <1>8, <2>1, <2>2 DEF BackingUp, TarSteps
<1> QED
  BY <1>2, <1>3, <1>7, <1>8, <1>9, <1>10, <1>11, BackupStepsInv DEF BackupSteps, TarSteps

\* What is left to show of a step that writes the archives of its second.
LEMMA ArchivingInv ==
  ASSUME Inv, NEW p \in Processes, proc[p].at \in {"b_data"} \cup TarSteps,
         proc[p].at = "b_data" => tar[proc[p].second] = None,
         UNCHANGED <<live, wal, data, previous, candidate, prepared, temporary, bot, clock,
                     written, faults, truth, mispaired>>,
         \A q \in Processes \ {p} : proc'[q] = proc[q],
         proc' \in [Processes -> Work], proc'[p].at \in {"idle"} \cup TarSteps,
         proc'[p].at \in TarSteps => proc'[p].second = proc[p].second,
         \A archives \in {tar', bz3', reported'} : archives \in [Seconds -> Archive \cup {None}],
         \A s \in Seconds \ {proc[p].second} :
           tar'[s] = tar[s] /\ bz3'[s] = bz3[s] /\ reported'[s] = reported[s],
         reported'[proc[p].second] # None =>
           /\ reported'[proc[p].second] \in {tar'[proc[p].second], bz3'[proc[p].second]}
           /\ Complete(reported'[proc[p].second])
           /\ reported'[proc[p].second].db.schema = Head
           /\ reported'[proc[p].second].db.name = "me",
         BackingUp(p)'
  PROVE  Inv'
<1> DEFINE s == proc[p].second
<1>1. /\ live \in Database /\ live # None
      /\ \A q \in Processes : proc[q].at \notin Replacing
      /\ proc \in [Processes -> Work] /\ s \in Seconds /\ BackingUp(p)
  BY WhoBacksUp DEF BackupSteps, TarSteps
<1>2. TypeOK'
  BY DEF Inv, TypeOK
<1>3. View' = View
  BY DEF View
<1>4. ArchivesStay'
  BY DEF Inv, ArchivesStay, Complete
<1>5. ASSUME NEW q \in Processes \ {p}, proc[q].at \in TarSteps
      PROVE  proc[q].second # s /\ proc[q].second \in Seconds
  <2>1. tar[proc[q].second] # None /\ proc[q].second \in Seconds
    BY <1>1, <1>5 DEF Inv, BackingUp, Work
  <2>2. proc[p].at \in TarSteps => proc[q].second # s
    BY <1>5 DEF Inv, OneTarEach
  <2> QED
    BY <2>1, <2>2
<1> QED
  BY <1>1, <1>2, <1>3, <1>4, <1>5, BackupStepsInv DEF BackupSteps, TarSteps

\* Giving up or dying loses nothing that was reported.
LEMMA BackupGivesUp ==
  ASSUME Inv, NEW p \in Processes, proc[p].at # "idle", End(p), UNCHANGED <<disk, ghosts>>,
         UNCHANGED <<bot, clock, written, faults>>, proc[p].at \notin RestoreSteps
  PROVE  Inv'
BY EndsInv DEF disk, ghosts, Inv, TypeOK, RestoreSteps

LEMMA OpenTarInv ==
  ASSUME Inv, NEW p \in Processes, OpenTar(p)
  PROVE  Inv'
<1> DEFINE s == proc[p].second
           a == proc[p].archive
<1>1. /\ proc[p].at = "b_data" /\ proc[p].left = {}
      /\ UNCHANGED <<live, wal, data, previous, candidate, prepared, temporary, bz3, bot, clock,
                     written, faults, truth, reported, mispaired>>
  BY DEF OpenTar, ghosts
<1>2. /\ proc \in [Processes -> Work] /\ proc[p] \in Work /\ s \in Seconds /\ BackingUp(p)
      /\ tar \in [Seconds -> Archive \cup {None}] /\ bz3 \in [Seconds -> Archive \cup {None}]
      /\ reported \in [Seconds -> Archive \cup {None}]
  BY <1>1, WhoBacksUp DEF BackupSteps
<1>3. CASE tar[s] # None
  <2>1. End(p) /\ tar' = tar
    BY <1>3 DEF OpenTar
  <2> QED
    BY <1>1, <2>1, BackupGivesUp DEF disk, ghosts, RestoreSteps
<1>4. CASE tar[s] = None
  <2> DEFINE file == [a EXCEPT !.members = {}]
  <2>1. /\ tar' = [tar EXCEPT ![s] = file] /\ Move(p, "b_tar")
    BY <1>4 DEF OpenTar
  <2>2. a \in Archive /\ file \in Archive /\ file # None
    BY <1>1, <1>2, StorageAssumption DEF BackingUp, Work, Archive
  <2> HIDE DEF file
  <2>3. /\ tar' \in [Seconds -> Archive \cup {None}] /\ tar'[s] = file
        /\ \A t \in Seconds \ {s} : tar'[t] = tar[t]
    BY <1>2, <2>1, <2>2
  <2>4. /\ proc' \in [Processes -> Work] /\ proc'[p].at = "b_tar" /\ proc'[p].second = s
        /\ proc'[p].archive = a /\ proc'[p].left = proc[p].left
        /\ \A q \in Processes \ {p} : proc'[q] = proc[q]
    BY <1>2, <2>1, Moves DEF Steps, BackupSteps
  <2>5. reported[s] # None =>
          /\ reported[s] = bz3[s] /\ Complete(reported[s])
          /\ reported[s].db.schema = Head /\ reported[s].db.name = "me"
    BY <1>2, <1>4 DEF Inv, ArchivesStay
  <2>6. BackingUp(p)'
    BY <1>1, <1>2, <2>2, <2>3, <2>4, <2>5 DEF BackingUp, TarSteps
  <2> QED
    BY <1>1, <1>2, <1>4, <2>3, <2>4, <2>5, <2>6, ArchivingInv DEF TarSteps
<1> QED
  BY <1>3, <1>4

LEMMA FillTarInv ==
  ASSUME Inv, NEW p \in Processes, FillTar(p)
  PROVE  Inv'
<1> DEFINE s == proc[p].second
           a == proc[p].archive
<1>1. /\ proc[p].at \in {"b_tar", "b_fill"}
      /\ UNCHANGED <<live, wal, data, previous, candidate, prepared, temporary, bz3, bot, clock,
                     written, faults, truth, reported, mispaired>>
  BY DEF FillTar, ghosts
<1>2. /\ proc \in [Processes -> Work] /\ proc[p] \in Work /\ s \in Seconds /\ BackingUp(p)
      /\ tar \in [Seconds -> Archive \cup {None}] /\ bz3 \in [Seconds -> Archive \cup {None}]
      /\ reported \in [Seconds -> Archive \cup {None}]
  BY <1>1, WhoBacksUp DEF BackupSteps
<1>3. a \in Archive /\ [a EXCEPT !.members = {"db"}] \in Archive
      /\ [a EXCEPT !.members = {"db"}] # None
  <2>1. a \in Archive \cup {None} /\ a # None
    BY <1>1, <1>2 DEF BackingUp, Work, TarSteps
  <2>2. [a EXCEPT !.members = {"db"}] \in Archive
    BY <2>1 DEF Archive
  <2> QED
    BY <2>1, <2>2, StorageAssumption DEF Archive
<1>4. PICK file \in Archive, step \in {"b_fill", "b_pack", "b_packed"} :
        /\ tar' = [tar EXCEPT ![s] = file] /\ Move(p, step) /\ file # None
        /\ step # "b_fill" => file = a
  <2>1. CASE proc[p].at = "b_tar"
    BY <1>3, <2>1 DEF FillTar
  <2>2. CASE proc[p].at = "b_fill"
    BY <1>3, <2>2, StorageAssumption DEF FillTar
  <2> QED
    BY <1>1, <2>1, <2>2
<1>5. /\ tar' \in [Seconds -> Archive \cup {None}] /\ tar'[s] = file
      /\ \A t \in Seconds \ {s} : tar'[t] = tar[t]
  BY <1>2, <1>4
<1>6. /\ proc' \in [Processes -> Work] /\ proc'[p].at = step /\ proc'[p].second = s
      /\ proc'[p].archive = a /\ proc'[p].left = proc[p].left
      /\ \A q \in Processes \ {p} : proc'[q] = proc[q]
  BY <1>2, <1>4, Moves DEF Steps, BackupSteps
<1>7. reported[s] # None =>
        /\ reported[s] = bz3[s] /\ Complete(reported[s])
        /\ reported[s].db.schema = Head /\ reported[s].db.name = "me"
  BY <1>1, <1>2 DEF Inv, ArchivesStay, BackingUp, TarSteps
<1>8. BackingUp(p)'
  BY <1>1, <1>2, <1>4, <1>5, <1>6, <1>7 DEF BackingUp, TarSteps
<1> QED
  BY <1>1, <1>2, <1>5, <1>6, <1>7, <1>8, ArchivingInv DEF TarSteps

LEMMA PackInv ==
  ASSUME Inv, NEW p \in Processes, Pack(p)
  PROVE  Inv'
<1> DEFINE s == proc[p].second
           a == proc[p].archive
<1>1. /\ proc[p].at = "b_pack"
      /\ UNCHANGED <<live, wal, data, previous, candidate, prepared, temporary, tar, bot, clock,
                     written, faults, truth, reported, mispaired>>
  BY DEF Pack, ghosts
<1>2. /\ proc \in [Processes -> Work] /\ proc[p] \in Work /\ s \in Seconds /\ BackingUp(p)
      /\ tar \in [Seconds -> Archive \cup {None}] /\ bz3 \in [Seconds -> Archive \cup {None}]
      /\ reported \in [Seconds -> Archive \cup {None}]
  BY <1>1, WhoBacksUp DEF BackupSteps
<1>3. CASE bz3[s] # None
  <2>1. End(p) /\ bz3' = bz3
    BY <1>3 DEF Pack
  <2> QED
    BY <1>1, <2>1, BackupGivesUp DEF disk, ghosts, RestoreSteps
<1>4. CASE bz3[s] = None
  <2> DEFINE file == [a EXCEPT !.members = {}]
  <2>1. /\ bz3' = [bz3 EXCEPT ![s] = file] /\ Move(p, "b_unlink")
    BY <1>4 DEF Pack
  <2>2. a \in Archive /\ file \in Archive /\ file # None
    BY <1>1, <1>2, StorageAssumption DEF BackingUp, Work, Archive, TarSteps
  <2> HIDE DEF file
  <2>3. /\ bz3' \in [Seconds -> Archive \cup {None}] /\ bz3'[s] = file
        /\ \A t \in Seconds \ {s} : bz3'[t] = bz3[t]
    BY <1>2, <2>1, <2>2
  <2>4. /\ proc' \in [Processes -> Work] /\ proc'[p].at = "b_unlink" /\ proc'[p].second = s
        /\ proc'[p].archive = a /\ proc'[p].left = proc[p].left
        /\ \A q \in Processes \ {p} : proc'[q] = proc[q]
    BY <1>2, <2>1, Moves DEF Steps, BackupSteps
  <2>5. reported[s] = None
    BY <1>1, <1>2, <1>4 DEF BackingUp, TarSteps
  <2>6. BackingUp(p)'
    BY <1>1, <1>2, <2>2, <2>3, <2>4, <2>5 DEF BackingUp, TarSteps
  <2> QED
    BY <1>1, <1>2, <2>3, <2>4, <2>5, <2>6, ArchivingInv DEF TarSteps
<1> QED
  BY <1>3, <1>4

\* What is reported is the complete archive of its second.
LEMMA BackupEndsInv ==
  ASSUME Inv, NEW p \in Processes, BackupEnds(p)
  PROVE  Inv'
<1> DEFINE s == proc[p].second
           a == proc[p].archive
<1>1. /\ proc[p].at \in {"b_packed", "b_unlink"} /\ End(p)
      /\ reported' = [reported EXCEPT ![s] = tar[s]]
      /\ UNCHANGED <<live, wal, data, previous, candidate, prepared, temporary, bot, clock,
                     written, faults, truth, mispaired>>
  BY DEF BackupEnds, Report
<1>2. /\ proc \in [Processes -> Work] /\ proc[p] \in Work /\ s \in Seconds /\ BackingUp(p)
      /\ tar \in [Seconds -> Archive \cup {None}] /\ bz3 \in [Seconds -> Archive \cup {None}]
      /\ reported \in [Seconds -> Archive \cup {None}]
  BY <1>1, WhoBacksUp DEF BackupSteps
<1>3. /\ tar[s] = a /\ a \in Archive /\ Complete(a) /\ a.db.schema = Head /\ a.db.name = "me"
  BY <1>1, <1>2, StorageAssumption DEF BackingUp, TarSteps, Work, Complete, Members
<1>4. /\ reported' \in [Seconds -> Archive \cup {None}] /\ reported'[s] = a
      /\ \A t \in Seconds \ {s} : reported'[t] = reported[t]
  BY <1>1, <1>2, <1>3
<1>5. /\ proc' \in [Processes -> Work] /\ proc'[p].at = "idle"
      /\ \A q \in Processes \ {p} : proc'[q] = proc[q]
  BY <1>1, <1>2, Ends
<1>6. /\ tar' \in [Seconds -> Archive \cup {None}] /\ bz3' \in [Seconds -> Archive \cup {None}]
      /\ \A t \in Seconds \ {s} : tar'[t] = tar[t] /\ bz3'[t] = bz3[t]
      /\ a \in {tar'[s], bz3'[s]}
  <2>1. CASE proc[p].at = "b_packed"
    BY <1>2, <1>3, <2>1 DEF BackupEnds
  <2>2. CASE proc[p].at = "b_unlink"
    <3>1. bz3' = [bz3 EXCEPT ![s] = tar[s]] /\ tar' = [tar EXCEPT ![s] = None]
      BY <2>2 DEF BackupEnds
    <3> QED
      BY <1>2, <1>3, <3>1
  <2> QED
    BY <1>1, <2>1, <2>2
<1>7. BackingUp(p)'
  BY <1>5 DEF BackingUp, TarSteps
<1> QED
  BY <1>1, <1>2, <1>3, <1>4, <1>5, <1>6, <1>7, ArchivingInv DEF TarSteps

-----------------------------------------------------------------------------
(* The invariant is inductive.                                             *)

LEMMA InitInv ==
  ASSUME Init
  PROVE  Inv
<1> DEFINE old == [schema |-> 0, name |-> "me", rows |-> {}, whole |-> TRUE]
           empty == [s \in Seconds |-> None]
<1>1. /\ \A p \in Processes : proc[p] = Idle
      /\ proc = [p \in Processes |-> Idle] /\ Idle \in Work /\ Idle.at = "idle"
      /\ bot = "down" /\ clock = 1 /\ faults = 0 /\ mispaired = FALSE /\ temporary = None
  BY StorageAssumption DEF Init, Idle, Work, Seconds
<1>2. 0 \in -1 .. Head /\ Head \in -1 .. Head
  BY StorageAssumption
<1>3. /\ live \in Database \cup {None}
      /\ live # None => live.rows = {} /\ live.whole = TRUE
  BY <1>2 DEF Init, Database
<1>4. /\ wal \in Log \cup {None} /\ written \in 0 .. MaxWrites /\ truth \subseteq Writes
      /\ wal = None => truth = {}
      /\ wal # None => live # None /\ wal.of = "live" /\ wal.rows = truth
  <2>1. 1 \in Writes /\ 1 \in 0 .. MaxWrites /\ 0 \in 0 .. MaxWrites
    BY StorageAssumption DEF Writes
  <2>2. CASE wal = None /\ written = 0 /\ truth = {}
    BY <2>1, <2>2
  <2>3. CASE /\ live /= None /\ wal = [of |-> "live", rows |-> {1}] /\ written = 1
             /\ truth = {1}
    <3>1. wal \in Log /\ wal.of = "live" /\ wal.rows = {1}
      BY <2>1, <2>3 DEF Log
    <3> QED
      BY <2>1, <2>3, <3>1, StorageAssumption
  <2> QED
    BY <2>2, <2>3 DEF Init
<1>5. /\ data \in [DataFiles -> 0 .. MaxWrites]
      /\ empty \in [Seconds -> Database \cup {None}]
      /\ empty \in [Seconds -> Archive \cup {None}]
      /\ previous = empty /\ candidate = empty /\ prepared = empty
      /\ bz3 = empty /\ reported = empty
  <2>1. 0 \in 0 .. MaxWrites
    BY StorageAssumption
  <2> QED
    BY <2>1 DEF Init
<1>6. tar \in [Seconds -> Archive \cup {None}]
  <2>1. old \in Database
    BY <1>2 DEF Database
  <2> HIDE DEF old
  <2>2. [db |-> old, data |-> data, members |-> Members] \in Archive
    BY <1>5, <2>1 DEF Archive, Members
  <2>3. tar = [empty EXCEPT ![0] = [db |-> old, data |-> data, members |-> Members]]
    BY DEF Init, old
  <2> HIDE DEF empty
  <2> QED
    BY <1>5, <2>2, <2>3
<1>7. TypeOK
  <2> HIDE DEF empty
  <2>1. clock \in Seconds /\ faults \in 0 .. MaxFaults /\ mispaired \in BOOLEAN
    <3>1. 1 \in Seconds /\ 0 \in 0 .. MaxFaults
      BY StorageAssumption DEF Seconds
    <3> QED
      BY <1>1, <3>1
  <2> QED
    BY <1>1, <1>3, <1>4, <1>5, <1>6, <2>1 DEF TypeOK
<1>8. Exclusive /\ Missing /\ OneTarEach
  BY <1>1, <1>4 DEF Exclusive, Missing, OneTarEach, Replacing, TarSteps, UpgradeSteps,
                    RestoreSteps, InitSteps
<1>9. CommittedRowsStay
  <2>1. CASE live = None
    BY <2>1 DEF CommittedRowsStay
  <2>2. CASE live # None /\ wal = None
    BY <1>3, <1>4, <2>2, ReadFacts DEF CommittedRowsStay, View
  <2>3. CASE live # None /\ wal # None
    <3>1. View.whole = live.whole /\ View.rows = live.rows \cup wal.rows
      BY <1>3, <1>4, <2>3, ReadFacts DEF View
    <3> QED
      BY <1>3, <1>4, <2>3, <3>1 DEF CommittedRowsStay
  <2> QED
    BY <2>1, <2>2, <2>3
<1>10. ArchivesStay
  BY <1>5 DEF ArchivesStay
<1>11. \A p \in Processes : Upgrading(p) /\ Restoring(p) /\ BackingUp(p)
  BY <1>1 DEF Upgrading, Restoring, BackingUp, RestoreSteps, TarSteps
<1> QED
  BY <1>7, <1>8, <1>9, <1>10, <1>11 DEF Inv

LEMMA StepInv ==
  ASSUME Inv, Next
  PROVE  Inv'
<1>1. ASSUME NEW p \in Processes, DatabaseCommand(p)
      PROVE  Inv'
  <2>1. ASSUME Initialize(p) \/ _initialize_in_place(p) PROVE Inv'
    BY <2>1, InitializeInv, InitializeInPlaceInv
  <2>2. ASSUME Upgrade(p) PROVE Inv'
    BY <2>2, UpgradeBeginsInv, CopiesInv, MigrationInv, ReplaceInv, VerifyInv DEF Upgrade
  <2>3. ASSUME Restore(p) PROVE Inv'
    BY <2>3, RestoreBeginsInv, RestoreCopyInv, RestoreReplaceInv, RestoreDataInv, RestoreEndsInv
       DEF Restore
  <2>4. ASSUME Backup(p) PROVE Inv'
    BY <2>4, BackupBeginsInv, BackupSnapshotInv, CopyDataInv, OpenTarInv, FillTarInv, PackInv,
       BackupEndsInv DEF Backup
  <2> QED
    BY <1>1, <2>1, <2>2, <2>3, <2>4 DEF DatabaseCommand
<1> QED
  BY <1>1, InterruptedInv, BotWithoutRows, BotCommitInv, TickInv DEF Next

\* Every step of the bot, of a command and of a crash keeps what each process
\* may rely on between two file operations.
THEOREM StorageInvariant == Spec => []Inv
<1>1. Init => Inv
  BY InitInv
<1>2. Inv /\ [Next]_vars => Inv'
  BY StepInv, TickInv
<1> QED
  BY <1>1, <1>2, PTL DEF Spec

\* core/database.py, core/backups.py: every variable keeps its type.
THEOREM StorageTyping == Spec => []TypeOK
BY StorageInvariant, PTL DEF Inv

\* upgrade_safely(), restore_backup_snapshot(): whatever raises or dies, and
\* how often, the database is a whole file with the writes committed to it.
THEOREM CommittedRowsAreKept == Spec => []CommittedRowsStay
BY StorageInvariant, PTL DEF Inv

\* BackupManager.create(): an archive that was returned is complete and stays,
\* whatever other backups of its second do.
THEOREM ReportedArchivesStay == Spec => []ArchivesStay
BY StorageInvariant, PTL DEF Inv

-----------------------------------------------------------------------------
(* What a step may never do.                                               *)

\* Where the copies of the old database change: when they are made, in a
\* place that was free.
LEMMA PreviousSteps ==
  ASSUME Inv, [Next]_vars
  PROVE  \/ previous' = previous
         \/ \E p \in Processes, file \in Database \cup {None} :
              /\ proc[p].at = "copy" /\ previous[proc[p].second] = None
              /\ previous' = [previous EXCEPT ![proc[p].second] = file]
<1>1. CASE UNCHANGED vars \/ BotStart \/ BotCommit \/ BotClose \/ BotStop \/ BotCrash \/ Tick
            \/ \E d \in DataFiles : BotWritesData(d)
  BY <1>1 DEF vars, disk, still, BotStart, BotCommit, BotClose, BotStop, BotCrash, Tick,
              BotWritesData
<1>2. ASSUME NEW p \in Processes, proc[p].at = "copy"
      PROVE  previous[proc[p].second] = None
  BY <1>2 DEF Inv, Upgrading
<1>3. ASSUME NEW p \in Processes, CopyPrevious(p)
      PROVE  /\ proc[p].at = "copy" /\ Snapshot \in Database \cup {None}
             /\ previous' = [previous EXCEPT ![proc[p].second] = Snapshot]
  BY <1>3, ReadFacts DEF CopyPrevious, Snapshot, View, Inv, TypeOK
<1>4. ASSUME NEW p \in Processes, Fail(p) \/ Kill(p), previous' # previous
      PROVE  /\ proc[p].at = "copy"
             /\ \E file \in Database : previous' = [previous EXCEPT ![proc[p].second] = file]
  <2>1. -1 \in -1 .. Head
    BY StorageAssumption
  <2>2. [schema |-> -1, name |-> None, rows |-> {}, whole |-> TRUE] \in Database
    BY <2>1 DEF Database
  <2> QED
    BY <1>4, <2>2 DEF Fail, Kill, Interrupted, HalfCopied
<1>5. ASSUME NEW p \in Processes, DatabaseCommand(p), ~CopyPrevious(p)
      PROVE  previous' = previous
  <2>1. CASE Initialize(p) \/ _initialize_in_place(p)
    BY <2>1 DEF Initialize, _initialize_in_place, still
  <2>2. CASE Upgrade(p)
    BY <1>5, <2>2 DEF Upgrade, UpgradeBegins, CopyCandidate, Migrate, Prepare, Validate, Replace,
                      RemoveSidecars, Verify, disk
  <2>3. CASE Restore(p)
    BY <2>3 DEF Restore, RestoreBegins, RestoreCopy, restore_backup_snapshot, RestoreData,
                RestoreEnds, disk
  <2>4. CASE Backup(p)
    BY <2>4 DEF Backup, BackupBegins, BackupSnapshot, _copy_data, OpenTar, FillTar, Pack,
                BackupEnds, disk, still
  <2> QED
    BY <1>5, <2>1, <2>2, <2>3, <2>4 DEF DatabaseCommand
<1> QED
  BY <1>1, <1>2, <1>3, <1>4, <1>5 DEF Next

\* docs/OPERATIONS.md, upgrade_safely(): the database is replaced only after
\* its last state was copied, and no later step touches that copy.
THEOREM TheOriginalIsKept == Spec => OriginalKept
<1>1. ASSUME Inv, [Next]_vars, NEW p \in Processes, proc[p].at = "replace"
      PROVE  \E s \in Seconds : previous[s] = View
  BY <1>1, AloneWhenReplacing DEF Replacing, UpgradeSteps, Upgrading
<1>2. ASSUME Inv, [Next]_vars, NEW s \in Seconds, previous[s] # None
      PROVE  previous'[s] = previous[s]
  BY <1>2, PreviousSteps DEF Inv, TypeOK
<1>3. Inv /\ [Next]_vars =>
        [/\ \A p \in Processes :
              proc[p].at = "replace" /\ proc'[p].at = "sidecars" =>
                \E s \in Seconds : previous[s] = View
         /\ \A s \in Seconds :
              previous[s] /= None /\ Known(previous[s]) => previous'[s] = previous[s]]_vars
  BY <1>1, <1>2
<1> QED
  BY <1>3, StorageInvariant, PTL DEF Spec, OriginalKept

\* A restore is ended by its own process alone.
LEMMA WhoEndsARestore ==
  ASSUME Inv, Next, NEW p \in Processes, proc[p].at \in RestoreSteps, proc'[p].at = "idle"
  PROVE  RestoreEnds(p, TRUE) \/ RestoreEnds(p, FALSE) \/ Fail(p) \/ Kill(p)
<1>1. /\ proc \in [Processes -> Work] /\ proc[p].at # "idle"
      /\ \A q \in Processes \ {p} : proc[q].at = "idle"
      /\ bot = "down"
  BY AloneWhenReplacing DEF Replacing, RestoreSteps
<1>2. ASSUME NEW q \in Processes, DatabaseCommand(q) \/ Fail(q) \/ Kill(q), q # p
      PROVE  FALSE
  <2>1. proc[q].at = "idle" /\ ~Alone(q) /\ ~NobodyReplaces
    BY <1>1, <1>2 DEF Alone, NobodyReplaces
  <2> QED
    BY <1>2, <2>1 DEF DatabaseCommand, Fail, Kill, Interrupted, Initialize, _initialize_in_place,
       Upgrade, UpgradeBegins, CopyPrevious, CopyCandidate, Migrate, Prepare, Validate, Replace,
       RemoveSidecars, Verify, Restore, RestoreBegins, RestoreCopy, restore_backup_snapshot,
       RestoreData, RestoreEnds, Backup, BackupBegins, BackupSnapshot, _copy_data, OpenTar,
       FillTar, Pack, BackupEnds
<1>3. ASSUME DatabaseCommand(p)
      PROVE  RestoreEnds(p, TRUE) \/ RestoreEnds(p, FALSE)
  <2>1. ~(Initialize(p) \/ _initialize_in_place(p) \/ Upgrade(p) \/ Backup(p)
          \/ RestoreBegins(p))
    BY <1>1 DEF Alone, Initialize, _initialize_in_place,
       Upgrade, UpgradeBegins, CopyPrevious, CopyCandidate, Migrate, Prepare, Validate, Replace,
       RemoveSidecars, Verify, RestoreBegins, Backup, BackupBegins, BackupSnapshot, _copy_data,
       OpenTar, FillTar, Pack, BackupEnds, RestoreSteps
  <2>2. ASSUME NEW step \in {"r_replace", "r_sidecars", "r_data"}, Move(p, step)
        PROVE  FALSE
    BY <1>1, <2>2, Moves DEF Steps, RestoreSteps
  <2>3. ~RestoreCopy(p) /\ ~restore_backup_snapshot(p)
    BY <2>2 DEF RestoreCopy, restore_backup_snapshot
  <2>4. ~RestoreData(p)
    <3>1. ASSUME NEW d, proc' = [proc EXCEPT ![p].left = @ \ {d}]
          PROVE  proc'[p].at = proc[p].at
      BY <1>1, <3>1 DEF Work
    <3> QED
      BY <1>1, <3>1 DEF RestoreData
  <2> QED
    BY <1>3, <2>1, <2>3, <2>4 DEF DatabaseCommand, Restore
<1>4. ~(BotStart \/ BotCommit \/ BotClose \/ BotStop \/ BotCrash \/ Tick
        \/ \E d \in DataFiles : BotWritesData(d))
  BY <1>1 DEF BotStart, BotCommit, BotClose, BotStop, BotCrash, Tick, BotWritesData, ghosts
<1> QED
  BY <1>2, <1>3, <1>4 DEF Next

\* BackupManager.restore() copies data once the archive's database is in place.
LEMMA DataComesLast ==
  ASSUME Inv, Next, NEW p \in Processes, proc[p].at \in RestoreSteps, data' # data
  PROVE  View = proc[p].archive.db
<1>1. /\ proc[p].at # "idle" /\ \A q \in Processes \ {p} : proc[q].at = "idle"
      /\ bot = "down" /\ live \in Database \cup {None} /\ wal \in Log \cup {None}
      /\ proc[p] \in Work /\ Restoring(p)
  BY AloneWhenReplacing DEF Replacing, RestoreSteps, Inv, TypeOK
<1>2. \E q \in Processes : DatabaseCommand(q)
  BY <1>1 DEF Next, BotStart, BotCommit, BotClose, BotStop, BotCrash, Tick, BotWritesData,
     Fail, Kill, Interrupted, disk, still
<1>3. PICK q \in Processes : DatabaseCommand(q)
  BY <1>2
<1>4. RestoreData(q)
  <2>1. ~(Initialize(q) \/ _initialize_in_place(q))
    BY DEF Initialize, _initialize_in_place, still
  <2>2. ~Upgrade(q)
    BY DEF Upgrade, UpgradeBegins, CopyPrevious, CopyCandidate, Migrate, Prepare, Validate,
           Replace, RemoveSidecars, Verify, disk
  <2>3. ~Backup(q)
    BY DEF Backup, BackupBegins, BackupSnapshot, _copy_data, OpenTar, FillTar, Pack, BackupEnds,
           disk, still
  <2> QED
    BY <1>3, <2>1, <2>2, <2>3 DEF DatabaseCommand, Restore, RestoreBegins, RestoreCopy,
       restore_backup_snapshot, RestoreEnds, disk
<1>5. proc[p].at = "r_data"
  BY <1>1, <1>4 DEF RestoreData
<1> QED
  BY <1>1, <1>5, ReadFacts, StorageAssumption DEF View, Restoring

\* BackupManager.restore(): after a restore that succeeds the database and the
\* data are the archive's; one that fails or dies leaves the old database with
\* the old data, or the archive's database with some of its data.  A restore
\* ended between its rename and its unlinks is excepted, as in the property.
THEOREM RestoreGivesOldOrNew == Spec => RestoredOldOrNew
<1>1. ASSUME Inv, Next, NEW p \in Processes, proc[p].at \in RestoreSteps, proc'[p].at = "idle",
             ~mispaired'
      PROVE  IF RestoreEnds(p, TRUE)
               THEN /\ View' = proc[p].archive.db
                    /\ proc[p].withData => data' = proc[p].archive.data
               ELSE View' \in {proc[p].was, proc[p].archive.db}
  <2> DEFINE a == proc[p].archive
  <2>1. /\ live \in Database \cup {None} /\ wal \in Log \cup {None}
        /\ proc[p] \in Work /\ Restoring(p) /\ data \in [DataFiles -> 0 .. MaxWrites]
    BY <1>1, AloneWhenReplacing DEF Replacing, Inv, TypeOK
  <2>2. a \in Archive /\ a.data \in [DataFiles -> 0 .. MaxWrites] /\ a.members = Members
    BY <1>1, <2>1 DEF Restoring, Complete, Work, Archive
  <2>3. UNCHANGED <<live, wal, data>>
    BY <1>1, WhoEndsARestore DEF RestoreEnds, Fail, Kill, Interrupted, disk
  <2>4. View' = View
    BY <2>3 DEF View
  <2>5. proc[p].at = "r_data" => View = a.db
    BY <2>1, ReadFacts, StorageAssumption DEF View, Restoring
  <2>6. CASE RestoreEnds(p, TRUE)
    <3>1. proc[p].at = "r_data" /\ (proc[p].withData => proc[p].left \cap a.members = {})
      BY <2>6 DEF RestoreEnds
    <3>2. ASSUME proc[p].withData PROVE data = a.data
      <4>1. proc[p].left = {}
        BY <2>1, <2>2, <3>1, <3>2 DEF Members, Work
      <4>2. \A d \in DataFiles : data[d] = a.data[d]
        BY <2>1, <3>1, <3>2, <4>1 DEF Restoring, RestoreSteps
      <4> QED
        BY <2>1, <2>2, <4>2
    <3> QED
      BY <2>3, <2>4, <2>5, <2>6, <3>1, <3>2
  <2>7. CASE ~RestoreEnds(p, TRUE)
    <3>1. CASE proc[p].at \in {"r_copy", "r_replace"}
      BY <2>1, <2>4, <2>7, <3>1 DEF Restoring
    <3>2. CASE proc[p].at = "r_sidecars"
      <4>1. ~(mispaired \/ (proc[p].at = "r_sidecars" /\ ~View.whole))
        BY <1>1, <3>2, WhoEndsARestore DEF RestoreEnds, Fail, Kill, Interrupted
      <4>2. live = a.db /\ (wal # None => wal.of = "gone") /\ live # None
        BY <1>1, <2>1, <3>2 DEF Restoring, Inv, Missing
      <4>3. wal = None
        BY <2>1, <3>2, <4>1, <4>2, ReadFacts DEF View
      <4>4. View = live
        BY <2>1, <4>3, ReadFacts DEF View
      <4> QED
        BY <2>4, <2>7, <4>2, <4>4
    <3>3. CASE proc[p].at = "r_data"
      BY <2>4, <2>5, <2>7, <3>3
    <3> QED
      BY <1>1, <3>1, <3>2, <3>3 DEF RestoreSteps
  <2> QED
    BY <2>6, <2>7
<1>2. Inv /\ [Next]_vars =>
        [\A p \in Processes : proc[p].at \in RestoreSteps =>
           /\ data' /= data => View = proc[p].archive.db
           /\ proc'[p].at = "idle" /\ ~mispaired' =>
                IF RestoreEnds(p, TRUE)
                  THEN /\ View' = proc[p].archive.db
                       /\ proc[p].withData => data' = proc[p].archive.data
                  ELSE View' \in {proc[p].was, proc[p].archive.db}]_vars
  BY <1>1, DataComesLast
<1> QED
  BY <1>2, StorageInvariant, PTL DEF Spec, RestoredOldOrNew
=============================================================================
