---------------------------- MODULE Maintenance ----------------------------
(***************************************************************************)
(* Backup, restore and reset of the SQLite database                        *)
(* (app/services/backup.py, backup_worker.py, database_reset.py,           *)
(* app/routers/maintenance.py), while requests go on committing, any step  *)
(* of the file work may raise, and the process may be killed and started   *)
(* again between two steps.                                                *)
(*                                                                         *)
(* A state of the database is named by the number of the commit that made  *)
(* it.  The newest commits are in the write-ahead log beside the file; a   *)
(* log left by another file is applied to a new one all the same, and then *)
(* the database is a mixture, which PRAGMA integrity_check may accept or   *)
(* reject.  A connection outlives its request in the pool of SQLAlchemy,   *)
(* and keeps the file and the log it has opened.  The module-wide lock of  *)
(* backup.py is the variable job: one maintenance job at a time; a change  *)
(* of the backup settings does not take it.  Restore and reset are refused *)
(* while the Lite is connected to Master; this one is not.                 *)
(***************************************************************************)
EXTENDS Integers, Sequences

CONSTANTS
    Folders,        \* folders an administrator may name for backups
    DefaultFolder,
    NoFolder,           \* no folder
    Retentions,     \* values of backup_retention_count
    DefaultRetention,
    MaxCommits,     \* bound: commits
    MaxRestores,    \* bound: restores
    MaxSettings,    \* bound: changes of the backup settings
    MaxFailures     \* bound: steps that raise, and kills of the process

ASSUME MaintenanceAssumption ==
    /\ DefaultFolder \in Folders /\ NoFolder \notin Folders
    /\ Retentions \subseteq Nat \ {0} /\ DefaultRetention \in Retentions
ASSUME MaintenanceBoundsAssumption ==
    /\ MaxCommits \in Nat \ {0} /\ MaxRestores \in Nat
    /\ MaxSettings \in Nat /\ MaxFailures \in Nat

VARIABLES
    commits,    \* number of the newest commit
    file,       \* the state in the database file
    wal,        \* the log beside it: which file it belongs to, and its state
    inode,      \* how often the file has been replaced
    held,       \* the connection of a request: none, current or orphan
    disposed,   \* whether that connection is of a pool that was disposed of
    idle,       \* the kinds of connection in the pool
    backups,    \* the backups in each folder, newest first
    settings,   \* enabled, retention, directory, offsite
    worker,     \* whether the loop of the backup worker runs
    job,        \* the maintenance job that has the lock
    restores, changes, failures,   \* counters for the bounds
    safety,     \* the newest safety backup, until a later backup is complete
    exposed     \* whether the new file was opened before its log was removed

databaseVars == <<file, wal, inode>>
connectionVars == <<held, disposed, idle>>
workerVars == <<settings, worker>>
counters == <<restores, changes, failures>>
vars == <<commits, databaseVars, connectionVars, backups, workerVars, job,
          counters, safety, exposed>>

-----------------------------------------------------------------------------
Mixed == 0
States == Nat \ {Mixed}
NoWal == [of |-> 0, state |-> 0]
Idle == [step |-> "idle"]
NoSafety == [state |-> 0, folder |-> NoFolder]
Listed(files) == {files[i] : i \in 1..Len(files)}

Stale == wal # NoWal /\ wal.of # inode
Live == IF wal = NoWal THEN file ELSE IF Stale THEN Mixed ELSE wal.state
\* What the next commit makes of the database.
Later == IF Live = Mixed THEN Mixed ELSE commits + 1

\* A connection that opens the database recovers the log it finds.
Opens ==
    /\ file' = IF Stale THEN Mixed ELSE file
    /\ wal' = IF Stale THEN NoWal ELSE wal

\* _sqlite_maintenance, the checkpoints of SQLite and the last close of a
\* connection bring the log into the file.
Checkpointed(f, w) == IF w = NoWal THEN f ELSE w.state

Init ==
    /\ commits = 1 /\ file = 1 /\ wal = NoWal /\ inode = 1
    /\ held = "none" /\ disposed = FALSE /\ idle = {}
    /\ backups = [f \in Folders |-> <<>>]
    /\ settings = [enabled |-> TRUE, retention |-> DefaultRetention,
                   directory |-> DefaultFolder, offsite |-> NoFolder]
    /\ worker = settings.enabled
    /\ job = Idle
    /\ restores = 0 /\ changes = 0 /\ failures = 0
    /\ safety = NoSafety /\ exposed = FALSE

-----------------------------------------------------------------------------
(* Requests. *)

Writes == wal' = [of |-> inode, state |-> Later] /\ commits' = commits + 1
\* The commit of a connection whose log or file has been removed is acknowledged
\* and goes nowhere.
GoesNowhere == UNCHANGED databaseVars /\ commits' = commits + 1

\* A request takes a connection of the pool, or opens one if there is none.
BeginRequest ==
    /\ held = "none"
    /\ \/ \E kind \in idle :
            /\ held' = kind /\ idle' = idle \ {kind}
            /\ UNCHANGED <<databaseVars, exposed>>
       \/ /\ idle = {}
          /\ held' = "current" /\ idle' = idle
          /\ Opens /\ inode' = inode
          /\ exposed' = (exposed \/ Stale)
    /\ UNCHANGED <<commits, disposed, backups, workerVars, job, counters, safety>>

RequestCommits ==
    /\ commits < MaxCommits
    /\ \/ held = "current" /\ Writes /\ file' = file /\ inode' = inode
       \/ held = "orphan" /\ GoesNowhere
    /\ UNCHANGED <<connectionVars, backups, workerVars, job, counters, safety, exposed>>

\* The connection goes back to its pool; a pool that was disposed of drops it.
EndRequest ==
    /\ held # "none"
    /\ held' = "none" /\ disposed' = FALSE
    /\ idle' = IF disposed THEN idle ELSE idle \cup {held}
    /\ UNCHANGED <<commits, databaseVars, backups, workerVars, job, counters,
                   safety, exposed>>

Checkpoint ==
    /\ wal # NoWal /\ ~Stale
    /\ file' = wal.state /\ wal' = NoWal
    /\ UNCHANGED <<commits, inode, connectionVars, backups, workerVars, job, counters,
                   safety, exposed>>

\* reset_database_and_cache deletes everything in one transaction, then tries to
\* bring the log into the file; the workers are stopped and started around it.
ResetDatabaseAndCache ==
    /\ commits < MaxCommits
    /\ \/ held = "current" /\ Writes /\ file' = file /\ inode' = inode
       \/ /\ held = "current"
          /\ file' = Later /\ wal' = NoWal /\ inode' = inode
          /\ commits' = commits + 1
       \/ held = "orphan" /\ GoesNowhere
    /\ worker' = settings.enabled
    /\ UNCHANGED <<connectionVars, backups, settings, job, counters, safety, exposed>>

\* update_backup_settings, and the worker that is stopped and started.  A job
\* that runs goes on with the settings it has read.
SaveBackupSettings(new) ==
    /\ changes < MaxSettings
    /\ new # settings
    /\ settings' = new
    /\ worker' = new.enabled
    /\ changes' = changes + 1
    /\ UNCHANGED <<commits, databaseVars, connectionVars, backups, job, restores,
                   failures, safety, exposed>>

-----------------------------------------------------------------------------
(* create_sqlite_backup and create_scheduled_backup. *)

\* The database is copied to a temporary file, verified and sent to the browser.
DownloadBackup ==
    /\ job = Idle
    /\ Opens
    /\ UNCHANGED <<commits, inode, connectionVars, backups, workerVars, job, counters,
                   safety, exposed>>

\* A backup works with the settings as they are when it starts.
NewBackup(then, source) ==
    [step |-> "copying", then |-> then, source |-> source, copy |-> 0,
     retention |-> settings.retention, directory |-> settings.directory,
     offsite |-> settings.offsite]
At(step) == job.step = step
Continue(step) == job' = [job EXCEPT !.step = step]

ScheduledBackup ==
    /\ worker /\ settings.enabled
    /\ job = Idle
    /\ job' = NewBackup("idle", 0)
    /\ UNCHANGED <<commits, databaseVars, connectionVars, backups, workerVars, counters,
                   safety, exposed>>

\* source.backup(target): the copy, under a name no list shows, is of the state
\* at its end.
CopyDatabase ==
    /\ At("copying")
    /\ job' = [job EXCEPT !.step = "copied", !.copy = Live]
    /\ Opens
    /\ UNCHANGED <<commits, inode, connectionVars, backups, workerVars, counters,
                   safety, exposed>>

\* The copy is renamed when verify_sqlite_backup has accepted it: a whole one,
\* and perhaps a mixture.
Listing(copy, folder) == backups' = [backups EXCEPT ![folder] = <<copy>> \o @]

PublishBackup ==
    /\ At("copied")
    /\ Listing(job.copy, job.directory)
    /\ Continue(IF job.offsite = NoFolder THEN "pruning" ELSE "sending")
    /\ safety' = IF job.then = "restoring"
                    THEN [state |-> job.copy, folder |-> job.directory] ELSE safety
    /\ UNCHANGED <<commits, databaseVars, connectionVars, workerVars, counters, exposed>>

CopyToOffsite ==
    /\ At("sending")
    /\ Listing(job.copy, job.offsite)
    /\ Continue("pruning")
    /\ UNCHANGED <<commits, databaseVars, connectionVars, workerVars, counters,
                   safety, exposed>>

\* _prune_backups (and a variant that counts from zero).
KeptFromZero(files, retention) == SubSeq(files, 1, retention - 1)
Kept(files, retention) ==
    SubSeq(files, 1, IF Len(files) < retention THEN Len(files) ELSE retention)

PruneBackups ==
    /\ At("pruning")
    /\ backups' = [f \in Folders |-> IF f \in {job.directory, job.offsite}
                                        THEN Kept(backups[f], job.retention)
                                        ELSE backups[f]]
    /\ safety' = IF job.then = "restoring" THEN safety ELSE NoSafety
    /\ IF job.then = "idle" THEN job' = Idle ELSE Continue(job.then)
    /\ UNCHANGED <<commits, databaseVars, connectionVars, workerVars, counters, exposed>>

-----------------------------------------------------------------------------
(* restore_sqlite_backup_file.  The workers are stopped first and started  *)
(* at the end; the source is verified and staged before the safety backup, *)
(* whose pruning may delete it.                                            *)

\* A file of the lists the settings show, or an upload: any state may have been
\* downloaded before.
Shown == {f \in Folders : f \in {settings.directory, settings.offsite}}
Restorable == (UNION {Listed(backups[f]) : f \in Shown}) \cup 1..commits

StartRestore(source) ==
    /\ restores < MaxRestores
    /\ job = Idle
    /\ restores' = restores + 1
    /\ worker' = FALSE
    /\ job' = NewBackup("restoring", source)
    /\ UNCHANGED <<commits, databaseVars, connectionVars, backups, settings, changes,
                   failures, safety, exposed>>

\* The staged copy goes beside the database and is verified; engine.dispose
\* closes the idle connections, and the last one to close brings in the log.
\* What opens the database from here on is of a new pool.
DisposeEngine ==
    /\ At("restoring")
    /\ IF held = "none" /\ "current" \in idle
          THEN file' = Checkpointed(file, wal) /\ wal' = NoWal
          ELSE UNCHANGED <<file, wal>>
    /\ idle' = {} /\ disposed' = (held # "none")
    /\ Continue("removing")
    /\ UNCHANGED <<commits, inode, held, backups, workerVars, counters, safety, exposed>>

\* An open connection keeps what it has opened.
Orphans ==
    /\ held' = IF held = "none" THEN "none" ELSE "orphan"
    /\ idle' = IF idle = {} THEN {} ELSE {"orphan"}
    /\ disposed' = disposed

RemoveSidecars ==
    /\ At("removing")
    /\ wal' = NoWal
    /\ Orphans
    /\ Continue("replacing")
    /\ UNCHANGED <<commits, file, inode, backups, workerVars, counters, safety, exposed>>

ReplaceDatabase ==
    /\ At("replacing")
    /\ file' = job.source
    /\ inode' = inode + 1
    /\ Orphans
    /\ Continue("removingAgain")
    /\ UNCHANGED <<commits, wal, backups, workerVars, counters, safety, exposed>>

\* The second removal (and a variant without it).
SidecarsKept ==
    /\ At("removingAgain")
    /\ Continue("reloading")
    /\ UNCHANGED <<commits, databaseVars, connectionVars, backups, workerVars, counters,
                   safety, exposed>>
RemoveSidecarsAgain ==
    /\ At("removingAgain")
    /\ wal' = NoWal
    /\ Orphans
    /\ Continue("reloading")
    /\ UNCHANGED <<commits, file, inode, backups, workerVars, counters, safety, exposed>>

\* _reload_runtime_database commits (schema, defaults, session versions) on a
\* connection of the pool, which may be one of the replaced file.
ReloadRuntimeDatabase ==
    /\ At("reloading")
    /\ \/ "orphan" \in idle /\ GoesNowhere /\ idle' = idle
       \/ "current" \in idle /\ Writes /\ UNCHANGED <<file, inode, idle>>
       \/ /\ idle = {} /\ idle' = {"current"}
          /\ file' = IF Stale THEN Mixed ELSE file
          /\ Writes /\ inode' = inode
    /\ job' = Idle
    /\ worker' = settings.enabled
    /\ UNCHANGED <<held, disposed, backups, settings, counters, safety, exposed>>

-----------------------------------------------------------------------------
(* Failures. *)

\* A step raises, or a mixture does not pass the verification.  A restore starts
\* the workers in any case; the loop of the backup worker goes on after an
\* exception (and a variant in which it ends).
WorkerEnds == FALSE
WorkerGoesOn == IF job.then = "restoring" THEN settings.enabled ELSE worker

JobFails ==
    /\ job # Idle
    /\ \/ failures < MaxFailures /\ failures' = failures + 1
       \/ At("copied") /\ job.copy = Mixed /\ failures' = failures
    /\ worker' = WorkerGoesOn
    /\ job' = Idle
    /\ exposed' = (exposed \/ Stale)
    /\ UNCHANGED <<commits, databaseVars, connectionVars, backups, settings, restores,
                   changes, safety>>

\* The process is killed, and starts again: temporary files are forgotten, and
\* the database is opened.
Restart ==
    /\ failures < MaxFailures
    /\ failures' = failures + 1
    /\ job' = Idle
    /\ held' = "none" /\ disposed' = FALSE /\ idle' = {}
    /\ worker' = settings.enabled
    /\ Opens
    /\ exposed' = (exposed \/ Stale)
    /\ UNCHANGED <<commits, inode, backups, settings, restores, changes, safety>>

-----------------------------------------------------------------------------
\* The two folders differ.
Settings == {s \in [enabled : BOOLEAN, retention : Retentions, directory : Folders,
                    offsite : Folders \cup {NoFolder}] : s.offsite # s.directory}

Requests ==
    \/ BeginRequest \/ RequestCommits \/ EndRequest \/ Checkpoint
    \/ ResetDatabaseAndCache \/ DownloadBackup
    \/ \E new \in Settings : SaveBackupSettings(new)
    \/ \E source \in Restorable : StartRestore(source)
JobSteps ==
    \/ CopyDatabase \/ PublishBackup \/ CopyToOffsite \/ PruneBackups
    \/ DisposeEngine \/ RemoveSidecars \/ ReplaceDatabase \/ RemoveSidecarsAgain
    \/ ReloadRuntimeDatabase
Next == Requests \/ ScheduledBackup \/ JobSteps \/ JobFails \/ Restart

\* The thread of a job goes on, and the timer of the worker fires.
Spec == Init /\ [][Next]_vars /\ WF_vars(JobSteps \/ JobFails) /\ WF_vars(ScheduledBackup)

-----------------------------------------------------------------------------
StepNames == {"copying", "copied", "sending", "pruning", "restoring", "removing",
              "replacing", "removingAgain", "reloading"}
JobSet == [step : StepNames, then : {"idle", "restoring"}, source : Nat, copy : Nat,
           retention : Retentions, directory : Folders, offsite : Folders \cup {NoFolder}]

\* Every variable holds values of its kind.
TypeOK ==
    /\ commits \in States
    /\ file \in Nat
    /\ wal \in [of : States, state : Nat] \cup {NoWal}
    /\ inode \in States
    /\ held \in {"none", "current", "orphan"} /\ disposed \in BOOLEAN
    /\ idle \subseteq {"current", "orphan"}
    /\ backups \in [Folders -> Seq(Nat)]
    /\ settings \in Settings /\ worker \in BOOLEAN
    /\ job \in JobSet \cup {Idle}
    /\ restores \in Nat /\ changes \in Nat /\ failures \in Nat
    /\ safety \in [state : Nat, folder : Folders] \cup {NoSafety}
    /\ exposed \in BOOLEAN

\* No backup of any folder is a mixture of two databases, though the copies are
\* made while requests commit and after restores, and though integrity_check may
\* accept a mixture: none comes about, unless a restored database was opened
\* before restore_sqlite_backup_file has removed the log for the second time.
BackupsAreWhole == (\E f \in Folders : Mixed \in Listed(backups[f])) => exposed

\* The state a restore has saved before it touches the database is among the
\* backups of its folder until a later backup is complete, whichever step raises,
\* wherever the process is killed, and whatever folders and retention the
\* settings name meanwhile.
SafetyIsKept ==
    safety # NoSafety => safety.state \in Listed(backups[safety.folder])

\* No log of the replaced database is ever applied to the restored one, unless
\* the restored one is opened before restore_sqlite_backup_file has removed the
\* log for the second time, or the process is killed or raises there.
DatabaseIsWhole == Live = Mixed => exposed \/ (Stale /\ At("removingAgain"))

-----------------------------------------------------------------------------
(* The inductive invariant behind the proofs. *)

\* The steps of a job before it has verified its copy, and of a restore after it.
Verifying == {"copying", "copied"}
Restoring == {"restoring", "removing", "replacing", "removingAgain", "reloading"}
SourceIsKnown ==
    /\ job # Idle /\ job.then = "restoring" /\ job.source = Mixed => exposed
    /\ job # Idle /\ job.step \in Restoring => job.then = "restoring"
CopyIsKnown ==
    /\ job # Idle /\ job.step # "copying" /\ job.copy = Mixed => exposed
    /\ job # Idle /\ job.step = "sending" => job.offsite # NoFolder
SafetyIsNewest ==
    job # Idle /\ job.then = "restoring" /\ job.step \notin Verifying
        => /\ safety = [state |-> job.copy, folder |-> job.directory]
           /\ backups[job.directory] # <<>>
           /\ backups[job.directory][1] = safety.state
StaleIsKnown == Stale => exposed \/ At("removingAgain")
MixedIsKnown ==
    /\ file = Mixed => exposed
    /\ wal # NoWal /\ wal.state = Mixed => exposed
\* A connection of the pool or of a request that is not an orphan has opened the
\* file as it is.
CurrentIsFresh == held = "current" \/ "current" \in idle => ~Stale

IInv ==
    /\ TypeOK /\ BackupsAreWhole /\ SafetyIsKept
    /\ SourceIsKnown /\ CopyIsKnown /\ SafetyIsNewest
    /\ StaleIsKnown /\ MixedIsKnown /\ CurrentIsFresh

-----------------------------------------------------------------------------
\* A state of the database, or a later one, gets into a backup, whatever fails
\* meanwhile, unless a restore goes back behind it or automatic backups are
\* disabled.
CommitsAreBackedUp ==
    \A v \in 1..(MaxCommits + MaxRestores) :
        Live = v ~> \/ \E f \in Folders : \E state \in Listed(backups[f]) : state >= v
                    \/ Live < v \/ ~settings.enabled
=============================================================================
