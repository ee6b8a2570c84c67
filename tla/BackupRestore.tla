------------------------------- MODULE BackupRestore -------------------------------
(***************************************************************************)
(* The database as a file: backup artifacts and copies, the restore that   *)
(* swaps the file under the running backend, and what the backend's memory *)
(* holds of it (core/storage.py, core/state.py).                           *)
(*                                                                         *)
(* A database is its content, a number per write, and what the restore     *)
(* looks at: the live switches, the mobile credentials, unresolved audits, *)
(* and the last entry of its own backup and restore history.  A handler    *)
(* runs on the event loop from its first to its last step; what comes      *)
(* between is a failure or the end of the process.  The 24 hours of a      *)
(* backup and SQLite's write-ahead log are left out.                       *)
(***************************************************************************)
EXTENDS Naturals, FiniteSets

CONSTANTS MaxWrites, MaxFaults, MaxStops    \* bounds

ASSUME BackupAssumption == {MaxWrites, MaxFaults, MaxStops} \subseteq Nat

VARIABLES
    database,        \* the file at self.path
    copies,          \* backup copies and delivered artifacts
    safety,          \* safety copies of the files restores replaced
    memory,          \* what the backend has loaded: content, switches, bot; history:
                     \* that its last load of the file was whole
    handler,         \* create_backup_artifact, backup or confirm_restore
    writes, faults, stops,
    replaced         \* history: the databases that swaps replaced for good

backupVars == <<database, copies, safety, memory, handler, writes, faults, stops, replaced>>

Database == [content: 0..MaxWrites, armed: BOOLEAN, kill: BOOLEAN, phones: BOOLEAN,
             debt: BOOLEAN, latest: {"none", "backup", "restore"}, restored: BOOLEAN]
NewDatabase == [content |-> 0, armed |-> FALSE, kill |-> TRUE, phones |-> FALSE,
                debt |-> FALSE, latest |-> "none", restored |-> FALSE]
\* staged, before, others: the file to come, the one to go, and the safety copies
\* of earlier restores.
IdleHandler == [step |-> "idle", staged |-> NewDatabase, before |-> NewDatabase, others |-> {}]

BackupTypeOK ==
    /\ database \in Database
    /\ \A copy \in copies \cup safety \cup replaced : copy \in Database
    /\ memory \in [content: 0..MaxWrites, armed: BOOLEAN, kill: BOOLEAN, running: BOOLEAN,
                   whole: BOOLEAN]
    /\ handler \in [step: {"idle", "logged", "copied", "staged", "saved", "swapped", "reloaded"},
                   staged: Database, before: Database, others: SUBSET safety]
    /\ handler.step \in {"saved", "swapped", "reloaded"} => handler.before \in safety
    /\ writes \in 0..MaxWrites /\ faults \in 0..MaxFaults /\ stops \in 0..MaxStops

BackupInit ==
    /\ database = NewDatabase
    /\ copies = {} /\ safety = {} /\ replaced = {}
    /\ memory = [content |-> 0, armed |-> FALSE, kill |-> TRUE, running |-> FALSE,
                 whole |-> TRUE]
    /\ handler = IdleHandler
    /\ writes = 0 /\ faults = 0 /\ stops = 0

backupBounds == <<writes, faults, stops>>
LoopFree == handler.step = "idle"

-----------------------------------------------------------------------------
(* The backend at work on the file *)

\* A write is to file and memory; what a load left out of memory stays out.
Written(n) == [memory EXCEPT !.content = IF memory.whole THEN n ELSE memory.content]

\* Any handler that writes, the bot's tick included; live trading comes and goes
\* with an unresolved audit.
database_is_written(debt) ==
    /\ LoopFree
    /\ writes < MaxWrites
    /\ debt => database.armed
    /\ writes' = writes + 1
    /\ database' = [database EXCEPT !.content = writes + 1, !.debt = debt]
    /\ memory' = Written(writes + 1)
    /\ UNCHANGED <<copies, safety, handler, faults, stops, replaced>>

\* arm_live_backend with the kill switch off, and both back.
switch_live(on) ==
    /\ LoopFree
    /\ database.armed # on
    /\ database' = [database EXCEPT !.armed = on, !.kill = ~on]
    /\ memory' = [memory EXCEPT !.armed = on, !.kill = ~on]
    /\ UNCHANGED <<copies, safety, handler, backupBounds, replaced>>

pair_phone ==
    /\ LoopFree
    /\ ~database.phones
    /\ database' = [database EXCEPT !.phones = TRUE]
    /\ UNCHANGED <<copies, safety, memory, handler, backupBounds, replaced>>

start_or_stop ==
    /\ LoopFree
    /\ memory' = [memory EXCEPT !.running = ~@]
    /\ UNCHANGED <<database, copies, safety, handler, backupBounds, replaced>>

\* _require_destructive_operation_prerequisites: the switches are those in
\* memory, the audits those of the database.
DestructionAllowed ==
    ~memory.running /\ ~memory.armed /\ memory.kill /\ ~database.debt

\* clear_all_data: one transaction, then memory.  The settings, the phones and
\* the backup history stay.
clear_data ==
    /\ LoopFree /\ DestructionAllowed
    /\ writes < MaxWrites
    /\ writes' = writes + 1
    /\ database' = [database EXCEPT !.content = writes + 1]
    /\ memory' = Written(writes + 1)
    /\ UNCHANGED <<copies, safety, handler, faults, stops, replaced>>

-----------------------------------------------------------------------------
(* Backups *)

\* The history says "created" before the snapshot is taken; the smoke test makes
\* its artifact the same way.
create_backup_artifact ==
    /\ LoopFree
    /\ database' = [database EXCEPT !.latest = "backup"]
    /\ handler' = [handler EXCEPT !.step = "logged"]
    /\ UNCHANGED <<copies, safety, memory, backupBounds, replaced>>

\* Delivered to the operator, discarded by the smoke test, or failed: the entry
\* becomes "failed" and stays the latest backup.
backup_artifact(outcome) ==
    /\ handler.step = "logged"
    /\ outcome = "failed" => faults < MaxFaults
    /\ faults' = IF outcome = "failed" THEN faults + 1 ELSE faults
    /\ copies' = IF outcome = "delivered" THEN copies \cup {database} ELSE copies
    /\ handler' = IdleHandler
    /\ UNCHANGED <<database, safety, memory, writes, stops, replaced>>

\* backup: the snapshot first, then the history.
backup ==
    /\ LoopFree
    /\ copies' = copies \cup {database}
    /\ handler' = [handler EXCEPT !.step = "copied"]
    /\ UNCHANGED <<database, safety, memory, backupBounds, replaced>>

save_backup_history ==
    /\ handler.step = "copied"
    /\ database' = [database EXCEPT !.latest = "backup"]
    /\ handler' = IdleHandler
    /\ UNCHANGED <<copies, safety, memory, backupBounds, replaced>>

-----------------------------------------------------------------------------
(* restore_backup_artifact inside confirm_restore_artifact *)

\* Mutant: the credentials of the artifact are kept.
SwitchesClosed(copy) == [copy EXCEPT !.armed = FALSE, !.kill = TRUE, !.restored = TRUE]
FailClosed(copy) == [copy EXCEPT !.armed = FALSE, !.kill = TRUE, !.phones = FALSE,
                                 !.restored = TRUE]

\* preview, migration, fail-closed settings and revocation in a file of its own.
stage_restore(copy) ==
    /\ LoopFree /\ DestructionAllowed
    /\ copy \in copies
    /\ handler' = [step |-> "staged", staged |-> FailClosed(copy), before |-> database,
                   others |-> safety]
    /\ UNCHANGED <<database, copies, safety, memory, backupBounds, replaced>>

create_restore_safety_backup ==
    /\ handler.step = "staged"
    /\ safety' = safety \cup {database}
    /\ handler' = [handler EXCEPT !.step = "saved"]
    /\ UNCHANGED <<database, copies, memory, backupBounds, replaced>>

replace_database ==
    /\ handler.step = "saved"
    /\ database' = handler.staged
    /\ replaced' = replaced \cup {handler.before}
    /\ handler' = [handler EXCEPT !.step = "swapped"]
    /\ UNCHANGED <<copies, safety, memory, backupBounds>>

Reloaded(file) == [memory EXCEPT !.content = file.content, !.armed = file.armed,
                                 !.kill = file.kill, !.whole = TRUE]

\* _ensure_schema, the inspections, and the post-swap validator.
reload_from_storage ==
    /\ handler.step = "swapped"
    /\ memory' = Reloaded(database)
    /\ handler' = [handler EXCEPT !.step = "reloaded"]
    /\ UNCHANGED <<database, copies, safety, backupBounds, replaced>>

save_restore_history ==
    /\ handler.step = "reloaded"
    /\ database' = [database EXCEPT !.latest = "restore"]
    /\ memory' = [memory EXCEPT !.running = FALSE]
    /\ handler' = IdleHandler
    /\ UNCHANGED <<copies, safety, backupBounds, replaced>>

Swapped == handler.step \in {"swapped", "reloaded"}

\* confirm_restore_artifact after a failure: the bot is stopped, the switches are off,
\* and memory is loaded from the file now in place; when that load raises too, memory
\* holds what it held, or part of the file that was in place or of the one that is.
Closed(m) == [m EXCEPT !.armed = FALSE, !.kill = TRUE, !.running = FALSE]
Recovered(file, reloads) ==
    IF reloads THEN {Closed(Reloaded(file))}
    ELSE {Closed([memory EXCEPT !.content = content, !.whole = FALSE]) :
             content \in {memory.content, database.content, file.content}}

FaultsOccur(n) == faults + n <= MaxFaults /\ faults' = faults + n

\* Any step raises: a swap is undone with the safety copy, which is moved back.
restore_fails(reloads) ==
    /\ handler.step \in {"staged", "saved", "swapped", "reloaded"}
    /\ FaultsOccur(IF reloads THEN 1 ELSE 2)
    /\ IF Swapped
       THEN /\ database' = handler.before
            /\ safety' = handler.others
            /\ replaced' = replaced \cap handler.others
       ELSE UNCHANGED <<database, safety, replaced>>
    /\ memory' \in Recovered(database', reloads)
    /\ handler' = IdleHandler
    /\ UNCHANGED <<copies, writes, stops>>

\* ... or the rollback raises as well: the restored file stays.
rollback_fails(reloads) ==
    /\ Swapped
    /\ FaultsOccur(IF reloads THEN 2 ELSE 3)
    /\ memory' \in Recovered(database, reloads)
    /\ handler' = IdleHandler
    /\ UNCHANGED <<database, copies, safety, writes, stops, replaced>>

\* The process ends anywhere, and is started on the file it finds.
BackupStop ==
    /\ stops < MaxStops
    /\ stops' = stops + 1
    /\ memory' = [Reloaded(database) EXCEPT !.running = FALSE]
    /\ handler' = IdleHandler
    /\ UNCHANGED <<database, copies, safety, writes, faults, replaced>>

BackupNext ==
    \/ \E debt \in BOOLEAN : database_is_written(debt)
    \/ \E on \in BOOLEAN : switch_live(on)
    \/ pair_phone \/ start_or_stop \/ clear_data
    \/ create_backup_artifact \/ backup \/ save_backup_history
    \/ \E outcome \in {"delivered", "discarded", "failed"} : backup_artifact(outcome)
    \/ \E copy \in copies : stage_restore(copy)
    \/ create_restore_safety_backup \/ replace_database \/ reload_from_storage
    \/ save_restore_history
    \/ \E reloads \in BOOLEAN : restore_fails(reloads) \/ rollback_fails(reloads)
    \/ BackupStop

BackupSpec == BackupInit /\ [][BackupNext]_backupVars

-----------------------------------------------------------------------------
(* Properties *)

\* A database that a swap has replaced is still there, as the safety copy, wherever
\* the restore failed or the process ended; only a rollback takes the copy, and
\* puts it back in its place (_create_restore_safety_backup, the except branch).
NothingIsLost == replaced \subseteq safety

\* Between two requests the backend's memory is that of the file, after a failed
\* restore as after a good one: nobody trades on positions of another database.  When
\* the load after a failed restore fails as well, and until the next load, only the
\* switches agree, and they were closed (both branches of confirm_restore_artifact).
MemoryTellsDatabase ==
    LoopFree => /\ memory.whole => memory.content = database.content
                /\ memory.armed = database.armed
                /\ memory.kill = database.kill

\* A restored database comes up with the live switches off and no phone paired,
\* whatever its artifact held: also after a stop in the middle, and after a
\* rollback that failed.  Only the operator opens it again, one switch at a time.
RestoredComesUpClosed ==
    [][database'.restored /\ database' # database
          => \/ ~database'.armed /\ database'.kill /\ ~database'.phones
             \/ database.restored
             \/ database' \in safety]_backupVars

\* After a restore the entry gate asks for a new backup, however fresh the
\* artifact's own history says the last one is; only the end of the process, or a
\* rollback that failed, can keep the restore out of the history.
RestoreClosesGate ==
    [][handler.step = "reloaded" /\ LoopFree'
          => \/ database'.latest = "restore"
             \/ database' = handler.before
             \/ database' = database /\ (stops' # stops \/ faults' > faults + 1)]_backupVars

\* A restore loses no database, leaves memory and file agreed, comes up closed
\* and asks for a new backup, wherever it fails (confirm_restore_artifact).
RestoreHolds ==
    /\ [](NothingIsLost /\ MemoryTellsDatabase)
    /\ RestoredComesUpClosed
    /\ RestoreClosesGate
=============================================================================
