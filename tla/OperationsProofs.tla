--------------------------- MODULE OperationsProofs ----------------------------
(***************************************************************************)
(* What surrounds the trading itself, for any instance: restoring the      *)
(* database, choosing and assessing a strategy, probing the signer, the    *)
(* paid trade stream.  The four share no variable, and so no step of one   *)
(* proof uses another.                                                     *)
(***************************************************************************)
EXTENDS BackupRestore, StrategySelection, SignerDaemon, SourceFeeds, SequenceTheorems,
        WellFoundedInduction, TLAPS

--------------------------------------------------------------------------------
(***************************************************************************)
(* A restore loses no database, leaves memory and file agreed, comes up    *)
(* closed and asks for a new backup, whatever fails and wherever a stop    *)
(* cuts it.  What the inductive invariant adds: memory and file agree      *)
(* except between the swap and the load, what is about to be put in place  *)
(* is closed, and so is the file it replaces.                              *)
(***************************************************************************)

\* Except between the swap and the load, memory is what the file says, as far as the
\* last load went.
MemoryIsLoaded ==
    handler.step # "swapped" => /\ memory.whole => memory.content = database.content
                                /\ memory.armed = database.armed
                                /\ memory.kill = database.kill

\* What a restore is about to put in place is closed, and the file it will replace
\* is the one the safety copy is of (stage_restore, create_restore_safety_backup).
StagedIsClosed ==
    handler.step \in {"staged", "saved"} =>
        /\ ~handler.staged.armed /\ handler.staged.kill /\ ~handler.staged.phones
        /\ handler.before = database

\* The live switches are off in both files of a restore (DestructionAllowed), and so
\* in the one a failure leaves.
Restoring == handler.step \in {"staged", "saved", "swapped", "reloaded"}
BothAreClosed ==
    Restoring => /\ ~database.armed /\ database.kill
                 /\ ~handler.before.armed /\ handler.before.kill

BackupInv == BackupTypeOK /\ NothingIsLost /\ MemoryIsLoaded /\ StagedIsClosed /\ BothAreClosed

BackupMemory ==
    [content: 0..MaxWrites, armed: BOOLEAN, kill: BOOLEAN, running: BOOLEAN, whole: BOOLEAN]
BackupSteps == {"idle", "logged", "copied", "staged", "saved", "swapped", "reloaded"}
BackupHandler(copies_kept) ==
    [step: BackupSteps, staged: Database, before: Database, others: SUBSET copies_kept]

\* The restored database is closed, or was opened by the operator, or is the one a
\* rollback brings back.
SwapIsClosed ==
    database'.restored /\ database' # database
          => \/ ~database'.armed /\ database'.kill /\ ~database'.phones
             \/ database.restored
             \/ database' \in safety

\* The assumptions, in the form the steps below use them.
LEMMA BackupConstants == MaxWrites \in Nat /\ MaxFaults \in Nat /\ MaxStops \in Nat
BY BackupAssumption

\* The variables have their types, a conjunct each.
LEMMA BackupTyped ==
  ASSUME BackupTypeOK
  PROVE  /\ database \in Database
         /\ copies \subseteq Database /\ safety \subseteq Database /\ replaced \subseteq Database
         /\ memory \in BackupMemory
         /\ handler \in BackupHandler(safety)
         /\ handler.step \in {"saved", "swapped", "reloaded"} => handler.before \in safety
         /\ writes \in 0..MaxWrites /\ faults \in 0..MaxFaults /\ stops \in 0..MaxStops
BY DEF BackupTypeOK, BackupMemory, BackupHandler, BackupSteps

\* The columns of a database, and those of a closed one (the staging of a restore).
LEMMA DatabaseColumns ==
  ASSUME NEW d \in Database
  PROVE  /\ d.content \in 0..MaxWrites
         /\ d.armed \in BOOLEAN /\ d.kill \in BOOLEAN /\ d.phones \in BOOLEAN
         /\ d.debt \in BOOLEAN /\ d.latest \in {"none", "backup", "restore"} /\ d.restored \in BOOLEAN
BY DEF Database

\* What is staged is closed, whatever the artifact held.
LEMMA StagedColumns ==
  ASSUME NEW d \in Database
  PROVE  /\ FailClosed(d) \in Database
         /\ ~FailClosed(d).armed /\ FailClosed(d).kill /\ ~FailClosed(d).phones
BY DEF Database, FailClosed

\* Memory after a load is that of the file.
LEMMA Loaded ==
  ASSUME memory \in BackupMemory, NEW d \in Database, NEW loaded,
         loaded = Reloaded(d) \/ loaded = [Reloaded(d) EXCEPT !.running = FALSE]
  PROVE  /\ loaded \in BackupMemory
         /\ loaded.content = d.content /\ loaded.armed = d.armed /\ loaded.kill = d.kill
<1>1. /\ d.content \in 0..MaxWrites /\ d.armed \in BOOLEAN /\ d.kill \in BOOLEAN
  BY DatabaseColumns
<1>2. /\ Reloaded(d) \in BackupMemory
      /\ Reloaded(d).content = d.content /\ Reloaded(d).armed = d.armed
      /\ Reloaded(d).kill = d.kill
  BY <1>1 DEF Reloaded, BackupMemory
<1>3. CASE loaded = Reloaded(d)
  BY <1>2, <1>3
<1>4. CASE loaded = [Reloaded(d) EXCEPT !.running = FALSE]
  <2> HIDE DEF Reloaded
  <2> QED
    BY <1>2, <1>4 DEF BackupMemory
<1> QED
  BY <1>3, <1>4

\* Memory after a failed restore is closed, and that of the file if its load was whole.
LEMMA RecoveredTyped ==
  ASSUME memory \in BackupMemory, database \in Database, NEW d \in Database,
         NEW reloads \in BOOLEAN, NEW loaded \in Recovered(d, reloads)
  PROVE  /\ loaded \in BackupMemory
         /\ loaded.whole => loaded.content = d.content
         /\ ~loaded.armed /\ loaded.kill
<1>1. \A m \in BackupMemory : /\ Closed(m) \in BackupMemory
                              /\ Closed(m).whole = m.whole /\ Closed(m).content = m.content
                              /\ ~Closed(m).armed /\ Closed(m).kill
  BY DEF Closed, BackupMemory
<1>2. CASE reloads
  <2>1. loaded = Closed(Reloaded(d))
    BY <1>2 DEF Recovered
  <2>2. Reloaded(d) \in BackupMemory /\ Reloaded(d).content = d.content
    BY Loaded
  <2> QED
    BY <1>1, <2>1, <2>2
<1>3. CASE ~reloads
  <2>1. PICK content \in {memory.content, database.content, d.content} :
            loaded = Closed([memory EXCEPT !.content = content, !.whole = FALSE])
    BY <1>3 DEF Recovered
  <2>2. content \in 0..MaxWrites
    BY DatabaseColumns DEF BackupMemory
  <2>3. /\ [memory EXCEPT !.content = content, !.whole = FALSE] \in BackupMemory
        /\ ~[memory EXCEPT !.content = content, !.whole = FALSE].whole
    BY <2>2 DEF BackupMemory
  <2> QED
    BY <1>1, <2>1, <2>3
<1> QED
  BY <1>2, <1>3

\* A handler with another step.
LEMMA HandlerMoves ==
  ASSUME NEW kept, NEW others, kept \subseteq others, NEW step \in BackupSteps,
         handler \in BackupHandler(kept), handler' = [handler EXCEPT !.step = step]
  PROVE  /\ handler' \in BackupHandler(others)
         /\ handler'.step = step /\ handler'.staged = handler.staged
         /\ handler'.before = handler.before
BY DEF BackupHandler

\* A handler that is done.
LEMMA HandlerEnds ==
  ASSUME NEW kept, handler' = IdleHandler
  PROVE  handler' \in BackupHandler(kept) /\ handler'.step = "idle"
<1>1. NewDatabase \in Database
  BY BackupConstants DEF NewDatabase, Database
<1> QED
  BY <1>1 DEF BackupHandler, BackupSteps, IdleHandler

\* The invariant from its parts.
LEMMA BackupMade ==
  ASSUME database' \in Database, copies' \subseteq Database, safety' \subseteq Database,
         replaced' \subseteq safety', memory' \in BackupMemory, handler' \in BackupHandler(safety'),
         handler'.step \in {"saved", "swapped", "reloaded"} => handler'.before \in safety',
         writes' \in 0..MaxWrites, faults' \in 0..MaxFaults, stops' \in 0..MaxStops,
         MemoryIsLoaded', StagedIsClosed', BothAreClosed'
  PROVE  BackupInv'
<1>1. BackupTypeOK'
  BY DEF BackupTypeOK, BackupMemory, BackupHandler, BackupSteps
<1> QED
  BY <1>1 DEF BackupInv, NothingIsLost

\* A write to memory.
LEMMA WrittenTyped ==
  ASSUME memory \in BackupMemory, NEW n \in 0..MaxWrites
  PROVE  /\ Written(n) \in BackupMemory
         /\ memory.whole => Written(n).content = n
         /\ Written(n).whole = memory.whole
         /\ Written(n).armed = memory.armed /\ Written(n).kill = memory.kill
<1>1. (IF memory.whole THEN n ELSE memory.content) \in 0..MaxWrites
  BY DEF BackupMemory
<1> QED
  BY <1>1 DEF Written, BackupMemory

\* The backend at work: file and memory are written together.
LEMMA WorkStep ==
  ASSUME BackupInv,
         \/ \E debt \in BOOLEAN : database_is_written(debt)
         \/ \E on \in BOOLEAN : switch_live(on)
         \/ pair_phone \/ start_or_stop \/ clear_data
  PROVE  BackupInv' /\ SwapIsClosed
<1>1. /\ database \in Database /\ memory \in BackupMemory
      /\ writes \in 0..MaxWrites /\ faults \in 0..MaxFaults /\ stops \in 0..MaxStops
      /\ copies \subseteq Database /\ safety \subseteq Database /\ replaced \subseteq safety
      /\ handler \in BackupHandler(safety)
  BY BackupTyped DEF BackupInv, NothingIsLost
<1>2. /\ UNCHANGED <<copies, safety, handler, faults, stops, replaced>>
      /\ handler.step = "idle"
  BY DEF database_is_written, switch_live, pair_phone, start_or_stop, clear_data, LoopFree, backupBounds
<1>3. /\ memory.whole => memory.content = database.content
      /\ memory.armed = database.armed
      /\ memory.kill = database.kill
  BY <1>2 DEF BackupInv, MemoryIsLoaded
<1> DEFINE Ended ==
      /\ database' \in Database /\ memory' \in BackupMemory /\ writes' \in 0..MaxWrites
      /\ memory'.whole => memory'.content = database'.content
      /\ memory'.armed = database'.armed
      /\ memory'.kill = database'.kill /\ database'.restored = database.restored
<1>4. Ended
  <2>1. ASSUME NEW debt \in BOOLEAN, database_is_written(debt) PROVE Ended
    <3>1. writes + 1 \in 0..MaxWrites
      <4>1. writes < MaxWrites
        BY <2>1 DEF database_is_written
      <4> QED
        BY <1>1, <4>1, BackupConstants
    <3>2. /\ database' = [database EXCEPT !.content = writes + 1, !.debt = debt]
          /\ writes' = writes + 1 /\ memory' = Written(writes + 1)
      BY <2>1 DEF database_is_written
    <3>3. /\ database' \in Database /\ database'.content = writes + 1
          /\ database'.armed = database.armed /\ database'.kill = database.kill
          /\ database'.restored = database.restored
      BY <1>1, <3>1, <3>2 DEF Database
    <3> QED
      BY <1>1, <1>3, <3>1, <3>2, <3>3, WrittenTyped
  <2>2. ASSUME NEW on \in BOOLEAN, switch_live(on) PROVE Ended
    BY <1>1, <1>3, <2>2 DEF switch_live, BackupMemory, Database, backupBounds
  <2>3. CASE pair_phone
    BY <1>1, <1>3, <2>3 DEF pair_phone, BackupMemory, Database, backupBounds
  <2>4. CASE start_or_stop
    BY <1>1, <1>3, <2>4 DEF start_or_stop, BackupMemory, backupBounds, Database
  <2>5. CASE clear_data
    <3>1. writes + 1 \in 0..MaxWrites
      BY <1>1, <2>5, BackupConstants DEF clear_data
    <3>2. /\ database' = [database EXCEPT !.content = writes + 1]
          /\ writes' = writes + 1 /\ memory' = Written(writes + 1)
      BY <2>5 DEF clear_data
    <3>3. /\ database' \in Database /\ database'.content = writes + 1
          /\ database'.armed = database.armed /\ database'.kill = database.kill
          /\ database'.restored = database.restored
      BY <1>1, <3>1, <3>2 DEF Database
    <3> QED
      BY <1>1, <1>3, <3>1, <3>2, <3>3, WrittenTyped
  <2> QED
    BY <2>1, <2>2, <2>3, <2>4, <2>5
<1>5. MemoryIsLoaded' /\ StagedIsClosed' /\ BothAreClosed'
  BY <1>2, <1>4 DEF MemoryIsLoaded, StagedIsClosed, BothAreClosed, Restoring
<1>6. SwapIsClosed
  BY <1>4 DEF SwapIsClosed
<1> QED
  BY <1>1, <1>2, <1>4, <1>5, <1>6, BackupMade

\* A backup: the history and the copies, nothing else.
LEMMA CopyStep ==
  ASSUME BackupInv,
         \/ create_backup_artifact \/ backup \/ save_backup_history
         \/ \E outcome \in {"delivered", "discarded", "failed"} : backup_artifact(outcome)
  PROVE  BackupInv' /\ SwapIsClosed
<1> USE DEF BackupInv
<1>1. /\ database \in Database /\ memory \in BackupMemory
      /\ writes \in 0..MaxWrites /\ faults \in 0..MaxFaults /\ stops \in 0..MaxStops
      /\ copies \subseteq Database /\ safety \subseteq Database /\ replaced \subseteq safety
      /\ handler \in BackupHandler(safety)
  BY BackupTyped DEF NothingIsLost
<1>2. UNCHANGED <<safety, memory, writes, stops, replaced>>
  BY DEF create_backup_artifact, backup, save_backup_history, backup_artifact, backupBounds
<1>3. /\ handler.step \in {"idle", "logged", "copied"}
      /\ memory.whole => memory.content = database.content
      /\ memory.armed = database.armed /\ memory.kill = database.kill
  BY DEF create_backup_artifact, backup, save_backup_history, backup_artifact, LoopFree, MemoryIsLoaded
<1> DEFINE Ended ==
      /\ database' \in Database /\ copies' \subseteq Database /\ faults' \in 0..MaxFaults
      /\ database'.content = database.content /\ database'.armed = database.armed
      /\ database'.kill = database.kill /\ database'.restored = database.restored
      /\ handler' \in BackupHandler(safety) /\ handler'.step \in {"idle", "logged", "copied"}
<1>4. Ended
  <2>1. ASSUME database' = [database EXCEPT !.latest = "backup"]
        PROVE  /\ database' \in Database
               /\ database'.content = database.content /\ database'.armed = database.armed
               /\ database'.kill = database.kill /\ database'.restored = database.restored
    BY <1>1, <2>1 DEF Database
  <2>2. CASE create_backup_artifact
    <3>1. handler' \in BackupHandler(safety) /\ handler'.step = "logged"
      BY <1>1, <2>2, HandlerMoves DEF create_backup_artifact, BackupSteps
    <3> QED
      BY <1>1, <2>1, <2>2, <3>1 DEF create_backup_artifact, backupBounds
  <2>3. CASE backup
    <3>1. handler' \in BackupHandler(safety) /\ handler'.step = "copied"
      BY <1>1, <2>3, HandlerMoves DEF backup, BackupSteps
    <3> QED
      BY <1>1, <2>3, <3>1 DEF backup, backupBounds
  <2>4. CASE save_backup_history
    <3>1. handler' \in BackupHandler(safety) /\ handler'.step = "idle"
      BY <2>4, HandlerEnds DEF save_backup_history
    <3> QED
      BY <1>1, <2>1, <2>4, <3>1 DEF save_backup_history, backupBounds
  <2>5. ASSUME NEW outcome \in {"delivered", "discarded", "failed"}, backup_artifact(outcome)
        PROVE  Ended
    <3>1. handler' \in BackupHandler(safety) /\ handler'.step = "idle"
      BY <2>5, HandlerEnds DEF backup_artifact
    <3>2. faults' \in 0..MaxFaults
      BY <1>1, <2>5, BackupConstants DEF backup_artifact
    <3> QED
      BY <1>1, <2>5, <3>1, <3>2 DEF backup_artifact
  <2> QED
    BY <2>2, <2>3, <2>4, <2>5
<1>5. MemoryIsLoaded' /\ StagedIsClosed' /\ BothAreClosed'
  BY <1>2, <1>3, <1>4 DEF MemoryIsLoaded, StagedIsClosed, BothAreClosed, Restoring
<1>6. SwapIsClosed
  BY <1>4 DEF SwapIsClosed
<1> QED
  BY <1>1, <1>2, <1>4, <1>5, <1>6, BackupMade

\* The first half of a restore: staged, and the present file saved.
LEMMA StageStep ==
  ASSUME BackupInv, (\E copy \in copies : stage_restore(copy)) \/ create_restore_safety_backup
  PROVE  BackupInv' /\ SwapIsClosed
<1> USE DEF BackupInv
<1>1. /\ database \in Database /\ memory \in BackupMemory
      /\ writes \in 0..MaxWrites /\ faults \in 0..MaxFaults /\ stops \in 0..MaxStops
      /\ copies \subseteq Database /\ safety \subseteq Database /\ replaced \subseteq safety
      /\ handler \in BackupHandler(safety)
  BY BackupTyped DEF NothingIsLost
<1>2. /\ UNCHANGED <<database, copies, memory, writes, faults, stops, replaced>>
      /\ handler.step \in {"idle", "staged"}
  BY DEF stage_restore, create_restore_safety_backup, backupBounds, LoopFree
<1>3. SwapIsClosed
  BY <1>2 DEF SwapIsClosed
<1>4. ASSUME NEW copy \in copies, stage_restore(copy)
      PROVE  BackupInv'
  <2>1. PICK staged \in Database : staged = FailClosed(copy)
    BY <1>1, StagedColumns
  <2>2. ~staged.armed /\ staged.kill /\ ~staged.phones
    BY <1>1, <2>1, StagedColumns
  <2>3. /\ handler' = [step |-> "staged", staged |-> staged, before |-> database, others |-> safety]
        /\ UNCHANGED safety
    BY <1>4, <2>1 DEF stage_restore
  <2>4. /\ handler' \in BackupHandler(safety) /\ handler'.step = "staged"
        /\ handler'.staged = staged /\ handler'.before = database
    BY <1>1, <2>3 DEF BackupHandler, BackupSteps
  <2>5. MemoryIsLoaded' /\ StagedIsClosed'
    BY <1>2, <2>2, <2>4 DEF MemoryIsLoaded, StagedIsClosed
  <2>6. ~database.armed /\ database.kill
    BY <1>4 DEF stage_restore, DestructionAllowed, LoopFree, MemoryIsLoaded
  <2>7. BothAreClosed'
    BY <1>2, <2>4, <2>6 DEF BothAreClosed
  <2> QED
    BY <1>1, <1>2, <2>3, <2>4, <2>5, <2>7, BackupMade
<1>5. CASE create_restore_safety_backup
  <2>1. /\ safety' = safety \cup {database} /\ handler.step = "staged"
        /\ handler' = [handler EXCEPT !.step = "saved"]
    BY <1>5 DEF create_restore_safety_backup
  <2>2. safety' \subseteq Database /\ safety \subseteq safety' /\ replaced' \subseteq safety'
    BY <1>1, <1>2, <2>1
  <2>3. /\ handler' \in BackupHandler(safety') /\ handler'.step = "saved"
        /\ handler'.staged = handler.staged /\ handler'.before = handler.before
    BY <1>1, <2>1, <2>2, HandlerMoves DEF BackupSteps
  <2>4. handler'.before \in safety' /\ MemoryIsLoaded' /\ StagedIsClosed' /\ BothAreClosed'
    BY <1>2, <2>1, <2>3 DEF MemoryIsLoaded, StagedIsClosed, BothAreClosed, Restoring
  <2> QED
    BY <1>1, <1>2, <1>3, <2>2, <2>3, <2>4, BackupMade
<1> QED
  BY <1>3, <1>4, <1>5

\* The second half: the swap, the load, the history.
LEMMA SwapStep ==
  ASSUME BackupInv, replace_database \/ reload_from_storage \/ save_restore_history
  PROVE  BackupInv' /\ SwapIsClosed
<1> USE DEF BackupInv
<1>1. /\ database \in Database /\ memory \in BackupMemory
      /\ writes \in 0..MaxWrites /\ faults \in 0..MaxFaults /\ stops \in 0..MaxStops
      /\ copies \subseteq Database /\ safety \subseteq Database /\ replaced \subseteq safety
      /\ handler \in BackupHandler(safety)
      /\ handler.step \in {"saved", "swapped", "reloaded"} => handler.before \in safety
  BY BackupTyped DEF NothingIsLost
<1>2. UNCHANGED <<copies, safety, writes, faults, stops>>
  BY DEF replace_database, reload_from_storage, save_restore_history, backupBounds
<1>3. CASE replace_database
  <2>1. /\ handler.step = "saved" /\ database' = handler.staged
        /\ replaced' = replaced \cup {handler.before}
        /\ handler' = [handler EXCEPT !.step = "swapped"] /\ UNCHANGED memory
    BY <1>3 DEF replace_database
  <2>2. database' \in Database /\ replaced' \subseteq safety'
    BY <1>1, <1>2, <2>1 DEF BackupHandler
  <2>3. /\ handler' \in BackupHandler(safety') /\ handler'.step = "swapped"
        /\ handler'.before = handler.before
    BY <1>1, <1>2, <2>1, HandlerMoves DEF BackupSteps
  <2>4. MemoryIsLoaded' /\ StagedIsClosed' /\ BothAreClosed'
    BY <2>1, <2>3 DEF MemoryIsLoaded, StagedIsClosed, BothAreClosed, Restoring
  <2>5. SwapIsClosed
    BY <2>1 DEF SwapIsClosed, StagedIsClosed
  <2> QED
    BY <1>1, <1>2, <2>1, <2>2, <2>3, <2>4, <2>5, BackupMade
<1>4. CASE reload_from_storage
  <2>1. /\ handler.step = "swapped" /\ memory' = Reloaded(database)
        /\ handler' = [handler EXCEPT !.step = "reloaded"] /\ UNCHANGED <<database, replaced>>
    BY <1>4 DEF reload_from_storage
  <2>2. /\ memory' \in BackupMemory
        /\ memory'.content = database'.content /\ memory'.armed = database'.armed
        /\ memory'.kill = database'.kill
    BY <1>1, <2>1, Loaded
  <2>3. /\ handler' \in BackupHandler(safety') /\ handler'.step = "reloaded"
        /\ handler'.before = handler.before
    BY <1>1, <1>2, <2>1, HandlerMoves DEF BackupSteps
  <2>4. MemoryIsLoaded' /\ StagedIsClosed' /\ BothAreClosed' /\ SwapIsClosed
    BY <2>1, <2>2, <2>3 DEF MemoryIsLoaded, StagedIsClosed, BothAreClosed, Restoring, SwapIsClosed
  <2> QED
    BY <1>1, <1>2, <2>1, <2>2, <2>3, <2>4, BackupMade
<1>5. CASE save_restore_history
  <2>1. /\ handler.step = "reloaded" /\ database' = [database EXCEPT !.latest = "restore"]
        /\ memory' = [memory EXCEPT !.running = FALSE]
        /\ handler' = IdleHandler /\ UNCHANGED replaced
    BY <1>5 DEF save_restore_history
  <2>2. handler' \in BackupHandler(safety') /\ handler'.step = "idle"
    BY <2>1, HandlerEnds
  <2>3. /\ database' \in Database
        /\ database'.content = database.content /\ database'.armed = database.armed
        /\ database'.kill = database.kill /\ database'.restored = database.restored
    BY <1>1, <2>1 DEF Database
  <2>4. /\ memory' \in BackupMemory
        /\ memory'.content = memory.content /\ memory'.armed = memory.armed
        /\ memory'.kill = memory.kill /\ memory'.whole = memory.whole
    BY <1>1, <2>1 DEF BackupMemory
  <2>5. MemoryIsLoaded' /\ StagedIsClosed' /\ BothAreClosed' /\ SwapIsClosed
    BY <2>1, <2>2, <2>3, <2>4 DEF MemoryIsLoaded, StagedIsClosed, BothAreClosed, Restoring, SwapIsClosed
  <2> QED
    BY <1>1, <1>2, <2>1, <2>2, <2>3, <2>4, <2>5, BackupMade
<1> QED
  BY <1>3, <1>4, <1>5

\* A step raises, and the load of memory or the rollback after it too.
LEMMA FaultStep ==
  ASSUME BackupInv, NEW reloads \in BOOLEAN, restore_fails(reloads) \/ rollback_fails(reloads)
  PROVE  BackupInv' /\ SwapIsClosed
<1> USE DEF BackupInv
<1>1. /\ database \in Database /\ memory \in BackupMemory
      /\ writes \in 0..MaxWrites /\ faults \in 0..MaxFaults /\ stops \in 0..MaxStops
      /\ copies \subseteq Database /\ safety \subseteq Database /\ replaced \subseteq safety
      /\ handler \in BackupHandler(safety)
      /\ handler.step \in {"saved", "swapped", "reloaded"} => handler.before \in safety
  BY BackupTyped DEF NothingIsLost
<1>2. handler' = IdleHandler /\ UNCHANGED <<copies, writes, stops>>
  BY DEF restore_fails, rollback_fails
<1>3. \A kept : handler' \in BackupHandler(kept) /\ handler'.step = "idle"
  BY <1>2, HandlerEnds
<1>4. faults' \in 0..MaxFaults
  <2>1. \E n \in {1, 2, 3} : FaultsOccur(n)
    BY DEF restore_fails, rollback_fails
  <2> QED
    BY <1>1, <2>1, BackupConstants DEF FaultsOccur
<1>5. /\ database' \in Database /\ safety' \subseteq Database /\ replaced' \subseteq safety'
      /\ database' = database \/ database' \in safety
      /\ ~database'.armed /\ database'.kill
  <2>1. CASE restore_fails(reloads) /\ Swapped
    <3>1. /\ database' = handler.before /\ safety' = handler.others
          /\ replaced' = replaced \cap handler.others
          /\ handler.step \in {"swapped", "reloaded"}
      BY <2>1 DEF restore_fails, Swapped
    <3>2. handler.others \subseteq safety
      BY <1>1 DEF BackupHandler
    <3>3. ~handler.before.armed /\ handler.before.kill
      BY <3>1 DEF BothAreClosed, Restoring
    <3> QED
      BY <1>1, <3>1, <3>2, <3>3
  <2>2. CASE ~(restore_fails(reloads) /\ Swapped)
    <3>1. UNCHANGED <<database, safety, replaced>> /\ Restoring
      BY <2>2 DEF restore_fails, rollback_fails, Swapped, Restoring
    <3> QED
      BY <1>1, <3>1 DEF BothAreClosed
  <2> QED
    BY <2>1, <2>2
<1>6. memory' \in Recovered(database', reloads)
  BY DEF restore_fails, rollback_fails
<1>7. /\ memory' \in BackupMemory
      /\ memory'.whole => memory'.content = database'.content
      /\ ~memory'.armed /\ memory'.kill
  BY <1>1, <1>5, <1>6, RecoveredTyped
<1>8. memory'.armed = database'.armed /\ memory'.kill = database'.kill
  BY <1>5, <1>7, DatabaseColumns DEF BackupMemory
<1>9. MemoryIsLoaded' /\ StagedIsClosed' /\ BothAreClosed' /\ SwapIsClosed
  BY <1>3, <1>5, <1>7, <1>8 DEF MemoryIsLoaded, StagedIsClosed, BothAreClosed, Restoring, SwapIsClosed
<1> QED
  BY <1>1, <1>2, <1>3, <1>4, <1>5, <1>7, <1>9, BackupMade

\* The process ends, and is started on the file it finds.
LEMMA StopStep ==
  ASSUME BackupInv, BackupStop
  PROVE  BackupInv' /\ SwapIsClosed
<1> USE DEF BackupInv
<1>1. /\ database \in Database /\ memory \in BackupMemory
      /\ writes \in 0..MaxWrites /\ faults \in 0..MaxFaults /\ stops \in 0..MaxStops
      /\ copies \subseteq Database /\ safety \subseteq Database /\ replaced \subseteq safety
  BY BackupTyped DEF NothingIsLost
<1>2. /\ handler' = IdleHandler /\ memory' = [Reloaded(database) EXCEPT !.running = FALSE]
      /\ UNCHANGED <<database, copies, safety, writes, faults, replaced>>
  BY DEF BackupStop
<1>3. handler' \in BackupHandler(safety') /\ handler'.step = "idle"
  BY <1>2, HandlerEnds
<1>4. stops' \in 0..MaxStops
  BY <1>1, BackupConstants DEF BackupStop
<1>5. /\ memory' \in BackupMemory /\ memory'.content = database'.content
      /\ memory'.armed = database'.armed /\ memory'.kill = database'.kill
  BY <1>1, <1>2, Loaded
<1>6. MemoryIsLoaded' /\ StagedIsClosed' /\ BothAreClosed' /\ SwapIsClosed
  BY <1>2, <1>3, <1>5 DEF MemoryIsLoaded, StagedIsClosed, BothAreClosed, Restoring, SwapIsClosed
<1> QED
  BY <1>1, <1>2, <1>3, <1>4, <1>5, <1>6, BackupMade

\* The initial states satisfy the invariant.
LEMMA BackupInitInv ==
  ASSUME BackupInit
  PROVE  BackupInv
<1> USE DEF BackupInit
<1>1. NewDatabase \in Database
  BY BackupConstants DEF NewDatabase, Database
<1>2. handler \in BackupHandler(safety) /\ handler.step = "idle"
  BY <1>1 DEF BackupHandler, BackupSteps, IdleHandler
<1>3. BackupTypeOK
  BY <1>1, <1>2, BackupConstants DEF BackupTypeOK, BackupHandler, BackupSteps
<1> QED
  BY <1>2, <1>3 DEF BackupInv, NothingIsLost, MemoryIsLoaded, StagedIsClosed, BothAreClosed, Restoring, NewDatabase

\* Every step preserves the invariant, and swaps in nothing that is open.
LEMMA BackupStepInv ==
  ASSUME BackupInv, [BackupNext]_backupVars
  PROVE  BackupInv' /\ SwapIsClosed
<1>1. CASE UNCHANGED backupVars
  BY <1>1 DEF backupVars, BackupInv, BackupTypeOK, NothingIsLost, MemoryIsLoaded, StagedIsClosed,
     BothAreClosed, Restoring, SwapIsClosed
<1>2. CASE \/ \E debt \in BOOLEAN : database_is_written(debt)
           \/ \E on \in BOOLEAN : switch_live(on)
           \/ pair_phone \/ start_or_stop \/ clear_data
  BY <1>2, WorkStep
<1>3. CASE \/ create_backup_artifact \/ backup \/ save_backup_history
           \/ \E outcome \in {"delivered", "discarded", "failed"} : backup_artifact(outcome)
  BY <1>3, CopyStep
<1>4. CASE (\E copy \in copies : stage_restore(copy)) \/ create_restore_safety_backup
  BY <1>4, StageStep
<1>5. CASE replace_database \/ reload_from_storage \/ save_restore_history
  BY <1>5, SwapStep
<1>6. CASE \E reloads \in BOOLEAN : restore_fails(reloads) \/ rollback_fails(reloads)
  BY <1>6, FaultStep
<1>7. CASE BackupStop
  BY <1>7, StopStep
<1> QED
  BY <1>1, <1>2, <1>3, <1>4, <1>5, <1>6, <1>7 DEF BackupNext

\* How a restore that has loaded its file ends.
GateIsClosed ==
    handler.step = "reloaded" /\ LoopFree'
        => \/ database'.latest = "restore"
           \/ database' = handler.before
           \/ database' = database /\ (stops' # stops \/ faults' > faults + 1)

\* The steps that end it: the history entry, a failure, or the end of the process.
LEMMA RestoreEndStep ==
  ASSUME BackupInv, [BackupNext]_backupVars
  PROVE  GateIsClosed
<1> SUFFICES ASSUME handler.step = "reloaded", LoopFree'
             PROVE  \/ database'.latest = "restore"
                    \/ database' = handler.before
                    \/ database' = database /\ (stops' # stops \/ faults' > faults + 1)
  BY DEF GateIsClosed
<1>1. database \in Database /\ stops \in Nat /\ faults \in Nat
  BY BackupTyped, BackupConstants DEF BackupInv
<1>2. \/ save_restore_history \/ BackupStop
      \/ \E reloads \in BOOLEAN : restore_fails(reloads) \/ rollback_fails(reloads)
  BY DEF BackupNext, backupVars, LoopFree, database_is_written,
     switch_live, pair_phone, start_or_stop, clear_data, create_backup_artifact, backup,
     save_backup_history, backup_artifact, stage_restore, create_restore_safety_backup,
     replace_database, reload_from_storage
<1>3. CASE save_restore_history
  BY <1>1, <1>3 DEF save_restore_history, Database
<1>4. ASSUME NEW reloads \in BOOLEAN, restore_fails(reloads)
      PROVE  database' = handler.before
  BY <1>4 DEF restore_fails, Swapped
<1>5. ASSUME NEW reloads \in BOOLEAN, rollback_fails(reloads)
      PROVE  database' = database /\ faults' > faults + 1
  BY <1>1, <1>5 DEF rollback_fails, FaultsOccur
<1>6. CASE BackupStop
  BY <1>1, <1>6 DEF BackupStop
<1> QED
  BY <1>2, <1>3, <1>4, <1>5, <1>6

\* The variables keep their types.
THEOREM BackupTypeCorrect == BackupSpec => []BackupTypeOK
<1>1. BackupInv => BackupTypeOK
  BY DEF BackupInv
<1> QED
  BY <1>1, BackupInitInv, BackupStepInv, PTL DEF BackupSpec

\* A restore loses no database, leaves memory and file agreed, brings up what is
\* closed, and asks for a new backup, wherever it fails or the process ends
\* (confirm_restore_artifact, restore_backup_artifact).
THEOREM RestoreHoldsAlways == BackupSpec => RestoreHolds
<1>1. ASSUME BackupInv PROVE NothingIsLost /\ MemoryTellsDatabase
  BY <1>1 DEF BackupInv, MemoryIsLoaded, MemoryTellsDatabase, LoopFree
<1>2. ASSUME BackupInv, [BackupNext]_backupVars
      PROVE  [database'.restored /\ database' # database
                => \/ ~database'.armed /\ database'.kill /\ ~database'.phones
                   \/ database.restored
                   \/ database' \in safety]_backupVars
  BY <1>2, BackupStepInv DEF SwapIsClosed
<1>3. ASSUME BackupInv, [BackupNext]_backupVars
      PROVE  [handler.step = "reloaded" /\ LoopFree'
                => \/ database'.latest = "restore"
                   \/ database' = handler.before
                   \/ database' = database /\ (stops' # stops \/ faults' > faults + 1)]_backupVars
  BY <1>3, RestoreEndStep DEF GateIsClosed
<1> QED
  BY <1>1, <1>2, <1>3, BackupInitInv, BackupStepInv, PTL
     DEF BackupSpec, RestoreHolds, RestoredComesUpClosed, RestoreClosesGate

--------------------------------------------------------------------------------
(***************************************************************************)
(* Promotions and assessments go by the book for any candidates, versions  *)
(* and windows.  A verdict that was good had a campaign behind it, and the *)
(* counters of the governor count the readings that came in a row.         *)
(***************************************************************************)

\* A verdict that was good was about a settings version with comparisons.
VerdictHasCampaign ==
    verdict # NoVerdict /\ verdict.status = "pilot_eligible" =>
        /\ verdict.settings \in SettingsVersions
        /\ campaign[verdict.settings] # "none"

\* The last n readings of a row were all of one kind.
AllLast(row, n, pressured) ==
    /\ n <= Len(row)
    /\ \A i \in Len(row) - n + 1..Len(row) : row[i] = pressured

\* The governor's counters count readings that came in a row.
CountsAreStreaks ==
    /\ AllLast(windows_seen, governor.failures, TRUE)
    /\ AllLast(windows_seen, governor.recoveries, FALSE)

SelectionInv == SelectionTypeOK /\ VerdictHasCampaign /\ CountsAreStreaks

Governor == [failures: 0..FailureWindows, recoveries: 0..RecoveryWindows - 1, shed: BOOLEAN]

\* The assumptions, in the form the steps below use them.
LEMMA SelectionConstants ==
    /\ FailureWindows \in Nat /\ FailureWindows > 0
    /\ RecoveryWindows \in Nat /\ RecoveryWindows > 0
    /\ MaxSettings \in Nat /\ MaxSettings > 0
    /\ MaxRestarts \in Nat /\ "none" \notin StrategyCandidates
    /\ Longest \in Nat /\ FailureWindows <= Longest /\ RecoveryWindows <= Longest
<1>1. {FailureWindows, RecoveryWindows, MaxSettings} \subseteq Nat \ {0}
  BY SelectionAssumption
<1> QED
  BY <1>1, SelectionAssumption DEF Longest

\* A reading more of the same kind makes the streak one longer, the window that
\* holds the row included, as long as the window is not shorter (windows_seen).
LEMMA StreakGrows ==
  ASSUME NEW row \in Seq(BOOLEAN), Len(row) <= Longest, NEW pressured \in BOOLEAN,
         NEW n \in Nat, AllLast(row, n, pressured), NEW m \in Nat, m <= n + 1, m <= Longest,
         NEW next, next = IF Len(Append(row, pressured)) > Longest
                          THEN Tail(Append(row, pressured)) ELSE Append(row, pressured)
  PROVE  next \in Seq(BOOLEAN) /\ Len(next) <= Longest /\ AllLast(next, m, pressured)
<1>1. PICK longer \in Seq(BOOLEAN) : /\ longer = Append(row, pressured)
                                     /\ Len(longer) = Len(row) + 1
                                     /\ \A i \in 1..Len(row) : longer[i] = row[i]
                                     /\ longer[Len(row) + 1] = pressured
  <2>1. /\ Append(row, pressured) \in Seq(BOOLEAN)
        /\ Len(Append(row, pressured)) = Len(row) + 1
        /\ \A i \in 1..Len(row) : Append(row, pressured)[i] = row[i]
        /\ Append(row, pressured)[Len(row) + 1] = pressured
    OBVIOUS
  <2> QED
    BY <2>1
<1>2. Len(row) \in Nat /\ m <= Len(row) + 1
  BY DEF AllLast
<1>3. \A i \in Len(longer) - m + 1..Len(longer) : longer[i] = pressured
  BY <1>1, <1>2 DEF AllLast
<1>4. CASE Len(longer) <= Longest
  <2>1. next = longer
    BY <1>1, <1>2, <1>4, SelectionConstants
  <2>2. m <= Len(next)
    BY <1>1, <1>2, <2>1
  <2> QED
    BY <1>1, <1>3, <1>4, <2>1, <2>2 DEF AllLast
<1>5. CASE Len(longer) > Longest
  <2>1. /\ next = Tail(longer) /\ next \in Seq(BOOLEAN) /\ Len(next) = Len(row)
        /\ \A i \in 1..Len(next) : next[i] = longer[i + 1]
    BY <1>1, <1>2, <1>5
  <2>2. Len(row) = Longest
    BY <1>1, <1>2, <1>5, SelectionConstants
  <2>3. \A i \in Len(next) - m + 1..Len(next) : next[i] = pressured
    BY <1>1, <1>2, <1>3, <2>1, <2>2, SelectionConstants
  <2> QED
    BY <2>1, <2>2, <2>3, SelectionConstants DEF AllLast
<1> QED
  BY <1>1, <1>2, <1>4, <1>5, SelectionConstants

--------------------------------------------------------------------------------
(* The variables, in the groups that change together *)

ChoiceTyped ==
    /\ proposals \subseteq StrategyCandidates
    /\ validations \in [StrategyCandidates -> Seq(Trials)]
    /\ \A c \in StrategyCandidates : IsInjective(validations[c])
    /\ promotions \subseteq StrategyCandidates \X Intents
    /\ selection = NoSelection \/ <<selection.candidate, selection.intent>> \in promotions
SessionTyped ==
    /\ backend_armed \in BOOLEAN /\ active_session \in BOOLEAN /\ session_lost \in BOOLEAN
    /\ backend_armed => active_session \/ session_lost
    /\ settings_versions \in Seq(BOOLEAN) /\ Len(settings_versions) \in SettingsVersions
    /\ selection_restarts \in 0..MaxRestarts
EvidenceTyped ==
    /\ evidence_is_recent \in BOOLEAN
    /\ source_evidence \in {"none", "blocked", "ready"}
    /\ campaign \in [SettingsVersions -> {"none", "few", "losing", "proven"}]
Verdict == [status: {"insufficient_evidence", "unfavorable", "observe_only", "pilot_eligible"},
            proposed: StrategyCandidates \cup {"none"},
            settings: 0..MaxSettings, expired: BOOLEAN]
VerdictTyped == verdict = NoVerdict \/ verdict \in Verdict
PressureTyped ==
    /\ governor \in Governor
    /\ windows_seen \in Seq(BOOLEAN) /\ Len(windows_seen) <= Longest

\* The type invariant is that of the groups.
LEMMA SelectionTyped ==
  SelectionTypeOK <=> ChoiceTyped /\ SessionTyped /\ EvidenceTyped /\ VerdictTyped /\ PressureTyped
<1>1. {backend_armed, active_session, session_lost, evidence_is_recent} \subseteq BOOLEAN <=>
        /\ backend_armed \in BOOLEAN /\ active_session \in BOOLEAN /\ session_lost \in BOOLEAN
        /\ evidence_is_recent \in BOOLEAN
  OBVIOUS
<1> QED
  BY <1>1 DEF SelectionTypeOK, ChoiceTyped, SessionTyped, EvidenceTyped, VerdictTyped, Verdict,
     PressureTyped, Governor

\* The same of the next state.
LEMMA SelectionTypedNext ==
  ASSUME ChoiceTyped', SessionTyped', EvidenceTyped', VerdictTyped', PressureTyped'
  PROVE  SelectionTypeOK'
<1>1. {backend_armed', active_session', session_lost', evidence_is_recent'} \subseteq BOOLEAN
  BY DEF SessionTyped, EvidenceTyped
<1> QED
  BY <1>1 DEF SelectionTypeOK, ChoiceTyped, SessionTyped, EvidenceTyped, VerdictTyped, Verdict,
     PressureTyped, Governor

\* A step that leaves a group alone keeps what is said of it.
LEMMA SelectionFrames ==
    /\ ChoiceTyped /\ UNCHANGED choiceVars => ChoiceTyped'
    /\ SessionTyped /\ UNCHANGED sessionVars => SessionTyped'
    /\ EvidenceTyped /\ UNCHANGED evidenceVars => EvidenceTyped'
    /\ VerdictTyped /\ UNCHANGED verdict => VerdictTyped'
    /\ PressureTyped /\ UNCHANGED pressureVars => PressureTyped'
    /\ CountsAreStreaks /\ UNCHANGED pressureVars => CountsAreStreaks'
    /\ VerdictHasCampaign /\ UNCHANGED <<verdict, campaign>> => VerdictHasCampaign'
<1>1. ChoiceTyped /\ UNCHANGED choiceVars => ChoiceTyped'
  BY DEF choiceVars, ChoiceTyped
<1>2. SessionTyped /\ UNCHANGED sessionVars => SessionTyped'
  BY DEF sessionVars, SessionTyped
<1>3. EvidenceTyped /\ UNCHANGED evidenceVars => EvidenceTyped'
  BY DEF evidenceVars, EvidenceTyped
<1>4. VerdictTyped /\ UNCHANGED verdict => VerdictTyped'
  BY DEF VerdictTyped
<1>5. /\ PressureTyped /\ UNCHANGED pressureVars => PressureTyped'
      /\ CountsAreStreaks /\ UNCHANGED pressureVars => CountsAreStreaks'
  BY DEF pressureVars, PressureTyped, CountsAreStreaks
<1>6. VerdictHasCampaign /\ UNCHANGED <<verdict, campaign>> => VerdictHasCampaign'
  BY DEF VerdictHasCampaign
<1> QED
  BY <1>1, <1>2, <1>3, <1>4, <1>5, <1>6

\* What the choice may become in a step (SelectionHolds).
ChosenRightly ==
    selection' # selection =>
          /\ LatestAccepted(selection'.candidate)
          /\ <<selection'.candidate, selection'.intent>> \notin promotions
          /\ ~backend_armed \/ session_lost
\* What shedding may become in a step (ShedsInStreaks).
ShedRightly ==
    governor'.shed # governor.shed =>
          \/ governor'.shed /\ LastSeen(FailureWindows, TRUE)
          \/ governor.shed /\ LastSeen(RecoveryWindows, FALSE)
          \/ selection_restarts' # selection_restarts

\* What every step has to show.
StepHolds == SelectionInv' /\ ChosenRightly /\ ShedRightly

\* The groups of the invariant.
LEMMA SelectionParts ==
  ASSUME SelectionInv
  PROVE  /\ ChoiceTyped /\ SessionTyped /\ EvidenceTyped /\ VerdictTyped /\ PressureTyped
         /\ VerdictHasCampaign /\ CountsAreStreaks
BY SelectionTyped DEF SelectionInv

\* A step that is about the choice only.
LEMMA ChoiceStep ==
  ASSUME SelectionInv, UNCHANGED <<sessionVars, evidenceVars, verdict, pressureVars>>,
         ChoiceTyped', ChosenRightly
  PROVE  StepHolds
<1>1. UNCHANGED <<sessionVars, evidenceVars, verdict, pressureVars, campaign, governor>>
  BY DEF evidenceVars, pressureVars
<1>2. SessionTyped' /\ EvidenceTyped' /\ VerdictTyped' /\ PressureTyped'
  BY <1>1, SelectionParts, SelectionFrames
<1>3. VerdictHasCampaign' /\ CountsAreStreaks'
  BY <1>1, SelectionParts, SelectionFrames
<1>4. ShedRightly
  BY <1>1 DEF ShedRightly
<1> QED
  BY <1>2, <1>3, <1>4, SelectionTypedNext DEF StepHolds, SelectionInv

\* A step that leaves choice, verdict and governor alone.
LEMMA PlainStep ==
  ASSUME SelectionInv, UNCHANGED <<choiceVars, verdict, pressureVars>>,
         SessionTyped', EvidenceTyped', VerdictHasCampaign'
  PROVE  StepHolds
<1>1. UNCHANGED <<choiceVars, verdict, pressureVars, selection, governor>>
  BY DEF choiceVars, pressureVars
<1>2. ChoiceTyped' /\ VerdictTyped' /\ PressureTyped' /\ CountsAreStreaks'
  BY <1>1, SelectionParts, SelectionFrames
<1>3. ChosenRightly /\ ShedRightly
  BY <1>1 DEF ChosenRightly, ShedRightly
<1> QED
  BY <1>2, <1>3, SelectionTypedNext DEF StepHolds, SelectionInv

\* A candidate is proposed.
LEMMA ProposeStep ==
  ASSUME SelectionInv, NEW c \in StrategyCandidates, propose_strategy_candidate(c)
  PROVE  StepHolds
<1>1. /\ UNCHANGED <<validations, promotions, selection>>
      /\ UNCHANGED <<sessionVars, evidenceVars, verdict, pressureVars>>
      /\ proposals' = proposals \cup {c}
  BY DEF propose_strategy_candidate
<1>2. ChoiceTyped'
  BY <1>1, SelectionParts DEF ChoiceTyped
<1>3. ChosenRightly
  BY <1>1 DEF ChosenRightly
<1> QED
  BY <1>1, <1>2, <1>3, ChoiceStep

\* A validation is recorded, none of them twice.
LEMMA ValidationStep ==
  ASSUME SelectionInv, NEW c \in StrategyCandidates, NEW trial \in Trials,
         save_candidate_validation(c, trial)
  PROVE  StepHolds
<1>1. /\ UNCHANGED <<proposals, promotions, selection>>
      /\ UNCHANGED <<sessionVars, evidenceVars, verdict, pressureVars>>
      /\ validations' = [validations EXCEPT ![c] = Append(validations[c], trial)]
      /\ trial \notin ToSet(validations[c])
  BY DEF save_candidate_validation
<1>2. /\ validations \in [StrategyCandidates -> Seq(Trials)]
      /\ \A d \in StrategyCandidates : IsInjective(validations[d])
  BY SelectionParts DEF ChoiceTyped
<1>3. PICK row \in Seq(Trials) : row = validations[c]
  BY <1>2
<1>4. PICK longer \in Seq(Trials) :
         /\ longer = Append(row, trial) /\ DOMAIN longer = 1..Len(row) + 1
         /\ \A i \in 1..Len(row) : longer[i] = row[i]
         /\ longer[Len(row) + 1] = trial
  <2>1. /\ Append(row, trial) \in Seq(Trials) /\ DOMAIN Append(row, trial) = 1..Len(row) + 1
        /\ \A i \in 1..Len(row) : Append(row, trial)[i] = row[i]
        /\ Append(row, trial)[Len(row) + 1] = trial
    OBVIOUS
  <2> QED
    BY <2>1
<1>5. IsInjective(longer)
  <2>1. Len(row) \in Nat /\ DOMAIN row = 1..Len(row)
    OBVIOUS
  <2>2. \A i \in 1..Len(row) : row[i] # trial
    BY <1>1, <1>3, <2>1 DEF ToSet
  <2>3. \A i, j \in 1..Len(row) : row[i] = row[j] => i = j
    BY <1>2, <1>3, <2>1 DEF IsInjective
  <2> QED
    BY <1>4, <2>1, <2>2, <2>3 DEF IsInjective
<1>6. validations' = [validations EXCEPT ![c] = longer]
  BY <1>1, <1>3, <1>4
<1>7. /\ validations' \in [StrategyCandidates -> Seq(Trials)]
      /\ \A d \in StrategyCandidates : IsInjective(validations'[d])
  BY <1>2, <1>5, <1>6
<1>8. ChoiceTyped'
  BY <1>1, <1>7, SelectionParts DEF ChoiceTyped
<1>9. ChosenRightly
  BY <1>1 DEF ChosenRightly
<1> QED
  BY <1>1, <1>8, <1>9, ChoiceStep

\* A promotion selects its candidate.
LEMMA PromoteStep ==
  ASSUME SelectionInv, NEW c \in StrategyCandidates, NEW intent \in Intents,
         promote_strategy_candidate(c, intent)
  PROVE  StepHolds
<1>1. /\ UNCHANGED <<proposals, validations>>
      /\ UNCHANGED <<sessionVars, evidenceVars, verdict, pressureVars>>
      /\ promotions' = promotions \cup {<<c, intent>>}
      /\ selection'.candidate = c /\ selection'.intent = intent
      /\ ~active_session /\ LatestAccepted(c) /\ <<c, intent>> \notin promotions
  BY DEF promote_strategy_candidate, AlreadyPromoted
<1>2. ChoiceTyped'
  BY <1>1, SelectionParts DEF ChoiceTyped
<1>3. ChosenRightly
  BY <1>1, SelectionParts DEF ChosenRightly, SessionTyped
<1> QED
  BY <1>1, <1>2, <1>3, ChoiceStep

\* A backend is armed, disarmed, or its wallet locked, a session started.
LEMMA SessionsStep ==
  ASSUME SelectionInv,
         arm_backend_session \/ start_live_session \/ disarm_backend_session \/ lock_hot_wallet
  PROVE  StepHolds
<1>1. UNCHANGED <<choiceVars, verdict, pressureVars, evidenceVars, settings_versions, selection_restarts>>
  BY DEF arm_backend_session, start_live_session, disarm_backend_session, lock_hot_wallet
<1>2. /\ backend_armed' \in BOOLEAN /\ active_session' \in BOOLEAN /\ session_lost' \in BOOLEAN
      /\ backend_armed' => active_session' \/ session_lost'
  BY SelectionParts DEF SessionTyped, arm_backend_session, start_live_session,
     disarm_backend_session, lock_hot_wallet
<1>3. SessionTyped'
  BY <1>1, <1>2, SelectionParts DEF SessionTyped
<1>4. EvidenceTyped' /\ VerdictHasCampaign'
  <2>1. UNCHANGED <<verdict, campaign, evidenceVars>>
    BY <1>1 DEF evidenceVars
  <2> QED
    BY <2>1, SelectionParts, SelectionFrames
<1> QED
  BY <1>1, <1>3, <1>4, PlainStep

\* A new settings version is one more, with no evidence of its own.
LEMMA VersionAdded ==
  ASSUME SelectionInv, NewVersion
  PROVE  /\ settings_versions' \in Seq(BOOLEAN) /\ Len(settings_versions') \in SettingsVersions
         /\ EvidenceTyped' /\ UNCHANGED campaign
<1>1. /\ settings_versions \in Seq(BOOLEAN) /\ Len(settings_versions) \in 1..MaxSettings
      /\ backend_armed \in BOOLEAN
  BY SelectionParts DEF SessionTyped, SettingsVersions
<1>2. /\ settings_versions' = Append(settings_versions, backend_armed)
      /\ Len(settings_versions) < MaxSettings
  BY DEF NewVersion, Present
<1>3. settings_versions' \in Seq(BOOLEAN) /\ Len(settings_versions') \in 1..MaxSettings
  BY <1>1, <1>2, SelectionConstants
<1>4. EvidenceTyped' /\ UNCHANGED campaign
  BY SelectionParts DEF NewVersion, EvidenceTyped
<1> QED
  BY <1>3, <1>4 DEF SettingsVersions

\* The settings change.
LEMMA SettingsStep ==
  ASSUME SelectionInv, settings_change
  PROVE  StepHolds
<1>1. /\ UNCHANGED <<choiceVars, verdict, pressureVars>>
      /\ UNCHANGED <<backend_armed, active_session, session_lost, selection_restarts>>
      /\ NewVersion
  BY DEF settings_change
<1>2. SessionTyped' /\ EvidenceTyped' /\ UNCHANGED campaign
  BY <1>1, SelectionParts, VersionAdded DEF SessionTyped
<1>3. VerdictHasCampaign'
  BY <1>1, <1>2, SelectionParts, SelectionFrames
<1> QED
  BY <1>1, <1>2, <1>3, PlainStep

\* The backend starts again.
LEMMA SelectionRestartStep ==
  ASSUME SelectionInv, NEW enabled \in BOOLEAN, selection_restart(enabled)
  PROVE  StepHolds
<1>1. /\ UNCHANGED <<choiceVars, verdict, selection>>
      /\ selection_restarts' = selection_restarts + 1 /\ selection_restarts < MaxRestarts
      /\ active_session' = FALSE /\ backend_armed' = (backend_armed /\ enabled)
      /\ session_lost' = backend_armed'
      /\ governor' = [failures |-> 0, recoveries |-> 0, shed |-> FALSE]
      /\ windows_seen' = <<>>
  BY DEF selection_restart, choiceVars
<1>2. selection_restarts \in 0..MaxRestarts /\ selection_restarts' \in 0..MaxRestarts
  BY <1>1, SelectionParts, SelectionConstants DEF SessionTyped
<1>3. /\ settings_versions' \in Seq(BOOLEAN) /\ Len(settings_versions') \in SettingsVersions
      /\ EvidenceTyped' /\ UNCHANGED campaign
  <2>1. CASE NewVersion
    BY <2>1, VersionAdded
  <2>2. CASE UNCHANGED <<settings_versions, evidenceVars>>
    BY <2>2, SelectionParts, SelectionFrames DEF SessionTyped, evidenceVars
  <2> QED
    BY <2>1, <2>2 DEF selection_restart
<1>4. SessionTyped'
  BY <1>1, <1>2, <1>3, SelectionParts DEF SessionTyped
<1>5. ChoiceTyped' /\ VerdictTyped' /\ VerdictHasCampaign'
  BY <1>1, <1>3, SelectionParts, SelectionFrames
<1>6. PressureTyped' /\ CountsAreStreaks'
  <2>1. <<>> \in Seq(BOOLEAN) /\ Len(<<>>) = 0
    OBVIOUS
  <2>2. governor' \in Governor /\ governor'.failures = 0 /\ governor'.recoveries = 0
    BY <1>1, SelectionConstants DEF Governor
  <2>3. windows_seen' \in Seq(BOOLEAN) /\ Len(windows_seen') = 0 /\ Len(windows_seen') <= Longest
    BY <1>1, <2>1, SelectionConstants
  <2>4. AllLast(windows_seen', 0, TRUE) /\ AllLast(windows_seen', 0, FALSE)
    BY <2>3 DEF AllLast
  <2> QED
    BY <2>2, <2>3, <2>4 DEF PressureTyped, CountsAreStreaks
<1>7. ChosenRightly /\ ShedRightly
  <2>1. selection_restarts \in Nat
    BY <1>2, SelectionConstants
  <2>2. selection_restarts' # selection_restarts
    BY <1>1, <2>1
  <2> QED
    BY <1>1, <2>2 DEF ChosenRightly, ShedRightly
<1> QED
  BY <1>3, <1>4, <1>5, <1>6, <1>7, SelectionTypedNext DEF StepHolds, SelectionInv

\* Evidence comes and ages.
LEMMA EvidenceStep ==
  ASSUME SelectionInv,
         \/ \E state \in {"blocked", "ready"} : observe_source(state)
         \/ \E result \in {"few", "losing", "proven"} : complete_comparisons(result)
         \/ evidence_ages
  PROVE  StepHolds
<1>1. UNCHANGED <<choiceVars, verdict, pressureVars, sessionVars>>
  BY DEF observe_source, complete_comparisons, evidence_ages
<1>2. SessionTyped'
  BY <1>1, SelectionParts, SelectionFrames
<1>3. EvidenceTyped' /\ VerdictHasCampaign'
  <2>1. CASE (\E state \in {"blocked", "ready"} : observe_source(state)) \/ evidence_ages
    <3>1. UNCHANGED <<verdict, campaign>> /\ EvidenceTyped'
      BY <2>1, SelectionParts DEF observe_source, evidence_ages, EvidenceTyped
    <3> QED
      BY <3>1, SelectionParts, SelectionFrames
  <2>2. ASSUME NEW result \in {"few", "losing", "proven"}, complete_comparisons(result)
        PROVE  EvidenceTyped' /\ VerdictHasCampaign'
    <3>1. /\ campaign' = [campaign EXCEPT ![Present] = result] /\ UNCHANGED verdict
          /\ evidence_is_recent' = TRUE /\ UNCHANGED source_evidence
      BY <2>2 DEF complete_comparisons
    <3>2. /\ campaign \in [SettingsVersions -> {"none", "few", "losing", "proven"}]
          /\ \A v \in SettingsVersions : campaign'[v] = campaign[v] \/ campaign'[v] = result
      BY <3>1, SelectionParts DEF EvidenceTyped
    <3>3. EvidenceTyped'
      BY <3>1, SelectionParts DEF EvidenceTyped
    <3> QED
      BY <3>1, <3>2, <3>3, SelectionParts DEF VerdictHasCampaign
  <2> QED
    BY <2>1, <2>2
<1> QED
  BY <1>1, <1>2, <1>3, PlainStep

\* A step that is about the verdict only.
LEMMA VerdictStep ==
  ASSUME SelectionInv,
         \/ \E operations \in {"unsampled", "warning", "ready"} : refresh_sentinel_verdict(operations)
         \/ verdict_expires
  PROVE  StepHolds
<1>1. /\ UNCHANGED <<choiceVars, sessionVars, evidenceVars, pressureVars>>
      /\ UNCHANGED <<selection, campaign, governor>>
  BY DEF refresh_sentinel_verdict, verdict_expires, choiceVars, evidenceVars, pressureVars
<1>2. ChoiceTyped' /\ SessionTyped' /\ EvidenceTyped' /\ PressureTyped' /\ CountsAreStreaks'
  BY <1>1, SelectionParts, SelectionFrames
<1>3. ChosenRightly /\ ShedRightly
  BY <1>1 DEF ChosenRightly, ShedRightly
<1>4. VerdictTyped' /\ VerdictHasCampaign'
  <2>1. ASSUME NEW operations \in {"unsampled", "warning", "ready"}, refresh_sentinel_verdict(operations)
        PROVE  VerdictTyped' /\ VerdictHasCampaign'
    <3>1. PICK v : v = ActiveVersion
      OBVIOUS
    <3>2. /\ v.proposed \in StrategyCandidates \cup {"none"}
          /\ v.settings \in SettingsVersions \cup {0}
      <4>1. Present \in SettingsVersions
        BY SelectionParts DEF SessionTyped, Present
      <4>2. selection.candidate \in StrategyCandidates \cup {"none"}
        <5>1. CASE selection = NoSelection
          BY <5>1 DEF NoSelection
        <5>2. CASE <<selection.candidate, selection.intent>> \in promotions
          BY <5>2, SelectionParts DEF ChoiceTyped
        <5> QED
          BY <5>1, <5>2, SelectionParts DEF ChoiceTyped
      <4> QED
        BY <3>1, <4>1, <4>2 DEF ActiveVersion
    <3>3. PICK status : status = Assessment(v, operations)
      OBVIOUS
    <3>4. /\ status \in {"insufficient_evidence", "unfavorable", "observe_only", "pilot_eligible"}
          /\ status = "pilot_eligible" => Compared(v) # "none"
      BY <3>3 DEF Assessment
    <3>5. verdict' = [status |-> status, expired |-> FALSE, proposed |-> v.proposed, settings |-> v.settings]
      BY <2>1, <3>1, <3>3 DEF refresh_sentinel_verdict
    <3>6. v.settings \in 0..MaxSettings
      BY <3>2, SelectionConstants DEF SettingsVersions
    <3>7. verdict' \in Verdict /\ verdict'.status = status /\ verdict'.settings = v.settings
      BY <3>2, <3>4, <3>5, <3>6 DEF Verdict
    <3>8. status = "pilot_eligible" => v.settings \in SettingsVersions /\ campaign[v.settings] # "none"
      BY <3>2, <3>4 DEF Compared
    <3> QED
      BY <1>1, <3>7, <3>8 DEF VerdictTyped, VerdictHasCampaign
  <2>2. CASE verdict_expires
    <3>1. verdict \in Verdict /\ verdict # NoVerdict /\ verdict' = [verdict EXCEPT !.expired = TRUE]
      BY <2>2, SelectionParts DEF verdict_expires, VerdictTyped
    <3>2. /\ verdict' \in Verdict /\ verdict'.status = verdict.status
          /\ verdict'.settings = verdict.settings
      BY <3>1 DEF Verdict
    <3> QED
      BY <1>1, <3>1, <3>2, SelectionParts DEF VerdictTyped, VerdictHasCampaign
  <2> QED
    BY <2>1, <2>2
<1> QED
  BY <1>2, <1>3, <1>4, SelectionTypedNext DEF StepHolds, SelectionInv

\* A reading: the counters follow it, and the switch only a whole row of them.
LEMMA ReadingStep ==
  ASSUME SelectionInv, NEW pressured \in BOOLEAN, workload_pressure(pressured)
  PROVE  StepHolds
<1>1. /\ UNCHANGED <<choiceVars, sessionVars, evidenceVars, verdict>>
      /\ UNCHANGED <<selection, campaign>>
      /\ governor' = Observe(pressured)
  BY DEF workload_pressure, choiceVars, evidenceVars
<1>2. windows_seen' = IF Len(Append(windows_seen, pressured)) > Longest
                      THEN Tail(Append(windows_seen, pressured)) ELSE Append(windows_seen, pressured)
  BY DEF workload_pressure
<1>3. ChoiceTyped' /\ SessionTyped' /\ EvidenceTyped' /\ VerdictTyped' /\ VerdictHasCampaign'
  BY <1>1, SelectionParts, SelectionFrames
<1>4. /\ governor \in Governor /\ governor.failures \in 0..FailureWindows
      /\ governor.recoveries \in 0..RecoveryWindows - 1 /\ governor.shed \in BOOLEAN
      /\ windows_seen \in Seq(BOOLEAN) /\ Len(windows_seen) <= Longest
  BY SelectionParts DEF PressureTyped, Governor
<1>5. /\ AllLast(windows_seen, governor.failures, TRUE)
      /\ AllLast(windows_seen, governor.recoveries, FALSE)
  BY SelectionParts DEF CountsAreStreaks
<1>6. ChosenRightly
  BY <1>1 DEF ChosenRightly
<1>7. \A m \in Nat : m <= governor.failures + 1 /\ m <= Longest /\ pressured =>
         AllLast(windows_seen', m, TRUE)
  <2>1. governor.failures \in Nat
    BY <1>4, SelectionConstants
  <2> QED
    BY <1>2, <1>4, <1>5, <2>1, StreakGrows
<1>8. \A m \in Nat : m <= governor.recoveries + 1 /\ m <= Longest /\ ~pressured =>
         AllLast(windows_seen', m, FALSE)
  <2>1. governor.recoveries \in Nat
    BY <1>4, SelectionConstants
  <2> QED
    BY <1>2, <1>4, <1>5, <2>1, StreakGrows
<1>9. windows_seen' \in Seq(BOOLEAN) /\ Len(windows_seen') <= Longest
  <2>1. PICK n \in Nat : n = 0
    OBVIOUS
  <2>2. AllLast(windows_seen, n, pressured) /\ n <= n + 1 /\ n <= Longest
    BY <1>4, <2>1, SelectionConstants DEF AllLast
  <2> QED
    BY <1>2, <1>4, <2>2, StreakGrows
<1>10. AllLast(windows_seen', 0, TRUE) /\ AllLast(windows_seen', 0, FALSE)
  BY <1>9 DEF AllLast
<1>11. governor' \in Governor /\ CountsAreStreaks' /\ ShedRightly
  <2>1. CASE pressured
    <3>1. PICK failures \in 0..FailureWindows :
             failures = IF governor.failures < FailureWindows THEN governor.failures + 1
                        ELSE governor.failures
      BY <1>4, SelectionConstants
    <3>2. PICK shed \in BOOLEAN : shed = (governor.shed \/ governor.failures + 1 >= FailureWindows)
      OBVIOUS
    <3>3. governor' = [governor EXCEPT !.failures = failures, !.recoveries = 0, !.shed = shed]
      BY <1>1, <1>4, <2>1, <3>1, <3>2 DEF Observe, Governor
    <3>4. /\ governor' \in Governor /\ governor'.failures = failures
          /\ governor'.recoveries = 0 /\ governor'.shed = shed
      <4>1. 0 \in 0..RecoveryWindows - 1
        BY SelectionConstants
      <4> QED
        BY <1>4, <3>3, <4>1 DEF Governor
    <3>5. AllLast(windows_seen', failures, TRUE)
      <4>1. failures \in Nat /\ failures <= governor.failures + 1 /\ failures <= Longest
        BY <1>4, <3>1, SelectionConstants
      <4> QED
        BY <1>7, <2>1, <4>1
    <3>6. shed # governor.shed => shed /\ AllLast(windows_seen', FailureWindows, TRUE)
      BY <1>4, <1>7, <2>1, <3>2, SelectionConstants
    <3>7. CountsAreStreaks'
      BY <1>10, <3>4, <3>5 DEF CountsAreStreaks
    <3>8. ShedRightly
      BY <3>4, <3>6 DEF ShedRightly, LastSeen, AllLast
    <3> QED
      BY <3>4, <3>7, <3>8
  <2>2. CASE ~pressured /\ ~governor.shed
    <3>1. governor' = [governor EXCEPT !.failures = 0]
      BY <1>1, <2>2 DEF Observe
    <3>2. /\ governor' \in Governor /\ governor'.failures = 0
          /\ governor'.recoveries = governor.recoveries /\ governor'.shed = governor.shed
      BY <1>4, <3>1, SelectionConstants DEF Governor
    <3>3. AllLast(windows_seen', governor.recoveries, FALSE)
      <4>1. /\ governor.recoveries \in Nat /\ governor.recoveries <= governor.recoveries + 1
            /\ governor.recoveries <= Longest
        BY <1>4, SelectionConstants
      <4> QED
        BY <1>8, <2>2, <4>1
    <3> QED
      BY <1>10, <3>2, <3>3 DEF CountsAreStreaks, ShedRightly
  <2>3. CASE ~pressured /\ governor.shed /\ governor.recoveries + 1 >= RecoveryWindows
    <3>1. governor' = [failures |-> 0, recoveries |-> 0, shed |-> FALSE]
      BY <1>1, <2>3 DEF Observe
    <3>2. /\ governor' \in Governor /\ governor'.failures = 0 /\ governor'.recoveries = 0
      BY <3>1, SelectionConstants DEF Governor
    <3>3. AllLast(windows_seen', RecoveryWindows, FALSE)
      BY <1>4, <1>8, <2>3, SelectionConstants
    <3> QED
      BY <1>10, <2>3, <3>2, <3>3 DEF CountsAreStreaks, ShedRightly, LastSeen, AllLast
  <2>4. CASE ~pressured /\ governor.shed /\ ~(governor.recoveries + 1 >= RecoveryWindows)
    <3>1. PICK recoveries \in 0..RecoveryWindows - 1 : recoveries = governor.recoveries + 1
      BY <1>4, <2>4, SelectionConstants
    <3>2. governor' = [governor EXCEPT !.failures = 0, !.recoveries = recoveries]
      BY <1>1, <1>4, <2>4, <3>1 DEF Observe, Governor
    <3>3. /\ governor' \in Governor /\ governor'.failures = 0
          /\ governor'.recoveries = recoveries /\ governor'.shed = governor.shed
      <4>1. 0 \in 0..FailureWindows
        BY SelectionConstants
      <4> QED
        BY <1>4, <3>2, <4>1 DEF Governor
    <3>4. AllLast(windows_seen', recoveries, FALSE)
      <4>1. recoveries \in Nat /\ recoveries <= governor.recoveries + 1 /\ recoveries <= Longest
        BY <1>4, <3>1, SelectionConstants
      <4> QED
        BY <1>8, <2>4, <4>1
    <3> QED
      BY <1>10, <3>3, <3>4 DEF CountsAreStreaks, ShedRightly
  <2> QED
    BY <2>1, <2>2, <2>3, <2>4
<1>12. PressureTyped'
  BY <1>9, <1>11 DEF PressureTyped
<1> QED
  BY <1>3, <1>6, <1>11, <1>12, SelectionTypedNext DEF StepHolds, SelectionInv

\* The initial states satisfy the invariant.
LEMMA SelectionInitInv ==
  ASSUME SelectionInit
  PROVE  SelectionInv
<1> USE DEF SelectionInit
<1>1. ChoiceTyped
  <2>1. <<>> \in Seq(Trials) /\ DOMAIN <<>> = {}
    OBVIOUS
  <2> QED
    BY <2>1 DEF ChoiceTyped, IsInjective
<1>2. SessionTyped
  <2>1. <<FALSE>> \in Seq(BOOLEAN) /\ Len(<<FALSE>>) = 1
    OBVIOUS
  <2> QED
    <3>1. settings_versions \in Seq(BOOLEAN) /\ Len(settings_versions) \in 1..MaxSettings
      BY <2>1, SelectionConstants
    <3>2. selection_restarts \in 0..MaxRestarts
      BY SelectionConstants
    <3> QED
      BY <3>1, <3>2 DEF SessionTyped, SettingsVersions
<1>3. EvidenceTyped /\ VerdictTyped /\ VerdictHasCampaign
  BY DEF EvidenceTyped, VerdictTyped, VerdictHasCampaign
<1>4. PressureTyped /\ CountsAreStreaks
  <2>1. <<>> \in Seq(BOOLEAN) /\ Len(<<>>) = 0
    OBVIOUS
  <2>2. governor \in Governor /\ governor.failures = 0 /\ governor.recoveries = 0
    BY SelectionConstants DEF Governor
  <2> QED
    BY <2>1, <2>2, SelectionConstants DEF PressureTyped, CountsAreStreaks, AllLast
<1> QED
  BY <1>1, <1>2, <1>3, <1>4, SelectionTyped DEF SelectionInv

\* Every step preserves the invariant, and chooses and sheds rightly.
LEMMA SelectionStepInv ==
  ASSUME SelectionInv, [SelectionNext]_selectionVars
  PROVE  StepHolds
<1>1. CASE UNCHANGED selectionVars
  <2>1. /\ UNCHANGED <<choiceVars, sessionVars, evidenceVars, verdict, pressureVars>>
        /\ UNCHANGED selection
    BY <1>1 DEF selectionVars, choiceVars
  <2>2. ChoiceTyped' /\ ChosenRightly
    BY <2>1, SelectionParts, SelectionFrames DEF ChosenRightly
  <2> QED
    BY <2>1, <2>2, ChoiceStep
<1>2. ASSUME NEW c \in StrategyCandidates,
             \/ propose_strategy_candidate(c)
             \/ \E trial \in Trials : save_candidate_validation(c, trial)
             \/ \E intent \in Intents : promote_strategy_candidate(c, intent)
      PROVE  StepHolds
  BY <1>2, ProposeStep, ValidationStep, PromoteStep
<1>3. CASE arm_backend_session \/ start_live_session \/ disarm_backend_session \/ lock_hot_wallet
  BY <1>3, SessionsStep
<1>4. CASE settings_change
  BY <1>4, SettingsStep
<1>5. ASSUME NEW enabled \in BOOLEAN, selection_restart(enabled) \/ workload_pressure(enabled)
      PROVE  StepHolds
  BY <1>5, SelectionRestartStep, ReadingStep
<1>6. CASE \/ \E state \in {"blocked", "ready"} : observe_source(state)
           \/ \E result \in {"few", "losing", "proven"} : complete_comparisons(result)
           \/ evidence_ages
  BY <1>6, EvidenceStep
<1>7. CASE \/ \E operations \in {"unsampled", "warning", "ready"} : refresh_sentinel_verdict(operations)
           \/ verdict_expires
  BY <1>7, VerdictStep
<1> QED
  BY <1>1, <1>2, <1>3, <1>4, <1>5, <1>6, <1>7 DEF SelectionNext

\* The variables keep their types.
THEOREM SelectionTypeCorrect == SelectionSpec => []SelectionTypeOK
<1>1. SelectionInv => SelectionTypeOK
  BY DEF SelectionInv
<1> QED
  BY <1>1, SelectionInitInv, SelectionStepInv, PTL DEF SelectionSpec, StepHolds

\* The selected strategy changes only on an accepted latest validation, once for
\* each intent, and not under a backend armed since the start
\* (PromotionGate.promote).
THEOREM SelectionHoldsAlways == SelectionSpec => SelectionHolds
<1>1. ASSUME SelectionInv, [SelectionNext]_selectionVars
      PROVE  [selection' # selection =>
                /\ LatestAccepted(selection'.candidate)
                /\ <<selection'.candidate, selection'.intent>> \notin promotions
                /\ ~backend_armed \/ session_lost]_selectionVars
  BY <1>1, SelectionStepInv DEF StepHolds, ChosenRightly
<1> QED
  BY <1>1, SelectionInitInv, SelectionStepInv, PTL DEF SelectionSpec, StepHolds, SelectionHolds

\* A pilot runs on evidence of the settings it trades under, and work is shed and
\* comes back only after the whole row of readings the thresholds ask for
\* (_pilot_runtime_blockers, WorkloadGovernor.observe).
THEOREM AssessmentHoldsAlways == SelectionSpec => AssessmentHolds
<1>1. ASSUME SelectionInv PROVE PilotOnItsOwnEvidence
  <2>1. Present \in SettingsVersions
    BY <1>1, SelectionParts DEF SessionTyped, Present
  <2> QED
    BY <1>1, <2>1, SelectionParts DEF PilotOnItsOwnEvidence, EvidenceAllows, EconomicReady,
       VerdictHasCampaign
<1>2. ASSUME SelectionInv, [SelectionNext]_selectionVars
      PROVE  [governor'.shed # governor.shed =>
                \/ governor'.shed /\ LastSeen(FailureWindows, TRUE)
                \/ governor.shed /\ LastSeen(RecoveryWindows, FALSE)
                \/ selection_restarts' # selection_restarts]_selectionVars
  BY <1>2, SelectionStepInv DEF StepHolds, ShedRightly
<1> QED
  BY <1>1, <1>2, SelectionInitInv, SelectionStepInv, PTL
     DEF SelectionSpec, StepHolds, AssessmentHolds, ShedsInStreaks

--------------------------------------------------------------------------------
(***************************************************************************)
(* The health probes of the signer daemon are sound for any set of threads *)
(* and any number of probes.  None of the three properties is inductive:   *)
(* that one thread asks at a time rests on the registered probe being the  *)
(* one that runs, and that a finished probe is taken off on who holds it.  *)
(***************************************************************************)

\* The probe whose thread still asks is the registered one.
RunningIsRegistered == \A p \in Probes : probes[p].thread = "running" => registered = p

\* A probe that was marked while registered is taken off by its thread.
ExpiredIsUnderway ==
    registered # 0 /\ probes[registered].expired =>
        probes[registered].thread \in {"running", "finishing"}

Holds(r) == requests[r].step \in {"got", "waiting", "woken", "gave_up"}

\* A probe that was not marked is taken off by a request that waits for it.
UnmarkedIsHeld ==
    registered # 0 /\ ~probes[registered].expired =>
        \E r \in HealthRequests : Mine(r) = registered /\ Holds(r)

DoneHasEnded == \A p \in Probes : probes[p].done <=> probes[p].thread \in {"finishing", "ended"}

\* A request knows of its probe what it was told, and one that came after a
\* probe was given up gets no further than to be told so.
RequestFits(r) ==
    /\ requests[r].step # "idle" => Mine(r) # 0
    /\ requests[r].step \in {"woken", "passed"} => probes[Mine(r)].done
    /\ requests[r].warned =>
          /\ Mine(r) \in given_up
          /\ requests[r].step \in {"got", "answered"}
          /\ requests[r].answer # "ready"

SignerInv ==
    /\ SignerTypeOK
    /\ RunningIsRegistered /\ ExpiredIsUnderway /\ UnmarkedIsHeld /\ DoneHasEnded
    /\ \A r \in HealthRequests : RequestFits(r)

--------------------------------------------------------------------------------
(* The initial states, and one lemma per kind of step *)

\* The daemon starts with no probe and no request under way.
LEMMA SignerInitially == SignerInit => SignerInv
<1> SUFFICES ASSUME SignerInit PROVE SignerInv
  OBVIOUS
<1>1. SignerTypeOK
  <2>1. probes \in [Probes -> RpcHealthProbe]
    BY DEF SignerInit, NewProbe, RpcHealthProbe
  <2>2. requests \in [HealthRequests -> Request]
    BY SignerAssumption DEF SignerInit, NoRequest, Request, RequestStep, HealthAnswer
  <2>3. \A r \in HealthRequests : requests[r].probe = 0
    BY DEF SignerInit, NoRequest
  <2>4. \A p \in Probes : /\ probes[p].thread = "none" /\ probes[p].result = "none"
                          /\ ~probes[p].done
    BY DEF SignerInit, NewProbe
  <2> QED
    BY SignerAssumption, <2>1, <2>2, <2>3, <2>4 DEF SignerInit, SignerTypeOK, Probes
<1>2. RunningIsRegistered /\ ExpiredIsUnderway /\ UnmarkedIsHeld /\ DoneHasEnded
  BY DEF SignerInit, RunningIsRegistered, ExpiredIsUnderway, UnmarkedIsHeld, DoneHasEnded, NewProbe
<1>3. \A r \in HealthRequests : RequestFits(r)
  BY DEF SignerInit, RequestFits, NoRequest, Mine
<1> QED
  BY <1>1, <1>2, <1>3 DEF SignerInv

\* Moving a request on, with or without an answer, keeps the requests' type.
LEMMA RequestTyped ==
  ASSUME requests \in [HealthRequests -> Request], NEW r \in HealthRequests,
         NEW step \in RequestStep, NEW answer \in HealthAnswer
  PROVE  /\ [requests EXCEPT ![r].step = step] \in [HealthRequests -> Request]
         /\ [requests EXCEPT ![r].step = step, ![r].answer = answer] \in [HealthRequests -> Request]
  BY DEF Request

\* A request that has just joined a probe is a Request.
LEMMA JoinedTyped ==
  ASSUME NEW p \in 1..MaxProbes, NEW warned \in BOOLEAN
  PROVE  Joined(p, warned) \in Request
<1>1. p \in 0..MaxProbes
  BY SignerAssumption
<1> QED
  BY <1>1 DEF Joined, Request, RequestStep, HealthAnswer

\* What the threads write into a probe keeps the probes' type.
LEMMA ProbeTyped ==
  ASSUME probes \in [Probes -> RpcHealthProbe], NEW p,
         NEW result \in {"ok", "failed", "malformed"}
  PROVE  /\ [probes EXCEPT ![p].expired = TRUE] \in [Probes -> RpcHealthProbe]
         /\ [probes EXCEPT ![p].thread = "ended"] \in [Probes -> RpcHealthProbe]
         /\ [probes EXCEPT ![p].thread = "finishing", ![p].done = TRUE, ![p].result = result]
               \in [Probes -> RpcHealthProbe]
         /\ [probes EXCEPT ![p] = NewProbe] \in [Probes -> RpcHealthProbe]
  BY DEF RpcHealthProbe, NewProbe

\* get_or_start_rpc_health_probe: a request joins the registered probe, or
\* starts one when none is registered or the registered one is expired and done.
LEMMA Starts ==
  ASSUME SignerInv, NEW r \in HealthRequests, get_or_start_rpc_health_probe(r)
  PROVE  SignerInv'
<1> USE DEF SignerInv
<1>1. CASE /\ Reusable
           /\ requests' = [requests EXCEPT ![r] = Joined(registered, registered \in given_up)]
           /\ UNCHANGED <<probes, created, registered>>
  <2>1. requests' \in [HealthRequests -> Request]
    <3>1. registered \in 1..MaxProbes /\ (registered \in given_up) \in BOOLEAN
      BY <1>1, SignerAssumption DEF SignerTypeOK, Reusable
    <3>2. Joined(registered, registered \in given_up) \in Request
      BY <3>1, JoinedTyped
    <3> QED
      BY <1>1, <3>2 DEF SignerTypeOK
  <2>2. /\ requests'[r].step = "got" /\ requests'[r].probe = registered
        /\ requests'[r].answer = "none"
        /\ requests'[r].warned => registered \in given_up
    BY <1>1 DEF SignerTypeOK, Joined
  <2>3. \A s \in HealthRequests \ {r} : requests'[s] = requests[s]
    BY <1>1 DEF SignerTypeOK
  <2>4. UNCHANGED <<probes, created, registered, given_up>>
    BY <1>1 DEF get_or_start_rpc_health_probe
  <2>5. SignerTypeOK'
    BY SignerAssumption, <2>1, <2>2, <2>3, <2>4 DEF SignerTypeOK
  <2>6. RunningIsRegistered' /\ ExpiredIsUnderway' /\ DoneHasEnded'
    BY <2>4 DEF RunningIsRegistered, ExpiredIsUnderway, DoneHasEnded
  <2>7. UnmarkedIsHeld'
    BY <2>2, <2>4 DEF UnmarkedIsHeld, Holds, Mine
  <2>8. (\A s \in HealthRequests : RequestFits(s))'
    BY <1>1, <2>2, <2>3, <2>4 DEF RequestFits, Mine, Reusable
  <2> QED
    BY <2>5, <2>6, <2>7, <2>8
<1>2. CASE /\ ~Reusable /\ created < MaxProbes
           /\ created' = created + 1
           /\ registered' = created'
           /\ probes' = [probes EXCEPT ![created'] = NewProbe]
           /\ requests' = [requests EXCEPT ![r] = Joined(created', FALSE)]
  <2>0. created' \in Probes /\ created' = created + 1 /\ registered' = created' /\ given_up' = given_up
    BY <1>2, SignerAssumption DEF SignerTypeOK, Probes, get_or_start_rpc_health_probe
  <2>1. requests' \in [HealthRequests -> Request]
    <3>1. Joined(created', FALSE) \in Request
      BY <2>0, JoinedTyped DEF Probes
    <3> QED
      BY <1>2, <3>1 DEF SignerTypeOK
  <2>2. /\ requests'[r].step = "got" /\ requests'[r].probe = created'
        /\ requests'[r].answer = "none" /\ requests'[r].warned = FALSE
    BY <1>2 DEF SignerTypeOK, Joined
  <2>3. \A s \in HealthRequests \ {r} : requests'[s] = requests[s]
    BY <1>2 DEF SignerTypeOK
  <2>4. probes' \in [Probes -> RpcHealthProbe] /\ probes'[created'] = NewProbe
    BY <1>2, <2>0, ProbeTyped DEF SignerTypeOK
  <2>5. \A p \in Probes \ {created'} : probes'[p] = probes[p]
    BY <1>2 DEF SignerTypeOK
  <2>6. \A s \in HealthRequests : requests[s].probe <= created /\ requests[s].probe \in Nat
    BY SignerAssumption DEF SignerTypeOK, Request
  <2>7. SignerTypeOK'
    <3>1. \A s \in HealthRequests : requests'[s].probe <= created'
      BY <2>0, <2>2, <2>3, <2>6 DEF SignerTypeOK
    <3>2. \A p \in Probes : /\ probes'[p].thread # "none" <=> p <= created'
                            /\ probes'[p].done <=> probes'[p].result # "none"
                            /\ p \in given_up => probes'[p].expired
      <4> SUFFICES ASSUME NEW p \in Probes
                   PROVE  /\ probes'[p].thread # "none" <=> p <= created'
                          /\ probes'[p].done <=> probes'[p].result # "none"
                          /\ p \in given_up => probes'[p].expired
        OBVIOUS
      <4>1. CASE p = created'
        BY <4>1, <2>0, <2>4 DEF SignerTypeOK, NewProbe
      <4>2. CASE p # created'
        BY <4>2, <2>0, <2>5, SignerAssumption DEF SignerTypeOK, Probes
      <4> QED
        BY <4>1, <4>2
    <3> QED
      BY <2>0, <2>1, <2>4, <3>1, <3>2, SignerAssumption DEF SignerTypeOK, Probes
  <2>8. RunningIsRegistered'
    <3>1. \A p \in Probes : probes[p].thread # "running"
      BY <1>2 DEF Reusable, RunningIsRegistered, DoneHasEnded, Probes
    <3> QED
      BY <2>0, <2>5, <3>1 DEF RunningIsRegistered
  <2>9. ExpiredIsUnderway' /\ UnmarkedIsHeld'
    BY <2>0, <2>2, <2>4 DEF ExpiredIsUnderway, UnmarkedIsHeld, Holds, Mine, NewProbe
  <2>10. DoneHasEnded'
    BY <2>4, <2>5 DEF DoneHasEnded, NewProbe
  <2>11. (\A s \in HealthRequests : RequestFits(s))'
    <3> SUFFICES ASSUME NEW s \in HealthRequests PROVE RequestFits(s)'
      OBVIOUS
    <3>1. CASE s = r
      BY <3>1, <2>0, <2>2, SignerAssumption DEF RequestFits, Mine, Probes
    <3>2. CASE s # r
      <4>1. requests'[s] = requests[s] /\ requests[s].probe # created'
        BY <3>2, <2>0, <2>3, <2>6 DEF SignerTypeOK
      <4>2. requests[s].probe # 0 => probes'[requests[s].probe] = probes[requests[s].probe]
        BY <4>1, <2>5, SignerAssumption DEF SignerTypeOK, Request, Probes
      <4> QED
        BY <4>1, <4>2, <2>0 DEF RequestFits, Mine
    <3> QED
      BY <3>1, <3>2
  <2> QED
    BY <2>7, <2>8, <2>9, <2>10, <2>11
<1> QED
  BY <1>1, <1>2 DEF get_or_start_rpc_health_probe

\* submission_readiness refuses a probe it finds expired before it waits.
LEMMA Refused ==
  ASSUME SignerInv, NEW r \in HealthRequests, expired_is_refused(r)
  PROVE  SignerInv'
<1> USE DEF SignerInv
<1>1. /\ UNCHANGED <<probes, created, registered>>
      /\ requests' \in [HealthRequests -> Request]
      /\ \A s \in HealthRequests \ {r} : requests'[s] = requests[s]
  <2>1. CASE Reply(r, "timed_out")
    BY <2>1, RequestTyped DEF SignerTypeOK, RequestStep, HealthAnswer, expired_is_refused, Reply
  <2>2. CASE requests' = [requests EXCEPT ![r].step = "waiting"]
    BY <2>2, RequestTyped DEF SignerTypeOK, RequestStep, HealthAnswer, expired_is_refused
  <2> QED
    BY <2>1, <2>2 DEF expired_is_refused
<1>2. /\ requests[r].step = "got" /\ requests'[r].warned = requests[r].warned
      /\ requests'[r].probe = requests[r].probe
      /\ \/ /\ probes[requests[r].probe].expired
            /\ requests'[r].step = "answered" /\ requests'[r].answer = "timed_out"
            /\ given_up' = given_up \cup {requests[r].probe}
         \/ /\ ~probes[requests[r].probe].expired
            /\ requests'[r].step = "waiting" /\ given_up' = given_up
  <2>1. CASE probes[Mine(r)].expired /\ Reply(r, "timed_out")
    BY <2>1 DEF SignerTypeOK, expired_is_refused, At, Mine, Reply
  <2>2. CASE /\ ~probes[Mine(r)].expired
             /\ requests' = [requests EXCEPT ![r].step = "waiting"]
             /\ UNCHANGED given_up
    BY <2>2 DEF SignerTypeOK, expired_is_refused, At, Mine
  <2> QED
    BY <2>1, <2>2 DEF expired_is_refused
<1>3. requests[r].probe \in 1..created /\ requests[r].probe \in Probes
  BY <1>2, SignerAssumption DEF RequestFits, SignerTypeOK, Request, Mine, Probes
<1>4. SignerTypeOK'
  BY <1>1, <1>2, <1>3, SignerAssumption DEF SignerTypeOK
<1>5. RunningIsRegistered' /\ ExpiredIsUnderway' /\ DoneHasEnded'
  BY <1>1 DEF RunningIsRegistered, ExpiredIsUnderway, DoneHasEnded
<1>6. UnmarkedIsHeld'
  BY <1>1, <1>2 DEF UnmarkedIsHeld, Holds, Mine
<1>7. (\A s \in HealthRequests : RequestFits(s))'
  <2> SUFFICES ASSUME NEW s \in HealthRequests PROVE RequestFits(s)'
    OBVIOUS
  <2>1. CASE s = r
    <3>1. RequestFits(r) /\ requests[r].probe # 0
      BY <1>2 DEF RequestFits, Mine
    <3>2. requests[r].warned => probes[requests[r].probe].expired
      BY <1>3, <3>1 DEF RequestFits, Mine, SignerTypeOK
    <3> QED
      BY <2>1, <3>1, <3>2, <1>2 DEF RequestFits, Mine
  <2>2. CASE s # r
    BY <2>2, <1>1, <1>2 DEF RequestFits, Mine
  <2> QED
    BY <2>1, <2>2
<1> QED
  BY <1>4, <1>5, <1>6, <1>7

\* probe.done.wait returns, with the event set or with the time over.
LEMMA Waits ==
  ASSUME SignerInv, NEW r \in HealthRequests, wait(r)
  PROVE  SignerInv'
<1> USE DEF SignerInv
<1>1. /\ UNCHANGED <<probes, created, registered, given_up>>
      /\ \A s \in HealthRequests \ {r} : requests'[s] = requests[s]
      /\ requests[r].step = "waiting"
      /\ requests'[r] = [requests[r] EXCEPT
            !.step = IF probes[requests[r].probe].done THEN "woken" ELSE "gave_up"]
  BY DEF SignerTypeOK, wait, At, Mine
<1>2. SignerTypeOK'
  <2>1. requests' \in [HealthRequests -> Request]
    <3> DEFINE step == IF probes[Mine(r)].done THEN "woken" ELSE "gave_up"
    <3>1. step \in RequestStep
      BY DEF RequestStep
    <3>2. requests' = [requests EXCEPT ![r].step = step]
      BY DEF wait
    <3> HIDE DEF step
    <3> QED
      BY <3>1, <3>2, RequestTyped DEF SignerTypeOK, HealthAnswer
  <2> QED
    BY <1>1, <2>1 DEF SignerTypeOK, Request
<1>3. RunningIsRegistered' /\ ExpiredIsUnderway' /\ DoneHasEnded'
  BY <1>1 DEF RunningIsRegistered, ExpiredIsUnderway, DoneHasEnded
<1>4. /\ requests'[r].probe = requests[r].probe /\ requests'[r].warned = requests[r].warned
      /\ requests'[r].step = IF probes[requests[r].probe].done THEN "woken" ELSE "gave_up"
  BY <1>1 DEF SignerTypeOK, Request
<1>5. UnmarkedIsHeld'
  BY <1>1, <1>4 DEF UnmarkedIsHeld, Holds, Mine
<1>6. (\A s \in HealthRequests : RequestFits(s))'
  <2> SUFFICES ASSUME NEW s \in HealthRequests PROVE RequestFits(s)'
    OBVIOUS
  <2>1. CASE s = r
    <3>1. requests[r].probe # 0 /\ ~requests[r].warned
      BY <1>1 DEF RequestFits, Mine
    <3> QED
      BY <2>1, <3>1, <1>1, <1>4 DEF RequestFits, Mine
  <2>2. CASE s # r
    BY <2>2, <1>1 DEF RequestFits, Mine
  <2> QED
    BY <2>1, <2>2
<1> QED
  BY <1>2, <1>3, <1>5, <1>6

\* The request whose time is over marks the probe expired and takes a probe that
\* is done off the registry.
LEMMA GivesUp ==
  ASSUME SignerInv, NEW r \in HealthRequests, give_up(r)
  PROVE  SignerInv'
<1> USE DEF SignerInv
<1>1. /\ requests' \in [HealthRequests -> Request]
      /\ probes' \in [Probes -> RpcHealthProbe]
  <2>1. requests' \in [HealthRequests -> Request]
    BY RequestTyped DEF SignerTypeOK, RequestStep, HealthAnswer, give_up, Reply
  <2>2. probes' \in [Probes -> RpcHealthProbe]
    BY ProbeTyped DEF SignerTypeOK, give_up, MarkedExpired
  <2> QED
    BY <2>1, <2>2
<1>2. /\ created' = created
      /\ \A s \in HealthRequests \ {r} : requests'[s] = requests[s]
      /\ requests[r].step = "gave_up"
      /\ requests'[r].step = "answered" /\ requests'[r].answer = "timed_out"
      /\ requests'[r].probe = requests[r].probe /\ requests'[r].warned = requests[r].warned
      /\ given_up' = given_up \cup {requests[r].probe}
  BY DEF SignerTypeOK, give_up, At, Mine, Reply
<1>3. requests[r].probe \in Probes /\ requests[r].probe <= created
  BY <1>2, SignerAssumption DEF RequestFits, SignerTypeOK, Request, Mine, Probes
<1>4. /\ \A p \in Probes : /\ probes'[p].thread = probes[p].thread
                           /\ probes'[p].done = probes[p].done
                           /\ probes'[p].result = probes[p].result
                           /\ p # requests[r].probe => probes'[p].expired = probes[p].expired
      /\ probes'[requests[r].probe].expired = TRUE
  <2>1. probes' = [probes EXCEPT ![requests[r].probe].expired = TRUE]
    BY DEF give_up, Mine, MarkedExpired
  <2>2. \A p \in Probes : p # requests[r].probe => probes'[p] = probes[p]
    BY <2>1 DEF SignerTypeOK
  <2>3. probes'[requests[r].probe] = [probes[requests[r].probe] EXCEPT !.expired = TRUE]
    BY <2>1, <1>3 DEF SignerTypeOK
  <2>4. probes[requests[r].probe] \in RpcHealthProbe
    BY <1>3 DEF SignerTypeOK
  <2> QED
    BY <2>2, <2>3, <2>4 DEF RpcHealthProbe
<1>5. \/ registered' = registered
      \/ registered = requests[r].probe /\ registered' = 0
  BY DEF give_up, Mine, TakenOffIfDone, Forgets
<1>6. probes[requests[r].probe].done /\ registered = requests[r].probe => registered' = 0
  BY DEF give_up, Mine, TakenOffIfDone, Forgets
<1>7. SignerTypeOK'
  <2>1. registered' \in 0..created' /\ given_up' \subseteq 1..created'
    <3>1. created \in Nat /\ registered \in 0..created
      BY SignerAssumption DEF SignerTypeOK
    <3>2. registered' \in 0..created'
      BY <1>2, <1>5, <3>1
    <3>3. requests[r].probe \in 1..created /\ given_up \subseteq 1..created
      BY <1>3, <3>1, SignerAssumption DEF SignerTypeOK, Probes
    <3> QED
      BY <1>2, <3>2, <3>3
  <2>2. \A s \in HealthRequests : requests'[s].probe <= created'
    BY <1>2 DEF SignerTypeOK
  <2>3. \A p \in Probes : /\ probes'[p].thread # "none" <=> p <= created'
                          /\ probes'[p].done <=> probes'[p].result # "none"
    BY <1>2, <1>4 DEF SignerTypeOK
  <2>4. \A p \in Probes : p \in given_up' => probes'[p].expired
    BY <1>2, <1>4 DEF SignerTypeOK
  <2> QED
    BY <1>1, <1>2, <2>1, <2>2, <2>3, <2>4 DEF SignerTypeOK
<1>8. RunningIsRegistered'
  BY <1>3, <1>4, <1>5, <1>6 DEF RunningIsRegistered, DoneHasEnded, give_up, Mine, TakenOffIfDone
<1>9. ExpiredIsUnderway'
  <2> SUFFICES ASSUME registered' # 0, probes'[registered'].expired
               PROVE  probes'[registered'].thread \in {"running", "finishing"}
    BY DEF ExpiredIsUnderway
  <2>1. registered' = registered /\ registered \in Probes
    BY <1>5, SignerAssumption DEF SignerTypeOK, Probes
  <2>2. CASE registered = requests[r].probe
    <3>1. ~probes[registered].done
      BY <2>1, <2>2, <1>6
    <3>2. probes[registered].thread \in {"none", "running"}
      BY <2>1, <3>1 DEF DoneHasEnded, SignerTypeOK, RpcHealthProbe
    <3>3. probes[registered].thread # "none"
      BY <2>1, SignerAssumption DEF SignerTypeOK
    <3> QED
      BY <2>1, <3>2, <3>3, <1>4
  <2>3. CASE registered # requests[r].probe
    BY <2>1, <2>3, <1>4 DEF ExpiredIsUnderway
  <2> QED
    BY <2>2, <2>3
<1>10. UnmarkedIsHeld'
  <2> SUFFICES ASSUME registered' # 0, ~probes'[registered'].expired
               PROVE  \E s \in HealthRequests : (Mine(s) = registered /\ Holds(s))'
    BY DEF UnmarkedIsHeld
  <2>1. registered' = registered /\ registered \in Probes /\ registered # requests[r].probe
    BY <1>4, <1>5, SignerAssumption DEF SignerTypeOK, Probes
  <2>2. PICK s \in HealthRequests : Mine(s) = registered /\ Holds(s)
    BY <2>1, <1>4 DEF UnmarkedIsHeld
  <2>3. s # r
    BY <2>1, <2>2 DEF Mine
  <2> QED
    BY <2>1, <2>2, <2>3, <1>2 DEF Mine, Holds
<1>11. DoneHasEnded'
  BY <1>4 DEF DoneHasEnded
<1>12. (\A s \in HealthRequests : RequestFits(s))'
  <2> SUFFICES ASSUME NEW s \in HealthRequests PROVE RequestFits(s)'
    OBVIOUS
  <2>1. CASE s = r
    BY <2>1, <1>2, <1>3, SignerAssumption DEF RequestFits, Mine, Probes
  <2>2. CASE s # r
    <3>1. requests[s].probe # 0 => probes'[requests[s].probe].done = probes[requests[s].probe].done
      BY <1>4, SignerAssumption DEF SignerTypeOK, Request, Probes
    <3> QED
      BY <2>2, <3>1, <1>2 DEF RequestFits, Mine
  <2> QED
    BY <2>1, <2>2
<1> QED
  BY <1>7, <1>8, <1>9, <1>10, <1>11, <1>12

\* The request that sees the event set takes the probe off the registry.
LEMMA FindsDone ==
  ASSUME SignerInv, NEW r \in HealthRequests, probe_is_done(r)
  PROVE  SignerInv'
<1> USE DEF SignerInv
<1>1. /\ UNCHANGED <<probes, created>>
      /\ requests' \in [HealthRequests -> Request]
      /\ \A s \in HealthRequests \ {r} : requests'[s] = requests[s]
  <2>1. CASE Reply(r, "timed_out")
    BY <2>1, RequestTyped DEF SignerTypeOK, RequestStep, HealthAnswer, probe_is_done, Reply
  <2>2. CASE requests' = [requests EXCEPT ![r].step = "passed"]
    BY <2>2, RequestTyped DEF SignerTypeOK, RequestStep, HealthAnswer, probe_is_done
  <2> QED
    BY <2>1, <2>2 DEF probe_is_done
<1>2. /\ requests[r].step = "woken" /\ requests'[r].warned = requests[r].warned
      /\ requests'[r].probe = requests[r].probe
      /\ \/ /\ probes[requests[r].probe].expired
            /\ requests'[r].step = "answered" /\ requests'[r].answer = "timed_out"
            /\ given_up' = given_up \cup {requests[r].probe}
         \/ /\ ~probes[requests[r].probe].expired
            /\ requests'[r].step = "passed" /\ given_up' = given_up
      /\ registered' = IF registered = requests[r].probe THEN 0 ELSE registered
  <2>1. CASE probes[Mine(r)].expired /\ Reply(r, "timed_out")
    BY <2>1 DEF SignerTypeOK, probe_is_done, At, Mine, Reply, Forgets
  <2>2. CASE /\ ~probes[Mine(r)].expired
             /\ requests' = [requests EXCEPT ![r].step = "passed"]
             /\ UNCHANGED given_up
    BY <2>2 DEF SignerTypeOK, probe_is_done, At, Mine, Forgets
  <2> QED
    BY <2>1, <2>2 DEF probe_is_done
<1>3. requests[r].probe \in 1..created /\ probes[requests[r].probe].done
  BY <1>2, SignerAssumption DEF RequestFits, SignerTypeOK, Request, Mine
<1>4. SignerTypeOK'
  <2>1. registered' \in 0..created' /\ given_up' \subseteq 1..created'
    <3>1. created \in Nat /\ registered \in 0..created /\ given_up \subseteq 1..created
      BY SignerAssumption DEF SignerTypeOK
    <3>2. registered' \in 0..created'
      BY <1>1, <1>2, <3>1
    <3> QED
      BY <1>1, <1>2, <1>3, <3>1, <3>2
  <2>2. \A s \in HealthRequests : requests'[s].probe <= created'
    BY <1>1, <1>2 DEF SignerTypeOK
  <2>3. \A p \in Probes : p \in given_up' => probes[p].expired
    BY <1>2 DEF SignerTypeOK
  <2> QED
    BY <1>1, <2>1, <2>2, <2>3 DEF SignerTypeOK
<1>5. RunningIsRegistered' /\ ExpiredIsUnderway' /\ DoneHasEnded'
  BY <1>1, <1>2, <1>3, SignerAssumption
     DEF RunningIsRegistered, ExpiredIsUnderway, DoneHasEnded, SignerTypeOK, Probes
<1>6. UnmarkedIsHeld'
  BY <1>1, <1>2 DEF UnmarkedIsHeld, Holds, Mine
<1>7. (\A s \in HealthRequests : RequestFits(s))'
  <2> SUFFICES ASSUME NEW s \in HealthRequests PROVE RequestFits(s)'
    OBVIOUS
  <2>1. CASE s = r
    BY <2>1, <1>1, <1>2, <1>3 DEF RequestFits, Mine
  <2>2. CASE s # r
    BY <2>2, <1>1, <1>2 DEF RequestFits, Mine
  <2> QED
    BY <2>1, <2>2
<1> QED
  BY <1>4, <1>5, <1>6, <1>7

\* submission_readiness answers with the probe's result.
LEMMA Answers ==
  ASSUME SignerInv, NEW r \in HealthRequests, submission_readiness(r)
  PROVE  SignerInv'
<1> USE DEF SignerInv
<1> DEFINE result == probes[requests[r].probe].result
           answer == IF result = "ok" THEN "ready" ELSE result
<1>1. /\ UNCHANGED <<probes, created, registered>>
      /\ \A s \in HealthRequests \ {r} : requests'[s] = requests[s]
      /\ requests[r].step = "passed" /\ requests'[r].step = "answered"
      /\ requests'[r].probe = requests[r].probe /\ requests'[r].warned = requests[r].warned
      /\ requests' = [requests EXCEPT ![r].step = "answered", ![r].answer = answer]
  BY DEF SignerTypeOK, submission_readiness, At, Mine, Reply
<1>2. requests[r].probe \in Probes
  BY <1>1, SignerAssumption DEF RequestFits, SignerTypeOK, Request, Mine, Probes
<1>3. answer \in HealthAnswer /\ answer # "timed_out"
  BY <1>2 DEF SignerTypeOK, RpcHealthProbe, HealthAnswer
<1>4. given_up' = given_up
  BY <1>3 DEF submission_readiness, Reply, Mine
<1>5. requests' \in [HealthRequests -> Request]
  BY <1>1, <1>3, RequestTyped DEF SignerTypeOK, RequestStep
<1> HIDE DEF answer
<1>6. SignerTypeOK'
  BY <1>1, <1>4, <1>5 DEF SignerTypeOK
<1>7. RunningIsRegistered' /\ ExpiredIsUnderway' /\ DoneHasEnded'
  BY <1>1 DEF RunningIsRegistered, ExpiredIsUnderway, DoneHasEnded
<1>8. UnmarkedIsHeld'
  BY <1>1 DEF UnmarkedIsHeld, Holds, Mine
<1>9. (\A s \in HealthRequests : RequestFits(s))'
  <2> SUFFICES ASSUME NEW s \in HealthRequests PROVE RequestFits(s)'
    OBVIOUS
  <2>1. CASE s = r
    <3>1. requests[r].probe # 0 /\ ~requests[r].warned
      BY <1>1 DEF RequestFits, Mine
    <3> QED
      BY <2>1, <3>1, <1>1 DEF RequestFits, Mine
  <2>2. CASE s # r
    <3>1. requests'[s] = requests[s] /\ UNCHANGED <<probes, given_up>>
      BY <2>2, <1>1, <1>4
    <3> QED
      BY <3>1 DEF RequestFits, Mine
  <2> QED
    BY <2>1, <2>2
<1> QED
  BY <1>6, <1>7, <1>8, <1>9

\* The probe's thread stores its result and sets the event.
LEMMA ProbeAnswers ==
  ASSUME SignerInv, NEW p \in Probes, NEW result \in {"ok", "failed", "malformed"},
         run_rpc_health_probe(p, result)
  PROVE  SignerInv'
<1> USE DEF SignerInv
<1>1. /\ UNCHANGED <<created, registered, requests, given_up>>
      /\ probes' \in [Probes -> RpcHealthProbe]
      /\ \A q \in Probes \ {p} : probes'[q] = probes[q]
      /\ probes[p].thread = "running" /\ probes'[p].thread = "finishing"
      /\ probes'[p].done = TRUE /\ probes'[p].result = result
      /\ probes'[p].expired = probes[p].expired
  <2>1. probes' \in [Probes -> RpcHealthProbe]
    BY ProbeTyped DEF SignerTypeOK, run_rpc_health_probe
  <2>2. probes'[p] = [probes[p] EXCEPT !.thread = "finishing", !.done = TRUE, !.result = result]
    BY DEF SignerTypeOK, run_rpc_health_probe
  <2>3. probes[p] \in RpcHealthProbe
    BY DEF SignerTypeOK
  <2>4. UNCHANGED <<created, registered, requests, given_up>> /\ probes[p].thread = "running"
    BY DEF run_rpc_health_probe
  <2>5. \A q \in Probes \ {p} : probes'[q] = probes[q]
    BY DEF SignerTypeOK, run_rpc_health_probe
  <2> QED
    BY <2>1, <2>2, <2>3, <2>4, <2>5 DEF RpcHealthProbe
<1>2. SignerTypeOK'
  <2>1. \A q \in Probes : /\ probes'[q].thread # "none" <=> q <= created
                          /\ probes'[q].done <=> probes'[q].result # "none"
                          /\ q \in given_up => probes'[q].expired
    BY <1>1 DEF SignerTypeOK
  <2> QED
    BY <1>1, <2>1 DEF SignerTypeOK
<1>3. RunningIsRegistered' /\ DoneHasEnded'
  BY <1>1 DEF RunningIsRegistered, DoneHasEnded
<1>4. registered # 0 => registered \in Probes
  BY SignerAssumption DEF SignerTypeOK, Probes
<1>5. ExpiredIsUnderway'
  BY <1>1, <1>4 DEF ExpiredIsUnderway
<1>6. UnmarkedIsHeld'
  BY <1>1, <1>4 DEF UnmarkedIsHeld, Holds, Mine
<1>7. (\A s \in HealthRequests : RequestFits(s))'
  <2> SUFFICES ASSUME NEW s \in HealthRequests PROVE RequestFits(s)'
    OBVIOUS
  <2>1. requests[s].probe # 0 /\ probes[requests[s].probe].done => probes'[requests[s].probe].done
    BY <1>1, SignerAssumption DEF SignerTypeOK, Request, Probes
  <2> QED
    BY <1>1, <2>1 DEF RequestFits, Mine
<1> QED
  BY <1>2, <1>3, <1>5, <1>6, <1>7

\* The probe's thread takes an expired probe off the registry and ends.
LEMMA ProbeEnds ==
  ASSUME SignerInv, NEW p \in Probes, probe_thread_ends(p)
  PROVE  SignerInv'
<1> USE DEF SignerInv
<1>1. /\ UNCHANGED <<created, requests, given_up>>
      /\ probes' \in [Probes -> RpcHealthProbe]
      /\ \A q \in Probes \ {p} : probes'[q] = probes[q]
      /\ probes[p].thread = "finishing" /\ probes'[p].thread = "ended"
      /\ probes'[p].done = probes[p].done /\ probes'[p].result = probes[p].result
      /\ probes'[p].expired = probes[p].expired
  <2>1. probes' \in [Probes -> RpcHealthProbe]
    BY ProbeTyped DEF SignerTypeOK, probe_thread_ends
  <2>2. probes'[p] = [probes[p] EXCEPT !.thread = "ended"]
    BY DEF SignerTypeOK, probe_thread_ends
  <2>3. probes[p] \in RpcHealthProbe
    BY DEF SignerTypeOK
  <2>4. UNCHANGED <<created, requests, given_up>> /\ probes[p].thread = "finishing"
    BY DEF probe_thread_ends
  <2>5. \A q \in Probes \ {p} : probes'[q] = probes[q]
    BY DEF SignerTypeOK, probe_thread_ends
  <2> QED
    BY <2>1, <2>2, <2>3, <2>4, <2>5 DEF RpcHealthProbe
<1>2. /\ probes[p].expired => registered' = IF registered = p THEN 0 ELSE registered
      /\ ~probes[p].expired => registered' = registered
  BY DEF probe_thread_ends, Forgets
<1>3. registered # 0 => registered \in Probes
  BY SignerAssumption DEF SignerTypeOK, Probes
<1>4. SignerTypeOK'
  <2>1. \A q \in Probes : /\ probes'[q].thread # "none" <=> q <= created
                          /\ probes'[q].done <=> probes'[q].result # "none"
                          /\ q \in given_up => probes'[q].expired
    BY <1>1 DEF SignerTypeOK
  <2>2. registered' \in 0..created
    BY <1>2, SignerAssumption DEF SignerTypeOK
  <2> QED
    BY <1>1, <2>1, <2>2 DEF SignerTypeOK
<1>5. RunningIsRegistered' /\ DoneHasEnded'
  BY <1>1, <1>2 DEF RunningIsRegistered, DoneHasEnded
<1>6. ExpiredIsUnderway'
  BY <1>1, <1>2, <1>3 DEF ExpiredIsUnderway
<1>7. UnmarkedIsHeld'
  BY <1>1, <1>2, <1>3 DEF UnmarkedIsHeld, Holds, Mine
<1>8. (\A s \in HealthRequests : RequestFits(s))'
  <2> SUFFICES ASSUME NEW s \in HealthRequests PROVE RequestFits(s)'
    OBVIOUS
  <2>1. requests[s].probe # 0 /\ probes[requests[s].probe].done => probes'[requests[s].probe].done
    BY <1>1, SignerAssumption DEF SignerTypeOK, Request, Probes
  <2> QED
    BY <1>1, <2>1 DEF RequestFits, Mine
<1> QED
  BY <1>4, <1>5, <1>6, <1>7, <1>8

--------------------------------------------------------------------------------
\* Every step of requests and probes keeps the invariant.
LEMMA SignerStep == SignerInv /\ [SignerNext]_signerVars => SignerInv'
<1> SUFFICES ASSUME SignerInv, [SignerNext]_signerVars PROVE SignerInv'
  OBVIOUS
<1>1. ASSUME NEW r \in HealthRequests,
             \/ get_or_start_rpc_health_probe(r) \/ expired_is_refused(r) \/ wait(r)
             \/ give_up(r) \/ probe_is_done(r) \/ submission_readiness(r)
      PROVE  SignerInv'
  BY <1>1, Starts, Refused, Waits, GivesUp, FindsDone, Answers
<1>2. ASSUME NEW p \in Probes,
             \/ \E result \in {"ok", "failed", "malformed"} : run_rpc_health_probe(p, result)
             \/ probe_thread_ends(p)
      PROVE  SignerInv'
  BY <1>2, ProbeAnswers, ProbeEnds
<1>3. CASE UNCHANGED signerVars
  BY <1>3 DEF signerVars, SignerInv, SignerTypeOK, RunningIsRegistered, ExpiredIsUnderway,
              UnmarkedIsHeld, Holds, DoneHasEnded, RequestFits, Mine
<1> QED
  BY <1>1, <1>2, <1>3 DEF SignerNext

\* The invariant says more than the three properties.
LEMMA InvIsSound == SignerInv => ProbesAreSound
<1> SUFFICES ASSUME SignerInv PROVE ProbesAreSound
  OBVIOUS
<1> USE DEF SignerInv
<1>1. OneProbeAtATime
  BY DEF OneProbeAtATime, RunningIsRegistered
<1>2. NoStaleReady
  BY DEF NoStaleReady, RequestFits
<1>3. ProbeIsForgotten
  <2> SUFFICES ASSUME registered # 0
               PROVE  \/ probes[registered].thread # "ended"
                      \/ \E r \in HealthRequests : /\ Mine(r) = registered
                                                  /\ requests[r].step \notin {"idle", "answered"}
    BY DEF ProbeIsForgotten
  <2>1. CASE probes[registered].expired
    BY <2>1 DEF ExpiredIsUnderway
  <2>2. CASE ~probes[registered].expired
    BY <2>2 DEF UnmarkedIsHeld, Holds
  <2> QED
    BY <2>1, <2>2
<1> QED
  BY <1>1, <1>2, <1>3 DEF ProbesAreSound

\* One thread at a time asks the RPC, no request is ready on a probe that was
\* reported timed out before it came, and no finished probe is left registered
\* (tools/local_signer_daemon.py, submission_readiness and run_rpc_health_probe),
\* for any threads and any number of probes.
THEOREM ProbesSound == SignerSpec => []ProbesAreSound
<1>1. SignerSpec => []SignerInv
  BY SignerInitially, SignerStep, PTL DEF SignerSpec
<1> QED
  BY <1>1, InvIsSound, PTL

\* Probes, requests and threads are of their types.
THEOREM SignerTypeCorrect == SignerSpec => []SignerTypeOK
<1>1. SignerInv => SignerTypeOK
  BY DEF SignerInv
<1> QED
  BY SignerInitially, SignerStep, <1>1, PTL DEF SignerSpec

--------------------------------------------------------------------------------
(***************************************************************************)
(* Proofs about SourceFeeds, for any launches, caps and bounds: what the   *)
(* evidence report says of the access.  It is not inductive: a flag that   *)
(* was raised has its row, and a restart clears the flag but not the row.  *)
(***************************************************************************)

\* While every row could be written, a raised flag and the last word on the
\* funding have the row they wrote, and a priced trade is the newest evidence.
AccessHasRow ==
    /\ access \in [blocked: BOOLEAN, row: {"none", "funding_required", "ready"},
                   latest: {"none", "row", "price"}]
    /\ feed_counts \in [choices: 0..MaxChoices, cuts: 0..MaxCuts, misses: 0..MaxMisses,
                        restarts: 0..MaxFeedRestarts]
    /\ feed_counts.misses = 0 =>
          /\ access.blocked \/ told = "funding" =>
                access.row = "funding_required" /\ access.latest = "row"
          /\ told = "trade" => access.latest = "price"

\* Nothing was said in the beginning.
LEMMA AccessInitially == FeedsInit => AccessHasRow
<1>1. {MaxChoices, MaxCuts, MaxMisses, MaxFeedRestarts} \subseteq Nat
  BY FeedsAssumption
<1> QED
  BY <1>1 DEF FeedsInit, AccessHasRow

\* The counters only grow, and only one that could not be written counts as a miss.
LEMMA CountsTyped ==
  ASSUME AccessHasRow,
         \/ UNCHANGED feed_counts
         \/ Cut
         \/ feed_counts.choices < MaxChoices /\ feed_counts' = [feed_counts EXCEPT !.choices = @ + 1]
         \/ feed_counts.restarts < MaxFeedRestarts
            /\ feed_counts' = [feed_counts EXCEPT !.restarts = @ + 1]
  PROVE  /\ feed_counts' \in [choices: 0..MaxChoices, cuts: 0..MaxCuts, misses: 0..MaxMisses,
                              restarts: 0..MaxFeedRestarts]
         /\ feed_counts'.misses = feed_counts.misses
<1>1. {MaxChoices, MaxCuts, MaxMisses, MaxFeedRestarts} \subseteq Nat
  BY FeedsAssumption
<1> QED
  BY <1>1 DEF AccessHasRow, Cut

\* Only the bot loop and a restart touch the access.
LEMMA AccessKept ==
  ASSUME AccessHasRow, UNCHANGED accessVars,
         \/ UNCHANGED feed_counts
         \/ Cut
         \/ feed_counts.choices < MaxChoices /\ feed_counts' = [feed_counts EXCEPT !.choices = @ + 1]
  PROVE  AccessHasRow'
  BY CountsTyped DEF AccessHasRow, accessVars

\* ... and what the bot loop makes of a message is what the message said.
LEMMA IngestKeepsAccess ==
  ASSUME AccessHasRow, NEW saved \in BOOLEAN, ingest_source_event(saved)
  PROVE  AccessHasRow'
<1>1. MaxMisses \in Nat
  BY FeedsAssumption
<1>2. feed_counts' \in [choices: 0..MaxChoices, cuts: 0..MaxCuts, misses: 0..MaxMisses,
                        restarts: 0..MaxFeedRestarts]
      /\ (feed_counts'.misses = 0 => saved /\ feed_counts.misses = 0)
  <2>1. PICK n : n = IF saved THEN feed_counts.misses ELSE feed_counts.misses + 1
    OBVIOUS
  <2>2. feed_counts.misses \in 0..MaxMisses
    BY DEF AccessHasRow
  <2>3. n \in 0..MaxMisses /\ (n = 0 => saved /\ feed_counts.misses = 0)
    BY <1>1, <2>1, <2>2 DEF ingest_source_event
  <2>4. feed_counts' = [feed_counts EXCEPT !.misses = n]
    BY <2>1 DEF ingest_source_event
  <2> QED
    BY <2>3, <2>4 DEF AccessHasRow
<1>3. access' \in [blocked: BOOLEAN, row: {"none", "funding_required", "ready"},
                   latest: {"none", "row", "price"}]
  BY DEF ingest_source_event, Unfunded, Resumed, AccessHasRow
<1>4. ASSUME saved, feed_counts.misses = 0
      PROVE  /\ access'.blocked \/ told' = "funding" =>
                   access'.row = "funding_required" /\ access'.latest = "row"
             /\ told' = "trade" => access'.latest = "price"
  <2>1. access.blocked => access.row = "funding_required" /\ access.latest = "row"
    BY <1>4 DEF AccessHasRow
  <2>2. told' = hand
    BY DEF ingest_source_event
  <2>3. access \in [blocked: BOOLEAN, row: {"none", "funding_required", "ready"},
                    latest: {"none", "row", "price"}]
    BY DEF AccessHasRow
  <2>4. CASE hand = "funding"
    BY <1>4, <2>1, <2>2, <2>4 DEF ingest_source_event, Unfunded
  <2>5. CASE hand # "funding"
    BY <1>4, <2>1, <2>2, <2>3, <2>5 DEF ingest_source_event, Resumed
  <2> QED
    BY <2>4, <2>5
<1> QED
  BY <1>2, <1>3, <1>4 DEF AccessHasRow

\* The invariant is inductive.
LEMMA AccessStep == AccessHasRow /\ [FeedsNext]_feedVars => AccessHasRow'
<1> SUFFICES ASSUME AccessHasRow, [FeedsNext]_feedVars PROVE AccessHasRow'
  OBVIOUS
<1>1. ASSUME NEW cap \in Caps, FeedsRestart(cap) PROVE AccessHasRow'
  <2>1. access' = [access EXCEPT !.blocked = FALSE] /\ told' = told
    BY <1>1 DEF FeedsRestart
  <2>2. feed_counts' \in [choices: 0..MaxChoices, cuts: 0..MaxCuts, misses: 0..MaxMisses,
                          restarts: 0..MaxFeedRestarts]
        /\ feed_counts'.misses = feed_counts.misses
    BY <1>1, CountsTyped DEF FeedsRestart
  <2> QED
    BY <2>1, <2>2 DEF AccessHasRow
<1>2. ASSUME NEW m \in 0..Launched, candidate_changes(m) PROVE AccessHasRow'
  BY <1>2, AccessKept DEF candidate_changes
<1>3. ASSUME NEW launch \in BOOLEAN, NEW poll \in {"none", "answers", "raises"}, NEW event \in Events,
             poll_or_receive(launch, poll, event)
      PROVE  AccessHasRow'
  <2>1. UNCHANGED accessVars /\ (UNCHANGED feed_counts \/ Cut)
    BY <1>3 DEF poll_or_receive
  <2> QED
    BY <2>1, AccessKept
<1>4. ASSUME NEW succeeds \in BOOLEAN, connect(succeeds) PROVE AccessHasRow'
  <2>1. UNCHANGED accessVars /\ (UNCHANGED feed_counts \/ Cut)
    BY <1>4 DEF connect
  <2> QED
    BY <2>1, AccessKept
<1>5. CASE connection_lost
  BY <1>5, AccessKept DEF connection_lost
<1>6. ASSUME NEW saved \in BOOLEAN, ingest_source_event(saved) PROVE AccessHasRow'
  BY <1>6, IngestKeepsAccess
<1>7. CASE UNCHANGED <<accessVars, feed_counts>>
  BY <1>7, AccessKept
<1> QED
  BY <1>1, <1>2, <1>3, <1>4, <1>5, <1>6, <1>7
     DEF FeedsNext, feedVars, accessVars, _queue_trade_subscription, begin_connection, first_launch,
     backoff_is_over

\* What the evidence report says of the paid access is what the last message said, in
\* whatever order funding messages, trades and restarts came, unless a row could not
\* be written (genuine_source_evidence_report).
THEOREM AccessIsToldAlways == FeedsSpec => []AccessIsTold
<1>1. AccessHasRow => AccessIsTold
  BY DEF AccessHasRow, AccessIsTold, access_state
<1> QED
  BY AccessInitially, AccessStep, <1>1, PTL DEF FeedsSpec

--------------------------------------------------------------------------------
(***************************************************************************)
(* Steps that change the book, one after another.  After folds Done over a *)
(* sequence of steps; the facts about it are inductions over the steps.    *)
(***************************************************************************)

\* A set of natural numbers that is not empty has a least element.
LEMMA LeastOf ==
  ASSUME NEW N \in SUBSET Nat, N # {}
  PROVE  \E n \in N : \A m \in N : n <= m
<1>1. \E n \in N : \A m \in N : ~ (<<m, n>> \in OpToRel(<, Nat))
  BY NatLessThanWellFounded, WFMin
<1>2. PICK n \in N : \A m \in N : ~ (<<m, n>> \in OpToRel(<, Nat))
  BY <1>1
<1>3. \A m \in N : ~ (m < n)
  BY <1>2 DEF OpToRel
<1> QED
  BY <1>3

\* ... which Min finds.
LEMMA LeastIs ==
  ASSUME NEW N \in SUBSET Nat, NEW n \in N, \A m \in N : n <= m
  PROVE  Min(N) = n
<1>1. Min(N) \in N /\ \A m \in N : Min(N) <= m
  BY DEF Min
<1>2. Min(N) <= n /\ n <= Min(N) /\ n \in Nat /\ Min(N) \in Nat
  BY <1>1
<1> QED
  BY <1>2

\* A set that has 0, and with any number the next, has them all.
LEMMA CountingUp ==
  ASSUME NEW P \in SUBSET Nat, 0 \in P, \A n \in P : n + 1 \in P
  PROVE  P = Nat
<1> SUFFICES ASSUME Nat \ P # {} PROVE FALSE
  OBVIOUS
<1>1. PICK n \in Nat \ P : \A m \in Nat \ P : n <= m
  BY LeastOf
<1>2. n # 0 /\ n - 1 \in Nat /\ n - 1 \notin Nat \ P
  BY <1>1
<1>3. n = (n - 1) + 1
  BY <1>1
<1> QED
  BY <1>1, <1>2, <1>3

\* f[k] is what the first k of the steps t make of s.
Follows(f, s, t) ==
    f[0] = s /\ \A k \in 1..Len(t) : f[k] = Done(f[k - 1], t[k])

\* The recursion that After unfolds to, over the sets of the steps' numbers.
Iterates(g, s, t, n) ==
    \A x \in SUBSET (1..n) : g[x] = IF x = {} THEN s ELSE Done(g[x \ {Max(x)}], t[Max(x)])

Iteration(g, s, t, n) ==
    g = [x \in SUBSET (1..n) |-> IF x = {} THEN s ELSE Done(g[x \ {Max(x)}], t[Max(x)])]

\* The greatest of the numbers up to n.
LEMMA GreatestIs ==
  ASSUME NEW n \in Nat, NEW x \in SUBSET (1..n), n \in x
  PROVE  Max(x) = n
<1>1. \A m \in x : m \in Nat /\ n >= m
  OBVIOUS
<1>2. Max(x) \in x /\ \A m \in x : Max(x) >= m
  BY <1>1 DEF Max
<1>3. Max(x) >= n /\ n >= Max(x) /\ Max(x) \in Nat
  BY <1>1, <1>2
<1> QED
  BY <1>3

\* ... is one of them.
LEMMA GreatestIn ==
  ASSUME NEW n \in Nat, NEW x \in SUBSET (1..n), x # {}
  PROVE  Max(x) \in x
<1>1. PICK N : N = {m \in 0..n : \A y \in x : y <= m}
  OBVIOUS
<1>2. n \in N /\ N \in SUBSET Nat
  BY <1>1
<1>3. PICK m \in N : \A k \in N : m <= k
  BY <1>2, LeastOf
<1>4. m \in x
  <2> SUFFICES ASSUME m \notin x PROVE FALSE
    OBVIOUS
  <2>1. m \in 0..n /\ \A y \in x : y \in 1..n /\ y <= m /\ y # m
    BY <1>1, <1>3
  <2>2. m - 1 \in 0..n
    <3>1. PICK y \in x : y \in 1..n /\ y <= m
      BY <2>1
    <3> QED
      BY <2>1, <3>1
  <2>3. ASSUME NEW y \in x PROVE y <= m - 1
    <3>1. y \in Int /\ m \in Int /\ y <= m /\ y # m
      BY <2>1
    <3> QED
      BY <3>1
  <2>4. m - 1 \in N
    BY <1>1, <2>2, <2>3
  <2> QED
    BY <1>3, <2>1, <2>4
<1>5. \A y \in x : m >= y
  BY <1>1, <1>3
<1> QED
  BY <1>4, <1>5 DEF Max

\* There is such a function.
LEMMA IterationExists ==
  ASSUME NEW s, NEW t, NEW n \in Nat
  PROVE  \E g : Iteration(g, s, t, n)
<1> DEFINE Found(k) == \E g : Iterates(g, s, t, k)
<1>1. PICK P : P = {k \in Nat : Found(k)}
  OBVIOUS
<1>2. Found(0)
  <2>1. PICK g : g = [x \in {{}} |-> s]
    OBVIOUS
  <2>2. \A x \in SUBSET (1..0) : x = {}
    OBVIOUS
  <2>3. \A x \in SUBSET (1..0) : g[x] = s /\ x = {}
    BY <2>1, <2>2
  <2>4. Iterates(g, s, t, 0)
    BY <2>3 DEF Iterates
  <2> QED
    BY <2>4
<1>3. ASSUME NEW k \in Nat, Found(k) PROVE Found(k + 1)
  <2>1. PICK g : Iterates(g, s, t, k)
    BY <1>3
  <2>2. PICK h : h = [x \in SUBSET (1..(k + 1)) |->
                        IF k + 1 \in x THEN Done(g[x \ {k + 1}], t[k + 1]) ELSE g[x]]
    OBVIOUS
  <2>3. ASSUME NEW x \in SUBSET (1..(k + 1))
        PROVE  h[x] = IF x = {} THEN s ELSE Done(h[x \ {Max(x)}], t[Max(x)])
    <3>1. CASE k + 1 \in x
      <4>1. Max(x) = k + 1
        BY <3>1, GreatestIs
      <4>2. x \ {k + 1} \in SUBSET (1..(k + 1)) /\ k + 1 \notin x \ {k + 1}
        OBVIOUS
      <4>3. h[x \ {k + 1}] = g[x \ {k + 1}]
        BY <2>2, <4>2
      <4> QED
        BY <2>2, <3>1, <4>1, <4>3
    <3>2. CASE k + 1 \notin x
      <4>1. x \in SUBSET (1..k)
        BY <3>2
      <4>2. h[x] = g[x] /\ g[x] = IF x = {} THEN s ELSE Done(g[x \ {Max(x)}], t[Max(x)])
        BY <2>1, <2>2, <3>2, <4>1 DEF Iterates
      <4>3. h[x \ {Max(x)}] = g[x \ {Max(x)}]
        BY <2>2, <3>2
      <4> QED
        BY <4>2, <4>3
    <3> QED
      BY <3>1, <3>2
  <2>4. Iterates(h, s, t, k + 1)
    BY <2>3 DEF Iterates
  <2> QED
    BY <2>4
<1>4. P = Nat
  <2> HIDE DEF Found
  <2>1. P \in SUBSET Nat /\ 0 \in P /\ \A k \in P : k + 1 \in P
    BY <1>1, <1>2, <1>3
  <2> QED
    BY <2>1, CountingUp
<1>5. PICK g : Iterates(g, s, t, n)
  BY <1>1, <1>4
<1>6. PICK h : h = [x \in SUBSET (1..n) |-> g[x]]
  OBVIOUS
<1>7. \A x \in SUBSET (1..n) : h[x] = IF x = {} THEN s ELSE Done(h[x \ {Max(x)}], t[Max(x)])
  BY <1>5, <1>6 DEF Iterates
<1>8. h = [x \in SUBSET (1..n) |->
              IF x = {} THEN s ELSE Done(h[x \ {Max(x)}], t[Max(x)])]
  BY <1>6, <1>7
<1> QED
  BY <1>8 DEF Iteration

\* After is the last of the values its steps make one by one.
LEMMA AfterFollows ==
  ASSUME NEW s, NEW S, NEW t \in Seq(S)
  PROVE  \E f : Follows(f, s, t) /\ After(s, t) = f[Len(t)]
<1>1. Len(t) \in Nat /\ DOMAIN t = 1..Len(t)
  BY LenProperties
<1>2. PICK n \in Nat : n = Len(t)
  BY <1>1
<1>3. PICK g : Iteration(g, s, t, n) /\ After(s, t) = g[1..n]
  <2>1. \E g : Iteration(g, s, t, n)
    BY IterationExists
  <2> QED
    BY <1>1, <1>2, <2>1 DEF Iteration, After, FoldLeft, MapThenFoldSet
<1>4. PICK f : f = [k \in 0..n |-> g[1..k]]
  OBVIOUS
<1>5. f[0] = s
  <2>1. 1..0 = {} /\ {} \in SUBSET (1..n)
    OBVIOUS
  <2>2. g[{}] = s
    BY <1>3, <2>1 DEF Iteration
  <2> QED
    BY <1>4, <2>1, <2>2
<1>6. ASSUME NEW k \in 1..n PROVE f[k] = Done(f[k - 1], t[k])
  <2>1. 1..k \in SUBSET (1..n) /\ k \in 1..k /\ k \in Nat
    OBVIOUS
  <2>4. Max(1..k) = k
    BY <2>1, GreatestIs
  <2>2. (1..k) \ {k} = 1..(k - 1)
    OBVIOUS
  <2>3. g[1..k] = Done(g[1..(k - 1)], t[k])
    BY <1>3, <2>1, <2>2, <2>4 DEF Iteration
  <2> QED
    BY <1>4, <2>3
<1>7. Follows(f, s, t)
  BY <1>2, <1>5, <1>6 DEF Follows
<1>8. f[Len(t)] = g[1..n]
  BY <1>2, <1>4
<1> QED
  BY <1>3, <1>7, <1>8

\* What the first n steps make of s depends on these only.
LEMMA FollowsOnce ==
  ASSUME NEW s, NEW t, NEW u, NEW f, NEW g, Follows(f, s, t), Follows(g, s, u),
         NEW n \in Nat, n <= Len(t), n <= Len(u), Len(t) \in Nat, Len(u) \in Nat,
         \A k \in 1..n : t[k] = u[k]
  PROVE  f[n] = g[n]
<1>1. PICK P : P = {k \in Nat : k <= n => f[k] = g[k]}
  OBVIOUS
<1>2. 0 \in P
  BY <1>1 DEF Follows
<1>3. ASSUME NEW k \in P PROVE k + 1 \in P
  <2> SUFFICES ASSUME k + 1 <= n PROVE f[k + 1] = g[k + 1]
    BY <1>1
  <2>1. k \in Nat /\ f[k] = g[k] /\ t[k + 1] = u[k + 1] /\ (k + 1) - 1 = k
    BY <1>1
  <2>2. f[k + 1] = Done(f[k], t[k + 1]) /\ g[k + 1] = Done(g[k], u[k + 1])
    <3>1. k + 1 \in 1..Len(t) /\ k + 1 \in 1..Len(u)
      BY <2>1
    <3> QED
      BY <2>1, <3>1 DEF Follows
  <2> QED
    BY <2>1, <2>2
<1>4. P = Nat
  BY <1>1, <1>2, <1>3, CountingUp
<1> QED
  BY <1>1, <1>4

Chained(w, t, u) ==
    /\ Len(w) = Len(t) + Len(u)
    /\ \A i \in 1..Len(t) : w[i] = t[i]
    /\ \A i \in 1..Len(u) : w[Len(t) + i] = u[i]
Begins(w, t, n) == Len(w) = n /\ \A i \in 1..n : w[i] = t[i]

\* Steps that are joined keep their order.
LEMMA JoinedSteps ==
  ASSUME NEW S, NEW t \in Seq(S), NEW u \in Seq(S)
  PROVE  t \o u \in Seq(S) /\ Chained(t \o u, t, u)
<1>1. Len(t) \in Nat /\ Len(u) \in Nat
  BY LenProperties
<1>2. t \o u \in Seq(S) /\ Len(t \o u) = Len(t) + Len(u)
      /\ \A i \in 1..(Len(t) + Len(u)) :
           (t \o u)[i] = IF i <= Len(t) THEN t[i] ELSE u[i - Len(t)]
  BY ConcatProperties
<1>3. \A i \in 1..Len(u) : Len(t) + i \in 1..(Len(t) + Len(u)) /\ ~(Len(t) + i <= Len(t))
                           /\ (Len(t) + i) - Len(t) = i
  BY <1>1
<1>4. \A i \in 1..Len(t) : i \in 1..(Len(t) + Len(u)) /\ i <= Len(t)
  BY <1>1
<1>5. \A i \in 1..Len(t) : (t \o u)[i] = t[i]
  BY <1>2, <1>4
<1>6. \A i \in 1..Len(u) : (t \o u)[Len(t) + i] = u[i]
  BY <1>2, <1>3
<1> QED
  BY <1>2, <1>5, <1>6 DEF Chained

\* The first steps.
LEMMA StartOf ==
  ASSUME NEW S, NEW t \in Seq(S), NEW n \in 0..Len(t)
  PROVE  SubSeq(t, 1, n) \in Seq(S) /\ Begins(SubSeq(t, 1, n), t, n)
<1>1. Len(t) \in Nat
  BY LenProperties
<1>2. \A i \in 1..n : t[i] \in S /\ 1 + i - 1 = i
  BY <1>1, ElementOfSeq
<1>3. /\ SubSeq(t, 1, n) \in Seq(S)
      /\ Len(SubSeq(t, 1, n)) = IF 1 <= n THEN n - 1 + 1 ELSE 0
      /\ \A i \in 1..(n - 1 + 1) : SubSeq(t, 1, n)[i] = t[1 + i - 1]
  BY <1>1, <1>2, SubSeqProperties
<1>4. n - 1 + 1 = n /\ (~(1 <= n) => n = 0)
  BY <1>1
<1> QED
  BY <1>2, <1>3, <1>4 DEF Begins

\* ... are the same where the steps are.
LEMMA SameStart ==
  ASSUME NEW S, NEW t \in Seq(S), NEW u \in Seq(S), NEW n \in 0..Len(t), n \in 0..Len(u),
         \A i \in 1..n : t[i] = u[i]
  PROVE  SubSeq(t, 1, n) = SubSeq(u, 1, n)
<1>1. PICK v \in Seq(S) : v = SubSeq(t, 1, n) /\ Begins(v, t, n)
  BY StartOf
<1>2. PICK w \in Seq(S) : w = SubSeq(u, 1, n) /\ Begins(w, u, n)
  BY StartOf
<1>3. v = w
  BY <1>1, <1>2, SeqEqual DEF Begins
<1> QED
  BY <1>1, <1>2, <1>3

\* Steps in two parts: the second goes on where the first ended.
LEMMA AfterBoth ==
  ASSUME NEW s, NEW S, NEW t \in Seq(S), NEW u \in Seq(S)
  PROVE  After(s, t \o u) = After(After(s, t), u)
<1>1. PICK w \in Seq(S) : w = t \o u /\ Chained(w, t, u)
  BY JoinedSteps
<1>2. Len(t) \in Nat /\ Len(u) \in Nat
  BY LenProperties
<1>3. PICK f : Follows(f, s, w) /\ After(s, w) = f[Len(w)]
  BY AfterFollows
<1>4. PICK g : Follows(g, s, t) /\ After(s, t) = g[Len(t)]
  BY AfterFollows
<1>5. PICK h : Follows(h, After(s, t), u) /\ After(After(s, t), u) = h[Len(u)]
  BY AfterFollows
<1>6. f[Len(t)] = After(s, t)
  <2>1. Len(t) <= Len(w) /\ Len(w) \in Nat
    BY <1>1, <1>2
  <2>2. \A k \in 1..Len(t) : w[k] = t[k]
    BY <1>1
  <2>3. f[Len(t)] = g[Len(t)]
    BY <1>2, <1>3, <1>4, <2>1, <2>2, FollowsOnce
  <2> QED
    BY <1>4, <2>3
<1>7. PICK e : e = [k \in 0..Len(u) |-> f[Len(t) + k]]
  OBVIOUS
<1>8. Follows(e, After(s, t), u)
  <2>1. e[0] = After(s, t)
    BY <1>2, <1>6, <1>7
  <2>2. ASSUME NEW k \in 1..Len(u) PROVE e[k] = Done(e[k - 1], u[k])
    <3>1. /\ Len(t) + k \in 1..Len(w) /\ (Len(t) + k) - 1 = Len(t) + (k - 1)
          /\ k \in 0..Len(u) /\ k - 1 \in 0..Len(u)
      BY <1>1, <1>2
    <3>2. f[Len(t) + k] = Done(f[(Len(t) + k) - 1], w[Len(t) + k])
      BY <1>3, <3>1 DEF Follows
    <3>3. w[Len(t) + k] = u[k]
      BY <1>1
    <3> QED
      BY <1>7, <3>1, <3>2, <3>3
  <2> QED
    BY <2>1, <2>2 DEF Follows
<1>9. e[Len(u)] = h[Len(u)]
  BY <1>2, <1>5, <1>8, FollowsOnce
<1>10. e[Len(u)] = f[Len(w)]
  BY <1>1, <1>2, <1>7
<1> QED
  BY <1>1, <1>3, <1>5, <1>9, <1>10

\* No step leaves it as it is.
LEMMA AfterNone ==
  ASSUME NEW s
  PROVE  After(s, <<>>) = s
<1>1. <<>> \in Seq({s}) /\ Len(<<>>) = 0
  OBVIOUS
<1>2. PICK f : Follows(f, s, <<>>) /\ After(s, <<>>) = f[Len(<<>>)]
  BY <1>1, AfterFollows
<1> QED
  BY <1>1, <1>2 DEF Follows

\* ... and one is Done.
LEMMA AfterOne ==
  ASSUME NEW s, NEW what, NEW m
  PROVE  After(s, Do(what, m)) = Done(s, [do |-> what, mint |-> m])
<1>1. PICK x : x = [do |-> what, mint |-> m]
  OBVIOUS
<1>2. <<x>> \in Seq({x}) /\ Len(<<x>>) = 1 /\ <<x>>[1] = x
  OBVIOUS
<1>3. PICK g : Follows(g, s, <<x>>) /\ After(s, <<x>>) = g[Len(<<x>>)]
  BY <1>2, AfterFollows
<1>4. g[1] = Done(g[1 - 1], <<x>>[1]) /\ 1 - 1 = 0 /\ g[0] = s
  BY <1>2, <1>3 DEF Follows
<1>5. After(s, <<x>>) = Done(s, x)
  BY <1>2, <1>3, <1>4
<1> QED
  BY <1>1, <1>5 DEF Do

\* Every send among the steps t is made where P holds.
StopsIn(s, t, P) ==
    \A k \in 1..Len(t) : t[k].do \in Sends => After(s, SubSeq(t, 1, k - 1)) \in P

\* ... of two parts, where it does of each.
LEMMA StopsBoth ==
  ASSUME NEW s, NEW S, NEW t \in Seq(S), NEW u \in Seq(S), NEW P,
         StopsIn(s, t, P), StopsIn(After(s, t), u, P)
  PROVE  StopsIn(s, t \o u, P)
<1>1. PICK w \in Seq(S) : w = t \o u /\ Chained(w, t, u)
  BY JoinedSteps
<1>2. Len(t) \in Nat /\ Len(u) \in Nat
  BY LenProperties
<1> SUFFICES ASSUME NEW k \in 1..Len(w), w[k].do \in Sends
             PROVE  After(s, SubSeq(w, 1, k - 1)) \in P
  BY <1>1 DEF StopsIn
<1>3. CASE k <= Len(t)
  <2>1. k \in 1..Len(t) /\ k - 1 \in 0..Len(t) /\ k - 1 \in 0..Len(w)
    BY <1>1, <1>2, <1>3
  <2>2. SubSeq(w, 1, k - 1) = SubSeq(t, 1, k - 1)
    BY <1>1, <2>1, SameStart
  <2> QED
    BY <1>1, <2>1, <2>2 DEF StopsIn, Chained
<1>4. CASE ~(k <= Len(t))
  <2>1. PICK j \in 1..Len(u) : k = Len(t) + j
    <3>1. k - Len(t) \in 1..Len(u) /\ k = Len(t) + (k - Len(t))
      BY <1>1, <1>2, <1>4
    <3> QED
      BY <3>1
  <2>2. PICK v \in Seq(S) :
           v = SubSeq(u, 1, j - 1) /\ Begins(v, u, j - 1)
    <3>1. j - 1 \in 0..Len(u)
      BY <1>2
    <3> QED
      BY <3>1, StartOf
  <2>3. SubSeq(w, 1, k - 1) = t \o v
    <3>1. PICK x \in Seq(S) : x = t \o v /\ Chained(x, t, v)
      BY JoinedSteps
    <3>2. k - 1 = Len(x) /\ Len(x) <= Len(w) /\ k - 1 \in 0..Len(w)
      BY <1>1, <1>2, <2>1, <2>2, <3>1
    <3>3. ASSUME NEW i \in 1..Len(x) PROVE x[i] = w[i]
      <4>1. CASE i <= Len(t)
        BY <1>1, <1>2, <3>1, <4>1
      <4>2. CASE ~(i <= Len(t))
        <5>1. PICK o : o = i - Len(t)
          OBVIOUS
        <5>2. o \in 1..Len(v) /\ o \in 1..Len(u) /\ o \in 1..(j - 1) /\ i = Len(t) + o
          BY <1>2, <2>1, <2>2, <3>1, <4>2, <5>1
        <5> QED
          BY <1>1, <2>2, <3>1, <5>2
      <4> QED
        BY <4>1, <4>2
    <3>4. SubSeq(w, 1, k - 1) = SubSeq(x, 1, k - 1)
      BY <1>1, <3>2, <3>3, SameStart
    <3>5. SubSeq(x, 1, Len(x)) = x
      BY SubSeqFull
    <3> QED
      BY <3>1, <3>2, <3>4, <3>5
  <2>4. After(s, SubSeq(w, 1, k - 1)) = After(After(s, t), v)
    <3>1. v \in Seq(S)
      BY <2>2
    <3>2. After(s, t \o v) = After(After(s, t), v)
      BY <3>1, AfterBoth
    <3> QED
      BY <2>3, <3>2
  <2>5. After(After(s, t), v) \in P
    BY <1>1, <2>1, <2>2 DEF StopsIn
  <2> QED
    BY <2>4, <2>5
<1> QED
  BY <1>3, <1>4

\* ... of none,
LEMMA StopsNone ==
  ASSUME NEW s, NEW P
  PROVE  StopsIn(s, <<>>, P)
<1>1. Len(<<>>) = 0
  OBVIOUS
<1> QED
  BY <1>1 DEF StopsIn

\* ... and of one where it holds before it.
LEMMA StopsOne ==
  ASSUME NEW s, NEW what, NEW m, NEW P, what \in Sends => s \in P
  PROVE  StopsIn(s, Do(what, m), P)
<1>1. PICK x : x = [do |-> what, mint |-> m]
  OBVIOUS
<1>2. x.do = what /\ Len(<<>>) = 0 /\ Len(<<x>>) = 1 /\ <<x>>[1] = x
  BY <1>1
<1>3. \A k \in 1..1 : k = 1 /\ k - 1 = 0
  OBVIOUS
<1>4. SubSeq(<<x>>, 1, 0) = <<>>
  BY SubSeqEmpty
<1>5. After(s, <<>>) = s
  BY AfterNone
<1>7. StopsIn(s, <<x>>, P)
  BY <1>2, <1>3, <1>4, <1>5 DEF StopsIn
<1> QED
  BY <1>1, <1>7 DEF Do

--------------------------------------------------------------------------------
(* What the book's steps make of its mints. *)

\* Without its first m a book has all its other mints, and one fewer if it had m.
OneLess(after, mints, m) ==
    /\ ToSet(after) \subseteq ToSet(mints)
    /\ ToSet(mints) \ {m} \subseteq ToSet(after)
    /\ Len(after) <= Len(mints)
    /\ m \in ToSet(mints) => Len(after) = Len(mints) - 1

\* That is what deque.remove leaves.
LEMMA RemoveLeaves ==
  ASSUME NEW S, NEW mints \in Seq(S), NEW m
  PROVE  RemoveFirst(mints, m) \in Seq(S) /\ OneLess(RemoveFirst(mints, m), mints, m)
<1>1. Len(mints) \in Nat /\ DOMAIN mints = 1..Len(mints)
  BY LenProperties
<1>2. CASE m \notin ToSet(mints)
  <2>1. RemoveFirst(mints, m) = mints
    BY <1>1, <1>2 DEF RemoveFirst, ToSet
  <2>2. ToSet(mints) \ {m} = ToSet(mints) /\ Len(mints) <= Len(mints)
    BY <1>1, <1>2
  <2>3. OneLess(mints, mints, m)
    BY <1>2, <2>2 DEF OneLess
  <2> QED
    BY <2>1, <2>3
<1>3. CASE m \in ToSet(mints)
  <2>1. PICK I : I = {i \in 1..Len(mints) : mints[i] = m}
    OBVIOUS
  <2>2. I \in SUBSET Nat /\ I # {}
    BY <1>1, <1>3, <2>1 DEF ToSet
  <2>3. PICK i \in I : \A j \in I : i <= j
    BY <2>2, LeastOf
  <2>4. Min(I) = i
    BY <2>2, <2>3, LeastIs
  <2>5. i \in 1..Len(mints) /\ mints[i] = m
    BY <2>1, <2>3
  <2>6. RemoveFirst(mints, m) = SubSeq(mints, 1, i - 1) \o SubSeq(mints, i + 1, Len(mints))
    BY <2>1, <2>4, <2>5 DEF RemoveFirst, RemoveAt, SelectInSeq
  <2>7. PICK t \in Seq(S) : t = SubSeq(mints, 1, i - 1) /\ Begins(t, mints, i - 1)
    <3>1. i - 1 \in 0..Len(mints)
      BY <1>1, <2>5
    <3> QED
      BY <3>1, StartOf
  <2>8. PICK u \in Seq(S) :
           /\ u = SubSeq(mints, i + 1, Len(mints)) /\ Len(u) = Len(mints) - i
           /\ \A j \in 1..Len(u) : u[j] = mints[i + j]
    <3>1. ASSUME NEW j \in (i + 1)..Len(mints) PROVE mints[j] \in S
      <4>1. j \in 1..Len(mints)
        BY <1>1, <2>5
      <4> QED
        BY <4>1, ElementOfSeq
    <3>2. /\ SubSeq(mints, i + 1, Len(mints)) \in Seq(S)
          /\ Len(SubSeq(mints, i + 1, Len(mints))) =
                IF i + 1 <= Len(mints) THEN Len(mints) - (i + 1) + 1 ELSE 0
          /\ \A j \in 1..(Len(mints) - (i + 1) + 1) :
                SubSeq(mints, i + 1, Len(mints))[j] = mints[(i + 1) + j - 1]
      BY <1>1, <2>5, <3>1, SubSeqProperties
    <3>3. /\ Len(mints) - (i + 1) + 1 = Len(mints) - i
          /\ ~(i + 1 <= Len(mints)) => Len(mints) - i = 0
          /\ \A j \in 1..(Len(mints) - i) : (i + 1) + j - 1 = i + j
      <4>1. PICK n \in Nat : n = Len(mints)
        BY <1>1
      <4>2. i \in Nat /\ i <= n /\ i >= 1
        BY <2>5, <4>1
      <4>3. n - (i + 1) + 1 = n - i /\ (~(i + 1 <= n) => n - i = 0)
        BY <4>2
      <4>4. ASSUME NEW j \in 1..(n - i) PROVE (i + 1) + j - 1 = i + j
        BY <4>2
      <4> QED
        BY <4>1, <4>3, <4>4
    <3>4. PICK v \in Seq(S) : v = SubSeq(mints, i + 1, Len(mints))
      BY <3>2
    <3>5. Len(v) = Len(mints) - i
      BY <1>1, <2>5, <3>2, <3>3, <3>4
    <3>6. \A j \in 1..Len(v) : v[j] = mints[i + j]
      BY <3>2, <3>3, <3>4, <3>5
    <3> QED
      BY <3>4, <3>5, <3>6
  <2>9. PICK w \in Seq(S) : w = t \o u /\ Chained(w, t, u)
    BY JoinedSteps
  <2>10. Len(w) = Len(mints) - 1 /\ Len(t) = i - 1 /\ Len(u) = Len(mints) - i
    <3>1. Len(w) = Len(t) + Len(u) /\ Len(t) = i - 1 /\ Len(u) = Len(mints) - i
      BY <2>7, <2>8, <2>9 DEF Chained, Begins
    <3> QED
      BY <1>1, <2>5, <3>1
  <2>11. ASSUME NEW j \in 1..Len(w)
         PROVE  \E k \in 1..Len(mints) : w[j] = mints[k]
    <3>1. CASE j <= i - 1
      <4>1. j \in 1..(i - 1) /\ j \in 1..Len(t) /\ j \in 1..Len(mints)
        BY <1>1, <2>5, <2>10, <3>1
      <4>2. w[j] = t[j]
        BY <2>9, <4>1 DEF Chained
      <4>3. t[j] = mints[j]
        BY <2>7, <4>1 DEF Begins
      <4> QED
        BY <4>1, <4>2, <4>3
    <3>2. CASE ~(j <= i - 1)
      <4>1. PICK o : o = j - (i - 1)
        OBVIOUS
      <4>2. o \in 1..Len(u) /\ j = (i - 1) + o /\ i + o \in 1..Len(mints)
        BY <1>1, <2>5, <2>10, <3>2, <4>1
      <4>3. w[j] = u[o]
        BY <2>9, <2>10, <4>2 DEF Chained
      <4> QED
        BY <2>8, <4>2, <4>3
    <3> QED
      BY <3>1, <3>2
  <2>12. ASSUME NEW k \in 1..Len(mints), k # i
         PROVE  \E j \in 1..Len(w) : w[j] = mints[k]
    <3>1. CASE k <= i - 1
      <4>1. k \in 1..(i - 1) /\ k \in 1..Len(t) /\ k \in 1..Len(w)
        BY <1>1, <2>5, <2>10, <3>1
      <4>2. w[k] = t[k]
        BY <2>9, <4>1 DEF Chained
      <4>3. t[k] = mints[k]
        BY <2>7, <4>1 DEF Begins
      <4> QED
        BY <4>1, <4>2, <4>3
    <3>2. CASE ~(k <= i - 1)
      <4>1. PICK o : o = k - i
        OBVIOUS
      <4>2. o \in 1..Len(u) /\ k = i + o /\ (i - 1) + o \in 1..Len(w)
        BY <1>1, <2>5, <2>10, <2>12, <3>2, <4>1
      <4>3. w[(i - 1) + o] = u[o]
        BY <2>9, <2>10, <4>2 DEF Chained
      <4> QED
        BY <2>8, <4>2, <4>3
    <3> QED
      BY <3>1, <3>2
  <2>13. DOMAIN w = 1..Len(w)
    BY LenProperties
  <2>14. ToSet(w) \subseteq ToSet(mints)
    BY <1>1, <2>11, <2>13 DEF ToSet
  <2>15. ToSet(mints) \ {m} \subseteq ToSet(w)
    BY <1>1, <2>5, <2>12, <2>13 DEF ToSet
  <2>16. RemoveFirst(mints, m) = w
    BY <2>6, <2>7, <2>8, <2>9
  <2> QED
    <3>1. Len(w) <= Len(mints)
      BY <1>1, <2>10
    <3>2. OneLess(w, mints, m)
      BY <2>10, <2>14, <2>15, <3>1 DEF OneLess
    <3> QED
      BY <2>16, <3>2
<1> QED
  BY <1>2, <1>3

\* A mint more at the end.
LEMMA AppendAdds ==
  ASSUME NEW S, NEW mints \in Seq(S), NEW m \in S
  PROVE  /\ Append(mints, m) \in Seq(S) /\ Len(Append(mints, m)) = Len(mints) + 1
         /\ ToSet(Append(mints, m)) = ToSet(mints) \cup {m}
<1>1. PICK w : w = Append(mints, m)
  OBVIOUS
<1>2. Len(mints) \in Nat /\ DOMAIN mints = 1..Len(mints)
  BY LenProperties
<1>3. /\ w \in Seq(S) /\ Len(w) = Len(mints) + 1
      /\ \A i \in 1..Len(mints) : w[i] = mints[i]
      /\ w[Len(mints) + 1] = m
  BY <1>1, AppendProperties
<1>4. DOMAIN w = 1..Len(w)
  BY <1>3, LenProperties
<1>5. \A i \in 1..Len(w) : i \in 1..Len(mints) \/ i = Len(mints) + 1
  BY <1>2, <1>3
<1>6. Len(mints) + 1 \in 1..Len(w) /\ \A i \in 1..Len(mints) : i \in 1..Len(w)
  BY <1>2, <1>3
<1>7. ToSet(w) = ToSet(mints) \cup {m}
  BY <1>2, <1>3, <1>4, <1>5, <1>6 DEF ToSet
<1> QED
  BY <1>1, <1>3, <1>7

\* The oldest but one is one of them.
LEMMA OldestIsIn ==
  ASSUME NEW S, NEW mints \in Seq(S), NEW m, Len(mints) # 0
  PROVE  OldestBut(mints, m) \in ToSet(mints)
<1>1. Len(mints) \in Nat /\ DOMAIN mints = 1..Len(mints)
  BY LenProperties
<1>2. PICK I : I = {i \in 1..Len(mints) : mints[i] # m}
  OBVIOUS
<1>3. CASE I = {}
  <2>1. OldestBut(mints, m) = mints[1]
    BY <1>2, <1>3 DEF OldestBut, SelectInSeq
  <2>2. 1 \in 1..Len(mints)
    BY <1>1
  <2> QED
    BY <1>1, <2>1, <2>2 DEF ToSet
<1>4. CASE I # {}
  <2>1. I \in SUBSET Nat
    BY <1>1, <1>2
  <2>2. PICK i \in I : \A j \in I : i <= j
    BY <1>4, <2>1, LeastOf
  <2>3. Min(I) = i
    BY <2>1, <2>2, LeastIs
  <2>4. i \in 1..Len(mints) /\ i # 0
    BY <1>1, <1>2
  <2>5. OldestBut(mints, m) = mints[i]
    BY <1>2, <1>4, <2>3, <2>4 DEF OldestBut, SelectInSeq
  <2> QED
    BY <1>1, <2>4, <2>5 DEF ToSet
<1> QED
  BY <1>3, <1>4

--------------------------------------------------------------------------------
(* What a removal, an admission and a change of candidate make of the book. *)

Sheets == [mints: Seq(FeedMints), lookup: SUBSET FeedMints, active: 0..Launched,
           server: SUBSET FeedMints]
Changes == {"remove", "discard", "unsubscribe", "subscribe", "append", "add", "prefer"}
BookSteps == [do: Changes, mint: 0..Launched]

\* The sheets a round may stop with: the cap is kept, the candidate is still a, and
\* the book is empty where it has to be.
Within(a, idle) ==
    {s \in Sheets : /\ Len(s.mints) <= max_trade_subscriptions
                    /\ s.active = a
                    /\ idle => Len(s.mints) = 0}

\* The server streams only what the book has, and all of what it takes for subscribed.
Streams(s) == s.server \subseteq ToSet(s.mints)
Tidy(s) == s.lookup \subseteq ToSet(s.mints) /\ s.lookup \subseteq s.server
Clean(s) == Tidy(s) /\ s.active \in s.lookup \cup {0}

Dropped(s, m) ==
    [mints |-> RemoveFirst(s.mints, m), lookup |-> s.lookup \ {m}, active |-> s.active,
     server |-> s.server \ {m}]
Admitted(s, m) ==
    [mints |-> Append(s.mints, m), lookup |-> s.lookup \cup {m}, active |-> s.active,
     server |-> s.server \cup {m}]
Preferring(s, m) == [mints |-> s.mints, lookup |-> s.lookup, active |-> m, server |-> s.server]

\* The bounds are numbers.
LEMMA FeedConstants ==
  /\ Launched \in Nat /\ Backlog \in Nat /\ Backlog # 0
  /\ \A cap \in Caps : cap \in Nat /\ cap # 0
  BY FeedsAssumption

\* A step is one of these.
LEMMA DoIsSteps ==
  ASSUME NEW what \in Changes, NEW m \in 0..Launched
  PROVE  Do(what, m) \in Seq(BookSteps)
<1>1. [do |-> what, mint |-> m] \in BookSteps
  BY DEF BookSteps
<1> QED
  BY <1>1 DEF Do

\* What each step makes of a sheet.
LEMMA DoneIs ==
  ASSUME NEW s \in Sheets, NEW m
  PROVE  /\ After(s, Do("remove", m)) =
              [mints |-> RemoveFirst(s.mints, m), lookup |-> s.lookup, active |-> s.active,
               server |-> s.server]
         /\ After(s, Do("discard", m)) =
              [mints |-> s.mints, lookup |-> s.lookup \ {m}, active |-> s.active,
               server |-> s.server]
         /\ After(s, Do("unsubscribe", m)) =
              [mints |-> s.mints, lookup |-> s.lookup, active |-> s.active,
               server |-> s.server \ {m}]
         /\ After(s, Do("subscribe", m)) =
              [mints |-> s.mints, lookup |-> s.lookup, active |-> s.active,
               server |-> s.server \cup {m}]
         /\ After(s, Do("append", m)) =
              [mints |-> Append(s.mints, m), lookup |-> s.lookup, active |-> s.active,
               server |-> s.server]
         /\ After(s, Do("add", m)) =
              [mints |-> s.mints, lookup |-> s.lookup \cup {m}, active |-> s.active,
               server |-> s.server]
         /\ After(s, Do("prefer", m)) =
              [mints |-> s.mints, lookup |-> s.lookup, active |-> m, server |-> s.server]
<1>1. After(s, Do("remove", m)) =
       [mints |-> RemoveFirst(s.mints, m), lookup |-> s.lookup, active |-> s.active,
      server |-> s.server]
  <2>1. Done(s, [do |-> "remove", mint |-> m]) =
       [mints |-> RemoveFirst(s.mints, m), lookup |-> s.lookup, active |-> s.active,
      server |-> s.server]
    BY DEF Done, Sheets
  <2> QED
    BY <2>1, AfterOne
<1>2. After(s, Do("discard", m)) =
       [mints |-> s.mints, lookup |-> s.lookup \ {m}, active |-> s.active,
      server |-> s.server]
  <2>1. Done(s, [do |-> "discard", mint |-> m]) =
       [mints |-> s.mints, lookup |-> s.lookup \ {m}, active |-> s.active,
      server |-> s.server]
    BY DEF Done, Sheets
  <2> QED
    BY <2>1, AfterOne
<1>3. After(s, Do("unsubscribe", m)) =
       [mints |-> s.mints, lookup |-> s.lookup, active |-> s.active,
      server |-> s.server \ {m}]
  <2>1. Done(s, [do |-> "unsubscribe", mint |-> m]) =
       [mints |-> s.mints, lookup |-> s.lookup, active |-> s.active,
      server |-> s.server \ {m}]
    BY DEF Done, Sheets
  <2> QED
    BY <2>1, AfterOne
<1>4. After(s, Do("subscribe", m)) =
       [mints |-> s.mints, lookup |-> s.lookup, active |-> s.active,
      server |-> s.server \cup {m}]
  <2>1. Done(s, [do |-> "subscribe", mint |-> m]) =
       [mints |-> s.mints, lookup |-> s.lookup, active |-> s.active,
      server |-> s.server \cup {m}]
    BY DEF Done, Sheets
  <2> QED
    BY <2>1, AfterOne
<1>5. After(s, Do("append", m)) =
       [mints |-> Append(s.mints, m), lookup |-> s.lookup, active |-> s.active,
      server |-> s.server]
  <2>1. Done(s, [do |-> "append", mint |-> m]) =
       [mints |-> Append(s.mints, m), lookup |-> s.lookup, active |-> s.active,
      server |-> s.server]
    BY DEF Done, Sheets
  <2> QED
    BY <2>1, AfterOne
<1>6. After(s, Do("add", m)) =
       [mints |-> s.mints, lookup |-> s.lookup \cup {m}, active |-> s.active,
      server |-> s.server]
  <2>1. Done(s, [do |-> "add", mint |-> m]) =
       [mints |-> s.mints, lookup |-> s.lookup \cup {m}, active |-> s.active,
      server |-> s.server]
    BY DEF Done, Sheets
  <2> QED
    BY <2>1, AfterOne
<1>7. After(s, Do("prefer", m)) =
       [mints |-> s.mints, lookup |-> s.lookup, active |-> m, server |-> s.server]
  <2>1. Done(s, [do |-> "prefer", mint |-> m]) =
       [mints |-> s.mints, lookup |-> s.lookup, active |-> m, server |-> s.server]
    BY DEF Done, Sheets
  <2> QED
    BY <2>1, AfterOne
<1> QED
  BY <1>1, <1>2, <1>3, <1>4, <1>5, <1>6, <1>7

\* Three parts.
LEMMA AfterThree ==
  ASSUME NEW s, NEW S, NEW t \in Seq(S), NEW u \in Seq(S), NEW v \in Seq(S)
  PROVE  /\ t \o u \o v \in Seq(S)
         /\ After(s, t \o u \o v) = After(After(After(s, t), u), v)
<1>1. PICK w \in Seq(S) : w = t \o u
  BY JoinedSteps
<1>2. After(s, w) = After(After(s, t), u)
  BY <1>1, AfterBoth
<1>3. After(s, w \o v) = After(After(s, w), v) /\ w \o v \in Seq(S)
  BY AfterBoth, JoinedSteps
<1> QED
  BY <1>1, <1>2, <1>3

\* ... stop where each does.
LEMMA StopsThree ==
  ASSUME NEW s, NEW S, NEW t \in Seq(S), NEW u \in Seq(S), NEW v \in Seq(S), NEW P,
         StopsIn(s, t, P), StopsIn(After(s, t), u, P), StopsIn(After(After(s, t), u), v, P)
  PROVE  StopsIn(s, t \o u \o v, P)
<1>1. PICK w \in Seq(S) : w = t \o u
  BY JoinedSteps
<1>2. After(s, w) = After(After(s, t), u)
  BY <1>1, AfterBoth
<1>3. StopsIn(s, w, P)
  BY <1>1, StopsBoth
<1>4. StopsIn(s, w \o v, P)
  BY <1>2, <1>3, StopsBoth
<1> QED
  BY <1>1, <1>4

\* A removal forgets the mint, whichever its order.
LEMMA DropsMake ==
  ASSUME NEW s \in Sheets, NEW m \in FeedMints
  PROVE  /\ Drops(m) \in Seq(BookSteps) /\ After(s, Drops(m)) = Dropped(s, m)
         /\ DropsLate(m) \in Seq(BookSteps) /\ After(s, DropsLate(m)) = Dropped(s, m)
<1>1. m \in 0..Launched
  BY FeedConstants DEF FeedMints
<1>2. /\ Do("remove", m) \in Seq(BookSteps) /\ Do("discard", m) \in Seq(BookSteps)
      /\ Do("unsubscribe", m) \in Seq(BookSteps)
  BY <1>1, DoIsSteps DEF Changes
<1>3. PICK x \in Sheets : x = [mints |-> RemoveFirst(s.mints, m), lookup |-> s.lookup,
                              active |-> s.active, server |-> s.server]
  BY RemoveLeaves DEF Sheets
<1>4. PICK y \in Sheets : y = [mints |-> x.mints, lookup |-> x.lookup \ {m},
                              active |-> x.active, server |-> x.server]
  BY DEF Sheets
<1>5. PICK z \in Sheets : z = [mints |-> x.mints, lookup |-> x.lookup,
                              active |-> x.active, server |-> x.server \ {m}]
  BY DEF Sheets
<1>6. After(s, Do("remove", m)) = x
  BY <1>3, DoneIs
<1>7. After(x, Do("discard", m)) = y
  BY <1>4, DoneIs
<1>8. After(y, Do("unsubscribe", m)) = Dropped(s, m)
  <2>1. Dropped(s, m) = [mints |-> y.mints, lookup |-> y.lookup, active |-> y.active,
                         server |-> y.server \ {m}]
    BY <1>3, <1>4 DEF Dropped
  <2> QED
    BY <2>1, DoneIs
<1>9. After(x, Do("unsubscribe", m)) = z
  BY <1>5, DoneIs
<1>10. After(z, Do("discard", m)) = Dropped(s, m)
  <2>1. Dropped(s, m) = [mints |-> z.mints, lookup |-> z.lookup \ {m}, active |-> z.active,
                         server |-> z.server]
    BY <1>3, <1>5 DEF Dropped
  <2> QED
    BY <2>1, DoneIs
<1>11. Drops(m) \in Seq(BookSteps) /\ After(s, Drops(m)) = Dropped(s, m)
  BY <1>2, <1>6, <1>7, <1>8, AfterThree DEF Drops
<1>12. DropsLate(m) \in Seq(BookSteps) /\ After(s, DropsLate(m)) = Dropped(s, m)
  BY <1>2, <1>6, <1>9, <1>10, AfterThree DEF DropsLate
<1> QED
  BY <1>11, <1>12

\* ... and stops, if it does, before it has told the server.
LEMMA DropsStop ==
  ASSUME NEW a, NEW idle \in BOOLEAN, NEW s \in Within(a, idle), NEW m \in FeedMints,
         max_trade_subscriptions \in Nat
  PROVE  /\ StopsIn(s, Drops(m), Within(a, idle))
         /\ StopsIn(s, DropsLate(m), Within(a, idle))
         /\ Dropped(s, m) \in Within(a, idle)
<1>1. m \in 0..Launched
  BY FeedConstants DEF FeedMints
<1>2. /\ Do("remove", m) \in Seq(BookSteps) /\ Do("discard", m) \in Seq(BookSteps)
      /\ Do("unsubscribe", m) \in Seq(BookSteps)
  BY <1>1, DoIsSteps DEF Changes
<1>3. s \in Sheets /\ s.active = a /\ Len(s.mints) \in Nat
      /\ Len(s.mints) <= max_trade_subscriptions /\ (idle => Len(s.mints) = 0)
  BY LenProperties DEF Within, Sheets
<1>4. PICK r \in Seq(FeedMints) : r = RemoveFirst(s.mints, m) /\ OneLess(r, s.mints, m)
  BY <1>3, RemoveLeaves DEF Sheets
<1>5. Len(r) \in Nat /\ Len(r) <= Len(s.mints)
  BY <1>4, LenProperties DEF OneLess
<1>6. PICK x : x = [mints |-> r, lookup |-> s.lookup, active |-> s.active, server |-> s.server]
  OBVIOUS
<1>7. PICK y : y = [mints |-> r, lookup |-> s.lookup \ {m}, active |-> s.active,
                    server |-> s.server]
  OBVIOUS
<1>8. x \in Sheets /\ y \in Sheets /\ Dropped(s, m) \in Sheets
  BY <1>3, <1>4, <1>6, <1>7 DEF Sheets, Dropped
<1>9. x \in Within(a, idle) /\ y \in Within(a, idle) /\ Dropped(s, m) \in Within(a, idle)
  <2>1. Len(r) <= Len(s.mints) /\ (Len(s.mints) = 0 => Len(r) = 0)
    BY <1>3, <1>5
  <2>2. (idle => Len(r) = 0) /\ Len(r) <= max_trade_subscriptions
    BY <1>3, <1>5, <2>1
  <2> QED
    BY <1>3, <1>4, <1>6, <1>7, <1>8, <2>2 DEF Within, Dropped
<1>10. After(s, Do("remove", m)) = x
  BY <1>3, <1>4, <1>6, DoneIs
<1>11. After(x, Do("discard", m)) = y
  <2>1. y = [mints |-> x.mints, lookup |-> x.lookup \ {m}, active |-> x.active,
             server |-> x.server]
    BY <1>6, <1>7
  <2> QED
    BY <1>8, <2>1, DoneIs
<1>12. /\ StopsIn(s, Do("remove", m), Within(a, idle))
       /\ StopsIn(x, Do("discard", m), Within(a, idle))
       /\ StopsIn(y, Do("unsubscribe", m), Within(a, idle))
       /\ StopsIn(x, Do("unsubscribe", m), Within(a, idle))
  BY <1>9, StopsOne DEF Sends
<1>13. \A z : StopsIn(z, Do("discard", m), Within(a, idle))
  BY StopsOne DEF Sends
<1>14. StopsIn(s, Drops(m), Within(a, idle))
  BY <1>2, <1>10, <1>11, <1>12, StopsThree DEF Drops
<1>15. StopsIn(s, DropsLate(m), Within(a, idle))
  BY <1>2, <1>10, <1>12, <1>13, StopsThree DEF DropsLate
<1> QED
  BY <1>9, <1>14, <1>15

\* An admission tells the server before the book.
LEMMA AdmitsMake ==
  ASSUME NEW s \in Sheets, NEW m \in FeedMints
  PROVE  /\ Admits(m) \in Seq(BookSteps) /\ After(s, Admits(m)) = Admitted(s, m)
         /\ Admitted(s, m) \in Sheets
         /\ \A P : s \in P => StopsIn(s, Admits(m), P)
<1>1. m \in 0..Launched
  BY FeedConstants DEF FeedMints
<1>2. /\ Do("subscribe", m) \in Seq(BookSteps) /\ Do("append", m) \in Seq(BookSteps)
      /\ Do("add", m) \in Seq(BookSteps)
  BY <1>1, DoIsSteps DEF Changes
<1>3. PICK x \in Sheets : x = [mints |-> s.mints, lookup |-> s.lookup, active |-> s.active,
                              server |-> s.server \cup {m}]
  BY DEF Sheets
<1>4. PICK y \in Sheets : y = [mints |-> Append(x.mints, m), lookup |-> x.lookup,
                              active |-> x.active, server |-> x.server]
  BY AppendAdds DEF Sheets
<1>5. After(s, Do("subscribe", m)) = x
  BY <1>3, DoneIs
<1>6. After(x, Do("append", m)) = y
  BY <1>4, DoneIs
<1>7. Admitted(s, m) = [mints |-> y.mints, lookup |-> y.lookup \cup {m}, active |-> y.active,
                        server |-> y.server]
  BY <1>3, <1>4 DEF Admitted
<1>8. After(y, Do("add", m)) = Admitted(s, m)
  BY <1>7, DoneIs
<1>9. Admitted(s, m) \in Sheets
  BY <1>4, <1>7 DEF Sheets
<1>10. ASSUME NEW P, s \in P PROVE StopsIn(s, Admits(m), P)
  <2>1. StopsIn(s, Do("subscribe", m), P)
    BY <1>10, StopsOne
  <2>2. StopsIn(x, Do("append", m), P) /\ StopsIn(y, Do("add", m), P)
    BY StopsOne DEF Sends
  <2> QED
    BY <1>2, <1>5, <1>6, <2>1, <2>2, StopsThree DEF Admits
<1>11. Admits(m) \in Seq(BookSteps) /\ After(s, Admits(m)) = Admitted(s, m)
  BY <1>2, <1>5, <1>6, <1>8, AfterThree DEF Admits
<1> QED
  BY <1>9, <1>10, <1>11

\* Neither makes the book lose sight of what is streamed, nor take for subscribed
\* what is not.
LEMMA BookKeepsUp ==
  ASSUME NEW s \in Sheets, NEW m \in FeedMints
  PROVE  /\ Streams(s) => Streams(Dropped(s, m)) /\ Streams(Admitted(s, m))
         /\ Tidy(s) => Tidy(Dropped(s, m)) /\ Tidy(Admitted(s, m))
<1>1. s.mints \in Seq(FeedMints)
  BY DEF Sheets
<1>2. OneLess(RemoveFirst(s.mints, m), s.mints, m)
  BY <1>1, RemoveLeaves
<1>3. ToSet(Append(s.mints, m)) = ToSet(s.mints) \cup {m}
  BY <1>1, AppendAdds
<1>4. Streams(s) => Streams(Dropped(s, m))
  BY <1>2 DEF OneLess, Streams, Dropped
<1>5. Streams(s) => Streams(Admitted(s, m))
  BY <1>3 DEF Streams, Admitted
<1>6. Tidy(s) => Tidy(Dropped(s, m))
  BY <1>2 DEF OneLess, Tidy, Dropped
<1>7. Tidy(s) => Tidy(Admitted(s, m))
  BY <1>3 DEF Tidy, Admitted
<1> QED
  BY <1>4, <1>5, <1>6, <1>7

\* A sheet from which nothing overflows, and with room for one more.
HasRoom(s) == Len(s.mints) < max_trade_subscriptions

\* The removal of a mint it has makes room in a full book; an admission takes it.
LEMMA RoomIsMade ==
  ASSUME max_trade_subscriptions \in Nat, NEW a, NEW s \in Within(a, FALSE), NEW m \in FeedMints
  PROVE  /\ m \in ToSet(s.mints) => HasRoom(Dropped(s, m))
         /\ HasRoom(s) => Admitted(s, m) \in Within(a, FALSE)
         /\ ~Full(s) => HasRoom(s)
         /\ Full(s) /\ max_trade_subscriptions # 0 => Len(s.mints) # 0
<1>1. s \in Sheets /\ s.mints \in Seq(FeedMints) /\ s.active = a
      /\ Len(s.mints) <= max_trade_subscriptions
  BY DEF Within, Sheets
<1>2. Len(s.mints) \in Nat
  BY <1>1, LenProperties
<1>3. ASSUME m \in ToSet(s.mints) PROVE HasRoom(Dropped(s, m))
  <2>1. Len(RemoveFirst(s.mints, m)) = Len(s.mints) - 1
    BY <1>1, <1>3, RemoveLeaves DEF OneLess
  <2> QED
    BY <1>1, <1>2, <2>1 DEF HasRoom, Dropped
<1>4. ASSUME HasRoom(s) PROVE Admitted(s, m) \in Within(a, FALSE)
  <2>1. Len(Append(s.mints, m)) = Len(s.mints) + 1
    BY <1>1, AppendAdds
  <2>2. Len(Append(s.mints, m)) <= max_trade_subscriptions
    BY <1>2, <1>4, <2>1 DEF HasRoom
  <2>3. Admitted(s, m) \in Sheets
    BY <1>1, AdmitsMake
  <2> QED
    BY <1>1, <2>2, <2>3 DEF Within, Admitted
<1>5. ~Full(s) => HasRoom(s)
  BY <1>2 DEF Full, HasRoom
<1>6. Full(s) /\ max_trade_subscriptions # 0 => Len(s.mints) # 0
  BY <1>2 DEF Full
<1> QED
  BY <1>3, <1>4, <1>5, <1>6

\* What a launched mint makes of the book, when it is listened to.
LEMMA LaunchHolds ==
  ASSUME max_trade_subscriptions \in Nat \ {0}, NEW a, NEW s \in Within(a, FALSE),
         NEW m \in FeedMints, ~(Full(s) /\ a # 0)
  PROVE  /\ Launch(s, m) \in Seq(BookSteps)
         /\ StopsIn(s, Launch(s, m), Within(a, FALSE))
         /\ After(s, Launch(s, m)) \in Within(a, FALSE)
         /\ Streams(s) => Streams(After(s, Launch(s, m)))
         /\ Clean(s) => Clean(After(s, Launch(s, m)))
<1>1. s \in Sheets /\ s.active = a /\ s.mints \in Seq(FeedMints)
  BY DEF Within, Sheets
<1>2. CASE m \in s.lookup
  <2>1. Launch(s, m) = <<>>
    BY <1>2 DEF Launch
  <2>2. After(s, <<>>) = s
    BY AfterNone
  <2>3. StopsIn(s, <<>>, Within(a, FALSE))
    BY StopsNone
  <2>4. <<>> \in Seq(BookSteps)
    OBVIOUS
  <2> QED
    BY <2>1, <2>2, <2>3, <2>4
<1>3. CASE m \notin s.lookup /\ ~Full(s)
  <2>1. Launch(s, m) = <<>> \o Admits(m)
    BY <1>3 DEF Launch
  <2>2. Admits(m) \in Seq(BookSteps) /\ <<>> \o Admits(m) = Admits(m)
    BY <1>1, AdmitsMake, ConcatEmptySeq
  <2>3. After(s, Launch(s, m)) = Admitted(s, m)
        /\ StopsIn(s, Launch(s, m), Within(a, FALSE))
    BY <1>1, <2>1, <2>2, AdmitsMake
  <2>4. Admitted(s, m) \in Within(a, FALSE)
    BY <1>3, RoomIsMade
  <2>5. (Streams(s) => Streams(Admitted(s, m))) /\ (Clean(s) => Clean(Admitted(s, m)))
    BY <1>1, BookKeepsUp DEF Clean, Admitted
  <2> QED
    BY <2>1, <2>2, <2>3, <2>4, <2>5
<1>4. CASE m \notin s.lookup /\ Full(s)
  <2>1. PICK o : o = Head(s.mints)
    OBVIOUS
  <2>2. o \in FeedMints /\ o \in ToSet(s.mints)
    <3>1. Len(s.mints) # 0
      BY <1>4, RoomIsMade
    <3>2. Len(s.mints) \in Nat /\ DOMAIN s.mints = 1..Len(s.mints)
      BY <1>1, LenProperties
    <3>3. o = s.mints[1] /\ 1 \in 1..Len(s.mints)
      BY <1>1, <2>1, <3>1, <3>2
    <3> QED
      BY <1>1, <3>2, <3>3, ElementOfSeq DEF ToSet
  <2>3. Launch(s, m) = Drops(o) \o Admits(m)
    BY <1>4, <2>1 DEF Launch
  <2>4. PICK d : d = Dropped(s, o)
    OBVIOUS
  <2>5. d \in Within(a, FALSE) /\ d \in Sheets /\ HasRoom(d) /\ d.active = a
    <3>1. d \in Within(a, FALSE)
      BY <2>2, <2>4, DropsStop
    <3>2. HasRoom(d)
      BY <2>2, <2>4, RoomIsMade
    <3> QED
      BY <3>1, <3>2 DEF Within
  <2>6. /\ Drops(o) \in Seq(BookSteps) /\ After(s, Drops(o)) = d
        /\ StopsIn(s, Drops(o), Within(a, FALSE))
    BY <1>1, <2>2, <2>4, DropsMake, DropsStop
  <2>7. /\ Admits(m) \in Seq(BookSteps) /\ After(d, Admits(m)) = Admitted(d, m)
        /\ StopsIn(d, Admits(m), Within(a, FALSE))
    BY <2>5, AdmitsMake
  <2>8. /\ Launch(s, m) \in Seq(BookSteps) /\ After(s, Launch(s, m)) = Admitted(d, m)
        /\ StopsIn(s, Launch(s, m), Within(a, FALSE))
    <3>1. After(s, Drops(o) \o Admits(m)) = After(After(s, Drops(o)), Admits(m))
      BY <2>6, <2>7, AfterBoth
    <3>2. StopsIn(s, Drops(o) \o Admits(m), Within(a, FALSE))
      BY <2>6, <2>7, StopsBoth
    <3>3. Drops(o) \o Admits(m) \in Seq(BookSteps)
      BY <2>6, <2>7, JoinedSteps
    <3> QED
      BY <2>3, <2>6, <2>7, <3>1, <3>2, <3>3
  <2>9. Admitted(d, m) \in Within(a, FALSE)
    BY <2>5, RoomIsMade
  <2>10. Streams(s) => Streams(Admitted(d, m))
    BY <1>1, <2>2, <2>4, <2>5, BookKeepsUp
  <2>11. Tidy(s) => Tidy(Admitted(d, m))
    BY <1>1, <2>2, <2>4, <2>5, BookKeepsUp
  <2>12. Admitted(d, m).active = 0
    BY <1>4, <2>5 DEF Admitted
  <2> QED
    BY <2>8, <2>9, <2>10, <2>11, <2>12 DEF Clean
<1> QED
  BY <1>2, <1>3, <1>4

\* The steps t lead from the sheet s to d, and stop within P.
Leads(s, t, d, P) == t \in Seq(BookSteps) /\ After(s, t) = d /\ StopsIn(s, t, P)

\* Ways that meet are one.
LEMMA LeadsOn ==
  ASSUME NEW s, NEW t, NEW d, NEW u, NEW e, NEW P, Leads(s, t, d, P), Leads(d, u, e, P)
  PROVE  Leads(s, t \o u, e, P)
<1>1. t \in Seq(BookSteps) /\ u \in Seq(BookSteps) /\ After(s, t) = d /\ After(d, u) = e
      /\ StopsIn(s, t, P) /\ StopsIn(d, u, P)
  BY DEF Leads
<1>2. t \o u \in Seq(BookSteps)
  BY <1>1, JoinedSteps
<1>3. After(s, t \o u) = e
  BY <1>1, AfterBoth
<1>4. StopsIn(s, t \o u, P)
  BY <1>1, StopsBoth
<1> QED
  BY <1>2, <1>3, <1>4 DEF Leads

\* The empty one leads nowhere else.
LEMMA LeadsNone ==
  ASSUME NEW s, NEW P
  PROVE  Leads(s, <<>>, s, P)
<1>1. After(s, <<>>) = s
  BY AfterNone
<1>2. StopsIn(s, <<>>, P)
  BY StopsNone
<1>3. <<>> \in Seq(BookSteps)
  OBVIOUS
<1> QED
  BY <1>1, <1>2, <1>3 DEF Leads

\* What a drop, an admission and a change of the name lead to.
LEMMA LeadsOver ==
  ASSUME max_trade_subscriptions \in Nat, NEW a, NEW idle \in BOOLEAN,
         NEW s \in Within(a, idle), NEW m \in FeedMints
  PROVE  /\ Leads(s, Drops(m), Dropped(s, m), Within(a, idle))
         /\ Leads(s, DropsLate(m), Dropped(s, m), Within(a, idle))
         /\ Leads(s, Admits(m), Admitted(s, m), Within(a, idle))
<1>1. s \in Sheets
  BY DEF Within
<1>2. /\ StopsIn(s, Drops(m), Within(a, idle))
      /\ StopsIn(s, DropsLate(m), Within(a, idle))
  BY DropsStop
<1>3. StopsIn(s, Admits(m), Within(a, idle))
  BY <1>1, AdmitsMake
<1> QED
  BY <1>1, <1>2, <1>3, DropsMake, AdmitsMake DEF Leads

\* The name is no send.
LEMMA LeadsToName ==
  ASSUME NEW s \in Sheets, NEW m \in 0..Launched, NEW P
  PROVE  /\ Leads(s, Do("prefer", m), Preferring(s, m), P)
         /\ Preferring(s, m) \in Sheets
<1>1. After(s, Do("prefer", m)) = Preferring(s, m)
  BY DoneIs DEF Preferring
<1>2. StopsIn(s, Do("prefer", m), P)
  BY StopsOne DEF Sends
<1>3. Do("prefer", m) \in Seq(BookSteps)
  BY DoIsSteps DEF Changes
<1>4. Preferring(s, m) \in Sheets
  BY DEF Preferring, Sheets
<1> QED
  BY <1>1, <1>2, <1>3, <1>4 DEF Leads

\* The book has been turned to the candidate m.
Turned(s, e, m) ==
    /\ e \in Within(m, FALSE)
    /\ Streams(s) => Streams(e)
    /\ Clean(s) => Clean(e)
    /\ e.server \subseteq s.server \cup {m}
    /\ CandidatesOnly /\ ~torn /\ Clean(s) /\ m = 0 => Len(e.mints) = 0

\* The candidate before goes, whichever way.
LEMMA CandidateGoes ==
  ASSUME max_trade_subscriptions \in Nat, NEW a, NEW idle \in BOOLEAN,
         NEW s \in Within(a, idle)
  PROVE  \E d \in Within(a, idle) :
            /\ Leads(s, IF a \in s.lookup THEN Drops(a) ELSE <<>>, d, Within(a, idle))
            /\ Leads(s, IF a \in s.lookup THEN DropsLate(a) ELSE <<>>, d, Within(a, idle))
            /\ d = IF a \in s.lookup THEN Dropped(s, a) ELSE s
            /\ (Streams(s) => Streams(d)) /\ (Tidy(s) => Tidy(d))
            /\ d.server \subseteq s.server
<1>1. s \in Sheets /\ s.lookup \subseteq FeedMints
  BY DEF Within, Sheets
<1>2. CASE a \notin s.lookup
  BY <1>2, LeadsNone
<1>3. CASE a \in s.lookup
  <2>1. PICK d : d = Dropped(s, a)
    OBVIOUS
  <2>2. a \in FeedMints
    BY <1>1, <1>3
  <2>3. d \in Within(a, idle)
    BY <2>1, <2>2, DropsStop
  <2>4. Leads(s, Drops(a), d, Within(a, idle)) /\ Leads(s, DropsLate(a), d, Within(a, idle))
    BY <2>1, <2>2, LeadsOver
  <2>5. (Streams(s) => Streams(d)) /\ (Tidy(s) => Tidy(d))
    BY <1>1, <2>1, <2>2, BookKeepsUp
  <2>6. d.server \subseteq s.server
    BY <2>1 DEF Dropped
  <2> QED
    BY <1>3, <2>1, <2>3, <2>4, <2>5, <2>6
<1> QED
  BY <1>2, <1>3

\* Without a new one: the book of a single subscription is then empty.
LEMMA OverHolds ==
  ASSUME max_trade_subscriptions \in Nat, NEW a, a # 0, NEW idle \in BOOLEAN,
         NEW s \in Within(a, idle)
  PROVE  \E e : Leads(s, Over(s), e, Within(a, idle)) /\ Turned(s, e, 0)
<1>1. s \in Sheets /\ s.active = a /\ Len(s.mints) <= max_trade_subscriptions
      /\ s.mints \in Seq(FeedMints) /\ Len(s.mints) \in Nat
  BY LenProperties DEF Within, Sheets
<1>2. PICK gone : gone = IF a \in s.lookup THEN DropsLate(a) ELSE <<>>
  OBVIOUS
<1>3. Over(s) = gone \o Do("prefer", 0)
  BY <1>1, <1>2 DEF Over
<1>4. PICK d \in Within(a, idle) :
         /\ Leads(s, gone, d, Within(a, idle))
         /\ d = IF a \in s.lookup THEN Dropped(s, a) ELSE s
         /\ (Streams(s) => Streams(d)) /\ (Tidy(s) => Tidy(d))
         /\ d.server \subseteq s.server
  BY <1>2, CandidateGoes
<1>5. d \in Sheets /\ Len(d.mints) <= max_trade_subscriptions /\ 0 \in 0..Launched
  BY <1>4, FeedConstants DEF Within
<1>6. PICK e \in Sheets : e = Preferring(d, 0)
  BY <1>5, LeadsToName
<1>7. Leads(s, Over(s), e, Within(a, idle))
  <2>1. Leads(d, Do("prefer", 0), e, Within(a, idle))
    BY <1>5, <1>6, LeadsToName
  <2>2. Leads(s, gone \o Do("prefer", 0), e, Within(a, idle))
    BY <1>4, <2>1, LeadsOn
  <2> QED
    BY <1>3, <2>2
<1>8. e.mints = d.mints /\ e.lookup = d.lookup /\ e.server = d.server /\ e.active = 0
  BY <1>6 DEF Preferring
<1>9. e \in Within(0, FALSE)
  BY <1>5, <1>6, <1>8 DEF Within
<1>10. (Streams(s) => Streams(e)) /\ (Clean(s) => Clean(e)) /\ e.server \subseteq s.server \cup {0}
  BY <1>4, <1>8 DEF Streams, Clean, Tidy
<1>11. ASSUME CandidatesOnly, Clean(s) PROVE Len(e.mints) = 0
  <2>1. a \in s.lookup /\ a \in ToSet(s.mints)
    BY <1>1, <1>11 DEF Clean, Tidy
  <2>2. d.mints = RemoveFirst(s.mints, a)
    BY <1>4, <2>1 DEF Dropped
  <2>3. Len(d.mints) = Len(s.mints) - 1 /\ Len(d.mints) \in Nat
    BY <1>1, <2>1, <2>2, RemoveLeaves, LenProperties DEF OneLess
  <2>4. Len(s.mints) <= 1
    BY <1>1, <1>11 DEF CandidatesOnly
  <2>5. PICK n \in Nat : n = Len(d.mints) /\ n = Len(s.mints) - 1
    BY <2>3
  <2>6. n = 0
    <3>1. PICK k \in Nat : k = Len(s.mints)
      BY <1>1
    <3>2. k <= 1 /\ n = k - 1
      BY <2>4, <2>5, <3>1
    <3> QED
      BY <3>2
  <2> QED
    BY <1>8, <2>5, <2>6
<1> QED
  BY <1>7, <1>9, <1>10, <1>11 DEF Turned

\* For a new one: it takes the place of the one before, or of the oldest.
LEMMA PreferHolds ==
  ASSUME max_trade_subscriptions \in Nat \ {0}, NEW a, NEW idle \in BOOLEAN,
         NEW s \in Within(a, idle), NEW m \in FeedMints
  PROVE  \E e : Leads(s, Prefer(s, m), e, Within(a, idle)) /\ Turned(s, e, m)
<1>1. s.active = a /\ Within(a, idle) \subseteq Within(a, FALSE)
  BY DEF Within
<1>2. PICK gone : gone = IF a \in s.lookup THEN Drops(a) ELSE <<>>
  OBVIOUS
<1>3. PICK left \in Within(a, idle) :
         /\ Leads(s, gone, left, Within(a, idle))
         /\ (Streams(s) => Streams(left)) /\ (Tidy(s) => Tidy(left))
         /\ left.server \subseteq s.server
  BY <1>2, CandidateGoes
<1>4. PICK evicted : evicted = IF Full(left) THEN DropsLate(OldestBut(left.mints, a)) ELSE <<>>
  OBVIOUS
<1>5. Prefer(s, m) = gone \o evicted \o Admits(m) \o Do("prefer", m)
  <2>1. left = After(s, gone)
    BY <1>3 DEF Leads
  <2> QED
    BY <1>1, <1>2, <1>4, <2>1 DEF Prefer
<1>6. PICK d \in Within(a, idle) :
         /\ Leads(left, evicted, d, Within(a, idle)) /\ HasRoom(d)
         /\ (Streams(left) => Streams(d)) /\ (Tidy(left) => Tidy(d))
         /\ d.server \subseteq left.server
  <2>1. left \in Sheets /\ left.mints \in Seq(FeedMints) /\ left \in Within(a, FALSE)
    BY <1>1 DEF Within, Sheets
  <2>2. CASE ~Full(left)
    <3>1. evicted = <<>> /\ Leads(left, evicted, left, Within(a, idle))
      BY <1>4, <2>2, LeadsNone
    <3>2. HasRoom(left)
      BY <2>1, <2>2, RoomIsMade
    <3> QED
      BY <3>1, <3>2
  <2>3. CASE Full(left)
    <3>1. PICK o : o = OldestBut(left.mints, a)
      OBVIOUS
    <3>2. Len(left.mints) # 0
      BY <2>1, <2>3, RoomIsMade
    <3>3. o \in ToSet(left.mints)
      BY <2>1, <3>1, <3>2, OldestIsIn
    <3>4. o \in FeedMints
      BY <2>1, <3>3, LenProperties, ElementOfSeq DEF ToSet
    <3>5. PICK x : x = Dropped(left, o)
      OBVIOUS
    <3>6. x \in Within(a, idle)
      BY <3>4, <3>5, DropsStop
    <3>7. Leads(left, evicted, x, Within(a, idle))
      BY <1>4, <2>3, <3>1, <3>4, <3>5, LeadsOver
    <3>8. HasRoom(x)
      BY <2>1, <3>3, <3>4, <3>5, RoomIsMade
    <3>9. (Streams(left) => Streams(x)) /\ (Tidy(left) => Tidy(x))
      BY <2>1, <3>4, <3>5, BookKeepsUp
    <3>10. x.server \subseteq left.server
      BY <3>5 DEF Dropped
    <3> QED
      BY <3>6, <3>7, <3>8, <3>9, <3>10
  <2> QED
    BY <2>2, <2>3
<1>7. PICK f : f = Admitted(d, m)
  OBVIOUS
<1>8. f \in Within(a, FALSE) /\ f \in Sheets /\ d \in Sheets
  BY <1>1, <1>6, <1>7, RoomIsMade DEF Within
<1>9. m \in 0..Launched /\ m # 0
  BY FeedConstants DEF FeedMints
<1>10. PICK e \in Sheets : e = Preferring(f, m)
  BY <1>8, <1>9, LeadsToName
<1>11. Leads(s, Prefer(s, m), e, Within(a, idle))
  <2>1. Leads(s, gone \o evicted, d, Within(a, idle))
    BY <1>3, <1>6, LeadsOn
  <2>2. Leads(d, Admits(m), f, Within(a, idle))
    BY <1>7, LeadsOver
  <2>3. Leads(f, Do("prefer", m), e, Within(a, idle))
    BY <1>8, <1>9, <1>10, LeadsToName
  <2>4. PICK t : t = gone \o evicted
    OBVIOUS
  <2>5. PICK u : u = t \o Admits(m)
    OBVIOUS
  <2>6. Leads(s, u, f, Within(a, idle))
    BY <2>1, <2>2, <2>4, <2>5, LeadsOn
  <2>7. Leads(s, u \o Do("prefer", m), e, Within(a, idle))
    BY <2>3, <2>6, LeadsOn
  <2> QED
    BY <1>5, <2>4, <2>5, <2>7
<1>12. e.mints = f.mints /\ e.lookup = f.lookup /\ e.server = f.server /\ e.active = m
  BY <1>10 DEF Preferring
<1>13. f.lookup = d.lookup \cup {m} /\ f.server = d.server \cup {m}
  BY <1>7 DEF Admitted
<1>14. e \in Within(m, FALSE)
  BY <1>8, <1>10, <1>12 DEF Within
<1>15. (Streams(d) => Streams(f)) /\ (Tidy(d) => Tidy(f))
  BY <1>7, <1>8, BookKeepsUp
<1>16. Streams(s) => Streams(e)
  BY <1>3, <1>6, <1>12, <1>15 DEF Streams
<1>17. Clean(s) => Clean(e)
  BY <1>3, <1>6, <1>12, <1>13, <1>15 DEF Clean, Tidy
<1>18. e.server \subseteq s.server \cup {m}
  BY <1>3, <1>6, <1>12, <1>13
<1> QED
  BY <1>9, <1>11, <1>14, <1>16, <1>17, <1>18 DEF Turned

\* ... or for the same: nothing changes.
LEMMA PreferenceHolds ==
  ASSUME max_trade_subscriptions \in Nat \ {0}, NEW a, NEW idle \in BOOLEAN,
         NEW s \in Within(a, idle), NEW m \in 0..Launched,
         CandidatesOnly /\ ~torn /\ a = 0 => idle
  PROVE  \E e : Leads(s, Preference(s, m), e, Within(a, idle)) /\ Turned(s, e, m)
<1>1. s.active = a
  BY DEF Within
<1>2. CASE m = a
  <2>1. Preference(s, m) = <<>>
    BY <1>1, <1>2 DEF Preference
  <2>2. Turned(s, s, m)
    BY <1>2 DEF Turned, Within
  <2> QED
    BY <2>1, <2>2, LeadsNone
<1>3. CASE m # a /\ m = 0
  <2>1. Preference(s, m) = Over(s)
    BY <1>1, <1>3 DEF Preference
  <2> QED
    BY <1>3, <2>1, OverHolds
<1>4. CASE m # a /\ m # 0
  <2>1. Preference(s, m) = Prefer(s, m) /\ m \in FeedMints
    BY <1>1, <1>4, FeedConstants DEF Preference, FeedMints
  <2> QED
    BY <2>1, PreferHolds
<1> QED
  BY <1>2, <1>3, <1>4

\* What the top of the loop makes of the book: the server is not told yet.
LEMMA FirstHolds ==
  ASSUME max_trade_subscriptions \in Nat \ {0}, NEW a, NEW s \in Within(a, FALSE),
         NEW m \in FeedMints
  PROVE  \E e \in Within(a, FALSE) :
            /\ After(s, First(s, m)) = e
            /\ m \in e.lookup
            /\ s.lookup \subseteq ToSet(s.mints) => e.lookup \subseteq ToSet(e.mints)
            /\ m \in s.lookup \/ m = Head(s.mints) => s.lookup \subseteq e.lookup
<1>1. s \in Sheets /\ s.active = a /\ s.mints \in Seq(FeedMints) /\ s.lookup \subseteq FeedMints
      /\ Len(s.mints) \in Nat /\ DOMAIN s.mints = 1..Len(s.mints)
  BY LenProperties DEF Within, Sheets
<1>2. CASE m \in s.lookup
  <2>1. First(s, m) = <<>>
    BY <1>2 DEF First
  <2>2. After(s, <<>>) = s
    BY AfterNone
  <2> QED
    BY <1>2, <2>1, <2>2
<1>3. CASE m \notin s.lookup
  <2>1. PICK h : h = Head(s.mints)
    OBVIOUS
  <2>2. PICK gone : gone = IF Full(s) THEN Do("remove", h) \o Do("discard", h) ELSE <<>>
    OBVIOUS
  <2>3. First(s, m) = gone \o Do("append", m) \o Do("add", m)
    BY <1>3, <2>1, <2>2 DEF First
  <2>4. PICK d \in Sheets :
           /\ gone \in Seq(BookSteps) /\ After(s, gone) = d /\ HasRoom(d) /\ d.active = a
           /\ s.lookup \ {h} \subseteq d.lookup
           /\ s.lookup \subseteq ToSet(s.mints) => d.lookup \subseteq ToSet(d.mints)
    <3>1. CASE ~Full(s)
      <4>1. gone = <<>> /\ After(s, gone) = s
        BY <2>2, <3>1, AfterNone
      <4>2. HasRoom(s) /\ gone \in Seq(BookSteps)
        <5>1. HasRoom(s)
          BY <3>1, RoomIsMade
        <5>2. <<>> \in Seq(BookSteps)
          OBVIOUS
        <5> QED
          BY <4>1, <5>1, <5>2
      <4> QED
        BY <1>1, <4>1, <4>2
    <3>2. CASE Full(s)
      <4>1. h \in FeedMints /\ h \in ToSet(s.mints)
        <5>1. Len(s.mints) # 0
          BY <3>2, RoomIsMade
        <5>2. h = s.mints[1] /\ 1 \in 1..Len(s.mints)
          BY <1>1, <2>1, <5>1
        <5> QED
          BY <1>1, <5>2, ElementOfSeq DEF ToSet
      <4>2. h \in 0..Launched
        BY <4>1, FeedConstants DEF FeedMints
      <4>3. PICK r \in Seq(FeedMints) : r = RemoveFirst(s.mints, h) /\ OneLess(r, s.mints, h)
        BY <1>1, RemoveLeaves
      <4>4. PICK x \in Sheets : x = [mints |-> r, lookup |-> s.lookup, active |-> s.active,
                                    server |-> s.server]
        BY <1>1, <4>3 DEF Sheets
      <4>5. PICK d \in Sheets : d = [mints |-> x.mints, lookup |-> x.lookup \ {h},
                                    active |-> x.active, server |-> x.server]
        BY <4>4 DEF Sheets
      <4>6. After(s, Do("remove", h)) = x /\ After(x, Do("discard", h)) = d
        <5>1. After(s, Do("remove", h)) = x
          BY <1>1, <4>3, <4>4, DoneIs
        <5>2. After(x, Do("discard", h)) = d
          BY <4>5, DoneIs
        <5> QED
          BY <5>1, <5>2
      <4>7. Do("remove", h) \in Seq(BookSteps) /\ Do("discard", h) \in Seq(BookSteps)
        BY <4>2, DoIsSteps DEF Changes
      <4>8. gone \in Seq(BookSteps) /\ After(s, gone) = d
        BY <2>2, <3>2, <4>6, <4>7, AfterBoth, JoinedSteps
      <4>9. d.mints = r /\ d.lookup = s.lookup \ {h} /\ d.active = a
        BY <1>1, <4>4, <4>5
      <4>10. HasRoom(d)
        <5>1. HasRoom(Dropped(s, h))
          BY <4>1, RoomIsMade
        <5> QED
          BY <4>3, <4>9, <5>1 DEF HasRoom, Dropped
      <4>11. s.lookup \subseteq ToSet(s.mints) => d.lookup \subseteq ToSet(d.mints)
        BY <4>3, <4>9 DEF OneLess
      <4> QED
        BY <4>8, <4>9, <4>10, <4>11
    <3> QED
      BY <3>1, <3>2
  <2>5. PICK y \in Sheets : y = [mints |-> Append(d.mints, m), lookup |-> d.lookup,
                                active |-> d.active, server |-> d.server]
    BY <2>4, AppendAdds DEF Sheets
  <2>6. PICK e \in Sheets : e = [mints |-> y.mints, lookup |-> y.lookup \cup {m},
                                active |-> y.active, server |-> y.server]
    BY <2>5 DEF Sheets
  <2>7. After(s, First(s, m)) = e
    <3>1. m \in 0..Launched
      BY FeedConstants DEF FeedMints
    <3>2. Do("append", m) \in Seq(BookSteps) /\ Do("add", m) \in Seq(BookSteps)
      BY <3>1, DoIsSteps DEF Changes
    <3>3. After(d, Do("append", m)) = y
      BY <2>5, DoneIs
    <3>4. After(y, Do("add", m)) = e
      BY <2>6, DoneIs
    <3> QED
      BY <2>3, <2>4, <3>2, <3>3, <3>4, AfterThree
  <2>8. e.mints = Append(d.mints, m) /\ e.lookup = d.lookup \cup {m} /\ e.active = a
    BY <2>4, <2>5, <2>6
  <2>9. ToSet(e.mints) = ToSet(d.mints) \cup {m} /\ Len(e.mints) = Len(d.mints) + 1
    BY <2>4, <2>8, AppendAdds DEF Sheets
  <2>10. e \in Within(a, FALSE)
    <3>1. Len(d.mints) \in Nat
      BY <2>4, LenProperties DEF Sheets
    <3>2. Len(e.mints) <= max_trade_subscriptions
      BY <2>4, <2>9, <3>1 DEF HasRoom
    <3> QED
      BY <2>6, <2>8, <3>2 DEF Within
  <2>11. m = h => s.lookup \subseteq e.lookup
    BY <1>3, <2>4, <2>8
  <2>12. s.lookup \subseteq ToSet(s.mints) => e.lookup \subseteq ToSet(e.mints)
    BY <2>4, <2>8, <2>9
  <2> QED
    BY <1>3, <2>1, <2>7, <2>8, <2>10, <2>11, <2>12
<1> QED
  BY <1>2, <1>3

--------------------------------------------------------------------------------
(***************************************************************************)
(* The paid stream, for any launches and caps: never more than the paid    *)
(* subscriptions, none that the book has lost sight of, and the candidate  *)
(* it prefers among them.  The cap is kept at every send, where a round    *)
(* may end; that the candidate is streamed rests on the book's two halves, *)
(* the queue and the lookup, agreeing unless a round broke between their   *)
(* changes.                                                                *)
(***************************************************************************)

StreamSteps == {"top", "first", "connecting", "connected", "putting", "backoff"}
Connected == {"connected", "putting"}

BookTyped ==
    /\ max_trade_subscriptions \in Caps /\ launches \in 0..Launched /\ chosen \in 0..launches
    /\ subscription_queue \in Seq(FeedMints) /\ Len(subscription_queue) <= Backlog
    /\ book \in [mints: Seq(FeedMints), lookup: SUBSET FeedMints, active: 0..launches]
    /\ stream \in StreamSteps
    /\ server \subseteq FeedMints /\ (server # {} => stream \in Connected)
    /\ hand \in Events /\ (hand # "none" <=> stream = "putting")
    /\ told \in Events /\ torn \in BOOLEAN

\* Whatever is taken for subscribed is in the queue, and streamed while connected;
\* one subscription is a candidate's or nobody's.
BookIsClean ==
    /\ book.lookup \subseteq ToSet(book.mints)
    /\ book.active \in book.lookup \cup {0}
    /\ stream \in Connected => book.lookup \subseteq server
    /\ CandidatesOnly => stream # "first" /\ (book.active = 0 => Len(book.mints) = 0)

BookInv ==
    /\ BookTyped
    /\ Len(book.mints) <= max_trade_subscriptions
    /\ server \subseteq ToSet(book.mints)
    /\ stream = "first" => Len(book.mints) = 0
    /\ ~torn => BookIsClean

\* It holds at the start.
LEMMA BookInitially == FeedsInit => BookInv
<1> SUFFICES ASSUME FeedsInit PROVE BookInv
  OBVIOUS
<1>1. /\ book = [mints |-> <<>>, lookup |-> {}, active |-> 0] /\ stream = "top" /\ server = {}
      /\ hand = "none" /\ told = "none" /\ torn = FALSE
      /\ launches = 0 /\ subscription_queue = <<>> /\ chosen = 0
      /\ max_trade_subscriptions \in Caps
  BY DEF FeedsInit, NoBook
<1>2. <<>> \in Seq(FeedMints) /\ Len(<<>>) = 0
  OBVIOUS
<1>3. book.mints = <<>> /\ book.lookup = {} /\ book.active = 0
  BY <1>1
<1>4. book \in [mints: Seq(FeedMints), lookup: SUBSET FeedMints, active: 0..launches]
  BY <1>1, <1>2
<1>5. max_trade_subscriptions \in Nat /\ 0 <= Backlog /\ 0 \in 0..Launched
  BY <1>1, FeedConstants
<1>6. BookTyped
  BY <1>1, <1>2, <1>4, <1>5 DEF BookTyped, StreamSteps, Connected, Events
<1>7. Len(book.mints) = 0 /\ Len(book.mints) <= max_trade_subscriptions
  BY <1>2, <1>3, <1>5
<1>8. BookIsClean
  BY <1>1, <1>3, <1>7 DEF BookIsClean, Connected
<1> QED
  BY <1>1, <1>6, <1>7, <1>8 DEF BookInv

\* The sheet of a round, and of the top of the loop, is one of those.
LEMMA SheetFits ==
  ASSUME BookInv
  PROVE  /\ max_trade_subscriptions \in Nat \ {0}
         /\ Sheet \in Within(book.active, FALSE)
         /\ Sheet.mints = book.mints /\ Sheet.lookup = book.lookup
         /\ Sheet.active = book.active /\ Sheet.server = server
         /\ Streams(Sheet)
         /\ book.active \in 0..Launched
<1>1. max_trade_subscriptions \in Nat \ {0}
  BY FeedConstants DEF BookInv, BookTyped
<1>2. Sheet.mints = book.mints /\ Sheet.lookup = book.lookup
      /\ Sheet.active = book.active /\ Sheet.server = server
  BY DEF Sheet
<1>3. book.active \in 0..Launched
  BY FeedConstants DEF BookInv, BookTyped
<1>4. Sheet \in Sheets
  BY <1>3 DEF Sheet, Sheets, BookInv, BookTyped
<1>5. Sheet \in Within(book.active, FALSE)
  BY <1>2, <1>4 DEF Within, BookInv
<1> QED
  BY <1>1, <1>2, <1>3, <1>5 DEF Streams, BookInv

\* Where the round has nothing to do with it the book is kept.
LEMMA BookKept ==
  ASSUME BookInv, UNCHANGED <<max_trade_subscriptions, book, torn>>,
         launches' \in 0..Launched, chosen' \in 0..launches', launches <= launches',
         subscription_queue' \in Seq(FeedMints), Len(subscription_queue') <= Backlog,
         stream' \in StreamSteps, server' = {} \/ UNCHANGED server,
         server' # {} => stream' \in Connected,
         hand' \in Events, hand' # "none" <=> stream' = "putting", told' \in Events,
         stream' \in Connected => stream \in Connected /\ UNCHANGED server,
         stream' = "first" => stream = "first"
  PROVE  BookInv'
<1>1. book.active \in 0..launches'
  BY FeedConstants DEF BookInv, BookTyped
<1>2. BookTyped'
  BY <1>1 DEF BookInv, BookTyped
<1>3. server' \subseteq ToSet(book'.mints) /\ Len(book'.mints) <= max_trade_subscriptions'
      /\ (stream' = "first" => Len(book'.mints) = 0)
  BY DEF BookInv
<1>4. ~torn' => BookIsClean'
  BY DEF BookInv, BookIsClean, CandidatesOnly
<1> QED
  BY <1>2, <1>3, <1>4 DEF BookInv

\* A launch goes into the queue, which drops its oldest when it is full.
LEMMA LaunchQueued ==
  ASSUME BookInv, _queue_trade_subscription
  PROVE  BookInv'
<1>1. /\ launches \in 0..Launched /\ launches < Launched /\ chosen \in 0..launches
      /\ subscription_queue \in Seq(FeedMints) /\ Len(subscription_queue) <= Backlog
      /\ Len(subscription_queue) \in Nat
  BY LenProperties DEF BookInv, BookTyped, _queue_trade_subscription
<1>2. PICK q : q = IF Len(subscription_queue) = Backlog THEN Tail(subscription_queue)
                   ELSE subscription_queue
  OBVIOUS
<1>3. q \in Seq(FeedMints) /\ Len(q) + 1 <= Backlog
  <2>1. CASE Len(subscription_queue) = Backlog
    <3>1. subscription_queue # <<>>
      BY <1>1, <2>1, FeedConstants
    <3>2. q \in Seq(FeedMints) /\ Len(q) = Len(subscription_queue) - 1
      BY <1>1, <1>2, <2>1, <3>1, HeadTailProperties
    <3> QED
      BY <1>1, <2>1, <3>2, FeedConstants
  <2>2. CASE Len(subscription_queue) # Backlog
    BY <1>1, <1>2, <2>2, FeedConstants
  <2> QED
    BY <2>1, <2>2
<1>4. launches + 1 \in FeedMints /\ launches + 1 \in 0..Launched
  BY <1>1, FeedConstants DEF FeedMints
<1>5. subscription_queue' = Append(q, launches + 1) /\ launches' = launches + 1
  BY <1>2 DEF _queue_trade_subscription
<1>6. subscription_queue' \in Seq(FeedMints) /\ Len(subscription_queue') <= Backlog
  BY <1>3, <1>4, <1>5, AppendProperties
<1>7. launches' \in 0..Launched /\ chosen' \in 0..launches' /\ launches <= launches'
  BY <1>1, <1>4, <1>5, FeedConstants DEF _queue_trade_subscription
<1>8. UNCHANGED <<max_trade_subscriptions, book, stream, server, torn, hand, told>>
  BY DEF _queue_trade_subscription, streamVars, accessVars
<1> QED
  BY <1>6, <1>7, <1>8, BookKept DEF BookInv, BookTyped

\* The top of the loop: a candidate may take the place of the oldest mint.
LEMMA BeginKeepsBook ==
  ASSUME BookInv, NEW readable \in BOOLEAN, begin_connection(readable)
  PROVE  BookInv'
<1>1. /\ BookTyped /\ stream = "top" /\ hand = "none" /\ server = {}
      /\ UNCHANGED <<max_trade_subscriptions, launches, subscription_queue, chosen, server,
                     hand, told, torn>>
  BY DEF BookInv, BookTyped, Connected, begin_connection, accessVars
<1>2. PICK m \in 0..launches :
         /\ ~(CandidatesOnly /\ m = 0 /\ book.active = 0)
         /\ IF m = 0 /\ book.mints = <<>>
            THEN stream' = "first" /\ UNCHANGED book
            ELSE LET first == IF m = 0 THEN Head(book.mints) ELSE m
                     s == After(Sheet, First(Sheet, first))
                 IN  /\ book' = [mints |-> s.mints, lookup |-> s.lookup,
                                 active |-> IF m = 0 THEN book.active ELSE m]
                     /\ stream' = "connecting"
  BY <1>1 DEF begin_connection, BookTyped
<1>3. book.mints \in Seq(FeedMints) /\ book.active \in 0..launches
      /\ book.lookup \subseteq FeedMints
  BY <1>1 DEF BookTyped
<1>4. CASE m = 0 /\ book.mints = <<>>
  <2>1. stream' = "first" /\ UNCHANGED book /\ Len(book.mints) = 0
    BY <1>2, <1>4
  <2>2. BookTyped'
    BY <1>1, <2>1 DEF BookTyped, StreamSteps, Connected
  <2>3. ASSUME ~torn PROVE BookIsClean'
    <3>1. BookIsClean
      BY <2>3 DEF BookInv
    <3>2. book.active = 0
      <4>1. ToSet(book.mints) = {}
        BY <1>4 DEF ToSet
      <4> QED
        BY <3>1, <4>1 DEF BookIsClean
    <3>3. ~CandidatesOnly
      BY <1>2, <1>4, <3>2
    <3> QED
      BY <1>1, <2>1, <3>1, <3>3 DEF BookIsClean, CandidatesOnly, Connected
  <2> QED
    BY <1>1, <2>1, <2>2, <2>3 DEF BookInv
<1>5. CASE ~(m = 0 /\ book.mints = <<>>)
  <2>1. PICK first : first = IF m = 0 THEN Head(book.mints) ELSE m
    OBVIOUS
  <2>2. first \in FeedMints
    <3>1. m # 0 => m \in FeedMints
      BY <1>1, FeedConstants DEF FeedMints, BookTyped
    <3>2. m = 0 => Head(book.mints) \in FeedMints
      BY <1>3, <1>5, HeadTailProperties
    <3> QED
      BY <2>1, <3>1, <3>2
  <2>3. PICK e \in Within(book.active, FALSE) :
           /\ After(Sheet, First(Sheet, first)) = e
           /\ first \in e.lookup
           /\ book.lookup \subseteq ToSet(book.mints) => e.lookup \subseteq ToSet(e.mints)
           /\ first \in book.lookup \/ first = Head(book.mints) => book.lookup \subseteq e.lookup
    <3>1. PICK s : s = Sheet
      OBVIOUS
    <3>2. max_trade_subscriptions \in Nat \ {0} /\ s \in Within(book.active, FALSE)
          /\ s.mints = book.mints /\ s.lookup = book.lookup
      BY <3>1, SheetFits
    <3>3. PICK e \in Within(book.active, FALSE) :
            /\ After(s, First(s, first)) = e
            /\ first \in e.lookup
            /\ s.lookup \subseteq ToSet(s.mints) => e.lookup \subseteq ToSet(e.mints)
            /\ first \in s.lookup \/ first = Head(s.mints) => s.lookup \subseteq e.lookup
      BY <2>2, <3>2, FirstHolds
    <3> QED
      BY <3>1, <3>2, <3>3
  <2>4. /\ stream' = "connecting"
        /\ book' = [mints |-> e.mints, lookup |-> e.lookup,
                    active |-> IF m = 0 THEN book.active ELSE m]
    BY <1>2, <1>5, <2>1, <2>3
  <2>5. /\ e.mints \in Seq(FeedMints) /\ e.lookup \subseteq FeedMints
        /\ Len(e.mints) <= max_trade_subscriptions
    BY <2>3 DEF Within, Sheets
  <2>6. book'.mints = e.mints /\ book'.lookup = e.lookup
        /\ book'.active = (IF m = 0 THEN book.active ELSE m)
    BY <2>4
  <2>7. BookTyped'
    <3>1. book' \in [mints: Seq(FeedMints), lookup: SUBSET FeedMints, active: 0..launches]
      BY <1>3, <2>4, <2>5
    <3> QED
      BY <1>1, <2>4, <3>1 DEF BookTyped, StreamSteps, Connected
  <2>8. ASSUME ~torn PROVE BookIsClean'
    <3>1. BookIsClean
      BY <2>8 DEF BookInv
    <3>2. e.lookup \subseteq ToSet(e.mints)
      BY <2>3, <3>1 DEF BookIsClean
    <3>3. book'.active \in book'.lookup \cup {0}
      BY <2>1, <2>3, <2>6, <3>1 DEF BookIsClean
    <3>4. CandidatesOnly => book'.active # 0
      BY <1>2, <2>6
    <3> QED
      BY <1>1, <2>4, <2>6, <3>2, <3>3, <3>4 DEF BookIsClean, CandidatesOnly, Connected
  <2> QED
    BY <1>1, <2>4, <2>5, <2>6, <2>7, <2>8 DEF BookInv
<1> QED
  BY <1>4, <1>5

\* ... or the first launch, which it has waited for.
LEMMA FirstKeepsBook ==
  ASSUME BookInv, first_launch
  PROVE  BookInv'
<1>1. /\ BookTyped /\ stream = "first" /\ hand = "none" /\ server = {}
      /\ stream' = "connecting" /\ subscription_queue # <<>>
      /\ subscription_queue' = Tail(subscription_queue)
      /\ UNCHANGED <<max_trade_subscriptions, launches, chosen, server, hand, told, torn>>
  BY DEF BookInv, BookTyped, Connected, first_launch, accessVars
<1>2. PICK m : m = Head(subscription_queue)
  OBVIOUS
<1>3. /\ m \in FeedMints /\ subscription_queue' \in Seq(FeedMints)
      /\ Len(subscription_queue') <= Backlog
  <2>1. subscription_queue \in Seq(FeedMints) /\ Len(subscription_queue) <= Backlog
        /\ Len(subscription_queue) \in Nat
    BY <1>1, LenProperties DEF BookTyped
  <2>2. m \in FeedMints /\ subscription_queue' \in Seq(FeedMints)
        /\ Len(subscription_queue') = Len(subscription_queue) - 1
    BY <1>1, <1>2, <2>1, HeadTailProperties
  <2> QED
    BY <2>1, <2>2, FeedConstants
<1>4. PICK e \in Within(book.active, FALSE) :
         /\ After(Sheet, First(Sheet, m)) = e
         /\ book.lookup \subseteq ToSet(book.mints) => e.lookup \subseteq ToSet(e.mints)
  <2>1. PICK a, s : a = book.active /\ s = Sheet
    OBVIOUS
  <2>2. /\ s \in Within(a, FALSE) /\ s.mints = book.mints /\ s.lookup = book.lookup
        /\ max_trade_subscriptions \in Nat \ {0}
    BY <2>1, SheetFits
  <2>3. \E e \in Within(a, FALSE) :
           /\ After(s, First(s, m)) = e
           /\ s.lookup \subseteq ToSet(s.mints) => e.lookup \subseteq ToSet(e.mints)
    BY <1>3, <2>2, FirstHolds
  <2> QED
    BY <2>1, <2>2, <2>3
<1>5. book' = [book EXCEPT !.mints = e.mints, !.lookup = e.lookup]
  BY <1>2, <1>4 DEF first_launch
<1>6. /\ e.mints \in Seq(FeedMints) /\ e.lookup \subseteq FeedMints
      /\ Len(e.mints) <= max_trade_subscriptions
  BY <1>4 DEF Within, Sheets
<1>7. /\ book' \in [mints: Seq(FeedMints), lookup: SUBSET FeedMints, active: 0..launches]
      /\ book'.mints = e.mints /\ book'.lookup = e.lookup /\ book'.active = book.active
  BY <1>1, <1>5, <1>6 DEF BookTyped
<1>8. BookTyped'
  BY <1>1, <1>3, <1>7 DEF BookTyped, StreamSteps, Connected
<1>9. ASSUME ~torn PROVE BookIsClean'
  <2>1. BookIsClean /\ Len(book.mints) = 0
    BY <1>1, <1>9 DEF BookInv
  <2>2. ToSet(book.mints) = {}
    BY <1>1, <2>1, LenProperties DEF ToSet, BookTyped
  <2>3. book.active = 0 /\ ~CandidatesOnly /\ e.lookup \subseteq ToSet(e.mints)
    BY <1>1, <1>4, <2>1, <2>2 DEF BookIsClean
  <2> QED
    BY <1>1, <1>7, <2>3 DEF BookIsClean, CandidatesOnly, Connected
<1> QED
  BY <1>1, <1>6, <1>7, <1>8, <1>9 DEF BookInv

\* Every mint of the queue is subscribed again.
LEMMA ConnectKeepsBook ==
  ASSUME BookInv, NEW succeeds \in BOOLEAN, connect(succeeds)
  PROVE  /\ BookInv'
         /\ CandidatesOnly /\ ~torn => server' \subseteq {book'.active}
<1>1. /\ BookTyped /\ stream = "connecting" /\ hand = "none" /\ server = {}
      /\ UNCHANGED <<max_trade_subscriptions, launches, subscription_queue, chosen, book, hand,
                     told, torn>>
  BY DEF BookInv, BookTyped, Connected, connect, accessVars
<1>2. \/ stream' = "connected" /\ server' = ToSet(book.mints)
      \/ stream' = "backoff" /\ server' = {}
  <2>1. CASE succeeds
    BY <2>1 DEF connect
  <2>2. CASE ~succeeds
    BY <1>1, <2>2 DEF connect
  <2> QED
    BY <2>1, <2>2
<1>3. book.mints \in Seq(FeedMints) /\ DOMAIN book.mints = 1..Len(book.mints)
      /\ Len(book.mints) \in Nat
  BY <1>1, LenProperties DEF BookTyped
<1>4. ToSet(book.mints) \subseteq FeedMints
  BY <1>3, ElementOfSeq DEF ToSet
<1>5. BookTyped'
  BY <1>1, <1>2, <1>4 DEF BookTyped, StreamSteps, Connected
<1>6. ~torn => BookIsClean'
  BY <1>1, <1>2 DEF BookInv, BookIsClean, CandidatesOnly, Connected
<1>7. ASSUME CandidatesOnly, ~torn PROVE ToSet(book.mints) \subseteq {book.active}
  <2>1. BookIsClean /\ Len(book.mints) <= 1
    BY <1>7 DEF BookInv, CandidatesOnly
  <2>2. CASE book.active = 0
    BY <1>3, <1>7, <2>1, <2>2 DEF BookIsClean, ToSet
  <2>3. CASE book.active # 0
    <3>1. book.active \in ToSet(book.mints)
      BY <2>1, <2>3 DEF BookIsClean
    <3>2. \A i \in 1..Len(book.mints) : i = 1
      BY <1>3, <2>1
    <3> QED
      BY <1>3, <3>1, <3>2 DEF ToSet
  <2> QED
    BY <2>2, <2>3
<1> QED
  BY <1>1, <1>2, <1>5, <1>6, <1>7 DEF BookInv

\* The book and the connection as a round that stops with the sheet s leaves them.
Broken(s) ==
    /\ book' = [mints |-> s.mints, lookup |-> s.lookup, active |-> s.active]
    /\ server' = {} /\ stream' = "backoff" /\ hand' = "none"
    /\ torn' = (torn \/ ~(s.lookup \subseteq ToSet(s.mints))
                     \/ s.active \notin s.lookup \cup {0})

\* ... and one that does not.
Goes(s, poll, event) ==
    /\ book' = [mints |-> s.mints, lookup |-> s.lookup, active |-> s.active]
    /\ server' = s.server
    /\ hand' = IF poll = "raises" THEN "none" ELSE event
    /\ stream' = IF hand' = "none" THEN "connected" ELSE "putting"
    /\ UNCHANGED <<torn, feed_counts>>

CandidatesAlone == CandidatesOnly /\ ~torn /\ book.active = 0

\* What a round leaves alone.
RoundKeeps ==
    /\ UNCHANGED <<max_trade_subscriptions, launches, chosen, told>>
    /\ subscription_queue' \in Seq(FeedMints) /\ Len(subscription_queue') <= Backlog

\* A book that breaks off is kept.
LEMMA BrokenKeepsBook ==
  ASSUME BookInv, RoundKeeps, NEW s \in Within(book.active, CandidatesAlone), Broken(s)
  PROVE  BookInv'
<1>1. /\ BookTyped /\ UNCHANGED <<max_trade_subscriptions, launches, chosen, told>>
      /\ s \in Sheets /\ s.active = book.active /\ Len(s.mints) <= max_trade_subscriptions
      /\ (CandidatesAlone => Len(s.mints) = 0)
  BY DEF BookInv, RoundKeeps, Within
<1>2. /\ book'.mints = s.mints /\ book'.lookup = s.lookup /\ book'.active = book.active
      /\ server' = {} /\ stream' = "backoff" /\ hand' = "none"
  BY <1>1 DEF Broken
<1>3. book' \in [mints: Seq(FeedMints), lookup: SUBSET FeedMints, active: 0..launches]
  BY <1>1 DEF Broken, Sheets, BookTyped
<1>4. torn' \in BOOLEAN
  BY <1>1 DEF Broken, BookTyped
<1>5. BookTyped'
  BY <1>1, <1>2, <1>3, <1>4 DEF BookTyped, RoundKeeps, StreamSteps, Connected, Events
<1>6. ASSUME ~torn' PROVE BookIsClean'
  <2>1. ~torn /\ s.lookup \subseteq ToSet(s.mints) /\ s.active \in s.lookup \cup {0}
    BY <1>6 DEF Broken
  <2>2. CandidatesOnly' = CandidatesOnly
    BY <1>1 DEF CandidatesOnly
  <2> QED
    BY <1>1, <1>2, <2>1, <2>2 DEF BookIsClean, CandidatesAlone, Connected
<1> QED
  BY <1>1, <1>2, <1>5, <1>6 DEF BookInv

\* A book that goes on is kept, where it was turned to a candidate there is.
LEMMA GoesKeepsBook ==
  ASSUME BookInv, RoundKeeps, NEW s, NEW e, NEW m \in 0..launches, NEW poll,
         NEW event \in Events, Turned(s, e, m), Streams(s),
         ~torn => Clean(s), Goes(e, poll, event)
  PROVE  BookInv'
<1>1. /\ BookTyped /\ UNCHANGED <<max_trade_subscriptions, launches, chosen, told, torn>>
      /\ e \in Sheets /\ e.active = m /\ Len(e.mints) <= max_trade_subscriptions
      /\ Streams(e)
  BY DEF BookInv, RoundKeeps, Turned, Within, Goes
<1>2. /\ book'.mints = e.mints /\ book'.lookup = e.lookup /\ book'.active = m
      /\ server' = e.server
  BY <1>1 DEF Goes
<1>3. hand' \in Events /\ stream' \in Connected /\ (hand' # "none" <=> stream' = "putting")
  BY DEF Goes, Events, Connected
<1>4. book' \in [mints: Seq(FeedMints), lookup: SUBSET FeedMints, active: 0..launches]
  BY <1>1 DEF Goes, Sheets
<1>5. server' \subseteq FeedMints /\ stream' \in StreamSteps /\ stream' # "first"
  BY <1>1, <1>2, <1>3 DEF Sheets, Connected, StreamSteps
<1>6. BookTyped'
  BY <1>1, <1>3, <1>4, <1>5 DEF BookTyped, RoundKeeps
<1>7. ASSUME ~torn' PROVE BookIsClean'
  <2>1. ~torn /\ Clean(s) /\ Clean(e)
    BY <1>1, <1>7 DEF Turned
  <2>2. CandidatesOnly' => CandidatesOnly
    BY <1>1 DEF CandidatesOnly
  <2>3. CandidatesOnly /\ m = 0 => Len(e.mints) = 0
    BY <2>1 DEF Turned
  <2>4. e.lookup \subseteq ToSet(e.mints) /\ e.lookup \subseteq e.server
        /\ e.active \in e.lookup \cup {0}
    BY <2>1 DEF Clean, Tidy
  <2> QED
    BY <1>1, <1>2, <1>5, <2>2, <2>3, <2>4 DEF BookIsClean
<1> QED
  BY <1>1, <1>2, <1>5, <1>6, <1>7 DEF BookInv, Streams

\* A launch is listened to where it may be.
LEMMA LaunchInRound ==
  ASSUME BookInv, stream = "connected", NEW launch \in BOOLEAN, launch => Listens,
         NEW launched,
         launched = IF launch THEN Launch(Sheet, Head(subscription_queue)) ELSE <<>>
  PROVE  \E middle \in Within(book.active, CandidatesAlone) :
            /\ Leads(Sheet, launched, middle, Within(book.active, CandidatesAlone))
            /\ Streams(middle)
            /\ ~torn => Clean(middle)
            /\ CandidatesOnly => middle.server = server
<1>1. PICK s : s = Sheet
  OBVIOUS
<1>2. /\ max_trade_subscriptions \in Nat \ {0} /\ s \in Within(book.active, FALSE)
      /\ s.mints = book.mints /\ s.lookup = book.lookup /\ s.active = book.active
      /\ s.server = server /\ Streams(s)
  BY <1>1, SheetFits
<1>3. ~torn => Clean(s)
  BY <1>2 DEF BookInv, BookIsClean, Clean, Tidy, Connected
<1>4. CASE ~launch
  <2>1. launched = <<>>
    BY <1>4
  <2>2. CandidatesAlone => Len(s.mints) = 0
    BY <1>2 DEF CandidatesAlone, BookInv, BookIsClean
  <2>3. s \in Within(book.active, CandidatesAlone)
    BY <1>2, <2>2 DEF Within
  <2> QED
    BY <1>1, <1>2, <1>3, <2>1, <2>3, LeadsNone
<1>5. CASE launch
  <2>1. PICK m : m = Head(subscription_queue)
    OBVIOUS
  <2>2. subscription_queue # <<>> /\ ~CandidatesOnly /\ ~(Full(s) /\ book.active # 0)
    BY <1>2, <1>5 DEF Listens, Full
  <2>3. m \in FeedMints
    BY <2>1, <2>2, HeadTailProperties DEF BookInv, BookTyped
  <2>4. launched = Launch(s, m)
    BY <1>1, <1>5, <2>1
  <2>5. PICK middle : middle = After(s, launched)
    OBVIOUS
  <2>6. /\ launched \in Seq(BookSteps) /\ StopsIn(s, launched, Within(book.active, FALSE))
        /\ middle \in Within(book.active, FALSE) /\ Streams(middle)
        /\ (Clean(s) => Clean(middle))
    BY <1>2, <2>2, <2>3, <2>4, <2>5, LaunchHolds
  <2>7. Within(book.active, CandidatesAlone) = Within(book.active, FALSE)
    BY <2>2 DEF Within, CandidatesAlone
  <2>8. Leads(s, launched, middle, Within(book.active, CandidatesAlone))
    BY <2>5, <2>6, <2>7 DEF Leads
  <2> QED
    BY <1>1, <1>3, <2>2, <2>6, <2>7, <2>8
<1> QED
  BY <1>4, <1>5

\* One round of the connected stream keeps the book, wherever it breaks off, and pays
\* for no one but the candidate where there is one subscription to spend.
LEMMA RoundKeepsBook ==
  ASSUME BookInv, NEW launch \in BOOLEAN, NEW poll \in {"none", "answers", "raises"},
         NEW event \in Events, poll_or_receive(launch, poll, event)
  PROVE  /\ BookInv'
         /\ CandidatesOnly /\ ~torn => server' \subseteq server \cup {book'.active}
<1>1. stream = "connected" /\ (launch => Listens)
  BY DEF poll_or_receive
<1>2. RoundKeeps
  <2>1. /\ UNCHANGED <<max_trade_subscriptions, launches, chosen, told>>
        /\ subscription_queue' = IF launch THEN Tail(subscription_queue) ELSE subscription_queue
    BY DEF poll_or_receive, accessVars
  <2>2. subscription_queue \in Seq(FeedMints) /\ Len(subscription_queue) <= Backlog
        /\ Len(subscription_queue) \in Nat
    BY LenProperties DEF BookInv, BookTyped
  <2>3. CASE launch
    <3>1. subscription_queue # <<>> /\ subscription_queue' = Tail(subscription_queue)
      BY <1>1, <2>1, <2>3 DEF Listens
    <3>2. subscription_queue' \in Seq(FeedMints)
          /\ Len(subscription_queue') = Len(subscription_queue) - 1
      BY <2>2, <3>1, HeadTailProperties
    <3>3. Len(subscription_queue') <= Backlog
      BY <2>2, <3>2, FeedConstants
    <3> QED
      BY <2>1, <3>2, <3>3 DEF RoundKeeps
  <2>4. CASE ~launch
    BY <2>1, <2>2, <2>4 DEF RoundKeeps
  <2> QED
    BY <2>3, <2>4
<1>3. PICK m, launched, middle, steps :
         /\ m = IF poll = "answers" THEN chosen ELSE book.active
         /\ launched = IF launch THEN Launch(Sheet, Head(subscription_queue)) ELSE <<>>
         /\ middle = After(Sheet, launched)
         /\ steps = launched \o (IF Raises(middle, m) THEN <<>> ELSE Preference(middle, m))
         /\ \/ \E k \in DOMAIN steps : /\ steps[k].do \in Sends
                                       /\ Broken(After(Sheet, SubSeq(steps, 1, k - 1)))
            \/ /\ Raises(middle, m)
               /\ Broken(After(Sheet, SubSeq(steps, 1, (Len(steps) + 1) - 1)))
            \/ /\ ~Raises(middle, m)
               /\ Goes(After(Sheet, steps), poll, event)
  <2>1. PICK m \in {IF poll = "answers" THEN chosen ELSE book.active},
             launched \in {IF launch THEN Launch(Sheet, Head(subscription_queue)) ELSE <<>>} :
        \E middle \in {After(Sheet, launched)} :
        \E steps \in {launched \o (IF Raises(middle, m) THEN <<>> ELSE Preference(middle, m))} :
           \/ /\ \E k \in DOMAIN steps : /\ steps[k].do \in Sends
                                         /\ Broken(After(Sheet, SubSeq(steps, 1, k - 1)))
              /\ Cut
           \/ /\ Raises(middle, m)
              /\ Broken(After(Sheet, SubSeq(steps, 1, (Len(steps) + 1) - 1)))
              /\ UNCHANGED feed_counts
           \/ /\ ~Raises(middle, m)
              /\ LET s == After(Sheet, steps)
                 IN  /\ book' = [mints |-> s.mints, lookup |-> s.lookup, active |-> s.active]
                     /\ server' = s.server
              /\ hand' = IF poll = "raises" THEN "none" ELSE event
              /\ stream' = IF hand' = "none" THEN "connected" ELSE "putting"
              /\ UNCHANGED <<torn, feed_counts>>
    BY ZenonT(30) DEF poll_or_receive, Broken
  <2>2. PICK middle \in {After(Sheet, launched)} :
        \E steps \in {launched \o (IF Raises(middle, m) THEN <<>> ELSE Preference(middle, m))} :
           \/ \E k \in DOMAIN steps : /\ steps[k].do \in Sends
                                      /\ Broken(After(Sheet, SubSeq(steps, 1, k - 1)))
           \/ /\ Raises(middle, m)
              /\ Broken(After(Sheet, SubSeq(steps, 1, (Len(steps) + 1) - 1)))
           \/ /\ ~Raises(middle, m)
              /\ LET s == After(Sheet, steps)
                 IN  /\ book' = [mints |-> s.mints, lookup |-> s.lookup, active |-> s.active]
                     /\ server' = s.server
              /\ hand' = IF poll = "raises" THEN "none" ELSE event
              /\ stream' = IF hand' = "none" THEN "connected" ELSE "putting"
              /\ UNCHANGED <<torn, feed_counts>>
    BY <2>1, ZenonT(30)
  <2>3. PICK steps \in {launched \o (IF Raises(middle, m) THEN <<>> ELSE Preference(middle, m))} :
           \/ \E k \in DOMAIN steps : /\ steps[k].do \in Sends
                                      /\ Broken(After(Sheet, SubSeq(steps, 1, k - 1)))
           \/ /\ Raises(middle, m)
              /\ Broken(After(Sheet, SubSeq(steps, 1, (Len(steps) + 1) - 1)))
           \/ /\ ~Raises(middle, m)
              /\ LET s == After(Sheet, steps)
                 IN  /\ book' = [mints |-> s.mints, lookup |-> s.lookup, active |-> s.active]
                     /\ server' = s.server
              /\ hand' = IF poll = "raises" THEN "none" ELSE event
              /\ stream' = IF hand' = "none" THEN "connected" ELSE "putting"
              /\ UNCHANGED <<torn, feed_counts>>
    BY <2>2, ZenonT(30)
  <2>4. CASE /\ ~Raises(middle, m)
             /\ LET s == After(Sheet, steps)
                IN  /\ book' = [mints |-> s.mints, lookup |-> s.lookup, active |-> s.active]
                    /\ server' = s.server
             /\ hand' = IF poll = "raises" THEN "none" ELSE event
             /\ stream' = IF hand' = "none" THEN "connected" ELSE "putting"
             /\ UNCHANGED <<torn, feed_counts>>
    <3>1. Goes(After(Sheet, steps), poll, event)
      BY <2>4 DEF Goes
    <3>2. /\ m = IF poll = "answers" THEN chosen ELSE book.active
          /\ launched = IF launch THEN Launch(Sheet, Head(subscription_queue)) ELSE <<>>
          /\ middle = After(Sheet, launched)
          /\ steps = launched \o (IF Raises(middle, m) THEN <<>> ELSE Preference(middle, m))
      BY ZenonT(30)
    <3> QED
      BY <2>4, <3>1, <3>2
  <2>5. /\ m = IF poll = "answers" THEN chosen ELSE book.active
        /\ launched = IF launch THEN Launch(Sheet, Head(subscription_queue)) ELSE <<>>
        /\ middle = After(Sheet, launched)
        /\ steps = launched \o (IF Raises(middle, m) THEN <<>> ELSE Preference(middle, m))
    BY ZenonT(30)
  <2> QED
    BY <2>3, <2>4, <2>5, ZenonT(30)
<1>4. m \in 0..launches /\ m \in 0..Launched
  BY <1>3, FeedConstants DEF BookInv, BookTyped
<1>5. PICK s : s = Sheet
  OBVIOUS
<1>6. /\ max_trade_subscriptions \in Nat \ {0} /\ s.server = server
  BY <1>5, SheetFits
<1>7. /\ middle \in Within(book.active, CandidatesAlone)
      /\ Leads(s, launched, middle, Within(book.active, CandidatesAlone))
      /\ Streams(middle)
      /\ ~torn => Clean(middle)
      /\ CandidatesOnly => middle.server = server
  <2>1. PICK d \in Within(book.active, CandidatesAlone) :
          /\ Leads(s, launched, d, Within(book.active, CandidatesAlone))
          /\ Streams(d)
          /\ ~torn => Clean(d)
          /\ CandidatesOnly => d.server = server
    BY <1>1, <1>3, <1>5, LaunchInRound
  <2>2. d = middle
    BY <1>3, <1>5, <2>1 DEF Leads
  <2> QED
    BY <2>1, <2>2
<1>8. PICK e : /\ Leads(middle, Preference(middle, m), e, Within(book.active, CandidatesAlone))
               /\ Turned(middle, e, m)
  BY <1>4, <1>6, <1>7, PreferenceHolds DEF CandidatesAlone
<1>9. PICK W : W = Within(book.active, CandidatesAlone)
  OBVIOUS
<1>10. CASE Raises(middle, m)
  <2>1. steps = launched /\ launched \in Seq(BookSteps)
    <3>1. launched \in Seq(BookSteps)
      BY <1>7 DEF Leads
    <3> QED
      BY <1>3, <1>10, <3>1, ConcatEmptySeq
  <2>2. StopsIn(s, steps, W) /\ After(s, steps) = middle /\ DOMAIN steps = 1..Len(steps)
        /\ Len(steps) \in Nat
    BY <1>7, <1>9, <2>1, LenProperties DEF Leads
  <2>3. SubSeq(steps, 1, (Len(steps) + 1) - 1) = steps
    <3>1. (Len(steps) + 1) - 1 = Len(steps)
      BY <2>2
    <3> QED
      BY <2>1, <3>1, SubSeqFull
  <2>4. PICK d \in W : Broken(d)
    <3>1. CASE \E k \in DOMAIN steps : /\ steps[k].do \in Sends
                                       /\ Broken(After(s, SubSeq(steps, 1, k - 1)))
      BY <2>2, <3>1 DEF StopsIn
    <3>2. CASE Broken(After(s, SubSeq(steps, 1, (Len(steps) + 1) - 1)))
      BY <1>7, <1>9, <2>2, <2>3, <3>2
    <3> QED
      BY <1>3, <1>5, <1>10, <3>1, <3>2
  <2>5. BookInv' /\ server' = {}
    BY <1>2, <1>9, <2>4, BrokenKeepsBook DEF Broken
  <2> QED
    BY <2>5
<1>11. CASE ~Raises(middle, m)
  <2>1. Leads(s, steps, e, W)
    BY <1>3, <1>7, <1>8, <1>9, <1>11, LeadsOn
  <2>2. StopsIn(s, steps, W) /\ After(s, steps) = e /\ DOMAIN steps = 1..Len(steps)
    BY <2>1, LenProperties DEF Leads
  <2>3. CASE \E k \in DOMAIN steps : /\ steps[k].do \in Sends
                                     /\ Broken(After(s, SubSeq(steps, 1, k - 1)))
    <3>1. PICK d \in W : Broken(d)
      BY <2>2, <2>3 DEF StopsIn
    <3>2. BookInv' /\ server' = {}
      BY <1>2, <1>9, <3>1, BrokenKeepsBook DEF Broken
    <3> QED
      BY <3>2
  <2>4. CASE Goes(e, poll, event)
    <3>1. BookInv'
      BY <1>2, <1>4, <1>7, <1>8, <2>4, GoesKeepsBook
    <3>2. server' = e.server /\ book'.active = m
      <4>1. e.active = m
        BY <1>8 DEF Turned, Within
      <4> QED
        BY <2>4, <4>1 DEF Goes
    <3>3. CandidatesOnly => e.server \subseteq server \cup {m}
      BY <1>7, <1>8 DEF Turned
    <3> QED
      BY <3>1, <3>2, <3>3
  <2> QED
    BY <1>3, <1>5, <1>11, <2>2, <2>3, <2>4
<1> QED
  BY <1>10, <1>11

\* What a step may pay for where there is one subscription to spend.
PaysForCandidates == CandidatesOnly /\ ~torn => server' \subseteq server \cup {book'.active}

\* A candidate that comes or goes is not looked at before the next poll.
LEMMA ChoiceKeepsBook ==
  ASSUME BookInv, NEW m \in 0..Launched, candidate_changes(m)
  PROVE  BookInv'
<1>1. /\ m \in 0..launches /\ chosen' = m
      /\ UNCHANGED <<max_trade_subscriptions, launches, subscription_queue, book, stream, server,
                     torn, hand, told>>
  BY DEF candidate_changes, streamVars, accessVars
<1> QED
  BY <1>1, BookKept DEF BookInv, BookTyped

\* A connection that is lost takes the server's streams with it, and leaves the book.
LEMMA LossKeepsBook ==
  ASSUME BookInv, connection_lost
  PROVE  BookInv' /\ server' = {}
<1>1. /\ stream = "connected" /\ stream' = "backoff" /\ server' = {}
      /\ UNCHANGED <<max_trade_subscriptions, launches, subscription_queue, chosen, book, torn,
                     hand, told>>
  BY DEF connection_lost, accessVars
<1>2. hand = "none"
  BY <1>1 DEF BookInv, BookTyped
<1>3. launches \in 0..Launched /\ launches <= launches
  BY FeedConstants DEF BookInv, BookTyped
<1> QED
  BY <1>1, <1>2, <1>3, BookKept DEF BookInv, BookTyped, StreamSteps, Connected

\* The backoff ends, and the loop starts over.
LEMMA BackoffKeepsBook ==
  ASSUME BookInv, backoff_is_over
  PROVE  BookInv'
<1>1. /\ stream = "backoff" /\ stream' = "top"
      /\ UNCHANGED <<max_trade_subscriptions, launches, subscription_queue, chosen, book, torn,
                     server, hand, told>>
  BY DEF backoff_is_over, accessVars
<1>2. hand = "none" /\ server = {}
  BY <1>1 DEF BookInv, BookTyped, Connected
<1>3. launches \in 0..Launched /\ launches <= launches
  BY FeedConstants DEF BookInv, BookTyped
<1> QED
  BY <1>1, <1>2, <1>3, BookKept DEF BookInv, BookTyped, StreamSteps, Connected

\* An event is handed over while the connection stands.
LEMMA IngestKeepsBook ==
  ASSUME BookInv, NEW saved \in BOOLEAN, ingest_source_event(saved)
  PROVE  BookInv'
<1>1. /\ stream = "putting" /\ stream' = "connected" /\ hand' = "none" /\ told' = hand
      /\ UNCHANGED <<max_trade_subscriptions, launches, subscription_queue, chosen, book, torn,
                     server>>
  BY DEF ingest_source_event
<1>2. launches \in 0..Launched /\ launches <= launches /\ hand \in Events
  BY FeedConstants DEF BookInv, BookTyped
<1> QED
  BY <1>1, <1>2, BookKept DEF BookInv, BookTyped, StreamSteps, Connected, Events

\* A new source task has a new book.
LEMMA RestartKeepsBook ==
  ASSUME BookInv, NEW cap \in Caps, FeedsRestart(cap)
  PROVE  BookInv' /\ server' = {}
<1>1. /\ book' = [mints |-> <<>>, lookup |-> {}, active |-> 0] /\ stream' = "top"
      /\ server' = {} /\ hand' = "none" /\ torn' = FALSE /\ subscription_queue' = <<>>
      /\ max_trade_subscriptions' \in Caps /\ UNCHANGED <<launches, chosen, told>>
  BY DEF FeedsRestart, NoBook
<1>2. <<>> \in Seq(FeedMints) /\ Len(<<>>) = 0
  OBVIOUS
<1>3. book'.mints = <<>> /\ book'.lookup = {} /\ book'.active = 0
  BY <1>1
<1>4. launches \in 0..Launched /\ chosen \in 0..launches /\ told \in Events /\ 0 \in 0..launches
  BY FeedConstants DEF BookInv, BookTyped
<1>5. book' \in [mints: Seq(FeedMints), lookup: SUBSET FeedMints, active: 0..launches]
  BY <1>1, <1>2, <1>4
<1>6. max_trade_subscriptions' \in Nat /\ 0 <= Backlog
  BY <1>1, FeedConstants
<1>7. BookTyped'
  BY <1>1, <1>2, <1>4, <1>5, <1>6 DEF BookTyped, StreamSteps, Connected, Events
<1>8. Len(book'.mints) = 0 /\ Len(book'.mints) <= max_trade_subscriptions'
  BY <1>2, <1>3, <1>6
<1>9. BookIsClean'
  BY <1>1, <1>3, <1>8 DEF BookIsClean, Connected
<1> QED
  BY <1>1, <1>7, <1>8, <1>9 DEF BookInv

\* The invariant is inductive, and no step pays for another than the candidate where
\* there is one subscription to spend.
LEMMA BookStep ==
  ASSUME BookInv, [FeedsNext]_feedVars
  PROVE  BookInv' /\ PaysForCandidates
<1>1. CASE _queue_trade_subscription
  <2>1. server' = server
    BY <1>1 DEF _queue_trade_subscription, streamVars
  <2> QED
    BY <1>1, <2>1, LaunchQueued DEF PaysForCandidates
<1>2. ASSUME NEW m \in 0..Launched, candidate_changes(m) PROVE BookInv' /\ PaysForCandidates
  <2>1. server' = server
    BY <1>2 DEF candidate_changes, streamVars
  <2> QED
    BY <1>2, <2>1, ChoiceKeepsBook DEF PaysForCandidates
<1>3. ASSUME NEW readable \in BOOLEAN, begin_connection(readable)
      PROVE  BookInv' /\ PaysForCandidates
  <2>1. server' = server
    BY <1>3 DEF begin_connection
  <2> QED
    BY <1>3, <2>1, BeginKeepsBook DEF PaysForCandidates
<1>4. CASE first_launch
  <2>1. server' = server
    BY <1>4 DEF first_launch
  <2> QED
    BY <1>4, <2>1, FirstKeepsBook DEF PaysForCandidates
<1>5. ASSUME NEW succeeds \in BOOLEAN, connect(succeeds) PROVE BookInv' /\ PaysForCandidates
  BY <1>5, ConnectKeepsBook DEF PaysForCandidates
<1>6. ASSUME NEW launch \in BOOLEAN, NEW poll \in {"none", "answers", "raises"},
             NEW event \in Events, poll_or_receive(launch, poll, event)
      PROVE  BookInv' /\ PaysForCandidates
  BY <1>6, RoundKeepsBook DEF PaysForCandidates
<1>7. CASE connection_lost
  BY <1>7, LossKeepsBook DEF PaysForCandidates
<1>8. CASE backoff_is_over
  <2>1. server' = server
    BY <1>8 DEF backoff_is_over
  <2> QED
    BY <1>8, <2>1, BackoffKeepsBook DEF PaysForCandidates
<1>9. ASSUME NEW saved \in BOOLEAN, ingest_source_event(saved) PROVE BookInv' /\ PaysForCandidates
  <2>1. server' = server
    BY <1>9 DEF ingest_source_event
  <2> QED
    BY <1>9, <2>1, IngestKeepsBook DEF PaysForCandidates
<1>10. ASSUME NEW cap \in Caps, FeedsRestart(cap) PROVE BookInv' /\ PaysForCandidates
  BY <1>10, RestartKeepsBook DEF PaysForCandidates
<1>11. CASE UNCHANGED feedVars
  BY <1>11 DEF feedVars, BookInv, BookTyped, BookIsClean, CandidatesOnly, PaysForCandidates
<1> QED
  BY <1>1, <1>2, <1>3, <1>4, <1>5, <1>6, <1>7, <1>8, <1>9, <1>10, <1>11 DEF FeedsNext

\* A book that is kept is within the cap, and streams the candidate it prefers.
LEMMA BookHolds == BookInv => PaidWithinCap /\ PreferredIsStreamed
  BY DEF BookInv, BookIsClean, Connected, PaidWithinCap, PreferredIsStreamed

\* Never more paid subscriptions than max_trade_subscriptions, none that the book has
\* lost sight of, the preferred candidate among them, and with one to spend none for
\* anyone else, at whichever send a round breaks off (_run_trade_stream).
THEOREM StreamHoldsAlways ==
    FeedsSpec => [](PaidWithinCap /\ PreferredIsStreamed) /\ CandidatesOnlyPays
<1>1. FeedsInit => BookInv
  BY BookInitially
<1>2. BookInv /\ [FeedsNext]_feedVars => BookInv'
  BY BookStep
<1>3. FeedsSpec => []BookInv
  BY <1>1, <1>2, PTL DEF FeedsSpec
<1>4. BookInv /\ [FeedsNext]_feedVars
      => [CandidatesOnly /\ ~torn => server' \subseteq server \cup {book'.active}]_feedVars
  BY BookStep DEF PaysForCandidates
<1>5. FeedsSpec => [](PaidWithinCap /\ PreferredIsStreamed)
  BY <1>3, BookHolds, PTL
<1>6. FeedsSpec => CandidatesOnlyPays
  BY <1>3, <1>4, PTL DEF FeedsSpec, CandidatesOnlyPays
<1> QED
  BY <1>5, <1>6

\* Every variable of the stream and of the access has its type, the events in their order.
THEOREM FeedsTyped == FeedsSpec => []FeedsTypeOK
<1>1. BookInv /\ AccessHasRow => FeedsTypeOK
  BY DEF BookInv, BookTyped, AccessHasRow, FeedsTypeOK, StreamSteps, Connected
<1>2. BookInv /\ [FeedsNext]_feedVars => BookInv'
  BY BookStep
<1> QED
  BY <1>1, <1>2, BookInitially, AccessInitially, AccessStep, PTL DEF FeedsSpec

\* The paid stream keeps to its subscriptions, streams the candidate it prefers, pays
\* for nothing else when it has one only, and its access is told as it is, for any
\* launches and settings (_run_trade_stream, ingest_source_event).
THEOREM FeedHoldsAlways == FeedsSpec => FeedHolds
<1>1. FeedsSpec => [](PaidWithinCap /\ PreferredIsStreamed /\ AccessIsTold)
  BY StreamHoldsAlways, AccessIsToldAlways, PTL
<1>2. FeedsSpec => CandidatesOnlyPays
  BY StreamHoldsAlways
<1> QED
  BY <1>1, <1>2 DEF FeedHolds

================================================================================
