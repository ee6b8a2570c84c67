---------------------------- MODULE SourceRuntime ----------------------------
(***************************************************************************)
(* The asyncio tasks that read the launch feed and the Solana log feed     *)
(* (backend/app/main.py): who creates them, who cancels them, and what may *)
(* change while a coroutine waits for a cancelled one.                     *)
(*                                                                         *)
(* One event loop runs everything, so an action stretches from one await   *)
(* to the next.  The awaits are the wait for cancelled tasks (at most one  *)
(* second), the naps of the queue drain and the sleep of the bot loop.     *)
(* The bot loop's calls of its three helpers are separate actions: requests*)
(* may come between them here, which adds behaviours and removes none.     *)
(***************************************************************************)
EXTENDS FiniteSets, Naturals

CONSTANTS
    Slots,      \* the feeds that are configured: "source", "logs"
    Tasks,      \* identities of asyncio tasks, free again when forgotten
    Settings,   \* values of the settings a source is made from (desired_key)
    Clients,    \* start and stop requests in flight
    BotLoop, None,
    MaxQueue    \* bound: events in launch_queue, which itself has no limit

Callers == Clients \cup {BotLoop}

ASSUME RuntimeAssumption ==
    /\ "source" \in Slots /\ Slots \subseteq {"source", "logs"}
    /\ BotLoop \notin Clients
    /\ None \notin Tasks \cup Settings
    /\ MaxQueue \in Nat

VARIABLES
    running,    \* state.status is running
    detect,     \* settings.detect_new_tokens
    settings,   \* for each feed, the settings it would be made from now
    source_task,\* source_task and solana_logs_task
    source_key, \* source_key and solana_logs_key
    task,       \* the tasks themselves
    status,     \* source_status.status and solana_logs_status.status
    caller,     \* where the bot loop and each request are
    queue       \* launch_queue.qsize()

vars == <<running, detect, settings, source_task, source_key, task, status, caller, queue>>

\* made: the settings its source was made from.  watched: it will report its
\* own failure (_source_task_callbacks).  told: its failure was reported.
TaskRow == [state: {"none", "live", "cancelling", "ended", "failed"}, slot: Slots,
            made: Settings \cup {None}, watched: BOOLEAN, told: BOOLEAN]
\* waits: the tasks a caller cancelled and waits for.  next: desired_key, read
\* before the wait, None when nothing replaces the task.
\* left: events the drain may still take.
CallerRow == [pc: {"idle", "ensure", "wait", "drain", "stopping"}, slot: Slots,
              waits: SUBSET Tasks, next: Settings \cup {None}, left: 0..MaxQueue]

Free == [state |-> "none", slot |-> "source", made |-> None, watched |-> FALSE, told |-> FALSE]
At(pc) == [pc |-> pc, slot |-> "source", waits |-> {}, next |-> None, left |-> 0]

TypeOK ==
    /\ running \in BOOLEAN /\ detect \in BOOLEAN
    /\ settings \in [Slots -> Settings]
    /\ source_task \in [Slots -> Tasks \cup {None}]
    /\ source_key \in [Slots -> Settings \cup {None}]
    /\ task \in [Tasks -> TaskRow]
    /\ status \in [Slots -> {"offline", "up", "error"}]
    /\ caller \in [Callers -> CallerRow]
    /\ queue \in 0..MaxQueue

Init ==
    /\ running = FALSE /\ detect = TRUE
    /\ \E k \in Settings : settings = [s \in Slots |-> k]
    /\ source_task = [s \in Slots |-> None] /\ source_key = [s \in Slots |-> None]
    /\ task = [t \in Tasks |-> Free]
    /\ status = [s \in Slots |-> "offline"]
    /\ caller = [c \in Callers |-> At("idle")]
    /\ queue = 0

-----------------------------------------------------------------------------
Alive(t) == task[t].state \in {"live", "cancelling"}
Done(t) == task[t].state \in {"ended", "failed"}
Held == {source_task[s] : s \in Slots} \cup UNION {caller[c].waits : c \in Callers}

\* Mutant: the coroutine waits for the task without having cancelled it.
NotCancelled(ts) == task
Cancelled(ts) ==
    [t \in Tasks |-> IF t \in ts /\ task[t].state = "live"
                     THEN [task[t] EXCEPT !.state = "cancelling"] ELSE task[t]]

\* Mutant: only the tasks that are still pending are looked at.
AfterWaitPendingOnly(ts) ==
    [t \in Tasks |-> IF t \in ts /\ Alive(t) THEN [task[t] EXCEPT !.watched = TRUE] ELSE task[t]]

\* The end of _cancel_and_wait_source_tasks: a failure is told, a task that is
\* still not done is watched.
AfterWait(ts) ==
    [t \in Tasks |-> IF t \in ts /\ Alive(t) THEN [task[t] EXCEPT !.watched = TRUE]
                     ELSE IF t \in ts /\ task[t].state = "failed" THEN [task[t] EXCEPT !.told = TRUE]
                     ELSE task[t]]


CreateTask(s, key, rows) ==
    \E t \in Tasks \ Held :
        /\ ~Alive(t)
        /\ task' = [rows EXCEPT ![t] = [Free EXCEPT !.state = "live", !.slot = s, !.made = settings[s]]]
        /\ source_task' = [source_task EXCEPT ![s] = t]
        /\ source_key' = [source_key EXCEPT ![s] = key]
        /\ status' = [status EXCEPT ![s] = "up"]

Forget(s) ==
    /\ source_task' = [source_task EXCEPT ![s] = None]
    /\ source_key' = [source_key EXCEPT ![s] = None]

GoOffline(s) == Forget(s) /\ status' = [status EXCEPT ![s] = "offline"]

\* source_event_drain_limit; the bound of 1000 events is far above MaxQueue.
\* Mutant: off by one.
OneTooMany(depth) == depth + 1
source_event_drain_limit(depth) == depth

\* Mutant: a source is current as long as it runs.
CurrentWhileAlive(s) == TRUE
KeyIsCurrent(s) == source_key[s] = settings[s]

\* Where caller c goes when the ensure of feed s returns: the bot loop passes
\* on to the log feed and then to drain_launch_queue, a start request is over.
Returns(c, s) ==
    caller' = [caller EXCEPT ![c] =
        IF c # BotLoop THEN At("idle")
        ELSE IF s = "source" /\ "logs" \in Slots THEN [At("ensure") EXCEPT !.slot = "logs"]
        ELSE [At("drain") EXCEPT !.left = source_event_drain_limit(queue)]]

\* ensure_source_task (s = "source") and ensure_solana_logs_task (s = "logs")
\* on behalf of c, up to the wait or to the end; run is state.status.
ensure_source_task(c, s, run) ==
    LET old == source_task[s]
        found == AfterWait({old})
        wanted == run /\ detect
    IN IF old = None \/ (old # None /\ Done(old))
       THEN /\ IF wanted THEN CreateTask(s, settings[s], found)
                         ELSE GoOffline(s) /\ task' = found
            /\ Returns(c, s)
       ELSE \/ /\ wanted /\ KeyIsCurrent(s)
               /\ Returns(c, s)
               /\ UNCHANGED <<source_task, source_key, task, status>>
            \/ /\ ~(wanted /\ KeyIsCurrent(s))
               /\ task' = Cancelled({old})
               /\ caller' = [caller EXCEPT ![c] =
                      [At("wait") EXCEPT !.slot = s, !.waits = {old},
                                         !.next = IF wanted THEN settings[s] ELSE None]]
               /\ UNCHANGED <<source_task, source_key, status>>


\* The wait is over: the task is done, or one second has passed.  Neither
\* state.status nor desired_key is read again.
ensure_source_task_resumes(c) ==
    /\ caller[c].pc = "wait"
    /\ LET s == caller[c].slot
           t == CHOOSE u \in caller[c].waits : TRUE
           rows == AfterWait(caller[c].waits)
       IN /\ \/ /\ ~Done(t)
                /\ status' = [status EXCEPT ![s] = "error"]
                /\ task' = rows
                /\ UNCHANGED <<source_task, source_key>>
             \/ /\ Done(t) /\ caller[c].next = None
                /\ GoOffline(s)
                /\ task' = rows
             \/ /\ Done(t) /\ caller[c].next # None
                /\ CreateTask(s, caller[c].next, rows)
          /\ Returns(c, s)
    /\ UNCHANGED <<running, detect, settings, queue>>

-----------------------------------------------------------------------------
(* The requests: /api/start, /api/stop (and the phone's stop), the watchdog's *)
(* /api/bot/recover and PATCH /api/settings.                                  *)
start(c) ==
    /\ caller[c].pc = "idle"
    /\ running' = TRUE
    /\ ensure_source_task(c, "source", TRUE)
    /\ UNCHANGED <<detect, settings, queue>>

recover_bot ==
    /\ running' = TRUE
    /\ UNCHANGED <<detect, settings, source_task, source_key, task, status, caller, queue>>

update_settings ==
    /\ \/ /\ \E k \in Settings : settings' = [settings EXCEPT !["source"] = k]
          /\ UNCHANGED detect
       \/ detect' = ~detect /\ UNCHANGED settings
    /\ UNCHANGED <<running, source_task, source_key, task, status, caller, queue>>

\* Mutant: a task that was cancelled counts as stopped.
NonePending(roots) == {}
Pending(roots) == {task[t].slot : t \in {u \in roots : Alive(u)}}

\* What stop_runtime_tasks does after its wait.  A feed whose task is done, or
\* that had none, is forgotten, whatever source_task is by now.
StopFinished(c, roots) ==
    LET pending == Pending(roots)
    IN /\ task' = AfterWait(roots)
       /\ source_task' = [s \in Slots |-> IF s \in pending THEN source_task[s] ELSE None]
       /\ source_key' = [s \in Slots |-> IF s \in pending THEN source_key[s] ELSE None]
       /\ status' = [s \in Slots |-> IF s \in pending THEN "error" ELSE "offline"]
       /\ queue' = 0
       /\ caller' = [caller EXCEPT ![c] = At("idle")]

stop(c) ==
    LET roots == {source_task[s] : s \in Slots} \ {None}
    IN /\ caller[c].pc = "idle"
       /\ running' = FALSE
       /\ \/ /\ \A t \in roots : Done(t)
             /\ StopFinished(c, roots)
          \/ /\ \E t \in roots : Alive(t)
             /\ task' = Cancelled(roots)
             /\ caller' = [caller EXCEPT ![c] = [At("stopping") EXCEPT !.waits = roots]]
             /\ UNCHANGED <<source_task, source_key, status, queue>>
       /\ UNCHANGED <<detect, settings>>

stop_runtime_tasks_resumes(c) ==
    /\ caller[c].pc = "stopping"
    /\ StopFinished(c, caller[c].waits)
    /\ UNCHANGED <<running, detect, settings>>

-----------------------------------------------------------------------------
(* bot_loop: ensure both feeds, drain the queue, sleep.                    *)
bot_loop ==
    /\ caller[BotLoop].pc = "idle"
    /\ ensure_source_task(BotLoop, "source", running)
    /\ UNCHANGED <<running, detect, settings, queue>>

ensure_solana_logs_task ==
    /\ caller[BotLoop].pc = "ensure"
    /\ ensure_source_task(BotLoop, "logs", running)
    /\ UNCHANGED <<running, detect, settings, queue>>

\* One event; the drain naps after some of them.  queue.get() waits while the
\* queue is empty, so the loop asks launch_queue.empty() first.
\* Mutant: the loop relies on the depth it read when it started.
NeverEmpty == FALSE
QueueIsEmpty == queue = 0

drain_launch_queue ==
    /\ caller[BotLoop].pc = "drain"
    /\ \/ /\ caller[BotLoop].left = 0 \/ QueueIsEmpty \/ ~running
          /\ caller' = [caller EXCEPT ![BotLoop] = At("idle")]
          /\ queue' = IF running THEN queue ELSE 0
       \/ /\ caller[BotLoop].left > 0 /\ ~QueueIsEmpty /\ running
          /\ queue > 0
          /\ queue' = queue - 1
          /\ caller' = [caller EXCEPT ![BotLoop].left = @ - 1]
    /\ UNCHANGED <<running, detect, settings, source_task, source_key, task, status>>

-----------------------------------------------------------------------------
(* The sources, from what main.py sees of them.                            *)
SourceEnds(t) ==
    /\ Alive(t)
    /\ \E result \in {"ended", "failed"} :
          task' = [task EXCEPT ![t].state = result,
                               ![t].told = (result = "failed" /\ task[t].watched)]
    /\ UNCHANGED <<running, detect, settings, source_task, source_key, status, caller, queue>>

SourceProduces(t) ==
    /\ task[t].state = "live" /\ queue < MaxQueue
    /\ queue' = queue + 1
    /\ UNCHANGED <<running, detect, settings, source_task, source_key, task, status, caller>>

Resume(c) == ensure_source_task_resumes(c) \/ stop_runtime_tasks_resumes(c)
Request == recover_bot \/ update_settings \/ \E c \in Clients : start(c) \/ stop(c)
Background ==
    \/ bot_loop \/ ensure_solana_logs_task \/ drain_launch_queue
    \/ \E c \in Callers : Resume(c)
    \/ \E t \in Tasks : SourceEnds(t) \/ SourceProduces(t)

Next == Background \/ Request

\* A patient operator sends no request while a coroutine waits for a cancelled
\* task, and leaves it to the bot loop to replace a source whose settings he
\* changed.  The code asks for neither: the runs under Spec show what happens
\* then.
Patient ==
    /\ \A c \in Callers : caller[c].pc \notin {"wait", "stopping"}
    /\ \A c \in Clients : caller'[c].pc # "wait"
PatientNext == Background \/ (Request /\ Patient)

Spec == Init /\ [][Next]_vars
PatientSpec == Init /\ [][PatientNext]_vars
\* The event loop runs the bot loop and every coroutine that can go on (a wait
\* lasts one second), and a source obeys its cancellation in the end.
Fairness ==
    /\ WF_vars(bot_loop) /\ WF_vars(ensure_solana_logs_task) /\ WF_vars(drain_launch_queue)
    /\ \A c \in Callers : WF_vars(Resume(c))
    /\ \A t \in Tasks : WF_vars(task[t].state = "cancelling" /\ SourceEnds(t))
FairSpec == Spec /\ Fairness

-----------------------------------------------------------------------------
\* A task that runs is the one its feed's variable names: nothing reads a feed
\* that stop and ensure could not find and cancel.
EverySourceIsTracked ==
    \A t \in Tasks : Alive(t) => source_task[task[t].slot] = t

\* A feed reported "offline", which is what restore and the other destructive
\* operations wait for, has no task left that writes events.
OfflineMeansStopped ==
    \A s \in Slots : status[s] = "offline" => \A t \in Tasks : task[t].slot = s => ~Alive(t)

\* The source that runs was made from the settings its key says, so that a
\* later change of them is noticed.
KeyTellsSettings ==
    \A s \in Slots : source_task[s] # None => task[source_task[s]].made = source_key[s]

\* The tasks that run are known, made from the settings they are said to be made
\* from, and gone where their feed is offline (ensure_source_task,
\* ensure_solana_logs_task, stop_runtime_tasks).
SourcesAreHeld == EverySourceIsTracked /\ OfflineMeansStopped /\ KeyTellsSettings

\* A task that failed and that no variable and no coroutine holds any more has
\* had its failure reported.
NoFailureIsLost ==
    \A t \in Tasks \ Held : task[t].state = "failed" => task[t].told

\* After stop, sources end, unless the bot is started again.
StopStopsSources == ~running ~> (running \/ \A t \in Tasks : ~Alive(t))

\* A bot that runs has a source made from its settings, again and again,
\* whatever fails in between, unless the operator changes something.
SourceComesUp ==
    \A k \in Settings :
        (running /\ detect /\ settings["source"] = k) ~>
            \/ ~running \/ ~detect \/ settings["source"] # k
            \/ /\ source_task["source"] # None /\ source_key["source"] = k
               /\ task[source_task["source"]].made = k

\* The bot loop is never stuck in a wait or in the drain of its queue.
BotLoopComesRound == (caller[BotLoop].pc # "idle") ~> (caller[BotLoop].pc = "idle")
=============================================================================
