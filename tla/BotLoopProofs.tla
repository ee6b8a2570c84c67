--------------------------- MODULE BotLoopProofs ---------------------------
(***************************************************************************)
(* Proofs about what the bot loop runs: its feeds (SourceRuntime), and the *)
(* paper positions it drains, ticks and sells (PaperTrading); and about    *)
(* the two as MCBotLoop puts them beside each other.                       *)
(***************************************************************************)
EXTENDS MCBotLoop, SequenceTheorems, FiniteSetTheorems, TLAPS

-----------------------------------------------------------------------------
(***************************************************************************)
(* For any feeds, tasks, settings and clients: with an operator who waits  *)
(* for his requests, the tasks that run are the ones the program holds,    *)
(* and no failure of one goes unreported.                                  *)
(*                                                                         *)
(* Neither is inductive.  A coroutine goes on after its wait with what it  *)
(* read before it, so the invariant says what is still true of that: of    *)
(* the task and of desired_key the bot loop waits with (BotLoopWaits), and *)
(* of the tasks a stop has cancelled (StopsAreWhole).                      *)
(***************************************************************************)

\* A feed's variable names a task of that feed.
TrackedAreOfSlot == \A s \in Slots : source_task[s] # None => task[source_task[s]].slot = s

\* Where a coroutine can be: a client that does not wait for a replacement is
\* never in ensure_source_task's wait, and the bot loop never stops anything.
CallersArePlaced ==
    /\ \A c \in Callers : caller[c].pc \notin {"wait", "stopping"} => caller[c].waits = {}
    /\ \A c \in Clients : caller[c].pc \in {"idle", "stopping"}
    /\ caller[BotLoop].pc # "stopping"
    /\ caller[BotLoop].pc = "ensure" => "logs" \in Slots

\* The bot loop waits for one task, which its feed's variable names unless a
\* stop has forgotten it, and the settings it read are still the settings.
BotLoopWaits ==
    caller[BotLoop].pc = "wait" =>
        /\ \E t \in Tasks : /\ caller[BotLoop].waits = {t}
                            /\ source_task[caller[BotLoop].slot] \in {t, None}
        /\ caller[BotLoop].next \in {None, settings[caller[BotLoop].slot]}

\* While a stop waits, the bot is not running, nothing is about to be created,
\* and every task a variable names is one of those the stop has cancelled.
StopsAreWhole ==
    \A c \in Clients : caller[c].pc = "stopping" =>
        /\ ~running
        /\ \A s \in Slots : source_task[s] \in caller[c].waits \cup {None}
        /\ caller[BotLoop].pc = "wait" => caller[BotLoop].next = None

\* What the tasks, the variables that name them and the statuses say together.
TasksHold == EverySourceIsTracked /\ OfflineMeansStopped /\ KeyTellsSettings /\ TrackedAreOfSlot

\* What is true of the coroutines that wait.
WaitsHold == CallersArePlaced /\ BotLoopWaits /\ StopsAreWhole

RuntimeInv == TypeOK /\ TasksHold /\ WaitsHold /\ NoFailureIsLost

-----------------------------------------------------------------------------
(* The operators of the model.                                             *)

\* The assumptions, in the form the steps below use them.
LEMMA RuntimeConstants ==
    /\ Slots \subseteq {"source", "logs"} /\ "source" \in Slots
    /\ BotLoop \in Callers /\ BotLoop \notin Clients /\ Clients \subseteq Callers
    /\ \A c \in Callers : c = BotLoop \/ c \in Clients
    /\ None \notin Tasks /\ None \notin Settings
    /\ MaxQueue \in Nat
  BY RuntimeAssumption DEF Callers

\* Held, now and after a step, is what a variable names or a coroutine waits for.
LEMMA HeldIs ==
    /\ \A t : t \in Held <=> \/ \E s \in Slots : source_task[s] = t
                             \/ \E c \in Callers : t \in caller[c].waits
    /\ \A t : t \in Held' <=> \/ \E s \in Slots : source_task'[s] = t
                              \/ \E c \in Callers : t \in caller'[c].waits
  BY DEF Held

\* Rows that say of each task what it is now, up to cancellation and reporting.
Alike(rows) ==
    /\ rows \in [Tasks -> TaskRow]
    /\ \A t \in Tasks : /\ rows[t].slot = task[t].slot /\ rows[t].made = task[t].made
                        /\ rows[t].state \in {"live", "cancelling"} <=> Alive(t)
                        /\ rows[t].state = "failed" <=> task[t].state = "failed"
                        /\ task[t].state = "failed" /\ task[t].told => rows[t].told

\* Cancelling some tasks changes nothing else of them.
LEMMA CancelledAlike ==
  ASSUME task \in [Tasks -> TaskRow], NEW ts
  PROVE  Alike(Cancelled(ts))
<1> SUFFICES ASSUME NEW t \in Tasks
             PROVE  /\ Cancelled(ts)[t] \in TaskRow
                    /\ Cancelled(ts)[t].slot = task[t].slot /\ Cancelled(ts)[t].made = task[t].made
                    /\ Cancelled(ts)[t].state \in {"live", "cancelling"} <=> Alive(t)
                    /\ Cancelled(ts)[t].state = "failed" <=> task[t].state = "failed"
                    /\ Cancelled(ts)[t].told = task[t].told
  BY DEF Alike, Cancelled
<1>1. task[t] \in TaskRow
  OBVIOUS
<1>2. CASE t \in ts /\ task[t].state = "live"
  <2>1. Cancelled(ts)[t] = [task[t] EXCEPT !.state = "cancelling"]
    BY <1>2 DEF Cancelled
  <2> QED
    BY <1>1, <1>2, <2>1 DEF TaskRow, Alive
<1>3. CASE ~(t \in ts /\ task[t].state = "live")
  <2>1. Cancelled(ts)[t] = task[t]
    BY <1>3 DEF Cancelled
  <2> QED
    BY <1>1, <2>1 DEF Alive
<1> QED
  BY <1>2, <1>3

\* Neither does the end of the wait, but that a failure is then told.
LEMMA AfterWaitAlike ==
  ASSUME task \in [Tasks -> TaskRow], NEW ts
  PROVE  /\ Alike(AfterWait(ts))
         /\ \A t \in Tasks : t \in ts /\ task[t].state = "failed" => AfterWait(ts)[t].told
<1> SUFFICES ASSUME NEW t \in Tasks
             PROVE  /\ AfterWait(ts)[t] \in TaskRow
                    /\ AfterWait(ts)[t].slot = task[t].slot /\ AfterWait(ts)[t].made = task[t].made
                    /\ AfterWait(ts)[t].state = task[t].state
                    /\ task[t].told => AfterWait(ts)[t].told
                    /\ t \in ts /\ task[t].state = "failed" => AfterWait(ts)[t].told
  BY DEF Alike, AfterWait, Alive
<1>1. task[t] \in TaskRow
  OBVIOUS
<1>2. CASE t \in ts /\ Alive(t)
  <2>1. AfterWait(ts)[t] = [task[t] EXCEPT !.watched = TRUE]
    BY <1>2 DEF AfterWait
  <2> QED
    BY <1>1, <1>2, <2>1 DEF TaskRow, Alive
<1>3. CASE t \in ts /\ task[t].state = "failed"
  <2>1. AfterWait(ts)[t] = [task[t] EXCEPT !.told = TRUE]
    BY <1>3 DEF AfterWait, Alive
  <2> QED
    BY <1>1, <1>3, <2>1 DEF TaskRow
<1>4. CASE ~(t \in ts /\ Alive(t)) /\ ~(t \in ts /\ task[t].state = "failed")
  <2>1. AfterWait(ts)[t] = task[t]
    BY <1>4 DEF AfterWait
  <2> QED
    BY <1>1, <1>4, <2>1
<1> QED
  BY <1>2, <1>3, <1>4

\* What a caller that has returned looks like; the others are where they were.
Back(c) ==
    /\ caller' \in [Callers -> CallerRow]
    /\ \A d \in Callers : d # c => caller'[d] = caller[d]
    /\ caller'[c].waits = {} /\ caller'[c].pc \in {"idle", "ensure", "drain"}
    /\ c # BotLoop => caller'[c].pc = "idle"
    /\ caller'[c].pc = "ensure" => "logs" \in Slots

\* The row At of a caller that waits for nothing.
LEMMA AtTyped ==
  ASSUME NEW pc \in {"idle", "ensure", "wait", "drain", "stopping"}
  PROVE  At(pc) \in CallerRow /\ At(pc).pc = pc /\ At(pc).waits = {}
BY RuntimeConstants DEF At, CallerRow

\* The ends of ensure_source_task leave the caller so.
LEMMA ReturnsBack ==
  ASSUME caller \in [Callers -> CallerRow], queue \in 0..MaxQueue,
         NEW c \in Callers, NEW s \in Slots, Returns(c, s)
  PROVE  Back(c)
<1> DEFINE row == IF c # BotLoop THEN At("idle")
                  ELSE IF s = "source" /\ "logs" \in Slots THEN [At("ensure") EXCEPT !.slot = "logs"]
                  ELSE [At("drain") EXCEPT !.left = source_event_drain_limit(queue)]
<1>1. /\ row \in CallerRow /\ row.waits = {} /\ row.pc \in {"idle", "ensure", "drain"}
      /\ c # BotLoop => row.pc = "idle"
      /\ row.pc = "ensure" => "logs" \in Slots
  <2>1. CASE c # BotLoop
    BY <2>1, AtTyped
  <2>2. CASE c = BotLoop /\ s = "source" /\ "logs" \in Slots
    BY <2>2, RuntimeConstants DEF At, CallerRow
  <2>3. CASE c = BotLoop /\ ~(s = "source" /\ "logs" \in Slots)
    BY <2>3, RuntimeConstants DEF At, CallerRow, source_event_drain_limit
  <2> QED
    BY <2>1, <2>2, <2>3
<1>2. caller' = [caller EXCEPT ![c] = row]
  BY DEF Returns
<1> HIDE DEF row
<1> QED
  BY <1>1, <1>2 DEF Back

-----------------------------------------------------------------------------
(* What happens to a feed and its tasks.                                   *)

\* The variables of the feeds are of their types.
FeedsTyped == /\ source_task \in [Slots -> Tasks \cup {None}]
              /\ source_key \in [Slots -> Settings \cup {None}]
              /\ task \in [Tasks -> TaskRow]
              /\ status \in [Slots -> {"offline", "up", "error"}]

FeedsHold == FeedsTyped /\ settings \in [Slots -> Settings] /\ TasksHold

\* A new task takes the place of one that is done, made from the settings of now.
LEMMA CreatedHolds ==
  ASSUME FeedsHold, UNCHANGED settings, NEW s \in Slots, NEW rows, Alike(rows),
         source_task[s] # None => ~Alive(source_task[s]),
         CreateTask(s, settings[s], rows)
  PROVE  FeedsHold'
<1>1. PICK t \in Tasks \ Held :
         /\ ~Alive(t)
         /\ task' = [rows EXCEPT ![t] = [Free EXCEPT !.state = "live", !.slot = s, !.made = settings[s]]]
         /\ source_task' = [source_task EXCEPT ![s] = t]
         /\ source_key' = [source_key EXCEPT ![s] = settings[s]]
         /\ status' = [status EXCEPT ![s] = "up"]
  BY DEF CreateTask
<1> DEFINE new == [Free EXCEPT !.state = "live", !.slot = s, !.made = settings[s]]
<1>2. /\ new \in TaskRow /\ new.state = "live" /\ new.slot = s /\ new.made = settings[s]
      /\ settings[s] \in Settings /\ t # None
  BY RuntimeConstants DEF FeedsHold, TaskRow, Free
<1> HIDE DEF new
<1>3. /\ task'[t] = new /\ \A u \in Tasks : u # t => task'[u] = rows[u]
      /\ task' \in [Tasks -> TaskRow]
  BY <1>1, <1>2 DEF Alike, new
<1>4. /\ source_task'[s] = t /\ \A z \in Slots : z # s => source_task'[z] = source_task[z]
      /\ source_key'[s] = settings[s] /\ \A z \in Slots : z # s => source_key'[z] = source_key[z]
      /\ status'[s] = "up" /\ \A z \in Slots : z # s => status'[z] = status[z]
  BY <1>1 DEF FeedsHold, FeedsTyped
<1>5. FeedsTyped'
  BY <1>1, <1>2, <1>3 DEF FeedsHold, FeedsTyped
<1>6. \A z \in Slots : source_task[z] # t
  BY <1>1, HeldIs
<1>7. \A u \in Tasks : u # t /\ Alive(u)' => Alive(u) /\ task[u].slot # s
  BY <1>3, RuntimeConstants DEF Alike, Alive, FeedsHold, TasksHold, EverySourceIsTracked
<1>8. EverySourceIsTracked'
  BY <1>2, <1>3, <1>4, <1>7 DEF Alike, FeedsHold, FeedsTyped, TaskRow, TasksHold, EverySourceIsTracked
<1>9. OfflineMeansStopped'
  BY <1>2, <1>3, <1>4, <1>7 DEF Alike, FeedsHold, TasksHold, OfflineMeansStopped
<1>10. KeyTellsSettings' /\ TrackedAreOfSlot'
  BY <1>2, <1>3, <1>4, <1>6
     DEF Alike, FeedsHold, FeedsTyped, TasksHold, KeyTellsSettings, TrackedAreOfSlot
<1> QED
  BY <1>5, <1>8, <1>9, <1>10 DEF FeedsHold, TasksHold

\* A feed whose task is done goes offline and forgets it.
LEMMA ForgottenHolds ==
  ASSUME FeedsHold, UNCHANGED settings, NEW s \in Slots, Alike(task'),
         source_task[s] # None => ~Alive(source_task[s]),
         GoOffline(s)
  PROVE  FeedsHold'
<1>1. /\ source_task'[s] = None /\ \A z \in Slots : z # s => source_task'[z] = source_task[z]
      /\ \A z \in Slots : z # s => source_key'[z] = source_key[z]
      /\ \A z \in Slots : z # s => status'[z] = status[z]
  BY DEF FeedsHold, FeedsTyped, GoOffline, Forget
<1>2. FeedsTyped'
  BY DEF FeedsHold, FeedsTyped, GoOffline, Forget, Alike
<1>3. \A u \in Tasks : Alive(u)' => Alive(u) /\ task[u].slot # s
  BY RuntimeConstants DEF Alike, Alive, FeedsHold, TasksHold, EverySourceIsTracked
<1>4. EverySourceIsTracked'
  BY <1>1, <1>3 DEF Alike, FeedsHold, FeedsTyped, TaskRow, TasksHold, EverySourceIsTracked
<1>5. OfflineMeansStopped'
  BY <1>1, <1>3 DEF Alike, FeedsHold, TasksHold, OfflineMeansStopped
<1>6. KeyTellsSettings' /\ TrackedAreOfSlot'
  BY <1>1 DEF Alike, FeedsHold, FeedsTyped, TasksHold, KeyTellsSettings, TrackedAreOfSlot
<1> QED
  BY <1>2, <1>4, <1>5, <1>6 DEF FeedsHold, TasksHold

\* Tasks that are cancelled, waited for or over, and feeds that report an error.
LEMMA MarkedHolds ==
  ASSUME FeedsHold, settings' \in [Slots -> Settings], task' \in [Tasks -> TaskRow],
         \A t \in Tasks : /\ task'[t].slot = task[t].slot /\ task'[t].made = task[t].made
                          /\ Alive(t)' => Alive(t),
         status' \in [Slots -> {"offline", "up", "error"}],
         \A s \in Slots : status'[s] = "offline" => status[s] = "offline",
         UNCHANGED <<source_task, source_key>>
  PROVE  FeedsHold'
<1>1. FeedsTyped'
  BY DEF FeedsHold, FeedsTyped
<1>2. EverySourceIsTracked'
  BY DEF FeedsHold, TasksHold, EverySourceIsTracked
<1>3. OfflineMeansStopped'
  BY DEF FeedsHold, TasksHold, OfflineMeansStopped
<1>4. KeyTellsSettings' /\ TrackedAreOfSlot'
  BY DEF FeedsHold, FeedsTyped, TasksHold, KeyTellsSettings, TrackedAreOfSlot
<1> QED
  BY <1>1, <1>2, <1>3, <1>4 DEF FeedsHold, TasksHold

\* No failure is lost where the tasks that are let go of were looked at.
LEMMA FailuresKept ==
  ASSUME NoFailureIsLost, NEW ts,
         \A t \in Tasks : task'[t].state = "failed" =>
            \/ /\ task[t].state = "failed" /\ (task[t].told => task'[t].told)
               /\ t \in ts => task'[t].told
            \/ t \in Held',
         \A t \in Tasks : t \in Held => t \in Held' \/ t \in ts \/ task[t].state # "failed"
  PROVE  NoFailureIsLost'
<1> SUFFICES ASSUME NEW t \in Tasks, t \notin Held', task'[t].state = "failed" PROVE task'[t].told
  BY DEF NoFailureIsLost
<1>1. /\ task[t].state = "failed" /\ (task[t].told => task'[t].told)
      /\ t \in ts => task'[t].told
  OBVIOUS
<1>2. CASE t \in Held
  BY <1>1, <1>2
<1>3. CASE t \notin Held
  BY <1>1, <1>3 DEF NoFailureIsLost
<1> QED
  BY <1>2, <1>3

-----------------------------------------------------------------------------
(* The coroutines.                                                         *)

\* A coroutine of the bot loop that returns, or any other while nobody waits.
LEMMA BackWaits ==
  ASSUME WaitsHold, NEW c \in Callers, Back(c), UNCHANGED settings,
         \/ \A d \in Callers : caller[d].pc \notin {"wait", "stopping"}
         \/ /\ c = BotLoop /\ UNCHANGED running
            /\ (\E d \in Clients : caller[d].pc = "stopping") =>
                  \A z \in Slots : source_task'[z] \in {source_task[z], None}
  PROVE  WaitsHold'
<1>1. CallersArePlaced'
  BY RuntimeConstants DEF WaitsHold, CallersArePlaced, Back
<1>2. caller'[BotLoop].pc # "wait"
  BY RuntimeConstants DEF Back
<1>3. BotLoopWaits'
  BY <1>2 DEF BotLoopWaits
<1>4. StopsAreWhole'
  <2> SUFFICES ASSUME NEW d \in Clients, caller'[d].pc = "stopping"
               PROVE  /\ ~running'
                      /\ \A s \in Slots : source_task'[s] \in caller'[d].waits \cup {None}
    BY <1>2 DEF StopsAreWhole
  <2>1. d # c /\ caller'[d] = caller[d] /\ caller[d].pc = "stopping"
    BY RuntimeConstants DEF Back
  <2> QED
    BY <2>1, RuntimeConstants DEF WaitsHold, StopsAreWhole
<1> QED
  BY <1>1, <1>3, <1>4 DEF WaitsHold

\* What the bot loop's wait and a request's return say together: the tasks that
\* are let go of are the feed's, and those the caller waited for.
LEMMA LetGo ==
  ASSUME NEW c \in Callers, NEW s \in Slots, Back(c) \/ UNCHANGED caller,
         \A z \in Slots : z # s => source_task'[z] = source_task[z]
  PROVE  \A t : t \in Held => t \in Held' \/ t \in caller[c].waits \/ t = source_task[s]
<1> SUFFICES ASSUME NEW t, t \in Held, t \notin caller[c].waits, t # source_task[s]
             PROVE  t \in Held'
  OBVIOUS
<1>1. CASE \E z \in Slots : source_task[z] = t
  BY <1>1, HeldIs
<1>2. CASE \E d \in Callers : t \in caller[d].waits
  BY <1>2, HeldIs DEF Back
<1> QED
  BY <1>1, <1>2, HeldIs

\* ensure_source_task and ensure_solana_logs_task, up to the wait or to the end:
\* the bot loop calls them with the running flag, a start request with TRUE and
\* never while anyone waits.
LEMMA EnsureKeeps ==
  ASSUME RuntimeInv, NEW c \in Callers, NEW s \in Slots, NEW run \in BOOLEAN,
         ensure_source_task(c, s, run), running' = run, UNCHANGED <<detect, settings, queue>>,
         caller[c].waits = {},
         \/ c = BotLoop /\ run = running
         \/ /\ \A d \in Callers : caller[d].pc \notin {"wait", "stopping"}
            /\ caller'[c].pc # "wait"
  PROVE  RuntimeInv'
<1> DEFINE old == source_task[s]
<1> DEFINE wanted == run /\ detect
<1>1. FeedsHold /\ TypeOK /\ WaitsHold /\ NoFailureIsLost
  BY DEF RuntimeInv, TypeOK, FeedsHold, FeedsTyped
<1>2. /\ caller \in [Callers -> CallerRow] /\ queue \in 0..MaxQueue
      /\ task \in [Tasks -> TaskRow] /\ settings \in [Slots -> Settings]
      /\ old \in Tasks \cup {None}
  BY DEF RuntimeInv, TypeOK
<1>3. FeedsHold' /\ caller' \in [Callers -> CallerRow] => TypeOK' /\ TasksHold'
  BY <1>1 DEF TypeOK, FeedsHold, FeedsTyped
<1>4. CASE old = None \/ (old # None /\ Done(old))
  <2>1. /\ \/ wanted /\ CreateTask(s, settings[s], AfterWait({old}))
           \/ ~wanted /\ GoOffline(s) /\ task' = AfterWait({old})
        /\ Returns(c, s)
    BY <1>4 DEF ensure_source_task
  <2>2. Alike(AfterWait({old}))
        /\ \A t \in Tasks : t \in {old} /\ task[t].state = "failed" => AfterWait({old})[t].told
    BY <1>2, AfterWaitAlike
  <2>3. Back(c)
    BY <1>2, <2>1, ReturnsBack
  <2>4. old # None => ~Alive(old)
    BY <1>4 DEF Done, Alive
  <2>5. FeedsHold'
    BY <1>1, <2>1, <2>2, <2>4, CreatedHolds, ForgottenHolds
  <2>6. \A z \in Slots : z # s => source_task'[z] = source_task[z]
    BY <1>1, <2>1 DEF CreateTask, GoOffline, Forget, FeedsHold, FeedsTyped
  <2>7. WaitsHold'
    <3>1. CASE \A d \in Callers : caller[d].pc \notin {"wait", "stopping"}
      BY <1>1, <2>3, <3>1, BackWaits
    <3>2. CASE c = BotLoop /\ run = running
      <4>1. (\E d \in Clients : caller[d].pc = "stopping") => ~wanted
        BY <1>1, <3>2 DEF WaitsHold, StopsAreWhole
      <4>2. ~wanted => \A z \in Slots : source_task'[z] \in {source_task[z], None}
        BY <1>1, <2>1, <2>6 DEF GoOffline, Forget, FeedsHold, FeedsTyped
      <4> QED
        BY <1>1, <2>3, <3>2, <4>1, <4>2, BackWaits
    <3> QED
      BY <3>1, <3>2
  <2>8. NoFailureIsLost'
    <3>1. \A t \in Tasks : t \in Held => t \in Held' \/ t \in {old}
      BY <2>3, <2>6, LetGo
    <3>2. \A t \in Tasks : task'[t].state = "failed" => task'[t] = AfterWait({old})[t]
      <4>1. CASE ~wanted
        BY <2>1, <4>1
      <4>2. CASE wanted
        <5>1. PICK t \in Tasks : task' = [AfterWait({old}) EXCEPT ![t] =
                                   [Free EXCEPT !.state = "live", !.slot = s, !.made = settings[s]]]
          BY <2>1, <4>2 DEF CreateTask
        <5> QED
          BY <2>2, <5>1 DEF Free, Alike
      <4> QED
        BY <4>1, <4>2
    <3>3. \A t \in Tasks : task'[t].state = "failed" =>
            /\ task[t].state = "failed" /\ (task[t].told => task'[t].told)
            /\ t \in {old} => task'[t].told
      BY <2>2, <3>2 DEF Alike
    <3> HIDE DEF old
    <3> QED
      BY <1>1, <3>1, <3>3, FailuresKept
  <2> QED
    BY <1>3, <2>3, <2>5, <2>7, <2>8 DEF RuntimeInv, Back
<1>5. CASE /\ old # None /\ ~Done(old)
           /\ wanted /\ KeyIsCurrent(s) /\ Returns(c, s)
           /\ UNCHANGED <<source_task, source_key, task, status>>
  <2>1. Back(c)
    BY <1>2, <1>5, ReturnsBack
  <2>2. FeedsHold'
    BY <1>1, <1>5, MarkedHolds DEF FeedsHold, FeedsTyped, Alive
  <2>3. WaitsHold'
    BY <1>1, <1>5, <2>1, BackWaits
  <2>4. \A t \in Tasks : t \in Held => t \in Held'
    BY <1>5, <2>1, LetGo, HeldIs
  <2>5. NoFailureIsLost'
    BY <1>1, <1>5, <2>4 DEF NoFailureIsLost
  <2> QED
    BY <1>3, <2>1, <2>2, <2>3, <2>5 DEF RuntimeInv, Back
<1>6. CASE /\ old # None /\ ~Done(old)
           /\ ~(wanted /\ KeyIsCurrent(s))
           /\ task' = Cancelled({old})
           /\ caller' = [caller EXCEPT ![c] =
                 [At("wait") EXCEPT !.slot = s, !.waits = {old},
                                    !.next = IF wanted THEN settings[s] ELSE None]]
           /\ UNCHANGED <<source_task, source_key, status>>
  <2> DEFINE row == [At("wait") EXCEPT !.slot = s, !.waits = {old},
                                       !.next = IF wanted THEN settings[s] ELSE None]
  <2>1. /\ row \in CallerRow /\ row.pc = "wait" /\ row.slot = s /\ row.waits = {old}
        /\ row.next \in {None, settings[s]} /\ (~wanted => row.next = None)
    <3> DEFINE next == IF wanted THEN settings[s] ELSE None
    <3>1. old \in Tasks /\ next \in {None, settings[s]} /\ next \in Settings \cup {None}
          /\ (~wanted => next = None)
      BY <1>2, <1>6
    <3> HIDE DEF next, wanted, old
    <3>2. At("wait") \in CallerRow /\ At("wait").pc = "wait"
      BY AtTyped
    <3>3. row = [At("wait") EXCEPT !.slot = s, !.waits = {old}, !.next = next]
      BY DEF row, next
    <3> HIDE DEF row
    <3> QED
      BY <3>1, <3>2, <3>3 DEF CallerRow
  <2> HIDE DEF row
  <2>2. /\ caller' \in [Callers -> CallerRow] /\ caller'[c] = row
        /\ \A d \in Callers : d # c => caller'[d] = caller[d]
    BY <1>2, <1>6, <2>1 DEF row
  <2>3. c = BotLoop /\ run = running
    BY <2>1, <2>2
  <2>4. Alike(task')
    BY <1>2, <1>6, CancelledAlike
  <2>5. FeedsHold'
    BY <1>1, <1>6, <2>4, MarkedHolds DEF FeedsHold, FeedsTyped, Alive, Alike
  <2>6. CallersArePlaced'
    BY <1>1, <2>1, <2>2, <2>3, RuntimeConstants DEF WaitsHold, CallersArePlaced
  <2>7. BotLoopWaits'
    BY <1>2, <1>6, <2>1, <2>2, <2>3 DEF BotLoopWaits
  <2>8. StopsAreWhole'
    <3> SUFFICES ASSUME NEW d \in Clients, caller'[d].pc = "stopping"
                 PROVE  /\ ~running'
                        /\ \A z \in Slots : source_task'[z] \in caller'[d].waits \cup {None}
                        /\ caller'[BotLoop].next = None
      BY DEF StopsAreWhole
    <3>1. caller'[d] = caller[d] /\ caller[d].pc = "stopping"
      BY <2>2, <2>3, RuntimeConstants
    <3>2. ~running /\ \A z \in Slots : source_task[z] \in caller[d].waits \cup {None}
      BY <1>1, <3>1 DEF WaitsHold, StopsAreWhole
    <3>3. ~wanted
      BY <2>3, <3>2
    <3> QED
      BY <1>6, <2>1, <2>2, <2>3, <3>1, <3>2, <3>3
  <2>9. NoFailureIsLost'
    <3>1. \A t \in Tasks : t \in Held => t \in Held'
      BY <1>6, <2>2, HeldIs
    <3> QED
      BY <1>1, <2>4, <3>1 DEF NoFailureIsLost, Alike
  <2> QED
    BY <1>3, <2>2, <2>5, <2>6, <2>7, <2>8, <2>9 DEF RuntimeInv, WaitsHold
<1> QED
  BY <1>4, <1>5, <1>6 DEF ensure_source_task

\* The wait is over.
LEMMA ResumeKeeps ==
  ASSUME RuntimeInv, NEW c \in Callers, ensure_source_task_resumes(c)
  PROVE  RuntimeInv'
<1>1. FeedsHold /\ TypeOK /\ WaitsHold /\ NoFailureIsLost
  BY DEF RuntimeInv, TypeOK, FeedsHold, FeedsTyped
<1>2. c = BotLoop /\ caller[c].pc = "wait" /\ UNCHANGED <<running, detect, settings, queue>>
  BY <1>1, RuntimeConstants DEF ensure_source_task_resumes, WaitsHold, CallersArePlaced
<1> DEFINE s == caller[c].slot
<1>3. PICK t \in Tasks : /\ caller[c].waits = {t} /\ source_task[s] \in {t, None}
                         /\ caller[c].next \in {None, settings[s]}
  BY <1>1, <1>2 DEF WaitsHold, BotLoopWaits
<1>4. /\ caller \in [Callers -> CallerRow] /\ queue \in 0..MaxQueue
      /\ task \in [Tasks -> TaskRow] /\ settings \in [Slots -> Settings] /\ s \in Slots
      /\ settings[s] # None /\ t # None
  <2>1. /\ caller \in [Callers -> CallerRow] /\ queue \in 0..MaxQueue
        /\ task \in [Tasks -> TaskRow] /\ settings \in [Slots -> Settings]
    BY <1>1 DEF TypeOK
  <2>2. caller[c].slot \in Slots
    BY <2>1 DEF CallerRow
  <2> QED
    BY <2>1, <2>2, RuntimeConstants
<1>5. /\ \/ ~Done(t) /\ status' = [status EXCEPT ![s] = "error"] /\ task' = AfterWait({t})
            /\ UNCHANGED <<source_task, source_key>>
         \/ Done(t) /\ GoOffline(s) /\ task' = AfterWait({t})
         \/ Done(t) /\ caller[c].next # None /\ CreateTask(s, settings[s], AfterWait({t}))
      /\ Returns(c, s)
  <2>1. (CHOOSE u \in caller[c].waits : TRUE) = t
    BY <1>3
  <2> QED
    BY <1>3, <2>1 DEF ensure_source_task_resumes
<1> HIDE DEF s
<1>6. Alike(AfterWait({t}))
      /\ \A u \in Tasks : u \in {t} /\ task[u].state = "failed" => AfterWait({t})[u].told
  BY <1>4, AfterWaitAlike
<1>7. Back(c)
  BY <1>4, <1>5, ReturnsBack
<1>8. Done(t) => (source_task[s] # None => ~Alive(source_task[s]))
  BY <1>3 DEF Done, Alive
<1>9. FeedsHold'
  <2>1. CASE ~Done(t) /\ status' = [status EXCEPT ![s] = "error"] /\ task' = AfterWait({t})
             /\ UNCHANGED <<source_task, source_key>>
    <3>1. status' \in [Slots -> {"offline", "up", "error"}]
          /\ \A z \in Slots : status'[z] = "offline" => status[z] = "offline"
      BY <1>1, <1>4, <2>1 DEF FeedsHold, FeedsTyped
    <3> QED
      BY <1>1, <1>2, <1>4, <1>6, <2>1, <3>1, MarkedHolds DEF Alike, Alive
  <2>2. CASE Done(t) /\ GoOffline(s) /\ task' = AfterWait({t})
    BY <1>1, <1>2, <1>4, <1>6, <1>8, <2>2, ForgottenHolds
  <2>3. CASE Done(t) /\ caller[c].next # None /\ CreateTask(s, settings[s], AfterWait({t}))
    BY <1>1, <1>2, <1>4, <1>6, <1>8, <2>3, CreatedHolds
  <2> QED
    BY <1>5, <2>1, <2>2, <2>3
<1>10. \A z \in Slots : z # s => source_task'[z] = source_task[z]
  BY <1>1, <1>5 DEF CreateTask, GoOffline, Forget, FeedsHold, FeedsTyped
<1>11. WaitsHold'
  <2>1. (\E d \in Clients : caller[d].pc = "stopping") => caller[c].next = None
    BY <1>1, <1>2 DEF WaitsHold, StopsAreWhole
  <2>2. caller[c].next = None => \A z \in Slots : source_task'[z] \in {source_task[z], None}
    BY <1>1, <1>5, <1>10 DEF GoOffline, Forget, FeedsHold, FeedsTyped
  <2> QED
    BY <1>1, <1>2, <1>7, <2>1, <2>2, BackWaits
<1>12. NoFailureIsLost'
  <2>1. \A u \in Tasks : u \in Held => u \in Held' \/ u \in {t}
    BY <1>3, <1>4, <1>7, <1>10, LetGo, RuntimeConstants
  <2>2. \A u \in Tasks : task'[u].state = "failed" => task'[u] = AfterWait({t})[u]
    <3>1. CASE CreateTask(s, settings[s], AfterWait({t}))
      <4>1. PICK n \in Tasks : task' = [AfterWait({t}) EXCEPT ![n] =
                                 [Free EXCEPT !.state = "live", !.slot = s, !.made = settings[s]]]
        BY <3>1 DEF CreateTask
      <4> QED
        BY <1>6, <4>1 DEF Free, Alike
    <3> QED
      BY <1>5, <3>1
  <2>3. \A u \in Tasks : task'[u].state = "failed" =>
          /\ task[u].state = "failed" /\ (task[u].told => task'[u].told)
          /\ u \in {t} => task'[u].told
    BY <1>6, <2>2 DEF Alike
  <2> QED
    BY <1>1, <2>1, <2>3, FailuresKept
<1>13. TypeOK' /\ TasksHold'
  BY <1>1, <1>2, <1>7, <1>9 DEF TypeOK, FeedsHold, FeedsTyped, Back
<1> QED
  BY <1>11, <1>12, <1>13 DEF RuntimeInv

\* The end of a stop: the feeds whose tasks are done are forgotten.
LEMMA StopFinishedKeeps ==
  ASSUME RuntimeInv, NEW c \in Clients, NEW roots, StopFinished(c, roots),
         running' = FALSE, UNCHANGED <<detect, settings>>,
         \A s \in Slots : source_task[s] \in roots \cup {None},
         caller[c].waits \subseteq roots,
         \/ \A d \in Callers : caller[d].pc \notin {"wait", "stopping"}
         \/ caller[c].pc = "stopping"
  PROVE  RuntimeInv'
<1>1. FeedsHold /\ TypeOK /\ WaitsHold /\ NoFailureIsLost
  BY DEF RuntimeInv, TypeOK, FeedsHold, FeedsTyped
<1>2. /\ caller \in [Callers -> CallerRow] /\ task \in [Tasks -> TaskRow] /\ c \in Callers
      /\ c # BotLoop
  BY <1>1, RuntimeConstants DEF TypeOK
<1>3. Alike(task') /\ \A t \in Tasks : t \in roots /\ task[t].state = "failed" => task'[t].told
  BY <1>2, AfterWaitAlike DEF StopFinished
<1>4. Back(c)
  BY <1>2, AtTyped, RuntimeConstants DEF StopFinished, Back
<1> DEFINE pending == Pending(roots)
<1>5. /\ source_task' = [s \in Slots |-> IF s \in pending THEN source_task[s] ELSE None]
      /\ source_key' = [s \in Slots |-> IF s \in pending THEN source_key[s] ELSE None]
      /\ status' = [s \in Slots |-> IF s \in pending THEN "error" ELSE "offline"]
      /\ queue' = 0
  BY DEF StopFinished
<1>6. \A t \in Tasks : Alive(t)' =>
         Alive(t) /\ source_task[task[t].slot] = t /\ task[t].slot \in pending /\ task[t].slot \in Slots
  <2> SUFFICES ASSUME NEW t \in Tasks, Alive(t)'
               PROVE  Alive(t) /\ source_task[task[t].slot] = t /\ task[t].slot \in pending
                      /\ task[t].slot \in Slots
    OBVIOUS
  <2>1. Alive(t) /\ task[t].slot \in Slots
    BY <1>2, <1>3 DEF Alike, Alive, TaskRow
  <2>2. source_task[task[t].slot] = t
    BY <1>1, <2>1 DEF FeedsHold, TasksHold, EverySourceIsTracked
  <2>3. t \in roots
    BY <2>1, <2>2, RuntimeConstants
  <2> QED
    BY <2>1, <2>2, <2>3 DEF Pending
<1> HIDE DEF pending
<1>7. FeedsTyped'
  BY <1>1, <1>3, <1>5 DEF FeedsHold, FeedsTyped, Alike
<1>8. EverySourceIsTracked' /\ OfflineMeansStopped'
  BY <1>3, <1>5, <1>6 DEF EverySourceIsTracked, OfflineMeansStopped, Alike
<1>9. KeyTellsSettings' /\ TrackedAreOfSlot'
  BY <1>1, <1>3, <1>5 DEF KeyTellsSettings, TrackedAreOfSlot, FeedsHold, FeedsTyped, TasksHold, Alike
<1>10. WaitsHold'
  <2>1. CASE \A d \in Callers : caller[d].pc \notin {"wait", "stopping"}
    BY <1>1, <1>2, <1>4, <2>1, BackWaits
  <2>2. CASE caller[c].pc = "stopping"
    <3>1. \A z \in Slots : source_task'[z] \in {source_task[z], None}
      BY <1>5
    <3>2. caller'[BotLoop] = caller[BotLoop] /\ ~running'
      BY <1>2, <1>4, RuntimeConstants DEF Back
    <3>3. CallersArePlaced'
      BY <1>1, <1>4, RuntimeConstants DEF WaitsHold, CallersArePlaced, Back
    <3>4. BotLoopWaits'
      <4> SUFFICES ASSUME caller[BotLoop].pc = "wait"
                   PROVE  /\ \E t \in Tasks : /\ caller[BotLoop].waits = {t}
                                              /\ source_task'[caller[BotLoop].slot] \in {t, None}
                          /\ caller[BotLoop].next \in {None, settings[caller[BotLoop].slot]}
        BY <3>2 DEF BotLoopWaits
      <4>1. caller[BotLoop].slot \in Slots
        BY <1>2, RuntimeConstants DEF CallerRow
      <4> QED
        BY <1>1, <3>1, <4>1 DEF WaitsHold, BotLoopWaits
    <3>5. StopsAreWhole'
      <4> SUFFICES ASSUME NEW d \in Clients, caller'[d].pc = "stopping"
                   PROVE  /\ \A s \in Slots : source_task'[s] \in caller'[d].waits \cup {None}
                          /\ caller'[BotLoop].pc = "wait" => caller'[BotLoop].next = None
        BY <3>2 DEF StopsAreWhole
      <4>1. caller'[d] = caller[d]
        BY <1>2, <1>4, RuntimeConstants DEF Back
      <4> QED
        BY <1>1, <3>1, <3>2, <4>1 DEF WaitsHold, StopsAreWhole
    <3> QED
      BY <3>3, <3>4, <3>5 DEF WaitsHold
  <2> QED
    BY <2>1, <2>2
<1>11. NoFailureIsLost'
  <2>1. \A t \in Tasks : t \in Held => t \in Held' \/ t \in roots
    <3> SUFFICES ASSUME NEW t \in Tasks, t \in Held, t \notin roots PROVE t \in Held'
      OBVIOUS
    <3>1. PICK d \in Callers : t \in caller[d].waits
      BY HeldIs, RuntimeConstants
    <3>2. d # c /\ caller'[d] = caller[d]
      BY <1>4, <3>1 DEF Back
    <3> QED
      BY <3>1, <3>2, HeldIs
  <2> QED
    BY <1>1, <1>3, <2>1, FailuresKept DEF Alike
<1>12. TypeOK'
  <2>1. queue' \in 0..MaxQueue
    BY <1>5, RuntimeConstants
  <2> QED
    BY <1>1, <1>4, <1>7, <2>1 DEF TypeOK, FeedsTyped, Back
<1> QED
  BY <1>8, <1>9, <1>10, <1>11, <1>12 DEF RuntimeInv, TasksHold

\* A stop that has tasks to wait for cancels all of them at once.
LEMMA StopBeginsKeeps ==
  ASSUME RuntimeInv, NEW c \in Clients, NEW roots,
         roots = {source_task[s] : s \in Slots} \ {None},
         \A d \in Callers : caller[d].pc \notin {"wait", "stopping"},
         task' = Cancelled(roots),
         caller' = [caller EXCEPT ![c] = [At("stopping") EXCEPT !.waits = roots]],
         running' = FALSE,
         UNCHANGED <<source_task, source_key, status, queue, detect, settings>>
  PROVE  RuntimeInv'
<1>1. FeedsHold /\ TypeOK /\ WaitsHold /\ NoFailureIsLost
  BY DEF RuntimeInv, TypeOK, FeedsHold, FeedsTyped
<1>2. /\ caller \in [Callers -> CallerRow] /\ task \in [Tasks -> TaskRow] /\ c \in Callers
      /\ c # BotLoop /\ roots \subseteq Tasks
      /\ \A s \in Slots : source_task[s] \in roots \cup {None}
  BY <1>1, RuntimeConstants DEF TypeOK
<1> DEFINE row == [At("stopping") EXCEPT !.waits = roots]
<1>3. row \in CallerRow /\ row.pc = "stopping" /\ row.waits = roots
  <2>1. At("stopping") \in CallerRow /\ At("stopping").pc = "stopping"
    BY AtTyped
  <2> QED
    BY <1>2, <2>1 DEF CallerRow
<1> HIDE DEF row
<1>4. /\ caller' \in [Callers -> CallerRow] /\ caller'[c] = row
      /\ \A d \in Callers : d # c => caller'[d] = caller[d]
  BY <1>2, <1>3 DEF row
<1>5. Alike(task')
  BY <1>2, CancelledAlike
<1>6. FeedsHold'
  BY <1>1, <1>5, MarkedHolds DEF FeedsHold, FeedsTyped, Alive, Alike
<1>7. CallersArePlaced'
  BY <1>1, <1>2, <1>3, <1>4, RuntimeConstants DEF WaitsHold, CallersArePlaced
<1>8. caller'[BotLoop].pc # "wait"
  BY <1>2, <1>4, RuntimeConstants
<1>9. BotLoopWaits'
  BY <1>8 DEF BotLoopWaits
<1>10. StopsAreWhole'
  <2> SUFFICES ASSUME NEW d \in Clients, caller'[d].pc = "stopping"
               PROVE  \A s \in Slots : source_task'[s] \in caller'[d].waits \cup {None}
    BY <1>8 DEF StopsAreWhole
  <2>1. d = c
    BY <1>4, RuntimeConstants
  <2> QED
    BY <1>2, <1>3, <1>4, <2>1
<1>11. NoFailureIsLost'
  <2>1. \A t \in Tasks : t \in Held => t \in Held'
    <3>1. caller[c].waits = {}
      BY <1>1, <1>2 DEF WaitsHold, CallersArePlaced
    <3> QED
      BY <1>4, <3>1, HeldIs
  <2> QED
    BY <1>1, <1>5, <2>1 DEF NoFailureIsLost, Alike
<1> QED
  BY <1>1, <1>4, <1>6, <1>7, <1>9, <1>10, <1>11
     DEF RuntimeInv, TypeOK, FeedsHold, FeedsTyped, WaitsHold

\* A source that ends by itself or obeys its cancellation is still held.
LEMMA EndsKeeps ==
  ASSUME RuntimeInv, NEW t \in Tasks, SourceEnds(t)
  PROVE  RuntimeInv'
<1>1. FeedsHold /\ TypeOK /\ WaitsHold /\ NoFailureIsLost /\ task[t] \in TaskRow
  BY DEF RuntimeInv, TypeOK, FeedsHold, FeedsTyped
<1>2. PICK result \in {"ended", "failed"} :
         task' = [task EXCEPT ![t].state = result,
                              ![t].told = (result = "failed" /\ task[t].watched)]
  BY DEF SourceEnds
<1> DEFINE told == (result = "failed" /\ task[t].watched)
           row == [task[t] EXCEPT !.state = result, !.told = told]
<1>3. row \in TaskRow /\ row.slot = task[t].slot /\ row.made = task[t].made /\ row.state = result
  <2>1. told \in BOOLEAN
    OBVIOUS
  <2> HIDE DEF told
  <2> QED
    BY <1>1, <2>1 DEF TaskRow
<1>4. task' = [task EXCEPT ![t] = row]
  BY <1>1, <1>2 DEF TypeOK
<1> HIDE DEF row
<1>5. /\ task' \in [Tasks -> TaskRow] /\ task'[t] = row
      /\ \A u \in Tasks : u # t => task'[u] = task[u]
  BY <1>1, <1>3, <1>4 DEF TypeOK
<1>6. \A u \in Tasks : task'[u].slot = task[u].slot /\ task'[u].made = task[u].made
                       /\ (Alive(u)' => Alive(u))
  BY <1>3, <1>5 DEF Alive
<1>7. FeedsHold'
  BY <1>1, <1>5, <1>6, MarkedHolds DEF SourceEnds, FeedsHold, FeedsTyped
<1>8. WaitsHold'
  BY <1>1 DEF SourceEnds, WaitsHold, CallersArePlaced, BotLoopWaits, StopsAreWhole
<1>9. NoFailureIsLost'
  <2>1. task[t].slot \in Slots /\ source_task[task[t].slot] = t
    BY <1>1 DEF SourceEnds, TaskRow, FeedsHold, TasksHold, EverySourceIsTracked
  <2>2. Held' = Held /\ t \in Held
    BY <2>1 DEF Held, SourceEnds
  <2> QED
    BY <1>1, <1>5, <2>2 DEF NoFailureIsLost
<1> QED
  BY <1>1, <1>7, <1>8, <1>9 DEF SourceEnds, RuntimeInv, TypeOK, FeedsHold, FeedsTyped

\* Steps of the drain, of the queue and of the settings, beside the tasks.
LEMMA TasksLeftAlone ==
  ASSUME RuntimeInv, TypeOK', UNCHANGED <<source_task, source_key, task, status>>,
         \A d \in Callers : caller'[d].waits = caller[d].waits,
         \/ UNCHANGED <<running, settings, caller>>
         \/ \A d \in Callers : caller[d].pc \notin {"wait", "stopping"} /\ UNCHANGED caller
         \/ /\ UNCHANGED <<running, settings>> /\ caller'[BotLoop].pc \in {"idle", "drain"}
            /\ caller[BotLoop].pc # "wait" /\ \A d \in Clients : caller'[d] = caller[d]
  PROVE  RuntimeInv'
<1>1. TasksHold'
  BY DEF RuntimeInv, TasksHold, EverySourceIsTracked, OfflineMeansStopped, KeyTellsSettings,
     TrackedAreOfSlot, Alive
<1>2. CallersArePlaced'
  BY RuntimeConstants DEF RuntimeInv, WaitsHold, CallersArePlaced
<1>3. BotLoopWaits'
  BY RuntimeConstants DEF RuntimeInv, WaitsHold, BotLoopWaits
<1>4. StopsAreWhole'
  BY RuntimeConstants DEF RuntimeInv, WaitsHold, StopsAreWhole
<1>5. NoFailureIsLost'
  BY HeldIs DEF RuntimeInv, NoFailureIsLost
<1> QED
  BY <1>1, <1>2, <1>3, <1>4, <1>5 DEF RuntimeInv, WaitsHold

-----------------------------------------------------------------------------
(* The theorems.                                                           *)

\* Nothing runs and nobody waits in the beginning.
LEMMA RuntimeInitially == Init => RuntimeInv
<1> SUFFICES ASSUME Init PROVE RuntimeInv
  OBVIOUS
<1>1. Free \in TaskRow /\ Free.state = "none"
  BY RuntimeConstants DEF Free, TaskRow
<1>2. At("idle") \in CallerRow /\ At("idle").pc = "idle" /\ At("idle").waits = {}
  BY AtTyped
<1>3. TypeOK
  <2>1. task \in [Tasks -> TaskRow] /\ caller \in [Callers -> CallerRow]
    BY <1>1, <1>2 DEF Init
  <2>2. settings \in [Slots -> Settings] /\ queue \in 0..MaxQueue
    BY RuntimeConstants DEF Init
  <2> QED
    BY <2>1, <2>2 DEF Init, TypeOK
<1>4. TasksHold
  BY <1>1 DEF Init, TasksHold, EverySourceIsTracked, OfflineMeansStopped, KeyTellsSettings,
     TrackedAreOfSlot, Alive
<1>5. WaitsHold
  BY <1>2, RuntimeConstants DEF Init, WaitsHold, CallersArePlaced, BotLoopWaits, StopsAreWhole
<1>6. NoFailureIsLost
  BY <1>1 DEF Init, NoFailureIsLost
<1> QED
  BY <1>3, <1>4, <1>5, <1>6 DEF RuntimeInv

\* The requests of an operator who waits keep the invariant.
LEMMA RequestKeeps == RuntimeInv /\ Request /\ Patient => RuntimeInv'
<1> SUFFICES ASSUME RuntimeInv, Request, Patient PROVE RuntimeInv'
  OBVIOUS
<1>1. TypeOK /\ WaitsHold
  BY DEF RuntimeInv
<1>2. \A d \in Callers : caller[d].pc \notin {"wait", "stopping"} /\ caller[d].waits = {}
  BY <1>1 DEF Patient, WaitsHold, CallersArePlaced
<1>3. CASE recover_bot
  <2>1. TypeOK'
    BY <1>1, <1>3 DEF TypeOK, recover_bot
  <2> QED
    BY <1>2, <1>3, <2>1, TasksLeftAlone DEF recover_bot
<1>4. CASE update_settings
  <2>1. TypeOK'
    BY <1>1, <1>4 DEF TypeOK, update_settings
  <2> QED
    BY <1>2, <1>4, <2>1, TasksLeftAlone DEF update_settings
<1>5. ASSUME NEW c \in Clients, start(c) PROVE RuntimeInv'
  BY <1>2, <1>5, EnsureKeeps, RuntimeConstants DEF start, Patient
<1>6. ASSUME NEW c \in Clients, stop(c) PROVE RuntimeInv'
  <2> DEFINE roots == {source_task[s] : s \in Slots} \ {None}
  <2>1. \A s \in Slots : source_task[s] \in roots \cup {None}
    OBVIOUS
  <2>2. /\ running' = FALSE /\ UNCHANGED <<detect, settings>>
        /\ \/ StopFinished(c, roots)
           \/ /\ task' = Cancelled(roots)
              /\ caller' = [caller EXCEPT ![c] = [At("stopping") EXCEPT !.waits = roots]]
              /\ UNCHANGED <<source_task, source_key, status, queue>>
    BY <1>6 DEF stop
  <2>3. c \in Callers /\ caller[c].waits \subseteq roots
    BY <1>2, RuntimeConstants
  <2>4. CASE StopFinished(c, roots)
    <3> HIDE DEF roots
    <3> QED
      BY <1>2, <2>1, <2>2, <2>3, <2>4, StopFinishedKeeps
  <2>5. CASE /\ task' = Cancelled(roots)
             /\ caller' = [caller EXCEPT ![c] = [At("stopping") EXCEPT !.waits = roots]]
             /\ UNCHANGED <<source_task, source_key, status, queue>>
    BY <1>2, <2>2, <2>5, StopBeginsKeeps
  <2> QED
    BY <2>2, <2>4, <2>5
<1> QED
  BY <1>3, <1>4, <1>5, <1>6 DEF Request

\* So does everything that goes on by itself.
LEMMA BackgroundKeeps == RuntimeInv /\ Background => RuntimeInv'
<1> SUFFICES ASSUME RuntimeInv, Background PROVE RuntimeInv'
  OBVIOUS
<1>1. TypeOK /\ WaitsHold /\ BotLoop \in Callers /\ running \in BOOLEAN
  BY RuntimeConstants DEF RuntimeInv, TypeOK
<1>2. CASE bot_loop
  <2>1. caller[BotLoop].waits = {}
    BY <1>1, <1>2 DEF bot_loop, WaitsHold, CallersArePlaced
  <2> QED
    BY <1>1, <1>2, <2>1, EnsureKeeps, RuntimeConstants DEF bot_loop
<1>3. CASE ensure_solana_logs_task
  <2>1. caller[BotLoop].waits = {} /\ "logs" \in Slots
    BY <1>1, <1>3 DEF ensure_solana_logs_task, WaitsHold, CallersArePlaced
  <2> QED
    BY <1>1, <1>3, <2>1, EnsureKeeps DEF ensure_solana_logs_task
<1>4. CASE drain_launch_queue
  <2>1. caller[BotLoop] \in CallerRow /\ caller[BotLoop].pc = "drain" /\ caller[BotLoop].waits = {}
    BY <1>1, <1>4 DEF TypeOK, drain_launch_queue, WaitsHold, CallersArePlaced
  <2>2. PICK row \in CallerRow : /\ caller' = [caller EXCEPT ![BotLoop] = row]
                                 /\ row.pc \in {"idle", "drain"} /\ row.waits = {}
    <3>1. CASE caller' = [caller EXCEPT ![BotLoop] = At("idle")]
      BY <3>1, AtTyped
    <3>2. CASE caller[BotLoop].left > 0 /\ caller' = [caller EXCEPT ![BotLoop].left = @ - 1]
      <4> DEFINE row == [caller[BotLoop] EXCEPT !.left = @ - 1]
      <4>1. row \in CallerRow /\ row.pc = "drain" /\ row.waits = {}
        BY <2>1, <3>2, RuntimeConstants DEF CallerRow
      <4>2. caller' = [caller EXCEPT ![BotLoop] = row]
        BY <1>1, <3>2 DEF TypeOK
      <4> QED
        BY <4>1, <4>2
    <3> QED
      BY <1>4, <3>1, <3>2 DEF drain_launch_queue
  <2>3. /\ caller' \in [Callers -> CallerRow] /\ caller'[BotLoop] = row
        /\ \A d \in Callers : d # BotLoop => caller'[d] = caller[d]
    BY <1>1, <2>2 DEF TypeOK
  <2>4. queue' \in 0..MaxQueue
    BY <1>1, <1>4, RuntimeConstants DEF TypeOK, drain_launch_queue
  <2>5. TypeOK'
    BY <1>1, <1>4, <2>3, <2>4 DEF TypeOK, drain_launch_queue
  <2> QED
    BY <1>4, <2>1, <2>2, <2>3, <2>5, TasksLeftAlone, RuntimeConstants DEF drain_launch_queue
<1>5. ASSUME NEW c \in Callers, Resume(c) PROVE RuntimeInv'
  <2>1. CASE stop_runtime_tasks_resumes(c)
    <3>1. c \in Clients
      BY <1>1, <2>1, RuntimeConstants DEF stop_runtime_tasks_resumes, WaitsHold, CallersArePlaced
    <3>2. ~running /\ \A s \in Slots : source_task[s] \in caller[c].waits \cup {None}
      BY <1>1, <2>1, <3>1 DEF stop_runtime_tasks_resumes, WaitsHold, StopsAreWhole
    <3> QED
      BY <1>1, <2>1, <3>1, <3>2, StopFinishedKeeps DEF stop_runtime_tasks_resumes
  <2> QED
    BY <1>5, <2>1, ResumeKeeps DEF Resume
<1>6. ASSUME NEW t \in Tasks, SourceProduces(t) PROVE RuntimeInv'
  <2>1. queue' \in 0..MaxQueue
    BY <1>1, <1>6, RuntimeConstants DEF TypeOK, SourceProduces
  <2>2. TypeOK'
    BY <1>1, <1>6, <2>1 DEF TypeOK, SourceProduces
  <2> QED
    BY <1>6, <2>2, TasksLeftAlone DEF SourceProduces
<1> QED
  BY <1>2, <1>3, <1>4, <1>5, <1>6, EndsKeeps DEF Background

\* The invariant is inductive.
LEMMA RuntimeStep == RuntimeInv /\ [PatientNext]_vars => RuntimeInv'
<1>1. RuntimeInv /\ UNCHANGED vars => RuntimeInv'
  <2> SUFFICES ASSUME RuntimeInv, UNCHANGED vars PROVE RuntimeInv'
    OBVIOUS
  <2>1. TypeOK'
    BY DEF RuntimeInv, TypeOK, vars
  <2> QED
    BY <2>1, TasksLeftAlone DEF vars
<1> QED
  BY <1>1, RequestKeeps, BackgroundKeeps DEF PatientNext

\* With an operator who waits for his requests, every task that runs is the one
\* its feed's variable names, made from the settings its key says, and a feed
\* reported offline has none.
LEMMA SourcesAreHeldAlways == PatientSpec => []SourcesAreHeld
<1>1. RuntimeInv => SourcesAreHeld
  BY DEF RuntimeInv, TasksHold, SourcesAreHeld
<1> QED
  BY RuntimeInitially, RuntimeStep, <1>1, PTL DEF PatientSpec

\* And a task that failed is reported before it is let go of.
THEOREM FailuresAreTold == PatientSpec => []NoFailureIsLost
<1>1. RuntimeInv => NoFailureIsLost
  BY DEF RuntimeInv
<1> QED
  BY RuntimeInitially, RuntimeStep, <1>1, PTL DEF PatientSpec

\* The rows are of their types.
THEOREM RuntimeTypeCorrect == PatientSpec => []TypeOK
<1>1. RuntimeInv => TypeOK
  BY DEF RuntimeInv
<1> QED
  BY RuntimeInitially, RuntimeStep, <1>1, PTL DEF PatientSpec

-----------------------------------------------------------------------------
(***************************************************************************)
(* Deques and rows.                                                        *)
(***************************************************************************)

\* Tokens that differ have different numbers.
UniqueIds(S) == \A o, p \in S : o.id = p.id => o = p

\* What is assumed of the constants.
LEMMA PaperConstants ==
  /\ Launches \in Nat \ {0} /\ DequeSize \in Nat \ {0} /\ MaxPositions \in Nat \ {0}
  /\ MaxTicks \in Nat \ {0} /\ HoldTicks \in Nat /\ FillDelay \in Nat /\ MaxPaperFaults \in Nat
  /\ LastTick \in Nat /\ MaxTicks <= LastTick /\ HoldTicks <= LastTick
  /\ MaxPositions < DequeSize
<1>1. /\ Launches \in Nat \ {0} /\ DequeSize \in Nat \ {0} /\ MaxPositions \in Nat \ {0}
      /\ MaxTicks \in Nat \ {0} /\ HoldTicks \in Nat /\ FillDelay \in Nat /\ MaxPaperFaults \in Nat
      /\ MaxPositions < DequeSize
  BY PaperAssumption
<1>2. LastTick \in Nat /\ MaxTicks <= LastTick /\ HoldTicks <= LastTick
  BY <1>1 DEF LastTick
<1> QED
  BY <1>1, <1>2

\* Tokens are finitely many, and there is an order with the newest first.
LEMMA NewestExists ==
  ASSUME NEW S \in SUBSET Tokens, UniqueIds(S)
  PROVE  /\ IsFiniteSet(S)
         /\ \E s \in [1..Cardinality(S) -> S] : \A j, k \in DOMAIN s : j < k => s[j].id > s[k].id
<1>1. IsFiniteSet(S)
  <2>1. PICK f : f = [o \in S |-> o.id]
    OBVIOUS
  <2>2. f \in Injection(S, Ids)
    <3>1. f \in [S -> Ids] /\ \A o \in S : f[o] = o.id
      BY <2>1 DEF Tokens
    <3>2. \A o, p \in DOMAIN f : f[o] = f[p] => o = p
      BY <3>1 DEF UniqueIds
    <3> QED
      BY <3>1, <3>2 DEF Injection, IsInjective
  <2>3. IsFiniteSet(Ids)
    BY PaperConstants, FS_Interval DEF Ids
  <2> QED
    BY <2>2, <2>3, FS_Injection
<1>2. PICK n \in Nat : n = Cardinality(S)
  BY <1>1, FS_CardinalityType
<1>3. \A o \in S : o.id \in Nat
  BY DEF Tokens, Ids
<1>4. PICK r : r = [o \in S |-> Cardinality({p \in S : p.id >= o.id})]
  OBVIOUS
<1>5. \A o \in S : r[o] \in 1..n
  <2> SUFFICES ASSUME NEW o \in S PROVE r[o] \in 1..n
    OBVIOUS
  <2>1. PICK T \in SUBSET S : T = {p \in S : p.id >= o.id}
    OBVIOUS
  <2>2. o \in T
    BY <1>3, <2>1
  <2>3. IsFiniteSet(T) /\ Cardinality(T) <= n /\ Cardinality(T) \in Nat
    BY <1>1, <1>2, FS_Subset, FS_CardinalityType
  <2>4. Cardinality(T) # 0
    BY <2>2, <2>3, FS_EmptySet
  <2> QED
    BY <1>4, <2>1, <2>3, <2>4
<1>6. ASSUME NEW o \in S, NEW p \in S, o.id < p.id PROVE r[p] < r[o]
  <2>1. PICK T \in SUBSET S : T = {q \in S : q.id >= o.id}
    OBVIOUS
  <2>2. PICK U \in SUBSET S : U = {q \in S : q.id >= p.id}
    OBVIOUS
  <2>3. U \in SUBSET T /\ U # T
    BY <1>3, <1>6, <2>1, <2>2
  <2>4. IsFiniteSet(T) /\ Cardinality(T) \in Nat
    BY <1>1, FS_Subset, FS_CardinalityType
  <2>5. IsFiniteSet(U) /\ Cardinality(U) \in Nat /\ Cardinality(U) <= Cardinality(T)
        /\ Cardinality(U) # Cardinality(T)
    BY <2>3, <2>4, FS_Subset, FS_CardinalityType
  <2>6. r[o] = Cardinality(T) /\ r[p] = Cardinality(U)
    BY <1>4, <2>1, <2>2
  <2> QED
    BY <2>4, <2>5, <2>6
<1>7. IsFiniteSet(1..n) /\ Cardinality(1..n) = n
  BY FS_Interval
<1>8. \A k \in 1..n : \E o \in S : r[o] = k
  <2>1. r \in [S -> 1..n]
    BY <1>4, <1>5
  <2>2. ASSUME NEW o \in S, NEW p \in S, r[o] = r[p] PROVE o = p
    <3>1. ~(o.id < p.id) /\ ~(p.id < o.id)
      BY <1>5, <1>6, <2>2
    <3> QED
      BY <1>3, <3>1 DEF UniqueIds
  <2>3. r \in Injection(S, 1..n)
    BY <2>1, <2>2 DEF Injection, IsInjective
  <2>4. r \in Surjection(S, 1..n)
    BY <1>2, <1>7, <2>3, FS_Injection
  <2> QED
    BY <2>4 DEF Surjection
<1>9. PICK s : s = [k \in 1..n |-> CHOOSE o \in S : r[o] = k]
  OBVIOUS
<1>10. s \in [1..n -> S] /\ \A k \in 1..n : r[s[k]] = k
  BY <1>8, <1>9
<1>11. \A j, k \in 1..n : j < k => s[j].id > s[k].id
  <2> SUFFICES ASSUME NEW j \in 1..n, NEW k \in 1..n, j < k PROVE s[j].id > s[k].id
    OBVIOUS
  <2>1. s[j] \in S /\ s[k] \in S /\ r[s[j]] = j /\ r[s[k]] = k
    BY <1>10
  <2>2. s[j].id # s[k].id
    BY <2>1 DEF UniqueIds
  <2>3. ~(s[j].id < s[k].id)
    BY <1>6, <2>1
  <2> QED
    BY <1>3, <2>1, <2>2, <2>3
<1>12. DOMAIN s = 1..n /\ s \in [1..Cardinality(S) -> S]
  BY <1>2, <1>10
<1> QED
  BY <1>1, <1>11, <1>12

\* Finitely many tokens are in some order the newest first, each once.
LEMMA NewestOrders ==
  ASSUME NEW S \in SUBSET Tokens, UniqueIds(S)
  PROVE  IsFiniteSet(S) /\ Newest(S) \in Seq(S) /\ ToSet(Newest(S)) = S
<1>1. IsFiniteSet(S)
  BY NewestExists
<1>2. PICK n \in Nat : n = Cardinality(S)
  BY <1>1, FS_CardinalityType
<1>3. \A o \in S : o.id \in Nat
  BY DEF Tokens, Ids
<1>4. IsFiniteSet(1..n) /\ Cardinality(1..n) = n
  BY FS_Interval
<1>5. PICK t : t = Newest(S)
  OBVIOUS
<1>6. t \in [1..n -> S] /\ \A j, k \in 1..n : j < k => t[j].id > t[k].id
  <2>1. \E u \in [1..n -> S] : \A j, k \in DOMAIN u : j < k => u[j].id > u[k].id
    BY <1>2, NewestExists
  <2>2. t = CHOOSE u \in [1..n -> S] : \A j, k \in DOMAIN u : j < k => u[j].id > u[k].id
    BY <1>2, <1>5 DEF Newest
  <2>3. t \in [1..n -> S] /\ \A j, k \in DOMAIN t : j < k => t[j].id > t[k].id
    BY <2>1, <2>2
  <2> QED
    BY <2>3
<1>7. t \in Seq(S)
  BY <1>6, SeqDef
<1>8. t \in Injection(1..n, S)
  <2>1. ASSUME NEW j \in 1..n, NEW k \in 1..n, t[j] = t[k] PROVE j = k
    <3>1. t[j] \in S /\ t[j].id \in Nat /\ ~(t[j].id > t[k].id) /\ ~(t[k].id > t[j].id)
      BY <1>3, <1>6, <2>1
    <3>2. ~(j < k) /\ ~(k < j)
      BY <1>6, <3>1
    <3> QED
      BY <3>2
  <2> QED
    BY <1>6, <2>1 DEF Injection, IsInjective
<1>9. t \in Surjection(1..n, S)
  BY <1>1, <1>2, <1>4, <1>8, FS_Injection
<1>10. ToSet(t) = S
  BY <1>6, <1>9 DEF Surjection, ToSet
<1> QED
  BY <1>1, <1>5, <1>7, <1>10

\* What is cut from a deque was in it.
LEMMA PartOf ==
  ASSUME NEW S, NEW s \in Seq(S), NEW m \in Int, NEW n \in Int, m >= 1, n <= Len(s)
  PROVE  SubSeq(s, m, n) \in Seq(S) /\ ToSet(SubSeq(s, m, n)) \subseteq ToSet(s)
<1>1. Len(s) \in Nat /\ DOMAIN s = 1..Len(s)
  BY LenProperties
<1>2. \A i \in m..n : i \in 1..Len(s) /\ s[i] \in S
  BY <1>1, ElementOfSeq
<1>3. PICK t : t = SubSeq(s, m, n)
  OBVIOUS
<1>4. /\ t \in Seq(S) /\ Len(t) = IF m <= n THEN n - m + 1 ELSE 0
      /\ \A i \in 1..(n - m + 1) : t[i] = s[m + i - 1]
  BY <1>2, <1>3, SubSeqProperties
<1>5. DOMAIN t = 1..Len(t)
  BY <1>4, LenProperties
<1>6. ASSUME NEW i \in 1..Len(t) PROVE t[i] \in ToSet(s)
  <2>1. i \in 1..(n - m + 1) /\ m + i - 1 \in m..n
    BY <1>4
  <2>2. t[i] = s[m + i - 1] /\ m + i - 1 \in 1..Len(s)
    BY <1>2, <1>4, <2>1
  <2> QED
    BY <1>1, <2>2 DEF ToSet
<1> QED
  BY <1>3, <1>4, <1>5, <1>6 DEF ToSet

\* ... its first ones, and
LEMMA FirstOf ==
  ASSUME NEW S, NEW s \in Seq(S), NEW n \in Int
  PROVE  First(s, n) \in Seq(S) /\ ToSet(First(s, n)) \subseteq ToSet(s)
<1>1. PICK l \in Nat : l = Len(s)
  BY LenProperties
<1>2. \E k \in {n, l} : \A i \in {n, l} : k <= i
  OBVIOUS
<1>3. PICK k \in {n, l} : k = Min({n, l}) /\ \A i \in {n, l} : k <= i
  BY <1>2 DEF Min
<1>4. k \in Int /\ k <= l /\ First(s, n) = SubSeq(s, 1, k)
  BY <1>1, <1>3 DEF First
<1> QED
  BY <1>1, <1>4, PartOf

\* ... its last ones.
LEMMA DequeOf ==
  ASSUME NEW S, NEW s \in Seq(S)
  PROVE  AsDeque(s) \in Seq(S) /\ ToSet(AsDeque(s)) \subseteq ToSet(s)
<1>1. PICK l \in Nat : l = Len(s)
  BY LenProperties
<1>2. PICK m \in Int : m = l - DequeSize + 1
  BY PaperConstants
<1>3. \E k \in {1, m} : \A i \in {1, m} : k >= i
  OBVIOUS
<1>4. PICK k \in {1, m} : k = Max({1, m}) /\ \A i \in {1, m} : k >= i
  BY <1>3 DEF Max
<1>5. k \in Int /\ k >= 1 /\ AsDeque(s) = SubSeq(s, k, l)
  BY <1>1, <1>2, <1>4 DEF AsDeque
<1> QED
  BY <1>1, <1>5, PartOf

\* Two deques, one before the other.
LEMMA BothOf ==
  ASSUME NEW S, NEW s \in Seq(S), NEW t \in Seq(S)
  PROVE  s \o t \in Seq(S) /\ ToSet(s \o t) = ToSet(s) \cup ToSet(t)
<1>1. PICK m \in Nat, n \in Nat : m = Len(s) /\ n = Len(t)
  BY LenProperties
<1>2. PICK u : u = s \o t
  OBVIOUS
<1>3. /\ u \in Seq(S) /\ Len(u) = m + n
      /\ \A i \in 1..(m + n) : u[i] = IF i <= m THEN s[i] ELSE t[i - m]
  BY <1>1, <1>2, ConcatProperties
<1>4. DOMAIN u = 1..(m + n) /\ DOMAIN s = 1..m /\ DOMAIN t = 1..n
  BY <1>1, <1>3, LenProperties
<1>5. ToSet(u) \subseteq ToSet(s) \cup ToSet(t)
  <2> SUFFICES ASSUME NEW i \in 1..(m + n) PROVE u[i] \in ToSet(s) \cup ToSet(t)
    BY <1>4 DEF ToSet
  <2>1. CASE i <= m
    <3>1. u[i] = s[i] /\ i \in 1..m
      BY <1>3, <2>1
    <3> QED
      BY <1>4, <3>1 DEF ToSet
  <2>2. CASE ~(i <= m)
    <3>1. u[i] = t[i - m] /\ i - m \in 1..n
      BY <1>3, <2>2
    <3> QED
      BY <1>4, <3>1 DEF ToSet
  <2> QED
    BY <2>1, <2>2
<1>6. \A i \in 1..m : s[i] = u[i] /\ i \in 1..(m + n)
  BY <1>3
<1>7. \A i \in 1..n : t[i] = u[m + i] /\ m + i \in 1..(m + n)
  <2> SUFFICES ASSUME NEW i \in 1..n PROVE t[i] = u[m + i] /\ m + i \in 1..(m + n)
    OBVIOUS
  <2>1. m + i \in 1..(m + n) /\ ~(m + i <= m) /\ (m + i) - m = i
    OBVIOUS
  <2> QED
    BY <1>3, <2>1
<1>8. ToSet(s) \cup ToSet(t) \subseteq ToSet(u)
  BY <1>4, <1>6, <1>7 DEF ToSet
<1> QED
  BY <1>2, <1>3, <1>5, <1>8

-----------------------------------------------------------------------------
(***************************************************************************)
(* Paper positions, for any launches, deque and positions.  Neither of the *)
(* three properties is inductive.  What they rest on is that a copy in the *)
(* deque is its row, save where a write of it was cut short, and that even *)
(* then its row has not come further than the copy; and that a drain's own *)
(* count has every open row in it.                                         *)
(***************************************************************************)

Tables == {"tokens", "trades", "sessions"}
Marks == {"none", "open", "closed"}

\* The mark that the trade of a token, and its session, should have.
Expected(o) == IF IsOpen(o) THEN "open" ELSE IF o.status = "paper_sold" THEN "closed" ELSE "none"

StoreTyped ==
    store \in [tokens: [Ids -> Tokens], trades: [Ids -> Marks], sessions: [Ids -> Marks]]

\* A token has its own row, which is blank until it is seen.
RowsAreOwn ==
    \A i \in Ids : /\ store.tokens[i].id = i
                   /\ i > seen => /\ store.tokens[i] = Blank(i)
                                  /\ store.trades[i] = "none" /\ store.sessions[i] = "none"

\* The token a is b, or has not come as far.
Behind(a, b) == a = b \/ Progress(a) < Progress(b)

\* What a deque of the tokens S may hold of them.
Copies(S) ==
    /\ S \subseteq Tokens /\ UniqueIds(S)
    /\ \A o \in S : /\ o.id <= seen
                    /\ o.id \notin cut => store.tokens[o.id] = o
                    /\ Behind(store.tokens[o.id], o)

\* The positions that count.
Counting == {i \in Ids \ cut : IsOpen(store.tokens[i])}

PaperInv ==
    /\ StoreTyped /\ RowsAreOwn /\ RowsAgree
    /\ tokens \in Seq(Tokens) /\ Copies(OnDeque) /\ (loop = "dead" => tokens = <<>>)
    /\ seen \in 0..Launches /\ cut \subseteq 1..seen
    /\ batch \in [on: BOOLEAN, ids: SUBSET Ids] /\ (batch.on => loop = "drain")
    /\ batch.on => Counting \subseteq batch.ids
    /\ Cardinality(Counting) <= MaxPositions

\* How far a token has come is a number, and a sale is the furthest.
LEMMA ProgressIs ==
  ASSUME NEW o \in Tokens
  PROVE  /\ Progress(o) \in Nat
         /\ IF o.status = "paper_sold" THEN Progress(o) = FillDelay + LastTick + 2
            ELSE IF o.status = "none" THEN Progress(o) = 0
            ELSE Progress(o) = 1 + (FillDelay - o.delay) + o.ticks
         /\ o.status # "paper_sold" => Progress(o) < FillDelay + LastTick + 2
         /\ o.status \notin {"paper_sold", "none"} => Progress(o) > 0
<1>1. PICK d, t : d = o.delay /\ t = o.ticks
  OBVIOUS
<1>2. d \in 0..FillDelay /\ t \in 0..LastTick /\ FillDelay \in Nat /\ LastTick \in Nat
  BY <1>1, PaperConstants DEF Tokens
<1>3. PICK e : e = 1 + (FillDelay - d) + t
  OBVIOUS
<1>4. e \in Nat /\ e > 0 /\ e < FillDelay + LastTick + 2 /\ FillDelay + LastTick + 2 \in Nat
      /\ 0 < FillDelay + LastTick + 2
  BY <1>2, <1>3
<1>5. Progress(o) = IF o.status = "paper_sold" THEN FillDelay + LastTick + 2
                    ELSE IF o.status = "none" THEN 0 ELSE e
  BY <1>1, <1>3 DEF Progress
<1> QED
  BY <1>1, <1>3, <1>4, <1>5

\* What is behind what is behind is behind.
LEMMA FurtherBehind ==
  ASSUME NEW a \in Tokens, NEW b \in Tokens, NEW c \in Tokens, Behind(a, b), Behind(b, c)
  PROVE  /\ Behind(a, c)
         /\ Progress(b) < Progress(c) => Progress(a) < Progress(c)
         /\ Progress(a) <= Progress(c)
<1>1. PICK x \in Nat, y \in Nat, z \in Nat : x = Progress(a) /\ y = Progress(b) /\ z = Progress(c)
  BY ProgressIs
<1>2. (a = b \/ x < y) /\ (b = c \/ y < z)
  BY <1>1 DEF Behind
<1>3. (a = b => x = y) /\ (b = c => y = z)
  BY <1>1
<1>4. (y < z => x < z) /\ x <= z /\ (a = c \/ x < z)
  BY <1>2, <1>3
<1> QED
  BY <1>1, <1>4 DEF Behind

\* A sale of an open token takes it further.
LEMMA SoldIsFurther ==
  ASSUME NEW o \in Tokens, IsOpen(o)
  PROVE  /\ Sold(o) \in Tokens /\ Sold(o).id = o.id /\ Sold(o).status = "paper_sold"
         /\ Progress(o) < Progress(Sold(o)) /\ Behind(o, Sold(o))
<1>1. Sold(o) \in Tokens /\ Sold(o).id = o.id /\ Sold(o).status = "paper_sold"
  BY DEF Sold, Tokens
<1>2. Progress(Sold(o)) = FillDelay + LastTick + 2
  BY <1>1, ProgressIs
<1>3. o.status # "paper_sold"
  BY DEF IsOpen, OpenStatuses
<1>4. Progress(o) < FillDelay + LastTick + 2
  BY <1>3, ProgressIs
<1> QED
  BY <1>1, <1>2, <1>4 DEF Behind

\* The rows ws are of the tokens P, one token's row of a table at most once.
RowsOf(ws, P) ==
    /\ Len(ws) \in Nat
    /\ \A k \in 1..Len(ws) : \E t \in Tables, p \in P : ws[k] = Row(t, p)
Has(ws, t, p) == \E k \in 1..Len(ws) : ws[k] = Row(t, p)

\* What a row has in it.
LEMMA RowIs ==
  ASSUME NEW t \in Tables, NEW p \in Tokens
  PROVE  /\ Row(t, p).table = t /\ Row(t, p).id = p.id
         /\ Row(t, p).row = IF t = "tokens" THEN p ELSE IF IsOpen(p) THEN "open" ELSE "closed"
         /\ p.id \in Ids
  BY DEF Row, Tokens

\* A row is the first of those written of it, or is left alone.
LEMMA WritesOne ==
  ASSUME StoreTyped, NEW ws, NEW n, Writes(ws, n), NEW t \in Tables, NEW i \in Ids
  PROVE  \/ /\ store'[t][i] = store[t][i]
            /\ \A k \in 1..n : ~(ws[k].table = t /\ ws[k].id = i)
         \/ \E k \in 1..n : ws[k].table = t /\ ws[k].id = i /\ store'[t][i] = ws[k].row
<1>1. DOMAIN store = Tables
  BY DEF StoreTyped, Tables
<1>2. PICK rows : rows = {ws[k].row : k \in {k \in 1..n : ws[k].table = t /\ ws[k].id = i}}
  OBVIOUS
<1>3. store'[t][i] = IF rows = {} THEN store[t][i] ELSE CHOOSE row \in rows : TRUE
  BY <1>1, <1>2 DEF Writes
<1>4. CASE rows = {}
  BY <1>2, <1>3, <1>4
<1>5. CASE rows # {}
  <2>1. store'[t][i] \in rows
    BY <1>3, <1>5
  <2> QED
    BY <1>2, <2>1
<1> QED
  BY <1>4, <1>5

\* Of the rows of some tokens, each is what the token says or what it was; all that
\* there are of a token whose writes were not cut short are written.
LEMMA RowsSaved ==
  ASSUME StoreTyped, NEW P \in SUBSET Tokens, UniqueIds(P), NEW ws, RowsOf(ws, P),
         NEW n, Writes(ws, n), NEW t \in Tables
  PROVE  /\ \A i \in Ids \ Numbers(P) : store'[t][i] = store[t][i]
         /\ \A p \in P : \/ store'[t][p.id] = store[t][p.id]
                         \/ Has(ws, t, p) /\ store'[t][p.id] = Row(t, p).row
         /\ \A p \in P : Has(ws, t, p) /\ p.id \notin cut' => store'[t][p.id] = Row(t, p).row
<1>1. n \in 0..Len(ws) /\ cut' = cut \cup {ws[k].id : k \in (n + 1)..Len(ws)} /\ Len(ws) \in Nat
  BY DEF Writes, RowsOf
<1>2. \A k \in 1..Len(ws) : 
        \E p \in P : ws[k].id = p.id /\ (ws[k].table = t => ws[k] = Row(t, p))
  BY RowIs DEF RowsOf
<1>3. \A k \in 1..n : k \in 1..Len(ws)
  BY <1>1
<1>4. ASSUME NEW i \in Ids \ Numbers(P) PROVE store'[t][i] = store[t][i]
  <2>1. \A p \in P : p.id # i
    BY <1>4 DEF Numbers
  <2>2. ASSUME NEW k \in 1..n PROVE ws[k].id # i
    <3>1. k \in 1..Len(ws)
      BY <1>3
    <3>2. PICK p \in P : ws[k].id = p.id
      BY <1>2, <3>1
    <3> QED
      BY <2>1, <3>2
  <2> QED
    BY <2>2, WritesOne
<1>5. ASSUME NEW p \in P
      PROVE  /\ \/ store'[t][p.id] = store[t][p.id] /\ \A k \in 1..n : ws[k] # Row(t, p)
                \/ Has(ws, t, p) /\ store'[t][p.id] = Row(t, p).row
             /\ Has(ws, t, p) /\ p.id \notin cut' => store'[t][p.id] = Row(t, p).row
  <2>1. p.id \in Ids /\ Row(t, p).table = t /\ Row(t, p).id = p.id
    BY RowIs
  <2>2. CASE /\ store'[t][p.id] = store[t][p.id]
             /\ \A k \in 1..n : ~(ws[k].table = t /\ ws[k].id = p.id)
    <3>1. \A k \in 1..n : ws[k] # Row(t, p)
      BY <2>1, <2>2
    <3>2. ASSUME Has(ws, t, p) PROVE p.id \in cut'
      <4>1. PICK k \in 1..Len(ws) : ws[k] = Row(t, p)
        BY <3>2 DEF Has
      <4>2. k \in (n + 1)..Len(ws) /\ ws[k].id = p.id
        BY <1>1, <2>1, <3>1, <4>1
      <4> QED
        BY <1>1, <4>2
    <3> QED
      BY <2>2, <3>1, <3>2
  <2>3. CASE \E k \in 1..n : /\ ws[k].table = t /\ ws[k].id = p.id
                             /\ store'[t][p.id] = ws[k].row
    <3>1. PICK k \in 1..n : /\ ws[k].table = t /\ ws[k].id = p.id
                            /\ store'[t][p.id] = ws[k].row
      BY <2>3
    <3>2. PICK q \in P : ws[k].id = q.id /\ ws[k] = Row(t, q)
      <4>1. k \in 1..Len(ws)
        BY <1>3
      <4> QED
        BY <1>2, <3>1, <4>1
    <3>3. q = p
      BY <3>1, <3>2 DEF UniqueIds
    <3> QED
      BY <1>3, <3>1, <3>2, <3>3 DEF Has
  <2> QED
    BY <2>1, <2>2, <2>3, WritesOne
<1> QED
  BY <1>4, <1>5

\* ... and the store keeps its type.
LEMMA StoreKept ==
  ASSUME StoreTyped, NEW P \in SUBSET Tokens, UniqueIds(P), NEW ws, RowsOf(ws, P),
         NEW n, Writes(ws, n)
  PROVE  /\ StoreTyped'
         /\ \A i \in Ids : (\A j \in Ids : store.tokens[j].id = j) => store'.tokens[i].id = i
         /\ cut \subseteq cut' /\ cut' \subseteq cut \cup Numbers(P)
<1>1. n \in 0..Len(ws) /\ cut' = cut \cup {ws[k].id : k \in (n + 1)..Len(ws)} /\ Len(ws) \in Nat
      /\ store' = [table \in DOMAIN store |-> [i \in Ids |-> store'[table][i]]]
  BY DEF Writes, RowsOf
<1>2. \A k \in (n + 1)..Len(ws) : k \in 1..Len(ws)
  BY <1>1
<1>3. \A k \in 1..Len(ws) : ws[k].id \in Numbers(P)
  BY RowIs DEF RowsOf, Numbers
<1>4. cut \subseteq cut' /\ cut' \subseteq cut \cup Numbers(P)
  BY <1>1, <1>2, <1>3
<1>5. \A p \in P : p.id \in Ids
  BY DEF Tokens
<1>6. \A i \in Ids : i \in Numbers(P) => \E p \in P : p.id = i
  BY DEF Numbers
<1>7. ASSUME NEW i \in Ids
      PROVE  store'["tokens"][i] \in {store["tokens"][i]} \cup {p \in P : p.id = i}
  <2>1. CASE i \notin Numbers(P)
    BY <2>1, RowsSaved DEF Tables
  <2>2. CASE i \in Numbers(P)
    <3>1. PICK p \in P : p.id = i
      BY <1>6, <2>2
    <3>2. store'["tokens"][p.id] \in {store["tokens"][p.id], Row("tokens", p).row}
      BY RowsSaved DEF Tables
    <3>3. Row("tokens", p).row = p
      BY RowIs DEF Tables
    <3> QED
      BY <3>1, <3>2, <3>3
  <2> QED
    BY <2>1, <2>2
<1>8. ASSUME NEW i \in Ids, NEW t \in {"trades", "sessions"}
      PROVE  store'[t][i] \in {store[t][i], "open", "closed"}
  <2>1. t \in Tables /\ t # "tokens"
    BY DEF Tables
  <2>2. CASE i \notin Numbers(P)
    BY <2>1, <2>2, RowsSaved
  <2>3. CASE i \in Numbers(P)
    <3>1. PICK p \in P : p.id = i
      BY <1>6, <2>3
    <3>2. store'[t][p.id] \in {store[t][p.id], Row(t, p).row}
      BY <2>1, RowsSaved
    <3>3. Row(t, p).row \in {"open", "closed"}
      BY <2>1, RowIs
    <3> QED
      BY <3>1, <3>2, <3>3
  <2> QED
    BY <2>2, <2>3
<1>9. StoreTyped'
  <2>1. DOMAIN store = {"tokens", "trades", "sessions"}
    BY DEF StoreTyped
  <2>2. store'["tokens"] \in [Ids -> Tokens]
    <3>1. \A i \in Ids : store'["tokens"][i] \in Tokens
      BY <1>7 DEF StoreTyped
    <3> QED
      BY <1>1, <2>1, <3>1
  <2>3. ASSUME NEW t \in {"trades", "sessions"} PROVE store'[t] \in [Ids -> Marks]
    <3>1. \A i \in Ids : store'[t][i] \in Marks
      BY <1>8 DEF StoreTyped, Marks
    <3> QED
      BY <1>1, <2>1, <3>1
  <2>4. store' = [tokens |-> store'["tokens"], trades |-> store'["trades"],
                  sessions |-> store'["sessions"]]
    BY <1>1, <2>1
  <2> QED
    BY <2>2, <2>3, <2>4 DEF StoreTyped
<1>10. \A i \in Ids : (\A j \in Ids : store.tokens[j].id = j) => store'.tokens[i].id = i
  BY <1>7
<1> QED
  BY <1>4, <1>9, <1>10

\* The rows ws change the tokens P as a whole: a token's own row is among them, and
\* those of its trade and session where it changes its mark.
ChangesWhole(ws, P) ==
    /\ P \subseteq Tokens /\ UniqueIds(P) /\ RowsOf(ws, P)
    /\ \A p \in P :
          /\ p.id <= seen' /\ Has(ws, "tokens", p)
          /\ Behind(store.tokens[p.id], p)
          /\ \/ Has(ws, "trades", p) /\ Has(ws, "sessions", p) /\ Expected(p) # "none"
             \/ /\ ~Has(ws, "trades", p) /\ ~Has(ws, "sessions", p)
                /\ p.id \notin cut => Expected(p) = Expected(store.tokens[p.id])

\* The positions that a change opens.
Opened(P) == {i \in Ids \ cut : \E p \in P : p.id = i /\ IsOpen(p) /\ ~IsOpen(store.tokens[i])}

\* No row goes back.
RowsMoveOn == \A i \in Ids : Behind(store.tokens[i], store'.tokens[i])

\* A change keeps the rows, and what it says of a token is its row unless it was cut.
LEMMA ChangeKeepsRows ==
  ASSUME StoreTyped, RowsAreOwn, RowsAgree, cut \subseteq 1..seen,
         seen \in 0..Launches, seen' \in 0..Launches, seen <= seen',
         NEW P, NEW ws, NEW n, ChangesWhole(ws, P), Writes(ws, n)
  PROVE  /\ StoreTyped' /\ RowsAreOwn' /\ RowsAgree' /\ cut' \subseteq 1..seen' /\ RowsMoveOn
         /\ cut \subseteq cut' /\ cut' \subseteq cut \cup Numbers(P)
         /\ \A i \in Ids \ Numbers(P) : store'.tokens[i] = store.tokens[i]
         /\ \A p \in P : /\ store'.tokens[p.id] \in {p, store.tokens[p.id]}
                         /\ p.id \notin cut' => store'.tokens[p.id] = p
         /\ Counting' \subseteq Counting \cup Opened(P)
<1>1. /\ P \in SUBSET Tokens /\ UniqueIds(P) /\ RowsOf(ws, P)
      /\ \A p \in P : p.id \in Ids /\ p.id <= seen' /\ Has(ws, "tokens", p)
  BY DEF ChangesWhole, Tokens
<1>2. \A i \in Numbers(P) : \E p \in P : p.id = i
  BY DEF Numbers
<1>3. /\ StoreTyped' /\ (\A i \in Ids : store'.tokens[i].id = i)
      /\ cut \subseteq cut' /\ cut' \subseteq cut \cup Numbers(P)
  BY <1>1, StoreKept DEF RowsAreOwn
<1>4. ASSUME NEW i \in Ids \ Numbers(P)
      PROVE  /\ store'.tokens[i] = store.tokens[i]
             /\ store'.trades[i] = store.trades[i] /\ store'.sessions[i] = store.sessions[i]
  <2>1. \A t \in Tables : store'[t][i] = store[t][i]
    BY <1>1, RowsSaved
  <2> QED
    BY <2>1 DEF Tables
<1>5. ASSUME NEW p \in P
      PROVE  /\ store'.tokens[p.id] \in {p, store.tokens[p.id]}
             /\ p.id \notin cut' => store'.tokens[p.id] = p
  <2>1. /\ store'["tokens"][p.id] \in {store["tokens"][p.id], Row("tokens", p).row}
        /\ p.id \notin cut' => store'["tokens"][p.id] = Row("tokens", p).row
    BY <1>1, RowsSaved DEF Tables
  <2>2. Row("tokens", p).row = p
    BY <1>1, RowIs DEF Tables
  <2> QED
    BY <2>1, <2>2
<1>6. ASSUME NEW p \in P, p.id \notin cut', NEW t \in {"trades", "sessions"}
      PROVE  store'[t][p.id] = Expected(p)
  <2>1. t \in Tables /\ t # "tokens" /\ p.id \in Ids /\ p.id \notin cut
    BY <1>1, <1>3, <1>6 DEF Tables
  <2>2. CASE Has(ws, t, p)
    <3>1. store'[t][p.id] = Row(t, p).row
      BY <1>1, <1>6, <2>1, <2>2, RowsSaved
    <3>2. Row(t, p).row = IF IsOpen(p) THEN "open" ELSE "closed"
      BY <1>1, <2>1, RowIs
    <3>3. Expected(p) # "none"
      BY <2>2 DEF ChangesWhole
    <3> QED
      BY <3>1, <3>2, <3>3 DEF Expected
  <2>3. CASE ~Has(ws, t, p)
    <3>1. Expected(p) = Expected(store.tokens[p.id])
      BY <2>1, <2>3 DEF ChangesWhole
    <3>2. store'[t][p.id] = store[t][p.id]
      BY <1>1, <2>1, <2>3, RowsSaved
    <3>3. store[t][p.id] = Expected(store.tokens[p.id])
      BY <2>1 DEF RowsAgree, Expected
    <3> QED
      BY <3>1, <3>2, <3>3
  <2> QED
    BY <2>2, <2>3
<1>7. cut' \subseteq 1..seen'
  <2>1. \A i \in Numbers(P) : i \in 1..seen'
    BY <1>1, <1>2 DEF Ids
  <2> QED
    BY <1>3, <2>1
<1>8. RowsAreOwn'
  <2> SUFFICES ASSUME NEW i \in Ids, i > seen'
               PROVE  /\ store'.tokens[i] = Blank(i)
                      /\ store'.trades[i] = "none" /\ store'.sessions[i] = "none"
    BY <1>3 DEF RowsAreOwn, Blank
  <2>1. i \notin Numbers(P)
    BY <1>1, <1>2 DEF Ids
  <2>2. i > seen
    BY DEF Ids
  <2> QED
    BY <1>4, <2>1, <2>2 DEF RowsAreOwn
<1>9. RowsAgree'
  <2> SUFFICES ASSUME NEW i \in Ids, i \notin cut'
               PROVE  /\ store'.trades[i] = Expected(store'.tokens[i])
                      /\ store'.sessions[i] = Expected(store'.tokens[i])
    BY DEF RowsAgree, Expected, IsOpen
  <2>1. CASE i \in Numbers(P)
    <3>1. PICK p \in P : p.id = i
      BY <1>2, <2>1
    <3>2. store'.tokens[p.id] = p
      BY <1>5, <3>1
    <3>3. store'["trades"][p.id] = Expected(p) /\ store'["sessions"][p.id] = Expected(p)
      BY <1>6, <3>1
    <3> QED
      BY <3>1, <3>2, <3>3
  <2>2. CASE i \notin Numbers(P)
    <3>1. i \notin cut
      BY <1>3
    <3> QED
      BY <1>4, <2>2, <3>1 DEF RowsAgree, Expected
  <2> QED
    BY <2>1, <2>2
<1>10. RowsMoveOn
  <2> SUFFICES ASSUME NEW i \in Ids PROVE Behind(store.tokens[i], store'.tokens[i])
    BY DEF RowsMoveOn
  <2>1. CASE i \in Numbers(P)
    <3>1. PICK p \in P : p.id = i
      BY <1>2, <2>1
    <3>2. Behind(store.tokens[p.id], p)
      BY <3>1 DEF ChangesWhole
    <3>3. Behind(store.tokens[p.id], store.tokens[p.id])
      BY DEF Behind
    <3>4. store'.tokens[p.id] = p \/ store'.tokens[p.id] = store.tokens[p.id]
      BY <1>5, <3>1
    <3> QED
      BY <3>1, <3>2, <3>3, <3>4
  <2>2. CASE i \notin Numbers(P)
    BY <1>4, <2>2 DEF Behind
  <2> QED
    BY <2>1, <2>2
<1>11. Counting' \subseteq Counting \cup Opened(P)
  <2> SUFFICES ASSUME NEW i \in Ids, i \notin cut', IsOpen(store'.tokens[i]), i \notin Opened(P)
               PROVE  i \in Counting
    BY DEF Counting, IsOpen
  <2>1. i \notin cut
    BY <1>3
  <2>2. CASE i \in Numbers(P)
    <3>1. PICK p \in P : p.id = i
      BY <1>2, <2>2
    <3>2. store'.tokens[i] = p
      BY <1>5, <3>1
    <3> QED
      BY <2>1, <3>1, <3>2 DEF Opened, Counting
  <2>3. CASE i \notin Numbers(P)
    BY <1>4, <2>1, <2>3 DEF Counting
  <2> QED
    BY <2>2, <2>3
<1> QED
  BY <1>3, <1>4, <1>5, <1>7, <1>8, <1>9, <1>10, <1>11

\* Some of the tokens of a deque are one too.
LEMMA CopiesOf ==
  ASSUME NEW S, Copies(S), NEW T \in SUBSET S
  PROVE  Copies(T)
  BY DEF Copies, UniqueIds

\* A change and what it leaves of a deque are a deque of the new rows.
LEMMA ChangeKeepsCopies ==
  ASSUME StoreTyped, RowsAreOwn, RowsAgree, cut \subseteq 1..seen,
         seen \in 0..Launches, seen' \in 0..Launches, seen <= seen',
         NEW P, NEW ws, NEW n, ChangesWhole(ws, P), Writes(ws, n),
         NEW S, Copies(S), NEW T, UniqueIds(T),
         \A o \in T : \/ o \in P
                      \/ o \in S /\ o.id \notin Numbers(P)
                      \/ o \in S /\ o.id \in cut' /\ store'.tokens[o.id] = store.tokens[o.id]
  PROVE  Copies(T)'
<1>1. /\ P \subseteq Tokens /\ \A p \in P : p.id <= seen' /\ p.id \in Ids
      /\ cut \subseteq cut' /\ cut' \subseteq cut \cup Numbers(P)
      /\ \A i \in Ids \ Numbers(P) : store'.tokens[i] = store.tokens[i]
      /\ \A p \in P : /\ store'.tokens[p.id] \in {p, store.tokens[p.id]}
                      /\ p.id \notin cut' => store'.tokens[p.id] = p
  BY ChangeKeepsRows DEF ChangesWhole, Tokens
<1>2. \A p \in P : Behind(store.tokens[p.id], p) /\ Behind(p, p)
  BY DEF ChangesWhole, Behind
<1>3. \A o \in S : o \in Tokens /\ o.id \in Ids /\ o.id <= seen'
  BY DEF Copies, Tokens, Ids
<1>4. ASSUME NEW o \in T
      PROVE  /\ o \in Tokens /\ o.id <= seen'
             /\ o.id \notin cut' => store'.tokens[o.id] = o
             /\ Behind(store'.tokens[o.id], o)
  <2>1. CASE o \in P
    <3>1. store'.tokens[o.id] = o \/ store'.tokens[o.id] = store.tokens[o.id]
      BY <1>1, <2>1
    <3>2. Behind(store.tokens[o.id], o) /\ Behind(o, o)
      BY <1>2, <2>1
    <3>3. Behind(store'.tokens[o.id], o)
      BY <3>1, <3>2
    <3> QED
      BY <1>1, <2>1, <3>3
  <2>2. CASE o \in S /\ o.id \notin Numbers(P)
    BY <1>1, <1>3, <2>2 DEF Copies
  <2>3. CASE o \in S /\ o.id \in cut' /\ store'.tokens[o.id] = store.tokens[o.id]
    BY <1>3, <2>3 DEF Copies
  <2> QED
    BY <1>4, <2>1, <2>2, <2>3
<1> QED
  BY <1>4 DEF Copies

\* All that the process or the database has, the process's copy before the row.
Known == OnDeque \cup {o \in Rows : o.id \notin Numbers(OnDeque)}

\* The rows are a deque of themselves.
LEMMA RowsFit ==
  ASSUME StoreTyped, RowsAreOwn, seen \in 0..Launches
  PROVE  Copies(Rows) /\ \A o \in Rows : o.id \in Ids /\ store.tokens[o.id] = o
<1>1. \A i \in Ids : store.tokens[i] \in Tokens /\ store.tokens[i].id = i
  BY DEF StoreTyped, RowsAreOwn
<1>2. \A o \in Rows : \E i \in Ids : o = store.tokens[i]
  BY DEF Rows
<1>3. \A o \in Rows : o \in Tokens /\ o.id \in Ids /\ store.tokens[o.id] = o
  BY <1>1, <1>2
<1>4. \A o \in Rows : o.id <= seen
  <2> SUFFICES ASSUME NEW o \in Rows, ~(o.id <= seen) PROVE FALSE
    OBVIOUS
  <2>1. o.id \in Ids /\ o.id > seen /\ store.tokens[o.id] = o
    BY <1>3 DEF Ids
  <2>2. o = Blank(o.id)
    BY <2>1 DEF RowsAreOwn
  <2> QED
    BY <2>1, <2>2 DEF Rows
<1>5. UniqueIds(Rows)
  BY <1>3 DEF UniqueIds
<1> QED
  BY <1>3, <1>4, <1>5 DEF Copies, Behind

\* ... and all that is known is one.
LEMMA KnownFits ==
  ASSUME PaperInv
  PROVE  Copies(Known) /\ Rows \cap Known \subseteq Rows /\ OnDeque \subseteq Known
<1>1. Copies(Rows) /\ Copies(OnDeque)
  BY RowsFit DEF PaperInv
<1>2. UniqueIds(Known)
  <2> SUFFICES ASSUME NEW o \in Known, NEW p \in Known, o.id = p.id PROVE o = p
    BY DEF UniqueIds
  <2>1. \A q \in OnDeque : q.id \in Numbers(OnDeque)
    BY DEF Numbers
  <2> QED
    BY <1>1, <2>1 DEF Known, Copies, UniqueIds
<1> QED
  BY <1>1, <1>2 DEF Known, Copies

\* The positions that fell off the deque come back.
LEMMA LoadedFits ==
  ASSUME PaperInv
  PROVE  Loaded(tokens) \in Seq(Tokens) /\ ToSet(Loaded(tokens)) \subseteq Known
<1>1. tokens \in Seq(Tokens) /\ ToSet(tokens) \subseteq Known
  BY DEF PaperInv, Known, OnDeque
<1>2. PICK merged : merged = ToSet(tokens) \cup {o \in OpenRows : o.id \notin Numbers(ToSet(tokens))}
  OBVIOUS
<1>3. PICK active : active = {o \in merged : o.id \in Numbers(OpenRows)}
  OBVIOUS
<1>4. merged \subseteq Known
  BY <1>2 DEF Known, OnDeque, OpenRows
<1>5. Copies(active) /\ Copies(merged \ active)
  BY <1>3, <1>4, KnownFits, CopiesOf
<1>6. PICK s \in Seq(active) : s = Newest(active) /\ ToSet(s) = active /\ IsFiniteSet(active)
  BY <1>5, NewestOrders DEF Copies
<1>7. PICK t \in Seq(merged \ active) : t = Newest(merged \ active) /\ ToSet(t) = merged \ active
  BY <1>5, NewestOrders DEF Copies
<1>8. DequeSize - Cardinality(active) \in Int
  BY <1>6, FS_CardinalityType, PaperConstants
<1>9. PICK u \in Seq(merged \ active) : /\ u = First(t, DequeSize - Cardinality(active))
                                        /\ ToSet(u) \subseteq merged \ active
  BY <1>7, <1>8, FirstOf
<1>10. s \in Seq(Tokens) /\ u \in Seq(Tokens)
  BY <1>5, <1>6, <1>9, SeqMonotonic DEF Copies
<1>11. s \o u \in Seq(Tokens) /\ ToSet(s \o u) \subseteq merged
  <2>1. s \o u \in Seq(Tokens) /\ ToSet(s \o u) = ToSet(s) \cup ToSet(u)
    BY <1>10, BothOf
  <2>2. ToSet(s) \subseteq merged /\ ToSet(u) \subseteq merged
    BY <1>3, <1>6, <1>9
  <2> QED
    BY <2>1, <2>2
<1>12. Loaded(tokens) = IF OpenRows = {} THEN tokens ELSE s \o u
  BY <1>2, <1>3, <1>6, <1>7, <1>9 DEF Loaded
<1> QED
  BY <1>1, <1>4, <1>11, <1>12

\* What a start reads are rows.
LEMMA HydratedFits ==
  ASSUME StoreTyped, RowsAreOwn, seen \in 0..Launches
  PROVE  Hydrated \in Seq(Tokens) /\ ToSet(Hydrated) \subseteq Rows
<1>1. Copies(Rows)
  BY RowsFit
<1>2. PICK s \in Seq(Rows) : s = Newest(Rows) /\ ToSet(s) = Rows
  BY <1>1, NewestOrders DEF Copies
<1>3. Recent \in Seq(Rows) /\ ToSet(Recent) \subseteq Rows
  <2>1. DequeSize \in Int /\ Recent = First(s, DequeSize)
    BY <1>2, PaperConstants DEF Recent
  <2> QED
    BY <1>2, <2>1, FirstOf
<1>4. PICK R : R = {o \in ToSet(Recent) : ~IsOpen(o)}
  OBVIOUS
<1>5. Copies(R) /\ Copies(OpenRows)
  BY <1>1, <1>3, <1>4, CopiesOf DEF OpenRows
<1>6. PICK t \in Seq(R) : t = Newest(R) /\ ToSet(t) = R
  BY <1>5, NewestOrders DEF Copies
<1>7. DequeSize - Cardinality(OpenRows) \in Int
  <2>1. IsFiniteSet(OpenRows)
    BY <1>5, NewestOrders DEF Copies
  <2> QED
    BY <2>1, FS_CardinalityType, PaperConstants
<1>8. PICK n \in Int : n = DequeSize - Cardinality(OpenRows)
  BY <1>7
<1>9. ToSet(First(t, n)) \subseteq R
  BY <1>6, FirstOf
<1>10. PICK H : H = OpenRows \cup ToSet(First(t, n))
  OBVIOUS
<1>11. H \subseteq Rows
  BY <1>3, <1>4, <1>9, <1>10 DEF OpenRows
<1>12. Copies(H)
  BY <1>1, <1>11, CopiesOf
<1>13. PICK u \in Seq(H) : u = Newest(H) /\ ToSet(u) = H
  BY <1>12, NewestOrders DEF Copies
<1>14. Hydrated = AsDeque(u)
  BY <1>4, <1>6, <1>8, <1>10, <1>13 DEF Hydrated
<1>15. AsDeque(u) \in Seq(H) /\ ToSet(AsDeque(u)) \subseteq H
  BY <1>13, DequeOf
<1>16. AsDeque(u) \in Seq(Tokens)
  BY <1>12, <1>15, SeqMonotonic DEF Copies
<1> QED
  BY <1>11, <1>14, <1>15, <1>16

\* The positions that count are finitely many, and open.
LEMMA CountingIs ==
  ASSUME StoreTyped, RowsAreOwn
  PROVE  IsFiniteSet(Counting) /\ Counting \subseteq Ids /\ Counting \subseteq Numbers(OpenRows)
<1>1. IsFiniteSet(Ids) /\ Counting \subseteq Ids
  BY PaperConstants, FS_Interval DEF Ids, Counting
<1>2. ASSUME NEW i \in Counting PROVE i \in Numbers(OpenRows)
  <2>1. i \in Ids /\ IsOpen(store.tokens[i]) /\ store.tokens[i].id = i
    BY DEF Counting, RowsAreOwn
  <2>2. \A j \in Ids : store.tokens[i] # Blank(j)
    BY <2>1 DEF IsOpen, Blank, OpenStatuses
  <2> QED
    BY <2>1, <2>2 DEF Numbers, OpenRows, Rows
<1> QED
  BY <1>1, <1>2, FS_Subset

\* Where no row changes the deque may.
LEMMA QuietStep ==
  ASSUME PaperInv, UNCHANGED <<store, cut, seen>>,
         tokens' \in Seq(Tokens), ToSet(tokens') \subseteq Known,
         batch' \in {batch, NoBatch}, batch'.on => loop' = "drain",
         loop' = "dead" => tokens' = <<>>
  PROVE  PaperInv' /\ RowsMoveOn
<1>1. PICK T : T = ToSet(tokens')
  OBVIOUS
<1>2. Copies(T)
  BY <1>1, KnownFits, CopiesOf
<1>3. Copies(T)'
  BY <1>2 DEF Copies
<1>4. Copies(OnDeque)'
  BY <1>1, <1>3 DEF OnDeque
<1>5. StoreTyped' /\ RowsAreOwn' /\ RowsAgree' /\ Counting' = Counting
  BY DEF PaperInv, StoreTyped, RowsAreOwn, RowsAgree, Counting, IsOpen
<1>6. batch' \in [on: BOOLEAN, ids: SUBSET Ids] /\ (batch'.on => batch' = batch)
  <2>1. NoBatch \in [on: BOOLEAN, ids: SUBSET Ids] /\ ~NoBatch.on
    BY DEF NoBatch
  <2>2. batch \in [on: BOOLEAN, ids: SUBSET Ids]
    BY DEF PaperInv
  <2> QED
    BY <2>1, <2>2
<1> QED
  BY <1>4, <1>5, <1>6 DEF PaperInv, RowsMoveOn, Behind

\* A change, its deque, and what a drain counts.
LEMMA LoudStep ==
  ASSUME PaperInv, seen' \in 0..Launches, seen <= seen',
         NEW P, NEW ws, NEW n, ChangesWhole(ws, P), Writes(ws, n),
         Cardinality(Counting \cup Opened(P)) <= MaxPositions,
         tokens' \in Seq(Tokens), UniqueIds(ToSet(tokens')),
         \A o \in ToSet(tokens') :
            \/ o \in P
            \/ o \in Known /\ o.id \notin Numbers(P)
            \/ o \in Known /\ o.id \in cut' /\ store'.tokens[o.id] = store.tokens[o.id],
         batch' \in [on: BOOLEAN, ids: SUBSET Ids], batch'.on => loop' = "drain",
         batch'.on => Counting \cup Opened(P) \subseteq batch'.ids,
         loop' = "dead" => tokens' = <<>>
  PROVE  PaperInv' /\ RowsMoveOn
<1>1. /\ StoreTyped /\ RowsAreOwn /\ RowsAgree /\ cut \subseteq 1..seen /\ seen \in 0..Launches
  BY DEF PaperInv
<1>2. PICK T : T = ToSet(tokens')
  OBVIOUS
<1>3. Copies(T)'
  BY <1>1, <1>2, KnownFits, ChangeKeepsCopies
<1>4. Copies(OnDeque)'
  BY <1>2, <1>3 DEF OnDeque
<1>5. /\ StoreTyped' /\ RowsAreOwn' /\ RowsAgree' /\ cut' \subseteq 1..seen' /\ RowsMoveOn
      /\ Counting' \subseteq Counting \cup Opened(P)
  BY <1>1, ChangeKeepsRows
<1>6. PICK C : C = Counting \cup Opened(P)
  OBVIOUS
<1>7. IsFiniteSet(C)
  <2>1. C \subseteq Ids
    BY <1>1, <1>6, CountingIs DEF Opened
  <2>2. IsFiniteSet(Ids)
    BY PaperConstants, FS_Interval DEF Ids
  <2> QED
    BY <2>1, <2>2, FS_Subset
<1>8. PICK D : D = Counting'
  OBVIOUS
<1>9. Cardinality(D) <= Cardinality(C) /\ Cardinality(D) \in Nat /\ Cardinality(C) \in Nat
  BY <1>5, <1>6, <1>7, <1>8, FS_Subset, FS_CardinalityType
<1>10. Cardinality(Counting') <= MaxPositions
  BY <1>6, <1>8, <1>9, PaperConstants
<1> QED
  BY <1>4, <1>5, <1>10 DEF PaperInv

\* What a handler saves of one token: its trade, its session and its own row,
LEMMA ThreeRows ==
  ASSUME NEW o, NEW ws, ws \in {TradeRows(o) \o TokenRow(o), TokenRow(o) \o TradeRows(o)}
  PROVE  RowsOf(ws, {o}) /\ Len(ws) = 3 /\ \A t \in Tables : Has(ws, t, o)
<1>1. PICK a, b, c : a = Row("trades", o) /\ b = Row("sessions", o) /\ c = Row("tokens", o)
  OBVIOUS
<1>2. PICK S : S = {a, b, c}
  OBVIOUS
<1>3. <<a, b>> \in Seq(S) /\ <<c>> \in Seq(S) /\ Len(<<a, b>>) = 2 /\ Len(<<c>>) = 1
  BY <1>2
<1>4. ws \in {<<a, b>> \o <<c>>, <<c>> \o <<a, b>>}
  BY <1>1 DEF TradeRows, TokenRow
<1>5. CASE ws = <<a, b>> \o <<c>>
  <2>1. Len(ws) = 3 /\ ws[1] = a /\ ws[2] = b /\ ws[3] = c
    BY <1>3, <1>5, ConcatProperties
  <2> QED
    BY <1>1, <2>1 DEF RowsOf, Has, Tables
<1>6. CASE ws = <<c>> \o <<a, b>>
  <2>1. Len(ws) = 3 /\ ws[1] = c /\ ws[2] = a /\ ws[3] = b
    BY <1>3, <1>6, ConcatProperties
  <2> QED
    BY <1>1, <2>1 DEF RowsOf, Has, Tables
<1> QED
  BY <1>4, <1>5, <1>6

\* ... or that row alone.
LEMMA OneRow ==
  ASSUME NEW o \in Tokens, NEW ws,
         ws \in {<<>> \o TokenRow(o), TokenRow(o) \o <<>>, TokenRow(o)}
  PROVE  /\ RowsOf(ws, {o}) /\ Len(ws) = 1 /\ Has(ws, "tokens", o)
         /\ ~Has(ws, "trades", o) /\ ~Has(ws, "sessions", o)
<1>1. PICK c : c = Row("tokens", o)
  OBVIOUS
<1>2. <<c>> \in Seq({c}) /\ Len(<<c>>) = 1 /\ <<c>>[1] = c
  OBVIOUS
<1>3. ws = <<c>>
  BY <1>1, <1>2, ConcatEmptySeq DEF TokenRow
<1>4. c.table = "tokens" /\ Row("trades", o).table = "trades" /\ Row("sessions", o).table = "sessions"
  BY <1>1, RowIs DEF Tables
<1> QED
  BY <1>1, <1>2, <1>3, <1>4 DEF RowsOf, Has, Tables

\* Some tokens of a deque replaced by others.
LEMMA ReplaceFits ==
  ASSUME NEW s \in Seq(Tokens), UniqueIds(ToSet(s)), NEW S \in SUBSET Tokens, UniqueIds(S)
  PROVE  /\ Replace(s, S) \in Seq(Tokens) /\ UniqueIds(ToSet(Replace(s, S)))
         /\ \A o \in ToSet(Replace(s, S)) : o \in S \/ (o \in ToSet(s) /\ o.id \notin Numbers(S))
<1>1. PICK n \in Nat : n = Len(s)
  BY LenProperties
<1>2. DOMAIN s = 1..n /\ \A k \in 1..n : s[k] \in Tokens /\ s[k] \in ToSet(s)
  BY <1>1, LenProperties, ElementOfSeq DEF ToSet
<1>3. PICK t : t = Replace(s, S)
  OBVIOUS
<1>4. /\ DOMAIN t = 1..n
      /\ \A k \in 1..n : t[k] = IF s[k].id \in Numbers(S) THEN CHOOSE o \in S : o.id = s[k].id
                                ELSE s[k]
      /\ t = [k \in 1..n |-> t[k]]
  BY <1>2, <1>3 DEF Replace
<1>5. ASSUME NEW k \in 1..n
      PROVE  t[k] \in Tokens /\ (t[k] \in S \/ (t[k] \in ToSet(s) /\ t[k].id \notin Numbers(S)))
  <2>1. CASE s[k].id \in Numbers(S)
    <3>1. \E o \in S : o.id = s[k].id
      BY <2>1 DEF Numbers
    <3>2. t[k] \in S
      BY <1>4, <2>1, <3>1
    <3> QED
      BY <3>2
  <2>2. CASE s[k].id \notin Numbers(S)
    BY <1>2, <1>4, <2>2
  <2> QED
    BY <2>1, <2>2
<1>6. t \in Seq(Tokens)
  <2>1. t \in [1..n -> Tokens]
    BY <1>4, <1>5
  <2> QED
    BY <2>1, SeqDef
<1>7. \A o \in ToSet(t) : o \in S \/ (o \in ToSet(s) /\ o.id \notin Numbers(S))
  BY <1>4, <1>5 DEF ToSet
<1>8. UniqueIds(ToSet(t))
  <2>1. \A o \in S : o.id \in Numbers(S)
    BY DEF Numbers
  <2> QED
    BY <1>7, <2>1 DEF UniqueIds
<1> QED
  BY <1>3, <1>6, <1>7, <1>8

\* A drain's deque.
LEMMA DrainFits ==
  ASSUME PaperInv
  PROVE  /\ DequeForBatch \in Seq(Tokens) /\ ToSet(DequeForBatch) \subseteq Known
         /\ UniqueIds(ToSet(DequeForBatch))
<1>1. tokens \in Seq(Tokens) /\ ToSet(tokens) \subseteq Known
  BY DEF PaperInv, Known, OnDeque
<1>2. DequeForBatch \in Seq(Tokens) /\ ToSet(DequeForBatch) \subseteq Known
  BY <1>1, LoadedFits DEF DequeForBatch
<1> QED
  BY <1>2, KnownFits, CopiesOf DEF Copies

\* What a drain takes for open has all that count.
LEMMA CountFits ==
  ASSUME PaperInv
  PROVE  OpenForBatch \subseteq Ids /\ IsFiniteSet(OpenForBatch) /\ Counting \subseteq OpenForBatch
<1>1. Counting \subseteq Numbers(OpenRows)
  BY CountingIs DEF PaperInv
<1>2. Numbers(OpenRows) \subseteq Ids
  BY RowsFit DEF PaperInv, Numbers, OpenRows
<1>3. OpenForBatch \subseteq Ids /\ Counting \subseteq OpenForBatch
  BY <1>1, <1>2 DEF PaperInv, OpenForBatch
<1>4. IsFiniteSet(Ids)
  BY PaperConstants, FS_Interval DEF Ids
<1> QED
  BY <1>3, <1>4, FS_Subset

\* What becomes of a launch.
LEMMA LaunchedIs ==
  ASSUME NEW i \in Ids, NEW buys \in BOOLEAN, NEW o,
         o = IF buys THEN Bought(i) ELSE [Blank(i) EXCEPT !.status = "skipped"]
  PROVE  /\ o \in Tokens /\ o.id = i /\ o.status # "none" /\ o.status # "paper_sold"
         /\ IsOpen(o) => buys
<1>1. Bought(i) \in Tokens /\ Bought(i).id = i /\ Bought(i).status \in {"buying", "paper_bought"}
  <2>1. PICK st \in {"buying", "paper_bought"} :
          st = IF FillDelay > 0 THEN "buying" ELSE "paper_bought"
    OBVIOUS
  <2>2. PICK q : q = [id |-> i, status |-> st, ticks |-> 0, delay |-> FillDelay]
    OBVIOUS
  <2>3. Bought(i) = q
    <3>1. PICK b : b = [id |-> i, status |-> "none", ticks |-> 0, delay |-> 0]
      OBVIOUS
    <3>2. Bought(i) = [b EXCEPT !.status = st, !.delay = FillDelay]
      BY <2>1, <3>1 DEF Bought, Blank
    <3> QED
      BY <2>2, <3>1, <3>2
  <2>4. FillDelay \in 0..FillDelay /\ 0 \in 0..LastTick
    BY PaperConstants
  <2>5. q \in Tokens
    BY <2>1, <2>2, <2>4 DEF Tokens, OpenStatuses
  <2> QED
    BY <2>1, <2>2, <2>3, <2>5
<1>2. PICK p : p = [Blank(i) EXCEPT !.status = "skipped"]
  OBVIOUS
<1>3. p \in Tokens /\ p.id = i /\ p.status = "skipped"
  BY <1>2, PaperConstants DEF Blank, Tokens, OpenStatuses
<1> QED
  BY <1>1, <1>2, <1>3 DEF IsOpen, OpenStatuses

\* A launch is bought where there is room by that count, or skipped.
LEMMA IngestKeepsPositions ==
  ASSUME PaperInv, NEW wanted \in BOOLEAN, NEW fills \in BOOLEAN, NEW n,
         ingest_launch(wanted, fills, n)
  PROVE  PaperInv' /\ RowsMoveOn
<1>1. PICK i : i = seen + 1
  OBVIOUS
<1>2. i \in Ids /\ i \in 1..Launches /\ seen \in Nat /\ seen' = i /\ loop = "drain"
  BY <1>1, PaperConstants DEF PaperInv, ingest_launch, Ids
<1>3. PICK o : o = IF (wanted /\ Cardinality(OpenForBatch) < MaxPositions) /\ fills
                   THEN Bought(i) ELSE [Blank(i) EXCEPT !.status = "skipped"]
  OBVIOUS
<1>4. PICK ws : ws = (IF IsOpen(o) THEN TradeRows(o) ELSE <<>>) \o TokenRow(o)
  OBVIOUS
<1>5. /\ Writes(ws, n)
      /\ tokens' = IF n + 1 >= Len(ws) THEN Appended(o, DequeForBatch) ELSE DequeForBatch
      /\ IF n = Len(ws)
         THEN loop' = loop /\ batch' = [on |-> TRUE, ids |-> Counted(OpenForBatch, o)]
         ELSE loop' = "idle" /\ batch' = NoBatch
  BY <1>1, <1>3, <1>4 DEF ingest_launch
<1>6. /\ o \in Tokens /\ o.id = i /\ o.status # "none" /\ o.status # "paper_sold"
      /\ IsOpen(o) => Cardinality(OpenForBatch) < MaxPositions
  BY <1>2, <1>3, LaunchedIs
<1>7. /\ store.tokens[i] = Blank(i) /\ i \notin cut /\ i \notin Counting
      /\ ~IsOpen(store.tokens[i]) /\ store.tokens[i].status = "none"
  BY <1>1, <1>2 DEF PaperInv, RowsAreOwn, Counting, Blank, IsOpen, OpenStatuses
<1>8. ChangesWhole(ws, {o})
  <2>3. Behind(store.tokens[o.id], o)
    <3>1. PICK r : r = store.tokens[i]
      OBVIOUS
    <3>2. r \in Tokens /\ r.status = "none"
      BY <1>2, <1>7, <3>1 DEF PaperInv, StoreTyped
    <3>3. Progress(r) = 0 /\ Progress(o) > 0
      BY <1>6, <3>2, ProgressIs
    <3> QED
      BY <1>6, <3>1, <3>3 DEF Behind
  <2>1. CASE IsOpen(o)
    <3>1. RowsOf(ws, {o}) /\ \A t \in Tables : Has(ws, t, o)
      BY <1>4, <2>1, ThreeRows
    <3> QED
      BY <1>2, <1>6, <1>7, <2>1, <2>3, <3>1 DEF ChangesWhole, UniqueIds, Tables, Expected
  <2>2. CASE ~IsOpen(o)
    <3>1. RowsOf(ws, {o}) /\ Has(ws, "tokens", o) /\ ~Has(ws, "trades", o) /\ ~Has(ws, "sessions", o)
      BY <1>4, <1>6, <2>2, OneRow
    <3>2. Expected(o) = Expected(store.tokens[o.id])
      BY <1>6, <1>7, <2>2 DEF Expected
    <3> QED
      BY <1>2, <1>6, <1>7, <2>3, <3>1, <3>2 DEF ChangesWhole, UniqueIds
  <2> QED
    BY <2>1, <2>2
<1>9. Opened({o}) = IF IsOpen(o) THEN {i} ELSE {}
  BY <1>2, <1>6, <1>7 DEF Opened
<1>10. Cardinality(Counting \cup Opened({o})) <= MaxPositions
  <2>1. IsFiniteSet(Counting) /\ Cardinality(Counting) \in Nat /\ Cardinality(Counting) <= MaxPositions
    BY CountingIs, FS_CardinalityType DEF PaperInv
  <2>2. CASE IsOpen(o)
    <3>1. Cardinality(Counting) <= Cardinality(OpenForBatch) /\ Cardinality(OpenForBatch) \in Nat
      BY CountFits, FS_Subset, FS_CardinalityType
    <3>2. Cardinality(Counting \cup {i}) = Cardinality(Counting) + 1
      BY <1>7, <2>1, FS_AddElement
    <3>3. Cardinality(OpenForBatch) < MaxPositions
      BY <1>6, <2>2
    <3>4. Cardinality(Counting) + 1 <= MaxPositions
      BY <2>1, <3>1, <3>3, PaperConstants
    <3> QED
      BY <1>9, <2>2, <3>2, <3>4
  <2>3. CASE ~IsOpen(o)
    <3>1. Counting \cup Opened({o}) = Counting
      BY <1>9, <2>3
    <3> QED
      BY <2>1, <3>1
  <2> QED
    BY <2>2, <2>3
<1>11. PICK s \in Seq(Tokens) : s = DequeForBatch /\ ToSet(s) \subseteq Known /\ UniqueIds(ToSet(s))
  BY DrainFits
<1>12. \A p \in Known : p.id <= seen /\ p.id \in Ids /\ p.id # i
  BY <1>1, <1>2, KnownFits DEF Copies, Tokens, Ids
<1>13. tokens' \in Seq(Tokens) /\ ToSet(tokens') \subseteq ToSet(s) \cup {o}
  <2>1. PICK u \in Seq(Tokens) : u = <<o>> /\ ToSet(u) = {o}
    <3>1. <<o>> \in Seq(Tokens)
      BY <1>6
    <3>2. ToSet(<<o>>) = {o}
      BY DEF ToSet
    <3> QED
      BY <3>1, <3>2
  <2>2. u \o s \in Seq(Tokens) /\ ToSet(u \o s) = {o} \cup ToSet(s)
    <3>1. u \o s \in Seq(Tokens) /\ ToSet(u \o s) = ToSet(u) \cup ToSet(s)
      BY BothOf
    <3> QED
      BY <2>1, <3>1
  <2>3. PICK m \in Int : m = Max({DequeSize, Len(s)})
    <3>1. PICK l \in Nat, d \in Nat : l = Len(s) /\ d = DequeSize
      BY <1>11, PaperConstants, LenProperties
    <3>2. \E m \in {d, l} : \A k \in {d, l} : m >= k
      OBVIOUS
    <3>3. PICK m \in {d, l} : m = Max({d, l})
      BY <3>2 DEF Max
    <3> QED
      BY <3>1, <3>3
  <2>4. First(u \o s, m) \in Seq(Tokens) /\ ToSet(First(u \o s, m)) \subseteq {o} \cup ToSet(s)
    BY <2>2, FirstOf
  <2>5. tokens' \in {First(u \o s, m), s}
    BY <1>5, <1>11, <2>1, <2>3 DEF Appended
  <2> QED
    BY <1>11, <2>4, <2>5
<1>14. UniqueIds(ToSet(tokens'))
  BY <1>6, <1>11, <1>12, <1>13 DEF UniqueIds
<1>15. \A p \in ToSet(tokens') : p \in {o} \/ (p \in Known /\ p.id \notin Numbers({o}))
  BY <1>6, <1>11, <1>12, <1>13 DEF Numbers
<1>16. /\ batch' \in [on: BOOLEAN, ids: SUBSET Ids]
       /\ batch'.on => loop' = "drain" /\ Counting \cup Opened({o}) \subseteq batch'.ids
       /\ loop' # "dead"
  <2>1. PICK B \in SUBSET Ids : B = Counted(OpenForBatch, o) /\ Counting \cup Opened({o}) \subseteq B
    <3>1. Counted(OpenForBatch, o) \subseteq Ids
          /\ Counting \cup Opened({o}) \subseteq Counted(OpenForBatch, o)
      BY <1>2, <1>6, <1>7, <1>9, CountFits DEF Counted
    <3> QED
      BY <3>1
  <2>2. CASE loop' = loop /\ batch' = [on |-> TRUE, ids |-> B]
    BY <1>2, <2>1, <2>2
  <2>3. CASE loop' = "idle" /\ batch' = NoBatch
    <3>1. NoBatch \in [on: BOOLEAN, ids: SUBSET Ids] /\ ~NoBatch.on
      BY DEF NoBatch
    <3> QED
      BY <2>3, <3>1
  <2> QED
    BY <1>5, <2>1, <2>2, <2>3
<1>17. seen' \in 0..Launches /\ seen <= seen'
  BY <1>1, <1>2, PaperConstants
<1> QED
  BY <1>5, <1>8, <1>10, <1>13, <1>14, <1>15, <1>16, <1>17, LoudStep

\* A change that opens no position.
LEMMA OpensNone ==
  ASSUME PaperInv, NEW P, \A p \in P : IsOpen(p) => p.id \in cut \/ IsOpen(store.tokens[p.id])
  PROVE  /\ Opened(P) = {} /\ Counting \cup Opened(P) = Counting
         /\ Cardinality(Counting \cup Opened(P)) <= MaxPositions
<1>1. Opened(P) = {}
  BY DEF Opened
<1>2. Counting \cup Opened(P) = Counting
  BY <1>1
<1> QED
  BY <1>1, <1>2 DEF PaperInv

\* What a drain or a tick leaves of the batch is of its type.
LEMMA BatchFits ==
  ASSUME PaperInv, batch' \in {batch, NoBatch}, batch'.on => loop' = "drain"
  PROVE  /\ batch' \in [on: BOOLEAN, ids: SUBSET Ids]
         /\ batch'.on => loop' = "drain" /\ Counting \subseteq batch'.ids
<1>1. NoBatch \in [on: BOOLEAN, ids: SUBSET Ids] /\ ~NoBatch.on
  BY DEF NoBatch
<1> QED
  BY <1>1 DEF PaperInv

\* A trade that is observed saves the token's row and no more.
LEMMA TradeKeepsPositions ==
  ASSUME PaperInv, NEW n, apply_observed_trade(n)
  PROVE  PaperInv' /\ RowsMoveOn
<1>1. PICK s \in Seq(Tokens) : s = DequeForBatch /\ ToSet(s) \subseteq Known /\ UniqueIds(ToSet(s))
  BY DrainFits
<1>2. PICK o \in ToSet(s) :
        /\ IsOpen(o) /\ Writes(TokenRow(o), n) /\ tokens' = s
        /\ IF n = 1 THEN UNCHANGED <<loop, batch>> ELSE loop' = "idle" /\ batch' = NoBatch
  BY <1>1 DEF apply_observed_trade
<1>3. loop = "drain" /\ seen' = seen
  BY DEF apply_observed_trade
<1>4. o \in Known /\ o \in Tokens /\ o.id \in Ids /\ o.id <= seen
      /\ (o.id \notin cut => store.tokens[o.id] = o)
      /\ Behind(store.tokens[o.id], o)
  BY <1>1, KnownFits DEF Copies, Tokens
<1>5. PICK ws : ws = TokenRow(o)
  OBVIOUS
<1>6. ChangesWhole(ws, {o})
  <2>1. RowsOf(ws, {o}) /\ Has(ws, "tokens", o) /\ ~Has(ws, "trades", o) /\ ~Has(ws, "sessions", o)
    BY <1>4, <1>5, OneRow
  <2> QED
    BY <1>3, <1>4, <2>1 DEF ChangesWhole, UniqueIds
<1>7. /\ Cardinality(Counting \cup Opened({o})) <= MaxPositions
      /\ Counting \cup Opened({o}) = Counting
  <2>1. PICK P : P = {o}
    OBVIOUS
  <2>2. \A p \in P : IsOpen(p) => p.id \in cut \/ IsOpen(store.tokens[p.id])
    BY <1>2, <1>4, <2>1
  <2>3. /\ Cardinality(Counting \cup Opened(P)) <= MaxPositions
        /\ Counting \cup Opened(P) = Counting
    BY <2>2, OpensNone
  <2> QED
    BY <2>1, <2>3
<1>8. \A p \in ToSet(tokens') : p \in {o} \/ (p \in Known /\ p.id \notin Numbers({o}))
  BY <1>1, <1>2 DEF UniqueIds, Numbers
<1>9. /\ batch' \in [on: BOOLEAN, ids: SUBSET Ids]
      /\ batch'.on => loop' = "drain" /\ Counting \subseteq batch'.ids
      /\ loop' # "dead"
  <2>1. /\ batch' \in {batch, NoBatch} /\ (batch'.on => loop' = "drain") /\ loop' # "dead"
    BY <1>2, <1>3 DEF NoBatch
  <2> QED
    BY <2>1, BatchFits
<1>10. seen' \in 0..Launches /\ seen <= seen'
  BY <1>3 DEF PaperInv
<1> QED
  BY <1>1, <1>2, <1>5, <1>6, <1>7, <1>8, <1>9, <1>10, LoudStep

\* The turns of the loop that write no row.
LEMMA TurnsKeepPositions ==
  ASSUME PaperInv, drain_begins \/ drain_is_over \/ tick_is_over \/ PaperStops
                   \/ UNCHANGED paperVars
  PROVE  PaperInv' /\ RowsMoveOn
<1>1. /\ tokens \in Seq(Tokens) /\ ToSet(tokens) \subseteq Known
      /\ Loaded(tokens) \in Seq(Tokens) /\ ToSet(Loaded(tokens)) \subseteq Known
  BY LoadedFits DEF PaperInv, Known, OnDeque
<1>2. << >> \in Seq(Tokens) /\ ToSet(<< >>) \subseteq Known
  BY DEF ToSet
<1>3. ~NoBatch.on
  BY DEF NoBatch
<1>4. CASE drain_begins
  BY <1>1, <1>3, <1>4, QuietStep DEF drain_begins
<1>5. CASE drain_is_over
  <2>1. /\ UNCHANGED <<store, seen, cut>>
        /\ tokens' = Loaded(tokens) /\ batch' = NoBatch /\ loop' = "tick"
    BY <1>5 DEF drain_is_over
  <2> QED
    BY <1>1, <1>3, <2>1, QuietStep
<1>6. CASE tick_is_over
  <2>1. /\ UNCHANGED <<store, seen, cut, batch>>
        /\ tokens' = Loaded(tokens) /\ loop = "tick" /\ loop' = "idle"
    BY <1>6 DEF tick_is_over
  <2>2. ~batch'.on
    BY <2>1 DEF PaperInv
  <2> QED
    BY <1>1, <2>1, <2>2, QuietStep
<1>7. CASE PaperStops
  BY <1>2, <1>3, <1>7, QuietStep DEF PaperStops
<1>8. CASE UNCHANGED paperVars
  <2>1. /\ UNCHANGED <<store, seen, cut, batch, tokens, loop>>
    BY <1>8 DEF paperVars
  <2>2. batch'.on => loop' = "drain"
    BY <2>1 DEF PaperInv
  <2>3. loop' = "dead" => tokens' = <<>>
    BY <2>1 DEF PaperInv
  <2> QED
    BY <1>1, <2>1, <2>2, <2>3, QuietStep
<1> QED
  BY <1>4, <1>5, <1>6, <1>7, <1>8

\* A tick counts, fills or sells a position.
LEMMA TickedIs ==
  ASSUME NEW o \in Tokens, IsOpen(o), NEW closes \in BOOLEAN, NEW held \in BOOLEAN,
         held => o.ticks < HoldTicks
  PROVE  /\ Ticked(o, closes, held) \in Tokens /\ Ticked(o, closes, held).id = o.id
         /\ Ticked(o, closes, held).status \in OpenStatuses \cup {"paper_sold"}
         /\ Progress(o) < Progress(Ticked(o, closes, held))
<1>1. PICK st, d, t : st = o.status /\ d = o.delay /\ t = o.ticks
  OBVIOUS
<1>2. st \in OpenStatuses /\ d \in 0..FillDelay /\ t \in 0..LastTick /\ o.id \in Ids
  BY <1>1 DEF Tokens, IsOpen
<1>3. PICK S : S = OpenStatuses \cup {"none", "paper_sold", "skipped"}
  OBVIOUS
<1>4. o \in [id: Ids, status: S, ticks: 0..LastTick, delay: 0..FillDelay]
      /\ "paper_sold" \in S /\ "paper_bought" \in S /\ "monitoring" \in S
  BY <1>3 DEF Tokens, OpenStatuses
<1>5. PICK p : p = Ticked(o, closes, held)
  OBVIOUS
<1>6. CASE p = Sold(o)
  BY <1>5, <1>6, SoldIsFurther
<1>7. ASSUME NEW q \in Tokens, q.status \in OpenStatuses, NEW e \in 0..FillDelay, e = q.delay,
             NEW f \in 0..LastTick, f = q.ticks, (e = d - 1 /\ f = t) \/ (e = d /\ f = t + 1)
      PROVE  Progress(o) < Progress(q)
  <2>1. Progress(o) = 1 + (FillDelay - d) + t
    <3>1. o.status \notin {"paper_sold", "none"}
      BY DEF IsOpen, OpenStatuses
    <3> QED
      BY <1>1, <3>1, ProgressIs
  <2>2. Progress(q) = 1 + (FillDelay - e) + f
    <3>1. q.status \notin {"paper_sold", "none"}
      BY <1>7 DEF OpenStatuses
    <3> QED
      BY <1>7, <3>1, ProgressIs
  <2>3. 1 + (FillDelay - d) + t < 1 + (FillDelay - e) + f
    BY <1>2, <1>7, PaperConstants
  <2> QED
    BY <2>1, <2>2, <2>3
<1>8. CASE d > 0 /\ \E u \in {st, "paper_bought"} : p = [o EXCEPT !.delay = d - 1, !.status = u]
  <2>1. PICK u \in {st, "paper_bought"} : p = [o EXCEPT !.delay = d - 1, !.status = u]
    BY <1>8
  <2>2. PICK e \in 0..FillDelay : e = d - 1
    BY <1>2, <1>8, PaperConstants
  <2>3. u \in OpenStatuses /\ u \in S
    BY <1>2, <1>3 DEF OpenStatuses
  <2>4. p \in [id: Ids, status: S, ticks: 0..LastTick, delay: 0..FillDelay]
        /\ p.id = o.id /\ p.status = u /\ p.delay = e /\ p.ticks = t
    BY <1>1, <1>4, <2>1, <2>2, <2>3
  <2>5. p \in Tokens
    BY <1>3, <2>4 DEF Tokens
  <2>6. Progress(o) < Progress(p)
    BY <1>7, <2>2, <2>3, <2>4, <2>5
  <2> QED
    BY <1>5, <2>3, <2>4, <2>5, <2>6
<1>9. CASE t + 1 <= LastTick /\ p = [o EXCEPT !.ticks = t + 1, !.status = "monitoring"]
  <2>1. PICK e \in 0..LastTick : e = t + 1
    BY <1>2, <1>9, PaperConstants
  <2>2. p \in [id: Ids, status: S, ticks: 0..LastTick, delay: 0..FillDelay]
        /\ p.id = o.id /\ p.status = "monitoring" /\ p.delay = d /\ p.ticks = e
    BY <1>1, <1>4, <1>9, <2>1
  <2>3. p \in Tokens /\ p.status \in OpenStatuses
    BY <1>3, <2>2 DEF Tokens, OpenStatuses
  <2>4. Progress(o) < Progress(p)
    BY <1>7, <2>1, <2>2, <2>3
  <2> QED
    BY <1>5, <2>2, <2>3, <2>4
<1> QED
  <2>1. CASE closes
    BY <1>5, <1>6, <2>1 DEF Ticked
  <2>2. CASE ~closes /\ st = "buying" /\ d > 0
    <3>1. PICK u \in {st, "paper_bought"} : u = IF d = 1 THEN "paper_bought" ELSE st
      OBVIOUS
    <3>2. p = [o EXCEPT !.delay = d - 1, !.status = u]
      BY <1>1, <1>5, <2>2, <3>1 DEF Ticked
    <3> QED
      BY <1>8, <2>2, <3>2
  <2>3. CASE ~closes /\ ~(st = "buying" /\ d > 0) /\ ~held /\ t + 1 >= MaxTicks
    BY <1>1, <1>5, <1>6, <2>3 DEF Ticked
  <2>4. CASE ~closes /\ ~(st = "buying" /\ d > 0) /\ ~(~held /\ t + 1 >= MaxTicks)
    <3>1. p = [o EXCEPT !.ticks = t + 1, !.status = "monitoring"]
      BY <1>1, <1>5, <2>4 DEF Ticked
    <3>2. t + 1 <= LastTick
      <4>1. CASE held
        <5>1. t < HoldTicks
          BY <1>1, <4>1
        <5> QED
          BY <1>2, <5>1, PaperConstants
      <4>2. CASE ~held
        BY <1>2, <2>4, <4>2, PaperConstants
      <4> QED
        BY <4>1, <4>2
    <3> QED
      BY <1>9, <3>1, <3>2
  <2> QED
    BY <2>1, <2>2, <2>3, <2>4

\* The rows that a tick saves of a position: its own, and those of its trade and
\* session when it is sold.
LEMMA TickedRows ==
  ASSUME PaperInv, NEW o \in OnDeque, NEW p \in Tokens, p.id = o.id, seen' = seen,
         \/ p = o /\ ~IsOpen(o)
         \/ IsOpen(o) /\ p.status \in OpenStatuses \cup {"paper_sold"},
         Behind(o, p),
         NEW ws, ws = TokenRow(p) \o (IF IsOpen(o) /\ ~IsOpen(p) THEN TradeRows(p) ELSE <<>>)
  PROVE  /\ ChangesWhole(ws, {p})
         /\ Cardinality(Counting \cup Opened({p})) <= MaxPositions
         /\ Counting \cup Opened({p}) = Counting
<1>1. /\ o \in Tokens /\ o.id \in Ids /\ o.id <= seen
      /\ o.id \notin cut => store.tokens[o.id] = o
      /\ Behind(store.tokens[o.id], o)
  BY DEF PaperInv, Copies, Tokens
<1>2. Behind(store.tokens[p.id], p)
  <2>1. PICK r \in Tokens : r = store.tokens[o.id]
    BY <1>1 DEF PaperInv, StoreTyped
  <2>2. Behind(r, p)
    BY <1>1, <2>1, FurtherBehind
  <2> QED
    BY <2>1, <2>2
<1>3. ChangesWhole(ws, {p})
  <2>1. CASE IsOpen(o) /\ ~IsOpen(p)
    <3>1. RowsOf(ws, {p}) /\ \A t \in Tables : Has(ws, t, p)
      BY <2>1, ThreeRows
    <3>2. Expected(p) # "none"
      BY <2>1 DEF Expected, IsOpen, OpenStatuses
    <3> QED
      BY <1>1, <1>2, <3>1, <3>2 DEF ChangesWhole, UniqueIds, Tables
  <2>2. CASE ~(IsOpen(o) /\ ~IsOpen(p))
    <3>1. RowsOf(ws, {p}) /\ Has(ws, "tokens", p) /\ ~Has(ws, "trades", p) /\ ~Has(ws, "sessions", p)
      BY <2>2, OneRow
    <3>2. p.id \notin cut => Expected(p) = Expected(store.tokens[p.id])
      BY <1>1, <2>2 DEF Expected
    <3> QED
      BY <1>1, <1>2, <3>1, <3>2 DEF ChangesWhole, UniqueIds
  <2> QED
    BY <2>1, <2>2
<1>4. PICK P : P = {p}
  OBVIOUS
<1>5. \A q \in P : IsOpen(q) => q.id \in cut \/ IsOpen(store.tokens[q.id])
  BY <1>1, <1>4
<1>6. /\ Cardinality(Counting \cup Opened(P)) <= MaxPositions
      /\ Counting \cup Opened(P) = Counting
  BY <1>5, OpensNone
<1> QED
  BY <1>3, <1>4, <1>6

\* One turn of the tick.
LEMMA TickKeepsPositions ==
  ASSUME PaperInv, NEW closes \in BOOLEAN, NEW held \in BOOLEAN, NEW n, tick(closes, held, n)
  PROVE  PaperInv' /\ RowsMoveOn
<1>1. PICK o, p, ws :
        /\ o \in OnDeque
        /\ p = IF IsOpen(o) THEN Ticked(o, closes, held) ELSE o
        /\ closes => IsOpen(o)
        /\ held => o.ticks < HoldTicks
        /\ ws = IF ~IsOpen(o) /\ store.tokens[o.id] = o THEN <<>>
                ELSE TokenRow(p) \o (IF IsOpen(o) /\ ~IsOpen(p) THEN TradeRows(p) ELSE <<>>)
        /\ Writes(ws, n) /\ tokens' = Replace(tokens, {p})
        /\ loop' \in {loop, "idle"}
  BY DEF tick
<1>2. loop = "tick" /\ UNCHANGED <<batch, seen>>
  BY DEF tick
<1>3. ~batch.on /\ loop' # "dead" /\ seen \in 0..Launches /\ seen <= seen
      /\ batch \in [on: BOOLEAN, ids: SUBSET Ids]
  BY <1>1, <1>2 DEF PaperInv
<1>4. o \in Tokens
  BY <1>1 DEF PaperInv, Copies
<1>5. /\ p \in Tokens /\ p.id = o.id
      /\ \/ p = o /\ ~IsOpen(o)
         \/ IsOpen(o) /\ p.status \in OpenStatuses \cup {"paper_sold"}
      /\ Behind(o, p)
  BY <1>1, <1>4, TickedIs DEF Behind
<1>6. PICK s \in Seq(Tokens) : s = tokens /\ ToSet(s) = OnDeque /\ UniqueIds(ToSet(s))
  BY DEF PaperInv, OnDeque, Copies
<1>7. PICK r \in Seq(Tokens) :
        /\ r = Replace(s, {p}) /\ UniqueIds(ToSet(r))
        /\ \A q \in ToSet(r) : q \in {p} \/ (q \in ToSet(s) /\ q.id \notin Numbers({p}))
  <2>1. PICK P \in SUBSET Tokens : P = {p} /\ UniqueIds(P)
    <3>1. {p} \in SUBSET Tokens /\ UniqueIds({p})
      BY <1>5 DEF UniqueIds
    <3> QED
      BY <3>1
  <2>2. /\ Replace(s, P) \in Seq(Tokens) /\ UniqueIds(ToSet(Replace(s, P)))
        /\ \A q \in ToSet(Replace(s, P)) : q \in P \/ (q \in ToSet(s) /\ q.id \notin Numbers(P))
    BY <1>6, <2>1, ReplaceFits
  <2> QED
    BY <2>1, <2>2
<1>8. OnDeque \subseteq Known
  BY KnownFits
<1>9. CASE ~IsOpen(o) /\ store.tokens[o.id] = o
  <2>1. ws = <<>> /\ p = o
    BY <1>1, <1>9
  <2>2. UNCHANGED <<store, cut>>
    <3>1. n = 0 /\ Len(ws) = 0 /\ DOMAIN store = Tables
      <4>1. Len(ws) = 0
        BY <2>1
      <4>2. n \in 0..Len(ws)
        BY <1>1 DEF Writes
      <4>3. DOMAIN store = Tables
        BY DEF PaperInv, StoreTyped, Tables
      <4> QED
        BY <4>1, <4>2, <4>3
    <3>2. cut' = cut
      <4>1. cut' = cut \cup {ws[k].id : k \in (n + 1)..Len(ws)}
        BY <1>1 DEF Writes
      <4>2. (n + 1)..Len(ws) = {}
        BY <3>1
      <4> QED
        BY <4>1, <4>2
    <3>3. \A t \in Tables, i \in Ids : store'[t][i] = store[t][i]
      BY <1>1, <3>1, WritesOne DEF PaperInv
    <3>4. store' = [t \in Tables |-> [i \in Ids |-> store'[t][i]]]
      BY <1>1, <3>1 DEF Writes
    <3>5. store = [t \in Tables |-> [i \in Ids |-> store[t][i]]]
      <4>1. \A t \in Tables : store[t] = [i \in Ids |-> store[t][i]]
        BY DEF PaperInv, StoreTyped, Tables
      <4>2. store = [t \in Tables |-> store[t]]
        BY DEF PaperInv, StoreTyped, Tables
      <4> QED
        BY <4>1, <4>2
    <3> QED
      BY <3>2, <3>3, <3>4, <3>5
  <2>3. tokens' \in Seq(Tokens) /\ ToSet(tokens') \subseteq Known
    BY <1>1, <1>6, <1>7, <1>8, <2>1
  <2> QED
    BY <1>2, <1>3, <2>2, <2>3, QuietStep
<1>10. CASE ~(~IsOpen(o) /\ store.tokens[o.id] = o)
  <2>1. /\ ChangesWhole(ws, {p}) /\ Counting \cup Opened({p}) = Counting
        /\ Cardinality(Counting \cup Opened({p})) <= MaxPositions
    BY <1>1, <1>2, <1>5, <1>10, TickedRows
  <2>2. tokens' = r
    BY <1>1, <1>6, <1>7
  <2>3. \A q \in ToSet(tokens') : q \in {p} \/ (q \in Known /\ q.id \notin Numbers({p}))
    BY <1>6, <1>7, <1>8, <2>2
  <2> QED
    BY <1>1, <1>2, <1>3, <1>7, <2>1, <2>2, <2>3, LoudStep
<1> QED
  BY <1>9, <1>10

\* The rows of each position sold stand together, three of them.
ByThree(ws, order) ==
    /\ Len(ws) = 3 * Len(order)
    /\ \A k \in 1..Len(ws) :
          /\ (k + 2) \div 3 \in 1..Len(order)
          /\ \E t \in Tables : ws[k] = Row(t, Sold(order[(k + 2) \div 3]))
    /\ \A j \in 1..Len(order), t \in Tables : \E i \in 0..2 :
          ws[3 * j - 2 + i] = Row(t, Sold(order[j])) /\ 3 * j - 2 + i \in 1..Len(ws)

\* What a sale of one position after the other saves.
LEMMA SoldRows ==
  ASSUME NEW order \in Seq(Tokens), NEW tables \in {RecoveredTables, OrphanTables},
         NEW ws, ws = SoldInTurn(order, tables)
  PROVE  ByThree(ws, order)
<1>1. PICK l \in Nat : l = Len(order)
  BY LenProperties
<1>2. /\ tables[1] \in Tables /\ tables[2] \in Tables /\ tables[3] \in Tables
      /\ \A t \in Tables : tables[1] = t \/ tables[2] = t \/ tables[3] = t
  BY DEF RecoveredTables, OrphanTables, Tables
<1>3. /\ DOMAIN ws = 1..(3 * l)
      /\ \A k \in 1..(3 * l) : ws[k] = Row(tables[1 + ((k + 2) % 3)], Sold(order[(k + 2) \div 3]))
      /\ ws = [k \in 1..(3 * l) |-> ws[k]]
  BY <1>1 DEF SoldInTurn
<1>4. Len(ws) = 3 * l
  <2>1. PICK m \in Nat : m = 3 * l
    BY <1>1
  <2>2. PICK R : R = {ws[k] : k \in 1..m}
    OBVIOUS
  <2>3. ws \in [1..m -> R]
    BY <1>3, <2>1, <2>2
  <2>4. ws \in Seq(R)
    BY <2>1, <2>3, SeqDef
  <2>5. Len(ws) \in Nat /\ DOMAIN ws = 1..Len(ws)
    BY <2>4, LenProperties
  <2> QED
    BY <1>3, <2>1, <2>5
<1>5. ASSUME NEW k \in 1..(3 * l)
      PROVE  /\ (k + 2) \div 3 \in 1..l
             /\ \E t \in Tables : ws[k] = Row(t, Sold(order[(k + 2) \div 3]))
  <2>1. (k + 2) \div 3 \in 1..l
    BY <1>1
  <2>2. (k + 2) % 3 \in {0, 1, 2}
    OBVIOUS
  <2>3. 1 + ((k + 2) % 3) \in {1, 2, 3}
    BY <2>2
  <2>4. tables[1 + ((k + 2) % 3)] \in Tables
    BY <1>2, <2>3
  <2> QED
    BY <1>3, <2>1, <2>4
<1>6. ASSUME NEW j \in 1..l, NEW i \in 0..2
      PROVE  /\ 3 * j - 2 + i \in 1..(3 * l)
             /\ ws[3 * j - 2 + i] = Row(tables[1 + i], Sold(order[j]))
  <2>1. PICK k \in Int : k = 3 * j - 2 + i
    OBVIOUS
  <2>2. k \in 1..(3 * l)
    BY <1>1, <2>1
  <2>3. (k + 2) \div 3 = j /\ (k + 2) % 3 = i
    BY <2>1
  <2> QED
    BY <1>3, <2>1, <2>2, <2>3
<1>7. ASSUME NEW j \in 1..l, NEW t \in Tables
      PROVE  \E i \in 0..2 : /\ ws[3 * j - 2 + i] = Row(t, Sold(order[j]))
                             /\ 3 * j - 2 + i \in 1..(3 * l)
  <2>1. PICK i \in 0..2 : tables[1 + i] = t
    <3>1. 0 \in 0..2 /\ 1 \in 0..2 /\ 2 \in 0..2 /\ 1 + 0 = 1 /\ 1 + 1 = 2 /\ 1 + 2 = 3
      OBVIOUS
    <3> QED
      BY <1>2, <3>1
  <2> QED
    BY <1>6, <2>1
<1> QED
  BY <1>1, <1>4, <1>5, <1>7 DEF ByThree

\* To sell some of the known tokens, one after the other, changes them as a whole.
LEMMA SalesAreWhole ==
  ASSUME PaperInv, seen' = seen, NEW O \in SUBSET Known, \A o \in O : IsOpen(o),
         NEW order \in Seq(O), ToSet(order) = O, NEW tables \in {RecoveredTables, OrphanTables}, NEW ws, ws = SoldInTurn(order, tables),
         NEW P, P = {Sold(o) : o \in O}
  PROVE  /\ ChangesWhole(ws, P) /\ Numbers(P) = Numbers(O)
         /\ Counting \cup Opened(P) = Counting
         /\ Cardinality(Counting \cup Opened(P)) <= MaxPositions
<1>1. Copies(O)
  BY KnownFits, CopiesOf
<1>2. O \subseteq Tokens /\ UniqueIds(O) /\ order \in Seq(Tokens)
  BY <1>1, SeqMonotonic DEF Copies
<1>3. \A o \in O : Sold(o) \in Tokens /\ Sold(o).id = o.id /\ Sold(o).status = "paper_sold"
  BY <1>2 DEF Sold, Tokens
<1>4. \A p \in P : \E o \in O : p = Sold(o)
  OBVIOUS
<1>5. P \subseteq Tokens /\ UniqueIds(P) /\ Numbers(P) = Numbers(O)
  <2>1. P \subseteq Tokens
    BY <1>3, <1>4
  <2>2. UniqueIds(P)
    BY <1>2, <1>3, <1>4 DEF UniqueIds
  <2>3. Numbers(P) = Numbers(O)
    BY <1>3, <1>4 DEF Numbers
  <2> QED
    BY <2>1, <2>2, <2>3
<1>6. PICK l \in Nat : l = Len(order) /\ DOMAIN order = 1..l /\ \A j \in 1..l : order[j] \in O
  BY LenProperties, ElementOfSeq
<1>7. /\ Len(ws) = 3 * l
      /\ \A k \in 1..Len(ws) :
            (k + 2) \div 3 \in 1..l /\ \E t \in Tables : ws[k] = Row(t, Sold(order[(k + 2) \div 3]))
      /\ \A j \in 1..l, t \in Tables : \E k \in 1..Len(ws) : ws[k] = Row(t, Sold(order[j]))
  <2>1. ByThree(ws, order)
    BY <1>2, SoldRows
  <2> QED
    BY <1>6, <2>1 DEF ByThree
<1>8. RowsOf(ws, P)
  <2>1. Len(ws) \in Nat
    BY <1>7
  <2>2. ASSUME NEW k \in 1..Len(ws) PROVE \E t \in Tables, p \in P : ws[k] = Row(t, p)
    <3>1. PICK j \in 1..l, t \in Tables : ws[k] = Row(t, Sold(order[j]))
      BY <1>7
    <3>2. Sold(order[j]) \in P
      BY <1>6
    <3> QED
      BY <3>1, <3>2
  <2> QED
    BY <2>1, <2>2 DEF RowsOf
<1>9. ASSUME NEW p \in P, NEW t \in Tables PROVE Has(ws, t, p)
  <2>1. PICK o \in O : p = Sold(o)
    BY <1>4
  <2>2. PICK j \in 1..l : order[j] = o
    BY <1>6 DEF ToSet
  <2> QED
    BY <1>7, <2>1, <2>2 DEF Has
<1>10. ASSUME NEW p \in P
       PROVE  /\ p.id <= seen' /\ p.status = "paper_sold" /\ ~IsOpen(p) /\ Expected(p) = "closed"
              /\ Behind(store.tokens[p.id], p)
  <2>1. PICK o \in O : p = Sold(o)
    BY <1>4
  <2>2. p.id <= seen /\ p.status = "paper_sold"
    BY <1>1, <1>3, <2>1 DEF Copies
  <2>3. PICK r \in Tokens : r = store.tokens[o.id] /\ Behind(r, o) /\ o \in Tokens
    BY <1>1, <1>2, <2>1 DEF PaperInv, StoreTyped, Copies, Tokens
  <2>4. p \in Tokens /\ p.id = o.id /\ Behind(o, p)
    BY <1>2, <2>1, SoldIsFurther
  <2>5. Behind(r, p)
    BY <2>3, <2>4, FurtherBehind
  <2> QED
    BY <2>2, <2>3, <2>4, <2>5 DEF IsOpen, OpenStatuses, Expected
<1>11. ChangesWhole(ws, P)
  BY <1>5, <1>8, <1>9, <1>10 DEF ChangesWhole, Tables
<1>12. \A p \in P : IsOpen(p) => p.id \in cut \/ IsOpen(store.tokens[p.id])
  BY <1>10
<1> QED
  BY <1>5, <1>11, <1>12, OpensNone

\* A position that the raise came before: its row is what it was, and it is among
\* those cut short.
LEMMA NotYetSold ==
  ASSUME PaperInv, NEW O \in SUBSET Known, NEW order \in Seq(O), ToSet(order) = O,
         NEW tables \in {RecoveredTables, OrphanTables}, NEW ws, ws = SoldInTurn(order, tables),
         NEW n, Writes(ws, n), n # Len(ws)
  PROVE  /\ ToSet(SubSeq(order, 1, n \div 3 + 1)) \subseteq O
         /\ \A o \in O \ ToSet(SubSeq(order, 1, n \div 3 + 1)) :
               o.id \in cut' /\ store'.tokens[o.id] = store.tokens[o.id]
<1>1. Copies(O)
  BY KnownFits, CopiesOf
<1>2. O \subseteq Tokens /\ UniqueIds(O) /\ order \in Seq(Tokens)
  BY <1>1, SeqMonotonic DEF Copies
<1>3. \A o \in O : Sold(o) \in Tokens /\ Sold(o).id = o.id /\ o.id \in Ids
  BY <1>2 DEF Sold, Tokens
<1>4. PICK l \in Nat : l = Len(order) /\ DOMAIN order = 1..l /\ \A j \in 1..l : order[j] \in O
  BY LenProperties, ElementOfSeq
<1>5. /\ Len(ws) = 3 * l
      /\ \A k \in 1..(3 * l) :
            (k + 2) \div 3 \in 1..l /\ \E t \in Tables : ws[k] = Row(t, Sold(order[(k + 2) \div 3]))
      /\ \A j \in 1..l : \E i \in 0..2 :
            ws[3 * j - 2 + i] = Row("tokens", Sold(order[j])) /\ 3 * j - 2 + i \in 1..(3 * l)
  <2>1. "tokens" \in Tables
    BY DEF Tables
  <2>2. ByThree(ws, order)
    BY <1>2, SoldRows
  <2> QED
    BY <1>4, <2>1, <2>2 DEF ByThree
<1>6. n \in 0..(3 * l) /\ n # 3 * l /\ cut' = cut \cup {ws[k].id : k \in (n + 1)..(3 * l)}
  BY <1>5 DEF Writes
<1>7. PICK m \in Nat : m = n \div 3 + 1
  BY <1>6
<1>8. m <= l /\ 1 <= m /\ n < 3 * m
  BY <1>4, <1>6, <1>7
<1>9. PICK h : h = SubSeq(order, 1, m)
  OBVIOUS
<1>10. /\ Len(h) = m /\ DOMAIN h = 1..m /\ \A j \in 1..m : h[j] = order[j]
  <2>1. \A j \in 1..m : j \in 1..l /\ order[j] \in O
    BY <1>4, <1>8
  <2>2. /\ h \in Seq(O) /\ Len(h) = IF 1 <= m THEN m - 1 + 1 ELSE 0
        /\ \A j \in 1..(m - 1 + 1) : h[j] = order[1 + j - 1]
    BY <1>9, <2>1, SubSeqProperties
  <2>3. Len(h) = m /\ m - 1 + 1 = m /\ \A j \in 1..m : 1 + j - 1 = j
    BY <1>8, <2>2
  <2>4. DOMAIN h = 1..Len(h)
    BY <2>2, LenProperties
  <2> QED
    BY <2>2, <2>3, <2>4
<1>11. ToSet(h) \subseteq O /\ \A j \in 1..m : order[j] \in ToSet(h)
  <2>1. \A j \in 1..m : j \in 1..l
    BY <1>8
  <2> QED
    BY <1>4, <1>10, <2>1 DEF ToSet
<1>12. ASSUME NEW o \in O \ ToSet(h)
       PROVE  o.id \in cut' /\ store'.tokens[o.id] = store.tokens[o.id]
  <2>1. PICK j \in 1..l : order[j] = o
    BY <1>4 DEF ToSet
  <2>2. j > m
    BY <1>8, <1>11, <1>12, <2>1
  <2>3. PICK i \in 0..2 : /\ ws[3 * j - 2 + i] = Row("tokens", Sold(o))
                          /\ 3 * j - 2 + i \in 1..(3 * l)
    BY <1>5, <2>1
  <2>4. PICK k \in 1..(3 * l) : k = 3 * j - 2 + i /\ ws[k] = Row("tokens", Sold(o))
    BY <2>3
  <2>5. k \in (n + 1)..(3 * l)
    BY <1>6, <1>8, <2>2, <2>4
  <2>6. ws[k].id = o.id
    <3>1. "tokens" \in Tables
      BY DEF Tables
    <3> QED
      BY <1>3, <2>4, <3>1, RowIs
  <2>7. o.id \in cut'
    BY <1>6, <2>5, <2>6
  <2>8. ASSUME NEW q \in 1..n PROVE ws[q].id # o.id
    <3>1. q \in 1..(3 * l) /\ (q + 2) \div 3 \in 1..m
      BY <1>4, <1>6, <1>7
    <3>2. PICK p : p = order[(q + 2) \div 3]
      OBVIOUS
    <3>3. p \in ToSet(h) /\ p \in O
      BY <1>11, <3>1, <3>2
    <3>4. PICK t \in Tables : ws[q] = Row(t, Sold(p))
      BY <1>5, <3>1, <3>2
    <3>5. ws[q].id = p.id
      BY <1>3, <3>3, <3>4, RowIs
    <3> QED
      BY <1>2, <1>12, <3>3, <3>5 DEF UniqueIds
  <2>9. store'["tokens"][o.id] = store["tokens"][o.id]
    BY <1>3, <2>8, WritesOne DEF PaperInv, Tables
  <2> QED
    BY <2>7, <2>9
<1> QED
  BY <1>7, <1>9, <1>11, <1>12

\* What is known after a sale of the tokens H of O: P are those of O sold.
AfterSale(after, O, H, P) ==
    /\ after \subseteq Tokens /\ UniqueIds(after) /\ Numbers(after) = Numbers(Known)
    /\ \A o \in after : \/ o \in P
                        \/ o \in Known /\ o.id \notin Numbers(P)
                        \/ o \in O \ H

\* What stays of the known tokens, when some of them are sold.
LEMMA SaleKeepsDeque ==
  ASSUME PaperInv, NEW O \in SUBSET Known, NEW P, P = {Sold(o) : o \in O},
         NEW H \in SUBSET O, NEW after, after = (Known \ H) \cup {Sold(o) : o \in H}
  PROVE  AfterSale(after, O, H, P)
<1>1. Known \subseteq Tokens /\ UniqueIds(Known)
  BY KnownFits DEF Copies
<1>2. \A o \in Known : Sold(o) \in Tokens /\ Sold(o).id = o.id
  BY <1>1 DEF Sold, Tokens
<1>3. \A p \in after : (p \in Known /\ p \notin H) \/ \E o \in H : p = Sold(o)
  OBVIOUS
<1>4. \A p \in after : \E o \in Known : o.id = p.id /\ (p = o \/ (o \in H /\ p = Sold(o)))
                                       /\ (p = o => o \notin H \/ \E q \in H : p = Sold(q))
  BY <1>2, <1>3
<1>5. UniqueIds(after)
  <2> SUFFICES ASSUME NEW p \in after, NEW q \in after, p.id = q.id PROVE p = q
    BY DEF UniqueIds
  <2>1. CASE p \in Known /\ p \notin H /\ q \in Known /\ q \notin H
    BY <1>1, <2>1 DEF UniqueIds
  <2>2. ASSUME NEW o \in H, NEW u \in Known \ H PROVE Sold(o).id # u.id
    BY <1>1, <1>2, <2>2 DEF UniqueIds
  <2>3. ASSUME NEW o \in H, NEW u \in H, Sold(o).id = Sold(u).id PROVE Sold(o) = Sold(u)
    <3>1. o.id = u.id /\ o \in Known /\ u \in Known
      BY <1>2, <2>3
    <3> QED
      BY <1>1, <3>1 DEF UniqueIds
  <2> QED
    BY <1>3, <2>1, <2>2, <2>3
<1>6. Numbers(after) = Numbers(Known)
  <2>1. \A i \in Numbers(after) : i \in Numbers(Known)
    BY <1>4 DEF Numbers
  <2>2. ASSUME NEW o \in Known PROVE \E p \in after : p.id = o.id
    <3>1. CASE o \in H
      <4>1. Sold(o) \in after
        BY <3>1
      <4> QED
        BY <1>2, <4>1
    <3>2. CASE o \notin H
      BY <3>2
    <3> QED
      BY <3>1, <3>2
  <2> QED
    BY <2>1, <2>2 DEF Numbers
<1>7. ASSUME NEW p \in after
      PROVE  p \in P \/ (p \in Known /\ p.id \notin Numbers(P)) \/ p \in O \ H
  <2>1. CASE \E o \in H : p = Sold(o)
    BY <2>1
  <2>2. CASE p \in Known /\ p \notin H /\ p \in O
    BY <2>2
  <2>3. CASE p \in Known /\ p \notin O
    <3>1. ASSUME NEW o \in O PROVE Sold(o).id # p.id
      BY <1>1, <1>2, <2>3 DEF UniqueIds
    <3>2. p.id \notin Numbers(P)
      BY <3>1 DEF Numbers
    <3> QED
      BY <2>3, <3>2
  <2> QED
    BY <1>3, <2>1, <2>2, <2>3
<1>8. after \subseteq Tokens
  BY <1>1, <1>2, <1>3
<1> QED
  BY <1>5, <1>6, <1>7, <1>8 DEF AfterSale

\* The operator's recovery sells all that are open, or the first of them.
LEMMA RecoveryKeepsPositions ==
  ASSUME PaperInv, NEW n, recover_open_paper_positions(n)
  PROVE  PaperInv' /\ RowsMoveOn
<1>1. PICK O : O = {o \in Known : IsOpen(o)}
  OBVIOUS
<1>2. PICK K : K = {o \in O : o.id \in Numbers(Rows)}
  OBVIOUS
<1>3. PICK order : order = Newest(K) \o Newest(O \ K)
  OBVIOUS
<1>4. PICK ws : ws = SoldInTurn(order, RecoveredTables)
  OBVIOUS
<1>5. PICK H : H = IF n = Len(ws) THEN O ELSE ToSet(SubSeq(order, 1, n \div 3 + 1))
  OBVIOUS
<1>6. PICK after : after = {o \in Known : o \notin H} \cup {Sold(o) : o \in H}
  OBVIOUS
<1>7. /\ Writes(ws, n) /\ UNCHANGED <<loop, batch, seen>> /\ loop \in {"idle", "drain"}
      /\ tokens' = IF n = Len(ws) THEN AsDeque(Newest(after)) ELSE Replace(tokens, after)
  BY <1>1, <1>2, <1>3, <1>4, <1>5, <1>6 DEF recover_open_paper_positions, Known
<1>8. O \subseteq Known
  BY <1>1
<1>9. order \in Seq(O) /\ ToSet(order) = O
  <2>1. Copies(K) /\ Copies(O \ K)
    BY <1>2, <1>8, KnownFits, CopiesOf
  <2>2. PICK s \in Seq(K) : s = Newest(K) /\ ToSet(s) = K
    BY <2>1, NewestOrders DEF Copies
  <2>3. PICK t \in Seq(O \ K) : t = Newest(O \ K) /\ ToSet(t) = O \ K
    BY <2>1, NewestOrders DEF Copies
  <2>4. s \in Seq(O) /\ t \in Seq(O)
    BY <1>2, <2>2, <2>3, SeqMonotonic
  <2>5. s \o t \in Seq(O) /\ ToSet(s \o t) = ToSet(s) \cup ToSet(t)
    BY <2>4, BothOf
  <2> QED
    BY <1>2, <1>3, <2>2, <2>3, <2>5
<1>10. PICK P : P = {Sold(o) : o \in O}
  OBVIOUS
<1>11. RecoveredTables \in {RecoveredTables, OrphanTables}
  OBVIOUS
<1>12. /\ ChangesWhole(ws, P) /\ Counting \cup Opened(P) = Counting
       /\ Cardinality(Counting \cup Opened(P)) <= MaxPositions
  BY <1>1, <1>4, <1>7, <1>8, <1>9, <1>10, <1>11, SalesAreWhole
<1>13. H \subseteq O /\ \A o \in O \ H : o.id \in cut' /\ store'.tokens[o.id] = store.tokens[o.id]
  <2>1. CASE n = Len(ws)
    BY <1>5, <2>1
  <2>2. CASE n # Len(ws)
    BY <1>4, <1>5, <1>7, <1>8, <1>9, <1>11, <2>2, NotYetSold
  <2> QED
    BY <2>1, <2>2
<1>14. /\ after \subseteq Tokens /\ UniqueIds(after) /\ Numbers(after) = Numbers(Known)
       /\ \A o \in after : \/ o \in P
                           \/ o \in Known /\ o.id \notin Numbers(P)
                           \/ o \in O \ H
  <2>1. after = (Known \ H) \cup {Sold(o) : o \in H}
    BY <1>6
  <2> QED
    <3>1. AfterSale(after, O, H, P)
      BY <1>8, <1>10, <1>13, <2>1, SaleKeepsDeque
    <3> QED
      BY <3>1 DEF AfterSale
<1>15. PICK s \in Seq(Tokens) : s = tokens /\ ToSet(s) = OnDeque /\ UniqueIds(ToSet(s))
  BY DEF PaperInv, OnDeque, Copies
<1>16. tokens' \in Seq(Tokens) /\ ToSet(tokens') \subseteq after /\ UniqueIds(ToSet(tokens'))
  <2>1. CASE n = Len(ws)
    <3>1. PICK t \in Seq(after) : t = Newest(after) /\ ToSet(t) = after
      BY <1>14, NewestOrders
    <3>2. AsDeque(t) \in Seq(after) /\ ToSet(AsDeque(t)) \subseteq ToSet(t)
      BY DequeOf
    <3>3. tokens' = AsDeque(t)
      BY <1>7, <2>1, <3>1
    <3>4. AsDeque(t) \in Seq(Tokens)
      BY <1>14, <3>2, SeqMonotonic
    <3> QED
      BY <1>14, <3>1, <3>2, <3>3, <3>4 DEF UniqueIds
  <2>2. CASE n # Len(ws)
    <3>1. PICK S \in SUBSET Tokens : S = after /\ UniqueIds(S)
      BY <1>14
    <3>2. /\ Replace(s, S) \in Seq(Tokens) /\ UniqueIds(ToSet(Replace(s, S)))
          /\ \A o \in ToSet(Replace(s, S)) : o \in S \/ (o \in ToSet(s) /\ o.id \notin Numbers(S))
      BY <1>15, <3>1, ReplaceFits
    <3>3. tokens' = Replace(s, S)
      BY <1>7, <1>15, <2>2, <3>1
    <3>4. \A o \in ToSet(s) : o.id \in Numbers(S)
      BY <1>14, <1>15, <3>1, KnownFits DEF Numbers
    <3> QED
      BY <3>1, <3>2, <3>3, <3>4
  <2> QED
    BY <2>1, <2>2
<1>17. \A o \in ToSet(tokens') :
         \/ o \in P
         \/ o \in Known /\ o.id \notin Numbers(P)
         \/ o \in Known /\ o.id \in cut' /\ store'.tokens[o.id] = store.tokens[o.id]
  BY <1>8, <1>13, <1>14, <1>16
<1>18. /\ batch' \in [on: BOOLEAN, ids: SUBSET Ids] /\ (batch'.on => loop' = "drain")
       /\ batch'.on => Counting \cup Opened(P) \subseteq batch'.ids
       /\ loop' # "dead" /\ seen' \in 0..Launches /\ seen <= seen'
  BY <1>7, <1>12 DEF PaperInv
<1> QED
  BY <1>7, <1>12, <1>16, <1>17, <1>18, LoudStep

\* The start sells the open tokens that are not among the recent ones.
LEMMA StartKeepsPositions ==
  ASSUME PaperInv, NEW n, PaperStarts(n)
  PROVE  PaperInv' /\ RowsMoveOn
<1>1. PICK O : O = {o \in ToSet(Hydrated) : IsOpen(o) /\ o \notin ToSet(Recent)}
  OBVIOUS
<1>2. PICK order : order = Newest(O)
  OBVIOUS
<1>3. PICK ws : ws = SoldInTurn(order, OrphanTables)
  OBVIOUS
<1>4. /\ Writes(ws, n) /\ UNCHANGED <<batch, seen>> /\ loop = "dead"
      /\ IF n = Len(ws)
         THEN loop' = "idle" /\ tokens' = Replace(Hydrated, {Sold(o) : o \in ToSet(order)})
         ELSE UNCHANGED <<loop, tokens>>
  BY <1>1, <1>2, <1>3 DEF PaperStarts
<1>5. tokens = <<>> /\ Known = Rows /\ ~batch.on /\ seen \in 0..Launches /\ seen <= seen
      /\ batch \in [on: BOOLEAN, ids: SUBSET Ids]
  <2>1. tokens = <<>>
    BY <1>4 DEF PaperInv
  <2>2. OnDeque = {}
    BY <2>1 DEF OnDeque, ToSet
  <2>3. Known = Rows
    BY <2>2 DEF Known, Numbers
  <2> QED
    BY <1>4, <2>1, <2>3 DEF PaperInv
<1>6. PICK s \in Seq(Tokens) : s = Hydrated /\ ToSet(s) \subseteq Known
  BY <1>5, HydratedFits DEF PaperInv
<1>7. O \subseteq Known /\ O \subseteq ToSet(s)
  BY <1>1, <1>6
<1>8. Copies(Known) /\ Copies(O) /\ UniqueIds(ToSet(s))
  <2>1. Copies(Known) /\ Copies(O) /\ Copies(ToSet(s))
    BY <1>6, <1>7, KnownFits, CopiesOf
  <2> QED
    BY <2>1 DEF Copies
<1>9. order \in Seq(O) /\ ToSet(order) = O
  BY <1>2, <1>8, NewestOrders DEF Copies
<1>10. PICK P : P = {Sold(o) : o \in O}
  OBVIOUS
<1>11. OrphanTables \in {RecoveredTables, OrphanTables}
  OBVIOUS
<1>12. /\ ChangesWhole(ws, P) /\ Counting \cup Opened(P) = Counting
       /\ Cardinality(Counting \cup Opened(P)) <= MaxPositions
  BY <1>1, <1>3, <1>4, <1>7, <1>9, <1>10, <1>11, SalesAreWhole
<1>13. /\ tokens' \in Seq(Tokens) /\ UniqueIds(ToSet(tokens'))
       /\ \A o \in ToSet(tokens') : o \in P \/ (o \in Known /\ o.id \notin Numbers(P))
  <2>1. CASE n = Len(ws)
    <3>1. P \in SUBSET Tokens /\ UniqueIds(P)
      BY <1>12 DEF ChangesWhole
    <3>2. /\ Replace(s, P) \in Seq(Tokens) /\ UniqueIds(ToSet(Replace(s, P)))
          /\ \A o \in ToSet(Replace(s, P)) : o \in P \/ (o \in ToSet(s) /\ o.id \notin Numbers(P))
      BY <1>8, <3>1, ReplaceFits
    <3>3. tokens' = Replace(s, P)
      BY <1>4, <1>6, <1>9, <1>10, <2>1
    <3> QED
      BY <1>6, <3>2, <3>3
  <2>2. CASE n # Len(ws)
    <3>1. tokens' = <<>>
      BY <1>4, <1>5, <2>2
    <3> QED
      BY <3>1 DEF ToSet, UniqueIds
  <2> QED
    BY <2>1, <2>2
<1>14. loop' = "dead" => tokens' = <<>>
  BY <1>4, <1>5
<1> QED
  BY <1>4, <1>5, <1>12, <1>13, <1>14, LoudStep

\* The invariant holds when nothing is seen yet.
LEMMA PositionsStart ==
  ASSUME PaperInit PROVE PaperInv
<1>1. \A i \in Ids : Blank(i) \in Tokens /\ Blank(i).status = "none" /\ Blank(i).id = i
  BY PaperConstants DEF Blank, Tokens
<1>2. /\ store = [tokens |-> [i \in Ids |-> Blank(i)], trades |-> [i \in Ids |-> "none"],
                  sessions |-> [i \in Ids |-> "none"]]
      /\ tokens = <<>> /\ seen = 0 /\ cut = {} /\ batch = NoBatch
  BY DEF PaperInit
<1>3. StoreTyped
  <2>1. [i \in Ids |-> Blank(i)] \in [Ids -> Tokens] /\ [i \in Ids |-> "none"] \in [Ids -> Marks]
    BY <1>1 DEF Marks
  <2> QED
    BY <1>2, <2>1 DEF StoreTyped
<1>4. \A i \in Ids : /\ store.tokens[i] = Blank(i)
                     /\ store.trades[i] = "none" /\ store.sessions[i] = "none"
  BY <1>2
<1>5. RowsAreOwn /\ RowsAgree /\ Counting = {}
  BY <1>1, <1>4 DEF RowsAreOwn, RowsAgree, Counting, IsOpen, OpenStatuses
<1>6. tokens \in Seq(Tokens) /\ OnDeque = {}
  BY <1>2 DEF OnDeque, ToSet
<1>7. Copies(OnDeque)
  BY <1>6 DEF Copies, UniqueIds
<1>8. batch \in [on: BOOLEAN, ids: SUBSET Ids] /\ ~batch.on
  BY <1>2 DEF NoBatch
<1>9. Cardinality(Counting) <= MaxPositions
  BY <1>5, FS_EmptySet, PaperConstants
<1>10. seen \in 0..Launches /\ cut \subseteq 1..seen
  BY <1>2, PaperConstants
<1> QED
  BY <1>2, <1>3, <1>5, <1>6, <1>7, <1>8, <1>9, <1>10 DEF PaperInv

\* Every step keeps it, and no row goes back.
LEMMA StepKeepsPositions ==
  ASSUME PaperInv, [PaperNext]_paperVars PROVE PaperInv' /\ RowsMoveOn
<1>1. CASE drain_begins \/ drain_is_over \/ tick_is_over \/ PaperStops \/ UNCHANGED paperVars
  BY <1>1, TurnsKeepPositions
<1>2. ASSUME NEW wanted \in BOOLEAN, NEW fills \in BOOLEAN, NEW n \in 0..3,
             ingest_launch(wanted, fills, n)
      PROVE  PaperInv' /\ RowsMoveOn
  BY <1>2, IngestKeepsPositions
<1>3. ASSUME NEW n \in 0..1, apply_observed_trade(n) PROVE PaperInv' /\ RowsMoveOn
  BY <1>3, TradeKeepsPositions
<1>4. ASSUME NEW closes \in BOOLEAN, NEW held \in BOOLEAN, NEW n \in 0..3, tick(closes, held, n) PROVE PaperInv' /\ RowsMoveOn
  BY <1>4, TickKeepsPositions
<1>5. ASSUME NEW n \in 0..(3 * Launches), recover_open_paper_positions(n)
      PROVE  PaperInv' /\ RowsMoveOn
  BY <1>5, RecoveryKeepsPositions
<1>6. ASSUME NEW n \in 0..(3 * Launches), PaperStarts(n) PROVE PaperInv' /\ RowsMoveOn
  BY <1>6, StartKeepsPositions
<1> QED
  BY <1>1, <1>2, <1>3, <1>4, <1>5, <1>6 DEF PaperNext

\* What is open and not cut short, in the deque or the rows, are the rows that count.
LEMMA PositionsAreCounted ==
  ASSUME PaperInv PROVE PositionsWithinCap
<1>1. PICK D : D = Numbers({o \in OpenRows \cup OnDeque : IsOpen(o)}) \ cut
  OBVIOUS
<1>2. D \subseteq Counting
  <2> SUFFICES ASSUME NEW o \in OpenRows \cup OnDeque, IsOpen(o), o.id \notin cut
               PROVE  o.id \in Counting
    BY <1>1 DEF Numbers
  <2>1. Copies(Rows) /\ Copies(OnDeque)
    BY RowsFit DEF PaperInv
  <2>2. o \in Tokens /\ store.tokens[o.id] = o
    BY <2>1 DEF Copies, OpenRows
  <2> QED
    BY <2>2 DEF Counting, Tokens
<1>3. IsFiniteSet(Counting) /\ Cardinality(Counting) <= MaxPositions
  BY CountingIs DEF PaperInv
<1>4. Cardinality(D) <= Cardinality(Counting) /\ Cardinality(D) \in Nat /\ Cardinality(Counting) \in Nat
  BY <1>2, <1>3, FS_Subset, FS_CardinalityType
<1>5. Cardinality(D) <= MaxPositions
  BY <1>3, <1>4, PaperConstants
<1> QED
  BY <1>1, <1>5 DEF PositionsWithinCap

-----------------------------------------------------------------------------
(***************************************************************************)
(* The deque.  It holds a token once, and is no longer than the code makes *)
(* it: of DequeSize, or as many as there are positions, which are those    *)
(* that count and those a write of which was cut short.                    *)
(***************************************************************************)

\* No token twice.
Line(s) == \A j, k \in DOMAIN s : s[j].id = s[k].id => j = k
LinedUp(s) == Line(s) /\ (Len(s) <= DequeSize \/ Len(s) <= MaxPositions + Cardinality(cut))

\* The newest first are as many as they are.
LEMMA NewestHeld ==
  ASSUME NEW S \in SUBSET Tokens, UniqueIds(S)
  PROVE  /\ Newest(S) \in Seq(S) /\ ToSet(Newest(S)) = S
         /\ Cardinality(S) \in Nat /\ Len(Newest(S)) = Cardinality(S) /\ Line(Newest(S))
<1>1. PICK n \in Nat : n = Cardinality(S) /\ IsFiniteSet(S)
  BY NewestOrders, FS_CardinalityType
<1>2. PICK t \in Seq(S) : t = Newest(S) /\ ToSet(t) = S
  BY NewestOrders
<1>3. t \in [1..n -> S] /\ \A j, k \in 1..n : j < k => t[j].id > t[k].id
  <2>1. \E u \in [1..n -> S] : \A j, k \in DOMAIN u : j < k => u[j].id > u[k].id
    BY <1>1, NewestExists
  <2>2. t = CHOOSE u \in [1..n -> S] : \A j, k \in DOMAIN u : j < k => u[j].id > u[k].id
    BY <1>1, <1>2 DEF Newest
  <2>3. t \in [1..n -> S] /\ \A j, k \in DOMAIN t : j < k => t[j].id > t[k].id
    BY <2>1, <2>2
  <2> QED
    BY <2>3
<1>4. Len(t) = n /\ DOMAIN t = 1..n
  BY <1>1, <1>3, LenProperties
<1>5. \A j \in 1..n : t[j].id \in Nat
  BY <1>3 DEF Tokens, Ids
<1>6. ASSUME NEW j \in 1..n, NEW k \in 1..n, t[j].id = t[k].id PROVE j = k
  <2>1. ~(j < k) /\ ~(k < j)
    BY <1>3, <1>5, <1>6
  <2> QED
    BY <2>1
<1> QED
  BY <1>1, <1>2, <1>4, <1>6 DEF Line

\* A part of a deque is one.
LEMMA PartHeld ==
  ASSUME NEW S, NEW s \in Seq(S), NEW m \in Int, NEW n \in Int, m >= 1, n <= Len(s), Line(s)
  PROVE  Line(SubSeq(s, m, n)) /\ Len(SubSeq(s, m, n)) = IF m <= n THEN n - m + 1 ELSE 0
<1>1. Len(s) \in Nat /\ DOMAIN s = 1..Len(s)
  BY LenProperties
<1>2. \A i \in m..n : i \in 1..Len(s) /\ s[i] \in S
  BY <1>1, ElementOfSeq
<1>3. PICK t : t = SubSeq(s, m, n)
  OBVIOUS
<1>4. /\ t \in Seq(S) /\ Len(t) = IF m <= n THEN n - m + 1 ELSE 0
      /\ \A i \in 1..(n - m + 1) : t[i] = s[m + i - 1]
  BY <1>2, <1>3, SubSeqProperties
<1>5. DOMAIN t = 1..Len(t)
  BY <1>4, LenProperties
<1>6. ASSUME NEW j \in 1..Len(t), NEW k \in 1..Len(t), t[j].id = t[k].id PROVE j = k
  <2>1. /\ j \in 1..(n - m + 1) /\ m + j - 1 \in m..n
        /\ k \in 1..(n - m + 1) /\ m + k - 1 \in m..n
    BY <1>4
  <2>2. s[m + j - 1].id = s[m + k - 1].id
    BY <1>4, <1>6, <2>1
  <2>3. m + j - 1 \in DOMAIN s /\ m + k - 1 \in DOMAIN s
    BY <1>1, <1>2, <2>1
  <2>4. m + j - 1 = m + k - 1
    BY <2>2, <2>3 DEF Line
  <2> QED
    BY <2>4
<1> QED
  BY <1>3, <1>4, <1>5, <1>6 DEF Line

\* ... its first n, and
LEMMA FirstHeld ==
  ASSUME NEW S, NEW s \in Seq(S), NEW n \in Int, Line(s)
  PROVE  /\ Line(First(s, n)) /\ Len(First(s, n)) \in Nat
         /\ n >= 0 => Len(First(s, n)) <= n
         /\ n < 0 => Len(First(s, n)) = 0
<1>1. PICK l \in Nat : l = Len(s)
  BY LenProperties
<1>2. \E k \in {n, l} : \A i \in {n, l} : k <= i
  OBVIOUS
<1>3. PICK k \in {n, l} : k = Min({n, l}) /\ \A i \in {n, l} : k <= i
  BY <1>2 DEF Min
<1>4. k \in Int /\ k <= l /\ k <= n /\ (k = n \/ k = l) /\ First(s, n) = SubSeq(s, 1, k)
  BY <1>1, <1>3 DEF First
<1>5. Line(SubSeq(s, 1, k)) /\ Len(SubSeq(s, 1, k)) = IF 1 <= k THEN k - 1 + 1 ELSE 0
  BY <1>1, <1>4, PartHeld
<1> QED
  BY <1>1, <1>4, <1>5

\* ... its last, which are DequeSize at most.
LEMMA DequeHeld ==
  ASSUME NEW S, NEW s \in Seq(S), Line(s)
  PROVE  Line(AsDeque(s)) /\ Len(AsDeque(s)) <= DequeSize
<1>1. PICK l \in Nat : l = Len(s)
  BY LenProperties
<1>2. PICK m \in Int : m = l - DequeSize + 1
  BY PaperConstants
<1>3. \E k \in {1, m} : \A i \in {1, m} : k >= i
  OBVIOUS
<1>4. PICK k \in {1, m} : k = Max({1, m}) /\ \A i \in {1, m} : k >= i
  BY <1>3 DEF Max
<1>5. k \in Int /\ k >= 1 /\ k >= m /\ AsDeque(s) = SubSeq(s, k, l)
  BY <1>1, <1>2, <1>4 DEF AsDeque
<1>6. Line(SubSeq(s, k, l)) /\ Len(SubSeq(s, k, l)) = IF k <= l THEN l - k + 1 ELSE 0
  BY <1>1, <1>5, PartHeld
<1>7. DequeSize \in Nat /\ m = l - DequeSize + 1
  BY <1>2, PaperConstants
<1> QED
  BY <1>1, <1>5, <1>6, <1>7

\* Two deques without a token in common.
LEMMA BothHeld ==
  ASSUME NEW S, NEW s \in Seq(S), NEW t \in Seq(S), Line(s), Line(t),
         \A o \in ToSet(s), p \in ToSet(t) : o.id # p.id
  PROVE  Line(s \o t) /\ Len(s \o t) = Len(s) + Len(t)
<1>1. PICK m \in Nat, n \in Nat : m = Len(s) /\ n = Len(t)
  BY LenProperties
<1>2. PICK u : u = s \o t
  OBVIOUS
<1>3. /\ u \in Seq(S) /\ Len(u) = m + n
      /\ \A i \in 1..(m + n) : u[i] = IF i <= m THEN s[i] ELSE t[i - m]
  BY <1>1, <1>2, ConcatProperties
<1>4. DOMAIN u = 1..(m + n) /\ DOMAIN s = 1..m /\ DOMAIN t = 1..n
  BY <1>1, <1>3, LenProperties
<1>5. \A i \in 1..m : s[i] \in ToSet(s)
  BY <1>4 DEF ToSet
<1>6. \A i \in 1..n : t[i] \in ToSet(t)
  BY <1>4 DEF ToSet
<1>7. ASSUME NEW j \in 1..(m + n), NEW k \in 1..(m + n), u[j].id = u[k].id, j <= m, ~(k <= m)
      PROVE  FALSE
  <2>1. u[j] = s[j] /\ u[k] = t[k - m] /\ j \in 1..m /\ k - m \in 1..n
    BY <1>3, <1>7
  <2> QED
    BY <1>5, <1>6, <1>7, <2>1
<1>8. ASSUME NEW j \in 1..(m + n), NEW k \in 1..(m + n), u[j].id = u[k].id PROVE j = k
  <2>1. CASE j <= m /\ k <= m
    <3>1. u[j] = s[j] /\ u[k] = s[k] /\ j \in 1..m /\ k \in 1..m
      BY <1>3, <2>1
    <3> QED
      BY <1>4, <1>8, <3>1 DEF Line
  <2>2. CASE ~(j <= m) /\ ~(k <= m)
    <3>1. u[j] = t[j - m] /\ u[k] = t[k - m] /\ j - m \in 1..n /\ k - m \in 1..n
      BY <1>3, <2>2
    <3>2. j - m = k - m
      BY <1>4, <1>8, <3>1 DEF Line
    <3> QED
      BY <3>2
  <2> QED
    BY <1>7, <1>8, <2>1, <2>2
<1> QED
  BY <1>1, <1>2, <1>3, <1>4, <1>8 DEF Line

\* A deque with some of its tokens replaced is as long and in the same order.
LEMMA ReplaceHeld ==
  ASSUME NEW s \in Seq(Tokens), Line(s), NEW S
  PROVE  Line(Replace(s, S)) /\ Len(Replace(s, S)) = Len(s)
<1>1. PICK n \in Nat : n = Len(s)
  BY LenProperties
<1>2. DOMAIN s = 1..n
  BY <1>1, LenProperties
<1>3. PICK t : t = Replace(s, S)
  OBVIOUS
<1>4. /\ DOMAIN t = 1..n
      /\ \A k \in 1..n : t[k] = IF s[k].id \in Numbers(S) THEN CHOOSE o \in S : o.id = s[k].id
                                ELSE s[k]
      /\ t = [k \in 1..n |-> t[k]]
  BY <1>2, <1>3 DEF Replace
<1>5. ASSUME NEW k \in 1..n PROVE t[k].id = s[k].id
  <2>1. CASE s[k].id \in Numbers(S)
    <3>1. \E o \in S : o.id = s[k].id
      BY <2>1 DEF Numbers
    <3> QED
      BY <1>4, <2>1, <3>1
  <2>2. CASE s[k].id \notin Numbers(S)
    BY <1>4, <2>2
  <2> QED
    BY <2>1, <2>2
<1>6. Len(t) = n
  <2>1. t \in Seq({t[k] : k \in 1..n})
    <3>1. t \in [1..n -> {t[k] : k \in 1..n}]
      BY <1>4
    <3> QED
      BY <3>1, SeqDef
  <2> QED
    BY <1>1, <1>4, <2>1, LenProperties
<1> QED
  BY <1>1, <1>2, <1>3, <1>4, <1>5, <1>6 DEF Line

\* There are no more tokens than numbers of them.
LEMMA FewByNumber ==
  ASSUME NEW S \in SUBSET Tokens, UniqueIds(S), NEW N, Numbers(S) \subseteq N, IsFiniteSet(N)
  PROVE  Cardinality(S) \in Nat /\ Cardinality(N) \in Nat /\ Cardinality(S) <= Cardinality(N)
<1>1. PICK f : f = [o \in S |-> o.id]
  OBVIOUS
<1>2. f \in Injection(S, N)
  <2>1. f \in [S -> N] /\ \A o \in S : f[o] = o.id
    BY <1>1 DEF Numbers
  <2>2. \A o, p \in DOMAIN f : f[o] = f[p] => o = p
    BY <2>1 DEF UniqueIds
  <2> QED
    BY <2>1, <2>2 DEF Injection, IsInjective
<1> QED
  BY <1>2, FS_Injection, FS_CardinalityType

\* Open are the rows that count and some of those cut short.
LEMMA OpenRowsAreFew ==
  ASSUME PaperInv
  PROVE  /\ IsFiniteSet(Numbers(OpenRows)) /\ Cardinality(cut) \in Nat
         /\ Cardinality(Numbers(OpenRows)) <= MaxPositions + Cardinality(cut)
<1>1. \A o \in OpenRows : o.id \in Ids /\ store.tokens[o.id] = o /\ IsOpen(o)
  BY RowsFit DEF PaperInv, OpenRows
<1>2. Numbers(OpenRows) \subseteq Counting \cup cut
  BY <1>1 DEF Numbers, Counting
<1>3. IsFiniteSet(Counting) /\ Cardinality(Counting) <= MaxPositions
  BY CountingIs DEF PaperInv
<1>4. IsFiniteSet(cut)
  <2>1. cut \subseteq 1..seen /\ seen \in Int
    BY DEF PaperInv
  <2>2. IsFiniteSet(1..seen)
    BY <2>1, FS_Interval
  <2> QED
    BY <2>1, <2>2, FS_Subset
<1>5. PICK U : U = Counting \cup cut
  OBVIOUS
<1>6. IsFiniteSet(U) /\ Cardinality(U) = Cardinality(Counting) + Cardinality(cut)
                                        - Cardinality(Counting \cap cut)
  BY <1>3, <1>4, <1>5, FS_Union
<1>7. PICK N : N = Numbers(OpenRows)
  OBVIOUS
<1>8. IsFiniteSet(N) /\ Cardinality(N) <= Cardinality(U)
  BY <1>2, <1>5, <1>6, <1>7, FS_Subset
<1>9. IsFiniteSet(Counting \cap cut)
  BY <1>3, FS_Subset
<1>10. /\ Cardinality(Counting) \in Nat /\ Cardinality(cut) \in Nat /\ Cardinality(N) \in Nat
       /\ Cardinality(Counting \cap cut) \in Nat
  BY <1>3, <1>4, <1>8, <1>9, FS_CardinalityType
<1>11. Cardinality(N) <= MaxPositions + Cardinality(cut)
  BY <1>3, <1>6, <1>8, <1>10, PaperConstants
<1> QED
  BY <1>7, <1>8, <1>10, <1>11

\* What is loaded is a deque of DequeSize, or of the positions there are.
LEMMA LoadedHeld ==
  ASSUME PaperInv, LinedUp(tokens)
  PROVE  LinedUp(Loaded(tokens))
<1>1. PICK merged : merged = ToSet(tokens) \cup {o \in OpenRows : o.id \notin Numbers(ToSet(tokens))}
  OBVIOUS
<1>2. PICK active : active = {o \in merged : o.id \in Numbers(OpenRows)}
  OBVIOUS
<1>3. merged \subseteq Known
  BY <1>1 DEF Known, OnDeque, OpenRows
<1>4. Copies(active) /\ Copies(merged \ active) /\ Copies(merged)
  BY <1>2, <1>3, KnownFits, CopiesOf
<1>5. PICK s \in Seq(active) :
         /\ s = Newest(active) /\ ToSet(s) = active /\ Line(s)
         /\ Len(s) = Cardinality(active) /\ Cardinality(active) \in Nat
  BY <1>4, NewestHeld DEF Copies
<1>6. PICK rest : rest = merged \ active
  OBVIOUS
<1>7. PICK t \in Seq(rest) : t = Newest(rest) /\ ToSet(t) = rest /\ Line(t)
  BY <1>4, <1>6, NewestHeld DEF Copies
<1>8. PICK n \in Int : n = DequeSize - Cardinality(active)
  BY <1>5, PaperConstants
<1>9. PICK u \in Seq(rest) : u = First(t, n) /\ ToSet(u) \subseteq rest
  BY <1>7, FirstOf
<1>10. /\ Line(u) /\ Len(u) \in Nat
       /\ n >= 0 => Len(u) <= n
       /\ n < 0 => Len(u) = 0
  BY <1>7, <1>9, FirstHeld
<1>11. s \in Seq(Tokens) /\ u \in Seq(Tokens)
  BY <1>4, <1>5, <1>6, <1>9, SeqMonotonic DEF Copies
<1>12. \A o \in ToSet(s), p \in ToSet(u) : o.id # p.id
  <2>1. UniqueIds(merged) /\ active \subseteq merged
    BY <1>2, <1>4 DEF Copies
  <2> QED
    BY <1>5, <1>6, <1>9, <2>1 DEF UniqueIds
<1>13. Line(s \o u) /\ Len(s \o u) = Len(s) + Len(u)
  BY <1>5, <1>10, <1>11, <1>12, BothHeld
<1>14. Len(s) <= MaxPositions + Cardinality(cut) /\ MaxPositions + Cardinality(cut) \in Nat
  <2>1. PICK N : N = Numbers(OpenRows)
    OBVIOUS
  <2>2. IsFiniteSet(N) /\ Cardinality(cut) \in Nat /\ Cardinality(N) <= MaxPositions + Cardinality(cut)
    BY <2>1, OpenRowsAreFew
  <2>3. active \in SUBSET Tokens /\ UniqueIds(active) /\ Numbers(active) \subseteq N
    BY <1>2, <1>4, <2>1 DEF Copies, Numbers
  <2>4. Cardinality(active) <= Cardinality(N) /\ Cardinality(N) \in Nat
    BY <2>2, <2>3, FewByNumber
  <2> QED
    BY <1>5, <2>2, <2>4, PaperConstants
<1>15. Len(s \o u) <= DequeSize \/ Len(s \o u) <= MaxPositions + Cardinality(cut)
  BY <1>5, <1>8, <1>10, <1>13, <1>14, PaperConstants
<1>16. Loaded(tokens) = IF OpenRows = {} THEN tokens ELSE s \o u
  BY <1>1, <1>2, <1>5, <1>6, <1>7, <1>8, <1>9 DEF Loaded
<1> QED
  BY <1>13, <1>15, <1>16 DEF LinedUp

\* ... and what a start reads is one of DequeSize.
LEMMA HydratedHeld ==
  ASSUME PaperInv
  PROVE  LinedUp(Hydrated)
<1>1. Copies(Rows)
  BY RowsFit DEF PaperInv
<1>2. PICK R : R = {o \in ToSet(Recent) : ~IsOpen(o)}
  OBVIOUS
<1>3. PICK n : n = DequeSize - Cardinality(OpenRows)
  OBVIOUS
<1>4. PICK H : H = OpenRows \cup ToSet(First(Newest(R), n))
  OBVIOUS
<1>5. H \subseteq Rows
  <2>1. PICK s \in Seq(Rows) : s = Newest(Rows) /\ ToSet(s) = Rows
    BY <1>1, NewestOrders DEF Copies
  <2>2. ToSet(Recent) \subseteq Rows
    <3>1. DequeSize \in Int /\ Recent = First(s, DequeSize)
      BY <2>1, PaperConstants DEF Recent
    <3> QED
      BY <2>1, <3>1, FirstOf
  <2>3. Copies(R) /\ Copies(OpenRows) /\ R \subseteq Rows
    BY <1>1, <1>2, <2>2, CopiesOf DEF OpenRows
  <2>4. PICK t \in Seq(R) : t = Newest(R) /\ ToSet(t) = R
    BY <2>3, NewestOrders DEF Copies
  <2>5. n \in Int
    <3>1. Cardinality(OpenRows) \in Nat
      BY <2>3, NewestHeld DEF Copies
    <3> QED
      BY <1>3, <3>1, PaperConstants
  <2>6. ToSet(First(t, n)) \subseteq R
    BY <2>4, <2>5, FirstOf
  <2> QED
    BY <1>4, <2>3, <2>4, <2>6 DEF OpenRows
<1>6. Copies(H)
  BY <1>1, <1>5, CopiesOf
<1>7. PICK u \in Seq(H) : u = Newest(H) /\ Line(u)
  BY <1>6, NewestHeld DEF Copies
<1>8. Line(AsDeque(u)) /\ Len(AsDeque(u)) <= DequeSize
  BY <1>7, DequeHeld
<1>9. Hydrated = AsDeque(u)
  BY <1>2, <1>3, <1>4, <1>7 DEF Hydrated
<1> QED
  BY <1>8, <1>9 DEF LinedUp

\* A new token in front makes a deque that is full no longer.
LEMMA AppendedHeld ==
  ASSUME NEW s \in Seq(Tokens), LinedUp(s), NEW o \in Tokens, \A p \in ToSet(s) : p.id # o.id
  PROVE  LinedUp(Appended(o, s))
<1>1. PICK l \in Nat : l = Len(s)
  BY LenProperties
<1>2. DequeSize \in Nat
  BY PaperConstants
<1>3. \E k \in {DequeSize, l} : \A i \in {DequeSize, l} : k >= i
  BY <1>2
<1>4. PICK k \in {DequeSize, l} : k = Max({DequeSize, l}) /\ \A i \in {DequeSize, l} : k >= i
  BY <1>3 DEF Max
<1>5. k \in Nat /\ (k = DequeSize \/ k = l)
  BY <1>2, <1>4
<1>6. PICK t \in Seq(Tokens) : t = <<o>> /\ ToSet(t) = {o} /\ Line(t)
  <2>1. <<o>> \in Seq(Tokens) /\ ToSet(<<o>>) = {o} /\ Line(<<o>>)
    BY DEF ToSet, Line
  <2> QED
    BY <2>1
<1>7. \A p \in ToSet(t), q \in ToSet(s) : p.id # q.id
  BY <1>6
<1>8. Line(t \o s) /\ t \o s \in Seq(Tokens)
  BY <1>6, <1>7, BothHeld, BothOf DEF LinedUp
<1>9. PICK u \in Seq(Tokens) : u = t \o s /\ Line(u)
  BY <1>8
<1>10. Line(First(u, k)) /\ Len(First(u, k)) <= k /\ Len(First(u, k)) \in Nat
  <2>1. PICK m \in Int : m = k /\ m >= 0
    BY <1>5
  <2>2. Line(First(u, m)) /\ Len(First(u, m)) <= m /\ Len(First(u, m)) \in Nat
    BY <1>9, <2>1, FirstHeld
  <2> QED
    BY <2>1, <2>2
<1>11. Appended(o, s) = First(u, k)
  BY <1>1, <1>4, <1>6, <1>9 DEF Appended
<1>12. Len(First(u, k)) <= DequeSize \/ Len(First(u, k)) <= Len(s)
  BY <1>1, <1>5, <1>10
<1>13. LinedUp(First(u, k))
  <2>1. PICK c : c = MaxPositions + Cardinality(cut)
    OBVIOUS
  <2>2. Len(s) <= DequeSize \/ Len(s) <= c
    BY <2>1 DEF LinedUp
  <2>3. CASE Len(First(u, k)) <= DequeSize
    BY <1>10, <2>3 DEF LinedUp
  <2>4. CASE ~(Len(First(u, k)) <= DequeSize)
    BY <1>1, <1>2, <1>5, <1>10, <2>1, <2>2, <2>4 DEF LinedUp
  <2> QED
    BY <2>3, <2>4
<1> QED
  BY <1>11, <1>13

\* What a drain works on is such a deque.
LEMMA DrainHeld ==
  ASSUME PaperInv, LinedUp(tokens) PROVE LinedUp(DequeForBatch)
<1>1. CASE batch.on
  BY <1>1 DEF DequeForBatch
<1>2. CASE ~batch.on
  BY <1>2, LoadedHeld DEF DequeForBatch
<1> QED
  BY <1>1, <1>2

\* A launch is put in front of it, or not.
LEMMA IngestHolds ==
  ASSUME PaperInv, LinedUp(tokens), NEW wanted \in BOOLEAN, NEW fills \in BOOLEAN, NEW n,
         ingest_launch(wanted, fills, n)
  PROVE  LinedUp(tokens')
<1>1. PICK i : i = seen + 1
  OBVIOUS
<1>2. i \in Ids /\ seen \in Nat
  BY <1>1, PaperConstants DEF PaperInv, ingest_launch, Ids
<1>3. PICK buys \in BOOLEAN : buys = ((wanted /\ Cardinality(OpenForBatch) < MaxPositions) /\ fills)
  OBVIOUS
<1>4. PICK o : o = IF buys THEN Bought(i) ELSE [Blank(i) EXCEPT !.status = "skipped"]
  OBVIOUS
<1>5. o \in Tokens /\ o.id = i
  BY <1>2, <1>4, LaunchedIs
<1>6. tokens' \in {Appended(o, DequeForBatch), DequeForBatch}
  BY <1>1, <1>3, <1>4 DEF ingest_launch
<1>7. PICK s \in Seq(Tokens) : s = DequeForBatch /\ ToSet(s) \subseteq Known
  BY DrainFits
<1>8. \A p \in ToSet(s) : p.id # o.id
  <2>1. \A p \in Known : p.id <= seen /\ p.id \in Nat
    BY KnownFits DEF Copies, Tokens, Ids
  <2> QED
    BY <1>1, <1>2, <1>5, <1>7, <2>1
<1>9. LinedUp(s)
  BY <1>7, DrainHeld
<1>10. LinedUp(Appended(o, s))
  BY <1>5, <1>8, <1>9, AppendedHeld
<1> QED
  BY <1>6, <1>7, <1>9, <1>10

\* The operator's recovery makes it anew, or replaces some of its tokens.
LEMMA RecoveryHolds ==
  ASSUME PaperInv, LinedUp(tokens), NEW n, recover_open_paper_positions(n)
  PROVE  LinedUp(tokens')
<1>1. PICK O : O = {o \in Known : IsOpen(o)}
  OBVIOUS
<1>2. PICK ws, H, after :
        /\ n = Len(ws) => H = O
        /\ after = {o \in Known : o \notin H} \cup {Sold(o) : o \in H}
        /\ tokens' = IF n = Len(ws) THEN AsDeque(Newest(after)) ELSE Replace(tokens, after)
  <2>1. PICK K : K = {o \in O : o.id \in Numbers(Rows)}
    OBVIOUS
  <2>2. PICK order : order = Newest(K) \o Newest(O \ K)
    OBVIOUS
  <2>3. PICK ws : ws = SoldInTurn(order, RecoveredTables)
    OBVIOUS
  <2>4. PICK H : H = IF n = Len(ws) THEN O ELSE ToSet(SubSeq(order, 1, n \div 3 + 1))
    OBVIOUS
  <2>5. PICK after : after = {o \in Known : o \notin H} \cup {Sold(o) : o \in H}
    OBVIOUS
  <2>6. tokens' = IF n = Len(ws) THEN AsDeque(Newest(after)) ELSE Replace(tokens, after)
    BY <1>1, <2>1, <2>2, <2>3, <2>4, <2>5 DEF recover_open_paper_positions, Known
  <2> QED
    BY <2>4, <2>5, <2>6
<1>3. CASE n = Len(ws)
  <2>1. PICK P : P = {Sold(o) : o \in O}
    OBVIOUS
  <2>2. O \in SUBSET Known /\ H \in SUBSET O /\ after = (Known \ H) \cup {Sold(o) : o \in H}
    BY <1>1, <1>2, <1>3
  <2>3. AfterSale(after, O, H, P)
    BY <2>1, <2>2, SaleKeepsDeque
  <2>4. after \in SUBSET Tokens /\ UniqueIds(after)
    BY <2>3 DEF AfterSale
  <2>5. PICK t \in Seq(after) : t = Newest(after) /\ Line(t)
    BY <2>4, NewestHeld
  <2>6. Line(AsDeque(t)) /\ Len(AsDeque(t)) <= DequeSize
    BY <2>5, DequeHeld
  <2> QED
    BY <1>2, <1>3, <2>5, <2>6 DEF LinedUp
<1>4. CASE n # Len(ws)
  <2>1. PICK s \in Seq(Tokens) : s = tokens
    BY DEF PaperInv
  <2>2. Line(Replace(s, after)) /\ Len(Replace(s, after)) = Len(s)
    BY <2>1, ReplaceHeld DEF LinedUp
  <2> QED
    BY <1>2, <1>4, <2>1, <2>2 DEF LinedUp
<1> QED
  BY <1>3, <1>4

\* Every step leaves such a deque of what is counted now.
LEMMA StepHolds ==
  ASSUME PaperInv, LinedUp(tokens), [PaperNext]_paperVars
  PROVE  LinedUp(tokens')
<1>1. PICK s \in Seq(Tokens) : s = tokens /\ LinedUp(s)
  BY DEF PaperInv
<1>2. \A S : LinedUp(Replace(s, S))
  <2> SUFFICES ASSUME NEW S PROVE LinedUp(Replace(s, S))
    OBVIOUS
  <2>1. Line(Replace(s, S)) /\ Len(Replace(s, S)) = Len(s)
    BY <1>1, ReplaceHeld DEF LinedUp
  <2> QED
    BY <1>1, <2>1 DEF LinedUp
<1>3. CASE drain_begins \/ UNCHANGED paperVars
  <2>1. tokens' = tokens
    BY <1>3 DEF drain_begins, paperVars
  <2> QED
    BY <1>1, <2>1
<1>4. CASE drain_is_over \/ tick_is_over
  <2>1. tokens' = Loaded(tokens)
    BY <1>4 DEF drain_is_over, tick_is_over
  <2> QED
    BY <2>1, LoadedHeld
<1>5. CASE PaperStops
  <2>1. tokens' = <<>>
    BY <1>5 DEF PaperStops
  <2>2. Line(<<>>) /\ Len(<<>>) <= DequeSize
    BY PaperConstants DEF Line
  <2> QED
    BY <2>1, <2>2 DEF LinedUp
<1>6. ASSUME NEW wanted \in BOOLEAN, NEW fills \in BOOLEAN, NEW n \in 0..3,
             ingest_launch(wanted, fills, n)
      PROVE  LinedUp(tokens')
  BY <1>6, IngestHolds
<1>7. ASSUME NEW n \in 0..1, apply_observed_trade(n) PROVE LinedUp(tokens')
  <2>1. tokens' = DequeForBatch
    BY <1>7 DEF apply_observed_trade
  <2> QED
    BY <2>1, DrainHeld
<1>8. ASSUME NEW closes \in BOOLEAN, NEW held \in BOOLEAN, NEW n \in 0..3, tick(closes, held, n) PROVE LinedUp(tokens')
  <2>1. \E S : tokens' = Replace(tokens, S)
    BY <1>8 DEF tick
  <2> QED
    BY <1>1, <1>2, <2>1
<1>9. ASSUME NEW n \in 0..(3 * Launches), recover_open_paper_positions(n) PROVE LinedUp(tokens')
  BY <1>9, RecoveryHolds
<1>10. ASSUME NEW n \in 0..(3 * Launches), PaperStarts(n) PROVE LinedUp(tokens')
  <2>1. tokens' = tokens \/ \E S : tokens' = Replace(Hydrated, S)
    BY <1>10 DEF PaperStarts
  <2>2. PICK u \in Seq(Tokens) : u = Hydrated /\ LinedUp(u)
    BY HydratedFits, HydratedHeld DEF PaperInv
  <2>3. \A S : Line(Replace(u, S)) /\ Len(Replace(u, S)) = Len(u)
    BY <2>2, ReplaceHeld DEF LinedUp
  <2>4. \A S : LinedUp(Replace(u, S))
    BY <2>2, <2>3 DEF LinedUp
  <2> QED
    BY <1>1, <2>1, <2>2, <2>4
<1> QED
  BY <1>3, <1>4, <1>5, <1>6, <1>7, <1>8, <1>9, <1>10 DEF PaperNext

\* The tokens whose writes were cut short stay in that number.
LEMMA CutGrows ==
  ASSUME [PaperNext]_paperVars PROVE cut \subseteq cut'
<1>1. \A ws, n : Writes(ws, n) => cut \subseteq cut'
  BY DEF Writes
<1>2. CASE drain_begins \/ drain_is_over \/ tick_is_over \/ PaperStops \/ UNCHANGED paperVars
  BY <1>2 DEF drain_begins, drain_is_over, tick_is_over, PaperStops, paperVars
<1>3. ASSUME NEW wanted, NEW fills, NEW n, ingest_launch(wanted, fills, n) PROVE cut \subseteq cut'
  BY <1>1, <1>3 DEF ingest_launch
<1>4. ASSUME NEW n, apply_observed_trade(n) PROVE cut \subseteq cut'
  BY <1>1, <1>4 DEF apply_observed_trade
<1>5. ASSUME NEW closes, NEW held, NEW n, tick(closes, held, n) PROVE cut \subseteq cut'
  BY <1>1, <1>5 DEF tick
<1>6. ASSUME NEW n, recover_open_paper_positions(n) PROVE cut \subseteq cut'
  BY <1>1, <1>6 DEF recover_open_paper_positions
<1>7. ASSUME NEW n, PaperStarts(n) PROVE cut \subseteq cut'
  BY <1>1, <1>7 DEF PaperStarts
<1> QED
  BY <1>2, <1>3, <1>4, <1>5, <1>6, <1>7 DEF PaperNext

\* So the deque is such a one of what is counted then.
LEMMA DequeStaysHeld ==
  ASSUME PaperInv, PaperInv', LinedUp(tokens), [PaperNext]_paperVars
  PROVE  LinedUp(tokens)'
<1>1. PICK s \in Seq(Tokens) : s = tokens' /\ LinedUp(s)
  BY StepHolds DEF PaperInv
<1>2. PICK l \in Nat : l = Len(s)
  BY LenProperties
<1>3. PICK C, D : C = cut /\ D = cut' /\ C \subseteq D
  BY CutGrows
<1>4. IsFiniteSet(D)
  <2>1. PICK k \in Int : k = seen' /\ D \subseteq 1..k
    BY <1>3 DEF PaperInv
  <2>2. IsFiniteSet(1..k)
    BY FS_Interval
  <2> QED
    BY <2>1, <2>2, FS_Subset
<1>5. PICK c \in Nat, d \in Nat : c = Cardinality(C) /\ d = Cardinality(D) /\ c <= d
  <2>1. IsFiniteSet(C) /\ Cardinality(C) <= Cardinality(D)
    BY <1>3, <1>4, FS_Subset
  <2> QED
    BY <1>4, <2>1, FS_CardinalityType
<1>6. Line(s) /\ (l <= DequeSize \/ l <= MaxPositions + c)
  BY <1>1, <1>2, <1>3, <1>5 DEF LinedUp
<1>7. l <= DequeSize \/ l <= MaxPositions + d
  BY <1>5, <1>6, PaperConstants
<1>8. Line(tokens)'
  BY <1>1, <1>6 DEF Line
<1> QED
  BY <1>1, <1>2, <1>3, <1>5, <1>7, <1>8 DEF LinedUp

\* Where the loop stands, and what is left of its tick.
LoopTyped ==
    /\ loop \in {"idle", "drain", "tick", "dead"}
    /\ todo \in Seq(Ids) /\ (todo # <<>> => loop = "tick")
    /\ paper_faults \in 0..MaxPaperFaults

\* ... which every step keeps.
LEMMA LoopStaysTyped ==
  ASSUME PaperInv, LoopTyped, [PaperNext]_paperVars PROVE LoopTyped'
<1>1. ASSUME NEW ws, NEW n, Writes(ws, n) PROVE paper_faults' \in 0..MaxPaperFaults
  <2>1. PICK f \in {0, 1} : paper_faults' = paper_faults + f /\ paper_faults' <= MaxPaperFaults
    BY <1>1 DEF Writes
  <2> QED
    BY <2>1, PaperConstants DEF LoopTyped
<1>2. <<>> \in Seq(Ids)
  OBVIOUS
<1>3. CASE UNCHANGED paperVars
  BY <1>3 DEF LoopTyped, paperVars
<1>4. CASE drain_begins
  <2>1. loop' = "drain" /\ UNCHANGED <<todo, paper_faults>> /\ todo = <<>>
    BY <1>4 DEF LoopTyped, drain_begins
  <2> QED
    BY <2>1, <1>2 DEF LoopTyped
<1>5. CASE drain_is_over
  <2>1. PICK s \in Seq(Tokens) : s = Loaded(tokens)
    BY LoadedFits
  <2>2. loop' = "tick" /\ paper_faults' = paper_faults /\ todo' = [k \in DOMAIN s |-> s[k].id]
    BY <1>5, <2>1 DEF drain_is_over
  <2>3. todo' \in Seq(Ids)
    <3>1. PICK m \in Nat : m = Len(s)
      BY LenProperties
    <3>2. DOMAIN s = 1..m /\ \A k \in 1..m : s[k] \in Tokens
      BY <3>1, LenProperties, ElementOfSeq
    <3>3. todo' \in [1..m -> Ids]
      BY <2>2, <3>2 DEF Tokens
    <3> QED
      BY <3>3, SeqDef
  <2> QED
    BY <2>2, <2>3 DEF LoopTyped
<1>6. CASE tick_is_over
  <2>1. loop' = "idle" /\ todo = <<>> /\ UNCHANGED <<todo, paper_faults>>
    BY <1>6 DEF tick_is_over
  <2> QED
    BY <2>1, <1>2 DEF LoopTyped
<1>7. CASE PaperStops
  <2>1. loop' = "dead" /\ todo' = <<>> /\ paper_faults' = paper_faults + 1
        /\ paper_faults < MaxPaperFaults
    BY <1>7 DEF PaperStops
  <2>2. paper_faults' \in 0..MaxPaperFaults
    BY <2>1, PaperConstants DEF LoopTyped
  <2> QED
    BY <2>1, <2>2, <1>2 DEF LoopTyped
<1>8. ASSUME NEW wanted \in BOOLEAN, NEW fills \in BOOLEAN, NEW n \in 0..3,
             ingest_launch(wanted, fills, n)
      PROVE  LoopTyped'
  <2>1. \E ws : Writes(ws, n)
    BY <1>8 DEF ingest_launch
  <2>2. loop' \in {loop, "idle"} /\ loop = "drain" /\ todo' = todo
    BY <1>8 DEF ingest_launch
  <2>3. paper_faults' \in 0..MaxPaperFaults
    BY <1>1, <2>1
  <2> QED
    BY <2>2, <2>3 DEF LoopTyped
<1>9. ASSUME NEW n \in 0..1, apply_observed_trade(n) PROVE LoopTyped'
  <2>1. \E ws : Writes(ws, n)
    BY <1>9 DEF apply_observed_trade
  <2>2. loop' \in {loop, "idle"} /\ loop = "drain" /\ todo' = todo
    BY <1>9 DEF apply_observed_trade
  <2>3. paper_faults' \in 0..MaxPaperFaults
    BY <1>1, <2>1
  <2> QED
    BY <2>2, <2>3 DEF LoopTyped
<1>10. ASSUME NEW closes \in BOOLEAN, NEW held \in BOOLEAN, NEW n \in 0..3, tick(closes, held, n) PROVE LoopTyped'
  <2>1. \E ws : Writes(ws, n)
    BY <1>10 DEF tick
  <2>2. loop = "tick" /\ todo # <<>>
        /\ ((loop' = loop /\ todo' = Tail(todo)) \/ (loop' = "idle" /\ todo' = <<>>))
    BY <1>10 DEF tick
  <2>3. paper_faults' \in 0..MaxPaperFaults
    BY <1>1, <2>1
  <2>4. Tail(todo) \in Seq(Ids)
    BY <2>2, HeadTailProperties DEF LoopTyped
  <2> QED
    BY <1>2, <2>2, <2>3, <2>4 DEF LoopTyped
<1>11. ASSUME NEW n \in 0..(3 * Launches), recover_open_paper_positions(n) PROVE LoopTyped'
  <2>1. \E ws : Writes(ws, n)
    BY <1>11 DEF recover_open_paper_positions
  <2>2. UNCHANGED <<loop, todo>>
    BY <1>11 DEF recover_open_paper_positions
  <2>3. paper_faults' \in 0..MaxPaperFaults
    BY <1>1, <2>1
  <2> QED
    BY <2>2, <2>3 DEF LoopTyped
<1>12. ASSUME NEW n \in 0..(3 * Launches), PaperStarts(n) PROVE LoopTyped'
  <2>1. \E ws : Writes(ws, n)
    BY <1>12 DEF PaperStarts
  <2>2. loop' \in {loop, "idle"} /\ loop = "dead" /\ todo' = todo
    BY <1>12 DEF PaperStarts
  <2>3. paper_faults' \in 0..MaxPaperFaults
    BY <1>1, <2>1
  <2> QED
    BY <2>2, <2>3 DEF LoopTyped
<1> QED
  BY <1>3, <1>4, <1>5, <1>6, <1>7, <1>8, <1>9, <1>10, <1>11, <1>12 DEF PaperNext

\* A deque that holds no token twice holds as many as it is long.
LEMMA AsManyAsLong ==
  ASSUME NEW s \in Seq(Tokens), Line(s)
  PROVE  Cardinality(Numbers(ToSet(s))) = Len(s)
<1>1. PICK n \in Nat : n = Len(s)
  BY LenProperties
<1>2. DOMAIN s = 1..n
  BY <1>1, LenProperties
<1>3. PICK N : N = Numbers(ToSet(s))
  OBVIOUS
<1>4. N = {s[k].id : k \in 1..n}
  BY <1>2, <1>3 DEF Numbers, ToSet
<1>5. PICK f : f = [k \in 1..n |-> s[k].id]
  OBVIOUS
<1>6. f \in [1..n -> N] /\ (\A k \in 1..n : f[k] = s[k].id)
  BY <1>4, <1>5
<1>7. f \in Injection(1..n, N)
  <2>1. ASSUME NEW j \in DOMAIN f, NEW k \in DOMAIN f, f[j] = f[k] PROVE j = k
    <3>1. j \in DOMAIN s /\ k \in DOMAIN s /\ s[j].id = s[k].id
      BY <1>2, <1>6, <2>1
    <3> QED
      BY <3>1 DEF Line
  <2> QED
    BY <1>6, <2>1 DEF Injection, IsInjective
<1>8. f \in Surjection(1..n, N)
  BY <1>4, <1>6 DEF Surjection
<1>9. IsFiniteSet(1..n) /\ Cardinality(1..n) = n
  BY FS_Interval
<1>10. Cardinality(N) = n
  BY <1>7, <1>8, <1>9, FS_Surjection
<1> QED
  BY <1>1, <1>3, <1>10

\* All of it is what the type says.
LEMMA PaperIsTyped ==
  ASSUME PaperInv, LoopTyped, LinedUp(tokens) PROVE PaperTypeOK
<1>1. tokens \in Seq(Tokens) /\ Cardinality(Numbers(OnDeque)) = Len(tokens)
  BY AsManyAsLong DEF PaperInv, LinedUp, OnDeque
<1>2. Len(tokens) <= Max({DequeSize, MaxPositions + Cardinality(cut)})
  <2>1. PICK l \in Nat : l = Len(tokens)
    BY <1>1, LenProperties
  <2>2. Cardinality(cut) \in Nat
    BY OpenRowsAreFew
  <2>3. PICK d \in Nat, b \in Nat : d = DequeSize /\ b = MaxPositions + Cardinality(cut)
    BY <2>2, PaperConstants
  <2>4. \E m \in {d, b} : \A i \in {d, b} : m >= i
    OBVIOUS
  <2>5. PICK m \in {d, b} : m = Max({d, b}) /\ \A i \in {d, b} : m >= i
    BY <2>4 DEF Max
  <2>6. l <= d \/ l <= b
    BY <2>1, <2>3 DEF LinedUp
  <2>7. m \in Nat /\ m >= d /\ m >= b
    BY <2>5
  <2>8. l <= m
    BY <2>6, <2>7
  <2> QED
    BY <2>1, <2>3, <2>5, <2>8
<1>3. /\ DOMAIN store = {"tokens", "trades", "sessions"}
      /\ store.tokens \in [Ids -> Tokens]
      /\ {store.trades, store.sessions} \subseteq [Ids -> {"none", "open", "closed"}]
  BY DEF PaperInv, StoreTyped, Marks
<1> QED
  BY <1>1, <1>2, <1>3 DEF PaperInv, LoopTyped, PaperTypeOK

\* The loop starts so.
LEMMA LoopStartsTyped ==
  ASSUME PaperInit PROVE LoopTyped
<1>1. todo = <<>> /\ loop = "idle" /\ paper_faults = 0
  BY DEF PaperInit
<1>2. todo \in Seq(Ids) /\ 0 \in 0..MaxPaperFaults
  BY <1>1, PaperConstants
<1> QED
  BY <1>1, <1>2 DEF LoopTyped

\* Paper tokens, rows and loop are of their types: the deque has no token twice and is
\* no longer than _ensure_active_tokens_loaded and appendleft make it, which is its
\* maxlen only while no more positions than that are open.
THEOREM PaperTypeCorrect == PaperSpec => []PaperTypeOK
<1>1. PaperInit => PaperInv /\ LoopTyped /\ LinedUp(tokens)
  <2> SUFFICES ASSUME PaperInit PROVE PaperInv /\ LoopTyped /\ LinedUp(tokens)
    OBVIOUS
  <2>1. tokens = <<>>
    BY DEF PaperInit
  <2>2. LinedUp(tokens)
    <3>1. Line(<<>>) /\ Len(<<>>) <= DequeSize
      BY PaperConstants DEF Line
    <3> QED
      BY <2>1, <3>1 DEF LinedUp
  <2> QED
    BY <2>2, PositionsStart, LoopStartsTyped
<1>2. PaperInv /\ LoopTyped /\ LinedUp(tokens) /\ [PaperNext]_paperVars
      => PaperInv' /\ LoopTyped' /\ LinedUp(tokens)'
  BY StepKeepsPositions, LoopStaysTyped, DequeStaysHeld
<1>3. PaperInv /\ LoopTyped /\ LinedUp(tokens) => PaperTypeOK
  BY PaperIsTyped
<1> QED
  BY <1>1, <1>2, <1>3, PTL DEF PaperSpec

\* A tick that is through has written its position's row, and written what is further
\* than the copy it began with.
LEMMA TickMovesOn ==
  ASSUME PaperInv, LoopTyped, PaperNext, todo # <<>>, todo' = Tail(todo), loop' = "tick",
         NEW o \in OnDeque, o.id = Head(todo), IsOpen(o)
  PROVE  Progress(store.tokens[o.id]) < Progress(store'.tokens[o.id])
<1>1. loop = "tick"
  BY DEF LoopTyped
<1>2. PICK closes \in BOOLEAN, held \in BOOLEAN, n \in 0..3 : tick(closes, held, n)
  BY <1>1 DEF PaperNext, drain_begins, drain_is_over, tick_is_over, PaperStops, ingest_launch,
              apply_observed_trade, recover_open_paper_positions, PaperStarts
<1>2a. PICK q \in OnDeque : \E p, ws :
        /\ q.id = Head(todo)
        /\ held => q.ticks < HoldTicks
        /\ p = IF IsOpen(q) THEN Ticked(q, closes, held) ELSE q
        /\ ws = IF ~IsOpen(q) /\ store.tokens[q.id] = q THEN <<>>
                ELSE TokenRow(p) \o (IF IsOpen(q) /\ ~IsOpen(p) THEN TradeRows(p) ELSE <<>>)
        /\ Writes(ws, n)
        /\ n # Len(ws) => loop' = "idle"
  <2>1. PICK q \in OnDeque :
          /\ q.id = Head(todo)
          /\ held => q.ticks < HoldTicks
          /\ \E p \in {IF IsOpen(q) THEN Ticked(q, closes, held) ELSE q} :
                LET ws == IF ~IsOpen(q) /\ store.tokens[q.id] = q THEN <<>>
                          ELSE TokenRow(p) \o (IF IsOpen(q) /\ ~IsOpen(p) THEN TradeRows(p) ELSE <<>>)
                IN  /\ Writes(ws, n)
                    /\ tokens' = Replace(tokens, {p})
                    /\ IF n = Len(ws) THEN loop' = loop /\ todo' = Tail(todo)
                       ELSE loop' = "idle" /\ todo' = <<>>
    BY <1>2 DEF tick
  <2>2. PICK p : p = IF IsOpen(q) THEN Ticked(q, closes, held) ELSE q
    OBVIOUS
  <2>3. PICK ws : ws = IF ~IsOpen(q) /\ store.tokens[q.id] = q THEN <<>>
                       ELSE TokenRow(p) \o (IF IsOpen(q) /\ ~IsOpen(p) THEN TradeRows(p) ELSE <<>>)
    OBVIOUS
  <2>4. Writes(ws, n) /\ (n # Len(ws) => loop' = "idle")
    BY <2>1, <2>2, <2>3
  <2> QED
    BY <2>1, <2>2, <2>3, <2>4
<1>3. PICK p, ws :
        /\ q \in OnDeque
        /\ q.id = Head(todo)
        /\ held => q.ticks < HoldTicks
        /\ p = IF IsOpen(q) THEN Ticked(q, closes, held) ELSE q
        /\ ws = IF ~IsOpen(q) /\ store.tokens[q.id] = q THEN <<>>
                ELSE TokenRow(p) \o (IF IsOpen(q) /\ ~IsOpen(p) THEN TradeRows(p) ELSE <<>>)
        /\ Writes(ws, n)
        /\ n # Len(ws) => loop' = "idle"
  BY <1>2a
<1>4. q = o
  BY <1>3 DEF PaperInv, Copies, UniqueIds
<1>5. /\ o \in Tokens /\ o.id \in Ids /\ Behind(store.tokens[o.id], o)
      /\ StoreTyped
  BY DEF PaperInv, Copies, Tokens
<1>6. p \in Tokens /\ p.id = o.id /\ Progress(o) < Progress(p) /\ p = Ticked(o, closes, held)
  BY <1>3, <1>4, <1>5, TickedIs
<1>7. ws = TokenRow(p) \o (IF ~IsOpen(p) THEN TradeRows(p) ELSE <<>>)
  BY <1>3, <1>4
<1>8. RowsOf(ws, {p}) /\ Has(ws, "tokens", p)
  <2>1. CASE IsOpen(p)
    BY <1>6, <1>7, <2>1, OneRow
  <2>2. CASE ~IsOpen(p)
    BY <1>7, <2>2, ThreeRows DEF Tables
  <2> QED
    BY <2>1, <2>2
<1>9. n = Len(ws)
  BY <1>1, <1>3
<1>10. store'.tokens[p.id] = p
  <2>1. "tokens" \in Tables /\ p.id \in Ids
    BY <1>5, <1>6 DEF Tables
  <2>2. Row("tokens", p).table = "tokens" /\ Row("tokens", p).id = p.id /\ Row("tokens", p).row = p
    BY <1>6, <2>1, RowIs
  <2>3. PICK k \in 1..n : ws[k] = Row("tokens", p)
    BY <1>8, <1>9 DEF Has
  <2>4. PICK j \in 1..n : /\ ws[j].table = "tokens" /\ ws[j].id = p.id
                          /\ store'["tokens"][p.id] = ws[j].row
    <3>1. \/ /\ store'["tokens"][p.id] = store["tokens"][p.id]
             /\ \A j \in 1..n : ~(ws[j].table = "tokens" /\ ws[j].id = p.id)
          \/ \E j \in 1..n : /\ ws[j].table = "tokens" /\ ws[j].id = p.id
                              /\ store'["tokens"][p.id] = ws[j].row
      <4>1. PICK i \in Ids : i = p.id
        BY <2>1
      <4>2. StoreTyped /\ Writes(ws, n)
        BY <1>3, <1>5
      <4>3. \/ /\ store'["tokens"][i] = store["tokens"][i]
               /\ \A j \in 1..n : ~(ws[j].table = "tokens" /\ ws[j].id = i)
            \/ \E j \in 1..n : /\ ws[j].table = "tokens" /\ ws[j].id = i
                                /\ store'["tokens"][i] = ws[j].row
        BY <2>1, <4>2, WritesOne
      <4> QED
        BY <4>1, <4>3
    <3>2. ws[k].table = "tokens" /\ ws[k].id = p.id
      BY <2>2, <2>3
    <3> QED
      BY <3>1, <3>2
  <2>5. PICK t \in Tables : ws[j] = Row(t, p)
    BY <1>8, <1>9 DEF RowsOf
  <2>6. t = "tokens"
    BY <1>6, <2>4, <2>5, RowIs
  <2> QED
    BY <2>2, <2>4, <2>5, <2>6
<1>11. PICK r \in Tokens : r = store.tokens[o.id]
  BY <1>5 DEF StoreTyped
<1>12. Behind(o, p)
  BY <1>6 DEF Behind
<1>13. Progress(r) < Progress(p)
  BY <1>5, <1>6, <1>11, <1>12, FurtherBehind
<1> QED
  BY <1>6, <1>10, <1>11, <1>13

\* No row goes back, then, and the one that is ticked goes on.
LEMMA StepMovesOn ==
  ASSUME PaperInv, PaperInv', RowsMoveOn, LoopTyped, [PaperNext]_paperVars
  PROVE  [/\ \A i \in Ids : Progress(store.tokens[i]) <= Progress(store'.tokens[i])
          /\ todo # <<>> /\ todo' = Tail(todo) /\ loop' = "tick" =>
                \A o \in OnDeque : o.id = Head(todo) /\ IsOpen(o) =>
                   Progress(store.tokens[o.id]) < Progress(store'.tokens[o.id])]_paperVars
<1>1. ASSUME NEW i \in Ids PROVE Progress(store.tokens[i]) <= Progress(store'.tokens[i])
  <2>1. PICK a \in Tokens, b \in Tokens : a = store.tokens[i] /\ b = store'.tokens[i]
    BY DEF PaperInv, StoreTyped
  <2>2. Behind(a, b) /\ Behind(b, b)
    BY <2>1 DEF RowsMoveOn, Behind
  <2>3. Progress(a) <= Progress(b)
    BY <2>2, FurtherBehind
  <2> QED
    BY <2>1, <2>3
<1>2. CASE UNCHANGED paperVars
  BY <1>2
<1>3. CASE PaperNext
  BY <1>1, <1>3, TickMovesOn
<1> QED
  BY <1>2, <1>3

\* Paper positions keep to max_open_positions, their three rows agree on which of
\* them are open, and no row of theirs goes back, what was sold least of all, whatever
\* the interleaving of drains, ticks, the operator's recovery, raises and stops; a tick
\* that is through has moved its position on (drain_launch_queue, ingest_launch,
\* recover_open_paper_positions, _recover_orphaned_open_tokens).
THEOREM PositionsAreSoundAlways == PaperSpec => PositionsAreSound
<1>1. PaperInit => PaperInv /\ LoopTyped
  BY PositionsStart, LoopStartsTyped
<1>2. PaperInv /\ LoopTyped /\ [PaperNext]_paperVars => PaperInv' /\ LoopTyped' /\ RowsMoveOn
  BY StepKeepsPositions, LoopStaysTyped
<1>3. PaperInv => PositionsWithinCap /\ RowsAgree
  BY PositionsAreCounted DEF PaperInv
<1>4. PaperInv /\ LoopTyped /\ PaperInv' /\ RowsMoveOn /\ [PaperNext]_paperVars
      => [/\ \A i \in Ids : Progress(store.tokens[i]) <= Progress(store'.tokens[i])
          /\ todo # <<>> /\ todo' = Tail(todo) /\ loop' = "tick" =>
                \A o \in OnDeque : o.id = Head(todo) /\ IsOpen(o) =>
                   Progress(store.tokens[o.id]) < Progress(store'.tokens[o.id])]_paperVars
  BY StepMovesOn
<1> QED
  BY <1>1, <1>2, <1>3, <1>4, PTL DEF PaperSpec, PositionsAreSound, PositionsProgress

-----------------------------------------------------------------------------
(***************************************************************************)
(* What TLC runs of the two together.                                      *)
(***************************************************************************)

\* What the run checks is a behaviour of either, so that every theorem above
\* holds in it.
THEOREM BotLoopIsItsParts == LoopSpec => PatientSpec /\ PaperSpec
<1>1. LoopInit => Init /\ PaperInit
  BY DEF LoopInit
<1>2. [LoopNext]_LoopVars => [PatientNext]_vars /\ [PaperNext]_paperVars
  <2> SUFFICES ASSUME [LoopNext]_LoopVars PROVE [PatientNext]_vars /\ [PaperNext]_paperVars
    OBVIOUS
  <2>1. CASE Feeds(PatientNext)
    BY <2>1 DEF Feeds
  <2>2. CASE Paper(PaperNext)
    BY <2>2 DEF Paper
  <2>3. CASE UNCHANGED LoopVars
    BY <2>3 DEF LoopVars
  <2> QED
    BY <2>1, <2>2, <2>3 DEF LoopNext
<1> QED
  BY <1>1, <1>2, PTL DEF LoopSpec, PatientSpec, PaperSpec

\* Every variable of the two is of its type.
THEOREM BotLoopTypeCorrect == LoopSpec => []BotLoopTypeOK
  BY BotLoopIsItsParts, RuntimeTypeCorrect, PaperTypeCorrect, PTL DEF BotLoopTypeOK
=============================================================================
