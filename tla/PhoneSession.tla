------------------------------ MODULE PhoneSession ------------------------------
(***************************************************************************)
(* The session the phone keeps (mobile/src/core/session): credentials in   *)
(* one of two slots of the secure store, and a control record that says    *)
(* which slot counts, or that none does.  A mutation of the store is a     *)
(* series of awaited writes, each read back; any may fail, with its effect *)
(* or without, and the app may be killed between any two.  Mutations take  *)
(* turns; the provider's calls that order them overlap freely.             *)
(*                                                                         *)
(* A record stands for its savedAt, by which a control record names it.    *)
(* "former" is the record of an earlier version of the app, in the three   *)
(* legacy keys, one here, or in the first slot without a control record.   *)
(***************************************************************************)
EXTENDS Naturals, Sequences

CONSTANTS
    Logins,             \* calls of replaceSession, each with a record of its own
    Exits,              \* calls of clearSession or revokeSession
    MaxStoreFaults,     \* bound: failed operations of the store
    MaxKills            \* bound: times the app is killed

ASSUME PhoneSessionAssumption ==
    /\ {"none", "former", "broken", "start"} \cap (Logins \cup Exits) = {}
    /\ Logins \cap Exits = {}
    /\ {MaxStoreFaults, MaxKills} \subseteq Nat

VARIABLES
    store,              \* the secure store
    session,            \* stateRef and generationRef; shown: the state's own generation
    calls,              \* the provider's calls in flight
    turns,              \* mutationQueueRef: the calls whose mutation is due
    job,                \* the mutation at work
    settled,            \* history: what the last mutation left a restart to load
    strayed,            \* history: an overtaken call went on, and was not put right
    store_faults, kills

phoneVars == <<store, session, calls, turns, job, settled, strayed, store_faults, kills>>

Records == Logins \cup {"former"}
Callers == Logins \cup Exits \cup {"start"}
Keys == {"a", "b", "legacy"}
NoControl == [status |-> "none", generation |-> 0, slot |-> "none", saved |-> "none"]
Control == [status: {"none", "active", "cleared"}, generation: Nat,
            slot: {"none", "a", "b"}, saved: Records \cup {"none"}]
Active(n, slot, r) == [status |-> "active", generation |-> n, slot |-> slot, saved |-> r]
Cleared(n) == [status |-> "cleared", generation |-> n, slot |-> "none", saved |-> "none"]
Idle == [of |-> "none", step |-> "none", previous |-> NoControl, fails |-> "none"]

Steps == {"none", "read", "authority", "slot", "undo_slot", "verify", "last_tombstone", "control",
          "restore", "tombstone", "cleanup", "cleanup_all", "bootstrap", "migrate",
          "cleanup_slot", "landed", "undo", "redo", "end"}

PhoneTypeOK ==
    /\ store \in [control: Control, a: Records \cup {"none"}, b: Records \cup {"none"},
                  legacy: {"none", "former"}]
    /\ session \in [record: Records \cup {"none"}, shown: Nat, generation: Nat]
    /\ session.shown <= session.generation
    /\ calls \in [Callers -> [step: {"none", "leaving", "queued", "forgetting", "over"},
                              generation: Nat, previous: Records \cup {"none"}]]
    /\ turns \in Seq(Callers)
    /\ job \in [of: Callers \cup {"none"}, step: Steps, previous: Control,
                fails: {"none", "failed", "quarantined"}]
    /\ settled \in Records \cup {"none", "unknown"}
    /\ strayed \in BOOLEAN
    /\ store_faults \in 0..MaxStoreFaults /\ kills \in 0..MaxKills

\* What a start would load from a store that does not fail it.
Loads(s) ==
    IF s.control.status = "active"
    THEN IF s[s.control.slot] = s.control.saved THEN s.control.saved ELSE "broken"
    ELSE IF s.control.status = "cleared" THEN "none"
    ELSE IF s.legacy # "none" THEN s.legacy ELSE s.a

NotCalled == [step |-> "none", generation |-> 0, previous |-> "none"]
AtStart == [NotCalled EXCEPT !.step = "queued"]
NoSession == [record |-> "none", shown |-> 0, generation |-> 0]
PhoneInit ==
    /\ \E a, legacy \in {"none", "former"} :
          /\ a = "none" \/ legacy = "none"
          /\ store = [control |-> NoControl, a |-> a, b |-> "none", legacy |-> legacy]
          /\ settled = Loads(store)
    /\ session = NoSession
    /\ calls = [c \in Callers |-> IF c = "start" THEN AtStart ELSE NotCalled]
    /\ turns = <<"start">> /\ job = Idle
    /\ strayed = FALSE /\ store_faults = 0 /\ kills = 0

-----------------------------------------------------------------------------
(* The store's operations.  A failed one throws, whether it landed or not.  *)

MayFail == store_faults < MaxStoreFaults /\ store_faults' = store_faults + 1

\* writeControl, writeSlot, restoreControl, a delete that is verified.
Writes(new, next, otherwise) ==
    \/ store' = new /\ job' = next /\ UNCHANGED store_faults
    \/ MayFail /\ store' \in {store, new} /\ job' = otherwise

Reads(next, otherwise) ==
    /\ UNCHANGED store
    /\ \/ job' = next /\ UNCHANGED store_faults
       \/ MayFail /\ job' = otherwise

\* cleanupKeys: each delete on its own, and none of them is looked at.
Without(s, keys) == [k \in DOMAIN s |-> IF k \in keys THEN "none" ELSE s[k]]
CleansUp(keys, next) ==
    /\ job' = next
    /\ \/ store' = Without(store, keys) /\ UNCHANGED store_faults
       \/ MayFail /\ \E some \in SUBSET keys : some # keys /\ store' = Without(store, some)

AtStep(step) == job.step = step
To(step) == [job EXCEPT !.step = step]
\* The mutation will end in an error: of the ordinary kind, or SecureSessionRollbackError.
Failing(step) == [job EXCEPT !.step = step, !.fails = "failed"]
Quarantine(step) == [job EXCEPT !.step = step, !.fails = "quarantined"]
Step == UNCHANGED <<session, calls, turns, settled, strayed, kills>>

-----------------------------------------------------------------------------
(* save *)

\* Mutant: the new record is written over the one that counts.
SameSlot(control) == IF control.status = "active" THEN control.slot ELSE "a"
Target(control) == IF control.status = "active" /\ control.slot = "a" THEN "b" ELSE "a"
Tombstone == Cleared(job.previous.generation + 2)

\* A store without a control record gets one, for what a start would take as current.
FirstAuthority ==
    LET control == IF store.a # "none" THEN Active(1, "a", store.a) ELSE Cleared(1)
    IN  Writes([store EXCEPT !.control = control],
               [job EXCEPT !.step = "slot", !.previous = control], Failing("end"))

save(r) ==
    /\ job.of = r
    /\ Step
    /\ \/ AtStep("read") /\ Reads([job EXCEPT !.previous = store.control,
                                          !.step = IF store.control = NoControl THEN "authority" ELSE "slot"],
                              Failing("end"))
       \/ AtStep("authority") /\ FirstAuthority
       \/ AtStep("slot") /\ Writes([store EXCEPT ![Target(job.previous)] = r],
                               To("control"), Failing("undo_slot"))
       \/ AtStep("undo_slot") /\ Writes(Without(store, {Target(job.previous)}), To("end"), To("verify"))
       \/ AtStep("verify") /\ Reads(To("end"), Quarantine("last_tombstone"))
       \/ AtStep("last_tombstone") /\ Writes([store EXCEPT !.control = Tombstone], To("end"), To("end"))
       \/ AtStep("control") /\ Writes([store EXCEPT !.control = Active(job.previous.generation + 1,
                                                                   Target(job.previous), r)],
                                  To("end"), Failing("restore"))
       \/ AtStep("restore") /\ Writes([store EXCEPT !.control = job.previous],
                                  To("cleanup"), Quarantine("tombstone"))
       \/ AtStep("tombstone") /\ Writes([store EXCEPT !.control = Tombstone], To("cleanup"), To("cleanup"))
       \/ AtStep("cleanup") /\ CleansUp({Target(job.previous)}, To("end"))

-----------------------------------------------------------------------------
(* clear, loadOrMigrate *)

ClearSteps(x) ==
    \/ AtStep("read") /\ Reads([job EXCEPT !.previous = store.control, !.step = "tombstone"], Failing("end"))
    \/ AtStep("tombstone") /\ Writes([store EXCEPT !.control = Cleared(job.previous.generation + 1)],
                                 To("cleanup"), Failing("end"))
    \/ AtStep("cleanup") /\ CleansUp(Keys, To("end"))

clear(x) == job.of = x /\ Step /\ ClearSteps(x)

Migrated == Active(1, "a", "former")

loadOrMigrate ==
    /\ job.of = "start"
    /\ Step
    /\ \/ AtStep("read") /\ Reads(CASE store.control.status = "cleared" -> To("cleanup_all")
                                [] store.control.status = "active" -> To("slot")
                                [] store.control = NoControl /\ store.legacy # "none" -> To("migrate")
                                [] store.control = NoControl /\ store.legacy = "none" /\ store.a # "none"
                                     -> To("bootstrap")
                                [] OTHER -> To("end"),
                              Failing("end"))
       \/ AtStep("cleanup_all") /\ CleansUp(Keys, To("end"))
       \/ AtStep("slot") /\ Reads(IF Loads(store) = "broken" THEN Failing("end") ELSE To("cleanup"),
                              Failing("end"))
       \/ AtStep("bootstrap") /\ Writes([store EXCEPT !.control = Active(1, "a", store.a)],
                                    To("slot"), Failing("end"))
       \/ AtStep("migrate") /\ Writes([store EXCEPT !.a = "former"], To("control"), Failing("cleanup_slot"))
       \/ AtStep("cleanup_slot") /\ CleansUp({"a"}, To("end"))
       \/ AtStep("control") /\ Writes([store EXCEPT !.control = Migrated], To("cleanup"), To("landed"))
       \/ AtStep("landed") /\ Reads(IF store.control = Migrated THEN To("cleanup") ELSE To("undo"), To("undo"))
       \/ AtStep("undo") /\ Writes([store EXCEPT !.control = NoControl], Failing("end"), To("redo"))
       \/ AtStep("redo") /\ Writes([store EXCEPT !.control = Migrated], To("cleanup"), Quarantine("end"))
       \/ AtStep("cleanup") /\ CleansUp({"legacy"}, To("end"))

-----------------------------------------------------------------------------
(* The provider *)

Current(c) == calls[c].generation = session.generation
Ended(c) == [calls EXCEPT ![c].step = "over"]
Overtakes(c, step) ==
    calls' = [calls EXCEPT ![c] = [step |-> step, generation |-> session.generation + 1,
                                   previous |-> session.record]]

\* The pairing screen passes the generation it saw.
replaceSession(r) ==
    /\ calls[r].step = "none" /\ session.shown = session.generation
    /\ Overtakes(r, "queued")
    /\ session' = [session EXCEPT !.shown = session.generation + 1, !.generation = session.generation + 1]
    /\ turns' = Append(turns, r)
    /\ UNCHANGED <<store, job, settled, strayed, store_faults, kills>>

\* The record is shown until it is cleared; a revoked one goes at once.
clearSession(x, revoked) ==
    /\ calls[x].step = "none" /\ session.record # "none"
    /\ Overtakes(x, "leaving")
    /\ session' = [record |-> IF revoked THEN "none" ELSE session.record,
                  shown |-> session.generation + 1, generation |-> session.generation + 1]
    /\ UNCHANGED <<store, turns, job, settled, strayed, store_faults, kills>>

\* After bestEffortUnregister and bestEffortClearVerifiedSnapshot; whether a
\* newer call came meanwhile is not asked.
clear_is_due(x) ==
    /\ calls[x].step = "leaving"
    /\ calls' = [calls EXCEPT ![x].step = "queued"]
    /\ turns' = Append(turns, x)
    /\ strayed' = (strayed \/ ~Current(x))
    /\ UNCHANGED <<store, session, job, settled, store_faults, kills>>

mutation_begins ==
    /\ job = Idle /\ turns # <<>>
    /\ job' = [Idle EXCEPT !.of = Head(turns), !.step = "read"]
    /\ turns' = Tail(turns)
    /\ UNCHANGED <<store, session, calls, settled, strayed, store_faults, kills>>

\* What the mutation says a restart will find.
Word(c) ==
    CASE job.fails = "none" /\ c \in Logins -> c
      [] job.fails = "none" /\ c \in Exits -> "none"
      [] job.fails = "none" /\ c = "start" -> Loads(store)
      [] job.fails = "failed" /\ c \in Logins -> settled
      [] OTHER -> "unknown"

\* A replaced session is forgotten first: its snapshot, its push token.
Replaces(c) == c \in Logins /\ calls[c].previous # "none"

NoneBut(c) == \A d \in Callers \ {c} : calls[d].step \in {"none", "over"}

mutation_ends ==
    /\ AtStep("end")
    /\ job' = Idle
    /\ settled' = Word(job.of)
    /\ LET c == job.of
           saved == c \in Logins /\ job.fails = "none"
           found == IF c = "start" THEN Loads(store) ELSE IF c \in Logins THEN c ELSE "none"
       IN  /\ strayed' = IF Current(c) /\ job.fails = "none" /\ NoneBut(c) THEN FALSE
                         ELSE strayed \/ (~Current(c) /\ job.fails = "none")
           /\ calls' = IF saved /\ Current(c) /\ Replaces(c)
                       THEN [calls EXCEPT ![c].step = "forgetting"] ELSE Ended(c)
           /\ \/ ~Current(c) /\ UNCHANGED session
              \/ /\ Current(c)
                 /\ LET n == IF c = "start" THEN session.generation + 1 ELSE session.generation
                    IN  session' =
                          [record |-> IF job.fails = "none" /\ ~Replaces(c) THEN found
                                      ELSE IF job.fails = "quarantined" THEN "none"
                                      ELSE session.record,
                           shown |-> n, generation |-> n]
    /\ UNCHANGED <<store, turns, store_faults, kills>>

\* After the awaits of the forgetting; the generation is not compared again.
replaced_is_forgotten(r) ==
    /\ calls[r].step = "forgetting"
    /\ calls' = Ended(r)
    /\ session' = [session EXCEPT !.record = r, !.shown = calls[r].generation]
    /\ strayed' = (strayed \/ ~Current(r))
    /\ UNCHANGED <<store, turns, job, settled, store_faults, kills>>

\* The app is killed, or the phone restarts, and the app is opened again.
PhoneKill ==
    /\ kills < MaxKills
    /\ kills' = kills + 1
    /\ session' = NoSession
    /\ calls' = [c \in Callers |-> IF c = "start" THEN AtStart
                                   ELSE IF calls[c].step = "none" THEN calls[c]
                                   ELSE [NotCalled EXCEPT !.step = "over"]]
    /\ turns' = <<"start">> /\ job' = Idle
    /\ settled' = IF Loads(store) = "broken" THEN "unknown" ELSE Loads(store)
    /\ strayed' = FALSE
    /\ UNCHANGED <<store, store_faults>>

PhoneNext ==
    \/ \E r \in Logins : replaceSession(r) \/ save(r) \/ replaced_is_forgotten(r)
    \/ \E x \in Exits : clear_is_due(x) \/ clear(x) \/ \E revoked \in BOOLEAN : clearSession(x, revoked)
    \/ mutation_begins \/ loadOrMigrate \/ mutation_ends \/ PhoneKill

PhoneSpec == PhoneInit /\ [][PhoneNext]_phoneVars

-----------------------------------------------------------------------------
(* Properties *)

\* After a mutation a restart loads what the app was told: the new record, or
\* the former one if it could not be saved, or none.
WordIsKept == job = Idle /\ settled # "unknown" => Loads(store) = settled

\* Killed in the middle of a mutation, the app finds the former session or the
\* new one, unless it has been given up for quarantine.
KillIsHarmless ==
    job # Idle /\ settled # "unknown" /\ job.fails # "quarantined" =>
        Loads(store) \in {settled} \cup (IF job.of \in Logins THEN {job.of}
                                         ELSE IF job.of \in Exits THEN {"none"} ELSE {})

\* When nothing is in flight, the app shows the session a restart would load,
\* unless a call that was overtaken went on and none has put it right since.
SessionTellsStore ==
    /\ NoneBut("start") /\ calls["start"].step = "over"
    /\ settled # "unknown" /\ ~strayed
    => session.record = Loads(store)

\* A cleared session does not come back: a tombstone gives way only to a save.
ClearedStaysCleared ==
    [][store.control.status = "cleared" /\ Loads(store)' # "none" =>
          job.of \in Logins /\ Loads(store)' = job.of]_phoneVars

\* The store and the screen tell the same session, through failed writes, kills
\* and calls that overlap (save, clear, loadOrMigrate, SessionProvider).
SessionIsDurable ==
    /\ [](WordIsKept /\ KillIsHarmless /\ SessionTellsStore)
    /\ ClearedStaysCleared
=============================================================================
